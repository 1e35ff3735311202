---------------------------- MODULE RunLifecycle ----------------------------
(***************************************************************************)
(* The life of the runs of one daemon: core/run-service.ts, the rows it    *)
(* writes through db/postgres/repositories.ts, the Claude CLI processes it *)
(* spawns, and the startup and shutdown of index.ts.                       *)
(*                                                                         *)
(* The daemon is one Node process.  A callback and the promise reactions   *)
(* that follow it without I/O run without interruption, so an action is    *)
(* what the code does from one await on I/O (or timer, or child event) to  *)
(* the next.  Four activities of the same run interleave: startRun, the    *)
(* finishRun that whoever comes first begins, the child process, and the   *)
(* requests and timers that end the run early.                             *)
(***************************************************************************)
EXTENDS RunQueue

CONSTANTS
    MaxQueueSize,   \* config.server.maxQueueSize
    MaxRestarts     \* bound: how often the daemon process ends

ASSUME LifecycleAssumption ==
    /\ MaxQueueSize \in Nat
    /\ MaxRestarts \in Nat

VARIABLES
    state,          \* the RunState of each run, lost with the process
    creating,       \* createRun calls whose insert transaction is in flight
    nextSequence,
    dispatchTimer,  \* the zero-delay timer of scheduleDispatch is set
    daemon,         \* the phase of the process, see Phase
    pending,        \* shutdownActive: runs it has still to settle
    awaited,        \* shutdownActive: the run whose finish it is waiting for, if any
    row,            \* the database: the row of each run and its deliveries
    child,          \* the Claude CLI process of each run
    restarts

memory == <<state, creating, nextSequence, dispatchTimer, pending, awaited>>
vars == <<memory, daemon, row, child, restarts>>

TerminalStatus == {"succeeded", "failed", "canceled", "interrupted"}
RunStatus == {"queued", "running"} \cup TerminalStatus

(* Where startRun is: the I/O it waits for. *)
StartPoint == {"none", "mark", "message", "logs", "skill", "compose", "probe", "returned"}

(* Where finishRun is; "message" and later: the 'end' event is out. *)
FinishPoint == {"none", "artifacts", "logs", "message", "commit", "done"}

(* queueStatus; "absent": the run is not in the states map. *)
QueueStatus == {"absent", "queued", "starting", "running", "finishing", "terminal"}

(* The final status finishRun works with, and whether there is one yet. *)
Result == {"none", "succeeded", "failed", "canceled", "interrupted"}

RunState == [queue : QueueStatus,
             seq : Nat,
             start : StartPoint,
             finish : FinishPoint,
             result : Result,
             runner : {"null", "active", "canceling", "completed"},
             timer : BOOLEAN,
             logOpen : BOOLEAN]

NoState == [queue |-> "absent", seq |-> 0, start |-> "none", finish |-> "none",
            result |-> "none", runner |-> "null", timer |-> FALSE, logOpen |-> FALSE]

Rows == [status : {"absent"} \cup RunStatus,
         deliveries : SUBSET RunStatus]         \* webhook_deliveries, one per status

(* "closing": a signal came, and server.close waits for the connections that *)
(* are open; "draining": shutdownActive is working; "stopping": the webhook  *)
(* service and the database pool are being closed.                           *)
Phase == {"up", "closing", "draining", "stopping", "down"}

(* The domains of the variables: what RunState and the rows can hold. *)
TypeOK ==
    /\ state \in [Runs -> RunState]
    /\ creating \subseteq Runs
    /\ nextSequence \in Nat
    /\ dispatchTimer \in BOOLEAN
    /\ daemon \in Phase
    /\ pending \subseteq Runs
    /\ awaited \subseteq Runs
    /\ row \in [Runs -> Rows]
    /\ child \in [Runs -> {"none", "alive", "dead"}]
    /\ restarts \in Nat

(* state.terminal and state.finishing: when the final transaction is through, *)
(* and from the first statement of finishRun until then.                      *)
Terminal(r) == state[r].finish = "done"
Finishing(r) == state[r].finish \notin {"none", "done"}
Untouched(s) == s.finish = "none"

Queued == {r \in Runs : state[r].queue = "queued"}
Busy == {r \in Runs : state[r].queue \in CapacityConsuming}
Sequence == [r \in Runs |-> state[r].seq]
Known == {r \in Runs : state[r].queue # "absent"}

Init ==
    /\ state = [r \in Runs |-> NoState]
    /\ creating = {}
    /\ nextSequence = 1
    /\ dispatchTimer = FALSE
    /\ daemon = "up"
    /\ pending = {}
    /\ awaited = {}
    /\ row = [r \in Runs |-> [status |-> "absent", deliveries |-> {}]]
    /\ child = [r \in Runs |-> "none"]
    /\ restarts = 0

-----------------------------------------------------------------------------
(* What the operations have in common. *)

Running == daemon # "down"

(* The run service does not know of a signal before shutdownActive. *)
Serving == daemon \in {"up", "closing"}

ScheduleDispatch == dispatchTimer' = (dispatchTimer \/ Serving)

(* The run row takes a status and, in the same transaction, the delivery of *)
(* that status is queued; a second one for the same status is dropped.      *)
WriteStatus(rec, status) ==
    [rec EXCEPT !.status = status, !.deliveries = @ \cup {status}]

(* The end event follows the closing of the logs, which takes I/O only if  *)
(* there is an open log.                                                   *)
AfterArtifacts(s) == IF s.logOpen THEN "logs" ELSE "message"

(* A fault: finishRun does not look whether the run is already finishing.  *)
FinishAgain(s, status, finalizeArtifacts) ==
    [s EXCEPT !.finish = IF finalizeArtifacts THEN "artifacts" ELSE AfterArtifacts(s),
              !.result = status,
              !.queue = "finishing",
              !.timer = FALSE]

(* finishRun up to its first await: nothing when the run is already       *)
(* terminal or finishing, whatever the status asked for.                  *)
Finish(s, status, finalizeArtifacts) ==
    IF ~Untouched(s) THEN s
    ELSE [s EXCEPT !.finish = IF finalizeArtifacts THEN "artifacts" ELSE AfterArtifacts(s),
                   !.result = status,
                   !.queue = "finishing",
                   !.timer = FALSE]

(* runner.cancel(): asks a child that has not completed to stop. *)
CancelRunner(s) == [s EXCEPT !.runner = IF @ = "active" THEN "canceling" ELSE @]

(* The handler of runner.completed; a daemon that is shutting down leaves *)
(* the run to shutdownActive.                                             *)
RunnerCompleted(s, status) ==
    LET c == [s EXCEPT !.runner = "completed"]
    IN  IF Serving THEN Finish(c, status, status # "canceled") ELSE c

-----------------------------------------------------------------------------
(* createRun and the dispatcher. *)

CanStartNewRun(r, seq) ==
    \E S \in SUBSET (Queued \cup {r}) :
        /\ r \in S
        /\ IsSelection(S, Queued \cup {r}, Busy, [Sequence EXCEPT ![r] = seq])

(* The last check of createRun, and the statements before the insert is awaited. *)
CreateRun(r) ==
    /\ Running
    /\ row[r].status = "absent"
    /\ r \notin creating
    /\ CanStartNewRun(r, nextSequence) \/ Cardinality(Queued) < MaxQueueSize
    /\ state' = [state EXCEPT ![r].seq = nextSequence]
    /\ nextSequence' = nextSequence + 1
    /\ creating' = creating \cup {r}
    /\ UNCHANGED <<dispatchTimer, daemon, pending, awaited, row, child, restarts>>

(* The insert commits, and the run enters the states map. *)
InsertRun(r) ==
    /\ Running
    /\ r \in creating
    /\ creating' = creating \ {r}
    /\ row' = [row EXCEPT ![r] = [status |-> "queued", deliveries |-> {"queued"}]]
    /\ state' = [state EXCEPT ![r].queue = "queued"]
    /\ ScheduleDispatch
    /\ UNCHANGED <<nextSequence, daemon, pending, awaited, child, restarts>>

(* dispatchQueuedRuns: the selected runs enter startRun, up to its first await. *)
Dispatch ==
    /\ Serving
    /\ dispatchTimer
    /\ dispatchTimer' = FALSE
    /\ \E S \in SUBSET Queued :
        /\ IsSelection(S, Queued, Busy, Sequence)
        /\ state' = [r \in Runs |->
                        IF r \in S
                        THEN [state[r] EXCEPT !.queue = "starting", !.start = "mark"]
                        ELSE state[r]]
    /\ UNCHANGED <<creating, nextSequence, daemon, pending, awaited, row, child, restarts>>

-----------------------------------------------------------------------------
(* startRun. *)

At(r, point) ==
    /\ Running
    /\ state[r].start = point

(* updateRunStarted and the 'running' delivery commit; whatever happened to *)
(* the run meanwhile, its row and its queueStatus become running.  The pool *)
(* has ten connections and the row is written by its id only, so the final  *)
(* transaction of a run that was ended meanwhile may have committed before. *)
MarkRunning(r) ==
    /\ At(r, "mark")
    /\ row' = [row EXCEPT ![r] = WriteStatus(@, "running")]
    /\ state' = [state EXCEPT ![r].start = "message",
                              ![r].queue = IF @ = "absent" THEN @ ELSE "running"]
    /\ UNCHANGED <<creating, nextSequence, dispatchTimer, daemon, pending, awaited, child, restarts>>

MessageStarted(r) ==
    /\ At(r, "message")
    /\ state' = [state EXCEPT ![r].start = "logs"]
    /\ UNCHANGED <<creating, nextSequence, dispatchTimer, daemon, pending, awaited, row, child, restarts>>

(* The log files are open; the run timeout starts; then comes the skill, if *)
(* the run has one.                                                         *)
LogsOpened(r) ==
    /\ At(r, "logs")
    /\ \E next \in {"skill", "compose"} :
        state' = [state EXCEPT ![r].start = next, ![r].logOpen = TRUE, ![r].timer = TRUE]
    /\ UNCHANGED <<creating, nextSequence, dispatchTimer, daemon, pending, awaited, row, child, restarts>>

(* A step of startRun fails the run (finishRun without artifacts) and returns. *)
StartFails(r) == state' = [state EXCEPT ![r] = [Finish(@, "failed", FALSE) EXCEPT !.start = "returned"]]

(* The skill is resolved and staged; terminal is checked after each await. *)
SkillReady(r) ==
    /\ At(r, "skill")
    /\ \/ StartFails(r)
       \/ state' = [state EXCEPT ![r].start = IF Terminal(r) THEN "returned" ELSE "compose"]
    /\ UNCHANGED <<creating, nextSequence, dispatchTimer, daemon, pending, awaited, row, child, restarts>>

(* The conversation is read, the prompt composed and the snapshots written. *)
PromptReady(r) ==
    /\ At(r, "compose")
    /\ \/ StartFails(r)
       \/ state' = [state EXCEPT ![r].start = "probe"]
    /\ UNCHANGED <<creating, nextSequence, dispatchTimer, daemon, pending, awaited, row, child, restarts>>

(* The capabilities are known.  Only terminal is checked before the child  *)
(* is spawned; a spawn that throws completes the runner at once.           *)
Spawn(r) ==
    /\ At(r, "probe")
    /\ \/ /\ Terminal(r)
          /\ state' = [state EXCEPT ![r].start = "returned"]
          /\ UNCHANGED child
       \/ /\ ~Terminal(r)
          /\ state' = [state EXCEPT ![r].start = "returned", ![r].runner = "active"]
          /\ child' = [child EXCEPT ![r] = "alive"]
       \/ /\ ~Terminal(r)
          /\ state' = [state EXCEPT ![r] =
                          [RunnerCompleted(@, "failed") EXCEPT !.start = "returned"]]
          /\ UNCHANGED child
    /\ UNCHANGED <<creating, nextSequence, dispatchTimer, daemon, pending, awaited, row, restarts>>

-----------------------------------------------------------------------------
(* The child process and its runner. *)

(* The process ends: by itself, or after runner.cancel() or a kill.  It    *)
(* outlives a daemon that crashed and a runner that completed before it.   *)
ChildExits(r) ==
    /\ child[r] = "alive"
    /\ child' = [child EXCEPT ![r] = "dead"]
    /\ \/ /\ state[r].runner = "active"
          /\ \E status \in {"succeeded", "failed"} :
                state' = [state EXCEPT ![r] = RunnerCompleted(@, status)]
       \/ /\ state[r].runner = "canceling"
          /\ state' = [state EXCEPT ![r] = RunnerCompleted(@, "canceled")]
       \/ /\ state[r].runner \in {"null", "completed"}
          /\ UNCHANGED state
    /\ UNCHANGED <<creating, nextSequence, dispatchTimer, daemon, pending, awaited, row, restarts>>

(* The runner gives up before the process has ended: inactivity, an error  *)
(* of the process or of its stdin.                                         *)
RunnerFails(r) ==
    /\ Running
    /\ state[r].runner \in {"active", "canceling"}
    /\ state' = [state EXCEPT ![r] = RunnerCompleted(@, "failed")]
    /\ UNCHANGED <<creating, nextSequence, dispatchTimer, daemon, pending, awaited, row, child, restarts>>

(* timeoutRun: the run is finished at once, the child is asked to stop. *)
RunTimeout(r) ==
    /\ Running
    /\ state[r].timer
    /\ state' = [state EXCEPT ![r] =
                    LET fired == [@ EXCEPT !.timer = FALSE]
                    IN  IF Terminal(r) THEN fired
                        ELSE Finish(CancelRunner(fired), "failed", FALSE)]
    /\ UNCHANGED <<creating, nextSequence, dispatchTimer, daemon, pending, awaited, row, child, restarts>>

(* cancelRun past its database read: without a runner the run is finished  *)
(* here, with one the child is asked to stop.                              *)
CancelRun(r) ==
    /\ Running
    /\ r \in Known
    /\ Untouched(state[r])
    /\ \/ /\ state[r].runner = "null"
          /\ state' = [state EXCEPT ![r] = Finish(@, "canceled", FALSE)]
          /\ ScheduleDispatch
       \/ /\ state[r].runner # "null"
          /\ state' = [state EXCEPT ![r] = [CancelRunner(@) EXCEPT !.timer = FALSE]]
          /\ UNCHANGED dispatchTimer
    /\ UNCHANGED <<creating, nextSequence, daemon, pending, awaited, row, child, restarts>>

-----------------------------------------------------------------------------
(* finishRun, after its first await. *)

(* The artifacts are scanned: a missing required one, or a failing scan,   *)
(* turns the result into failed.                                           *)
ArtifactsFinalized(r) ==
    /\ Running
    /\ state[r].finish = "artifacts"
    /\ \E status \in {state[r].result, "failed"} :
        state' = [state EXCEPT ![r].finish = AfterArtifacts(state[r]), ![r].result = status]
    /\ UNCHANGED <<creating, nextSequence, dispatchTimer, daemon, pending, awaited, row, child, restarts>>

LogsClosed(r) ==
    /\ Running
    /\ state[r].finish = "logs"
    /\ state' = [state EXCEPT ![r].finish = "message", ![r].logOpen = FALSE]
    /\ UNCHANGED <<creating, nextSequence, dispatchTimer, daemon, pending, awaited, row, child, restarts>>

MessageTerminal(r) ==
    /\ Running
    /\ state[r].finish = "message"
    /\ state' = [state EXCEPT ![r].finish = "commit"]
    /\ UNCHANGED <<creating, nextSequence, dispatchTimer, daemon, pending, awaited, row, child, restarts>>

(* A fault: nobody is told that a slot is free. *)
CommitTerminalSilently(r) ==
    /\ Running
    /\ state[r].finish = "commit"
    /\ row' = [row EXCEPT ![r] = WriteStatus(@, state[r].result)]
    /\ state' = [state EXCEPT ![r].finish = "done", ![r].queue = "terminal"]
    /\ UNCHANGED <<creating, nextSequence, dispatchTimer, daemon, pending, awaited, child, restarts>>

(* updateRunTerminal and the delivery of the final status commit. *)
CommitTerminal(r) ==
    /\ Running
    /\ state[r].finish = "commit"
    /\ row' = [row EXCEPT ![r] = WriteStatus(@, state[r].result)]
    /\ state' = [state EXCEPT ![r].finish = "done", ![r].queue = "terminal"]
    /\ ScheduleDispatch
    /\ UNCHANGED <<creating, nextSequence, daemon, pending, awaited, child, restarts>>

(* The event buffer's TTL is over and the run leaves the states map.  (A   *)
(* run that ends during the shutdown has no such timer in the code.)       *)
Cleanup(r) ==
    /\ Running
    /\ Terminal(r)
    /\ r \in Known
    /\ state' = [state EXCEPT ![r].queue = "absent"]
    /\ UNCHANGED <<creating, nextSequence, dispatchTimer, daemon, pending, awaited, row, child, restarts>>

-----------------------------------------------------------------------------
(* Shutdown, crash and startup. *)

(* The handler of SIGINT and SIGTERM up to its first await; a second signal *)
(* finds no handler, which is a Crash.                                      *)
CloseServer ==
    /\ daemon = "up"
    /\ restarts < MaxRestarts
    /\ restarts' = restarts + 1
    /\ daemon' = "closing"
    /\ UNCHANGED <<memory, row, child>>

(* The server is closed; shutdownActive up to its first await: children are *)
(* asked to stop.                                                           *)
Shutdown ==
    LET open == {r \in Known : ~Terminal(r)} IN
    /\ daemon = "closing"
    /\ daemon' = "draining"
    /\ dispatchTimer' = FALSE
    /\ pending' = open
    /\ awaited' = {}
    /\ state' = [r \in Runs |-> IF r \in open /\ Untouched(state[r])
                                THEN [CancelRunner(state[r]) EXCEPT !.timer = FALSE]
                                ELSE state[r]]
    /\ UNCHANGED <<creating, nextSequence, row, child, restarts>>

(* Faults: only runs with a runner are finished, a queued one is left to   *)
(* the dispatcher; the finish of a run is not waited for.                  *)
InterruptNextWithRunner(r) ==
    /\ daemon = "draining"
    /\ r \in pending
    /\ awaited = {}
    /\ awaited' = {r}
    /\ state' = [state EXCEPT ![r] =
                    IF @.runner # "null" THEN Finish(@, "interrupted", FALSE) ELSE @]
    /\ UNCHANGED <<creating, nextSequence, dispatchTimer, daemon, pending, row, child, restarts>>

SettledUnfinished(r) ==
    /\ daemon = "draining"
    /\ r \in awaited
    /\ awaited' = {}
    /\ pending' = pending \ {r}
    /\ UNCHANGED <<state, creating, nextSequence, dispatchTimer, daemon, row, child, restarts>>

(* The grace period is over, or the children have ended: one run after the *)
(* other is finished as interrupted; one that is already being finished    *)
(* keeps its result and is waited for.  The code goes through the runs in  *)
(* the order of the states map, here it is any order.                      *)
InterruptNext(r) ==
    /\ daemon = "draining"
    /\ r \in pending
    /\ awaited = {}
    /\ awaited' = {r}
    /\ state' = [state EXCEPT ![r] = Finish(@, "interrupted", FALSE)]
    /\ UNCHANGED <<creating, nextSequence, dispatchTimer, daemon, pending, row, child, restarts>>

Settled(r) ==
    /\ daemon = "draining"
    /\ r \in awaited
    /\ Terminal(r)
    /\ awaited' = {}
    /\ pending' = pending \ {r}
    /\ UNCHANGED <<state, creating, nextSequence, dispatchTimer, daemon, row, child, restarts>>

(* shutdownActive resolves, and the webhook service and the pool are closed; *)
(* a transaction that is under way commits meanwhile or never.               *)
ShutdownResolves ==
    /\ daemon = "draining"
    /\ pending = {}
    /\ daemon' = "stopping"
    /\ UNCHANGED <<memory, row, child, restarts>>

(* The process is gone, and its memory with it. *)
Forget ==
    /\ daemon' = "down"
    /\ state' = [r \in Runs |-> NoState]
    /\ creating' = {}
    /\ nextSequence' = 1
    /\ dispatchTimer' = FALSE
    /\ pending' = {}
    /\ awaited' = {}
    /\ UNCHANGED <<row, child>>

ShutdownDone ==
    /\ daemon = "stopping"
    /\ Forget
    /\ UNCHANGED restarts

(* Also what a failing database call of startRun amounts to: nobody handles *)
(* its rejection, which ends a Node process.                                *)
Crash ==
    /\ Running
    /\ restarts < MaxRestarts
    /\ restarts' = restarts + 1
    /\ Forget

(* A fault: only the runs that had started are marked. *)
StartupMarksRunning ==
    /\ daemon = "down"
    /\ daemon' = "up"
    /\ row' = [r \in Runs |-> IF row[r].status = "running"
                              THEN WriteStatus(row[r], "interrupted")
                              ELSE row[r]]
    /\ UNCHANGED <<memory, child, restarts>>

(* createServerContext: markInterruptedRunsOnStartup, in one transaction. *)
Startup ==
    /\ daemon = "down"
    /\ daemon' = "up"
    /\ row' = [r \in Runs |-> IF row[r].status \in {"queued", "running"}
                              THEN WriteStatus(row[r], "interrupted")
                              ELSE row[r]]
    /\ UNCHANGED <<memory, child, restarts>>

-----------------------------------------------------------------------------
StartStep(r) ==
    \/ MarkRunning(r) \/ MessageStarted(r) \/ LogsOpened(r)
    \/ SkillReady(r) \/ PromptReady(r) \/ Spawn(r)

FinishStep(r) ==
    \/ ArtifactsFinalized(r) \/ LogsClosed(r) \/ MessageTerminal(r) \/ CommitTerminal(r)

Next ==
    \/ \E r \in Runs :
        \/ CreateRun(r) \/ InsertRun(r) \/ CancelRun(r)
        \/ StartStep(r) \/ FinishStep(r) \/ Cleanup(r)
        \/ ChildExits(r) \/ RunnerFails(r) \/ RunTimeout(r)
        \/ InterruptNext(r) \/ Settled(r)
    \/ Dispatch
    \/ CloseServer \/ Shutdown \/ ShutdownResolves \/ ShutdownDone
    \/ Crash \/ Startup

Spec == Init /\ [][Next]_vars

(***************************************************************************)
(* What the runtime guarantees: a database or file call answers, a timer   *)
(* that is set fires, and a Claude process does not run forever (it ends,  *)
(* or the watchdog, the run timeout or the kill escalation ends it).       *)
(***************************************************************************)
Fairness ==
    /\ \A r \in Runs :
        /\ WF_vars(InsertRun(r))
        /\ WF_vars(StartStep(r))
        /\ WF_vars(FinishStep(r))
        /\ WF_vars(Cleanup(r))
        /\ WF_vars(ChildExits(r))
        /\ WF_vars(InterruptNext(r))
        /\ WF_vars(Settled(r))
    /\ WF_vars(Dispatch)
    /\ WF_vars(ShutdownResolves)
    /\ WF_vars(ShutdownDone)
    /\ WF_vars(Startup)

FairSpec == Spec /\ Fairness

-----------------------------------------------------------------------------
(* Properties. *)

(* The runs that were dispatched and are not terminal yet. *)
InFlight == {r \in Runs : state[r].start # "none" /\ ~Terminal(r)}

(* Whatever cancels, times out or restarts, the runs between their dispatch *)
(* and their final commit respect the three limits of canStartCandidate.    *)
InFlightWithinLimits ==
    /\ Cardinality(InFlight) <= GlobalConcurrency
    /\ \A p \in Profiles : Cardinality(OfProfile(InFlight, p)) <= ProfileConcurrency[p]
    /\ \A a, b \in InFlight : WorkspaceOf[a] = WorkspaceOf[b] => a = b

Contract == INSTANCE RunContract WITH
    status <- [r \in Runs |-> row[r].status],
    deliveries <- [r \in Runs |-> row[r].deliveries]

(* The rows of finishRun, startRun and markInterruptedRunsOnStartup, which *)
(* are written without looking at the row, together keep the contract: a   *)
(* run starts once at most, ends in one status, and announces no status it *)
(* never had; only one that was canceled or interrupted can look running   *)
(* again, because it was ended before its start was stored.                *)
KeepsContract == Contract!Spec

(* The start of a run was stored after its end.  Only a cancel or a        *)
(* shutdown can end a run that has no runner and no timer yet.             *)
Reopened(r) ==
    /\ Terminal(r)
    /\ row[r].status = "running"
    /\ state[r].result \in {"canceled", "interrupted"}
    /\ state[r].runner = "null"

(* An open row is never forgotten: the run is in the states map and not    *)
(* terminal there, so that someone is still going to end it.               *)
NoOrphanRow ==
    Running => \A r \in Runs :
        row[r].status \in {"queued", "running"} =>
            \/ r \in Known /\ ~Terminal(r)
            \/ Reopened(r)

(* The status the 'end' event told the subscribers is the status stored. *)
EndStatusIsStored ==
    \A r \in Runs : Terminal(r) => row[r].status = state[r].result \/ Reopened(r)

(* The database and the memory of the daemon agree on which runs are over, *)
(* and how each of them ended, except for the runs above: no run that had  *)
(* a child, timed out or failed is left open by any order of the writes.   *)
RowsMatchMemory == NoOrphanRow /\ EndStatusIsStored

(* When shutdownActive has resolved, and the database pool is being closed, *)
(* no run is between its dispatch and its final commit.                     *)
ShutdownSettlesRuns == daemon = "stopping" => InFlight = {}

(* No run starts before an earlier queued run of its workspace. *)
WorkspaceOrder ==
    [][\A a, b \in Queued :
        WorkspaceOf[a] = WorkspaceOf[b] /\ state[a].seq < state[b].seq
            => ~(state'[b].queue = "starting" /\ state'[a].queue = "queued")]_vars

(* A run that is over holds a slot, because its start was stored late.  The *)
(* slot is free again when the run leaves the states map, of which the      *)
(* dispatcher is not told.                                                  *)
SlotIsLost == \E r \in Runs : Terminal(r) /\ state[r].queue = "running"

(* A run waits, and the dispatcher is going to look at it, as after its     *)
(* insert; or there is no dispatcher any more.                              *)
Waits(r) == row[r].status = "queued" /\ (Serving => dispatchTimer)

(* Every run that was accepted ends, through whatever cancels, timeouts    *)
(* and failures: no dispatch wakeup and no finish is lost, and a restart   *)
(* leaves no open row behind; unless, after the dispatcher was told, a run *)
(* that ended before it was stored as started takes a slot away.           *)
EveryRunEnds ==
    \A r \in Runs : Waits(r) ~> row[r].status \in TerminalStatus \/ SlotIsLost

(* What docs/phase-3-queue-timeout-hardening-plan.md says of a cancel       *)
(* before the child is spawned: it is durable (line 733).                   *)
CancelIsDurable ==
    [][\A r \in Runs : row[r].status = "canceled" => row'[r].status = "canceled"]_vars

(* shutdownActive comes to its end: no run it waits for is left unfinished. *)
ShutdownEnds == daemon = "draining" ~> daemon = "down"
=============================================================================
