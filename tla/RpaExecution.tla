---------------------------- MODULE RpaExecution ----------------------------
(***************************************************************************)
(* One execution of an RPA script by the local web server: the executor's  *)
(* background task, the Python process and its two timers, the log writes  *)
(* nobody awaits until the process has ended, the files of the execution   *)
(* store and the subscribers of its event stream.                          *)
(*                                                                         *)
(* A file operation is one step.  An append is two: the line is in the     *)
(* file before the event is handed to the subscribers, and a subscriber    *)
(* may read the file in between.                                           *)
(***************************************************************************)
EXTENDS Integers, Sequences, SequencesExt, FiniteSets

CONSTANTS
  Subscribers,  \* clients of the event stream
  MaxLines,     \* output lines of the process
  MaxEvents,    \* step and artifact events found after the process ended
  MaxFaults     \* file operations that fail

ASSUME RpaExecutionAssumption ==
  MaxLines \in Nat /\ MaxEvents \in Nat /\ MaxFaults \in Nat

VARIABLES
  mode,        \* of the request: verify or run
  record,      \* the status in execution.json
  pc,          \* where runExecution is
  child,       \* the process: none, running, closed
  result,      \* what done settled with: exit code, canceled, timedOut
  canceled, timedOut,              \* of the process manager
  timeoutTimer, killTimer, killed, \* armed timers; SIGKILL was sent
  active, pendingCancel,           \* the executor's two maps, for this execution
  lines,       \* the write of each output line: logged, filed, done
  events,      \* events.jsonl
  nextSeq,     \* nextSequences of the store
  unpublished, \* the event runExecution has written and not yet published
  subs,        \* the subscribers
  verified,    \* the flow's metadata names this execution
  found,       \* script and artifact events already appended
  faults,      \* file operations that have failed
  stopped      \* history: a stop was answered before the process had closed

process == <<child, result, canceled, timedOut, timeoutTimer, killTimer, killed>>
store == <<record, events, nextSeq, unpublished>>
vars == <<mode, record, pc, child, result, canceled, timedOut, timeoutTimer,
          killTimer, killed, active, pendingCancel, lines, events, nextSeq,
          unpublished, subs, verified, found, faults, stopped>>

Terminal == {"succeeded", "failed", "canceled", "timed_out"}
RecordStatus == {"none", "queued", "running"} \cup Terminal
EventType == {"run.started", "log", "script"} \cup Terminal \* a terminal run.completed

Event == [seq : Nat, type : EventType]
IsTerminalExecutionEvent(e) == e.type \in Terminal
NoEvent == [seq |-> 0, type |-> "log"]
NoResult == [exit |-> "none", canceled |-> FALSE, timedOut |-> FALSE]

LineStates == {"logged", "filed", "done"}
Line == [state : LineStates, seq : Nat]

SubscriberStates == {"idle", "reading", "live", "ended", "left"}
NoSubscriber == [state |-> "idle", queue |-> <<>>, closed |-> FALSE,
                 sent |-> <<>>, gone |-> FALSE]
Registered(s) == subs[s].state \in {"reading", "live"}

Init ==
  /\ mode \in {"verify", "run"}
  /\ record = "none" /\ pc = "idle"
  /\ child = "none" /\ result = NoResult
  /\ canceled = FALSE /\ timedOut = FALSE
  /\ timeoutTimer = FALSE /\ killTimer = FALSE /\ killed = FALSE
  /\ active = FALSE /\ pendingCancel = FALSE
  /\ lines = <<>> /\ events = <<>> /\ nextSeq = 1 /\ unpublished = NoEvent
  /\ subs = [s \in Subscribers |-> NoSubscriber]
  /\ verified = FALSE /\ found = 0 /\ faults = 0 /\ stopped = FALSE

-----------------------------------------------------------------------------
(* The store *)

\* A line of events.jsonl, with the next sequence number.
Write(type) ==
  LET event == [seq |-> nextSeq, type |-> type]
  IN /\ events' = Append(events, event)
     /\ nextSeq' = nextSeq + 1
     /\ unpublished' = event

\* Every registered subscriber gets the event; a terminal one closes its queue.
Published(event) ==
  [s \in Subscribers |->
    IF Registered(s)
    THEN [subs[s] EXCEPT !.queue = Append(@, event),
                         !.closed = @ \/ IsTerminalExecutionEvent(event)]
    ELSE subs[s]]

Publish(next) ==
  /\ subs' = Published(unpublished)
  /\ unpublished' = NoEvent
  /\ pc' = next
  /\ UNCHANGED <<record, events, nextSeq>>

-----------------------------------------------------------------------------
(* The executor *)

\* The request passed its checks; the record is written and the background
\* task starts without being awaited.
Start ==
  /\ pc = "idle"
  /\ record' = "queued" /\ pc' = "mark"
  /\ UNCHANGED <<mode, process, active, pendingCancel, lines, events, nextSeq,
                 unpublished, subs, verified, found, faults, stopped>>

MarkRunning ==
  /\ pc = "mark"
  /\ record' = "running" /\ pc' = "announce"
  /\ UNCHANGED <<mode, process, active, pendingCancel, lines, events, nextSeq,
                 unpublished, subs, verified, found, faults, stopped>>

AppendStarted ==
  /\ \/ pc = "announce" /\ Write("run.started") /\ pc' = "announced"
        /\ UNCHANGED <<record, subs>>
     \/ pc = "announced" /\ Publish("spawn")
  /\ UNCHANGED <<mode, process, active, pendingCancel, lines, verified, found, faults, stopped>>

\* Mutant: SIGTERM only.
TerminateChildPolitely ==
  IF child # "running" \/ canceled
  THEN UNCHANGED <<canceled, killTimer>>
  ELSE canceled' = TRUE /\ UNCHANGED killTimer

\* SIGTERM now, SIGKILL after the grace period; nothing when the process is
\* already being stopped.
TerminateChild ==
  IF child # "running" \/ canceled
  THEN UNCHANGED <<canceled, killTimer>>
  ELSE canceled' = TRUE /\ killTimer' = TRUE

\* Mutant: an earlier stop is forgotten.
SpawnWhateverCame ==
  /\ pc = "spawn"
  /\ child' = "running" /\ timeoutTimer' = TRUE
  /\ active' = TRUE /\ pc' = "wait"
  /\ UNCHANGED <<mode, store, result, canceled, timedOut, killTimer, killed,
                 pendingCancel, lines, subs, verified, found, faults, stopped>>

\* The process is started, entered in the map and, when a stop came before,
\* stopped at once: all of it before anything else runs.
Spawn ==
  /\ pc = "spawn"
  /\ child' = "running" /\ timeoutTimer' = TRUE
  /\ active' = TRUE /\ pc' = "wait"
  /\ canceled' = pendingCancel /\ killTimer' = pendingCancel
  /\ UNCHANGED <<mode, store, result, timedOut, killed, pendingCancel, lines,
                 subs, verified, found, faults, stopped>>

\* The command cannot be started: 'error' rejects done and clears the timers.
SpawnError ==
  /\ pc = "wait" /\ child = "running" /\ lines = <<>> /\ ~killed
  /\ child' = "closed" /\ timeoutTimer' = FALSE /\ killTimer' = FALSE
  /\ pc' = "catch"
  /\ UNCHANGED <<mode, store, result, canceled, timedOut, killed, active,
                 pendingCancel, lines, subs, verified, found, faults, stopped>>

\* A stop request: remembered, and passed on when the process is known.
Cancel ==
  /\ record # "none" /\ pc # "lost" /\ ~pendingCancel
  /\ pendingCancel' = TRUE
  /\ stopped' = (stopped \/ child # "closed")
  /\ IF active THEN TerminateChild ELSE UNCHANGED <<canceled, killTimer>>
  /\ UNCHANGED <<mode, store, pc, child, result, timedOut, timeoutTimer, killed,
                 active, lines, subs, verified, found, faults>>

Timeout ==
  /\ timeoutTimer /\ child = "running"
  /\ timeoutTimer' = FALSE /\ timedOut' = TRUE
  /\ TerminateChild
  /\ UNCHANGED <<mode, store, pc, child, result, killed, active, pendingCancel,
                 lines, subs, verified, found, faults, stopped>>

Kill ==
  /\ killTimer /\ child = "running"
  /\ killTimer' = FALSE /\ killed' = TRUE
  /\ UNCHANGED <<mode, store, pc, child, result, canceled, timedOut, timeoutTimer,
                 active, pendingCancel, lines, subs, verified, found, faults, stopped>>

\* A line of output: appendLog writes the log file, which nobody awaits, and
\* hands out the sequence number when that is done.  Which of two lines is
\* numbered first is all the log file decides, and lines are alike here.
AddLine ==
  /\ Len(lines) < MaxLines
  /\ lines' = Append(lines, [state |-> "logged", seq |-> nextSeq])
  /\ nextSeq' = nextSeq + 1

Output ==
  /\ child = "running" /\ AddLine
  /\ UNCHANGED <<mode, record, events, unpublished, pc, process, active, pendingCancel,
                 subs, verified, found, faults, stopped>>

\* The process ended by itself or by a signal; both line buffers are flushed
\* before done resolves.
Close ==
  /\ child = "running"
  /\ \E exit \in {"zero", "other"}, rest \in BOOLEAN :
       /\ killed => exit = "other"
       /\ result' = [exit |-> exit, canceled |-> canceled, timedOut |-> timedOut]
       /\ IF rest THEN AddLine ELSE UNCHANGED <<lines, nextSeq>>
  /\ child' = "closed" /\ timeoutTimer' = FALSE /\ killTimer' = FALSE
  /\ pc' = "settle"
  /\ UNCHANGED <<mode, record, events, unpublished, canceled, timedOut, killed, active,
                 pendingCancel, subs, verified, found, faults, stopped>>

\* The event of a line, in events.jsonl and then for the subscribers.
WriteLine(i) ==
  /\ i \in DOMAIN lines
  /\ \/ /\ lines[i].state = "logged"
        /\ lines' = [lines EXCEPT ![i].state = "filed"]
        /\ events' = Append(events, [seq |-> lines[i].seq, type |-> "log"])
        /\ UNCHANGED subs
     \/ /\ lines[i].state = "filed"
        /\ lines' = [lines EXCEPT ![i].state = "done"]
        /\ subs' = Published([seq |-> lines[i].seq, type |-> "log"])
        /\ UNCHANGED events
  /\ UNCHANGED <<mode, record, nextSeq, pc, process, active, pendingCancel, unpublished,
                 verified, found, faults, stopped>>

\* A failed log write is settled like any other.
LoseLine(i) ==
  /\ i \in DOMAIN lines /\ lines[i].state = "logged"
  /\ faults < MaxFaults /\ faults' = faults + 1
  /\ lines' = [lines EXCEPT ![i].state = "done"]
  /\ UNCHANGED <<mode, store, pc, process, active, pendingCancel, subs, verified,
                 found, stopped>>

LinesSettled == \A i \in DOMAIN lines : lines[i].state = "done"

\* Mutant: the log writes are left to themselves.
AwaitNothing ==
  /\ pc = "settle" /\ pc' = "scan"
  /\ UNCHANGED <<mode, store, process, active, pendingCancel, lines, subs, verified,
                 found, faults, stopped>>

AwaitLogs ==
  /\ pc = "settle" /\ LinesSettled
  /\ pc' = "scan"
  /\ UNCHANGED <<mode, store, process, active, pendingCancel, lines, subs, verified,
                 found, faults, stopped>>

\* The step events of audit.jsonl and one event per artifact.
AppendFound ==
  /\ \/ /\ pc = "scan" /\ found < MaxEvents
        /\ Write("script") /\ found' = found + 1 /\ pc' = "scanned"
        /\ UNCHANGED <<record, subs>>
     \/ pc = "scanned" /\ Publish("scan") /\ UNCHANGED found
  /\ UNCHANGED <<mode, process, active, pendingCancel, lines, verified, faults, stopped>>

Outcome ==
  IF result.timedOut THEN "timed_out"
  ELSE IF result.canceled THEN "canceled"
  ELSE IF result.exit = "zero" THEN "succeeded" ELSE "failed"

\* A verification that succeeded clears the flow before the record says so;
\* when that fails the failure is logged and the execution still succeeds.
MarkFlowVerified ==
  /\ \/ /\ pc = "scan" /\ Outcome = "succeeded" /\ mode = "verify" /\ pc' = "finish"
        /\ verified' = TRUE
        /\ UNCHANGED <<store, faults, subs>>
     \/ /\ pc = "scan" /\ Outcome = "succeeded" /\ mode = "verify" /\ pc' = "marking"
        /\ faults < MaxFaults /\ faults' = faults + 1
        /\ Write("log")
        /\ UNCHANGED <<record, verified, subs>>
     \/ pc = "marking" /\ Publish("finish") /\ UNCHANGED <<verified, faults>>
  /\ UNCHANGED <<mode, process, active, pendingCancel, lines, found, stopped>>

\* finishExecution writes the record, then the run.completed event.
FinishRecord ==
  /\ \/ /\ pc = "scan" /\ ~(Outcome = "succeeded" /\ mode = "verify")
        /\ record' = Outcome /\ pc' = "complete"
     \/ pc = "finish" /\ record' = Outcome /\ pc' = "complete"
     \/ pc = "catch" /\ record' = "failed" /\ pc' = "failing"
  /\ UNCHANGED <<mode, process, active, pendingCancel, lines, events, nextSeq,
                 unpublished, subs, verified, found, faults, stopped>>

\* The event is written and published, and finally forgets the process.
AppendCompleted ==
  /\ \/ /\ pc \in {"complete", "failing"} /\ Write(record) /\ pc' = "completed"
        /\ UNCHANGED <<record, subs, active, pendingCancel>>
     \/ /\ pc = "completed" /\ Publish("done")
        /\ active' = FALSE /\ pendingCancel' = FALSE
  /\ UNCHANGED <<mode, process, lines, verified, found, faults, stopped>>

\* A file operation of the task fails: the first one is caught, one in the
\* handler rejects the task and with it ends the server.
FileError ==
  /\ faults < MaxFaults /\ faults' = faults + 1
  /\ \/ pc \in {"mark", "announce", "scan", "finish", "complete"} /\ pc' = "catch"
        /\ UNCHANGED <<active, pendingCancel>>
     \/ pc \in {"catch", "failing"} /\ pc' = "lost"
        /\ active' = FALSE /\ pendingCancel' = FALSE
  /\ UNCHANGED <<mode, store, process, lines, subs, verified, found, stopped>>

-----------------------------------------------------------------------------
(* The subscribers *)

\* The subscriber is registered before the file is read.
Subscribe(s) ==
  /\ subs[s].state = "idle" /\ record # "none" /\ pc # "lost"
  /\ subs' = [subs EXCEPT ![s].state = "reading"]
  /\ UNCHANGED <<mode, store, pc, process, active, pendingCancel, lines, verified,
                 found, faults, stopped>>

SeqsOf(es) == [i \in DOMAIN es |-> es[i].seq]

ReadHistory(s) ==
  /\ subs[s].state = "reading" /\ pc # "lost"
  /\ LET ended == \E i \in DOMAIN events : IsTerminalExecutionEvent(events[i])
         left == subs[s].gone /\ events # <<>>
     IN subs' = [subs EXCEPT ![s].state = IF left THEN "left" ELSE IF ended THEN "ended" ELSE "live",
                             ![s].sent = IF left THEN @ ELSE SeqsOf(events)]
  /\ UNCHANGED <<mode, store, pc, process, active, pendingCancel, lines, verified,
                 found, faults, stopped>>

\* The next live event, or the end of a closed queue: one that was in the
\* history is skipped, a terminal one ends the stream.
NextLiveEvent(s) ==
  /\ subs[s].state = "live" /\ pc # "lost"
  /\ LET sub == subs[s]
         event == Head(sub.queue)
         seen == event.seq \in ToSet(sub.sent)
     IN \/ /\ sub.queue = <<>> /\ sub.closed
           /\ subs' = [subs EXCEPT ![s].state = "ended"]
        \/ /\ sub.queue # <<>>
           /\ subs' = [subs EXCEPT
                ![s].queue = Tail(@),
                ![s].sent = IF seen \/ sub.gone THEN @ ELSE Append(@, event.seq),
                ![s].state = IF sub.gone /\ ~seen THEN "left"
                             ELSE IF IsTerminalExecutionEvent(event) THEN "ended" ELSE @]
  /\ UNCHANGED <<mode, store, pc, process, active, pendingCancel, lines, verified,
                 found, faults, stopped>>

\* The client goes away.  The generator is waiting for the file or an event, so
\* return() waits with it: the subscriber stays registered until the next one.
Leave(s) ==
  /\ Registered(s) /\ ~subs[s].gone
  /\ subs' = [subs EXCEPT ![s].gone = TRUE]
  /\ UNCHANGED <<mode, store, pc, process, active, pendingCancel, lines, verified,
                 found, faults, stopped>>

-----------------------------------------------------------------------------
Task == \/ MarkRunning \/ AppendStarted \/ Spawn \/ AwaitLogs \/ AppendFound
        \/ MarkFlowVerified \/ FinishRecord \/ AppendCompleted
Next ==
  \/ Start \/ Task \/ SpawnError \/ Cancel \/ Timeout \/ Kill \/ Output \/ Close \/ FileError
  \/ \E i \in 1..MaxLines : WriteLine(i) \/ LoseLine(i)
  \/ \E s \in Subscribers : Subscribe(s) \/ ReadHistory(s) \/ NextLiveEvent(s) \/ Leave(s)

Spec == Init /\ [][Next]_vars

\* The task and the writes go on, the timers fire, a process that got SIGKILL
\* closes, and a connected client reads.
Fairness ==
  /\ WF_vars(Task) /\ WF_vars(Timeout) /\ WF_vars(Kill)
  /\ WF_vars(killed /\ Close)
  /\ \A i \in 1..MaxLines : WF_vars(WriteLine(i))
  /\ \A s \in Subscribers : WF_vars(ReadHistory(s)) /\ WF_vars(NextLiveEvent(s))
FairSpec == Spec /\ Fairness

-----------------------------------------------------------------------------
TypeOK ==
  /\ mode \in {"verify", "run"} /\ record \in RecordStatus
  /\ pc \in {"idle", "mark", "announce", "announced", "spawn", "wait", "settle", "scan",
             "scanned", "marking", "finish", "complete", "catch", "failing", "completed",
             "done", "lost"}
  /\ child \in {"none", "running", "closed"}
  /\ result \in [exit : {"none", "zero", "other"}, canceled : BOOLEAN, timedOut : BOOLEAN]
  /\ canceled \in BOOLEAN /\ timedOut \in BOOLEAN /\ killed \in BOOLEAN
  /\ timeoutTimer \in BOOLEAN /\ killTimer \in BOOLEAN
  /\ active \in BOOLEAN /\ pendingCancel \in BOOLEAN
  /\ verified \in BOOLEAN /\ stopped \in BOOLEAN
  /\ lines \in Seq(Line) /\ Len(lines) <= MaxLines
  /\ events \in Seq(Event) /\ nextSeq \in Nat \ {0} /\ unpublished \in Event
  /\ subs \in [Subscribers -> [state : SubscriberStates, queue : Seq(Event),
                               closed : BOOLEAN, sent : Seq(Nat), gone : BOOLEAN]]
  /\ found \in 0..MaxEvents /\ faults \in 0..MaxFaults

\* The event file of an execution ends with its run.completed event, whose
\* status is the one the record keeps: no log line, which nobody awaited when
\* it was written, follows it.
EventsEnd ==
  /\ \A i \in DOMAIN events : IsTerminalExecutionEvent(events[i]) => i = Len(events)
  /\ pc = "done" => events # <<>> /\ Last(events).type = record

\* And a stream that ended by itself has delivered every event of the file
\* exactly once, whenever the client subscribed.
StreamsAreComplete ==
  /\ EventsEnd
  /\ \A s \in Subscribers :
       subs[s].state = "ended" /\ ~subs[s].gone =>
         /\ ToSet(subs[s].sent) = ToSet(SeqsOf(events))
         /\ IsInjective(subs[s].sent)

\* Success is earned: an execution that was stopped before its process had
\* ended never counts as one, however early the stop came and whatever the
\* process returned, neither in its record nor as the verification of its flow;
\* and a flow is verified by an execution that then succeeds, unless a file
\* could not be written.
SuccessIsEarned ==
  /\ stopped => record # "succeeded" /\ ~verified
  /\ verified => mode = "verify" /\ (pc = "done" /\ faults = 0 => record = "succeeded")

\* Every execution ends in a terminal state with its process gone, unless the
\* server is lost; and a client that has left is forgotten, as the generator it
\* waits in gets an event.
ExecutionsEnd ==
  /\ record = "queued" ~> \/ pc = "done" /\ record \in Terminal /\ child # "running"
                          \/ pc = "lost"
  /\ \A s \in Subscribers : Registered(s) ~> ~Registered(s) \/ pc = "lost"
=============================================================================
