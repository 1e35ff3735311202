---------------------------- MODULE RpaSessions ----------------------------
(***************************************************************************)
(* The sessions of the local web server that make a flow: a natural-       *)
(* language session has the daemon generate it, a codegen session records  *)
(* a browser first and has the recording hardened.  A request is a task of *)
(* its own in the background, which creates a run at the daemon, consumes  *)
(* its events and publishes its artifacts; nothing but the session's       *)
(* status keeps two tasks of a session apart.                              *)
(*                                                                         *)
(* The store is in memory: what a task does to it between two answers of   *)
(* the daemon or the disk is one step.                                     *)
(***************************************************************************)
EXTENDS RpaFlows, RpaQuestions

CONSTANTS
  NlSessions, CodegenSessions,
  MaxTasks    \* tasks of one session

ASSUME RpaSessionsAssumption ==
  /\ Writers = NlSessions \cup CodegenSessions
  /\ NlSessions \cap CodegenSessions = {}
  /\ MaxTasks \in Nat \ {0}

VARIABLES
  status,     \* of each session
  known,      \* its daemonRunId, as the number of the run
  task,       \* its tasks, each with the run it consumes
  runs,       \* its runs at the daemon, each with the run it goes on from
  recording   \* the codegen process of a codegen session

sessionVars == <<status, known, task, runs, recording>>
vars == <<flowVars, sessionVars>>

Sessions == Writers
Working == {"generating", "repairing", "hardening"}
Status == Working \cup {"absent", "recording", "completed", "needs_input", "generated",
                        "hardened", "failed", "cancelled"}
TaskStates == {"prepare", "create", "created", "consume", "persist", "over", "dropped"}
RunStates == {"active", "succeeded", "ended"}
\* How a recording process is: none, starting, running, checked (its output file), over.
NoRecording == [pc |-> "none", cancelled |-> FALSE, killTimer |-> FALSE, killed |-> FALSE]

Init ==
  /\ FlowInit
  /\ status = [s \in Sessions |-> "absent"]
  /\ known = [s \in Sessions |-> 0]
  /\ task = [s \in Sessions |-> <<>>]
  /\ runs = [s \in Sessions |-> <<>>]
  /\ recording = [s \in Sessions |-> NoRecording]

-----------------------------------------------------------------------------
(* The stores: what may follow a status *)

nlTransitions == [st \in Status |->
  CASE st = "generating"  -> {"needs_input", "generated", "failed", "cancelled"}
    [] st = "needs_input" -> {"generating", "failed", "cancelled"}
    [] st = "generated"   -> {"repairing", "generated", "failed"}
    [] st = "repairing"   -> {"needs_input", "generated", "failed", "cancelled"}
    [] OTHER -> {}]

codegenTransitions == [st \in Status |->
  CASE st = "recording"   -> {"completed", "failed", "cancelled"}
    [] st = "completed"   -> {"hardening"}
    [] st = "hardening"   -> {"needs_input", "hardened", "failed", "cancelled"}
    [] st = "needs_input" -> {"hardening", "cancelled"}
    [] st = "hardened"    -> {"hardened"}
    [] OTHER -> {}]

Allowed(s, next) ==
  next \in IF s \in NlSessions THEN nlTransitions[status[s]] ELSE codegenTransitions[status[s]]

\* failSession of the workflows: a session that cannot fail any more stays as it is.
Failed(s) == IF Allowed(s, "failed") THEN "failed" ELSE status[s]

\* markFailed of the routes, for a task that has thrown and a recording that failed:
\* an illegal transition is swallowed.
MarkedFailed(s) ==
  IF status[s] \notin {"cancelled", "failed"} /\ Allowed(s, "failed") THEN "failed"
  ELSE status[s]

\* A transition of a task; one that is not allowed throws, and fails the session.
Moved(s, next) == IF Allowed(s, next) THEN next ELSE Failed(s)

SetStatus(s, st) == status' = [status EXCEPT ![s] = st]
SetTask(s, k, pc) == task' = [task EXCEPT ![s][k].pc = pc]
\* The task ends and with it the session, if it can fail.
FailTask(s, k) == SetTask(s, k, "over") /\ SetStatus(s, Failed(s))

MayBegin(s) == Len(task[s]) < MaxTasks
BeginTask(s, pc) == task' = [task EXCEPT ![s] = Append(@, [pc |-> pc, run |-> 0])]

-----------------------------------------------------------------------------
(* Requests *)

\* assertNoExistingFinalFlow
NoFinalFlow == dir = NoDir

\* POST of a session: refused while the flow exists.
CreateNlSession(s) ==
  /\ s \in NlSessions
  /\ status[s] = "absent" /\ NoFinalFlow
  /\ SetStatus(s, "generating") /\ BeginTask(s, "prepare")
  /\ UNCHANGED <<flowVars, known, runs, recording>>

CreateCodegenSession(s) ==
  /\ s \in CodegenSessions
  /\ status[s] = "absent" /\ NoFinalFlow
  /\ SetStatus(s, "recording")
  /\ recording' = [recording EXCEPT ![s].pc = "starting"]
  /\ UNCHANGED <<flowVars, known, task, runs>>

\* Mutant: the status is set when the daemon has answered.
AnswerNlQuestionsLate(s) ==
  /\ s \in NlSessions /\ MayBegin(s)
  /\ status[s] = "needs_input"
  /\ BeginTask(s, "create")
  /\ UNCHANGED <<flowVars, status, known, runs, recording>>

\* POST of answers.  A natural-language session that does not wait for these
\* answers fails.
AnswerNlQuestions(s) ==
  /\ s \in NlSessions /\ MayBegin(s)
  /\ \/ status[s] = "needs_input" /\ SetStatus(s, "generating") /\ BeginTask(s, "create")
     \/ status[s] # "absent" /\ SetStatus(s, Failed(s)) /\ BeginTask(s, "over")
  /\ UNCHANGED <<flowVars, known, runs, recording>>

\* A codegen session rejects them.
AnswerCodegenQuestions(s) ==
  /\ s \in CodegenSessions /\ MayBegin(s)
  /\ status[s] = "needs_input"
  /\ SetStatus(s, "hardening") /\ BeginTask(s, "create")
  /\ UNCHANGED <<flowVars, known, runs, recording>>

\* POST of a repair, only natural-language sessions: prepare reads the evidence
\* of the failed execution.
Repair(s) ==
  /\ s \in NlSessions /\ MayBegin(s) /\ status[s] # "absent"
  /\ IF status[s] = "generated"
     THEN SetStatus(s, "repairing") /\ BeginTask(s, "prepare")
     ELSE SetStatus(s, Failed(s)) /\ BeginTask(s, "over")
  /\ UNCHANGED <<flowVars, known, runs, recording>>

\* POST of harden, only codegen sessions: prepare makes the workspace and
\* uploads the recorded script.
Harden(s) ==
  /\ s \in CodegenSessions /\ MayBegin(s)
  /\ status[s] = "completed"
  /\ SetStatus(s, "hardening") /\ BeginTask(s, "prepare")
  /\ UNCHANGED <<flowVars, known, runs, recording>>

\* The request for the run the session knows may be lost, or come after the run
\* has ended.
CancelDaemonRun(s) ==
  \/ UNCHANGED runs
  \/ /\ known[s] # 0 /\ runs[s][known[s]].state = "active"
     /\ runs' = [runs EXCEPT ![s][known[s]].state = "ended"]

\* POST of cancel.
CancelGeneration(s) ==
  /\ s \in NlSessions
  /\ status[s] \in {"generating", "repairing", "needs_input"}
  /\ SetStatus(s, "cancelled")
  /\ IF status[s] = "needs_input" THEN UNCHANGED runs ELSE CancelDaemonRun(s)
  /\ UNCHANGED <<flowVars, known, task, recording>>

CancelHardening(s) ==
  /\ s \in CodegenSessions
  /\ status[s] \in {"hardening", "needs_input"}
  /\ SetStatus(s, "cancelled")
  /\ IF status[s] = "needs_input" THEN UNCHANGED runs ELSE CancelDaemonRun(s)
  /\ UNCHANGED <<flowVars, known, task, recording>>

-----------------------------------------------------------------------------
(* A task *)

\* A natural-language session gets a workspace, or the evidence of the failed
\* execution is read.
PrepareGeneration(s, k) ==
  /\ s \in NlSessions /\ task[s][k].pc = "prepare"
  /\ SetTask(s, k, "create")
  /\ UNCHANGED <<flowVars, status, known, runs, recording>>

\* A codegen session gets a workspace, with the recorded script in it.
PrepareHardening(s, k) ==
  /\ s \in CodegenSessions /\ task[s][k].pc = "prepare"
  /\ SetTask(s, k, "create")
  /\ UNCHANGED <<flowVars, status, known, runs, recording>>

PrepareFails(s, k) ==
  /\ task[s][k].pc = "prepare"
  /\ FailTask(s, k)
  /\ UNCHANGED <<flowVars, known, runs, recording>>

\* The daemon creates the run.
RunCreated(s, k, previous) ==
  /\ runs' = [runs EXCEPT ![s] = Append(@, [state |-> "active", previous |-> previous])]
  /\ task' = [task EXCEPT ![s][k] = [pc |-> "created", run |-> Len(runs[s]) + 1]]
  /\ UNCHANGED <<flowVars, status, known, recording>>

CreateFirstRun(s, k) ==
  /\ task[s][k].pc = "create" /\ known[s] = 0
  /\ RunCreated(s, k, 0)

\* With the answers or the failure, and the run that asked or made the flow.
CreateFollowUpRun(s, k) ==
  /\ task[s][k].pc = "create" /\ known[s] # 0
  /\ RunCreated(s, k, known[s])

\* The daemon refuses.  The error of a follow-up of a codegen session goes to the
\* client, and the session keeps its status.
CreateRunFails(s, k) ==
  /\ task[s][k].pc = "create"
  /\ IF s \in CodegenSessions
     THEN IF known[s] = 0 THEN SetTask(s, k, "over") /\ SetStatus(s, MarkedFailed(s))
          ELSE SetTask(s, k, "dropped") /\ UNCHANGED status
     ELSE FailTask(s, k)
  /\ UNCHANGED <<flowVars, known, runs, recording>>

\* The answer: setDaemonRun, and the events are subscribed.
RunKnown(s, k) ==
  /\ task[s][k].pc = "created"
  /\ known' = [known EXCEPT ![s] = task[s][k].run]
  /\ SetTask(s, k, "consume")
  /\ UNCHANGED <<flowVars, status, runs, recording>>

\* The status consumeDaemonRun returns: that of the end event, unless the stream
\* breaks off before.
TerminalStatuses(s, k) == {"unknown"} \cup ({runs[s][task[s][k].run].state} \ {"active"})

RunFailed(s, k) ==
  /\ task[s][k].pc = "consume"
  /\ TerminalStatuses(s, k) \ {"succeeded"} # {}
  /\ FailTask(s, k)
  /\ UNCHANGED <<flowVars, known, runs, recording>>

\* The run has asked; a form that cannot be read fails the session.
RunAsked(s, k) ==
  /\ task[s][k].pc = "consume" /\ "succeeded" \in TerminalStatuses(s, k)
  /\ \E transcript \in Transcripts :
       \/ /\ ParseQuestionForm(transcript) = "form"
          /\ SetTask(s, k, "over") /\ SetStatus(s, Moved(s, "needs_input"))
       \/ ParseQuestionForm(transcript) = "invalid" /\ FailTask(s, k)
  /\ UNCHANGED <<flowVars, known, runs, recording>>

\* The run has not asked: its artifacts are published, whatever the status of the
\* session is by now.
RunMade(s, k) ==
  /\ task[s][k].pc = "consume" /\ "succeeded" \in TerminalStatuses(s, k)
  /\ \E transcript \in Transcripts : ParseQuestionForm(transcript) = "none"
  /\ SetTask(s, k, "persist")
  /\ pub' = [pub EXCEPT ![s] = "staging"]
  /\ UNCHANGED <<dir, backup, imp, exec, deletes, faults, stale, kept, removing, status, known,
                 runs, recording>>

Persisted(s, k) ==
  /\ task[s][k].pc = "persist"
  /\ \/ /\ pub[s] = "done"
        /\ SetTask(s, k, "over")
        /\ SetStatus(s, Moved(s, IF s \in NlSessions THEN "generated" ELSE "hardened"))
     \/ pub[s] = "failed" /\ FailTask(s, k)
  /\ UNCHANGED <<flowVars, known, runs, recording>>

RunTask(s, k) ==
  \/ PrepareGeneration(s, k) \/ PrepareHardening(s, k) \/ PrepareFails(s, k)
  \/ CreateFirstRun(s, k) \/ CreateFollowUpRun(s, k) \/ CreateRunFails(s, k)
  \/ RunKnown(s, k)
  \/ RunFailed(s, k) \/ RunAsked(s, k) \/ RunMade(s, k) \/ Persisted(s, k)

\* The daemon ends a run.
RunEnds(s, k) ==
  /\ k \in DOMAIN runs[s] /\ runs[s][k].state = "active"
  /\ \E outcome \in {"succeeded", "ended"} : runs' = [runs EXCEPT ![s][k].state = outcome]
  /\ UNCHANGED <<flowVars, status, known, task, recording>>

-----------------------------------------------------------------------------
(* The recording of a codegen session *)

\* SIGTERM, and SIGKILL after the grace period.
Terminated(r) ==
  [r EXCEPT !.cancelled = TRUE, !.killTimer = r.pc = "running"]

\* Mutant: the cancel is left to the handle, which has no process yet.
SpawnRecorderAnyway(s) ==
  /\ recording[s].pc = "starting"
  /\ recording' = [recording EXCEPT ![s].pc = "running"]
  /\ UNCHANGED <<flowVars, status, known, task, runs>>

\* The directory is made and the process spawned; a cancel that came first is
\* carried out now.
SpawnRecorder(s) ==
  /\ recording[s].pc = "starting"
  /\ recording' = [recording EXCEPT ![s].pc = "running", ![s].killTimer = recording[s].cancelled]
  /\ UNCHANGED <<flowVars, status, known, task, runs>>

\* The directory or the process cannot be had.
RecorderFails(s) ==
  /\ recording[s].pc \in {"starting", "running"} /\ ~recording[s].killed
  /\ recording' = [recording EXCEPT ![s].pc = "over", ![s].killTimer = FALSE]
  /\ SetStatus(s, MarkedFailed(s))
  /\ UNCHANGED <<flowVars, known, task, runs>>

KillRecorder(s) ==
  /\ recording[s].pc = "running" /\ recording[s].killTimer
  /\ recording' = [recording EXCEPT ![s].killTimer = FALSE, ![s].killed = TRUE]
  /\ UNCHANGED <<flowVars, status, known, task, runs>>

\* A cancelled recording is over; one that exited with zero has its script checked.
RecorderCloses(s) ==
  /\ recording[s].pc = "running"
  /\ \E exit \in {"zero", "other"} :
       LET next == IF ~recording[s].cancelled /\ exit = "zero" THEN "checked" ELSE "over"
       IN /\ recording[s].killed => exit = "other"
          /\ recording' = [recording EXCEPT ![s].pc = next]
          /\ IF recording[s].cancelled \/ exit = "zero"
             THEN UNCHANGED status ELSE SetStatus(s, MarkedFailed(s))
  /\ UNCHANGED <<flowVars, known, task, runs>>

ScriptChecked(s) ==
  /\ recording[s].pc = "checked"
  /\ recording' = [recording EXCEPT ![s].pc = "over"]
  /\ \/ SetStatus(s, IF Allowed(s, "completed") THEN "completed" ELSE MarkedFailed(s))
     \/ SetStatus(s, MarkedFailed(s))
  /\ UNCHANGED <<flowVars, known, task, runs>>

CancelRecording(s) ==
  /\ status[s] = "recording"
  /\ SetStatus(s, "cancelled")
  /\ recording' = [recording EXCEPT ![s] =
                     IF @.pc \in {"starting", "running", "checked"} THEN Terminated(@) ELSE @]
  /\ UNCHANGED <<flowVars, known, task, runs>>

Recorder(s) ==
  SpawnRecorder(s) \/ RecorderFails(s) \/ KillRecorder(s) \/ RecorderCloses(s) \/ ScriptChecked(s)

-----------------------------------------------------------------------------
Request(s) ==
  \/ CreateNlSession(s) \/ CreateCodegenSession(s)
  \/ AnswerNlQuestions(s) \/ AnswerCodegenQuestions(s)
  \/ Repair(s) \/ Harden(s)
  \/ CancelGeneration(s) \/ CancelHardening(s) \/ CancelRecording(s)

Next ==
  \/ \E s \in Sessions :
       \/ Request(s) \/ Recorder(s)
       \/ Publish(s) /\ UNCHANGED sessionVars
       \/ \E k \in DOMAIN task[s] : RunTask(s, k)
       \/ \E k \in DOMAIN runs[s] : RunEnds(s, k)
  \/ FlowRequest /\ UNCHANGED sessionVars

Spec == Init /\ [][Next]_vars

\* Tasks and publications go on, the daemon ends its runs, a recorder that is to
\* be killed is, and its process closes then.
Fairness ==
  \A s \in Sessions :
    /\ \A k \in 1..MaxTasks :
         /\ WF_vars(k \in DOMAIN task[s] /\ RunTask(s, k))
         /\ WF_vars(RunEnds(s, k))
    /\ WF_vars(Publish(s) /\ UNCHANGED sessionVars)
    /\ WF_vars(SpawnRecorder(s)) /\ WF_vars(KillRecorder(s)) /\ WF_vars(ScriptChecked(s))
    /\ WF_vars(recording[s].killed /\ RecorderCloses(s))
FairSpec == Spec /\ Fairness

-----------------------------------------------------------------------------
TypeOK ==
  /\ FlowTypeOK
  /\ status \in [Sessions -> Status]
  /\ task \in [Sessions -> Seq([pc : TaskStates, run : 0..MaxTasks])]
  /\ runs \in [Sessions -> Seq([state : RunStates, previous : 0..MaxTasks])]
  /\ \A s \in Sessions : Len(task[s]) <= MaxTasks /\ known[s] \in 0..Len(runs[s])
  /\ recording \in [Sessions -> [pc : {"none", "starting", "running", "checked", "over"},
                                 cancelled : BOOLEAN, killTimer : BOOLEAN, killed : BOOLEAN]]
  /\ \A s \in Sessions :
       recording[s].killTimer \/ recording[s].killed => recording[s].cancelled

\* However requests overlap, a session has one task at a time and one active run
\* at the daemon, which goes on from the one before it; and a session that rests and
\* may be taken up again has none.
OneRunPerSession ==
  \A s \in Sessions :
    /\ Cardinality({k \in DOMAIN task[s] : task[s][k].pc \notin {"over", "dropped"}}) <= 1
    /\ Cardinality({k \in DOMAIN runs[s] : runs[s][k].state = "active"}) <= 1
    /\ \A k \in DOMAIN runs[s] : runs[s][k].previous = k - 1
    /\ status[s] \in {"needs_input", "generated", "hardened", "completed"} =>
         \A k \in DOMAIN runs[s] : runs[s][k].state # "active"

\* A session does not work for ever: it comes to rest or waits for its user, but
\* for a follow-up of a codegen session whose run could not be created.  And the
\* browser of a cancelled recording goes away, also when the cancel came before it
\* was there.
SessionsRest ==
  \A s \in Sessions :
    /\ status[s] \in Working ~>
         status[s] \notin Working \/ \E k \in DOMAIN task[s] : task[s][k].pc = "dropped"
    /\ s \in CodegenSessions /\ status[s] = "cancelled" /\ recording[s].pc # "over" ~>
         recording[s].pc = "over"
=============================================================================
