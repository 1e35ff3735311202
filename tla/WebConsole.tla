----------------------------- MODULE WebConsole -----------------------------
(***************************************************************************)
(* The chat of the web test console (App.tsx) with the daemon it talks to. *)
(* A send creates a run and follows it by its event stream or by polling;  *)
(* Refresh and Cancel read the run beside it, and a second send can be     *)
(* begun while the first is still preparing or reconciling.  Every request *)
(* is read by the daemon at one moment and applied to the chat at another. *)
(*                                                                         *)
(* A text is known by the numbers of its deltas.  Artifacts, downloads,    *)
(* files and the choice of profile, skill and workspace identity are left  *)
(* out, but for the requests that may fail.                                *)
(***************************************************************************)
EXTENDS Integers, Sequences, SequencesExt, FiniteSetsExt

CONSTANT Sends   \* 1..n, in the order they are begun

Refresh == 0
Cancel  == 1 + Max(Sends)
Readers == Sends \cup {Refresh, Cancel}
NoRun   == 0

Ended == {"succeeded", "failed", "canceled"}

\* Bound: what a run emits before its end, two messages of one delta each.
Script == <<"running", "start", "text", "start", "text">>

VARIABLES
  run,        \* per send, its run in the daemon: [row, told, emitted, flushed, closed, canceled]
  send,       \* handleSend: [pc, mode, seen, sawEnd, aborted]
  reader,     \* reconcileRun, by whom: [pc, run, status, messages]
  messages,   \* the chat
  runStatus, activeRunId, lastRunId,
  workspace,  \* the console knows a workspace
  abortRef,   \* the send whose controller it holds
  cancelingRunIdRef

ui   == <<messages, runStatus, activeRunId>>
refs == <<lastRunId, workspace, abortRef, cancelingRunIdRef>>
vars == <<run, send, reader, ui, refs>>

Init ==
  /\ run = [s \in Sends |-> [row |-> "absent", told |-> "none", emitted |-> 0, flushed |-> 0,
                             closed |-> FALSE, canceled |-> FALSE]]
  /\ send = [s \in Sends |-> [pc |-> "idle", mode |-> "sse", seen |-> 0, sawEnd |-> FALSE,
                              aborted |-> FALSE]]
  /\ reader = [w \in Readers |-> [pc |-> "idle", run |-> NoRun, status |-> "none",
                                  messages |-> <<>>]]
  /\ messages = <<>>
  /\ runStatus = "idle" /\ activeRunId = NoRun /\ lastRunId = NoRun
  /\ workspace = FALSE /\ abortRef = NoRun /\ cancelingRunIdRef = NoRun

-----------------------------------------------------------------------------
(* The messages of a run *)

\* createAssistantMessage.  id: the send, for the placeholder it makes.
Assistant(id, r, status) ==
  [role |-> "assistant", id |-> id, run |-> r, status |-> status, texts |-> <<>>, bare |-> TRUE]

\* No content, and no events but of status and of message starts.
IsEmptyAssistantPlaceholder(message) == message.texts = <<>> /\ message.bare

\* The n-th event of the run, or its end.
ApplyRunEventToMessage(message, n, told) ==
  IF n > Len(Script) THEN [message EXCEPT !.status = told, !.bare = FALSE]
  ELSE CASE Script[n] = "running" -> [message EXCEPT !.status = "running"]
         [] Script[n] = "start"   -> message
         [] Script[n] = "text"    -> [message EXCEPT !.texts = Append(@, n), !.bare = FALSE]

OfRun(r) == {i \in DOMAIN messages : messages[i].role = "assistant" /\ messages[i].run = r}

\* applyAssistantMessageStart: a message that has begun is followed by a new one.
ApplyStart(chat, i) ==
  IF IsEmptyAssistantPlaceholder(chat[i]) THEN chat
  ELSE InsertAt(chat, i + 1, Assistant(0, chat[i].run, chat[i].status))

\* Into the last message of the run, wherever it is in the chat.
ApplyRunEventToMessages(r, n, told) ==
  IF OfRun(r) = {} THEN messages
  ELSE LET i == Max(OfRun(r)) IN
       IF n <= Len(Script) /\ Script[n] = "start" THEN ApplyStart(messages, i)
       ELSE [messages EXCEPT ![i] = ApplyRunEventToMessage(@, n, told)]

\* What run_messages holds of a run; the daemon cuts its text at the same events.
Durable(r) ==
  LET status == IF run[r].closed THEN run[r].told
                ELSE IF run[r].row = "queued" THEN "queued" ELSE "running"
      add(rows, n) ==
        IF Script[n] = "start" THEN ApplyStart(rows, Len(rows))
        ELSE [rows EXCEPT ![Len(rows)] = [ApplyRunEventToMessage(@, n, status) EXCEPT
                                           !.status = status]]
  IN FoldLeft(add, <<Assistant(0, r, status)>>, [n \in 1..run[r].flushed |-> n])

\* reconcileMessagesWithRunDetail: the durable messages in place of those of the run.
ReconcileMessages(r, durable) ==
  LET others == SelectSeq(messages, LAMBDA x : ~(x.role = "assistant" /\ x.run = r))
      first  == IF OfRun(r) = {} THEN Len(messages) + 1 ELSE Min(OfRun(r))
      id     == IF OfRun(r) = {} THEN 0 ELSE messages[first].id
  IN SubSeq(others, 1, first - 1) \o [durable EXCEPT ![1].id = id]
       \o SubSeq(others, first, Len(others))

-----------------------------------------------------------------------------
(* The daemon *)

Stream(r) == run[r].emitted + (IF run[r].told = "none" THEN 0 ELSE 1)

Daemon(r) ==
  /\ \/ /\ run[r].row = "queued" /\ run[r].told = "none"
        /\ run' = [run EXCEPT ![r].row = "running"]
     \/ /\ run[r].row = "running" /\ run[r].told = "none" /\ run[r].emitted < Len(Script)
        /\ run' = [run EXCEPT ![r].emitted = @ + 1]
     \/ /\ run[r].row \in {"queued", "running"} /\ run[r].told = "none"
        /\ run' = [run EXCEPT ![r].told =
             IF run[r].canceled THEN "canceled"
             ELSE IF run[r].emitted = Len(Script) THEN "succeeded" ELSE "failed"]
     \/ /\ run[r].flushed < run[r].emitted
        /\ run' = [run EXCEPT ![r].flushed = run[r].emitted]
     \/ /\ run[r].told # "none" /\ ~run[r].closed
        /\ run' = [run EXCEPT ![r].flushed = run[r].emitted, ![r].closed = TRUE]
     \/ /\ run[r].closed
        /\ run' = [run EXCEPT ![r].row = run[r].told]
        /\ run' # run
  /\ UNCHANGED <<send, reader, ui, refs>>

-----------------------------------------------------------------------------
(* handleSend *)

\* busy of ChatPanel: a send that has no run yet does not count.
Busy == activeRunId # NoRun /\ runStatus \in {"queued", "running", "uploading"}

\* Where handleSend goes once it has a workspace: are there files to be uploaded?
Proceed(s) ==
  \/ send' = [send EXCEPT ![s].pc = "upload"] /\ runStatus' = "uploading"
  \/ send' = [send EXCEPT ![s].pc = "create"] /\ UNCHANGED runStatus

\* ensureWorkspace throws for a revision without a workspace.
HandleSend(s, mode) ==
  /\ send[s].pc = "idle" /\ \A t \in 1..(s - 1) : send[t].pc # "idle"
  /\ ~Busy
  /\ LET turn == <<[Assistant(0, NoRun, "none") EXCEPT !.role = "user"],
                   Assistant(s, NoRun, "none")>>
         begin(pc) == [send EXCEPT ![s].pc = pc, ![s].mode = mode]
     IN /\ messages' = messages \o turn
        /\ \/ workspace /\ send' = begin("upload") /\ runStatus' = "uploading"
           \/ workspace /\ send' = begin("create") /\ UNCHANGED runStatus
           \/ ~workspace /\ mode # "revise" /\ send' = begin("workspace")
                /\ runStatus' = "creating workspace"
           \/ ~workspace /\ mode = "revise" /\ send' = begin("throws") /\ UNCHANGED runStatus
  /\ UNCHANGED <<run, reader, activeRunId, refs>>

WorkspaceCreated(s) ==
  /\ send[s].pc = "workspace"
  /\ workspace' = TRUE
  /\ Proceed(s)
  /\ UNCHANGED <<run, reader, messages, activeRunId, lastRunId, abortRef, cancelingRunIdRef>>

Uploaded(s) ==
  /\ send[s].pc = "upload"
  /\ send' = [send EXCEPT ![s].pc = "create"]
  /\ UNCHANGED <<run, reader, ui, refs>>

\* The placeholder, if the chat was not cleared, becomes the run's.
RunCreated(s) ==
  /\ send[s].pc = "create"
  /\ run' = [run EXCEPT ![s].row = "queued"]
  /\ activeRunId' = s /\ lastRunId' = s /\ runStatus' = "queued" /\ abortRef' = s
  /\ messages' = [i \in DOMAIN messages |->
       IF messages[i].id = s THEN [messages[i] EXCEPT !.run = s, !.status = "queued"]
       ELSE messages[i]]
  /\ send' = [send EXCEPT ![s].pc = IF send[s].mode = "poll" THEN "poll" ELSE "stream"]
  /\ UNCHANGED <<reader, workspace, cancelingRunIdRef>>

\* The finally block: whichever run is the active one by now.
Finally(s) ==
  /\ send' = [send EXCEPT ![s].pc = "done"]
  /\ activeRunId' = NoRun
  /\ abortRef' = NoRun

Catch(s) ==
  /\ runStatus' = "failed"
  /\ messages' = [i \in DOMAIN messages |->
       IF messages[i].id = s THEN [messages[i] EXCEPT !.status = "failed"] ELSE messages[i]]
  /\ Finally(s)

RequestFails(s) ==
  /\ send[s].pc \in {"throws", "workspace", "upload", "create", "poll"}
  /\ Catch(s)
  /\ UNCHANGED <<run, reader, lastRunId, workspace, cancelingRunIdRef>>

StreamEvent(s) ==
  /\ send[s].pc = "stream" /\ ~send[s].aborted /\ send[s].seen < Stream(s)
  /\ LET n   == send[s].seen + 1
         end == n > run[s].emitted
     IN /\ messages' = ApplyRunEventToMessages(s, IF end THEN Len(Script) + 1 ELSE n, run[s].told)
        /\ runStatus' = IF end THEN run[s].told ELSE runStatus
        /\ send' = [send EXCEPT ![s].seen = n, ![s].sawEnd = end]
  /\ UNCHANGED <<run, reader, activeRunId, refs>>

Ask(w, r) == reader' = [reader EXCEPT ![w].pc = "asked", ![w].run = r]

\* The stream is over: ended by the daemon, lost, refused or aborted.
StreamEnds(s) ==
  /\ send[s].pc = "stream"
  /\ IF send[s].aborted /\ cancelingRunIdRef = s
     THEN Finally(s) /\ UNCHANGED reader
     ELSE /\ send' = [send EXCEPT ![s].pc = "reconcile"]
          /\ Ask(s, s)
          /\ UNCHANGED <<activeRunId, abortRef>>
  /\ UNCHANGED <<run, messages, runStatus, lastRunId, workspace, cancelingRunIdRef>>

\* setRunStatus, and the status in each message of the run.
ReconcileStatusInState(r, status) ==
  /\ runStatus' = status
  /\ messages' = [i \in DOMAIN messages |->
       IF messages[i].run = r THEN [messages[i] EXCEPT !.status = status] ELSE messages[i]]

\* Afterwards only the artifacts are read.
FetchArtifacts(s) ==
  /\ send' = [send EXCEPT ![s].pc = "reconcile"]
  /\ reader' = [reader EXCEPT ![s].pc = "artifacts", ![s].run = s]

\* runGenerateByPolling goes on when there is nothing more to poll: a run that is being
\* canceled is left to cancelRun.
PollAborted(s) ==
  /\ send[s].pc = "poll" /\ send[s].aborted
  /\ IF cancelingRunIdRef = s THEN Finally(s) /\ UNCHANGED reader
     ELSE FetchArtifacts(s) /\ UNCHANGED <<activeRunId, abortRef>>
  /\ UNCHANGED <<run, messages, runStatus, lastRunId, workspace, cancelingRunIdRef>>

\* One status of pollRunStatus.
Poll(s) ==
  /\ send[s].pc = "poll" /\ ~send[s].aborted
  /\ ReconcileStatusInState(s, run[s].row)
  /\ IF run[s].row \in Ended THEN FetchArtifacts(s) ELSE UNCHANGED <<send, reader>>
  /\ UNCHANGED <<run, activeRunId, refs>>

-----------------------------------------------------------------------------
(* reconcileRun, of a send, of Refresh and of Cancel *)

\* getRunDetail of the daemon reads the run and then its messages.
ReadRun(w) ==
  /\ reader[w].pc = "asked"
  /\ reader' = [reader EXCEPT ![w].pc = "run", ![w].status = run[reader[w].run].row]
  /\ UNCHANGED <<run, send, ui, refs>>

ReadMessages(w) ==
  /\ reader[w].pc = "run"
  /\ reader' = [reader EXCEPT ![w].pc = "answered", ![w].messages = Durable(reader[w].run)]
  /\ UNCHANGED <<run, send, ui, refs>>

ReconcileDetail(w) ==
  /\ reader[w].pc = "answered"
  /\ runStatus' = reader[w].status
  /\ messages' = ReconcileMessages(reader[w].run, reader[w].messages)
  /\ reader' = [reader EXCEPT ![w].pc = "artifacts"]
  /\ UNCHANGED <<run, send, activeRunId, refs>>

Done(w) == reader' = [reader EXCEPT ![w] = [pc |-> "idle", run |-> NoRun, status |-> "none",
                                            messages |-> <<>>]]

\* The finally block of cancelRun; Refresh has none.
Leave(w) ==
  /\ cancelingRunIdRef' = IF w = Cancel /\ cancelingRunIdRef = reader[w].run
                          THEN NoRun ELSE cancelingRunIdRef
  /\ UNCHANGED <<send, activeRunId, abortRef>>

ArtifactsListed(w) ==
  /\ reader[w].pc = "artifacts"
  /\ Done(w)
  /\ IF w \in Sends THEN Finally(w) /\ UNCHANGED cancelingRunIdRef ELSE Leave(w)
  /\ UNCHANGED <<run, messages, runStatus, lastRunId, workspace>>

\* appendLocalError.
ShowError == messages' = Append(messages, Assistant(0, NoRun, "failed")) /\ UNCHANGED runStatus

ReadingFails(w) ==
  /\ reader[w].pc \in {"asked", "artifacts"}
  /\ Done(w)
  /\ IF w \in Sends THEN Catch(w) /\ UNCHANGED cancelingRunIdRef ELSE ShowError /\ Leave(w)
  /\ UNCHANGED <<run, lastRunId, workspace>>

RefreshRun ==
  /\ lastRunId # NoRun /\ reader[Refresh].pc = "idle"
  /\ Ask(Refresh, lastRunId)
  /\ UNCHANGED <<run, send, ui, refs>>

CancelRun ==
  /\ activeRunId # NoRun /\ reader[Cancel].pc = "idle"
  /\ cancelingRunIdRef' = activeRunId
  /\ reader' = [reader EXCEPT ![Cancel].pc = "canceling", ![Cancel].run = activeRunId]
  /\ UNCHANGED <<run, send, ui, lastRunId, workspace, abortRef>>

\* The daemon refuses a run that is ending; else whatever abortRef holds is aborted.
CancelAnswered ==
  /\ reader[Cancel].pc = "canceling"
  /\ LET r == reader[Cancel].run IN
     \/ /\ run[r].told # "none"
        /\ Done(Cancel) /\ ShowError /\ Leave(Cancel)
        /\ UNCHANGED run
     \/ /\ run[r].told = "none"
        /\ run' = [run EXCEPT ![r].canceled = TRUE]
        /\ Ask(Cancel, r)
        /\ send' = [s \in Sends |-> IF s = abortRef THEN [send[s] EXCEPT !.aborted = TRUE]
                                    ELSE send[s]]
        /\ UNCHANGED <<ui, abortRef, cancelingRunIdRef>>
  /\ UNCHANGED <<lastRunId, workspace>>

Clear ==
  /\ messages # <<>>
  /\ messages' = <<>>
  /\ UNCHANGED <<run, send, reader, runStatus, activeRunId, refs>>

SendStep(s) ==
  \/ \E mode \in {"sse", "poll", "revise"} : HandleSend(s, mode)
  \/ WorkspaceCreated(s) \/ Uploaded(s) \/ RunCreated(s) \/ RequestFails(s)
  \/ StreamEvent(s) \/ StreamEnds(s) \/ Poll(s) \/ PollAborted(s)

ReaderStep(w) ==
  \/ ReadRun(w) \/ ReadMessages(w) \/ ReconcileDetail(w) \/ ArtifactsListed(w) \/ ReadingFails(w)

Next ==
  \/ \E s \in Sends : SendStep(s) \/ Daemon(s)
  \/ \E w \in Readers : ReaderStep(w)
  \/ RefreshRun \/ CancelRun \/ CancelAnswered \/ Clear

Spec == Init /\ [][Next]_vars

-----------------------------------------------------------------------------
(* docs/web-test-console-usage.md: after the end event a send reconciles    *)
(* the FINAL durable detail.  What it puts into the chat then has the       *)
(* status the run was told to end with and all of its messages.             *)
EndIsReconciled ==
  \A s \in Sends : send[s].sawEnd /\ reader[s].pc = "artifacts" =>
    /\ reader[s].status = run[s].told
    /\ \A i \in DOMAIN reader[s].messages : reader[s].messages[i].status = run[s].told
    /\ FlattenSeq([i \in DOMAIN reader[s].messages |-> reader[s].messages[i].texts])
         = SelectSeq([n \in 1..run[s].emitted |-> n], LAMBDA n : Script[n] = "text")
=============================================================================
