-------------------------- MODULE RpaExecutionProofs --------------------------
(***************************************************************************)
(* Proofs about RpaExecution, for every number of subscribers, lines,      *)
(* events and faults: the domains of its variables; an execution that was  *)
(* stopped is never a success, and a flow is verified only by a success;   *)
(* the event file ends with its completion, and a stream that ended has    *)
(* sent all of it.                                                         *)
(*                                                                         *)
(* And about RpaWorkbench, the page that asks for executions, for every    *)
(* set of scenes and every bound: a package is a flow's or says that it is *)
(* torn, an execution runs with what the form showed, a verification is    *)
(* reported once.                                                          *)
(***************************************************************************)
EXTENDS RpaExecution, RpaWorkbench, SequenceTheorems, TLAPS

-----------------------------------------------------------------------------
(* The domains of the variables: flags, places, and what is in the files.  *)
(* What is written as the last event is the status that was recorded, and  *)
(* has to be a terminal one.                                               *)
Subscriber == [state : SubscriberStates, queue : Seq(Event), closed : BOOLEAN,
               sent : Seq(Nat), gone : BOOLEAN]
Result == [exit : {"none", "zero", "other"}, canceled : BOOLEAN, timedOut : BOOLEAN]

Bits ==
  /\ canceled \in BOOLEAN /\ timedOut \in BOOLEAN /\ killed \in BOOLEAN
  /\ timeoutTimer \in BOOLEAN /\ killTimer \in BOOLEAN
  /\ active \in BOOLEAN /\ pendingCancel \in BOOLEAN
  /\ verified \in BOOLEAN /\ stopped \in BOOLEAN
Places ==
  /\ mode \in {"verify", "run"} /\ record \in RecordStatus
  /\ pc \in {"idle", "mark", "announce", "announced", "spawn", "wait", "settle", "scan",
             "scanned", "marking", "finish", "complete", "catch", "failing", "completed",
             "done", "lost"}
  /\ pc \in {"complete", "failing"} => record \in Terminal
  /\ child \in {"none", "running", "closed"}
Counts == found \in 0..MaxEvents /\ faults \in 0..MaxFaults
Lines == lines \in Seq(Line) /\ Len(lines) <= MaxLines
Files == events \in Seq(Event) /\ nextSeq \in Nat \ {0} /\ unpublished \in Event
Streams == subs \in [Subscribers -> Subscriber]
Typed == Bits /\ Places /\ result \in Result /\ Counts /\ Lines /\ Files /\ Streams

LEMMA TypedIsTypeOK == Typed => TypeOK
  BY DEF Typed, TypeOK, Bits, Places, Result, Counts, Lines, Files, Streams, Subscriber

LEMMA InitTyped == ASSUME Init PROVE Typed
<1>1. Bits
  BY DEF Init, Bits
<1>2. Places
  BY DEF Init, Places, RecordStatus
<1>3. result \in Result
  <2>1. result = NoResult
    BY DEF Init
  <2> QED BY <2>1 DEF Result, NoResult
<1>4. Counts
  BY RpaExecutionAssumption DEF Init, Counts
<1>5. Lines
  BY EmptySeq, RpaExecutionAssumption DEF Init, Lines
<1>6. Files
  <2>1. events = <<>> /\ nextSeq = 1 /\ unpublished = NoEvent
    BY DEF Init
  <2> QED BY <2>1, EmptySeq DEF Files, NoEvent, Event, EventType
<1>7. Streams
  <2>1. subs = [s \in Subscribers |-> NoSubscriber]
    BY DEF Init
  <2>2. NoSubscriber \in Subscriber
    BY EmptySeq DEF NoSubscriber, Subscriber, SubscriberStates
  <2> QED BY <2>1, <2>2 DEF Streams
<1> QED
  BY <1>1, <1>2, <1>3, <1>4, <1>5, <1>6, <1>7 DEF Typed

(* Flags are only set, reset and copied. *)
LEMMA BitsKept == ASSUME Bits, Next PROVE Bits'
<1> USE DEF Bits
<1>1. CASE Start \/ MarkRunning \/ AwaitLogs
  BY <1>1 DEF Start, MarkRunning, AwaitLogs, process
<1>2. CASE AppendStarted \/ AppendFound
  BY <1>2 DEF AppendStarted, AppendFound, process
<1>3. CASE MarkFlowVerified
  <2>1. verified' \in BOOLEAN
    BY <1>3 DEF MarkFlowVerified
  <2> QED BY <1>3, <2>1 DEF MarkFlowVerified, process
<1>4. CASE FinishRecord
  BY <1>4 DEF FinishRecord, process
<1>5. CASE AppendCompleted \/ FileError
  <2>1. active' \in BOOLEAN /\ pendingCancel' \in BOOLEAN
    BY <1>5 DEF AppendCompleted, FileError
  <2> QED BY <1>5, <2>1 DEF AppendCompleted, FileError, process
<1>6. CASE Spawn \/ SpawnError \/ Kill
  <2>1. CASE Spawn
    BY <2>1 DEF Spawn
  <2>2. CASE SpawnError
    BY <2>2 DEF SpawnError
  <2>3. CASE Kill
    BY <2>3 DEF Kill
  <2> QED BY <1>6, <2>1, <2>2, <2>3
<1>7. CASE Cancel
  <2>1. canceled' \in BOOLEAN /\ killTimer' \in BOOLEAN
    BY <1>7 DEF Cancel, TerminateChild
  <2>2. pendingCancel' \in BOOLEAN /\ stopped' \in BOOLEAN
    BY <1>7 DEF Cancel
  <2> QED BY <1>7, <2>1, <2>2 DEF Cancel
<1>8. CASE Timeout
  <2>1. canceled' \in BOOLEAN /\ killTimer' \in BOOLEAN
    BY <1>8 DEF Timeout, TerminateChild
  <2> QED BY <1>8, <2>1 DEF Timeout
<1>9. CASE Output \/ Close
  BY <1>9 DEF Output, Close, process
<1>10. ASSUME NEW i \in 1..MaxLines, WriteLine(i) \/ LoseLine(i) PROVE Bits'
  BY <1>10 DEF WriteLine, LoseLine, process
<1>11. ASSUME NEW s \in Subscribers, Subscribe(s) \/ ReadHistory(s) \/ NextLiveEvent(s) \/ Leave(s)
       PROVE  Bits'
  BY <1>11 DEF Subscribe, ReadHistory, NextLiveEvent, Leave, process
<1> QED
  BY <1>1, <1>2, <1>3, <1>4, <1>5, <1>6, <1>7, <1>8, <1>9, <1>10, <1>11 DEF Next, Task

(* Where the task, the process and the record can be. *)
LEMMA PlacesKept == ASSUME Places, Next PROVE Places'
<1>0. Outcome \in Terminal /\ "failed" \in Terminal
  BY DEF Outcome, Terminal
<1> USE DEF Places, RecordStatus
<1>1. CASE Start \/ MarkRunning \/ AppendStarted \/ Spawn \/ AwaitLogs \/ AppendFound
  BY <1>1 DEF Start, MarkRunning, AppendStarted, Write, Publish, Spawn, AwaitLogs, AppendFound,
     process, store
<1>2. CASE MarkFlowVerified \/ AppendCompleted \/ FileError
  BY <1>2 DEF MarkFlowVerified, AppendCompleted, FileError, Write, Publish, process, store
<1>3. CASE FinishRecord
  BY <1>0, <1>3 DEF FinishRecord, process
<1>4. CASE SpawnError \/ Cancel \/ Timeout \/ Kill \/ Output \/ Close
  BY <1>4 DEF SpawnError, Cancel, Timeout, Kill, Output, Close, process, store
<1>5. ASSUME NEW i \in 1..MaxLines, WriteLine(i) \/ LoseLine(i) PROVE Places'
  BY <1>5 DEF WriteLine, LoseLine, process, store
<1>6. ASSUME NEW s \in Subscribers, Subscribe(s) \/ ReadHistory(s) \/ NextLiveEvent(s) \/ Leave(s)
      PROVE  Places'
  BY <1>6 DEF Subscribe, ReadHistory, NextLiveEvent, Leave, process, store
<1> QED
  BY <1>1, <1>2, <1>3, <1>4, <1>5, <1>6 DEF Next, Task

LEMMA ResultKept == ASSUME result \in Result, Bits, Next PROVE result' \in Result
<1>1. CASE Close
  <2>1. PICK exit \in {"zero", "other"} :
          result' = [exit |-> exit, canceled |-> canceled, timedOut |-> timedOut]
    BY <1>1 DEF Close
  <2>2. canceled \in BOOLEAN /\ timedOut \in BOOLEAN
    BY DEF Bits
  <2> QED BY <2>1, <2>2 DEF Result
<1>2. CASE ~Close
  <2>1. result' = result
    BY <1>2 DEF Next, Task, Start, MarkRunning, AppendStarted, Spawn, AwaitLogs, AppendFound,
       MarkFlowVerified, FinishRecord, AppendCompleted, SpawnError, Cancel, Timeout, Kill, Output,
       FileError, WriteLine, LoseLine, Subscribe, ReadHistory, NextLiveEvent, Leave, process
  <2> QED BY <2>1
<1> QED
  BY <1>1, <1>2

LEMMA CountsKept == ASSUME Counts, Next PROVE Counts'
<1>1. \/ UNCHANGED <<found, faults>>
      \/ found < MaxEvents /\ found' = found + 1 /\ faults' = faults
      \/ faults < MaxFaults /\ faults' = faults + 1 /\ found' = found
  BY DEF Next, Task, Start, MarkRunning, AppendStarted, Spawn, AwaitLogs, AppendFound,
     MarkFlowVerified, FinishRecord, AppendCompleted, SpawnError, Cancel, Timeout, Kill, Output,
     Close, FileError, WriteLine, LoseLine, Subscribe, ReadHistory, NextLiveEvent, Leave
<1> QED
  BY <1>1, RpaExecutionAssumption DEF Counts

(* The lines of output. *)
LEMMA LinesKept == ASSUME Lines, Files, Next PROVE Lines'
<1>1. CASE AddLine
  <2>1. [state |-> "logged", seq |-> nextSeq] \in Line
    BY DEF Files, Line, LineStates
  <2> QED BY <1>1, <2>1, AppendProperties, RpaExecutionAssumption DEF AddLine, Lines
<1>2. ASSUME NEW i \in DOMAIN lines, NEW state \in LineStates,
             lines' = [lines EXCEPT ![i].state = state]
      PROVE  Lines'
  <2>1. i \in 1..Len(lines) /\ lines[i] \in Line
    BY ElementOfSeq, LenProperties DEF Lines
  <2>2. [lines[i] EXCEPT !.state = state] \in Line
    BY <2>1 DEF Line
  <2>3. lines' = [lines EXCEPT ![i] = [lines[i] EXCEPT !.state = state]]
    BY <1>2
  <2> QED BY <2>1, <2>2, <2>3, ExceptSeq DEF Lines
<1>3. CASE UNCHANGED lines
  BY <1>3 DEF Lines
<1>4. CASE Output \/ Close
  BY <1>1, <1>3, <1>4 DEF Output, Close
<1>5. ASSUME NEW i \in 1..MaxLines, WriteLine(i) \/ LoseLine(i) PROVE Lines'
  BY <1>2, <1>5 DEF WriteLine, LoseLine, LineStates
<1>6. CASE ~Output /\ ~Close /\ ~\E i \in 1..MaxLines : WriteLine(i) \/ LoseLine(i)
  BY <1>3, <1>6 DEF Next, Task, Start, MarkRunning, AppendStarted, Spawn, AwaitLogs, AppendFound,
     MarkFlowVerified, FinishRecord, AppendCompleted, SpawnError, Cancel, Timeout, Kill,
     FileError, Subscribe, ReadHistory, NextLiveEvent, Leave
<1> QED
  BY <1>4, <1>5, <1>6

(* The event file, and the event between the file and its publication. *)
LEMMA FilesKept == ASSUME Files, Lines, Places, Next PROVE Files'
<1>1. ASSUME NEW type \in EventType, Write(type) PROVE Files'
  <2>1. [seq |-> nextSeq, type |-> type] \in Event
    BY DEF Files, Event
  <2> QED BY <1>1, <2>1, AppendProperties DEF Write, Files
<1>2. CASE UNCHANGED <<events, nextSeq>> /\ unpublished' \in {unpublished, NoEvent}
  <2>1. NoEvent \in Event
    BY DEF NoEvent, Event, EventType
  <2> QED BY <1>2, <2>1 DEF Files
<1>3. CASE UNCHANGED <<events, unpublished>> /\ nextSeq' \in {nextSeq, nextSeq + 1}
  BY <1>3 DEF Files
<1>4. CASE AppendStarted \/ AppendFound \/ MarkFlowVerified \/ AppendCompleted
  <2>1. "run.started" \in EventType /\ "script" \in EventType /\ "log" \in EventType
        /\ (pc \in {"complete", "failing"} => record \in EventType)
    BY DEF EventType, Places
  <2> QED BY <1>1, <1>2, <1>4, <2>1 DEF AppendStarted, AppendFound, MarkFlowVerified, AppendCompleted,
             Publish, store
<1>5. ASSUME NEW i \in 1..MaxLines, WriteLine(i) PROVE Files'
  <2>1. i \in DOMAIN lines
    BY <1>5 DEF WriteLine
  <2>2. lines[i] \in Line
    BY <2>1, ElementOfSeq, LenProperties DEF Lines
  <2>3. [seq |-> lines[i].seq, type |-> "log"] \in Event
    BY <2>2 DEF Line, Event, EventType
  <2>4. events' \in {events, Append(events, [seq |-> lines[i].seq, type |-> "log"])}
        /\ UNCHANGED <<nextSeq, unpublished>>
    BY <1>5 DEF WriteLine
  <2> QED BY <2>3, <2>4, AppendProperties DEF Files
<1>6. CASE Output \/ Close
  BY <1>3, <1>6 DEF Output, Close, AddLine
<1>7. ASSUME NEW i \in 1..MaxLines, LoseLine(i) PROVE Files'
  BY <1>2, <1>7 DEF LoseLine, store
<1>8. CASE ~Output /\ ~Close /\ ~(AppendStarted \/ AppendFound \/ MarkFlowVerified \/ AppendCompleted)
           /\ ~\E i \in 1..MaxLines : WriteLine(i) \/ LoseLine(i)
  BY <1>2, <1>8 DEF Next, Task, Start, MarkRunning, Spawn, AwaitLogs, FinishRecord, SpawnError,
     Cancel, Timeout, Kill, FileError, Subscribe, ReadHistory, NextLiveEvent, Leave, store
<1> QED
  BY <1>4, <1>5, <1>6, <1>7, <1>8

(* What the subscribers have after an event. *)
LEMMA PublishedTyped ==
  ASSUME Streams, NEW event \in Event
  PROVE  Published(event) \in [Subscribers -> Subscriber]
<1>1. ASSUME NEW s \in Subscribers
      PROVE  [subs[s] EXCEPT !.queue = Append(@, event),
                             !.closed = @ \/ IsTerminalExecutionEvent(event)] \in Subscriber
  <2>1. subs[s] \in Subscriber
    BY DEF Streams
  <2>2. Append(subs[s].queue, event) \in Seq(Event)
    BY <2>1, AppendProperties DEF Subscriber
  <2>3. (subs[s].closed \/ IsTerminalExecutionEvent(event)) \in BOOLEAN
    OBVIOUS
  <2> QED
    BY <2>1, <2>2, <2>3 DEF Subscriber
<1> QED
  BY <1>1 DEF Published, Streams

(* A subscriber reads the file: the history, or nothing of it. *)
LEMMA HistoryTyped ==
  ASSUME Streams, Files, NEW s \in Subscribers, ReadHistory(s)
  PROVE  Streams'
<1>1. subs[s] \in Subscriber
  BY DEF Streams
<1>2. SeqsOf(events) \in Seq(Nat)
  <2>1. events \in Seq(Event) /\ DOMAIN events = 1..Len(events) /\ Len(events) \in Nat
    BY LenProperties DEF Files
  <2>2. ASSUME NEW i \in 1..Len(events) PROVE events[i].seq \in Nat
    <3>1. events[i] \in Event
      BY <2>1, ElementOfSeq
    <3> QED BY <3>1 DEF Event
  <2>3. SeqsOf(events) \in [1..Len(events) -> Nat]
    BY <2>1, <2>2 DEF SeqsOf
  <2> QED BY <2>1, <2>3, SeqDef
<1>3. ASSUME NEW state \in SubscriberStates, NEW sent \in Seq(Nat)
      PROVE  [subs[s] EXCEPT !.state = state, !.sent = sent] \in Subscriber
  BY <1>1 DEF Subscriber
<1>4. subs[s].sent \in Seq(Nat)
  BY <1>1 DEF Subscriber
<1>5. PICK state \in SubscriberStates, sent \in Seq(Nat) :
        subs' = [subs EXCEPT ![s].state = state, ![s].sent = sent]
  <2> DEFINE ended == \E i \in DOMAIN events : IsTerminalExecutionEvent(events[i])
             left == subs[s].gone /\ events # <<>>
             state == IF left THEN "left" ELSE IF ended THEN "ended" ELSE "live"
             sent == IF left THEN subs[s].sent ELSE SeqsOf(events)
  <2>1. state \in SubscriberStates /\ sent \in Seq(Nat)
    BY <1>2, <1>4 DEF SubscriberStates
  <2>2. subs' = [subs EXCEPT ![s].state = state, ![s].sent = sent]
    BY DEF ReadHistory, Streams
  <2> HIDE DEF state, sent
  <2> QED BY <2>1, <2>2
<1>6. subs' = [subs EXCEPT ![s] = [subs[s] EXCEPT !.state = state, !.sent = sent]]
  BY <1>5 DEF Streams
<1> QED
  BY <1>3, <1>6 DEF Streams

(* A subscriber takes the next event. *)
LEMMA NextLiveTyped ==
  ASSUME Streams, NEW s \in Subscribers, NextLiveEvent(s)
  PROVE  Streams'
<1>1. subs[s] \in Subscriber
  BY DEF Streams
<1>2. CASE subs' = [subs EXCEPT ![s].state = "ended"]
  <2>1. [subs[s] EXCEPT !.state = "ended"] \in Subscriber
    BY <1>1 DEF Subscriber, SubscriberStates
  <2> QED BY <1>2, <2>1 DEF Streams
<1>3. CASE subs[s].queue # <<>> /\ subs' # [subs EXCEPT ![s].state = "ended"]
  <2> DEFINE q == subs[s].queue
             seen == Head(q).seq \in ToSet(subs[s].sent)
             sent == IF seen \/ subs[s].gone THEN subs[s].sent
                     ELSE Append(subs[s].sent, Head(q).seq)
             state == IF subs[s].gone /\ ~seen THEN "left"
                      ELSE IF IsTerminalExecutionEvent(Head(q)) THEN "ended" ELSE subs[s].state
  <2>1. q \in Seq(Event) /\ q # <<>> /\ subs[s].sent \in Seq(Nat)
        /\ subs[s].state \in SubscriberStates
    BY <1>1, <1>3 DEF Subscriber
  <2>2. Tail(q) \in Seq(Event) /\ Head(q) \in Event
    BY <2>1, HeadTailProperties
  <2>3. Head(q).seq \in Nat
    BY <2>2 DEF Event
  <2>4. Append(subs[s].sent, Head(q).seq) \in Seq(Nat)
    BY <2>1, <2>3, AppendProperties
  <2>5. sent \in Seq(Nat) /\ state \in SubscriberStates
    BY <2>1, <2>4 DEF SubscriberStates
  <2>6. subs' = [subs EXCEPT ![s] = [subs[s] EXCEPT !.queue = Tail(q), !.sent = sent, !.state = state]]
    BY <1>3 DEF NextLiveEvent, Streams
  <2> HIDE DEF q, sent, state
  <2>7. [subs[s] EXCEPT !.queue = Tail(q), !.sent = sent, !.state = state] \in Subscriber
    BY <1>1, <2>2, <2>5 DEF Subscriber
  <2> QED BY <2>6, <2>7 DEF Streams
<1> QED
  BY <1>2, <1>3 DEF NextLiveEvent

LEMMA StreamsKept == ASSUME Streams, Files, Lines, Next PROVE Streams'
<1>1. CASE UNCHANGED subs
  BY <1>1 DEF Streams
<1>2. CASE \E next : Publish(next)
  BY <1>2, PublishedTyped DEF Publish, Streams, Files
<1>3. CASE AppendStarted \/ AppendFound \/ MarkFlowVerified \/ AppendCompleted
  BY <1>1, <1>2, <1>3 DEF AppendStarted, AppendFound, MarkFlowVerified, AppendCompleted
<1>4. ASSUME NEW i \in 1..MaxLines, WriteLine(i) PROVE Streams'
  <2>1. i \in DOMAIN lines
    BY <1>4 DEF WriteLine
  <2>2. lines[i] \in Line
    BY <2>1, ElementOfSeq, LenProperties DEF Lines
  <2>3. [seq |-> lines[i].seq, type |-> "log"] \in Event
    BY <2>2 DEF Line, Event, EventType
  <2> QED BY <1>1, <1>4, <2>3, PublishedTyped DEF WriteLine, Streams
<1>5. ASSUME NEW s \in Subscribers, Subscribe(s) \/ Leave(s) PROVE Streams'
  <2>1. subs[s] \in Subscriber
    BY DEF Streams
  <2>2. [subs[s] EXCEPT !.state = "reading"] \in Subscriber
        /\ [subs[s] EXCEPT !.gone = TRUE] \in Subscriber
    BY <2>1 DEF Subscriber, SubscriberStates
  <2> QED BY <1>5, <2>2 DEF Subscribe, Leave, Streams
<1>6. CASE ~(AppendStarted \/ AppendFound \/ MarkFlowVerified \/ AppendCompleted)
           /\ (~\E i \in 1..MaxLines : WriteLine(i))
           /\ ~\E s \in Subscribers : Subscribe(s) \/ ReadHistory(s) \/ NextLiveEvent(s) \/ Leave(s)
  BY <1>1, <1>6 DEF Next, Task, Start, MarkRunning, Spawn, AwaitLogs, FinishRecord, SpawnError,
     Cancel, Timeout, Kill, Output, Close, FileError, LoseLine, store
<1> QED
  BY <1>3, <1>4, <1>5, <1>6, HistoryTyped, NextLiveTyped

(* Every variable keeps its domain. *)
THEOREM TypeCorrect == Spec => []TypeOK
<1>1. ASSUME Typed, [Next]_vars PROVE Typed'
  <2>1. CASE Next
    BY <1>1, <2>1, BitsKept, PlacesKept, ResultKept, CountsKept, LinesKept, FilesKept, StreamsKept
    DEF Typed
  <2>2. CASE UNCHANGED vars
    BY <1>1, <2>2 DEF vars, Typed, Bits, Places, Counts, Lines, Files, Streams
  <2> QED BY <1>1, <2>1, <2>2
<1> QED
  BY <1>1, InitTyped, TypedIsTypeOK, PTL DEF Spec

-----------------------------------------------------------------------------
Early == {"idle", "mark", "announce", "announced", "spawn"}
Late  == {"settle", "scan", "scanned", "marking", "finish", "complete"}

(* Where the task is tells what there is of the process. *)
Stages ==
  /\ pc = "idle" => record = "none" /\ ~stopped
  /\ pc \in Early => child = "none"
  /\ pc = "wait" <=> child = "running"
  /\ child = "running" => active
  /\ pc \in Late => child = "closed"
  /\ child # "closed" => result = NoResult

(* A stop is remembered until the process is known, then kept by the       *)
(* process manager, and then part of the result.                           *)
StopsStay ==
  /\ stopped /\ pc \in Early => pendingCancel
  /\ stopped /\ child = "running" => canceled
  /\ stopped /\ child = "closed" => result.canceled \/ result.exit = "none"

(* What is recorded as a success, or verified, is one by its result. *)
SuccessStays ==
  /\ record = "succeeded" \/ verified => child = "closed" /\ Outcome = "succeeded"
  /\ verified => mode = "verify"
  /\ verified /\ faults = 0 =>
       /\ pc \in {"finish", "complete", "completed", "done"}
       /\ pc # "finish" => record = "succeeded"

Flags ==
  /\ faults \in Nat
  /\ pendingCancel \in BOOLEAN /\ canceled \in BOOLEAN /\ stopped \in BOOLEAN
  /\ verified \in BOOLEAN /\ active \in BOOLEAN

Inv == Flags /\ Stages /\ StopsStay /\ SuccessStays

LEMMA InitInv == ASSUME Init PROVE Inv
<1>1. Flags
  BY RpaExecutionAssumption DEF Init, Flags
<1>2. ~stopped /\ ~verified /\ ~(record = "succeeded")
  BY DEF Init
<1>3. Stages
  BY <1>2 DEF Init, Stages, Early, Late
<1> QED
  BY <1>1, <1>2, <1>3 DEF Inv, StopsStay, SuccessStays

(* What the invariant reads. *)
Read == <<mode, record, pc, child, result, canceled, active, pendingCancel, verified, faults, stopped>>

LEMMA UnreadKept == ASSUME Inv, UNCHANGED Read PROVE Inv'
  BY DEF Inv, Flags, Stages, StopsStay, SuccessStays, Read, Outcome

(* The task up to the spawn. *)
LEMMA EarlyKept == ASSUME Inv, Start \/ MarkRunning \/ AppendStarted \/ Spawn PROVE Inv'
<1> USE DEF Inv, Flags, Stages, StopsStay, SuccessStays, Early, Late, Outcome, NoResult
<1>1. CASE Start
  BY <1>1 DEF Start, process
<1>2. CASE MarkRunning
  BY <1>2 DEF MarkRunning, process
<1>3. CASE AppendStarted
  BY <1>3 DEF AppendStarted, Write, Publish, process
<1>4. CASE Spawn
  BY <1>4 DEF Spawn, store
<1> QED
  BY <1>1, <1>2, <1>3, <1>4

(* The process and those who stop it. *)
LEMMA ProcessKept ==
  ASSUME Inv, Cancel \/ Timeout \/ SpawnError \/ Close
  PROVE  Inv'
<1> USE DEF Inv, Flags, Stages, StopsStay, SuccessStays, Early, Late, Outcome, NoResult
<1>1. CASE Cancel
  BY <1>1 DEF Cancel, TerminateChild, store
<1>2. CASE Timeout
  BY <1>2 DEF Timeout, TerminateChild, store
<1>3. CASE SpawnError
  BY <1>3 DEF SpawnError, store
<1>4. CASE Close
  <2>1. /\ child = "running" /\ child' = "closed" /\ pc' = "settle"
        /\ result'.canceled = canceled
        /\ UNCHANGED <<mode, record, canceled, active, pendingCancel, verified, faults, stopped>>
    BY <1>4 DEF Close
  <2> QED
    BY <2>1
<1> QED
  BY <1>1, <1>2, <1>3, <1>4

(* The task after the process has ended. *)
LEMMA LateKept ==
  ASSUME Inv, AwaitLogs \/ AppendFound \/ MarkFlowVerified \/ FinishRecord \/ AppendCompleted
              \/ FileError
  PROVE  Inv'
<1> USE DEF Inv, Flags, Stages, StopsStay, SuccessStays, Early, Late, Outcome, NoResult
<1>1. CASE AwaitLogs
  BY <1>1 DEF AwaitLogs, process, store
<1>2. CASE AppendFound
  BY <1>2 DEF AppendFound, Write, Publish, process
<1>3. CASE MarkFlowVerified
  <2>1. UNCHANGED <<mode, record, child, result, canceled, active, pendingCancel, stopped>>
    BY <1>3 DEF MarkFlowVerified, Write, Publish, process, store
  <2>2. CASE pc = "scan" /\ Outcome = "succeeded" /\ mode = "verify" /\ pc' = "finish"
             /\ verified' = TRUE /\ faults' = faults
    BY <2>1, <2>2
  <2>3. CASE pc = "scan" /\ pc' = "marking" /\ faults' = faults + 1 /\ verified' = verified
    BY <2>1, <2>3
  <2>4. CASE pc = "marking" /\ pc' = "finish" /\ UNCHANGED <<verified, faults>>
    BY <2>1, <2>4
  <2> QED
    BY <1>3, <2>2, <2>3, <2>4 DEF MarkFlowVerified, Publish, store
<1>4. CASE FinishRecord
  BY <1>4 DEF FinishRecord, process
<1>5. CASE AppendCompleted
  BY <1>5 DEF AppendCompleted, Write, Publish, process
<1>6. CASE FileError
  <2>1. /\ UNCHANGED <<mode, record, child, result, canceled, verified, stopped>>
        /\ faults' = faults + 1
    BY <1>6 DEF FileError, process, store
  <2>2. CASE pc \in {"mark", "announce", "scan", "finish", "complete"} /\ pc' = "catch"
             /\ UNCHANGED <<active, pendingCancel>>
    BY <2>1, <2>2
  <2>3. CASE pc \in {"catch", "failing"} /\ pc' = "lost" /\ ~active' /\ ~pendingCancel'
             /\ active' \in BOOLEAN /\ pendingCancel' \in BOOLEAN
    BY <2>1, <2>3
  <2> QED
    BY <1>6, <2>2, <2>3 DEF FileError
<1> QED
  BY <1>1, <1>2, <1>3, <1>4, <1>5, <1>6

LEMMA NextKept == ASSUME Inv, [Next]_vars PROVE Inv'
<1>1. CASE Kill \/ Output
  BY <1>1, UnreadKept DEF Kill, Output, process, store, Read
<1>2. ASSUME NEW i \in 1..MaxLines, WriteLine(i) PROVE Inv'
  BY <1>2, UnreadKept DEF WriteLine, process, Read
<1>3. ASSUME NEW i \in 1..MaxLines, LoseLine(i) PROVE Inv'
  BY <1>3 DEF LoseLine, process, store, Inv, Flags, Stages, StopsStay, SuccessStays, Outcome
<1>4. ASSUME NEW s \in Subscribers, Subscribe(s) \/ ReadHistory(s) \/ NextLiveEvent(s) \/ Leave(s)
      PROVE  Inv'
  BY <1>4, UnreadKept DEF Subscribe, ReadHistory, NextLiveEvent, Leave, process, store, Read
<1>5. CASE UNCHANGED vars
  BY <1>5, UnreadKept DEF vars, Read
<1> QED
  BY <1>1, <1>2, <1>3, <1>4, <1>5, EarlyKept, ProcessKept, LateKept DEF Next, Task

(* A stop that was answered before the process had closed is never lost,    *)
(* whatever the process returned and whichever files could not be written.  *)
THEOREM SuccessEarned == Spec => []SuccessIsEarned
<1>1. Inv => SuccessIsEarned
  BY DEF Inv, Flags, StopsStay, SuccessStays, SuccessIsEarned, Outcome
<1> QED
  BY <1>1, InitInv, NextKept, PTL DEF Spec

-----------------------------------------------------------------------------
Over == {"completed", "done"}
Settled == {"scan", "scanned", "marking", "finish", "complete", "catch", "failing"} \cup Over

(* Lines come from the running process only, and are settled when the task *)
(* goes on; the terminal event is the last write of the task.              *)
Order ==
  /\ pc \in Early => lines = <<>>
  /\ pc \in Settled => LinesSettled
  /\ pc \notin Over => \A i \in DOMAIN events : ~IsTerminalExecutionEvent(events[i])
  /\ pc \in Over => /\ Len(events) > 0 /\ events[Len(events)].type = record
                    /\ \A i \in 1..(Len(events) - 1) : ~IsTerminalExecutionEvent(events[i])

Known == Typed /\ Stages /\ Order

LEMMA NotTerminal == ~IsTerminalExecutionEvent([seq |-> nextSeq, type |-> "log"])
                     /\ ~IsTerminalExecutionEvent([seq |-> nextSeq, type |-> "run.started"])
                     /\ ~IsTerminalExecutionEvent([seq |-> nextSeq, type |-> "script"])
  BY DEF IsTerminalExecutionEvent, Terminal

(* An event that is not terminal is appended before the task is over. *)
LEMMA QuietAppend ==
  ASSUME Known, pc \notin Over, pc' \notin Over, NEW event \in Event,
         ~IsTerminalExecutionEvent(event), events' = Append(events, event)
  PROVE  \A i \in DOMAIN events' : ~IsTerminalExecutionEvent(events'[i])
<1>1. events \in Seq(Event) /\ DOMAIN events = 1..Len(events) /\ Len(events) \in Nat
  BY LenProperties DEF Known, Typed, Files
<1>2. /\ Len(events') = Len(events) + 1 /\ events'[Len(events) + 1] = event
      /\ events' \in Seq(Event)
      /\ \A i \in 1..Len(events) : events'[i] = events[i]
  BY <1>1, AppendProperties
<1>3. DOMAIN events' = 1..(Len(events) + 1)
  BY <1>2, LenProperties
<1>4. \A i \in 1..Len(events) : ~IsTerminalExecutionEvent(events[i])
  BY <1>1 DEF Known, Order
<1> QED
  BY <1>1, <1>2, <1>3, <1>4

LEMMA TerminalAppend ==
  ASSUME Known, pc \in {"complete", "failing"}, pc' = "completed", record' = record,
         Write(record), UNCHANGED lines
  PROVE  Order'
<1> DEFINE event == [seq |-> nextSeq, type |-> record]
<1>1. event \in Event
  <2>1. record \in EventType
    BY DEF Known, Typed, Places, EventType
  <2> QED BY <2>1 DEF Known, Typed, Files, Event
<1>2. events \in Seq(Event) /\ Len(events) \in Nat /\ DOMAIN events = 1..Len(events)
  BY LenProperties DEF Known, Typed, Files
<1>3. /\ Len(events') = Len(events) + 1 /\ events'[Len(events) + 1] = event
      /\ \A i \in 1..Len(events) : events'[i] = events[i]
  BY <1>1, <1>2, AppendProperties DEF Write
<1>4. \A i \in 1..Len(events) : ~IsTerminalExecutionEvent(events[i])
  BY <1>2 DEF Known, Order, Over
<1>5. Len(events') > 0 /\ events'[Len(events')].type = record'
  BY <1>2, <1>3
<1>6. \A i \in 1..(Len(events') - 1) : ~IsTerminalExecutionEvent(events'[i])
  BY <1>2, <1>3, <1>4
<1>7. LinesSettled'
  BY DEF Known, Order, Settled, LinesSettled
<1> QED
  BY <1>5, <1>6, <1>7 DEF Order, Over, Settled, Early

(* A step that leaves the event file and the record of an ended execution. *)
LEMMA FileKept ==
  ASSUME Known, UNCHANGED events, pc \in Over <=> pc' \in Over, pc \in Over => record' = record
  PROVE  /\ pc' \notin Over => \A i \in DOMAIN events' : ~IsTerminalExecutionEvent(events'[i])
         /\ pc' \in Over => /\ Len(events') > 0 /\ events'[Len(events')].type = record'
                            /\ \A i \in 1..(Len(events') - 1) : ~IsTerminalExecutionEvent(events'[i])
  BY DEF Known, Order

LEMMA OrderKept == ASSUME Known, Next PROVE Order'
<1> USE DEF Early, Over, Settled
<1>0. /\ (pc \in Early => lines = <<>>) /\ (pc \in Settled => LinesSettled)
      /\ (pc = "wait" <=> child = "running")
      /\ (lines = <<>> => LinesSettled)
  BY DEF Known, Order, Stages, LinesSettled
<1>1. CASE Start \/ MarkRunning \/ Spawn \/ AwaitLogs \/ FinishRecord \/ SpawnError \/ FileError
  <2>1. UNCHANGED <<events, lines>> /\ pc \notin Over /\ pc' \notin Over
        /\ (pc' \in Early => pc \in Early)
    BY <1>1 DEF Start, MarkRunning, Spawn, AwaitLogs, FinishRecord, SpawnError, FileError, store
  <2>2. pc' \in Settled => LinesSettled
    BY <1>0, <1>1 DEF Start, MarkRunning, Spawn, AwaitLogs, FinishRecord, SpawnError, FileError
  <2> QED BY <1>0, <2>1, <2>2, FileKept DEF Order, LinesSettled
<1>2. CASE AppendStarted \/ AppendFound \/ MarkFlowVerified
  <2>1. pc \notin Over /\ pc' \notin Over /\ UNCHANGED lines
        /\ (pc' \in Early => pc \in Early) /\ (pc' \in Settled => pc \in Settled)
    BY <1>2 DEF AppendStarted, AppendFound, MarkFlowVerified, Publish
  <2>2. \/ UNCHANGED events
        \/ \E type \in {"log", "script", "run.started"} :
              events' = Append(events, [seq |-> nextSeq, type |-> type])
    BY <1>2 DEF AppendStarted, AppendFound, MarkFlowVerified, Publish, Write, store
  <2>3. ASSUME NEW type \in {"log", "script", "run.started"},
               events' = Append(events, [seq |-> nextSeq, type |-> type])
        PROVE  \A i \in DOMAIN events' : ~IsTerminalExecutionEvent(events'[i])
    <3>1. [seq |-> nextSeq, type |-> type] \in Event
      BY DEF Known, Typed, Files, Event, EventType
    <3> QED BY <2>1, <2>3, <3>1, NotTerminal, QuietAppend
  <2>4. \A i \in DOMAIN events' : ~IsTerminalExecutionEvent(events'[i])
    BY <2>1, <2>2, <2>3 DEF Known, Order
  <2> QED BY <1>0, <2>1, <2>4 DEF Order, LinesSettled
<1>3. CASE AppendCompleted
  <2>1. CASE pc \in {"complete", "failing"} /\ Write(record) /\ pc' = "completed" /\ record' = record
    BY <1>3, <2>1, TerminalAppend DEF AppendCompleted
  <2>2. CASE pc = "completed" /\ Publish("done")
    BY <1>0, <1>3, <2>2, FileKept DEF AppendCompleted, Publish, Order, LinesSettled
  <2> QED BY <1>3, <2>1, <2>2 DEF AppendCompleted
<1>4. CASE Cancel \/ Timeout \/ Kill
  <2>1. UNCHANGED <<events, lines, pc, record>>
    BY <1>4 DEF Cancel, Timeout, Kill, store
  <2> QED BY <1>0, <2>1, FileKept DEF Order, LinesSettled
<1>5. CASE Output \/ Close
  <2>1. UNCHANGED <<events, record>> /\ pc = "wait" /\ pc' \in {"wait", "settle"}
    BY <1>0, <1>5 DEF Output, Close
  <2> QED BY <2>1, FileKept DEF Order
<1>6. ASSUME NEW i \in 1..MaxLines, WriteLine(i) PROVE Order'
  <2>1. i \in DOMAIN lines /\ lines[i].state # "done" /\ UNCHANGED <<pc, record>>
    BY <1>6 DEF WriteLine
  <2>2. pc \notin Early /\ pc \notin Settled
    BY <1>0, <2>1 DEF LinesSettled
  <2>3. lines[i] \in Line
    BY <2>1, ElementOfSeq, LenProperties DEF Known, Typed, Lines
  <2>4. [seq |-> lines[i].seq, type |-> "log"] \in Event
        /\ ~IsTerminalExecutionEvent([seq |-> lines[i].seq, type |-> "log"])
    BY <2>3 DEF Line, Event, EventType, IsTerminalExecutionEvent, Terminal
  <2>5. \A j \in DOMAIN events' : ~IsTerminalExecutionEvent(events'[j])
    <3>1. CASE UNCHANGED events
      BY <2>2, <3>1 DEF Known, Order
    <3>2. CASE events' = Append(events, [seq |-> lines[i].seq, type |-> "log"])
      BY <2>1, <2>2, <2>4, <3>2, QuietAppend
    <3> QED BY <1>6, <3>1, <3>2 DEF WriteLine
  <2> QED BY <2>1, <2>2, <2>5 DEF Order
<1>7. ASSUME NEW i \in 1..MaxLines, LoseLine(i) PROVE Order'
  <2>1. i \in DOMAIN lines /\ lines[i].state # "done" /\ UNCHANGED <<pc, record, events>>
    BY <1>7 DEF LoseLine, store
  <2>2. pc \notin Early /\ pc \notin Settled
    BY <1>0, <2>1 DEF LinesSettled
  <2> QED BY <2>1, <2>2, FileKept DEF Order
<1>8. ASSUME NEW s \in Subscribers, Subscribe(s) \/ ReadHistory(s) \/ NextLiveEvent(s) \/ Leave(s)
      PROVE  Order'
  <2>1. UNCHANGED <<events, lines, pc, record>>
    BY <1>8 DEF Subscribe, ReadHistory, NextLiveEvent, Leave, store
  <2> QED BY <1>0, <2>1, FileKept DEF Order, LinesSettled
<1> QED
  BY <1>1, <1>2, <1>3, <1>4, <1>5, <1>6, <1>7, <1>8 DEF Next, Task

LEMMA AlwaysKnown == Spec => []Known
<1>1. Init => Known /\ Inv
  <2> SUFFICES ASSUME Init PROVE Known
    BY InitInv
  <2>1. lines = <<>> /\ events = <<>> /\ pc = "idle"
    BY DEF Init
  <2>2. Order
    BY <2>1 DEF Order, Early, Settled, Over, LinesSettled
  <2> QED BY <2>2, InitTyped, InitInv DEF Known, Inv
<1>2. Known /\ Inv /\ [Next]_vars => Known' /\ Inv'
  <2> SUFFICES ASSUME Known, Inv, [Next]_vars PROVE Known'
    BY NextKept
  <2>1. Stages'
    BY NextKept DEF Inv
  <2>2. CASE Next
    BY <2>1, <2>2, OrderKept, BitsKept, PlacesKept, ResultKept, CountsKept, LinesKept, FilesKept,
       StreamsKept DEF Known, Typed
  <2>3. CASE UNCHANGED vars
    <3>1. Typed'
      BY <2>3 DEF Known, vars, Typed, Bits, Places, Counts, Lines, Files, Streams
    <3>2. Order'
      BY <2>3 DEF Known, vars, Order, LinesSettled
    <3> QED BY <2>1, <3>1, <3>2 DEF Known
  <2> QED BY <2>2, <2>3
<1> QED
  BY <1>1, <1>2, PTL DEF Spec

(* The log writes nobody awaits while the process runs are all over when   *)
(* the run.completed event is written, which is the last of the file.      *)
THEOREM EventsEndWithCompletion == Spec => []EventsEnd
<1>1. Known => EventsEnd
  <2> SUFFICES ASSUME Known PROVE EventsEnd
    OBVIOUS
  <2>1. events \in Seq(Event) /\ DOMAIN events = 1..Len(events) /\ Len(events) \in Nat
    BY LenProperties DEF Known, Typed, Files
  <2>2. \A i \in DOMAIN events : IsTerminalExecutionEvent(events[i]) => i = Len(events)
    BY <2>1 DEF Known, Order
  <2>3. pc = "done" => events # <<>> /\ Last(events).type = record
    BY <2>1 DEF Known, Order, Over, Last
  <2> QED BY <2>2, <2>3 DEF EventsEnd
<1> QED
  BY <1>1, AlwaysKnown, PTL

-----------------------------------------------------------------------------
(* The subscribers: what is written is sent to each of them, or waits for  *)
(* it, or is yet to be handed out.                                         *)
Written == ToSet(events)
Holding == {"announced", "scanned", "marking", "completed"}

(* Every event of the file and every line has a number of its own. *)
Numbered ==
  /\ \A i \in DOMAIN events : events[i].seq < nextSeq
  /\ \A i \in DOMAIN lines : lines[i].seq < nextSeq
  /\ \A i, j \in DOMAIN events : events[i].seq = events[j].seq => i = j
  /\ \A i, j \in DOMAIN lines : lines[i].seq = lines[j].seq => i = j
  /\ \A i \in DOMAIN lines, j \in DOMAIN events :
       lines[i].state = "logged" => events[j].seq # lines[i].seq

(* What is in the file and not yet handed out: the event the task holds,   *)
(* and the lines in between.                                               *)
Filed(i) == i \in DOMAIN lines /\ lines[i].state = "filed"
Pending(n) ==
  \/ pc \in Holding /\ unpublished.seq = n
  \/ \E i \in DOMAIN lines : Filed(i) /\ lines[i].seq = n
Kept ==
  /\ pc \in Holding => unpublished \in Written
  /\ pc \in Holding \ {"completed"} => ~IsTerminalExecutionEvent(unpublished)
  /\ \A i \in DOMAIN lines : Filed(i) => [seq |-> lines[i].seq, type |-> "log"] \in Written

(* The queue of a subscriber: events of the file, a terminal one at its    *)
(* end and when the execution is done.                                     *)
QueueInv(q, closed) ==
  /\ \A k \in DOMAIN q : q[k] \in Written
  /\ \A k \in DOMAIN q : IsTerminalExecutionEvent(q[k]) => k = Len(q) /\ pc = "done"
  /\ closed => \E k \in DOMAIN q : IsTerminalExecutionEvent(q[k])

(* What it was sent: events of the file, none twice and none terminal; all *)
(* others wait in its queue or are yet to be handed out.                   *)
SentInv(sent) ==
  /\ \A k \in DOMAIN sent :
       \E e \in Written : e.seq = sent[k] /\ ~IsTerminalExecutionEvent(e)
  /\ \A k, m \in DOMAIN sent : sent[k] = sent[m] => k = m
Missed(q, sent) ==
  \E e \in Written :
    /\ \A k \in DOMAIN sent : sent[k] # e.seq
    /\ \A k \in DOMAIN q : q[k].seq # e.seq
    /\ ~Pending(e.seq)
Complete(sent) ==
  /\ \A e \in Written : \E k \in DOMAIN sent : sent[k] = e.seq
  /\ \A k \in DOMAIN sent : \E e \in Written : e.seq = sent[k]
  /\ \A k, m \in DOMAIN sent : sent[k] = sent[m] => k = m

Follows(s) ==
  /\ subs[s].state = "idle" => subs[s] = NoSubscriber
  /\ Registered(s) => QueueInv(subs[s].queue, subs[s].closed)
  /\ subs[s].state = "live" => SentInv(subs[s].sent)
  /\ subs[s].state = "live" /\ ~subs[s].gone => ~Missed(subs[s].queue, subs[s].sent)
  /\ subs[s].state = "ended" /\ ~subs[s].gone => pc \in Over /\ Complete(subs[s].sent)

FollowInv == Numbered /\ Kept /\ \A s \in Subscribers : Follows(s)

LEMMA EventFacts ==
  ASSUME Known
  PROVE  /\ events \in Seq(Event) /\ Len(events) \in Nat /\ DOMAIN events = 1..Len(events)
         /\ \A i \in DOMAIN events : events[i] \in Event /\ events[i].seq \in Nat
         /\ lines \in Seq(Line) /\ Len(lines) \in Nat /\ DOMAIN lines = 1..Len(lines)
         /\ \A i \in DOMAIN lines : lines[i] \in Line /\ lines[i].seq \in Nat
         /\ nextSeq \in Nat
<1>1. events \in Seq(Event) /\ lines \in Seq(Line) /\ nextSeq \in Nat
  BY DEF Known, Typed, Files, Lines
<1>2. Len(events) \in Nat /\ DOMAIN events = 1..Len(events)
      /\ Len(lines) \in Nat /\ DOMAIN lines = 1..Len(lines)
  BY <1>1, LenProperties
<1>3. \A i \in DOMAIN events : events[i] \in Event
  BY <1>1, <1>2, ElementOfSeq
<1>4. \A i \in DOMAIN lines : lines[i] \in Line
  BY <1>1, <1>2, ElementOfSeq
<1> QED
  BY <1>1, <1>2, <1>3, <1>4 DEF Event, Line

LEMMA SubscriberFacts ==
  ASSUME Known, NEW s \in Subscribers
  PROVE  /\ subs[s] \in Subscriber /\ DOMAIN subs = Subscribers
         /\ subs[s].queue \in Seq(Event) /\ Len(subs[s].queue) \in Nat
         /\ DOMAIN subs[s].queue = 1..Len(subs[s].queue)
         /\ \A k \in DOMAIN subs[s].queue : subs[s].queue[k] \in Event
         /\ subs[s].sent \in Seq(Nat) /\ Len(subs[s].sent) \in Nat
         /\ DOMAIN subs[s].sent = 1..Len(subs[s].sent)
<1>1. subs[s] \in Subscriber /\ DOMAIN subs = Subscribers
  BY DEF Known, Typed, Streams
<1>2. subs[s].queue \in Seq(Event) /\ subs[s].sent \in Seq(Nat)
  BY <1>1 DEF Subscriber
<1>3. /\ Len(subs[s].queue) \in Nat /\ DOMAIN subs[s].queue = 1..Len(subs[s].queue)
      /\ Len(subs[s].sent) \in Nat /\ DOMAIN subs[s].sent = 1..Len(subs[s].sent)
  BY <1>2, LenProperties
<1>4. \A k \in DOMAIN subs[s].queue : subs[s].queue[k] \in Event
  BY <1>2, <1>3, ElementOfSeq
<1> QED
  BY <1>1, <1>2, <1>3, <1>4

LEMMA AppendFacts ==
  ASSUME NEW S, NEW q \in Seq(S), NEW e \in S
  PROVE  /\ Append(q, e) \in Seq(S) /\ Len(q) \in Nat /\ Len(Append(q, e)) = Len(q) + 1
         /\ DOMAIN q = 1..Len(q) /\ DOMAIN Append(q, e) = 1..(Len(q) + 1)
         /\ \A k \in DOMAIN q : Append(q, e)[k] = q[k]
         /\ Append(q, e)[Len(q) + 1] = e
         /\ ToSet(Append(q, e)) = ToSet(q) \cup {e}
<1>1. /\ Append(q, e) \in Seq(S) /\ Len(q) \in Nat /\ Len(Append(q, e)) = Len(q) + 1
      /\ DOMAIN q = 1..Len(q) /\ DOMAIN Append(q, e) = 1..(Len(q) + 1)
  BY AppendProperties, LenProperties
<1>2. (\A k \in 1..Len(q) : Append(q, e)[k] = q[k]) /\ Append(q, e)[Len(q) + 1] = e
  BY AppendProperties
<1>3. \A k \in 1..(Len(q) + 1) : k \in 1..Len(q) \/ k = Len(q) + 1
  BY <1>1
<1>4. 1..Len(q) \subseteq 1..(Len(q) + 1) /\ Len(q) + 1 \in 1..(Len(q) + 1)
  BY <1>1
<1>5. ToSet(Append(q, e)) = ToSet(q) \cup {e}
  BY <1>1, <1>2, <1>3, <1>4 DEF ToSet
<1> QED
  BY <1>1, <1>2, <1>5

(* An event of the file is known by its number. *)
LEMMA OneOfEach ==
  ASSUME Numbered, NEW e \in Written, NEW f \in Written, e.seq = f.seq
  PROVE  e = f
  BY DEF Numbered, Written, ToSet

(* Whoever is not served by a step has lost nothing, when the file has     *)
(* only grown by what will still be handed out.                            *)
LEMMA Steady ==
  ASSUME NEW s \in Subscribers, Follows(s), subs'[s] = subs[s],
         Written \subseteq Written',
         \A e \in Written : Pending(e.seq) => Pending(e.seq)',
         \A e \in Written' : e \in Written \/ Pending(e.seq)',
         pc = "done" => pc' = "done",
         pc \in Over => pc' \in Over /\ Written' = Written
  PROVE  Follows(s)'
<1> DEFINE q == subs[s].queue
           sent == subs[s].sent
<1>1. QueueInv(q, subs[s].closed) => QueueInv(q, subs[s].closed)'
  BY DEF QueueInv
<1>2. SentInv(sent) => SentInv(sent)'
  BY DEF SentInv
<1>3. ~Missed(q, sent) => ~Missed(q, sent)'
  BY DEF Missed
<1>4. pc \in Over /\ Complete(sent) => pc' \in Over /\ Complete(sent)'
  BY DEF Complete
<1> QED
  BY <1>1, <1>2, <1>3, <1>4 DEF Follows, Registered

(* An event is handed to all who are registered: the last one when it is   *)
(* terminal, and none after that.                                          *)
LEMMA HandedOut ==
  ASSUME Known, NEW s \in Subscribers, Follows(s), NEW event \in Written, event \in Event,
         subs' = Published(event), UNCHANGED events,
         pc # "done", IsTerminalExecutionEvent(event) => pc' = "done",
         \A n \in Nat : Pending(n) => n = event.seq \/ Pending(n)',
         pc \in Over => pc' \in Over
  PROVE  Follows(s)'
<1> DEFINE q == subs[s].queue
           closed == subs[s].closed
           sent == subs[s].sent
<1>0. /\ q \in Seq(Event) /\ subs[s] \in Subscriber
      /\ \A e \in Written : e.seq \in Nat
      /\ Written' = Written
  BY SubscriberFacts, EventFacts DEF Written, ToSet
<1>1. CASE ~Registered(s)
  <2>1. subs'[s] = subs[s]
    BY <1>1 DEF Published
  <2>2. Complete(sent) => Complete(sent)'
    BY <1>0, <2>1 DEF Complete
  <2> QED
    BY <1>1, <2>1, <2>2 DEF Follows, Registered
<1>2. CASE Registered(s)
  <2> DEFINE q1 == Append(q, event)
             closed1 == closed \/ IsTerminalExecutionEvent(event)
  <2>1. subs'[s] = [subs[s] EXCEPT !.queue = q1, !.closed = closed1]
    BY <1>2 DEF Published
  <2>2. /\ subs'[s].queue = q1 /\ subs'[s].closed = closed1 /\ subs'[s].sent = sent
        /\ subs'[s].state = subs[s].state /\ subs'[s].gone = subs[s].gone
    BY <1>0, <2>1 DEF Subscriber
  <2>3. /\ DOMAIN q = 1..Len(q) /\ DOMAIN q1 = 1..(Len(q) + 1) /\ Len(q) \in Nat
        /\ Len(q1) = Len(q) + 1
        /\ \A k \in DOMAIN q : q1[k] = q[k]
        /\ q1[Len(q) + 1] = event
    BY <1>0, AppendFacts
  <2>4. (\A k \in DOMAIN q1 : k \in DOMAIN q \/ k = Len(q) + 1)
        /\ DOMAIN q \subseteq DOMAIN q1 /\ Len(q) + 1 \in DOMAIN q1
    BY <2>3
  <2>5. QueueInv(q, closed)
    BY <1>2 DEF Follows
  <2> HIDE DEF q1, closed1, q, closed
  <2>6. \A k \in DOMAIN q1 : q1[k] \in Written
    BY <2>3, <2>4, <2>5 DEF QueueInv
  <2>7. \A k \in DOMAIN q1 : IsTerminalExecutionEvent(q1[k]) => k = Len(q1) /\ pc' = "done"
    BY <2>3, <2>4, <2>5 DEF QueueInv
  <2>8. closed1 => \E k \in DOMAIN q1 : IsTerminalExecutionEvent(q1[k])
    BY <2>3, <2>4, <2>5 DEF QueueInv, closed1
  <2>9. /\ \A k \in DOMAIN q1 : q1[k] \in Written'
        /\ \A k \in DOMAIN q1 : IsTerminalExecutionEvent(q1[k]) => k = Len(q1) /\ pc' = "done"
        /\ closed1 => \E k \in DOMAIN q1 : IsTerminalExecutionEvent(q1[k])
    BY <1>0, <2>6, <2>7, <2>8
  <2>10. SentInv(sent) => SentInv(subs[s].sent)'
    BY <1>0, <2>2 DEF SentInv
  <2>11. ASSUME ~Missed(q, sent), Missed(subs[s].queue, subs[s].sent)' PROVE FALSE
    <3>1. PICK e \in Written : /\ \A k \in DOMAIN sent : sent[k] # e.seq
                               /\ \A k \in DOMAIN q1 : q1[k].seq # e.seq
                               /\ ~Pending(e.seq)'
      BY <1>0, <2>2, <2>11 DEF Missed
    <3>2. e.seq # event.seq
      BY <2>3, <2>4, <3>1
    <3>3. ~Pending(e.seq)
      BY <1>0, <3>1, <3>2
    <3>4. \A k \in DOMAIN q : q[k].seq # e.seq
      BY <2>3, <2>4, <3>1
    <3> QED
      BY <2>11, <3>1, <3>3, <3>4 DEF Missed
  <2>12. QueueInv(subs[s].queue, subs[s].closed)'
    BY <2>2, <2>9 DEF QueueInv
  <2> QED
    BY <1>2, <2>2, <2>10, <2>11, <2>12 DEF Follows, Registered, q
<1> QED
  BY <1>1, <1>2

(* A terminal event is in the file: nothing is written any more, and all   *)
(* that was is handed out when the execution is done.                      *)
LEMMA TerminalIsLast ==
  ASSUME Known, NEW e \in Written, IsTerminalExecutionEvent(e)
  PROVE  pc \in Over
  BY DEF Known, Order, Written, ToSet

LEMMA NothingPending ==
  ASSUME Known, pc = "done", NEW n
  PROVE  ~Pending(n)
<1>1. LinesSettled
  BY DEF Known, Order, Settled, Over
<1> QED
  BY <1>1 DEF Pending, Filed, Holding, LinesSettled

(* The history is the file: all of it, each event once. *)
LEMMA HistoryFacts ==
  ASSUME Known, Numbered
  PROVE  /\ \A e \in Written : \E k \in DOMAIN SeqsOf(events) : SeqsOf(events)[k] = e.seq
         /\ \A k \in DOMAIN SeqsOf(events) : \E e \in Written : e.seq = SeqsOf(events)[k]
         /\ \A k \in DOMAIN SeqsOf(events) : \E i \in DOMAIN events : events[i].seq = SeqsOf(events)[k]
         /\ \A k, m \in DOMAIN SeqsOf(events) : SeqsOf(events)[k] = SeqsOf(events)[m] => k = m
  BY DEF SeqsOf, Written, ToSet, Numbered

LEMMA HistoryFollows ==
  ASSUME Known, Numbered, NEW s \in Subscribers, Follows(s), ReadHistory(s)
  PROVE  Follows(s)'
<1> DEFINE ended == \E i \in DOMAIN events : IsTerminalExecutionEvent(events[i])
           left == subs[s].gone /\ events # <<>>
           state == IF left THEN "left" ELSE IF ended THEN "ended" ELSE "live"
           sent == IF left THEN subs[s].sent ELSE SeqsOf(events)
           q == subs[s].queue
<1>1. subs[s] \in Subscriber /\ DOMAIN subs = Subscribers
  BY SubscriberFacts
<1>2. subs'[s] = [subs[s] EXCEPT !.state = state, !.sent = sent]
  BY <1>1 DEF ReadHistory
<1> HIDE DEF state, sent
<1>3. /\ subs'[s].state = state /\ subs'[s].sent = sent /\ subs'[s].queue = q
      /\ subs'[s].closed = subs[s].closed /\ subs'[s].gone = subs[s].gone
  BY <1>1, <1>2 DEF Subscriber
<1>4. Written' = Written /\ pc' = pc /\ UNCHANGED <<lines, unpublished, events>>
  BY DEF ReadHistory, store, Written
<1>5. QueueInv(q, subs[s].closed)
  BY DEF ReadHistory, Follows, Registered
<1>6. QueueInv(subs[s].queue, subs[s].closed)'
  BY <1>3, <1>4, <1>5 DEF QueueInv
<1>7. ASSUME state \in {"live", "ended"} PROVE sent = SeqsOf(events) /\ Complete(sent)
  <2>1. sent = SeqsOf(events)
    BY <1>7 DEF state, sent
  <2>2. Complete(SeqsOf(events))
    BY HistoryFacts DEF Complete
  <2> QED
    BY <2>1, <2>2
<1>8. ASSUME state = "live" PROVE SentInv(sent) /\ ~Missed(q, sent)
  <2>1. \A i \in DOMAIN events : ~IsTerminalExecutionEvent(events[i])
    BY <1>8 DEF state
  <2>2. \A e \in Written : ~IsTerminalExecutionEvent(e)
    BY <2>1 DEF Written, ToSet
  <2>3. sent = SeqsOf(events)
    BY <1>7, <1>8
  <2> QED
    BY <2>2, <2>3, HistoryFacts DEF SentInv, Missed
<1>9. ASSUME state = "ended" PROVE pc \in Over
  <2>1. PICK i \in DOMAIN events : IsTerminalExecutionEvent(events[i])
    BY <1>9 DEF state
  <2> QED
    BY <2>1, TerminalIsLast DEF Written, ToSet
<1>10. state = "live" => SentInv(subs[s].sent)' /\ ~Missed(subs[s].queue, subs[s].sent)'
  BY <1>3, <1>4, <1>8 DEF SentInv, Missed, Pending, Filed
<1>11. state = "ended" => Complete(subs[s].sent)'
  BY <1>3, <1>4, <1>7, HistoryFacts DEF Complete
<1>12. state # "idle"
  BY DEF state
<1> QED
  BY <1>3, <1>4, <1>6, <1>9, <1>10, <1>11, <1>12 DEF Follows

(* The next event of the queue: the last one when it is terminal. *)
LEMMA LiveFollows ==
  ASSUME Known, Numbered, NEW s \in Subscribers, Follows(s), NextLiveEvent(s)
  PROVE  Follows(s)'
<1> DEFINE q == subs[s].queue
           closed == subs[s].closed
           old == subs[s].sent
           event == q[1]
           seen == event.seq \in ToSet(old)
           sent == IF seen \/ subs[s].gone THEN old ELSE Append(old, event.seq)
           state == IF subs[s].gone /\ ~seen THEN "left"
                    ELSE IF IsTerminalExecutionEvent(event) THEN "ended" ELSE "live"
<1>1. /\ subs[s] \in Subscriber /\ DOMAIN subs = Subscribers /\ subs[s].state = "live"
      /\ q \in Seq(Event) /\ Len(q) \in Nat /\ DOMAIN q = 1..Len(q)
      /\ old \in Seq(Nat) /\ Len(old) \in Nat /\ DOMAIN old = 1..Len(old)
  BY SubscriberFacts DEF NextLiveEvent
<1>2. QueueInv(q, closed) /\ SentInv(old) /\ (~subs[s].gone => ~Missed(q, old))
  BY <1>1 DEF Follows, Registered
<1>3. q # <<>>
  <2>1. q = <<>> => ~closed
    BY <1>2 DEF QueueInv
  <2> QED
    BY <2>1 DEF NextLiveEvent
<1>4. /\ 1 \in DOMAIN q /\ Head(q) = event /\ event \in Event /\ event \in Written
      /\ event.seq \in Nat
      /\ Tail(q) \in Seq(Event) /\ Len(Tail(q)) = Len(q) - 1 /\ DOMAIN Tail(q) = 1..(Len(q) - 1)
      /\ \A k \in 1..(Len(q) - 1) : Tail(q)[k] = q[k + 1]
  <2>1. Len(q) # 0
    BY <1>1, <1>3, EmptySeq
  <2>2. 1 \in DOMAIN q /\ Len(q) \in Nat \ {0}
    BY <1>1, <2>1
  <2>3. Head(q) = event /\ event \in Event
    BY <1>1, <2>2, ElementOfSeq
  <2>4. Tail(q) \in Seq(Event) /\ Len(Tail(q)) = Len(q) - 1
    BY <1>1, <1>3, HeadTailProperties
  <2>5. DOMAIN Tail(q) = 1..(Len(q) - 1)
    BY <2>4, LenProperties
  <2>6. \A k \in 1..(Len(q) - 1) : Tail(q)[k] = q[k + 1]
    BY <1>1, <1>3, <2>4, HeadTailProperties
  <2> QED
    BY <1>2, <2>2, <2>3, <2>4, <2>5, <2>6 DEF QueueInv, Event
<1>5. subs'[s] = [subs[s] EXCEPT !.queue = Tail(q), !.sent = sent, !.state = state]
  BY <1>1, <1>3, <1>4, ZenonT(40) DEF NextLiveEvent
<1> HIDE DEF state, sent, q, old, event
<1>6. /\ subs'[s].state = state /\ subs'[s].sent = sent /\ subs'[s].queue = Tail(q)
      /\ subs'[s].closed = closed /\ subs'[s].gone = subs[s].gone
  BY <1>1, <1>5 DEF Subscriber
<1>7. Written' = Written /\ pc' = pc /\ UNCHANGED <<lines, unpublished, events>>
  BY DEF NextLiveEvent, store, Written
<1>8. \A k \in DOMAIN q : k = 1 \/ (k - 1 \in DOMAIN Tail(q) /\ Tail(q)[k - 1] = q[k])
  <2> SUFFICES ASSUME NEW k \in 1..Len(q), k # 1
               PROVE  k - 1 \in 1..(Len(q) - 1) /\ Tail(q)[k - 1] = q[k]
    BY <1>1, <1>4
  <2>1. k - 1 \in 1..(Len(q) - 1) /\ (k - 1) + 1 = k
    BY <1>1
  <2> QED BY <1>4, <2>1
<1>9. \A k \in DOMAIN Tail(q) : k + 1 \in DOMAIN q /\ Tail(q)[k] = q[k + 1]
  BY <1>1, <1>4
<1>10. ~subs[s].gone => \E m \in DOMAIN sent : sent[m] = event.seq
  <2>1. CASE seen
    BY <2>1 DEF sent, ToSet
  <2>2. CASE ~seen
    BY <1>1, <1>4, <2>2, AppendFacts DEF sent
  <2> QED BY <2>1, <2>2
<1>11. \A k \in DOMAIN old : k \in DOMAIN sent /\ sent[k] = old[k]
  BY <1>1, <1>4, AppendFacts DEF sent
<1>12. sent = old \/ (~seen /\ sent = Append(old, event.seq))
  BY DEF sent
<1>13. (\A k \in DOMAIN sent : \E e \in Written : e.seq = sent[k])
       /\ (\A k, m \in DOMAIN sent : sent[k] = sent[m] => k = m)
  <2>1. CASE sent = old
    BY <1>2, <2>1 DEF SentInv
  <2>2. CASE ~seen /\ sent = Append(old, event.seq)
    <3>1. /\ DOMAIN sent = 1..(Len(old) + 1) /\ sent[Len(old) + 1] = event.seq
          /\ \A k \in DOMAIN old : sent[k] = old[k]
      BY <1>1, <1>4, <2>2, AppendFacts
    <3>2. \A k \in DOMAIN sent : k \in DOMAIN old \/ k = Len(old) + 1
      BY <1>1, <3>1
    <3>3. \A k \in DOMAIN old : old[k] # event.seq
      BY <2>2 DEF ToSet
    <3>4. \A k \in DOMAIN sent : \E e \in Written : e.seq = sent[k]
      BY <1>2, <1>4, <3>1, <3>2 DEF SentInv
    <3>5. \A k, m \in DOMAIN sent : sent[k] = sent[m] => k = m
      BY <1>2, <3>1, <3>2, <3>3 DEF SentInv
    <3> QED BY <3>4, <3>5
  <2> QED BY <1>12, <2>1, <2>2
<1>14. ASSUME ~subs[s].gone PROVE ~Missed(Tail(q), sent)
  <2> SUFFICES ASSUME NEW e \in Written,
                      \A k \in DOMAIN sent : sent[k] # e.seq,
                      \A k \in DOMAIN Tail(q) : Tail(q)[k].seq # e.seq,
                      ~Pending(e.seq)
               PROVE  FALSE
    BY DEF Missed
  <2>1. \A k \in DOMAIN old : old[k] # e.seq
    BY <1>11
  <2>2. event.seq # e.seq
    BY <1>10, <1>14
  <2>3. \A k \in DOMAIN q : q[k].seq # e.seq
    BY <1>8, <2>2 DEF event
  <2> QED
    BY <1>2, <1>14, <2>1, <2>3 DEF Missed
<1>15. ASSUME IsTerminalExecutionEvent(event) PROVE pc = "done" /\ DOMAIN Tail(q) = {}
  BY <1>1, <1>2, <1>4, <1>15 DEF QueueInv, event
<1>16. ASSUME state = "ended", ~subs[s].gone PROVE pc \in Over /\ Complete(sent)
  <2>1. pc = "done" /\ DOMAIN Tail(q) = {}
    BY <1>15, <1>16 DEF state
  <2>2. \A e \in Written : \E k \in DOMAIN sent : sent[k] = e.seq
    BY <1>14, <1>16, <2>1, NothingPending DEF Missed
  <2> QED BY <1>13, <2>1, <2>2 DEF Complete, Over
<1>17. ASSUME state = "live"
       PROVE  QueueInv(Tail(q), closed) /\ SentInv(sent) /\ ~IsTerminalExecutionEvent(event)
  <2>1. ~IsTerminalExecutionEvent(event)
    BY <1>17 DEF state
  <2>2. \A k \in DOMAIN Tail(q) : Tail(q)[k] \in Written
    BY <1>2, <1>9 DEF QueueInv
  <2>3. \A k \in DOMAIN Tail(q) :
          IsTerminalExecutionEvent(Tail(q)[k]) => k = Len(Tail(q)) /\ pc = "done"
    <3> SUFFICES ASSUME NEW k \in DOMAIN Tail(q), IsTerminalExecutionEvent(Tail(q)[k])
                 PROVE  k = Len(Tail(q)) /\ pc = "done"
      OBVIOUS
    <3>1. k + 1 = Len(q) /\ pc = "done"
      BY <1>2, <1>9 DEF QueueInv
    <3> QED BY <1>1, <1>4, <3>1, SMTT(30)
  <2>4. closed => \E k \in DOMAIN Tail(q) : IsTerminalExecutionEvent(Tail(q)[k])
    BY <1>2, <1>8, <2>1 DEF QueueInv, event
  <2>5. \A k \in DOMAIN sent : \E e \in Written : e.seq = sent[k] /\ ~IsTerminalExecutionEvent(e)
    <3>1. CASE sent = old
      BY <1>2, <3>1 DEF SentInv
    <3>2. CASE sent = Append(old, event.seq)
      <4>1. \A k \in DOMAIN sent : (k \in DOMAIN old /\ sent[k] = old[k]) \/ sent[k] = event.seq
        BY <1>1, <1>4, <3>2, AppendFacts
      <4> QED BY <1>2, <1>4, <2>1, <4>1 DEF SentInv
    <3> QED BY <1>12, <3>1, <3>2
  <2> QED BY <1>13, <2>1, <2>2, <2>3, <2>4, <2>5 DEF QueueInv, SentInv
<1>18. state \in {"left", "ended", "live"}
  BY DEF state
<1>19. state = "live" => QueueInv(subs[s].queue, subs[s].closed)' /\ SentInv(subs[s].sent)'
  BY <1>6, <1>7, <1>17 DEF QueueInv, SentInv
<1>20. state = "live" /\ ~subs[s].gone => ~Missed(subs[s].queue, subs[s].sent)'
  BY <1>6, <1>7, <1>14 DEF Missed, Pending, Filed
<1>21. state = "ended" /\ ~subs[s].gone => pc' \in Over /\ Complete(subs[s].sent)'
  BY <1>6, <1>7, <1>16 DEF Complete
<1> QED
  BY <1>6, <1>18, <1>19, <1>20, <1>21 DEF Follows, Registered

(* Leave and Subscribe only change how the subscriber stands.  The first   *)
(* makes its claims weaker, and the second comes before there are any.     *)
LEMMA StandingFollows ==
  ASSUME Known, NEW s \in Subscribers, Follows(s), Subscribe(s) \/ Leave(s)
  PROVE  Follows(s)'
<1>1. subs[s] \in Subscriber /\ DOMAIN subs = Subscribers
  BY SubscriberFacts
<1>2. Written' = Written /\ pc' = pc /\ UNCHANGED <<lines, unpublished, events>>
  BY DEF Subscribe, Leave, store, Written
<1>3. CASE Subscribe(s)
  <2>1. subs'[s] = [NoSubscriber EXCEPT !.state = "reading"]
    BY <1>1, <1>3 DEF Subscribe, Follows
  <2>2. subs'[s].state = "reading" /\ subs'[s].queue = <<>> /\ subs'[s].closed = FALSE
    BY <2>1 DEF NoSubscriber
  <2>3. QueueInv(subs[s].queue, subs[s].closed)'
    BY <2>2 DEF QueueInv
  <2> QED BY <2>2, <2>3 DEF Follows
<1>4. CASE Leave(s)
  <2>1. subs'[s] = [subs[s] EXCEPT !.gone = TRUE]
    BY <1>1, <1>4 DEF Leave
  <2>2. /\ subs'[s].state = subs[s].state /\ subs'[s].gone = TRUE
        /\ subs'[s].queue = subs[s].queue /\ subs'[s].closed = subs[s].closed
        /\ subs'[s].sent = subs[s].sent
    BY <1>1, <2>1 DEF Subscriber
  <2>3. Registered(s)' => QueueInv(subs[s].queue, subs[s].closed)'
    BY <1>2, <2>2 DEF Follows, Registered, QueueInv
  <2>4. subs'[s].state = "live" => SentInv(subs[s].sent)'
    BY <1>2, <2>2 DEF Follows, SentInv
  <2>5. subs[s].state # "idle"
    BY <1>4 DEF Leave, Registered
  <2> QED BY <2>2, <2>3, <2>4, <2>5 DEF Follows
<1> QED
  BY <1>3, <1>4

(* Every step, by what it does to the file, the lines and the task.        *)
Quiet ==
  /\ UNCHANGED <<events, nextSeq, lines, subs, unpublished>>
  /\ pc' = pc \/ (pc \notin Holding \cup {"done"} /\ pc' \notin Holding \cup {"done"})
TaskWrites ==
  \E type \in EventType :
    /\ Write(type) /\ UNCHANGED <<lines, subs>>
    /\ pc \notin Holding \cup Over /\ pc' \in Holding
    /\ type \in Terminal => pc' = "completed"
TaskPublishes ==
  /\ UNCHANGED <<events, nextSeq, lines>> /\ subs' = Published(unpublished)
  /\ pc \in Holding /\ pc' \notin Holding /\ (pc = "completed" <=> pc' = "done")
LineComes ==
  /\ AddLine /\ UNCHANGED <<events, unpublished, subs>>
  /\ pc = "wait" /\ pc' \in {"wait", "settle"}
LineMoves(i) ==
  /\ i \in DOMAIN lines /\ lines[i].state # "done" /\ UNCHANGED <<pc, nextSeq, unpublished>>
  /\ \/ /\ lines[i].state = "logged" /\ lines' = [lines EXCEPT ![i].state = "filed"]
        /\ events' = Append(events, [seq |-> lines[i].seq, type |-> "log"]) /\ UNCHANGED subs
     \/ /\ lines[i].state = "filed" /\ lines' = [lines EXCEPT ![i].state = "done"]
        /\ subs' = Published([seq |-> lines[i].seq, type |-> "log"]) /\ UNCHANGED events
     \/ /\ lines[i].state = "logged" /\ lines' = [lines EXCEPT ![i].state = "done"]
        /\ UNCHANGED <<events, subs>>
Serves(s) ==
  /\ UNCHANGED <<events, nextSeq, lines, unpublished, pc>>
  /\ Subscribe(s) \/ Leave(s) \/ ReadHistory(s) \/ NextLiveEvent(s)

LEMMA Steps ==
  ASSUME Known, Next
  PROVE  \/ Quiet \/ TaskWrites \/ TaskPublishes \/ LineComes
         \/ \E i \in 1..MaxLines : LineMoves(i)
         \/ \E s \in Subscribers : Serves(s)
<1>0. (pc = "wait" <=> child = "running") /\ (pc \in {"complete", "failing"} => record \in Terminal)
  BY DEF Known, Stages, Typed, Places
<1>1. "run.started" \in EventType \ Terminal /\ "script" \in EventType \ Terminal
      /\ "log" \in EventType \ Terminal /\ Terminal \subseteq EventType
  BY DEF EventType, Terminal
<1>2. CASE AppendStarted
  <2>1. CASE pc = "announce" /\ Write("run.started") /\ pc' = "announced" /\ UNCHANGED subs
    BY <1>1, <1>2, <2>1 DEF AppendStarted, TaskWrites, Holding, Over
  <2>2. CASE pc = "announced" /\ Publish("spawn")
    BY <1>2, <2>2 DEF AppendStarted, Publish, TaskPublishes, Holding
  <2> QED BY <1>2, <2>1, <2>2 DEF AppendStarted
<1>3. CASE AppendFound
  <2>1. CASE pc = "scan" /\ Write("script") /\ pc' = "scanned" /\ UNCHANGED subs
    BY <1>1, <1>3, <2>1 DEF AppendFound, TaskWrites, Holding, Over
  <2>2. CASE pc = "scanned" /\ Publish("scan")
    BY <1>3, <2>2 DEF AppendFound, Publish, TaskPublishes, Holding
  <2> QED BY <1>3, <2>1, <2>2 DEF AppendFound
<1>4. CASE MarkFlowVerified
  <2>1. CASE pc = "scan" /\ pc' = "finish" /\ UNCHANGED <<store, subs>>
    BY <1>4, <2>1 DEF MarkFlowVerified, Quiet, store, Holding
  <2>2. CASE pc = "scan" /\ pc' = "marking" /\ Write("log") /\ UNCHANGED subs
    BY <1>1, <1>4, <2>2 DEF MarkFlowVerified, TaskWrites, Holding, Over
  <2>3. CASE pc = "marking" /\ Publish("finish")
    BY <1>4, <2>3 DEF MarkFlowVerified, Publish, TaskPublishes, Holding
  <2> QED BY <1>4, <2>1, <2>2, <2>3 DEF MarkFlowVerified
<1>5. CASE AppendCompleted
  <2>1. CASE pc \in {"complete", "failing"} /\ Write(record) /\ pc' = "completed" /\ UNCHANGED subs
    BY <1>0, <1>1, <1>5, <2>1 DEF AppendCompleted, TaskWrites, Holding, Over
  <2>2. CASE pc = "completed" /\ Publish("done")
    BY <1>5, <2>2 DEF AppendCompleted, Publish, TaskPublishes, Holding
  <2> QED BY <1>5, <2>1, <2>2 DEF AppendCompleted
<1>6. CASE Start \/ MarkRunning \/ Spawn \/ AwaitLogs \/ FinishRecord \/ SpawnError \/ FileError
           \/ Cancel \/ Timeout \/ Kill
  BY <1>6 DEF Start, MarkRunning, Spawn, AwaitLogs, FinishRecord, SpawnError, FileError, Cancel,
     Timeout, Kill, store, Quiet, Holding
<1>7. CASE Output
  BY <1>0, <1>7 DEF Output, LineComes
<1>8. CASE Close
  <2>1. pc = "wait" /\ pc' = "settle" /\ UNCHANGED <<events, unpublished, subs>>
        /\ (AddLine \/ UNCHANGED <<lines, nextSeq>>)
    BY <1>0, <1>8 DEF Close
  <2> QED BY <2>1 DEF LineComes, Quiet, Holding
<1>9. ASSUME NEW i \in 1..MaxLines, WriteLine(i) \/ LoseLine(i) PROVE LineMoves(i)
  BY <1>9 DEF WriteLine, LoseLine, LineMoves, store
<1>10. ASSUME NEW s \in Subscribers, Subscribe(s) \/ ReadHistory(s) \/ NextLiveEvent(s) \/ Leave(s)
       PROVE  Serves(s)
  BY <1>10 DEF Subscribe, ReadHistory, NextLiveEvent, Leave, store, Serves
<1> QED
  BY <1>2, <1>3, <1>4, <1>5, <1>6, <1>7, <1>8, <1>9, <1>10 DEF Next, Task

LEMMA LineSet ==
  ASSUME Known, NEW i \in DOMAIN lines, NEW state, lines' = [lines EXCEPT ![i].state = state]
  PROVE  /\ DOMAIN lines' = DOMAIN lines
         /\ \A j \in DOMAIN lines : lines'[j].seq = lines[j].seq
         /\ \A j \in DOMAIN lines \ {i} : lines'[j].state = lines[j].state
         /\ lines'[i].state = state
<1>1. lines[i] \in Line
  BY EventFacts
<1>2. \A j \in DOMAIN lines : lines'[j] = IF j = i THEN [lines[i] EXCEPT !.state = state] ELSE lines[j]
  OBVIOUS
<1>3. [lines[i] EXCEPT !.state = state].seq = lines[i].seq
      /\ [lines[i] EXCEPT !.state = state].state = state
  BY <1>1 DEF Line
<1> QED
  BY <1>2, <1>3

(* The next event of the file has a number no other has. *)
LEMMA WriteNumbered ==
  ASSUME Known, Numbered, TaskWrites
  PROVE  /\ Numbered' /\ unpublished' \in Event
         /\ Written' = Written \cup {unpublished'} /\ unpublished' \notin Written
<1>1. PICK type \in EventType : Write(type) /\ UNCHANGED lines
  BY DEF TaskWrites
<1> DEFINE e == [seq |-> nextSeq, type |-> type]
<1>2. e \in Event /\ unpublished' = e /\ events' = Append(events, e) /\ nextSeq' = nextSeq + 1
  BY <1>1, EventFacts DEF Event, Write
<1>3. events \in Seq(Event) /\ Len(events) \in Nat /\ DOMAIN events = 1..Len(events)
      /\ nextSeq \in Nat
      /\ (\A k \in DOMAIN events : events[k].seq \in Nat)
      /\ (\A k \in DOMAIN lines : lines[k].seq \in Nat)
  BY EventFacts
<1> HIDE DEF e
<1>4. /\ DOMAIN events' = 1..(Len(events) + 1)
      /\ \A k \in DOMAIN events : events'[k] = events[k]
      /\ events'[Len(events) + 1] = e
      /\ Written' = Written \cup {e}
  BY <1>2, <1>3, AppendFacts DEF Written
<1>5. e.seq = nextSeq
  BY DEF e
<1>6. \A k \in DOMAIN events' : k \in DOMAIN events \/ k = Len(events) + 1
  BY <1>3, <1>4
<1>7. \A k \in DOMAIN events : events[k].seq < nextSeq
  BY DEF Numbered
<1>8. \A k \in DOMAIN events' : events'[k].seq < nextSeq'
  BY <1>2, <1>3, <1>4, <1>5, <1>6, <1>7
<1>9. \A k \in DOMAIN events : events[k].seq # nextSeq
  BY <1>3, <1>7
<1>10. \A k, m \in DOMAIN events' : events'[k].seq = events'[m].seq => k = m
  BY <1>4, <1>5, <1>6, <1>9 DEF Numbered
<1>11. \A k \in DOMAIN lines : lines[k].seq < nextSeq' /\ lines[k].seq # nextSeq
  BY <1>2, <1>3 DEF Numbered
<1>12. \A k \in DOMAIN lines, m \in DOMAIN events' :
         lines[k].state = "logged" => events'[m].seq # lines[k].seq
  BY <1>4, <1>5, <1>6, <1>11 DEF Numbered
<1>13. e \notin Written
  BY <1>5, <1>9 DEF Written, ToSet
<1> QED
  BY <1>1, <1>2, <1>4, <1>8, <1>10, <1>11, <1>12, <1>13 DEF Numbered

LEMMA ComesNumbered ==
  ASSUME Known, Numbered, LineComes
  PROVE  /\ Numbered'
         /\ \A k \in DOMAIN lines' : Filed(k)' => Filed(k) /\ lines'[k] = lines[k]
         /\ \A k \in DOMAIN lines : k \in DOMAIN lines' /\ lines'[k] = lines[k]
<1> DEFINE l == [state |-> "logged", seq |-> nextSeq]
<1>1. /\ lines \in Seq(Line) /\ Len(lines) \in Nat /\ DOMAIN lines = 1..Len(lines)
      /\ nextSeq \in Nat
      /\ (\A k \in DOMAIN events : events[k].seq \in Nat)
      /\ (\A k \in DOMAIN lines : lines[k].seq \in Nat)
  BY EventFacts
<1>2. l \in Line /\ lines' = Append(lines, l) /\ nextSeq' = nextSeq + 1 /\ UNCHANGED events
  BY <1>1 DEF Line, LineStates, LineComes, AddLine
<1> HIDE DEF l
<1>3. /\ DOMAIN lines' = 1..(Len(lines) + 1)
      /\ \A k \in DOMAIN lines : lines'[k] = lines[k]
      /\ lines'[Len(lines) + 1] = l
  BY <1>1, <1>2, AppendFacts
<1>4. l.seq = nextSeq /\ l.state = "logged"
  BY DEF l
<1>5. \A k \in DOMAIN lines' : k \in DOMAIN lines \/ k = Len(lines) + 1
  BY <1>1, <1>3
<1>6. (\A k \in DOMAIN lines : lines[k].seq < nextSeq /\ lines[k].seq # nextSeq)
      /\ (\A k \in DOMAIN events : events[k].seq < nextSeq /\ events[k].seq # nextSeq)
  BY <1>1 DEF Numbered
<1>7. \A k \in DOMAIN lines' : lines'[k].seq < nextSeq'
  BY <1>1, <1>2, <1>3, <1>4, <1>5, <1>6
<1>8. \A k \in DOMAIN events : events[k].seq < nextSeq'
  BY <1>1, <1>2, <1>6
<1>9. \A k, m \in DOMAIN lines' : lines'[k].seq = lines'[m].seq => k = m
  BY <1>3, <1>4, <1>5, <1>6 DEF Numbered
<1>10. \A k \in DOMAIN lines', m \in DOMAIN events :
         lines'[k].state = "logged" => events[m].seq # lines'[k].seq
  BY <1>3, <1>4, <1>5, <1>6 DEF Numbered
<1>11. DOMAIN lines \subseteq DOMAIN lines'
  BY <1>1, <1>3
<1> QED
  BY <1>2, <1>3, <1>4, <1>5, <1>7, <1>8, <1>9, <1>10, <1>11 DEF Numbered, Filed

LEMMA MovesNumbered ==
  ASSUME Known, Numbered, NEW i, LineMoves(i)
  PROVE  /\ Numbered'
         /\ DOMAIN lines' = DOMAIN lines
         /\ \A k \in DOMAIN lines : lines'[k].seq = lines[k].seq
         /\ \A k \in DOMAIN lines \ {i} : lines'[k].state = lines[k].state
         /\ Written' = Written
              \/ (Written' = Written \cup {[seq |-> lines[i].seq, type |-> "log"]}
                  /\ lines[i].state = "logged" /\ lines'[i].state = "filed" /\ UNCHANGED subs)
<1>1. PICK state : lines' = [lines EXCEPT ![i].state = state] /\ i \in DOMAIN lines
                   /\ state # "logged"
  BY DEF LineMoves
<1>2. /\ DOMAIN lines' = DOMAIN lines
      /\ \A k \in DOMAIN lines : lines'[k].seq = lines[k].seq
      /\ \A k \in DOMAIN lines \ {i} : lines'[k].state = lines[k].state
      /\ lines'[i].state # "logged"
  BY <1>1, LineSet
<1>3. /\ events \in Seq(Event) /\ Len(events) \in Nat /\ DOMAIN events = 1..Len(events)
      /\ lines[i] \in Line /\ nextSeq' = nextSeq
  BY <1>1, EventFacts DEF LineMoves
<1>4. CASE UNCHANGED events
  <2>1. Numbered'
    BY <1>2, <1>3, <1>4 DEF Numbered
  <2> QED BY <1>2, <1>4, <2>1 DEF Written
<1>5. CASE lines[i].state = "logged" /\ lines' = [lines EXCEPT ![i].state = "filed"] /\ UNCHANGED subs
           /\ events' = Append(events, [seq |-> lines[i].seq, type |-> "log"])
  <2> DEFINE e == [seq |-> lines[i].seq, type |-> "log"]
  <2>1. e \in Event /\ e.seq = lines[i].seq
    BY <1>3 DEF Line, Event, EventType
  <2> HIDE DEF e
  <2>2. /\ DOMAIN events' = 1..(Len(events) + 1)
        /\ \A k \in DOMAIN events : events'[k] = events[k]
        /\ events'[Len(events) + 1] = e
        /\ Written' = Written \cup {e}
    BY <1>3, <1>5, <2>1, AppendFacts DEF Written, e
  <2>3. \A k \in DOMAIN events' : k \in DOMAIN events \/ k = Len(events) + 1
    BY <1>3, <2>2
  <2>4. \A k \in DOMAIN events : events[k].seq # e.seq
    BY <1>1, <1>5, <2>1 DEF Numbered
  <2>5. \A k \in DOMAIN lines \ {i} : lines[k].seq # e.seq
    BY <1>1, <2>1 DEF Numbered
  <2>6. \A k \in DOMAIN events' : events'[k].seq < nextSeq'
    BY <1>1, <1>3, <2>1, <2>2, <2>3 DEF Numbered
  <2>7. \A k, m \in DOMAIN events' : events'[k].seq = events'[m].seq => k = m
    BY <2>2, <2>3, <2>4 DEF Numbered
  <2>8. \A k \in DOMAIN lines', m \in DOMAIN events' :
          lines'[k].state = "logged" => events'[m].seq # lines'[k].seq
    BY <1>2, <2>2, <2>3, <2>5 DEF Numbered
  <2>9. Numbered'
    BY <1>2, <1>3, <2>6, <2>7, <2>8 DEF Numbered
  <2>10. lines'[i].state = "filed"
    BY <1>1, <1>5, LineSet
  <2> QED BY <1>2, <1>5, <2>2, <2>9, <2>10 DEF e
<1> QED
  BY <1>4, <1>5 DEF LineMoves

LEMMA FollowKept ==
  ASSUME Known, FollowInv, Next
  PROVE  FollowInv'
<1>0. Numbered /\ Kept /\ \A s \in Subscribers : Follows(s)
  BY DEF FollowInv
<1>1. CASE Quiet
  <2>1. (pc' \in Holding <=> pc \in Holding) /\ (pc \in Holding => pc' = pc)
        /\ (pc = "done" <=> pc' = "done")
    BY <1>1 DEF Quiet, Holding
  <2>2. Written' = Written /\ (pc \in Over => pc' \in Over)
    BY <1>1 DEF Quiet, Written, Over, Holding
  <2>3. \A n : Pending(n) <=> Pending(n)'
    BY <1>1, <2>1 DEF Quiet, Pending, Filed
  <2>4. \A s \in Subscribers : Follows(s)'
    BY <1>0, <1>1, <2>1, <2>2, <2>3, Steady DEF Quiet
  <2>5. Numbered'
    BY <1>0, <1>1 DEF Quiet, Numbered
  <2>6. Kept'
    BY <1>0, <1>1, <2>1, <2>2 DEF Quiet, Kept, Filed
  <2> QED BY <2>4, <2>5, <2>6 DEF FollowInv
<1>2. CASE TaskWrites
  <2>1. /\ Numbered' /\ unpublished' \in Event
        /\ Written' = Written \cup {unpublished'} /\ unpublished' \notin Written
    BY <1>0, <1>2, WriteNumbered
  <2>2. /\ UNCHANGED <<lines, subs>> /\ pc \notin Holding \cup Over /\ pc' \in Holding
        /\ IsTerminalExecutionEvent(unpublished') => pc' = "completed"
    BY <1>2 DEF TaskWrites, Write, IsTerminalExecutionEvent
  <2>3. \A n : Pending(n) => Pending(n)'
    BY <2>2 DEF Pending, Filed
  <2>4. Pending(unpublished.seq)'
    BY <2>2 DEF Pending
  <2>5. \A e \in Written' : e \in Written \/ Pending(e.seq)'
    BY <2>1, <2>4
  <2>6. \A s \in Subscribers : Follows(s)'
    BY <1>0, <2>1, <2>2, <2>3, <2>5, Steady DEF Over
  <2>7. Kept'
    BY <1>0, <2>1, <2>2 DEF Kept, Filed
  <2> QED BY <2>1, <2>6, <2>7 DEF FollowInv
<1>3. CASE TaskPublishes
  <2>1. /\ UNCHANGED <<events, nextSeq, lines>> /\ subs' = Published(unpublished)
        /\ pc \in Holding /\ pc' \notin Holding /\ pc # "done"
        /\ (IsTerminalExecutionEvent(unpublished) => pc' = "done")
        /\ (pc \in Over => pc' \in Over)
    BY <1>0, <1>3 DEF TaskPublishes, Kept, Holding, Over
  <2>2. unpublished \in Written /\ unpublished \in Event /\ Written' = Written
    BY <1>0, <2>1, EventFacts DEF Kept, Written, ToSet
  <2>3. \A n \in Nat : Pending(n) => n = unpublished.seq \/ Pending(n)'
    BY <2>1 DEF Pending, Filed
  <2>4. \A s \in Subscribers : Follows(s)'
    BY <1>0, <2>1, <2>2, <2>3, HandedOut
  <2>5. Numbered'
    BY <1>0, <2>1 DEF Numbered
  <2>6. Kept'
    BY <1>0, <2>1, <2>2 DEF Kept, Filed
  <2> QED BY <2>4, <2>5, <2>6 DEF FollowInv
<1>4. CASE LineComes
  <2>1. /\ Numbered' /\ \A k \in DOMAIN lines' : Filed(k)' => Filed(k) /\ lines'[k] = lines[k]
        /\ \A k \in DOMAIN lines : k \in DOMAIN lines' /\ lines'[k] = lines[k]
    BY <1>0, <1>4, ComesNumbered
  <2>2. UNCHANGED <<events, unpublished, subs>> /\ pc = "wait" /\ pc' \in {"wait", "settle"}
        /\ Written' = Written
    BY <1>4 DEF LineComes, Written
  <2>3. \A n : Pending(n) => Pending(n)'
    BY <2>1, <2>2 DEF Pending, Filed, Holding
  <2>4. \A s \in Subscribers : Follows(s)'
    BY <1>0, <2>2, <2>3, Steady DEF Over
  <2>5. Kept'
    BY <1>0, <2>1, <2>2 DEF Kept, Filed, Holding
  <2> QED BY <2>1, <2>4, <2>5 DEF FollowInv
<1>5. ASSUME NEW i \in 1..MaxLines, LineMoves(i) PROVE FollowInv'
  <2> DEFINE e == [seq |-> lines[i].seq, type |-> "log"]
  <2>1. /\ Numbered'
        /\ DOMAIN lines' = DOMAIN lines
        /\ \A k \in DOMAIN lines : lines'[k].seq = lines[k].seq
        /\ \A k \in DOMAIN lines \ {i} : lines'[k].state = lines[k].state
        /\ Written' = Written
              \/ (Written' = Written \cup {e}
                  /\ lines[i].state = "logged" /\ lines'[i].state = "filed" /\ UNCHANGED subs)
    BY <1>0, <1>5, MovesNumbered
  <2>2. i \in DOMAIN lines /\ lines[i].state # "done" /\ UNCHANGED <<pc, nextSeq, unpublished>>
    BY <1>5 DEF LineMoves
  <2>3. pc \notin Over
    BY <2>2 DEF Known, Order, Settled, LinesSettled
  <2>4. e \in Event /\ ~IsTerminalExecutionEvent(e) /\ e.seq = lines[i].seq
    BY <2>2, EventFacts DEF Event, EventType, Line, IsTerminalExecutionEvent, Terminal
  <2>5. \A n : Pending(n) => n = e.seq \/ Pending(n)'
    BY <2>1, <2>2 DEF Pending, Filed
  <2>6. \A k \in DOMAIN lines \ {i} : Filed(k)' <=> Filed(k)
    BY <2>1 DEF Filed
  <2>7. CASE lines'[i].state = "filed" /\ lines[i].state = "logged" /\ UNCHANGED subs
    <3>1. \A n : n = e.seq => Pending(n)'
      BY <2>1, <2>2, <2>7 DEF Pending, Filed
    <3>2. \A n : Pending(n) => Pending(n)'
      BY <2>5, <3>1
    <3>3. \A f \in Written' : f \in Written \/ Pending(f.seq)'
      BY <2>1, <3>1
    <3>4. \A s \in Subscribers : Follows(s)'
      BY <1>0, <2>1, <2>2, <2>3, <2>7, <3>2, <3>3, Steady
    <3>5. e \in Written'
      <4>1. lines' # [lines EXCEPT ![i].state = "done"]
        BY <2>2, <2>7, LineSet
      <4>2. events' = Append(events, e)
        BY <1>5, <4>1 DEF LineMoves
      <4> QED BY <2>4, <4>2, AppendFacts, EventFacts DEF Written
    <3>6. Kept'
      BY <1>0, <2>1, <2>2, <2>6, <3>5 DEF Kept, Filed
    <3> QED BY <2>1, <3>4, <3>6 DEF FollowInv
  <2>8. CASE lines[i].state = "filed" /\ subs' = Published(e) /\ UNCHANGED events
             /\ lines' = [lines EXCEPT ![i].state = "done"]
    <3>1. e \in Written /\ Written' = Written
      BY <1>0, <2>2, <2>8 DEF Kept, Filed, Written
    <3>2. \A s \in Subscribers : Follows(s)'
      BY <1>0, <2>2, <2>3, <2>4, <2>5, <2>8, <3>1, HandedOut DEF Over
    <3>3. ~Filed(i)'
      BY <2>2, <2>8, LineSet DEF Filed
    <3>4. Kept'
      BY <1>0, <2>1, <2>2, <2>6, <3>1, <3>3 DEF Kept, Filed
    <3> QED BY <2>1, <3>2, <3>4 DEF FollowInv
  <2>9. CASE lines[i].state = "logged" /\ lines' = [lines EXCEPT ![i].state = "done"]
             /\ UNCHANGED <<events, subs>>
    <3>1. ~Filed(i)' /\ ~Filed(i)
      <4>1. lines'[i].state = "done"
        BY <2>2, <2>9, LineSet
      <4> QED BY <2>9, <4>1 DEF Filed
    <3>2. \A n : Pending(n) => Pending(n)'
      BY <2>1, <2>2, <2>6, <3>1 DEF Pending, Filed
    <3>3. Written' = Written
      BY <2>9 DEF Written
    <3>4. \A s \in Subscribers : Follows(s)'
      BY <1>0, <2>2, <2>3, <2>9, <3>2, <3>3, Steady
    <3>5. Kept'
      BY <1>0, <2>1, <2>2, <2>6, <3>1, <3>3 DEF Kept, Filed
    <3> QED BY <2>1, <3>4, <3>5 DEF FollowInv
  <2> QED BY <1>5, <2>2, <2>7, <2>8, <2>9, LineSet DEF LineMoves
<1>6. ASSUME NEW t \in Subscribers, Serves(t) PROVE FollowInv'
  <2>1. UNCHANGED <<events, nextSeq, lines, unpublished, pc>> /\ Written' = Written
    BY <1>6 DEF Serves, Written
  <2>2. Numbered' /\ Kept'
    BY <1>0, <2>1 DEF Numbered, Kept, Filed
  <2>3. Follows(t)'
    BY <1>0, <1>6, StandingFollows, HistoryFollows, LiveFollows DEF Serves
  <2>4. \A n : Pending(n) <=> Pending(n)'
    BY <2>1 DEF Pending, Filed
  <2>5. ASSUME NEW s \in Subscribers, s # t PROVE Follows(s)'
    <3>1. subs'[s] = subs[s]
      BY <1>6, <2>5, SubscriberFacts DEF Serves, Subscribe, Leave, ReadHistory, NextLiveEvent
    <3> QED BY <1>0, <2>1, <2>4, <3>1, Steady
  <2> QED BY <2>2, <2>3, <2>5 DEF FollowInv
<1> QED
  BY <1>1, <1>2, <1>3, <1>4, <1>5, <1>6, Steps

(* A stream that ended by itself has sent the whole file, each event once. *)
THEOREM StreamsComplete == Spec => []StreamsAreComplete
<1>1. Init => FollowInv
  <2> SUFFICES ASSUME Init PROVE FollowInv
    OBVIOUS
  <2>1. lines = <<>> /\ events = <<>> /\ pc = "idle" /\ subs = [s \in Subscribers |-> NoSubscriber]
    BY DEF Init
  <2>2. Numbered /\ Kept
    BY <2>1 DEF Numbered, Kept, Holding
  <2>3. \A s \in Subscribers : Follows(s)
    BY <2>1 DEF Follows, Registered, NoSubscriber
  <2> QED BY <2>2, <2>3 DEF FollowInv
<1>2. Known /\ FollowInv /\ [Next]_vars => FollowInv'
  <2> SUFFICES ASSUME Known, FollowInv, UNCHANGED vars PROVE FollowInv'
    BY FollowKept
  <2>1. Written' = Written /\ pc' = pc /\ UNCHANGED <<events, lines, nextSeq, unpublished, subs>>
    BY DEF vars, Written
  <2>2. Numbered' /\ Kept'
    BY <2>1 DEF FollowInv, Numbered, Kept, Filed
  <2>3. \A n : Pending(n) <=> Pending(n)'
    BY <2>1 DEF Pending, Filed
  <2>4. \A s \in Subscribers : Follows(s)'
    BY <2>1, <2>3, Steady DEF FollowInv
  <2> QED BY <2>2, <2>4 DEF FollowInv
<1>3. Known /\ FollowInv /\ EventsEnd => StreamsAreComplete
  <2> SUFFICES ASSUME Known, FollowInv, NEW s \in Subscribers, subs[s].state = "ended", ~subs[s].gone
               PROVE  /\ ToSet(subs[s].sent) = ToSet(SeqsOf(events))
                      /\ IsInjective(subs[s].sent)
    BY DEF StreamsAreComplete
  <2> DEFINE sent == subs[s].sent
  <2>1. Complete(sent)
    BY DEF FollowInv, Follows
  <2> HIDE DEF sent
  <2>2. IsInjective(sent)
    BY <2>1 DEF Complete, IsInjective
  <2>3. \A n \in ToSet(sent) : n \in ToSet(SeqsOf(events))
    BY <2>1 DEF Complete, ToSet, SeqsOf, Written
  <2>4. \A n \in ToSet(SeqsOf(events)) : n \in ToSet(sent)
    BY <2>1 DEF Complete, ToSet, SeqsOf, Written
  <2> QED BY <2>2, <2>3, <2>4 DEF sent
<1> QED
  BY <1>1, <1>2, <1>3, AlwaysKnown, EventsEndWithCompletion, PTL DEF Spec

-----------------------------------------------------------------------------
(* The flow page: the values of the form. *)

(* A value as it reaches normalizeOneParam. *)
Given(definition, value) == IF value \in {Undefined, Null} THEN definition.default ELSE value
Once(definition, value) == NormalizeOneParam(definition, Given(definition, value))

(* What normalizeOneParam lets through has the text it was given, stays unset *)
(* when it was, and is let through again.                                     *)
LEMMA NormalizeKeepsText ==
  ASSUME NEW definition, NEW raw, NEW one, one = NormalizeOneParam(definition, raw), one.ok
  PROVE  /\ one.value.text = raw.text
         /\ IsUnset(raw) => one.value \in {Undefined, Null}
         /\ ~IsUnset(raw) => ~IsUnset(one.value) /\ NormalizeOneParam(definition, one.value).ok
<1>1. CASE IsUnset(raw)
  <2>1. one = Accept(IF raw = Null THEN Null ELSE Undefined)
    BY <1>1 DEF NormalizeOneParam, Reject
  <2>2. one.value = IF raw = Null THEN Null ELSE Undefined
    BY <2>1 DEF Accept
  <2>3. raw.text = "" /\ one.value.text = "" /\ one.value \in {Undefined, Null}
    <3>1. Undefined.text = "" /\ Null.text = "" /\ Str("").text = ""
      BY DEF Undefined, Null, Str, Value
    <3> QED BY <1>1, <2>2, <3>1 DEF IsUnset
  <2> QED BY <1>1, <2>3
<1>2. CASE ~IsUnset(raw)
  <2>2. CASE definition.type \in {"string", "secret", "date"}
    <3>1. one = Accept(raw)
      BY <1>2, <2>2 DEF NormalizeOneParam, Reject
    <3>2. one.value = raw
      BY <3>1 DEF Accept
    <3> QED BY <1>2, <3>2
  <2>3. CASE definition.type = "number"
    <3>1. one = Accept(Num(raw.text)) /\ ReadsAsNumber(raw)
      BY <1>2, <2>3 DEF NormalizeOneParam, Reject
    <3>2. ReadsAsNumber(Num(raw.text)) /\ ~IsUnset(Num(raw.text)) /\ Num(raw.text).text = raw.text
      BY <3>1 DEF ReadsAsNumber, Num, IsUnset, Value, Undefined, Null, Str
    <3>3. NormalizeOneParam(definition, Num(raw.text)).ok
      BY <2>3, <3>2 DEF NormalizeOneParam, Accept
    <3> QED BY <1>2, <3>1, <3>2, <3>3 DEF Accept
  <2>4. CASE definition.type = "boolean"
    <3>1. one = Accept(Bool(raw.text)) /\ ReadsAsBoolean(raw)
      BY <1>2, <2>4 DEF NormalizeOneParam, Reject
    <3>2. ReadsAsBoolean(Bool(raw.text)) /\ ~IsUnset(Bool(raw.text)) /\ Bool(raw.text).text = raw.text
      BY <3>1 DEF ReadsAsBoolean, Bool, IsUnset, Value, Undefined, Null, Str
    <3>3. NormalizeOneParam(definition, Bool(raw.text)).ok
      BY <2>4, <3>2 DEF NormalizeOneParam, Accept
    <3> QED BY <1>2, <3>1, <3>2, <3>3 DEF Accept
  <2>5. CASE definition.type = "select"
    <3>1. one = Accept(raw)
      BY <1>2, <2>5 DEF NormalizeOneParam, Reject
    <3>2. one.value = raw
      BY <3>1 DEF Accept
    <3> QED BY <1>2, <3>2
  <2>6. CASE definition.type \notin {"string", "secret", "date", "number", "boolean", "select"}
    BY <1>2, <2>6 DEF NormalizeOneParam, Reject
  <2> QED BY <2>2, <2>3, <2>4, <2>5, <2>6
<1> QED BY <1>1, <1>2

(* normalizeOneParam on what it made of a value: refused only for an emptied   *)
(* field whose default does not pass, and else the text of the value or of the *)
(* default.                                                                    *)
LEMMA ServerTakesTheForm ==
  ASSUME NEW definition, NEW value, Once(definition, value).ok
  PROVE  LET two == Once(definition, Once(definition, value).value)
         IN /\ ~two.ok => /\ value = Str("")
                          /\ ~NormalizeOneParam(definition, definition.default).ok
            /\ two.ok => two.value.text = IF IsUnset(value) THEN definition.default.text
                                           ELSE value.text
<1>0. PICK one, two : one = Once(definition, value) /\ two = Once(definition, one.value)
  OBVIOUS
<1> SUFFICES /\ ~two.ok => /\ value = Str("")
                           /\ ~NormalizeOneParam(definition, definition.default).ok
             /\ two.ok => two.value.text = IF IsUnset(value) THEN definition.default.text
                                            ELSE value.text
  BY <1>0
<1> DEFINE raw == Given(definition, value)
<1>1. /\ one.value.text = raw.text
      /\ IsUnset(raw) => one.value \in {Undefined, Null}
      /\ ~IsUnset(raw) => ~IsUnset(one.value) /\ NormalizeOneParam(definition, one.value).ok
  BY <1>0, NormalizeKeepsText DEF Once
<1> DEFINE again == Given(definition, one.value)
<1>2. two.ok => two.value.text = again.text
  BY <1>0, NormalizeKeepsText DEF Once
<1>3. two = NormalizeOneParam(definition, again)
  BY <1>0 DEF Once
<1>4. Undefined.text = "" /\ Null.text = "" /\ Str("").text = ""
  BY DEF Undefined, Null, Str, Value
<1>5. CASE ~IsUnset(raw)
  <2>1. again = one.value /\ two.ok
    BY <1>1, <1>3, <1>5 DEF Given, IsUnset
  <2>2. raw = IF IsUnset(value) THEN definition.default ELSE value
    BY <1>5 DEF Given, IsUnset
  <2> QED BY <1>1, <1>2, <2>1, <2>2
<1>6. CASE IsUnset(raw)
  <2>1. again = definition.default
    BY <1>1, <1>6 DEF Given
  <2>2. IsUnset(value)
    BY <1>6 DEF Given, IsUnset
  <2>3. CASE value = Str("")
    BY <1>2, <1>3, <2>1, <2>2, <2>3
  <2>4. CASE value # Str("")
    <3>1. raw = definition.default
      BY <2>2, <2>4 DEF Given, IsUnset
    <3>2. two = one
      BY <1>0, <1>3, <2>1, <3>1 DEF Once
    <3>3. two.ok
      BY <1>0, <3>2
    <3>4. two.value.text = definition.default.text
      BY <1>1, <3>1, <3>2
    <3> QED BY <2>2, <3>3, <3>4
  <2> QED BY <2>3, <2>4
<1> QED BY <1>5, <1>6

(* The text that the executor runs with, and the one that the form promised. *)
RunsWith(definition, value) ==
  IF IsUnset(value) THEN definition.default.text ELSE value.text
Promised(definition, value, shown) ==
  IF shown # "" THEN shown
  ELSE IF value = Bool("false") THEN "false" ELSE definition.default.text

(* The text that a control shows is that of its value, which it then holds; and a  *)
(* control that shows none holds an unset value, the default, or a box's false.    *)
LEMMA ShownIsHeld ==
  ASSUME NEW definition, NEW value,
         value \in {Undefined, definition.default} \cup Control(definition)
  PROVE  RunsWith(definition, value) = Promised(definition, value, Shows(definition, value))
<1> PICK shown : shown = Shows(definition, value)
  OBVIOUS
<1> SUFFICES RunsWith(definition, value) = Promised(definition, value, shown)
  OBVIOUS
<1> USE DEF RunsWith, Promised
<1>1. /\ Undefined.text = "" /\ Null.text = "" /\ Str("").text = ""
      /\ Bool("true").text = "true" /\ Bool("false").text = "false"
      /\ \A text : Str(text).text = text /\ Str(text).type = "string"
  BY DEF Undefined, Null, Str, Bool, Value
<1>2. shown # "" => shown = value.text /\ ~IsUnset(value)
  BY <1>1, Zenon DEF Shows, IsUnset, Day
<1>3. CASE shown # ""
  BY <1>2, <1>3
<1>4. CASE shown = "" /\ value = Bool("false")
  <2>1. ~IsUnset(value)
    BY <1>4 DEF IsUnset, Undefined, Null, Str, Bool, Value
  <2> QED
    BY <1>1, <1>4, <2>1
<1>5. CASE shown = "" /\ value # Bool("false") /\ value \in {Undefined, definition.default}
  BY <1>5 DEF IsUnset
<1>6. CASE shown = "" /\ value # Bool("false") /\ value \in Control(definition)
  <2>1. IsUnset(value)
    <3>1. CASE definition.type = "boolean"
      BY <1>1, <1>6, <3>1 DEF Shows, Control
    <3>2. CASE definition.type = "select"
      <4>1. Control(definition) = {Str("")} \cup {Str(text) : text \in definition.options}
        BY <3>2 DEF Control
      <4>2. shown = IF value.type = "string" /\ value.text \in definition.options
                    THEN value.text ELSE ""
        BY <3>2 DEF Shows
      <4>3. CASE value = Str("")
        BY <4>3 DEF IsUnset
      <4>4. ASSUME NEW text \in definition.options, value = Str(text) PROVE value = Str("")
        BY <1>1, <1>6, <4>2, <4>4
      <4> QED
        BY <1>6, <4>1, <4>3, <4>4 DEF IsUnset
    <3>3. CASE definition.type = "number"
      BY <1>1, <1>6, <3>3 DEF Shows, Control, IsUnset
    <3>4. CASE definition.type = "date"
      BY <1>1, <1>6, <3>4 DEF Shows, Control, IsUnset, Day
    <3>5. CASE definition.type \notin {"boolean", "select", "number", "date"}
      <4>1. Control(definition) = {Str(""), Str("red")} /\ shown = value.text
        BY <3>5 DEF Control, Shows
      <4>2. Str("red").text = "red"
        BY <1>1
      <4>3. value = Str("")
        BY <1>6, <4>1, <4>2
      <4> QED
        BY <4>3 DEF IsUnset
    <3> QED
      BY <3>1, <3>2, <3>3, <3>4, <3>5
  <2> QED
    BY <1>6, <2>1
<1> QED
  BY <1>3, <1>4, <1>5, <1>6

-----------------------------------------------------------------------------
(* The invariant of the flow page. *)

(* What the form can hold: nothing, the default, or what the user entered. *)
FormValues(values) ==
  /\ DOMAIN values = DOMAIN definitions
  /\ \A p \in DOMAIN definitions :
       values[p] \in {Undefined, definitions[p].default} \cup Control(definitions[p])
ViewInv == DOMAIN view = {"on", "loaded", "busy", "values"} /\ FormValues(view.values)

(* What the form and the server make of the values of a request. *)
Passed(s) ==
  LET results == NormalizeRuntimeParams(definitions, start[s].values)
  IN Accepted(results) /\ start[s].sent = Normalized(results)
ParamsAreShown(s) ==
  \A p \in DOMAIN definitions :
    exec[s].params[p].text = IF IsUnset(start[s].values[p]) THEN definitions[p].default.text
                             ELSE start[s].values[p].text

RequestHeld(s) ==
  /\ DOMAIN start[s] = {"pc", "mode", "values", "sent", "instance", "code", "alone"}
  /\ FormValues(start[s].values)
  /\ start[s].pc \in {"none", "loading", "sent"} => start[s].code # "PARAMS_INVALID"
  /\ start[s].pc = "sent" => Passed(s)
  /\ start[s].code = "PARAMS_INVALID" => EmptiedForBadDefault(s)

RequestsInv ==
  /\ DOMAIN start = Starts /\ budget \in Budget
  /\ \A s \in Starts : RequestHeld(s)
  /\ \A s \in Starts : MaxStarts - budget.starts < s => start[s].pc = "none"

(* An execution is of a request that was answered; it is marked, and its end  *)
(* told, once.                                                                *)
ExecHeld(s) ==
  /\ DOMAIN exec[s] = {"pc", "params", "outcome", "marked", "events"}
  /\ exec[s].pc \in {"none", "running", "ending", "done"} /\ exec[s].marked \in BOOLEAN
  /\ exec[s].pc # "none" => start[s].pc \in {"answered", "done"} /\ ParamsAreShown(s)
  /\ exec[s].pc \in {"none", "running"} => ~exec[s].marked
  /\ exec[s].events \in Seq({"run.started", "log", "run.completed"})
  /\ \A k \in 1..Len(exec[s].events) :
       exec[s].events[k] = "run.completed" => exec[s].pc = "done" /\ k = Len(exec[s].events)

ExecsInv == DOMAIN exec = Starts /\ \A s \in Starts : ExecHeld(s)

(* A stream that reported has read to the end, and does not take it again. *)
StreamHeld(s) ==
  /\ DOMAIN sub[s] = {"open", "pos", "high"} /\ sub[s].pos \in Nat /\ sub[s].high \in Nat
  /\ reported[s] # 0 =>
       reported[s] = 1 /\ Succeeded(s) /\ Len(exec[s].events) <= sub[s].high

ReportsInv ==
  DOMAIN sub = Starts /\ DOMAIN reported = Starts /\ \A s \in Starts : StreamHeld(s)

(* The directory has the files of a scene; an import is whole, valid, and       *)
(* cleared by a verification; what a verification cleared is cleared until it is *)
(* deleted.                                                                      *)
SomeMarked == \E s \in Starts : exec[s].marked
Agree(files, others) ==
  \A path \in DOMAIN files : path \in DOMAIN others /\ files[path] = others[path]
FromScene(files) ==
  \E scene \in Scenes : \E whole \in {scene.dir, scene.held} :
    \A path \in Required \cap DOMAIN files :
      path \in DOMAIN whole /\ files[path] = whole[path]
OneScene(files) == Required \subseteq DOMAIN files /\ FromScene(files)
MetadataRecord == [source : {"generated", "imported"}, mode : Modes, requiresVerify : BOOLEAN]
Generators == {"codegen", "nl", "imported"}

DirInv ==
  /\ FromScene(dir)
  /\ Metadata \in DOMAIN dir =>
       /\ dir[Metadata] \in MetadataRecord
       /\ dir[Metadata].source = "imported" =>
            /\ Required \subseteq DOMAIN dir /\ Tidy(dir)
            /\ ValidateRpaDsl(dir["flow.dsl.json"]) = {}
            /\ dir[Metadata].requiresVerify \/ SomeMarked
  /\ DOMAIN user = Requests
  /\ budget.deletes > 0 => user["delete"].answer # "sent"
  /\ budget.deletes > 0 /\ SomeMarked =>
       Metadata \in DOMAIN dir /\ ~dir[Metadata].requiresVerify

(* The export under way has read the flow that is there, until that is deleted;  *)
(* then its sums are those of the old flow, or what follows them is all of the    *)
(* new one.                                                                      *)
DownloadInv ==
  /\ DOMAIN download = {"pc", "document", "generator", "sums", "contents", "torn"}
  /\ download.pc = "none" => download = NoDownload
  /\ download.pc # "none" =>
       /\ ValidateRpaDsl(download.document) = {} /\ download.document.flow_id = "f1"
       /\ download.pc = "files" => download.generator \in Generators
       /\ DOMAIN download.sums \subseteq Required /\ DOMAIN download.contents \subseteq Required
       /\ download.pc # "files" => DOMAIN download.sums = {}
       /\ DOMAIN download.contents # {} => DOMAIN download.sums = Required
       /\ IF download.torn THEN budget.deletes = 0 /\ user["delete"].answer # "sent"
          ELSE /\ "flow.dsl.json" \in DOMAIN dir /\ download.document = dir["flow.dsl.json"]
               /\ Agree(download.sums, dir) /\ Agree(download.contents, dir)
       /\ OneScene(download.sums) \/ Agree(download.contents, dir)

(* The sums in a package are those of a scene, whatever was done to it else, or it *)
(* is of an export whose flow was replaced and has the files of the new one.       *)
ZipInv ==
  /\ DOMAIN zip = {"there", "edited", "torn", "entries"}
  /\ zip.there /\ ~zip.edited /\ ~zip.torn /\ ~TooLarge(zip.entries) =>
       FirstError(zip.entries, FALSE) = "none"
  /\ Manifest \in DOMAIN zip.entries =>
       /\ "checksums" \in DOMAIN zip.entries[Manifest]
       /\ \/ OneScene(zip.entries[Manifest].checksums)
          \/ zip.torn /\ OneScene(zip.entries)

PageInv ==
  RequestsInv /\ ExecsInv /\ ReportsInv /\ DirInv /\ ZipInv /\ ViewInv /\ DownloadInv

-----------------------------------------------------------------------------
(* Parameters. *)

(* What the form and then the server make of one parameter of a request. *)
LEMMA ParamsTwice ==
  ASSUME NEW s \in Starts, Passed(s), NEW p \in DOMAIN definitions
  PROVE  /\ NormalizeRuntimeParams(definitions, start[s].values)[p]
              = Once(definitions[p], start[s].values[p])
         /\ Once(definitions[p], start[s].values[p]).ok
         /\ NormalizeRuntimeParams(definitions, start[s].sent)[p]
              = Once(definitions[p], Once(definitions[p], start[s].values[p]).value)
<1>1. \A input : /\ DOMAIN NormalizeRuntimeParams(definitions, input) = DOMAIN definitions
                 /\ NormalizeRuntimeParams(definitions, input)[p] = Once(definitions[p], input[p])
  BY DEF NormalizeRuntimeParams, Once, Given
<1> DEFINE results == NormalizeRuntimeParams(definitions, start[s].values)
<1>2. Accepted(results) /\ start[s].sent = Normalized(results)
  BY DEF Passed
<1>3. results[p].ok /\ start[s].sent[p] = results[p].value
  BY <1>1, <1>2 DEF Accepted, Normalized
<1> QED
  BY <1>1, <1>3

(* The server takes what the form let through, but for a bad default. *)
LEMMA ServerAccepts ==
  ASSUME NEW s \in Starts, Passed(s),
         ~Accepted(NormalizeRuntimeParams(definitions, start[s].sent))
  PROVE  EmptiedForBadDefault(s)
<1>1. DOMAIN NormalizeRuntimeParams(definitions, start[s].sent) = DOMAIN definitions
  BY DEF NormalizeRuntimeParams
<1>2. PICK p \in DOMAIN definitions : ~NormalizeRuntimeParams(definitions, start[s].sent)[p].ok
  BY <1>1 DEF Accepted
<1> DEFINE one == Once(definitions[p], start[s].values[p])
<1>3. one.ok /\ ~Once(definitions[p], one.value).ok
  BY <1>2, ParamsTwice
<1>4. start[s].values[p] = Str("") /\ ~NormalizeOneParam(definitions[p], definitions[p].default).ok
  BY <1>3, ServerTakesTheForm
<1> QED
  BY <1>4 DEF EmptiedForBadDefault

(* What the server makes of a request is what the form showed. *)
LEMMA ServerReadsTheForm ==
  ASSUME NEW s \in Starts, Passed(s), NEW p \in DOMAIN definitions,
         Accepted(NormalizeRuntimeParams(definitions, start[s].sent))
  PROVE  Normalized(NormalizeRuntimeParams(definitions, start[s].sent))[p].text
           = IF IsUnset(start[s].values[p]) THEN definitions[p].default.text
             ELSE start[s].values[p].text
<1>1. DOMAIN NormalizeRuntimeParams(definitions, start[s].sent) = DOMAIN definitions
  BY DEF NormalizeRuntimeParams
<1> DEFINE one == Once(definitions[p], start[s].values[p])
<1>2. one.ok /\ NormalizeRuntimeParams(definitions, start[s].sent)[p] = Once(definitions[p], one.value)
  BY ParamsTwice
<1>3. Once(definitions[p], one.value).ok
  BY <1>1, <1>2 DEF Accepted
<1>4. Once(definitions[p], one.value).value.text
        = IF IsUnset(start[s].values[p]) THEN definitions[p].default.text ELSE start[s].values[p].text
  BY <1>2, <1>3, ServerTakesTheForm
<1> QED
  BY <1>1, <1>2, <1>4 DEF Normalized

-----------------------------------------------------------------------------
(* What the parts of the invariant depend on. *)

(* A step that leaves the requests alone keeps what is known of them. *)
LEMMA RequestsStay ==
  ASSUME RequestsInv, definitions' = definitions, start' = start,
         budget' \in Budget, budget'.starts = budget.starts
  PROVE  RequestsInv'
<1>1. ASSUME NEW s \in Starts PROVE RequestHeld(s)'
  <2>1. RequestHeld(s)
    BY DEF RequestsInv
  <2>2. Passed(s)' <=> Passed(s)
    BY DEF Passed
  <2>3. EmptiedForBadDefault(s)' <=> EmptiedForBadDefault(s)
    BY DEF EmptiedForBadDefault
  <2>4. FormValues(start[s].values)' <=> FormValues(start[s].values)
    BY DEF FormValues
  <2> QED
    BY <2>1, <2>2, <2>3, <2>4 DEF RequestHeld
<1> QED
  BY <1>1 DEF RequestsInv

(* A step that leaves the values of the form alone, or closes it. *)
LEMMA ViewStays ==
  ASSUME ViewInv, definitions' = definitions, DOMAIN view' = DOMAIN view,
         view'.values \in {view.values, NoParams(definitions), DefaultValues(definitions)}
  PROVE  ViewInv'
<1>1. \A values : FormValues(values)' <=> FormValues(values)
  BY DEF FormValues
<1>2. FormValues(NoParams(definitions)) /\ FormValues(DefaultValues(definitions))
  BY DEF FormValues, NoParams, DefaultValues
<1>3. FormValues(view'.values)
  BY <1>2 DEF ViewInv
<1>4. FormValues(view.values)'
  BY <1>3 DEF FormValues
<1> QED
  BY <1>4 DEF ViewInv

(* An empty view. *)
LEMMA ViewCloses == ASSUME ViewInv, definitions' = definitions, view' = NoView \/ view' = view PROVE ViewInv'
<1>1. DOMAIN view' = DOMAIN view /\ view'.values \in {view.values, NoParams(definitions)}
  BY DEF ViewInv, NoView
<1> QED
  BY <1>1, ViewStays

(* A step that leaves the export alone and the files that it reads. *)
LEMMA DownloadStays ==
  ASSUME DownloadInv, download' = download, DirInv,
         \A path \in Required : path \in DOMAIN dir => path \in DOMAIN dir' /\ dir'[path] = dir[path],
         budget'.deletes <= budget.deletes, budget' \in Budget, budget \in Budget,
         user'["delete"].answer = "sent" => budget.deletes > 0 \/ user["delete"].answer = "sent"
  PROVE  DownloadInv'
<1>1. OneScene(download.sums)' <=> OneScene(download.sums)
  BY DEF OneScene, FromScene
<1>2. ASSUME NEW files, DOMAIN files \subseteq Required, Agree(files, dir) PROVE Agree(files, dir')
  BY <1>2 DEF Agree
<1>3. "flow.dsl.json" \in Required
  BY DEF Required
<1>4. budget.deletes \in 0..1 /\ budget'.deletes \in 0..1
  BY DEF Budget
<1>5. CASE download.pc = "none"
  BY <1>5 DEF DownloadInv, NoDownload
<1>6. CASE download.pc # "none" /\ download.torn
  <2>1. DOMAIN download.contents \subseteq Required /\ budget.deletes = 0
        /\ user["delete"].answer # "sent"
        /\ (OneScene(download.sums) \/ Agree(download.contents, dir))
    BY <1>6 DEF DownloadInv
  <2>2. OneScene(download.sums) \/ Agree(download.contents, dir')
    BY <1>2, <2>1
  <2>3. budget'.deletes = 0 /\ user'["delete"].answer # "sent"
    BY <1>4, <2>1
  <2>4. OneScene(download.sums)' \/ Agree(download.contents, dir)'
    BY <1>1, <2>2 DEF Agree
  <2> QED
    BY <1>6, <2>3, <2>4 DEF DownloadInv
<1>7. CASE download.pc # "none" /\ ~download.torn
  <2>1. /\ DOMAIN download.contents \subseteq Required /\ DOMAIN download.sums \subseteq Required
        /\ "flow.dsl.json" \in DOMAIN dir /\ download.document = dir["flow.dsl.json"]
        /\ Agree(download.sums, dir) /\ Agree(download.contents, dir)
    BY <1>7 DEF DownloadInv
  <2>2. Agree(download.sums, dir') /\ Agree(download.contents, dir')
    BY <1>2, <2>1
  <2>3. Agree(download.sums, dir)' /\ Agree(download.contents, dir)'
    BY <2>2 DEF Agree
  <2>4. "flow.dsl.json" \in DOMAIN dir' /\ download.document = dir'["flow.dsl.json"]
    BY <1>3, <2>1
  <2> QED
    BY <1>7, <2>3, <2>4 DEF DownloadInv
<1> QED
  BY <1>5, <1>6, <1>7

(* A step that leaves the executions alone, and the values of their requests. *)
LEMMA ExecsStay ==
  ASSUME ExecsInv, definitions' = definitions, exec' = exec,
         \A s \in Starts : start[s].pc \in {"answered", "done"} =>
           start'[s].pc \in {"answered", "done"} /\ start'[s].values = start[s].values
  PROVE  ExecsInv'
<1>1. ASSUME NEW s \in Starts PROVE ExecHeld(s)'
  <2>1. ExecHeld(s)
    BY DEF ExecsInv
  <2>2. ASSUME ParamsAreShown(s), start'[s].values = start[s].values PROVE ParamsAreShown(s)'
    BY <2>2 DEF ParamsAreShown
  <2>3. exec'[s] = exec[s]
    OBVIOUS
  <2>4. exec[s].pc # "none" => start'[s].pc \in {"answered", "done"} /\ ParamsAreShown(s)'
    BY <2>1, <2>2 DEF ExecHeld
  <2> QED
    BY <2>1, <2>3, <2>4 DEF ExecHeld
<1> QED
  BY <1>1 DEF ExecsInv

(* A stream may be closed, moved back, or opened. *)
StreamsMove ==
  /\ DOMAIN sub' = Starts
  /\ \A s \in Starts : /\ DOMAIN sub'[s] = {"open", "pos", "high"}
                       /\ sub'[s].pos \in Nat /\ sub'[s].high = sub[s].high

(* A step that reports nothing and takes nothing back from a stream. *)
LEMMA ReportsStay ==
  ASSUME ReportsInv, StreamsMove, reported' = reported,
         \A s \in Starts : Succeeded(s) => Succeeded(s)' /\ exec'[s].events = exec[s].events
  PROVE  ReportsInv'
<1>1. ASSUME NEW s \in Starts PROVE StreamHeld(s)'
  <2>1. StreamHeld(s)
    BY DEF ReportsInv
  <2>2. sub'[s].pos \in Nat /\ sub'[s].high = sub[s].high /\ DOMAIN sub'[s] = {"open", "pos", "high"}
    BY DEF StreamsMove
  <2> QED
    BY <2>1, <2>2 DEF StreamHeld
<1> QED
  BY <1>1 DEF ReportsInv, StreamsMove

(* A step that leaves the directory alone, the button in flight and the marks. *)
LEMMA DirStays ==
  ASSUME DirInv, dir' = dir, user' = user, SomeMarked' => SomeMarked, SomeMarked => SomeMarked',
         budget'.deletes = budget.deletes
  PROVE  DirInv'
<1>1. FromScene(dir)'
  BY DEF DirInv, FromScene
<1>2. Tidy(dir)' <=> Tidy(dir)
  BY DEF Tidy
<1> QED
  BY <1>1, <1>2 DEF DirInv

(* A step that leaves the package alone. *)
LEMMA ZipStays ==
  ASSUME ZipInv, zip' = zip
  PROVE  ZipInv'
<1>1. /\ FirstError(zip.entries, FALSE)' = FirstError(zip.entries, FALSE)
      /\ TooLarge(zip.entries)' <=> TooLarge(zip.entries)
  BY DEF FirstError, TooLarge
<1>2. /\ OneScene(zip.entries[Manifest].checksums)' <=> OneScene(zip.entries[Manifest].checksums)
      /\ OneScene(zip.entries)' <=> OneScene(zip.entries)
  BY DEF OneScene, FromScene
<1> QED
  BY <1>1, <1>2 DEF ZipInv

(* Closing the stream of an instance moves no stream. *)
LEMMA Closed ==
  ASSUME NEW streams, DOMAIN streams = Starts, NEW i,
         \A s \in Starts : DOMAIN streams[s] = {"open", "pos", "high"},
         NEW closed, closed = Unsubscribed(streams, i)
  PROVE  /\ DOMAIN closed = Starts
         /\ \A s \in Starts : /\ DOMAIN closed[s] = {"open", "pos", "high"}
                              /\ closed[s].pos = streams[s].pos /\ closed[s].high = streams[s].high
<1>1. CASE i = 0 \/ refs[i].sub = 0
  <2>1. closed = streams
    BY <1>1 DEF Unsubscribed
  <2> QED
    BY <2>1
<1>2. CASE ~(i = 0 \/ refs[i].sub = 0)
  <2>1. closed = [streams EXCEPT ![refs[i].sub].open = FALSE]
    BY <1>2 DEF Unsubscribed
  <2> QED
    BY <2>1
<1> QED
  BY <1>1, <1>2

(* A step of neither a request, an execution nor a report. *)
LEMMA ReportedStays ==
  ASSUME RequestsInv, ExecsInv, ReportsInv, StreamsMove,
         UNCHANGED <<definitions, start, exec, reported>>,
         budget' \in Budget, budget'.starts = budget.starts
  PROVE  RequestsInv' /\ ExecsInv' /\ ReportsInv'
<1>1. RequestsInv'
  BY RequestsStay
<1>2. ExecsInv'
  BY ExecsStay
<1>3. ReportsInv'
  BY ReportsStay DEF Succeeded
<1> QED
  BY <1>1, <1>2, <1>3

(* Streams that stay where they are. *)
LEMMA StreamsStay == ASSUME ReportsInv, sub' = sub PROVE StreamsMove
BY DEF StreamsMove, ReportsInv, StreamHeld

(* A step that leaves the directory, the package and the export alone. *)
LEMMA FilesStay ==
  ASSUME DirInv, ZipInv, DownloadInv, UNCHANGED <<dir, zip, download, user>>,
         SomeMarked' <=> SomeMarked,
         budget \in Budget, budget' \in Budget, budget'.deletes = budget.deletes
  PROVE  DirInv' /\ ZipInv' /\ DownloadInv'
<1>1. DirInv'
  BY DirStays
<1>2. ZipInv'
  BY ZipStays
<1>3. DownloadInv'
  <2>1. budget.deletes \in 0..1
    BY DEF Budget
  <2> QED
    BY <2>1, DownloadStays
<1> QED
  BY <1>1, <1>2, <1>3

-----------------------------------------------------------------------------
(* Packages. *)

(* The files of a package are told apart by their names. *)
LEMMA StringsDiffer ==
  /\ Manifest \notin Required /\ Metadata \notin Required /\ Manifest # Metadata
  /\ "flow.dsl.json" \in Required
  /\ Manifest \notin Others /\ Metadata \notin Others /\ Manifest \notin Optional
  /\ Metadata \notin Optional /\ Required \cap Others = {} /\ Optional \cap Others = {}
BY DEF Manifest, Metadata, Required, Optional, Others, Sensitive, ToolState, UnsafePath, Scripts, Media

(* What is neither secret nor of a tool is tidy. *)
LEMMA ImportableIsTidy ==
  ASSUME NEW files, \A path \in DOMAIN files : path = Metadata \/ IsImportable(path)
  PROVE  Tidy(files)
<1>1. ASSUME NEW path \in Sensitive \cup ToolState \cup UnsafePath \cup Media \cup {Manifest}
      PROVE  path # Metadata /\ ~IsImportable(path)
  BY StringsDiffer DEF IsImportable, IsSupporting, Others
<1> QED
  BY <1>1 DEF Tidy

(* What can be imported is not secret. *)
LEMMA ImportableIsClean ==
  ASSUME NEW files, \A path \in DOMAIN files : path = Manifest \/ IsImportable(path)
  PROVE  DOMAIN files \cap Sensitive = {}
<1>1. \A path \in Sensitive : path # Manifest /\ ~IsImportable(path)
  BY StringsDiffer DEF IsImportable, IsSupporting, Others
<1> QED
  BY <1>1

(* The files beside the required ones. *)
LEMMA CollectedFiles ==
  ASSUME NEW files
  PROVE  \A path \in DOMAIN Collected(files) : path \notin Required /\ IsImportable(path)
BY DEF Collected

(* A package whose files are those of its sums is taken where there is no flow. *)
LEMMA WholeIsAccepted ==
  ASSUME NEW document, NEW generator, NEW sums, NEW contents, NEW others,
         ValidateRpaDsl(document) = {}, document.flow_id = "f1",
         generator \in Generators, DOMAIN contents = Required,
         contents["flow.dsl.json"] = document,
         \A path \in Required : contents[path] = sums[path],
         \A path \in DOMAIN others : path \notin Required /\ IsImportable(path),
         ~TooLarge(Zipped(BuildManifest(document, generator, sums), contents, others))
  PROVE  FirstError(Zipped(BuildManifest(document, generator, sums), contents, others), FALSE)
           = "none"
<1> PICK manifest : manifest = BuildManifest(document, generator, sums)
  OBVIOUS
<1> PICK entries : entries = Zipped(manifest, contents, others)
  OBVIOUS
<1>1. /\ manifest.schema = "rpa-package.v0.1" /\ manifest.flowId = "f1"
      /\ manifest.name = document.title /\ manifest.generator = generator
      /\ manifest.checksums = sums
  BY DEF BuildManifest
<1>2. document.title # ""
  BY DEF ValidateRpaDsl, Issue
<1>3. ParseManifest(manifest) = "none"
  BY <1>1, <1>2 DEF ParseManifest, Generators
<1>4. /\ DOMAIN entries = {Manifest} \cup Required \cup DOMAIN others
      /\ entries[Manifest] = manifest
      /\ \A path \in Required : entries[path] = contents[path]
      /\ DOMAIN entries \cap Sensitive = {}
  <2>1. /\ DOMAIN entries = {Manifest} \cup Required \cup DOMAIN others
        /\ entries[Manifest] = manifest
        /\ \A path \in Required : entries[path] = contents[path]
    BY StringsDiffer DEF Zipped
  <2>2. \A path \in DOMAIN entries : path = Manifest \/ IsImportable(path)
    BY <2>1 DEF IsImportable
  <2> QED
    BY <2>1, <2>2, ImportableIsClean
<1>5. /\ entries["flow.dsl.json"] = document
      /\ Manifest \in DOMAIN entries /\ Required \subseteq DOMAIN entries
  BY <1>4, StringsDiffer
<1>6. \A path \in Required : entries[path] = entries[Manifest].checksums[path]
  BY <1>1, <1>4
<1>7. /\ ParseManifest(entries[Manifest]) = "none" /\ entries[Manifest].flowId = "f1"
      /\ entries["flow.dsl.json"].flow_id = "f1"
      /\ ValidateRpaDsl(entries["flow.dsl.json"]) = {}
  BY <1>1, <1>3, <1>4, <1>5
<1> QED
  BY <1>4, <1>5, <1>6, <1>7 DEF FirstError

(* The generator of a flow is one that a manifest may name. *)
LEMMA GeneratorIsKnown ==
  ASSUME NEW files, Metadata \in DOMAIN files => files[Metadata].mode \in Modes
  PROVE  Generator(ReadMetadata(files)) \in Generators
<1> PICK metadata : metadata = ReadMetadata(files)
  OBVIOUS
<1>1. metadata.mode \in Modes
  BY DEF ReadMetadata, Modes
<1> QED
  BY <1>1 DEF Generator, Generators, Modes

-----------------------------------------------------------------------------
(* The beginning. *)

(* The package that the user has at first. *)
LEMMA HeldPackage ==
  ASSUME NEW scene \in Scenes, IsScene(scene), scene.held # NoFiles,
         zip = Package(Packaged(scene.held), scene.crafted, FALSE)
  PROVE  ZipInv
<1> PICK held : held = scene.held
  OBVIOUS
<1> PICK files : files = [path \in Required |-> held[path]]
  OBVIOUS
<1> PICK document, generator :
      document = held["flow.dsl.json"] /\ generator = Generator(ReadMetadata(held))
  OBVIOUS
<1> PICK manifest : manifest = BuildManifest(document, generator, files)
  OBVIOUS
<1> PICK others : others = Collected(held)
  OBVIOUS
<1> PICK entries : entries = Zipped(manifest, files, others)
  OBVIOUS
<1>0. /\ DOMAIN files = Required /\ files["flow.dsl.json"] = document
      /\ \A path \in DOMAIN others : path \notin Required /\ IsImportable(path)
  BY CollectedFiles, StringsDiffer
<1>1. /\ DOMAIN zip = {"there", "edited", "torn", "entries"} /\ zip.entries = entries
      /\ zip.edited = scene.crafted /\ zip.torn = FALSE
  <2>1. Packaged(held) = entries
    BY DEF Packaged
  <2> QED
    BY <2>1 DEF Package
<1>2. Required \subseteq DOMAIN held /\ scene.crafted \in BOOLEAN
  BY DEF IsScene
<1>3. entries[Manifest] = manifest
  BY DEF Zipped
<1>4. manifest.checksums = files /\ "checksums" \in DOMAIN manifest
  BY DEF BuildManifest
<1>5. OneScene(files)
  BY <1>2 DEF OneScene, FromScene
<1>6. ASSUME ~scene.crafted, ~TooLarge(entries) PROVE FirstError(entries, FALSE) = "none"
  <2>1. ExportError(held, "f1") = "none"
    BY <1>6 DEF IsScene
  <2>2. /\ ValidateRpaDsl(held["flow.dsl.json"]) = {} /\ held["flow.dsl.json"].flow_id = "f1"
    BY <2>1 DEF ExportError
  <2>3. Metadata \in DOMAIN held => held[Metadata].mode \in Modes
    BY DEF IsScene
  <2>4. Generator(ReadMetadata(held)) \in Generators
    BY <2>3, GeneratorIsKnown
  <2> DEFINE package == Zipped(BuildManifest(document, generator, files), files, others)
  <2>5. entries = package /\ ~TooLarge(package)
    BY <1>6
  <2>6. ValidateRpaDsl(document) = {} /\ document.flow_id = "f1" /\ generator \in Generators
    BY <2>2, <2>4
  <2>7. FirstError(package, FALSE) = "none"
    BY ONLY <1>0, <2>5, <2>6, WholeIsAccepted
  <2> QED
    BY <2>5, <2>7
<1>7. TooLarge(zip.entries) <=> TooLarge(entries)
  BY <1>1
<1>8. FirstError(zip.entries, FALSE) = FirstError(entries, FALSE)
  BY <1>1
<1> QED
  BY <1>1, <1>3, <1>4, <1>5, <1>6, <1>7, <1>8 DEF ZipInv

(* The page begins in its invariant. *)
LEMMA PageInvBegins == PageInit => PageInv
<1> SUFFICES ASSUME PageInit PROVE PageInv
  OBVIOUS
<1>1. PICK scene \in Scenes :
        /\ dir = scene.dir /\ definitions = scene.definitions /\ budget = scene.budget
        /\ zip = IF scene.held = NoFiles THEN NoZip
                 ELSE Package(Packaged(scene.held), scene.crafted, FALSE)
  BY DEF PageInit
<1>2. IsScene(scene)
  BY RpaWorkbenchAssumption
<1>0. FormValues(NoParams(definitions))
  BY DEF FormValues, NoParams
<1>3. RequestsInv
  <2>1. DOMAIN start = Starts /\ \A s \in Starts : start[s] = NoStart
    BY DEF PageInit
  <2>2. ASSUME NEW s \in Starts PROVE RequestHeld(s) /\ start[s].pc = "none"
    BY <1>0, <2>1 DEF RequestHeld, NoStart
  <2> QED
    BY <1>1, <1>2, <2>1, <2>2 DEF RequestsInv, IsScene
<1>4. \A s \in Starts : exec[s] = NoExec
  BY DEF PageInit
<1>5. ExecsInv
  <2>1. ASSUME NEW s \in Starts PROVE ExecHeld(s)
    <3>1. /\ DOMAIN exec[s] = {"pc", "params", "outcome", "marked", "events"}
          /\ exec[s].pc = "none" /\ exec[s].marked = FALSE /\ exec[s].events = <<>>
      BY <1>4 DEF NoExec
    <3>2. <<>> \in Seq({"run.started", "log", "run.completed"}) /\ Len(<<>>) = 0
      OBVIOUS
    <3>3. ~exec[s].marked /\ exec[s].marked \in BOOLEAN
      BY <3>1
    <3>4. exec[s].events \in Seq({"run.started", "log", "run.completed"})
          /\ 1..Len(exec[s].events) = {}
      BY <3>1, <3>2
    <3> QED
      BY <3>1, <3>3, <3>4 DEF ExecHeld
  <2> QED
    BY <2>1 DEF ExecsInv, PageInit
<1>6. ReportsInv
  <2>1. ASSUME NEW s \in Starts PROVE StreamHeld(s)
    BY DEF StreamHeld, NoSub, PageInit
  <2> QED
    BY <2>1 DEF ReportsInv, PageInit
<1>7. DirInv
  <2>1. FromScene(dir)
    BY <1>1 DEF FromScene
  <2>2. ~SomeMarked
    BY <1>4 DEF SomeMarked, NoExec
  <2>3. DOMAIN user = Requests /\ user["delete"].answer = "idle"
    BY DEF PageInit, Idle, Requests
  <2>4. ASSUME Metadata \in DOMAIN dir
        PROVE  /\ dir[Metadata] \in MetadataRecord
               /\ dir[Metadata].source = "imported" =>
                    /\ Required \subseteq DOMAIN dir /\ Tidy(dir)
                    /\ ValidateRpaDsl(dir["flow.dsl.json"]) = {}
                    /\ dir[Metadata].requiresVerify
    BY <1>1, <1>2, <2>4 DEF IsScene, MetadataRecord
  <2> QED
    BY <2>1, <2>2, <2>3, <2>4 DEF DirInv
<1>8. ZipInv
  <2>1. CASE scene.held = NoFiles
    <3>1. zip = NoZip
      BY <1>1, <2>1
    <3>2. /\ DOMAIN zip = {"there", "edited", "torn", "entries"} /\ ~zip.there
          /\ DOMAIN zip.entries = {}
      BY <3>1 DEF NoZip, NoFiles
    <3> QED
      BY <3>2 DEF ZipInv
  <2>2. CASE scene.held # NoFiles
    BY <1>1, <1>2, <2>2, HeldPackage
  <2> QED
    BY <2>1, <2>2
<1>9. ViewInv
  BY <1>0 DEF PageInit, NoView, ViewInv
<1>10. DownloadInv
  BY DEF PageInit, NoDownload, DownloadInv
<1> QED
  BY <1>3, <1>5, <1>6, <1>7, <1>8, <1>9, <1>10 DEF PageInv

-----------------------------------------------------------------------------
(* Exports. *)

(* An export begins with the document of the flow. *)
LEMMA ExportKeeps == ASSUME PageInv, Export PROVE PageInv'
<1>1. UNCHANGED <<dir, definitions, zip, user, view, start, exec, sub, reported>>
  BY DEF Export
<1>2. budget \in Budget /\ budget.downloads > 0 /\ budget' = [budget EXCEPT !.downloads = @ - 1]
  BY DEF Export, PageInv, RequestsInv
<1>3. /\ budget' \in Budget /\ budget'.starts = budget.starts
      /\ budget'.deletes = budget.deletes
  <2>1. budget.downloads - 1 \in Nat
    BY <1>2 DEF Budget
  <2> QED
    BY <1>2, <2>1 DEF Budget
<1>4. RequestsInv' /\ ExecsInv' /\ ReportsInv'
  BY <1>1, <1>3, ReportedStays, StreamsStay DEF PageInv
<1>5. DirInv' /\ ZipInv' /\ ViewInv'
  BY <1>1, <1>3, DirStays, ZipStays, ViewCloses DEF PageInv, SomeMarked
<1>6. DownloadInv'
  <2>1. ExportError(dir, "f1") = "none"
        /\ download' = [NoDownload EXCEPT !.pc = "metadata", !.document = dir["flow.dsl.json"]]
    BY DEF Export
  <2>2. /\ "flow.dsl.json" \in DOMAIN dir /\ ValidateRpaDsl(dir["flow.dsl.json"]) = {}
        /\ dir["flow.dsl.json"].flow_id = "f1"
    BY <2>1 DEF ExportError
  <2>3. /\ DOMAIN download' = {"pc", "document", "generator", "sums", "contents", "torn"}
        /\ download'.pc = "metadata" /\ download'.document = dir["flow.dsl.json"]
        /\ DOMAIN download'.sums = {} /\ DOMAIN download'.contents = {} /\ ~download'.torn
    BY <2>1 DEF NoDownload, NoFiles
  <2>4. Agree(download.sums, dir)' /\ Agree(download.contents, dir)'
    BY <2>3 DEF Agree
  <2> QED
    BY <1>1, <2>2, <2>3, <2>4 DEF DownloadInv
<1> QED
  BY <1>4, <1>5, <1>6 DEF PageInv

(* What is read is of the flow that is there. *)
LEMMA ReadForExportKeeps == ASSUME PageInv, ReadForExport PROVE PageInv'
<1>1. UNCHANGED <<dir, definitions, zip, user, view, start, exec, sub, reported, budget>>
  BY DEF ReadForExport
<1>2. budget \in Budget
  BY DEF PageInv, RequestsInv
<1>3. RequestsInv' /\ ExecsInv' /\ ReportsInv'
  BY <1>1, <1>2, ReportedStays, StreamsStay DEF PageInv
<1>4. DirInv' /\ ZipInv' /\ ViewInv'
  BY <1>1, DirStays, ZipStays, ViewCloses DEF PageInv, SomeMarked
<1>5. DownloadInv'
  <2> DEFINE Fields == {"pc", "document", "generator", "sums", "contents", "torn"}
  <2>1. download.pc \in {"metadata", "files"} /\ DOMAIN download = Fields
    BY DEF ReadForExport, PageInv, DownloadInv
  <2>2. /\ ValidateRpaDsl(download.document) = {} /\ download.document.flow_id = "f1"
        /\ download.pc = "files" => download.generator \in Generators
        /\ DOMAIN download.sums \subseteq Required /\ DOMAIN download.contents \subseteq Required
        /\ download.pc # "files" => DOMAIN download.sums = {}
        /\ DOMAIN download.contents # {} => DOMAIN download.sums = Required
        /\ download.torn => budget.deletes = 0 /\ user["delete"].answer # "sent"
        /\ ~download.torn =>
             /\ "flow.dsl.json" \in DOMAIN dir /\ download.document = dir["flow.dsl.json"]
             /\ Agree(download.sums, dir) /\ Agree(download.contents, dir)
        /\ OneScene(download.sums) \/ Agree(download.contents, dir)
    BY <2>1 DEF PageInv, DownloadInv
  <2>3. \A files : /\ OneScene(files)' <=> OneScene(files)
                   /\ Agree(files, dir)' <=> Agree(files, dir)
    BY <1>1 DEF OneScene, FromScene, Agree
  <2>4. CASE download' = NoDownload
    BY <2>4 DEF DownloadInv, NoDownload
  <2>5. CASE /\ download.pc = "metadata"
             /\ download' = [download EXCEPT !.pc = "files",
                                             !.generator = Generator(ReadMetadata(dir))]
    <3> PICK generator : generator = Generator(ReadMetadata(dir))
      OBVIOUS
    <3>1. generator \in Generators
      BY GeneratorIsKnown DEF PageInv, DirInv, MetadataRecord
    <3>2. /\ DOMAIN download' = Fields /\ download'.pc = "files"
          /\ download'.generator = generator /\ download'.document = download.document
          /\ download'.sums = download.sums /\ download'.contents = download.contents
          /\ download'.torn = download.torn
      BY <2>1, <2>5
    <3>3. /\ OneScene(download'.sums) \/ Agree(download'.contents, dir)
      BY <2>2, <3>2
    <3>4. OneScene(download.sums)' \/ Agree(download.contents, dir)'
      BY <1>1, <3>3 DEF OneScene, FromScene, Agree
    <3>5. ~download.torn => Agree(download.sums, dir)' /\ Agree(download.contents, dir)'
      BY <1>1, <2>2, <3>2 DEF Agree
    <3> QED
      BY <1>1, <2>2, <3>1, <3>2, <3>4, <3>5 DEF DownloadInv
  <2>6. ASSUME NEW path \in Required, download.pc = "files", NextOf(download.sums, path),
               path \in DOMAIN dir,
               download' = [download EXCEPT !.sums = With(@, path, dir[path])]
        PROVE  DownloadInv'
    <3> PICK sums : sums = With(download.sums, path, dir[path])
      OBVIOUS
    <3>1. /\ DOMAIN download' = Fields /\ download'.pc = "files"
          /\ download'.generator = download.generator /\ download'.document = download.document
          /\ download'.sums = sums /\ download'.contents = download.contents
          /\ download'.torn = download.torn
      BY <2>1, <2>6
    <3>2. DOMAIN sums = DOMAIN download.sums \cup {path}
          /\ (Agree(download.sums, dir) => Agree(sums, dir))
      BY <2>6 DEF With, Agree
    <3>3. DOMAIN download.contents = {}
      BY <2>2, <2>6 DEF NextOf
    <3>4. Agree(download.contents, dir)'
      BY <3>1, <3>3 DEF Agree
    <3>5. ~download.torn => Agree(download.sums, dir)'
      BY <1>1, <2>2, <3>1, <3>2 DEF Agree
    <3> QED
      BY <1>1, <2>2, <2>6, <3>1, <3>2, <3>3, <3>4, <3>5 DEF DownloadInv
  <2>7. ASSUME NEW path \in Required, download.pc = "files", DOMAIN download.sums = Required,
               NextOf(download.contents, path), path \in DOMAIN dir,
               download' = [download EXCEPT !.contents = With(@, path, dir[path])]
        PROVE  DownloadInv'
    <3> PICK contents : contents = With(download.contents, path, dir[path])
      OBVIOUS
    <3>1. /\ DOMAIN download' = Fields /\ download'.pc = "files"
          /\ download'.generator = download.generator /\ download'.document = download.document
          /\ download'.sums = download.sums /\ download'.contents = contents
          /\ download'.torn = download.torn
      BY <2>1, <2>7
    <3>2. DOMAIN contents = DOMAIN download.contents \cup {path}
          /\ (Agree(download.contents, dir) => Agree(contents, dir))
      BY <2>7 DEF With, Agree
    <3>3. OneScene(download.sums)' \/ Agree(download.contents, dir)'
      BY <1>1, <2>2, <3>1, <3>2 DEF OneScene, FromScene, Agree
    <3>4. ~download.torn => Agree(download.sums, dir)' /\ Agree(download.contents, dir)'
      BY <1>1, <2>2, <3>1, <3>2 DEF Agree
    <3> QED
      BY <1>1, <2>2, <2>7, <3>1, <3>2, <3>3, <3>4 DEF DownloadInv
  <2> QED
    BY <2>4, <2>5, <2>6, <2>7 DEF ReadForExport
<1> QED
  BY <1>3, <1>4, <1>5 DEF PageInv

(* The package has the sums of a scene, or else the files of one; both when the *)
(* flow stayed.                                                                  *)
LEMMA EndExportKeeps == ASSUME PageInv, EndExport PROVE PageInv'
<1>1. UNCHANGED <<dir, definitions, user, view, start, exec, sub, reported, budget>>
  BY DEF EndExport
<1>2. budget \in Budget
  BY DEF PageInv, RequestsInv
<1>3. RequestsInv' /\ ExecsInv' /\ ReportsInv'
  BY <1>1, <1>2, ReportedStays, StreamsStay DEF PageInv
<1>4. DirInv' /\ ViewInv'
  BY <1>1, DirStays, ViewCloses DEF PageInv, SomeMarked
<1>5. DownloadInv'
  BY DEF EndExport, DownloadInv, NoDownload
<1>6. ZipInv'
  <2>1. CASE zip' = zip
    BY <2>1, ZipStays DEF PageInv
  <2>2. CASE zip' # zip
    <3> PICK document, generator, sums, contents :
          /\ document = download.document /\ generator = download.generator
          /\ sums = download.sums /\ contents = download.contents
      OBVIOUS
    <3> PICK manifest : manifest = BuildManifest(document, generator, sums)
      OBVIOUS
    <3> PICK others : others = Collected(dir)
      OBVIOUS
    <3> PICK entries : entries = Zipped(manifest, contents, others)
      OBVIOUS
    <3>1. /\ download.pc = "files" /\ DOMAIN contents = Required
          /\ zip' = Package(entries, FALSE, download.torn)
      BY <2>2 DEF EndExport
    <3>2. /\ ValidateRpaDsl(document) = {} /\ document.flow_id = "f1"
          /\ generator \in Generators /\ DOMAIN sums = Required
          /\ ~download.torn =>
               /\ "flow.dsl.json" \in DOMAIN dir /\ document = dir["flow.dsl.json"]
               /\ Agree(sums, dir) /\ Agree(contents, dir)
          /\ OneScene(sums) \/ Agree(contents, dir)
      BY <3>1, StringsDiffer DEF PageInv, DownloadInv
    <3>3. \A path \in DOMAIN others : path \notin Required /\ IsImportable(path)
      BY CollectedFiles
    <3>4. /\ DOMAIN entries = {Manifest} \cup Required \cup DOMAIN others
          /\ entries[Manifest] = manifest
          /\ \A path \in Required : entries[path] = contents[path]
      BY <3>1, StringsDiffer DEF Zipped
    <3>5. manifest.checksums = sums /\ "checksums" \in DOMAIN manifest
      BY DEF BuildManifest
    <3>6. ASSUME NEW files, Required \subseteq DOMAIN files,
                 \A path \in Required : path \in DOMAIN dir /\ files[path] = dir[path]
          PROVE  OneScene(files)
      BY <3>6 DEF OneScene, FromScene, PageInv, DirInv
    <3>7. ~download.torn => OneScene(sums)
      BY <3>2, <3>6 DEF Agree
    <3>8. OneScene(sums) \/ (download.torn /\ OneScene(entries))
      <4>1. ASSUME Agree(contents, dir) PROVE OneScene(entries)
        BY <3>1, <3>4, <3>6, <4>1 DEF Agree
      <4> QED
        BY <3>2, <3>7, <4>1
    <3>9. ASSUME ~download.torn, ~TooLarge(entries) PROVE FirstError(entries, FALSE) = "none"
      <4>1. \A path \in Required : contents[path] = sums[path]
        BY <3>1, <3>2, <3>9 DEF Agree
      <4>2. contents["flow.dsl.json"] = document
        BY <3>1, <3>2, <3>9, StringsDiffer DEF Agree
      <4> DEFINE package == Zipped(BuildManifest(document, generator, sums), contents, others)
      <4>3. entries = package /\ ~TooLarge(package)
        BY <3>9
      <4>4. /\ ValidateRpaDsl(document) = {} /\ document.flow_id = "f1"
            /\ generator \in Generators /\ DOMAIN contents = Required
            /\ contents["flow.dsl.json"] = document
        BY <3>1, <3>2, <4>2
      <4>5. FirstError(package, FALSE) = "none"
        BY ONLY <3>3, <4>1, <4>3, <4>4, WholeIsAccepted
      <4> QED
        BY <4>3, <4>5
    <3>10. /\ DOMAIN zip' = {"there", "edited", "torn", "entries"} /\ zip'.entries = entries
           /\ zip'.torn = download.torn /\ ~zip'.edited
      BY <3>1 DEF Package
    <3>11. TooLarge(zip.entries)' <=> TooLarge(entries)
      BY <3>10 DEF TooLarge
    <3>12. FirstError(zip.entries, FALSE)' = FirstError(entries, FALSE)
      BY <3>10 DEF FirstError
    <3>13. OneScene(zip.entries[Manifest].checksums)' <=> OneScene(sums)
      BY <3>4, <3>5, <3>10 DEF OneScene, FromScene
    <3>14. OneScene(zip.entries)' <=> OneScene(entries)
      BY <3>10 DEF OneScene, FromScene
    <3> QED
      BY <3>4, <3>5, <3>8, <3>9, <3>10, <3>11, <3>12, <3>13, <3>14 DEF ZipInv
  <2> QED
    BY <2>1, <2>2
<1> QED
  BY <1>3, <1>4, <1>5, <1>6 DEF PageInv

(* Whatever is lost, altered or added, the sums are not. *)
LEMMA EditZipKeeps == ASSUME PageInv, EditZip PROVE PageInv'
<1>1. UNCHANGED <<dir, definitions, download, user, view, start, exec, sub, reported>>
  BY DEF EditZip
<1>2. /\ budget \in Budget /\ budget' \in Budget
      /\ budget'.starts = budget.starts /\ budget'.deletes = budget.deletes
  <2>1. budget \in Budget /\ budget.edits > 0 /\ budget' = [budget EXCEPT !.edits = @ - 1]
    BY DEF PageInv, RequestsInv, EditZip
  <2>2. budget.edits \in Nat /\ budget.edits - 1 \in Nat
    BY <2>1 DEF Budget
  <2> QED
    BY <2>1, <2>2 DEF Budget
<1>3. RequestsInv' /\ ExecsInv' /\ ReportsInv'
  BY <1>1, <1>2, ReportedStays, StreamsStay DEF PageInv
<1>4. DirInv' /\ ViewInv'
  BY <1>1, <1>2, DirStays, ViewCloses DEF PageInv, SomeMarked
<1>5. DownloadInv'
  <2>1. budget.deletes \in 0..1
    BY <1>2 DEF Budget
  <2> QED
    BY <1>1, <1>2, <2>1, DownloadStays DEF PageInv
<1>6. ZipInv'
  <2>1. /\ DOMAIN zip = {"there", "edited", "torn", "entries"} /\ zip.there /\ ~zip.torn
        /\ Manifest \in DOMAIN zip.entries =>
             /\ "checksums" \in DOMAIN zip.entries[Manifest]
             /\ OneScene(zip.entries[Manifest].checksums)
    BY DEF PageInv, ZipInv, EditZip
  <2>2. ASSUME NEW entries, DOMAIN zip' = DOMAIN zip, zip'.edited, zip'.torn = zip.torn,
               zip'.entries = entries,
               Manifest \in DOMAIN entries =>
                 /\ Manifest \in DOMAIN zip.entries
                 /\ DOMAIN entries[Manifest] = DOMAIN zip.entries[Manifest]
                 /\ entries[Manifest].checksums = zip.entries[Manifest].checksums
        PROVE  ZipInv'
    <3>1. ASSUME Manifest \in DOMAIN entries
          PROVE  OneScene(zip.entries[Manifest].checksums)'
      BY <2>1, <2>2, <3>1 DEF OneScene, FromScene
    <3> QED
      BY <2>1, <2>2, <3>1 DEF ZipInv
  <2>3. ASSUME NEW path \in DOMAIN zip.entries,
               zip' = [zip EXCEPT !.edited = TRUE, !.entries = Restrict(@, DOMAIN @ \ {path})]
        PROVE  ZipInv'
    <3>1. PICK entries : entries = Restrict(zip.entries, DOMAIN zip.entries \ {path})
      OBVIOUS
    <3>2. DOMAIN zip' = DOMAIN zip /\ zip'.edited /\ zip'.torn = zip.torn /\ zip'.entries = entries
      BY <2>1, <2>3, <3>1
    <3>3. /\ DOMAIN entries \subseteq DOMAIN zip.entries
          /\ \A p \in DOMAIN entries : entries[p] = zip.entries[p]
      BY <3>1 DEF Restrict
    <3> QED
      BY <2>2, <3>2, <3>3
  <2>4. ASSUME NEW path \in DOMAIN zip.entries, NEW content \in Altered(path, zip.entries[path]),
               zip' = [zip EXCEPT !.edited = TRUE, !.entries[path] = content]
        PROVE  ZipInv'
    <3>1. PICK entries : entries = [zip.entries EXCEPT ![path] = content]
      OBVIOUS
    <3>2. DOMAIN zip' = DOMAIN zip /\ zip'.edited /\ zip'.torn = zip.torn /\ zip'.entries = entries
      BY <2>1, <2>4, <3>1
    <3>3. CASE path = Manifest
      <4> DEFINE manifest == zip.entries[Manifest]
      <4>1. content \in {[manifest EXCEPT !.schema = "rpa-package.v9"],
                         [manifest EXCEPT !.name = ""], [manifest EXCEPT !.flowId = "f2"]}
        <5>1. Altered(Manifest, manifest) = {[manifest EXCEPT !.schema = "rpa-package.v9"],
                [manifest EXCEPT !.name = ""], [manifest EXCEPT !.flowId = "f2"]}
          BY DEF Altered, Manifest
        <5> QED
          BY <3>3, <5>1
      <4>2. DOMAIN content = DOMAIN manifest /\ content.checksums = manifest.checksums
        <5>1. CASE content = [manifest EXCEPT !.schema = "rpa-package.v9"]
          BY <2>1, <2>4, <3>3, <5>1
        <5>2. CASE content = [manifest EXCEPT !.name = ""]
          BY <2>1, <2>4, <3>3, <5>2
        <5>3. CASE content = [manifest EXCEPT !.flowId = "f2"]
          BY <2>1, <2>4, <3>3, <5>3
        <5> QED
          BY <4>1, <5>1, <5>2, <5>3
      <4>3. entries[Manifest] = content
        BY <3>1, <3>3, <2>4
      <4> QED
        BY <2>2, <3>2, <3>3, <4>2, <4>3
    <3>4. CASE path # Manifest
      <4>1. DOMAIN entries = DOMAIN zip.entries
            /\ (Manifest \in DOMAIN entries => entries[Manifest] = zip.entries[Manifest])
        BY <3>1, <3>4
      <4> QED
        BY <2>2, <3>2, <4>1
    <3> QED
      BY <3>3, <3>4
  <2>5. ASSUME NEW path \in (Others \cup Optional \cup {Metadata}) \ DOMAIN zip.entries,
               zip' = [zip EXCEPT !.edited = TRUE, !.entries = With(@, path, File("other"))]
        PROVE  ZipInv'
    <3>1. PICK entries : entries = With(zip.entries, path, File("other"))
      OBVIOUS
    <3>2. DOMAIN zip' = DOMAIN zip /\ zip'.edited /\ zip'.torn = zip.torn /\ zip'.entries = entries
      BY <2>1, <2>5, <3>1
    <3>3. /\ DOMAIN entries = DOMAIN zip.entries \cup {path}
          /\ \A p \in DOMAIN zip.entries : entries[p] = zip.entries[p]
      BY <3>1 DEF With
    <3>4. path # Manifest
      BY StringsDiffer
    <3> QED
      BY <2>2, <3>2, <3>3, <3>4
  <2> QED
    BY <2>3, <2>4, <2>5 DEF EditZip
<1> QED
  BY <1>3, <1>4, <1>5, <1>6 DEF PageInv

-----------------------------------------------------------------------------
(* The buttons. *)

(* A button spends its bound, and a deletion the only one there is. *)
LEMMA PressKeeps == ASSUME PageInv, NEW op \in {"load", "import", "delete"}, Press(op) PROVE PageInv'
<1>1. UNCHANGED <<dir, definitions, zip, download, view, start, exec, sub, reported>>
  BY DEF Press
<1>2. budget \in Budget
  BY DEF PageInv, RequestsInv
<1>3. /\ budget' \in Budget /\ budget'.starts = budget.starts
      /\ budget'.deletes <= budget.deletes
      /\ op = "delete" => budget.deletes > 0 /\ budget'.deletes = 0
  <2>1. CASE op = "load"
    <3>1. budget.loads > 0 /\ budget' = [budget EXCEPT !.loads = @ - 1]
      BY <2>1 DEF Press
    <3>2. budget.loads - 1 \in Nat /\ budget.deletes \in 0..1
      BY <1>2, <3>1 DEF Budget
    <3>3. budget'.deletes = budget.deletes /\ budget'.starts = budget.starts
      BY <1>2, <3>1 DEF Budget
    <3>4. budget' \in Budget
      BY <1>2, <3>1, <3>2 DEF Budget
    <3> QED
      BY <2>1, <3>2, <3>3, <3>4
  <2>2. CASE op = "delete"
    <3>1. budget.deletes > 0 /\ budget' = [budget EXCEPT !.deletes = @ - 1]
      BY <2>2 DEF Press
    <3>2. budget.deletes = 1 /\ budget.deletes - 1 = 0
      BY <1>2, <3>1 DEF Budget
    <3>3. budget'.deletes = 0 /\ budget'.starts = budget.starts
      BY <1>2, <3>1, <3>2 DEF Budget
    <3>4. budget' \in Budget
      BY <1>2, <3>1, <3>2 DEF Budget
    <3> QED
      BY <3>1, <3>2, <3>3, <3>4
  <2>3. CASE op = "import"
    <3>1. budget' = budget
      BY <2>3 DEF Press
    <3>2. budget.deletes \in 0..1
      BY <1>2 DEF Budget
    <3> QED
      BY <1>2, <2>3, <3>1, <3>2
  <2> QED
    BY <2>1, <2>2, <2>3
<1>4. RequestsInv' /\ ExecsInv' /\ ReportsInv'
  BY <1>1, <1>3, ReportedStays, StreamsStay DEF PageInv
<1>5. /\ DOMAIN user = Requests /\ DOMAIN user' = Requests
      /\ op # "delete" => user'["delete"] = user["delete"]
  <2>1. DOMAIN user = Requests
    BY DEF PageInv, DirInv
  <2>2. user' = [user EXCEPT ![op] = [answer |-> "sent", shown |-> page.flow # "none"]]
    BY DEF Press
  <2> QED
    BY <2>1, <2>2
<1>6. DirInv'
  <2>1. DirInv
    BY DEF PageInv
  <2>2. FromScene(dir)' /\ (Tidy(dir)' <=> Tidy(dir)) /\ (SomeMarked' <=> SomeMarked)
    BY <1>1, <2>1 DEF DirInv, FromScene, Tidy, SomeMarked
  <2>3. budget.deletes \in 0..1 /\ budget'.deletes \in 0..1
    BY <1>2, <1>3 DEF Budget
  <2>4. budget'.deletes > 0 => budget.deletes > 0 /\ op # "delete"
    BY <1>3, <2>3
  <2> QED
    BY <1>1, <1>5, <2>1, <2>2, <2>4 DEF DirInv
<1>7. ZipInv' /\ ViewInv'
  BY <1>1, ZipStays, ViewCloses DEF PageInv
<1>8. DownloadInv'
  BY <1>1, <1>2, <1>3, <1>5, DownloadStays DEF PageInv
<1> QED
  BY <1>4, <1>6, <1>7, <1>8 DEF PageInv

(* An import that passes the checks has the files of a scene, and a valid document. *)
LEMMA ImportIsWhole ==
  ASSUME ZipInv, NEW exists \in BOOLEAN, FirstError(zip.entries, exists) = "none"
  PROVE  LET files == ImportRpaPackage(zip.entries)
         IN /\ ~exists /\ FromScene(files) /\ Required \subseteq DOMAIN files /\ Tidy(files)
            /\ ValidateRpaDsl(files["flow.dsl.json"]) = {} /\ Metadata \in DOMAIN files
            /\ files[Metadata] = [source |-> "imported", mode |-> "imported", requiresVerify |-> TRUE]
<1> PICK entries : entries = zip.entries
  OBVIOUS
<1>1. /\ Manifest \in DOMAIN entries /\ Required \subseteq DOMAIN entries /\ ~exists
      /\ \A path \in Required : entries[path] = entries[Manifest].checksums[path]
      /\ ValidateRpaDsl(entries["flow.dsl.json"]) = {}
  BY DEF FirstError
<1>2. OneScene(entries[Manifest].checksums) \/ OneScene(entries)
  BY <1>1 DEF ZipInv
<1> PICK files : files = ImportRpaPackage(entries)
  OBVIOUS
<1>3. /\ DOMAIN files = {Metadata} \cup {p \in DOMAIN entries : IsImportable(p)}
      /\ files[Metadata] = [source |-> "imported", mode |-> "imported", requiresVerify |-> TRUE]
      /\ \A path \in DOMAIN files \ {Metadata} : files[path] = entries[path]
  BY DEF ImportRpaPackage
<1>4. Required \subseteq DOMAIN files
  BY <1>1, <1>3 DEF IsImportable
<1>5. Tidy(files)
  BY <1>3, ImportableIsTidy
<1>6. \A path \in Required : files[path] = entries[path]
  BY <1>3, <1>4, StringsDiffer
<1>7. FromScene(files)
  <2>1. CASE OneScene(entries[Manifest].checksums)
    <3> PICK sums : sums = entries[Manifest].checksums
      OBVIOUS
    <3>1. \A path \in Required : path \in DOMAIN sums /\ files[path] = sums[path]
      BY <1>1, <1>6, <2>1 DEF OneScene
    <3> QED
      BY <2>1, <3>1 DEF OneScene, FromScene
  <2>2. CASE OneScene(entries)
    BY <1>1, <1>6, <2>2 DEF OneScene, FromScene
  <2> QED
    BY <1>2, <2>1, <2>2
<1>8. ValidateRpaDsl(files["flow.dsl.json"]) = {}
  BY <1>1, <1>6, StringsDiffer
<1> QED
  BY <1>1, <1>3, <1>4, <1>5, <1>7, <1>8

(* An export that is under way when a flow is brought has read nothing of it: its flow *)
(* is the one that was deleted.                                                         *)
LEMMA BroughtKeeps ==
  ASSUME DownloadInv, dir = NoFiles, download' = Torn, budget' = budget,
         user'["delete"] = user["delete"]
  PROVE  DownloadInv'
<1>1. DOMAIN download = {"pc", "document", "generator", "sums", "contents", "torn"}
  BY DEF DownloadInv
<1>2. CASE download.pc = "none"
  <2>1. download = NoDownload
    BY <1>2 DEF DownloadInv
  <2>2. download' = NoDownload
    BY <2>1 DEF Torn, NoDownload
  <2> QED
    BY <2>2 DEF DownloadInv, NoDownload
<1>3. CASE download.pc # "none"
  <2>1. DOMAIN dir = {}
    BY DEF NoFiles
  <2>2. /\ download.torn /\ budget.deletes = 0 /\ user["delete"].answer # "sent"
        /\ OneScene(download.sums) \/ DOMAIN download.contents = {}
    BY <1>3, <2>1 DEF DownloadInv, Agree
  <2>3. /\ DOMAIN download' = DOMAIN download /\ download'.pc = download.pc /\ download'.torn
        /\ download'.document = download.document /\ download'.generator = download.generator
        /\ download'.sums = download.sums /\ download'.contents = download.contents
    BY <1>1, <1>3 DEF Torn
  <2>4. OneScene(download.sums)' \/ Agree(download.contents, dir)'
    BY <2>2, <2>3 DEF OneScene, FromScene, Agree
  <2> QED
    BY <1>3, <2>2, <2>3, <2>4 DEF DownloadInv
<1> QED
  BY <1>2, <1>3

(* An export that is under way when its flow is deleted has all its sums from it, or  *)
(* reads no file before another flow is there.                                        *)
LEMMA DeletedKeeps ==
  ASSUME DirInv, DownloadInv, download' = Torn, budget' = budget,
         budget.deletes = 0, user["delete"].answer = "sent", user'["delete"].answer # "sent"
  PROVE  DownloadInv'
<1>1. DOMAIN download = {"pc", "document", "generator", "sums", "contents", "torn"}
  BY DEF DownloadInv
<1>2. CASE download.pc = "none"
  <2>1. download = NoDownload
    BY <1>2 DEF DownloadInv
  <2>2. download' = NoDownload
    BY <2>1 DEF Torn, NoDownload
  <2> QED
    BY <2>2 DEF DownloadInv, NoDownload
<1>3. CASE download.pc # "none"
  <2>1. /\ Agree(download.sums, dir)
        /\ DOMAIN download.contents # {} => DOMAIN download.sums = Required
    BY <1>3 DEF DownloadInv
  <2>2. ASSUME DOMAIN download.contents # {} PROVE OneScene(download.sums)
    BY <2>1, <2>2 DEF DirInv, OneScene, FromScene, Agree
  <2>3. /\ DOMAIN download' = DOMAIN download /\ download'.pc = download.pc /\ download'.torn
        /\ download'.document = download.document /\ download'.generator = download.generator
        /\ download'.sums = download.sums /\ download'.contents = download.contents
    BY <1>1, <1>3 DEF Torn
  <2>4. OneScene(download.sums)' \/ Agree(download.contents, dir)'
    BY <2>2, <2>3 DEF OneScene, FromScene, Agree
  <2> QED
    BY <1>3, <2>3, <2>4 DEF DownloadInv
<1> QED
  BY <1>2, <1>3

(* An import brings a whole flow into an empty directory, a deletion empties it. *)
LEMMA ServeKeeps == ASSUME PageInv, NEW op \in Requests, Serve(op) PROVE PageInv'
<1>1. UNCHANGED <<definitions, zip, view, start, exec, sub, reported, budget>>
  BY DEF Serve
<1>2. budget \in Budget /\ user[op].answer = "sent" /\ DOMAIN user = Requests
  BY DEF PageInv, RequestsInv, DirInv, Serve
<1>3. RequestsInv' /\ ExecsInv' /\ ReportsInv'
  BY <1>1, <1>2, ReportedStays, StreamsStay DEF PageInv
<1>4. ZipInv' /\ ViewInv'
  BY <1>1, ZipStays, ViewCloses DEF PageInv
<1>5. SomeMarked' <=> SomeMarked
  BY <1>1 DEF SomeMarked
<1>6. DirInv /\ DownloadInv /\ ZipInv
  BY DEF PageInv
<1>7. CASE UNCHANGED <<dir, download>> /\ op # "delete"
           /\ \E answer : user' = [user EXCEPT ![op].answer = answer]
  <2>1. DOMAIN user' = Requests /\ user'["delete"] = user["delete"]
    BY <1>2, <1>7
  <2>2. FromScene(dir)' /\ (Tidy(dir)' <=> Tidy(dir))
    BY <1>6, <1>7 DEF DirInv, FromScene, Tidy
  <2>3. DirInv'
    BY <1>1, <1>5, <1>6, <1>7, <2>1, <2>2 DEF DirInv
  <2>4. budget.deletes \in 0..1
    BY <1>2 DEF Budget
  <2>5. DownloadInv'
    BY <1>1, <1>2, <1>6, <1>7, <2>1, <2>4, DownloadStays
  <2> QED
    BY <1>3, <1>4, <2>3, <2>5 DEF PageInv
<1>8. CASE /\ op = "import" /\ FirstError(zip.entries, dir # NoFiles) = "none"
           /\ dir' = ImportRpaPackage(zip.entries) /\ download' = Torn
           /\ user' = [user EXCEPT ![op].answer = "ok"]
  <2>1. DOMAIN user' = Requests /\ user'["delete"] = user["delete"]
    BY <1>2, <1>8
  <2>2. /\ dir = NoFiles /\ FromScene(dir') /\ Required \subseteq DOMAIN dir' /\ Tidy(dir')
        /\ ValidateRpaDsl(dir'["flow.dsl.json"]) = {} /\ Metadata \in DOMAIN dir'
        /\ dir'[Metadata] = [source |-> "imported", mode |-> "imported", requiresVerify |-> TRUE]
    BY <1>6, <1>8, ImportIsWhole
  <2>3. ~(budget.deletes > 0 /\ SomeMarked)
    BY <1>6, <2>2 DEF DirInv, NoFiles
  <2>4. dir'[Metadata] \in MetadataRecord /\ dir'[Metadata].requiresVerify
    BY <2>2 DEF MetadataRecord, Modes
  <2>5. FromScene(dir)' /\ Tidy(dir)'
    BY <2>2 DEF FromScene, Tidy
  <2>6. DirInv'
    BY <1>1, <1>5, <1>6, <2>1, <2>2, <2>3, <2>4, <2>5 DEF DirInv
  <2>7. DownloadInv'
    BY <1>1, <1>6, <1>8, <2>1, <2>2, BroughtKeeps
  <2> QED
    BY <1>3, <1>4, <2>6, <2>7 DEF PageInv
<1>9. CASE /\ op = "delete" /\ dir' = NoFiles /\ download' = Torn
           /\ user' = [user EXCEPT ![op].answer = IF dir = NoFiles THEN "missing" ELSE "ok"]
  <2>0. budget.deletes \in 0..1
    BY <1>2 DEF Budget
  <2>1. budget.deletes = 0 /\ user["delete"].answer = "sent"
    BY <1>2, <1>6, <1>9, <2>0 DEF DirInv
  <2>2. user'["delete"] = [user["delete"] EXCEPT !.answer = IF dir = NoFiles THEN "missing" ELSE "ok"]
        /\ DOMAIN user' = Requests
    BY <1>2, <1>9
  <2>3. user'["delete"].answer # "sent"
    BY <1>2, <2>2 DEF Requests
  <2>4. DOMAIN dir' = {}
    BY <1>9 DEF NoFiles
  <2>5. FromScene(dir)'
    BY <1>6, <2>4 DEF DirInv, FromScene
  <2>6. DirInv'
    BY <1>1, <2>1, <2>2, <2>4, <2>5 DEF DirInv
  <2>7. DownloadInv'
    BY <1>1, <1>6, <1>9, <2>1, <2>3, DeletedKeeps
  <2> QED
    BY <1>3, <1>4, <2>6, <2>7 DEF PageInv
<1> QED
  BY <1>7, <1>8, <1>9 DEF Serve

(* Closing the view moves no stream. *)
LEMMA StreamsClose ==
  ASSUME ReportsInv, sub' = Unsubscribed(sub, view.on) \/ sub' = sub
  PROVE  StreamsMove
<1>1. DOMAIN sub = Starts
      /\ \A s \in Starts : DOMAIN sub[s] = {"open", "pos", "high"} /\ sub[s].pos \in Nat
  BY DEF ReportsInv, StreamHeld
<1>2. CASE sub' = sub
  BY <1>1, <1>2 DEF StreamsMove
<1>3. CASE sub' = Unsubscribed(sub, view.on)
  BY <1>1, <1>3, Closed DEF StreamsMove
<1> QED
  BY <1>2, <1>3

(* An answer changes the page, not the server. *)
LEMMA AnswerKeeps == ASSUME PageInv, NEW op \in Requests, Answer(op) PROVE PageInv'
<1>1. UNCHANGED <<dir, definitions, zip, download, start, exec, reported, budget>>
  BY DEF Answer
<1>2. budget \in Budget /\ DOMAIN user = Requests
  BY DEF PageInv, RequestsInv, DirInv
<1>3. RequestsInv' /\ ExecsInv' /\ ReportsInv'
  <2>1. sub' = Unsubscribed(sub, view.on) \/ sub' = sub
    BY DEF Answer, Loaded, Unmounted
  <2>2. StreamsMove
    BY <2>1, StreamsClose DEF PageInv
  <2> QED
    BY <1>1, <1>2, <2>2, ReportedStays DEF PageInv
<1>4. view' = NoView \/ view' = view
  BY DEF Answer, Loaded, Unmounted
<1>5. ZipInv' /\ ViewInv'
  BY <1>1, <1>4, ZipStays, ViewCloses DEF PageInv
<1>6. DOMAIN user' = Requests /\ (user'["delete"].answer = "sent" => user["delete"].answer = "sent")
  <2>1. \/ user' = [user EXCEPT ![op] = Idle]
        \/ /\ op = "import"
           /\ user' = [user EXCEPT ![op] = Idle, !["imported"].answer = "sent"]
    BY DEF Answer
  <2>2. Idle.answer # "sent"
    BY DEF Idle
  <2>3. DOMAIN user' = Requests /\ user'["delete"] \in {user["delete"], Idle}
    <3>1. CASE user' = [user EXCEPT ![op] = Idle]
      BY <1>2, <3>1
    <3>2. CASE op = "import" /\ user' = [user EXCEPT ![op] = Idle, !["imported"].answer = "sent"]
      <4>1. PICK others : others = [user EXCEPT !["import"] = Idle]
        OBVIOUS
      <4>2. DOMAIN others = Requests /\ others["delete"] = user["delete"]
        BY <1>2, <4>1
      <4>3. PICK loading : user' = [others EXCEPT !["imported"] = loading]
        BY <3>2, <4>1
      <4>4. DOMAIN user' = Requests /\ user'["delete"] = user["delete"]
        BY <4>2, <4>3
      <4> QED
        BY <4>4
    <3> QED
      BY <2>1, <3>1, <3>2
  <2> QED
    BY <2>2, <2>3
<1>7. DirInv'
  <2>1. DirInv
    BY DEF PageInv
  <2>2. FromScene(dir)' /\ (Tidy(dir)' <=> Tidy(dir)) /\ (SomeMarked' <=> SomeMarked)
    BY <1>1, <2>1 DEF DirInv, FromScene, Tidy, SomeMarked
  <2> QED
    BY <1>1, <1>6, <2>1, <2>2 DEF DirInv
<1>8. DownloadInv'
  <2>1. budget.deletes \in 0..1
    BY <1>2 DEF Budget
  <2> QED
    BY <1>1, <1>2, <1>6, <2>1, DownloadStays DEF PageInv
<1> QED
  BY <1>3, <1>5, <1>7, <1>8 DEF PageInv

(* A reload changes the page, not the server. *)
LEMMA ReloadKeeps == ASSUME PageInv, NEW s \in Starts, Reload(s) PROVE PageInv'
<1>1. UNCHANGED <<dir, definitions, zip, download, user, start, exec, reported, budget>>
  BY DEF Reload
<1>2. budget \in Budget
  BY DEF PageInv, RequestsInv
<1>3. RequestsInv' /\ ExecsInv' /\ ReportsInv'
  <2>1. sub' = Unsubscribed(sub, view.on) \/ sub' = sub
    BY DEF Reload, Loaded, Unmounted
  <2>2. StreamsMove
    BY <2>1, StreamsClose DEF PageInv
  <2> QED
    BY <1>1, <1>2, <2>2, ReportedStays DEF PageInv
<1>4. view' = NoView \/ view' = view
  BY DEF Reload, Loaded, Unmounted
<1>5. DirInv' /\ ZipInv' /\ DownloadInv'
  BY <1>1, <1>2, FilesStay DEF PageInv, SomeMarked
<1>6. ViewInv'
  BY <1>1, <1>4, ViewCloses DEF PageInv
<1> QED
  BY <1>3, <1>5, <1>6 DEF PageInv

-----------------------------------------------------------------------------
(* Requests for executions. *)

RequestFields == {"pc", "mode", "values", "sent", "instance", "code", "alone"}

(* The form refuses the values, or sends what normalizeRuntimeParams made of them. *)
LEMMA FormTakes ==
  ASSUME NEW request, DOMAIN request = RequestFields
  PROVE  LET sent == Submitted(request)
             results == NormalizeRuntimeParams(definitions, request.values)
         IN /\ DOMAIN sent = RequestFields /\ sent.values = request.values
            /\ sent.mode = request.mode
            /\ \/ /\ sent.pc = "sent" /\ sent.code = request.code
                  /\ Accepted(results) /\ sent.sent = Normalized(results)
               \/ sent.pc = "done" /\ sent.code = "form"
<1> PICK results : results = NormalizeRuntimeParams(definitions, request.values)
  OBVIOUS
<1> PICK sent : sent = Submitted(request)
  OBVIOUS
<1>1. CASE Accepted(results)
  <2>1. sent = [request EXCEPT !.pc = "sent", !.sent = Normalized(results)]
    BY <1>1 DEF Submitted
  <2>2. /\ DOMAIN sent = RequestFields /\ sent.values = request.values /\ sent.mode = request.mode
        /\ sent.pc = "sent" /\ sent.code = request.code /\ sent.sent = Normalized(results)
    BY <2>1 DEF RequestFields
  <2> QED
    BY <1>1, <2>2
<1>2. CASE ~Accepted(results)
  <2>1. sent = [request EXCEPT !.pc = "done", !.code = "form"]
    BY <1>2 DEF Submitted
  <2>2. /\ DOMAIN sent = RequestFields /\ sent.values = request.values /\ sent.mode = request.mode
        /\ sent.pc = "done" /\ sent.code = "form"
    BY <2>1 DEF RequestFields
  <2> QED
    BY <2>2
<1> QED
  BY <1>1, <1>2

(* A request that has just been made holds. *)
LEMMA FreshRequestHolds ==
  ASSUME NEW s \in Starts, definitions' = definitions, DOMAIN start'[s] = RequestFields,
         start'[s].code # "PARAMS_INVALID", FormValues(start'[s].values),
         \/ start'[s].pc = "loading"
         \/ /\ start'[s].pc = "sent"
            /\ Accepted(NormalizeRuntimeParams(definitions, start'[s].values))
            /\ start'[s].sent = Normalized(NormalizeRuntimeParams(definitions, start'[s].values))
         \/ start'[s].pc = "done"
  PROVE  RequestHeld(s)'
<1>1. start'[s].pc = "sent" => Passed(s)'
  BY DEF Passed
<1>2. start'[s].code # "PARAMS_INVALID"
  OBVIOUS
<1>3. FormValues(start[s].values)'
  BY DEF FormValues
<1> QED
  BY <1>1, <1>2, <1>3 DEF RequestHeld, RequestFields

(* A request that keeps its values and code holds on. *)
LEMMA OldRequestHolds ==
  ASSUME NEW s \in Starts, RequestHeld(s), definitions' = definitions,
         DOMAIN start'[s] = DOMAIN start[s], start'[s].code = start[s].code,
         start'[s].values = start[s].values, start'[s].sent = start[s].sent,
         \/ start'[s].pc = start[s].pc
         \/ start[s].pc = "answered" /\ start'[s].pc = "done"
  PROVE  RequestHeld(s)'
<1>1. Passed(s)' <=> Passed(s)
  BY DEF Passed
<1>2. EmptiedForBadDefault(s)' <=> EmptiedForBadDefault(s)
  BY DEF EmptiedForBadDefault
<1>3. FormValues(start[s].values)' <=> FormValues(start[s].values)
  BY DEF FormValues
<1> QED
  BY <1>1, <1>2, <1>3 DEF RequestHeld

(* A new request takes a number that had none and closes at most one stream. *)
LEMMA RequestKeeps ==
  ASSUME PageInv, NEW i, NEW purpose, NEW values,
         StartExecutionRequest(NextStart, i, purpose, values), FormValues(values), ViewInv',
         UNCHANGED <<dir, definitions, zip, download, page, user, reload, exec, reported>>
  PROVE  PageInv'
<1> PICK s : s = NextStart
  OBVIOUS
<1>1. /\ budget \in Budget /\ budget.starts > 0 /\ budget' = [budget EXCEPT !.starts = @ - 1]
      /\ DOMAIN start = Starts /\ \A t \in Starts : RequestHeld(t)
      /\ \A t \in Starts : MaxStarts - budget.starts < t => start[t].pc = "none"
  BY DEF PageInv, RequestsInv, StartExecutionRequest, Begin
<1>2. MaxStarts \in Nat /\ budget.starts \in 1..MaxStarts
  BY <1>1, RpaWorkbenchAssumption DEF Budget
<1>3. s \in Starts /\ s = MaxStarts - budget.starts + 1 /\ start[s].pc = "none"
  <2>1. s = MaxStarts - budget.starts + 1
    BY DEF NextStart
  <2>2. s \in 1..MaxStarts /\ MaxStarts - budget.starts < s
    BY <1>2, <2>1
  <2> QED
    BY <1>1, <2>1, <2>2 DEF Starts
<1>4. budget' \in Budget /\ budget'.starts = budget.starts - 1 /\ budget'.deletes = budget.deletes
  <2>1. budget.starts - 1 \in 0..MaxStarts
    BY <1>2
  <2> QED
    BY <1>1, <2>1 DEF Budget
<1>5. PICK request : request = [NoStart EXCEPT !.pc = "loading", !.mode = purpose,
                                  !.values = values, !.instance = i,
                                  !.alone = Beside(i) = {} /\ ~Leaks(i)]
  OBVIOUS
<1>6. /\ DOMAIN request = RequestFields /\ request.pc = "loading" /\ request.code = "none"
      /\ request.values = values
  BY <1>5 DEF NoStart, RequestFields
<1>7. PICK outcome : outcome = IF ~(view.on = i /\ view.loaded) THEN request ELSE Submitted(request)
  OBVIOUS
<1>8. start' = [t \in Starts |-> IF t = s THEN outcome
                                 ELSE IF t \in Beside(i) THEN [start[t] EXCEPT !.alone = FALSE]
                                 ELSE start[t]]
  BY <1>5, <1>7 DEF StartExecutionRequest, Begin
<1>9. RequestHeld(s)'
  <2>1. start'[s] = outcome
    BY <1>3, <1>8
  <2>2. CASE outcome = request
    BY <1>3, <1>6, <2>1, <2>2, FreshRequestHolds
  <2>3. CASE outcome = Submitted(request)
    BY <1>3, <1>6, <2>1, <2>3, FormTakes, FreshRequestHolds
  <2> QED
    BY <1>7, <2>2, <2>3
<1>10. ASSUME NEW t \in Starts, t # s
       PROVE  /\ DOMAIN start'[t] = DOMAIN start[t]
              /\ start'[t].pc = start[t].pc /\ start'[t].mode = start[t].mode
              /\ start'[t].values = start[t].values /\ start'[t].sent = start[t].sent
              /\ start'[t].code = start[t].code
  <2>1. DOMAIN start[t] = {"pc", "mode", "values", "sent", "instance", "code", "alone"}
    BY <1>1 DEF RequestHeld
  <2>2. start'[t] = start[t] \/ start'[t] = [start[t] EXCEPT !.alone = FALSE]
    BY <1>8, <1>10
  <2> QED
    BY <2>1, <2>2
<1>11. RequestsInv'
  <2>1. ASSUME NEW t \in Starts PROVE RequestHeld(t)'
    <3>1. CASE t = s
      BY <1>9, <3>1
    <3>2. CASE t # s
      BY <1>1, <1>10, <3>2, OldRequestHolds
    <3> QED
      BY <3>1, <3>2
  <2>2. ASSUME NEW t \in Starts, MaxStarts - budget'.starts < t PROVE start'[t].pc = "none"
    <3>1. MaxStarts - budget'.starts = s /\ t \in Int
      BY <1>2, <1>3, <1>4 DEF Starts
    <3>2. t # s /\ MaxStarts - budget.starts < t
      BY <1>2, <1>3, <2>2, <3>1
    <3> QED
      BY <1>1, <1>10, <3>2
  <2>3. DOMAIN start' = Starts
    BY <1>8
  <2> QED
    BY <1>4, <2>1, <2>2, <2>3 DEF RequestsInv
<1>12. ASSUME NEW t \in Starts, start[t].pc \in {"answered", "done"}
       PROVE  /\ start'[t].pc \in {"answered", "done"} /\ start'[t].values = start[t].values
              /\ start'[t].mode = start[t].mode
  BY <1>3, <1>10, <1>12
<1>13. ExecsInv'
  BY <1>12, ExecsStay DEF PageInv
<1>14. ReportsInv'
  <2>1. StreamsMove
    <3>1. DOMAIN sub = Starts
          /\ \A t \in Starts : DOMAIN sub[t] = {"open", "pos", "high"} /\ sub[t].pos \in Nat
      BY DEF PageInv, ReportsInv, StreamHeld
    <3>2. sub' = Unsubscribed(sub, i)
      BY DEF StartExecutionRequest, Begin
    <3> QED
      BY <3>1, <3>2, Closed DEF StreamsMove
  <2>2. ASSUME NEW t \in Starts, Succeeded(t) PROVE Succeeded(t)'
    <3>1. start[t].pc \in {"answered", "done"}
      BY <2>2 DEF Succeeded, PageInv, ExecsInv, ExecHeld
    <3> QED
      BY <1>12, <2>2, <3>1 DEF Succeeded
  <2> QED
    BY <2>1, <2>2, ReportsStay DEF PageInv
<1>15. DirInv' /\ ZipInv' /\ DownloadInv'
  BY <1>1, <1>4, FilesStay DEF PageInv, SomeMarked
<1> QED
  BY <1>11, <1>13, <1>14, <1>15 DEF PageInv

(* Verify flow and Run flow are requests. *)
LEMMA StartFlowKeeps ==
  ASSUME PageInv, NEW purpose \in {"verify", "run"}, StartFlowExecution(purpose)
  PROVE  PageInv'
<1>1. PICK i : StartExecutionRequest(NextStart, i, purpose, NoParams(definitions))
  BY DEF StartFlowExecution
<1>2. FormValues(NoParams(definitions))
  BY DEF FormValues, NoParams
<1>3. ViewInv'
  <2>1. DOMAIN view' = DOMAIN view /\ view'.values = NoParams(definitions)
    BY DEF StartFlowExecution, PageInv, ViewInv
  <2> QED
    BY <2>1, ViewStays DEF PageInv, StartFlowExecution
<1> QED
  BY <1>1, <1>2, <1>3, RequestKeeps DEF StartFlowExecution

(* Start is a request. *)
LEMMA StartKeeps ==
  ASSUME PageInv, NEW purpose \in {"verify", "run"}, StartExecution(purpose)
  PROVE  PageInv'
<1>1. FormValues(view.values)
  BY DEF PageInv, ViewInv
<1>2. ViewInv'
  <2>1. DOMAIN view' = DOMAIN view /\ view'.values = view.values
    BY DEF StartExecution, PageInv, ViewInv
  <2> QED
    BY <2>1, ViewStays DEF PageInv, StartExecution
<1> QED
  BY <1>1, <1>2, RequestKeeps DEF StartExecution

(* The form may change at any time: a request has the values it was made with. *)
LEMMA UpdateKeeps ==
  ASSUME PageInv, NEW p \in DOMAIN definitions, UpdateRuntimeParam(p) PROVE PageInv'
<1>1. UNCHANGED <<dir, definitions, zip, download, user, start, exec, sub, reported, budget>>
  BY DEF UpdateRuntimeParam
<1>2. budget \in Budget
  BY DEF PageInv, RequestsInv
<1>3. RequestsInv' /\ ExecsInv' /\ ReportsInv'
  BY <1>1, <1>2, ReportedStays, StreamsStay DEF PageInv
<1>4. DirInv' /\ ZipInv' /\ DownloadInv'
  BY <1>1, <1>2, FilesStay DEF PageInv, SomeMarked
<1>5. ViewInv'
  <2>1. PICK value \in Control(definitions[p]) : view' = [view EXCEPT !.values[p] = value]
    BY DEF UpdateRuntimeParam
  <2>2. DOMAIN view = {"on", "loaded", "busy", "values"} /\ FormValues(view.values)
    BY DEF PageInv, ViewInv
  <2>3. DOMAIN view' = DOMAIN view /\ view'.values = [view.values EXCEPT ![p] = value]
    BY <2>1, <2>2
  <2>4. FormValues([view.values EXCEPT ![p] = value])
    BY <2>1, <2>2 DEF FormValues
  <2>5. FormValues(view.values)'
    BY <1>1, <2>3, <2>4 DEF FormValues
  <2> QED
    BY <2>2, <2>3, <2>5 DEF ViewInv
<1> QED
  BY <1>3, <1>4, <1>5 DEF PageInv

(* A step that changes one request, which was made before. *)
LEMMA RequestsMove ==
  ASSUME RequestsInv, NEW s \in Starts, start[s].pc # "none", start'[s].pc # "none", RequestHeld(s)',
         start' = [start EXCEPT ![s] = start'[s]],
         definitions' = definitions, budget' = budget
  PROVE  RequestsInv'
<1>1. ASSUME NEW t \in Starts PROVE RequestHeld(t)' /\ (start'[t].pc = "none" => start[t].pc = "none")
                                    /\ (t # s => start'[t] = start[t])
  <2>1. CASE t = s
    <3>1. RequestHeld(t)'
      BY <2>1
    <3> QED
      BY <2>1, <3>1
  <2>2. CASE t # s
    <3>1. RequestHeld(t) /\ start'[t] = start[t]
      BY <2>2 DEF RequestsInv
    <3> QED
      BY <2>2, <3>1, OldRequestHolds
  <2> QED
    BY <2>1, <2>2
<1>2. ASSUME NEW t \in Starts, MaxStarts - budget.starts < t PROVE start'[t].pc = "none"
  <2>1. start[t].pc = "none"
    BY <1>2 DEF RequestsInv
  <2> QED
    BY <1>1, <2>1
<1>3. DOMAIN start' = Starts
  BY DEF RequestsInv
<1> QED
  BY <1>1, <1>2, <1>3 DEF RequestsInv

(* The view loads the flow, and sends the request or gives it up. *)
LEMMA LoadFlowKeeps == ASSUME PageInv, NEW s \in Starts, LoadFlow(s) PROVE PageInv'
<1>1. /\ start[s].pc = "loading"
      /\ UNCHANGED <<dir, definitions, zip, download, page, user, reload, refs, exec, sub, reported, budget>>
  BY DEF LoadFlow
<1>2. /\ DOMAIN start = Starts /\ DOMAIN start[s] = RequestFields
      /\ start[s].code # "PARAMS_INVALID" /\ FormValues(start[s].values)
  BY <1>1 DEF PageInv, RequestsInv, RequestHeld, RequestFields
<1>3. \/ start' = [start EXCEPT ![s] = Submitted(start[s])]
      \/ start' = [start EXCEPT ![s] = [start[s] EXCEPT !.pc = "done", !.code = "missing"]]
  BY DEF LoadFlow
<1>4. RequestHeld(s)'
  <2>1. CASE start'[s] = Submitted(start[s])
    <3>1. PICK request, sent : request = start[s] /\ sent = Submitted(request)
      OBVIOUS
    <3>2. /\ DOMAIN sent = RequestFields /\ sent.values = request.values
          /\ \/ /\ sent.pc = "sent" /\ sent.code = request.code
                /\ Accepted(NormalizeRuntimeParams(definitions, sent.values))
                /\ sent.sent = Normalized(NormalizeRuntimeParams(definitions, sent.values))
             \/ sent.pc = "done" /\ sent.code = "form"
      BY <1>2, <3>1, FormTakes
    <3>3. start'[s] = sent
      BY <2>1, <3>1
    <3> QED
      BY <1>1, <1>2, <3>1, <3>2, <3>3, FreshRequestHolds
  <2>2. CASE start'[s] = [start[s] EXCEPT !.pc = "done", !.code = "missing"]
    <3>1. /\ DOMAIN start'[s] = RequestFields /\ start'[s].pc = "done"
          /\ start'[s].code = "missing" /\ start'[s].values = start[s].values
      BY <1>2, <2>2 DEF RequestFields
    <3> QED
      BY <1>1, <1>2, <3>1, FreshRequestHolds
  <2> QED
    BY <1>2, <1>3, <2>1, <2>2
<1>5. start' = [start EXCEPT ![s] = start'[s]]
  BY <1>2, <1>3
<1>6. RequestsInv'
  <2>1. start'[s].pc # "none"
    <3>1. PICK request : request = start[s]
      OBVIOUS
    <3>2. start'[s] = Submitted(request) \/ start'[s].pc = "done"
      BY <1>2, <1>3, <3>1 DEF RequestFields
    <3> QED
      BY <1>2, <3>1, <3>2, FormTakes
  <2> QED
    BY <1>1, <1>4, <1>5, <2>1, RequestsMove DEF PageInv
<1>7. \A t \in Starts : start[t].pc \in {"answered", "done"} => start'[t] = start[t]
  BY <1>1, <1>2, <1>5
<1>8. ExecsInv'
  BY <1>1, <1>7, ExecsStay DEF PageInv
<1>9. ReportsInv'
  <2>1. StreamsMove
    BY <1>1 DEF PageInv, StreamsMove, ReportsInv, StreamHeld
  <2>2. ASSUME NEW t \in Starts, Succeeded(t) PROVE Succeeded(t)'
    <3>1. start[t].pc \in {"answered", "done"}
      BY <2>2 DEF Succeeded, PageInv, ExecsInv, ExecHeld
    <3> QED
      BY <1>1, <1>7, <2>2, <3>1 DEF Succeeded
  <2> QED
    BY <1>1, <2>1, <2>2, ReportsStay DEF PageInv
<1>10. DirInv' /\ ZipInv' /\ DownloadInv'
  BY <1>1, FilesStay DEF PageInv, SomeMarked, RequestsInv
<1>11. ViewInv'
  <2>1. /\ DOMAIN view' = DOMAIN view
        /\ view'.values \in {view.values, DefaultValues(definitions)}
    BY DEF LoadFlow, PageInv, ViewInv
  <2> QED
    BY <1>1, <2>1, ViewStays DEF PageInv
<1> QED
  BY <1>6, <1>8, <1>9, <1>10, <1>11 DEF PageInv

(* The reply opens the stream of the execution. *)
LEMMA StartAnsweredKeeps == ASSUME PageInv, NEW s \in Starts, StartAnswered(s) PROVE PageInv'
<1>1. /\ start[s].pc = "answered" /\ start' = [start EXCEPT ![s].pc = "done"]
      /\ UNCHANGED <<dir, definitions, zip, download, page, user, reload, exec, reported, budget>>
  BY DEF StartAnswered
<1>2. DOMAIN start = Starts /\ RequestHeld(s) /\ DOMAIN start[s] = RequestFields
  BY DEF PageInv, RequestsInv, RequestHeld, RequestFields
<1>3. start' = [start EXCEPT ![s] = start'[s]] /\ start'[s] = [start[s] EXCEPT !.pc = "done"]
  BY <1>1, <1>2
<1>4. /\ DOMAIN start'[s] = DOMAIN start[s] /\ start'[s].pc = "done"
      /\ start'[s].code = start[s].code /\ start'[s].values = start[s].values
      /\ start'[s].sent = start[s].sent /\ start'[s].mode = start[s].mode
  BY <1>2, <1>3 DEF RequestFields
<1>5. RequestHeld(s)'
  BY <1>1, <1>2, <1>4, OldRequestHolds
<1>6. RequestsInv'
  BY <1>1, <1>3, <1>4, <1>5, RequestsMove DEF PageInv
<1>7. \A t \in Starts : start[t].pc \in {"answered", "done"} =>
        /\ start'[t].pc \in {"answered", "done"}
        /\ start'[t].values = start[t].values /\ start'[t].mode = start[t].mode
  BY <1>2, <1>3, <1>4
<1>8. ExecsInv'
  BY <1>1, <1>7, ExecsStay DEF PageInv
<1>9. ReportsInv'
  <2>1. DOMAIN sub = Starts
        /\ \A t \in Starts : DOMAIN sub[t] = {"open", "pos", "high"} /\ sub[t].pos \in Nat
    BY DEF PageInv, ReportsInv, StreamHeld
  <2>2. sub' = sub \/ sub' = [sub EXCEPT ![s].open = TRUE]
    BY DEF StartAnswered
  <2>3. StreamsMove
    BY <2>1, <2>2 DEF StreamsMove
  <2>4. ASSUME NEW t \in Starts, Succeeded(t) PROVE Succeeded(t)'
    <3>1. start[t].pc \in {"answered", "done"}
      BY <2>4 DEF Succeeded, PageInv, ExecsInv, ExecHeld
    <3> QED
      BY <1>1, <1>7, <2>4, <3>1 DEF Succeeded
  <2> QED
    BY <1>1, <2>3, <2>4, ReportsStay DEF PageInv
<1>10. DirInv' /\ ZipInv' /\ DownloadInv'
  BY <1>1, FilesStay DEF PageInv, SomeMarked, RequestsInv
<1>11. ViewInv'
  <2>1. DOMAIN view' = DOMAIN view /\ view'.values = view.values
    BY DEF StartAnswered, PageInv, ViewInv
  <2> QED
    BY <1>1, <2>1, ViewStays DEF PageInv
<1> QED
  BY <1>6, <1>8, <1>9, <1>10, <1>11 DEF PageInv

-----------------------------------------------------------------------------
(* Executions and their events. *)

(* The server admits a request with what the form showed, or refuses it. *)
LEMMA AdmitKeeps == ASSUME PageInv, NEW s \in Starts, Admit(s) PROVE PageInv'
<1>1. /\ start[s].pc = "sent"
      /\ start' = [start EXCEPT ![s].pc = "answered", ![s].code = AdmissionCode(s)]
      /\ UNCHANGED <<dir, definitions, zip, download, page, user, reload, view, refs, sub, reported, budget>>
  BY DEF Admit
<1>2. /\ DOMAIN start = Starts /\ DOMAIN start[s] = RequestFields /\ Passed(s)
      /\ start[s].code # "PARAMS_INVALID" /\ FormValues(start[s].values)
  BY <1>1 DEF PageInv, RequestsInv, RequestHeld, RequestFields
<1> PICK code : code = AdmissionCode(s)
  OBVIOUS
<1>3. /\ start' = [start EXCEPT ![s] = start'[s]]
      /\ start'[s] = [start[s] EXCEPT !.pc = "answered", !.code = code]
  BY <1>1, <1>2
<1>4. /\ DOMAIN start'[s] = RequestFields /\ start'[s].pc = "answered" /\ start'[s].code = code
      /\ start'[s].values = start[s].values /\ start'[s].sent = start[s].sent
  BY <1>2, <1>3 DEF RequestFields
<1>5. RequestHeld(s)'
  <2>1. ASSUME code = "PARAMS_INVALID" PROVE EmptiedForBadDefault(s)'
    <3>1. ~Accepted(NormalizeRuntimeParams(definitions, start[s].sent))
      BY <2>1 DEF AdmissionCode
    <3>2. EmptiedForBadDefault(s)
      BY <1>2, <3>1, ServerAccepts
    <3> QED
      BY <1>1, <1>4, <3>2 DEF EmptiedForBadDefault
  <2>2. FormValues(start[s].values)'
    BY <1>1, <1>2, <1>4 DEF FormValues
  <2> QED
    BY <1>4, <2>1, <2>2 DEF RequestHeld, RequestFields
<1>6. RequestsInv'
  BY <1>1, <1>3, <1>4, <1>5, RequestsMove DEF PageInv
<1>7. \A t \in Starts : t # s => start'[t] = start[t]
  BY <1>2, <1>3
<1>8. /\ DOMAIN exec = Starts /\ \A t \in Starts : ExecHeld(t)
      /\ DOMAIN exec[s] = {"pc", "params", "outcome", "marked", "events"}
      /\ exec[s].pc = "none" /\ exec[s].marked = FALSE
  BY <1>1 DEF PageInv, ExecsInv, ExecHeld
<1> DEFINE params == Normalized(NormalizeRuntimeParams(definitions, start[s].sent))
<1>9. \/ code # "ok" /\ exec' = exec
      \/ /\ code = "ok"
         /\ exec' = [exec EXCEPT ![s].pc = "running", ![s].events = <<"run.started">>,
                                 ![s].params = params]
  BY DEF Admit
<1>10. /\ DOMAIN exec' = Starts /\ \A t \in Starts : t # s => exec'[t] = exec[t]
       /\ \A t \in Starts : exec'[t].marked = exec[t].marked
  BY <1>8, <1>9
<1>11. ExecHeld(s)'
  <2>1. CASE exec' = exec
    BY <1>8, <2>1 DEF ExecHeld
  <2>2. CASE code = "ok" /\ exec'[s] = [exec[s] EXCEPT !.pc = "running",
                                          !.events = <<"run.started">>, !.params = params]
    <3>1. Accepted(NormalizeRuntimeParams(definitions, start[s].sent))
      BY <2>2 DEF AdmissionCode
    <3>2. \A p \in DOMAIN definitions :
            params[p].text = IF IsUnset(start[s].values[p]) THEN definitions[p].default.text
                             ELSE start[s].values[p].text
      BY <1>2, <3>1, ServerReadsTheForm
    <3> HIDE DEF params
    <3>3. /\ DOMAIN exec'[s] = {"pc", "params", "outcome", "marked", "events"}
          /\ exec'[s].pc = "running" /\ exec'[s].events = <<"run.started">>
          /\ exec'[s].params = params /\ exec'[s].marked = FALSE
      BY <1>8, <2>2
    <3>4. ParamsAreShown(s)'
      BY <1>1, <1>4, <3>2, <3>3 DEF ParamsAreShown
    <3>5. <<"run.started">> \in Seq({"run.started", "log", "run.completed"})
          /\ Len(<<"run.started">>) = 1 /\ <<"run.started">>[1] = "run.started"
      OBVIOUS
    <3>6. \A k \in 1..1 : k = 1
      OBVIOUS
    <3>7. \A k \in 1..Len(exec'[s].events) : exec'[s].events[k] # "run.completed"
      BY <3>3, <3>5, <3>6
    <3>8. exec'[s].marked \in BOOLEAN /\ ~exec'[s].marked
      BY <3>3
    <3> QED
      BY <1>4, <3>3, <3>4, <3>5, <3>7, <3>8 DEF ExecHeld
  <2> QED
    BY <1>8, <1>9, <2>1, <2>2
<1>12. ExecsInv'
  <2>1. ASSUME NEW t \in Starts PROVE ExecHeld(t)'
    <3>1. CASE t = s
      BY <1>11, <3>1
    <3>2. CASE t # s
      <4>1. ExecHeld(t) /\ exec'[t] = exec[t] /\ start'[t] = start[t] /\ definitions' = definitions
        BY <1>1, <1>7, <1>8, <1>10, <3>2
      <4> QED
        BY <4>1 DEF ExecHeld, ParamsAreShown
    <3> QED
      BY <3>1, <3>2
  <2> QED
    BY <1>10, <2>1 DEF ExecsInv
<1>13. ReportsInv'
  <2>1. StreamsMove
    BY <1>1 DEF PageInv, StreamsMove, ReportsInv, StreamHeld
  <2>2. ASSUME NEW t \in Starts, Succeeded(t)
        PROVE  Succeeded(t)' /\ exec'[t].events = exec[t].events
    <3>1. t # s
      BY <1>8, <2>2 DEF Succeeded
    <3> QED
      BY <1>7, <1>10, <2>2, <3>1 DEF Succeeded
  <2> QED
    BY <1>1, <2>1, <2>2, ReportsStay DEF PageInv
<1>14. DirInv' /\ ZipInv' /\ DownloadInv'
  <2>1. SomeMarked' <=> SomeMarked
    BY <1>10 DEF SomeMarked
  <2> QED
    BY <1>1, <2>1, FilesStay DEF PageInv, RequestsInv
<1>15. ViewInv'
  BY <1>1, ViewCloses DEF PageInv
<1> QED
  BY <1>6, <1>12, <1>13, <1>14, <1>15 DEF PageInv

(* A verification that clears the flow leaves the other files as they are. *)
LEMMA ClearedKeeps ==
  ASSUME DirInv, user' = user, budget' = budget,
         dir' = With(dir, Metadata, [ReadMetadata(dir) EXCEPT !.requiresVerify = FALSE]),
         SomeMarked'
  PROVE  DirInv'
<1> PICK metadata : metadata = [ReadMetadata(dir) EXCEPT !.requiresVerify = FALSE]
  OBVIOUS
<1>1. /\ DOMAIN dir' = DOMAIN dir \cup {Metadata} /\ dir'[Metadata] = metadata
      /\ \A path \in DOMAIN dir : path # Metadata => dir'[path] = dir[path]
  BY DEF With
<1>2. /\ metadata \in MetadataRecord /\ ~metadata.requiresVerify
      /\ metadata.source = "imported" => Metadata \in DOMAIN dir /\ dir[Metadata].source = "imported"
  <2> PICK old : old = ReadMetadata(dir)
    OBVIOUS
  <2>1. /\ old \in MetadataRecord
        /\ old.source = "imported" => Metadata \in DOMAIN dir /\ dir[Metadata].source = "imported"
    <3>1. CASE Metadata \in DOMAIN dir
      BY <3>1 DEF ReadMetadata, DirInv
    <3>2. CASE Metadata \notin DOMAIN dir
      <4>1. old = [source |-> "generated", mode |-> "none", requiresVerify |-> FALSE]
        BY <3>2 DEF ReadMetadata
      <4> QED
        BY <4>1 DEF MetadataRecord, Modes
    <3> QED
      BY <3>1, <3>2
  <2>2. metadata = [old EXCEPT !.requiresVerify = FALSE]
    OBVIOUS
  <2> QED
    BY <2>1, <2>2 DEF MetadataRecord
<1>3. FromScene(dir)'
  <2> PICK scene \in Scenes : \E copy \in {scene.dir, scene.held} :
          \A path \in Required \cap DOMAIN dir :
            path \in DOMAIN copy /\ dir[path] = copy[path]
    BY DEF DirInv, FromScene
  <2>1. PICK whole \in {scene.dir, scene.held} :
          \A path \in Required \cap DOMAIN dir :
            path \in DOMAIN whole /\ dir[path] = whole[path]
    OBVIOUS
  <2>2. \A path \in Required \cap DOMAIN dir' :
          path \in DOMAIN whole /\ dir'[path] = whole[path]
    BY <1>1, <2>1, StringsDiffer
  <2> QED
    BY <2>2 DEF FromScene
<1>4. Tidy(dir)' <=> Tidy(dir)
  <2>1. Metadata \notin Sensitive \cup ToolState \cup UnsafePath \cup Media \cup {Manifest}
    BY StringsDiffer DEF Others
  <2> QED
    BY <1>1, <2>1 DEF Tidy
<1>5. ASSUME metadata.source = "imported"
      PROVE  /\ Required \subseteq DOMAIN dir' /\ Tidy(dir)'
             /\ ValidateRpaDsl(dir'["flow.dsl.json"]) = {}
  <2>1. /\ Required \subseteq DOMAIN dir /\ Tidy(dir)
        /\ ValidateRpaDsl(dir["flow.dsl.json"]) = {}
    BY <1>2, <1>5 DEF DirInv
  <2>2. dir'["flow.dsl.json"] = dir["flow.dsl.json"]
    BY <1>1, <2>1, StringsDiffer
  <2> QED
    BY <1>1, <1>4, <2>1, <2>2
<1> QED
  BY <1>1, <1>2, <1>3, <1>5 DEF DirInv

(* An execution clears the flow before its end is told, and no other file. *)
LEMMA RunKeeps == ASSUME PageInv, NEW s \in Starts, Run(s) PROVE PageInv'
<1>1. UNCHANGED <<definitions, zip, download, page, user, reload, view, refs, start, sub, reported, budget>>
  BY DEF Run
<1>2. RequestsInv'
  BY <1>1, RequestsStay DEF PageInv, RequestsInv
<1>3. /\ DOMAIN exec = Starts /\ \A t \in Starts : ExecHeld(t)
      /\ DOMAIN exec[s] = {"pc", "params", "outcome", "marked", "events"}
      /\ exec[s].pc \in {"running", "ending"} /\ exec[s].marked \in BOOLEAN
      /\ exec[s].pc = "running" => ~exec[s].marked
      /\ exec[s].events \in Seq({"run.started", "log", "run.completed"})
      /\ \A k \in 1..Len(exec[s].events) : exec[s].events[k] # "run.completed"
  BY DEF PageInv, ExecsInv, ExecHeld, Run
<1>4. /\ DOMAIN exec' = Starts /\ \A t \in Starts : t # s => exec'[t] = exec[t]
      /\ DOMAIN exec'[s] = DOMAIN exec[s] /\ exec'[s].params = exec[s].params
      /\ exec'[s].marked \in BOOLEAN
      /\ \/ /\ exec'[s].pc = "ending"
            /\ exec'[s].events \in {exec[s].events, Append(exec[s].events, "log")}
         \/ /\ exec'[s].pc = "done" /\ exec'[s].events = Append(exec[s].events, "run.completed")
      /\ \/ exec'[s].marked = exec[s].marked /\ dir' = dir
         \/ /\ exec'[s].marked
            /\ dir' = With(dir, Metadata, [ReadMetadata(dir) EXCEPT !.requiresVerify = FALSE])
  <2>1. CASE exec[s].pc = "running"
    <3>1. PICK outcome \in {"succeeded", "failed"} :
            IF outcome = "succeeded" /\ start[s].mode = "verify"
            THEN \E marked \in BOOLEAN :
                   /\ exec' = [exec EXCEPT ![s].pc = "ending", ![s].outcome = outcome,
                                ![s].marked = marked,
                                ![s].events = IF marked THEN @ ELSE Append(@, "log")]
                   /\ dir' = IF ~marked THEN dir
                             ELSE With(dir, Metadata,
                                       [ReadMetadata(dir) EXCEPT !.requiresVerify = FALSE])
            ELSE /\ exec' = [exec EXCEPT ![s].pc = "ending", ![s].outcome = outcome]
                 /\ UNCHANGED dir
      BY <2>1 DEF Run
    <3> PICK cleared : cleared = With(dir, Metadata,
                                      [ReadMetadata(dir) EXCEPT !.requiresVerify = FALSE])
      OBVIOUS
    <3>2. CASE exec' = [exec EXCEPT ![s].pc = "ending", ![s].outcome = outcome] /\ UNCHANGED dir
      BY <1>3, <3>2
    <3>3. CASE /\ exec' = [exec EXCEPT ![s].pc = "ending", ![s].outcome = outcome,
                                       ![s].marked = TRUE]
               /\ dir' = cleared
      BY <1>3, <3>3
    <3>4. CASE /\ exec' = [exec EXCEPT ![s].pc = "ending", ![s].outcome = outcome,
                                       ![s].marked = FALSE,
                                       ![s].events = Append(@, "log")]
               /\ dir' = dir
      BY <1>3, <2>1, <3>4
    <3>5. ASSUME NEW marked \in BOOLEAN,
                 exec' = [exec EXCEPT ![s].pc = "ending", ![s].outcome = outcome,
                            ![s].marked = marked,
                            ![s].events = IF marked THEN @ ELSE Append(@, "log")],
                 dir' = IF ~marked THEN dir ELSE cleared
          PROVE  \/ /\ exec' = [exec EXCEPT ![s].pc = "ending", ![s].outcome = outcome,
                                            ![s].marked = TRUE]
                    /\ dir' = cleared
                 \/ /\ exec' = [exec EXCEPT ![s].pc = "ending", ![s].outcome = outcome,
                                            ![s].marked = FALSE,
                                            ![s].events = Append(@, "log")]
                    /\ dir' = dir
      <4>1. CASE marked = TRUE
        <5>1. exec' = [exec EXCEPT ![s].pc = "ending", ![s].outcome = outcome,
                                   ![s].marked = TRUE]
          BY <1>3, <3>5, <4>1
        <5> QED
          BY <3>5, <4>1, <5>1
      <4>2. CASE marked = FALSE
        <5>1. exec' = [exec EXCEPT ![s].pc = "ending", ![s].outcome = outcome,
                                   ![s].marked = FALSE, ![s].events = Append(@, "log")]
          BY <1>3, <3>5, <4>2
        <5> QED
          BY <3>5, <4>2, <5>1
      <4> QED
        BY <4>1, <4>2
    <3>6. CASE outcome = "succeeded" /\ start[s].mode = "verify"
      BY <3>1, <3>3, <3>4, <3>5, <3>6
    <3>7. CASE ~(outcome = "succeeded" /\ start[s].mode = "verify")
      BY <3>1, <3>2, <3>7
    <3> QED
      BY <3>6, <3>7
  <2>2. CASE exec[s].pc # "running"
    <3>1. /\ exec' = [exec EXCEPT ![s].pc = "done", ![s].events = Append(@, "run.completed")]
          /\ UNCHANGED dir
      BY <2>2 DEF Run
    <3> QED
      BY <1>3, <3>1
  <2> QED
    BY <2>1, <2>2
<1>5. ExecHeld(s)'
  <2>1. PICK told : told = exec[s].events
    OBVIOUS
  <2>2. /\ exec'[s].events \in Seq({"run.started", "log", "run.completed"})
        /\ \A k \in 1..Len(exec'[s].events) :
             exec'[s].events[k] = "run.completed" =>
               exec'[s].pc = "done" /\ k = Len(exec'[s].events)
    <3>1. /\ told \in Seq({"run.started", "log", "run.completed"}) /\ Len(told) \in Nat
          /\ \A k \in 1..Len(told) : told[k] # "run.completed"
      BY <1>3, <2>1
    <3>2. ASSUME NEW event \in {"log", "run.completed"}
          PROVE  /\ Append(told, event) \in Seq({"run.started", "log", "run.completed"})
                 /\ Len(Append(told, event)) = Len(told) + 1
                 /\ \A k \in 1..Len(told) : Append(told, event)[k] = told[k]
                 /\ Append(told, event)[Len(told) + 1] = event
      BY <3>1
    <3>3. CASE exec'[s].events = told
      BY <3>1, <3>3
    <3>4. CASE exec'[s].events = Append(told, "log")
      BY <3>1, <3>2, <3>4
    <3>5. CASE exec'[s].pc = "done" /\ exec'[s].events = Append(told, "run.completed")
      BY <3>1, <3>2, <3>5
    <3> QED
      BY <1>4, <2>1, <3>3, <3>4, <3>5
  <2>3. start[s].pc \in {"answered", "done"} /\ ParamsAreShown(s)
    BY <1>3 DEF ExecHeld
  <2>4. ParamsAreShown(s)'
    BY <1>1, <1>4, <2>3 DEF ParamsAreShown
  <2>5. exec'[s].pc \in {"ending", "done"}
    BY <1>4
  <2> QED
    BY <1>1, <1>3, <1>4, <2>2, <2>3, <2>4, <2>5 DEF ExecHeld
<1>6. ExecsInv'
  <2>1. ASSUME NEW t \in Starts PROVE ExecHeld(t)'
    <3>1. CASE t = s
      BY <1>5, <3>1
    <3>2. CASE t # s
      BY <1>1, <1>3, <1>4, <3>2 DEF ExecHeld, ParamsAreShown
    <3> QED
      BY <3>1, <3>2
  <2> QED
    BY <1>4, <2>1 DEF ExecsInv
<1>7. ReportsInv'
  <2>1. StreamsMove
    BY <1>1 DEF PageInv, StreamsMove, ReportsInv, StreamHeld
  <2>2. ASSUME NEW t \in Starts, Succeeded(t)
        PROVE  Succeeded(t)' /\ exec'[t].events = exec[t].events
    <3>1. t # s
      BY <1>3, <2>2 DEF Succeeded
    <3> QED
      BY <1>1, <1>4, <2>2, <3>1 DEF Succeeded
  <2> QED
    BY <1>1, <2>1, <2>2, ReportsStay DEF PageInv
<1>8. DirInv'
  <2>1. CASE exec'[s].marked = exec[s].marked /\ dir' = dir
    <3>1. SomeMarked' <=> SomeMarked
      BY <1>4, <2>1 DEF SomeMarked
    <3> QED
      BY <1>1, <2>1, <3>1, DirStays DEF PageInv
  <2>2. CASE /\ exec'[s].marked
             /\ dir' = With(dir, Metadata, [ReadMetadata(dir) EXCEPT !.requiresVerify = FALSE])
    <3>1. SomeMarked'
      BY <2>2 DEF SomeMarked
    <3> QED
      BY <1>1, <2>2, <3>1, ClearedKeeps DEF PageInv
  <2> QED
    BY <1>4, <2>1, <2>2
<1>9. ZipInv' /\ ViewInv'
  BY <1>1, ZipStays, ViewCloses DEF PageInv
<1>10. DownloadInv'
  <2>1. \A path \in Required : path \in DOMAIN dir => path \in DOMAIN dir' /\ dir'[path] = dir[path]
    <3>1. CASE dir' = With(dir, Metadata, [ReadMetadata(dir) EXCEPT !.requiresVerify = FALSE])
      BY <3>1, StringsDiffer DEF With
    <3> QED
      BY <1>4, <3>1
  <2>2. budget \in Budget /\ budget.deletes \in 0..1
    BY DEF PageInv, RequestsInv, Budget
  <2> QED
    BY <1>1, <2>1, <2>2, DownloadStays DEF PageInv
<1> QED
  BY <1>2, <1>6, <1>7, <1>8, <1>9, <1>10 DEF PageInv

(* A reconnection moves a stream back, not what it has handed out. *)
LEMMA ReconnectKeeps == ASSUME PageInv, NEW s \in Starts, Reconnect(s) PROVE PageInv'
<1>1. /\ UNCHANGED <<dir, definitions, zip, download, page, user, reload, view, refs, start, exec, reported>>
      /\ sub' = [sub EXCEPT ![s].pos = 0]
      /\ budget.reconnects > 0 /\ budget' = [budget EXCEPT !.reconnects = @ - 1]
  BY DEF Reconnect
<1>2. budget' \in Budget /\ budget'.starts = budget.starts /\ budget'.deletes = budget.deletes
  <2>1. budget \in Budget
    BY DEF PageInv, RequestsInv
  <2>2. budget.reconnects \in Nat /\ budget.reconnects - 1 \in Nat
    BY <1>1, <2>1 DEF Budget
  <2> QED
    BY <1>1, <2>1, <2>2 DEF Budget
<1>3. RequestsInv'
  BY <1>1, <1>2, RequestsStay DEF PageInv
<1>4. ExecsInv'
  BY <1>1, ExecsStay DEF PageInv
<1>5. ReportsInv'
  <2>1. DOMAIN sub = Starts
        /\ \A t \in Starts : DOMAIN sub[t] = {"open", "pos", "high"} /\ sub[t].pos \in Nat
    BY DEF PageInv, ReportsInv, StreamHeld
  <2>2. StreamsMove
    BY <1>1, <2>1 DEF StreamsMove
  <2> QED
    BY <1>1, <2>2, ReportsStay DEF PageInv, Succeeded
<1>6. DirInv' /\ ZipInv' /\ DownloadInv'
  BY <1>1, <1>2, FilesStay DEF PageInv, SomeMarked, RequestsInv
<1>7. ViewInv'
  BY <1>1, ViewCloses DEF PageInv
<1> QED
  BY <1>3, <1>4, <1>5, <1>6, <1>7 DEF PageInv

(* A report is of an end read for the first time: the stream has then read to *)
(* the end of what it will ever carry.                                        *)
LEMMA DeliverKeeps == ASSUME PageInv, NEW s \in Starts, Deliver(s) PROVE PageInv'
<1>1. UNCHANGED <<dir, definitions, zip, download, user, start, exec, budget>>
  BY DEF Deliver
<1>2. RequestsInv'
  BY <1>1, RequestsStay DEF PageInv, RequestsInv
<1>3. ExecsInv'
  BY <1>1, ExecsStay DEF PageInv
<1>4. DirInv' /\ ZipInv' /\ DownloadInv'
  BY <1>1, FilesStay DEF PageInv, SomeMarked, RequestsInv
<1>5. ViewInv'
  <2>1. view' = NoView \/ view' = view
    BY DEF Deliver
  <2> QED
    BY <1>1, <2>1, ViewCloses DEF PageInv
<1>6. ReportsInv'
  <2>1. /\ DOMAIN sub = Starts /\ DOMAIN reported = Starts
        /\ \A t \in Starts : /\ StreamHeld(t) /\ DOMAIN sub[t] = {"open", "pos", "high"}
                             /\ sub[t].pos \in Nat /\ sub[t].high \in Nat
    BY DEF PageInv, ReportsInv, StreamHeld
  <2> PICK seq : seq = sub[s].pos + 1
    OBVIOUS
  <2> PICK event : event = exec[s].events[seq]
    OBVIOUS
  <2>0. PICK read : read = [sub EXCEPT ![s].pos = seq, ![s].high = IF seq > @ THEN seq ELSE @,
                                     ![s].open = event # "run.completed"]
    OBVIOUS
  <2>2. /\ sub[s].pos < Len(exec[s].events)
        /\ \/ /\ seq > sub[s].high /\ event = "run.completed" /\ Reports(s, start[s].instance)
              /\ reported' = [reported EXCEPT ![s] = @ + 1]
              /\ sub' = Unsubscribed(read, view.on)
           \/ reported' = reported /\ sub' = read
    BY <2>0 DEF Deliver
  <2>3. /\ Len(exec[s].events) \in Nat /\ seq \in 1..Len(exec[s].events)
        /\ event = "run.completed" => exec[s].pc = "done" /\ seq = Len(exec[s].events)
    BY <2>1, <2>2 DEF PageInv, ExecsInv, ExecHeld
  <2>4. /\ DOMAIN read = Starts /\ seq \in Nat
        /\ \A t \in Starts :
             /\ DOMAIN read[t] = {"open", "pos", "high"} /\ read[t].pos \in Nat
             /\ read[t].high \in Nat /\ read[t].high >= sub[t].high
        /\ read[s].high >= seq
    <3>1. seq \in Nat
      BY <2>3
    <3> PICK high : high = IF seq > sub[s].high THEN seq ELSE sub[s].high
      OBVIOUS
    <3>2. high \in Nat /\ high >= sub[s].high /\ high >= seq
      BY <2>1, <3>1
    <3>3. /\ DOMAIN read = Starts /\ DOMAIN read[s] = {"open", "pos", "high"}
          /\ read[s].pos = seq /\ read[s].high = high
          /\ \A t \in Starts : t # s => read[t] = sub[t]
      BY <2>0, <2>1
    <3>4. ASSUME NEW t \in Starts
          PROVE  /\ DOMAIN read[t] = {"open", "pos", "high"} /\ read[t].pos \in Nat
                 /\ read[t].high \in Nat /\ read[t].high >= sub[t].high
      <4>1. CASE t = s
        BY <3>1, <3>2, <3>3, <4>1
      <4>2. CASE t # s
        BY <2>1, <3>3, <4>2
      <4> QED
        BY <4>1, <4>2
    <3> QED
      BY <3>1, <3>2, <3>3, <3>4
  <2>5. /\ DOMAIN sub' = Starts
        /\ \A t \in Starts : /\ DOMAIN sub'[t] = {"open", "pos", "high"} /\ sub'[t].pos \in Nat
                             /\ sub'[t].high = read[t].high
    <3>1. CASE sub' = read
      BY <2>4, <3>1
    <3>2. CASE sub' = Unsubscribed(read, view.on)
      BY <2>4, <3>2, Closed
    <3> QED
      BY <2>2, <3>1, <3>2
  <2>6. \A t \in Starts : Succeeded(t)' <=> Succeeded(t)
    BY <1>1 DEF Succeeded
  <2>7. ASSUME NEW t \in Starts
        PROVE  reported'[t] # 0 =>
                 reported'[t] = 1 /\ Succeeded(t) /\ Len(exec[t].events) <= read[t].high
    <3>1. Len(exec[t].events) \in Nat
      BY DEF PageInv, ExecsInv, ExecHeld
    <3>2. CASE reported'[t] = reported[t]
      BY <2>1, <2>4, <3>1, <3>2 DEF StreamHeld
    <3>3. CASE /\ t = s /\ seq > sub[s].high /\ event = "run.completed"
               /\ Reports(s, start[s].instance) /\ reported'[s] = reported[s] + 1
      <4>1. Succeeded(s) /\ seq = Len(exec[s].events)
        BY <2>3, <3>3 DEF Succeeded, Reports
      <4>2. reported[s] = 0
        BY <2>1, <2>3, <3>3, <4>1 DEF StreamHeld
      <4> QED
        BY <2>4, <3>3, <4>1, <4>2
    <3> QED
      BY <2>1, <2>2, <3>2, <3>3
  <2>8. ASSUME NEW t \in Starts PROVE StreamHeld(t)'
    <3>1. sub'[t].high \in Nat
      BY <2>4, <2>5
    <3> QED
      BY <1>1, <2>5, <2>6, <2>7, <3>1 DEF StreamHeld
  <2>9. DOMAIN reported' = Starts
    BY <2>1, <2>2
  <2> QED
    BY <2>5, <2>8, <2>9 DEF ReportsInv
<1> QED
  BY <1>2, <1>3, <1>4, <1>5, <1>6 DEF PageInv

-----------------------------------------------------------------------------

(* Nothing happens. *)
LEMMA StutterKeeps == ASSUME PageInv, UNCHANGED pageVars PROVE PageInv'
<1>1. UNCHANGED <<dir, definitions, zip, download, user, view, start, exec, sub, reported, budget>>
  BY DEF pageVars
<1>2. budget \in Budget
  BY DEF PageInv, RequestsInv
<1>3. RequestsInv' /\ ExecsInv' /\ ReportsInv'
  BY <1>1, <1>2, ReportedStays, StreamsStay DEF PageInv
<1>4. DirInv' /\ ZipInv' /\ DownloadInv' /\ ViewInv'
  BY <1>1, <1>2, FilesStay, ViewCloses DEF PageInv, SomeMarked
<1> QED
  BY <1>3, <1>4 DEF PageInv

(* Every step of the page, of the server and of the user keeps the invariant. *)
LEMMA PageStepKeeps == ASSUME PageInv, [PageNext]_pageVars PROVE PageInv'
<1>1. CASE Client
  BY <1>1, AnswerKeeps, ReloadKeeps, LoadFlowKeeps, StartAnsweredKeeps, DeliverKeeps DEF Client
<1>2. CASE Server
  BY <1>2, ServeKeeps, ReadForExportKeeps, EndExportKeeps, AdmitKeeps, RunKeeps DEF Server
<1>3. CASE User
  BY <1>3, ExportKeeps, EditZipKeeps, PressKeeps, StartFlowKeeps, StartKeeps, UpdateKeeps DEF User
<1>4. CASE \E s \in Starts : Reconnect(s)
  BY <1>4, ReconnectKeeps
<1>5. CASE UNCHANGED pageVars
  BY <1>5, StutterKeeps
<1> QED
  BY <1>1, <1>2, <1>3, <1>4, <1>5 DEF PageNext

(* The invariant of the flow page always holds. *)
LEMMA PageInvariant == PageSpec => []PageInv
<1>1. PageInv /\ [PageNext]_pageVars => PageInv'
  BY PageStepKeeps
<1> QED
  BY PageInvBegins, <1>1, PTL DEF PageSpec

(* PackagesRoundTrip for every set of scenes and every bound: a package that the     *)
(* export route sent and nobody edited is accepted by importRpaPackage, when its flow *)
(* was not deleted meanwhile and it is not too large; and an imported flow is valid,  *)
(* tidy, has every required file of one flow, also out of an export that was torn,    *)
(* and is cleared only by a verification.                                             *)
THEOREM PackagesComeBack == PageSpec => []PackagesRoundTrip
<1>1. ASSUME PageInv PROVE PackagesRoundTrip
  <2>1. zip.there /\ ~zip.edited /\ ~zip.torn /\ ~TooLarge(zip.entries) =>
          FirstError(zip.entries, FALSE) = "none"
    BY <1>1 DEF PageInv, ZipInv
  <2>2. ASSUME ReadMetadata(dir).source = "imported"
        PROVE  /\ Required \subseteq DOMAIN dir /\ Tidy(dir) /\ Listed
               /\ \E scene \in Scenes : \E files \in {scene.dir, scene.held} :
                    /\ Required \subseteq DOMAIN files
                    /\ \A path \in Required : dir[path] = files[path]
               /\ ReadMetadata(dir).requiresVerify \/ \E s \in Starts : exec[s].marked
    <3>1. Metadata \in DOMAIN dir /\ ReadMetadata(dir) = dir[Metadata]
      BY <2>2 DEF ReadMetadata
    <3>2. /\ Required \subseteq DOMAIN dir /\ Tidy(dir)
          /\ ValidateRpaDsl(dir["flow.dsl.json"]) = {}
          /\ ReadMetadata(dir).requiresVerify \/ SomeMarked
      BY <1>1, <2>2, <3>1 DEF PageInv, DirInv
    <3>3. FromScene(dir)
      BY <1>1 DEF PageInv, DirInv
    <3>4. \E scene \in Scenes : \E files \in {scene.dir, scene.held} :
            /\ Required \subseteq DOMAIN files
            /\ \A path \in Required : dir[path] = files[path]
      BY <3>2, <3>3 DEF FromScene
    <3> QED
      BY <3>2, <3>4, StringsDiffer DEF SomeMarked, Listed
  <2> QED
    BY <2>1, <2>2 DEF PackagesRoundTrip
<1> QED
  BY <1>1, PageInvariant, PTL

(* RunsWhatTheFormShows for every parameter, every default and every value: the       *)
(* executor runs with the text that the control showed, or with the default where it   *)
(* showed none, or with false for a box that was unmarked; and it refuses none of it    *)
(* but an emptied field with a bad default.                                             *)
THEOREM FormIsRun == PageSpec => []RunsWhatTheFormShows
<1>1. ASSUME PageInv PROVE RunsWhatTheFormShows
  <2>1. ASSUME NEW s \in Starts PROVE RequestHeld(s) /\ ExecHeld(s)
    BY <1>1 DEF PageInv, RequestsInv, ExecsInv
  <2>2. ASSUME NEW s \in Starts, exec[s].pc # "none", NEW p \in DOMAIN definitions
        PROVE  LET shown == Shows(definitions[p], start[s].values[p])
               IN exec[s].params[p].text =
                    IF shown # "" THEN shown
                    ELSE IF start[s].values[p] = Bool("false") THEN "false"
                    ELSE definitions[p].default.text
    <3>1. exec[s].params[p].text = IF IsUnset(start[s].values[p]) THEN definitions[p].default.text
                                   ELSE start[s].values[p].text
      BY <2>1, <2>2 DEF ExecHeld, ParamsAreShown
    <3>2. start[s].values[p] \in
            {Undefined, definitions[p].default} \cup Control(definitions[p])
      BY <2>1 DEF RequestHeld, FormValues
    <3>3. RunsWith(definitions[p], start[s].values[p])
            = Promised(definitions[p], start[s].values[p],
                       Shows(definitions[p], start[s].values[p]))
      BY <3>2, ShownIsHeld
    <3> QED
      BY <3>1, <3>3 DEF RunsWith, Promised
  <2> QED
    BY <2>1, <2>2 DEF RunsWhatTheFormShows, RequestHeld
<1> QED
  BY <1>1, PageInvariant, PTL

(* ReportsAreEarned for every number of executions and reconnections:      *)
(* handleExecutionEvent reports a verification once, when the executor has *)
(* already cleared the flow.                                               *)
THEOREM ReportsEarned == PageSpec => []ReportsAreEarned
<1>1. ASSUME PageInv PROVE ReportsAreEarned
  <2>1. ASSUME NEW s \in Starts, reported[s] # 0 PROVE reported[s] = 1 /\ Succeeded(s)
    BY <1>1, <2>1 DEF PageInv, ReportsInv, StreamHeld
  <2>2. ASSUME NEW s \in Starts, exec[s].marked, budget.deletes > 0
        PROVE  ~ReadMetadata(dir).requiresVerify
    BY <1>1, <2>2 DEF PageInv, DirInv, SomeMarked, ReadMetadata
  <2> QED
    BY <2>1, <2>2 DEF ReportsAreEarned
<1> QED
  BY <1>1, PageInvariant, PTL
=============================================================================
