------------------------- MODULE MessageAccumulator -------------------------
(***************************************************************************)
(* The accumulator of one run's assistant messages: what it keeps in       *)
(* memory, the throttled flush, the queue of its writes, and the rows of   *)
(* run_messages.  The write of the start and those of the end are not in   *)
(* the queue.  An update of a row reads it and then writes all of it back, *)
(* as two statements without a transaction.                                *)
(*                                                                         *)
(* The content of a message is the sequence of blocks it was given;        *)
(* lastRunEventId, which is written with it, is left out.                  *)
(***************************************************************************)
EXTENDS Integers, Sequences, SequencesExt, FiniteSets

CONSTANT Messages   \* assistant messages of the run: 1..n

VARIABLES
  acc,       \* memory and write queue of the accumulator
  rows,      \* run_messages
  reading,   \* the row the head of the queue has read
  start,     \* startRun's own write: waiting, or the row it has read, or done
  finish,    \* where finishRun is, with what its last write has read
  waitFor    \* writes of the queue finishRun still waits for

accVars == <<acc, rows, reading, start, finish, waitFor>>

NoRow == [status |-> "absent", content |-> <<>>]
Fresh == [status |-> "queued", content |-> <<>>]

AccInit ==
  /\ acc = [messageId |-> 1, sawStart |-> FALSE, content |-> [m \in Messages |-> <<>>],
            dirty |-> FALSE, timer |-> FALSE, queue |-> <<>>]
  /\ rows = [m \in Messages |-> IF m = 1 THEN Fresh ELSE NoRow]
  /\ reading = NoRow
  /\ start = [pc |-> "waiting", row |-> NoRow]
  /\ finish = [pc |-> "no", message |-> 1, row |-> NoRow]
  /\ waitFor = 0

-----------------------------------------------------------------------------
(* In memory *)

\* The message and its content are taken now, and written when it is their turn.
FlushPending(a) ==
  IF ~a.dirty THEN a
  ELSE [a EXCEPT !.dirty = FALSE,
                 !.queue = Append(@, [op |-> "update", message |-> a.messageId,
                                      content |-> a.content[a.messageId]])]

ForceFlush(a) == FlushPending([a EXCEPT !.timer = FALSE])

\* Mutant: what is pending goes with the next flush.
StartSegmentUnflushed(a) ==
  IF ~a.sawStart THEN [a EXCEPT !.sawStart = TRUE]
  ELSE [a EXCEPT !.messageId = @ + 1,
                 !.queue = Append(@, [op |-> "insert", message |-> a.messageId + 1,
                                      content |-> <<>>])]

\* The first start is that of the message the run was created with.
StartAssistantMessageSegment(a) ==
  IF ~a.sawStart THEN [a EXCEPT !.sawStart = TRUE]
  ELSE LET f == ForceFlush(a)
       IN [f EXCEPT !.messageId = @ + 1,
                    !.queue = Append(@, [op |-> "insert", message |-> f.messageId + 1,
                                         content |-> <<>>])]

\* Content is appended, and the throttle timer set unless it is.
ConsumeEvent(a, event) ==
  IF event.type = "assistant_message_start" THEN StartAssistantMessageSegment(a)
  ELSE [a EXCEPT !.content[a.messageId] = Append(@, event), !.dirty = TRUE, !.timer = TRUE]

\* A line makes two events at most.
Consume(a, events) ==
  CASE events = <<>>    -> a
    [] Len(events) = 1  -> ConsumeEvent(a, events[1])
    [] Len(events) = 2  -> ConsumeEvent(ConsumeEvent(a, events[1]), events[2])

-----------------------------------------------------------------------------
(* The rows *)

\* The timer forgets itself before it flushes.
ThrottledFlush ==
  /\ acc.timer
  /\ acc' = FlushPending([acc EXCEPT !.timer = FALSE])
  /\ UNCHANGED <<rows, reading, start, finish, waitFor>>

Dequeue ==
  /\ acc' = [acc EXCEPT !.queue = Tail(@)]
  /\ waitFor' = IF waitFor > 0 THEN waitFor - 1 ELSE 0

\* The row of a further message, in one statement.
InsertAssistantRunMessage(m) ==
  rows' = [rows EXCEPT ![m] = [status |-> "running", content |-> <<>>]]

\* Mutant: the message is looked up when the write has its turn.
QueuedWriteLookingUp ==
  /\ acc.queue # <<>>
  /\ LET write == Head(acc.queue)
         m == acc.messageId
     IN \/ /\ write.op = "update" /\ reading = NoRow
           /\ reading' = rows[m]
           /\ UNCHANGED <<acc, rows, waitFor>>
        \/ /\ write.op = "update" /\ reading # NoRow
           /\ rows' = [rows EXCEPT ![m] = [reading EXCEPT !.content = write.content]]
           /\ reading' = NoRow
           /\ Dequeue
        \/ /\ write.op = "insert"
           /\ InsertAssistantRunMessage(m)
           /\ Dequeue /\ UNCHANGED reading
  /\ UNCHANGED <<start, finish>>

\* One write of the queue after the other: updateRunMessage in two statements,
\* insertAssistantRunMessage in one.
QueuedWrite ==
  /\ acc.queue # <<>>
  /\ LET write == Head(acc.queue)
         m == write.message
     IN \/ /\ write.op = "update" /\ reading = NoRow
           /\ reading' = rows[m]
           /\ UNCHANGED <<acc, rows, waitFor>>
        \/ /\ write.op = "update" /\ reading # NoRow
           /\ rows' = [rows EXCEPT ![m] = [reading EXCEPT !.content = write.content]]
           /\ reading' = NoRow
           /\ Dequeue
        \/ /\ write.op = "insert"
           /\ InsertAssistantRunMessage(m)
           /\ Dequeue /\ UNCHANGED reading
  /\ UNCHANGED <<start, finish>>

\* updateAssistantMessageStarted.
StartWrite ==
  /\ \/ /\ start.pc = "waiting"
        /\ start' = [pc |-> "read", row |-> rows[1]]
        /\ UNCHANGED rows
     \/ /\ start.pc = "read"
        /\ rows' = [rows EXCEPT ![1] = [start.row EXCEPT !.status = "running"]]
        /\ start' = [pc |-> "done", row |-> NoRow]
  /\ UNCHANGED <<acc, reading, finish, waitFor>>

-----------------------------------------------------------------------------
(* finishRun with flushTerminal *)

EndEvent == [type |-> "end"]

\* Mutant: the terminal writes go out at once.
FlushTerminalUnforced ==
  /\ finish.pc = "no"
  /\ acc' = Consume(acc, <<EndEvent>>)
  /\ waitFor' = 0
  /\ finish' = [finish EXCEPT !.pc = "drain"]
  /\ UNCHANGED <<rows, reading, start>>

\* The end event is consumed and flushed; its write is the last one queued.
FlushTerminal ==
  /\ finish.pc = "no"
  /\ LET forced == ForceFlush(Consume(acc, <<EndEvent>>))
     IN acc' = forced /\ waitFor' = Len(forced.queue)
  /\ finish' = [finish EXCEPT !.pc = "flush"]
  /\ UNCHANGED <<rows, reading, start>>

\* That write is done: what else has been queued meanwhile is waited for.
AwaitQueue ==
  /\ finish.pc = "flush" /\ waitFor = 0
  /\ waitFor' = Len(acc.queue)
  /\ finish' = [finish EXCEPT !.pc = "drain"]
  /\ UNCHANGED <<acc, rows, reading, start>>

\* updateAssistantMessagesTerminalForRun: one statement for all rows of the run.
EndMessages ==
  /\ finish.pc = "drain" /\ waitFor = 0
  /\ rows' = [m \in Messages |->
                IF rows[m] = NoRow THEN NoRow ELSE [rows[m] EXCEPT !.status = "ended"]]
  /\ finish' = [finish EXCEPT !.pc = "ended", !.message = acc.messageId]
  /\ UNCHANGED <<acc, reading, start, waitFor>>

\* updateAssistantMessageTerminal reads the row of the message that was the
\* current one when the answer came; a row not yet inserted fails finishRun.
ReadLast ==
  /\ finish.pc = "ended"
  /\ \E m \in finish.message..acc.messageId :
       finish' = [pc |-> IF rows[m] = NoRow THEN "failed" ELSE "read",
                  message |-> m, row |-> rows[m]]
  /\ UNCHANGED <<acc, rows, reading, start, waitFor>>

WriteLast ==
  /\ finish.pc = "read"
  /\ rows' = [rows EXCEPT ![finish.message] = [finish.row EXCEPT !.status = "ended"]]
  /\ finish' = [finish EXCEPT !.pc = "written"]
  /\ UNCHANGED <<acc, reading, start, waitFor>>

\* The run is committed as terminal: from here on events are not emitted.
CommitRun ==
  /\ finish.pc = "written"
  /\ finish' = [finish EXCEPT !.pc = "terminal"]
  /\ UNCHANGED <<acc, rows, reading, start, waitFor>>

\* The buffer of the run is dropped, and the timer with it.
Dispose ==
  /\ finish.pc = "terminal" /\ acc.timer
  /\ acc' = [acc EXCEPT !.timer = FALSE]
  /\ UNCHANGED <<rows, reading, start, finish, waitFor>>

FinishStep == AwaitQueue \/ EndMessages \/ ReadLast \/ WriteLast \/ CommitRun
=============================================================================
