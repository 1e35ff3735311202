-------------------------- MODULE RunMessagesProofs --------------------------
(***************************************************************************)
(* Proofs about RunMessages, for any number of messages and blocks: that   *)
(* what Claude tells is in its messages once, that a row holds what its    *)
(* own message had, and that ended messages are whole.                     *)
(***************************************************************************)
EXTENDS RunMessages, TLAPS

-----------------------------------------------------------------------------
(* The invariant: what the values of the variables have in common. *)

Told == {BlockEvent(block) : block \in Block} \cup {EndEvent}
Write == [op : {"update", "insert"}, message : Messages, content : Seq(Told)]
Statuses == {"absent", "queued", "running", "ended"}
TheRow == [status : Statuses, content : Seq(Told)]
Memory == [messageId : Messages, sawStart : BOOLEAN, content : [Messages -> Seq(Told)],
           dirty : BOOLEAN, timer : BOOLEAN, queue : Seq(Write)]
Process == [pc : {"none", "between", "message", "block", "closed"}, message : 0..MaxMessages,
            place : Nat, tool : BOOLEAN, told : SUBSET Told]
Parser == [current : Nat, started : SUBSET Nat, textStreamed : SUBSET Nat, tools : SUBSET Block]
Ending == [pc : {"no", "flush", "drain", "ended", "read", "written", "terminal", "failed"},
           message : Messages, row : TheRow]
Starting == [pc : {"waiting", "read", "done"}, row : TheRow]

(* s is how t begins. *)
Begins(s, t) == Len(s) <= Len(t) /\ \A i \in 1..Len(s) : s[i] = t[i]
Present(row) == row.status # "absent"
(* A row that is not there has no content. *)
RowTyped(row) == row \in TheRow /\ (~Present(row) => row = NoRow)

Typed ==
  /\ partial \in BOOLEAN /\ early \in BOOLEAN /\ late \in BOOLEAN
  /\ claude \in Process /\ parser \in Parser
  /\ acc \in Memory
  /\ rows \in [Messages -> TheRow] /\ \A m \in Messages : RowTyped(rows[m])
  /\ RowTyped(reading)
  /\ start \in Starting /\ RowTyped(start.row)
  /\ finish \in Ending /\ RowTyped(finish.row)
  /\ waitFor \in 0..Len(acc.queue)

(* What is pending has its timer, until the run is terminal. *)
Timed == acc.dirty /\ finish.pc # "terminal" => acc.timer

IsUpdate(w, m) == w.op = "update" /\ w.message = m
IsInsert(w, m) == w.op = "insert" /\ w.message = m

(* Messages that have not begun are nowhere. *)
Begun(a, r) ==
  /\ \A m \in Messages : m > a.messageId => a.content[m] = <<>> /\ r[m] = NoRow
  /\ \A i \in DOMAIN a.queue : a.queue[i].message <= a.messageId

(* A row is inserted once, before it is updated. *)
Inserts(a, r) ==
  \A i \in DOMAIN a.queue : a.queue[i].op = "insert" =>
    /\ a.queue[i].message > 1 /\ r[a.queue[i].message] = NoRow
    /\ \A j \in DOMAIN a.queue : j # i /\ a.queue[j].message = a.queue[i].message =>
         j > i /\ a.queue[j].op = "update"

(* The row of a message that has begun is there, or will be. *)
Rows(a, r) ==
  /\ Present(r[1])
  /\ \A m \in Messages : m <= a.messageId =>
       Present(r[m]) \/ \E i \in DOMAIN a.queue : IsInsert(a.queue[i], m)

(* A row has the beginning of its message, no more than the updates that are *)
(* queued for it, each of which has no less than those before.               *)
Lags(a, m, row) ==
  /\ Begins(row.content, a.content[m])
  /\ \A i \in DOMAIN a.queue :
       IsUpdate(a.queue[i], m) => Len(row.content) <= Len(a.queue[i].content)
Growing(a, r) ==
  /\ \A m \in Messages : Lags(a, m, r[m])
  /\ \A i \in DOMAIN a.queue : a.queue[i].op = "update" =>
       /\ Begins(a.queue[i].content, a.content[a.queue[i].message])
       /\ \A j \in DOMAIN a.queue :
            i < j /\ IsUpdate(a.queue[j], a.queue[i].message) =>
              Len(a.queue[i].content) <= Len(a.queue[j].content)

Queued(a, r) == Begun(a, r) /\ Inserts(a, r) /\ Rows(a, r) /\ Growing(a, r)

(* What is in memory is pending, or in a row, or queued for it. *)
Covered(a, r) ==
  \A m \in Messages :
    \/ m = a.messageId /\ a.dirty
    \/ r[m].content = a.content[m]
    \/ \E i \in DOMAIN a.queue :
         IsUpdate(a.queue[i], m) /\ a.queue[i].content = a.content[m]

(* The end event is in a row, or in the write finishRun waits for. *)
EndStored(a, r, f, w) ==
  \A m \in Messages : \A i \in DOMAIN a.content[m] : a.content[m][i] = EndEvent =>
    \/ i <= Len(r[m].content)
    \/ f.pc = "flush" /\ w > 0 /\ IsUpdate(a.queue[w], m) /\ i <= Len(a.queue[w].content)

(* What startRun and finishRun have read begins the message it is written to. *)
ReadBack(a, r, s, f) ==
  /\ s.pc = "read" => Present(s.row) /\ Lags(a, 1, s.row)
  /\ f.pc = "read" => /\ Present(f.row) /\ Present(r[f.message])
                      /\ Lags(a, f.message, f.row)

(* The last write of finishRun does not undo the end event. *)
EndKept(a, f) ==
  f.pc = "read" => \A i \in DOMAIN a.content[f.message] :
    a.content[f.message][i] = EndEvent => i <= Len(f.row.content)

(* Until startRun has written there is nothing to store but an early end. *)
Nothing(a) == a.queue = <<>> /\ ~a.dirty /\ \A m \in Messages : a.content[m] = <<>>
StartsFirst ==
  start.pc # "done" /\ finish.pc = "no" =>
    Nothing(acc) /\ claude.pc = "none"

(* After finishRun's flush nothing is pending, unless lines still came. *)
Drained ==
  ~late /\ finish.pc # "no" =>
    /\ ~acc.dirty /\ ~acc.timer
    /\ waitFor = Len(acc.queue)
    /\ finish.pc \notin {"flush", "drain"} => acc.queue = <<>>

(* And all messages are ended. *)
Ended ==
  ~late =>
    /\ finish.pc \in {"ended", "read"} => finish.message = acc.messageId
    /\ finish.pc # "failed"
    /\ ~early /\ finish.pc = "read" => finish.row = rows[finish.message]
    /\ ~early /\ finish.pc \in {"ended", "read", "written", "terminal"} =>
         \A m \in Messages : m <= acc.messageId => rows[m].status = "ended"

(* The end event comes when finishRun does. *)
Ends ==
  /\ (\E m \in Messages : \E i \in DOMAIN acc.content[m] : acc.content[m][i] = EndEvent)
       <=> finish.pc # "no"
  /\ finish.pc # "no" /\ ~early => start.pc = "done"
  /\ finish.pc = "no" => ~late /\ ~early
  /\ early => finish.pc # "no"

StoreInv ==
  /\ Queued(acc, rows)
  /\ ~early /\ ~late => Covered(acc, rows)
  /\ ~early => EndStored(acc, rows, finish, waitFor)
  /\ ReadBack(acc, rows, start, finish)
  /\ ~early => EndKept(acc, finish)
  /\ StartsFirst /\ Drained /\ Ended /\ Ends

(* Where Claude, the parser and the accumulator are: each message is started *)
(* once, and before its first block.                                         *)
Reached == IF claude.message \in parser.started THEN claude.message ELSE claude.message - 1
InStep ==
  /\ parser.started = 1..Reached
  /\ claude.pc = "none" => claude.message = 0
  /\ claude.pc \in {"message", "block"} => claude.message > 0
  /\ (\/ claude.pc \in {"none", "between"} \/ partial
      \/ claude.pc = "message" /\ claude.place > 0) /\ claude.message > 0
       => claude.message \in parser.started
  /\ finish.pc # "terminal" =>
       /\ acc.sawStart <=> Reached > 0
       /\ acc.messageId = IF Reached > 0 THEN Reached ELSE 1

(* What is told so far: a block is in the message it is of, no further than  *)
(* Claude is, and the parser knows of it.                                    *)
InMessage(a, m, e) == \E i \in DOMAIN a.content[m] : a.content[m][i] = e
Placed(a, c) ==
  \A m \in Messages : \A i \in DOMAIN a.content[m] : a.content[m][i] # EndEvent =>
    /\ a.content[m][i].block.message = m
    /\ m <= c.message
    /\ m = c.message => a.content[m][i].block.place <= c.place
Once(a) ==
  \A m \in Messages : \A i, j \in DOMAIN a.content[m] :
    a.content[m][i] = a.content[m][j] => i = j
ToolsKnown ==
  \A block \in Block : block.tool =>
    /\ \A m \in Messages : InMessage(acc, m, BlockEvent(block)) => block \in parser.tools
    /\ ~late /\ block \in parser.tools =>
         \E m \in Messages : InMessage(acc, m, BlockEvent(block))
TextKnown ==
  /\ ~partial => parser.textStreamed = {}
  /\ partial /\ claude.pc \in {"message", "block"} => parser.current = claude.message
  /\ partial /\ claude.pc = "block" /\ ~claude.tool =>
       /\ claude.message \in parser.textStreamed
       /\ ~late => \E m \in Messages : InMessage(acc, m, BlockEvent(CurrentBlock))
  /\ ~partial /\ claude.pc = "block" =>
       \A m \in Messages : \A i \in DOMAIN acc.content[m] :
         acc.content[m][i] # EndEvent /\ m = claude.message =>
           acc.content[m][i].block.place < claude.place
AllTold ==
  ~late => \A e \in claude.told : \E m \in Messages : InMessage(acc, m, e)
EndOnce ==
  \A m, n \in Messages : InMessage(acc, m, EndEvent) /\ InMessage(acc, n, EndEvent) => m = n

ToldInv == Placed(acc, claude) /\ Once(acc) /\ EndOnce /\ ToolsKnown /\ TextKnown /\ AllTold

IInv == Typed /\ Timed /\ InStep /\ StoreInv /\ ToldInv

-----------------------------------------------------------------------------
(* Events and sequences. *)

LEMMA Events ==
  ASSUME NEW b \in Block, NEW c \in Block
  PROVE  /\ BlockEvent(b) \in Told /\ BlockEvent(b) # EndEvent /\ BlockEvent(b).block = b
         /\ BlockEvent(b).type # "assistant_message_start"
         /\ BlockEvent(b) = BlockEvent(c) => b = c
<1>1. BlockEvent(b).block = b /\ BlockEvent(c).block = c
  BY DEF BlockEvent
<1>2. BlockEvent(b).type \in {"tool_use", "text_delta"} /\ EndEvent.type = "end"
  BY DEF BlockEvent, EndEvent
<1> QED
  BY <1>1, <1>2 DEF Told

LEMMA EndIsTold == EndEvent \in Told /\ EndEvent.type # "assistant_message_start"
BY DEF EndEvent, Told

LEMMA ToldIs ==
  ASSUME NEW e \in Told, e # EndEvent
  PROVE  e.block \in Block /\ e = BlockEvent(e.block)
BY Events DEF Told

LEMMA ToldTypes == ASSUME NEW e \in Told PROVE e.type # "assistant_message_start"
BY Events, EndIsTold DEF Told

LEMMA BeginsIsPrefix ==
  ASSUME NEW S, NEW s \in Seq(S), NEW t \in Seq(S), Begins(s, t)
  PROVE  IsPrefix(s, t)
<1>1. Len(s) \in Nat /\ Len(t) \in Nat /\ Len(s) <= Len(t)
  BY DEF Begins
<1>2. SubSeq(s, 1, Len(s)) = SubSeq(t, 1, Len(s))
  BY <1>1 DEF Begins
<1> QED
  BY <1>1, <1>2 DEF IsPrefix

LEMMA AppendFacts ==
  ASSUME NEW S, NEW q \in Seq(S), NEW w \in S
  PROVE  /\ Append(q, w) \in Seq(S)
         /\ Len(q) \in Nat /\ Len(Append(q, w)) = Len(q) + 1
         /\ DOMAIN q = 1..Len(q) /\ DOMAIN Append(q, w) = 1..(Len(q) + 1)
         /\ \A i \in 1..Len(q) : Append(q, w)[i] = q[i]
         /\ Append(q, w)[Len(q) + 1] = w
OBVIOUS

LEMMA TailFacts ==
  ASSUME NEW S, NEW q \in Seq(S), q # <<>>
  PROVE  /\ Tail(q) \in Seq(S) /\ Head(q) = q[1] /\ q[1] \in S
         /\ Len(q) \in Nat \ {0} /\ Len(Tail(q)) = Len(q) - 1
         /\ DOMAIN q = 1..Len(q) /\ DOMAIN Tail(q) = 1..(Len(q) - 1)
         /\ \A i \in 1..(Len(q) - 1) : Tail(q)[i] = q[i + 1]
OBVIOUS

LEMMA SameLength ==
  ASSUME NEW S, NEW s \in Seq(S), NEW t \in Seq(S), Begins(s, t), Len(t) <= Len(s)
  PROVE  s = t
<1>1. Len(s) = Len(t) /\ \A i \in 1..Len(s) : s[i] = t[i]
  BY DEF Begins
<1> QED
  BY <1>1

LEMMA BeginsLonger ==
  ASSUME NEW S, NEW s \in Seq(S), NEW t \in Seq(S), Begins(s, t), NEW e \in S
  PROVE  Begins(s, Append(t, e))
BY DEF Begins

LEMMA BeginsItself == ASSUME NEW S, NEW s \in Seq(S) PROVE Begins(s, s)
BY DEF Begins

LEMMA OneIsMessage ==
  1 \in Messages /\ (\A m \in Messages : m \in Nat /\ m >= 1) /\ MaxMessages \in Nat
BY RunMessagesAssumption

-----------------------------------------------------------------------------
(* What the accumulator does to its memory: it appends to the message it is *)
(* at, queues what is pending, and begins the next message.                 *)

SameTimer(a, b) == b.timer = a.timer /\ b.sawStart = a.sawStart
Appended(a, b, e) ==
  /\ b.content = [a.content EXCEPT ![a.messageId] = Append(a.content[a.messageId], e)]
  /\ b.messageId = a.messageId /\ b.queue = a.queue /\ b.dirty
Flushed(a, b) ==
  /\ b.content = a.content /\ b.messageId = a.messageId /\ ~b.dirty
  /\ ~a.dirty => b.queue = a.queue
  /\ a.dirty => b.queue = Append(a.queue, [op |-> "update", message |-> a.messageId,
                                           content |-> a.content[a.messageId]])
NextBegun(a, b) ==
  /\ b.content = a.content /\ b.messageId = a.messageId + 1 /\ ~a.dirty /\ ~b.dirty
  /\ b.queue = Append(a.queue, [op |-> "insert", message |-> a.messageId + 1,
                                content |-> <<>>])

LEMMA QueueFields ==
  ASSUME NEW a \in Memory, NEW i \in DOMAIN a.queue
  PROVE  /\ i \in 1..Len(a.queue) /\ Len(a.queue) \in Nat
         /\ a.queue[i] \in Write /\ a.queue[i].message \in Messages
         /\ a.queue[i].content \in Seq(Told) /\ a.queue[i].op \in {"update", "insert"}
         /\ a.content[a.queue[i].message] \in Seq(Told)
<1>1. a.queue \in Seq(Write) /\ a.content \in [Messages -> Seq(Told)]
  BY DEF Memory
<1>2. a.queue[i] \in Write /\ i \in 1..Len(a.queue) /\ Len(a.queue) \in Nat
  BY <1>1
<1>3. /\ a.queue[i].message \in Messages /\ a.queue[i].content \in Seq(Told)
      /\ a.queue[i].op \in {"update", "insert"}
  BY <1>2 DEF Write
<1> QED
  BY <1>1, <1>2, <1>3

LEMMA UpdateIsWrite ==
  ASSUME NEW a \in Memory
  PROVE  [op |-> "update", message |-> a.messageId, content |-> a.content[a.messageId]] \in Write
BY DEF Memory, Write

LEMMA Appends ==
  ASSUME NEW a \in Memory, NEW e \in Told
  PROVE  /\ ConsumeEvent(a, e) \in Memory
         /\ Appended(a, ConsumeEvent(a, e), e)
         /\ ConsumeEvent(a, e).timer /\ ConsumeEvent(a, e).sawStart = a.sawStart
<1> DEFINE b == [a EXCEPT !.content[a.messageId] = Append(@, e), !.dirty = TRUE, !.timer = TRUE]
<1>1. ConsumeEvent(a, e) = b
  BY ToldTypes DEF ConsumeEvent
<1>2. /\ a.messageId \in Messages /\ a.content \in [Messages -> Seq(Told)]
      /\ Append(a.content[a.messageId], e) \in Seq(Told)
  BY DEF Memory
<1>3. /\ b.content = [a.content EXCEPT ![a.messageId] = Append(a.content[a.messageId], e)]
      /\ b.messageId = a.messageId /\ b.queue = a.queue /\ b.dirty = TRUE /\ b.timer = TRUE
      /\ b.sawStart = a.sawStart
  BY DEF Memory
<1>4. b \in Memory
  BY <1>2 DEF Memory
<1> HIDE DEF b
<1> QED
  BY <1>1, <1>3, <1>4 DEF Appended

LEMMA Flushes ==
  ASSUME NEW a \in Memory
  PROVE  /\ FlushPending(a) \in Memory /\ Flushed(a, FlushPending(a))
         /\ SameTimer(a, FlushPending(a))
<1>1. CASE ~a.dirty
  BY <1>1 DEF FlushPending, Flushed, SameTimer
<1>2. CASE a.dirty
  <2> DEFINE w == [op |-> "update", message |-> a.messageId, content |-> a.content[a.messageId]]
             b == [a EXCEPT !.dirty = FALSE, !.queue = Append(@, w)]
  <2>1. FlushPending(a) = b
    BY <1>2 DEF FlushPending
  <2>2. w \in Write
    BY UpdateIsWrite
  <2> HIDE DEF w
  <2>3. a.queue \in Seq(Write) /\ Append(a.queue, w) \in Seq(Write)
    BY <2>2 DEF Memory
  <2>4. /\ b.content = a.content /\ b.messageId = a.messageId /\ b.dirty = FALSE
        /\ b.queue = Append(a.queue, w) /\ b.timer = a.timer /\ b.sawStart = a.sawStart
    BY DEF Memory
  <2>5. b \in Memory
    BY <2>3 DEF Memory
  <2> HIDE DEF b
  <2> QED
    BY <1>2, <2>1, <2>4, <2>5 DEF Flushed, SameTimer, w
<1> QED
  BY <1>1, <1>2

(* A memory whose timer has fired or been cleared. *)
LEMMA TimerCleared ==
  ASSUME NEW a \in Memory
  PROVE  /\ [a EXCEPT !.timer = FALSE] \in Memory
         /\ [a EXCEPT !.timer = FALSE].timer = FALSE
         /\ [a EXCEPT !.timer = FALSE].content = a.content
         /\ [a EXCEPT !.timer = FALSE].messageId = a.messageId
         /\ [a EXCEPT !.timer = FALSE].queue = a.queue
         /\ [a EXCEPT !.timer = FALSE].dirty = a.dirty
         /\ [a EXCEPT !.timer = FALSE].sawStart = a.sawStart
BY DEF Memory

LEMMA ForceFlushes ==
  ASSUME NEW a \in Memory
  PROVE  /\ ForceFlush(a) \in Memory /\ Flushed(a, ForceFlush(a))
         /\ ~ForceFlush(a).timer /\ ForceFlush(a).sawStart = a.sawStart
<1> DEFINE b == [a EXCEPT !.timer = FALSE]
<1>1. /\ b \in Memory /\ b.timer = FALSE /\ b.content = a.content /\ b.messageId = a.messageId
      /\ b.queue = a.queue /\ b.dirty = a.dirty /\ b.sawStart = a.sawStart
  BY TimerCleared
<1>2. ForceFlush(a) = FlushPending(b)
  BY DEF ForceFlush
<1> HIDE DEF b
<1>3. /\ FlushPending(b) \in Memory /\ Flushed(b, FlushPending(b)) /\ SameTimer(b, FlushPending(b))
  BY <1>1, Flushes
<1> QED
  BY <1>1, <1>2, <1>3 DEF Flushed, SameTimer

(* The start of a message: of the first one only its start is noted. *)
LEMMA StartsMessage ==
  ASSUME NEW a \in Memory, a.sawStart => a.messageId + 1 \in Messages
  PROVE  /\ StartAssistantMessageSegment(a) \in Memory
         /\ StartAssistantMessageSegment(a).sawStart
         /\ ~a.sawStart =>
              /\ StartAssistantMessageSegment(a).content = a.content
              /\ StartAssistantMessageSegment(a).messageId = a.messageId
              /\ StartAssistantMessageSegment(a).queue = a.queue
              /\ StartAssistantMessageSegment(a).dirty = a.dirty
              /\ StartAssistantMessageSegment(a).timer = a.timer
         /\ a.sawStart =>
              /\ ~StartAssistantMessageSegment(a).dirty
              /\ NextBegun(ForceFlush(a), StartAssistantMessageSegment(a))
<1>1. CASE ~a.sawStart
  BY <1>1 DEF StartAssistantMessageSegment, Memory
<1>2. CASE a.sawStart
  <2> DEFINE f == ForceFlush(a)
             w == [op |-> "insert", message |-> f.messageId + 1, content |-> <<>>]
             b == [f EXCEPT !.messageId = @ + 1, !.queue = Append(@, w)]
  <2>1. /\ StartAssistantMessageSegment(a) = b
    BY <1>2 DEF StartAssistantMessageSegment
  <2>2. f \in Memory /\ Flushed(a, f) /\ f.sawStart = a.sawStart
    BY ForceFlushes
  <2>3. f.messageId + 1 \in Messages /\ ~f.dirty /\ f.messageId \in Nat
    BY <1>2, <2>2, OneIsMessage DEF Flushed, Memory
  <2>4. w \in Write
    BY <2>3 DEF Write
  <2> HIDE DEF f, w
  <2>5. f.queue \in Seq(Write) /\ Append(f.queue, w) \in Seq(Write)
    BY <2>2, <2>4 DEF Memory
  <2>6. /\ b.content = f.content /\ b.messageId = f.messageId + 1 /\ b.dirty = f.dirty
        /\ b.queue = Append(f.queue, w) /\ b.sawStart = f.sawStart
    BY <2>2 DEF Memory
  <2>7. b \in Memory
    BY <2>2, <2>3, <2>5 DEF Memory
  <2> HIDE DEF b
  <2> QED
    BY <1>2, <2>1, <2>2, <2>3, <2>6, <2>7 DEF NextBegun, w, f
<1> QED
  BY <1>1, <1>2

-----------------------------------------------------------------------------
(* What those three leave of the rows and the queue. *)

RowsOf == [Messages -> TheRow]

LEMMA LagsAppended ==
  ASSUME NEW a \in Memory, NEW b \in Memory, NEW e \in Told, Appended(a, b, e),
         NEW m \in Messages, NEW row \in TheRow, Lags(a, m, row)
  PROVE  Lags(b, m, row)
<1>1. /\ b.queue = a.queue /\ a.content \in [Messages -> Seq(Told)] /\ a.messageId \in Messages
      /\ b.content = [a.content EXCEPT ![a.messageId] = Append(a.content[a.messageId], e)]
  BY DEF Appended, Memory
<1>2. row.content \in Seq(Told) /\ a.content[m] \in Seq(Told)
  BY <1>1 DEF TheRow
<1>3. b.content[m] = a.content[m] \/ b.content[m] = Append(a.content[m], e)
  BY <1>1
<1>4. Begins(row.content, b.content[m])
  BY <1>2, <1>3, BeginsLonger DEF Lags
<1> QED
  BY <1>1, <1>4 DEF Lags

LEMMA LagsFlushed ==
  ASSUME NEW a \in Memory, NEW b \in Memory, Flushed(a, b),
         NEW m \in Messages, NEW row \in TheRow, Lags(a, m, row)
  PROVE  Lags(b, m, row)
<1>1. b.content = a.content /\ Begins(row.content, b.content[m])
  BY DEF Lags, Flushed
<1>2. CASE b.queue = a.queue
  BY <1>1, <1>2 DEF Lags
<1>3. CASE a.dirty
  <2> DEFINE w == [op |-> "update", message |-> a.messageId, content |-> a.content[a.messageId]]
  <2>1. b.queue = Append(a.queue, w) /\ a.queue \in Seq(Write) /\ w \in Write
    BY <1>3, UpdateIsWrite DEF Flushed, Memory
  <2>2. IsUpdate(w, m) => Len(row.content) <= Len(w.content)
    BY <1>1 DEF IsUpdate, Begins
  <2> HIDE DEF w
  <2>3. \A i \in DOMAIN b.queue :
          IsUpdate(b.queue[i], m) => Len(row.content) <= Len(b.queue[i].content)
    <3> SUFFICES ASSUME NEW i \in DOMAIN b.queue, IsUpdate(b.queue[i], m)
                 PROVE  Len(row.content) <= Len(b.queue[i].content)
      OBVIOUS
    <3>1. (i \in DOMAIN a.queue /\ b.queue[i] = a.queue[i]) \/ b.queue[i] = w
      BY <2>1, AppendFacts
    <3> QED
      BY <2>2, <3>1 DEF Lags
  <2> QED
    BY <1>1, <2>3 DEF Lags
<1> QED
  BY <1>2, <1>3 DEF Flushed, Memory

LEMMA LagsNext ==
  ASSUME NEW a \in Memory, NEW b \in Memory, NextBegun(a, b),
         NEW m \in Messages, NEW row \in TheRow, Lags(a, m, row)
  PROVE  Lags(b, m, row)
<1> DEFINE w == [op |-> "insert", message |-> a.messageId + 1, content |-> <<>>]
<1>1. b.content = a.content /\ Begins(row.content, b.content[m])
  BY DEF Lags, NextBegun
<1>2. /\ b.queue = Append(a.queue, w) /\ a.queue \in Seq(Write)
      /\ b.messageId = a.messageId + 1 /\ b.messageId \in Messages
  BY DEF NextBegun, Memory
<1>3. w \in Write /\ w.op = "insert"
  BY <1>2 DEF Write
<1> HIDE DEF w
<1>4. \A i \in DOMAIN b.queue :
        IsUpdate(b.queue[i], m) => Len(row.content) <= Len(b.queue[i].content)
  <2> SUFFICES ASSUME NEW i \in DOMAIN b.queue, IsUpdate(b.queue[i], m)
               PROVE  Len(row.content) <= Len(b.queue[i].content)
    OBVIOUS
  <2>1. (i \in DOMAIN a.queue /\ b.queue[i] = a.queue[i]) \/ b.queue[i] = w
    BY <1>2, <1>3, AppendFacts
  <2> QED
    BY <1>3, <2>1 DEF Lags, IsUpdate
<1> QED
  BY <1>1, <1>4 DEF Lags

LEMMA ReadBackKept ==
  ASSUME NEW a \in Memory, NEW b \in Memory, NEW r \in RowsOf,
         NEW s \in Starting, NEW f \in Ending, ReadBack(a, r, s, f),
         (\E e \in Told : Appended(a, b, e)) \/ Flushed(a, b) \/ NextBegun(a, b)
  PROVE  ReadBack(b, r, s, f)
<1>1. 1 \in Messages /\ s.row \in TheRow /\ f.message \in Messages /\ f.row \in TheRow
  BY OneIsMessage DEF Starting, Ending
<1>2. ASSUME NEW m \in Messages, NEW row \in TheRow, Lags(a, m, row) PROVE Lags(b, m, row)
  BY <1>2, LagsAppended, LagsFlushed, LagsNext
<1> QED
  BY <1>1, <1>2 DEF ReadBack

LEMMA QueuedAppended ==
  ASSUME NEW a \in Memory, NEW b \in Memory, NEW e \in Told, NEW r \in RowsOf,
         Appended(a, b, e), Queued(a, r)
  PROVE  Queued(b, r)
<1>1. /\ b.queue = a.queue /\ b.messageId = a.messageId
      /\ a.content \in [Messages -> Seq(Told)] /\ a.messageId \in Messages
      /\ b.content = [a.content EXCEPT ![a.messageId] = Append(a.content[a.messageId], e)]
      /\ a.queue \in Seq(Write)
  BY DEF Appended, Memory
<1>2. \A m \in Messages : m # a.messageId => b.content[m] = a.content[m]
  BY <1>1
<1>3. Begun(b, r)
  BY <1>1, <1>2, OneIsMessage DEF Queued, Begun
<1>4. Inserts(b, r) /\ Rows(b, r)
  BY <1>1 DEF Queued, Inserts, Rows
<1>5. Growing(b, r)
  <2>1. \A m \in Messages : Lags(b, m, r[m])
    BY LagsAppended DEF Queued, Growing, RowsOf
  <2>2. ASSUME NEW i \in DOMAIN b.queue, b.queue[i].op = "update"
        PROVE  Begins(b.queue[i].content, b.content[b.queue[i].message])
    <3>1. /\ b.queue[i] = a.queue[i] /\ b.queue[i].message \in Messages
          /\ b.queue[i].content \in Seq(Told)
          /\ a.content[b.queue[i].message] \in Seq(Told)
      BY <1>1, QueueFields
    <3>2. Begins(b.queue[i].content, a.content[b.queue[i].message])
      BY <1>1, <2>2, <3>1 DEF Queued, Growing
    <3>3. \/ b.content[b.queue[i].message] = a.content[b.queue[i].message]
          \/ b.content[b.queue[i].message] = Append(a.content[b.queue[i].message], e)
      BY <1>1, <3>1
    <3> QED
      BY <3>1, <3>2, <3>3, BeginsLonger
  <2> QED
    BY <1>1, <2>1, <2>2 DEF Queued, Growing
<1> QED
  BY <1>3, <1>4, <1>5 DEF Queued

(* The queue of b is that of a and w. *)
Longer(a, b, w) ==
  /\ w \in Write /\ Len(b.queue) = Len(a.queue) + 1
  /\ DOMAIN b.queue = 1..(Len(a.queue) + 1) /\ DOMAIN a.queue = 1..Len(a.queue)
  /\ Len(a.queue) \in Nat
  /\ \A i \in DOMAIN a.queue : i \in DOMAIN b.queue /\ b.queue[i] = a.queue[i]
  /\ Len(a.queue) + 1 \in DOMAIN b.queue /\ b.queue[Len(a.queue) + 1] = w
  /\ \A i \in DOMAIN b.queue : i \in DOMAIN a.queue \/ i = Len(a.queue) + 1

LEMMA IsLonger ==
  ASSUME NEW a \in Memory, NEW b \in Memory, NEW w \in Write, b.queue = Append(a.queue, w)
  PROVE  Longer(a, b, w)
<1>1. a.queue \in Seq(Write)
  BY DEF Memory
<1> QED
  BY <1>1, AppendFacts DEF Longer

LEMMA RowsLonger ==
  ASSUME NEW a \in Memory, NEW b \in Memory, NEW w, Longer(a, b, w),
         NEW r \in RowsOf, Rows(a, r), NEW m \in Messages, m <= a.messageId
  PROVE  Present(r[m]) \/ \E i \in DOMAIN b.queue : IsInsert(b.queue[i], m)
<1>1. Present(r[m]) \/ \E i \in DOMAIN a.queue : IsInsert(a.queue[i], m)
  BY DEF Rows
<1>2. \A i \in DOMAIN a.queue : i \in DOMAIN b.queue /\ b.queue[i] = a.queue[i]
  BY DEF Longer
<1> QED
  BY <1>1, <1>2

LEMMA QueuedFlushed ==
  ASSUME NEW a \in Memory, NEW b \in Memory, NEW r \in RowsOf, Flushed(a, b), Queued(a, r)
  PROVE  Queued(b, r)
<1>1. CASE ~a.dirty
  BY <1>1, LagsFlushed DEF Flushed, Queued, Begun, Inserts, Rows, Growing, Lags
<1>2. CASE a.dirty
  <2> DEFINE w == [op |-> "update", message |-> a.messageId, content |-> a.content[a.messageId]]
  <2>1. Longer(a, b, w)
    BY <1>2, UpdateIsWrite, IsLonger DEF Flushed
  <2>2. /\ b.content = a.content /\ b.messageId = a.messageId
        /\ a.messageId \in Messages /\ a.content \in [Messages -> Seq(Told)]
    BY DEF Flushed, Memory
  <2>3. w.op = "update" /\ w.message = a.messageId /\ w.content = a.content[a.messageId]
    OBVIOUS
  <2> HIDE DEF w
  <2>4. Begun(b, r)
    <3>1. \A i \in DOMAIN b.queue : (i \in DOMAIN a.queue /\ b.queue[i] = a.queue[i]) \/ b.queue[i] = w
      BY <2>1 DEF Longer
    <3>2. a.messageId <= a.messageId
      BY <2>2, OneIsMessage
    <3> QED
      BY <2>2, <2>3, <3>1, <3>2 DEF Queued, Begun
  <2>5. Inserts(b, r)
    <3> SUFFICES ASSUME NEW i \in DOMAIN b.queue, b.queue[i].op = "insert"
                 PROVE  /\ b.queue[i].message > 1 /\ r[b.queue[i].message] = NoRow
                        /\ \A j \in DOMAIN b.queue :
                             j # i /\ b.queue[j].message = b.queue[i].message =>
                               j > i /\ b.queue[j].op = "update"
      BY DEF Inserts
    <3>1. i \in DOMAIN a.queue /\ b.queue[i] = a.queue[i]
      BY <2>1, <2>3 DEF Longer
    <3> QED
      BY <2>1, <2>3, <3>1, SMTT(30) DEF Queued, Inserts, Longer
  <2>6. Rows(b, r)
    <3>1. Rows(a, r)
      BY DEF Queued
    <3>2. \A m \in Messages : m <= a.messageId =>
            Present(r[m]) \/ \E i \in DOMAIN b.queue : IsInsert(b.queue[i], m)
      BY <2>1, <3>1, RowsLonger
    <3> QED
      BY <2>2, <3>1, <3>2 DEF Rows
  <2>7. Growing(b, r)
    <3>1. \A m \in Messages : Lags(b, m, r[m])
      BY LagsFlushed DEF Queued, Growing, RowsOf
    <3> SUFFICES ASSUME NEW i \in DOMAIN b.queue, b.queue[i].op = "update"
                 PROVE  /\ Begins(b.queue[i].content, b.content[b.queue[i].message])
                        /\ \A j \in DOMAIN b.queue :
                             i < j /\ IsUpdate(b.queue[j], b.queue[i].message) =>
                               Len(b.queue[i].content) <= Len(b.queue[j].content)
      BY <3>1 DEF Growing
    <3>2. CASE b.queue[i] = w /\ i = Len(a.queue) + 1
      BY <2>1, <2>2, <2>3, <3>2, BeginsItself DEF Longer
    <3>3. CASE i \in DOMAIN a.queue
      <4>1. b.queue[i] = a.queue[i]
        BY <2>1, <3>3 DEF Longer
      <4>2. Begins(a.queue[i].content, a.content[a.queue[i].message])
        BY <3>3, <4>1 DEF Queued, Growing
      <4>3. ASSUME NEW j \in DOMAIN b.queue, i < j, IsUpdate(b.queue[j], b.queue[i].message)
            PROVE  Len(b.queue[i].content) <= Len(b.queue[j].content)
        <5>1. CASE j \in DOMAIN a.queue
          BY <2>1, <3>3, <4>1, <4>3, <5>1 DEF Queued, Growing, Longer
        <5>2. CASE b.queue[j] = w
          BY <2>3, <4>1, <4>2, <4>3, <5>2 DEF IsUpdate, Begins
        <5> QED
          BY <2>1, <5>1, <5>2 DEF Longer
      <4> QED
        BY <2>2, <4>1, <4>2, <4>3
    <3> QED
      BY <2>1, <3>2, <3>3 DEF Longer
  <2> QED
    BY <2>4, <2>5, <2>6, <2>7 DEF Queued
<1> QED
  BY <1>1, <1>2 DEF Memory

LEMMA QueuedNext ==
  ASSUME NEW a \in Memory, NEW b \in Memory, NEW r \in RowsOf, NextBegun(a, b), Queued(a, r)
  PROVE  Queued(b, r)
<1> DEFINE w == [op |-> "insert", message |-> a.messageId + 1, content |-> <<>>]
<1>1. /\ b.content = a.content /\ b.messageId = a.messageId + 1 /\ b.messageId \in Messages
      /\ b.queue = Append(a.queue, w)
      /\ a.messageId \in Messages
  BY DEF NextBegun, Memory
<1>2. /\ w \in Write /\ w.op = "insert" /\ w.message = b.messageId
  BY <1>1 DEF Write
<1> HIDE DEF w
<1>3. Longer(a, b, w)
  BY <1>1, <1>2, IsLonger
<1>4. Begun(b, r)
  <2>1. \A m \in Messages : m > b.messageId => b.content[m] = <<>> /\ r[m] = NoRow
    BY <1>1, OneIsMessage DEF Queued, Begun
  <2>2. ASSUME NEW i \in DOMAIN b.queue PROVE b.queue[i].message <= b.messageId
    <3>1. CASE i \in DOMAIN a.queue
      <4>1. b.queue[i] = a.queue[i] /\ a.queue[i].message <= a.messageId
        BY <1>3, <3>1 DEF Longer, Queued, Begun
      <4>2. a.queue[i].message \in Messages
        BY <3>1, QueueFields
      <4> QED
        BY <1>1, <4>1, <4>2, OneIsMessage
    <3>2. CASE b.queue[i] = w
      BY <1>1, <1>2, <3>2, OneIsMessage
    <3> QED
      BY <1>3, <3>1, <3>2 DEF Longer
  <2> QED
    BY <2>1, <2>2 DEF Begun
<1>5. /\ r[b.messageId] = NoRow
      /\ \A i \in DOMAIN a.queue : a.queue[i].message # b.messageId
  BY <1>1, OneIsMessage, QueueFields DEF Queued, Begun
<1>6. Inserts(b, r)
  <2> SUFFICES ASSUME NEW i \in DOMAIN b.queue, b.queue[i].op = "insert"
               PROVE  /\ b.queue[i].message > 1 /\ r[b.queue[i].message] = NoRow
                      /\ \A j \in DOMAIN b.queue :
                           j # i /\ b.queue[j].message = b.queue[i].message =>
                             j > i /\ b.queue[j].op = "update"
    BY DEF Inserts
  <2>1. CASE i \in DOMAIN a.queue
    <3>1. b.queue[i] = a.queue[i]
      BY <1>3, <2>1 DEF Longer
    <3>2. b.queue[i].message > 1 /\ r[b.queue[i].message] = NoRow
      BY <2>1, <3>1 DEF Queued, Inserts
    <3>3. ASSUME NEW j \in DOMAIN b.queue, j # i, b.queue[j].message = b.queue[i].message
          PROVE  j > i /\ b.queue[j].op = "update"
      <4>1. j \in DOMAIN a.queue /\ b.queue[j] = a.queue[j]
        BY <1>2, <1>3, <1>5, <2>1, <3>1, <3>3 DEF Longer
      <4> QED
        BY <2>1, <3>1, <3>3, <4>1 DEF Queued, Inserts
    <3> QED
      BY <3>2, <3>3
  <2>2. CASE i = Len(a.queue) + 1
    <3>1. b.queue[i] = w /\ b.queue[i].message > 1 /\ r[b.queue[i].message] = NoRow
      BY <1>1, <1>2, <1>3, <1>5, <2>2, OneIsMessage DEF Longer
    <3>2. \A j \in DOMAIN b.queue : j # i => b.queue[j].message # b.messageId
      BY <1>3, <1>5, <2>2 DEF Longer
    <3> QED
      BY <1>2, <3>1, <3>2
  <2> QED
    BY <1>3, <2>1, <2>2 DEF Longer
<1>7. Rows(b, r)
  <2> SUFFICES ASSUME NEW m \in Messages, m <= b.messageId
               PROVE  Present(r[m]) \/ \E i \in DOMAIN b.queue : IsInsert(b.queue[i], m)
    BY DEF Queued, Rows
  <2>1. CASE m <= a.messageId
    BY <1>2, <1>3, <2>1, RowsLonger DEF Queued
  <2>2. CASE m = b.messageId
    BY <1>2, <1>3, <2>2 DEF Longer, IsInsert
  <2> QED
    BY <1>1, <2>1, <2>2, OneIsMessage
<1>8. Growing(b, r)
  <2>1. \A m \in Messages : Lags(b, m, r[m])
    BY LagsNext DEF Queued, Growing, RowsOf
  <2>2. \A i \in DOMAIN b.queue : b.queue[i].op = "update" =>
          i \in DOMAIN a.queue /\ b.queue[i] = a.queue[i]
    BY <1>2, <1>3 DEF Longer
  <2>3. \A i \in DOMAIN b.queue : b.queue[i].op = "update" =>
          Begins(b.queue[i].content, b.content[b.queue[i].message])
    BY <1>1, <2>2 DEF Queued, Growing
  <2>4. \A i, j \in DOMAIN b.queue :
          b.queue[i].op = "update" /\ i < j /\ IsUpdate(b.queue[j], b.queue[i].message) =>
            Len(b.queue[i].content) <= Len(b.queue[j].content)
    BY <2>2 DEF Queued, Growing, IsUpdate
  <2> QED
    BY <2>1, <2>3, <2>4 DEF Growing
<1> QED
  BY <1>4, <1>6, <1>7, <1>8 DEF Queued

LEMMA CoveredKept ==
  ASSUME NEW a \in Memory, NEW b \in Memory, NEW r \in RowsOf, Covered(a, r), Begun(a, r),
         (\E e \in Told : Appended(a, b, e)) \/ Flushed(a, b) \/ NextBegun(a, b)
  PROVE  Covered(b, r)
<1>1. /\ a.messageId \in Messages /\ a.content \in [Messages -> Seq(Told)]
      /\ b.messageId \in Messages
  BY DEF Memory
<1>2. ASSUME NEW e \in Told, Appended(a, b, e) PROVE Covered(b, r)
  BY <1>1, <1>2 DEF Appended, Covered
<1>3. CASE Flushed(a, b) /\ ~a.dirty
  BY <1>3 DEF Flushed, Covered
<1>4. CASE Flushed(a, b) /\ a.dirty
  <2> DEFINE w == [op |-> "update", message |-> a.messageId, content |-> a.content[a.messageId]]
  <2>1. Longer(a, b, w)
    BY <1>4, UpdateIsWrite, IsLonger DEF Flushed
  <2>2. IsUpdate(w, a.messageId) /\ w.content = a.content[a.messageId] /\ b.content = a.content
    BY <1>4 DEF IsUpdate, Flushed
  <2> HIDE DEF w
  <2>3. ASSUME NEW m \in Messages
        PROVE  \/ r[m].content = b.content[m]
               \/ \E i \in DOMAIN b.queue :
                    IsUpdate(b.queue[i], m) /\ b.queue[i].content = b.content[m]
    <3>1. CASE m = a.messageId
      BY <2>1, <2>2, <3>1 DEF Longer
    <3>2. CASE m # a.messageId
      <4>1. \/ r[m].content = a.content[m]
            \/ \E i \in DOMAIN a.queue :
                 IsUpdate(a.queue[i], m) /\ a.queue[i].content = a.content[m]
        BY <3>2 DEF Covered
      <4> QED
        BY <2>1, <2>2, <4>1 DEF Longer
    <3> QED
      BY <3>1, <3>2
  <2> QED
    BY <2>3 DEF Covered
<1>5. CASE NextBegun(a, b)
  <2> DEFINE w == [op |-> "insert", message |-> a.messageId + 1, content |-> <<>>]
  <2>1. b.content = a.content /\ b.messageId = a.messageId + 1 /\ ~a.dirty
        /\ b.queue = Append(a.queue, w)
    BY <1>5 DEF NextBegun
  <2>2. w \in Write
    BY <1>1, <2>1 DEF Write
  <2> HIDE DEF w
  <2>3. Longer(a, b, w)
    BY <2>1, <2>2, IsLonger
  <2> QED
    BY <2>1, <2>3 DEF Covered, Longer
<1> QED
  BY <1>2, <1>3, <1>4, <1>5 DEF Memory

LEMMA EndStoredKept ==
  ASSUME NEW a \in Memory, NEW b \in Memory, NEW r \in RowsOf, NEW f \in Ending,
         NEW n \in 0..Len(a.queue), EndStored(a, r, f, n), EndKept(a, f),
         (\E e \in Told \ {EndEvent} : Appended(a, b, e)) \/ Flushed(a, b) \/ NextBegun(a, b)
  PROVE  EndStored(b, r, f, n) /\ EndKept(b, f)
<1>1. /\ a.messageId \in Messages /\ a.content \in [Messages -> Seq(Told)]
      /\ b.content \in [Messages -> Seq(Told)]
      /\ a.queue \in Seq(Write) /\ f.message \in Messages
  BY DEF Memory, Ending
<1>2. ASSUME NEW m \in Messages, NEW i \in DOMAIN b.content[m], b.content[m][i] = EndEvent
      PROVE  i \in DOMAIN a.content[m] /\ a.content[m][i] = EndEvent
  <2>1. CASE b.content = a.content
    BY <1>2, <2>1
  <2>2. CASE \E e \in Told \ {EndEvent} : Appended(a, b, e)
    <3>1. PICK e \in Told \ {EndEvent} : Appended(a, b, e)
      BY <2>2
    <3>2. b.content[m] = a.content[m] \/ b.content[m] = Append(a.content[m], e)
      BY <1>1, <3>1 DEF Appended
    <3>3. CASE b.content[m] = Append(a.content[m], e)
      <4>1. a.content[m] \in Seq(Told) /\ e \in Told /\ e # EndEvent
        BY <1>1
      <4>2. /\ DOMAIN a.content[m] = 1..Len(a.content[m]) /\ Len(a.content[m]) \in Nat
            /\ DOMAIN b.content[m] = 1..(Len(a.content[m]) + 1)
            /\ \A j \in 1..Len(a.content[m]) : b.content[m][j] = a.content[m][j]
            /\ b.content[m][Len(a.content[m]) + 1] = e
        BY <3>3, <4>1, AppendFacts
      <4> QED
        BY <1>2, <4>1, <4>2, SMTT(30)
    <3> QED
      BY <1>2, <3>2, <3>3
  <2> QED
    BY <2>1, <2>2 DEF Flushed, NextBegun
<1>3. n > 0 => b.queue[n] = a.queue[n]
  <2>1. b.queue = a.queue \/ \E w : b.queue = Append(a.queue, w)
    BY DEF Appended, Flushed, NextBegun, Memory
  <2>2. Len(a.queue) \in Nat
    BY <1>1
  <2>3. ASSUME NEW w, b.queue = Append(a.queue, w), n > 0 PROVE b.queue[n] = a.queue[n]
    BY <1>1, <2>2, <2>3
  <2> QED
    BY <2>1, <2>3
<1> QED
  BY <1>1, <1>2, <1>3 DEF EndStored, EndKept

-----------------------------------------------------------------------------
(* What the writes leave of them.  The head of the queue is done: *)

Popped(a, b) ==
  /\ a.queue # <<>>
  /\ b.content = a.content /\ b.messageId = a.messageId /\ b.dirty = a.dirty
  /\ b.queue = Tail(a.queue)

Shorter(a, b) ==
  /\ Len(a.queue) \in Nat \ {0} /\ Len(b.queue) = Len(a.queue) - 1
  /\ DOMAIN a.queue = 1..Len(a.queue) /\ DOMAIN b.queue = 1..(Len(a.queue) - 1)
  /\ 1 \in DOMAIN a.queue
  /\ \A i \in DOMAIN b.queue :
       i \in Nat /\ i + 1 \in DOMAIN a.queue /\ b.queue[i] = a.queue[i + 1] /\ i + 1 > 1
  /\ \A i \in DOMAIN a.queue :
       i = 1 \/ (i - 1 \in DOMAIN b.queue /\ b.queue[i - 1] = a.queue[i])

LEMMA IsShorter ==
  ASSUME NEW a \in Memory, NEW b \in Memory, Popped(a, b)
  PROVE  Shorter(a, b)
<1>1. a.queue \in Seq(Write) /\ a.queue # <<>> /\ b.queue = Tail(a.queue)
  BY DEF Memory, Popped
<1>2. /\ Len(a.queue) \in Nat \ {0} /\ Len(b.queue) = Len(a.queue) - 1
      /\ DOMAIN a.queue = 1..Len(a.queue) /\ DOMAIN b.queue = 1..(Len(a.queue) - 1)
      /\ \A i \in 1..(Len(a.queue) - 1) : b.queue[i] = a.queue[i + 1]
  BY <1>1, TailFacts
<1>3. \A i \in DOMAIN a.queue :
        i = 1 \/ (i - 1 \in DOMAIN b.queue /\ b.queue[i - 1] = a.queue[i])
  <2> SUFFICES ASSUME NEW i \in DOMAIN a.queue, i # 1
               PROVE  i - 1 \in DOMAIN b.queue /\ b.queue[i - 1] = a.queue[i]
    OBVIOUS
  <2>1. i - 1 \in 1..(Len(a.queue) - 1) /\ (i - 1) + 1 = i
    BY <1>2
  <2> QED
    BY <1>2, <2>1
<1>4. \A i \in DOMAIN b.queue :
        i \in Nat /\ i + 1 \in DOMAIN a.queue /\ b.queue[i] = a.queue[i + 1] /\ i + 1 > 1
  BY <1>2
<1> QED
  BY <1>2, <1>3, <1>4 DEF Shorter

LEMMA LagsShorter ==
  ASSUME NEW a \in Memory, NEW b \in Memory, Popped(a, b),
         NEW m \in Messages, NEW row \in TheRow, Lags(a, m, row)
  PROVE  Lags(b, m, row)
<1>1. Shorter(a, b) /\ b.content = a.content
  BY IsShorter DEF Popped
<1> QED
  BY <1>1 DEF Shorter, Lags

(* r2 has the row that the head of the queue has written to m. *)
Written(a, r, r2, m) ==
  /\ a.queue[1].message = m /\ Present(r2[m]) /\ Lags(a, m, r2[m])
  /\ \A n \in Messages : n # m => r2[n] = r[n]

LEMMA QueuedPopped ==
  ASSUME NEW a \in Memory, NEW b \in Memory, NEW r \in RowsOf, NEW r2 \in RowsOf,
         NEW m \in Messages, Popped(a, b), Written(a, r, r2, m), Queued(a, r)
  PROVE  Queued(b, r2)
<1>1. /\ Shorter(a, b) /\ b.content = a.content /\ b.messageId = a.messageId
      /\ a.messageId \in Messages /\ b.queue = Tail(a.queue)
  BY IsShorter DEF Popped, Memory
<1>2. m <= a.messageId
  BY <1>1 DEF Queued, Begun, Written, Shorter
<1>3. Begun(b, r2)
  <2>1. ASSUME NEW n \in Messages, n > b.messageId PROVE b.content[n] = <<>> /\ r2[n] = NoRow
    <3>1. n # m
      BY <1>1, <1>2, <2>1, OneIsMessage
    <3> QED
      BY <1>1, <2>1, <3>1 DEF Queued, Begun, Written
  <2>2. \A i \in DOMAIN b.queue : b.queue[i].message <= b.messageId
    BY <1>1 DEF Queued, Begun, Shorter
  <2> QED
    BY <2>1, <2>2 DEF Begun
<1>4. Inserts(b, r2)
  <2> SUFFICES ASSUME NEW i \in DOMAIN b.queue, b.queue[i].op = "insert"
               PROVE  /\ b.queue[i].message > 1 /\ r2[b.queue[i].message] = NoRow
                      /\ \A j \in DOMAIN b.queue :
                           j # i /\ b.queue[j].message = b.queue[i].message =>
                             j > i /\ b.queue[j].op = "update"
    BY DEF Inserts
  <2>1. /\ i \in Nat /\ i + 1 \in DOMAIN a.queue /\ b.queue[i] = a.queue[i + 1] /\ i + 1 > 1
        /\ 1 \in DOMAIN a.queue
    BY <1>1 DEF Shorter
  <2>2. /\ b.queue[i].message > 1 /\ r[b.queue[i].message] = NoRow
        /\ \A j \in DOMAIN a.queue : j # i + 1 /\ a.queue[j].message = b.queue[i].message =>
             j > i + 1 /\ a.queue[j].op = "update"
    BY <2>1 DEF Queued, Inserts
  <2>3. b.queue[i].message # m
    <3>1. ~(1 > i + 1) /\ 1 # i + 1
      BY <2>1
    <3> QED
      BY <2>1, <2>2, <3>1 DEF Written
  <2>4. b.queue[i].message \in Messages
    BY QueueFields
  <2>5. ASSUME NEW j \in DOMAIN b.queue, j # i, b.queue[j].message = b.queue[i].message
        PROVE  j > i /\ b.queue[j].op = "update"
    <3>1. j \in Nat /\ j + 1 \in DOMAIN a.queue /\ b.queue[j] = a.queue[j + 1] /\ j + 1 # i + 1
      BY <1>1, <2>1, <2>5 DEF Shorter
    <3>2. j + 1 > i + 1 /\ b.queue[j].op = "update"
      BY <2>2, <2>5, <3>1
    <3> QED
      BY <2>1, <3>1, <3>2
  <2> QED
    BY <2>2, <2>3, <2>4, <2>5 DEF Written
<1>5. Rows(b, r2)
  <2>1. Present(r2[1])
    BY OneIsMessage DEF Queued, Rows, Written
  <2>2. ASSUME NEW n \in Messages, n <= a.messageId
        PROVE  Present(r2[n]) \/ \E i \in DOMAIN b.queue : IsInsert(b.queue[i], n)
    <3>1. CASE n = m \/ Present(r[n])
      BY <3>1 DEF Written
    <3>2. CASE n # m /\ \E i \in DOMAIN a.queue : IsInsert(a.queue[i], n)
      <4>1. PICK i \in DOMAIN a.queue : IsInsert(a.queue[i], n)
        BY <3>2
      <4>2. i # 1
        BY <3>2, <4>1 DEF IsInsert, Written
      <4> QED
        BY <1>1, <4>1, <4>2 DEF Shorter
    <3> QED
      BY <2>2, <3>1, <3>2 DEF Queued, Rows
  <2> QED
    BY <1>1, <2>1, <2>2 DEF Rows
<1>6. Growing(b, r2)
  <2>1. ASSUME NEW n \in Messages PROVE Lags(b, n, r2[n])
    <3>1. Lags(a, n, r2[n])
      BY DEF Queued, Growing, Written
    <3>2. r2[n] \in TheRow
      BY DEF RowsOf
    <3> QED
      BY <3>1, <3>2, LagsShorter
  <2>2. ASSUME NEW i \in DOMAIN b.queue, b.queue[i].op = "update"
        PROVE  /\ Begins(b.queue[i].content, b.content[b.queue[i].message])
               /\ \A j \in DOMAIN b.queue :
                    i < j /\ IsUpdate(b.queue[j], b.queue[i].message) =>
                      Len(b.queue[i].content) <= Len(b.queue[j].content)
    <3>1. i \in Nat /\ i + 1 \in DOMAIN a.queue /\ b.queue[i] = a.queue[i + 1]
      BY <1>1 DEF Shorter
    <3>2. ASSUME NEW j \in DOMAIN b.queue, i < j, IsUpdate(b.queue[j], b.queue[i].message)
          PROVE  Len(b.queue[i].content) <= Len(b.queue[j].content)
      <4>1. j + 1 \in DOMAIN a.queue /\ b.queue[j] = a.queue[j + 1] /\ i + 1 < j + 1
        BY <1>1, <3>1, <3>2 DEF Shorter
      <4> QED
        BY <2>2, <3>1, <3>2, <4>1 DEF Queued, Growing
    <3> QED
      BY <1>1, <2>2, <3>1, <3>2 DEF Queued, Growing
  <2> QED
    BY <2>1, <2>2 DEF Growing
<1> QED
  BY <1>3, <1>4, <1>5, <1>6 DEF Queued

LEMMA ReadBackPopped ==
  ASSUME NEW a \in Memory, NEW b \in Memory, NEW r \in RowsOf, NEW r2 \in RowsOf,
         NEW m \in Messages, Popped(a, b), Written(a, r, r2, m),
         NEW s \in Starting, NEW f \in Ending, ReadBack(a, r, s, f)
  PROVE  ReadBack(b, r2, s, f)
<1>1. 1 \in Messages /\ s.row \in TheRow /\ f.message \in Messages /\ f.row \in TheRow
  BY OneIsMessage DEF Starting, Ending
<1> QED
  BY <1>1, LagsShorter DEF ReadBack, Written

(* An update writes its content, and an insert nothing to a row that was not. *)
Stores(a, r, r2, m) ==
  \/ a.queue[1].op = "update" /\ r2[m].content = a.queue[1].content
  \/ a.queue[1].op = "insert" /\ r2[m].content = <<>>

LEMMA RowNotShorter ==
  ASSUME NEW a \in Memory, NEW r \in RowsOf, NEW r2 \in RowsOf, NEW m \in Messages,
         a.queue # <<>>, Queued(a, r), Written(a, r, r2, m), Stores(a, r, r2, m),
         NEW n \in Messages
  PROVE  Len(r[n].content) <= Len(r2[n].content)
<1>1. r[n].content \in Seq(Told)
  BY DEF RowsOf, TheRow
<1>2. 1 \in DOMAIN a.queue
  BY DEF Memory
<1>3. CASE n # m
  BY <1>1, <1>3 DEF Written
<1>4. CASE n = m /\ a.queue[1].op = "update"
  BY <1>2, <1>4 DEF Written, Stores, Queued, Growing, Lags, IsUpdate
<1>5. CASE n = m /\ a.queue[1].op = "insert"
  <2>1. r[n] = NoRow /\ r2[n].content = <<>>
    BY <1>2, <1>5 DEF Written, Stores, Queued, Inserts
  <2> QED
    BY <2>1 DEF NoRow
<1> QED
  BY <1>3, <1>4, <1>5 DEF Stores

LEMMA CoveredPopped ==
  ASSUME NEW a \in Memory, NEW b \in Memory, NEW r \in RowsOf, NEW r2 \in RowsOf,
         NEW m \in Messages, Popped(a, b), Written(a, r, r2, m), Stores(a, r, r2, m),
         Queued(a, r), Covered(a, r)
  PROVE  Covered(b, r2)
<1>1. /\ Shorter(a, b) /\ b.content = a.content /\ b.messageId = a.messageId /\ b.dirty = a.dirty
      /\ a.content \in [Messages -> Seq(Told)]
  BY IsShorter DEF Popped, Memory
<1> SUFFICES ASSUME NEW n \in Messages
             PROVE  \/ n = b.messageId /\ b.dirty
                    \/ r2[n].content = b.content[n]
                    \/ \E i \in DOMAIN b.queue :
                         IsUpdate(b.queue[i], n) /\ b.queue[i].content = b.content[n]
  BY DEF Covered
<1>2. CASE n = a.messageId /\ a.dirty
  BY <1>1, <1>2
<1>3. CASE r[n].content = a.content[n]
  <2>1. r2[n].content \in Seq(Told) /\ a.content[n] \in Seq(Told)
    BY <1>1 DEF RowsOf, TheRow
  <2>2. Begins(r2[n].content, a.content[n])
    BY DEF Written, Queued, Growing, Lags
  <2>3. Len(a.content[n]) <= Len(r2[n].content)
    BY <1>3, RowNotShorter DEF Popped
  <2>4. r2[n].content = a.content[n]
    BY <2>1, <2>2, <2>3, SameLength
  <2> QED
    BY <1>1, <2>4
<1>4. ASSUME NEW i \in DOMAIN a.queue, IsUpdate(a.queue[i], n), a.queue[i].content = a.content[n]
      PROVE  \/ r2[n].content = b.content[n]
             \/ \E j \in DOMAIN b.queue :
                  IsUpdate(b.queue[j], n) /\ b.queue[j].content = b.content[n]
  <2>1. CASE i = 1
    BY <1>1, <1>4, <2>1 DEF IsUpdate, Written, Stores
  <2>2. CASE i # 1
    BY <1>1, <1>4, <2>2 DEF Shorter
  <2> QED
    BY <2>1, <2>2
<1> QED
  BY <1>2, <1>3, <1>4, <1>1 DEF Covered

LEMMA EndStoredPopped ==
  ASSUME NEW a \in Memory, NEW b \in Memory, NEW r \in RowsOf, NEW r2 \in RowsOf,
         NEW m \in Messages, Popped(a, b), Written(a, r, r2, m), Stores(a, r, r2, m),
         Queued(a, r), NEW f, NEW n \in 0..Len(a.queue), EndStored(a, r, f, n)
  PROVE  EndStored(b, r2, f, IF n > 0 THEN n - 1 ELSE 0)
<1>1. Shorter(a, b) /\ b.content = a.content /\ a.content \in [Messages -> Seq(Told)]
  BY IsShorter DEF Popped, Memory
<1> SUFFICES ASSUME NEW k \in Messages, NEW i \in DOMAIN b.content[k],
                    b.content[k][i] = EndEvent, ~(i <= Len(r2[k].content))
             PROVE  /\ f.pc = "flush" /\ n - 1 > 0 /\ n > 0 /\ IsUpdate(b.queue[n - 1], k)
                    /\ i <= Len(b.queue[n - 1].content)
  <2>1. n > 0 => (IF n > 0 THEN n - 1 ELSE 0) = n - 1
    OBVIOUS
  <2> QED
    BY <2>1 DEF EndStored
<1>2. /\ Len(r[k].content) \in Nat /\ Len(r2[k].content) \in Nat /\ i \in Nat
      /\ n \in Nat /\ n <= Len(a.queue)
  BY SMTT(30), <1>1 DEF RowsOf, TheRow, Shorter
<1>3. Len(r[k].content) <= Len(r2[k].content)
  BY RowNotShorter DEF Popped
<1>4. ~(i <= Len(r[k].content))
  BY <1>2, <1>3
<1>5. /\ f.pc = "flush" /\ n > 0 /\ IsUpdate(a.queue[n], k) /\ i <= Len(a.queue[n].content)
  BY <1>1, <1>4 DEF EndStored
<1>6. n # 1
  BY <1>5 DEF IsUpdate, Written, Stores
<1>7. n \in DOMAIN a.queue /\ n - 1 > 0
  BY <1>1, <1>2, <1>5, <1>6 DEF Shorter
<1>8. b.queue[n - 1] = a.queue[n]
  BY <1>1, <1>6, <1>7 DEF Shorter
<1> QED
  BY <1>5, <1>7, <1>8

-----------------------------------------------------------------------------
(* A row that is there is written again, with what began its message. *)

Rewritten(a, r, r2) ==
  \A m \in Messages :
    /\ r[m] = NoRow => r2[m] = NoRow
    /\ Present(r[m]) => Present(r2[m])
    /\ Lags(a, m, r2[m])

LEMMA QueuedRewritten ==
  ASSUME NEW a \in Memory, NEW r \in RowsOf, NEW r2 \in RowsOf, Rewritten(a, r, r2), Queued(a, r)
  PROVE  Queued(a, r2)
<1>1. Begun(a, r2)
  BY DEF Queued, Begun, Rewritten
<1>2. Inserts(a, r2)
  BY QueueFields DEF Queued, Inserts, Rewritten
<1>3. Rows(a, r2)
  BY OneIsMessage DEF Queued, Rows, Rewritten
<1>4. Growing(a, r2)
  BY DEF Queued, Growing, Rewritten
<1> QED
  BY <1>1, <1>2, <1>3, <1>4 DEF Queued

LEMMA ReadBackRewritten ==
  ASSUME NEW a \in Memory, NEW r \in RowsOf, NEW r2 \in RowsOf, Rewritten(a, r, r2),
         NEW s \in Starting, NEW f \in Ending, ReadBack(a, r, s, f)
  PROVE  ReadBack(a, r2, s, f)
<1>1. f.message \in Messages
  BY DEF Ending
<1> QED
  BY <1>1 DEF ReadBack, Rewritten

-----------------------------------------------------------------------------
(* A memory that fits the rows and what startRun and finishRun are at, while *)
(* the run takes events.                                                     *)

HasEnd(a) == \E m \in Messages : InMessage(a, m, EndEvent)
Fits(a) ==
  /\ Queued(a, rows) /\ ReadBack(a, rows, start, finish)
  /\ ~early /\ ~late => Covered(a, rows)
  /\ ~early => EndStored(a, rows, finish, waitFor) /\ EndKept(a, finish)
  /\ waitFor \in 0..Len(a.queue)
  /\ HasEnd(a) <=> finish.pc # "no"
  /\ a.dirty => a.timer

LEMMA AccFits == ASSUME IInv, finish.pc # "terminal" PROVE acc \in Memory /\ Fits(acc)
BY DEF IInv, Typed, Timed, StoreInv, Ends, Fits, HasEnd, InMessage

(* Where an event is after e has been appended. *)
LEMMA InAppended ==
  ASSUME NEW a \in Memory, NEW b \in Memory, NEW e \in Told, Appended(a, b, e),
         NEW m \in Messages, NEW x
  PROVE  InMessage(b, m, x) <=> InMessage(a, m, x) \/ (m = a.messageId /\ x = e)
<1>1. /\ a.content[m] \in Seq(Told) /\ a.messageId \in Messages
      /\ b.content = [a.content EXCEPT ![a.messageId] = Append(a.content[a.messageId], e)]
      /\ a.content \in [Messages -> Seq(Told)]
  BY DEF Memory, Appended
<1>2. CASE m # a.messageId
  <2>1. b.content[m] = a.content[m]
    BY <1>1, <1>2
  <2> QED
    BY <1>2, <2>1 DEF InMessage
<1>3. CASE m = a.messageId
  <2>1. b.content[m] = Append(a.content[m], e)
    BY <1>1, <1>3
  <2>2. /\ DOMAIN b.content[m] = 1..(Len(a.content[m]) + 1) /\ Len(a.content[m]) \in Nat
        /\ DOMAIN a.content[m] = 1..Len(a.content[m])
        /\ \A i \in 1..Len(a.content[m]) : b.content[m][i] = a.content[m][i]
        /\ b.content[m][Len(a.content[m]) + 1] = e
    BY <1>1, <2>1, AppendFacts
  <2>3. /\ \A i \in DOMAIN a.content[m] :
             i \in DOMAIN b.content[m] /\ b.content[m][i] = a.content[m][i]
        /\ Len(a.content[m]) + 1 \in DOMAIN b.content[m]
        /\ \A i \in DOMAIN b.content[m] :
             i \in DOMAIN a.content[m] \/ i = Len(a.content[m]) + 1
    BY <2>2
  <2> QED
    BY <1>3, <2>2, <2>3 DEF InMessage
<1> QED
  BY <1>2, <1>3

LEMMA FitsAppended ==
  ASSUME Typed, NEW a \in Memory, NEW e \in Told \ {EndEvent}, Fits(a)
  PROVE  Fits(ConsumeEvent(a, e))
<1> DEFINE b == ConsumeEvent(a, e)
<1>1. b \in Memory /\ Appended(a, b, e) /\ b.timer
  BY Appends
<1> HIDE DEF b
<1>2. rows \in RowsOf /\ start \in Starting /\ finish \in Ending
  BY DEF Typed, RowsOf
<1>3. Queued(b, rows)
  BY <1>1, <1>2, QueuedAppended DEF Fits
<1>4. ReadBack(b, rows, start, finish)
  BY <1>1, <1>2, ReadBackKept DEF Fits
<1>5. ~early /\ ~late => Covered(b, rows)
  BY <1>1, <1>2, CoveredKept DEF Fits, Queued
<1>6. ~early => EndStored(b, rows, finish, waitFor) /\ EndKept(b, finish)
  BY <1>1, <1>2, EndStoredKept DEF Fits
<1>7. HasEnd(b) <=> HasEnd(a)
  BY <1>1, InAppended DEF HasEnd
<1>8. waitFor \in 0..Len(b.queue)
  BY <1>1 DEF Fits, Appended
<1>9. HasEnd(b) <=> finish.pc # "no"
  BY <1>7 DEF Fits
<1> QED
  BY <1>1, <1>3, <1>4, <1>5, <1>6, <1>8, <1>9 DEF Fits, b

LEMMA FitsFlushed ==
  ASSUME Typed, NEW a \in Memory, NEW b \in Memory, Flushed(a, b) \/ NextBegun(a, b), Fits(a)
  PROVE  Fits(b)
<1>1. rows \in RowsOf /\ start \in Starting /\ finish \in Ending
  BY DEF Typed, RowsOf
<1>2. Queued(b, rows)
  BY <1>1, QueuedFlushed, QueuedNext DEF Fits
<1>3. ReadBack(b, rows, start, finish)
  BY <1>1, ReadBackKept DEF Fits
<1>4. ~early /\ ~late => Covered(b, rows)
  BY <1>1, CoveredKept DEF Fits, Queued
<1>5. ~early => EndStored(b, rows, finish, waitFor) /\ EndKept(b, finish)
  BY <1>1, EndStoredKept DEF Fits
<1>6. b.content = a.content /\ ~b.dirty
  BY DEF Flushed, NextBegun
<1>7. HasEnd(b) <=> HasEnd(a)
  BY <1>6 DEF HasEnd, InMessage
<1>8. waitFor \in 0..Len(b.queue)
  <2>1. a.queue \in Seq(Write) /\ Len(a.queue) \in Nat /\ waitFor \in 0..Len(a.queue)
    BY DEF Memory, Fits
  <2>2. b.queue = a.queue \/ \E w \in Write : b.queue = Append(a.queue, w)
    <3>1. CASE Flushed(a, b)
      BY <3>1, UpdateIsWrite DEF Flushed, Memory
    <3>2. CASE NextBegun(a, b)
      BY <3>2 DEF NextBegun, Write, Memory
    <3> QED
      BY <3>1, <3>2
  <2>3. ASSUME NEW w \in Write, b.queue = Append(a.queue, w) PROVE waitFor \in 0..Len(b.queue)
    BY <2>1, <2>3, AppendFacts
  <2> QED
    BY <2>1, <2>2, <2>3
<1>9. HasEnd(b) <=> finish.pc # "no"
  BY <1>7 DEF Fits
<1> QED
  BY <1>2, <1>3, <1>4, <1>5, <1>6, <1>8, <1>9 DEF Fits

LEMMA FitsStarted ==
  ASSUME Typed, NEW a \in Memory, Fits(a), a.sawStart => a.messageId + 1 \in Messages
  PROVE  /\ StartAssistantMessageSegment(a) \in Memory
         /\ Fits(StartAssistantMessageSegment(a))
         /\ StartAssistantMessageSegment(a).content = a.content
         /\ StartAssistantMessageSegment(a).sawStart
         /\ StartAssistantMessageSegment(a).messageId =
              IF a.sawStart THEN a.messageId + 1 ELSE a.messageId
<1> DEFINE b == StartAssistantMessageSegment(a)
           f == ForceFlush(a)
<1>1. /\ b \in Memory /\ b.sawStart
      /\ ~a.sawStart => /\ b.content = a.content /\ b.messageId = a.messageId
                        /\ b.queue = a.queue /\ b.dirty = a.dirty /\ b.timer = a.timer
      /\ a.sawStart => ~b.dirty /\ NextBegun(f, b)
  BY StartsMessage
<1>2. f \in Memory /\ Flushed(a, f)
  BY ForceFlushes
<1> HIDE DEF b, f
<1>3. CASE ~a.sawStart
  <2>1. Queued(b, rows)
    BY <1>1, <1>3 DEF Fits, Queued, Begun, Inserts, Rows, Growing, Lags
  <2>2. ReadBack(b, rows, start, finish)
    BY <1>1, <1>3 DEF Fits, ReadBack, Lags
  <2>3. ~early /\ ~late => Covered(b, rows)
    BY <1>1, <1>3 DEF Fits, Covered
  <2>4. ~early => EndStored(b, rows, finish, waitFor) /\ EndKept(b, finish)
    BY <1>1, <1>3 DEF Fits, EndStored, EndKept
  <2>5. HasEnd(b) <=> HasEnd(a)
    BY <1>1, <1>3 DEF HasEnd, InMessage
  <2>6. Fits(b)
    BY <1>1, <1>3, <2>1, <2>2, <2>3, <2>4, <2>5 DEF Fits
  <2> QED
    BY <1>1, <1>3, <2>6 DEF b
<1>4. CASE a.sawStart
  <2>1. Fits(b)
    BY <1>1, <1>2, <1>4, FitsFlushed
  <2>2. b.content = a.content /\ b.messageId = a.messageId + 1
    BY <1>1, <1>2, <1>4 DEF Flushed, NextBegun
  <2> QED
    BY <1>1, <1>4, <2>1, <2>2 DEF b
<1> QED
  BY <1>3, <1>4 DEF Memory

-----------------------------------------------------------------------------
(* The steps of the accumulator. *)

ClaudeWaits == UNCHANGED <<partial, claude, parser, early, late>>

(* A step that leaves what is told to the messages, and Claude, as they are. *)
LEMMA ToldKept ==
  ASSUME IInv, acc'.content = acc.content, acc'.messageId = acc.messageId,
         acc'.sawStart = acc.sawStart, UNCHANGED <<partial, claude, parser, late>>,
         finish.pc = "terminal" => finish'.pc = "terminal"
  PROVE  ToldInv' /\ InStep'
<1>1. \A m \in Messages : \A e : InMessage(acc, m, e)' <=> InMessage(acc, m, e)
  BY DEF InMessage
<1>2. Placed(acc, claude)' /\ Once(acc)'
  BY DEF IInv, ToldInv, Placed, Once
<1>3. EndOnce' /\ ToolsKnown' /\ AllTold'
  BY DEF IInv, ToldInv, EndOnce, ToolsKnown, AllTold, InMessage
<1>4. TextKnown'
  BY DEF IInv, ToldInv, TextKnown, InMessage, CurrentBlock
<1>5. InStep'
  BY DEF IInv, InStep, Reached
<1> QED
  BY <1>2, <1>3, <1>4, <1>5 DEF ToldInv

LEMMA ThrottledFlushes == ASSUME IInv, ThrottledFlush, ClaudeWaits PROVE IInv'
<1>1. /\ acc \in Memory /\ acc.timer /\ acc' = ForceFlush(acc)
      /\ UNCHANGED <<rows, reading, start, finish, waitFor, partial, claude, parser, early, late>>
  BY DEF IInv, Typed, ThrottledFlush, ForceFlush, ClaudeWaits
<1>2. /\ acc' \in Memory /\ Flushed(acc, acc') /\ ~acc'.timer /\ acc'.sawStart = acc.sawStart
  BY <1>1, ForceFlushes
<1>3. /\ acc'.content = acc.content /\ acc'.messageId = acc.messageId /\ ~acc'.dirty
  BY <1>2 DEF Flushed
<1>4. /\ rows \in RowsOf /\ start \in Starting /\ finish \in Ending /\ waitFor \in 0..Len(acc.queue)
  BY DEF IInv, Typed, RowsOf
<1>5. waitFor \in 0..Len(acc'.queue)
  <2>1. acc.queue \in Seq(Write)
    BY <1>1 DEF Memory
  <2> QED
    BY <1>1, <1>2, <1>4, <2>1, UpdateIsWrite, AppendFacts DEF Flushed
<1>6. Typed' /\ Timed'
  BY <1>1, <1>2, <1>3, <1>5 DEF IInv, Typed, Timed
<1>7. ToldInv' /\ InStep'
  BY <1>1, <1>2, <1>3, ToldKept
<1>8. Queued(acc', rows) /\ ReadBack(acc', rows, start, finish)
  BY <1>1, <1>2, <1>4, QueuedFlushed, ReadBackKept DEF IInv, StoreInv
<1>9. ~early /\ ~late => Covered(acc', rows)
  BY <1>1, <1>2, <1>4, CoveredKept DEF IInv, StoreInv, Queued
<1>10. ~early => EndStored(acc', rows, finish, waitFor) /\ EndKept(acc', finish)
  BY <1>1, <1>2, <1>4, EndStoredKept DEF IInv, StoreInv
<1>11. ~(~late /\ finish.pc # "no")
  BY <1>1 DEF IInv, StoreInv, Drained
<1>12. StartsFirst'
  BY <1>1, <1>2, <1>3 DEF IInv, StoreInv, StartsFirst, Nothing, Flushed
<1>13. Drained' /\ Ended' /\ Ends'
  BY <1>1, <1>3, <1>11 DEF IInv, StoreInv, Drained, Ended, Ends
<1> QED
  BY <1>1, <1>6, <1>7, <1>8, <1>9, <1>10, <1>12, <1>13 DEF IInv, StoreInv

LEMMA Disposes == ASSUME IInv, Dispose, ClaudeWaits PROVE IInv'
<1>1. /\ acc \in Memory /\ finish.pc = "terminal" /\ acc' = [acc EXCEPT !.timer = FALSE]
      /\ UNCHANGED <<rows, reading, start, finish, waitFor, partial, claude, parser, early, late>>
  BY DEF IInv, Typed, Dispose, ClaudeWaits
<1>2. /\ acc' \in Memory /\ acc'.content = acc.content /\ acc'.messageId = acc.messageId
      /\ acc'.queue = acc.queue /\ acc'.dirty = acc.dirty /\ acc'.sawStart = acc.sawStart
      /\ ~acc'.timer
  BY <1>1, TimerCleared
<1>3. Typed' /\ Timed'
  BY <1>1, <1>2 DEF IInv, Typed, Timed
<1>4. ToldInv' /\ InStep'
  BY <1>1, <1>2, ToldKept
<1>5. Queued(acc, rows)' /\ ReadBack(acc, rows, start, finish)'
  BY <1>1, <1>2 DEF IInv, StoreInv, Queued, Begun, Inserts, Rows, Growing, ReadBack, Lags
<1>6. (~early /\ ~late => Covered(acc, rows))'
  BY <1>1, <1>2 DEF IInv, StoreInv, Covered
<1>7. (~early => EndStored(acc, rows, finish, waitFor) /\ EndKept(acc, finish))'
  BY <1>1, <1>2 DEF IInv, StoreInv, EndStored, EndKept
<1>8. StartsFirst' /\ Drained' /\ Ended' /\ Ends'
  BY <1>1, <1>2 DEF IInv, StoreInv, StartsFirst, Nothing, Drained, Ended, Ends
<1> QED
  BY <1>3, <1>4, <1>5, <1>6, <1>7, <1>8 DEF IInv, StoreInv

LEMMA QueuedWrites == ASSUME IInv, QueuedWrite, ClaudeWaits PROVE IInv'
<1> DEFINE q == acc.queue
           m == q[1].message
<1>1. /\ acc \in Memory /\ q \in Seq(Write) /\ q # <<>> /\ 1 \in DOMAIN q /\ Head(q) = q[1]
      /\ Len(q) \in Nat /\ Len(q) > 0
  BY DEF IInv, Typed, Memory, QueuedWrite
<1>2. /\ m \in Messages /\ q[1].content \in Seq(Told) /\ q[1] \in Write
      /\ q[1].op \in {"update", "insert"}
  BY <1>1, QueueFields
<1>3. /\ rows \in RowsOf /\ start \in Starting /\ finish \in Ending /\ waitFor \in 0..Len(q)
      /\ RowTyped(reading)
  BY DEF IInv, Typed, RowsOf
<1>4. UNCHANGED <<start, finish, partial, claude, parser, early, late>>
  BY DEF QueuedWrite, ClaudeWaits
<1>5. CASE reading' = rows[m] /\ UNCHANGED <<acc, rows, waitFor>>
  <2>1. Typed' /\ Timed'
    BY <1>2, <1>4, <1>5 DEF IInv, Typed, Timed
  <2>2. ToldInv' /\ InStep'
    BY <1>4, <1>5, ToldKept
  <2>3. StoreInv'
    BY <1>4, <1>5 DEF IInv, StoreInv, StartsFirst, Drained, Ended, Ends
  <2> QED
    BY <2>1, <2>2, <2>3 DEF IInv
<1>6. ASSUME NEW row \in TheRow, Present(row), rows' = [rows EXCEPT ![m] = row], Dequeue,
             RowTyped(reading'),
             \/ q[1].op = "update" /\ row.content = q[1].content
             \/ q[1].op = "insert" /\ row.content = <<>>
      PROVE  IInv'
  <2>1. /\ acc' = [acc EXCEPT !.queue = Tail(@)]
        /\ waitFor' = IF waitFor > 0 THEN waitFor - 1 ELSE 0
    BY <1>6 DEF Dequeue
  <2>2. Tail(q) \in Seq(Write) /\ Len(Tail(q)) = Len(q) - 1
    BY <1>1, TailFacts
  <2>3. /\ acc'.content = acc.content /\ acc'.messageId = acc.messageId
        /\ acc'.queue = Tail(q) /\ acc'.dirty = acc.dirty /\ acc'.sawStart = acc.sawStart
        /\ acc'.timer = acc.timer /\ acc' \in Memory
    BY <1>1, <2>1, <2>2 DEF Memory
  <2>4. Popped(acc, acc')
    BY <1>1, <2>3 DEF Popped
  <2>5. /\ rows' \in RowsOf /\ rows'[m] = row /\ \A n \in Messages : n # m => rows'[n] = rows[n]
    BY <1>2, <1>3, <1>6 DEF RowsOf
  <2>6. Lags(acc, m, row)
    <3>1. CASE q[1].op = "update"
      <4>1. Begins(q[1].content, acc.content[m])
        BY <1>1, <3>1 DEF IInv, StoreInv, Queued, Growing
      <4>2. ASSUME NEW i \in DOMAIN q, IsUpdate(q[i], m)
            PROVE  Len(q[1].content) <= Len(q[i].content)
        <5>1. i = 1 \/ 1 < i
          BY <1>1
        <5>2. Len(q[1].content) <= Len(q[1].content)
          BY <1>2
        <5> QED
          BY <1>1, <3>1, <4>2, <5>1, <5>2 DEF IInv, StoreInv, Queued, Growing
      <4> QED
        BY <1>6, <3>1, <4>1, <4>2 DEF Lags
    <3>2. CASE q[1].op = "insert"
      <4>1. row.content = <<>> /\ Len(row.content) = 0
        BY <1>6, <3>2
      <4>2. \A i \in DOMAIN q : Len(q[i].content) \in Nat
        BY <1>1, QueueFields
      <4>3. acc.content[m] \in Seq(Told)
        BY <1>1, <1>2 DEF Memory
      <4> QED
        BY <4>1, <4>2, <4>3, SMTT(30) DEF Lags, Begins
    <3> QED
      BY <1>2, <3>1, <3>2
  <2>7. Written(acc, rows, rows', m) /\ Stores(acc, rows, rows', m)
    BY <1>6, <2>5, <2>6 DEF Written, Stores
  <2> HIDE DEF m
  <2>8. Queued(acc', rows') /\ ReadBack(acc', rows', start, finish)
    BY <1>1, <1>2, <1>3, <2>3, <2>4, <2>5, <2>7, QueuedPopped, ReadBackPopped DEF IInv, StoreInv
  <2>9. ~early /\ ~late => Covered(acc', rows')
    BY <1>1, <1>2, <1>3, <2>3, <2>4, <2>5, <2>7, CoveredPopped DEF IInv, StoreInv
  <2>10. ~early => EndStored(acc', rows', finish, waitFor')
    BY <1>1, <1>2, <1>3, <2>1, <2>3, <2>4, <2>5, <2>7, EndStoredPopped DEF IInv, StoreInv
  <2>11. ~early => EndKept(acc', finish)
    BY <2>3 DEF IInv, StoreInv, EndKept
  <2>12. StartsFirst'
    BY <1>1, <1>4 DEF IInv, StoreInv, StartsFirst, Nothing
  <2>13. ~late /\ finish.pc # "no" => /\ finish.pc \in {"flush", "drain"}
                                      /\ ~acc.dirty /\ ~acc.timer /\ waitFor = Len(q)
    BY <1>1 DEF IInv, StoreInv, Drained
  <2>14. Drained'
    BY <1>1, <1>4, <2>1, <2>2, <2>3, <2>13 DEF Drained
  <2>15. Ended'
    BY <1>4, <2>3, <2>13 DEF IInv, StoreInv, Ended
  <2>16. Ends'
    BY <1>4, <2>3 DEF IInv, StoreInv, Ends
  <2>17. waitFor' \in 0..Len(acc'.queue)
    BY <1>1, <1>3, <2>1, <2>2, <2>3
  <2>18. Typed' /\ Timed'
    BY <1>2, <1>4, <1>6, <2>3, <2>5, <2>17 DEF IInv, Typed, Timed, RowsOf, RowTyped
  <2>19. ToldInv' /\ InStep'
    BY <1>4, <2>3, ToldKept
  <2> QED
    BY <1>4, <2>8, <2>9, <2>10, <2>11, <2>12, <2>14, <2>15, <2>16, <2>18, <2>19
       DEF IInv, StoreInv
<1>7. CASE /\ q[1].op = "update" /\ reading # NoRow
           /\ rows' = [rows EXCEPT ![m] = [reading EXCEPT !.content = q[1].content]]
           /\ reading' = NoRow /\ Dequeue
  <2> DEFINE row == [reading EXCEPT !.content = q[1].content]
  <2>1. row \in TheRow /\ row.status = reading.status /\ row.content = q[1].content
    BY <1>2, <1>3 DEF RowTyped, TheRow
  <2>2. Present(row) /\ rows' = [rows EXCEPT ![m] = row]
    BY <1>3, <1>7, <2>1 DEF RowTyped, Present
  <2>3. RowTyped(NoRow)
    BY DEF RowTyped, NoRow, TheRow, Statuses, Present
  <2> HIDE DEF row
  <2> QED
    BY <1>6, <1>7, <2>1, <2>2, <2>3
<1>8. CASE /\ q[1].op = "insert" /\ InsertAssistantRunMessage(m) /\ Dequeue /\ UNCHANGED reading
  <2> DEFINE row == [status |-> "running", content |-> <<>>]
  <2>1. row \in TheRow /\ row.content = <<>> /\ Present(row)
    BY DEF TheRow, Statuses, Present
  <2>2. rows' = [rows EXCEPT ![m] = row]
    BY <1>8 DEF InsertAssistantRunMessage
  <2>3. RowTyped(reading')
    BY <1>3, <1>8
  <2> HIDE DEF row
  <2> QED
    BY <1>6, <1>8, <2>1, <2>2, <2>3
<1> QED
  BY <1>1, <1>5, <1>7, <1>8 DEF QueuedWrite

(* A row with another status begins its message as before. *)
LEMMA Restated ==
  ASSUME NEW row, row \in TheRow, NEW status \in Statuses \ {"absent"}
  PROVE  LET row2 == [row EXCEPT !.status = status]
         IN /\ row2 \in TheRow /\ row2.status = status /\ row2.content = row.content
            /\ Present(row2) /\ RowTyped(row2)
            /\ \A a, m : Lags(a, m, row) => Lags(a, m, row2)
<1> DEFINE row2 == [row EXCEPT !.status = status]
<1>1. row2 \in TheRow /\ row2.status = status /\ row2.content = row.content
  BY DEF TheRow
<1> HIDE DEF row2
<1>2. Present(row2) /\ RowTyped(row2)
  BY <1>1 DEF Present, RowTyped
<1>3. \A a, m : Lags(a, m, row) => Lags(a, m, row2)
  BY <1>1 DEF Lags
<1> QED
  BY <1>1, <1>2, <1>3 DEF row2

LEMMA StartWrites == ASSUME IInv, StartWrite, ClaudeWaits PROVE IInv'
<1>1. /\ acc \in Memory /\ rows \in RowsOf /\ start \in Starting /\ finish \in Ending
      /\ 1 \in Messages /\ RowTyped(start.row) /\ start.row \in TheRow
      /\ UNCHANGED <<acc, reading, finish, waitFor, partial, claude, parser, early, late>>
  BY OneIsMessage DEF IInv, Typed, RowsOf, StartWrite, ClaudeWaits, RowTyped
<1>2. Queued(acc, rows) /\ ReadBack(acc, rows, start, finish)
  BY DEF IInv, StoreInv
<1>3. start.pc # "done" => (~early => finish.pc = "no")
  BY DEF IInv, StoreInv, Ends
<1>4. ToldInv' /\ InStep'
  BY <1>1, ToldKept
<1>5. Drained' /\ (early => finish.pc # "no")
  BY <1>1 DEF IInv, StoreInv, Drained, Ends
<1>6. CASE start.pc = "waiting" /\ start' = [pc |-> "read", row |-> rows[1]] /\ UNCHANGED rows
  <2>1. Typed' /\ Timed'
    BY <1>1, <1>6 DEF IInv, Typed, Timed, Starting
  <2>2. start'.pc = "read" /\ start'.row = rows[1]
    BY <1>6
  <2>3. ReadBack(acc, rows, start', finish)
    BY <1>1, <1>2, <2>2 DEF ReadBack, Queued, Rows, Growing
  <2>4. StartsFirst' /\ Ended' /\ Ends'
    BY <1>1, <1>6, <2>2 DEF IInv, StoreInv, StartsFirst, Ended, Ends
  <2> QED
    BY <1>1, <1>4, <1>5, <1>6, <2>1, <2>3, <2>4 DEF IInv, StoreInv
<1>7. CASE /\ start.pc = "read"
           /\ rows' = [rows EXCEPT ![1] = [start.row EXCEPT !.status = "running"]]
           /\ start' = [pc |-> "done", row |-> NoRow]
  <2> DEFINE row == [start.row EXCEPT !.status = "running"]
  <2>1. "running" \in Statuses \ {"absent"}
    BY DEF Statuses
  <2>2. /\ row \in TheRow /\ row.status = "running" /\ row.content = start.row.content
        /\ Present(row) /\ RowTyped(row)
        /\ \A a, m : Lags(a, m, start.row) => Lags(a, m, row)
    BY <1>1, <2>1, Restated
  <2> HIDE DEF row
  <2>3. rows' = [rows EXCEPT ![1] = row]
    BY <1>7 DEF row
  <2>4. /\ rows' \in RowsOf /\ rows'[1] = row
        /\ \A m \in Messages : m # 1 => rows'[m] = rows[m]
    BY <1>1, <2>2, <2>3 DEF RowsOf
  <2>5. Rewritten(acc, rows, rows')
    <3>1. Lags(acc, 1, row) /\ rows[1] # NoRow
      BY <1>2, <1>7, <2>2 DEF ReadBack, Queued, Rows, Present, NoRow
    <3> QED
      BY <1>2, <2>2, <2>4, <3>1 DEF Rewritten, Queued, Growing
  <2>6. /\ start'.pc = "done" /\ start'.row = NoRow /\ start' \in Starting /\ RowTyped(NoRow)
    BY <1>7 DEF Starting, NoRow, TheRow, Statuses, RowTyped, Present
  <2>7. Queued(acc, rows')
    BY <1>1, <1>2, <2>4, <2>5, QueuedRewritten
  <2>8. ReadBack(acc, rows', start, finish)
    BY <1>1, <1>2, <2>4, <2>5, ReadBackRewritten
  <2>9. ReadBack(acc, rows', start', finish)
    BY <2>6, <2>8 DEF ReadBack
  <2>10. ~early => Nothing(acc) /\ finish.pc = "no"
    BY <1>3, <1>7 DEF IInv, StoreInv, StartsFirst
  <2>11. ~early => Covered(acc, rows')
    <3> SUFFICES ASSUME ~early, NEW m \in Messages PROVE rows'[m].content = acc.content[m]
      BY DEF Covered
    <3>1. acc.content[m] = <<>> /\ rows'[m].content \in Seq(Told)
      BY <2>4, <2>10 DEF Nothing, RowsOf, TheRow
    <3>2. Begins(rows'[m].content, acc.content[m])
      BY <2>5 DEF Rewritten, Lags
    <3> QED
      BY <3>1, <3>2 DEF Begins
  <2>12. ~early => EndStored(acc, rows', finish, waitFor) /\ EndKept(acc, finish)
    BY <2>10 DEF EndStored, EndKept, Nothing
  <2>13. StartsFirst' /\ Ended' /\ Ends'
    BY <1>1, <1>3, <1>7, <2>6 DEF IInv, StoreInv, StartsFirst, Ended, Ends
  <2>14. Typed' /\ Timed'
    BY <1>1, <2>2, <2>4, <2>6 DEF IInv, Typed, Timed, RowsOf
  <2> QED
    BY <1>1, <1>4, <1>5, <2>7, <2>9, <2>11, <2>12, <2>13, <2>14 DEF IInv, StoreInv
<1> QED
  BY <1>6, <1>7 DEF StartWrite

LEMMA AwaitsQueue == ASSUME IInv, AwaitQueue, ClaudeWaits PROVE IInv'
<1>1. /\ acc \in Memory /\ finish \in Ending /\ finish.pc = "flush" /\ waitFor = 0
      /\ waitFor' = Len(acc.queue) /\ finish' = [finish EXCEPT !.pc = "drain"]
      /\ UNCHANGED <<acc, rows, reading, start, partial, claude, parser, early, late>>
  BY DEF IInv, Typed, AwaitQueue, ClaudeWaits
<1>2. /\ finish' \in Ending /\ finish'.pc = "drain" /\ finish'.row = finish.row
  BY <1>1 DEF Ending
<1>3. acc.queue \in Seq(Write) /\ waitFor' \in 0..Len(acc.queue)
  BY <1>1 DEF Memory
<1>4. Typed' /\ Timed'
  BY <1>1, <1>2, <1>3 DEF IInv, Typed, Timed
<1>5. ToldInv' /\ InStep'
  BY <1>1, ToldKept
<1>6. ReadBack(acc, rows, start, finish)'
  BY <1>1, <1>2 DEF IInv, StoreInv, ReadBack
<1>7. ~early => EndStored(acc, rows, finish', waitFor') /\ EndKept(acc, finish')
  BY <1>1, <1>2 DEF IInv, StoreInv, EndStored, EndKept
<1>8. StartsFirst' /\ Drained' /\ Ended' /\ Ends'
  BY <1>1, <1>2 DEF IInv, StoreInv, StartsFirst, Drained, Ended, Ends
<1> QED
  BY <1>1, <1>4, <1>5, <1>6, <1>7, <1>8 DEF IInv, StoreInv

LEMMA EndsMessages == ASSUME IInv, EndMessages, ClaudeWaits PROVE IInv'
<1>1. /\ acc \in Memory /\ rows \in RowsOf /\ start \in Starting /\ finish \in Ending
      /\ finish.pc = "drain" /\ waitFor = 0
      /\ rows' = [m \in Messages |->
                    IF rows[m] = NoRow THEN NoRow ELSE [rows[m] EXCEPT !.status = "ended"]]
      /\ finish' = [finish EXCEPT !.pc = "ended", !.message = acc.messageId]
      /\ UNCHANGED <<acc, reading, start, waitFor, partial, claude, parser, early, late>>
  BY DEF IInv, Typed, RowsOf, EndMessages, ClaudeWaits
<1>2. /\ finish' \in Ending /\ finish'.pc = "ended" /\ finish'.row = finish.row
      /\ finish'.message = acc.messageId
  BY <1>1 DEF Ending, Memory
<1>3. ASSUME NEW m \in Messages
      PROVE  /\ rows'[m] \in TheRow /\ RowTyped(rows'[m]) /\ rows'[m].content = rows[m].content
             /\ rows[m] = NoRow => rows'[m] = NoRow
             /\ rows[m] # NoRow => rows'[m].status = "ended" /\ Present(rows'[m])
             /\ \A a : Lags(a, m, rows[m]) => Lags(a, m, rows'[m])
  <2>1. rows[m] \in TheRow /\ RowTyped(rows[m])
    BY <1>1 DEF IInv, Typed, RowsOf
  <2>2. CASE rows[m] = NoRow
    BY <1>1, <2>1, <2>2
  <2>3. CASE rows[m] # NoRow
    <3>1. rows'[m] = [rows[m] EXCEPT !.status = "ended"] /\ "ended" \in Statuses \ {"absent"}
      BY <1>1, <2>3 DEF Statuses
    <3> QED
      BY <2>1, <2>3, <3>1, Restated
  <2> QED
    BY <2>2, <2>3
<1>4. rows' \in RowsOf
  BY <1>1, <1>3 DEF RowsOf
<1>5. Rewritten(acc, rows, rows')
  <2>1. \A m \in Messages : Present(rows[m]) => rows[m] # NoRow
    BY DEF Present, NoRow
  <2> QED
    BY <1>3, <2>1 DEF Rewritten, IInv, StoreInv, Queued, Growing
<1>6. Queued(acc, rows') /\ ReadBack(acc, rows', start, finish)
  BY <1>1, <1>4, <1>5, QueuedRewritten, ReadBackRewritten DEF IInv, StoreInv
<1>7. ReadBack(acc, rows', start, finish')
  BY <1>2, <1>6 DEF ReadBack
<1>8. ~early /\ ~late => Covered(acc, rows')
  BY <1>3 DEF IInv, StoreInv, Covered
<1>9. ~early => EndStored(acc, rows', finish', waitFor) /\ EndKept(acc, finish')
  BY <1>1, <1>2, <1>3 DEF IInv, StoreInv, EndStored, EndKept
<1>10. ~late => acc.queue = <<>> /\ ~acc.dirty /\ ~acc.timer
  <2>1. acc.queue \in Seq(Write)
    BY <1>1 DEF Memory
  <2> QED
    BY <1>1, <2>1 DEF IInv, StoreInv, Drained
<1>11. ASSUME ~late, NEW m \in Messages, m <= acc.messageId PROVE rows'[m].status = "ended"
  <2>1. Present(rows[m])
    BY <1>10, <1>11 DEF IInv, StoreInv, Queued, Rows
  <2> QED
    BY <1>3, <2>1 DEF Present, NoRow
<1>12. StartsFirst' /\ Drained' /\ Ends'
  BY <1>1, <1>2, <1>10 DEF IInv, StoreInv, StartsFirst, Drained, Ends
<1>13. Ended'
  BY <1>1, <1>2, <1>11 DEF Ended
<1>14. Typed' /\ Timed'
  BY <1>1, <1>2, <1>3, <1>4 DEF IInv, Typed, Timed, RowsOf
<1>15. ToldInv' /\ InStep'
  BY <1>1, ToldKept
<1> QED
  BY <1>1, <1>6, <1>7, <1>8, <1>9, <1>12, <1>13, <1>14, <1>15 DEF IInv, StoreInv

LEMMA ReadsLast == ASSUME IInv, ReadLast, ClaudeWaits PROVE IInv'
<1>1. /\ acc \in Memory /\ rows \in RowsOf /\ finish \in Ending /\ finish.pc = "ended"
      /\ UNCHANGED <<acc, rows, reading, start, waitFor, partial, claude, parser, early, late>>
  BY DEF IInv, Typed, RowsOf, ReadLast, ClaudeWaits
<1>2. PICK m \in finish.message..acc.messageId :
        finish' = [pc |-> IF rows[m] = NoRow THEN "failed" ELSE "read",
                   message |-> m, row |-> rows[m]]
  BY DEF ReadLast
<1>3. m \in Messages
  <2>1. finish.message \in Messages /\ acc.messageId \in Messages
    BY <1>1 DEF Ending, Memory
  <2> QED
    BY <1>2, <2>1, RunMessagesAssumption
<1>4. rows[m] \in TheRow /\ RowTyped(rows[m])
  BY <1>1, <1>3 DEF IInv, Typed, RowsOf
<1>5. /\ finish' \in Ending /\ RowTyped(finish'.row) /\ finish'.row = rows[m]
      /\ finish'.message = m /\ finish'.pc \in {"failed", "read"}
      /\ finish'.pc = "failed" <=> rows[m] = NoRow
  BY <1>2, <1>3, <1>4 DEF Ending
<1>6. Typed' /\ Timed'
  BY <1>1, <1>5 DEF IInv, Typed, Timed
<1>7. ToldInv' /\ InStep'
  BY <1>1, ToldKept
<1>8. ReadBack(acc, rows, start, finish')
  BY <1>3, <1>4, <1>5 DEF IInv, StoreInv, ReadBack, Queued, Growing, RowTyped
<1>9. ~early => EndStored(acc, rows, finish', waitFor) /\ EndKept(acc, finish')
  BY <1>1, <1>3, <1>5 DEF IInv, StoreInv, EndStored, EndKept
<1>10. ~late => m = acc.messageId /\ acc.queue = <<>>
  <2>1. ~late => finish.message = acc.messageId /\ acc.queue = <<>>
    BY <1>1 DEF IInv, StoreInv, Ended, Drained
  <2>2. acc.messageId \in Nat
    BY <1>1, OneIsMessage DEF Memory
  <2> QED
    BY <1>2, <2>1, <2>2
<1>11. ~late => rows[m] # NoRow
  <2>1. ~late => Present(rows[m])
    <3>1. acc.messageId <= acc.messageId
      BY <1>1, OneIsMessage DEF Memory
    <3> QED
      BY <1>3, <1>10, <3>1 DEF IInv, StoreInv, Queued, Rows
  <2> QED
    BY <2>1 DEF Present, NoRow
<1>12. Ended'
  BY <1>1, <1>5, <1>10, <1>11 DEF IInv, StoreInv, Ended
<1>13. StartsFirst' /\ Drained' /\ Ends'
  BY <1>1, <1>5 DEF IInv, StoreInv, StartsFirst, Drained, Ends
<1> QED
  BY <1>1, <1>6, <1>7, <1>8, <1>9, <1>12, <1>13 DEF IInv, StoreInv

LEMMA WritesLast == ASSUME IInv, WriteLast, ClaudeWaits PROVE IInv'
<1> DEFINE m == finish.message
           row == [finish.row EXCEPT !.status = "ended"]
<1>1. /\ acc \in Memory /\ rows \in RowsOf /\ start \in Starting /\ finish \in Ending
      /\ finish.pc = "read" /\ finish.row \in TheRow /\ m \in Messages
      /\ rows' = [rows EXCEPT ![m] = row] /\ finish' = [finish EXCEPT !.pc = "written"]
      /\ UNCHANGED <<acc, reading, start, waitFor, partial, claude, parser, early, late>>
  BY DEF IInv, Typed, RowsOf, WriteLast, ClaudeWaits, RowTyped, Ending
<1>2. "ended" \in Statuses \ {"absent"}
  BY DEF Statuses
<1>3. /\ row \in TheRow /\ row.status = "ended" /\ row.content = finish.row.content
      /\ Present(row) /\ RowTyped(row)
      /\ \A a, k : Lags(a, k, finish.row) => Lags(a, k, row)
  BY <1>1, <1>2, Restated
<1>4. /\ finish' \in Ending /\ finish'.pc = "written" /\ finish'.row = finish.row
      /\ finish'.message = m
  BY <1>1 DEF Ending
<1> HIDE DEF row, m
<1>5. rows' \in RowsOf /\ rows'[m] = row /\ \A k \in Messages : k # m => rows'[k] = rows[k]
  BY <1>1, <1>3 DEF RowsOf
<1>6. Present(rows[m]) /\ Lags(acc, m, finish.row) /\ rows[m] # NoRow
  BY <1>1 DEF IInv, StoreInv, ReadBack, m, Present, NoRow
<1>7. Rewritten(acc, rows, rows')
  BY <1>3, <1>5, <1>6 DEF Rewritten, IInv, StoreInv, Queued, Growing
<1>8. Queued(acc, rows') /\ ReadBack(acc, rows', start, finish)
  BY <1>1, <1>5, <1>7, QueuedRewritten, ReadBackRewritten DEF IInv, StoreInv
<1>9. ReadBack(acc, rows', start, finish')
  BY <1>4, <1>8 DEF ReadBack
<1>10. ~early /\ ~late => Covered(acc, rows')
  <2>1. ~early /\ ~late => row.content = rows[m].content
    BY <1>1, <1>3 DEF IInv, StoreInv, Ended, m
  <2>2. ~early /\ ~late => \A k \in Messages : rows'[k].content = rows[k].content
    BY <1>5, <2>1
  <2> QED
    BY <2>2 DEF IInv, StoreInv, Covered
<1>11. ~early => EndStored(acc, rows', finish', waitFor)
  <2> SUFFICES ASSUME ~early, NEW k \in Messages, NEW i \in DOMAIN acc.content[k],
                      acc.content[k][i] = EndEvent
               PROVE  i <= Len(rows'[k].content)
    BY DEF EndStored
  <2>1. CASE k = m
    BY <1>1, <1>3, <1>5, <2>1 DEF IInv, StoreInv, EndKept, m
  <2>2. CASE k # m
    BY <1>1, <1>5, <2>2 DEF IInv, StoreInv, EndStored
  <2> QED
    BY <2>1, <2>2
<1>12. EndKept(acc, finish')
  BY <1>4 DEF EndKept
<1>13. StartsFirst' /\ Drained' /\ Ends'
  BY <1>1, <1>4 DEF IInv, StoreInv, StartsFirst, Drained, Ends
<1>14. ~late => m = acc.messageId
  BY <1>1 DEF IInv, StoreInv, Ended, m
<1>15. Ended'
  BY <1>1, <1>3, <1>4, <1>5, <1>14 DEF IInv, StoreInv, Ended
<1>16. Typed' /\ Timed'
  BY <1>1, <1>3, <1>4, <1>5 DEF IInv, Typed, Timed, RowsOf
<1>17. ToldInv' /\ InStep'
  BY <1>1, ToldKept
<1> QED
  BY <1>1, <1>8, <1>9, <1>10, <1>11, <1>12, <1>13, <1>15, <1>16, <1>17 DEF IInv, StoreInv

LEMMA CommitsRun == ASSUME IInv, CommitRun, ClaudeWaits PROVE IInv'
<1>1. /\ finish \in Ending /\ finish.pc = "written" /\ finish' = [finish EXCEPT !.pc = "terminal"]
      /\ UNCHANGED <<acc, rows, reading, start, waitFor, partial, claude, parser, early, late>>
  BY DEF IInv, Typed, CommitRun, ClaudeWaits
<1>2. /\ finish' \in Ending /\ finish'.pc = "terminal" /\ finish'.row = finish.row
  BY <1>1 DEF Ending
<1>3. Typed' /\ Timed'
  BY <1>1, <1>2 DEF IInv, Typed, Timed
<1>4. ToldInv' /\ InStep'
  BY <1>1, ToldKept
<1>5. ReadBack(acc, rows, start, finish)'
  BY <1>1, <1>2 DEF IInv, StoreInv, ReadBack
<1>6. ~early => EndStored(acc, rows, finish', waitFor) /\ EndKept(acc, finish')
  BY <1>1, <1>2 DEF IInv, StoreInv, EndStored, EndKept
<1>7. StartsFirst' /\ Drained' /\ Ended' /\ Ends'
  BY <1>1, <1>2 DEF IInv, StoreInv, StartsFirst, Drained, Ended, Ends
<1> QED
  BY <1>1, <1>3, <1>4, <1>5, <1>6, <1>7 DEF IInv, StoreInv

(* finishRun: the end event is appended, and queued with what it ends. *)
LEMMA Finishes == ASSUME IInv, Finish PROVE IInv'
<1> DEFINE a == ConsumeEvent(acc, EndEvent)
           b == ForceFlush(a)
<1>1. /\ acc \in Memory /\ rows \in RowsOf /\ start \in Starting /\ finish \in Ending
      /\ finish.pc = "no" /\ finish' = [finish EXCEPT !.pc = "flush"]
      /\ UNCHANGED <<rows, reading, start, partial, claude, parser, late>>
      /\ early' = (start.pc # "done")
  BY DEF IInv, Typed, RowsOf, Finish, FlushTerminal
<1>2. acc' = b /\ waitFor' = Len(b.queue)
  <2>1. Consume(acc, <<EndEvent>>) = a
    BY DEF Consume
  <2> QED
    BY <2>1 DEF Finish, FlushTerminal
<1>3. a \in Memory /\ Appended(acc, a, EndEvent) /\ a.sawStart = acc.sawStart
  BY <1>1, EndIsTold, Appends
<1>4. b \in Memory /\ Flushed(a, b) /\ ~b.timer /\ b.sawStart = acc.sawStart
  BY <1>3, ForceFlushes
<1> HIDE DEF a, b
<1>5. /\ b.content = a.content /\ b.messageId = acc.messageId /\ a.messageId = acc.messageId
      /\ acc.messageId \in Messages /\ a.dirty /\ ~b.dirty
  BY <1>1, <1>3, <1>4 DEF Appended, Flushed, Memory
<1>6. /\ finish' \in Ending /\ finish'.pc = "flush" /\ finish'.row = finish.row
  BY <1>1 DEF Ending
<1>7. ~late /\ ~early /\ ~HasEnd(acc)
  BY <1>1 DEF IInv, StoreInv, Ends, HasEnd, InMessage
<1>8. Queued(b, rows) /\ ReadBack(b, rows, start, finish)
  <2>1. Queued(a, rows) /\ ReadBack(a, rows, start, finish)
    BY <1>1, <1>3, EndIsTold, QueuedAppended, ReadBackKept DEF IInv, StoreInv
  <2> QED
    BY <1>1, <1>3, <1>4, <2>1, QueuedFlushed, ReadBackKept
<1>9. ReadBack(b, rows, start, finish')
  BY <1>6, <1>8 DEF ReadBack
<1>10. Covered(b, rows)
  <2>1. Covered(a, rows) /\ Begun(a, rows)
    BY <1>1, <1>3, <1>7, EndIsTold, CoveredKept, QueuedAppended DEF IInv, StoreInv, Queued
  <2> QED
    BY <1>1, <1>3, <1>4, <2>1, CoveredKept
<1>11. \A m \in Messages : \A i \in DOMAIN b.content[m] :
         b.content[m][i] = EndEvent =>
           m = acc.messageId /\ i = Len(acc.content[m]) + 1
  <2> SUFFICES ASSUME NEW m \in Messages, NEW i \in DOMAIN b.content[m], b.content[m][i] = EndEvent
               PROVE  m = acc.messageId /\ i = Len(acc.content[m]) + 1
    OBVIOUS
  <2>1. ~InMessage(acc, m, EndEvent) /\ acc.content[m] \in Seq(Told)
    BY <1>1, <1>7 DEF HasEnd, Memory
  <2>2. InMessage(a, m, EndEvent)
    BY <1>5 DEF InMessage
  <2>3. m = acc.messageId
    BY <1>1, <1>3, <2>1, <2>2, EndIsTold, InAppended
  <2>4. b.content[m] = Append(acc.content[m], EndEvent)
    BY <1>1, <1>3, <1>5, <2>3 DEF Appended, Memory
  <2>5. i \in 1..Len(acc.content[m]) \/ i = Len(acc.content[m]) + 1
    BY <2>1, <2>4, EndIsTold, AppendFacts
  <2>6. i \notin 1..Len(acc.content[m])
    BY <2>1, <2>4, EndIsTold, AppendFacts DEF InMessage
  <2> QED
    BY <2>3, <2>5, <2>6
<1>12. EndStored(b, rows, finish', Len(b.queue))
  <2> DEFINE w == [op |-> "update", message |-> a.messageId, content |-> a.content[a.messageId]]
  <2>1. b.queue = Append(a.queue, w) /\ w \in Write /\ a.queue \in Seq(Write)
    BY <1>3, <1>4, <1>5, UpdateIsWrite DEF Flushed, Memory
  <2>2. w.op = "update" /\ w.message = acc.messageId /\ w.content = b.content[acc.messageId]
    BY <1>5
  <2> HIDE DEF w
  <2>3. Len(b.queue) > 0 /\ b.queue[Len(b.queue)] = w
    BY <2>1, AppendFacts
  <2>4. b.content[acc.messageId] \in Seq(Told)
    BY <1>4, <1>5 DEF Memory
  <2>5. \A i \in DOMAIN b.content[acc.messageId] : i <= Len(w.content)
    BY <2>2, <2>4
  <2> QED
    BY <1>6, <1>11, <2>2, <2>3, <2>5 DEF EndStored, IsUpdate
<1>13. InMessage(b, acc.messageId, EndEvent)
  BY SMTT(30), <1>1, <1>3, <1>5, EndIsTold, InAppended DEF InMessage
<1>14. Ends'
  BY <1>1, <1>2, <1>5, <1>6, <1>13 DEF Ends, InMessage
<1>15. StartsFirst' /\ Drained' /\ Ended' /\ EndKept(b, finish')
  BY <1>2, <1>4, <1>5, <1>6 DEF StartsFirst, Drained, Ended, EndKept
<1>16. StoreInv'
  BY <1>1, <1>2, <1>8, <1>9, <1>10, <1>12, <1>14, <1>15 DEF StoreInv
<1>17. waitFor' \in 0..Len(acc'.queue)
  BY <1>2, <1>4 DEF Memory
<1>18. Typed' /\ Timed'
  BY <1>1, <1>2, <1>4, <1>5, <1>6, <1>17 DEF IInv, Typed, Timed
<1>19. InStep'
  BY <1>1, <1>2, <1>4, <1>5, <1>6 DEF IInv, InStep, Reached
<1>20. \A m \in Messages : \A x : InMessage(b, m, x) <=>
         InMessage(acc, m, x) \/ (m = acc.messageId /\ x = EndEvent)
  <2>1. \A m \in Messages : \A x : InMessage(b, m, x) <=> InMessage(a, m, x)
    BY <1>5 DEF InMessage
  <2> QED
    BY <1>1, <1>3, <2>1, EndIsTold, InAppended
<1>21. ASSUME NEW m \in Messages, NEW i \in DOMAIN b.content[m], b.content[m][i] # EndEvent
       PROVE  i \in DOMAIN acc.content[m] /\ acc.content[m][i] = b.content[m][i]
  <2>1. acc.content[m] \in Seq(Told)
    BY <1>1 DEF Memory
  <2>2. CASE m # acc.messageId
    BY <1>1, <1>3, <1>5, <2>2 DEF Appended, Memory
  <2>3. CASE m = acc.messageId
    <3>1. b.content[m] = Append(acc.content[m], EndEvent)
      BY <1>1, <1>3, <1>5, <2>3 DEF Appended, Memory
    <3> QED
      BY <1>21, <2>1, <3>1, EndIsTold, AppendFacts
  <2> QED
    BY <2>2, <2>3
<1>22. Placed(b, claude)
  BY <1>21 DEF IInv, ToldInv, Placed
<1>23. Once(b)
  <2> SUFFICES ASSUME NEW m \in Messages, NEW i \in DOMAIN b.content[m],
                      NEW j \in DOMAIN b.content[m], b.content[m][i] = b.content[m][j]
               PROVE  i = j
    BY DEF Once
  <2>1. CASE b.content[m][i] = EndEvent
    BY <1>11, <2>1
  <2>2. CASE b.content[m][i] # EndEvent
    BY <1>21, <2>2 DEF IInv, ToldInv, Once
  <2> QED
    BY <2>1, <2>2
<1>24. EndOnce'
  BY <1>2, <1>7, <1>20 DEF EndOnce, HasEnd
<1>25. ToolsKnown'
  <2>1. \A block \in Block : BlockEvent(block) # EndEvent
    BY Events
  <2> QED
    BY <1>1, <1>2, <1>20, <2>1 DEF IInv, ToldInv, ToolsKnown
<1>26. TextKnown'
  <2>1. CurrentBlock' = CurrentBlock
    BY <1>1 DEF CurrentBlock
  <2>2. \A m \in Messages : \A i \in DOMAIN b.content[m] :
          ~partial /\ claude.pc = "block" /\ b.content[m][i] # EndEvent /\ m = claude.message =>
             b.content[m][i].block.place < claude.place
    BY <1>21 DEF IInv, ToldInv, TextKnown
  <2>3. \A m \in Messages : \A x : InMessage(acc, m, x) => InMessage(acc', m, x)
    BY <1>2, <1>20
  <2>4. /\ ~partial => parser.textStreamed = {}
        /\ partial /\ claude.pc \in {"message", "block"} => parser.current = claude.message
        /\ partial /\ claude.pc = "block" /\ ~claude.tool =>
             /\ claude.message \in parser.textStreamed
             /\ ~late => \E m \in Messages : InMessage(acc', m, BlockEvent(CurrentBlock'))
    BY <2>1, <2>3 DEF IInv, ToldInv, TextKnown
  <2>5. ~partial /\ claude.pc = "block" =>
          \A m \in Messages : \A i \in DOMAIN acc'.content[m] :
            acc'.content[m][i] # EndEvent /\ m = claude.message =>
              acc'.content[m][i].block.place < claude.place
    BY <1>2, <2>2
  <2> QED
    BY <1>1, <2>4, <2>5 DEF TextKnown
<1>27. AllTold'
  BY <1>1, <1>2, <1>20 DEF IInv, ToldInv, AllTold
<1> QED
  BY <1>1, <1>2, <1>16, <1>18, <1>19, <1>22, <1>23, <1>24, <1>25, <1>26, <1>27 DEF IInv, ToldInv

-----------------------------------------------------------------------------
(* The steps of Claude. *)

LEMMA StoreKept ==
  ASSUME IInv, UNCHANGED <<accVars, partial, parser, early, late>>,
         claude.pc # "none" \/ start.pc = "done"
  PROVE  StoreInv' /\ Timed'
<1>1. UNCHANGED <<acc, rows, reading, start, finish, waitFor, early, late>>
  BY DEF accVars
<1>2. StartsFirst'
  BY <1>1 DEF IInv, StoreInv, StartsFirst
<1>3. Drained' /\ Ended' /\ Ends' /\ Timed'
  BY <1>1 DEF IInv, StoreInv, Drained, Ended, Ends, Timed
<1> QED
  BY <1>1, <1>2, <1>3 DEF IInv, StoreInv

(* Claude is spawned, ends a message or closes: nothing is told. *)
LEMMA TellsNothing ==
  ASSUME IInv, UNCHANGED <<accVars, partial, parser, early, late>>,
         NEW pc \in {"between", "closed"}, claude' = [claude EXCEPT !.pc = pc],
         claude.pc # "none" \/ start.pc = "done",
         pc = "between" /\ claude.message > 0 => claude.message \in parser.started
  PROVE  IInv'
<1>1. /\ claude \in Process
      /\ UNCHANGED <<acc, rows, reading, start, finish, waitFor, partial, parser, early, late>>
  BY DEF IInv, Typed, accVars
<1>2. /\ claude' \in Process /\ claude'.pc = pc /\ claude'.message = claude.message
      /\ claude'.place = claude.place /\ claude'.told = claude.told
  BY <1>1 DEF Process
<1>3. Typed'
  BY <1>1, <1>2 DEF IInv, Typed
<1>4. InStep'
  BY <1>1, <1>2 DEF IInv, InStep, Reached
<1>5. ToldInv'
  BY <1>1, <1>2 DEF IInv, ToldInv, Placed, Once, EndOnce, ToolsKnown, TextKnown, AllTold, InMessage
<1>6. StoreInv' /\ Timed'
  BY StoreKept
<1> QED
  BY <1>3, <1>4, <1>5, <1>6 DEF IInv

LEMMA Spawns == ASSUME IInv, Spawn PROVE IInv'
BY TellsNothing DEF Spawn, IInv, InStep

LEMMA EndsMessage == ASSUME IInv, EndMessage PROVE IInv'
BY TellsNothing DEF EndMessage, IInv, InStep

LEMMA Closes == ASSUME IInv, Close PROVE IInv'
BY TellsNothing DEF Close

(* What the parser makes of a line reaches the accumulator while the run *)
(* takes events.                                                          *)
LEMMA FeedIs ==
  ASSUME IInv, NEW p, NEW events, Feed([parser |-> p, events |-> events])
  PROVE  /\ parser' = p /\ late' = (late \/ finish.pc # "no")
         /\ finish.pc = "terminal" => acc' = acc
         /\ finish.pc # "terminal" => acc' = Consume(acc, events)
         /\ UNCHANGED <<rows, reading, start, finish, waitFor, partial, early>>
         /\ late' \in BOOLEAN /\ (~late' => ~late /\ finish.pc = "no")
BY DEF Feed, IInv, Typed

LEMMA PairConsumed ==
  ASSUME NEW a, NEW d, NEW e
  PROVE  Consume(a, <<d, e>>) = ConsumeEvent(ConsumeEvent(a, d), e)
<1>1. <<d, e>> # <<>> /\ Len(<<d, e>>) = 2 /\ <<d, e>>[1] = d /\ <<d, e>>[2] = e
  OBVIOUS
<1> QED
  BY <1>1 DEF Consume

LEMMA ConsumeIs ==
  ASSUME NEW a, NEW e
  PROVE  /\ Consume(a, <<>>) = a
         /\ Consume(a, <<e>>) = ConsumeEvent(a, e)
         /\ ConsumeEvent(a, MessageStartEvent) = StartAssistantMessageSegment(a)
<1>1. <<e>> # <<>> /\ Len(<<e>>) = 1 /\ <<e>>[1] = e
  OBVIOUS
<1>2. MessageStartEvent.type = "assistant_message_start"
  BY DEF MessageStartEvent
<1>3. Consume(a, <<>>) = a
  BY DEF Consume
<1>4. Consume(a, <<e>>) = ConsumeEvent(a, e)
  BY <1>1 DEF Consume
<1> QED
  BY <1>2, <1>3, <1>4 DEF ConsumeEvent

LEMMA FeedStores ==
  ASSUME IInv, claude.pc # "none", acc' \in Memory,
         finish.pc = "terminal" => acc' = acc,
         finish.pc # "terminal" => Fits(acc'),
         late' = (late \/ finish.pc # "no"),
         UNCHANGED <<rows, reading, start, finish, waitFor, partial, early>>
  PROVE  StoreInv' /\ Timed' /\ waitFor' \in 0..Len(acc'.queue)
<1>1. ~(start.pc # "done" /\ finish.pc = "no")
  BY DEF IInv, StoreInv, StartsFirst
<1>2. StartsFirst' /\ Drained'
  BY <1>1 DEF StartsFirst, Drained
<1>3. Ended'
  BY DEF Ended, IInv, StoreInv, Ends
<1>4. CASE finish.pc = "terminal"
  <2>1. acc' = acc /\ late'
    BY <1>4
  <2>2. Ends' /\ Timed'
    BY <2>1, <1>4 DEF IInv, StoreInv, Ends, Timed
  <2>3. waitFor' \in 0..Len(acc'.queue)
    BY <2>1 DEF IInv, Typed
  <2> QED
    BY <1>2, <1>3, <2>1, <2>2, <2>3 DEF IInv, StoreInv
<1>5. CASE finish.pc # "terminal"
  <2>1. Fits(acc')
    BY <1>5
  <2>2. Queued(acc', rows') /\ ReadBack(acc', rows', start', finish')
    BY <2>1 DEF Fits
  <2>3. ~early' /\ ~late' => Covered(acc', rows')
    BY <2>1 DEF Fits
  <2>4. ~early' => EndStored(acc', rows', finish', waitFor') /\ EndKept(acc', finish')
    BY <2>1 DEF Fits
  <2>5. Ends'
    BY <2>1 DEF Fits, HasEnd, InMessage, Ends, IInv, StoreInv
  <2>6. Timed' /\ waitFor' \in 0..Len(acc'.queue)
    BY <2>1 DEF Fits, Timed
  <2> QED
    BY <1>2, <1>3, <2>2, <2>3, <2>4, <2>5, <2>6 DEF StoreInv
<1> QED
  BY <1>4, <1>5

(* A block is appended to the message Claude is at. *)
NewBlock(block) ==
  \E a \in Memory : /\ a.content = acc.content /\ a.messageId = claude.message
                    /\ Appended(a, acc', BlockEvent(block))

LEMMA BlockTold ==
  ASSUME IInv, acc' \in Memory, claude'.message = claude.message, claude' \in Process,
         claude.place <= claude'.place, NEW block \in Block,
         block.message = claude.message, block.place <= claude'.place,
         \/ acc'.content = acc.content
         \/ NewBlock(block) /\ ~InMessage(acc, claude.message, BlockEvent(block))
  PROVE  /\ Placed(acc', claude') /\ Once(acc') /\ EndOnce'
         /\ \A m \in Messages : \A x : InMessage(acc, m, x) => InMessage(acc', m, x)
         /\ \A m \in Messages : \A x :
              InMessage(acc', m, x) => InMessage(acc, m, x) \/ x = BlockEvent(block)
         /\ NewBlock(block) => /\ claude.message \in Messages
                               /\ InMessage(acc', claude.message, BlockEvent(block))
<1>1. /\ acc \in Memory /\ claude \in Process /\ BlockEvent(block) \in Told
      /\ BlockEvent(block) # EndEvent /\ BlockEvent(block).block = block
      /\ Placed(acc, claude) /\ Once(acc) /\ EndOnce
      /\ claude.place \in Nat /\ claude'.place \in Nat
      /\ acc.content \in [Messages -> Seq(Told)]
  BY Events DEF IInv, Typed, ToldInv, Process, Memory
<1>2. ASSUME NEW m \in Messages, NEW i \in DOMAIN acc.content[m], acc.content[m][i] # EndEvent
      PROVE  acc.content[m][i].block.place \in Nat
  <2>1. acc.content[m] \in Seq(Told) /\ acc.content[m][i] \in Told
    BY <1>1
  <2>2. acc.content[m][i].block \in Block
    BY <1>2, <2>1, ToldIs
  <2> QED
    BY <2>2 DEF Block
<1>3. CASE acc'.content = acc.content
  <2>1. Placed(acc', claude')
    BY <1>1, <1>2, <1>3 DEF Placed
  <2>2. \A m \in Messages : \A x : InMessage(acc', m, x) <=> InMessage(acc, m, x)
    BY <1>3 DEF InMessage
  <2>3. ~NewBlock(block)
    <3> SUFFICES ASSUME NEW a \in Memory, a.content = acc.content, a.messageId = claude.message,
                        Appended(a, acc', BlockEvent(block))
                 PROVE  FALSE
      BY DEF NewBlock
    <3>1. a.messageId \in Messages /\ acc.content[a.messageId] \in Seq(Told)
      BY <1>1 DEF Memory
    <3>2. acc'.content[a.messageId] = Append(acc.content[a.messageId], BlockEvent(block))
      BY <1>1, <3>1 DEF Appended
    <3>3. Len(acc'.content[a.messageId]) = Len(acc.content[a.messageId]) + 1
          /\ Len(acc.content[a.messageId]) \in Nat
      BY <1>1, <3>1, <3>2, AppendFacts
    <3> QED
      BY <1>3, <3>3
  <2> QED
    BY <1>1, <1>3, <2>1, <2>2, <2>3 DEF Once, EndOnce
<1>4. ASSUME NewBlock(block), ~InMessage(acc, claude.message, BlockEvent(block))
      PROVE  /\ Placed(acc', claude') /\ Once(acc') /\ EndOnce'
             /\ \A m \in Messages : \A x : InMessage(acc, m, x) => InMessage(acc', m, x)
             /\ \A m \in Messages : \A x :
                  InMessage(acc', m, x) => InMessage(acc, m, x) \/ x = BlockEvent(block)
             /\ claude.message \in Messages
             /\ InMessage(acc', claude.message, BlockEvent(block))
  <2>1. PICK a \in Memory : /\ a.content = acc.content /\ a.messageId = claude.message
                            /\ Appended(a, acc', BlockEvent(block))
    BY <1>4 DEF NewBlock
  <2>2. claude.message \in Messages
    BY <2>1 DEF Memory
  <2>3. \A m \in Messages : \A x : InMessage(acc', m, x) <=>
          InMessage(acc, m, x) \/ (m = claude.message /\ x = BlockEvent(block))
    <3>1. \A m \in Messages : \A x : InMessage(a, m, x) <=> InMessage(acc, m, x)
      BY <2>1 DEF InMessage
    <3> QED
      BY <1>1, <2>1, <3>1, InAppended
  <2>4. \A m \in Messages : m # claude.message => acc'.content[m] = acc.content[m]
    BY <1>1, <2>1, <2>2 DEF Appended
  <2>5. /\ acc'.content[claude.message] = Append(acc.content[claude.message], BlockEvent(block))
        /\ acc.content[claude.message] \in Seq(Told)
    BY <1>1, <2>1, <2>2 DEF Appended
  <2> DEFINE s == acc.content[claude.message]
             t == acc'.content[claude.message]
  <2>6. /\ Len(s) \in Nat /\ DOMAIN s = 1..Len(s) /\ DOMAIN t = 1..(Len(s) + 1)
        /\ \A i \in 1..Len(s) : t[i] = s[i]
        /\ t[Len(s) + 1] = BlockEvent(block)
    BY <1>1, <2>5, AppendFacts
  <2>7. \A i \in DOMAIN t : (i \in DOMAIN s /\ t[i] = s[i]) \/ (i = Len(s) + 1 /\ t[i] = BlockEvent(block))
    BY <2>6, SMTT(30)
  <2>8. \A i \in DOMAIN s : s[i] # BlockEvent(block)
    BY <1>4 DEF InMessage
  <2> HIDE DEF s, t
  <2>9. Placed(acc', claude')
    <3> SUFFICES ASSUME NEW m \in Messages, NEW i \in DOMAIN acc'.content[m],
                        acc'.content[m][i] # EndEvent
                 PROVE  /\ acc'.content[m][i].block.message = m
                        /\ m <= claude'.message
                        /\ m = claude'.message => acc'.content[m][i].block.place <= claude'.place
      BY DEF Placed
    <3>1. CASE i \in DOMAIN acc.content[m] /\ acc'.content[m][i] = acc.content[m][i]
      BY <1>1, <1>2, <3>1 DEF Placed
    <3>2. CASE m = claude.message /\ acc'.content[m][i] = BlockEvent(block)
      BY <1>1, <2>2, <3>2, OneIsMessage
    <3> QED
      BY <2>4, <2>7, <3>1, <3>2 DEF s, t
  <2>10. Once(acc')
    <3> SUFFICES ASSUME NEW m \in Messages, NEW i \in DOMAIN acc'.content[m],
                        NEW j \in DOMAIN acc'.content[m], acc'.content[m][i] = acc'.content[m][j]
                 PROVE  i = j
      BY DEF Once
    <3>1. CASE m # claude.message
      BY <1>1, <2>4, <3>1 DEF Once
    <3>2. CASE m = claude.message
      <4>1. \A k, l \in DOMAIN s : s[k] = s[l] => k = l
        BY <1>1, <2>2 DEF Once, s
      <4>2. i \in DOMAIN t /\ j \in DOMAIN t /\ t[i] = t[j]
        BY <3>2 DEF t
      <4> QED
        BY <2>7, <2>8, <4>1, <4>2
    <3> QED
      BY <3>1, <3>2
  <2>11. EndOnce'
    BY <1>1, <2>3 DEF EndOnce
  <2>12. InMessage(acc', claude.message, BlockEvent(block))
    BY <2>2, <2>3
  <2> QED
    BY <2>2, <2>3, <2>9, <2>10, <2>11, <2>12
<1> QED
  BY <1>3, <1>4

(* Where the accumulator is, unless the run is terminal. *)
LEMMA Follows ==
  ASSUME IInv
  PROVE  /\ claude.message \in 0..MaxMessages /\ MaxMessages \in Nat
         /\ \A n \in 1..MaxMessages : n \in Messages
         /\ acc.messageId \in Messages
         /\ parser.started = 1..Reached
         /\ finish.pc # "terminal" =>
              /\ acc.sawStart <=> Reached > 0
              /\ acc.messageId = IF Reached > 0 THEN Reached ELSE 1
BY RunMessagesAssumption DEF IInv, Typed, InStep, Process, Memory

LEMMA NextMessages == ASSUME IInv, NextMessage PROVE IInv'
<1> DEFINE n == claude.message + 1
<1>1. /\ claude.pc = "between" /\ claude.message < MaxMessages /\ claude \in Process
      /\ claude' = [claude EXCEPT !.pc = "message", !.message = @ + 1, !.place = 0]
      /\ acc \in Memory /\ parser \in Parser /\ partial \in BOOLEAN
  BY DEF NextMessage, IInv, Typed
<1>2. /\ claude' \in Process /\ claude'.pc = "message" /\ claude'.message = n
      /\ claude'.place = 0 /\ claude'.told = claude.told
      /\ n \in 1..MaxMessages /\ claude.message \in Nat /\ n \in Messages
  <2>1. n \in 1..MaxMessages /\ n \in 0..MaxMessages /\ claude.message \in Nat /\ n \in Messages
    BY <1>1, Follows
  <2>2. claude' = [claude EXCEPT !.pc = "message", !.message = n, !.place = 0]
    BY <1>1
  <2> HIDE DEF n
  <2>3. claude' = [pc |-> "message", message |-> n, place |-> 0, tool |-> claude.tool,
                   told |-> claude.told]
    BY <1>1, <2>2 DEF Process
  <2>4. claude.tool \in BOOLEAN /\ claude.told \in SUBSET Told
    BY <1>1 DEF Process
  <2>5. claude' \in Process
    BY <2>1, <2>3, <2>4 DEF Process
  <2> QED
    BY <2>1, <2>3, <2>5
<1>3. /\ Reached = IF claude.message > 0 THEN claude.message ELSE -1
      /\ parser.started = 1..claude.message
  <2>1. CASE claude.message > 0
    <3>1. claude.message \in parser.started
      BY <1>1, <2>1 DEF IInv, InStep
    <3>2. Reached = claude.message
      BY <3>1 DEF Reached
    <3> QED
      BY <2>1, <3>2, Follows
  <2>2. CASE claude.message = 0
    <3>1. 0 \notin 1..Reached
      OBVIOUS
    <3>2. claude.message \notin parser.started
      BY <2>2, <3>1, Follows
    <3>3. Reached = -1
      BY <2>2, <3>2 DEF Reached
    <3> QED
      BY <2>2, <3>3, Follows
  <2> QED
    BY <1>2, <2>1, <2>2
<1>4. n \notin parser.started
  BY <1>2, <1>3
<1>5. PICK p, events :
        /\ Feed([parser |-> p, events |-> events])
        /\ partial => /\ p = [parser EXCEPT !.current = n, !.started = @ \cup {n}]
                      /\ events = <<MessageStartEvent>>
        /\ ~partial => p = parser /\ events = <<>>
  <2>1. CASE partial
    <3>1. MessageStart(parser, n) =
            [parser |-> [parser EXCEPT !.current = n, !.started = @ \cup {n}],
             events |-> <<MessageStartEvent>>]
      BY <1>4 DEF MessageStart, EmitAssistantMessageStart
    <3> QED
      BY <2>1, <3>1 DEF NextMessage
  <2>2. CASE ~partial
    BY <2>2 DEF NextMessage
  <2> QED
    BY <2>1, <2>2
<1>6. /\ parser' = p /\ late' = (late \/ finish.pc # "no")
      /\ finish.pc = "terminal" => acc' = acc
      /\ finish.pc # "terminal" => acc' = Consume(acc, events)
      /\ UNCHANGED <<rows, reading, start, finish, waitFor, partial, early>>
      /\ late' \in BOOLEAN /\ (~late' => ~late /\ finish.pc = "no")
  BY <1>5, FeedIs
<1>7. /\ parser' \in Parser /\ parser'.tools = parser.tools
      /\ parser'.textStreamed = parser.textStreamed
      /\ partial => parser'.current = n /\ parser'.started = parser.started \cup {n}
      /\ ~partial => parser'.started = parser.started
  <2>1. n \in Nat /\ parser.started \cup {n} \in SUBSET Nat
    BY <1>1, <1>2 DEF Parser
  <2> HIDE DEF n
  <2>2. partial => parser' = [parser EXCEPT !.current = n, !.started = parser.started \cup {n}]
    BY <1>5, <1>6
  <2> QED
    BY <1>1, <1>5, <1>6, <2>1, <2>2 DEF Parser
<1>8. /\ acc' \in Memory /\ acc'.content = acc.content
      /\ finish.pc # "terminal" => Fits(acc')
      /\ finish.pc # "terminal" /\ ~partial => acc' = acc
      /\ finish.pc # "terminal" /\ partial =>
           /\ acc'.sawStart
           /\ acc'.messageId = IF acc.sawStart THEN acc.messageId + 1 ELSE acc.messageId
  <2>1. CASE finish.pc = "terminal" \/ ~partial
    BY <1>1, <1>5, <1>6, <2>1, AccFits, ConsumeIs
  <2>2. CASE finish.pc # "terminal" /\ partial
    <3>1. acc' = StartAssistantMessageSegment(acc)
      BY <1>5, <1>6, <2>2, ConsumeIs
    <3>2. Typed /\ Fits(acc)
      BY <2>2, AccFits DEF IInv
    <3>3. acc.sawStart => acc.messageId + 1 \in Messages
      BY <1>2, <1>3, <2>2, Follows
    <3> QED
      BY <1>1, <2>2, <3>1, <3>2, <3>3, FitsStarted
  <2> QED
    BY <2>1, <2>2
<1>9. StoreInv' /\ Timed' /\ waitFor' \in 0..Len(acc'.queue)
  BY <1>1, <1>6, <1>8, FeedStores
<1>10. Typed'
  BY <1>2, <1>6, <1>7, <1>8, <1>9 DEF IInv, Typed
<1>11. ASSUME partial PROVE InStep'
  <2>1. parser'.started = 1..n /\ n \in parser'.started
    <3>1. claude.message \in Nat /\ parser.started = 1..claude.message
      BY <1>2, <1>3
    <3>2. 1..claude.message \cup {n} = 1..n /\ n \in 1..n
      BY <3>1
    <3> QED
      BY <1>7, <1>11, <3>1, <3>2
  <2>2. Reached' = n
    BY <1>2, <2>1 DEF Reached
  <2>3. finish.pc # "terminal" => acc'.sawStart /\ acc'.messageId = n
    <3>1. CASE claude.message > 0
      BY <1>2, <1>3, <1>8, <1>11, <3>1, Follows
    <3>2. CASE claude.message = 0
      BY <1>2, <1>3, <1>8, <1>11, <3>2, Follows
    <3> QED
      BY <1>2, <3>1, <3>2
  <2>4. n > 0
    BY <1>2
  <2> HIDE DEF n
  <2>5. finish'.pc # "terminal" => /\ acc'.sawStart <=> Reached' > 0
                                  /\ acc'.messageId = IF Reached' > 0 THEN Reached' ELSE 1
    BY <1>6, <2>2, <2>3, <2>4
  <2>6. parser'.started = 1..Reached' /\ claude'.message \in parser'.started
    BY <1>2, <2>1, <2>2
  <2>7. claude'.pc = "message" /\ claude'.message > 0
    BY <1>2, <2>4
  <2> QED
    BY <2>5, <2>6, <2>7 DEF InStep
<1>12. ASSUME ~partial PROVE InStep'
  <2>1. parser'.started = parser.started /\ n \notin parser'.started
    BY <1>4, <1>7, <1>12
  <2>2. Reached' = claude.message
    BY <1>2, <2>1 DEF Reached
  <2>3. parser'.started = 1..Reached'
    BY <1>3, <2>1, <2>2
  <2>4. finish.pc # "terminal" =>
          /\ acc'.sawStart <=> Reached' > 0
          /\ acc'.messageId = IF Reached' > 0 THEN Reached' ELSE 1
    BY <1>2, <1>3, <1>8, <1>12, <2>2, Follows
  <2>5. /\ claude'.pc = "message" /\ claude'.message > 0 /\ ~(claude'.place > 0)
        /\ ~partial' /\ finish' = finish
    BY <1>2, <1>6, <1>12
  <2> QED
    BY <2>3, <2>4, <2>5 DEF InStep
<1>13. Placed(acc', claude')
  <2> SUFFICES ASSUME NEW m \in Messages, NEW i \in DOMAIN acc.content[m],
                      acc.content[m][i] # EndEvent
               PROVE  /\ acc.content[m][i].block.message = m
                      /\ m <= n /\ m # n
    BY <1>2, <1>8 DEF Placed
  <2>1. acc.content[m][i].block.message = m /\ m <= claude.message
    BY DEF IInv, ToldInv, Placed
  <2> QED
    BY <1>2, <2>1, OneIsMessage
<1>14. Once(acc')
  BY <1>8 DEF IInv, ToldInv, Once
<1>15. \A m \in Messages : \A x : InMessage(acc', m, x) <=> InMessage(acc, m, x)
  BY <1>8 DEF InMessage
<1>16. EndOnce' /\ ToolsKnown' /\ AllTold'
  BY <1>2, <1>6, <1>7, <1>15 DEF IInv, ToldInv, EndOnce, ToolsKnown, AllTold
<1>17. TextKnown'
  BY <1>2, <1>6, <1>7 DEF IInv, ToldInv, TextKnown
<1> QED
  BY <1>9, <1>10, <1>11, <1>12, <1>13, <1>14, <1>16, <1>17 DEF IInv, ToldInv

LEMMA BlockAppends ==
  ASSUME IInv, finish.pc # "terminal", NEW a \in Memory, Fits(a), a.content = acc.content,
         a.messageId = claude.message, NEW block \in Block,
         acc' = ConsumeEvent(a, BlockEvent(block))
  PROVE  /\ acc' \in Memory /\ Fits(acc') /\ NewBlock(block)
         /\ acc'.messageId = a.messageId /\ acc'.sawStart = a.sawStart
<1>1. BlockEvent(block) \in Told \ {EndEvent} /\ BlockEvent(block) \in Told
  BY Events
<1>2. Fits(acc')
  BY <1>1, FitsAppended DEF IInv
<1>3. /\ acc' \in Memory /\ Appended(a, acc', BlockEvent(block)) /\ acc'.sawStart = a.sawStart
  BY <1>1, Appends
<1> QED
  BY <1>2, <1>3 DEF NewBlock, Appended

(* What the parser knows of tool uses, when it takes note of one that it tells. *)
LEMMA ToolsNoted ==
  ASSUME IInv, NEW block \in Block, parser' \in Parser,
         late' \in BOOLEAN, ~late' => ~late,
         \A m \in Messages : \A x : InMessage(acc, m, x) => InMessage(acc', m, x),
         \A m \in Messages : \A x :
           InMessage(acc', m, x) => InMessage(acc, m, x) \/ x = BlockEvent(block),
         parser.tools \subseteq parser'.tools,
         parser'.tools \subseteq parser.tools \cup {block},
         block.tool /\ (\E m \in Messages : InMessage(acc', m, BlockEvent(block))) =>
           block \in parser'.tools,
         ~late' /\ block \in parser'.tools =>
           \/ block \in parser.tools
           \/ \E m \in Messages : InMessage(acc', m, BlockEvent(block))
  PROVE  ToolsKnown'
<1> SUFFICES ASSUME NEW b \in Block, b.tool
             PROVE  /\ \A m \in Messages : InMessage(acc', m, BlockEvent(b)) => b \in parser'.tools
                    /\ ~late' /\ b \in parser'.tools =>
                         \E m \in Messages : InMessage(acc', m, BlockEvent(b))
  BY DEF ToolsKnown
<1>1. ASSUME NEW m \in Messages, InMessage(acc', m, BlockEvent(b)) PROVE b \in parser'.tools
  <2>1. CASE InMessage(acc, m, BlockEvent(b))
    BY <2>1 DEF IInv, ToldInv, ToolsKnown
  <2>2. CASE BlockEvent(b) = BlockEvent(block)
    BY <1>1, <2>2, Events
  <2> QED
    BY <1>1, <2>1, <2>2
<1>2. ASSUME ~late', b \in parser'.tools
      PROVE  \E m \in Messages : InMessage(acc', m, BlockEvent(b))
  <2>1. CASE b \in parser.tools
    <3>1. PICK m \in Messages : InMessage(acc, m, BlockEvent(b))
      BY <1>2, <2>1 DEF IInv, ToldInv, ToolsKnown
    <3> QED
      BY <3>1
  <2>2. CASE b = block /\ b \notin parser.tools
    BY <1>2, <2>2
  <2> QED
    BY <1>2, <2>1, <2>2
<1> QED
  BY <1>1, <1>2

(* A block is not told twice when the parser cannot have told it. *)
LEMMA NotYetTold ==
  ASSUME IInv, claude.message \in Messages, NEW block \in Block, block.message = claude.message,
         \A i \in DOMAIN acc.content[claude.message] :
           acc.content[claude.message][i] # EndEvent =>
             acc.content[claude.message][i].block.place < block.place
  PROVE  ~InMessage(acc, claude.message, BlockEvent(block))
<1>1. BlockEvent(block).block = block /\ BlockEvent(block) # EndEvent /\ block.place \in Nat
  BY Events DEF Block
<1> SUFFICES ASSUME NEW i \in DOMAIN acc.content[claude.message],
                    acc.content[claude.message][i] = BlockEvent(block)
             PROVE  FALSE
  BY DEF InMessage
<1>2. block.place < block.place
  BY <1>1
<1> QED
  BY <1>1, <1>2

LEMMA NextBlocks == ASSUME IInv, NextBlock PROVE IInv'
<1>1. /\ claude.pc = "message" /\ claude \in Process /\ acc \in Memory /\ parser \in Parser
      /\ partial \in BOOLEAN /\ claude.message > 0 /\ claude.message \in Messages
      /\ claude.message \in Nat /\ claude.place \in Nat
  BY Follows DEF NextBlock, IInv, Typed, InStep, Process
<1>2. PICK tool \in BOOLEAN, parsed \in BOOLEAN :
        LET block == [message |-> claude.message, place |-> claude.place + 1, tool |-> tool]
        IN /\ claude' = [claude EXCEPT !.pc = "block", !.place = @ + 1, !.tool = tool]
           /\ Feed(IF partial THEN StreamedBlock(parser, block, parsed)
                   ELSE [parser |-> parser, events |-> <<>>])
  BY DEF NextBlock
<1> DEFINE block == [message |-> claude.message, place |-> claude.place + 1, tool |-> tool]
           E == BlockEvent(block)
<1>3. /\ block \in Block /\ block.message = claude.message /\ block.place = claude.place + 1
      /\ block.tool = tool
  BY <1>1 DEF Block
<1>4. /\ claude' \in Process /\ claude'.pc = "block" /\ claude'.message = claude.message
      /\ claude'.place = claude.place + 1 /\ claude'.tool = tool /\ claude'.told = claude.told
      /\ CurrentBlock' = block
  <2> DEFINE place == claude.place + 1
  <2>1. claude' = [claude EXCEPT !.pc = "block", !.place = place, !.tool = tool]
    BY <1>2
  <2>2. /\ place \in Nat /\ claude.message \in 0..MaxMessages
        /\ claude.told \in SUBSET Told
    BY <1>1 DEF Process
  <2> HIDE DEF place
  <2>3. claude' = [pc |-> "block", message |-> claude.message, place |-> place, tool |-> tool,
                   told |-> claude.told]
    BY <1>1, <2>1 DEF Process
  <2>4. claude' \in Process
    BY <2>2, <2>3 DEF Process
  <2> QED
    BY <2>3, <2>4 DEF CurrentBlock, place
<1>5. Feed(IF partial THEN StreamedBlock(parser, block, parsed)
           ELSE [parser |-> parser, events |-> <<>>])
  BY <1>2
<1> HIDE DEF block
<1>6. partial => /\ claude.message \in parser.started /\ Reached = claude.message
                 /\ parser.current = claude.message
  BY <1>1 DEF IInv, InStep, ToldInv, TextKnown, Reached
<1>7. PICK p, events :
        /\ Feed([parser |-> p, events |-> events])
        /\ p \in Parser /\ p.started = parser.started /\ p.current = parser.current
        /\ parser.tools \subseteq p.tools /\ p.tools \subseteq parser.tools \cup {block}
        /\ block \in p.tools => block \in parser.tools \/ events = <<E>>
        /\ events \in {<<>>, <<E>>}
        /\ events = <<E>> => partial /\ (tool => block \in p.tools)
        /\ ~partial => p.textStreamed = parser.textStreamed
        /\ partial /\ ~tool => claude.message \in p.textStreamed /\ events = <<E>>
  <2>1. CASE partial /\ tool /\ parsed
    <3> DEFINE p == [parser EXCEPT !.tools = @ \cup {block}]
               events == EmitToolUseOnce(parser, block)
    <3>1. StreamedBlock(parser, block, parsed) = [parser |-> p, events |-> events]
      BY <1>3, <2>1 DEF StreamedBlock
    <3>2. parser.tools \cup {block} \in SUBSET Block
      BY <1>1, <1>3 DEF Parser
    <3>3. /\ p \in Parser /\ p.started = parser.started /\ p.current = parser.current
          /\ p.tools = parser.tools \cup {block}
      BY <1>1, <3>2 DEF Parser
    <3>4. events = IF block \in parser.tools THEN <<>> ELSE <<E>>
      BY DEF EmitToolUseOnce
    <3>5. Feed([parser |-> p, events |-> events])
      BY <1>5, <2>1, <3>1
    <3> HIDE DEF p, events, E
    <3> QED
      BY <2>1, <3>3, <3>4, <3>5
  <2>2. CASE ~partial \/ (tool /\ ~parsed)
    <3>1. (IF partial THEN StreamedBlock(parser, block, parsed)
           ELSE [parser |-> parser, events |-> <<>>]) = [parser |-> parser, events |-> <<>>]
      BY <1>3, <2>2 DEF StreamedBlock
    <3>2. Feed([parser |-> parser, events |-> <<>>])
      BY <1>5, <3>1
    <3>3. <<>> # <<E>>
      OBVIOUS
    <3> HIDE DEF E
    <3> QED
      BY <1>1, <2>2, <3>2, <3>3
  <2>3. CASE partial /\ ~tool
    <3> DEFINE p == [parser EXCEPT !.textStreamed = @ \cup {parser.current}]
    <3>1. StreamedBlock(parser, block, parsed) = [parser |-> p, events |-> <<E>>]
      BY <1>3, <2>3 DEF StreamedBlock
    <3>2. /\ p \in Parser /\ p.started = parser.started /\ p.current = parser.current
          /\ p.tools = parser.tools /\ p.textStreamed = parser.textStreamed \cup {parser.current}
      BY <1>1 DEF Parser
    <3>3. Feed([parser |-> p, events |-> <<E>>])
      BY <1>5, <2>3, <3>1
    <3> HIDE DEF p, E
    <3> QED
      BY <1>6, <2>3, <3>2, <3>3
  <2> QED
    BY <1>1, <2>1, <2>2, <2>3
<1>8. /\ parser' = p /\ late' = (late \/ finish.pc # "no")
      /\ finish.pc = "terminal" => acc' = acc
      /\ finish.pc # "terminal" => acc' = Consume(acc, events)
      /\ UNCHANGED <<rows, reading, start, finish, waitFor, partial, early>>
      /\ late' \in BOOLEAN /\ (~late' => ~late /\ finish.pc = "no")
  BY <1>7, FeedIs
<1>9. /\ acc' \in Memory
      /\ finish.pc # "terminal" => Fits(acc')
      /\ acc'.messageId = acc.messageId /\ acc'.sawStart = acc.sawStart
      /\ acc'.content = acc.content \/ NewBlock(block)
      /\ finish.pc # "terminal" /\ events = <<E>> => NewBlock(block)
      /\ NewBlock(block) => acc'.content = acc.content \/ events = <<E>>
  <2>1. CASE finish.pc = "terminal"
    BY <1>1, <1>8, <2>1
  <2>2. CASE finish.pc # "terminal" /\ events = <<>>
    <3>1. acc' = acc /\ <<>> # <<E>>
      BY <1>8, <2>2, ConsumeIs
    <3> QED
      BY <1>1, <2>2, <3>1, AccFits
  <2>3. CASE finish.pc # "terminal" /\ events = <<E>>
    <3>1. acc' = ConsumeEvent(acc, E)
      BY <1>8, <2>3, ConsumeIs
    <3>2. acc.messageId = claude.message
      BY <1>1, <1>6, <1>7, <2>3, Follows
    <3> QED
      BY <1>1, <1>3, <2>3, <3>1, <3>2, AccFits, BlockAppends
  <2> QED
    BY <1>7, <2>1, <2>2, <2>3
<1>10. StoreInv' /\ Timed' /\ waitFor' \in 0..Len(acc'.queue)
  BY <1>1, <1>8, <1>9, FeedStores
<1>11. Typed'
  BY <1>4, <1>7, <1>8, <1>9, <1>10 DEF IInv, Typed
<1>12. InStep'
  <2>1. Reached' = Reached
    BY <1>4, <1>7, <1>8 DEF Reached
  <2> QED
    BY <1>1, <1>4, <1>7, <1>8, <1>9, <2>1, <1>6 DEF IInv, InStep
<1>13. \A i \in DOMAIN acc.content[claude.message] :
         acc.content[claude.message][i] # EndEvent =>
           acc.content[claude.message][i].block.place < block.place
  <2> SUFFICES ASSUME NEW i \in DOMAIN acc.content[claude.message],
                      acc.content[claude.message][i] # EndEvent
               PROVE  acc.content[claude.message][i].block.place < block.place
    OBVIOUS
  <2>1. acc.content[claude.message][i].block.place <= claude.place
    BY <1>1 DEF IInv, ToldInv, Placed
  <2>2. acc.content[claude.message][i] \in Told
    BY <1>1 DEF Memory
  <2>3. acc.content[claude.message][i].block.place \in Nat
    BY <2>2, ToldIs DEF Block
  <2> QED
    BY <1>1, <1>3, <2>1, <2>3
<1>14. ~InMessage(acc, claude.message, E)
  BY <1>1, <1>3, <1>13, NotYetTold
<1>15. claude.place <= claude'.place /\ block.place <= claude'.place
  BY <1>1, <1>3, <1>4
<1>16. /\ Placed(acc', claude') /\ Once(acc') /\ EndOnce'
       /\ \A m \in Messages : \A x : InMessage(acc, m, x) => InMessage(acc', m, x)
       /\ \A m \in Messages : \A x :
            InMessage(acc', m, x) => InMessage(acc, m, x) \/ x = E
       /\ NewBlock(block) => /\ claude.message \in Messages
                             /\ InMessage(acc', claude.message, E)
  BY <1>3, <1>4, <1>9, <1>14, <1>15, BlockTold
<1>17. ToolsKnown'
  <2>1. ASSUME tool, NEW m \in Messages, InMessage(acc', m, E) PROVE block \in parser'.tools
    <3>1. CASE InMessage(acc, m, E)
      BY <1>3, <1>7, <1>8, <2>1, <3>1 DEF IInv, ToldInv, ToolsKnown
    <3>2. CASE ~InMessage(acc, m, E)
      <4>1. acc'.content # acc.content
        BY <2>1, <3>2 DEF InMessage
      <4> QED
        BY <1>7, <1>8, <1>9, <2>1, <4>1
    <3> QED
      BY <3>1, <3>2
  <2>2. ASSUME ~late', block \in parser'.tools, block \notin parser.tools
        PROVE  \E m \in Messages : InMessage(acc', m, E)
    BY <1>7, <1>8, <1>9, <1>16, <2>2
  <2>3. parser' \in Parser
    BY <1>7, <1>8
  <2> HIDE DEF E
  <2> QED
    BY <1>3, <1>7, <1>8, <1>16, <2>1, <2>2, <2>3, ToolsNoted DEF E
<1>18. TextKnown'
  <2>1. ~partial => acc'.content = acc.content
    <3>1. ~partial => events # <<E>>
      BY <1>7
    <3> QED
      BY <1>9, <3>1
  <2>2. ~partial => \A m \in Messages : \A i \in DOMAIN acc'.content[m] :
          acc'.content[m][i] # EndEvent /\ m = claude.message =>
            acc'.content[m][i].block.place < claude'.place
    BY <1>3, <1>4, <1>13, <2>1
  <2>3. partial /\ ~tool => /\ claude.message \in parser'.textStreamed
                            /\ ~late' => \E m \in Messages : InMessage(acc', m, E)
    BY <1>7, <1>8, <1>9, <1>16
  <2>4. ~partial => parser'.textStreamed = {}
    BY <1>7, <1>8 DEF IInv, ToldInv, TextKnown
  <2>5. partial => parser'.current = claude.message
    BY <1>6, <1>7, <1>8
  <2> QED
    BY <1>4, <1>8, <2>2, <2>3, <2>4, <2>5 DEF TextKnown
<1>19. AllTold'
  <2> SUFFICES ASSUME ~late', NEW e \in claude.told PROVE \E m \in Messages : InMessage(acc', m, e)
    BY <1>4 DEF AllTold
  <2>1. PICK m \in Messages : InMessage(acc, m, e)
    BY <1>8 DEF IInv, ToldInv, AllTold
  <2> QED
    BY <1>16, <2>1
<1> QED
  BY <1>10, <1>11, <1>12, <1>16, <1>17, <1>18, <1>19 DEF IInv, ToldInv

LEMMA ShortSequences ==
  ASSUME NEW d, NEW e
  PROVE  /\ <<>> \o <<>> = <<>> /\ <<d>> \o <<>> = <<d>> /\ <<>> \o <<e>> = <<e>>
         /\ <<d>> \o <<e>> = <<d, e>>
<1> DEFINE S == {d, e}
<1>1. <<>> \in Seq(S) /\ <<d>> \in Seq(S) /\ <<e>> \in Seq(S)
  OBVIOUS
<1>2. <<d>> \o <<>> = <<d>> /\ <<>> \o <<e>> = <<e>>
  <2> HIDE DEF S
  <2> QED
    BY <1>1
<1>3. <<>> \o <<>> = <<>>
  <2> HIDE DEF S
  <2> QED
    BY <1>1
<1>4. <<d>> \o <<e>> = <<d, e>>
  <2>1. ASSUME NEW s \in Seq(S), Len(s) = 2, s[1] = d, s[2] = e PROVE s = <<d, e>>
    BY <2>1
  <2>2. /\ <<d>> \o <<e>> \in Seq(S)
        /\ Len(<<d>> \o <<e>>) = 2 /\ (<<d>> \o <<e>>)[1] = d /\ (<<d>> \o <<e>>)[2] = e
    BY <1>1
  <2> QED
    BY <2>1, <2>2
<1> QED
  BY <1>2, <1>3, <1>4

(* The events of an assistant object: the start of its message, and its block, *)
(* each unless it has been told.                                               *)
Starts == CurrentBlock.message \notin parser.started
Tells == IF claude.tool THEN CurrentBlock \notin parser.tools
         ELSE claude.message \notin parser.textStreamed

LEMMA ObjectIs ==
  LET b == CurrentBlock
      object == AssistantObject(parser, b)
  IN /\ object.parser = [parser EXCEPT !.current = b.message,
                                       !.started = @ \cup {b.message},
                                       !.tools = IF b.tool THEN @ \cup {b} ELSE @]
     /\ object = [parser |-> object.parser, events |-> object.events]
     /\ Starts /\ Tells => object.events = <<MessageStartEvent, BlockEvent(b)>>
     /\ Starts /\ ~Tells => object.events = <<MessageStartEvent>>
     /\ ~Starts /\ Tells => object.events = <<BlockEvent(b)>>
     /\ ~Starts /\ ~Tells => object.events = <<>>
<1> DEFINE b == CurrentBlock
           object == AssistantObject(parser, b)
           start1 == IF Starts THEN <<MessageStartEvent>> ELSE <<>>
           told == IF Tells THEN <<BlockEvent(b)>> ELSE <<>>
<1>1. b.message = claude.message /\ b.tool = claude.tool
  BY DEF CurrentBlock
<1>2. EmitAssistantMessageStart(parser, b.message) = start1
  BY DEF EmitAssistantMessageStart, Starts
<1>3. (IF b.tool THEN EmitToolUseOnce(parser, b)
       ELSE IF b.message \in parser.textStreamed THEN <<>> ELSE <<BlockEvent(b)>>) = told
  BY <1>1 DEF EmitToolUseOnce, Tells
<1>4. object = [parser |-> [parser EXCEPT !.current = b.message,
                                          !.started = @ \cup {b.message},
                                          !.tools = IF b.tool THEN @ \cup {b} ELSE @],
                events |-> start1 \o told]
  BY <1>2, <1>3 DEF AssistantObject
<1>5. object.events = start1 \o told
  BY <1>4
<1>6. object.parser = [parser EXCEPT !.current = b.message,
                                     !.started = @ \cup {b.message},
                                     !.tools = IF b.tool THEN @ \cup {b} ELSE @]
  BY <1>4
<1>7. object = [parser |-> object.parser, events |-> object.events]
  BY <1>4, <1>5, <1>6
<1> HIDE DEF object, b
<1>8. /\ Starts /\ Tells => object.events = <<MessageStartEvent, BlockEvent(b)>>
      /\ Starts /\ ~Tells => object.events = <<MessageStartEvent>>
      /\ ~Starts /\ Tells => object.events = <<BlockEvent(b)>>
      /\ ~Starts /\ ~Tells => object.events = <<>>
  BY <1>5, ShortSequences
<1> QED
  BY <1>6, <1>7, <1>8 DEF object, b

LEMMA TellBlocks == ASSUME IInv, TellBlock PROVE IInv'
<1> DEFINE block == CurrentBlock
           E == BlockEvent(block)
<1>1. /\ claude.pc = "block" /\ claude \in Process /\ acc \in Memory /\ parser \in Parser
      /\ partial \in BOOLEAN /\ claude.message > 0 /\ claude.message \in Messages
      /\ claude.message \in Nat /\ claude.place \in Nat /\ claude.tool \in BOOLEAN
  BY Follows DEF TellBlock, IInv, Typed, InStep, Process
<1>2. /\ block \in Block /\ block.message = claude.message /\ block.place = claude.place
      /\ block.tool = claude.tool
  BY <1>1 DEF CurrentBlock, Block
<1>3. E \in Told
  BY <1>2, Events
<1>4. /\ claude' \in Process /\ claude'.pc = "message" /\ claude'.message = claude.message
      /\ claude'.place = claude.place /\ claude'.told = claude.told \cup {E}
  <2>1. claude' = [claude EXCEPT !.pc = "message", !.told = claude.told \cup {E}]
    BY DEF TellBlock
  <2>2. claude.told \cup {E} \in SUBSET Told
    BY <1>1, <1>3 DEF Process
  <2> HIDE DEF E
  <2> QED
    BY <1>1, <2>1, <2>2 DEF Process
<1> DEFINE object == AssistantObject(parser, block)
<1>5. /\ object.parser = [parser EXCEPT !.current = block.message,
                                        !.started = @ \cup {block.message},
                                        !.tools = IF block.tool THEN @ \cup {block} ELSE @]
      /\ object = [parser |-> object.parser, events |-> object.events]
      /\ Starts /\ Tells => object.events = <<MessageStartEvent, E>>
      /\ Starts /\ ~Tells => object.events = <<MessageStartEvent>>
      /\ ~Starts /\ Tells => object.events = <<E>>
      /\ ~Starts /\ ~Tells => object.events = <<>>
  BY ObjectIs
<1>6. Feed(object)
  BY DEF TellBlock
<1> HIDE DEF block, E, object
<1>7. /\ parser' = object.parser /\ late' = (late \/ finish.pc # "no")
      /\ finish.pc = "terminal" => acc' = acc
      /\ finish.pc # "terminal" => acc' = Consume(acc, object.events)
      /\ UNCHANGED <<rows, reading, start, finish, waitFor, partial, early>>
      /\ late' \in BOOLEAN /\ (~late' => ~late /\ finish.pc = "no")
  BY <1>5, <1>6, FeedIs
<1>8. /\ parser' \in Parser /\ parser'.current = claude.message
      /\ parser'.started = parser.started \cup {claude.message}
      /\ parser'.textStreamed = parser.textStreamed
      /\ claude.tool => parser'.tools = parser.tools \cup {block}
      /\ ~claude.tool => parser'.tools = parser.tools
  <2> DEFINE tools == IF block.tool THEN parser.tools \cup {block} ELSE parser.tools
  <2>1. /\ parser.started \cup {claude.message} \in SUBSET Nat /\ tools \in SUBSET Block
        /\ parser.textStreamed \in SUBSET Nat
    BY <1>1, <1>2 DEF Parser
  <2>2. claude.tool => tools = parser.tools \cup {block}
    BY <1>2
  <2>3. ~claude.tool => tools = parser.tools
    BY <1>2
  <2>4. parser' = [parser EXCEPT !.current = claude.message,
                                 !.started = parser.started \cup {claude.message},
                                 !.tools = tools]
    BY <1>2, <1>5, <1>7
  <2> HIDE DEF tools
  <2>5. parser' = [current |-> claude.message, started |-> parser.started \cup {claude.message},
                   textStreamed |-> parser.textStreamed, tools |-> tools]
    BY <1>1, <2>4 DEF Parser
  <2>6. parser' \in Parser
    BY <1>1, <2>1, <2>5 DEF Parser
  <2> QED
    BY <2>2, <2>3, <2>5, <2>6
<1>9. Starts <=> claude.message \notin parser.started
  BY <1>2 DEF Starts, block
<1>10. Reached = IF Starts THEN claude.message - 1 ELSE claude.message
  BY <1>9 DEF Reached
<1>11. Reached' = claude.message /\ parser'.started = 1..claude.message
  <2>1. Reached' = claude.message
    BY <1>4, <1>8 DEF Reached
  <2>2. CASE Starts
    <3>1. parser.started = 1..(claude.message - 1)
      BY <1>10, <2>2, Follows
    <3> QED
      BY <1>1, <1>8, <2>1, <3>1
  <2>3. CASE ~Starts
    <3>1. parser.started = 1..claude.message /\ claude.message \in parser.started
      BY <1>9, <1>10, <2>3, Follows
    <3> QED
      BY <1>8, <2>1, <3>1
  <2> QED
    BY <2>2, <2>3
(* The accumulator, once the message is started. *)
<1>12. ASSUME finish.pc # "terminal"
       PROVE  \E a \in Memory :
                /\ Fits(a) /\ a.content = acc.content /\ a.messageId = claude.message /\ a.sawStart
                /\ Tells => acc' = ConsumeEvent(a, E)
                /\ ~Tells => acc' = a
  <2>1. CASE Starts
    <3> DEFINE a == StartAssistantMessageSegment(acc)
    <3>1. Typed /\ Fits(acc) /\ acc \in Memory
      BY <1>12, AccFits DEF IInv
    <3>2. /\ acc.sawStart <=> claude.message - 1 > 0
          /\ acc.messageId = IF claude.message - 1 > 0 THEN claude.message - 1 ELSE 1
      BY <1>10, <1>12, <2>1, Follows
    <3>3. acc.sawStart => acc.messageId + 1 \in Messages
      BY <1>1, <3>2
    <3>4. /\ a \in Memory /\ Fits(a) /\ a.content = acc.content /\ a.sawStart
          /\ a.messageId = IF acc.sawStart THEN acc.messageId + 1 ELSE acc.messageId
      BY <3>1, <3>3, FitsStarted
    <3>5. a.messageId = claude.message
      BY <1>1, <3>2, <3>4
    <3>6. Tells => acc' = ConsumeEvent(a, E)
      <4>1. Consume(acc, <<MessageStartEvent, E>>) =
              ConsumeEvent(ConsumeEvent(acc, MessageStartEvent), E)
        BY PairConsumed
      <4>2. ConsumeEvent(acc, MessageStartEvent) = a
        BY ConsumeIs
      <4> HIDE DEF a
      <4> QED
        BY <1>5, <1>7, <1>12, <2>1, <4>1, <4>2
    <3>7. ~Tells => acc' = a
      BY <1>5, <1>7, <1>12, <2>1, ConsumeIs
    <3> HIDE DEF a
    <3> QED
      BY <3>4, <3>5, <3>6, <3>7
  <2>2. CASE ~Starts
    <3>1. acc.sawStart /\ acc.messageId = claude.message /\ acc \in Memory /\ Fits(acc)
      BY <1>1, <1>10, <1>12, <2>2, Follows, AccFits
    <3>2. Tells => acc' = ConsumeEvent(acc, E)
      BY <1>5, <1>7, <1>12, <2>2, ConsumeIs
    <3>3. ~Tells => acc' = acc
      BY <1>5, <1>7, <1>12, <2>2, ConsumeIs
    <3> QED
      BY <3>1, <3>2, <3>3
  <2> QED
    BY <2>1, <2>2
<1>13. /\ acc' \in Memory
       /\ finish.pc # "terminal" =>
            /\ Fits(acc') /\ acc'.messageId = claude.message /\ acc'.sawStart
            /\ Tells => NewBlock(block)
       /\ acc'.content = acc.content \/ (NewBlock(block) /\ Tells)
  <2>1. CASE finish.pc = "terminal"
    BY <1>1, <1>7, <2>1
  <2>2. CASE finish.pc # "terminal"
    <3>1. PICK a \in Memory :
            /\ Fits(a) /\ a.content = acc.content /\ a.messageId = claude.message /\ a.sawStart
            /\ Tells => acc' = ConsumeEvent(a, E)
            /\ ~Tells => acc' = a
      BY <1>12, <2>2
    <3>2. CASE Tells
      BY <1>2, <2>2, <3>1, <3>2, BlockAppends DEF E
    <3>3. CASE ~Tells
      BY <2>2, <3>1, <3>3
    <3> QED
      BY <3>2, <3>3
  <2> QED
    BY <2>1, <2>2
<1>14. StoreInv' /\ Timed' /\ waitFor' \in 0..Len(acc'.queue)
  BY <1>1, <1>7, <1>13, FeedStores
<1>15. Typed'
  BY <1>4, <1>7, <1>8, <1>13, <1>14 DEF IInv, Typed
<1>16. InStep'
  <2>1. finish'.pc # "terminal" => /\ acc'.sawStart <=> Reached' > 0
                                  /\ acc'.messageId = IF Reached' > 0 THEN Reached' ELSE 1
    BY <1>1, <1>7, <1>11, <1>13
  <2>2. claude'.message \in parser'.started
    BY <1>4, <1>8
  <2> QED
    BY <1>1, <1>4, <1>11, <2>1, <2>2 DEF InStep
<1>17. Tells => ~InMessage(acc, claude.message, E)
  <2>1. CASE claude.tool
    <3>1. InMessage(acc, claude.message, E) => block \in parser.tools
      BY <1>1, <1>2, <2>1 DEF IInv, ToldInv, ToolsKnown, E
    <3> QED
      BY <2>1, <3>1 DEF Tells, block
  <2>2. CASE ~claude.tool
    <3> SUFFICES ASSUME Tells PROVE ~InMessage(acc, claude.message, E)
      OBVIOUS
    <3>1. claude.message \notin parser.textStreamed
      BY <2>2 DEF Tells
    <3>2. ~partial
      BY <1>1, <2>2, <3>1 DEF IInv, ToldInv, TextKnown
    <3>3. \A i \in DOMAIN acc.content[claude.message] :
            acc.content[claude.message][i] # EndEvent =>
              acc.content[claude.message][i].block.place < block.place
      BY <1>1, <1>2, <3>2 DEF IInv, ToldInv, TextKnown
    <3> QED
      BY <1>1, <1>2, <3>3, NotYetTold DEF E
  <2> QED
    BY <2>1, <2>2
<1>18. claude.place <= claude'.place /\ block.place <= claude'.place
  BY <1>1, <1>2, <1>4
<1>19. /\ Placed(acc', claude') /\ Once(acc') /\ EndOnce'
       /\ \A m \in Messages : \A x : InMessage(acc, m, x) => InMessage(acc', m, x)
       /\ \A m \in Messages : \A x :
            InMessage(acc', m, x) => InMessage(acc, m, x) \/ x = E
       /\ NewBlock(block) => /\ claude.message \in Messages
                             /\ InMessage(acc', claude.message, E)
  BY <1>2, <1>4, <1>13, <1>17, <1>18, BlockTold DEF E
<1>20. ASSUME ~late' PROVE \E m \in Messages : InMessage(acc', m, E)
  <2>1. ~late /\ finish.pc # "terminal"
    BY <1>7, <1>20
  <2>2. CASE Tells
    BY <1>13, <1>19, <2>1, <2>2
  <2>3. CASE ~Tells /\ claude.tool
    <3>1. block \in parser.tools
      BY <2>3 DEF Tells, block
    <3>2. PICK m \in Messages : InMessage(acc, m, E)
      BY <1>2, <2>1, <2>3, <3>1 DEF IInv, ToldInv, ToolsKnown, E
    <3> QED
      BY <1>19, <3>2
  <2>4. CASE ~Tells /\ ~claude.tool
    <3>1. claude.message \in parser.textStreamed
      BY <2>4 DEF Tells
    <3>2. partial
      BY <1>1, <3>1 DEF IInv, ToldInv, TextKnown
    <3>3. PICK m \in Messages : InMessage(acc, m, E)
      BY <1>1, <2>1, <2>4, <3>2 DEF IInv, ToldInv, TextKnown, E, block
    <3> QED
      BY <1>19, <3>3
  <2> QED
    BY <1>1, <2>2, <2>3, <2>4
<1>21. ToolsKnown'
  <2>1. block.tool => block \in parser'.tools
    BY <1>2, <1>8
  <2>2. parser.tools \subseteq parser'.tools /\ parser'.tools \subseteq parser.tools \cup {block}
    BY <1>1, <1>8
  <2> QED
    BY <1>2, <1>7, <1>8, <1>19, <1>20, <2>1, <2>2, ToolsNoted DEF E
<1>22. TextKnown'
  BY <1>4, <1>7, <1>8 DEF IInv, ToldInv, TextKnown
<1>23. AllTold'
  <2> SUFFICES ASSUME ~late', NEW e \in claude'.told PROVE \E m \in Messages : InMessage(acc', m, e)
    BY DEF AllTold
  <2>1. CASE e = E
    BY <1>20, <2>1
  <2>2. CASE e \in claude.told
    <3>1. PICK m \in Messages : InMessage(acc, m, e)
      BY <1>7, <2>2 DEF IInv, ToldInv, AllTold
    <3> QED
      BY <1>19, <3>1
  <2> QED
    BY <1>4, <2>1, <2>2
<1> QED
  BY <1>14, <1>15, <1>16, <1>19, <1>21, <1>22, <1>23 DEF IInv, ToldInv

-----------------------------------------------------------------------------
(* The invariant holds from the start, and each step keeps it. *)

LEMMA InitHolds == Init => IInv
<1> SUFFICES ASSUME Init PROVE IInv
  OBVIOUS
<1>1. /\ acc = [messageId |-> 1, sawStart |-> FALSE, content |-> [m \in Messages |-> <<>>],
                dirty |-> FALSE, timer |-> FALSE, queue |-> <<>>]
      /\ rows = [m \in Messages |-> IF m = 1 THEN Fresh ELSE NoRow]
      /\ reading = NoRow
      /\ start = [pc |-> "waiting", row |-> NoRow]
      /\ finish = [pc |-> "no", message |-> 1, row |-> NoRow]
      /\ waitFor = 0
  BY DEF Init, AccInit
<1>2. /\ partial \in BOOLEAN /\ early = FALSE /\ late = FALSE
      /\ claude = [pc |-> "none", message |-> 0, place |-> 0, tool |-> FALSE, told |-> {}]
      /\ parser = [current |-> 0, started |-> {}, textStreamed |-> {}, tools |-> {}]
  BY DEF Init, NewParser
<1>3. /\ 1 \in Messages /\ MaxMessages \in Nat /\ \A m \in Messages : m \in Nat /\ m >= 1
  BY OneIsMessage
<1>4. /\ NoRow \in TheRow /\ RowTyped(NoRow) /\ Fresh \in TheRow /\ RowTyped(Fresh)
      /\ Present(Fresh) /\ NoRow.content = <<>> /\ Fresh.content = <<>>
  BY DEF NoRow, Fresh, TheRow, Statuses, RowTyped, Present
<1>5. \A m \in Messages : rows[m].content = <<>> /\ RowTyped(rows[m])
  BY <1>1, <1>4
<1>6. rows \in [Messages -> TheRow] /\ rows[1] = Fresh /\ \A m \in Messages : m > 1 => rows[m] = NoRow
  BY <1>1, <1>3, <1>4
<1>7. /\ acc.content \in [Messages -> Seq(Told)] /\ acc.queue = <<>> /\ acc.messageId = 1
      /\ acc.queue \in Seq(Write) /\ acc.sawStart = FALSE /\ acc.dirty = FALSE /\ acc.timer = FALSE
      /\ \A m \in Messages : acc.content[m] = <<>>
  BY <1>1
<1>8. acc \in Memory
  <2>1. acc = [messageId |-> 1, sawStart |-> FALSE, content |-> acc.content,
               dirty |-> FALSE, timer |-> FALSE, queue |-> acc.queue]
    BY <1>1
  <2> QED
    BY <1>3, <1>7, <2>1 DEF Memory
<1>9. Typed
  <2>1. claude \in Process /\ parser \in Parser
    BY <1>2, <1>3 DEF Process, Parser
  <2>2. start \in Starting /\ start.row = NoRow /\ finish \in Ending /\ finish.row = NoRow
    BY <1>1, <1>3, <1>4 DEF Starting, Ending
  <2>3. waitFor \in 0..Len(acc.queue)
    BY <1>1, <1>7
  <2> QED
    BY <1>1, <1>2, <1>4, <1>5, <1>6, <1>8, <2>1, <2>2, <2>3 DEF Typed
<1>10. Timed
  BY <1>7 DEF Timed
<1>11. InStep
  <2>1. Reached = -1
    BY <1>2 DEF Reached
  <2>2. 1..Reached = {}
    BY <2>1
  <2> QED
    BY <1>1, <1>2, <1>7, <2>1, <2>2 DEF InStep
<1>12. \A m \in Messages : DOMAIN acc.content[m] = {}
  BY <1>7
<1>13. DOMAIN acc.queue = {}
  BY <1>7
<1>14. Queued(acc, rows)
  <2>1. Begun(acc, rows) /\ Inserts(acc, rows)
    BY <1>6, <1>7, <1>13 DEF Begun, Inserts
  <2>2. Rows(acc, rows)
    <3>1. \A m \in Messages : m <= 1 => m = 1
      BY <1>3
    <3> QED
      BY <1>4, <1>6, <1>7, <3>1 DEF Rows
  <2>3. Growing(acc, rows)
    BY <1>5, <1>7, <1>13 DEF Growing, Lags, Begins
  <2> QED
    BY <2>1, <2>2, <2>3 DEF Queued
<1>15. Covered(acc, rows) /\ EndStored(acc, rows, finish, waitFor)
  BY <1>5, <1>7, <1>12 DEF Covered, EndStored
<1>16. ReadBack(acc, rows, start, finish) /\ EndKept(acc, finish)
  BY <1>1 DEF ReadBack, EndKept
<1>17. StartsFirst /\ Drained /\ Ended /\ Ends
  BY <1>1, <1>2, <1>7, <1>12 DEF StartsFirst, Nothing, Drained, Ended, Ends
<1>18. Placed(acc, claude) /\ Once(acc) /\ EndOnce
  BY <1>12 DEF Placed, Once, EndOnce, InMessage
<1>19. ToolsKnown /\ TextKnown /\ AllTold
  BY <1>2, <1>12 DEF ToolsKnown, TextKnown, AllTold, InMessage
<1> QED
  BY <1>9, <1>10, <1>11, <1>14, <1>15, <1>16, <1>17, <1>18, <1>19 DEF IInv, StoreInv, ToldInv

LEMMA NextHolds == IInv /\ [Next]_vars => IInv'
<1> SUFFICES ASSUME IInv, [Next]_vars PROVE IInv'
  OBVIOUS
<1>1. CASE ThrottledFlush /\ ClaudeWaits
  BY <1>1, ThrottledFlushes
<1>2. CASE QueuedWrite /\ ClaudeWaits
  BY <1>2, QueuedWrites
<1>3. CASE StartWrite /\ ClaudeWaits
  BY <1>3, StartWrites
<1>4. CASE FinishStep /\ ClaudeWaits
  BY <1>4, AwaitsQueue, EndsMessages, ReadsLast, WritesLast, CommitsRun DEF FinishStep
<1>5. CASE Dispose /\ ClaudeWaits
  BY <1>5, Disposes
<1>6. CASE Spawn \/ EndMessage \/ Close
  BY <1>6, Spawns, EndsMessage, Closes
<1>7. CASE NextMessage \/ NextBlock \/ TellBlock
  BY <1>7, NextMessages, NextBlocks, TellBlocks
<1>8. CASE Finish
  BY <1>8, Finishes
<1>9. CASE UNCHANGED vars
  <2>1. UNCHANGED <<acc, rows, reading, start, finish, waitFor, partial, claude, parser, early, late>>
    BY <1>9 DEF vars, accVars
  <2>2. Typed' /\ Timed' /\ InStep'
    BY <2>1 DEF IInv, Typed, Timed, InStep, Reached
  <2>3. StoreInv'
    BY <2>1 DEF IInv, StoreInv, StartsFirst, Drained, Ended, Ends
  <2>4. ToldInv'
    BY <2>1 DEF IInv, ToldInv, EndOnce, ToolsKnown, TextKnown, AllTold, InMessage, CurrentBlock
  <2> QED
    BY <2>2, <2>3, <2>4 DEF IInv
<1> QED
  BY <1>1, <1>2, <1>3, <1>4, <1>5, <1>6, <1>7, <1>8, <1>9 DEF Next, Persist, ClaudeWaits

LEMMA Inductive == Spec => []IInv
BY InitHolds, NextHolds, PTL DEF Spec

-----------------------------------------------------------------------------
(* The properties. *)

LEMMA ToldIsEvent == Told \subseteq Event
BY DEF Told, Event, BlockEvent

LEMMA IInvTypes == IInv => TypeOK
<1> SUFFICES ASSUME IInv PROVE TypeOK
  OBVIOUS
<1>1. \A s \in Seq(Told) : s \in Seq(Event)
  BY ToldIsEvent
<1>2. /\ acc \in Memory /\ rows \in [Messages -> TheRow] /\ reading \in TheRow
      /\ start \in Starting /\ finish \in Ending /\ waitFor \in 0..Len(acc.queue)
      /\ claude \in Process /\ partial \in BOOLEAN /\ early \in BOOLEAN /\ late \in BOOLEAN
  BY DEF IInv, Typed, RowTyped
<1>3. \A row \in TheRow : row \in Row
  BY <1>1 DEF TheRow, Statuses, Row
<1>4. rows \in [Messages -> Row] /\ reading \in Row
  BY <1>2, <1>3
<1>5. /\ start \in [pc : {"waiting", "read", "done"}, row : Row]
      /\ finish \in [pc : {"no", "flush", "drain", "ended", "read", "written", "terminal", "failed"},
                     message : Messages, row : Row]
  BY <1>2, <1>3 DEF Starting, Ending
<1>6. acc.content \in [Messages -> Seq(Event)]
  BY <1>1, <1>2 DEF Memory
<1> DEFINE EventWrite == [op : {"update", "insert"}, message : Messages, content : Seq(Event)]
<1>7. acc.queue \in Seq(EventWrite)
  <2>1. \A w \in Write : w \in EventWrite
    BY <1>1 DEF Write
  <2>2. acc.queue \in Seq(Write)
    BY <1>2 DEF Memory
  <2> HIDE DEF EventWrite
  <2> QED
    BY <2>1, <2>2
<1>8. /\ acc.messageId \in Messages
      /\ {acc.sawStart, acc.dirty, acc.timer, partial, early, late} \subseteq BOOLEAN
      /\ claude.message \in 0..MaxMessages /\ claude.place \in Nat
  BY <1>2 DEF Memory, Process
<1>9. acc.dirty /\ finish.pc # "terminal" => acc.timer
  BY DEF IInv, Timed
<1> QED
  BY <1>2, <1>4, <1>5, <1>6, <1>7, <1>8, <1>9 DEF TypeOK

LEMMA IInvTells == IInv => ToldOnce
<1> SUFFICES ASSUME IInv PROVE ToldOnce
  OBVIOUS
<1>1. acc \in Memory /\ claude \in Process /\ Placed(acc, claude) /\ Once(acc) /\ EndOnce /\ AllTold
  BY DEF IInv, Typed, ToldInv
<1>2. ASSUME NEW m \in Messages, NEW n \in Messages, NEW i \in DOMAIN acc.content[m],
             NEW j \in DOMAIN acc.content[n], acc.content[m][i] = acc.content[n][j]
      PROVE  m = n /\ i = j
  <2>1. m = n
    <3>1. CASE acc.content[m][i] = EndEvent
      BY <1>1, <1>2, <3>1 DEF EndOnce, InMessage
    <3>2. CASE acc.content[m][i] # EndEvent
      BY <1>1, <1>2, <3>2 DEF Placed
    <3> QED
      BY <3>1, <3>2
  <2> QED
    BY <1>1, <1>2, <2>1 DEF Once
<1>3. ~late => \A e \in claude.told : \E m \in Messages : \E i \in DOMAIN acc.content[m] :
                 acc.content[m][i] = e
  BY <1>1 DEF AllTold, InMessage
<1>4. \A m \in Messages : \A i \in DOMAIN acc.content[m] :
        acc.content[m][i] # EndEvent => acc.content[m][i].block.message = m
  BY <1>1 DEF Placed
<1> QED
  BY <1>2, <1>3, <1>4 DEF ToldOnce

LEMMA IInvFollows == IInv => RowsFollowMessages
<1> SUFFICES ASSUME IInv, NEW m \in Messages PROVE IsPrefix(rows[m].content, acc.content[m])
  BY DEF RowsFollowMessages
<1>1. Begins(rows[m].content, acc.content[m])
  BY DEF IInv, StoreInv, Queued, Growing, Lags
<1>2. rows[m].content \in Seq(Told) /\ acc.content[m] \in Seq(Told)
  BY DEF IInv, Typed, TheRow, Memory
<1> QED
  BY <1>1, <1>2, BeginsIsPrefix

LEMMA IInvEnds == IInv => EndedMessagesAreWhole
<1> SUFFICES ASSUME IInv PROVE EndedMessagesAreWhole
  OBVIOUS
<1>1. /\ acc \in Memory /\ rows \in [Messages -> TheRow]
      /\ Queued(acc, rows)
      /\ ~early /\ ~late => Covered(acc, rows)
      /\ ~early => EndStored(acc, rows, finish, waitFor)
      /\ Drained /\ Ended /\ Ends
  BY DEF IInv, Typed, StoreInv
<1>2. ~late => finish.pc # "failed"
  BY <1>1 DEF Ended
<1>3. ASSUME finish.pc = "terminal", ~early
      PROVE  /\ \E m \in Messages : EndEvent \in ToSet(rows[m].content)
             /\ \A m \in Messages : \A i \in DOMAIN acc.content[m] :
                  (~late \/ \E j \in DOMAIN acc.content[m] : j > i /\ acc.content[m][j] = EndEvent)
                    => i \in DOMAIN rows[m].content
             /\ ~late => \A m \in 1..acc.messageId : rows[m].status = "ended"
  <2>1. ASSUME NEW m \in Messages
        PROVE  /\ rows[m].content \in Seq(Told) /\ acc.content[m] \in Seq(Told)
               /\ Len(rows[m].content) \in Nat /\ Len(acc.content[m]) \in Nat
               /\ DOMAIN rows[m].content = 1..Len(rows[m].content)
               /\ DOMAIN acc.content[m] = 1..Len(acc.content[m])
               /\ Len(rows[m].content) <= Len(acc.content[m])
               /\ \A i \in DOMAIN rows[m].content : rows[m].content[i] = acc.content[m][i]
    <3>1. rows[m].content \in Seq(Told) /\ acc.content[m] \in Seq(Told)
      BY <1>1 DEF TheRow, Memory
    <3>2. Begins(rows[m].content, acc.content[m])
      BY <1>1 DEF Queued, Growing, Lags
    <3> QED
      BY SMTT(30), <3>1, <3>2 DEF Begins
  <2>2. ASSUME NEW m \in Messages, NEW j \in DOMAIN acc.content[m], acc.content[m][j] = EndEvent
        PROVE  j <= Len(rows[m].content)
    BY <1>1, <1>3, <2>2 DEF EndStored
  <2>3. \E m \in Messages : EndEvent \in ToSet(rows[m].content)
    <3>1. PICK m \in Messages : \E i \in DOMAIN acc.content[m] : acc.content[m][i] = EndEvent
      BY <1>1, <1>3 DEF Ends
    <3>2. PICK j \in DOMAIN acc.content[m] : acc.content[m][j] = EndEvent
      BY <3>1
    <3>3. j \in DOMAIN rows[m].content /\ rows[m].content[j] = EndEvent
      BY <2>1, <2>2, <3>2
    <3> QED
      BY <3>3 DEF ToSet
  <2>4. ASSUME NEW m \in Messages, NEW i \in DOMAIN acc.content[m],
               NEW j \in DOMAIN acc.content[m], j > i, acc.content[m][j] = EndEvent
        PROVE  i \in DOMAIN rows[m].content
    BY <2>1, <2>2, <2>4
  <2>5. ASSUME ~late, NEW m \in Messages PROVE rows[m].content = acc.content[m]
    <3>1. ~acc.dirty /\ acc.queue = <<>>
      BY <1>1, <1>3, <2>5 DEF Drained
    <3>2. DOMAIN acc.queue = {}
      BY <3>1
    <3> QED
      BY <1>1, <1>3, <2>5, <3>1, <3>2 DEF Covered
  <2>6. ASSUME ~late, NEW m \in 1..acc.messageId PROVE rows[m].status = "ended"
    <3>1. acc.messageId \in Messages /\ m \in Messages /\ m <= acc.messageId
      BY <1>1, RunMessagesAssumption DEF Memory
    <3> QED
      BY <1>1, <1>3, <2>6, <3>1 DEF Ended
  <2> QED
    BY <2>3, <2>4, <2>5, <2>6
<1> QED
  BY <1>2, <1>3 DEF EndedMessagesAreWhole

(* The memory of the accumulator, its queue of writes and the rows have the *)
(* types the code gives them, for any number of messages and blocks.        *)
THEOREM TypeCorrect == Spec => []TypeOK
BY Inductive, IInvTypes, PTL

(* What Claude tells, streamed and then as a whole, is in the messages of its *)
(* run once: with what it remembers the parser neither drops a block nor tells *)
(* it twice, and a block is in the message it is of.                          *)
THEOREM EachBlockIsToldOnce == Spec => []ToldOnce
BY Inductive, IInvTells, PTL

(* Whatever write is under way, and however far the queue lags behind the    *)
(* switch to the next message, a row holds what its own message had before.  *)
THEOREM RowsFollow == Spec => []RowsFollowMessages
BY Inductive, IInvFollows, PTL

(* A run that is terminal has stored all its messages had when its end event *)
(* came; finishRun loses nothing to the writes that are still queued.        *)
THEOREM TerminalMessagesAreWhole == Spec => []EndedMessagesAreWhole
BY Inductive, IInvEnds, PTL
=============================================================================
