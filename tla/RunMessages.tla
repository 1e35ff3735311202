---------------------------- MODULE RunMessages ----------------------------
(***************************************************************************)
(* From the lines of a Claude process to the stored messages of its run:   *)
(* the process, the parser, and the accumulator with the rows.  The run    *)
(* may be finished when its process has closed, or before, by a timeout or *)
(* a cancel, while lines still come.                                       *)
(***************************************************************************)
EXTENDS ClaudeStream, MessageAccumulator

CONSTANTS MaxMessages, MaxBlocks   \* bounds of a run of Claude: messages, blocks

ASSUME RunMessagesAssumption ==
  /\ MaxMessages \in Nat /\ MaxBlocks \in Nat
  /\ Messages = 1..(IF MaxMessages = 0 THEN 1 ELSE MaxMessages)

VARIABLES
  partial,  \* the claude binary streams partial messages
  claude,   \* the process: the message and block it is at, what it has told of it
  parser,   \* the stream handler's memory
  early,    \* history: the run was finished while startRun wrote
  late      \* history: a line came after the end event

vars == <<accVars, partial, claude, parser, early, late>>

Init ==
  /\ AccInit
  /\ partial \in BOOLEAN
  /\ claude = [pc |-> "none", message |-> 0, place |-> 0, tool |-> FALSE, told |-> {}]
  /\ parser = NewParser
  /\ early = FALSE /\ late = FALSE

CurrentBlock == [message |-> claude.message, place |-> claude.place, tool |-> claude.tool]

\* onEvent: the run takes events until it is terminal.
Feed(parsed) ==
  /\ parser' = parsed.parser
  /\ acc' = IF finish.pc = "terminal" THEN acc ELSE Consume(acc, parsed.events)
  /\ late' = (late \/ finish.pc # "no")
  /\ UNCHANGED <<rows, reading, start, finish, waitFor, partial, early>>

\* The process is spawned when startRun's write is done.
Spawn ==
  /\ claude.pc = "none" /\ start.pc = "done" /\ finish.pc = "no"
  /\ claude' = [claude EXCEPT !.pc = "between"]
  /\ UNCHANGED <<accVars, partial, parser, early, late>>

\* Claude begins a message.
NextMessage ==
  /\ claude.pc = "between" /\ claude.message < MaxMessages
  /\ claude' = [claude EXCEPT !.pc = "message", !.message = @ + 1, !.place = 0]
  /\ Feed(IF partial THEN MessageStart(parser, claude.message + 1)
          ELSE [parser |-> parser, events |-> <<>>])

\* A block of it, streamed first if partial messages are on.
NextBlock ==
  /\ claude.pc = "message" /\ Cardinality(claude.told) < MaxBlocks
  /\ \E tool \in BOOLEAN, parsed \in BOOLEAN :
       LET block == [message |-> claude.message, place |-> claude.place + 1, tool |-> tool]
       IN /\ claude' = [claude EXCEPT !.pc = "block", !.place = @ + 1, !.tool = tool]
          /\ Feed(IF partial THEN StreamedBlock(parser, block, parsed)
                  ELSE [parser |-> parser, events |-> <<>>])

\* The assistant object that tells the block as a whole.
TellBlock ==
  /\ claude.pc = "block"
  /\ claude' = [claude EXCEPT !.pc = "message", !.told = @ \cup {BlockEvent(CurrentBlock)}]
  /\ Feed(AssistantObject(parser, CurrentBlock))

EndMessage ==
  /\ claude.pc = "message" /\ claude.place > 0
  /\ claude' = [claude EXCEPT !.pc = "between"]
  /\ UNCHANGED <<accVars, partial, parser, early, late>>

\* The process closes, wherever it was.
Close ==
  /\ claude.pc \in {"between", "message", "block"}
  /\ claude' = [claude EXCEPT !.pc = "closed"]
  /\ UNCHANGED <<accVars, partial, parser, early, late>>

\* finishRun: because the process has closed, or because of a timeout, a cancel
\* or a failing start.
Finish ==
  /\ FlushTerminal
  /\ early' = (start.pc # "done")
  /\ UNCHANGED <<partial, claude, parser, late>>

Persist == ThrottledFlush \/ QueuedWrite \/ StartWrite \/ FinishStep

Next ==
  \/ (Persist \/ Dispose) /\ UNCHANGED <<partial, claude, parser, early, late>>
  \/ Spawn \/ NextMessage \/ NextBlock \/ TellBlock \/ EndMessage \/ Close \/ Finish

Spec == Init /\ [][Next]_vars

\* The timer fires, the database answers, and finishRun goes on.  Neither Claude
\* nor the end of the run is assumed to come.
Fairness ==
  /\ WF_vars(ThrottledFlush /\ UNCHANGED <<partial, claude, parser, early, late>>)
  /\ WF_vars(QueuedWrite /\ UNCHANGED <<partial, claude, parser, early, late>>)
FairSpec == Spec /\ Fairness

-----------------------------------------------------------------------------
Event == [type : {"text_delta", "tool_use"}, block : Block] \cup {EndEvent}
Row == [status : {"absent", "queued", "running", "ended"}, content : Seq(Event)]

TypeOK ==
  /\ acc.messageId \in Messages
  /\ {acc.sawStart, acc.dirty, acc.timer, partial, early, late} \subseteq BOOLEAN
  /\ acc.content \in [Messages -> Seq(Event)]
  /\ acc.queue \in Seq([op : {"update", "insert"}, message : Messages, content : Seq(Event)])
  /\ rows \in [Messages -> Row] /\ reading \in Row
  /\ start \in [pc : {"waiting", "read", "done"}, row : Row]
  /\ finish \in [pc : {"no", "flush", "drain", "ended", "read", "written", "terminal", "failed"},
                 message : Messages, row : Row]
  /\ waitFor \in 0..Len(acc.queue)
  /\ claude.message \in 0..MaxMessages /\ claude.place \in Nat
  /\ acc.dirty /\ finish.pc # "terminal" => acc.timer

\* What Claude tells is in the messages of the run once, streamed or not: every
\* block it has told as a whole, none twice, and each in its own message.
ToldOnce ==
  /\ \A m, n \in Messages : \A i \in DOMAIN acc.content[m], j \in DOMAIN acc.content[n] :
       acc.content[m][i] = acc.content[n][j] => m = n /\ i = j
  /\ ~late => \A e \in claude.told : \E m \in Messages : \E i \in DOMAIN acc.content[m] :
                acc.content[m][i] = e
  /\ \A m \in Messages : \A i \in DOMAIN acc.content[m] :
       acc.content[m][i] # EndEvent => acc.content[m][i].block.message = m

\* A row holds what its own message had at some moment, never that of another,
\* although the writes lag behind the switch to the next message.
RowsFollowMessages ==
  \A m \in Messages : IsPrefix(rows[m].content, acc.content[m])

\* When the run is terminal, all that came up to the end event is stored, also
\* when more came after it; and when nothing did, every message has ended, and
\* finishRun finds the rows it needs.  A run finished while startRun wrote is the
\* exception.
EndedMessagesAreWhole ==
  /\ finish.pc = "terminal" /\ ~early =>
       /\ \E m \in Messages : EndEvent \in ToSet(rows[m].content)
       /\ \A m \in Messages : \A i \in DOMAIN acc.content[m] :
            (~late \/ \E j \in DOMAIN acc.content[m] : j > i /\ acc.content[m][j] = EndEvent)
              => i \in DOMAIN rows[m].content
       /\ ~late => \A m \in 1..acc.messageId : rows[m].status = "ended"
  /\ ~late => finish.pc # "failed"

\* What a run has said reaches its row while it runs, and not only when it ends.
OutputIsStored ==
  \A m \in Messages : \A i \in 1..MaxBlocks + 1 :
    i \in DOMAIN acc.content[m] ~> i \in DOMAIN rows[m].content \/ finish.pc # "no"
=============================================================================
