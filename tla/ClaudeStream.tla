---------------------------- MODULE ClaudeStream ----------------------------
(***************************************************************************)
(* The parser of Claude Code's JSON lines: what it remembers, and the run  *)
(* events each line makes.  Claude tells a content block twice, streamed   *)
(* and in the final assistant object, or, without partial messages, once;  *)
(* the parser must make events of it once.                                 *)
(*                                                                         *)
(* A block is named by its message and its place in it; the text, the tool *)
(* input and the lines about neither are left out.                         *)
(***************************************************************************)
EXTENDS Integers, Sequences, FiniteSets

\* currentMessageId, emittedAssistantMessageStartIds, textStreamed, emittedToolUseIds.
NewParser == [current |-> 0, started |-> {}, textStreamed |-> {}, tools |-> {}]

Block == [message : Nat \ {0}, place : Nat, tool : BOOLEAN]
MessageStartEvent == [type |-> "assistant_message_start"]
BlockEvent(block) == [type |-> IF block.tool THEN "tool_use" ELSE "text_delta", block |-> block]

\* emitAssistantMessageStart: once for each message.
EmitAssistantMessageStart(p, id) ==
  IF id \in p.started THEN <<>> ELSE <<MessageStartEvent>>

\* stream_event message_start.
MessageStart(p, id) ==
  [parser |-> [p EXCEPT !.current = id, !.started = @ \cup {id}],
   events |-> EmitAssistantMessageStart(p, id)]

\* emitToolUseOnce: once for each tool use.
EmitToolUseOnce(p, block) ==
  IF block \in p.tools THEN <<>> ELSE <<BlockEvent(block)>>

\* Mutant: the message that streamed is not remembered.
StreamedBlockForgotten(p, block, parsed) ==
  IF block.tool
  THEN IF parsed
       THEN [parser |-> [p EXCEPT !.tools = @ \cup {block}],
             events |-> EmitToolUseOnce(p, block)]
       ELSE [parser |-> p, events |-> <<>>]
  ELSE [parser |-> p, events |-> <<BlockEvent(block)>>]

\* content_block_delta of a text, or content_block_stop of a tool use, whose
\* input is left to the assistant object when it cannot be parsed.
StreamedBlock(p, block, parsed) ==
  IF block.tool
  THEN IF parsed
       THEN [parser |-> [p EXCEPT !.tools = @ \cup {block}],
             events |-> EmitToolUseOnce(p, block)]
       ELSE [parser |-> p, events |-> <<>>]
  ELSE [parser |-> [p EXCEPT !.textStreamed = @ \cup {p.current}],
        events |-> <<BlockEvent(block)>>]

\* The assistant object of a block: a tool use goes by its own id, a text by
\* whether its message has streamed any.
AssistantObject(p, block) ==
  LET id == block.message
      told == IF block.tool THEN EmitToolUseOnce(p, block)
              ELSE IF id \in p.textStreamed THEN <<>> ELSE <<BlockEvent(block)>>
  IN [parser |-> [p EXCEPT !.current = id, !.started = @ \cup {id},
                           !.tools = IF block.tool THEN @ \cup {block} ELSE @],
      events |-> EmitAssistantMessageStart(p, id) \o told]
=============================================================================
