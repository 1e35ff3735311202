------------------------------- MODULE RunLogs -------------------------------
(***************************************************************************)
(* The bounded writer behind each log file of a run: chunks are appended   *)
(* to a queue, and the file is written one chunk at a time.  A byte is     *)
(* known by its place in the output.                                       *)
(***************************************************************************)
EXTENDS Naturals, Sequences, SequencesExt

CONSTANT MaxLogBytes    \* maxLogBytesPerRun

ASSUME RunLogsAssumption == MaxLogBytes \in Nat

\* "[truncated: max log bytes reached]"
Marker == 0

\* The content that an output should leave behind.
Bounded(output) ==
  IF Len(output) <= MaxLogBytes THEN output
  ELSE Append(SubSeq(output, 1, MaxLogBytes), Marker)

\* queued and done count the operations of the queue.
NewWriter == [file |-> <<>>, bytes |-> 0, truncated |-> FALSE, failed |-> FALSE,
              queue |-> <<>>, queued |-> 0, done |-> 0]

AppendChunk(w, chunk) ==
  IF w.truncated THEN w ELSE [w EXCEPT !.queue = Append(@, chunk), !.queued = @ + 1]

Served(w) == [w EXCEPT !.queue = Tail(@), !.done = @ + 1]

\* What fits is written, and the marker once something does not.
WriteHead(w) ==
  LET chunk == Head(w.queue)
      room  == MaxLogBytes - w.bytes
  IN IF w.truncated THEN Served(w)
     ELSE IF Len(chunk) <= room
          THEN [Served(w) EXCEPT !.file = @ \o chunk, !.bytes = @ + Len(chunk)]
          ELSE [Served(w) EXCEPT !.file = Append(@ \o SubSeq(chunk, 1, room), Marker),
                                 !.bytes = @ + room, !.truncated = TRUE]

\* Either the chunk is lost, or what fits of it is written and the marker is lost.
WriteHeadFails(w) ==
  LET chunk == Head(w.queue)
      room  == MaxLogBytes - w.bytes
      lost  == [Served(w) EXCEPT !.failed = TRUE]
  IN {lost} \cup
     IF room = 0 \/ Len(chunk) <= room THEN {}
     ELSE {[lost EXCEPT !.file = @ \o SubSeq(chunk, 1, room), !.bytes = @ + room]}
=============================================================================
