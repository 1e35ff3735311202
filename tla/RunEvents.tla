------------------------------ MODULE RunEvents ------------------------------
(***************************************************************************)
(* The event stream of one run: the buffer of emitRunEvent, the SSE route  *)
(* GET /api/runs/:runId/events, and clients that lose their connection and *)
(* come back with the id of the last event they received.                  *)
(*                                                                         *)
(* Between the end event and the final commit (RunLifecycle: finish is     *)
(* "message" or "commit") the run is not terminal yet, and its child may   *)
(* still produce output.  An event is known by its id, its place in the    *)
(* sequence of all events.  What the runner and finishRun emit, and when    *)
(* the run ends, is RunStreaming's.                                        *)
(***************************************************************************)
EXTENDS Naturals, Sequences

CONSTANTS
    Clients,        \* each with at most one connection at a time
    BufferSize      \* maxBufferedEvents

VARIABLES
    phase,      \* "live", "ended" (end is out), "terminal", "dropped" (not in the states map)
    kinds,      \* of all events so far: "shown", "hidden" (filtered for these clients) or "end"
    buffer,     \* state.events, the ids
    conn,       \* per client: "none", "open" (subscribed), "ended" (by the server)
    wire,       \* per client: sent and not received
    seen        \* per client: received, over all its connections

vars == <<phase, kinds, buffer, conn, wire, seen>>

(* The domains of the variables; the buffer keeps its bound. *)
TypeOK ==
    /\ phase \in {"live", "ended", "terminal", "dropped"}
    /\ kinds \in Seq({"shown", "hidden", "end"})
    /\ buffer \in Seq(1 .. Len(kinds)) /\ Len(buffer) <= BufferSize
    /\ conn \in [Clients -> {"none", "open", "ended"}]
    /\ \A c \in Clients : wire[c] \in Seq(1 .. Len(kinds)) /\ seen[c] \in Seq(1 .. Len(kinds))

(* filterRunEvent: the visibility of the client decides on every event but end. *)
Shown(kind) == kind # "hidden"
ShownIds(ks) == {id \in DOMAIN ks : Shown(ks[id])}

(* Those elements of s that are in S.  SelectSeq does the same and is not  *)
(* used, as nothing can be proved about it.                                *)
Among(s, S) ==
    LET taken[i \in 0 .. Len(s)] ==
            IF i = 0 THEN <<>>
            ELSE IF s[i] \in S THEN Append(taken[i - 1], s[i]) ELSE taken[i - 1]
    IN taken[Len(s)]

SeenIds(c) == {seen[c][i] : i \in DOMAIN seen[c]}
LastSeen(c) == IF seen[c] = <<>> THEN 0 ELSE seen[c][Len(seen[c])]

Init ==
    /\ phase = "live"
    /\ kinds = <<>>
    /\ buffer = <<>>
    /\ conn = [c \in Clients |-> "none"]
    /\ wire = [c \in Clients |-> <<>>]
    /\ seen = [c \in Clients |-> <<>>]

(* The oldest events beyond maxBufferedEvents are spliced. *)
Trim(b) == IF Len(b) > BufferSize THEN SubSeq(b, 1 + Len(b) - BufferSize, Len(b)) ELSE b

(* emitRunEvent, for each of the events: a new id, the buffer, and every   *)
(* open stream that shows it.                                              *)
Emit(new) ==
    LET ids == [i \in DOMAIN new |-> Len(kinds) + i] IN
    /\ kinds' = kinds \o new
    /\ buffer' = Trim(buffer \o ids)
    /\ wire' = [c \in Clients |-> IF conn[c] = "open"
                                  THEN wire[c] \o Among(ids, ShownIds(kinds'))
                                  ELSE wire[c]]

(* Events of the run; once it is terminal emitRunEvent does nothing. *)
RunEvent(new) ==
    IF phase \in {"live", "ended"}
    THEN Emit(new) /\ UNCHANGED <<phase, conn, seen>>
    ELSE UNCHANGED vars

(* A fault: the listener does not end its stream. *)
EndEventOnly ==
    /\ phase = "live"
    /\ phase' = "ended"
    /\ Emit(<<"end">>)
    /\ UNCHANGED <<conn, seen>>

(* finishRun emits end; the listener of a stream that gets it unsubscribes *)
(* and ends the response.                                                  *)
EndEvent ==
    /\ phase = "live"
    /\ phase' = "ended"
    /\ Emit(<<"end">>)
    /\ conn' = [c \in Clients |-> IF conn[c] = "open" THEN "ended" ELSE conn[c]]
    /\ UNCHANGED seen

(* The final commit is through: from here on emitRunEvent does nothing. *)
CommitTerminal ==
    /\ phase = "ended"
    /\ phase' = "terminal"
    /\ UNCHANGED <<kinds, buffer, conn, wire, seen>>

(* The cleanup timer: the stream is not found any more. *)
Cleanup ==
    /\ phase = "terminal"
    /\ phase' = "dropped"
    /\ UNCHANGED <<kinds, buffer, conn, wire, seen>>

-----------------------------------------------------------------------------
(* Faults: an event too many, an event too few. *)
ShouldReplayFrom(id, after) == id >= after

(* Ids are compared as numbers; without a last id everything is replayed. *)
ShouldReplayAfter(id, after) == id > after

(* The route: the buffered events after the client's last one are sent and *)
(* the stream is subscribed without an await in between; the stream of a   *)
(* terminal run is ended at once.                                          *)
Connect(c) ==
    /\ conn[c] = "none"
    /\ phase # "dropped"
    /\ wire' = [wire EXCEPT ![c] =
            Among(buffer, {id \in ShownIds(kinds) : ShouldReplayAfter(id, LastSeen(c))})]
    /\ conn' = [conn EXCEPT ![c] = IF phase = "terminal" THEN "ended" ELSE "open"]
    /\ UNCHANGED <<phase, kinds, buffer, seen>>

Receive(c) ==
    /\ wire[c] # <<>>
    /\ seen' = [seen EXCEPT ![c] = Append(@, Head(wire[c]))]
    /\ wire' = [wire EXCEPT ![c] = Tail(@)]
    /\ UNCHANGED <<phase, kinds, buffer, conn>>

(* The response is read to its end. *)
StreamDone(c) ==
    /\ conn[c] = "ended"
    /\ wire[c] = <<>>
    /\ conn' = [conn EXCEPT ![c] = "none"]
    /\ UNCHANGED <<phase, kinds, buffer, wire, seen>>

(* The connection breaks, and what is in flight is lost. *)
Disconnect(c) ==
    /\ conn[c] # "none"
    /\ conn' = [conn EXCEPT ![c] = "none"]
    /\ wire' = [wire EXCEPT ![c] = <<>>]
    /\ UNCHANGED <<phase, kinds, buffer, seen>>

ClientStep == \E c \in Clients : Connect(c) \/ Receive(c) \/ StreamDone(c) \/ Disconnect(c)

-----------------------------------------------------------------------------
(* However often a client reconnects, it receives no event twice and none  *)
(* out of order: replay and live events meet without an overlap.  A shown  *)
(* event it was passed over with was trimmed from the buffer: nothing is   *)
(* lost between the replay and the subscription, or with the connection.   *)
OnlyTrimmedEventsAreMissed ==
    \A c \in Clients :
        /\ \A i \in 1 .. Len(seen[c]) - 1 : seen[c][i] < seen[c][i + 1]
        /\ \A id \in 1 .. LastSeen(c) :
              Shown(kinds[id]) /\ id \notin SeenIds(c) => id + BufferSize <= Len(kinds)
=============================================================================
