---------------------------- MODULE RunQueueLoop ----------------------------
(***************************************************************************)
(* selectDispatchableCandidates as the loop it is in core/run-queue.ts, on *)
(* a scheduler that does nothing but queue, dispatch and end runs.  The    *)
(* loop meets every mix of limits there, and is compared with IsSelection, *)
(* the declarative form RunLifecycle uses.                                 *)
(***************************************************************************)
EXTENDS RunQueue

VARIABLES
    queueStatus,    \* queueStatus of each run
    sequenceOf,     \* its sequence number
    nextNumber      \* nextSequence

queueVars == <<queueStatus, sequenceOf, nextNumber>>

WithStatus(S) == {r \in Runs : queueStatus[r] \in S}
Waiting == WithStatus({"queued"})
Occupied == WithStatus(CapacityConsuming)

(* Faults: the runs already taken are not counted as busy; the first run   *)
(* that cannot start ends the walk.                                        *)
SelectWithoutCounting(queued, busy, seq) == {r \in queued : CanStart(r, busy)}

SelectUntilBlocked(queued, busy, seq) ==
    {r \in queued : \A s \in Before(queued, r, seq) \cup {r} :
                        CanStart(s, busy \cup Before(queued, s, seq))}

(* The queued runs, sorted by their sequence numbers. *)
InOrder(queued, seq) ==
    LET n == Cardinality(queued) IN
    CHOOSE order \in [1 .. n -> queued] :
        /\ \A r \in queued : \E i \in 1 .. n : order[i] = r
        /\ \A i, j \in 1 .. n : i < j => seq[order[i]] < seq[order[j]]

(* Walk the queue in sequence order, taking what the limits still admit:   *)
(* what is selected after the first i of the queue.                        *)
SelectDispatchable(queued, busy, seq) ==
    LET order == InOrder(queued, seq)
        selected[i \in 0 .. Cardinality(queued)] ==
            IF i = 0 THEN {}
            ELSE IF CanStart(order[i], busy \cup selected[i - 1])
                 THEN selected[i - 1] \cup {order[i]} ELSE selected[i - 1]
    IN  selected[Cardinality(queued)]

QueueInit ==
    /\ queueStatus = [r \in Runs |-> "absent"]
    /\ sequenceOf = [r \in Runs |-> 0]
    /\ nextNumber = 1

Enqueue(r) ==
    /\ queueStatus[r] = "absent"
    /\ queueStatus' = [queueStatus EXCEPT ![r] = "queued"]
    /\ sequenceOf' = [sequenceOf EXCEPT ![r] = nextNumber]
    /\ nextNumber' = nextNumber + 1

DispatchSelected ==
    /\ Waiting # {}
    /\ LET selected == SelectDispatchable(Waiting, Occupied, sequenceOf) IN
        queueStatus' = [r \in Runs |-> IF r \in selected THEN "starting" ELSE queueStatus[r]]
    /\ UNCHANGED <<sequenceOf, nextNumber>>

(* A dispatched run is finished, or a queued one canceled: it occupies a   *)
(* slot until its final commit.                                            *)
BeginEnd(r) ==
    /\ queueStatus[r] \in {"queued", "starting"}
    /\ queueStatus' = [queueStatus EXCEPT ![r] = "finishing"]
    /\ UNCHANGED <<sequenceOf, nextNumber>>

End(r) ==
    /\ queueStatus[r] = "finishing"
    /\ queueStatus' = [queueStatus EXCEPT ![r] = "terminal"]
    /\ UNCHANGED <<sequenceOf, nextNumber>>

QueueNext ==
    \/ \E r \in Runs : Enqueue(r) \/ BeginEnd(r) \/ End(r)
    \/ DispatchSelected

QueueSpec == QueueInit /\ [][QueueNext]_queueVars

(* The selection RunLifecycle uses exists, is unique, and is the loop's. *)
SelectionIsTheLoop ==
    \A S \in SUBSET Waiting :
        IsSelection(S, Waiting, Occupied, sequenceOf)
            <=> S = SelectDispatchable(Waiting, Occupied, sequenceOf)

(* One dispatch is enough: it leaves no queued run behind that the limits  *)
(* would still admit, and a run blocked by its workspace or its profile    *)
(* does not hold up the ones behind it.                                    *)
DispatchIsMaximal ==
    [][DispatchSelected => \A r \in Waiting' : ~CanStart(r, Occupied')]_queueVars
=============================================================================
