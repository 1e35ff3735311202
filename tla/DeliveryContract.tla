-------------------------- MODULE DeliveryContract --------------------------
(***************************************************************************)
(* What the outbox promises about a webhook delivery, as its row shows it: *)
(* it is attempted at most MaxAttempts times, each attempt counted before  *)
(* it is made, and once it has succeeded or was abandoned it stays so.     *)
(***************************************************************************)
EXTENDS Naturals

CONSTANTS Deliveries, MaxAttempts

VARIABLES
    status,     \* delivery_status, or "absent"
    attempts,   \* attempt_count
    posts       \* requests the receiver may have got

vars == <<status, attempts, posts>>

Closed == {"succeeded", "abandoned"}

Init ==
    /\ status = [d \in Deliveries |-> "absent"]
    /\ attempts = [d \in Deliveries |-> 0]
    /\ posts = [d \in Deliveries |-> 0]

Create(d) ==
    /\ status[d] = "absent"
    /\ status' = [status EXCEPT ![d] = "pending"]
    /\ UNCHANGED <<attempts, posts>>

(* The deliveries of S are claimed for one more attempt each, those of G, *)
(* which have none left, are given up.                                    *)
Claim(S, G) ==
    /\ \A d \in S : status[d] \notin Closed \cup {"absent"} /\ attempts[d] < MaxAttempts
    /\ \A d \in G : status[d] \notin Closed \cup {"absent"} /\ attempts[d] = MaxAttempts
    /\ status' = [d \in Deliveries |-> IF d \in S THEN "delivering"
                                       ELSE IF d \in G THEN "abandoned" ELSE status[d]]
    /\ attempts' = [d \in Deliveries |-> IF d \in S THEN attempts[d] + 1 ELSE attempts[d]]
    /\ UNCHANGED posts

Send(d) ==
    /\ status[d] = "delivering"
    /\ posts[d] < attempts[d]
    /\ posts' = [posts EXCEPT ![d] = @ + 1]
    /\ UNCHANGED <<status, attempts>>

(* The outcome of an attempt is recorded. *)
Record(d) ==
    /\ status[d] = "delivering"
    /\ \E outcome \in Closed \cup {"retrying"} : status' = [status EXCEPT ![d] = outcome]
    /\ UNCHANGED <<attempts, posts>>

Next ==
    \/ \E d \in Deliveries : Create(d) \/ Send(d) \/ Record(d)
    \/ \E S, G \in SUBSET Deliveries : Claim(S, G)

Spec == Init /\ [][Next]_vars
=============================================================================
