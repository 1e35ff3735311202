--------------------------- MODULE MCRpaSessions ---------------------------
(* RpaSessions on small instances. *)
EXTENDS RpaSessions

CONSTANTS n1, c1

(* With two sessions of one flow, imports are all that touches it besides; with *)
(* them, or with a deletion, each session gets two tasks.                        *)
TwoSessionsOrOneFlow ==
  LET two == status'[n1] # "absent" /\ status'[c1] # "absent"
  IN /\ two => deletes' = 0 /\ \A e \in Executions : exec'[e].pc = "idle"
     /\ two \/ deletes' > 0 => \A s \in Sessions : Len(task'[s]) <= 2
MCFairSpec == Init /\ [][Next /\ TwoSessionsOrOneFlow]_vars /\ Fairness
=============================================================================
