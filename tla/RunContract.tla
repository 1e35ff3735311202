---------------------------- MODULE RunContract ----------------------------
(***************************************************************************)
(* What the daemon promises about a run, as its database shows it: a run   *)
(* is queued, may start running once, and ends, in one terminal status; a  *)
(* run that succeeded or failed never changes again.  One that was         *)
(* canceled or interrupted before it was seen running may be seen running  *)
(* afterwards, until the next restart interrupts it.  For every status a   *)
(* run passes through one webhook delivery is queued in the same           *)
(* transaction, and for no other.                                          *)
(***************************************************************************)
CONSTANTS Runs, TerminalStatus

VARIABLES
    status,     \* runs.status
    deliveries  \* the run statuses that have a webhook_deliveries row

vars == <<status, deliveries>>

Init ==
    /\ status = [r \in Runs |-> "absent"]
    /\ deliveries = [r \in Runs |-> {}]

(* The runs of R move to a status, and announce it. *)
Move(R, to) ==
    /\ status' = [r \in Runs |-> IF r \in R THEN to ELSE status[r]]
    /\ deliveries' = [r \in Runs |-> IF r \in R THEN deliveries[r] \cup {to} ELSE deliveries[r]]

Open == {r \in Runs : status[r] \in {"queued", "running"}}

Submit(r) == status[r] = "absent" /\ Move({r}, "queued")

Begin(r) == status[r] = "queued" /\ Move({r}, "running")

(* The start of a run that was ended meanwhile is stored after its end. *)
BeginLate(r) ==
    /\ status[r] \in {"canceled", "interrupted"}
    /\ "running" \notin deliveries[r]
    /\ Move({r}, "running")

(* A run ends once; only a restart ends one that began late. *)
End(r) ==
    /\ r \in Open
    /\ deliveries[r] \cap TerminalStatus = {}
    /\ \E to \in TerminalStatus : Move({r}, to)

(* A restart ends every run that was left open. *)
InterruptOpen == Move(Open, "interrupted")

Next ==
    \/ \E r \in Runs : Submit(r) \/ Begin(r) \/ BeginLate(r) \/ End(r)
    \/ InterruptOpen

Spec == Init /\ [][Next]_vars
=============================================================================
