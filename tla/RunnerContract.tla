--------------------------- MODULE RunnerContract ---------------------------
(***************************************************************************)
(* What the daemon relies on when it starts the Claude CLI: the runner     *)
(* completes at most once; a child that ends by itself decides the result  *)
(* unless the run was told to stop, and then the result is "canceled"; a   *)
(* runner may also fail while the child is still there, canceled or not.   *)
(* RunLifecycle has these steps as Spawn, CancelRunner, ChildExits and     *)
(* RunnerFails.                                                            *)
(***************************************************************************)
VARIABLES
    runner,     \* "active", "canceling" once cancel() was accepted, "completed"
    result,     \* the status the completed promise resolves with, or "none"
    child       \* "alive" until its close event, then "dead"; "none": never spawned

vars == <<runner, result, child>>

Complete(status) == runner' = "completed" /\ result' = status

Init ==
    \/ runner = "active" /\ result = "none" /\ child = "alive"
    \/ runner = "completed" /\ result = "failed" /\ child = "none"

Cancel ==
    /\ runner = "active"
    /\ runner' = "canceling"
    /\ UNCHANGED <<result, child>>

ChildEnds ==
    /\ child = "alive"
    /\ child' = "dead"
    /\ \/ runner = "active" /\ \E status \in {"succeeded", "failed"} : Complete(status)
       \/ runner = "canceling" /\ Complete("canceled")
       \/ runner = "completed" /\ UNCHANGED <<runner, result>>

Fail ==
    /\ runner \in {"active", "canceling"}
    /\ child = "alive"
    /\ Complete("failed")
    /\ UNCHANGED child

Next == Cancel \/ ChildEnds \/ Fail

Spec == Init /\ [][Next]_vars
=============================================================================
