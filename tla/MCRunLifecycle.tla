--------------------------- MODULE MCRunLifecycle ---------------------------
(* RunLifecycle on small instances: which run works where is chosen here,  *)
(* the number of runs and the limits in the cfg.                           *)
EXTENDS RunLifecycle, TLC

CONSTANTS r1, r2, w1, p1

(* Two runs of one workspace and one profile. *)
MCWorkspaceOf == [r \in Runs |-> w1]
MCProfileOf == [r \in Runs |-> p1]
MCProfileConcurrency == [p \in Profiles |-> 2]

(* r1 and r2 are alike: r1 is the one that comes first.  A daemon that was *)
(* started again has one run at a time.                                     *)
FirstComesFirst ==
    r2 \in creating' => r1 \in creating' \/ row'[r1].status # "absent"
OneRunAfterRestart ==
    restarts' # 0 /\ daemon' = "up" => Cardinality({r \in Runs : state'[r].seq # 0}) <= 1
MCFairSpec == Init /\ [][Next /\ FirstComesFirst /\ OneRunAfterRestart]_vars /\ Fairness
=============================================================================
