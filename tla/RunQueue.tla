------------------------------ MODULE RunQueue ------------------------------
(***************************************************************************)
(* The admission rule of the run queue (core/run-queue.ts).                *)
(*                                                                         *)
(* The daemon keeps one queue for every profile and workspace.  A queued   *)
(* run may start when three limits leave room for it: the number of runs   *)
(* that consume capacity, that number within its profile, and one per      *)
(* workspace.  A dispatch walks the queue in the order of the sequence     *)
(* numbers and takes every run the limits admit, counting the runs it has  *)
(* already taken.                                                          *)
(***************************************************************************)
EXTENDS Naturals, FiniteSets

CONSTANTS
    Runs,               \* every run that is ever created
    Workspaces,
    Profiles,
    WorkspaceOf,        \* the workspace a run works in
    ProfileOf,          \* the profile it is created for
    GlobalConcurrency,  \* config.server.globalConcurrency
    ProfileConcurrency  \* profile.profileConcurrency, per profile

ASSUME RunsAssumption ==
    /\ IsFiniteSet(Runs)
    /\ WorkspaceOf \in [Runs -> Workspaces]
    /\ ProfileOf \in [Runs -> Profiles]

ASSUME LimitsAssumption ==
    /\ GlobalConcurrency \in Nat \ {0}
    /\ ProfileConcurrency \in [Profiles -> Nat \ {0}]

(* The statuses of a run that occupies one of the concurrency slots. *)
CapacityConsuming == {"starting", "running", "finishing"}

(* The runs of busy that belong to profile p. *)
OfProfile(busy, p) == {b \in busy : ProfileOf[b] = p}

(* Faults the properties are tried against: a limit that is not looked at. *)
CanStartInBusyWorkspace(r, busy) ==
    /\ Cardinality(busy) < GlobalConcurrency
    /\ Cardinality(OfProfile(busy, ProfileOf[r])) < ProfileConcurrency[ProfileOf[r]]

(* May run r start while the runs in busy consume capacity? *)
CanStart(r, busy) ==
    /\ Cardinality(busy) < GlobalConcurrency
    /\ Cardinality(OfProfile(busy, ProfileOf[r])) < ProfileConcurrency[ProfileOf[r]]
    /\ \A b \in busy : WorkspaceOf[b] # WorkspaceOf[r]

(* A fault: the queue is walked from its end. *)
BeforeNewestFirst(S, r, seq) == {s \in S : seq[s] > seq[r]}

(* The members of S that come before r in the order of the sequence numbers. *)
Before(S, r, seq) == {s \in S : seq[s] < seq[r]}

(***************************************************************************)
(* S is what one pass over the queue selects: a queued run is taken        *)
(* exactly when it can start next to the busy runs and the runs taken      *)
(* before it.  As the sequence numbers differ there is exactly one such S  *)
(* (RunQueueLoop checks that, and that it is what the loop computes).      *)
(***************************************************************************)
IsSelection(S, queued, busy, seq) ==
    /\ S \subseteq queued
    /\ \A r \in queued : r \in S <=> CanStart(r, busy \cup Before(S, r, seq))
=============================================================================
