------------------------------ MODULE Artifacts ------------------------------
(***************************************************************************)
(* The artifact rules of a run, and what is made of the files they match.  *)
(***************************************************************************)
EXTENDS Naturals, FiniteSets

CONSTANTS
  Files,      \* of the workspace that some rule matches
  Rules,      \* the selected rules, numbered in the order of their ids
  Pattern,    \* per rule: the files it matches
  Priority,   \* per rule: artifactRolePriority of its role
  Required    \* the rules with required: true

ASSUME ArtifactsAssumption ==
  /\ Rules \subseteq Nat /\ IsFiniteSet(Rules) /\ Required \subseteq Rules
  /\ Pattern \in [Rules -> SUBSET Files]
  /\ Priority \in [Rules -> Nat]

\* One rule of scanArtifacts.
Matches(rule, disk) == {[file |-> f, rule |-> rule] : f \in Pattern[rule] \cap disk}

\* Mutant: of two rules of one priority neither takes the file.
SelectStrictlyHighest(scanned) ==
  {a \in scanned : \A b \in scanned \ {a} :
     b.file = a.file => Priority[b.rule] < Priority[a.rule]}

\* A file is listed once, for the first of the rules of the highest priority.
SelectHighestPriorityArtifacts(scanned) ==
  {a \in scanned : \A b \in scanned :
     b.file = a.file => \/ Priority[b.rule] < Priority[a.rule]
                        \/ Priority[b.rule] = Priority[a.rule] /\ b.rule >= a.rule}

MissingRequired(scanned) == {r \in Required : \A a \in scanned : a.rule # r}
=============================================================================
