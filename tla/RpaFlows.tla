------------------------------ MODULE RpaFlows ------------------------------
(***************************************************************************)
(* The directory of one flow on the disk of the local web server, and all  *)
(* that change it: publications of generated artifacts, imports of         *)
(* packages, deletions, and executions that end in a verification.  No     *)
(* lock covers it: each writer goes on after its awaits whatever became of *)
(* the directory meanwhile.                                                *)
(*                                                                         *)
(* A file-system call is one step; the content of the directory is named   *)
(* by who put it there.                                                    *)
(***************************************************************************)
EXTENDS Integers, FiniteSets

CONSTANTS
  Writers,     \* sessions that publish
  Imports,     \* import requests, each with its own package
  Executions,  \* verifications and production runs
  MaxDeletes,  \* deletions
  MaxFaults,   \* moves and removals that fail for a reason of their own
  None

ASSUME RpaFlowsAssumption ==
  /\ MaxDeletes \in Nat /\ MaxFaults \in Nat
  /\ None \notin Writers \cup Imports \cup Executions
  /\ Writers \cap Imports = {} /\ Writers \cap Executions = {} /\ Imports \cap Executions = {}

VARIABLES
  dir,      \* the final directory: its content and flow.local.json
  backup,   \* what a publication has moved out of the way
  pub,      \* where a publication is
  imp,      \* where an import is
  exec,     \* where an execution is, and its mode
  deletes, faults,
  removing, \* what a deletion has still to remove
  stale,    \* history: writers under whom the directory was taken away, and those whose
            \* files a deletion has begun to remove
  kept      \* history: there was a flow, and nobody has deleted it

flowVars == <<dir, backup, pub, imp, exec, deletes, faults, removing, stale, kept>>

Content == Writers \cup Imports \cup {None}
\* by is the run or execution the file names.
Metadata == [requires : BOOLEAN, by : Writers \cup Imports \cup Executions \cup {None}]
\* What readFlowLocalMetadata returns when there is no file.
NoMetadata == [requires |-> FALSE, by |-> None]
NoDir == [content |-> None, meta |-> NoMetadata]

FlowInit ==
  /\ dir = NoDir
  /\ backup = [w \in Writers |-> NoDir]
  /\ pub = [w \in Writers |-> "idle"]
  /\ imp = [i \in Imports |-> "idle"]
  /\ exec = [e \in Executions |-> [pc |-> "idle", mode |-> "none"]]
  /\ deletes = 0 /\ faults = 0 /\ removing = {} /\ stale = {} /\ kept = FALSE

Fault == faults < MaxFaults /\ faults' = faults + 1

\* Those who will still write flow.local.json, or run the script, by its path.
Engaged ==
  {w \in Writers : pub[w] \in {"in", "meta"}}
    \cup {e \in Executions : exec[e].pc \in {"read", "loaded", "running", "marking"}}

-----------------------------------------------------------------------------
(* Publication: persistRequiredGenerationArtifacts *)

\* List, validate and download; canonicalize and validate the DSL.
Stage(w) ==
  /\ pub[w] = "staging"
  /\ pub' = [pub EXCEPT ![w] = "staged"]
  /\ UNCHANGED <<dir, backup, imp, exec, deletes, faults, stale, kept, removing>>

StageFails(w) ==
  /\ pub[w] = "staging"
  /\ pub' = [pub EXCEPT ![w] = "failed"]
  /\ UNCHANGED <<dir, backup, imp, exec, deletes, faults, stale, kept, removing>>

\* rename(final, backup), which may find nothing to move.
MoveAway(w) ==
  /\ pub[w] = "staged"
  /\ backup' = [backup EXCEPT ![w] = dir]
  /\ dir' = NoDir
  /\ stale' = IF dir = NoDir THEN stale ELSE stale \cup Engaged
  /\ pub' = [pub EXCEPT ![w] = "away"]
  /\ UNCHANGED <<imp, exec, deletes, faults, kept, removing>>

\* rename(temp, final), which does not replace a directory that has files.
MoveIn(w) ==
  /\ pub[w] = "away"
  /\ \/ /\ dir = NoDir
        /\ dir' = [content |-> w, meta |-> NoMetadata]
        /\ kept' = TRUE
        /\ pub' = [pub EXCEPT ![w] = "in"]
        /\ UNCHANGED faults
     \/ /\ dir # NoDir
        /\ pub' = [pub EXCEPT ![w] = "restore"]
        /\ UNCHANGED <<dir, faults, kept>>
     \/ /\ Fault
        /\ pub' = [pub EXCEPT ![w] = "restore"]
        /\ UNCHANGED <<dir, kept>>
  /\ UNCHANGED <<backup, imp, exec, deletes, stale, removing>>

\* Mutant: what was moved away stays away.
RestoreNothing(w) ==
  /\ pub[w] = "restore"
  /\ pub' = [pub EXCEPT ![w] = "failed"]
  /\ UNCHANGED <<dir, backup, imp, exec, deletes, faults, stale, kept, removing>>

\* The way back; its failure is swallowed.
Restore(w) ==
  /\ pub[w] = "restore"
  /\ IF backup[w] # NoDir /\ dir = NoDir
     THEN dir' = backup[w] /\ backup' = [backup EXCEPT ![w] = NoDir]
     ELSE UNCHANGED <<dir, backup>>
  /\ pub' = [pub EXCEPT ![w] = "failed"]
  /\ UNCHANGED <<imp, exec, deletes, faults, stale, kept, removing>>

\* The backup is removed; when that fails the way back fails as well, and the
\* publication counts as failed with its flow in place.
RemoveBackup(w) ==
  /\ pub[w] = "in"
  /\ \/ /\ backup' = [backup EXCEPT ![w] = NoDir]
        /\ pub' = [pub EXCEPT ![w] = "meta"]
        /\ UNCHANGED faults
     \/ /\ backup[w] # NoDir /\ Fault
        /\ pub' = [pub EXCEPT ![w] = "restore"]
        /\ UNCHANGED backup
  /\ UNCHANGED <<dir, imp, exec, deletes, stale, kept, removing>>

\* writeFlowLocalMetadata creates the directory when it is gone.
WriteMetadata(w) ==
  /\ pub[w] = "meta"
  /\ dir' = [dir EXCEPT !.meta = [requires |-> FALSE, by |-> w]]
  /\ pub' = [pub EXCEPT ![w] = "done"]
  /\ UNCHANGED <<backup, imp, exec, deletes, faults, stale, kept, removing>>

Publish(w) ==
  \/ Stage(w) \/ StageFails(w) \/ MoveAway(w) \/ MoveIn(w) \/ Restore(w)
  \/ RemoveBackup(w) \/ WriteMetadata(w)

-----------------------------------------------------------------------------
(* Import, deletion, execution *)

\* importRpaPackage: the package is sound; a flow of that id is refused.
CheckAbsent(i) ==
  /\ imp[i] = "idle"
  /\ imp' = [imp EXCEPT ![i] = IF dir = NoDir THEN "checked" ELSE "refused"]
  /\ UNCHANGED <<dir, backup, pub, exec, deletes, faults, stale, kept, removing>>

\* The unpacked directory, its metadata in it, takes the final name.
Import(i) ==
  /\ imp[i] = "checked"
  /\ IF dir = NoDir
     THEN /\ dir' = [content |-> i, meta |-> [requires |-> TRUE, by |-> i]]
          /\ kept' = TRUE
          /\ imp' = [imp EXCEPT ![i] = "done"]
     ELSE imp' = [imp EXCEPT ![i] = "refused"] /\ UNCHANGED <<dir, kept>>
  /\ UNCHANGED <<backup, pub, exec, deletes, faults, stale, removing>>

\* deleteFlowDirectory: rm lists the directory and removes file after file by its
\* path, the ones a flow needs and its metadata in any order, while others go on, also
\* those who move the directory away or put another one there.
\* Bound: one deletion at a time.
DeleteFlow ==
  /\ dir # NoDir /\ removing = {}
  /\ deletes < MaxDeletes /\ deletes' = deletes + 1
  /\ removing' = {part \in {"content", "meta"} : dir[part] # NoDir[part]}
  /\ UNCHANGED <<dir, backup, pub, imp, exec, faults, stale, kept>>

\* A file that cannot be removed stays, and the others go all the same.
RemoveFiles(part) ==
  /\ part \in removing /\ removing' = removing \ {part}
  /\ \/ /\ dir' = [dir EXCEPT ![part] = NoDir[part]] /\ kept' = FALSE
        /\ stale' = stale \cup Engaged \cup ({dir.content, dir.meta.by} \ {None})
        /\ UNCHANGED faults
     \/ Fault /\ UNCHANGED <<dir, kept, stale>>
  /\ UNCHANGED <<backup, pub, imp, exec, deletes>>

\* loadFlow reads the artifacts and validates the DSL.
LoadFlow(e) ==
  /\ exec[e].pc = "idle" /\ dir.content # None
  /\ \E mode \in {"verify", "run"} :
       exec' = [exec EXCEPT ![e] = [pc |-> "read", mode |-> mode]]
  /\ UNCHANGED <<dir, backup, pub, imp, deletes, faults, stale, kept, removing>>

\* Mutant: every execution is let through.
GateOpen(e) ==
  /\ exec[e].pc = "read"
  /\ exec' = [exec EXCEPT ![e].pc = "loaded"]
  /\ UNCHANGED <<dir, backup, pub, imp, deletes, faults, stale, kept, removing>>

\* The metadata are read after that: a production run of a flow that requires
\* a verification is refused.
Gate(e) ==
  /\ exec[e].pc = "read"
  /\ exec' = [exec EXCEPT ![e].pc =
               IF exec[e].mode = "run" /\ dir.meta.requires THEN "refused" ELSE "loaded"]
  /\ UNCHANGED <<dir, backup, pub, imp, deletes, faults, stale, kept, removing>>

\* The interpreter opens the script by its path.
OpenScript(e) ==
  /\ exec[e].pc = "loaded"
  /\ exec' = [exec EXCEPT ![e].pc = IF dir.content = None THEN "done" ELSE "running"]
  /\ UNCHANGED <<dir, backup, pub, imp, deletes, faults, stale, kept, removing>>

Settle(e) ==
  /\ exec[e].pc = "running"
  /\ \E success \in BOOLEAN :
       exec' = [exec EXCEPT ![e].pc =
                 IF success /\ exec[e].mode = "verify" THEN "marking" ELSE "done"]
  /\ UNCHANGED <<dir, backup, pub, imp, deletes, faults, stale, kept, removing>>

\* markFlowVerified: whatever the metadata were when it read them, verification is not
\* required any more; a directory that is gone is made again for them.
MarkFlowVerified(e) ==
  /\ exec[e].pc = "marking"
  /\ dir' = [dir EXCEPT !.meta = [requires |-> FALSE, by |-> e]]
  /\ exec' = [exec EXCEPT ![e].pc = "verified"]
  /\ UNCHANGED <<backup, pub, imp, deletes, faults, stale, kept, removing>>

FlowRequest ==
  \/ \E i \in Imports : CheckAbsent(i) \/ Import(i)
  \/ DeleteFlow \/ \E part \in removing : RemoveFiles(part)
  \/ \E e \in Executions :
       LoadFlow(e) \/ Gate(e) \/ OpenScript(e) \/ Settle(e) \/ MarkFlowVerified(e)

-----------------------------------------------------------------------------
FlowTypeOK ==
  /\ dir \in [content : Content, meta : Metadata]
  /\ backup \in [Writers -> [content : Content, meta : Metadata]]
  /\ pub \in [Writers -> {"idle", "staging", "staged", "away", "restore", "in", "meta",
                          "done", "failed"}]
  /\ imp \in [Imports -> {"idle", "checked", "done", "refused"}]
  /\ exec \in [Executions ->
       [pc : {"idle", "read", "refused", "loaded", "running", "marking", "verified", "done"},
        mode : {"none", "verify", "run"}]]
  /\ deletes \in 0..MaxDeletes /\ faults \in 0..MaxFaults
  /\ removing \subseteq {"content", "meta"}
  /\ stale \subseteq Writers \cup Imports \cup Executions /\ kept \in BOOLEAN

\* An imported flow that nobody has begun to delete waits for its verification: as long
\* as nobody who writes by the path alone has had the directory taken away under him, it
\* is cleared only by a verification that succeeded, and no production run of it goes on
\* before.
ImportsAwaitVerification ==
  dir.content \in Imports \ stale =>
    /\ \/ dir.meta.requires
       \/ \E e \in Executions : dir.meta.by = e /\ exec[e].mode = "verify"
       \/ dir.meta.by \in stale
    /\ \A e \in Executions :
         (exec[e].pc = "running" /\ exec[e].mode = "run" /\ e \notin stale)
           => ~dir.meta.requires

\* A flow nobody deleted is there whenever no publication is between its two
\* moves, however publications and imports overlap and whichever move fails;
\* only metadata written late into the gap, or left by a deletion, can keep it out.
FlowSurvives ==
  (kept /\ \A w \in Writers : pub[w] \notin {"away", "restore"})
    => (dir.content # None \/ dir.meta.by \in stale)
=============================================================================
