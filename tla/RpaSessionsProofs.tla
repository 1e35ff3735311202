-------------------------- MODULE RpaSessionsProofs --------------------------
(***************************************************************************)
(* Proofs about RpaSessions, for any sessions, imports, executions, tasks, *)
(* deletions and faults: what becomes of the directory of a flow, however  *)
(* its writers overlap; and that a session has one run at a time.          *)
(***************************************************************************)
EXTENDS RpaSessions, FiniteSetTheorems, SequenceTheorems, TLAPS

-----------------------------------------------------------------------------
(* The directory of the flow. *)

Dir == [content : Content, meta : Metadata]

(* A directory with something in it, or one that a late write has made. *)
Good(d) == d.content # None \/ d.meta.by \in stale

(* Metadata are nobody's only where there are none. *)
Named(d) == d.meta.by = None => d.meta = NoMetadata

(* The metadata of an imported flow, as ImportsAwaitVerification has them. *)
Awaits(d) ==
  d.content \in Imports \ stale =>
    \/ d.meta.requires
    \/ \E e \in Executions : d.meta.by = e /\ exec[e].mode = "verify"
    \/ d.meta.by \in stale

(* Whatever is anywhere, and will be put back, is sound. *)
DirsSound ==
  /\ dir = NoDir \/ Good(dir)
  /\ Awaits(dir) /\ Named(dir)
  /\ \A w \in Writers :
       (backup[w] = NoDir \/ Good(backup[w])) /\ Awaits(backup[w]) /\ Named(backup[w])

(* Who writes by the path has his own flow there, unless it was taken away. *)
WritersHold == \A w \in Writers : pub[w] \in {"in", "meta"} => w \in stale \/ dir.content = w
ExecutionsHold ==
  \A e \in Executions :
    /\ exec[e].pc \in {"read", "loaded", "running", "marking"} =>
         e \in stale \/ dir.content # None
    /\ exec[e].pc \in {"loaded", "running"} /\ exec[e].mode = "run" =>
         e \in stale \/ ~dir.meta.requires
    /\ exec[e].pc = "marking" => exec[e].mode = "verify"
    /\ exec[e].pc = "idle" => exec[e].mode = "none"

(* The flow is there, or with a publication that will put one there. *)
FlowHeld ==
  kept => \/ Good(dir)
          \/ \E w \in Writers : pub[w] \in {"away", "restore"} /\ Good(backup[w])

FlowInv == FlowTypeOK /\ DirsSound /\ WritersHold /\ ExecutionsHold /\ FlowHeld

LEMMA NothingThere ==
  /\ NoDir \in Dir /\ NoDir.content = None /\ NoDir.meta = NoMetadata
  /\ NoMetadata \in Metadata /\ ~NoMetadata.requires /\ NoMetadata.by = None
  /\ None \notin Imports /\ None \notin Writers /\ None \notin Executions
  BY RpaFlowsAssumption DEF NoDir, NoMetadata, Dir, Content, Metadata

LEMMA InitFlow == Init => FlowInv
<1> SUFFICES ASSUME Init PROVE FlowInv
  OBVIOUS
<1>1. FlowTypeOK
  <2>1. dir \in Dir /\ backup \in [Writers -> Dir]
    BY NothingThere DEF Init, FlowInit
  <2>2. exec = [e \in Executions |-> [pc |-> "idle", mode |-> "none"]]
    BY DEF Init, FlowInit
  <2>3. exec \in [Executions ->
                   [pc : {"idle", "read", "refused", "loaded", "running", "marking", "verified",
                          "done"},
                    mode : {"none", "verify", "run"}]]
    BY <2>2
  <2>4. pub = [w \in Writers |-> "idle"] /\ imp = [i \in Imports |-> "idle"]
    BY DEF Init, FlowInit
  <2>5. deletes \in 0..MaxDeletes /\ faults \in 0..MaxFaults
    BY RpaFlowsAssumption DEF Init, FlowInit
  <2>6. removing = {} /\ stale = {} /\ kept = FALSE
    BY DEF Init, FlowInit
  <2> QED
    BY <2>1, <2>3, <2>4, <2>5, <2>6 DEF FlowTypeOK, Dir
<1>2. DirsSound
  <2>1. Awaits(NoDir) /\ Named(NoDir)
    BY NothingThere DEF Awaits, Named
  <2> QED
    BY <2>1 DEF Init, FlowInit, DirsSound
<1>3. WritersHold /\ ExecutionsHold /\ FlowHeld
  BY DEF Init, FlowInit, WritersHold, ExecutionsHold, FlowHeld
<1> QED
  BY <1>1, <1>2, <1>3 DEF FlowInv

(* Directories stay sound when they are moved about, while executions keep *)
(* their mode and who was passed over stays so.                             *)
LEMMA DirsKept ==
  ASSUME DirsSound, stale \subseteq stale',
         \A e \in Executions : exec[e].mode = "verify" => exec'[e].mode = "verify",
         dir' \in {dir, NoDir} \cup {backup[w] : w \in Writers},
         \A w \in Writers : backup'[w] \in {backup[w], NoDir, dir}
  PROVE  DirsSound'
<1> DEFINE Clean(d) == (d = NoDir \/ Good(d)) /\ Awaits(d) /\ Named(d)
           Later(d) ==
             /\ d = NoDir \/ d.content # None \/ d.meta.by \in stale'
             /\ d.content \in Imports \ stale' =>
                  \/ d.meta.requires
                  \/ \E e \in Executions : d.meta.by = e /\ exec'[e].mode = "verify"
                  \/ d.meta.by \in stale'
             /\ Named(d)
<1>1. ASSUME NEW d, Clean(d) PROVE Later(d)
  BY <1>1 DEF Awaits, Good
<1>2. Clean(NoDir)
  BY NothingThere DEF Awaits, Named
<1>3. Clean(dir) /\ \A w \in Writers : Clean(backup[w])
  BY DEF DirsSound
<1> HIDE DEF Clean
<1>4. Later(dir') /\ \A w \in Writers : Later(backup'[w])
  <2> HIDE DEF Later
  <2> QED
    BY <1>1, <1>2, <1>3
<1> QED
  BY <1>4 DEF DirsSound, Awaits, Good, Named

(* A session that goes on to publish, as RunMade does. *)
RunMadeOf(w) ==
  /\ pub' = [pub EXCEPT ![w] = "staging"]
  /\ UNCHANGED <<dir, backup, imp, exec, deletes, faults, stale, kept, removing>>

(* Steps that leave all directories alone. *)
LEMMA PublicationMoves ==
  ASSUME FlowInv, NEW w \in Writers,
         Stage(w) \/ StageFails(w) \/ (RunMadeOf(w) /\ pub[w] \notin {"away", "restore"})
  PROVE  FlowInv'
<1>1. FlowTypeOK'
  BY DEF Stage, StageFails, RunMadeOf, FlowInv, FlowTypeOK
<1>2. DirsSound'
  BY DirsKept DEF Stage, StageFails, RunMadeOf, FlowInv
<1>3. WritersHold' /\ ExecutionsHold'
  BY DEF Stage, StageFails, RunMadeOf, FlowInv, FlowTypeOK, WritersHold, ExecutionsHold
<1>4. FlowHeld'
  <2>1. UNCHANGED <<dir, backup, kept, stale>>
    BY DEF Stage, StageFails, RunMadeOf
  <2>2. \A v \in Writers : pub[v] \in {"away", "restore"} => pub'[v] = pub[v]
    BY DEF Stage, StageFails, RunMadeOf, FlowInv, FlowTypeOK
  <2> QED
    BY <2>1, <2>2 DEF FlowInv, FlowHeld, Good
<1> QED
  BY <1>1, <1>2, <1>3, <1>4 DEF FlowInv

LEMMA MoveAwayKept == ASSUME FlowInv, NEW w \in Writers, MoveAway(w) PROVE FlowInv'
<1>1. FlowTypeOK'
  <2>1. stale' \subseteq Writers \cup Imports \cup Executions
    BY DEF MoveAway, FlowInv, FlowTypeOK, Engaged
  <2> QED
    BY <2>1, NothingThere DEF MoveAway, FlowInv, FlowTypeOK, Dir
<1>2. DirsSound'
  BY DirsKept DEF MoveAway, FlowInv, FlowTypeOK
<1>3. WritersHold'
  BY NothingThere DEF MoveAway, FlowInv, FlowTypeOK, WritersHold, Engaged
<1>4. ExecutionsHold'
  BY NothingThere DEF MoveAway, FlowInv, FlowTypeOK, ExecutionsHold, Engaged
<1>5. FlowHeld'
  BY NothingThere DEF MoveAway, FlowInv, FlowTypeOK, FlowHeld, Good
<1> QED
  BY <1>1, <1>2, <1>3, <1>4, <1>5 DEF FlowInv

LEMMA MoveInKept == ASSUME FlowInv, NEW w \in Writers, MoveIn(w) PROVE FlowInv'
<1>1. CASE dir = NoDir /\ dir' = [content |-> w, meta |-> NoMetadata] /\ kept' = TRUE
           /\ pub' = [pub EXCEPT ![w] = "in"] /\ UNCHANGED faults
  <2>1. dir' \in Dir /\ dir'.content = w /\ ~dir'.meta.requires
    BY <1>1, NothingThere DEF Dir, Content
  <2>2. UNCHANGED <<backup, imp, exec, deletes, stale, removing>>
    BY DEF MoveIn
  <2>3. w # None /\ w \notin Imports
    BY RpaFlowsAssumption
  <2>4. FlowTypeOK'
    BY <1>1, <2>1, <2>2 DEF FlowInv, FlowTypeOK, Dir
  <2>5. DirsSound'
    BY <1>1, <2>1, <2>2, <2>3 DEF FlowInv, DirsSound, Good, Awaits, Named
  <2>6. WritersHold'
    BY <1>1, <2>1, <2>2, <2>3, NothingThere DEF FlowInv, FlowTypeOK, WritersHold
  <2>7. ExecutionsHold'
    BY <1>1, <2>1, <2>2, <2>3, NothingThere DEF FlowInv, ExecutionsHold
  <2>8. FlowHeld'
    BY <2>1, <2>3 DEF FlowHeld, Good
  <2> QED
    BY <2>4, <2>5, <2>6, <2>7, <2>8 DEF FlowInv
<1>2. CASE /\ pub' = [pub EXCEPT ![w] = "restore"] /\ UNCHANGED <<dir, kept>>
           /\ faults' = faults \/ Fault
  <2>1. UNCHANGED <<dir, backup, imp, exec, deletes, stale, kept, removing>> /\ pub[w] = "away"
    BY <1>2 DEF MoveIn
  <2>2. FlowTypeOK'
    <3>1. faults' \in 0..MaxFaults
      BY <1>2, RpaFlowsAssumption DEF FlowInv, FlowTypeOK, Fault
    <3> QED
      BY <1>2, <2>1, <3>1 DEF FlowInv, FlowTypeOK
  <2>3. DirsSound'
    BY <2>1, DirsKept DEF FlowInv
  <2>4. WritersHold' /\ ExecutionsHold'
    BY <1>2, <2>1 DEF FlowInv, FlowTypeOK, WritersHold, ExecutionsHold
  <2>5. FlowHeld'
    BY <1>2, <2>1 DEF FlowInv, FlowTypeOK, FlowHeld, Good
  <2> QED
    BY <2>2, <2>3, <2>4, <2>5 DEF FlowInv
<1> QED
  BY <1>1, <1>2 DEF MoveIn

LEMMA RestoreKept == ASSUME FlowInv, NEW w \in Writers, Restore(w) PROVE FlowInv'
<1>1. UNCHANGED <<imp, exec, deletes, faults, stale, kept, removing>> /\ pub[w] = "restore"
      /\ pub' = [pub EXCEPT ![w] = "failed"]
  BY DEF Restore
<1>2. CASE dir = NoDir /\ backup[w] # NoDir
  <2>1. dir' = backup[w] /\ backup' = [backup EXCEPT ![w] = NoDir]
    BY <1>2 DEF Restore
  <2>2. FlowTypeOK'
    BY <1>1, <2>1, NothingThere DEF FlowInv, FlowTypeOK, Dir
  <2>3. DirsSound'
    BY <1>1, <2>1, DirsKept DEF FlowInv, FlowTypeOK
  <2>4. WritersHold'
    BY <1>1, <1>2, NothingThere DEF FlowInv, FlowTypeOK, WritersHold
  <2>5. ExecutionsHold'
    BY <1>1, <1>2, NothingThere DEF FlowInv, FlowTypeOK, ExecutionsHold
  <2>6. FlowHeld'
    BY <1>1, <1>2, <2>1, NothingThere DEF FlowInv, DirsSound, FlowHeld, Good
  <2> QED
    BY <2>2, <2>3, <2>4, <2>5, <2>6 DEF FlowInv
<1>3. CASE ~(dir = NoDir /\ backup[w] # NoDir)
  <2>1. UNCHANGED <<dir, backup>>
    BY <1>3 DEF Restore
  <2>2. FlowTypeOK'
    BY <1>1, <2>1 DEF FlowInv, FlowTypeOK
  <2>3. DirsSound'
    BY <1>1, <2>1, DirsKept DEF FlowInv
  <2>4. WritersHold' /\ ExecutionsHold'
    BY <1>1, <2>1 DEF FlowInv, FlowTypeOK, WritersHold, ExecutionsHold
  <2>5. FlowHeld'
    BY <1>1, <1>3, <2>1, NothingThere, RpaFlowsAssumption
       DEF FlowInv, FlowTypeOK, DirsSound, FlowHeld, Good
  <2> QED
    BY <2>2, <2>3, <2>4, <2>5 DEF FlowInv
<1> QED
  BY <1>2, <1>3

LEMMA RemoveBackupKept == ASSUME FlowInv, NEW w \in Writers, RemoveBackup(w) PROVE FlowInv'
<1> DEFINE A1 == /\ backup' = [backup EXCEPT ![w] = NoDir]
                 /\ pub' = [pub EXCEPT ![w] = "meta"]
                 /\ UNCHANGED faults
           A2 == /\ Fault
                 /\ pub' = [pub EXCEPT ![w] = "restore"]
                 /\ UNCHANGED backup
<1>0. (A1 \/ A2) /\ UNCHANGED <<dir, imp, exec, deletes, stale, kept, removing>> /\ pub[w] = "in"
  BY DEF RemoveBackup
<1>1. /\ UNCHANGED <<dir, imp, exec, deletes, stale, kept, removing>> /\ pub[w] = "in"
      /\ \A v \in Writers : backup'[v] = backup[v] \/ (v = w /\ backup'[v] = NoDir)
      /\ \A v \in Writers \ {w} : pub'[v] = pub[v]
      /\ pub'[w] \in {"meta", "restore"}
      /\ faults' = faults \/ Fault
  <2>1. CASE A1
    BY <1>0, <2>1 DEF FlowInv, FlowTypeOK
  <2>2. CASE A2
    BY <1>0, <2>2 DEF FlowInv, FlowTypeOK
  <2> QED
    BY <1>0, <2>1, <2>2
<1> HIDE DEF A1, A2
<1>2. FlowTypeOK'
  <2>1. faults' \in 0..MaxFaults
    BY <1>1, RpaFlowsAssumption DEF FlowInv, FlowTypeOK, Fault
  <2>2. backup' \in [Writers -> Dir]
    BY NothingThere DEF RemoveBackup, FlowInv, FlowTypeOK, Dir
  <2>3. pub' = [pub EXCEPT ![w] = "meta"] \/ pub' = [pub EXCEPT ![w] = "restore"]
    BY DEF RemoveBackup
  <2> QED
    BY <1>1, <2>1, <2>2, <2>3 DEF FlowInv, FlowTypeOK, Dir
<1>3. DirsSound'
  BY <1>1, DirsKept DEF FlowInv
<1>4. WritersHold' /\ ExecutionsHold'
  BY <1>1 DEF FlowInv, WritersHold, ExecutionsHold
<1>5. FlowHeld'
  BY <1>1 DEF FlowInv, FlowHeld, Good
<1> QED
  BY <1>2, <1>3, <1>4, <1>5 DEF FlowInv

(* Metadata written by name: by a publication, or by a verification. *)
LEMMA MetadataKept ==
  ASSUME FlowInv, NEW x,
         \/ x \in Writers /\ WriteMetadata(x)
         \/ x \in Executions /\ MarkFlowVerified(x)
  PROVE  FlowInv'
<1>1. /\ dir' = [dir EXCEPT !.meta = [requires |-> FALSE, by |-> x]]
      /\ UNCHANGED <<backup, imp, deletes, faults, stale, kept, removing>>
  BY DEF WriteMetadata, MarkFlowVerified
<1>2. dir' \in Dir /\ dir'.content = dir.content /\ ~dir'.meta.requires /\ dir'.meta.by = x
  <2>1. [requires |-> FALSE, by |-> x] \in Metadata
    BY DEF Metadata
  <2> QED
    BY <1>1, <2>1 DEF FlowInv, FlowTypeOK, Dir
<1>3. dir'.content # None \/ dir'.meta.by \in stale
  <2>1. CASE x \in Writers /\ WriteMetadata(x)
    BY <1>2, <2>1, RpaFlowsAssumption DEF WriteMetadata, FlowInv, WritersHold
  <2>2. CASE x \in Executions /\ MarkFlowVerified(x)
    BY <1>2, <2>2 DEF MarkFlowVerified, FlowInv, ExecutionsHold
  <2> QED
    BY <2>1, <2>2
<1>4. \A e \in Executions : exec'[e].mode = exec[e].mode
  BY DEF WriteMetadata, MarkFlowVerified, FlowInv, FlowTypeOK
<1>5. dir'.content \in Imports =>
        (\E e \in Executions : dir'.meta.by = e /\ exec'[e].mode = "verify") \/ x \in stale
  <2>1. CASE x \in Writers /\ WriteMetadata(x)
    BY <1>2, <2>1, RpaFlowsAssumption DEF WriteMetadata, FlowInv, WritersHold
  <2>2. CASE x \in Executions /\ MarkFlowVerified(x)
    BY <1>2, <1>4, <2>2 DEF MarkFlowVerified, FlowInv, ExecutionsHold
  <2> QED
    BY <2>1, <2>2
<1>6. \A e \in Executions : exec'[e].pc = exec[e].pc \/ exec'[e].pc = "verified"
  BY DEF WriteMetadata, MarkFlowVerified, FlowInv, FlowTypeOK
<1>7. \A v \in Writers : pub'[v] = pub[v] \/ (pub'[v] = "done" /\ pub[v] = "meta")
  BY DEF WriteMetadata, MarkFlowVerified, FlowInv, FlowTypeOK
<1>8. FlowTypeOK'
  <2>1. pub' \in [Writers -> {"idle", "staging", "staged", "away", "restore", "in", "meta",
                              "done", "failed"}]
    BY DEF WriteMetadata, MarkFlowVerified, FlowInv, FlowTypeOK
  <2>2. exec' \in [Executions -> [pc : {"idle", "read", "refused", "loaded", "running",
                                        "marking", "verified", "done"},
                                  mode : {"none", "verify", "run"}]]
    BY DEF WriteMetadata, MarkFlowVerified, FlowInv, FlowTypeOK
  <2>3. imp' = imp
    BY DEF WriteMetadata, MarkFlowVerified
  <2> QED
    BY <1>1, <1>2, <2>1, <2>2, <2>3 DEF FlowInv, FlowTypeOK, Dir
<1>9. DirsSound'
  <2>1. \A w \in Writers :
          /\ backup'[w] = NoDir \/ backup'[w].content # None \/ backup'[w].meta.by \in stale'
          /\ Named(backup'[w])
          /\ backup'[w].content \in Imports \ stale' =>
               \/ backup'[w].meta.requires
               \/ \E e \in Executions : backup'[w].meta.by = e /\ exec'[e].mode = "verify"
               \/ backup'[w].meta.by \in stale'
    BY <1>1, <1>4 DEF FlowInv, DirsSound, Good, Awaits, Named
  <2>2. stale' = stale
    BY <1>1
  <2>3. x # None
    BY RpaFlowsAssumption
  <2> QED
    BY <1>2, <1>3, <1>5, <2>1, <2>2, <2>3 DEF DirsSound, Good, Awaits, Named
<1>10. WritersHold'
  BY <1>1, <1>2, <1>7 DEF FlowInv, WritersHold
<1>11. ExecutionsHold'
  BY <1>1, <1>2, <1>4, <1>6 DEF FlowInv, ExecutionsHold
<1>12. FlowHeld'
  BY <1>1, <1>3 DEF FlowHeld, Good
<1> QED
  BY <1>8, <1>9, <1>10, <1>11, <1>12 DEF FlowInv

LEMMA ImportKept == ASSUME FlowInv, NEW i \in Imports, Import(i) \/ CheckAbsent(i) PROVE FlowInv'
<1>1. UNCHANGED <<backup, pub, exec, deletes, faults, stale, removing>>
  BY DEF Import, CheckAbsent
<1>2. CASE UNCHANGED <<dir, kept>>
  <2>1. FlowTypeOK'
    BY <1>1, <1>2 DEF Import, CheckAbsent, FlowInv, FlowTypeOK
  <2>2. DirsSound'
    BY <1>1, <1>2, DirsKept DEF FlowInv
  <2> QED
    BY <1>1, <1>2, <2>1, <2>2 DEF FlowInv, WritersHold, ExecutionsHold, FlowHeld, Good
<1>3. CASE /\ dir = NoDir /\ kept' = TRUE /\ imp' = [imp EXCEPT ![i] = "done"]
           /\ dir' = [content |-> i, meta |-> [requires |-> TRUE, by |-> i]]
  <2>1. dir' \in Dir /\ dir'.content = i /\ dir'.meta.requires /\ i # None
    BY <1>3, RpaFlowsAssumption DEF Dir, Content, Metadata
  <2>2. FlowTypeOK'
    BY <1>1, <1>3, <2>1 DEF FlowInv, FlowTypeOK, Dir
  <2>3. DirsSound'
    BY <1>1, <1>3, <2>1 DEF FlowInv, DirsSound, Good, Awaits, Named
  <2>4. WritersHold' /\ ExecutionsHold'
    BY <1>1, <1>3, NothingThere DEF FlowInv, WritersHold, ExecutionsHold
  <2>5. FlowHeld'
    BY <2>1 DEF FlowHeld, Good
  <2> QED
    BY <2>2, <2>3, <2>4, <2>5 DEF FlowInv
<1> QED
  BY <1>2, <1>3 DEF Import, CheckAbsent

LEMMA DeleteKept == ASSUME FlowInv, DeleteFlow PROVE FlowInv'
<1>1. UNCHANGED <<dir, backup, pub, imp, exec, faults, stale, kept>>
  BY DEF DeleteFlow
<1>2. FlowTypeOK'
  BY <1>1, RpaFlowsAssumption DEF DeleteFlow, FlowInv, FlowTypeOK
<1>3. DirsSound'
  BY <1>1, DirsKept DEF FlowInv
<1> QED
  BY <1>1, <1>2, <1>3 DEF FlowInv, WritersHold, ExecutionsHold, FlowHeld, Good

(* What a deletion leaves behind it has made stale. *)
LEMMA RemoveFilesKept ==
  ASSUME FlowInv, NEW part \in removing, RemoveFiles(part) PROVE FlowInv'
<1>1. UNCHANGED <<backup, pub, imp, exec, deletes>> /\ removing' = removing \ {part}
  BY DEF RemoveFiles
<1>2. CASE Fault /\ UNCHANGED <<dir, kept, stale>>
  <2>1. FlowTypeOK'
    BY <1>1, <1>2, RpaFlowsAssumption DEF Fault, FlowInv, FlowTypeOK
  <2>2. DirsSound'
    BY <1>1, <1>2, DirsKept DEF FlowInv
  <2> QED
    BY <1>1, <1>2, <2>1, <2>2 DEF FlowInv, WritersHold, ExecutionsHold, FlowHeld, Good
<1>3. CASE /\ dir' = [dir EXCEPT ![part] = NoDir[part]] /\ kept' = FALSE
           /\ stale' = stale \cup Engaged \cup ({dir.content, dir.meta.by} \ {None})
           /\ UNCHANGED faults
  <2>1. dir' = [dir EXCEPT !.content = None] \/ dir' = [dir EXCEPT !.meta = NoMetadata]
    BY <1>3, NothingThere DEF FlowInv, FlowTypeOK
  <2>2. /\ dir \in Dir /\ dir' \in Dir
        /\ \/ dir'.content = None /\ dir'.meta = dir.meta
           \/ dir'.content = dir.content /\ dir'.meta = NoMetadata
    BY <2>1, NothingThere DEF FlowInv, FlowTypeOK, Dir
  <2>3. FlowTypeOK'
    <3>1. stale' \subseteq Writers \cup Imports \cup Executions
      BY <1>3, <2>2 DEF FlowInv, FlowTypeOK, Engaged, Dir, Content, Metadata
    <3> QED
      BY <1>1, <1>3, <2>2, <3>1 DEF FlowInv, FlowTypeOK, Dir
  <2>4. DirsSound'
    <3>1. \A w \in Writers :
            /\ backup'[w] = NoDir \/ backup'[w].content # None \/ backup'[w].meta.by \in stale'
            /\ Named(backup'[w])
            /\ backup'[w].content \in Imports \ stale' =>
                 \/ backup'[w].meta.requires
                 \/ \E e \in Executions : backup'[w].meta.by = e /\ exec'[e].mode = "verify"
                 \/ backup'[w].meta.by \in stale'
      BY <1>1, <1>3 DEF FlowInv, DirsSound, Good, Awaits, Named
    <3>2. Named(dir) /\ (dir = NoDir \/ Good(dir))
      BY DEF FlowInv, DirsSound
    <3>3. dir'.content \notin Imports \ stale'
      BY <1>3, <2>2, NothingThere
    <3>4. Named(dir')
      BY <2>2, <3>2, NothingThere DEF Named
    <3>5. dir' = NoDir \/ dir'.content # None \/ dir'.meta.by \in stale'
      <4>1. CASE dir'.meta = NoMetadata
        BY <2>2, <4>1, NothingThere DEF Dir, NoDir
      <4>2. CASE dir'.meta # NoMetadata
        BY <1>3, <2>2, <3>2, <4>2 DEF Named
      <4> QED
        BY <4>1, <4>2
    <3> QED
      BY <3>1, <3>3, <3>4, <3>5 DEF DirsSound, Good, Awaits, Named
  <2>5. WritersHold'
    BY <1>1, <1>3 DEF FlowInv, WritersHold, Engaged
  <2>6. ExecutionsHold'
    BY <1>1, <1>3, <2>2, NothingThere DEF FlowInv, ExecutionsHold, Engaged
  <2>7. FlowHeld'
    BY <1>3 DEF FlowHeld
  <2> QED
    BY <2>3, <2>4, <2>5, <2>6, <2>7 DEF FlowInv
<1> QED
  BY <1>2, <1>3 DEF RemoveFiles

LEMMA ExecutionKept ==
  ASSUME FlowInv, NEW e \in Executions, LoadFlow(e) \/ Gate(e) \/ OpenScript(e) \/ Settle(e)
  PROVE  FlowInv'
<1>1. UNCHANGED <<dir, backup, pub, imp, deletes, faults, stale, kept, removing>>
  BY DEF LoadFlow, Gate, OpenScript, Settle
<1>2. /\ exec' \in [Executions -> [pc : {"idle", "read", "refused", "loaded", "running",
                                         "marking", "verified", "done"},
                                   mode : {"none", "verify", "run"}]]
      /\ \A x \in Executions \ {e} : exec'[x] = exec[x]
      /\ exec'[e].mode = exec[e].mode \/ exec[e].pc = "idle"
  BY DEF LoadFlow, Gate, OpenScript, Settle, FlowInv, FlowTypeOK
<1>3. FlowTypeOK'
  BY <1>1, <1>2 DEF FlowInv, FlowTypeOK
<1>4. \A x \in Executions : exec[x].mode = "verify" => exec'[x].mode = "verify"
  BY <1>2 DEF FlowInv, ExecutionsHold
<1>5. DirsSound'
  BY <1>1, <1>4, DirsKept DEF FlowInv
<1>6. ExecutionsHold'
  BY <1>1, <1>2 DEF LoadFlow, Gate, OpenScript, Settle, FlowInv, FlowTypeOK, ExecutionsHold
<1>7. WritersHold' /\ FlowHeld'
  BY <1>1 DEF FlowInv, WritersHold, FlowHeld, Good
<1> QED
  BY <1>3, <1>5, <1>6, <1>7 DEF FlowInv

-----------------------------------------------------------------------------
(* The tasks and runs of one session: its status, the run it knows, its    *)
(* tasks, its runs, and where its publication is.                          *)

Final == {"failed", "cancelled"}
TaskRecord == [pc : TaskStates, run : 0..MaxTasks]
RunRecord == [state : RunStates, previous : 0..MaxTasks]
Live(t) == t.pc \notin {"over", "dropped"}
NoneActive(rs) == \A j \in DOMAIN rs : rs[j].state # "active"

SessionTyped(st, kn, ts, rs) ==
  /\ st \in Status
  /\ ts \in Seq(TaskRecord) /\ rs \in Seq(RunRecord)
  /\ kn \in 0..Len(rs)

(* There is room for the run of the task that has none yet. *)
Room(st, ts, rs) ==
  /\ st = "absent" => ts = <<>>
  /\ Len(rs) <= Len(ts) /\ Len(ts) <= MaxTasks
  /\ \A k \in DOMAIN ts : ts[k].pc \in {"prepare", "create"} => Len(rs) < Len(ts)

(* A session at work, or one that was cancelled or failed over its task, has *)
(* the only task that goes on.                                               *)
OneTask(st, ts) ==
  /\ \A j, k \in DOMAIN ts : Live(ts[j]) /\ Live(ts[k]) => j = k
  /\ \A k \in DOMAIN ts : Live(ts[k]) => st \in Working \cup Final

(* A run that goes on is the last one, and has its task as long as the       *)
(* session may be taken up again; a task that will create one finds none.    *)
RunHasTask(st, ts, rs) ==
  /\ \A j \in DOMAIN rs : rs[j].state = "active" =>
       /\ j = Len(rs)
       /\ st \in Final \/ \E k \in DOMAIN ts : ts[k].pc \in {"created", "consume"}
  /\ \A k \in DOMAIN ts : ts[k].pc \in {"prepare", "create", "persist"} => NoneActive(rs)

(* The session knows its last run, but for one whose creation was not answered. *)
KnownRun(kn, ts, rs) ==
  /\ \A k \in DOMAIN ts :
       /\ ts[k].pc = "created" => kn = Len(rs) - 1
       /\ ts[k].pc \in {"created", "consume"} => ts[k].run = Len(rs) /\ Len(rs) > 0
  /\ (\A k \in DOMAIN ts : ts[k].pc # "created") => kn = Len(rs)

Chain(rs) == \A k \in DOMAIN rs : rs[k].previous = k - 1

(* A publication has its task. *)
Publishing(ts, pb) ==
  pb \notin {"idle", "done", "failed"} => \E k \in DOMAIN ts : ts[k].pc = "persist"

Whole(st, kn, ts, rs, pb) ==
  /\ SessionTyped(st, kn, ts, rs) /\ Room(st, ts, rs)
  /\ OneTask(st, ts) /\ RunHasTask(st, ts, rs)
  /\ KnownRun(kn, ts, rs) /\ Chain(rs) /\ Publishing(ts, pb)

(* What a status may become while the tasks stay as they are. *)
Settled(st, next) == next = st \/ next \in Final \/ st \notin Working \cup Final

(* The status changes, and runs may end. *)
LEMMA StatusMoves ==
  ASSUME NEW st, NEW kn, NEW ts, NEW rs, NEW pb, NEW st2, NEW rs2,
         Whole(st, kn, ts, rs, pb), st2 \in Status, st2 = "absent" => st = "absent",
         Settled(st, st2),
         rs2 \in Seq(RunRecord), Len(rs2) = Len(rs),
         \A j \in 1..Len(rs) : /\ rs2[j].previous = rs[j].previous
                               /\ rs2[j].state = "active" => rs[j].state = "active"
  PROVE  Whole(st2, kn, ts, rs2, pb)
<1>1. SessionTyped(st2, kn, ts, rs2) /\ Room(st2, ts, rs2)
  <2>1. SessionTyped(st2, kn, ts, rs2)
    BY DEF Whole, SessionTyped
  <2>2. Room(st2, ts, rs2)
    BY DEF Whole, Room
  <2> QED
    BY <2>1, <2>2
<1>2. ts \in Seq(TaskRecord) /\ DOMAIN rs = 1..Len(rs) /\ DOMAIN rs2 = 1..Len(rs)
  BY DEF Whole, SessionTyped
<1>3. OneTask(st2, ts)
  BY DEF Whole, OneTask, Settled
<1>4. ASSUME NEW k \in DOMAIN ts, ts[k].pc \in {"prepare", "create", "persist"}
      PROVE  NoneActive(rs2)
  <2>1. NoneActive(rs)
    BY <1>4 DEF Whole, RunHasTask
  <2> QED
    BY <1>2, <2>1 DEF NoneActive
<1>5. ASSUME NEW j \in DOMAIN rs2, rs2[j].state = "active"
      PROVE  /\ j = Len(rs2)
             /\ st2 \in Final \/ \E k \in DOMAIN ts : ts[k].pc \in {"created", "consume"}
  <2>1. rs[j].state = "active" /\ j \in DOMAIN rs
    BY <1>2, <1>5
  <2>2. /\ j = Len(rs)
        /\ st \in Final \/ \E k \in DOMAIN ts : ts[k].pc \in {"created", "consume"}
    BY <2>1 DEF Whole, RunHasTask
  <2>3. ASSUME NEW k \in DOMAIN ts, ts[k].pc \in {"created", "consume"}
        PROVE  st \in Working \cup Final
    BY <2>3 DEF Whole, OneTask, Live
  <2> QED
    BY <2>2, <2>3 DEF Settled
<1>6. RunHasTask(st2, ts, rs2)
  BY <1>4, <1>5 DEF RunHasTask
<1>7. KnownRun(kn, ts, rs2)
  BY DEF Whole, KnownRun
<1>8. Chain(rs2)
  BY <1>2 DEF Whole, Chain
<1> QED
  BY <1>1, <1>3, <1>6, <1>7, <1>8 DEF Whole

(* A session that rests has no task that goes on, and no run. *)
LEMMA RestsAlone ==
  ASSUME NEW st, NEW kn, NEW ts, NEW rs, NEW pb, Whole(st, kn, ts, rs, pb),
         st \notin Working \cup Final
  PROVE  /\ \A k \in DOMAIN ts : ~Live(ts[k])
         /\ NoneActive(rs) /\ kn = Len(rs)
<1>1. \A k \in DOMAIN ts : ~Live(ts[k])
  BY DEF Whole, OneTask
<1>2. \A k \in DOMAIN ts : ts[k].pc \notin {"created", "consume"}
  BY <1>1 DEF Live
<1> QED
  BY <1>1, <1>2 DEF Whole, RunHasTask, KnownRun, NoneActive

(* A task begins in a session that rests. *)
LEMMA TaskBegins ==
  ASSUME NEW st, NEW kn, NEW ts, NEW rs, NEW pb, NEW st2, NEW pc,
         Whole(st, kn, ts, rs, pb), st \notin Working \cup Final, st2 \in Working,
         pc \in {"prepare", "create"}, Len(ts) < MaxTasks
  PROVE  Whole(st2, kn, Append(ts, [pc |-> pc, run |-> 0]), rs, pb)
<1> DEFINE ts2 == Append(ts, [pc |-> pc, run |-> 0])
<1>1. ts \in Seq(TaskRecord) /\ [pc |-> pc, run |-> 0] \in TaskRecord
  BY RpaSessionsAssumption DEF Whole, SessionTyped, TaskRecord, TaskStates
<1>2. /\ ts2 \in Seq(TaskRecord) /\ Len(ts2) = Len(ts) + 1
      /\ DOMAIN ts = 1..Len(ts) /\ DOMAIN ts2 = 1..(Len(ts) + 1) /\ Len(ts) \in Nat
      /\ \A k \in DOMAIN ts : ts2[k] = ts[k]
      /\ ts2[Len(ts) + 1].pc = pc
  BY <1>1
<1>3. (\A k \in DOMAIN ts : ~Live(ts[k])) /\ NoneActive(rs) /\ kn = Len(rs)
  BY RestsAlone
<1>4. \A k \in DOMAIN ts2 : Live(ts2[k]) => k = Len(ts) + 1 /\ ts2[k].pc = pc
  <2> SUFFICES ASSUME NEW k \in DOMAIN ts2, Live(ts2[k]), k # Len(ts) + 1 PROVE FALSE
    BY <1>2
  <2>1. k \in DOMAIN ts
    BY <1>2
  <2> QED
    BY <1>2, <1>3, <2>1
<1> HIDE DEF ts2
<1>5. \A k \in DOMAIN ts2 : ts2[k].pc \in {"over", "dropped", "prepare", "create"}
  BY <1>4 DEF Live
<1>6. SessionTyped(st2, kn, ts2, rs) /\ Room(st2, ts2, rs)
  BY <1>2, RpaSessionsAssumption DEF Whole, SessionTyped, Room, Working, Status
<1>7. OneTask(st2, ts2)
  BY <1>4 DEF OneTask
<1>8. RunHasTask(st2, ts2, rs)
  BY <1>3 DEF RunHasTask, NoneActive
<1>9. KnownRun(kn, ts2, rs)
  BY <1>3, <1>5 DEF KnownRun
<1>10. Publishing(ts2, pb)
  BY <1>3 DEF Whole, Publishing, Live
<1> QED
  BY <1>6, <1>7, <1>8, <1>9, <1>10 DEF Whole, ts2

(* A request that is refused leaves a task that is over. *)
LEMMA TaskRefused ==
  ASSUME NEW st, NEW kn, NEW ts, NEW rs, NEW pb, NEW st2,
         Whole(st, kn, ts, rs, pb), st # "absent", st2 \in Status, st2 # "absent",
         Settled(st, st2), Len(ts) < MaxTasks
  PROVE  Whole(st2, kn, Append(ts, [pc |-> "over", run |-> 0]), rs, pb)
<1> DEFINE ts2 == Append(ts, [pc |-> "over", run |-> 0])
<1>1. ts \in Seq(TaskRecord) /\ [pc |-> "over", run |-> 0] \in TaskRecord
  BY RpaSessionsAssumption DEF Whole, SessionTyped, TaskRecord, TaskStates
<1>2. /\ ts2 \in Seq(TaskRecord) /\ Len(ts2) = Len(ts) + 1
      /\ DOMAIN ts = 1..Len(ts) /\ DOMAIN ts2 = 1..(Len(ts) + 1) /\ Len(ts) \in Nat
      /\ \A k \in DOMAIN ts : k \in DOMAIN ts2 /\ ts2[k] = ts[k]
      /\ ts2[Len(ts) + 1].pc = "over"
  BY <1>1
<1>3. \A k \in DOMAIN ts2 : ts2[k].pc # "over" => k \in DOMAIN ts /\ ts2[k] = ts[k]
  BY <1>2
<1> HIDE DEF ts2
<1>4. Whole(st2, kn, ts, rs, pb)
  <2>1. rs \in Seq(RunRecord)
    BY DEF Whole, SessionTyped
  <2> QED
    BY <2>1, StatusMoves
<1>5. SessionTyped(st2, kn, ts2, rs) /\ Room(st2, ts2, rs)
  <2>1. rs \in Seq(RunRecord) /\ Len(rs) \in Nat
    BY DEF Whole, SessionTyped
  <2> QED
    BY <1>2, <1>3, <2>1, RpaSessionsAssumption DEF Whole, SessionTyped, Room
<1>6. OneTask(st2, ts2)
  BY <1>3, <1>4 DEF Whole, OneTask, Live
<1>7. RunHasTask(st2, ts2, rs)
  BY <1>2, <1>3, <1>4 DEF Whole, RunHasTask
<1>8. KnownRun(kn, ts2, rs)
  BY <1>2, <1>3 DEF Whole, KnownRun
<1>9. Publishing(ts2, pb)
  BY <1>2 DEF Whole, Publishing
<1> QED
  BY <1>4, <1>5, <1>6, <1>7, <1>8, <1>9 DEF Whole, ts2

(* The step of a task leaves the others as they are. *)
LEMMA OneSteps ==
  ASSUME NEW ts \in Seq(TaskRecord), NEW k \in DOMAIN ts, NEW t \in TaskRecord
  PROVE  LET ts2 == [ts EXCEPT ![k] = t]
         IN /\ ts2 \in Seq(TaskRecord) /\ Len(ts2) = Len(ts) /\ DOMAIN ts2 = DOMAIN ts
            /\ ts2[k] = t
            /\ \A i \in DOMAIN ts : i # k => ts2[i] = ts[i]
            /\ ts # <<>>
  OBVIOUS

(* Its state has changed, and nothing else. *)
Stepped(ts, k, pc, ts2) ==
  /\ ts2 \in Seq(TaskRecord) /\ Len(ts2) = Len(ts) /\ DOMAIN ts2 = DOMAIN ts
  /\ ts2[k].pc = pc /\ ts2[k].run = ts[k].run
  /\ \A i \in DOMAIN ts : i # k => ts2[i] = ts[i]
  /\ ts # <<>>

(* In a session with a task that goes on, all others are over. *)
LEMMA OthersAreOver ==
  ASSUME NEW st, NEW kn, NEW ts, NEW rs, NEW pb, Whole(st, kn, ts, rs, pb),
         NEW k \in DOMAIN ts, Live(ts[k])
  PROVE  /\ \A i \in DOMAIN ts : i # k => ts[i].pc \in {"over", "dropped"}
         /\ st \in Working \cup Final /\ st # "absent"
         /\ ts \in Seq(TaskRecord) /\ rs \in Seq(RunRecord) /\ Len(rs) \in Nat
<1>1. \A i \in DOMAIN ts : i # k => ~Live(ts[i])
  BY DEF Whole, OneTask
<1>2. st \in Working \cup Final
  BY DEF Whole, OneTask
<1> QED
  BY <1>1, <1>2 DEF Live, Working, Final, Whole, SessionTyped

(* prepare: the task will create its run. *)
LEMMA TaskPrepared ==
  ASSUME NEW st, NEW kn, NEW ts, NEW rs, NEW pb, Whole(st, kn, ts, rs, pb),
         NEW k \in DOMAIN ts, ts[k].pc = "prepare",
         NEW ts2, Stepped(ts, k, "create", ts2)
  PROVE  Whole(st, kn, ts2, rs, pb)
<1>1. Live(ts[k])
  BY DEF Live
<1>2. ts \in Seq(TaskRecord)
  BY DEF Whole, SessionTyped
<1>3. /\ ts2 \in Seq(TaskRecord) /\ Len(ts2) = Len(ts) /\ DOMAIN ts2 = DOMAIN ts
      /\ ts2[k].pc = "create" /\ ts # <<>>
      /\ \A i \in DOMAIN ts : i # k => ts2[i] = ts[i]
  BY DEF Stepped
<1>4. \A i \in DOMAIN ts2 : i # k => ts2[i].pc \in {"over", "dropped"}
  BY <1>1, <1>3, OthersAreOver
<1>5. SessionTyped(st, kn, ts2, rs) /\ Room(st, ts2, rs)
  BY <1>1, <1>3, <1>4, OthersAreOver DEF Whole, SessionTyped, Room
<1>6. OneTask(st, ts2)
  BY <1>1, <1>4, OthersAreOver DEF OneTask, Live
<1>7. NoneActive(rs)
  BY DEF Whole, RunHasTask
<1>8. RunHasTask(st, ts2, rs)
  BY <1>7 DEF RunHasTask, NoneActive
<1>9. KnownRun(kn, ts2, rs)
  <2>1. \A i \in DOMAIN ts : ts[i].pc # "created"
    BY <1>1, OthersAreOver
  <2> QED
    BY <1>3, <1>4, <2>1 DEF Whole, KnownRun
<1>10. Publishing(ts2, pb)
  <2>1. \A i \in DOMAIN ts : ts[i].pc # "persist"
    BY <1>1, OthersAreOver
  <2> QED
    BY <2>1 DEF Whole, Publishing
<1> QED
  BY <1>5, <1>6, <1>8, <1>9, <1>10 DEF Whole

(* A task ends: with the session, or when no run of it goes on. *)
LEMMA TaskEnds ==
  ASSUME NEW st, NEW kn, NEW ts, NEW rs, NEW pb, Whole(st, kn, ts, rs, pb),
         NEW k \in DOMAIN ts, Live(ts[k]), ts[k].pc # "created",
         ts[k].pc = "persist" => pb \in {"idle", "done", "failed"},
         NEW pc \in {"over", "dropped"},
         NEW st2 \in Status, st2 # "absent", st2 \in Final \/ NoneActive(rs),
         NEW ts2, Stepped(ts, k, pc, ts2)
  PROVE  Whole(st2, kn, ts2, rs, pb)
<1>1. ts \in Seq(TaskRecord)
  BY DEF Whole, SessionTyped
<1>2. /\ ts2 \in Seq(TaskRecord) /\ Len(ts2) = Len(ts) /\ DOMAIN ts2 = DOMAIN ts
      /\ ts2[k].pc = pc /\ ts # <<>>
      /\ \A i \in DOMAIN ts : i # k => ts2[i] = ts[i]
  BY DEF Stepped
<1>3. \A i \in DOMAIN ts2 : ts2[i].pc \in {"over", "dropped"}
  BY <1>2, OthersAreOver
<1>4. SessionTyped(st2, kn, ts2, rs) /\ Room(st2, ts2, rs)
  BY <1>2, <1>3 DEF Whole, SessionTyped, Room
<1>5. OneTask(st2, ts2)
  BY <1>3 DEF OneTask, Live
<1>6. RunHasTask(st2, ts2, rs)
  BY <1>3 DEF Whole, RunHasTask, NoneActive
<1>7. KnownRun(kn, ts2, rs)
  <2>1. \A i \in DOMAIN ts : ts[i].pc # "created"
    BY OthersAreOver
  <2> QED
    BY <1>3, <2>1 DEF Whole, KnownRun
<1>8. Publishing(ts2, pb)
  <2>1. (\A i \in DOMAIN ts : ts[i].pc # "persist") \/ pb \in {"idle", "done", "failed"}
    BY OthersAreOver
  <2> QED
    BY <2>1 DEF Whole, Publishing
<1> QED
  BY <1>4, <1>5, <1>6, <1>7, <1>8 DEF Whole

(* The daemon has created the run of a task, after the last one. *)
LEMMA TaskHasRun ==
  ASSUME NEW st, NEW kn, NEW ts, NEW rs, NEW pb, Whole(st, kn, ts, rs, pb),
         NEW k \in DOMAIN ts, ts[k].pc = "create"
  PROVE  Whole(st, kn, [ts EXCEPT ![k] = [pc |-> "created", run |-> Len(rs) + 1]],
               Append(rs, [state |-> "active", previous |-> kn]), pb)
<1> DEFINE t == [pc |-> "created", run |-> Len(rs) + 1]
           ts2 == [ts EXCEPT ![k] = t]
           r == [state |-> "active", previous |-> kn]
           rs2 == Append(rs, r)
<1>1. Live(ts[k])
  BY DEF Live
<1>2. /\ ts \in Seq(TaskRecord) /\ rs \in Seq(RunRecord) /\ Len(rs) \in Nat
      /\ Len(rs) + 1 \in 0..MaxTasks
  BY RpaSessionsAssumption DEF Whole, SessionTyped, Room
<1>3. t \in TaskRecord /\ t.pc = "created" /\ t.run = Len(rs) + 1
  BY <1>2 DEF TaskRecord, TaskStates
<1>4. /\ ts2 \in Seq(TaskRecord) /\ Len(ts2) = Len(ts) /\ DOMAIN ts2 = DOMAIN ts
      /\ ts2[k] = t /\ ts # <<>>
      /\ \A i \in DOMAIN ts : i # k => ts2[i] = ts[i]
  BY <1>2, <1>3, OneSteps
<1>5. kn = Len(rs)
  <2>1. \A i \in DOMAIN ts : ts[i].pc # "created"
    BY <1>1, OthersAreOver
  <2> QED
    BY <2>1 DEF Whole, KnownRun
<1>6. r \in RunRecord /\ r.state = "active" /\ r.previous = Len(rs)
  BY <1>2, <1>5, RpaSessionsAssumption DEF RunRecord, RunStates
<1>7. /\ rs2 \in Seq(RunRecord) /\ Len(rs2) = Len(rs) + 1
      /\ DOMAIN rs2 = 1..(Len(rs) + 1) /\ DOMAIN rs = 1..Len(rs)
      /\ rs2[Len(rs) + 1] = r /\ \A j \in 1..Len(rs) : rs2[j] = rs[j]
  BY <1>2, <1>6
<1> HIDE DEF ts2, rs2, t, r
<1>8. \A i \in DOMAIN ts2 : i # k => ts2[i].pc \in {"over", "dropped"}
  BY <1>1, <1>4, OthersAreOver
<1>9. NoneActive(rs)
  BY DEF Whole, RunHasTask
<1>10. SessionTyped(st, kn, ts2, rs2)
  BY <1>2, <1>4, <1>5, <1>7 DEF Whole, SessionTyped
<1>11. Room(st, ts2, rs2)
  <2>1. Len(rs) < Len(ts) /\ Len(ts) <= MaxTasks /\ Len(ts) \in Nat
    BY <1>2 DEF Whole, Room
  <2>2. st # "absent"
    BY <1>1, OthersAreOver
  <2> QED
    BY <1>2, <1>3, <1>4, <1>7, <1>8, <2>1, <2>2 DEF Room
<1>12. OneTask(st, ts2)
  BY <1>1, <1>8, OthersAreOver DEF OneTask, Live
<1>13. RunHasTask(st, ts2, rs2)
  <2>1. \A j \in DOMAIN rs2 : rs2[j].state = "active" => j = Len(rs2)
    BY <1>2, <1>7, <1>9 DEF NoneActive
  <2> QED
    BY <1>3, <1>4, <1>8, <2>1 DEF RunHasTask
<1>14. KnownRun(kn, ts2, rs2)
  <2>1. \A i \in DOMAIN ts2 :
          /\ ts2[i].pc = "created" => kn = Len(rs2) - 1
          /\ ts2[i].pc \in {"created", "consume"} => ts2[i].run = Len(rs2) /\ Len(rs2) > 0
    BY <1>2, <1>3, <1>4, <1>5, <1>7, <1>8, SMTT(30)
  <2> QED
    BY <1>3, <1>4, <2>1 DEF KnownRun
<1>15. Chain(rs2)
  BY <1>2, <1>6, <1>7, SMTT(30) DEF Whole, Chain
<1>16. Publishing(ts2, pb)
  <2>1. \A i \in DOMAIN ts : ts[i].pc # "persist"
    BY <1>1, OthersAreOver
  <2> QED
    BY <2>1 DEF Whole, Publishing
<1> QED
  BY <1>10, <1>11, <1>12, <1>13, <1>14, <1>15, <1>16 DEF Whole, ts2, rs2, t, r

(* The answer of the daemon has come. *)
LEMMA TaskConsumes ==
  ASSUME NEW st, NEW kn, NEW ts, NEW rs, NEW pb, Whole(st, kn, ts, rs, pb),
         NEW k \in DOMAIN ts, ts[k].pc = "created",
         NEW ts2, Stepped(ts, k, "consume", ts2)
  PROVE  Whole(st, ts[k].run, ts2, rs, pb)
<1>1. Live(ts[k])
  BY DEF Live
<1>2. ts \in Seq(TaskRecord) /\ Len(rs) \in Nat
  BY DEF Whole, SessionTyped
<1>3. ts[k].run = Len(rs) /\ Len(rs) > 0
  BY DEF Whole, KnownRun
<1>4. /\ ts2 \in Seq(TaskRecord) /\ Len(ts2) = Len(ts) /\ DOMAIN ts2 = DOMAIN ts
      /\ ts2[k].pc = "consume" /\ ts2[k].run = ts[k].run /\ ts # <<>>
      /\ \A i \in DOMAIN ts : i # k => ts2[i] = ts[i]
  BY DEF Stepped
<1>5. \A i \in DOMAIN ts2 : i # k => ts2[i].pc \in {"over", "dropped"}
  BY <1>1, <1>4, OthersAreOver
<1>6. SessionTyped(st, ts[k].run, ts2, rs) /\ Room(st, ts2, rs)
  BY <1>1, <1>2, <1>3, <1>4, <1>4, <1>5, OthersAreOver DEF Whole, SessionTyped, Room
<1>7. OneTask(st, ts2)
  BY <1>1, <1>5, OthersAreOver DEF OneTask, Live
<1>8. RunHasTask(st, ts2, rs)
  BY <1>4, <1>4, <1>5 DEF Whole, RunHasTask
<1>9. KnownRun(ts[k].run, ts2, rs)
  BY <1>3, <1>4, <1>4, <1>5 DEF KnownRun
<1>10. Publishing(ts2, pb)
  <2>1. \A i \in DOMAIN ts : ts[i].pc # "persist"
    BY <1>1, OthersAreOver
  <2> QED
    BY <2>1 DEF Whole, Publishing
<1> QED
  BY <1>6, <1>7, <1>8, <1>9, <1>10 DEF Whole

(* The run of a task has succeeded: there is no other that goes on. *)
LEMMA SucceededIsLast ==
  ASSUME NEW st, NEW kn, NEW ts, NEW rs, NEW pb, Whole(st, kn, ts, rs, pb),
         NEW k \in DOMAIN ts, ts[k].pc = "consume", rs[ts[k].run].state = "succeeded"
  PROVE  NoneActive(rs)
<1>1. ts[k].run = Len(rs)
  BY DEF Whole, KnownRun
<1> QED
  BY <1>1 DEF Whole, RunHasTask, NoneActive

(* What it has made is published. *)
LEMMA TaskPublishes ==
  ASSUME NEW st, NEW kn, NEW ts, NEW rs, NEW pb, Whole(st, kn, ts, rs, pb),
         NEW k \in DOMAIN ts, ts[k].pc = "consume", rs[ts[k].run].state = "succeeded",
         NEW ts2, Stepped(ts, k, "persist", ts2)
  PROVE  /\ Whole(st, kn, ts2, rs, "staging")
         /\ pb \in {"idle", "done", "failed"}
<1>1. Live(ts[k])
  BY DEF Live
<1>2. ts \in Seq(TaskRecord)
  BY DEF Whole, SessionTyped
<1>3. /\ ts2 \in Seq(TaskRecord) /\ Len(ts2) = Len(ts) /\ DOMAIN ts2 = DOMAIN ts
      /\ ts2[k].pc = "persist" /\ ts # <<>>
      /\ \A i \in DOMAIN ts : i # k => ts2[i] = ts[i]
  BY DEF Stepped
<1>4. \A i \in DOMAIN ts2 : i # k => ts2[i].pc \in {"over", "dropped"}
  BY <1>1, <1>3, OthersAreOver
<1>5. SessionTyped(st, kn, ts2, rs) /\ Room(st, ts2, rs)
  BY <1>1, <1>3, <1>4, OthersAreOver DEF Whole, SessionTyped, Room
<1>6. OneTask(st, ts2)
  BY <1>1, <1>4, OthersAreOver DEF OneTask, Live
<1>7. NoneActive(rs)
  BY SucceededIsLast
<1>8. RunHasTask(st, ts2, rs)
  BY <1>7 DEF RunHasTask, NoneActive
<1>9. \A i \in DOMAIN ts : ts[i].pc \notin {"created", "persist"}
  BY <1>1, OthersAreOver
<1>10. KnownRun(kn, ts2, rs)
  BY <1>3, <1>4, <1>9 DEF Whole, KnownRun
<1>11. Publishing(ts2, "staging") /\ pb \in {"idle", "done", "failed"}
  BY <1>3, <1>9 DEF Whole, Publishing
<1> QED
  BY <1>5, <1>6, <1>8, <1>10, <1>11 DEF Whole

(* Its run ends. *)
LEMMA RunOver ==
  ASSUME NEW rs \in Seq(RunRecord), NEW k \in DOMAIN rs, NEW o \in {"succeeded", "ended"},
         NEW rs2, rs2 = [rs EXCEPT ![k].state = o]
  PROVE  /\ rs2 \in Seq(RunRecord) /\ Len(rs2) = Len(rs)
         /\ \A j \in 1..Len(rs) : /\ rs2[j].previous = rs[j].previous
                                  /\ rs2[j].state = "active" => rs[j].state = "active"
<1> DEFINE r == [rs[k] EXCEPT !.state = o]
<1>1. rs[k] \in RunRecord /\ DOMAIN rs = 1..Len(rs) /\ k \in 1..Len(rs)
  OBVIOUS
<1>2. PICK q \in RunStates, n \in 0..MaxTasks : rs[k] = [state |-> q, previous |-> n]
  BY <1>1 DEF RunRecord
<1>3. r = [state |-> o, previous |-> n]
  BY <1>2
<1> HIDE DEF r
<1>4. r \in RunRecord
  BY <1>3 DEF RunRecord, RunStates
<1>5. r.state = o /\ r.previous = n
  BY <1>3
<1>6. rs[k].previous = n
  BY <1>2
<1>7. rs2 = [rs EXCEPT ![k] = r]
  BY DEF r
<1>8. /\ rs2 \in Seq(RunRecord) /\ Len(rs2) = Len(rs) /\ rs2[k] = r
      /\ \A j \in 1..Len(rs) : j # k => rs2[j] = rs[j]
  BY <1>1, <1>4, <1>7
<1>9. \A j \in 1..Len(rs) : /\ rs2[j].previous = rs[j].previous
                            /\ rs2[j].state = "active" => rs[j].state = "active"
  BY <1>5, <1>6, <1>8
<1> QED
  BY <1>8, <1>9

-----------------------------------------------------------------------------
(* All sessions and the flow. *)

StatusOf(s) ==
  IF s \in NlSessions
  THEN {"absent", "generating", "repairing", "needs_input", "generated", "failed", "cancelled"}
  ELSE {"absent", "recording", "completed", "hardening", "needs_input", "hardened", "failed",
        "cancelled"}

Recording == [pc : {"none", "starting", "running", "checked", "over"},
              cancelled : BOOLEAN, killTimer : BOOLEAN, killed : BOOLEAN]

RecordingsTyped ==
  /\ recording \in [Sessions -> Recording]
  /\ \A s \in Sessions :
       recording[s].killTimer \/ recording[s].killed => recording[s].cancelled

SessionsTyped ==
  /\ status \in [Sessions -> Status]
  /\ known \in [Sessions -> Nat]
  /\ task \in [Sessions -> Seq(TaskRecord)]
  /\ runs \in [Sessions -> Seq(RunRecord)]
  /\ \A s \in Sessions : status[s] \in StatusOf(s)
  /\ RecordingsTyped

SessionsSound ==
  \A s \in Sessions : Whole(status[s], known[s], task[s], runs[s], pub[s])

IInv == FlowInv /\ SessionsTyped /\ SessionsSound

(* A step of one session. *)
OnlyOf(s) ==
  /\ status' = [status EXCEPT ![s] = status'[s]]
  /\ known' = [known EXCEPT ![s] = known'[s]]
  /\ task' = [task EXCEPT ![s] = task'[s]]
  /\ runs' = [runs EXCEPT ![s] = runs'[s]]
  /\ \A r \in Sessions : r # s => pub'[r] = pub[r]

LEMMA SessionSteps ==
  ASSUME IInv, FlowInv', RecordingsTyped', NEW s \in Sessions, OnlyOf(s),
         status'[s] \in StatusOf(s),
         Whole(status'[s], known'[s], task'[s], runs'[s], pub'[s])
  PROVE  IInv'
<1>1. /\ status'[s] \in Status /\ task'[s] \in Seq(TaskRecord)
      /\ runs'[s] \in Seq(RunRecord) /\ known'[s] \in Nat
  <2>1. runs'[s] \in Seq(RunRecord) /\ known'[s] \in 0..Len(runs'[s])
    BY DEF Whole, SessionTyped
  <2>2. Len(runs'[s]) \in Nat
    BY <2>1
  <2> QED
    BY <2>1, <2>2 DEF Whole, SessionTyped
<1>2. \A r \in Sessions : r # s => /\ status'[r] = status[r] /\ known'[r] = known[r]
                                  /\ task'[r] = task[r] /\ runs'[r] = runs[r]
  BY DEF OnlyOf, IInv, SessionsTyped
<1>3. status' \in [Sessions -> Status] /\ known' \in [Sessions -> Nat]
  BY <1>1 DEF OnlyOf, IInv, SessionsTyped
<1>4. task' \in [Sessions -> Seq(TaskRecord)] /\ runs' \in [Sessions -> Seq(RunRecord)]
  BY <1>1 DEF OnlyOf, IInv, SessionsTyped
<1>5. \A r \in Sessions : status'[r] \in StatusOf(r)
  BY <1>2 DEF IInv, SessionsTyped
<1>6. SessionsSound'
  BY <1>2 DEF OnlyOf, IInv, SessionsSound
<1> QED
  BY <1>3, <1>4, <1>5, <1>6 DEF IInv, SessionsTyped

(* What a step leaves alone. *)
LEMMA Untouched ==
  ASSUME IInv, NEW s \in Sessions
  PROVE  /\ status = [status EXCEPT ![s] = status[s]]
         /\ known = [known EXCEPT ![s] = known[s]]
         /\ task = [task EXCEPT ![s] = task[s]]
         /\ runs = [runs EXCEPT ![s] = runs[s]]
         /\ DOMAIN status = Sessions /\ DOMAIN known = Sessions
         /\ DOMAIN task = Sessions /\ DOMAIN runs = Sessions
         /\ Whole(status[s], known[s], task[s], runs[s], pub[s])
         /\ task[s] \in Seq(TaskRecord) /\ runs[s] \in Seq(RunRecord)
         /\ status[s] \in StatusOf(s) /\ status[s] \in Status
  BY DEF IInv, SessionsTyped, SessionsSound

LEMMA SetsTask ==
  ASSUME IInv, NEW s \in Sessions, NEW k \in DOMAIN task[s], NEW pc \in TaskStates,
         SetTask(s, k, pc)
  PROVE  Stepped(task[s], k, pc, task'[s]) /\ task' = [task EXCEPT ![s] = task'[s]]
<1> DEFINE t == [task[s][k] EXCEPT !.pc = pc]
<1>1. task[s] \in Seq(TaskRecord) /\ DOMAIN task = Sessions
  BY Untouched
<1>2. task[s][k] \in TaskRecord
  BY <1>1
<1>3. PICK q \in TaskStates, n \in 0..MaxTasks : task[s][k] = [pc |-> q, run |-> n]
  BY <1>2 DEF TaskRecord
<1>4. t = [pc |-> pc, run |-> n]
  BY <1>3
<1>5. task' = [task EXCEPT ![s][k] = t]
  BY DEF SetTask
<1> HIDE DEF t
<1>6. t \in TaskRecord
  BY <1>4 DEF TaskRecord
<1>7. t.pc = pc /\ t.run = n /\ task[s][k].run = n
  BY <1>3, <1>4
<1>8. task'[s] = [task[s] EXCEPT ![k] = t] /\ task' = [task EXCEPT ![s] = task'[s]]
  BY <1>1, <1>5
<1>9. /\ task'[s] \in Seq(TaskRecord) /\ Len(task'[s]) = Len(task[s])
      /\ DOMAIN task'[s] = DOMAIN task[s] /\ task'[s][k] = t
      /\ \A i \in DOMAIN task[s] : i # k => task'[s][i] = task[s][i]
      /\ task[s] # <<>>
  BY <1>1, <1>6, <1>8, OneSteps
<1> QED
  BY <1>7, <1>8, <1>9 DEF Stepped

LEMMA FlowAlone ==
  ASSUME IInv, UNCHANGED flowVars
  PROVE  FlowInv'
  BY DEF flowVars, IInv, FlowInv, FlowTypeOK, DirsSound, Good, Awaits, WritersHold,
         ExecutionsHold, FlowHeld, Engaged

LEMMA RecordingsAlone ==
  ASSUME IInv, UNCHANGED recording
  PROVE  RecordingsTyped'
  BY DEF IInv, SessionsTyped, RecordingsTyped

(* What may follow a status, as far as the tasks depend on it. *)
LEMMA WhatFollows ==
  ASSUME NEW st \in Status
  PROVE  /\ "failed" \in nlTransitions[st] <=>
              st \in {"generating", "needs_input", "generated", "repairing"}
         /\ "failed" \in codegenTransitions[st] <=> st \in {"recording", "hardening"}
         /\ "completed" \notin nlTransitions[st]
         /\ "completed" \in codegenTransitions[st] => st = "recording"
<1>1. CASE st \in {"generating", "needs_input", "generated", "repairing"}
  BY <1>1 DEF nlTransitions, codegenTransitions, Status, Working
<1>2. CASE st \in {"recording", "completed", "hardening", "hardened"}
  BY <1>2 DEF nlTransitions, codegenTransitions, Status, Working
<1>3. CASE st \in {"absent", "failed", "cancelled"}
  BY <1>3 DEF nlTransitions, codegenTransitions, Status, Working
<1> QED
  BY <1>1, <1>2, <1>3 DEF Status, Working

LEMMA HowItFails ==
  ASSUME IInv, NEW s \in Sessions,
         NEW st, st = Failed(s) \/ st = MarkedFailed(s)
  PROVE  /\ st \in StatusOf(s) /\ st \in Status
         /\ st = status[s] \/ st \in Final
         /\ status[s] \in Working \cup Final => st \in Final
<1>1. status[s] \in Status /\ status[s] \in StatusOf(s)
  BY Untouched
<1>2. st = status[s] \/ st = "failed"
  BY DEF Failed, MarkedFailed
<1>3. status[s] \in Working => Allowed(s, "failed")
  BY <1>1, WhatFollows DEF Allowed, StatusOf, Working
<1> QED
  BY <1>1, <1>2, <1>3 DEF Failed, MarkedFailed, StatusOf, Final, Status, Working

-----------------------------------------------------------------------------
(* Every step keeps the invariant. *)

(* Only the status moves, and a run may end. *)
LEMMA StatusStep ==
  ASSUME IInv, NEW s \in Sessions, FlowInv', RecordingsTyped', OnlyOf(s), pub' = pub,
         known' = known, task' = task,
         status'[s] \in StatusOf(s), status'[s] \in Status,
         status'[s] = "absent" => status[s] = "absent", Settled(status[s], status'[s]),
         \/ runs' = runs
         \/ \E k \in DOMAIN runs[s], o \in {"succeeded", "ended"} :
              runs' = [runs EXCEPT ![s][k].state = o]
  PROVE  IInv'
<1>1. Whole(status[s], known[s], task[s], runs[s], pub[s]) /\ runs[s] \in Seq(RunRecord)
  BY Untouched
<1> DEFINE Later(rs2) ==
             /\ rs2 \in Seq(RunRecord) /\ Len(rs2) = Len(runs[s])
             /\ \A j \in 1..Len(runs[s]) :
                  /\ rs2[j].previous = runs[s][j].previous
                  /\ rs2[j].state = "active" => runs[s][j].state = "active"
<1>2. Later(runs'[s])
  <2>1. CASE runs' = runs
    BY <1>1, <2>1
  <2>2. ASSUME NEW k \in DOMAIN runs[s], NEW o \in {"succeeded", "ended"},
               runs' = [runs EXCEPT ![s][k].state = o]
        PROVE  Later(runs'[s])
    <3>1. runs'[s] = [runs[s] EXCEPT ![k].state = o]
      BY <2>2, Untouched
    <3> QED
      BY <1>1, <3>1, RunOver
  <2> QED
    BY <2>1, <2>2
<1>3. Whole(status'[s], known[s], task[s], runs'[s], pub[s])
  BY <1>1, <1>2, StatusMoves
<1> QED
  BY <1>3, SessionSteps

LEMMA CreatesCodegenSession ==
  ASSUME IInv, NEW s \in Sessions, CreateCodegenSession(s) PROVE IInv'
<1>1. /\ status'[s] = "recording" /\ status[s] = "absent" /\ OnlyOf(s)
      /\ pub' = pub /\ task' = task /\ known' = known /\ runs' = runs
  BY Untouched DEF CreateCodegenSession, SetStatus, OnlyOf, flowVars
<1>2. RecordingsTyped'
  BY ZenonT(40) DEF CreateCodegenSession, IInv, SessionsTyped, RecordingsTyped, Recording
<1>3. FlowInv' /\ status'[s] \in StatusOf(s)
  BY <1>1, FlowAlone, RpaSessionsAssumption DEF CreateCodegenSession, StatusOf
<1> QED
  BY <1>1, <1>2, <1>3, StatusStep DEF Settled, Status, Working, Final

(* A task begins: of a new session, for answers, a repair or a hardening. *)
LEMMA TakenUp ==
  ASSUME IInv, NEW s \in Sessions, NEW st, NEW pc \in {"prepare", "create"},
         st \in Working, st \in StatusOf(s), status[s] \notin Working \cup Final,
         Len(task[s]) < MaxTasks, SetStatus(s, st), BeginTask(s, pc),
         UNCHANGED <<flowVars, known, runs, recording>>
  PROVE  IInv'
<1> DEFINE t == [pc |-> pc, run |-> 0]
<1>1. /\ status'[s] = st /\ task'[s] = Append(task[s], t)
      /\ known'[s] = known[s] /\ runs'[s] = runs[s] /\ pub'[s] = pub[s]
      /\ OnlyOf(s)
  BY Untouched DEF SetStatus, BeginTask, OnlyOf, flowVars
<1>2. Whole(status'[s], known'[s], task'[s], runs'[s], pub'[s])
  BY <1>1, Untouched, TaskBegins
<1> QED
  BY <1>1, <1>2, FlowAlone, RecordingsAlone, SessionSteps

LEMMA CreatesNlSession == ASSUME IInv, NEW s \in Sessions, CreateNlSession(s) PROVE IInv'
<1>1. Len(task[s]) < MaxTasks
  <2>1. task[s] = <<>>
    BY Untouched DEF CreateNlSession, Whole, Room
  <2> QED
    BY <2>1, RpaSessionsAssumption
<1>2. "generating" \in StatusOf(s) /\ "generating" \in Working
  BY DEF CreateNlSession, StatusOf, Working
<1>3. status[s] \notin Working \cup Final
  BY DEF CreateNlSession, Working, Final
<1> QED
  BY <1>1, <1>2, <1>3, TakenUp DEF CreateNlSession

(* Those that fail the session. *)
LEMMA Refused ==
  ASSUME IInv, NEW s \in Sessions, status[s] # "absent", MayBegin(s),
         SetStatus(s, Failed(s)), BeginTask(s, "over"),
         UNCHANGED <<flowVars, known, runs, recording>>
  PROVE  IInv'
<1> DEFINE t == [pc |-> "over", run |-> 0]
<1>1. /\ status'[s] = Failed(s) /\ task'[s] = Append(task[s], t)
      /\ known'[s] = known[s] /\ runs'[s] = runs[s] /\ pub'[s] = pub[s]
      /\ OnlyOf(s) /\ Len(task[s]) < MaxTasks
  BY Untouched DEF SetStatus, BeginTask, OnlyOf, flowVars, MayBegin
<1>2. /\ Failed(s) \in Status /\ Failed(s) \in StatusOf(s) /\ Failed(s) # "absent"
      /\ Settled(status[s], Failed(s))
  BY HowItFails DEF Settled, Final
<1>3. Whole(status'[s], known'[s], task'[s], runs'[s], pub'[s])
  BY <1>1, <1>2, Untouched, TaskRefused
<1> QED
  BY <1>1, <1>2, <1>3, FlowAlone, RecordingsAlone, SessionSteps

LEMMA TakesRequests ==
  ASSUME IInv, NEW s \in Sessions,
         AnswerNlQuestions(s) \/ AnswerCodegenQuestions(s) \/ Repair(s) \/ Harden(s)
  PROVE  IInv'
<1>1. CASE AnswerNlQuestions(s)
  <2>1. CASE status[s] = "needs_input" /\ SetStatus(s, "generating") /\ BeginTask(s, "create")
    <3>1. "generating" \in StatusOf(s) /\ "generating" \in Working
      BY <1>1 DEF AnswerNlQuestions, StatusOf, Working
    <3>2. status[s] \notin Working \cup Final
      BY <2>1 DEF Working, Final
    <3> QED
      BY <1>1, <2>1, <3>1, <3>2, TakenUp DEF MayBegin, AnswerNlQuestions
  <2>2. CASE status[s] # "absent" /\ SetStatus(s, Failed(s)) /\ BeginTask(s, "over")
    BY <1>1, <2>2, Refused DEF AnswerNlQuestions
  <2> QED
    BY <1>1, <2>1, <2>2 DEF AnswerNlQuestions
<1>2. CASE AnswerCodegenQuestions(s) \/ Harden(s)
  <2>1. "hardening" \in StatusOf(s) /\ "hardening" \in Working
    BY <1>2, RpaSessionsAssumption
       DEF AnswerCodegenQuestions, Harden, StatusOf, Working
  <2>2. status[s] \notin Working \cup Final
    BY <1>2 DEF AnswerCodegenQuestions, Harden, Working, Final
  <2> QED
    BY <1>2, <2>1, <2>2, TakenUp DEF MayBegin, AnswerCodegenQuestions, Harden
<1>3. CASE Repair(s)
  <2>1. CASE status[s] = "generated"
    <3>1. "repairing" \in StatusOf(s) /\ "repairing" \in Working
      BY <1>3 DEF Repair, StatusOf, Working
    <3>2. status[s] \notin Working \cup Final
      BY <2>1 DEF Working, Final
    <3> QED
      BY <1>3, <2>1, <3>1, <3>2, TakenUp DEF MayBegin, Repair
  <2>2. CASE status[s] # "generated"
    BY <1>3, <2>2, Refused DEF Repair
  <2> QED
    BY <2>1, <2>2
<1> QED
  BY <1>1, <1>2, <1>3

LEMMA Cancels ==
  ASSUME IInv, NEW s \in Sessions, CancelGeneration(s) \/ CancelHardening(s)
  PROVE  IInv'
<1>1. /\ SetStatus(s, "cancelled") /\ UNCHANGED <<flowVars, known, task, recording>>
      /\ UNCHANGED runs \/ CancelDaemonRun(s)
      /\ status[s] # "absent"
  BY DEF CancelGeneration, CancelHardening
<1>2. \/ runs' = runs
      \/ \E k \in DOMAIN runs[s], o \in {"succeeded", "ended"} :
           runs' = [runs EXCEPT ![s][k].state = o]
  <2>1. known[s] \in 0..Len(runs[s]) /\ runs[s] \in Seq(RunRecord)
    BY Untouched DEF Whole, SessionTyped
  <2>2. known[s] # 0 => known[s] \in DOMAIN runs[s]
    BY <2>1
  <2> QED
    BY <1>1, <2>2 DEF CancelDaemonRun
<1>3. status'[s] = "cancelled" /\ pub' = pub /\ known' = known /\ task' = task
  BY <1>1, Untouched DEF SetStatus, flowVars
<1>4. OnlyOf(s)
  <2>1. runs' = [runs EXCEPT ![s] = runs'[s]]
    BY <1>2, Untouched
  <2> QED
    BY <1>1, <1>3, <2>1, Untouched DEF SetStatus, OnlyOf
<1>5. status'[s] \in StatusOf(s) /\ status'[s] \in Status /\ Settled(status[s], status'[s])
  BY <1>3 DEF StatusOf, Status, Settled, Final
<1> QED
  BY <1>1, <1>2, <1>3, <1>4, <1>5, FlowAlone, RecordingsAlone, StatusStep

LEMMA RunsEnd ==
  ASSUME IInv, NEW s \in Sessions, NEW k \in DOMAIN runs[s], RunEnds(s, k) PROVE IInv'
<1>1. \E o \in {"succeeded", "ended"} : runs' = [runs EXCEPT ![s][k].state = o]
  BY DEF RunEnds
<1>2. UNCHANGED <<flowVars, status, known, task, recording>> /\ pub' = pub
  BY DEF RunEnds, flowVars
<1>3. OnlyOf(s)
  <2>1. runs' = [runs EXCEPT ![s] = runs'[s]]
    BY <1>1, Untouched
  <2> QED
    BY <1>2, <2>1, Untouched DEF OnlyOf
<1>4. status'[s] \in StatusOf(s) /\ status'[s] \in Status /\ Settled(status[s], status'[s])
      /\ status'[s] = status[s]
  BY <1>2, Untouched DEF Settled
<1> QED
  BY <1>1, <1>2, <1>3, <1>4, FlowAlone, RecordingsAlone, StatusStep

(* A task that has no run yet. *)
LEMMA Prepares ==
  ASSUME IInv, NEW s \in Sessions, NEW k \in DOMAIN task[s],
         PrepareGeneration(s, k) \/ PrepareHardening(s, k)
  PROVE  IInv'
<1>1. /\ task[s][k].pc = "prepare" /\ SetTask(s, k, "create")
      /\ UNCHANGED <<flowVars, status, known, runs, recording>>
  BY DEF PrepareGeneration, PrepareHardening
<1>2. /\ Stepped(task[s], k, "create", task'[s]) /\ OnlyOf(s)
      /\ status' = status /\ known' = known /\ runs' = runs /\ pub' = pub
  BY <1>1, Untouched, SetsTask DEF OnlyOf, flowVars, TaskStates
<1>3. Whole(status[s], known[s], task'[s], runs[s], pub[s])
  BY <1>1, <1>2, Untouched, TaskPrepared
<1> QED
  BY <1>1, <1>2, <1>3, Untouched, FlowAlone, RecordingsAlone, SessionSteps

(* A task that ends, with its session or when no run goes on. *)
LEMMA Ends ==
  ASSUME IInv, NEW s \in Sessions, NEW k \in DOMAIN task[s], NEW pc \in {"over", "dropped"},
         Live(task[s][k]), task[s][k].pc # "created",
         task[s][k].pc = "persist" => pub[s] \in {"idle", "done", "failed"},
         SetTask(s, k, pc), UNCHANGED <<flowVars, known, runs, recording>>,
         NEW st, status' = [status EXCEPT ![s] = st], st \in StatusOf(s), st \in Status,
         st # "absent", st \in Final \/ NoneActive(runs[s])
  PROVE  IInv'
<1>1. /\ Stepped(task[s], k, pc, task'[s]) /\ OnlyOf(s)
      /\ status'[s] = st /\ known' = known /\ runs' = runs /\ pub' = pub
  <2>1. pc \in TaskStates
    BY DEF TaskStates
  <2>2. Stepped(task[s], k, pc, task'[s]) /\ task' = [task EXCEPT ![s] = task'[s]]
    BY <2>1, SetsTask
  <2>3. status'[s] = st /\ known' = known /\ runs' = runs /\ pub' = pub
    BY Untouched DEF flowVars
  <2> QED
    BY <2>2, <2>3, Untouched DEF OnlyOf
<1>2. Whole(st, known[s], task'[s], runs[s], pub[s])
  BY <1>1, Untouched, TaskEnds
<1> QED
  BY <1>1, <1>2, FlowAlone, RecordingsAlone, SessionSteps

(* A task at work: what failing makes of its session. *)
LEMMA FailsFinally ==
  ASSUME IInv, NEW s \in Sessions, NEW k \in DOMAIN task[s], Live(task[s][k]),
         NEW st, st = Failed(s) \/ st = MarkedFailed(s)
  PROVE  st \in Final /\ st \in StatusOf(s) /\ st \in Status /\ st # "absent"
<1>1. status[s] \in Working \cup Final
  BY Untouched, OthersAreOver
<1> QED
  BY <1>1, HowItFails DEF Final

LEMMA FailsTask ==
  ASSUME IInv, NEW s \in Sessions, NEW k \in DOMAIN task[s], FailTask(s, k),
         Live(task[s][k]), task[s][k].pc # "created",
         task[s][k].pc = "persist" => pub[s] \in {"idle", "done", "failed"},
         UNCHANGED <<flowVars, known, runs, recording>>
  PROVE  IInv'
<1>1. SetTask(s, k, "over") /\ status' = [status EXCEPT ![s] = Failed(s)]
  BY DEF FailTask, SetStatus
<1>2. /\ Failed(s) \in Final /\ Failed(s) \in StatusOf(s) /\ Failed(s) \in Status
      /\ Failed(s) # "absent"
  BY FailsFinally
<1> QED
  BY <1>1, <1>2, Ends

(* A task that moves its session on: it is taken up, or fails. *)
LEMMA MovesSession ==
  ASSUME IInv, NEW s \in Sessions, NEW k \in DOMAIN task[s], NEW next,
         next \in StatusOf(s), next \in Status, next # "absent",
         SetTask(s, k, "over"), SetStatus(s, Moved(s, next)), NoneActive(runs[s]),
         Live(task[s][k]), task[s][k].pc # "created",
         task[s][k].pc = "persist" => pub[s] \in {"idle", "done", "failed"},
         UNCHANGED <<flowVars, known, runs, recording>>
  PROVE  IInv'
<1>1. status' = [status EXCEPT ![s] = Moved(s, next)]
  BY DEF SetStatus
<1>2. /\ Moved(s, next) \in StatusOf(s) /\ Moved(s, next) \in Status
      /\ Moved(s, next) # "absent"
  <2>1. CASE Moved(s, next) = next
    BY <2>1
  <2>2. CASE Moved(s, next) = Failed(s)
    BY <2>2, FailsFinally
  <2> QED
    BY <2>1, <2>2 DEF Moved
<1> QED
  BY <1>1, <1>2, Ends

LEMMA CreatesRun ==
  ASSUME IInv, NEW s \in Sessions, NEW k \in DOMAIN task[s],
         CreateFirstRun(s, k) \/ CreateFollowUpRun(s, k)
  PROVE  IInv'
<1>1. task[s][k].pc = "create" /\ RunCreated(s, k, known[s])
  BY DEF CreateFirstRun, CreateFollowUpRun
<1>2. /\ task'[s] = [task[s] EXCEPT ![k] = [pc |-> "created", run |-> Len(runs[s]) + 1]]
      /\ runs'[s] = Append(runs[s], [state |-> "active", previous |-> known[s]])
      /\ OnlyOf(s) /\ status' = status /\ known' = known /\ pub' = pub
      /\ UNCHANGED <<flowVars, recording>>
  BY <1>1, Untouched DEF RunCreated, OnlyOf, flowVars
<1>3. Whole(status[s], known[s], task'[s], runs'[s], pub[s])
  BY <1>1, <1>2, Untouched, TaskHasRun
<1> QED
  BY <1>2, <1>3, Untouched, FlowAlone, RecordingsAlone, SessionSteps

LEMMA FailsToCreate ==
  ASSUME IInv, NEW s \in Sessions, NEW k \in DOMAIN task[s],
         CreateRunFails(s, k) \/ PrepareFails(s, k)
  PROVE  IInv'
<1>1. /\ task[s][k].pc \in {"prepare", "create"} /\ UNCHANGED <<flowVars, known, runs, recording>>
  BY DEF CreateRunFails, PrepareFails
<1>2. Live(task[s][k]) /\ task[s][k].pc \notin {"created", "persist"}
  BY <1>1 DEF Live
<1>3. CASE FailTask(s, k)
  BY <1>1, <1>2, <1>3, FailsTask
<1>4. CASE SetTask(s, k, "over") /\ SetStatus(s, MarkedFailed(s))
  <2>1. /\ MarkedFailed(s) \in Final /\ MarkedFailed(s) \in StatusOf(s)
        /\ MarkedFailed(s) \in Status /\ MarkedFailed(s) # "absent"
    BY <1>2, FailsFinally
  <2>2. status' = [status EXCEPT ![s] = MarkedFailed(s)]
    BY <1>4 DEF SetStatus
  <2> QED
    BY <1>1, <1>2, <1>4, <2>1, <2>2, Ends
<1>5. CASE SetTask(s, k, "dropped") /\ UNCHANGED status
  <2>1. NoneActive(runs[s])
    BY <1>1, Untouched DEF Whole, RunHasTask
  <2>2. status[s] # "absent" /\ status[s] \in StatusOf(s) /\ status[s] \in Status
    BY <1>2, Untouched, OthersAreOver
  <2>3. status' = [status EXCEPT ![s] = status[s]]
    BY <1>5, Untouched
  <2> QED
    BY <1>1, <1>2, <1>5, <2>1, <2>2, <2>3, Ends
<1> QED
  BY <1>3, <1>4, <1>5 DEF CreateRunFails, PrepareFails

LEMMA KnowsRun ==
  ASSUME IInv, NEW s \in Sessions, NEW k \in DOMAIN task[s], RunKnown(s, k) PROVE IInv'
<1>1. /\ task[s][k].pc = "created" /\ UNCHANGED <<flowVars, status, runs, recording>>
      /\ Stepped(task[s], k, "consume", task'[s])
      /\ known'[s] = task[s][k].run /\ OnlyOf(s) /\ pub' = pub
  BY Untouched, SetsTask DEF RunKnown, OnlyOf, flowVars, TaskStates
<1>2. Whole(status[s], known'[s], task'[s], runs[s], pub[s])
  BY <1>1, Untouched, TaskConsumes
<1> QED
  BY <1>1, <1>2, Untouched, FlowAlone, RecordingsAlone, SessionSteps

(* The run has ended for its task. *)
LEMMA Consumes ==
  ASSUME IInv, NEW s \in Sessions, NEW k \in DOMAIN task[s], RunFailed(s, k) \/ RunAsked(s, k)
  PROVE  IInv'
<1>1. task[s][k].pc = "consume" /\ UNCHANGED <<flowVars, known, runs, recording>>
  BY DEF RunFailed, RunAsked
<1>2. Live(task[s][k]) /\ task[s][k].pc \notin {"created", "persist"}
  BY <1>1 DEF Live
<1>3. CASE FailTask(s, k)
  BY <1>1, <1>2, <1>3, FailsTask
<1>4. CASE /\ SetTask(s, k, "over") /\ SetStatus(s, Moved(s, "needs_input"))
           /\ "succeeded" \in TerminalStatuses(s, k)
  <2>1. runs[s][task[s][k].run].state = "succeeded"
    BY <1>4 DEF TerminalStatuses
  <2>2. NoneActive(runs[s])
    BY <1>1, <2>1, Untouched, SucceededIsLast
  <2>3. "needs_input" \in StatusOf(s) /\ "needs_input" \in Status
    BY DEF StatusOf, Status
  <2> QED
    BY <1>1, <1>2, <1>4, <2>2, <2>3, MovesSession
<1> QED
  BY <1>3, <1>4 DEF RunFailed, RunAsked

LEMMA Persists ==
  ASSUME IInv, NEW s \in Sessions, NEW k \in DOMAIN task[s], Persisted(s, k) PROVE IInv'
<1> DEFINE next == IF s \in NlSessions THEN "generated" ELSE "hardened"
<1>1. /\ task[s][k].pc = "persist" /\ UNCHANGED <<flowVars, known, runs, recording>>
      /\ pub[s] \in {"done", "failed"}
  BY DEF Persisted
<1>2. Live(task[s][k]) /\ task[s][k].pc # "created"
  BY <1>1 DEF Live
<1>3. CASE FailTask(s, k)
  BY <1>1, <1>2, <1>3, FailsTask
<1>4. CASE SetTask(s, k, "over") /\ SetStatus(s, Moved(s, next))
  <2>1. NoneActive(runs[s])
    BY <1>1, Untouched DEF Whole, RunHasTask
  <2>2. next \in StatusOf(s) /\ next \in Status /\ next # "absent"
    BY DEF StatusOf, Status
  <2> HIDE DEF next
  <2> QED
    BY <1>1, <1>2, <1>4, <2>1, <2>2, MovesSession
<1> QED
  BY <1>3, <1>4 DEF Persisted

-----------------------------------------------------------------------------
(* The flow, whoever changes it. *)

(* A step of a publication, of an import, a deletion or an execution. *)
LEMMA FlowSteps ==
  ASSUME FlowInv,
         \/ FlowRequest
         \/ \E w \in Writers : Publish(w)
  PROVE  FlowInv'
<1>1. ASSUME NEW w \in Writers, Publish(w) PROVE FlowInv'
  BY <1>1, PublicationMoves, MoveAwayKept, MoveInKept, RestoreKept, RemoveBackupKept,
     MetadataKept DEF Publish
<1>2. ASSUME NEW i \in Imports, CheckAbsent(i) \/ Import(i) PROVE FlowInv'
  BY <1>2, ImportKept
<1>3. CASE DeleteFlow \/ \E part \in removing : RemoveFiles(part)
  BY <1>3, DeleteKept, RemoveFilesKept
<1>4. ASSUME NEW e \in Executions,
             LoadFlow(e) \/ Gate(e) \/ OpenScript(e) \/ Settle(e) \/ MarkFlowVerified(e)
      PROVE  FlowInv'
  BY <1>4, ExecutionKept, MetadataKept
<1> QED
  BY <1>1, <1>2, <1>3, <1>4 DEF FlowRequest

(* What has been made is published. *)
LEMMA Makes ==
  ASSUME IInv, NEW s \in Sessions, NEW k \in DOMAIN task[s], RunMade(s, k) PROVE IInv'
<1>1. /\ task[s][k].pc = "consume" /\ SetTask(s, k, "persist")
      /\ runs[s][task[s][k].run].state = "succeeded"
      /\ pub' = [pub EXCEPT ![s] = "staging"] /\ RunMadeOf(s)
      /\ UNCHANGED <<status, known, runs, recording>>
  BY DEF RunMade, RunMadeOf, TerminalStatuses
<1>2. Stepped(task[s], k, "persist", task'[s]) /\ task' = [task EXCEPT ![s] = task'[s]]
  BY <1>1, SetsTask DEF TaskStates
<1>3. /\ Whole(status[s], known[s], task'[s], runs[s], "staging")
      /\ pub[s] \in {"idle", "done", "failed"}
  <2>1. Whole(status[s], known[s], task[s], runs[s], pub[s])
    BY Untouched
  <2>2. Stepped(task[s], k, "persist", task'[s])
    BY <1>2
  <2>3. task[s][k].pc = "consume" /\ runs[s][task[s][k].run].state = "succeeded"
    BY <1>1
  <2> QED
    BY <2>1, <2>2, <2>3, TaskPublishes
<1>4. FlowInv'
  BY <1>1, <1>3, PublicationMoves DEF IInv, Sessions
<1>5. pub'[s] = "staging" /\ \A r \in Sessions : r # s => pub'[r] = pub[r]
  BY <1>1 DEF IInv, FlowInv, FlowTypeOK, Sessions
<1>6. OnlyOf(s)
  BY <1>1, <1>2, <1>5, Untouched DEF OnlyOf
<1> QED
  BY <1>1, <1>3, <1>4, <1>5, <1>6, Untouched, RecordingsAlone, SessionSteps

LEMMA Publishes ==
  ASSUME IInv, NEW s \in Sessions, Publish(s), UNCHANGED sessionVars PROVE IInv'
<1>1. FlowInv'
  BY FlowSteps DEF IInv, Sessions
<1>2. /\ pub[s] \notin {"idle", "done", "failed"}
      /\ \A r \in Sessions : r # s => pub'[r] = pub[r]
  BY DEF Publish, Stage, StageFails, MoveAway, MoveIn, Restore, RemoveBackup, WriteMetadata,
         IInv, FlowInv, FlowTypeOK, Sessions
<1>3. UNCHANGED <<status, known, task, runs, recording>>
  BY DEF sessionVars
<1>4. Whole(status[s], known[s], task[s], runs[s], pub'[s])
  BY <1>2, Untouched DEF Whole, Publishing
<1>5. OnlyOf(s)
  BY <1>2, <1>3, Untouched DEF OnlyOf
<1> QED
  BY <1>1, <1>3, <1>4, <1>5, Untouched, RecordingsAlone, SessionSteps

LEMMA FlowRequests == ASSUME IInv, FlowRequest, UNCHANGED sessionVars PROVE IInv'
<1>1. FlowInv'
  BY FlowSteps DEF IInv
<1>2. pub' = pub
  BY DEF FlowRequest, CheckAbsent, Import, DeleteFlow, RemoveFiles, LoadFlow, Gate, OpenScript, Settle,
         MarkFlowVerified
<1>3. UNCHANGED <<status, known, task, runs, recording>>
  BY DEF sessionVars
<1>4. SessionsTyped'
  BY <1>3 DEF IInv, SessionsTyped, RecordingsTyped, StatusOf
<1>5. SessionsSound'
  BY <1>2, <1>3 DEF IInv, SessionsSound
<1> QED
  BY <1>1, <1>4, <1>5 DEF IInv

-----------------------------------------------------------------------------
(* The recorder. *)

LEMMA Records ==
  ASSUME IInv, NEW s \in Sessions, Recorder(s) \/ CancelRecording(s) PROVE IInv'
<1>1. /\ UNCHANGED <<flowVars, known, task, runs>> /\ pub' = pub
  BY DEF Recorder, SpawnRecorder, RecorderFails, KillRecorder, RecorderCloses, ScriptChecked,
         CancelRecording, flowVars
<1>2. RecordingsTyped'
  <2>1. CASE SpawnRecorder(s)
    BY <2>1, ZenonT(40) DEF SpawnRecorder, IInv, SessionsTyped, RecordingsTyped, Recording
  <2>2. CASE RecorderFails(s)
    BY <2>2, ZenonT(40) DEF RecorderFails, IInv, SessionsTyped, RecordingsTyped, Recording
  <2>3. CASE KillRecorder(s)
    BY <2>3, ZenonT(40) DEF KillRecorder, IInv, SessionsTyped, RecordingsTyped, Recording
  <2>4. CASE RecorderCloses(s)
    <3>1. PICK next \in {"checked", "over"} : recording' = [recording EXCEPT ![s].pc = next]
      BY <2>4 DEF RecorderCloses
    <3> QED
      BY <3>1, ZenonT(40) DEF IInv, SessionsTyped, RecordingsTyped, Recording
  <2>5. CASE ScriptChecked(s)
    BY <2>5 DEF ScriptChecked, IInv, SessionsTyped, RecordingsTyped, Recording
  <2>6. CASE CancelRecording(s)
    <3>1. \/ recording' = [recording EXCEPT ![s] = Terminated(recording[s])]
          \/ recording' = [recording EXCEPT ![s] = recording[s]]
      BY <2>6 DEF CancelRecording
    <3>2. \A r \in Recording :
            Terminated(r) \in Recording /\ Terminated(r).cancelled
      BY DEF Terminated, Recording
    <3> QED
      BY <3>1, <3>2, ZenonT(40) DEF IInv, SessionsTyped, RecordingsTyped
  <2> QED
    BY <2>1, <2>2, <2>3, <2>4, <2>5, <2>6 DEF Recorder
<1>3. /\ \/ status' = status
         \/ status' = [status EXCEPT ![s] = MarkedFailed(s)]
         \/ status' = [status EXCEPT ![s] = "completed"] /\ Allowed(s, "completed")
         \/ status' = [status EXCEPT ![s] = "cancelled"] /\ status[s] = "recording"
  BY DEF Recorder, SpawnRecorder, RecorderFails, KillRecorder, RecorderCloses, ScriptChecked,
         CancelRecording, SetStatus
<1>4. /\ status'[s] \in StatusOf(s) /\ status'[s] \in Status
      /\ status'[s] = "absent" => status[s] = "absent"
      /\ Settled(status[s], status'[s])
  <2>1. CASE status' = status
    BY <2>1, Untouched DEF Settled
  <2>2. CASE status' = [status EXCEPT ![s] = MarkedFailed(s)]
    <3>1. status'[s] = MarkedFailed(s)
      BY <2>2, Untouched
    <3> QED
      BY <3>1, HowItFails DEF Settled, Final
  <2>3. CASE status' = [status EXCEPT ![s] = "completed"] /\ Allowed(s, "completed")
    <3>1. status'[s] = "completed" /\ status[s] \in Status
      BY <2>3, Untouched
    <3>2. s \notin NlSessions /\ status[s] = "recording"
      BY <2>3, <3>1, WhatFollows DEF Allowed
    <3> QED
      BY <3>1, <3>2 DEF Settled, StatusOf, Status, Working, Final
  <2>4. CASE status' = [status EXCEPT ![s] = "cancelled"] /\ status[s] = "recording"
    BY <2>4, Untouched DEF Settled, StatusOf, Status, Final
  <2> QED
    BY <1>3, <2>1, <2>2, <2>3, <2>4
<1>5. OnlyOf(s)
  <2>1. status' = [status EXCEPT ![s] = status'[s]]
    BY <1>3, Untouched
  <2> QED
    BY <1>1, <2>1, Untouched DEF OnlyOf
<1> QED
  BY <1>1, <1>2, <1>4, <1>5, FlowAlone, StatusStep

-----------------------------------------------------------------------------
LEMMA InitSessions == Init => IInv
<1> SUFFICES ASSUME Init PROVE IInv
  OBVIOUS
<1>1. \A s \in Sessions :
        Whole("absent", 0, <<>>, <<>>, "idle")
  <2>1. <<>> \in Seq(TaskRecord) /\ <<>> \in Seq(RunRecord) /\ Len(<<>>) = 0 /\ DOMAIN <<>> = {}
    OBVIOUS
  <2> QED
    BY <2>1, RpaSessionsAssumption
       DEF Whole, SessionTyped, Room, OneTask, RunHasTask, KnownRun, Chain, Publishing, Status,
           NoneActive
<1>2. SessionsSound
  BY <1>1 DEF Init, FlowInit, SessionsSound, Sessions
<1>3. RecordingsTyped
  BY DEF Init, RecordingsTyped, Recording, NoRecording
<1>4. SessionsTyped
  <2>1. <<>> \in Seq(TaskRecord) /\ <<>> \in Seq(RunRecord)
    OBVIOUS
  <2>2. "absent" \in Status /\ \A s \in Sessions : "absent" \in StatusOf(s)
    BY DEF Status, StatusOf
  <2> QED
    BY <1>3, <2>1, <2>2 DEF Init, SessionsTyped
<1> QED
  BY <1>2, <1>4, InitFlow DEF IInv

LEMMA NextSessions == IInv /\ [Next]_vars => IInv'
<1> SUFFICES ASSUME IInv, [Next]_vars PROVE IInv'
  OBVIOUS
<1>1. ASSUME NEW s \in Sessions, Request(s) PROVE IInv'
  BY <1>1, CreatesNlSession, CreatesCodegenSession, TakesRequests, Cancels, Records DEF Request
<1>2. ASSUME NEW s \in Sessions, Recorder(s) PROVE IInv'
  BY <1>2, Records
<1>3. ASSUME NEW s \in Sessions, Publish(s), UNCHANGED sessionVars PROVE IInv'
  BY <1>3, Publishes
<1>4. ASSUME NEW s \in Sessions, NEW k \in DOMAIN task[s], RunTask(s, k) PROVE IInv'
  BY <1>4, Prepares, FailsToCreate, CreatesRun, KnowsRun, Consumes, Makes, Persists DEF RunTask
<1>5. ASSUME NEW s \in Sessions, NEW k \in DOMAIN runs[s], RunEnds(s, k) PROVE IInv'
  BY <1>5, RunsEnd
<1>6. CASE FlowRequest /\ UNCHANGED sessionVars
  BY <1>6, FlowRequests
<1>7. CASE UNCHANGED vars
  <2>1. UNCHANGED <<flowVars, status, known, task, runs, recording>> /\ pub' = pub
    BY <1>7 DEF vars, sessionVars, flowVars
  <2>2. SessionsTyped'
    BY <2>1 DEF IInv, SessionsTyped, RecordingsTyped, StatusOf
  <2>3. SessionsSound'
    BY <2>1 DEF IInv, SessionsSound
  <2> QED
    BY <2>1, <2>2, <2>3, FlowAlone DEF IInv
<1> QED
  BY <1>1, <1>2, <1>3, <1>4, <1>5, <1>6, <1>7 DEF Next

LEMMA SessionsInvariant == Spec => []IInv
<1> QED
  BY InitSessions, NextSessions, PTL DEF Spec

-----------------------------------------------------------------------------
(* The sessions, their runs and the directory have their types always. *)
THEOREM TypeCorrect == Spec => []TypeOK
<1>1. IInv => TypeOK
  <2> SUFFICES ASSUME IInv PROVE TypeOK
    OBVIOUS
  <2>1. \A s \in Sessions : Len(task[s]) <= MaxTasks /\ known[s] \in 0..Len(runs[s])
    BY DEF IInv, SessionsSound, Whole, Room, SessionTyped
  <2> QED
    BY <2>1 DEF IInv, FlowInv, SessionsTyped, RecordingsTyped, Recording, TypeOK, TaskRecord,
                RunRecord
<1> QED
  BY <1>1, SessionsInvariant, PTL

(* However requests, answers of the daemon and cancels of a session overlap, one *)
(* task of it goes on and one run, the last; each run goes on from the one       *)
(* before it, and a session that may be taken up again has no active run.        *)
THEOREM OneRun == Spec => []OneRunPerSession
<1>1. IInv => OneRunPerSession
  <2> SUFFICES ASSUME IInv, NEW s \in Sessions
               PROVE  /\ Cardinality({k \in DOMAIN task[s] :
                                         task[s][k].pc \notin {"over", "dropped"}}) <= 1
                      /\ Cardinality({k \in DOMAIN runs[s] : runs[s][k].state = "active"}) <= 1
                      /\ \A k \in DOMAIN runs[s] : runs[s][k].previous = k - 1
                      /\ status[s] \in {"needs_input", "generated", "hardened", "completed"} =>
                           \A k \in DOMAIN runs[s] : runs[s][k].state # "active"
    BY DEF OneRunPerSession
  <2>1. Whole(status[s], known[s], task[s], runs[s], pub[s])
    BY Untouched
  <2>2. ASSUME NEW S, \A i, j \in S : i = j PROVE Cardinality(S) <= 1
    <3>1. CASE S = {}
      BY <3>1, FS_EmptySet
    <3>2. CASE S # {}
      <4>1. PICK x : x \in S
        BY <3>2
      <4>2. S = {x}
        BY <2>2, <4>1
      <4> QED
        BY <4>2, FS_Singleton
    <3> QED
      BY <3>1, <3>2
  <2>3. \A i, j \in {k \in DOMAIN task[s] : task[s][k].pc \notin {"over", "dropped"}} : i = j
    BY <2>1 DEF Whole, OneTask, Live
  <2>4. \A i, j \in {k \in DOMAIN runs[s] : runs[s][k].state = "active"} : i = j
    BY <2>1 DEF Whole, RunHasTask
  <2>5. \A k \in DOMAIN runs[s] : runs[s][k].previous = k - 1
    BY <2>1 DEF Whole, Chain
  <2>6. ASSUME status[s] \in {"needs_input", "generated", "hardened", "completed"}
        PROVE  \A k \in DOMAIN runs[s] : runs[s][k].state # "active"
    <3>1. status[s] \notin Working \cup Final
      BY <2>6 DEF Working, Final
    <3> QED
      BY <2>1, <3>1, RestsAlone DEF NoneActive
  <2> QED
    BY <2>2, <2>3, <2>4, <2>5, <2>6
<1> QED
  BY <1>1, SessionsInvariant, PTL

(* An imported flow that nobody has begun to delete is cleared by a verification *)
(* that succeeded and by nothing else, and runs in production only then, unless  *)
(* its directory was taken away under the writer or the run.                     *)
THEOREM ImportsWait == Spec => []ImportsAwaitVerification
<1>1. IInv => ImportsAwaitVerification
  BY DEF IInv, FlowInv, DirsSound, Awaits, ExecutionsHold, ImportsAwaitVerification
<1> QED
  BY <1>1, SessionsInvariant, PTL

(* A flow nobody has begun to delete is there whenever no publication is between *)
(* its moves: whichever move fails, what was moved away comes back.              *)
THEOREM FlowIsKept == Spec => []FlowSurvives
<1>1. IInv => FlowSurvives
  BY DEF IInv, FlowInv, FlowHeld, Good, FlowSurvives
<1> QED
  BY <1>1, SessionsInvariant, PTL
=============================================================================
