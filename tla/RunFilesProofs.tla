--------------------------- MODULE RunFilesProofs ---------------------------
(***************************************************************************)
(* Proofs about RunFiles, for any output, limits, files, rules and faults: *)
(* that closed logs are whole, that the bundle of an ended run is final,   *)
(* that a success has the files it had to have, and that an upload leaves  *)
(* nothing behind.                                                         *)
(***************************************************************************)
EXTENDS RunFiles, FiniteSetTheorems, WellFoundedInduction, TLAPS

-----------------------------------------------------------------------------
(* Uploads. *)

Uploading == [pc : {"idle", "receiving", "cleaning"}, error : BOOLEAN, count : Nat]

UploadInv == UploadsLeaveNothing /\ upload \in Uploading /\ faults \in Nat

LEMMA UploadStep == UploadInv /\ [Next]_vars => UploadInv'
<1> SUFFICES ASSUME UploadInv, [Next]_vars PROVE UploadInv'
  OBVIOUS
<1>1. ASSUME UNCHANGED <<upload, temp>>, (faults' = faults) \/ Fault PROVE UploadInv'
  <2>1. faults \in Nat /\ (faults' = faults \/ faults' = faults + 1)
    BY <1>1 DEF UploadInv, Fault
  <2>2. upload' = upload /\ temp' = temp
    BY <1>1
  <2> QED
    BY <2>1, <2>2 DEF UploadInv, UploadsLeaveNothing
<1>2. ASSUME NEW pc \in {"idle", "receiving", "cleaning"}, NEW error \in BOOLEAN, NEW count \in Nat,
             upload' = [pc |-> pc, error |-> error, count |-> count],
             "mine" \in temp' => pc # "idle", faults' \in Nat,
             "left" \in temp' => (faults' > 0 \/ ("left" \in temp /\ faults' = faults))
      PROVE  UploadInv'
  BY <1>2 DEF UploadInv, UploadsLeaveNothing, Uploading
<1>3. CASE Upload
  <2>1. upload \in Uploading /\ faults \in Nat /\ faults' = faults
    BY <1>3 DEF UploadInv, Upload
  <2>2. CASE CreateUploadDirectory
    <3>1. /\ upload' = [pc |-> "receiving", error |-> FALSE, count |-> upload.count + 1]
          /\ temp' = temp \cup {"mine"}
      BY <2>2 DEF CreateUploadDirectory
    <3>2. upload.count + 1 \in Nat
      BY <2>1 DEF Uploading
    <3> QED
      BY <1>2, <2>1, <3>1, <3>2
  <2>3. CASE ReceiveFails
    BY <1>2, <2>1, <2>3 DEF ReceiveFails, Uploading
  <2>4. CASE PrepareUploadedWorkspaceFile
    BY <1>2, <2>1, <2>4 DEF PrepareUploadedWorkspaceFile, Uploading
  <2>5. CASE CleanupUploadPath
    BY <1>2, <2>1, <2>5 DEF CleanupUploadPath, Uploading
  <2> QED
    BY <1>3, <2>2, <2>3, <2>4, <2>5 DEF Upload
<1>4. CASE UploadFails \/ Crash
  <2>1. upload \in Uploading /\ faults \in Nat /\ faults' = faults + 1 /\ faults' > 0
    BY <1>4 DEF UploadInv, UploadFails, Crash, Fault
  <2>2. upload' = [upload EXCEPT !.pc = "idle", !.error = TRUE] /\ "mine" \notin temp'
    BY <1>4 DEF UploadFails, CleanupFails, Crash, RestartUploads
  <2>3. upload' = [pc |-> "idle", error |-> TRUE, count |-> upload.count] /\ upload.count \in Nat
    BY <2>1, <2>2 DEF Uploading
  <2>4. faults' \in Nat
    BY <2>1
  <2> QED
    BY <1>2, <2>1, <2>2, <2>3, <2>4
<1>5. CASE OpenRunLogs \/ UpsertRunLogPaths \/ Spawn
  BY <1>1, <1>5 DEF OpenRunLogs, UpsertRunLogPaths, Spawn, uploadVars
<1>6. ASSUME NEW k \in Kinds, WriteLog(k) \/ \E size \in 1..2 : Output(k, size) PROVE UploadInv'
  BY <1>1, <1>6 DEF WriteLog, Output, uploadVars
<1>7. ASSUME NEW f \in Files, WriteFile(f) PROVE UploadInv'
  BY <1>1, <1>7 DEF WriteFile
<1>8. CASE ChildCloses \/ CancelRun \/ StopRun
  BY <1>1, <1>8 DEF ChildCloses, CancelRun, StopRun, uploadVars
<1>9. CASE ScanArtifacts \/ FinalizeRunArtifacts \/ ArtifactScanFails
  BY <1>1, <1>9 DEF ScanArtifacts, FinalizeRunArtifacts, ArtifactScanFails, uploadVars
<1>10. CASE CloseRunLogHandle \/ LogsClosed \/ CommitTerminal
  BY <1>1, <1>10 DEF CloseRunLogHandle, LogsClosed, CommitTerminal, uploadVars
<1>11. CASE BundleDetail \/ BundleLog \/ BundleRows
  BY <1>1, <1>11 DEF BundleDetail, BundleLog, BundleRows, uploadVars
<1>12. CASE UNCHANGED vars
  BY <1>1, <1>12 DEF vars, uploadVars
<1> QED
  BY <1>2, <1>3, <1>4, <1>5, <1>6, <1>7, <1>8, <1>9, <1>10, <1>11, <1>12 DEF Next

(* Whatever becomes of uploads, one after the other, each temporary directory *)
(* is removed, unless the daemon died or the removal failed.                  *)
THEOREM UploadsAreCleaned == Spec => []UploadsLeaveNothing
<1>1. Init => UploadInv
  BY DEF Init, UploadInit, UploadInv, UploadsLeaveNothing, Uploading
<1>2. UploadInv => UploadsLeaveNothing
  BY DEF UploadInv
<1> QED
  BY <1>1, <1>2, UploadStep, PTL DEF Spec

-----------------------------------------------------------------------------
(* The end of a run and its artifacts. *)

(* Some listed file satisfies each required rule. *)
Shown ==
  \A r \in Required : \E a \in artifacts :
    a.file \in Pattern[r] /\ Priority[a.rule] >= Priority[r]

(* A run is terminal when finishRun is done, and what finishRun goes on with *)
(* as a success has been shown.                                              *)
EndInv ==
  /\ row \in Ended => finish.pc = "done"
  /\ finish.pc \in {"close", "closing", "end"} /\ finish.status = "succeeded" => Shown
  /\ row = "succeeded" => Shown

Listed == [file : Files, rule : Rules]
Finishing == [pc : {"no", "scan", "close", "closing", "end", "done"},
              status : {"running"} \cup Ended, scanned : SUBSET Listed, rules : SUBSET Rules]

ScanInv ==
  /\ finish \in Finishing
  /\ \A a \in finish.scanned : a.file \in Pattern[a.rule]
  /\ IsFiniteSet(disk) /\ IsFiniteSet(finish.scanned) /\ IsFiniteSet(artifacts)
  /\ artifacts \subseteq Listed

FileInv == EndInv /\ ScanInv

(* Of finitely many things one has the greatest value. *)
LEMMA GreatestOfFiniteSet ==
  ASSUME NEW S, IsFiniteSet(S), S # {}, NEW value, \A s \in S : value[s] \in Nat
  PROVE  \E m \in S : \A s \in S : value[s] <= value[m]
<1> DEFINE Above(m) == {s \in S : value[m] < value[s]}
           Family == {Above(m) : m \in S}
<1>1. Family \subseteq FiniteSubsetsOf(S)
  <2> SUFFICES ASSUME NEW m \in S PROVE Above(m) \in FiniteSubsetsOf(S)
    OBVIOUS
  <2>1. Above(m) \in SUBSET S
    OBVIOUS
  <2> QED
    BY <2>1, FS_Subset DEF FiniteSubsetsOf
<1>2. PICK A \in Family : \A B \in Family : <<B, A>> \notin StrictSubsetOrdering(S)
  <2>1. Family # {}
    OBVIOUS
  <2> HIDE DEF Family
  <2> QED
    BY <1>1, <2>1, FS_StrictSubsetOrderingWellFounded, WFMin
<1>3. PICK m \in S : A = Above(m)
  OBVIOUS
<1> SUFFICES ASSUME NEW t \in S, value[m] < value[t] PROVE FALSE
  OBVIOUS
<1>4. Above(t) \subseteq Above(m) /\ t \in Above(m) /\ t \notin Above(t)
  OBVIOUS
<1>5. <<Above(t), Above(m)>> \in StrictSubsetOrdering(S)
  BY <1>4 DEF StrictSubsetOrdering
<1> QED
  BY <1>2, <1>3, <1>5

LEMMA LeastNatural ==
  ASSUME NEW T, T \subseteq Nat, T # {}
  PROVE  \E m \in T : \A n \in T : m <= n
<1>1. PICK m \in T : \A n \in T : <<n, m>> \notin OpToRel(<, Nat)
  BY NatLessThanWellFounded, WFMin
<1>2. \A n \in T : ~(n < m)
  BY <1>1 DEF OpToRel
<1> QED
  BY <1>2

(* Of what has been scanned of a file, one is selected, and it is of no less *)
(* priority than any other.                                                  *)
LEMMA BestIsSelected ==
  ASSUME NEW scanned, scanned \subseteq Listed, IsFiniteSet(scanned), NEW a \in scanned
  PROVE  \E b \in SelectHighestPriorityArtifacts(scanned) :
           b.file = a.file /\ Priority[b.rule] >= Priority[a.rule]
<1> DEFINE S == {b \in scanned : b.file = a.file}
           p == [b \in S |-> Priority[b.rule]]
<1>1. a \in S /\ IsFiniteSet(S)
  <2>1. S \in SUBSET scanned
    OBVIOUS
  <2> QED
    BY <2>1, FS_Subset
<1>2. \A b \in scanned : b.rule \in Nat /\ Priority[b.rule] \in Nat
  BY ArtifactsAssumption DEF Listed
<1>3. PICK m \in S : \A b \in S : p[b] <= p[m]
  <2>1. \A b \in S : p[b] \in Nat
    BY <1>2
  <2> HIDE DEF S, p
  <2> QED
    BY <1>1, <2>1, GreatestOfFiniteSet
<1> DEFINE T == {b \in S : p[b] = p[m]}
           R == {b.rule : b \in T}
<1>4. PICK r \in R : \A q \in R : r <= q
  <2>1. R \subseteq Nat /\ m.rule \in R
    BY <1>2
  <2> HIDE DEF R
  <2> QED
    BY <2>1, LeastNatural
<1>5. PICK b \in T : b.rule = r
  OBVIOUS
<1>6. ASSUME NEW c \in scanned, c.file = b.file
      PROVE  \/ Priority[c.rule] < Priority[b.rule]
             \/ Priority[c.rule] = Priority[b.rule] /\ c.rule >= b.rule
  <2>1. c \in S /\ Priority[c.rule] <= Priority[b.rule]
    BY <1>3, <1>5, <1>6
  <2>2. CASE Priority[c.rule] = Priority[b.rule]
    <3>1. c \in T
      BY <1>5, <2>1, <2>2
    <3> QED
      BY <1>2, <1>4, <1>5, <2>2, <3>1
  <2> QED
    BY <1>2, <2>1, <2>2
<1>7. b \in SelectHighestPriorityArtifacts(scanned)
  BY <1>5, <1>6 DEF SelectHighestPriorityArtifacts
<1>8. b.file = a.file /\ Priority[a.rule] <= Priority[b.rule]
  BY <1>1, <1>3, <1>5
<1> QED
  BY <1>2, <1>7, <1>8

LEMMA MatchesFacts ==
  ASSUME NEW r \in Rules, NEW files, IsFiniteSet(files)
  PROVE  /\ Matches(r, files) \subseteq Listed /\ IsFiniteSet(Matches(r, files))
         /\ \A a \in Matches(r, files) : a.file \in Pattern[a.rule]
<1> DEFINE S == Pattern[r] \cap files
           T == Matches(r, files)
           f == [x \in S |-> [file |-> x, rule |-> r]]
<1>1. Pattern[r] \subseteq Files
  BY ArtifactsAssumption
<1>2. T \subseteq Listed /\ \A a \in T : a.file \in Pattern[a.rule]
  BY <1>1 DEF Matches, Listed
<1>3. S \in SUBSET files
  OBVIOUS
<1>4. IsFiniteSet(S)
  BY <1>3, FS_Subset
<1>5. f \in Surjection(S, T)
  BY DEF Matches, Surjection
<1> HIDE DEF S, T, f
<1>6. IsFiniteSet(T)
  BY <1>4, <1>5, FS_Surjection
<1> QED
  BY <1>2, <1>6 DEF T

(* finishRun begins, unless it has begun. *)
LEMMA FinishFacts ==
  ASSUME FileInv, NEW status \in Ended, NEW finalize \in BOOLEAN, Finish(status, finalize),
         status = "succeeded" => finalize, UNCHANGED <<row, artifacts, disk>>
  PROVE  FileInv'
<1>1. CASE finish.pc # "no"
  BY <1>1 DEF FileInv, EndInv, ScanInv, Finish, Shown
<1>2. CASE finish.pc = "no"
  <2>1. finish' = [finish EXCEPT !.status = status, !.pc = IF finalize THEN "scan" ELSE "close"]
    BY <1>2 DEF Finish
  <2>2. /\ finish' \in Finishing /\ finish'.status = status /\ finish'.scanned = finish.scanned
        /\ finalize => finish'.pc = "scan"
        /\ ~finalize => finish'.pc = "close"
    BY <2>1 DEF FileInv, ScanInv, Finishing
  <2>3. EndInv'
    BY <1>2, <2>2 DEF FileInv, EndInv, Shown
  <2> QED
    BY <2>2, <2>3 DEF FileInv, ScanInv
<1> QED
  BY <1>1, <1>2

(* finishRun goes on to another step. *)
LEMMA FinishGoesOn ==
  ASSUME FileInv, NEW pc \in {"closing", "end", "done"}, finish' = [finish EXCEPT !.pc = pc],
         finish.pc \in {"close", "closing", "end"},
         (pc = "done" /\ row' = finish.status) \/ (pc # "done" /\ row' = row),
         UNCHANGED <<artifacts, disk>>
  PROVE  FileInv'
<1>1. /\ finish' \in Finishing /\ finish'.pc = pc /\ finish'.status = finish.status
      /\ finish'.scanned = finish.scanned
  BY DEF FileInv, ScanInv, Finishing
<1>2. EndInv'
  BY <1>1 DEF FileInv, EndInv, Shown
<1> QED
  BY <1>1, <1>2 DEF FileInv, ScanInv

LEMMA Scans == ASSUME FileInv, ScanArtifacts PROVE FileInv'
<1> DEFINE rule == CHOOSE r \in finish.rules : \A q \in finish.rules : r <= q
<1>1. rule \in Rules
  <2>1. finish.rules \subseteq Rules /\ finish.rules # {} /\ finish.rules \subseteq Nat
    BY ArtifactsAssumption DEF FileInv, ScanInv, Finishing, ScanArtifacts
  <2>2. \E r \in finish.rules : \A q \in finish.rules : r <= q
    BY <2>1, LeastNatural
  <2> QED
    BY <2>1, <2>2
<1>2. /\ finish' = [finish EXCEPT !.rules = @ \ {rule}, !.scanned = @ \cup Matches(rule, disk)]
      /\ finish.pc = "scan" /\ UNCHANGED <<row, artifacts, disk>>
  BY DEF ScanArtifacts, uploadVars
<1> HIDE DEF rule
<1>3. /\ Matches(rule, disk) \subseteq Listed /\ IsFiniteSet(Matches(rule, disk))
      /\ \A a \in Matches(rule, disk) : a.file \in Pattern[a.rule]
  BY <1>1, MatchesFacts DEF FileInv, ScanInv
<1>4. /\ finish' \in Finishing /\ finish'.pc = "scan"
      /\ finish'.scanned = finish.scanned \cup Matches(rule, disk)
  <2>1. finish.scanned \cup Matches(rule, disk) \in SUBSET Listed
    BY <1>3 DEF FileInv, ScanInv, Finishing
  <2> QED
    BY <1>2, <2>1 DEF FileInv, ScanInv, Finishing
<1>5. IsFiniteSet(finish.scanned \cup Matches(rule, disk))
  BY <1>3, FS_Union DEF FileInv, ScanInv
<1>6. EndInv'
  BY <1>2, <1>4 DEF FileInv, EndInv, Shown
<1> QED
  BY <1>2, <1>3, <1>4, <1>5, <1>6 DEF FileInv, ScanInv

LEMMA Finalizes == ASSUME FileInv, FinalizeRunArtifacts PROVE FileInv'
<1> DEFINE missing == MissingRequired(finish.scanned)
           status == IF finish.status = "succeeded" /\ missing # {} THEN "failed" ELSE finish.status
<1>1. /\ finish' = [finish EXCEPT !.pc = "close", !.status = status]
      /\ artifacts' = SelectHighestPriorityArtifacts(finish.scanned)
      /\ finish.pc = "scan" /\ UNCHANGED <<row, disk>>
  BY DEF FinalizeRunArtifacts, ReplaceArtifactsForRun, uploadVars
<1>2. finish \in Finishing /\ finish.scanned \subseteq Listed /\ IsFiniteSet(finish.scanned)
  BY DEF FileInv, ScanInv, Finishing
<1>3. status \in {"running"} \cup Ended /\ (status = "succeeded" => missing = {})
  BY <1>2 DEF Finishing, Ended
<1> HIDE DEF status
<1>4. /\ finish' \in Finishing /\ finish'.pc = "close" /\ finish'.status = status
      /\ finish'.scanned = finish.scanned
  BY <1>1, <1>2, <1>3 DEF Finishing
<1>5. ASSUME missing = {} PROVE Shown'
  <2> SUFFICES ASSUME NEW r \in Required
               PROVE  \E b \in artifacts' : b.file \in Pattern[r] /\ Priority[b.rule] >= Priority[r]
    BY DEF Shown
  <2>1. PICK a \in finish.scanned : a.rule = r
    BY <1>5 DEF MissingRequired
  <2>2. PICK b \in artifacts' : b.file = a.file /\ Priority[b.rule] >= Priority[a.rule]
    BY <1>1, <1>2, BestIsSelected
  <2>3. a.file \in Pattern[r]
    BY <2>1 DEF FileInv, ScanInv
  <2> QED
    BY <2>1, <2>2, <2>3
<1>6. EndInv'
  BY <1>1, <1>3, <1>4, <1>5 DEF FileInv, EndInv, Ended
<1>7. IsFiniteSet(artifacts') /\ artifacts' \subseteq Listed
  <2>1. artifacts' \in SUBSET finish.scanned
    BY <1>1 DEF SelectHighestPriorityArtifacts
  <2> QED
    BY <1>2, <2>1, FS_Subset
<1> QED
  BY <1>1, <1>4, <1>6, <1>7 DEF FileInv, ScanInv

LEMMA FileStep == FileInv /\ [Next]_vars => FileInv'
<1> SUFFICES ASSUME FileInv, [Next]_vars PROVE FileInv'
  OBVIOUS
<1>1. ASSUME UNCHANGED <<finish, row, artifacts>>,
             disk' = disk \/ \E f \in Files : disk' = disk \cup {f}
      PROVE  FileInv'
  <2>1. IsFiniteSet(disk')
    BY <1>1, FS_AddElement DEF FileInv, ScanInv
  <2> QED
    BY <1>1, <2>1 DEF FileInv, EndInv, ScanInv, Shown
<1>2. CASE Upload \/ UploadFails
  BY <1>1, <1>2 DEF Upload, UploadFails, CreateUploadDirectory, ReceiveFails, CleanupFails,
                    PrepareUploadedWorkspaceFile, CopyFileIntoWorkspace, CleanupUploadPath
<1>3. CASE Crash
  <2>1. /\ finish' = [finish EXCEPT !.pc = "done"] /\ row' = "interrupted"
        /\ UNCHANGED <<artifacts, disk>>
    BY <1>3 DEF Crash, RestartUploads
  <2>2. finish' \in Finishing /\ finish'.pc = "done" /\ finish'.scanned = finish.scanned
    BY <2>1 DEF FileInv, ScanInv, Finishing
  <2> QED
    BY <2>1, <2>2 DEF FileInv, EndInv, ScanInv, Shown
<1>4. CASE OpenRunLogs \/ UpsertRunLogPaths \/ Spawn
  BY <1>1, <1>4 DEF OpenRunLogs, UpsertRunLogPaths, Spawn, uploadVars
<1>5. ASSUME NEW k \in Kinds, WriteLog(k) \/ \E size \in 1..2 : Output(k, size) PROVE FileInv'
  BY <1>1, <1>5 DEF WriteLog, Output, uploadVars
<1>6. ASSUME NEW f \in Files, WriteFile(f) PROVE FileInv'
  BY <1>1, <1>6 DEF WriteFile
<1>7. CASE ChildCloses
  <2>1. UNCHANGED <<row, artifacts, disk>>
    BY <1>7 DEF ChildCloses, uploadVars
  <2>2. CASE Finish("canceled", FALSE)
    BY <2>1, <2>2, FinishFacts DEF Ended
  <2>3. CASE \E status \in {"succeeded", "failed"} : Finish(status, TRUE)
    BY <2>1, <2>3, FinishFacts DEF Ended
  <2> QED
    BY <1>7, <2>2, <2>3 DEF ChildCloses
<1>8. CASE CancelRun
  <2>1. UNCHANGED <<row, artifacts, disk>> /\ (Finish("canceled", FALSE) \/ UNCHANGED finish)
    BY <1>8 DEF CancelRun, uploadVars
  <2> QED
    BY <1>1, <2>1, FinishFacts DEF Ended
<1>9. CASE StopRun
  <2>1. /\ UNCHANGED <<row, artifacts, disk>>
        /\ \E status \in {"failed", "interrupted"} : Finish(status, FALSE)
    BY <1>9 DEF StopRun, uploadVars
  <2> QED
    BY <2>1, FinishFacts DEF Ended
<1>10. CASE ArtifactScanFails
  <2>1. /\ finish' = [finish EXCEPT !.pc = "close", !.status = "failed"]
        /\ UNCHANGED <<row, artifacts, disk>> /\ finish.pc = "scan"
    BY <1>10 DEF ArtifactScanFails, uploadVars
  <2>2. /\ finish' \in Finishing /\ finish'.pc = "close" /\ finish'.status = "failed"
        /\ finish'.scanned = finish.scanned
    BY <2>1 DEF FileInv, ScanInv, Finishing, Ended
  <2> QED
    BY <2>1, <2>2 DEF FileInv, EndInv, ScanInv, Shown
<1>11. CASE CloseRunLogHandle
  <2>1. /\ finish' = [finish EXCEPT !.pc = IF handle THEN "closing" ELSE "end"]
        /\ finish.pc = "close" /\ UNCHANGED <<row, artifacts, disk>>
    BY <1>11 DEF CloseRunLogHandle, uploadVars
  <2> QED
    BY <2>1, FinishGoesOn
<1>12. CASE LogsClosed
  <2>1. /\ finish' = [finish EXCEPT !.pc = "end"]
        /\ finish.pc = "closing" /\ UNCHANGED <<row, artifacts, disk>>
    BY <1>12 DEF LogsClosed, uploadVars
  <2> QED
    BY <2>1, FinishGoesOn
<1>13. CASE CommitTerminal
  <2>1. /\ finish' = [finish EXCEPT !.pc = "done"] /\ row' = finish.status
        /\ finish.pc = "end" /\ UNCHANGED <<artifacts, disk>>
    BY <1>13 DEF CommitTerminal, uploadVars
  <2> QED
    BY <2>1, FinishGoesOn
<1>14. CASE BundleDetail \/ BundleLog \/ BundleRows
  BY <1>1, <1>14 DEF BundleDetail, BundleLog, BundleRows, uploadVars
<1>15. CASE UNCHANGED vars
  BY <1>1, <1>15 DEF vars, uploadVars
<1> QED
  BY <1>2, <1>3, <1>4, <1>5, <1>6, <1>7, <1>8, <1>9, <1>10, <1>11, <1>12, <1>13, <1>14, <1>15,
     Scans, Finalizes DEF Next

LEMMA FilesHold == Spec => []FileInv
<1>1. Init => FileInv
  <2> SUFFICES ASSUME Init PROVE FileInv
    OBVIOUS
  <2>1. /\ finish = [pc |-> "no", status |-> "running", scanned |-> {}, rules |-> Rules]
        /\ row = "running" /\ artifacts = {} /\ disk = {}
    BY DEF Init, UploadInit
  <2>2. finish \in Finishing /\ finish.pc = "no" /\ finish.scanned = {}
    BY <2>1 DEF Finishing
  <2> QED
    BY <2>1, <2>2, FS_EmptySet DEF FileInv, EndInv, ScanInv, Ended
<1> QED
  BY <1>1, FileStep, PTL DEF Spec

(* A run that is stored as succeeded lists a file for each rule it had to    *)
(* satisfy: of the rules that match one file the selection keeps one that no *)
(* other outranks, and nothing replaces the artifacts after it.              *)
THEOREM SuccessHasFiles == Spec => []SuccessShowsTheRequired
<1>1. FileInv => SuccessShowsTheRequired
  BY DEF FileInv, EndInv, Shown, SuccessShowsTheRequired
<1> QED
  BY <1>1, FilesHold, PTL

-----------------------------------------------------------------------------
(* The writers. *)

Begins(s, t) == Len(s) <= Len(t) /\ \A i \in 1..Len(s) : s[i] = t[i]

(* Bytes are known by their place: those of an output count from one, those *)
(* of a chunk from its first.                                               *)
Numbered(s) == \A i \in 1..Len(s) : s[i] = i
Chunk(c) == /\ c \in Seq(Nat) /\ Len(c) > 0 /\ c[1] > 0
            /\ \A i \in 1..Len(c) : c[i] = c[1] + i - 1
LastOf(c) == c[1] + Len(c) - 1

Writer == [file : Seq(Nat), bytes : Nat, truncated : BOOLEAN, failed : BOOLEAN,
           queue : Seq(Seq(Nat)), queued : Nat, done : Nat]

(* A file has no more than its limit, and then the marker. *)
Within(w) ==
  /\ w \in Writer
  /\ w.bytes <= MaxLogBytes
  /\ Len(w.file) = w.bytes + (IF w.truncated THEN 1 ELSE 0)
  /\ \A i \in 1..w.bytes : w.file[i] > 0
  /\ w.truncated => w.bytes = MaxLogBytes /\ w.file[w.bytes + 1] = Marker
  /\ \A j \in 1..Len(w.queue) : Chunk(w.queue[j])

(* What is queued goes on from byte b to byte n. *)
Continues(queue, b, n) ==
  /\ queue = <<>> => b = n
  /\ queue # <<>> => queue[1][1] = b + 1 /\ LastOf(queue[Len(queue)]) = n
  /\ \A j \in 1..(Len(queue) - 1) : queue[j + 1][1] = LastOf(queue[j]) + 1

(* Without a failure the file has the output from its beginning, and the *)
(* queue the rest of it, up to byte n.                                    *)
InOrder(w, n) ==
  /\ w.queued = w.done + Len(w.queue)
  /\ ~w.failed => \A i \in 1..w.bytes : w.file[i] = i
  /\ ~w.failed /\ ~w.truncated => Continues(w.queue, w.bytes, n)

(* The operation numbered q writes byte m, where b are written by done operations. *)
Carries(queue, done, b, q, m) ==
  IF q <= done THEN m <= b ELSE q - done <= Len(queue) /\ LastOf(queue[q - done]) = m

Passes(w, q, m) == ~w.failed /\ ~w.truncated => Carries(w.queue, w.done, w.bytes, q, m)

NotSpawned == start \in {"opening", "storing", "opened"}
Closings == [queued : Nat, output : Seq(Nat)]

LogTyped ==
  /\ output \in [Kinds -> Seq(Nat)] /\ \A k \in Kinds : Numbered(output[k])
  /\ closing \in [Kinds -> Closings] /\ \A k \in Kinds : Numbered(closing[k].output)
  /\ writer \in [Kinds -> Writer] /\ \A k \in Kinds : Within(writer[k])
  /\ handle \in BOOLEAN /\ sink \in BOOLEAN /\ stored \in BOOLEAN

(* Where startRun is, and whether the writers get what the child puts out. *)
SinkInv ==
  /\ NotSpawned =>
       child = "none" /\ ~sink /\ \A k \in Kinds : output[k] = <<>> /\ writer[k] = NewWriter
  /\ start \in {"opening", "storing"} => ~handle
  /\ start \in {"opening", "storing", "opened", "spawned", "returned"}
  /\ start = "returned" => finish.pc = "done"
  /\ start = "spawned" /\ handle => sink
  /\ handle => stored
  /\ sink => \A k \in Kinds : InOrder(writer[k], Len(output[k]))
  /\ ~sink => \A k \in Kinds : writer[k].queue = <<>>

CloseInv ==
  /\ finish.pc \in {"no", "scan", "close", "closing"} => closed = "no"
  /\ finish.pc = "closing" =>
       /\ handle
       /\ sink => \A k \in Kinds :
            Passes(writer[k], closing[k].queued, Len(closing[k].output))
       /\ ~sink => \A k \in Kinds : closing[k] = [queued |-> 0, output |-> <<>>]
  /\ closed = "whole" =>
       stored /\ \A k \in Kinds : Begins(Bounded(closing[k].output), writer[k].file)

LogInv == LogTyped /\ SinkInv /\ CloseInv

-----------------------------------------------------------------------------
(* The writers, one operation at a time. *)

LEMMA AppendFacts ==
  ASSUME NEW S, NEW q \in Seq(S), NEW c \in S
  PROVE  /\ Append(q, c) \in Seq(S) /\ Append(q, c) # <<>>
         /\ Len(q) \in Nat /\ Len(Append(q, c)) = Len(q) + 1
         /\ \A i \in 1..Len(q) : Append(q, c)[i] = q[i]
         /\ Append(q, c)[Len(q) + 1] = c
OBVIOUS

LEMMA TailFacts ==
  ASSUME NEW S, NEW q \in Seq(S), q # <<>>
  PROVE  /\ Tail(q) \in Seq(S) /\ Head(q) = q[1] /\ q[1] \in S
         /\ Len(q) \in Nat \ {0} /\ Len(Tail(q)) = Len(q) - 1
         /\ \A i \in 1..(Len(q) - 1) : Tail(q)[i] = q[i + 1]
         /\ (Tail(q) = <<>>) <=> (Len(q) = 1)
<1>1. /\ Tail(q) \in Seq(S) /\ Head(q) = q[1] /\ q[1] \in S
      /\ Len(q) \in Nat \ {0} /\ Len(Tail(q)) = Len(q) - 1
      /\ \A i \in 1..(Len(q) - 1) : Tail(q)[i] = q[i + 1]
  OBVIOUS
<1>2. (Tail(q) = <<>>) <=> (Len(Tail(q)) = 0)
  BY <1>1
<1> QED
  BY <1>1, <1>2

LEMMA ConcatFacts ==
  ASSUME NEW s \in Seq(Nat), NEW t \in Seq(Nat)
  PROVE  /\ s \o t \in Seq(Nat) /\ Len(s) \in Nat /\ Len(t) \in Nat
         /\ Len(s \o t) = Len(s) + Len(t)
         /\ \A i \in 1..Len(s) : (s \o t)[i] = s[i]
         /\ \A i \in 1..Len(t) : (s \o t)[Len(s) + i] = t[i]
         /\ \A i \in (Len(s) + 1)..(Len(s) + Len(t)) : (s \o t)[i] = t[i - Len(s)]
OBVIOUS

LEMMA ChunkFacts ==
  ASSUME NEW c, Chunk(c)
  PROVE  /\ c \in Seq(Nat) /\ Len(c) \in Nat \ {0} /\ c[1] \in Nat \ {0}
         /\ \A i \in 1..Len(c) : c[i] = c[1] + i - 1 /\ c[i] > 0
         /\ LastOf(c) = c[1] + Len(c) - 1
<1>1. c \in Seq(Nat) /\ Len(c) \in Nat \ {0} /\ c[1] \in Nat \ {0}
  BY DEF Chunk
<1>2. \A i \in 1..Len(c) : c[i] = c[1] + i - 1
  BY DEF Chunk
<1> QED
  BY <1>1, <1>2 DEF LastOf

(* A file that a part of a chunk is added to. *)
LEMMA FileGrows ==
  ASSUME NEW file \in Seq(Nat), NEW b \in Nat, Len(file) = b, NEW c, Chunk(c), NEW size \in 0..Len(c)
  PROVE  LET g == file \o SubSeq(c, 1, size) IN
         /\ g \in Seq(Nat) /\ Len(g) = b + size /\ Begins(file, g)
         /\ (\A i \in 1..b : file[i] > 0) => \A i \in 1..(b + size) : g[i] > 0
         /\ (\A i \in 1..b : file[i] = i) /\ c[1] = b + 1 => \A i \in 1..(b + size) : g[i] = i
<1> DEFINE kept == SubSeq(c, 1, size)
           g == file \o kept
<1>1. /\ c \in Seq(Nat) /\ c[1] \in Nat /\ c[1] > 0 /\ size \in Nat
      /\ \A i \in 1..Len(c) : c[i] = c[1] + i - 1
  BY ChunkFacts
<1>2. kept \in Seq(Nat) /\ Len(kept) = size /\ \A i \in 1..size : kept[i] = c[i]
  BY <1>1
<1> HIDE DEF kept
<1>3. /\ g \in Seq(Nat) /\ Len(g) = Len(file) + Len(kept)
      /\ \A i \in 1..Len(file) : g[i] = file[i]
      /\ \A i \in (Len(file) + 1)..(Len(file) + Len(kept)) : g[i] = kept[i - Len(file)]
  BY <1>2, ConcatFacts
<1> HIDE DEF g
<1>4. PICK l \in Nat : l = Len(c)
  BY <1>1
<1>5. size <= l
  BY <1>1, <1>4
<1>6. /\ Len(g) = b + size /\ \A i \in 1..b : g[i] = file[i]
      /\ \A i \in (b + 1)..(b + size) : g[i] = kept[i - b]
  BY <1>2, <1>3
<1>7. ASSUME NEW i \in (b + 1)..(b + size) PROVE g[i] = c[1] + (i - b) - 1 /\ i \in Int
  <2>1. i - b \in 1..size /\ i - b \in 1..l /\ i \in Int
    BY <1>1, <1>5
  <2>2. g[i] = kept[i - b] /\ kept[i - b] = c[i - b]
    BY <1>2, <1>6, <2>1
  <2> QED
    BY <1>1, <1>4, <2>1, <2>2
<1>8. ASSUME NEW i \in 1..(b + size), i \notin (b + 1)..(b + size) PROVE i \in 1..b
  BY <1>1, <1>8
<1>9. ASSUME \A i \in 1..b : file[i] > 0, NEW i \in 1..(b + size) PROVE g[i] > 0
  <2>1. CASE i \in (b + 1)..(b + size)
    <3>1. g[i] = c[1] + (i - b) - 1 /\ i \in Int /\ i > b
      BY <1>1, <1>7, <2>1
    <3> QED
      BY <1>1, <3>1
  <2> QED
    BY <1>6, <1>8, <1>9, <2>1
<1>10. ASSUME \A i \in 1..b : file[i] = i, c[1] = b + 1, NEW i \in 1..(b + size) PROVE g[i] = i
  <2>1. CASE i \in (b + 1)..(b + size)
    <3>1. g[i] = b + 1 + (i - b) - 1 /\ i \in Int
      BY <1>7, <1>10, <2>1
    <3> QED
      BY <3>1
  <2> QED
    BY <1>6, <1>8, <1>10, <2>1
<1>11. Begins(file, g)
  <2>1. b <= b + size
    BY <1>1
  <2> QED
    BY <1>6, <2>1 DEF Begins
<1> QED
  BY <1>3, <1>6, <1>9, <1>10, <1>11 DEF g, kept

LEMMA WholeChunk == ASSUME NEW c, Chunk(c) PROVE SubSeq(c, 1, Len(c)) = c
BY DEF Chunk

(* The queue after its head is served. *)
LEMMA QueueServed ==
  ASSUME NEW queue \in Seq(Seq(Nat)), queue # <<>>, \A j \in 1..Len(queue) : Chunk(queue[j])
  PROVE  /\ Tail(queue) \in Seq(Seq(Nat)) /\ Head(queue) = queue[1] /\ Chunk(queue[1])
         /\ \A j \in 1..Len(Tail(queue)) : Chunk(Tail(queue)[j])
         /\ \A q, d \in Nat : q = d + Len(queue) => q = d + 1 + Len(Tail(queue))
         /\ \A b, n \in Nat : Continues(queue, b, n) =>
              /\ queue[1][1] = b + 1
              /\ Continues(Tail(queue), b + Len(queue[1]), n)
         /\ \A b, n, d, q, m \in Nat :
              Continues(queue, b, n) /\ Carries(queue, d, b, q, m)
                => Carries(Tail(queue), d + 1, b + Len(queue[1]), q, m)
<1>1. PICK len \in Nat \ {0} : len = Len(queue)
  BY TailFacts
<1> DEFINE rest == Tail(queue)
<1>2. /\ rest \in Seq(Seq(Nat)) /\ Head(queue) = queue[1] /\ Len(rest) = len - 1
      /\ \A i \in 1..(len - 1) : rest[i] = queue[i + 1]
      /\ (rest = <<>>) <=> (len = 1)
  BY <1>1, TailFacts
<1> HIDE DEF rest
<1>3. Chunk(queue[1])
  BY <1>1
<1>4. ASSUME NEW j \in 1..Len(rest) PROVE Chunk(rest[j])
  <2>1. j \in 1..(len - 1) /\ j + 1 \in 1..len
    BY <1>2
  <2> QED
    BY <1>1, <1>2, <2>1
<1>5. ASSUME NEW q \in Nat, NEW d \in Nat, q = d + Len(queue) PROVE q = d + 1 + Len(rest)
  BY <1>1, <1>2, <1>5
<1>6. PICK size \in Nat \ {0} : size = Len(queue[1]) /\ LastOf(queue[1]) = queue[1][1] + size - 1
  BY <1>3, ChunkFacts
<1>7. ASSUME NEW b \in Nat, NEW n \in Nat, Continues(queue, b, n)
      PROVE  queue[1][1] = b + 1 /\ LastOf(queue[1]) = b + size /\ Continues(rest, b + size, n)
  <2>1. /\ queue[1][1] = b + 1 /\ LastOf(queue[len]) = n
        /\ \A j \in 1..(len - 1) : queue[j + 1][1] = LastOf(queue[j]) + 1
    <3>1. queue # <<>>
      OBVIOUS
    <3> QED
      BY <1>1, <1>7, <3>1 DEF Continues
  <2>2. LastOf(queue[1]) = b + size
    <3>1. queue[1][1] = b + 1 /\ LastOf(queue[1]) = queue[1][1] + size - 1
      BY <1>6, <2>1
    <3> HIDE <1>6
    <3> QED
      BY <3>1
  <2>3. ASSUME rest = <<>> PROVE b + size = n
    BY <1>2, <2>1, <2>2, <2>3
  <2>4. ASSUME rest # <<>> PROVE rest[1][1] = b + size + 1 /\ LastOf(rest[Len(rest)]) = n
    <3>1. 1 \in 1..(len - 1) /\ 1 + 1 = 2 /\ len - 1 \in 1..(len - 1) /\ (len - 1) + 1 = len
      BY <1>2, <2>4
    <3>2. rest[1] = queue[2] /\ rest[len - 1] = queue[len] /\ queue[2][1] = LastOf(queue[1]) + 1
      BY <1>2, <2>1, <3>1
    <3> QED
      BY <1>2, <2>1, <2>2, <3>2
  <2>5. ASSUME NEW j \in 1..(Len(rest) - 1) PROVE rest[j + 1][1] = LastOf(rest[j]) + 1
    <3>1. j \in 1..(len - 1) /\ j + 1 \in 1..(len - 1)
      BY <1>2
    <3>2. rest[j] = queue[j + 1] /\ rest[j + 1] = queue[j + 1 + 1]
      BY <1>2, <3>1
    <3> QED
      BY <2>1, <3>1, <3>2
  <2> QED
    BY <2>1, <2>2, <2>3, <2>4, <2>5 DEF Continues
<1>8. ASSUME NEW b \in Nat, NEW n \in Nat, NEW d \in Nat, NEW q \in Nat, NEW m \in Nat,
             Continues(queue, b, n), Carries(queue, d, b, q, m)
      PROVE  Carries(rest, d + 1, b + size, q, m)
  <2>1. IF q <= d THEN m <= b ELSE q - d <= len /\ LastOf(queue[q - d]) = m
    BY <1>1, <1>8 DEF Carries
  <2>2. CASE q <= d
    BY <2>1, <2>2 DEF Carries
  <2>3. CASE q = d + 1
    <3>1. q - d = 1 /\ ~(q <= d)
      BY <2>3
    <3>2. m = b + size
      BY <1>7, <1>8, <2>1, <3>1
    <3> QED
      BY <2>3, <3>2 DEF Carries
  <2>4. CASE q > d + 1
    <3>1. ~(q <= d) /\ ~(q <= d + 1)
      BY <2>4
    <3>2. q - (d + 1) \in 1..(len - 1) /\ q - (d + 1) + 1 = q - d /\ q - (d + 1) <= len - 1
      BY <2>1, <2>4, <3>1
    <3>3. rest[q - (d + 1)] = queue[q - d]
      BY <1>2, <3>2
    <3> QED
      BY <1>2, <2>1, <3>1, <3>2, <3>3 DEF Carries
  <2> QED
    BY <2>2, <2>3, <2>4
<1> QED
  BY <1>2, <1>3, <1>4, <1>5, <1>6, <1>7, <1>8 DEF rest

(* The queue after a chunk that goes on where it ends. *)
LEMMA QueueGrows ==
  ASSUME NEW queue \in Seq(Seq(Nat)), \A j \in 1..Len(queue) : Chunk(queue[j]),
         NEW n \in Nat, NEW c, Chunk(c), c[1] = n + 1
  PROVE  /\ Append(queue, c) \in Seq(Seq(Nat))
         /\ \A j \in 1..Len(Append(queue, c)) : Chunk(Append(queue, c)[j])
         /\ \A q, d \in Nat : q = d + Len(queue) => q + 1 = d + Len(Append(queue, c))
         /\ \A b \in Nat : Continues(queue, b, n) => Continues(Append(queue, c), b, n + Len(c))
         /\ \A b, d, q, m \in Nat : Carries(queue, d, b, q, m) => Carries(Append(queue, c), d, b, q, m)
<1>1. PICK len \in Nat : len = Len(queue) /\ ((queue = <<>>) <=> (len = 0))
  OBVIOUS
<1> DEFINE more == Append(queue, c)
<1>2. /\ more \in Seq(Seq(Nat)) /\ more # <<>> /\ Len(more) = len + 1
      /\ \A i \in 1..len : more[i] = queue[i]
      /\ more[len + 1] = c
  <2> DEFINE S == Seq(Nat)
  <2>1. queue \in Seq(S) /\ c \in S
    BY ChunkFacts
  <2> HIDE DEF S
  <2>2. /\ more \in Seq(S) /\ more # <<>> /\ Len(more) = Len(queue) + 1
        /\ \A i \in 1..Len(queue) : more[i] = queue[i]
        /\ more[Len(queue) + 1] = c
    BY <2>1, AppendFacts
  <2> QED
    BY <1>1, <2>2 DEF S
<1> HIDE DEF more
<1>3. ASSUME NEW j \in 1..Len(more) PROVE Chunk(more[j])
  <2>1. j \in 1..len \/ j = len + 1
    BY <1>2
  <2> QED
    BY <1>1, <1>2, <2>1
<1>4. ASSUME NEW q \in Nat, NEW d \in Nat, q = d + Len(queue) PROVE q + 1 = d + Len(more)
  BY <1>1, <1>2, <1>4
<1>5. PICK size \in Nat : size = Len(c) /\ LastOf(c) = n + size
  <2>1. Len(c) \in Nat /\ LastOf(c) = n + 1 + Len(c) - 1
    BY ChunkFacts
  <2> QED
    BY <2>1, SMTT(30)
<1>6. ASSUME NEW b \in Nat, Continues(queue, b, n) PROVE Continues(more, b, n + size)
  <2>1. /\ queue = <<>> => b = n
        /\ queue # <<>> => queue[1][1] = b + 1 /\ LastOf(queue[len]) = n
        /\ \A j \in 1..(len - 1) : queue[j + 1][1] = LastOf(queue[j]) + 1
    BY <1>1, <1>6 DEF Continues
  <2>2. more[1][1] = b + 1
    <3>1. CASE len = 0
      BY <1>1, <1>2, <2>1, <3>1
    <3>2. CASE len # 0
      <4>1. 1 \in 1..len
        BY <3>2
      <4> QED
        BY <1>1, <1>2, <2>1, <3>2, <4>1
    <3> QED
      BY <3>1, <3>2
  <2>3. LastOf(more[Len(more)]) = n + size
    BY <1>2, <1>5
  <2>4. ASSUME NEW j \in 1..(Len(more) - 1) PROVE more[j + 1][1] = LastOf(more[j]) + 1
    <3>1. j \in 1..len
      BY <1>2
    <3>2. CASE j = len
      <4>1. queue # <<>> /\ more[j] = queue[len] /\ more[j + 1] = c
        BY <1>1, <1>2, <3>1, <3>2
      <4> QED
        BY <2>1, <4>1
    <3>3. CASE j # len
      <4>1. j \in 1..(len - 1) /\ j + 1 \in 1..len
        BY <3>1, <3>3
      <4> QED
        BY <1>2, <2>1, <3>1, <4>1
    <3> QED
      BY <3>2, <3>3
  <2> QED
    BY <1>2, <2>2, <2>3, <2>4 DEF Continues
<1>7. ASSUME NEW b \in Nat, NEW d \in Nat, NEW q \in Nat, NEW m \in Nat, Carries(queue, d, b, q, m)
      PROVE  Carries(more, d, b, q, m)
  <2>1. IF q <= d THEN m <= b ELSE q - d <= len /\ LastOf(queue[q - d]) = m
    BY <1>1, <1>7 DEF Carries
  <2>2. CASE q > d
    <3>1. q - d \in 1..len /\ q - d <= len + 1 /\ ~(q <= d)
      BY <2>1, <2>2
    <3> QED
      BY <1>2, <2>1, <3>1 DEF Carries
  <2>3. CASE q <= d
    BY <2>1, <2>3 DEF Carries
  <2> QED
    BY <2>2, <2>3
<1> QED
  BY <1>2, <1>3, <1>4, <1>5, <1>6, <1>7 DEF more

(* A writer by its fields. *)
Made(file, bytes, truncated, failed, queue, queued, done) ==
  [file |-> file, bytes |-> bytes, truncated |-> truncated, failed |-> failed,
   queue |-> queue, queued |-> queued, done |-> done]

LEMMA WriterIsMade ==
  ASSUME NEW w \in Writer
  PROVE  \E file, b, t, f, q, u, d :
           /\ w = Made(file, b, t, f, q, u, d)
           /\ w.file = file /\ w.bytes = b /\ w.truncated = t /\ w.failed = f
           /\ w.queue = q /\ w.queued = u /\ w.done = d
<1>1. w = Made(w.file, w.bytes, w.truncated, w.failed, w.queue, w.queued, w.done)
  BY DEF Made, Writer
<1> QED
  BY <1>1

LEMMA AppendMade ==
  ASSUME NEW w, NEW file, NEW b, NEW t, NEW f, NEW q, NEW u, NEW d, NEW c,
         w = Made(file, b, t, f, q, u, d), ~t
  PROVE  AppendChunk(w, c) = Made(file, b, t, f, Append(q, c), u + 1, d)
<1>1. [w EXCEPT !.queue = Append(q, c)] = Made(file, b, t, f, Append(q, c), u, d)
  BY DEF Made
<1>2. [Made(file, b, t, f, Append(q, c), u, d) EXCEPT !.queued = u + 1]
        = Made(file, b, t, f, Append(q, c), u + 1, d)
  BY DEF Made
<1>3. w.queue = q /\ w.queued = u /\ ~w.truncated
  BY DEF Made
<1>4. AppendChunk(w, c) = [[w EXCEPT !.queue = Append(q, c)] EXCEPT !.queued = u + 1]
  BY <1>3 DEF AppendChunk
<1> QED
  BY <1>1, <1>2, <1>4

LEMMA ServeMade ==
  ASSUME NEW w, NEW file, NEW b, NEW t, NEW f, NEW q, NEW u, NEW d,
         w = Made(file, b, t, f, q, u, d)
  PROVE  Served(w) = Made(file, b, t, f, Tail(q), u, d + 1)
<1>1. PICK r, e : r = Tail(q) /\ e = d + 1
  OBVIOUS
<1>2. [w EXCEPT !.queue = r] = Made(file, b, t, f, r, u, d)
  BY DEF Made
<1>3. [Made(file, b, t, f, r, u, d) EXCEPT !.done = e] = Made(file, b, t, f, r, u, e)
  BY DEF Made
<1>4. w.queue = q /\ w.done = d
  BY DEF Made
<1>5. Served(w) = [[w EXCEPT !.queue = r] EXCEPT !.done = e]
  BY <1>1, <1>4 DEF Served
<1> QED
  BY <1>1, <1>2, <1>3, <1>5

LEMMA WithinFacts ==
  ASSUME NEW w, Within(w)
  PROVE  /\ w \in Writer /\ w.queue \in Seq(Seq(Nat)) /\ w.file \in Seq(Nat)
         /\ w.truncated \in BOOLEAN /\ w.failed \in BOOLEAN
         /\ w.queued \in Nat /\ w.done \in Nat /\ w.bytes \in Nat /\ w.bytes <= MaxLogBytes
         /\ MaxLogBytes \in Nat /\ MaxLogBytes - w.bytes \in Nat
         /\ w.bytes + (MaxLogBytes - w.bytes) = MaxLogBytes
         /\ w.done + 1 \in Nat /\ w.queued + 1 \in Nat
         /\ ~w.truncated => Len(w.file) = w.bytes
         /\ \A i \in 1..w.bytes : w.file[i] > 0
         /\ \A j \in 1..Len(w.queue) : Chunk(w.queue[j])
         /\ Begins(w.file, w.file)
<1>1. w \in Writer
  BY DEF Within
<1>2. /\ w.queue \in Seq(Seq(Nat)) /\ w.file \in Seq(Nat)
      /\ w.truncated \in BOOLEAN /\ w.failed \in BOOLEAN
      /\ w.queued \in Nat /\ w.done \in Nat /\ w.bytes \in Nat
  BY <1>1 DEF Writer
<1>3. w.bytes <= MaxLogBytes /\ MaxLogBytes \in Nat /\ (~w.truncated => Len(w.file) = w.bytes)
  BY <1>2, RunLogsAssumption DEF Within
<1>4. /\ MaxLogBytes - w.bytes \in Nat /\ w.bytes + (MaxLogBytes - w.bytes) = MaxLogBytes
      /\ w.done + 1 \in Nat /\ w.queued + 1 \in Nat
  BY <1>2, <1>3
<1>5. /\ \A i \in 1..w.bytes : w.file[i] > 0
      /\ \A j \in 1..Len(w.queue) : Chunk(w.queue[j])
  BY DEF Within
<1>6. Begins(w.file, w.file)
  BY <1>2 DEF Begins
<1> QED
  BY <1>1, <1>2, <1>3, <1>4, <1>5, <1>6

(* A chunk that continues the output is queued. *)
LEMMA ChunkQueued ==
  ASSUME NEW w, Within(w), NEW n \in Nat, InOrder(w, n), NEW c, Chunk(c), c[1] = n + 1
  PROVE  LET v == AppendChunk(w, c) IN
         /\ Within(v) /\ InOrder(v, n + Len(c)) /\ v.file = w.file
         /\ \A q, m \in Nat : Passes(w, q, m) => Passes(v, q, m)
<1> DEFINE v == AppendChunk(w, c)
           more == Append(w.queue, c)
<1>1. CASE w.truncated
  <2>1. v = w
    BY <1>1 DEF AppendChunk
  <2> QED
    BY <1>1, <2>1 DEF InOrder
<1>2. CASE ~w.truncated
  <2>1. v = Made(w.file, w.bytes, w.truncated, w.failed, more, w.queued + 1, w.done)
    <3>1. PICK file, b, t, f, q, u, d :
            /\ w = Made(file, b, t, f, q, u, d)
            /\ w.file = file /\ w.bytes = b /\ w.truncated = t /\ w.failed = f
            /\ w.queue = q /\ w.queued = u /\ w.done = d
      BY WithinFacts, WriterIsMade
    <3> QED
      BY <1>2, <3>1, AppendMade
  <2>2. w.queue \in Seq(Seq(Nat)) /\ \A j \in 1..Len(w.queue) : Chunk(w.queue[j])
    BY WithinFacts
  <2>3. /\ more \in Seq(Seq(Nat)) /\ \A j \in 1..Len(more) : Chunk(more[j])
        /\ \A q, d \in Nat : q = d + Len(w.queue) => q + 1 = d + Len(more)
        /\ \A b \in Nat : Continues(w.queue, b, n) => Continues(more, b, n + Len(c))
        /\ \A b, d, q, m \in Nat : Carries(w.queue, d, b, q, m) => Carries(more, d, b, q, m)
    BY <2>2, QueueGrows, ZenonT(40)
  <2> HIDE DEF more
  <2>4. /\ v.file = w.file /\ v.bytes = w.bytes /\ v.truncated = w.truncated
        /\ v.failed = w.failed /\ v.queue = more /\ v.queued = w.queued + 1 /\ v.done = w.done
    BY <2>1 DEF Made
  <2>5. v \in Writer
    BY <2>1, <2>3, WithinFacts DEF Writer, Made
  <2> HIDE DEF v
  <2>6. Within(v)
    BY <1>2, <2>3, <2>4, <2>5 DEF Within
  <2>7. InOrder(v, n + Len(c))
    <3>1. w.queued \in Nat /\ w.done \in Nat /\ w.bytes \in Nat
      BY WithinFacts
    <3>2. v.queued = v.done + Len(v.queue)
      <4>1. w.queued = w.done + Len(w.queue)
        BY DEF InOrder
      <4>2. w.queued + 1 = w.done + Len(more)
        BY <2>3, <3>1, <4>1
      <4> QED
        BY <2>4, <4>2
    <3>3. ~v.failed => \A i \in 1..v.bytes : v.file[i] = i
      BY <2>4 DEF InOrder
    <3>4. ASSUME ~v.failed PROVE Continues(v.queue, v.bytes, n + Len(c))
      <4>1. Continues(w.queue, w.bytes, n)
        BY <1>2, <2>4, <3>4 DEF InOrder
      <4> QED
        BY <2>3, <2>4, <3>1, <4>1
    <3> QED
      BY <3>2, <3>3, <3>4 DEF InOrder
  <2>8. ASSUME NEW q \in Nat, NEW m \in Nat, Passes(w, q, m) PROVE Passes(v, q, m)
    BY <1>2, <2>3, <2>4, <2>8, WithinFacts DEF Passes
  <2> QED
    BY <2>4, <2>6, <2>7, <2>8 DEF v
<1> QED
  BY <1>1, <1>2

(* The head of the queue is served, and the file has b bytes after it. *)
LEMMA HeadServed ==
  ASSUME NEW w, Within(w), w.queue # <<>>, NEW n \in Nat, InOrder(w, n),
         NEW file \in Seq(Nat), NEW b \in Nat, NEW truncated \in BOOLEAN, NEW failed \in BOOLEAN,
         b <= MaxLogBytes, Len(file) = b + (IF truncated THEN 1 ELSE 0),
         \A i \in 1..b : file[i] > 0,
         truncated => b = MaxLogBytes /\ file[b + 1] = Marker,
         ~failed => ~w.failed /\ ((\A i \in 1..w.bytes : w.file[i] = i) => \A i \in 1..b : file[i] = i),
         ~failed /\ ~truncated => ~w.truncated /\ b = w.bytes + Len(w.queue[1])
  PROVE  LET v == Made(file, b, truncated, failed, Tail(w.queue), w.queued, w.done + 1)
         IN  /\ Within(v) /\ InOrder(v, n)
             /\ \A q, m \in Nat : Passes(w, q, m) => Passes(v, q, m)
<1> DEFINE rest == Tail(w.queue)
           v == Made(file, b, truncated, failed, rest, w.queued, w.done + 1)
<1>1. /\ rest \in Seq(Seq(Nat)) /\ \A j \in 1..Len(rest) : Chunk(rest[j])
      /\ \A q, d \in Nat : q = d + Len(w.queue) => q = d + 1 + Len(rest)
      /\ \A a, m \in Nat : Continues(w.queue, a, m) => Continues(rest, a + Len(w.queue[1]), m)
      /\ \A a, m, d, q, k \in Nat :
           Continues(w.queue, a, m) /\ Carries(w.queue, d, a, q, k)
             => Carries(rest, d + 1, a + Len(w.queue[1]), q, k)
  BY WithinFacts, QueueServed
<1> HIDE DEF rest
<1>2. /\ v.file = file /\ v.bytes = b /\ v.truncated = truncated /\ v.failed = failed
      /\ v.queue = rest /\ v.queued = w.queued /\ v.done = w.done + 1
  BY DEF Made
<1>3. v \in Writer
  BY <1>1, WithinFacts DEF Writer, Made
<1> HIDE DEF v
<1>4. Within(v)
  BY <1>1, <1>2, <1>3 DEF Within
<1>5. InOrder(v, n)
  <2>1. v.queued = v.done + Len(v.queue)
    <3>1. w.queued = w.done + Len(w.queue) /\ w.queued \in Nat /\ w.done \in Nat
      BY WithinFacts DEF InOrder
    <3>2. w.queued = w.done + 1 + Len(rest)
      BY <1>1, <3>1
    <3> QED
      BY <1>2, <3>2
  <2>2. ~v.failed => \A i \in 1..v.bytes : v.file[i] = i
    BY <1>2 DEF InOrder
  <2>3. ASSUME ~failed, ~truncated PROVE Continues(rest, b, n)
    <3>1. Continues(w.queue, w.bytes, n) /\ w.bytes \in Nat
      BY <2>3, WithinFacts DEF InOrder
    <3> QED
      BY <1>1, <2>3, <3>1
  <2> QED
    BY <1>2, <2>1, <2>2, <2>3 DEF InOrder
<1>6. ASSUME NEW q \in Nat, NEW m \in Nat, Passes(w, q, m) PROVE Passes(v, q, m)
  <2> SUFFICES ASSUME ~failed, ~truncated PROVE Carries(rest, w.done + 1, b, q, m)
    BY <1>2 DEF Passes
  <2>1. Continues(w.queue, w.bytes, n) /\ Carries(w.queue, w.done, w.bytes, q, m)
    BY <1>6 DEF InOrder, Passes
  <2>2. w.bytes \in Nat /\ w.done \in Nat
    BY WithinFacts
  <2>3. Carries(rest, w.done + 1, w.bytes + Len(w.queue[1]), q, m)
    BY <1>1, <2>1, <2>2
  <2> QED
    BY <2>3
<1> QED
  BY <1>4, <1>5, <1>6 DEF v, rest

(* What becomes of a writer whose head is served. *)
LEMMA ServedAs ==
  ASSUME NEW w, Within(w), w.queue # <<>>
  PROVE  LET Now(g, n, k, x) == Made(g, n, k, x, Tail(w.queue), w.queued, w.done + 1)
             c == w.queue[1]
             room == MaxLogBytes - w.bytes
             part == w.file \o SubSeq(c, 1, room)
         IN  /\ Chunk(c)
             /\ w.truncated => WriteHead(w) = Now(w.file, w.bytes, TRUE, w.failed)
             /\ ~w.truncated /\ Len(c) <= room =>
                  WriteHead(w) = Now(w.file \o c, w.bytes + Len(c), FALSE, w.failed)
             /\ ~w.truncated /\ ~(Len(c) <= room) =>
                  WriteHead(w) = Now(Append(part, Marker), MaxLogBytes, TRUE, w.failed)
             /\ \A v \in WriteHeadFails(w) :
                  \/ v = Now(w.file, w.bytes, w.truncated, TRUE)
                  \/ room # 0 /\ ~(Len(c) <= room) /\ v = Now(part, MaxLogBytes, w.truncated, TRUE)
<1>1. PICK file, b, t, f, q, u, d :
        /\ w = Made(file, b, t, f, q, u, d)
        /\ w.file = file /\ w.bytes = b /\ w.truncated = t /\ w.failed = f
        /\ w.queue = q /\ w.queued = u /\ w.done = d
  BY WithinFacts, WriterIsMade
<1>2. PICK c, room, part, all, cut, r, e, size :
        /\ c = w.queue[1] /\ room = MaxLogBytes - w.bytes
        /\ part = w.file \o SubSeq(c, 1, room) /\ all = w.file \o c /\ cut = Append(part, Marker)
        /\ r = Tail(w.queue) /\ e = w.done + 1 /\ size = w.bytes + Len(c)
  OBVIOUS
<1> DEFINE yes == TRUE
<1>3. Chunk(c) /\ Head(w.queue) = c
  BY <1>2, WithinFacts, QueueServed
<1>4. w.truncated \in BOOLEAN /\ w.bytes + room = MaxLogBytes
  BY <1>2, WithinFacts
<1>5. PICK s : s = Served(w)
  OBVIOUS
<1> HIDE DEF yes
<1>6. s = Made(file, b, t, f, r, u, e) /\ s.file = file /\ s.bytes = b
  <2>1. s = Made(file, b, t, f, r, u, e)
    BY <1>1, <1>2, <1>5, ServeMade
  <2> QED
    BY <2>1 DEF Made
<1>7. ASSUME w.truncated PROVE WriteHead(w) = Made(file, b, t, f, r, u, e)
  BY <1>5, <1>6, <1>7 DEF WriteHead
<1>8. ASSUME ~w.truncated, Len(c) <= room PROVE WriteHead(w) = Made(all, size, t, f, r, u, e)
  <2>1. WriteHead(w) = [[s EXCEPT !.file = all] EXCEPT !.bytes = size]
    BY <1>1, <1>2, <1>3, <1>5, <1>6, <1>8 DEF WriteHead
  <2>2. [s EXCEPT !.file = all] = Made(all, b, t, f, r, u, e)
    BY <1>6 DEF Made
  <2>3. [Made(all, b, t, f, r, u, e) EXCEPT !.bytes = size] = Made(all, size, t, f, r, u, e)
    BY DEF Made
  <2> QED
    BY <2>1, <2>2, <2>3
<1>9. ASSUME ~w.truncated, ~(Len(c) <= room)
      PROVE  WriteHead(w) = Made(cut, MaxLogBytes, yes, f, r, u, e)
  <2>1. WriteHead(w) = [[[s EXCEPT !.file = cut] EXCEPT !.bytes = MaxLogBytes] EXCEPT !.truncated = yes]
    <3>1. b + room = MaxLogBytes
      BY <1>1, <1>4
    <3>2. WriteHead(w) = [s EXCEPT !.file = Append(@ \o SubSeq(c, 1, room), Marker),
                                   !.bytes = @ + room, !.truncated = TRUE]
      BY <1>2, <1>3, <1>5, <1>9 DEF WriteHead
    <3>3. Append(s.file \o SubSeq(c, 1, room), Marker) = cut /\ s.bytes + room = MaxLogBytes
      BY <1>1, <1>2, <1>6, <3>1
    <3> QED
      BY <3>2, <3>3 DEF yes
  <2>2. [s EXCEPT !.file = cut] = Made(cut, b, t, f, r, u, e)
    BY <1>6 DEF Made
  <2>3. [Made(cut, b, t, f, r, u, e) EXCEPT !.bytes = MaxLogBytes]
          = Made(cut, MaxLogBytes, t, f, r, u, e)
    BY DEF Made
  <2>4. [Made(cut, MaxLogBytes, t, f, r, u, e) EXCEPT !.truncated = yes]
          = Made(cut, MaxLogBytes, yes, f, r, u, e)
    BY DEF Made
  <2> QED
    BY <2>1, <2>2, <2>3, <2>4
<1>10. ASSUME NEW v \in WriteHeadFails(w)
       PROVE  \/ v = Made(file, b, t, yes, r, u, e)
              \/ room # 0 /\ ~(Len(c) <= room) /\ v = Made(part, MaxLogBytes, t, yes, r, u, e)
  <2>1. PICK lost : lost = Made(file, b, t, yes, r, u, e) /\ lost.file = file /\ lost.bytes = b
    <3>1. /\ Made(file, b, t, yes, r, u, e).file = file
          /\ Made(file, b, t, yes, r, u, e).bytes = b
      BY DEF Made
    <3> QED
      BY <3>1
  <2>2. [s EXCEPT !.failed = yes] = Made(file, b, t, yes, r, u, e)
    BY <1>6 DEF Made
  <2>3. lost = [Served(w) EXCEPT !.failed = TRUE]
    BY <1>5, <2>1, <2>2 DEF yes
  <2>4. WriteHeadFails(w) =
          {lost} \cup (IF room = 0 \/ Len(c) <= room THEN {}
                       ELSE {[[lost EXCEPT !.file = part] EXCEPT !.bytes = MaxLogBytes]})
    BY <1>1, <1>2, <1>3, <1>4, <2>1, <2>3, ZenonT(40) DEF WriteHeadFails
  <2>5. [lost EXCEPT !.file = part] = Made(part, b, t, yes, r, u, e)
    BY <2>1 DEF Made
  <2>6. [Made(part, b, t, yes, r, u, e) EXCEPT !.bytes = MaxLogBytes]
          = Made(part, MaxLogBytes, t, yes, r, u, e)
    BY DEF Made
  <2> QED
    BY <1>10, <2>1, <2>4, <2>5, <2>6
<1>11. (w.truncated => w.truncated = TRUE) /\ (~w.truncated => w.truncated = FALSE)
  BY <1>4
<1> DEFINE Now(g, n, k, x) == Made(g, n, k, x, Tail(w.queue), w.queued, w.done + 1)
<1>12. ASSUME NEW g, NEW n, NEW k, NEW x PROVE Now(g, n, k, x) = Made(g, n, k, x, r, u, e)
  BY <1>1, <1>2
<1> HIDE DEF Now
<1>13. w.truncated => WriteHead(w) = Now(w.file, w.bytes, TRUE, w.failed)
  BY <1>1, <1>7, <1>11, <1>12
<1>14. ~w.truncated /\ Len(c) <= room => WriteHead(w) = Now(all, size, FALSE, w.failed)
  BY <1>1, <1>8, <1>11, <1>12
<1>15. ~w.truncated /\ ~(Len(c) <= room) => WriteHead(w) = Now(cut, MaxLogBytes, TRUE, w.failed)
  BY <1>1, <1>9, <1>12 DEF yes
<1>16. ASSUME NEW v \in WriteHeadFails(w)
       PROVE  \/ v = Now(w.file, w.bytes, w.truncated, TRUE)
              \/ room # 0 /\ ~(Len(c) <= room) /\ v = Now(part, MaxLogBytes, w.truncated, TRUE)
  BY <1>1, <1>10, <1>12 DEF yes
<1> QED
  BY <1>2, <1>3, <1>13, <1>14, <1>15, <1>16 DEF Now

(* The head of the queue is written, all of it or what fits. *)
LEMMA HeadWritten ==
  ASSUME NEW w, Within(w), w.queue # <<>>, NEW n \in Nat, InOrder(w, n)
  PROVE  LET v == WriteHead(w) IN
         /\ Within(v) /\ InOrder(v, n) /\ Begins(w.file, v.file)
         /\ \A q, m \in Nat : Passes(w, q, m) => Passes(v, q, m)
<1> DEFINE v == WriteHead(w)
           Now(g, b, k) == Made(g, b, k, w.failed, Tail(w.queue), w.queued, w.done + 1)
<1>1. PICK c, room : c = w.queue[1] /\ room = MaxLogBytes - w.bytes
  OBVIOUS
<1> DEFINE part == w.file \o SubSeq(c, 1, room)
           cut == Append(part, Marker)
<1>2. /\ Chunk(c)
      /\ w.truncated => v = Now(w.file, w.bytes, TRUE)
      /\ ~w.truncated /\ Len(c) <= room => v = Now(w.file \o c, w.bytes + Len(c), FALSE)
      /\ ~w.truncated /\ ~(Len(c) <= room) => v = Now(cut, MaxLogBytes, TRUE)
  BY <1>1, ServedAs
<1>3. PICK size \in Nat : size = Len(c)
  BY <1>2, ChunkFacts
<1>4. /\ room \in Nat /\ w.bytes \in Nat /\ MaxLogBytes \in Nat
      /\ w.bytes + room = MaxLogBytes /\ w.bytes <= MaxLogBytes
  BY <1>1, WithinFacts
<1>5. /\ w.failed \in BOOLEAN /\ w.file \in Seq(Nat) /\ Begins(w.file, w.file)
      /\ \A i \in 1..w.bytes : w.file[i] > 0
      /\ ~w.truncated => Len(w.file) = w.bytes
  BY WithinFacts
<1>6. ~w.failed /\ ~w.truncated => c[1] = w.bytes + 1
  BY <1>1 DEF InOrder, Continues
<1>7. ASSUME NEW g, NEW b, NEW k PROVE Now(g, b, k).file = g
  BY DEF Made
<1> HIDE DEF v, Now
<1>8. CASE w.truncated
  <2>1. Len(w.file) = w.bytes + 1 /\ w.bytes = MaxLogBytes /\ w.file[w.bytes + 1] = Marker
    BY <1>8 DEF Within
  <2>2. PICK file : file = w.file
    OBVIOUS
  <2>3. /\ file \in Seq(Nat) /\ Len(file) = MaxLogBytes + (IF TRUE THEN 1 ELSE 0)
        /\ file[MaxLogBytes + 1] = Marker /\ MaxLogBytes <= MaxLogBytes
        /\ \A i \in 1..MaxLogBytes : file[i] > 0
    BY <1>4, <1>5, <2>1, <2>2
  <2>4. ~w.failed /\ ~w.truncated => ((\A i \in 1..w.bytes : w.file[i] = i) => \A i \in 1..MaxLogBytes : file[i] = i)
    BY <1>8
  <2>5. v = Now(file, MaxLogBytes, TRUE)
    BY <1>2, <1>8, <2>1, <2>2
  <2>6. Within(v) /\ InOrder(v, n) /\ \A q, m \in Nat : Passes(w, q, m) => Passes(v, q, m)
    BY <1>4, <1>5, <1>8, <2>1, <2>2, <2>3, <2>4, <2>5, HeadServed DEF Now
  <2>7. v.file = w.file
    BY <1>7, <2>2, <2>5
  <2> QED
    BY <1>5, <2>6, <2>7 DEF v
<1>9. CASE ~w.truncated /\ Len(c) <= room
  <2>1. PICK b \in Nat : b = w.bytes + size /\ b <= MaxLogBytes
    BY <1>3, <1>4, <1>9
  <2>2. PICK file : file = w.file \o c
    OBVIOUS
  <2>3. /\ file \in Seq(Nat) /\ Len(file) = b /\ Begins(w.file, file)
        /\ \A i \in 1..b : file[i] > 0
        /\ (\A i \in 1..w.bytes : w.file[i] = i) /\ c[1] = w.bytes + 1 => \A i \in 1..b : file[i] = i
    <3>1. size \in 0..Len(c) /\ SubSeq(c, 1, size) = c
      BY <1>2, <1>3, WholeChunk
    <3>2. Len(w.file) = w.bytes
      BY <1>5, <1>9
    <3>3. LET g == w.file \o SubSeq(c, 1, size) IN
          /\ g \in Seq(Nat) /\ Len(g) = w.bytes + size /\ Begins(w.file, g)
          /\ (\A i \in 1..w.bytes : w.file[i] > 0) => \A i \in 1..(w.bytes + size) : g[i] > 0
          /\ (\A i \in 1..w.bytes : w.file[i] = i) /\ c[1] = w.bytes + 1
               => \A i \in 1..(w.bytes + size) : g[i] = i
      <4>1. w.file \in Seq(Nat) /\ w.bytes \in Nat /\ Chunk(c) /\ size \in 0..Len(c)
        BY <1>2, <1>4, <1>5, <3>1
      <4> QED
        BY <3>2, <4>1, FileGrows
    <3> QED
      BY <1>5, <2>1, <2>2, <3>1, <3>3
  <2>4. v = Now(file, b, FALSE)
    BY <1>2, <1>3, <1>9, <2>1, <2>2
  <2>5. Len(file) = b + (IF FALSE THEN 1 ELSE 0) /\ b = w.bytes + Len(w.queue[1])
    BY <1>1, <1>3, <2>1, <2>3
  <2>6. Within(v) /\ InOrder(v, n) /\ \A q, m \in Nat : Passes(w, q, m) => Passes(v, q, m)
    BY <1>5, <1>6, <1>9, <2>1, <2>3, <2>4, <2>5, HeadServed DEF Now
  <2>7. v.file = file
    BY <1>7, <2>4
  <2> QED
    BY <2>3, <2>6, <2>7 DEF v
<1>10. CASE ~w.truncated /\ ~(Len(c) <= room)
  <2>1. room \in 0..Len(c) /\ Len(w.file) = w.bytes
    BY <1>3, <1>4, <1>5, <1>10
  <2>2. /\ part \in Seq(Nat) /\ Len(part) = MaxLogBytes /\ Begins(w.file, part)
        /\ \A i \in 1..MaxLogBytes : part[i] > 0
        /\ (\A i \in 1..w.bytes : w.file[i] = i) /\ c[1] = w.bytes + 1
             => \A i \in 1..MaxLogBytes : part[i] = i
    <3>1. LET g == w.file \o SubSeq(c, 1, room) IN
          /\ g \in Seq(Nat) /\ Len(g) = w.bytes + room /\ Begins(w.file, g)
          /\ (\A i \in 1..w.bytes : w.file[i] > 0) => \A i \in 1..(w.bytes + room) : g[i] > 0
          /\ (\A i \in 1..w.bytes : w.file[i] = i) /\ c[1] = w.bytes + 1
               => \A i \in 1..(w.bytes + room) : g[i] = i
      <4>1. w.file \in Seq(Nat) /\ w.bytes \in Nat /\ Chunk(c)
        BY <1>2, <1>4, <1>5
      <4> QED
        BY <2>1, <4>1, FileGrows
    <3> QED
      BY <1>4, <1>5, <3>1
  <2> HIDE DEF part
  <2>3. /\ cut \in Seq(Nat) /\ Len(cut) = MaxLogBytes + 1 /\ cut[MaxLogBytes + 1] = Marker
        /\ \A i \in 1..MaxLogBytes : cut[i] = part[i]
    <3>1. Marker \in Nat
      BY DEF Marker
    <3> QED
      BY <2>2, <3>1, AppendFacts
  <2> HIDE DEF cut
  <2>4. Begins(w.file, cut)
    <3>1. \A i \in 1..w.bytes : part[i] = w.file[i] /\ i \in 1..MaxLogBytes
      BY <1>4, <2>1, <2>2 DEF Begins
    <3>2. w.bytes <= MaxLogBytes + 1
      BY <1>4
    <3> QED
      BY <2>1, <2>3, <3>1, <3>2 DEF Begins
  <2>5. /\ Len(cut) = MaxLogBytes + (IF TRUE THEN 1 ELSE 0) /\ MaxLogBytes <= MaxLogBytes
        /\ \A i \in 1..MaxLogBytes : cut[i] > 0
        /\ ~w.failed => ((\A i \in 1..w.bytes : w.file[i] = i) => \A i \in 1..MaxLogBytes : cut[i] = i)
    BY <1>4, <1>6, <1>10, <2>2, <2>3, SMTT(30)
  <2>6. v = Now(cut, MaxLogBytes, TRUE)
    BY <1>2, <1>10
  <2>7. Within(v) /\ InOrder(v, n) /\ \A q, m \in Nat : Passes(w, q, m) => Passes(v, q, m)
    BY <1>4, <1>5, <2>3, <2>5, <2>6, HeadServed DEF Now
  <2>8. v.file = cut
    BY <1>7, <2>6
  <2> QED
    BY <2>4, <2>7, <2>8 DEF v
<1> QED
  BY <1>8, <1>9, <1>10

(* A write fails. *)
LEMMA HeadLost ==
  ASSUME NEW w, Within(w), w.queue # <<>>, NEW n \in Nat, InOrder(w, n), NEW v \in WriteHeadFails(w)
  PROVE  /\ Within(v) /\ InOrder(v, n) /\ Begins(w.file, v.file)
         /\ \A q, m \in Nat : Passes(w, q, m) => Passes(v, q, m)
<1> DEFINE Now(g, b) == Made(g, b, w.truncated, TRUE, Tail(w.queue), w.queued, w.done + 1)
<1>1. PICK c, room : c = w.queue[1] /\ room = MaxLogBytes - w.bytes
  OBVIOUS
<1> DEFINE part == w.file \o SubSeq(c, 1, room)
<1>2. /\ Chunk(c)
      /\ \/ v = Now(w.file, w.bytes)
         \/ room # 0 /\ ~(Len(c) <= room) /\ v = Now(part, MaxLogBytes)
  BY <1>1, ServedAs
<1>3. /\ room \in Nat /\ w.bytes \in Nat /\ MaxLogBytes \in Nat
      /\ w.bytes + room = MaxLogBytes /\ w.bytes <= MaxLogBytes
  BY <1>1, WithinFacts
<1>4. /\ w.truncated \in BOOLEAN /\ w.file \in Seq(Nat) /\ Begins(w.file, w.file)
      /\ \A i \in 1..w.bytes : w.file[i] > 0
      /\ Len(w.file) = w.bytes + (IF w.truncated THEN 1 ELSE 0)
      /\ w.truncated => w.bytes = MaxLogBytes /\ w.file[w.bytes + 1] = Marker
  BY WithinFacts DEF Within
<1>5. ASSUME NEW g, NEW b PROVE Now(g, b).file = g
  BY DEF Made
<1> HIDE DEF Now
<1>6. CASE v = Now(w.file, w.bytes)
  <2>1. Within(v) /\ InOrder(v, n) /\ \A q, m \in Nat : Passes(w, q, m) => Passes(v, q, m)
    BY <1>3, <1>4, <1>6, HeadServed DEF Now
  <2> QED
    BY <1>4, <1>5, <1>6, <2>1
<1>7. CASE room # 0 /\ ~(Len(c) <= room) /\ v = Now(part, MaxLogBytes)
  <2>1. ~w.truncated
    BY <1>3, <1>4, <1>7
  <2>2. Len(c) \in Nat
    BY <1>2, ChunkFacts
  <2>3. room \in 0..Len(c) /\ Len(w.file) = w.bytes
    BY <1>3, <1>4, <1>7, <2>1, <2>2
  <2>4. /\ part \in Seq(Nat) /\ Len(part) = MaxLogBytes /\ Begins(w.file, part)
        /\ \A i \in 1..MaxLogBytes : part[i] > 0
    <3>1. LET g == w.file \o SubSeq(c, 1, room) IN
          /\ g \in Seq(Nat) /\ Len(g) = w.bytes + room /\ Begins(w.file, g)
          /\ (\A i \in 1..w.bytes : w.file[i] > 0) => \A i \in 1..(w.bytes + room) : g[i] > 0
          /\ (\A i \in 1..w.bytes : w.file[i] = i) /\ c[1] = w.bytes + 1
               => \A i \in 1..(w.bytes + room) : g[i] = i
      <4>1. w.file \in Seq(Nat) /\ w.bytes \in Nat /\ Chunk(c)
        BY <1>2, <1>3, <1>4
      <4> QED
        BY <2>3, <4>1, FileGrows
    <3> QED
      BY <1>3, <1>4, <3>1
  <2> HIDE DEF part
  <2>5. Len(part) = MaxLogBytes + (IF w.truncated THEN 1 ELSE 0) /\ MaxLogBytes <= MaxLogBytes
    BY <1>3, <2>1, <2>4
  <2>6. Within(v) /\ InOrder(v, n) /\ \A q, m \in Nat : Passes(w, q, m) => Passes(v, q, m)
    BY <1>3, <1>4, <1>7, <2>1, <2>4, <2>5, HeadServed DEF Now
  <2> QED
    BY <1>5, <1>7, <2>4, <2>6
<1> QED
  BY <1>2, <1>6, <1>7

-----------------------------------------------------------------------------
(* The logs, one action at a time. *)

LEMMA BeginsFacts ==
  ASSUME NEW s \in Seq(Nat), NEW t \in Seq(Nat), NEW u \in Seq(Nat), Begins(s, t)
  PROVE  /\ IsPrefix(s, t)
         /\ Begins(t, u) => Begins(s, u)
<1>1. IsPrefix(s, t)
  BY DEF Begins, IsPrefix
<1>2. ASSUME Begins(t, u) PROVE Begins(s, u)
  <2>1. Len(s) \in Nat /\ Len(t) \in Nat /\ Len(u) \in Nat
    OBVIOUS
  <2>2. Len(s) <= Len(u)
    BY <1>2, <2>1 DEF Begins
  <2>3. ASSUME NEW i \in 1..Len(s) PROVE s[i] = u[i]
    <3>1. i \in 1..Len(t)
      BY <2>1 DEF Begins
    <3> QED
      BY <1>2, <3>1 DEF Begins
  <2> QED
    BY <2>2, <2>3 DEF Begins
<1> QED
  BY <1>1, <1>2

LEMMA BoundedIsSequence == ASSUME NEW out \in Seq(Nat) PROVE Bounded(out) \in Seq(Nat)
<1>1. CASE Len(out) <= MaxLogBytes
  BY <1>1 DEF Bounded
<1>2. CASE ~(Len(out) <= MaxLogBytes)
  <2>1. PICK part \in Seq(Nat) : part = SubSeq(out, 1, MaxLogBytes)
    <3>1. PICK n \in Nat : n = Len(out)
      OBVIOUS
    <3>2. SubSeq(out, 1, MaxLogBytes) \in Seq(Nat)
      BY <1>2, <3>1, RunLogsAssumption
    <3> QED
      BY <3>2
  <2>2. Append(part, Marker) \in Seq(Nat)
    BY DEF Marker
  <2> QED
    BY <1>2, <2>1, <2>2 DEF Bounded
<1> QED
  BY <1>1, <1>2

LEMMA NewWriterFacts ==
  /\ Within(NewWriter) /\ InOrder(NewWriter, 0) /\ Passes(NewWriter, 0, 0)
  /\ NewWriter.queue = <<>> /\ NewWriter.queued = 0
<1>1. /\ NewWriter.file = <<>> /\ NewWriter.bytes = 0 /\ NewWriter.truncated = FALSE
      /\ NewWriter.failed = FALSE /\ NewWriter.queue = <<>> /\ NewWriter.queued = 0
      /\ NewWriter.done = 0
  BY DEF NewWriter
<1>2. NewWriter \in Writer
  BY DEF NewWriter, Writer
<1>3. Within(NewWriter)
  BY <1>1, <1>2, RunLogsAssumption DEF Within
<1>4. InOrder(NewWriter, 0) /\ Passes(NewWriter, 0, 0)
  BY <1>1 DEF InOrder, Continues, Passes, Carries
<1> QED
  BY <1>1, <1>3, <1>4

(* What is closed when the writers have done what was queued is whole. *)
LEMMA DoneIsWhole ==
  ASSUME NEW w, Within(w), NEW out \in Seq(Nat), Numbered(out), NEW q \in Nat,
         ~w.failed => \A i \in 1..w.bytes : w.file[i] = i,
         Passes(w, q, Len(out)), q <= w.done, ~w.failed
  PROVE  Begins(Bounded(out), w.file)
<1>1. /\ w.bytes \in Nat /\ w.bytes <= MaxLogBytes /\ MaxLogBytes \in Nat
      /\ w.truncated \in BOOLEAN /\ w.file \in Seq(Nat)
      /\ Len(w.file) = w.bytes + (IF w.truncated THEN 1 ELSE 0)
      /\ w.truncated => w.bytes = MaxLogBytes /\ w.file[w.bytes + 1] = Marker
  BY WithinFacts DEF Within
<1>2. PICK n \in Nat : n = Len(out)
  OBVIOUS
<1>3. ASSUME NEW i \in 1..n, i <= w.bytes PROVE out[i] = w.file[i]
  <2>1. i \in 1..w.bytes
    BY <1>1, <1>3
  <2> QED
    BY <1>2, <2>1 DEF Numbered
<1>4. CASE ~w.truncated
  <2>1. n <= w.bytes
    BY <1>2, <1>4 DEF Passes, Carries
  <2>2. Bounded(out) = out
    BY <1>1, <1>2, <2>1 DEF Bounded
  <2>3. Len(w.file) = w.bytes
    BY <1>1, <1>4
  <2> QED
    BY <1>1, <1>2, <1>3, <2>1, <2>2, <2>3 DEF Begins
<1>5. CASE w.truncated /\ n <= MaxLogBytes
  <2>1. Bounded(out) = out
    BY <1>2, <1>5 DEF Bounded
  <2>2. Len(w.file) = MaxLogBytes + 1 /\ w.bytes = MaxLogBytes
    BY <1>1, <1>5
  <2> QED
    BY <1>1, <1>2, <1>3, <1>5, <2>1, <2>2 DEF Begins
<1>6. CASE w.truncated /\ ~(n <= MaxLogBytes)
  <2>1. Bounded(out) = Append(SubSeq(out, 1, MaxLogBytes), Marker)
    BY <1>2, <1>6 DEF Bounded
  <2>2. PICK part : part = SubSeq(out, 1, MaxLogBytes)
    OBVIOUS
  <2>3. /\ part \in Seq(Nat) /\ Len(part) = MaxLogBytes
        /\ \A i \in 1..MaxLogBytes : part[i] = out[i]
    BY <1>1, <1>2, <1>6, <2>2, SMTT(30)
  <2>4. PICK cut : cut = Append(part, Marker)
    OBVIOUS
  <2>5. /\ cut \in Seq(Nat) /\ Len(cut) = MaxLogBytes + 1 /\ cut[MaxLogBytes + 1] = Marker
        /\ \A i \in 1..MaxLogBytes : cut[i] = part[i]
    <3>1. Marker \in Nat
      BY DEF Marker
    <3> QED
      BY <2>3, <2>4, <3>1, AppendFacts
  <2>6. Len(w.file) = MaxLogBytes + 1 /\ w.bytes = MaxLogBytes /\ w.file[MaxLogBytes + 1] = Marker
    BY <1>1, <1>6
  <2>7. ASSUME NEW i \in 1..(MaxLogBytes + 1) PROVE cut[i] = w.file[i]
    <3>1. i \in 1..MaxLogBytes \/ i = MaxLogBytes + 1
      BY <1>1
    <3>2. CASE i \in 1..MaxLogBytes
      <4>1. i \in 1..n /\ i <= w.bytes
        BY <1>1, <1>6, <2>6, <3>2
      <4> QED
        BY <1>3, <2>3, <2>5, <3>2, <4>1
    <3> QED
      BY <2>5, <2>6, <3>1, <3>2
  <2> QED
    BY <1>1, <2>1, <2>2, <2>4, <2>5, <2>6, <2>7 DEF Begins
<1> QED
  BY <1>1, <1>4, <1>5, <1>6

(* What has been queued is waited for. *)
LEMMA QueuedPasses ==
  ASSUME NEW w, Within(w), NEW n \in Nat, InOrder(w, n)
  PROVE  Passes(w, w.queued, n) /\ w.queued \in Nat
<1>1. /\ w.queued = w.done + Len(w.queue) /\ w.queued \in Nat /\ w.done \in Nat
      /\ w.queue \in Seq(Seq(Nat)) /\ w.bytes \in Nat
  BY WithinFacts DEF InOrder
<1>2. ASSUME ~w.failed, ~w.truncated PROVE Carries(w.queue, w.done, w.bytes, w.queued, n)
  <2>1. Continues(w.queue, w.bytes, n)
    BY <1>2 DEF InOrder
  <2>2. PICK len \in Nat : len = Len(w.queue)
    BY <1>1
  <2>3. CASE len = 0
    <3>1. w.queue = <<>>
      <4>1. ASSUME NEW s \in Seq(Seq(Nat)), Len(s) = 0 PROVE s = <<>>
        BY <4>1
      <4> QED
        BY <1>1, <2>2, <2>3, <4>1
    <3>2. w.queued = w.done /\ n <= w.bytes
      BY <1>1, <2>1, <2>2, <2>3, <3>1 DEF Continues
    <3> QED
      BY <1>1, <3>2 DEF Carries
  <2>4. CASE len # 0
    <3>1. w.queue # <<>> /\ ~(w.queued <= w.done) /\ w.queued - w.done = len /\ len <= Len(w.queue)
      BY <1>1, <2>2, <2>4
    <3>2. LastOf(w.queue[len]) = n
      BY <2>1, <2>2, <3>1 DEF Continues
    <3> QED
      BY <3>1, <3>2 DEF Carries
  <2> QED
    BY <2>3, <2>4
<1> QED
  BY <1>1, <1>2 DEF Passes

(* Steps that neither start the run nor touch its logs. *)
LEMMA LogsLeftAlone ==
  ASSUME LogInv, UNCHANGED <<start, handle, sink, stored, output, writer, closing, closed>>,
         child = "none" => child' = "none",
         \/ finish'.pc = finish.pc
         \/ /\ finish.pc # "done" /\ finish'.pc # "closing"
            /\ finish'.pc \in {"no", "scan", "close"} => finish.pc \in {"no", "scan", "close"}
  PROVE  LogInv'
<1>1. LogTyped'
  BY DEF LogInv, LogTyped
<1>2. SinkInv'
  BY DEF LogInv, SinkInv, NotSpawned
<1>3. CloseInv'
  BY DEF LogInv, CloseInv
<1> QED
  BY <1>1, <1>2, <1>3 DEF LogInv

LEMMA StartStep ==
  ASSUME FileInv, LogInv, OpenRunLogs \/ UpsertRunLogPaths \/ Spawn
  PROVE  LogInv'
<1>1. CASE OpenRunLogs
  <2>1. /\ start = "opening" /\ start' = "storing"
        /\ UNCHANGED <<finish, child, handle, sink, stored, output, writer, closing, closed>>
    BY <1>1 DEF OpenRunLogs
  <2>2. LogTyped'
    BY <2>1 DEF LogInv, LogTyped
  <2>3. SinkInv'
    BY <2>1 DEF LogInv, SinkInv, NotSpawned
  <2>4. CloseInv'
    BY <2>1 DEF LogInv, CloseInv
  <2> QED
    BY <2>2, <2>3, <2>4 DEF LogInv
<1>2. CASE UpsertRunLogPaths
  <2>1. /\ start = "storing" /\ start' = "opened" /\ handle' = TRUE /\ stored' = TRUE
        /\ UNCHANGED <<finish, child, sink, output, writer, closing, closed>>
    BY <1>2 DEF UpsertRunLogPaths
  <2>2. LogTyped'
    BY <2>1 DEF LogInv, LogTyped
  <2>3. SinkInv'
    BY <2>1 DEF LogInv, SinkInv, NotSpawned
  <2>4. CloseInv'
    BY <2>1 DEF LogInv, CloseInv
  <2> QED
    BY <2>2, <2>3, <2>4 DEF LogInv
<1>3. CASE Spawn
  <2>1. /\ start = "opened" /\ ~sink /\ child = "none" /\ NotSpawned
        /\ \A k \in Kinds : output[k] = <<>> /\ writer[k] = NewWriter
        /\ UNCHANGED <<finish, row, handle, stored, output, writer, closing, closed>>
    BY <1>3 DEF Spawn, LogInv, SinkInv, NotSpawned
  <2>2. CASE row \in Ended
    <3>1. start' = "returned" /\ UNCHANGED <<child, sink>> /\ finish.pc = "done"
      BY <1>3, <2>2 DEF Spawn, FileInv, EndInv
    <3>2. LogTyped'
      BY <2>1, <3>1 DEF LogInv, LogTyped
    <3>3. SinkInv'
      BY <2>1, <3>1 DEF LogInv, SinkInv, NotSpawned
    <3>4. CloseInv'
      BY <2>1, <3>1 DEF LogInv, CloseInv
    <3> QED
      BY <3>2, <3>3, <3>4 DEF LogInv
  <2>3. CASE row \notin Ended
    <3>1. start' = "spawned" /\ child' = "alive" /\ sink' = handle
      BY <1>3, <2>3 DEF Spawn
    <3>2. LogTyped'
      BY <2>1, <3>1 DEF LogInv, LogTyped
    <3>3. SinkInv'
      <4>1. ASSUME NEW k \in Kinds
            PROVE  InOrder(writer'[k], Len(output'[k])) /\ writer'[k].queue = <<>>
        <5>1. writer'[k] = NewWriter /\ output'[k] = <<>>
          BY <2>1
        <5>2. Len(output'[k]) = 0
          BY <5>1
        <5> QED
          BY <5>1, <5>2, NewWriterFacts
      <4> QED
        BY <2>1, <3>1, <4>1 DEF LogInv, SinkInv, NotSpawned
    <3>4. CloseInv'
      <4>1. ASSUME finish.pc = "closing", NEW k \in Kinds
            PROVE  Passes(writer'[k], closing'[k].queued, Len(closing'[k].output))
        <5>1. closing[k] = [queued |-> 0, output |-> <<>>]
          BY <2>1, <4>1 DEF LogInv, CloseInv
        <5>2. closing'[k].queued = 0 /\ Len(closing'[k].output) = 0 /\ writer'[k] = NewWriter
          BY <2>1, <5>1
        <5> QED
          BY <5>2, NewWriterFacts
      <4> QED
        BY <2>1, <3>1, <4>1 DEF LogInv, CloseInv
    <3> QED
      BY <3>2, <3>3, <3>4 DEF LogInv
  <2> QED
    BY <2>2, <2>3
<1> QED
  BY <1>1, <1>2, <1>3

(* One writer moves on, and with it perhaps the output of its log. *)
LEMMA WriterMoves ==
  ASSUME LogInv, sink, ~NotSpawned, NEW k \in Kinds, NEW v,
         writer' = [writer EXCEPT ![k] = v],
         output' \in [Kinds -> Seq(Nat)], Numbered(output'[k]),
         \A j \in Kinds : j # k => output'[j] = output[j],
         Within(v), InOrder(v, Len(output'[k])), Begins(writer[k].file, v.file),
         \A q, m \in Nat : Passes(writer[k], q, m) => Passes(v, q, m),
         UNCHANGED <<start, finish, handle, sink, stored, closing, closed>>
  PROVE  LogInv'
<1>1. \A j \in Kinds : writer'[j] = IF j = k THEN v ELSE writer[j]
  BY DEF LogInv, LogTyped
<1>2. LogTyped'
  <2>1. v \in Writer
    BY DEF Within
  <2>2. writer' \in [Kinds -> Writer]
    BY <2>1 DEF LogInv, LogTyped
  <2> QED
    BY <1>1, <2>2 DEF LogInv, LogTyped
<1>3. SinkInv'
  <2>1. ASSUME NEW j \in Kinds PROVE InOrder(writer'[j], Len(output'[j]))
    <3>1. InOrder(writer[j], Len(output[j]))
      BY DEF LogInv, SinkInv
    <3> QED
      BY <1>1, <3>1
  <2> QED
    BY <2>1 DEF LogInv, SinkInv, NotSpawned
<1>4. CloseInv'
  <2>1. ASSUME NEW j \in Kinds
        PROVE  /\ closing[j].queued \in Nat /\ closing[j].output \in Seq(Nat)
               /\ Len(closing[j].output) \in Nat
               /\ Bounded(closing[j].output) \in Seq(Nat)
               /\ writer[j].file \in Seq(Nat) /\ writer'[j].file \in Seq(Nat)
    <3>1. closing[j].queued \in Nat /\ closing[j].output \in Seq(Nat)
      BY DEF LogInv, LogTyped, Closings
    <3>2. Bounded(closing[j].output) \in Seq(Nat)
      BY <3>1, BoundedIsSequence
    <3>3. writer[j].file \in Seq(Nat) /\ writer'[j].file \in Seq(Nat)
      BY <1>2 DEF LogInv, LogTyped, Writer
    <3> QED
      BY <3>1, <3>2, <3>3
  <2>2. ASSUME finish.pc = "closing", NEW j \in Kinds
        PROVE  Passes(writer'[j], closing[j].queued, Len(closing[j].output))
    <3>1. Passes(writer[j], closing[j].queued, Len(closing[j].output))
      BY <2>2 DEF LogInv, CloseInv
    <3> QED
      BY <1>1, <2>1, <3>1
  <2>3. ASSUME closed = "whole", NEW j \in Kinds
        PROVE  Begins(Bounded(closing[j].output), writer'[j].file)
    <3>1. Begins(Bounded(closing[j].output), writer[j].file)
      BY <2>3 DEF LogInv, CloseInv
    <3>2. j = k => Begins(writer[j].file, writer'[j].file)
      BY <1>1
    <3>3. j # k => writer'[j] = writer[j]
      BY <1>1
    <3> QED
      BY <2>1, <3>1, <3>2, <3>3, BeginsFacts
  <2> QED
    BY <2>2, <2>3 DEF LogInv, CloseInv
<1> QED
  BY <1>2, <1>3, <1>4 DEF LogInv

LEMMA OutputStep ==
  ASSUME LogInv, NEW k \in Kinds, NEW size \in 1..2, Output(k, size)
  PROVE  LogInv'
<1>1. PICK n \in Nat, out \in Seq(Nat) : out = output[k] /\ n = Len(out) /\ Numbered(out)
  BY DEF LogInv, LogTyped
<1>2. PICK c : c = [i \in 1..size |-> n + i]
  OBVIOUS
<1>3. /\ output' = [output EXCEPT ![k] = out \o c]
      /\ sink => writer' = [writer EXCEPT ![k] = AppendChunk(writer[k], c)]
      /\ ~sink => writer' = writer
      /\ child # "none"
      /\ UNCHANGED <<start, finish, child, handle, sink, stored, closing, closed>>
  BY <1>1, <1>2 DEF Output, Running
<1>4. Chunk(c) /\ c[1] = n + 1 /\ Len(c) = size
  <2>1. size \in Nat /\ size > 0 /\ 1 \in 1..size
    OBVIOUS
  <2>2. \A i \in 1..size : c[i] = n + i /\ n + i \in Nat
    BY <1>1, <1>2
  <2>3. c \in [1..size -> Nat]
    BY <1>2, <2>2
  <2>4. c \in Seq(Nat) /\ Len(c) = size
    BY <2>1, <2>3
  <2>5. c[1] = n + 1
    BY <2>1, <2>2
  <2>6. \A i \in 1..size : c[i] = c[1] + i - 1
    BY <1>1, <2>2, <2>5
  <2> QED
    BY <1>1, <2>1, <2>4, <2>5, <2>6 DEF Chunk
<1>5. PICK more : more = out \o c
  OBVIOUS
<1>6. more \in Seq(Nat) /\ Len(more) = n + size /\ Numbered(more)
  <2>1. c \in Seq(Nat)
    BY <1>4 DEF Chunk
  <2>2. /\ more \in Seq(Nat) /\ Len(more) = n + size
        /\ \A i \in 1..(n + size) : more[i] = IF i <= n THEN out[i] ELSE c[i - n]
    BY <1>1, <1>4, <1>5, <2>1
  <2>3. ASSUME NEW i \in 1..(n + size) PROVE more[i] = i
    <3>1. CASE i <= n
      <4>1. i \in 1..n
        BY <1>1, <3>1
      <4> QED
        BY <1>1, <2>2, <3>1, <4>1 DEF Numbered
    <3>2. CASE ~(i <= n)
      <4>1. i - n \in 1..size
        BY <1>1, <3>2
      <4>2. c[i - n] = n + (i - n)
        BY <1>2, <4>1
      <4>3. n + (i - n) = i
        BY <1>1
      <4> QED
        BY <2>2, <3>2, <4>2, <4>3
    <3> QED
      BY <3>1, <3>2
  <2> QED
    BY <2>2, <2>3 DEF Numbered
<1>7. /\ output' \in [Kinds -> Seq(Nat)] /\ output'[k] = more
      /\ \A j \in Kinds : j # k => output'[j] = output[j]
  BY <1>3, <1>5, <1>6 DEF LogInv, LogTyped
<1>8. ~NotSpawned
  BY <1>3 DEF LogInv, SinkInv
<1>9. CASE sink
  <2>1. PICK w : w = writer[k]
    OBVIOUS
  <2>2. Within(w) /\ InOrder(w, n)
    BY <1>1, <1>9, <2>1 DEF LogInv, LogTyped, SinkInv
  <2>3. PICK v : v = AppendChunk(w, c)
    OBVIOUS
  <2>4. /\ Within(v) /\ InOrder(v, n + size) /\ v.file = w.file
        /\ \A q, m \in Nat : Passes(w, q, m) => Passes(v, q, m)
    BY <1>4, <2>2, <2>3, ChunkQueued
  <2>5. Begins(writer[k].file, v.file)
    BY <2>1, <2>2, <2>4, WithinFacts
  <2>6. writer' = [writer EXCEPT ![k] = v]
    BY <1>3, <1>9, <2>1, <2>3
  <2>7. Numbered(output'[k]) /\ InOrder(v, Len(output'[k]))
    BY <1>6, <1>7, <2>4
  <2> QED
    BY <1>3, <1>7, <1>8, <1>9, <2>1, <2>4, <2>5, <2>6, <2>7, WriterMoves
<1>10. CASE ~sink
  <2>1. writer' = writer
    BY <1>3, <1>10
  <2>2. LogTyped'
    <3>1. \A j \in Kinds : Numbered(output'[j])
      BY <1>6, <1>7 DEF LogInv, LogTyped
    <3> QED
      BY <1>3, <1>7, <2>1, <3>1 DEF LogInv, LogTyped
  <2>3. SinkInv'
    BY <1>3, <1>8, <1>10, <2>1 DEF LogInv, SinkInv, NotSpawned
  <2>4. CloseInv'
    BY <1>3, <2>1 DEF LogInv, CloseInv
  <2> QED
    BY <2>2, <2>3, <2>4 DEF LogInv
<1> QED
  BY <1>9, <1>10

LEMMA WriteStep == ASSUME LogInv, NEW k \in Kinds, WriteLog(k) PROVE LogInv'
<1>1. PICK w : w = writer[k]
  OBVIOUS
<1>2. /\ w.queue # <<>>
      /\ UNCHANGED <<start, finish, handle, sink, stored, output, closing, closed>>
  BY <1>1 DEF WriteLog
<1>3. sink /\ ~NotSpawned
  BY <1>1, <1>2 DEF LogInv, SinkInv
<1>4. PICK n \in Nat : n = Len(output[k])
  BY DEF LogInv, LogTyped
<1>5. Within(w) /\ InOrder(w, n)
  BY <1>1, <1>3, <1>4 DEF LogInv, LogTyped, SinkInv
<1>6. PICK v : /\ writer' = [writer EXCEPT ![k] = v]
               /\ v = WriteHead(w) \/ v \in WriteHeadFails(w)
  BY <1>1 DEF WriteLog
<1>7. /\ Within(v) /\ InOrder(v, n) /\ Begins(w.file, v.file)
      /\ \A q, m \in Nat : Passes(w, q, m) => Passes(v, q, m)
  BY <1>2, <1>5, <1>6, HeadWritten, HeadLost
<1>8. output' \in [Kinds -> Seq(Nat)] /\ Numbered(output'[k]) /\ InOrder(v, Len(output'[k]))
  BY <1>2, <1>4, <1>7 DEF LogInv, LogTyped
<1> QED
  BY <1>1, <1>2, <1>3, <1>6, <1>7, <1>8, WriterMoves

LEMMA CloseStep ==
  ASSUME LogInv, CloseRunLogHandle \/ LogsClosed, finish \in Finishing
  PROVE  LogInv'
<1>1. CASE CloseRunLogHandle
  <2>1. /\ finish.pc = "close" /\ closed = "no"
        /\ finish'.pc = IF handle THEN "closing" ELSE "end"
        /\ closing' = [k \in Kinds |-> [queued |-> writer[k].queued, output |-> output[k]]]
        /\ UNCHANGED <<start, child, handle, sink, stored, output, writer, closed>>
    BY <1>1 DEF CloseRunLogHandle, Finishing, LogInv, CloseInv
  <2>2. \A k \in Kinds : closing'[k].queued = writer[k].queued /\ closing'[k].output = output[k]
    BY <2>1
  <2>3. LogTyped'
    <3>1. ASSUME NEW k \in Kinds
          PROVE [queued |-> writer[k].queued, output |-> output[k]] \in Closings
      BY DEF LogInv, LogTyped, Writer, Closings
    <3>2. closing' \in [Kinds -> Closings]
      BY <2>1, <3>1
    <3>3. \A k \in Kinds : Numbered(closing'[k].output)
      BY <2>2 DEF LogInv, LogTyped
    <3> QED
      BY <2>1, <3>2, <3>3 DEF LogInv, LogTyped
  <2>4. SinkInv'
    BY <2>1 DEF LogInv, SinkInv, NotSpawned
  <2>5. ASSUME sink, NEW k \in Kinds
        PROVE  Passes(writer[k], closing'[k].queued, Len(closing'[k].output))
    <3>1. Within(writer[k]) /\ Len(output[k]) \in Nat /\ InOrder(writer[k], Len(output[k]))
      BY <2>5 DEF LogInv, LogTyped, SinkInv
    <3> QED
      BY <2>2, <3>1, QueuedPasses
  <2>6. ASSUME handle, ~sink, NEW k \in Kinds PROVE closing'[k] = [queued |-> 0, output |-> <<>>]
    <3>1. NotSpawned
      BY <2>1, <2>6 DEF LogInv, SinkInv, NotSpawned
    <3>2. output[k] = <<>> /\ writer[k] = NewWriter
      BY <3>1 DEF LogInv, SinkInv
    <3> QED
      BY <2>1, <3>2, NewWriterFacts
  <2>7. CloseInv'
    BY <2>1, <2>5, <2>6 DEF LogInv, CloseInv
  <2> QED
    BY <2>3, <2>4, <2>7 DEF LogInv
<1>2. CASE LogsClosed
  <2>1. /\ finish.pc = "closing" /\ handle /\ handle' = FALSE /\ finish'.pc = "end"
        /\ \/ /\ \A k \in Kinds : writer[k].done >= closing[k].queued
              /\ closed' = IF \E k \in Kinds : writer[k].failed THEN "warned" ELSE "whole"
           \/ closed' = "warned"
        /\ UNCHANGED <<start, child, sink, stored, output, writer, closing>>
    BY <1>2 DEF LogsClosed, Finishing, LogInv, CloseInv
  <2>2. LogTyped'
    BY <2>1 DEF LogInv, LogTyped
  <2>3. SinkInv'
    BY <2>1 DEF LogInv, SinkInv, NotSpawned
  <2>4. ASSUME closed' = "whole", NEW k \in Kinds
        PROVE  Begins(Bounded(closing[k].output), writer[k].file)
    <3>1. PICK w, out, q : w = writer[k] /\ out = closing[k].output /\ q = closing[k].queued
      OBVIOUS
    <3>2. Within(w) /\ out \in Seq(Nat) /\ Numbered(out) /\ q \in Nat
      BY <3>1 DEF LogInv, LogTyped, Closings
    <3>3. ~w.failed /\ w.done >= q
      BY <2>1, <2>4, <3>1
    <3>4. CASE sink
      <4>1. Passes(w, q, Len(out)) /\ InOrder(w, Len(output[k]))
        BY <2>1, <3>1, <3>4 DEF LogInv, CloseInv, SinkInv
      <4>2. ~w.failed => \A i \in 1..w.bytes : w.file[i] = i
        BY <4>1 DEF InOrder
      <4>3. q <= w.done
        BY <3>2, <3>3, WithinFacts
      <4> QED
        BY <3>1, <3>2, <3>3, <4>1, <4>2, <4>3, DoneIsWhole
    <3>5. CASE ~sink
      <4>1. out = <<>>
        BY <2>1, <3>1, <3>5 DEF LogInv, CloseInv
      <4>2. Bounded(out) = <<>> /\ w.file \in Seq(Nat)
        BY <3>2, <4>1, RunLogsAssumption, WithinFacts DEF Bounded
      <4> QED
        BY <3>1, <4>2 DEF Begins
    <3> QED
      BY <3>4, <3>5
  <2>5. CloseInv'
    BY <2>1, <2>4 DEF LogInv, SinkInv, CloseInv
  <2> QED
    BY <2>2, <2>3, <2>5 DEF LogInv
<1> QED
  BY <1>1, <1>2

LEMMA CrashStep == ASSUME LogInv, Crash, finish \in Finishing PROVE LogInv'
<1>1. /\ start' = "returned" /\ finish'.pc = "done" /\ handle' = FALSE /\ sink' = FALSE
      /\ writer' = [k \in Kinds |-> [writer[k] EXCEPT !.queue = <<>>]]
      /\ closed' = "whole" => closed = "whole"
      /\ UNCHANGED <<stored, output, closing>>
  BY DEF Crash, Finishing
<1>2. ASSUME NEW k \in Kinds
      PROVE  /\ writer'[k] \in Writer /\ Within(writer'[k]) /\ writer'[k].queue = <<>>
             /\ writer'[k].file = writer[k].file
  <2>1. PICK w : w = writer[k] /\ Within(w)
    BY DEF LogInv, LogTyped
  <2>2. w \in Writer /\ writer'[k] = [w EXCEPT !.queue = <<>>]
    BY <1>1, <2>1 DEF Within
  <2>3. PICK v : v = writer'[k]
    OBVIOUS
  <2>4. /\ v \in Writer /\ v.file = w.file /\ v.bytes = w.bytes /\ v.truncated = w.truncated
        /\ v.queue = <<>>
    <3>1. PICK e \in Seq(Seq(Nat)) : e = <<>>
      BY NewWriterFacts, WithinFacts
    <3>2. v = [w EXCEPT !.queue = e]
      BY <2>2, <2>3, <3>1
    <3>3. v \in Writer
      BY <2>2, <3>2 DEF Writer
    <3>4. /\ v.file = w.file /\ v.bytes = w.bytes /\ v.truncated = w.truncated
          /\ v.queue = e
      BY <2>2, <3>2 DEF Writer
    <3> QED
      BY <3>1, <3>3, <3>4
  <2>5. Within(v)
    <3>1. \A j \in 1..Len(v.queue) : Chunk(v.queue[j])
      BY <2>4
    <3> QED
      BY <2>1, <2>4, <3>1 DEF Within
  <2> QED
    BY <2>1, <2>3, <2>4, <2>5
<1>3. LogTyped'
  <2>1. writer' \in [Kinds -> Writer]
    BY <1>1, <1>2
  <2> QED
    BY <1>1, <1>2, <2>1 DEF LogInv, LogTyped
<1>4. SinkInv'
  BY <1>1, <1>2 DEF LogInv, SinkInv, NotSpawned
<1>5. CloseInv'
  BY <1>1, <1>2 DEF LogInv, CloseInv
<1> QED
  BY <1>3, <1>4, <1>5 DEF LogInv

LEMMA LogStep == ASSUME FileInv, LogInv, [Next]_vars PROVE LogInv'
<1> USE DEF uploadVars
<1>1. finish \in Finishing
  BY DEF FileInv, ScanInv
<1>2. CASE OpenRunLogs \/ UpsertRunLogPaths \/ Spawn
  BY <1>2, StartStep
<1>3. ASSUME NEW k \in Kinds, WriteLog(k) \/ \E size \in 1..2 : Output(k, size) PROVE LogInv'
  BY <1>3, WriteStep, OutputStep
<1>4. ASSUME NEW f \in Files, WriteFile(f) PROVE LogInv'
  BY <1>4, LogsLeftAlone DEF WriteFile
<1>5. CASE ChildCloses \/ CancelRun \/ StopRun
  <2>1. /\ UNCHANGED <<start, handle, sink, stored, output, writer, closing, closed>>
        /\ child = "none" => child' = "none"
        /\ UNCHANGED finish \/ \E status \in Ended, finalize \in BOOLEAN : Finish(status, finalize)
    BY <1>5 DEF ChildCloses, CancelRun, StopRun, Running, Ended
  <2>2. UNCHANGED finish \/ (finish.pc = "no" /\ finish'.pc \in {"scan", "close"})
    BY <1>1, <2>1 DEF Finish, Finishing
  <2> QED
    BY <2>1, <2>2, LogsLeftAlone
<1>6. CASE ScanArtifacts \/ FinalizeRunArtifacts \/ ArtifactScanFails
  <2>1. /\ UNCHANGED <<start, child, handle, sink, stored, output, writer, closing, closed>>
        /\ finish.pc = "scan"
    BY <1>6 DEF ScanArtifacts, FinalizeRunArtifacts, ArtifactScanFails
  <2>2. finish'.pc \in {"scan", "close"}
    BY <1>1, <1>6 DEF ScanArtifacts, FinalizeRunArtifacts, ArtifactScanFails, Finishing
  <2> QED
    BY <2>1, <2>2, LogsLeftAlone
<1>7. CASE CloseRunLogHandle \/ LogsClosed
  BY <1>1, <1>7, CloseStep
<1>8. CASE CommitTerminal
  <2>1. /\ UNCHANGED <<start, child, handle, sink, stored, output, writer, closing, closed>>
        /\ finish.pc = "end" /\ finish'.pc = "done"
    BY <1>1, <1>8 DEF CommitTerminal, Finishing
  <2> QED
    BY <2>1, LogsLeftAlone
<1>9. CASE Crash
  BY <1>1, <1>9, CrashStep
<1>10. CASE Upload \/ UploadFails
  BY <1>10, LogsLeftAlone DEF Upload, UploadFails
<1>11. CASE BundleDetail \/ BundleLog \/ BundleRows
  BY <1>11, LogsLeftAlone DEF BundleDetail, BundleLog, BundleRows
<1>12. CASE UNCHANGED vars
  BY <1>12, LogsLeftAlone DEF vars
<1> QED
  BY <1>2, <1>3, <1>4, <1>5, <1>6, <1>7, <1>8, <1>9, <1>10, <1>11, <1>12 DEF Next

LEMMA LogsHold == Spec => []LogInv
<1>1. Init => LogInv
  <2> SUFFICES ASSUME Init PROVE LogInv
    OBVIOUS
  <2>1. /\ start = "opening" /\ finish.pc = "no" /\ child = "none" /\ handle = FALSE
        /\ sink = FALSE /\ stored = FALSE /\ closed = "no"
        /\ output = [k \in Kinds |-> <<>>] /\ writer = [k \in Kinds |-> NewWriter]
        /\ closing = [k \in Kinds |-> [queued |-> 0, output |-> <<>>]]
    BY DEF Init
  <2>2. LogTyped
    <3>1. /\ output \in [Kinds -> Seq(Nat)] /\ closing \in [Kinds -> Closings]
          /\ \A k \in Kinds : output[k] = <<>> /\ closing[k].output = <<>> /\ writer[k] = NewWriter
      BY <2>1 DEF Closings
    <3>2. writer \in [Kinds -> Writer]
      <4>1. NewWriter \in Writer
        BY NewWriterFacts DEF Within
      <4> QED
        BY <2>1, <4>1
    <3>3. Numbered(<<>>)
      BY DEF Numbered
    <3> QED
      BY <2>1, <3>1, <3>2, <3>3, NewWriterFacts DEF LogTyped
  <2>3. SinkInv
    BY <2>1, NewWriterFacts DEF SinkInv
  <2>4. CloseInv
    BY <2>1 DEF CloseInv
  <2> QED
    BY <2>2, <2>3, <2>4 DEF LogInv
<1> QED
  BY <1>1, LogStep, FilesHold, PTL DEF Spec

(* A log that was closed without a warning holds what the run had put out by *)
(* then: the bytes of a chunk go on from those before it, in the queue and   *)
(* in the file, and close waits for the operations that carry them.  And no  *)
(* log has more bytes than its limit.                                        *)
THEOREM LogsAreWhole == Spec => []ClosedLogsAreWhole
<1>1. LogInv => ClosedLogsAreWhole
  <2> SUFFICES ASSUME LogInv, NEW k \in Kinds
               PROVE  /\ Cardinality({i \in DOMAIN writer[k].file : writer[k].file[i] # Marker})
                           <= MaxLogBytes
                      /\ closed = "whole" => IsPrefix(Bounded(closing[k].output), writer[k].file)
    BY DEF ClosedLogsAreWhole
  <2>1. PICK w, out : w = writer[k] /\ out = closing[k].output
    OBVIOUS
  <2>2. Within(w) /\ out \in Seq(Nat) /\ w.file \in Seq(Nat) /\ Bounded(out) \in Seq(Nat)
    BY <2>1, BoundedIsSequence, WithinFacts DEF LogInv, LogTyped, Closings
  <2>3. Cardinality({i \in DOMAIN w.file : w.file[i] # Marker}) <= MaxLogBytes
    <3> DEFINE bytes == {i \in DOMAIN w.file : w.file[i] # Marker}
    <3>1. /\ w.bytes \in Nat /\ w.bytes <= MaxLogBytes /\ MaxLogBytes \in Nat
          /\ Len(w.file) = w.bytes + (IF w.truncated THEN 1 ELSE 0)
          /\ w.truncated => w.file[w.bytes + 1] = Marker
      BY <2>2, WithinFacts DEF Within
    <3>2. ASSUME NEW i \in bytes PROVE i \in 1..w.bytes
      <4>1. i \in 1..Len(w.file) /\ w.file[i] # Marker
        BY <2>2
      <4>2. ~(w.truncated /\ i = w.bytes + 1)
        BY <3>1, <4>1
      <4> QED
        BY <3>1, <4>1, <4>2
    <3>3. IsFiniteSet(1..w.bytes) /\ Cardinality(1..w.bytes) = w.bytes
      <4>1. 1 \in Int /\ w.bytes \in Int /\ (IF 1 > w.bytes THEN 0 ELSE w.bytes - 1 + 1) = w.bytes
        BY <3>1
      <4> QED
        BY <4>1, FS_Interval
    <3>4. Cardinality(bytes) <= Cardinality(1..w.bytes) /\ Cardinality(bytes) \in Nat
      <4>1. bytes \in SUBSET (1..w.bytes)
        BY <3>2
      <4> QED
        BY <3>3, <4>1, FS_Subset, FS_CardinalityType
    <3> QED
      BY <3>1, <3>3, <3>4
  <2>4. ASSUME closed = "whole" PROVE IsPrefix(Bounded(out), w.file)
    <3>1. Begins(Bounded(out), w.file)
      BY <2>1, <2>4 DEF LogInv, CloseInv
    <3> QED
      BY <2>2, <3>1, BeginsFacts
  <2> QED
    BY <2>1, <2>3, <2>4
<1> QED
  BY <1>1, LogsHold, PTL

-----------------------------------------------------------------------------
(* The size of a bundle. *)

(* At most one power of ten is passed by adding nine.  (SMT is asked for by *)
(* name: Zenon would count up to these numbers.)                            *)
LEMMA PowersAreFarApart ==
  \A p, q \in Powers : p # 1 /\ q # 1 => p = q \/ p > q + 9 \/ q > p + 9
BY SMT DEF Powers

LEMMA PowersFacts == 1 \in Powers /\ Powers \subseteq Nat
BY SMT DEF Powers

LEMMA OneMore ==
  ASSUME NEW S, IsFiniteSet(S), NEW x
  PROVE  /\ IsFiniteSet(S \cup {x}) /\ Cardinality(S) \in Nat /\ Cardinality(S \cup {x}) \in Nat
         /\ Cardinality(S \cup {x}) <= Cardinality(S) + 1
<1>1. /\ Cardinality(S) \in Nat /\ IsFiniteSet(S \cup {x})
      /\ Cardinality(S \cup {x}) = IF x \in S THEN Cardinality(S) ELSE Cardinality(S) + 1
  BY FS_AddElement, FS_CardinalityType
<1> QED
  BY <1>1

LEMMA FiveMore ==
  ASSUME NEW S, IsFiniteSet(S), NEW a, NEW b, NEW c, NEW d, NEW e
  PROVE  LET T == S \cup {a, b, c, d, e} IN
         /\ IsFiniteSet(T) /\ Cardinality(S) \in Nat /\ Cardinality(T) \in Nat
         /\ Cardinality(T) <= Cardinality(S) + 5
<1>1. PICK A, B, C, D, T : /\ A = S \cup {a} /\ B = A \cup {b} /\ C = B \cup {c}
                           /\ D = C \cup {d} /\ T = D \cup {e}
  OBVIOUS
<1>2. /\ IsFiniteSet(A) /\ Cardinality(A) \in Nat /\ Cardinality(S) \in Nat
      /\ Cardinality(A) <= Cardinality(S) + 1
  BY <1>1, OneMore
<1>3. IsFiniteSet(B) /\ Cardinality(B) \in Nat /\ Cardinality(B) <= Cardinality(A) + 1
  BY <1>1, <1>2, OneMore
<1>4. IsFiniteSet(C) /\ Cardinality(C) \in Nat /\ Cardinality(C) <= Cardinality(B) + 1
  BY <1>1, <1>3, OneMore
<1>5. IsFiniteSet(D) /\ Cardinality(D) \in Nat /\ Cardinality(D) <= Cardinality(C) + 1
  BY <1>1, <1>4, OneMore
<1>6. IsFiniteSet(T) /\ Cardinality(T) \in Nat /\ Cardinality(T) <= Cardinality(D) + 1
  BY <1>1, <1>5, OneMore
<1>7. Cardinality(T) <= Cardinality(S) + 5
  BY <1>2, <1>3, <1>4, <1>5, <1>6
<1>8. T = S \cup {a, b, c, d, e}
  BY <1>1
<1> QED
  BY <1>2, <1>6, <1>7, <1>8

LEMMA TenPowers == IsFiniteSet(Powers) /\ Cardinality(Powers) <= 10
<1>1. PICK a, b, c, d, e, f, g, h, i, j :
        /\ a = 1 /\ b = 10 /\ c = 100 /\ d = 1000 /\ e = 10000 /\ f = 100000 /\ g = 1000000
        /\ h = 10000000 /\ i = 100000000 /\ j = 1000000000
  BY SMT
<1>2. Powers = {} \cup {a, b, c, d, e} \cup {f, g, h, i, j}
  BY <1>1, SMT DEF Powers
<1>3. IsFiniteSet({}) /\ Cardinality({}) = 0
  BY FS_EmptySet
<1>4. PICK small : small = {} \cup {a, b, c, d, e}
  OBVIOUS
<1>5. /\ IsFiniteSet(small) /\ Cardinality(small) \in Nat
      /\ Cardinality(small) <= Cardinality({}) + 5
  BY <1>3, <1>4, FiveMore, Zenon
<1>6. PICK all : all = small \cup {f, g, h, i, j}
  OBVIOUS
<1>7. /\ IsFiniteSet(all) /\ Cardinality(all) \in Nat
      /\ Cardinality(all) <= Cardinality(small) + 5
  BY <1>5, <1>6, FiveMore, Zenon
<1>8. Powers = all
  BY <1>2, <1>4, <1>6
<1> QED
  BY <1>3, <1>5, <1>7, <1>8

LEMMA DigitsFacts ==
  /\ \A n \in Nat : Digits(n) \in 1..10
  /\ \A m, n \in Nat : m <= n => Digits(m) <= Digits(n)
  /\ \A m, n \in Nat : m <= n /\ n <= m + 9 => Digits(n) <= Digits(m) + 1
<1> DEFINE Upto(n) == {p \in Powers : p <= n \/ p = 1}
<1>1. ASSUME NEW n \in Nat
      PROVE  /\ Upto(n) \in SUBSET Powers /\ IsFiniteSet(Upto(n)) /\ Digits(n) = Cardinality(Upto(n))
             /\ Digits(n) \in Nat /\ Digits(n) <= 10 /\ Digits(n) # 0
  <2>1. Upto(n) \in SUBSET Powers
    OBVIOUS
  <2>2. 1 \in Upto(n)
    BY PowersFacts
  <2> HIDE DEF Upto
  <2>3. /\ IsFiniteSet(Upto(n)) /\ Cardinality(Upto(n)) <= Cardinality(Powers)
        /\ Cardinality(Upto(n)) \in Nat /\ Cardinality(Powers) \in Nat
    BY <2>1, TenPowers, FS_Subset, FS_CardinalityType
  <2>4. Cardinality(Upto(n)) # 0
    BY <2>2, <2>3, FS_EmptySet
  <2>5. Digits(n) = Cardinality(Upto(n))
    BY DEF Digits, Upto
  <2>6. Cardinality(Upto(n)) <= 10
    BY <2>3, TenPowers
  <2> QED
    BY <2>1, <2>3, <2>4, <2>5, <2>6
<1>2. ASSUME NEW m \in Nat, NEW n \in Nat, m <= n PROVE Digits(m) <= Digits(n)
  <2>1. Upto(m) \in SUBSET Upto(n)
    <3>1. ASSUME NEW p \in Upto(m) PROVE p \in Upto(n)
      <4>1. p \in Powers /\ p \in Nat
        BY PowersFacts
      <4> QED
        BY <1>2, <4>1
    <3> QED
      BY <3>1
  <2> HIDE DEF Upto
  <2> QED
    BY <1>1, <2>1, FS_Subset
<1>3. ASSUME NEW m \in Nat, NEW n \in Nat, m <= n, n <= m + 9 PROVE Digits(n) <= Digits(m) + 1
  <2>1. CASE \E q \in Upto(n) : q \notin Upto(m)
    <3>1. PICK q \in Upto(n) : q \notin Upto(m)
      BY <2>1
    <3>2. ASSUME NEW p \in Upto(n) PROVE p \in Upto(m) \cup {q}
      <4>1. p \in Powers /\ q \in Powers /\ Powers \subseteq Nat
        BY <3>1, PowersFacts
      <4>2. q # 1 /\ q > m /\ q <= n
        BY <3>1, <4>1
      <4>3. CASE p # 1 /\ p > m
        <5>1. p <= n
          BY <4>3
        <5>2. p = q \/ p > q + 9 \/ q > p + 9
          BY <4>1, <4>2, <4>3, PowersAreFarApart
        <5> QED
          BY <1>3, <4>1, <4>2, <4>3, <5>1, <5>2
      <4> QED
        BY <4>1, <4>3
    <3>3. Upto(n) \in SUBSET (Upto(m) \cup {q})
      BY <3>2
    <3> HIDE DEF Upto
    <3>4. /\ IsFiniteSet(Upto(m) \cup {q})
          /\ Cardinality(Upto(m) \cup {q}) <= Cardinality(Upto(m)) + 1
      <4>1. IsFiniteSet(Upto(m))
        BY <1>1
      <4> QED
        BY <4>1, OneMore
    <3>5. Cardinality(Upto(n)) <= Cardinality(Upto(m) \cup {q})
          /\ Cardinality(Upto(m) \cup {q}) \in Nat
      BY <3>3, <3>4, FS_Subset, FS_CardinalityType
    <3> QED
      BY <1>1, <3>4, <3>5
  <2>2. CASE Upto(n) \in SUBSET Upto(m)
    <3> HIDE DEF Upto
    <3>1. Digits(n) <= Digits(m)
      BY <1>1, <2>2, FS_Subset
    <3> QED
      BY <1>1, <3>1
  <2> QED
    BY <2>1, <2>2
<1>4. ASSUME NEW n \in Nat PROVE Digits(n) \in 1..10
  <2>1. Digits(n) \in Nat /\ Digits(n) <= 10 /\ Digits(n) # 0
    BY <1>1
  <2> QED
    BY <2>1
<1> QED
  BY <1>2, <1>3, <1>4

(* Five attempts at a size that counts its own digits settle it. *)
LEMMA FiveAttempts ==
  ASSUME NEW content \in Nat, NEW s0 \in Nat, NEW s1, NEW s2, NEW s3, NEW s4, NEW s5,
         s1 = content + Digits(s0), s2 = content + Digits(s1), s3 = content + Digits(s2),
         s4 = content + Digits(s3), s5 = content + Digits(s4)
  PROVE  s5 \in Nat /\ s5 = content + Digits(s5)
<1>1. ASSUME NEW n \in Nat PROVE Digits(n) \in 1..10 /\ content + Digits(n) \in Nat
  BY <1>1, DigitsFacts
<1>2. s1 \in Nat /\ s2 \in Nat /\ s3 \in Nat /\ s4 \in Nat /\ s5 \in Nat
  BY <1>1
<1>3. PICK a, b, c, d : a = Digits(s1) /\ b = Digits(s2) /\ c = Digits(s3) /\ d = Digits(s4)
  OBVIOUS
<1>4. /\ a \in 1..10 /\ b \in 1..10 /\ c \in 1..10 /\ d \in 1..10
      /\ s2 = content + a /\ s3 = content + b /\ s4 = content + c
  BY <1>1, <1>2, <1>3
<1>5. PICK low : low = Digits(content + 1) /\ low \in 1..10
  BY <1>1
<1>6. ASSUME NEW n \in (content + 1)..(content + 10) PROVE Digits(n) = low \/ Digits(n) = low + 1
  <2>1. n \in Nat /\ content + 1 \in Nat /\ content + 1 <= n /\ n <= content + 1 + 9
    OBVIOUS
  <2>2. low <= Digits(n) /\ Digits(n) <= low + 1 /\ Digits(n) \in 1..10
    BY <1>1, <1>5, <2>1, DigitsFacts
  <2> QED
    BY <1>5, <2>2
<1>7. (a = low \/ a = low + 1) /\ (b = low \/ b = low + 1) /\ (c = low \/ c = low + 1)
  <2>1. /\ s1 \in (content + 1)..(content + 10) /\ s2 \in (content + 1)..(content + 10)
        /\ s3 \in (content + 1)..(content + 10)
    <3>1. Digits(s0) \in 1..10
      BY <1>1
    <3> QED
      BY <1>4, <3>1
  <2> QED
    BY <1>3, <1>6, <2>1
<1>8. /\ a <= b => b <= c
      /\ b <= a => c <= b
  <2>1. ASSUME a <= b PROVE b <= c
    <3>1. s2 <= s3
      BY <1>4, <2>1
    <3> QED
      BY <1>2, <1>3, <3>1, DigitsFacts
  <2>2. ASSUME b <= a PROVE c <= b
    <3>1. s3 <= s2
      BY <1>4, <2>2
    <3> QED
      BY <1>2, <1>3, <3>1, DigitsFacts
  <2> QED
    BY <2>1, <2>2
<1>9. b = c
  <2>1. CASE a = b
    BY <1>4, <1>8, <2>1
  <2>2. CASE a # b
    BY <1>4, <1>5, <1>7, <1>8, <2>2
  <2> QED
    BY <2>1, <2>2
<1>10. s4 = s3 /\ s5 = s4
  BY <1>3, <1>4, <1>9
<1> QED
  BY <1>2, <1>10

-----------------------------------------------------------------------------
(* The bundle. *)

Bundles == [next : 0..4, status : {"running"} \cup Ended, missing : SUBSET Kinds,
            logs : [Kinds -> Seq(Nat)], artifacts : SUBSET Listed, size : Nat]

\* No log is missing before it is looked for.
BundleTyped ==
  /\ bundle \in Bundles
  /\ \A i \in 1..2 : i >= bundle.next => Logs[i] \notin bundle.missing
  /\ row \in {"running"} \cup Ended

(* What the bundle has read of an ended run is what the run ended with. *)
BundleRead ==
  /\ bundle.status \in Ended =>
       /\ row \in Ended
       /\ closed = "whole" => \A i \in 1..2 : i < bundle.next =>
            /\ Logs[i] \notin bundle.missing
            /\ Begins(Bounded(closing[Logs[i]].output), bundle.logs[Logs[i]])
  /\ bundle.next > 3 =>
       /\ bundle.size = CalculateEntryContentByteCount(BundleEntries(bundle))
       /\ bundle.status \in Ended => bundle.artifacts = artifacts

BundleInv == BundleTyped /\ BundleRead

IInv == FileInv /\ LogInv /\ BundleInv

LEMMA LogsFacts ==
  /\ Len(Logs) = 2 /\ DOMAIN Logs = 1..2 /\ IsFiniteSet(Kinds)
  /\ Logs[1] # Logs[2] /\ \A i \in 1..2 : Logs[i] \in Kinds
  /\ \A k \in Kinds : \E i \in 1..2 : k = Logs[i]
<1>1. Len(Logs) = 2 /\ DOMAIN Logs = 1..2 /\ Logs[1] = "stdout" /\ Logs[2] = "debug-events"
  BY DEF Logs
<1>2. Kinds = {"stdout"} \cup {"debug-events"}
  BY <1>1 DEF Kinds, ToSet
<1>3. IsFiniteSet({"stdout"} \cup {"debug-events"})
  BY FS_Singleton, FS_Union
<1> QED
  BY <1>1, <1>2, <1>3

(* What a bundle counts besides the digits of its own size. *)
Content(b) ==
  BundleLayout + LogBytes(BundleEntries(b), Logs[1]) + LogBytes(BundleEntries(b), Logs[2])
    + Cardinality(b.artifacts) + Cardinality(b.missing)

Sized(b, size) == [b EXCEPT !.size = size]

LEMMA SizedFacts ==
  ASSUME NEW b \in Bundles, NEW size \in Nat
  PROVE  /\ Sized(b, size) \in Bundles /\ Sized(b, size).size = size
         /\ Content(Sized(b, size)) = Content(b)
         /\ Sized(b, size).next = b.next /\ Sized(b, size).status = b.status
         /\ Sized(b, size).missing = b.missing /\ Sized(b, size).logs = b.logs
         /\ Sized(b, size).artifacts = b.artifacts
<1>1. PICK c : c = Sized(b, size)
  OBVIOUS
<1>2. /\ c \in Bundles /\ c.size = size
      /\ c.next = b.next /\ c.status = b.status
      /\ c.missing = b.missing /\ c.logs = b.logs /\ c.artifacts = b.artifacts
  BY <1>1 DEF Bundles, Sized
<1>3. BundleEntries(c).logs = BundleEntries(b).logs
  BY <1>2 DEF BundleEntries
<1>4. Content(c) = Content(b)
  BY <1>2, <1>3 DEF Content, LogBytes
<1> QED
  BY <1>1, <1>2, <1>4

LEMMA CountFacts ==
  ASSUME NEW b \in Bundles, IsFiniteSet(b.artifacts)
  PROVE  /\ Content(b) \in Nat
         /\ CalculateEntryContentByteCount(BundleEntries(b)) = Content(b) + Digits(b.size)
         /\ CalculateEntryContentByteCount(BundleEntries(b)) \in Nat
<1>1. /\ b.missing \in SUBSET Kinds /\ b.logs \in [Kinds -> Seq(Nat)] /\ b.size \in Nat
  BY DEF Bundles
<1>2. Cardinality(b.artifacts) \in Nat /\ Cardinality(b.missing) \in Nat
  BY <1>1, LogsFacts, FS_Subset, FS_CardinalityType
<1>3. ASSUME NEW k PROVE LogBytes(BundleEntries(b), k) \in Nat
  <2>1. BundleEntries(b).logs = [j \in Kinds \ b.missing |-> b.logs[j]]
    BY DEF BundleEntries
  <2>2. CASE k \in Kinds \ b.missing
    <3>1. LogBytes(BundleEntries(b), k) = Len(b.logs[k]) /\ b.logs[k] \in Seq(Nat)
      BY <1>1, <2>1, <2>2 DEF LogBytes
    <3> QED
      BY <3>1
  <2>3. CASE k \notin Kinds \ b.missing
    BY <2>1, <2>3 DEF LogBytes
  <2> QED
    BY <2>2, <2>3
<1>4. PICK x, y : x = LogBytes(BundleEntries(b), Logs[1]) /\ y = LogBytes(BundleEntries(b), Logs[2])
  OBVIOUS
<1>5. x \in Nat /\ y \in Nat /\ BundleLayout \in Nat
  BY <1>3, <1>4, RunFilesAssumption
<1>6. Content(b) = BundleLayout + x + y + Cardinality(b.artifacts) + Cardinality(b.missing)
  BY <1>4 DEF Content
<1>7. Content(b) \in Nat
  BY <1>2, <1>5, <1>6
<1>8. CalculateEntryContentByteCount(BundleEntries(b)) = Content(b) + Digits(b.size)
  BY <1>4, <1>6 DEF CalculateEntryContentByteCount, BundleEntries
<1>9. Digits(b.size) \in 1..10
  BY <1>1, DigitsFacts
<1> QED
  BY <1>7, <1>8, <1>9

(* The size that goes into a bundle is the size of the bundle. *)
LEMMA SizeSettles ==
  ASSUME NEW b \in Bundles, IsFiniteSet(b.artifacts)
  PROVE  \E size \in Nat :
           /\ FinalizeDiagnosticsEntry(b) = Sized(b, size)
           /\ size = CalculateEntryContentByteCount(BundleEntries(Sized(b, size)))
<1>1. PICK content \in Nat : content = Content(b)
  BY CountFacts
<1>2. FinalizeDiagnosticsEntry(b) = Attempt(Attempt(Attempt(Attempt(Attempt(b)))))
  BY DEF FinalizeDiagnosticsEntry
<1>3. ASSUME NEW s \in Nat
      PROVE  content + Digits(s) \in Nat /\ Attempt(Sized(b, s)) = Sized(b, content + Digits(s))
  <2>1. PICK c : c = Sized(b, s)
    OBVIOUS
  <2>2. c \in Bundles /\ c.size = s /\ IsFiniteSet(c.artifacts) /\ Content(c) = content
    BY <1>1, <2>1, SizedFacts
  <2>3. Attempt(c) = Sized(c, content + Digits(s)) /\ content + Digits(s) \in Nat
    BY <2>2, CountFacts DEF Attempt, Sized
  <2>4. Sized(c, content + Digits(s)) = Sized(b, content + Digits(s))
    BY <2>1 DEF Sized, Bundles
  <2> QED
    BY <2>1, <2>3, <2>4
<1>4. PICK s0 \in Nat : s0 = b.size /\ b = Sized(b, s0)
  BY DEF Bundles, Sized
<1>5. PICK s1, s2, s3, s4, s5 :
        /\ s1 = content + Digits(s0) /\ s2 = content + Digits(s1) /\ s3 = content + Digits(s2)
        /\ s4 = content + Digits(s3) /\ s5 = content + Digits(s4)
  OBVIOUS
<1>6. s1 \in Nat /\ Attempt(b) = Sized(b, s1)
  BY <1>3, <1>4, <1>5
<1>7. s2 \in Nat /\ Attempt(Sized(b, s1)) = Sized(b, s2)
  BY <1>3, <1>5, <1>6
<1>8. s3 \in Nat /\ Attempt(Sized(b, s2)) = Sized(b, s3)
  BY <1>3, <1>5, <1>7
<1>9. s4 \in Nat /\ Attempt(Sized(b, s3)) = Sized(b, s4)
  BY <1>3, <1>5, <1>8
<1>10. s5 \in Nat /\ Attempt(Sized(b, s4)) = Sized(b, s5)
  BY <1>3, <1>5, <1>9
<1>11. FinalizeDiagnosticsEntry(b) = Sized(b, s5)
  BY <1>2, <1>6, <1>7, <1>8, <1>9, <1>10
<1>12. s5 = content + Digits(s5)
  BY <1>5, FiveAttempts
<1>13. CalculateEntryContentByteCount(BundleEntries(Sized(b, s5))) = content + Digits(s5)
  <2>1. PICK c : c = Sized(b, s5)
    OBVIOUS
  <2>2. c \in Bundles /\ c.size = s5 /\ IsFiniteSet(c.artifacts) /\ Content(c) = content
    BY <1>1, <1>10, <2>1, SizedFacts
  <2> QED
    BY <2>1, <2>2, CountFacts
<1> QED
  BY <1>10, <1>11, <1>12, <1>13

(* A run that has ended changes no more. *)
LEMMA EndedStays ==
  ASSUME FileInv, [Next]_vars, row \in Ended
  PROVE  UNCHANGED <<row, closed, closing, artifacts>>
<1>1. finish.pc = "done"
  BY DEF FileInv, EndInv
<1>2. CASE Upload \/ UploadFails \/ BundleDetail \/ BundleLog \/ BundleRows \/ UNCHANGED vars
  BY <1>2 DEF Upload, UploadFails, BundleDetail, BundleLog, BundleRows, vars
<1>3. CASE OpenRunLogs \/ UpsertRunLogPaths \/ Spawn
  BY <1>3 DEF OpenRunLogs, UpsertRunLogPaths, Spawn
<1>4. ASSUME NEW k \in Kinds, WriteLog(k) \/ \E size \in 1..2 : Output(k, size)
      PROVE  UNCHANGED <<row, closed, closing, artifacts>>
  BY <1>4 DEF WriteLog, Output
<1>5. ASSUME NEW f \in Files, WriteFile(f) PROVE UNCHANGED <<row, closed, closing, artifacts>>
  BY <1>5 DEF WriteFile
<1>6. CASE ChildCloses \/ CancelRun \/ StopRun
  BY <1>6 DEF ChildCloses, CancelRun, StopRun
<1>7. ~ScanArtifacts /\ ~FinalizeRunArtifacts /\ ~ArtifactScanFails
  BY <1>1 DEF ScanArtifacts, FinalizeRunArtifacts, ArtifactScanFails
<1>8. ~CloseRunLogHandle /\ ~LogsClosed /\ ~CommitTerminal /\ ~Crash
  BY <1>1 DEF CloseRunLogHandle, LogsClosed, CommitTerminal, Crash
<1> QED
  BY <1>2, <1>3, <1>4, <1>5, <1>6, <1>7, <1>8 DEF Next

LEMMA NoBundleFacts ==
  /\ NoBundle \in Bundles /\ NoBundle.next = 0 /\ NoBundle.status = "running"
  /\ NoBundle.status \notin Ended /\ NoBundle.missing = {}
BY DEF NoBundle, Bundles, Ended

LEMMA RowStep == ASSUME FileInv, BundleTyped, [Next]_vars PROVE row' \in {"running"} \cup Ended
<1>1. UNCHANGED row \/ row' = "interrupted" \/ row' = finish.status
  BY DEF Next, vars, uploadVars, OpenRunLogs, UpsertRunLogPaths, Spawn, WriteLog, Output, WriteFile,
         ChildCloses, CancelRun, StopRun, ScanArtifacts, FinalizeRunArtifacts, ArtifactScanFails,
         CloseRunLogHandle, LogsClosed, CommitTerminal, Crash, Upload, UploadFails,
         BundleDetail, BundleLog, BundleRows
<1> QED
  BY <1>1 DEF FileInv, ScanInv, Finishing, BundleTyped, Ended

Packed(next, status, missing, logs, rows, size) ==
  [next |-> next, status |-> status, missing |-> missing, logs |-> logs, artifacts |-> rows,
   size |-> size]

LEMMA BundleIsPacked ==
  ASSUME NEW b \in Bundles
  PROVE  \E n, t, m, l, a, z :
           /\ b = Packed(n, t, m, l, a, z)
           /\ b.next = n /\ b.status = t /\ b.missing = m /\ b.logs = l /\ b.artifacts = a
           /\ n \in 0..4 /\ t \in {"running"} \cup Ended /\ m \in SUBSET Kinds
           /\ l \in [Kinds -> Seq(Nat)] /\ a \in SUBSET Listed /\ z \in Nat
<1>1. b = Packed(b.next, b.status, b.missing, b.logs, b.artifacts, b.size)
  BY DEF Packed, Bundles
<1>2. /\ b.next \in 0..4 /\ b.status \in {"running"} \cup Ended /\ b.missing \in SUBSET Kinds
      /\ b.logs \in [Kinds -> Seq(Nat)] /\ b.artifacts \in SUBSET Listed /\ b.size \in Nat
  BY DEF Bundles
<1> QED
  BY <1>1, <1>2

LEMMA DetailRead == ASSUME IInv, BundleDetail PROVE BundleInv'
<1>1. /\ bundle \in Bundles /\ row \in {"running"} \cup Ended
      /\ bundle' = [bundle EXCEPT !.next = 1, !.status = row]
      /\ UNCHANGED <<row, closed, closing, artifacts>>
  BY DEF BundleDetail, IInv, BundleInv, BundleTyped
<1>2. /\ bundle' \in Bundles /\ bundle'.next = 1 /\ bundle'.status = row
      /\ bundle'.missing = bundle.missing
  <2>1. PICK n, t, m, l, a, z :
        /\ bundle = Packed(n, t, m, l, a, z)
        /\ bundle.next = n /\ bundle.status = t /\ bundle.missing = m
        /\ bundle.logs = l /\ bundle.artifacts = a
        /\ n \in 0..4 /\ t \in {"running"} \cup Ended /\ m \in SUBSET Kinds
        /\ l \in [Kinds -> Seq(Nat)] /\ a \in SUBSET Listed /\ z \in Nat
    BY <1>1, BundleIsPacked
  <2>2. PICK one \in 0..4 : one = 1
    OBVIOUS
  <2>3. bundle' = [[bundle EXCEPT !.next = one] EXCEPT !.status = row]
    BY <1>1, <2>2
  <2>4. [Packed(n, t, m, l, a, z) EXCEPT !.next = one] = Packed(one, t, m, l, a, z)
    BY DEF Packed
  <2>5. [Packed(one, t, m, l, a, z) EXCEPT !.status = row] = Packed(one, row, m, l, a, z)
    BY DEF Packed
  <2>6. bundle' = Packed(one, row, m, l, a, z)
    BY <2>1, <2>3, <2>4, <2>5
  <2> QED
    BY <1>1, <2>1, <2>2, <2>6 DEF Packed, Bundles
<1>3. \A i \in 1..2 : Logs[i] \notin bundle.missing
  <2>1. bundle.next = 0
    BY DEF BundleDetail
  <2> QED
    BY <2>1 DEF IInv, BundleInv, BundleTyped
<1>4. BundleTyped'
  BY <1>1, <1>2, <1>3 DEF BundleTyped
<1>5. BundleRead'
  <2>1. ASSUME NEW i \in 1..2 PROVE ~(i < 1)
    OBVIOUS
  <2> QED
    BY <1>1, <1>2, <2>1 DEF BundleRead
<1> QED
  BY <1>4, <1>5 DEF BundleInv

LEMMA LogRead == ASSUME IInv, BundleLog PROVE BundleInv'
<1>1. PICK b, n, k : b = bundle /\ n = b.next /\ k = Logs[n]
  OBVIOUS
<1>2. /\ b \in Bundles /\ n \in 1..2 /\ k \in Kinds
      /\ UNCHANGED <<row, closed, closing, artifacts>>
  BY <1>1, LogsFacts DEF BundleLog, IInv, BundleInv, BundleTyped
<1>3. CASE stored
  <2>1. PICK file : file = writer[k].file /\ file \in Seq(Nat)
    BY <1>2 DEF IInv, LogInv, LogTyped, Writer
  <2>2. bundle' = [b EXCEPT !.next = n + 1, !.logs[k] = file]
    BY <1>1, <1>3, <2>1 DEF BundleLog, RunLogDownload
  <2>3. /\ bundle' \in Bundles /\ bundle'.next = n + 1 /\ bundle'.status = b.status
        /\ bundle'.missing = b.missing
        /\ \A j \in Kinds : bundle'.logs[j] = IF j = k THEN file ELSE b.logs[j]
    <3>1. PICK nn, t, m, l, a, z :
          /\ b = Packed(nn, t, m, l, a, z)
          /\ b.next = nn /\ b.status = t /\ b.missing = m /\ b.logs = l /\ b.artifacts = a
          /\ nn \in 0..4 /\ t \in {"running"} \cup Ended /\ m \in SUBSET Kinds
          /\ l \in [Kinds -> Seq(Nat)] /\ a \in SUBSET Listed /\ z \in Nat
      BY <1>2, BundleIsPacked
    <3>2. PICK next \in 0..4 : next = n + 1
      BY <1>2
    <3>3. PICK logs : logs = [l EXCEPT ![k] = file]
      OBVIOUS
    <3>4. bundle' = [[b EXCEPT !.next = next] EXCEPT !.logs = logs]
      BY <2>2, <3>1, <3>2, <3>3
    <3>5. [Packed(nn, t, m, l, a, z) EXCEPT !.next = next] = Packed(next, t, m, l, a, z)
      BY DEF Packed
    <3>6. [Packed(next, t, m, l, a, z) EXCEPT !.logs = logs] = Packed(next, t, m, logs, a, z)
      BY DEF Packed
    <3>7. bundle' = Packed(next, t, m, logs, a, z)
      BY <3>1, <3>4, <3>5, <3>6
    <3>8. /\ bundle' \in Bundles /\ bundle'.next = next /\ bundle'.status = t
          /\ bundle'.missing = m /\ bundle'.logs = logs
      <4>1. logs \in [Kinds -> Seq(Nat)]
        <5>1. PICK S : S = Seq(Nat)
          OBVIOUS
        <5> QED
          BY <1>2, <2>1, <3>1, <3>3, <5>1
      <4> QED
        BY <3>1, <3>2, <3>7, <4>1 DEF Packed, Bundles
    <3>9. \A j \in Kinds : logs[j] = IF j = k THEN file ELSE l[j]
      BY <3>1, <3>3
    <3> QED
      BY <3>1, <3>2, <3>8, <3>9
  <2>4. ASSUME b.status \in Ended, closed = "whole", NEW i \in 1..2, i < n + 1
        PROVE  /\ Logs[i] \notin b.missing
               /\ Begins(Bounded(closing[Logs[i]].output), bundle'.logs[Logs[i]])
    <3>1. Begins(Bounded(closing[k].output), file)
      BY <1>2, <2>1, <2>4 DEF IInv, LogInv, CloseInv
    <3>2. CASE i = n
      <4>1. Logs[i] = k /\ bundle'.logs[k] = file
        BY <1>1, <1>2, <2>3, <3>2
      <4>2. k \notin b.missing
        BY <1>1, <1>2 DEF IInv, BundleInv, BundleTyped
      <4> QED
        BY <3>1, <4>1, <4>2
    <3>3. CASE i # n
      <4>1. i < n /\ Logs[i] \in Kinds
        BY <1>2, <2>4, <3>3, LogsFacts
      <4>2. /\ Logs[i] \notin b.missing
            /\ Begins(Bounded(closing[Logs[i]].output), b.logs[Logs[i]])
        BY <1>1, <2>4, <4>1 DEF IInv, BundleInv, BundleRead
      <4>3. bundle'.logs[Logs[i]] = IF Logs[i] = k THEN file ELSE b.logs[Logs[i]]
        BY <2>3, <4>1
      <4> QED
        BY <3>1, <4>2, <4>3
    <3> QED
      BY <3>2, <3>3
  <2>5. BundleTyped'
    <3>1. ASSUME NEW i \in 1..2, i >= n + 1 PROVE Logs[i] \notin b.missing
      BY <1>1, <1>2, <3>1 DEF IInv, BundleInv, BundleTyped
    <3> QED
      BY <1>2, <2>3, <3>1 DEF IInv, BundleInv, BundleTyped
  <2>6. BundleRead'
    BY <1>1, <1>2, <2>3, <2>4 DEF IInv, BundleInv, BundleRead
  <2> QED
    BY <2>5, <2>6 DEF BundleInv
<1>4. CASE ~stored
  <2>1. bundle' = [b EXCEPT !.next = n + 1, !.missing = b.missing \cup {k}]
    BY <1>1, <1>4 DEF BundleLog, RunLogDownload
  <2>2. /\ bundle' \in Bundles /\ bundle'.next = n + 1 /\ bundle'.status = b.status
        /\ bundle'.missing = b.missing \cup {k}
    <3>1. PICK nn, t, m, l, a, z :
          /\ b = Packed(nn, t, m, l, a, z)
          /\ b.next = nn /\ b.status = t /\ b.missing = m /\ b.logs = l /\ b.artifacts = a
          /\ nn \in 0..4 /\ t \in {"running"} \cup Ended /\ m \in SUBSET Kinds
          /\ l \in [Kinds -> Seq(Nat)] /\ a \in SUBSET Listed /\ z \in Nat
      BY <1>2, BundleIsPacked
    <3>2. PICK next, missing : next = n + 1 /\ missing = m \cup {k}
      OBVIOUS
    <3>3. next \in 0..4 /\ missing \in SUBSET Kinds
      BY <1>2, <3>1, <3>2
    <3>4. bundle' = [[b EXCEPT !.next = next] EXCEPT !.missing = missing]
      BY <2>1, <3>1, <3>2
    <3>5. [Packed(nn, t, m, l, a, z) EXCEPT !.next = next] = Packed(next, t, m, l, a, z)
      BY DEF Packed
    <3>6. [Packed(next, t, m, l, a, z) EXCEPT !.missing = missing]
            = Packed(next, t, missing, l, a, z)
      BY DEF Packed
    <3>7. bundle' = Packed(next, t, missing, l, a, z)
      BY <3>1, <3>4, <3>5, <3>6
    <3> QED
      BY <3>1, <3>2, <3>3, <3>7 DEF Packed, Bundles
  <2>3. closed # "whole"
    BY <1>4 DEF IInv, LogInv, CloseInv
  <2>4. BundleTyped'
    <3>1. ASSUME NEW i \in 1..2, i >= n + 1 PROVE Logs[i] \notin b.missing \cup {k}
      <4>1. i = 2 /\ n = 1
        BY <1>2, <3>1
      <4>2. Logs[i] \notin b.missing
        BY <1>1, <4>1 DEF IInv, BundleInv, BundleTyped
      <4> QED
        BY <1>1, <4>1, <4>2, LogsFacts
    <3> QED
      BY <1>2, <2>2, <3>1 DEF IInv, BundleInv, BundleTyped
  <2>5. BundleRead'
    BY <1>1, <1>2, <2>2, <2>3 DEF IInv, BundleInv, BundleRead
  <2> QED
    BY <2>4, <2>5 DEF BundleInv
<1> QED
  BY <1>3, <1>4

LEMMA RowsRead == ASSUME IInv, BundleRows PROVE BundleInv'
<1>1. PICK b : b = bundle
  OBVIOUS
<1>2. PICK c : c = [b EXCEPT !.next = @ + 1, !.artifacts = artifacts]
  OBVIOUS
<1>3. /\ b \in Bundles /\ b.next = 3 /\ row \in {"running"} \cup Ended
      /\ artifacts \subseteq Listed /\ IsFiniteSet(artifacts)
      /\ UNCHANGED <<row, closed, closing, artifacts>>
  BY <1>1, LogsFacts DEF BundleRows, IInv, BundleInv, BundleTyped, FileInv, ScanInv
<1>4. /\ c \in Bundles /\ c.next = 4 /\ c.status = b.status /\ c.missing = b.missing
      /\ c.logs = b.logs /\ c.artifacts = artifacts
  <2>1. PICK n, t, m, l, a, z :
        /\ b = Packed(n, t, m, l, a, z)
        /\ b.next = n /\ b.status = t /\ b.missing = m /\ b.logs = l /\ b.artifacts = a
        /\ n \in 0..4 /\ t \in {"running"} \cup Ended /\ m \in SUBSET Kinds
        /\ l \in [Kinds -> Seq(Nat)] /\ a \in SUBSET Listed /\ z \in Nat
    BY <1>3, BundleIsPacked
  <2>2. PICK next \in 0..4 : next = b.next + 1 /\ next = 4
    BY <1>3
  <2>3. c = [[b EXCEPT !.next = next] EXCEPT !.artifacts = artifacts]
    BY <1>2, <2>2
  <2>4. [Packed(n, t, m, l, a, z) EXCEPT !.next = next] = Packed(next, t, m, l, a, z)
    BY DEF Packed
  <2>5. [Packed(next, t, m, l, a, z) EXCEPT !.artifacts = artifacts]
          = Packed(next, t, m, l, artifacts, z)
    BY DEF Packed
  <2>6. c = Packed(next, t, m, l, artifacts, z)
    BY <2>1, <2>3, <2>4, <2>5
  <2> QED
    BY <1>3, <2>1, <2>2, <2>6 DEF Packed, Bundles
<1>5. PICK size \in Nat : /\ FinalizeDiagnosticsEntry(c) = Sized(c, size)
                          /\ size = CalculateEntryContentByteCount(BundleEntries(Sized(c, size)))
  BY <1>3, <1>4, SizeSettles
<1>6. bundle' = NoBundle \/ bundle' = Sized(c, size)
  BY <1>1, <1>2, <1>5 DEF BundleRows, ListArtifactsForRun
<1>7. CASE bundle' = NoBundle
  BY <1>3, <1>7, NoBundleFacts DEF BundleInv, BundleTyped, BundleRead
<1>8. CASE bundle' = Sized(c, size)
  <2>1. /\ bundle' \in Bundles /\ bundle'.size = size /\ bundle'.next = 4
        /\ bundle'.status = b.status /\ bundle'.missing = b.missing /\ bundle'.logs = b.logs
        /\ bundle'.artifacts = artifacts
    BY <1>4, <1>8, SizedFacts
  <2>2. bundle'.size = CalculateEntryContentByteCount(BundleEntries(bundle'))
    BY <1>5, <1>8, <2>1
  <2>3. ASSUME b.status \in Ended, closed = "whole", NEW i \in 1..2
        PROVE  /\ Logs[i] \notin b.missing
               /\ Begins(Bounded(closing[Logs[i]].output), b.logs[Logs[i]])
    <3>1. i < b.next
      BY <1>3
    <3> QED
      BY <1>1, <2>3, <3>1 DEF IInv, BundleInv, BundleRead
  <2> QED
    BY <1>1, <1>3, <2>1, <2>2, <2>3 DEF IInv, BundleInv, BundleTyped, BundleRead,
         CalculateEntryContentByteCount
<1> QED
  BY <1>6, <1>7, <1>8

LEMMA BundleStep == ASSUME IInv, [Next]_vars PROVE BundleInv'
<1>1. CASE BundleDetail \/ BundleLog \/ BundleRows
  BY <1>1, DetailRead, LogRead, RowsRead
<1>2. CASE bundle' = bundle
  <2>1. BundleTyped'
    BY <1>2, RowStep DEF IInv, BundleInv, BundleTyped
  <2>2. CASE row \in Ended
    <3>1. UNCHANGED <<row, closed, closing, artifacts>>
      BY <2>2, EndedStays DEF IInv
    <3> QED
      BY <1>2, <2>1, <3>1 DEF IInv, BundleInv, BundleRead
  <2>3. CASE row \notin Ended
    BY <1>2, <2>1, <2>3 DEF IInv, BundleInv, BundleRead
  <2> QED
    BY <2>2, <2>3
<1>3. CASE bundle' = NoBundle
  BY <1>3, RowStep, NoBundleFacts DEF IInv, BundleInv, BundleTyped, BundleRead
<1>4. BundleDetail \/ BundleLog \/ BundleRows \/ bundle' = bundle \/ bundle' = NoBundle
  BY DEF Next, vars, OpenRunLogs, UpsertRunLogPaths, Spawn, WriteLog, Output, WriteFile,
         ChildCloses, CancelRun, StopRun, ScanArtifacts, FinalizeRunArtifacts, ArtifactScanFails,
         CloseRunLogHandle, LogsClosed, CommitTerminal, Crash, Upload, UploadFails
<1> QED
  BY <1>1, <1>2, <1>3, <1>4

(* A review bundle names its own size: five attempts are enough, because a   *)
(* size changes by at most nine from one to the next, and by one digit.  And *)
(* a bundle that calls the run ended has what the run ended with: the run    *)
(* is read first, and after its end nothing the bundle reads changes.        *)
THEOREM BundleIsFinal == Spec => []BundleOfEndedRunIsFinal
<1>1. Init => BundleInv
  BY NoBundleFacts DEF Init, BundleInv, BundleTyped, BundleRead
<1>2. BundleInv /\ FileInv /\ LogInv => BundleOfEndedRunIsFinal
  <2> SUFFICES ASSUME BundleInv, LogInv, bundle.next > Len(Logs) + 1 PROVE
        /\ BundleEntries(bundle).diagnostics.size
             = CalculateEntryContentByteCount(BundleEntries(bundle))
        /\ BundleEntries(bundle).manifest \in Ended =>
             /\ BundleEntries(bundle).artifacts = artifacts
             /\ closed = "whole" =>
                  \A k \in Kinds : /\ k \in DOMAIN BundleEntries(bundle).logs
                                   /\ IsPrefix(Bounded(closing[k].output),
                                               BundleEntries(bundle).logs[k])
    BY DEF BundleOfEndedRunIsFinal
  <2>1. PICK b : b = bundle
    OBVIOUS
  <2>2. b \in Bundles /\ b.next > 3
    BY <2>1, LogsFacts DEF BundleInv, BundleTyped
  <2>3. /\ BundleEntries(b).diagnostics.size = b.size /\ BundleEntries(b).manifest = b.status
        /\ BundleEntries(b).artifacts = b.artifacts
        /\ BundleEntries(b).logs = [k \in Kinds \ b.missing |-> b.logs[k]]
    BY DEF BundleEntries
  <2>4. /\ b.size = CalculateEntryContentByteCount(BundleEntries(b))
        /\ b.status \in Ended => b.artifacts = artifacts
    BY <2>1, <2>2 DEF BundleInv, BundleRead
  <2>5. ASSUME b.status \in Ended, closed = "whole", NEW k \in Kinds
        PROVE  /\ k \in DOMAIN BundleEntries(b).logs
               /\ IsPrefix(Bounded(closing[k].output), BundleEntries(b).logs[k])
    <3>1. PICK i \in 1..2 : k = Logs[i]
      BY LogsFacts
    <3>2. i < b.next
      BY <2>2, <3>1 DEF Bundles
    <3>3. k \notin b.missing /\ Begins(Bounded(closing[k].output), b.logs[k])
      BY <2>1, <2>5, <3>1, <3>2 DEF BundleInv, BundleRead
    <3>4. Bounded(closing[k].output) \in Seq(Nat) /\ b.logs[k] \in Seq(Nat)
      BY <2>2, BoundedIsSequence DEF LogInv, LogTyped, Closings, Bundles
    <3> QED
      BY <2>3, <3>3, <3>4, BeginsFacts
  <2> QED
    BY <2>1, <2>3, <2>4, <2>5
<1>3. BundleInv /\ FileInv /\ LogInv /\ [Next]_vars => BundleInv'
  BY BundleStep DEF IInv
<1> QED
  BY <1>1, <1>2, <1>3, FilesHold, LogsHold, PTL DEF Spec
=============================================================================
