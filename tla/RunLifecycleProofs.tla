------------------------- MODULE RunLifecycleProofs -------------------------
(***************************************************************************)
(* Proofs about the run queue and the lifecycle of runs, for every number  *)
(* of runs, workspaces and profiles, every limit and every number of       *)
(* restarts.  In six parts: what one pass over the queue guarantees; the   *)
(* inductive invariant of RunLifecycle; the kinds of its steps; the limits *)
(* and the order they keep; the contract they implement; and that a pass   *)
(* is the loop of RunQueueLoop, on its own scheduler and in a daemon.      *)
(***************************************************************************)
EXTENDS RunLifecycle, RunQueueLoop, FiniteSetTheorems, WellFoundedInduction, TLAPS

-----------------------------------------------------------------------------
(* What selectDispatchableRuns guarantees about the limits, for every set  *)
(* of queued and busy runs.                                                *)

(* Among finitely many runs one has the largest sequence number. *)
LEMMA LastOfFiniteSet ==
    ASSUME NEW S, IsFiniteSet(S), S # {},
           NEW seq, \A s \in S : seq[s] \in Nat
    PROVE  \E m \in S : \A s \in S : seq[s] <= seq[m]
<1> DEFINE After(m) == {s \in S : seq[m] < seq[s]}
           Family == {After(m) : m \in S}
<1>1. Family \subseteq FiniteSubsetsOf(S)
  <2> SUFFICES ASSUME NEW m \in S PROVE After(m) \in FiniteSubsetsOf(S)
    OBVIOUS
  <2>1. After(m) \in SUBSET S
    OBVIOUS
  <2>2. IsFiniteSet(After(m))
    BY <2>1, FS_Subset
  <2> QED
    BY <2>1, <2>2 DEF FiniteSubsetsOf
<1>2. PICK A \in Family : \A B \in Family : <<B, A>> \notin StrictSubsetOrdering(S)
  <2>1. Family # {}
    OBVIOUS
  <2> HIDE DEF Family
  <2> QED
    BY <1>1, <2>1, FS_StrictSubsetOrderingWellFounded, WFMin
<1>3. PICK m \in S : A = After(m)
  OBVIOUS
<1>4. \A s \in S : seq[s] <= seq[m]
  <2> SUFFICES ASSUME NEW t \in S, seq[m] < seq[t] PROVE FALSE
    OBVIOUS
  <2>1. After(t) \subseteq After(m) /\ t \in After(m) /\ t \notin After(t)
    OBVIOUS
  <2>2. <<After(t), After(m)>> \in StrictSubsetOrdering(S)
    BY <2>1 DEF StrictSubsetOrdering
  <2> QED
    BY <1>2, <1>3, <2>2
<1> QED
  BY <1>4

(* If each member of S, added after those before it, still finds room next *)
(* to F, then all of S has room.                                           *)
LEMMA RoomForAll ==
    ASSUME NEW S, IsFiniteSet(S), NEW F, IsFiniteSet(F), NEW limit \in Nat,
           Cardinality(F) <= limit,
           NEW seq, \A s \in S : seq[s] \in Nat,
           \A s, t \in S : seq[s] = seq[t] => s = t,
           \A s \in S : Cardinality(F \cup Before(S, s, seq)) < limit
    PROVE  Cardinality(F \cup S) <= limit
<1>1. CASE S = {}
  <2>1. F \cup S = F
    BY <1>1
  <2> QED
    BY <2>1
<1>2. CASE S # {}
  <2>1. PICK m \in S : \A s \in S : seq[s] <= seq[m]
    BY <1>2, LastOfFiniteSet
  <2> DEFINE Rest == F \cup Before(S, m, seq)
  <2>2. F \cup S = Rest \cup {m}
    <3>1. \A s \in S : s = m \/ seq[s] < seq[m]
      BY <2>1
    <3> QED
      BY <3>1 DEF Before
  <2>3. IsFiniteSet(Rest)
    <3>1. Before(S, m, seq) \in SUBSET S
      BY DEF Before
    <3>2. IsFiniteSet(Before(S, m, seq))
      BY <3>1, FS_Subset
    <3> QED
      BY <3>2, FS_Union
  <2>4. Cardinality(Rest) < limit
    OBVIOUS
  <2> HIDE DEF Rest
  <2>5. Cardinality(Rest \cup {m}) <= Cardinality(Rest) + 1
    <3>1. Cardinality(Rest) \in Nat
      BY <2>3, FS_CardinalityType
    <3>2. Cardinality(Rest \cup {m}) = IF m \in Rest THEN Cardinality(Rest) ELSE Cardinality(Rest) + 1
      BY <2>3, FS_AddElement
    <3> QED
      BY <3>1, <3>2
  <2>6. Cardinality(Rest) \in Nat /\ Cardinality(Rest \cup {m}) \in Nat
    <3>1. IsFiniteSet(Rest \cup {m})
      BY <2>3, FS_AddElement
    <3> QED
      BY <2>3, <3>1, FS_CardinalityType
  <2> QED
    BY <2>2, <2>4, <2>5, <2>6
<1> QED
  BY <1>1, <1>2

(* The three limits of canStartCandidate, for a set of runs. *)
WithinLimits(F) ==
    /\ Cardinality(F) <= GlobalConcurrency
    /\ \A p \in Profiles : Cardinality(OfProfile(F, p)) <= ProfileConcurrency[p]
    /\ \A a, b \in F : WorkspaceOf[a] = WorkspaceOf[b] => a = b

(* A set within the limits stays within them when runs leave it. *)
LEMMA SubsetWithinLimits ==
    ASSUME NEW F \in SUBSET Runs, NEW G \in SUBSET F, WithinLimits(F)
    PROVE  WithinLimits(G)
<1>1. IsFiniteSet(F)
  BY RunsAssumption, FS_Subset
<1>2. IsFiniteSet(G) /\ Cardinality(G) <= Cardinality(F)
  BY <1>1, FS_Subset
<1>3. Cardinality(F) \in Nat /\ Cardinality(G) \in Nat
  BY <1>1, <1>2, FS_CardinalityType
<1>4. Cardinality(G) <= GlobalConcurrency
  BY <1>2, <1>3, LimitsAssumption DEF WithinLimits
<1>5. ASSUME NEW p \in Profiles
      PROVE  Cardinality(OfProfile(G, p)) <= ProfileConcurrency[p]
  <2>1. OfProfile(F, p) \in SUBSET F /\ OfProfile(G, p) \in SUBSET OfProfile(F, p)
    BY DEF OfProfile
  <2>2. IsFiniteSet(OfProfile(F, p))
    BY <1>1, <2>1, FS_Subset
  <2>3. IsFiniteSet(OfProfile(G, p)) /\ Cardinality(OfProfile(G, p)) <= Cardinality(OfProfile(F, p))
    BY <2>1, <2>2, FS_Subset
  <2>4. Cardinality(OfProfile(F, p)) \in Nat /\ Cardinality(OfProfile(G, p)) \in Nat
    BY <2>2, <2>3, FS_CardinalityType
  <2>5. ProfileConcurrency[p] \in Nat /\ Cardinality(OfProfile(F, p)) <= ProfileConcurrency[p]
    BY LimitsAssumption DEF WithinLimits
  <2> QED
    BY <2>3, <2>4, <2>5
<1> QED
  BY <1>4, <1>5 DEF WithinLimits

(* What a dispatch selects next to the busy runs keeps every set of busy   *)
(* runs that is within the limits within them.                             *)
LEMMA SelectionWithinLimits ==
    ASSUME NEW queued \in SUBSET Runs, NEW busy \in SUBSET Runs,
           NEW F \in SUBSET busy, WithinLimits(F),
           NEW seq, \A s \in queued : seq[s] \in Nat,
           \A s, t \in queued : seq[s] = seq[t] => s = t,
           NEW S, IsSelection(S, queued, busy, seq)
    PROVE  WithinLimits(F \cup S)
<1>1. S \subseteq queued /\ \A s \in S : CanStart(s, busy \cup Before(S, s, seq))
  BY DEF IsSelection
<1>2. IsFiniteSet(F) /\ IsFiniteSet(S) /\ IsFiniteSet(busy)
  BY <1>1, RunsAssumption, FS_Subset
<1>3. \A s \in S : Before(S, s, seq) \in SUBSET S
  BY DEF Before
<1>4. Cardinality(F \cup S) <= GlobalConcurrency
  <2>1. ASSUME NEW s \in S
        PROVE  Cardinality(F \cup Before(S, s, seq)) < GlobalConcurrency
    <3> DEFINE B == busy \cup Before(S, s, seq)
               C == F \cup Before(S, s, seq)
    <3>1. Cardinality(B) < GlobalConcurrency
      BY <1>1 DEF CanStart
    <3>2. IsFiniteSet(B)
      BY <1>1, <1>2, <1>3, FS_Subset, FS_Union
    <3>3. C \in SUBSET B
      OBVIOUS
    <3> HIDE DEF B, C
    <3>4. IsFiniteSet(C) /\ Cardinality(C) <= Cardinality(B)
      BY <3>2, <3>3, FS_Subset
    <3>5. Cardinality(B) \in Nat /\ Cardinality(C) \in Nat
      BY <3>2, <3>4, FS_CardinalityType
    <3> QED
      BY <3>1, <3>4, <3>5, LimitsAssumption DEF C
  <2> QED
    BY <1>1, <1>2, <2>1, RoomForAll, LimitsAssumption DEF WithinLimits
<1>5. ASSUME NEW p \in Profiles
      PROVE  Cardinality(OfProfile(F \cup S, p)) <= ProfileConcurrency[p]
  <2> DEFINE Fp == OfProfile(F, p)
             Sp == OfProfile(S, p)
  <2>1. OfProfile(F \cup S, p) = Fp \cup Sp /\ Fp \in SUBSET F /\ Sp \in SUBSET S
    BY DEF OfProfile
  <2>2. IsFiniteSet(Fp) /\ IsFiniteSet(Sp)
    BY <1>2, <2>1, FS_Subset
  <2>3. ASSUME NEW s \in Sp
        PROVE  Cardinality(Fp \cup Before(Sp, s, seq)) < ProfileConcurrency[p]
    <3> DEFINE B == OfProfile(busy \cup Before(S, s, seq), p)
               C == Fp \cup Before(Sp, s, seq)
    <3>1. s \in S /\ ProfileOf[s] = p
      BY DEF OfProfile
    <3>2. Cardinality(B) < ProfileConcurrency[p]
      BY <1>1, <3>1 DEF CanStart
    <3>3. IsFiniteSet(busy \cup Before(S, s, seq))
      BY <1>2, <1>3, <3>1, FS_Subset, FS_Union
    <3>4. B \in SUBSET (busy \cup Before(S, s, seq)) /\ C \in SUBSET B
      BY <3>1 DEF OfProfile, Before
    <3> HIDE DEF B, C
    <3>5. IsFiniteSet(B)
      BY <3>3, <3>4, FS_Subset
    <3>6. IsFiniteSet(C) /\ Cardinality(C) <= Cardinality(B)
      BY <3>4, <3>5, FS_Subset
    <3>7. Cardinality(B) \in Nat /\ Cardinality(C) \in Nat
      BY <3>5, <3>6, FS_CardinalityType
    <3>8. ProfileConcurrency[p] \in Nat
      BY LimitsAssumption
    <3> QED
      BY <3>2, <3>6, <3>7, <3>8 DEF C
  <2>4. /\ ProfileConcurrency[p] \in Nat
        /\ Cardinality(Fp) <= ProfileConcurrency[p]
        /\ \A s \in Sp : seq[s] \in Nat
        /\ \A s, t \in Sp : seq[s] = seq[t] => s = t
    BY <1>1, <2>1, LimitsAssumption DEF WithinLimits
  <2> HIDE DEF Fp, Sp
  <2>5. Cardinality(Fp \cup Sp) <= ProfileConcurrency[p]
    BY <2>2, <2>3, <2>4, RoomForAll
  <2> QED
    BY <2>1, <2>5
<1>6. ASSUME NEW a \in F \cup S, NEW b \in F \cup S, WorkspaceOf[a] = WorkspaceOf[b]
      PROVE  a = b
  <2>1. CASE a \in F /\ b \in F
    BY <1>6, <2>1 DEF WithinLimits
  <2>2. ASSUME NEW s \in S, NEW f \in F, WorkspaceOf[s] = WorkspaceOf[f] PROVE FALSE
    BY <1>1, <2>2 DEF CanStart
  <2>3. ASSUME NEW s \in S, NEW t \in S, WorkspaceOf[s] = WorkspaceOf[t], seq[s] < seq[t] PROVE FALSE
    BY <1>1, <2>3 DEF CanStart, Before
  <2>4. CASE a \in S /\ b \in S
    <3>1. seq[a] \in Nat /\ seq[b] \in Nat
      BY <1>1, <2>4
    <3>2. seq[a] = seq[b]
      BY <1>6, <2>3, <2>4, <3>1
    <3> QED
      BY <1>1, <2>4, <3>2
  <2> QED
    BY <1>6, <2>1, <2>2, <2>4
<1> QED
  BY <1>4, <1>5, <1>6 DEF WithinLimits

(* A queued run is not passed over by a later one of its workspace and      *)
(* profile: what leaves room for the later one leaves room for it.          *)
LEMMA SelectionInOrder ==
    ASSUME NEW queued \in SUBSET Runs, NEW busy \in SUBSET Runs,
           NEW seq, \A s \in queued : seq[s] \in Nat,
           NEW S, IsSelection(S, queued, busy, seq),
           NEW a \in queued, NEW b \in S, seq[a] < seq[b],
           WorkspaceOf[a] = WorkspaceOf[b], ProfileOf[a] = ProfileOf[b]
    PROVE  FALSE
<1> DEFINE A == busy \cup Before(S, a, seq)
           B == busy \cup Before(S, b, seq)
           p == ProfileOf[a]
<1>1. S \in SUBSET queued /\ CanStart(b, B) /\ (CanStart(a, A) => a \in S)
  BY DEF IsSelection
<1>2. A \in SUBSET B /\ OfProfile(A, p) \in SUBSET OfProfile(B, p)
  BY <1>1 DEF Before, OfProfile
<1>3. B \in SUBSET Runs /\ OfProfile(B, p) \in SUBSET B
  BY <1>1 DEF Before, OfProfile
<1>4. p \in Profiles
  BY RunsAssumption
<1>5. /\ Cardinality(B) < GlobalConcurrency
      /\ Cardinality(OfProfile(B, p)) < ProfileConcurrency[p]
      /\ \A x \in B : WorkspaceOf[x] # WorkspaceOf[a]
  BY <1>1 DEF CanStart
<1>6. a \notin S
  BY <1>5 DEF Before
<1> HIDE DEF A, B, p
<1>7. IsFiniteSet(B) /\ IsFiniteSet(OfProfile(B, p))
  BY <1>3, RunsAssumption, FS_Subset
<1>8. /\ IsFiniteSet(A) /\ Cardinality(A) <= Cardinality(B)
      /\ IsFiniteSet(OfProfile(A, p)) /\ Cardinality(OfProfile(A, p)) <= Cardinality(OfProfile(B, p))
  BY <1>2, <1>7, FS_Subset
<1>9. /\ Cardinality(A) \in Nat /\ Cardinality(B) \in Nat
      /\ Cardinality(OfProfile(A, p)) \in Nat /\ Cardinality(OfProfile(B, p)) \in Nat
  BY <1>7, <1>8, FS_CardinalityType
<1>10. Cardinality(A) < GlobalConcurrency /\ Cardinality(OfProfile(A, p)) < ProfileConcurrency[p]
  BY <1>4, <1>5, <1>8, <1>9, LimitsAssumption
<1>11. CanStart(a, A)
  BY <1>2, <1>5, <1>10 DEF CanStart, p
<1> QED
  BY <1>1, <1>6, <1>11

-----------------------------------------------------------------------------
(* The inductive invariant. *)

(* What the fields of one run say about each other.  A run in the queue has *)
(* never been dispatched; one that has left the map, or is terminal in it,  *)
(* has been finished; one whose start is not stored yet has neither child   *)
(* nor timer, and only a cancel or a shutdown can have finished it.         *)
ShapeOf(r) ==
    LET s == state[r] IN
    /\ s.queue = "queued" => s.start = "none" /\ s.finish = "none" /\ s.seq > 0
    /\ s.queue = "terminal" => s.finish = "done"
    /\ s.queue = "absent" => s.finish = "done" \/ (s.start = "none" /\ s.finish = "none")
    /\ row[r].status = "absent" => s.queue = "absent" /\ s.start = "none" /\ s.finish = "none"
    /\ r \in creating => row[r].status = "absent" /\ s.seq > 0
    /\ s.seq < nextSequence
    /\ s.finish # "none" => s.result # "none"
    /\ s.start \in {"none", "mark"} => s.runner = "null" /\ s.timer = FALSE
    /\ s.start \in {"none", "mark"} /\ s.finish # "none" =>
            s.finish # "artifacts" /\ s.result \in {"canceled", "interrupted"}
    /\ r \in pending => row[r].status # "absent"

Shape == \A r \in Runs : ShapeOf(r)

(* Sequence numbers are handed out once. *)
DistinctSequence ==
    \A a, b \in Runs : state[a].seq = state[b].seq => a = b \/ state[a].seq = 0

Inv == TypeOK /\ nextSequence > 0 /\ Shape /\ DistinctSequence

LEMMA InitInv == Init => Inv
<1> SUFFICES ASSUME Init PROVE Inv
  OBVIOUS
<1>1. NoState \in RunState
  BY DEF NoState, RunState, QueueStatus, StartPoint, FinishPoint, Result
<1>2. [status |-> "absent", deliveries |-> {}] \in Rows
  BY DEF Rows
<1>3. TypeOK
  BY <1>1, <1>2 DEF Init, TypeOK, Phase
<1>4. Shape /\ DistinctSequence
  BY DEF Init, Shape, ShapeOf, DistinctSequence, NoState
<1> QED
  BY <1>3, <1>4 DEF Inv, Init

(* The operators that update one record return such a record. *)
LEMMA NoStateType == NoState \in RunState
  BY DEF NoState, RunState, QueueStatus, StartPoint, FinishPoint, Result

LEMMA FinishType ==
    ASSUME NEW s \in RunState, NEW status \in TerminalStatus, NEW f \in BOOLEAN
    PROVE  Finish(s, status, f) \in RunState
<1>1. AfterArtifacts(s) \in FinishPoint
  BY DEF AfterArtifacts, FinishPoint
<1>2. (IF f THEN "artifacts" ELSE AfterArtifacts(s)) \in FinishPoint
  BY <1>1 DEF FinishPoint
<1>3. "finishing" \in QueueStatus /\ status \in Result
  BY DEF QueueStatus, Result, TerminalStatus
<1> HIDE DEF FinishPoint, QueueStatus, Result
<1>4. [s EXCEPT !.finish = IF f THEN "artifacts" ELSE AfterArtifacts(s), !.result = status,
                !.queue = "finishing", !.timer = FALSE] \in RunState
  BY <1>2, <1>3 DEF RunState
<1> QED
  BY <1>4 DEF Finish

LEMMA CancelRunnerType ==
    ASSUME NEW s \in RunState
    PROVE  CancelRunner(s) \in RunState
  BY DEF CancelRunner, RunState

LEMMA RunnerCompletedType ==
    ASSUME NEW s \in RunState, NEW status \in TerminalStatus
    PROVE  RunnerCompleted(s, status) \in RunState
<1> DEFINE c == [s EXCEPT !.runner = "completed"]
<1>1. c \in RunState
  BY DEF RunState
<1>2. Finish(c, status, status # "canceled") \in RunState
  BY <1>1, FinishType
<1> QED
  BY <1>1, <1>2 DEF RunnerCompleted

LEMMA WriteStatusType ==
    ASSUME NEW w \in Rows, NEW status \in RunStatus
    PROVE  WriteStatus(w, status) \in Rows
  BY DEF WriteStatus, Rows

(* An action that gives one run a new state, and perhaps a new row. *)
LEMMA OneStateType ==
    ASSUME TypeOK, NEW r \in Runs, NEW s \in RunState, state' = [state EXCEPT ![r] = s]
    PROVE  state' \in [Runs -> RunState]
  BY DEF TypeOK

LEMMA TypeStep == Inv /\ [Next]_vars => TypeOK'
<1> SUFFICES ASSUME Inv, [Next]_vars PROVE TypeOK'
  OBVIOUS
<1> USE DEF Inv, TypeOK
<1>0. /\ "failed" \in TerminalStatus /\ "canceled" \in TerminalStatus
      /\ "succeeded" \in TerminalStatus /\ "interrupted" \in TerminalStatus
      /\ "running" \in RunStatus /\ "queued" \in RunStatus /\ TerminalStatus \subseteq RunStatus
  BY DEF TerminalStatus, RunStatus
<1>1. ASSUME NEW r \in Runs, CreateRun(r) PROVE TypeOK'
  <2>1. [state[r] EXCEPT !.seq = nextSequence] \in RunState
    BY DEF RunState
  <2>2. state' = [state EXCEPT ![r] = [state[r] EXCEPT !.seq = nextSequence]]
    BY <1>1 DEF CreateRun
  <2> QED
    BY <1>1, <2>1, <2>2 DEF CreateRun
<1>2. ASSUME NEW r \in Runs, InsertRun(r) PROVE TypeOK'
  <2>1. [state[r] EXCEPT !.queue = "queued"] \in RunState
    BY DEF RunState, QueueStatus
  <2>2. [status |-> "queued", deliveries |-> {"queued"}] \in Rows
    BY DEF Rows, RunStatus
  <2>3. state' = [state EXCEPT ![r] = [state[r] EXCEPT !.queue = "queued"]]
    BY <1>2 DEF InsertRun
  <2> QED
    BY <1>2, <2>1, <2>2, <2>3 DEF InsertRun, ScheduleDispatch
<1>3. ASSUME NEW r \in Runs, CancelRun(r) PROVE TypeOK'
  <2>1. Finish(state[r], "canceled", FALSE) \in RunState
    BY <1>0, FinishType
  <2>2. [CancelRunner(state[r]) EXCEPT !.timer = FALSE] \in RunState
    <3>1. CancelRunner(state[r]) \in RunState
      BY CancelRunnerType
    <3> HIDE DEF CancelRunner
    <3> QED
      BY <3>1 DEF RunState
  <2> QED
    BY <1>3, <2>1, <2>2 DEF CancelRun, ScheduleDispatch
<1>4. ASSUME NEW r \in Runs, MarkRunning(r) PROVE TypeOK'
  <2>1. WriteStatus(row[r], "running") \in Rows
    BY <1>0, WriteStatusType
  <2> DEFINE s == [state[r] EXCEPT !.start = "message",
                                   !.queue = IF @ = "absent" THEN @ ELSE "running"]
  <2>2. s \in RunState
    <3>1. "message" \in StartPoint /\ "running" \in QueueStatus
      BY DEF StartPoint, QueueStatus
    <3> QED
      BY <3>1, ZenonT(40) DEF RunState
  <2>3. state' = [state EXCEPT ![r] = s]
    BY <1>4 DEF MarkRunning
  <2> HIDE DEF s
  <2> QED
    BY <1>4, <2>1, <2>2, <2>3, ZenonT(40) DEF MarkRunning
<1>5. ASSUME NEW r \in Runs, MessageStarted(r) PROVE TypeOK'
  <2>2. [state[r] EXCEPT !.start = "logs"] \in RunState
    BY DEF RunState, StartPoint
  <2>3. state' = [state EXCEPT ![r] = [state[r] EXCEPT !.start = "logs"]]
    BY <1>5 DEF MessageStarted
  <2> QED
    BY <1>5, <2>2, <2>3 DEF MessageStarted
<1>6. ASSUME NEW r \in Runs, LogsOpened(r) PROVE TypeOK'
  <2>1. PICK next \in {"skill", "compose"} :
          state' = [state EXCEPT ![r].start = next, ![r].logOpen = TRUE, ![r].timer = TRUE]
    BY <1>6 DEF LogsOpened
  <2> DEFINE s == [state[r] EXCEPT !.start = next, !.logOpen = TRUE, !.timer = TRUE]
  <2>2. s \in RunState
    BY ZenonT(40) DEF RunState, StartPoint
  <2>3. state' = [state EXCEPT ![r] = s]
    BY <2>1
  <2> HIDE DEF s
  <2> QED
    BY <1>6, <2>2, <2>3 DEF LogsOpened
<1>7. ASSUME NEW r \in Runs, StartFails(r) PROVE state' \in [Runs -> RunState]
  <2>1. Finish(state[r], "failed", FALSE) \in RunState
    BY <1>0, FinishType
  <2>2. [Finish(state[r], "failed", FALSE) EXCEPT !.start = "returned"] \in RunState
    BY <2>1 DEF RunState, StartPoint
  <2> QED
    BY <1>7, <2>2 DEF StartFails
<1>8. ASSUME NEW r \in Runs, NEW p \in StartPoint, state' = [state EXCEPT ![r].start = p]
      PROVE state' \in [Runs -> RunState]
  <2>1. [state[r] EXCEPT !.start = p] \in RunState
    BY DEF RunState
  <2> QED
    BY <1>8, <2>1
<1>9. ASSUME NEW r \in Runs, SkillReady(r) PROVE TypeOK'
  <2>1. "returned" \in StartPoint /\ "compose" \in StartPoint
    BY DEF StartPoint
  <2> QED
    BY <1>7, <1>8, <1>9, <2>1 DEF SkillReady
<1>10. ASSUME NEW r \in Runs, PromptReady(r) PROVE TypeOK'
  <2>1. "probe" \in StartPoint
    BY DEF StartPoint
  <2> QED
    BY <1>7, <1>8, <1>10, <2>1 DEF PromptReady
<1>11. ASSUME NEW r \in Runs, Spawn(r) PROVE TypeOK'
  <2>1. [state[r] EXCEPT !.start = "returned", !.runner = "active"] \in RunState
    BY ZenonT(40) DEF RunState, StartPoint
  <2>2. RunnerCompleted(state[r], "failed") \in RunState
    BY <1>0, RunnerCompletedType
  <2>3. [RunnerCompleted(state[r], "failed") EXCEPT !.start = "returned"] \in RunState
    BY <2>2 DEF RunState, StartPoint
  <2>4. [state[r] EXCEPT !.start = "returned"] \in RunState
    BY DEF RunState, StartPoint
  <2>5. state' \in [Runs -> RunState]
    <3>1. CASE state' = [state EXCEPT ![r].start = "returned"]
      BY <2>4, <3>1
    <3>2. CASE state' = [state EXCEPT ![r].start = "returned", ![r].runner = "active"]
      BY <2>1, <3>2
    <3>3. CASE state' = [state EXCEPT ![r] = [RunnerCompleted(@, "failed") EXCEPT !.start = "returned"]]
      BY <2>3, <3>3
    <3> QED
      BY <1>11, <3>1, <3>2, <3>3 DEF Spawn
  <2> QED
    BY <1>11, <2>5 DEF Spawn
<1>12. ASSUME NEW r \in Runs, ArtifactsFinalized(r) PROVE TypeOK'
  <2>1. PICK status \in {state[r].result, "failed"} :
          state' = [state EXCEPT ![r].finish = AfterArtifacts(state[r]), ![r].result = status]
    BY <1>12 DEF ArtifactsFinalized
  <2> DEFINE s == [state[r] EXCEPT !.finish = AfterArtifacts(state[r]), !.result = status]
  <2>2. s \in RunState
    <3>1. AfterArtifacts(state[r]) \in FinishPoint /\ "failed" \in Result
      BY DEF FinishPoint, AfterArtifacts, Result
    <3> QED
      BY <3>1, ZenonT(40) DEF RunState
  <2>3. state' = [state EXCEPT ![r] = s]
    BY <2>1
  <2> HIDE DEF s
  <2> QED
    BY <1>12, <2>2, <2>3 DEF ArtifactsFinalized
<1>13. ASSUME NEW r \in Runs, LogsClosed(r) PROVE TypeOK'
  <2>1. [state[r] EXCEPT !.finish = "message", !.logOpen = FALSE] \in RunState
    BY ZenonT(40) DEF RunState, FinishPoint
  <2>2. state' = [state EXCEPT ![r] = [state[r] EXCEPT !.finish = "message", !.logOpen = FALSE]]
    BY <1>13 DEF LogsClosed
  <2> QED
    BY <1>13, <2>1, <2>2 DEF LogsClosed
<1>14. ASSUME NEW r \in Runs, Finishing(r) PROVE state[r].result \in TerminalStatus
  <2>1. state[r].result \in Result /\ state[r].result # "none"
    BY <1>14 DEF Finishing, Shape, ShapeOf, RunState
  <2> QED
    BY <2>1 DEF Result, TerminalStatus
<1>15. ASSUME NEW r \in Runs, MessageTerminal(r) PROVE TypeOK'
  <2>1. [state[r] EXCEPT !.finish = "commit"] \in RunState
    BY DEF RunState, FinishPoint
  <2>2. state' = [state EXCEPT ![r] = [state[r] EXCEPT !.finish = "commit"]]
    BY <1>15 DEF MessageTerminal
  <2> QED
    BY <1>15, <2>1, <2>2 DEF MessageTerminal
<1>16. ASSUME NEW r \in Runs, CommitTerminal(r) PROVE TypeOK'
  <2>1. state[r].result \in TerminalStatus
    BY <1>14, <1>16 DEF CommitTerminal, Finishing
  <2>2. WriteStatus(row[r], state[r].result) \in Rows
    BY <1>0, <2>1, WriteStatusType
  <2>3. [state[r] EXCEPT !.finish = "done", !.queue = "terminal"] \in RunState
    BY ZenonT(40) DEF RunState, FinishPoint, QueueStatus
  <2>4. state' = [state EXCEPT ![r] = [state[r] EXCEPT !.finish = "done", !.queue = "terminal"]]
    BY <1>16 DEF CommitTerminal
  <2> QED
    BY <1>16, <2>2, <2>3, <2>4 DEF CommitTerminal, ScheduleDispatch
<1>17. ASSUME NEW r \in Runs, Cleanup(r) PROVE TypeOK'
  <2>1. [state[r] EXCEPT !.queue = "absent"] \in RunState
    BY DEF RunState, QueueStatus
  <2>2. state' = [state EXCEPT ![r] = [state[r] EXCEPT !.queue = "absent"]]
    BY <1>17 DEF Cleanup
  <2> QED
    BY <1>17, <2>1, <2>2 DEF Cleanup
<1>18. ASSUME NEW r \in Runs, ChildExits(r) PROVE TypeOK'
  <2>1. \A status \in TerminalStatus : RunnerCompleted(state[r], status) \in RunState
    BY RunnerCompletedType
  <2>2. state' \in [Runs -> RunState]
    BY <1>0, <1>18, <2>1 DEF ChildExits
  <2> QED
    BY <1>18, <2>2 DEF ChildExits
<1>19. ASSUME NEW r \in Runs, RunnerFails(r) PROVE TypeOK'
  <2>1. RunnerCompleted(state[r], "failed") \in RunState
    BY <1>0, RunnerCompletedType
  <2> QED
    BY <1>19, <2>1 DEF RunnerFails
<1>20. ASSUME NEW r \in Runs, RunTimeout(r) PROVE TypeOK'
  <2> DEFINE fired == [state[r] EXCEPT !.timer = FALSE]
  <2>1. fired \in RunState
    BY DEF RunState
  <2>2. Finish(CancelRunner(fired), "failed", FALSE) \in RunState
    BY <1>0, <2>1, CancelRunnerType, FinishType
  <2>3. state' = [state EXCEPT ![r] = IF Terminal(r) THEN fired
                                      ELSE Finish(CancelRunner(fired), "failed", FALSE)]
    BY <1>20 DEF RunTimeout
  <2> HIDE DEF fired
  <2> QED
    BY <1>20, <2>1, <2>2, <2>3, ZenonT(40) DEF RunTimeout
<1>21. ASSUME NEW r \in Runs, InterruptNext(r) PROVE TypeOK'
  <2>1. Finish(state[r], "interrupted", FALSE) \in RunState
    BY <1>0, FinishType
  <2> QED
    BY <1>21, <2>1 DEF InterruptNext
<1>22. ASSUME NEW r \in Runs, Settled(r) PROVE TypeOK'
  BY <1>22 DEF Settled
<1>23. CASE Dispatch
  <2>1. \A r \in Runs : [state[r] EXCEPT !.queue = "starting", !.start = "mark"] \in RunState
    <3>1. "mark" \in StartPoint /\ "starting" \in QueueStatus
      BY DEF StartPoint, QueueStatus
    <3> QED
      BY <3>1, ZenonT(40) DEF RunState
  <2> QED
    BY <1>23, <2>1 DEF Dispatch
<1>24. CASE Shutdown
  <2>1. \A r \in Runs : [CancelRunner(state[r]) EXCEPT !.timer = FALSE] \in RunState
    <3> SUFFICES ASSUME NEW r \in Runs
                 PROVE  [CancelRunner(state[r]) EXCEPT !.timer = FALSE] \in RunState
      OBVIOUS
    <3>1. CancelRunner(state[r]) \in RunState
      BY CancelRunnerType
    <3> QED
      BY <3>1 DEF RunState
  <2>2. state' \in [Runs -> RunState]
    BY <1>24, <2>1 DEF Shutdown
  <2>3. pending' \subseteq Runs /\ awaited' \subseteq Runs
    BY <1>24 DEF Shutdown, Known
  <2>4. restarts' \in Nat /\ daemon' \in Phase /\ dispatchTimer' = FALSE
        /\ UNCHANGED <<creating, nextSequence, row, child>>
    BY <1>24 DEF Shutdown, Phase
  <2> QED
    BY <2>2, <2>3, <2>4
<1>25. CASE ShutdownDone
  BY <1>25, NoStateType DEF ShutdownDone, Forget, Phase
<1>26. CASE Crash
  <2>1. restarts' \in Nat
    BY <1>26 DEF Crash
  <2> QED
    BY <1>26, <2>1, NoStateType DEF Crash, Forget, Phase
<1>27. CASE Startup
  <2>1. \A r \in Runs : WriteStatus(row[r], "interrupted") \in Rows
    BY <1>0, WriteStatusType
  <2> QED
    BY <1>27, <2>1 DEF Startup, memory, Phase
<1>28. CASE UNCHANGED vars
  BY <1>28 DEF vars, memory
<1>29. CASE CloseServer \/ ShutdownResolves
  <2>1. restarts' \in Nat /\ daemon' \in Phase /\ UNCHANGED <<memory, row, child>>
    BY <1>29 DEF CloseServer, ShutdownResolves, Phase
  <2> QED
    BY <2>1 DEF memory
<1> QED
  BY <1>1, <1>2, <1>3, <1>4, <1>5, <1>6, <1>9, <1>10, <1>11, <1>12, <1>13, <1>15, <1>16, <1>17,
     <1>18, <1>19, <1>20, <1>21, <1>22, <1>23, <1>24, <1>25, <1>26, <1>27, <1>28, <1>29
     DEF Next, StartStep, FinishStep

-----------------------------------------------------------------------------
(* Shape and DistinctSequence are preserved. *)

(* What finishing a run leaves alone, and what it does to a run nobody has *)
(* finished.                                                               *)
FinishedFrom(t, s, status) ==
    /\ t.seq = s.seq /\ t.start = s.start
    /\ s.runner = "null" => t.runner = "null"
    /\ s.timer = FALSE => t.timer = FALSE
    /\ s.finish # "none" => t.finish = s.finish /\ t.queue = s.queue /\ t.result = s.result
    /\ s.finish = "none" => /\ t.finish \notin {"none", "artifacts", "done"}
                            /\ t.queue = "finishing"
                            /\ t.result = status

LEMMA FinishFacts ==
    ASSUME NEW s \in RunState, NEW status \in TerminalStatus
    PROVE  FinishedFrom(Finish(s, status, FALSE), s, status)
<1> DEFINE t == Finish(s, status, FALSE)
<1>1. CASE s.finish # "none"
  <2>1. t = s
    BY <1>1 DEF Finish, Untouched
  <2> QED
    BY <1>1, <2>1 DEF FinishedFrom
<1>2. CASE s.finish = "none"
  <2>1. t = [s EXCEPT !.finish = AfterArtifacts(s), !.result = status,
                      !.queue = "finishing", !.timer = FALSE]
    BY <1>2 DEF Finish, Untouched
  <2>2. AfterArtifacts(s) \notin {"none", "artifacts", "done"}
    BY DEF AfterArtifacts
  <2> HIDE DEF t
  <2>3. /\ t.seq = s.seq /\ t.start = s.start /\ t.runner = s.runner
        /\ t.finish = AfterArtifacts(s) /\ t.queue = "finishing" /\ t.result = status
        /\ t.timer = FALSE
    BY <2>1 DEF RunState
  <2>4. FinishedFrom(t, s, status)
    BY <1>2, <2>2, <2>3 DEF FinishedFrom
  <2> QED
    BY <2>4 DEF t
<1> QED
  BY <1>1, <1>2

LEMMA RunnerCompletedFacts ==
    ASSUME NEW s \in RunState, NEW status \in TerminalStatus
    PROVE  LET t == RunnerCompleted(s, status) IN
           /\ t.seq = s.seq /\ t.start = s.start
           /\ \/ /\ s.finish = "none"
                 /\ t.finish \notin {"none", "done"} /\ t.queue = "finishing" /\ t.result = status
              \/ t.finish = s.finish /\ t.queue = s.queue /\ t.result = s.result
<1> DEFINE c == [s EXCEPT !.runner = "completed"]
           point == IF status # "canceled" THEN "artifacts" ELSE AfterArtifacts(c)
           t == RunnerCompleted(s, status)
<1>1. /\ c \in RunState
      /\ c.seq = s.seq /\ c.start = s.start /\ c.timer = s.timer
      /\ c.finish = s.finish /\ c.queue = s.queue /\ c.result = s.result
  BY DEF RunState
<1>2. point \in {"artifacts", "logs", "message"}
  BY DEF AfterArtifacts
<1>3. t = IF Serving
          THEN IF c.finish # "none" THEN c
               ELSE [c EXCEPT !.finish = point, !.result = status,
                              !.queue = "finishing", !.timer = FALSE]
          ELSE c
  BY DEF RunnerCompleted, Finish, Untouched
<1> HIDE DEF c, point
<1>4. CASE Serving /\ c.finish = "none"
  <2>1. t = [c EXCEPT !.finish = point, !.result = status,
                      !.queue = "finishing", !.timer = FALSE]
    BY <1>3, <1>4
  <2> HIDE DEF t
  <2>2. /\ t.seq = c.seq /\ t.start = c.start
        /\ t.finish = point /\ t.queue = "finishing" /\ t.result = status
    BY <1>1, <2>1 DEF RunState
  <2>3. s.finish = "none"
    BY <1>1, <1>4
  <2> QED
    BY <1>1, <1>2, <2>2, <2>3 DEF t
<1>5. CASE ~(Serving /\ c.finish = "none")
  <2>1. t = c
    BY <1>3, <1>5
  <2> HIDE DEF t
  <2> QED
    BY <1>1, <2>1 DEF t
<1> QED
  BY <1>4, <1>5

LEMMA CancelRunnerFacts ==
    ASSUME NEW s \in RunState, NEW t, t = CancelRunner(s)
    PROVE  /\ t \in RunState
           /\ t.seq = s.seq /\ t.start = s.start /\ t.timer = s.timer
           /\ t.finish = s.finish /\ t.queue = s.queue /\ t.result = s.result
           /\ (t.runner = "null") <=> (s.runner = "null")
<1>1. t \in RunState
  BY CancelRunnerType
<1>2. t = [s EXCEPT !.runner = IF s.runner = "active" THEN "canceling" ELSE s.runner]
  BY DEF CancelRunner
<1>3. /\ t.seq = s.seq /\ t.start = s.start /\ t.timer = s.timer
      /\ t.finish = s.finish /\ t.queue = s.queue /\ t.result = s.result
      /\ t.runner = IF s.runner = "active" THEN "canceling" ELSE s.runner
  BY <1>2 DEF RunState
<1> QED
  BY <1>1, <1>3

(* What an update of one row, to a status it may have, does to the others. *)
LEMMA WriteStatusFacts ==
    ASSUME NEW w \in Rows, NEW status \in RunStatus
    PROVE  /\ WriteStatus(w, status).status = status
           /\ WriteStatus(w, status).deliveries = w.deliveries \cup {status}
           /\ WriteStatus(w, status) \in Rows
  BY DEF WriteStatus, Rows

LEMMA OneRowKept ==
    ASSUME TypeOK, NEW r \in Runs, NEW w, row' = [row EXCEPT ![r] = w],
           w.status # "absent", row[r].status # "absent"
    PROVE  \A q \in Runs : row'[q].status = "absent" <=> row[q].status = "absent"
<1> SUFFICES ASSUME NEW q \in Runs
             PROVE  row'[q].status = "absent" <=> row[q].status = "absent"
  OBVIOUS
<1>1. CASE q = r
  <2>1. row'[q] = w
    BY <1>1 DEF TypeOK
  <2> QED
    BY <1>1, <2>1
<1>2. CASE q # r
  <2>1. row'[q] = row[q]
    BY <1>2 DEF TypeOK
  <2> QED
    BY <2>1
<1> QED
  BY <1>1, <1>2

(* An action that changes the state of one run, whose row exists and whose *)
(* new state s is again of the right shape, and inserts no row.            *)
LEMMA OneRunShape ==
    ASSUME Inv, NEW r \in Runs, NEW s, state' = [state EXCEPT ![r] = s],
           UNCHANGED <<creating, nextSequence>>, pending' \subseteq pending,
           \A q \in Runs : row'[q].status = "absent" <=> row[q].status = "absent",
           row[r].status # "absent",
           s.seq = state[r].seq,
           s.queue = "queued" => state[r].queue = "queued" /\ s.start = "none" /\ s.finish = "none",
           s.queue = "terminal" => s.finish = "done",
           s.queue = "absent" => s.finish = "done" \/ (s.start = "none" /\ s.finish = "none"),
           s.finish # "none" => s.result # "none",
           s.start \in {"none", "mark"} =>
                /\ s.runner = "null" /\ s.timer = FALSE
                /\ s.finish # "none" => /\ s.finish # "artifacts"
                                        /\ s.result \in {"canceled", "interrupted"}
    PROVE  Shape' /\ DistinctSequence'
<1>1. state'[r] = s /\ \A q \in Runs \ {r} : state'[q] = state[q]
  BY DEF Inv, TypeOK
<1>2. \A q \in Runs : state'[q].seq = state[q].seq
  BY <1>1
<1>3. DistinctSequence'
  BY <1>2 DEF Inv, DistinctSequence
<1>4. ASSUME NEW q \in Runs, q # r PROVE ShapeOf(q)'
  BY <1>1, <1>4 DEF Inv, Shape, ShapeOf
<1>5. ShapeOf(r)'
  BY <1>1 DEF Inv, Shape, ShapeOf
<1> QED
  BY <1>3, <1>4, <1>5 DEF Shape

LEMMA OneRunFinishes ==
    ASSUME Inv, NEW r \in Runs, NEW status \in {"canceled", "interrupted"}, NEW s,
           state' = [state EXCEPT ![r] = s], FinishedFrom(s, state[r], status),
           UNCHANGED <<creating, nextSequence, pending, row>>, row[r].status # "absent"
    PROVE  Shape' /\ DistinctSequence'
<1>1. ShapeOf(r) /\ state[r] \in RunState /\ status # "none"
  BY DEF Inv, TypeOK, Shape, TerminalStatus
<1>2. /\ s.seq = state[r].seq
      /\ s.queue = "queued" => state[r].queue = "queued" /\ s.start = "none" /\ s.finish = "none"
      /\ s.queue = "terminal" => s.finish = "done"
      /\ s.queue = "absent" => s.finish = "done" \/ (s.start = "none" /\ s.finish = "none")
      /\ s.finish # "none" => s.result # "none"
      /\ s.start \in {"none", "mark"} =>
            /\ s.runner = "null" /\ s.timer = FALSE
            /\ s.finish # "none" => /\ s.finish # "artifacts"
                                    /\ s.result \in {"canceled", "interrupted"}
  BY <1>1 DEF ShapeOf, FinishedFrom, RunState
<1> QED
  BY <1>2, OneRunShape

LEMMA ShapeStep == Inv /\ [Next]_vars => Shape' /\ DistinctSequence' /\ nextSequence' > 0
<1> SUFFICES ASSUME Inv, [Next]_vars PROVE Shape' /\ DistinctSequence' /\ nextSequence' > 0
  OBVIOUS
<1> DEFINE Goal == Shape' /\ DistinctSequence' /\ nextSequence' > 0
<1>0. /\ \A r \in Runs : state[r] \in RunState
      /\ nextSequence \in Nat /\ nextSequence > 0
      /\ \A r \in Runs : ShapeOf(r)
      /\ "failed" \in TerminalStatus /\ "canceled" \in TerminalStatus
      /\ "succeeded" \in TerminalStatus /\ "interrupted" \in TerminalStatus
      /\ "running" \in RunStatus /\ "interrupted" \in RunStatus
  BY DEF Inv, TypeOK, Shape, TerminalStatus, RunStatus
<1>1. ASSUME NEW r \in Runs, CreateRun(r) PROVE Goal
  <2>1. /\ row[r].status = "absent" /\ r \notin creating
        /\ state' = [state EXCEPT ![r] = [state[r] EXCEPT !.seq = nextSequence]]
        /\ nextSequence' = nextSequence + 1 /\ creating' = creating \cup {r}
        /\ row' = row /\ pending' = pending
    BY <1>1 DEF CreateRun
  <2>2. /\ \A q \in Runs \ {r} : state'[q] = state[q]
        /\ state'[r] = [state[r] EXCEPT !.seq = nextSequence]
    BY <2>1 DEF Inv, TypeOK
  <2>3. /\ state'[r].seq = nextSequence /\ state'[r].queue = state[r].queue
        /\ state'[r].start = state[r].start /\ state'[r].finish = state[r].finish
        /\ state'[r].result = state[r].result /\ state'[r].runner = state[r].runner
        /\ state'[r].timer = state[r].timer
    BY <1>0, <2>2 DEF RunState
  <2>4. \A q \in Runs : state[q].seq \in Nat /\ state[q].seq < nextSequence
    BY <1>0 DEF ShapeOf, RunState
  <2>5. ASSUME NEW q \in Runs PROVE ShapeOf(q)'
    <3>1. CASE q = r
      BY <1>0, <2>1, <2>3, <3>1 DEF ShapeOf
    <3>2. CASE q # r
      BY <1>0, <2>1, <2>2, <2>4, <3>2 DEF ShapeOf
    <3> QED
      BY <3>1, <3>2
  <2>6. DistinctSequence'
    <3>1. \A q \in Runs \ {r} : state'[q].seq # state'[r].seq
      BY <1>0, <2>2, <2>3, <2>4
    <3> QED
      BY <2>2, <3>1, ZenonT(40) DEF Inv, DistinctSequence
  <2> QED
    BY <1>0, <2>1, <2>5, <2>6 DEF Shape
<1>2. ASSUME NEW r \in Runs, InsertRun(r) PROVE Goal
  <2>1. /\ r \in creating /\ creating' = creating \ {r}
        /\ state' = [state EXCEPT ![r] = [state[r] EXCEPT !.queue = "queued"]]
        /\ row' = [row EXCEPT ![r] = [status |-> "queued", deliveries |-> {"queued"}]]
        /\ nextSequence' = nextSequence /\ pending' = pending
    BY <1>2 DEF InsertRun
  <2>2. /\ \A q \in Runs \ {r} : state'[q] = state[q] /\ row'[q] = row[q]
        /\ state'[r] = [state[r] EXCEPT !.queue = "queued"]
        /\ row'[r].status = "queued"
    BY <2>1 DEF Inv, TypeOK
  <2>3. /\ state'[r].seq = state[r].seq /\ state'[r].queue = "queued"
        /\ state'[r].start = state[r].start /\ state'[r].finish = state[r].finish
        /\ state'[r].result = state[r].result /\ state'[r].runner = state[r].runner
        /\ state'[r].timer = state[r].timer
    BY <1>0, <2>2 DEF RunState
  <2>4. ASSUME NEW q \in Runs PROVE ShapeOf(q)'
    <3>1. CASE q = r
      BY <1>0, <2>1, <2>2, <2>3, <3>1 DEF ShapeOf
    <3>2. CASE q # r
      BY <1>0, <2>1, <2>2, <3>2 DEF ShapeOf
    <3> QED
      BY <3>1, <3>2
  <2>5. DistinctSequence'
    <3>1. \A q \in Runs : state'[q].seq = state[q].seq
      BY <2>2, <2>3
    <3> QED
      BY <3>1 DEF Inv, DistinctSequence
  <2> QED
    BY <1>0, <2>1, <2>4, <2>5 DEF Shape
<1>3. ASSUME NEW r \in Runs, CancelRun(r) PROVE Goal
  <2>1. /\ UNCHANGED <<creating, nextSequence, row, pending>>
        /\ state[r].queue # "absent" /\ row[r].status # "absent" /\ state[r].finish = "none"
    BY <1>0, <1>3 DEF CancelRun, Known, Untouched, ShapeOf
  <2>2. CASE state' = [state EXCEPT ![r] = Finish(@, "canceled", FALSE)]
    <3> DEFINE s == Finish(state[r], "canceled", FALSE)
    <3>1. state' = [state EXCEPT ![r] = s]
      BY <2>2
    <3>2. FinishedFrom(s, state[r], "canceled")
      BY <1>0, FinishFacts
    <3> HIDE DEF s
    <3> QED
      BY <1>0, <2>1, <3>1, <3>2, OneRunFinishes
  <2>3. CASE state' = [state EXCEPT ![r] = [CancelRunner(@) EXCEPT !.timer = FALSE]]
    <3> DEFINE c == CancelRunner(state[r])
               s == [c EXCEPT !.timer = FALSE]
    <3>1. state' = [state EXCEPT ![r] = s]
      BY <2>3
    <3>2. /\ c \in RunState
          /\ c.seq = state[r].seq /\ c.start = state[r].start
          /\ c.finish = state[r].finish /\ c.queue = state[r].queue /\ c.result = state[r].result
          /\ (c.runner = "null") <=> (state[r].runner = "null")
      BY <1>0, CancelRunnerFacts
    <3> HIDE DEF c
    <3>3. /\ s.seq = c.seq /\ s.start = c.start /\ s.runner = c.runner /\ s.timer = FALSE
          /\ s.finish = c.finish /\ s.queue = c.queue /\ s.result = c.result
      BY <3>2 DEF RunState
    <3> HIDE DEF s
    <3> QED
      BY <1>0, <2>1, <3>1, <3>2, <3>3, OneRunShape, ZenonT(40) DEF ShapeOf
  <2> QED
    BY <1>3, <2>2, <2>3 DEF CancelRun
<1>4. ASSUME NEW r \in Runs, MarkRunning(r) PROVE Goal
  <2> DEFINE s == [state[r] EXCEPT !.start = "message",
                                   !.queue = IF @ = "absent" THEN @ ELSE "running"]
  <2>1. /\ state[r].start = "mark" /\ row[r].status # "absent"
        /\ state' = [state EXCEPT ![r] = s]
        /\ row' = [row EXCEPT ![r] = WriteStatus(@, "running")]
        /\ UNCHANGED <<creating, nextSequence, pending>>
    BY <1>0, <1>4 DEF MarkRunning, At, ShapeOf
  <2>2. /\ s.seq = state[r].seq /\ s.start = "message" /\ s.runner = state[r].runner
        /\ s.timer = state[r].timer /\ s.finish = state[r].finish /\ s.result = state[r].result
        /\ s.queue = IF state[r].queue = "absent" THEN "absent" ELSE "running"
    BY <1>0 DEF RunState
  <2>3. \A q \in Runs : row'[q].status = "absent" <=> row[q].status = "absent"
    <3>1. /\ WriteStatus(row[r], "running").status = "running"
          /\ row' = [row EXCEPT ![r] = WriteStatus(row[r], "running")]
      BY <1>0, <2>1, WriteStatusFacts DEF Inv, TypeOK
    <3> QED
      BY <2>1, <3>1, OneRowKept DEF Inv
  <2> HIDE DEF s
  <2> QED
    BY <1>0, <2>1, <2>2, <2>3, OneRunShape, ZenonT(40) DEF ShapeOf
<1>5. ASSUME NEW r \in Runs, MessageStarted(r) PROVE Goal
  <2> DEFINE s == [state[r] EXCEPT !.start = "logs"]
  <2>1. /\ state[r].start = "message" /\ row[r].status # "absent"
        /\ state' = [state EXCEPT ![r] = s]
        /\ UNCHANGED <<creating, nextSequence, pending, row>>
    BY <1>0, <1>5 DEF MessageStarted, At, ShapeOf
  <2>2. /\ s.seq = state[r].seq /\ s.start = "logs" /\ s.runner = state[r].runner
        /\ s.timer = state[r].timer /\ s.finish = state[r].finish /\ s.result = state[r].result
        /\ s.queue = state[r].queue
    BY <1>0 DEF RunState
  <2> HIDE DEF s
  <2> QED
    BY <1>0, <2>1, <2>2, OneRunShape, ZenonT(40) DEF ShapeOf
<1>6. ASSUME NEW r \in Runs, LogsOpened(r) PROVE Goal
  <2>1. PICK next \in {"skill", "compose"} :
          state' = [state EXCEPT ![r].start = next, ![r].logOpen = TRUE, ![r].timer = TRUE]
    BY <1>6 DEF LogsOpened
  <2> DEFINE s == [state[r] EXCEPT !.start = next, !.logOpen = TRUE, !.timer = TRUE]
  <2>2. /\ state[r].start = "logs" /\ row[r].status # "absent"
        /\ state' = [state EXCEPT ![r] = s]
        /\ UNCHANGED <<creating, nextSequence, pending, row>>
    BY <1>0, <1>6, <2>1, ZenonT(40) DEF LogsOpened, At, ShapeOf
  <2>3. /\ s.seq = state[r].seq /\ s.start \notin {"none", "mark"}
        /\ s.finish = state[r].finish /\ s.result = state[r].result
        /\ s.queue = state[r].queue
    BY <1>0 DEF RunState
  <2> HIDE DEF s
  <2> QED
    BY <1>0, <2>2, <2>3, OneRunShape, ZenonT(40) DEF ShapeOf
<1>7. ASSUME NEW r \in Runs, StartFails(r), state[r].start # "none",
             UNCHANGED <<creating, nextSequence, pending, row>>
      PROVE  Goal
  <2> DEFINE f == Finish(state[r], "failed", FALSE)
             s == [f EXCEPT !.start = "returned"]
  <2>1. state' = [state EXCEPT ![r] = s] /\ row[r].status # "absent"
    BY <1>0, <1>7 DEF StartFails, ShapeOf
  <2>2. FinishedFrom(f, state[r], "failed")
    BY <1>0, FinishFacts
  <2>3. f \in RunState
    BY <1>0, FinishType
  <2> HIDE DEF f
  <2>4. /\ s.seq = f.seq /\ s.start = "returned" /\ s.finish = f.finish
        /\ s.queue = f.queue /\ s.result = f.result
    BY <2>3 DEF RunState
  <2> HIDE DEF s
  <2> QED
    BY <1>0, <1>7, <2>1, <2>2, <2>4, OneRunShape, ZenonT(40) DEF ShapeOf, FinishedFrom
<1>8. ASSUME NEW r \in Runs, NEW p \in StartPoint \ {"none", "mark"}, state[r].start # "none",
             state' = [state EXCEPT ![r].start = p],
             UNCHANGED <<creating, nextSequence, pending, row>>
      PROVE  Goal
  <2> DEFINE s == [state[r] EXCEPT !.start = p]
  <2>1. state' = [state EXCEPT ![r] = s] /\ row[r].status # "absent"
    BY <1>0, <1>8 DEF ShapeOf
  <2>2. /\ s.seq = state[r].seq /\ s.start = p /\ s.finish = state[r].finish
        /\ s.queue = state[r].queue /\ s.result = state[r].result
    BY <1>0 DEF RunState
  <2> HIDE DEF s
  <2>3. /\ s.seq = state[r].seq
        /\ s.queue = "queued" => state[r].queue = "queued" /\ s.start = "none" /\ s.finish = "none"
        /\ s.queue = "terminal" => s.finish = "done"
        /\ s.queue = "absent" => s.finish = "done" \/ (s.start = "none" /\ s.finish = "none")
        /\ s.finish # "none" => s.result # "none"
        /\ s.start \notin {"none", "mark"}
    BY <1>0, <1>8, <2>2 DEF ShapeOf
  <2> QED
    BY <1>8, <2>1, <2>3, <1>0, OneRunShape
<1>9. ASSUME NEW r \in Runs, SkillReady(r) PROVE Goal
  <2>1. /\ "returned" \in StartPoint \ {"none", "mark"}
        /\ "compose" \in StartPoint \ {"none", "mark"}
    BY DEF StartPoint
  <2> HIDE DEF Goal
  <2> QED
    BY <1>7, <1>8, <1>9, <2>1 DEF SkillReady, At
<1>10. ASSUME NEW r \in Runs, PromptReady(r) PROVE Goal
  <2>1. "probe" \in StartPoint \ {"none", "mark"}
    BY DEF StartPoint
  <2> HIDE DEF Goal
  <2> QED
    BY <1>7, <1>8, <1>10, <2>1 DEF PromptReady, At
<1>11. ASSUME NEW r \in Runs, Spawn(r) PROVE Goal
  <2>1. /\ state[r].start = "probe" /\ row[r].status # "absent"
        /\ UNCHANGED <<creating, nextSequence, pending, row>>
    BY <1>0, <1>11 DEF Spawn, At, ShapeOf
  <2>2. CASE state' = [state EXCEPT ![r].start = "returned"]
    BY <1>8, <2>1, <2>2 DEF StartPoint
  <2>3. CASE state' = [state EXCEPT ![r].start = "returned", ![r].runner = "active"]
    <3> DEFINE s == [state[r] EXCEPT !.start = "returned", !.runner = "active"]
    <3>1. state' = [state EXCEPT ![r] = s]
      BY <2>3
    <3>2. /\ s.seq = state[r].seq /\ s.start = "returned" /\ s.finish = state[r].finish
          /\ s.queue = state[r].queue /\ s.result = state[r].result
      BY <1>0 DEF RunState
    <3> HIDE DEF s
    <3> QED
      BY <1>0, <2>1, <3>1, <3>2, OneRunShape DEF ShapeOf
  <2>4. CASE state' = [state EXCEPT ![r] = [RunnerCompleted(@, "failed") EXCEPT !.start = "returned"]]
    <3> DEFINE c == RunnerCompleted(state[r], "failed")
               s == [c EXCEPT !.start = "returned"]
    <3>1. state' = [state EXCEPT ![r] = s]
      BY <2>4
    <3>2. c \in RunState
      BY <1>0, RunnerCompletedType
    <3>3. /\ c.seq = state[r].seq
          /\ \/ /\ c.finish \notin {"none", "done"} /\ c.queue = "finishing" /\ c.result = "failed"
             \/ c.finish = state[r].finish /\ c.queue = state[r].queue /\ c.result = state[r].result
      BY <1>0, RunnerCompletedFacts
    <3> HIDE DEF c
    <3>4. /\ s.seq = c.seq /\ s.start = "returned" /\ s.finish = c.finish
          /\ s.queue = c.queue /\ s.result = c.result
      BY <3>2 DEF RunState
    <3> HIDE DEF s
    <3> QED
      BY <1>0, <2>1, <3>1, <3>3, <3>4, OneRunShape, ZenonT(40) DEF ShapeOf
  <2> QED
    BY <1>11, <2>2, <2>3, <2>4 DEF Spawn
<1>12. ASSUME NEW r \in Runs, ArtifactsFinalized(r) PROVE Goal
  <2>1. PICK status \in {state[r].result, "failed"} :
          state' = [state EXCEPT ![r].finish = AfterArtifacts(state[r]), ![r].result = status]
    BY <1>12 DEF ArtifactsFinalized
  <2> DEFINE s == [state[r] EXCEPT !.finish = AfterArtifacts(state[r]), !.result = status]
  <2>2. /\ state[r].finish = "artifacts" /\ row[r].status # "absent"
        /\ state' = [state EXCEPT ![r] = s]
        /\ UNCHANGED <<creating, nextSequence, pending, row>>
    BY <1>0, <1>12, <2>1, ZenonT(40) DEF ArtifactsFinalized, ShapeOf
  <2>3. /\ s.seq = state[r].seq /\ s.start = state[r].start /\ s.finish \in {"logs", "message"}
        /\ s.queue = state[r].queue /\ s.result = status
        /\ s.runner = state[r].runner /\ s.timer = state[r].timer
    BY <1>0 DEF RunState, AfterArtifacts
  <2> HIDE DEF s
  <2> QED
    BY <1>0, <2>2, <2>3, OneRunShape, ZenonT(40) DEF ShapeOf
<1>13. ASSUME NEW r \in Runs, LogsClosed(r) PROVE Goal
  <2> DEFINE s == [state[r] EXCEPT !.finish = "message", !.logOpen = FALSE]
  <2>1. /\ state[r].finish = "logs" /\ row[r].status # "absent"
        /\ state' = [state EXCEPT ![r] = s]
        /\ UNCHANGED <<creating, nextSequence, pending, row>>
    BY <1>0, <1>13 DEF LogsClosed, ShapeOf
  <2>2. /\ s.seq = state[r].seq /\ s.start = state[r].start /\ s.finish = "message"
        /\ s.queue = state[r].queue /\ s.result = state[r].result
        /\ s.runner = state[r].runner /\ s.timer = state[r].timer
    BY <1>0 DEF RunState
  <2> HIDE DEF s
  <2> QED
    BY <1>0, <2>1, <2>2, OneRunShape, ZenonT(40) DEF ShapeOf
<1>14. ASSUME NEW r \in Runs, MessageTerminal(r) PROVE Goal
  <2> DEFINE s == [state[r] EXCEPT !.finish = "commit"]
  <2>1. /\ state[r].finish = "message" /\ row[r].status # "absent"
        /\ state' = [state EXCEPT ![r] = s]
        /\ UNCHANGED <<creating, nextSequence, pending, row>>
    BY <1>0, <1>14 DEF MessageTerminal, ShapeOf
  <2>2. /\ s.seq = state[r].seq /\ s.start = state[r].start /\ s.finish = "commit"
        /\ s.queue = state[r].queue /\ s.result = state[r].result
        /\ s.runner = state[r].runner /\ s.timer = state[r].timer
    BY <1>0 DEF RunState
  <2> HIDE DEF s
  <2> QED
    BY <1>0, <2>1, <2>2, OneRunShape, ZenonT(40) DEF ShapeOf
<1>15. ASSUME NEW r \in Runs, CommitTerminal(r) PROVE Goal
  <2> DEFINE s == [state[r] EXCEPT !.finish = "done", !.queue = "terminal"]
  <2>1. /\ state[r].finish = "commit" /\ row[r].status # "absent" /\ state[r].result # "none"
        /\ state' = [state EXCEPT ![r] = s]
        /\ row' = [row EXCEPT ![r] = WriteStatus(@, state[r].result)]
        /\ UNCHANGED <<creating, nextSequence, pending>>
    BY <1>0, <1>15 DEF CommitTerminal, ShapeOf
  <2>2. /\ s.seq = state[r].seq /\ s.start = state[r].start /\ s.finish = "done"
        /\ s.queue = "terminal" /\ s.result = state[r].result
        /\ s.runner = state[r].runner /\ s.timer = state[r].timer
    BY <1>0 DEF RunState
  <2>3. \A q \in Runs : row'[q].status = "absent" <=> row[q].status = "absent"
    <3>1. state[r].result \in TerminalStatus
      BY <1>0, <2>1 DEF RunState, Result, TerminalStatus
    <3>2. state[r].result \in RunStatus /\ state[r].result # "absent"
      BY <3>1 DEF RunStatus, TerminalStatus
    <3>3. /\ WriteStatus(row[r], state[r].result).status = state[r].result
          /\ row' = [row EXCEPT ![r] = WriteStatus(row[r], state[r].result)]
      BY <2>1, <3>2, WriteStatusFacts DEF Inv, TypeOK
    <3> QED
      BY <2>1, <3>2, <3>3, OneRowKept DEF Inv
  <2> HIDE DEF s
  <2> QED
    BY <1>0, <2>1, <2>2, <2>3, OneRunShape DEF ShapeOf
<1>16. ASSUME NEW r \in Runs, Cleanup(r) PROVE Goal
  <2> DEFINE s == [state[r] EXCEPT !.queue = "absent"]
  <2>1. /\ state[r].finish = "done" /\ row[r].status # "absent"
        /\ state' = [state EXCEPT ![r] = s]
        /\ UNCHANGED <<creating, nextSequence, pending, row>>
    BY <1>0, <1>16 DEF Cleanup, Terminal, ShapeOf
  <2>2. /\ s.seq = state[r].seq /\ s.start = state[r].start /\ s.finish = "done"
        /\ s.queue = "absent" /\ s.result = state[r].result
        /\ s.runner = state[r].runner /\ s.timer = state[r].timer
    BY <1>0, <2>1 DEF RunState
  <2> HIDE DEF s
  <2> QED
    BY <1>0, <2>1, <2>2, OneRunShape, ZenonT(40) DEF ShapeOf
<1>17. ASSUME NEW r \in Runs, NEW status \in TerminalStatus, state[r].runner # "null",
              state' = [state EXCEPT ![r] = RunnerCompleted(@, status)],
              UNCHANGED <<creating, nextSequence, pending, row>>
       PROVE  Goal
  <2> DEFINE s == RunnerCompleted(state[r], status)
  <2>1. /\ state' = [state EXCEPT ![r] = s] /\ row[r].status # "absent"
        /\ state[r].start \notin {"none", "mark"}
    BY <1>0, <1>17 DEF ShapeOf
  <2>2. /\ s.seq = state[r].seq /\ s.start = state[r].start
        /\ \/ /\ s.finish \notin {"none", "done"} /\ s.queue = "finishing" /\ s.result = status
           \/ s.finish = state[r].finish /\ s.queue = state[r].queue /\ s.result = state[r].result
    BY <1>0, RunnerCompletedFacts
  <2>3. status # "none"
    BY DEF TerminalStatus
  <2> HIDE DEF s
  <2>4. /\ s.seq = state[r].seq
        /\ s.queue = "queued" => state[r].queue = "queued" /\ s.start = "none" /\ s.finish = "none"
        /\ s.queue = "terminal" => s.finish = "done"
        /\ s.queue = "absent" => s.finish = "done" \/ (s.start = "none" /\ s.finish = "none")
        /\ s.finish # "none" => s.result # "none"
        /\ s.start \notin {"none", "mark"}
    BY <1>0, <1>17, <2>1, <2>2, <2>3 DEF ShapeOf
  <2> QED
    BY <1>0, <1>17, <2>1, <2>4, OneRunShape
<1>18. ASSUME NEW r \in Runs, ChildExits(r) PROVE Goal
  <2>1. UNCHANGED <<creating, nextSequence, pending, row>>
    BY <1>18 DEF ChildExits
  <2>2. CASE UNCHANGED state
    BY <1>0, <2>1, <2>2 DEF Inv, Shape, ShapeOf, DistinctSequence
  <2> HIDE DEF Goal
  <2> QED
    BY <1>0, <1>17, <1>18, <2>1, <2>2 DEF ChildExits
<1>19. ASSUME NEW r \in Runs, RunnerFails(r) PROVE Goal
  <2> HIDE DEF Goal
  <2> QED
    BY <1>0, <1>17, <1>19 DEF RunnerFails
<1>20. ASSUME NEW r \in Runs, RunTimeout(r) PROVE Goal
  <2> DEFINE fired == [state[r] EXCEPT !.timer = FALSE]
             c == CancelRunner(fired)
             f == Finish(c, "failed", FALSE)
             s == IF Terminal(r) THEN fired ELSE f
  <2>1. /\ state[r].timer /\ state[r].start \notin {"none", "mark"} /\ row[r].status # "absent"
        /\ state' = [state EXCEPT ![r] = s]
        /\ UNCHANGED <<creating, nextSequence, pending, row>>
    BY <1>0, <1>20 DEF RunTimeout, ShapeOf
  <2>2. /\ fired \in RunState
        /\ fired.seq = state[r].seq /\ fired.start = state[r].start
        /\ fired.finish = state[r].finish /\ fired.queue = state[r].queue
        /\ fired.result = state[r].result
    BY <1>0 DEF RunState
  <2> HIDE DEF fired
  <2>3. /\ c \in RunState
        /\ c.seq = fired.seq /\ c.start = fired.start
        /\ c.finish = fired.finish /\ c.queue = fired.queue /\ c.result = fired.result
    BY <2>2, CancelRunnerFacts
  <2> HIDE DEF c
  <2>4. FinishedFrom(f, c, "failed")
    BY <1>0, <2>3, FinishFacts
  <2> HIDE DEF f
  <2>5. /\ s.seq = state[r].seq /\ s.start = state[r].start
        /\ \/ /\ s.finish \notin {"none", "done"} /\ s.queue = "finishing" /\ s.result = "failed"
           \/ s.finish = state[r].finish /\ s.queue = state[r].queue /\ s.result = state[r].result
    BY <2>2, <2>3, <2>4 DEF FinishedFrom
  <2> HIDE DEF s
  <2> QED
    BY <1>0, <2>1, <2>5, OneRunShape, ZenonT(40) DEF ShapeOf
<1>21. ASSUME NEW r \in Runs, InterruptNext(r) PROVE Goal
  <2> DEFINE s == Finish(state[r], "interrupted", FALSE)
  <2>1. /\ r \in pending /\ row[r].status # "absent"
        /\ state' = [state EXCEPT ![r] = s]
        /\ UNCHANGED <<creating, nextSequence, pending, row>>
    BY <1>0, <1>21 DEF InterruptNext, ShapeOf
  <2>2. FinishedFrom(s, state[r], "interrupted")
    BY <1>0, FinishFacts
  <2> HIDE DEF s
  <2> QED
    BY <1>0, <2>1, <2>2, OneRunFinishes
<1>22. ASSUME NEW r \in Runs, Settled(r) PROVE Goal
  BY <1>0, <1>22 DEF Settled, Inv, Shape, ShapeOf, DistinctSequence
<1>23. ASSUME Dispatch PROVE Goal
  <2>1. PICK S \in SUBSET Queued :
          state' = [q \in Runs |-> IF q \in S
                                   THEN [state[q] EXCEPT !.queue = "starting", !.start = "mark"]
                                   ELSE state[q]]
    BY <1>23 DEF Dispatch
  <2>2. UNCHANGED <<creating, nextSequence, pending, row>>
    BY <1>23 DEF Dispatch
  <2>3. ASSUME NEW q \in Runs PROVE ShapeOf(q)' /\ state'[q].seq = state[q].seq
    <3>1. CASE q \notin S
      BY <1>0, <2>1, <2>2, <3>1 DEF ShapeOf
    <3>2. CASE q \in S
      <4>1. state'[q] = [state[q] EXCEPT !.queue = "starting", !.start = "mark"]
        BY <2>1, <3>2
      <4>2. /\ state'[q].queue = "starting" /\ state'[q].start = "mark"
            /\ state'[q].seq = state[q].seq /\ state'[q].finish = state[q].finish
            /\ state'[q].result = state[q].result /\ state'[q].runner = state[q].runner
            /\ state'[q].timer = state[q].timer
        BY <1>0, <4>1 DEF RunState
      <4>3. state[q].queue = "queued"
        BY <3>2 DEF Queued
      <4> QED
        BY <1>0, <2>2, <4>2, <4>3 DEF ShapeOf
    <3> QED
      BY <3>1, <3>2
  <2> QED
    BY <1>0, <2>2, <2>3 DEF Inv, Shape, DistinctSequence
<1>24. ASSUME Shutdown PROVE Goal
  <2> DEFINE open == {r \in Known : ~Terminal(r)}
  <2>1. /\ state' = [r \in Runs |-> IF r \in open /\ Untouched(state[r])
                                    THEN [CancelRunner(state[r]) EXCEPT !.timer = FALSE]
                                    ELSE state[r]]
        /\ pending' = open /\ UNCHANGED <<creating, nextSequence, row>>
    BY <1>24 DEF Shutdown
  <2>2. ASSUME NEW q \in Runs PROVE ShapeOf(q)' /\ state'[q].seq = state[q].seq
    <3>1. q \in open => row[q].status # "absent"
      BY <1>0 DEF Known, ShapeOf
    <3>2. CASE state'[q] = state[q]
      BY <1>0, <2>1, <3>1, <3>2, ZenonT(40) DEF ShapeOf
    <3>3. CASE state'[q] = [CancelRunner(state[q]) EXCEPT !.timer = FALSE]
      <4> DEFINE c == CancelRunner(state[q])
      <4>1. /\ c \in RunState
            /\ c.seq = state[q].seq /\ c.start = state[q].start
            /\ c.finish = state[q].finish /\ c.queue = state[q].queue /\ c.result = state[q].result
            /\ (c.runner = "null") <=> (state[q].runner = "null")
        BY <1>0, CancelRunnerFacts
      <4> HIDE DEF c
      <4>2. state'[q] = [c EXCEPT !.timer = FALSE]
        BY <3>3 DEF c
      <4>3. /\ state'[q].seq = c.seq /\ state'[q].start = c.start /\ state'[q].finish = c.finish
            /\ state'[q].queue = c.queue /\ state'[q].result = c.result
            /\ state'[q].runner = c.runner /\ state'[q].timer = FALSE
        BY <4>1, <4>2 DEF RunState
      <4> QED
        BY <1>0, <2>1, <3>1, <4>1, <4>3 DEF ShapeOf
    <3> QED
      BY <2>1, <3>2, <3>3
  <2> QED
    BY <1>0, <2>1, <2>2 DEF Inv, Shape, DistinctSequence
<1>25. ASSUME Forget PROVE Goal
  <2>1. /\ \A q \in Runs : state'[q] = NoState
        /\ creating' = {} /\ nextSequence' = 1 /\ pending' = {}
    BY <1>25 DEF Forget
  <2>2. Shape' /\ DistinctSequence'
    BY <2>1 DEF Shape, ShapeOf, DistinctSequence, NoState
  <2> QED
    BY <2>1, <2>2
<1>26. ASSUME Startup PROVE Goal
  <2>1. \A q \in Runs : row'[q].status = "absent" <=> row[q].status = "absent"
    <3>1. \A q \in Runs : row[q] \in Rows
      BY DEF Inv, TypeOK
    <3>2. \A q \in Runs : WriteStatus(row[q], "interrupted").status = "interrupted"
      BY <1>0, <3>1, WriteStatusFacts
    <3>3. \A q \in Runs : row'[q] = IF row[q].status \in {"queued", "running"}
                                    THEN WriteStatus(row[q], "interrupted")
                                    ELSE row[q]
      BY <1>26 DEF Startup
    <3> QED
      BY <3>2, <3>3
  <2>2. UNCHANGED <<state, creating, nextSequence, pending>>
    BY <1>26 DEF Startup, memory
  <2> QED
    BY <1>0, <2>1, <2>2 DEF Inv, Shape, ShapeOf, DistinctSequence
<1>27. ASSUME UNCHANGED vars \/ CloseServer \/ ShutdownResolves PROVE Goal
  <2>1. UNCHANGED <<state, creating, nextSequence, pending, row>>
    BY <1>27 DEF vars, memory, CloseServer, ShutdownResolves
  <2> QED
    BY <1>0, <2>1 DEF Inv, Shape, ShapeOf, DistinctSequence
<1> HIDE DEF Goal
<1>28. Goal
  <2>1. ASSUME NEW r \in Runs, StartStep(r) PROVE Goal
    BY <1>4, <1>5, <1>6, <1>9, <1>10, <1>11, <2>1 DEF StartStep
  <2>2. ASSUME NEW r \in Runs, FinishStep(r) PROVE Goal
    BY <1>12, <1>13, <1>14, <1>15, <2>2 DEF FinishStep
  <2>3. ASSUME ShutdownDone \/ Crash PROVE Goal
    BY <1>25, <2>3 DEF ShutdownDone, Crash
  <2>4. ASSUME NEW r \in Runs,
               \/ CreateRun(r) \/ InsertRun(r) \/ CancelRun(r) \/ Cleanup(r)
               \/ ChildExits(r) \/ RunnerFails(r) \/ RunTimeout(r)
               \/ InterruptNext(r) \/ Settled(r)
        PROVE  Goal
    BY <1>1, <1>2, <1>3, <1>16, <1>18, <1>19, <1>20, <1>21, <1>22, <2>4
  <2> QED
    BY <1>23, <1>24, <1>26, <1>27, <2>1, <2>2, <2>3, <2>4 DEF Next
<1> QED
  BY <1>28 DEF Goal

(* The state and the rows keep their types, and the fields of a run agree. *)
LEMMA Invariance == Spec => []Inv
<1>1. Inv /\ [Next]_vars => Inv'
  BY TypeStep, ShapeStep DEF Inv
<1> QED
  BY <1>1, InitInv, PTL DEF Spec
(* Type correctness. *)
THEOREM TypeCorrect == Spec => []TypeOK
  BY Invariance, PTL DEF Inv

-----------------------------------------------------------------------------
(* The steps of RunLifecycle by what they do to a run: most of them only   *)
(* carry startRun or finishRun on, or begin to finish a run.  The theorems *)
(* about the limits and about the rows are proved over these kinds.        *)

(* startRun of the run goes on, if it is past its mark, and its finish *)
(* begins, goes on, or is left alone; a run that is over gets no child. *)
Continues(s, t) ==
    /\ \/ t.start = s.start
       \/ s.start \notin {"none", "mark"} /\ t.start \notin {"none", "mark"}
    /\ \/ t.queue = s.queue /\ t.finish = s.finish /\ t.result = s.result
       \/ s.finish = "none" /\ t.finish \notin {"none", "done"} /\ t.queue = "finishing"
       \/ /\ t.queue = s.queue
          /\ s.finish \notin {"none", "done"} /\ t.finish \notin {"none", "done"}
    /\ s.finish = "done" /\ s.runner = "null" => t.runner = "null"

(* A step that changes no status in the database, and begins to finish only *)
(* runs that are known to the daemon.                                       *)
QuietStep ==
    /\ \A q \in Runs :
        /\ Continues(state[q], state'[q])
        /\ row'[q].status = row[q].status /\ row'[q].deliveries = row[q].deliveries
        /\ state[q].finish = "none" /\ state'[q].finish # "none"
            => state[q].start # "none" \/ state[q].queue # "absent" \/ q \in pending
    /\ daemon' = daemon /\ pending' \subseteq pending

LEMMA OneRunQuiet ==
    ASSUME Inv, NEW r \in Runs, NEW s, state' = [state EXCEPT ![r] = s],
           Continues(state[r], s),
           state[r].finish = "none" /\ s.finish # "none"
            => state[r].start # "none" \/ state[r].queue # "absent" \/ r \in pending,
           \A q \in Runs : row'[q].status = row[q].status /\ row'[q].deliveries = row[q].deliveries,
           daemon' = daemon, pending' = pending
    PROVE  QuietStep
<1>1. state'[r] = s /\ \A q \in Runs \ {r} : state'[q] = state[q]
  BY DEF Inv, TypeOK
<1>2. ASSUME NEW q \in Runs, q # r
      PROVE  Continues(state[q], state'[q]) /\ state'[q].finish = state[q].finish
  BY <1>1, <1>2 DEF Continues
<1> QED
  BY <1>1, <1>2 DEF QuietStep

LEMMA FinishContinues ==
    ASSUME NEW s \in RunState, NEW status \in TerminalStatus
    PROVE  Continues(s, Finish(s, status, FALSE))
<1> DEFINE t == Finish(s, status, FALSE)
<1>1. FinishedFrom(t, s, status)
  BY FinishFacts
<1> HIDE DEF t
<1>2. Continues(s, t)
  BY <1>1 DEF Continues, FinishedFrom
<1> QED
  BY <1>2 DEF t

LEMMA RunnerCompletedContinues ==
    ASSUME NEW s \in RunState, NEW status \in TerminalStatus,
           s.finish # "done" \/ s.runner # "null"
    PROVE  Continues(s, RunnerCompleted(s, status))
<1> DEFINE t == RunnerCompleted(s, status)
<1>1. /\ t.start = s.start
      /\ \/ /\ s.finish = "none"
            /\ t.finish \notin {"none", "done"} /\ t.queue = "finishing"
         \/ t.finish = s.finish /\ t.queue = s.queue /\ t.result = s.result
  BY RunnerCompletedFacts
<1> HIDE DEF t
<1>2. Continues(s, t)
  BY <1>1 DEF Continues
<1> QED
  BY <1>2 DEF t

(* The steps that are not quiet. *)
LoudStep ==
    \/ \E r \in Runs : InsertRun(r) \/ MarkRunning(r) \/ CommitTerminal(r) \/ Cleanup(r)
    \/ Dispatch \/ CloseServer \/ Shutdown \/ ShutdownResolves \/ Forget \/ Startup

LEMMA StartStepKinds ==
    ASSUME Inv, NEW r \in Runs, StartStep(r)
    PROVE  QuietStep \/ MarkRunning(r)
<1>0. /\ state[r] \in RunState /\ row \in [Runs -> Rows]
      /\ "failed" \in TerminalStatus
  BY DEF Inv, TypeOK, TerminalStatus
<1>1. state[r].start # "none"
  BY DEF StartStep, MarkRunning, MessageStarted, LogsOpened, SkillReady, PromptReady, Spawn, At
<1>2. ASSUME NEW s, state' = [state EXCEPT ![r] = s], Continues(state[r], s),
             UNCHANGED <<row, daemon, pending>>
      PROVE  QuietStep
  BY <1>1, <1>2, OneRunQuiet
<1>3. CASE MessageStarted(r)
  <2> DEFINE s == [state[r] EXCEPT !.start = "logs"]
  <2>1. /\ state' = [state EXCEPT ![r] = s] /\ UNCHANGED <<row, daemon, pending>>
        /\ state[r].start = "message"
    BY <1>3 DEF MessageStarted, At
  <2>2. Continues(state[r], s)
    BY <1>0, <2>1 DEF Continues, RunState
  <2> HIDE DEF s
  <2> QED
    BY <1>2, <2>1, <2>2
<1>4. ASSUME NEW p \in StartPoint \ {"none", "mark"}, state[r].start # "mark",
             state' = [state EXCEPT ![r].start = p], UNCHANGED <<row, daemon, pending>>
      PROVE  QuietStep
  <2> DEFINE s == [state[r] EXCEPT !.start = p]
  <2>1. state' = [state EXCEPT ![r] = s] /\ Continues(state[r], s)
    BY <1>0, <1>1, <1>4 DEF Continues, RunState
  <2> HIDE DEF s
  <2> QED
    BY <1>2, <1>4, <2>1
<1>5. CASE LogsOpened(r)
  <2>1. PICK next \in {"skill", "compose"} :
          state' = [state EXCEPT ![r].start = next, ![r].logOpen = TRUE, ![r].timer = TRUE]
    BY <1>5 DEF LogsOpened
  <2> DEFINE s == [state[r] EXCEPT !.start = next, !.logOpen = TRUE, !.timer = TRUE]
  <2>2. state' = [state EXCEPT ![r] = s] /\ Continues(state[r], s)
    BY <1>0, <1>5, <2>1 DEF LogsOpened, At, Continues, RunState
  <2> HIDE DEF s
  <2> QED
    BY <1>2, <1>5, <2>2 DEF LogsOpened
<1>6. ASSUME StartFails(r), state[r].start # "mark", UNCHANGED <<row, daemon, pending>>
      PROVE  QuietStep
  <2> DEFINE f == Finish(state[r], "failed", FALSE)
             s == [f EXCEPT !.start = "returned"]
  <2>1. f \in RunState /\ Continues(state[r], f) /\ state' = [state EXCEPT ![r] = s]
    BY <1>0, <1>6, FinishType, FinishContinues DEF StartFails
  <2> HIDE DEF f
  <2>2. /\ s.start = "returned" /\ s.queue = f.queue /\ s.finish = f.finish
        /\ s.result = f.result /\ s.runner = f.runner
    BY <2>1 DEF RunState
  <2> HIDE DEF s
  <2>3. Continues(state[r], s)
    BY <1>1, <1>6, <2>1, <2>2 DEF Continues
  <2> QED
    BY <1>2, <1>6, <2>1, <2>3
<1>7. CASE SkillReady(r) \/ PromptReady(r)
  <2>1. /\ "returned" \in StartPoint \ {"none", "mark"}
        /\ "compose" \in StartPoint \ {"none", "mark"}
        /\ "probe" \in StartPoint \ {"none", "mark"}
    BY DEF StartPoint
  <2> QED
    BY <1>4, <1>6, <1>7, <2>1 DEF SkillReady, PromptReady, At
<1>8. CASE Spawn(r)
  <2>1. /\ state[r].start = "probe" /\ UNCHANGED <<row, daemon, pending>>
        /\ "returned" \in StartPoint \ {"none", "mark"}
    BY <1>8 DEF Spawn, At, StartPoint
  <2>2. CASE state' = [state EXCEPT ![r].start = "returned"]
    BY <1>4, <2>1, <2>2
  <2>3. CASE /\ state[r].finish # "done"
             /\ state' = [state EXCEPT ![r].start = "returned", ![r].runner = "active"]
    <3> DEFINE s == [state[r] EXCEPT !.start = "returned", !.runner = "active"]
    <3>1. state' = [state EXCEPT ![r] = s] /\ Continues(state[r], s)
      BY <1>0, <2>1, <2>3 DEF Continues, RunState
    <3> HIDE DEF s
    <3> QED
      BY <1>2, <2>1, <3>1
  <2>4. CASE /\ state[r].finish # "done"
             /\ state' = [state EXCEPT ![r] = [RunnerCompleted(@, "failed") EXCEPT !.start = "returned"]]
    <3> DEFINE c == RunnerCompleted(state[r], "failed")
               s == [c EXCEPT !.start = "returned"]
    <3>1. c \in RunState /\ Continues(state[r], c) /\ state' = [state EXCEPT ![r] = s]
      BY <1>0, <2>4, RunnerCompletedType, RunnerCompletedContinues
    <3> HIDE DEF c
    <3>2. /\ s.start = "returned" /\ s.queue = c.queue /\ s.finish = c.finish
          /\ s.result = c.result /\ s.runner = c.runner
      BY <3>1 DEF RunState
    <3> HIDE DEF s
    <3>3. Continues(state[r], s)
      BY <2>1, <3>1, <3>2 DEF Continues
    <3> QED
      BY <1>2, <2>1, <3>1, <3>3
  <2> QED
    BY <1>8, <2>2, <2>3, <2>4 DEF Spawn, Terminal
<1> QED
  BY <1>3, <1>5, <1>7, <1>8 DEF StartStep

LEMMA FinishStepKinds ==
    ASSUME Inv, NEW r \in Runs, FinishStep(r)
    PROVE  QuietStep \/ CommitTerminal(r)
<1>0. state[r] \in RunState /\ row \in [Runs -> Rows]
  BY DEF Inv, TypeOK
<1>1. CASE ArtifactsFinalized(r)
  <2>1. PICK status \in {state[r].result, "failed"} :
          state' = [state EXCEPT ![r].finish = AfterArtifacts(state[r]), ![r].result = status]
    BY <1>1 DEF ArtifactsFinalized
  <2> DEFINE s == [state[r] EXCEPT !.finish = AfterArtifacts(state[r]), !.result = status]
  <2>2. /\ state[r].finish = "artifacts" /\ UNCHANGED <<row, daemon, pending>>
        /\ state' = [state EXCEPT ![r] = s]
    BY <1>1, <2>1 DEF ArtifactsFinalized
  <2>3. Continues(state[r], s)
    BY <1>0, <2>2 DEF Continues, AfterArtifacts, RunState
  <2> HIDE DEF s
  <2> QED
    BY <2>2, <2>3, OneRunQuiet
<1>2. CASE LogsClosed(r)
  <2> DEFINE s == [state[r] EXCEPT !.finish = "message", !.logOpen = FALSE]
  <2>1. /\ state[r].finish = "logs" /\ UNCHANGED <<row, daemon, pending>>
        /\ state' = [state EXCEPT ![r] = s]
    BY <1>2 DEF LogsClosed
  <2>2. Continues(state[r], s)
    BY <1>0, <2>1 DEF Continues, RunState
  <2> HIDE DEF s
  <2> QED
    BY <2>1, <2>2, OneRunQuiet
<1>3. CASE MessageTerminal(r)
  <2> DEFINE s == [state[r] EXCEPT !.finish = "commit"]
  <2>1. /\ state[r].finish = "message" /\ UNCHANGED <<row, daemon, pending>>
        /\ state' = [state EXCEPT ![r] = s]
    BY <1>3 DEF MessageTerminal
  <2>2. Continues(state[r], s)
    BY <1>0, <2>1 DEF Continues, RunState
  <2> HIDE DEF s
  <2> QED
    BY <2>1, <2>2, OneRunQuiet
<1> QED
  BY <1>1, <1>2, <1>3 DEF FinishStep

LEMMA StepKinds ==
    ASSUME Inv, [Next]_vars
    PROVE  QuietStep \/ LoudStep
<1>0. /\ \A r \in Runs : state[r] \in RunState /\ ShapeOf(r)
      /\ "failed" \in TerminalStatus /\ "canceled" \in TerminalStatus
      /\ "succeeded" \in TerminalStatus /\ "interrupted" \in TerminalStatus
  BY DEF Inv, TypeOK, Shape, TerminalStatus
<1>1. ASSUME NEW r \in Runs, StartStep(r) \/ FinishStep(r) PROVE QuietStep \/ LoudStep
  BY <1>1, StartStepKinds, FinishStepKinds DEF LoudStep
<1>2. ASSUME NEW r \in Runs, CreateRun(r) PROVE QuietStep
  <2> DEFINE s == [state[r] EXCEPT !.seq = nextSequence]
  <2>1. state' = [state EXCEPT ![r] = s] /\ UNCHANGED <<row, daemon, pending>>
    BY <1>2 DEF CreateRun
  <2>2. Continues(state[r], s) /\ s.finish = state[r].finish
    BY <1>0 DEF Continues, RunState
  <2> HIDE DEF s
  <2> QED
    BY <2>1, <2>2, OneRunQuiet
<1>3. ASSUME NEW r \in Runs, NEW status \in TerminalStatus,
             state[r].start # "none" \/ state[r].queue # "absent" \/ r \in pending,
             state' = [state EXCEPT ![r] = Finish(@, status, FALSE)],
             UNCHANGED <<row, daemon, pending>>
      PROVE  QuietStep
  <2> DEFINE s == Finish(state[r], status, FALSE)
  <2>1. Continues(state[r], s) /\ state' = [state EXCEPT ![r] = s]
    BY <1>0, <1>3, FinishContinues
  <2> HIDE DEF s
  <2> QED
    BY <1>3, <2>1, OneRunQuiet
<1>4. ASSUME NEW r \in Runs, NEW status \in TerminalStatus, state[r].runner # "null",
             state' = [state EXCEPT ![r] = RunnerCompleted(@, status)],
             UNCHANGED <<row, daemon, pending>>
      PROVE  QuietStep
  <2> DEFINE s == RunnerCompleted(state[r], status)
  <2>1. Continues(state[r], s) /\ state' = [state EXCEPT ![r] = s]
    BY <1>0, <1>4, RunnerCompletedContinues
  <2>2. state[r].start # "none"
    BY <1>0, <1>4 DEF ShapeOf
  <2> HIDE DEF s
  <2> QED
    BY <1>4, <2>1, <2>2, OneRunQuiet
<1>5. ASSUME UNCHANGED <<state, row, daemon>>, pending' \subseteq pending PROVE QuietStep
  BY <1>5 DEF QuietStep, Continues
<1>6. ASSUME NEW r \in Runs, CancelRun(r) PROVE QuietStep
  <2>1. CASE state' = [state EXCEPT ![r] = [CancelRunner(@) EXCEPT !.timer = FALSE]]
    <3> DEFINE c == CancelRunner(state[r])
               s == [c EXCEPT !.timer = FALSE]
    <3>1. /\ c \in RunState /\ c.start = state[r].start /\ c.finish = state[r].finish
          /\ c.queue = state[r].queue /\ c.result = state[r].result
          /\ (c.runner = "null") <=> (state[r].runner = "null")
          /\ state' = [state EXCEPT ![r] = s]
      BY <1>0, <2>1, CancelRunnerFacts
    <3> HIDE DEF c
    <3>2. Continues(state[r], s) /\ s.finish = state[r].finish
      BY <3>1 DEF Continues, RunState
    <3> HIDE DEF s
    <3> QED
      BY <1>6, <3>1, <3>2, OneRunQuiet DEF CancelRun
  <2>2. CASE state' = [state EXCEPT ![r] = Finish(@, "canceled", FALSE)]
    BY <1>0, <1>3, <1>6, <2>2 DEF CancelRun, Known
  <2> QED
    BY <1>6, <2>1, <2>2 DEF CancelRun
<1>7. ASSUME NEW r \in Runs, ChildExits(r) \/ RunnerFails(r) PROVE QuietStep
  <2>1. UNCHANGED <<row, daemon, pending>>
    BY <1>7 DEF ChildExits, RunnerFails
  <2>2. CASE UNCHANGED state
    BY <1>5, <2>1, <2>2
  <2> QED
    BY <1>0, <1>4, <1>7, <2>1, <2>2 DEF ChildExits, RunnerFails
<1>8. ASSUME NEW r \in Runs, RunTimeout(r) PROVE QuietStep
  <2> DEFINE fired == [state[r] EXCEPT !.timer = FALSE]
             c == CancelRunner(fired)
             f == Finish(c, "failed", FALSE)
             s == IF Terminal(r) THEN fired ELSE f
  <2>1. /\ state' = [state EXCEPT ![r] = s] /\ UNCHANGED <<row, daemon, pending>>
        /\ state[r].start # "none"
    BY <1>0, <1>8 DEF RunTimeout, ShapeOf
  <2>2. /\ fired \in RunState /\ fired.start = state[r].start /\ fired.finish = state[r].finish
        /\ fired.queue = state[r].queue /\ fired.result = state[r].result
        /\ fired.runner = state[r].runner
    BY <1>0 DEF RunState
  <2> HIDE DEF fired
  <2>3. /\ c \in RunState /\ c.start = state[r].start /\ c.finish = state[r].finish
        /\ c.queue = state[r].queue /\ c.result = state[r].result
        /\ (c.runner = "null") <=> (state[r].runner = "null")
    BY <2>2, CancelRunnerFacts
  <2> HIDE DEF c
  <2>4. Continues(c, f)
    BY <1>0, <2>3, FinishContinues
  <2> HIDE DEF f
  <2>5. Continues(state[r], s)
    BY <2>2, <2>3, <2>4 DEF Continues
  <2> HIDE DEF s
  <2> QED
    BY <2>1, <2>5, OneRunQuiet
<1>9. ASSUME NEW r \in Runs, InterruptNext(r) PROVE QuietStep
  BY <1>0, <1>3, <1>9 DEF InterruptNext
<1>10. ASSUME NEW r \in Runs, Settled(r) PROVE QuietStep
  <2>1. UNCHANGED <<state, row, daemon>> /\ pending' \subseteq pending
    BY <1>10 DEF Settled
  <2> QED
    BY <1>5, <2>1
<1>11. ASSUME UNCHANGED vars PROVE QuietStep
  <2>1. UNCHANGED <<state, row, daemon>> /\ pending' \subseteq pending
    BY <1>11 DEF vars, memory
  <2> QED
    BY <1>5, <2>1
<1>12. ASSUME NEW r \in Runs, InsertRun(r) \/ Cleanup(r) PROVE LoudStep
  BY <1>12 DEF LoudStep
<1>13. ASSUME \/ Dispatch \/ CloseServer \/ Shutdown \/ ShutdownResolves
              \/ ShutdownDone \/ Crash \/ Startup
       PROVE  LoudStep
  BY <1>13 DEF LoudStep, ShutdownDone, Crash
<1> QED
  BY <1>1, <1>2, <1>6, <1>7, <1>8, <1>9, <1>10, <1>11, <1>12, <1>13 DEF Next

-----------------------------------------------------------------------------
(* The concurrency limits hold in every state of RunLifecycle: only a      *)
(* dispatch adds a run to those in flight, and a dispatch counts every run *)
(* in flight as busy.  From the same facts: the order within a workspace   *)
(* is kept, and a shutdown settles every run that was in flight.           *)

(* Every step but a dispatch takes runs out of flight or leaves them there. *)
LEMMA OnlyDispatchAdds ==
    ASSUME Inv, [Next]_vars
    PROVE  InFlight' \subseteq InFlight \/ Dispatch
<1>0. \A r \in Runs : state[r] \in RunState /\ ShapeOf(r)
  BY DEF Inv, TypeOK, Shape
<1>1. CASE \A q \in Runs : /\ state'[q].start # "none" => state[q].start # "none"
                           /\ state[q].finish = "done" => state'[q].finish = "done"
  BY <1>1 DEF InFlight, Terminal
<1>2. CASE QuietStep
  <2>1. \A q \in Runs : Continues(state[q], state'[q])
    BY <1>2 DEF QuietStep
  <2> QED
    BY <1>1, <2>1 DEF Continues
<1>3. ASSUME NEW r \in Runs, NEW s, state' = [state EXCEPT ![r] = s],
             s.start # "none" => state[r].start # "none",
             state[r].finish = "done" => s.finish = "done"
      PROVE  InFlight' \subseteq InFlight
  <2>1. state'[r] = s /\ \A q \in Runs \ {r} : state'[q] = state[q]
    BY <1>3 DEF Inv, TypeOK
  <2> QED
    BY <1>3, <2>1 DEF InFlight, Terminal
<1>4. ASSUME NEW r \in Runs, InsertRun(r) \/ MarkRunning(r) \/ CommitTerminal(r) \/ Cleanup(r)
      PROVE  InFlight' \subseteq InFlight
  <2> DEFINE i == [state[r] EXCEPT !.queue = "queued"]
             m == [state[r] EXCEPT !.start = "message",
                                   !.queue = IF @ = "absent" THEN @ ELSE "running"]
             d == [state[r] EXCEPT !.finish = "done", !.queue = "terminal"]
             a == [state[r] EXCEPT !.queue = "absent"]
  <2>1. /\ InsertRun(r) => state' = [state EXCEPT ![r] = i]
        /\ MarkRunning(r) => state' = [state EXCEPT ![r] = m] /\ state[r].start = "mark"
        /\ CommitTerminal(r) => state' = [state EXCEPT ![r] = d]
        /\ Cleanup(r) => state' = [state EXCEPT ![r] = a]
    BY DEF InsertRun, MarkRunning, At, CommitTerminal, Cleanup
  <2>2. /\ i.start = state[r].start /\ i.finish = state[r].finish
        /\ m.finish = state[r].finish
        /\ d.start = state[r].start /\ d.finish = "done"
        /\ a.start = state[r].start /\ a.finish = state[r].finish
    BY <1>0 DEF RunState
  <2> HIDE DEF i, m, d, a
  <2> QED
    BY <1>3, <1>4, <2>1, <2>2
<1>5. CASE Shutdown
  <2>1. ASSUME NEW q \in Runs
        PROVE  state'[q].start = state[q].start /\ state'[q].finish = state[q].finish
    <3>1. CASE state'[q] = state[q]
      BY <3>1
    <3>2. CASE state'[q] = [CancelRunner(state[q]) EXCEPT !.timer = FALSE]
      <4> DEFINE c == CancelRunner(state[q])
      <4>1. c \in RunState /\ c.start = state[q].start /\ c.finish = state[q].finish
        BY <1>0, CancelRunnerFacts
      <4>2. state'[q] = [c EXCEPT !.timer = FALSE]
        BY <3>2
      <4> HIDE DEF c
      <4> QED
        BY <4>1, <4>2 DEF RunState
    <3> QED
      BY <1>5, <3>1, <3>2 DEF Shutdown
  <2> QED
    BY <1>1, <2>1
<1>6. CASE Forget
  BY <1>6 DEF Forget, NoState, InFlight
<1>7. CASE CloseServer \/ ShutdownResolves \/ Startup
  <2>1. state' = state
    BY <1>7 DEF CloseServer, ShutdownResolves, Startup, memory
  <2> QED
    BY <1>1, <2>1
<1> QED
  BY <1>2, <1>4, <1>5, <1>6, <1>7, StepKinds DEF LoudStep

(* What a dispatch selects still fits next to the runs in flight. *)
LEMMA DispatchFits ==
    ASSUME Inv, InFlightWithinLimits, Dispatch
    PROVE  InFlightWithinLimits'
<1>1. PICK S \in SUBSET Queued :
        /\ IsSelection(S, Queued, Busy, Sequence)
        /\ state' = [r \in Runs |->
                        IF r \in S
                        THEN [state[r] EXCEPT !.queue = "starting", !.start = "mark"]
                        ELSE state[r]]
  BY DEF Dispatch
<1>2. /\ \A r \in Runs : state[r] \in RunState
      /\ \A r \in Runs : ShapeOf(r)
  BY DEF Inv, TypeOK, Shape
<1>3. InFlight \in SUBSET Busy
  <2>1. ASSUME NEW r \in InFlight PROVE r \in Runs /\ state[r].queue \in CapacityConsuming
    <3>1. r \in Runs /\ state[r].start # "none" /\ state[r].finish # "done"
      BY DEF InFlight, Terminal
    <3>2. state[r].queue \in QueueStatus \ {"absent", "queued", "terminal"}
      BY <1>2, <3>1 DEF ShapeOf, RunState
    <3> QED
      BY <3>1, <3>2 DEF QueueStatus, CapacityConsuming
  <2> QED
    BY <2>1 DEF Busy
<1>4. InFlight' \in SUBSET (InFlight \cup S)
  BY <1>1 DEF InFlight, Terminal
<1>5. WithinLimits(InFlight)
  BY DEF InFlightWithinLimits, WithinLimits
<1>6. /\ Queued \in SUBSET Runs /\ Busy \in SUBSET Runs
      /\ \A s \in Queued : Sequence[s] \in Nat
      /\ \A s, t \in Queued : Sequence[s] = Sequence[t] => s = t
  <2>1. \A s \in Queued : /\ s \in Runs /\ Sequence[s] = state[s].seq
                          /\ state[s].seq \in Nat /\ state[s].seq > 0
    BY <1>2 DEF Queued, Sequence, ShapeOf, RunState
  <2>2. \A s, t \in Queued : Sequence[s] = Sequence[t] => s = t
    BY <2>1 DEF Inv, DistinctSequence
  <2> QED
    BY <2>1, <2>2 DEF Queued, Busy
<1>7. WithinLimits(InFlight \cup S)
  BY <1>1, <1>3, <1>5, <1>6, SelectionWithinLimits
<1>8. InFlight \cup S \in SUBSET Runs
  BY DEF InFlight, Queued
<1>9. WithinLimits(InFlight')
  BY <1>4, <1>7, <1>8, SubsetWithinLimits
<1> QED
  BY <1>9 DEF InFlightWithinLimits, WithinLimits

(* The three concurrency limits hold for the runs between their dispatch    *)
(* and their final commit, whatever cancels, times out, fails or restarts.  *)
THEOREM InFlightLimits == Spec => []InFlightWithinLimits
<1>1. Init => InFlightWithinLimits
  <2> SUFFICES ASSUME Init PROVE InFlightWithinLimits
    OBVIOUS
  <2>1. InFlight = {} /\ \A p \in Profiles : OfProfile(InFlight, p) = {}
    BY DEF Init, InFlight, NoState, OfProfile
  <2> QED
    BY <2>1, FS_EmptySet, LimitsAssumption DEF InFlightWithinLimits
<1>2. Inv /\ InFlightWithinLimits /\ [Next]_vars => InFlightWithinLimits'
  <2> SUFFICES ASSUME Inv, InFlightWithinLimits, [Next]_vars PROVE InFlightWithinLimits'
    OBVIOUS
  <2>1. CASE InFlight' \subseteq InFlight
    <3>1. WithinLimits(InFlight) /\ InFlight \in SUBSET Runs /\ InFlight' \in SUBSET InFlight
      BY <2>1 DEF InFlightWithinLimits, WithinLimits, InFlight
    <3>2. WithinLimits(InFlight')
      BY <3>1, SubsetWithinLimits
    <3> QED
      BY <3>2 DEF InFlightWithinLimits, WithinLimits
  <2> QED
    BY <2>1, DispatchFits, OnlyDispatchAdds
<1> QED
  BY <1>1, <1>2, Invariance, PTL DEF Spec

-----------------------------------------------------------------------------
(* The order within a workspace. *)

(* createRun refuses a run whose profile is not that of its workspace. *)
WorkspacesHaveOneProfile ==
    \A a, b \in Runs : WorkspaceOf[a] = WorkspaceOf[b] => ProfileOf[a] = ProfileOf[b]

(* Only a dispatch makes a queued run a starting one. *)
LEMMA OnlyDispatchStarts ==
    ASSUME Inv, [Next]_vars, NEW b \in Runs,
           state[b].queue = "queued", state'[b].queue = "starting"
    PROVE  Dispatch
<1>0. \A r \in Runs : state[r] \in RunState
  BY DEF Inv, TypeOK
<1>1. CASE QuietStep
  <2>1. state'[b].queue = state[b].queue \/ state'[b].queue = "finishing"
    BY <1>1 DEF QuietStep, Continues
  <2> QED
    BY <2>1
<1>2. ASSUME NEW r \in Runs, NEW s, state' = [state EXCEPT ![r] = s], s.queue # "starting"
      PROVE  FALSE
  BY <1>2 DEF Inv, TypeOK
<1>3. ASSUME NEW r \in Runs, InsertRun(r) \/ CommitTerminal(r) \/ Cleanup(r) PROVE FALSE
  <2> DEFINE i == [state[r] EXCEPT !.queue = "queued"]
             d == [state[r] EXCEPT !.finish = "done", !.queue = "terminal"]
             a == [state[r] EXCEPT !.queue = "absent"]
  <2>1. \/ state' = [state EXCEPT ![r] = i]
        \/ state' = [state EXCEPT ![r] = d]
        \/ state' = [state EXCEPT ![r] = a]
    BY <1>3 DEF InsertRun, CommitTerminal, Cleanup
  <2>2. i.queue = "queued" /\ d.queue = "terminal" /\ a.queue = "absent"
    BY <1>0 DEF RunState
  <2> HIDE DEF i, d, a
  <2> QED
    BY <1>2, <2>1, <2>2
<1>4. ASSUME NEW r \in Runs, MarkRunning(r) PROVE FALSE
  <2> DEFINE m == [state[r] EXCEPT !.start = "message",
                                   !.queue = IF @ = "absent" THEN @ ELSE "running"]
  <2>1. state' = [state EXCEPT ![r] = m]
    BY <1>4 DEF MarkRunning
  <2>2. m.queue = "absent" \/ m.queue = "running"
    BY <1>0 DEF RunState
  <2> HIDE DEF m
  <2> QED
    BY <1>2, <2>1, <2>2
<1>5. CASE Shutdown
  <2>1. state'[b] = state[b] \/ state'[b] = [CancelRunner(state[b]) EXCEPT !.timer = FALSE]
    BY <1>5 DEF Shutdown
  <2> DEFINE c == CancelRunner(state[b])
  <2>2. c \in RunState /\ c.queue = state[b].queue
    BY <1>0, CancelRunnerFacts
  <2> HIDE DEF c
  <2>3. [c EXCEPT !.timer = FALSE].queue = c.queue
    BY <2>2 DEF RunState
  <2> QED
    BY <2>1, <2>2, <2>3 DEF c
<1>6. CASE Forget
  BY <1>6 DEF Forget, NoState
<1>7. CASE CloseServer \/ ShutdownResolves \/ Startup
  BY <1>7 DEF CloseServer, ShutdownResolves, Startup, memory
<1> QED
  BY <1>1, <1>3, <1>4, <1>5, <1>6, <1>7, StepKinds DEF LoudStep

(* The runs of one workspace are dispatched in the order they were created, *)
(* whatever happens to the queue meanwhile, as long as a workspace has one  *)
(* profile: with two, a run whose profile is full is passed over.           *)
THEOREM OrderKept ==
    ASSUME WorkspacesHaveOneProfile
    PROVE  Spec => WorkspaceOrder
<1> DEFINE Ordered == \A a, b \in Queued :
             WorkspaceOf[a] = WorkspaceOf[b] /\ state[a].seq < state[b].seq
               => ~(state'[b].queue = "starting" /\ state'[a].queue = "queued")
<1>1. Inv /\ [Next]_vars => [Ordered]_vars
  <2> SUFFICES ASSUME Inv, [Next]_vars, NEW a \in Queued, NEW b \in Queued,
                      WorkspaceOf[a] = WorkspaceOf[b], state[a].seq < state[b].seq,
                      state'[b].queue = "starting"
               PROVE  FALSE
    OBVIOUS
  <2>1. a \in Runs /\ b \in Runs /\ Queued \in SUBSET Runs /\ Busy \in SUBSET Runs
    BY DEF Queued, Busy
  <2>2. Dispatch
    BY <2>1, OnlyDispatchStarts DEF Queued
  <2>3. PICK S \in SUBSET Queued :
          /\ IsSelection(S, Queued, Busy, Sequence)
          /\ state' = [r \in Runs |->
                          IF r \in S
                          THEN [state[r] EXCEPT !.queue = "starting", !.start = "mark"]
                          ELSE state[r]]
    BY <2>2 DEF Dispatch
  <2>4. b \in S
    BY <2>1, <2>3 DEF Queued
  <2>5. \A s \in Queued : Sequence[s] = state[s].seq /\ Sequence[s] \in Nat
    BY <2>1 DEF Sequence, Inv, TypeOK, RunState
  <2>6. ProfileOf[a] = ProfileOf[b] /\ Sequence[a] < Sequence[b]
    BY <2>1, <2>5 DEF WorkspacesHaveOneProfile
  <2>7. IsSelection(S, Queued, Busy, Sequence) /\ \A s \in Queued : Sequence[s] \in Nat
    BY <2>3, <2>5
  <2> HIDE DEF Ordered
  <2> QED
    BY ONLY <2>1, <2>4, <2>6, <2>7, SelectionInOrder, WorkspaceOf[a] = WorkspaceOf[b],
       a \in Queued
<1> QED
  BY <1>1, Invariance, PTL DEF Spec, WorkspaceOrder

-----------------------------------------------------------------------------
(* Shutdown. *)

(* shutdownActive still has every run before it that was in flight; when it *)
(* has resolved, there is none.                                             *)
ShutdownHoldsRuns ==
    /\ daemon \in {"draining", "stopping"} => InFlight \subseteq pending
    /\ daemon = "stopping" => pending = {}

(* A run leaves the list of a shutdown only when its finish is through. *)
LEMMA PendingShrinks ==
    ASSUME [Next]_vars, daemon' \in {"draining", "stopping"}
    PROVE  \/ Shutdown
           \/ /\ daemon \in {"draining", "stopping"}
              /\ pending \ {r \in Runs : Terminal(r)} \subseteq pending'
              /\ pending' \subseteq pending
              /\ daemon' = daemon \/ pending = {}
<1> DEFINE Kept == /\ daemon \in {"draining", "stopping"}
                   /\ pending \ {r \in Runs : Terminal(r)} \subseteq pending'
                   /\ pending' \subseteq pending
                   /\ daemon' = daemon \/ pending = {}
<1>1. ASSUME UNCHANGED <<daemon, pending>> PROVE Kept
  BY <1>1
<1>2. ASSUME NEW r \in Runs,
             CreateRun(r) \/ InsertRun(r) \/ CancelRun(r) \/ Cleanup(r) \/ ChildExits(r)
               \/ RunnerFails(r) \/ RunTimeout(r) \/ InterruptNext(r)
      PROVE  UNCHANGED <<daemon, pending>>
  BY <1>2 DEF CreateRun, InsertRun, CancelRun, Cleanup, ChildExits, RunnerFails, RunTimeout,
              InterruptNext
<1>3. ASSUME NEW r \in Runs, StartStep(r) PROVE UNCHANGED <<daemon, pending>>
  BY <1>3 DEF StartStep, MarkRunning, MessageStarted, LogsOpened, SkillReady, PromptReady, Spawn
<1>4. ASSUME NEW r \in Runs, FinishStep(r) PROVE UNCHANGED <<daemon, pending>>
  BY <1>4 DEF FinishStep, ArtifactsFinalized, LogsClosed, MessageTerminal, CommitTerminal
<1>5. ASSUME NEW r \in Runs, Settled(r) PROVE Kept
  BY <1>5 DEF Settled
<1>6. Dispatch => UNCHANGED <<daemon, pending>>
  BY DEF Dispatch
<1>7. ~CloseServer /\ ~ShutdownDone /\ ~Crash /\ ~Startup
  BY DEF CloseServer, ShutdownDone, Crash, Startup, Forget
<1>8. UNCHANGED vars => UNCHANGED <<daemon, pending>>
  BY DEF vars, memory
<1>9. ShutdownResolves => Kept
  BY DEF ShutdownResolves, memory
<1> HIDE DEF Kept
<1>10. Shutdown \/ Kept
  BY <1>1, <1>2, <1>3, <1>4, <1>5, <1>6, <1>7, <1>8, <1>9 DEF Next
<1> QED
  BY <1>10 DEF Kept

(* When shutdownActive resolves, no run is between its dispatch and its     *)
(* final commit: every run that was in flight is in its list, none is       *)
(* dispatched any more, and none leaves the list before it has committed.   *)
THEOREM ShutdownSettles == Spec => []ShutdownSettlesRuns
<1>1. Init => ShutdownHoldsRuns
  BY DEF Init, ShutdownHoldsRuns
<1>2. Inv /\ ShutdownHoldsRuns /\ [Next]_vars => ShutdownHoldsRuns'
  <2> SUFFICES ASSUME Inv, ShutdownHoldsRuns, [Next]_vars, daemon' \in {"draining", "stopping"}
               PROVE  /\ InFlight' \subseteq pending'
                      /\ daemon' = "stopping" => pending' = {}
    BY DEF ShutdownHoldsRuns
  <2>1. InFlight' \subseteq InFlight
    <3>1. Dispatch => daemon' \notin {"draining", "stopping"}
      BY DEF Dispatch, Serving
    <3> QED
      BY <3>1, OnlyDispatchAdds
  <2>2. InFlight \subseteq Known \ {r \in Runs : Terminal(r)}
    BY DEF InFlight, Known, Terminal, Inv, Shape, ShapeOf
  <2>3. CASE Shutdown
    <3>1. pending' = {r \in Known : ~Terminal(r)} /\ daemon' = "draining"
      BY <2>3 DEF Shutdown
    <3> QED
      BY <2>1, <2>2, <3>1 DEF Known
  <2>4. CASE /\ daemon \in {"draining", "stopping"}
             /\ pending \ {r \in Runs : Terminal(r)} \subseteq pending'
             /\ pending' \subseteq pending
             /\ daemon' = daemon \/ pending = {}
    BY <2>1, <2>2, <2>4 DEF ShutdownHoldsRuns
  <2> QED
    BY <2>3, <2>4, PendingShrinks
<1>3. ShutdownHoldsRuns => ShutdownSettlesRuns
  BY DEF ShutdownHoldsRuns, ShutdownSettlesRuns
<1> QED
  BY <1>1, <1>2, <1>3, Invariance, PTL DEF Spec

-----------------------------------------------------------------------------
(* RunLifecycle implements RunContract, in whatever order the transactions *)
(* of a run commit: the statements that write its row without looking at   *)
(* it never end it twice or leave it behind, and reopen it only where its  *)
(* start was not stored when it ended.                                     *)

OpenStatus == {"queued", "running"}

(* The row of a run that is open, and of which no end was announced. *)
Unended(w) == w.status \in OpenStatus /\ w.deliveries \cap TerminalStatus = {}

(* What the row of a run holds, by where startRun and finishRun are. *)
StoredOf(r) ==
    LET s == state[r]
        w == row[r].status
    IN
    /\ w = "absent" => row[r].deliveries = {}
    /\ w = "running" => "running" \in row[r].deliveries
    /\ s.queue = "queued" \/ s.start = "mark" => "running" \notin row[r].deliveries
    /\ s.queue # "absent" /\ s.finish = "none" => Unended(row[r])
    /\ s.finish \notin {"none", "done"} => Unended(row[r])
    /\ s.finish = "done" => (w = s.result /\ w \in TerminalStatus) \/ Reopened(r)
    /\ r \in pending /\ s.finish = "none" => s.queue # "absent"
    /\ Running /\ w \in OpenStatus => (s.queue # "absent" /\ s.finish # "done") \/ Reopened(r)
    /\ ~Running => s.queue = "absent" /\ s.start = "none" /\ s.finish = "none"

Stored ==
    /\ \A r \in Runs : StoredOf(r)
    /\ pending # {} => daemon = "draining"

LEMMA InitStored == Init => Stored
  BY DEF Init, Stored, StoredOf, NoState, OpenStatus, Running, Unended

(* One step keeps what the rows hold. *)
LEMMA QuietStored ==
    ASSUME Inv, Stored, QuietStep
    PROVE  Stored'
<1>1. ASSUME NEW r \in Runs PROVE StoredOf(r)'
  <2>1. StoredOf(r) /\ ShapeOf(r)
    BY DEF Stored, Inv, Shape
  <2>2. /\ Continues(state[r], state'[r])
        /\ row'[r].status = row[r].status /\ row'[r].deliveries = row[r].deliveries
        /\ state[r].finish = "none" /\ state'[r].finish # "none"
            => state[r].start # "none" \/ state[r].queue # "absent" \/ r \in pending
        /\ daemon' = daemon /\ pending' \subseteq pending
    BY DEF QuietStep
  <2>3. state[r].finish = "none" /\ state'[r].finish # "none" => state[r].queue # "absent"
    BY <2>1, <2>2 DEF StoredOf, ShapeOf
  <2> HIDE DEF QuietStep
  <2>4. /\ Unended(row'[r]) <=> Unended(row[r])
        /\ state'[r].start = "mark" => state[r].start = "mark"
        /\ state'[r].queue = "queued" => state[r].queue = "queued"
    BY <2>2 DEF Unended, Continues
  <2>5. CASE /\ state'[r].queue = state[r].queue /\ state'[r].finish = state[r].finish
             /\ state'[r].result = state[r].result
    <3>1. Reopened(r) => Reopened(r)'
      BY <2>2, <2>5 DEF Reopened, Terminal, Continues
    <3>2. ~Running => state'[r].start = "none"
      BY <2>1, <2>2 DEF StoredOf, Continues
    <3> QED
      BY <2>1, <2>2, <2>4, <2>5, <3>1, <3>2 DEF StoredOf, Running
  <2>6. CASE /\ state[r].finish = "none" /\ state'[r].finish \notin {"none", "done"}
             /\ state'[r].queue = "finishing"
    BY <2>1, <2>2, <2>3, <2>4, <2>6 DEF StoredOf, Running
  <2>7. CASE /\ state'[r].queue = state[r].queue
             /\ state[r].finish \notin {"none", "done"} /\ state'[r].finish \notin {"none", "done"}
    <3>1. state[r].queue # "absent"
      BY <2>1, <2>7 DEF ShapeOf
    <3> QED
      BY <2>1, <2>2, <2>4, <2>7, <3>1 DEF StoredOf, Running
  <2> QED
    BY <2>2, <2>5, <2>6, <2>7 DEF Continues
<1>2. (pending # {} => daemon = "draining")'
  BY DEF QuietStep, Stored
<1> QED
  BY <1>1, <1>2 DEF Stored

(* A step that rewrites one run and its row. *)
LEMMA OneRunStored ==
    ASSUME Inv, Stored, NEW r \in Runs, NEW s, NEW w,
           state' = [state EXCEPT ![r] = s], row' = [row EXCEPT ![r] = w],
           UNCHANGED <<daemon, pending>>, StoredOf(r)'
    PROVE  Stored'
<1>1. \A q \in Runs \ {r} : state'[q] = state[q] /\ row'[q] = row[q]
  BY DEF Inv, TypeOK
<1>2. ASSUME NEW q \in Runs, q # r PROVE StoredOf(q)'
  BY <1>1, <1>2 DEF Stored, StoredOf, Running, Reopened, Terminal
<1> QED
  BY <1>2 DEF Stored

LEMMA LoudStored ==
    ASSUME Inv, Stored, LoudStep
    PROVE  Stored'
<1>0. /\ \A r \in Runs : /\ state[r] \in RunState /\ row[r] \in Rows
                         /\ ShapeOf(r) /\ StoredOf(r)
      /\ state \in [Runs -> RunState] /\ row \in [Runs -> Rows]
      /\ pending # {} => daemon = "draining"
      /\ pending \subseteq Runs
  BY DEF Inv, TypeOK, Shape, Stored
<1>1. ASSUME NEW r \in Runs, InsertRun(r) PROVE Stored'
  <2> DEFINE s == [state[r] EXCEPT !.queue = "queued"]
             w == [status |-> "queued", deliveries |-> {"queued"}]
  <2>1. /\ state' = [state EXCEPT ![r] = s] /\ row' = [row EXCEPT ![r] = w]
        /\ UNCHANGED <<daemon, pending>> /\ r \in creating /\ Running
    BY <1>1 DEF InsertRun
  <2>2. state'[r] = s /\ row'[r] = w
    BY <1>0, <2>1
  <2>3. /\ s.queue = "queued" /\ s.start = "none" /\ s.finish = "none"
        /\ w.status = "queued" /\ w.deliveries = {"queued"}
    BY <1>0, <2>1 DEF RunState, ShapeOf
  <2> HIDE DEF s, w
  <2>4. StoredOf(r)'
    BY <2>1, <2>2, <2>3 DEF StoredOf, OpenStatus, Running, Unended, TerminalStatus
  <2> QED
    BY <2>1, <2>4, OneRunStored
<1>2. ASSUME NEW r \in Runs, MarkRunning(r) PROVE Stored'
  <2> DEFINE s == [state[r] EXCEPT !.start = "message",
                                   !.queue = IF @ = "absent" THEN @ ELSE "running"]
             w == WriteStatus(row[r], "running")
  <2>1. /\ state' = [state EXCEPT ![r] = s] /\ row' = [row EXCEPT ![r] = w]
        /\ UNCHANGED <<daemon, pending>> /\ state[r].start = "mark" /\ Running
    BY <1>2 DEF MarkRunning, At
  <2>2. state'[r] = s /\ row'[r] = w
    BY <1>0, <2>1
  <2>3. /\ state[r].runner = "null"
        /\ state[r].finish # "none" => state[r].result \in {"canceled", "interrupted"}
        /\ state[r].finish # "done" => state[r].queue # "absent" /\ Unended(row[r])
    BY <1>0, <2>1 DEF StoredOf, ShapeOf
  <2>4. /\ s.start = "message" /\ s.finish = state[r].finish
        /\ s.queue = IF state[r].queue = "absent" THEN "absent" ELSE "running"
        /\ s.result = state[r].result /\ s.runner = state[r].runner
    BY <1>0 DEF RunState
  <2>5. w.status = "running" /\ w.deliveries = row[r].deliveries \cup {"running"}
    BY <1>0, WriteStatusFacts DEF RunStatus
  <2>6. Unended(row[r]) => Unended(w)
    BY <2>5 DEF Unended, OpenStatus, TerminalStatus
  <2> HIDE DEF s, w
  <2>7. ASSUME state[r].finish = "done" PROVE StoredOf(r)'
    <3>1. Reopened(r)'
      BY <2>2, <2>3, <2>4, <2>5, <2>7 DEF Reopened, Terminal
    <3> QED
      BY <2>1, <2>2, <2>4, <2>5, <2>7, <3>1 DEF StoredOf, Running
  <2>8. ASSUME state[r].finish # "done" PROVE StoredOf(r)'
    <3>1. Unended(w) /\ s.queue # "absent" /\ s.queue # "queued"
      BY <2>3, <2>4, <2>6, <2>8
    <3> QED
      BY <2>1, <2>2, <2>4, <2>5, <2>8, <3>1 DEF StoredOf, Running
  <2> QED
    BY <2>1, <2>7, <2>8, OneRunStored
<1>3. ASSUME NEW r \in Runs, CommitTerminal(r) PROVE Stored'
  <2> DEFINE s == [state[r] EXCEPT !.finish = "done", !.queue = "terminal"]
             w == WriteStatus(row[r], state[r].result)
  <2>1. /\ state' = [state EXCEPT ![r] = s] /\ row' = [row EXCEPT ![r] = w]
        /\ UNCHANGED <<daemon, pending>> /\ state[r].finish = "commit" /\ Running
    BY <1>3 DEF CommitTerminal
  <2>2. state'[r] = s /\ row'[r] = w
    BY <1>0, <2>1
  <2>3. state[r].result \in TerminalStatus
    BY <1>0, <2>1 DEF RunState, Result, TerminalStatus, ShapeOf
  <2>4. /\ s.queue = "terminal" /\ s.start = state[r].start /\ s.finish = "done"
        /\ s.result = state[r].result
    BY <1>0, <2>1 DEF RunState
  <2>5. /\ w.status = state[r].result
        /\ w.deliveries = row[r].deliveries \cup {state[r].result}
    BY <1>0, <2>3, WriteStatusFacts DEF RunStatus
  <2>6. state[r].result \notin OpenStatus \cup {"absent", "running"}
    BY <2>3 DEF TerminalStatus, OpenStatus
  <2>7. state[r].start = "mark" => "running" \notin row[r].deliveries
    BY <1>0 DEF StoredOf
  <2> HIDE DEF s, w
  <2>8. StoredOf(r)'
    BY <2>1, <2>2, <2>3, <2>4, <2>5, <2>6, <2>7 DEF StoredOf, Running
  <2> QED
    BY <2>1, <2>8, OneRunStored
<1>4. ASSUME NEW r \in Runs, Cleanup(r) PROVE Stored'
  <2> DEFINE s == [state[r] EXCEPT !.queue = "absent"]
  <2>1. /\ state' = [state EXCEPT ![r] = s] /\ row' = row
        /\ UNCHANGED <<daemon, pending>> /\ state[r].finish = "done" /\ Running
    BY <1>4 DEF Cleanup, Terminal
  <2>2. state'[r] = s /\ row' = [row EXCEPT ![r] = row[r]]
    BY <1>0, <2>1
  <2>3. /\ s.queue = "absent" /\ s.start = state[r].start /\ s.finish = "done"
        /\ s.result = state[r].result /\ s.runner = state[r].runner
    BY <1>0, <2>1 DEF RunState
  <2> HIDE DEF s
  <2>4. Reopened(r) => Reopened(r)'
    BY <2>1, <2>2, <2>3 DEF Reopened, Terminal
  <2>5. row[r].status \in TerminalStatus => row[r].status \notin OpenStatus
    BY DEF TerminalStatus, OpenStatus
  <2>6. StoredOf(r)'
    BY <1>0, <2>1, <2>2, <2>3, <2>4, <2>5 DEF StoredOf, Running
  <2> QED
    BY <2>1, <2>2, <2>6, OneRunStored
<1>5. CASE Dispatch
  <2>1. PICK S \in SUBSET Queued :
          state' = [q \in Runs |-> IF q \in S
                                   THEN [state[q] EXCEPT !.queue = "starting", !.start = "mark"]
                                   ELSE state[q]]
    BY <1>5 DEF Dispatch
  <2>2. UNCHANGED <<row, daemon, pending>> /\ Running
    BY <1>5 DEF Dispatch, Serving, Running
  <2>3. ASSUME NEW q \in Runs PROVE StoredOf(q)'
    <3>1. CASE q \notin S
      <4>1. state'[q] = state[q]
        BY <2>1, <3>1
      <4> QED
        BY <1>0, <2>2, <4>1 DEF StoredOf, Running, Reopened, Terminal
    <3>2. CASE q \in S
      <4>1. /\ state'[q] = [state[q] EXCEPT !.queue = "starting", !.start = "mark"]
            /\ state[q].queue = "queued"
        BY <2>1, <3>2 DEF Queued
      <4>2. /\ state'[q].queue = "starting" /\ state'[q].start = "mark"
            /\ state'[q].finish = "none"
        BY <1>0, <4>1 DEF RunState, ShapeOf
      <4>3. Unended(row[q]) /\ "running" \notin row[q].deliveries
        BY <1>0, <4>1 DEF ShapeOf, StoredOf
      <4>4. row[q].status # "absent" /\ row[q].status # "running"
        BY <1>0, <4>3 DEF StoredOf, Unended, OpenStatus
      <4> QED
        BY <2>2, <4>2, <4>3, <4>4 DEF StoredOf, Running
    <3> QED
      BY <3>1, <3>2
  <2> QED
    BY <1>0, <2>2, <2>3 DEF Stored
<1>6. CASE Shutdown
  <2>1. /\ pending' \subseteq {r \in Known : ~Terminal(r)}
        /\ row' = row /\ daemon = "closing" /\ daemon' = "draining"
    BY <1>6 DEF Shutdown
  <2>2. ASSUME NEW q \in Runs PROVE StoredOf(q)'
    <3>1. /\ state'[q].start = state[q].start /\ state'[q].finish = state[q].finish
          /\ state'[q].queue = state[q].queue /\ state'[q].result = state[q].result
          /\ (state'[q].runner = "null") <=> (state[q].runner = "null")
      <4>1. CASE state'[q] = state[q]
        BY <4>1
      <4>2. CASE state'[q] = [CancelRunner(state[q]) EXCEPT !.timer = FALSE]
        <5> DEFINE c == CancelRunner(state[q])
        <5>1. /\ c \in RunState /\ c.start = state[q].start /\ c.finish = state[q].finish
              /\ c.queue = state[q].queue /\ c.result = state[q].result
              /\ (c.runner = "null") <=> (state[q].runner = "null")
          BY <1>0, CancelRunnerFacts
        <5>2. state'[q] = [c EXCEPT !.timer = FALSE]
          BY <4>2
        <5> HIDE DEF c
        <5> QED
          BY <5>1, <5>2 DEF RunState
      <4> QED
        BY <1>6, <4>1, <4>2 DEF Shutdown
    <3>2. q \in pending' => state[q].queue # "absent"
      BY <2>1 DEF Known
    <3> QED
      BY <1>0, <2>1, <3>1, <3>2 DEF StoredOf, Running, Reopened, Terminal
  <2> QED
    BY <2>1, <2>2 DEF Stored
<1>7. CASE Forget
  <2>1. /\ \A q \in Runs : state'[q] = NoState
        /\ row' = row /\ daemon' = "down" /\ pending' = {}
    BY <1>7 DEF Forget
  <2>2. ASSUME NEW q \in Runs PROVE StoredOf(q)'
    BY <1>0, <2>1 DEF StoredOf, Running, NoState
  <2> QED
    BY <2>1, <2>2 DEF Stored
<1>8. CASE Startup
  <2>1. /\ UNCHANGED <<state, pending>> /\ daemon = "down" /\ daemon' = "up"
        /\ \A q \in Runs : row'[q] = IF row[q].status \in {"queued", "running"}
                                     THEN WriteStatus(row[q], "interrupted")
                                     ELSE row[q]
    BY <1>8 DEF Startup, memory
  <2>2. pending = {}
    BY <1>0, <2>1
  <2>3. ASSUME NEW q \in Runs PROVE StoredOf(q)'
    <3>1. WriteStatus(row[q], "interrupted").status = "interrupted"
      BY <1>0, WriteStatusFacts DEF RunStatus, TerminalStatus
    <3>2. /\ row'[q].status \notin OpenStatus
          /\ row'[q].status = "absent" => row[q].status = "absent" /\ row'[q] = row[q]
          /\ row'[q].status # "running"
      BY <2>1, <3>1 DEF OpenStatus
    <3>3. state[q].queue = "absent" /\ state[q].start = "none" /\ state[q].finish = "none"
      BY <1>0, <2>1 DEF StoredOf, Running
    <3> QED
      BY <1>0, <2>1, <2>2, <3>2, <3>3 DEF StoredOf, Running
  <2> QED
    BY <2>1, <2>2, <2>3 DEF Stored
<1>9. CASE CloseServer \/ ShutdownResolves
  <2>1. /\ UNCHANGED <<state, row, pending>> /\ Running /\ Running'
        /\ pending = {} \/ daemon' = "draining"
    BY <1>0, <1>9 DEF CloseServer, ShutdownResolves, memory, Running
  <2>2. ASSUME NEW q \in Runs PROVE StoredOf(q)'
    BY <1>0, <2>1 DEF StoredOf, Reopened, Terminal
  <2> QED
    BY <2>1, <2>2 DEF Stored
<1> QED
  BY <1>1, <1>2, <1>3, <1>4, <1>5, <1>6, <1>7, <1>8, <1>9 DEF LoudStep

LEMMA StoredInvariance == Spec => [](Inv /\ Stored)
<1>1. Init => Inv /\ Stored
  BY InitInv, InitStored
<1>2. Inv /\ Stored /\ [Next]_vars => (Inv /\ Stored)'
  BY TypeStep, ShapeStep, StepKinds, QuietStored, LoudStored DEF Inv
<1> QED
  BY <1>1, <1>2, PTL DEF Spec

(* In whatever order the transactions of a run commit: an open row is that  *)
(* of a run the daemon still has to end, and the status the end event told  *)
(* is the status stored, except for a run that was canceled or interrupted  *)
(* before its start was stored, and never had a child.                      *)
THEOREM RowsMatch == Spec => []RowsMatchMemory
<1>1. Inv /\ Stored => NoOrphanRow
  BY DEF Stored, StoredOf, NoOrphanRow, OpenStatus, Known, Terminal
<1>2. Inv /\ Stored => EndStatusIsStored
  BY DEF Stored, StoredOf, EndStatusIsStored, Terminal
<1>3. Inv /\ Stored => RowsMatchMemory
  BY <1>1, <1>2 DEF RowsMatchMemory
<1> QED
  BY <1>3, StoredInvariance, PTL

-----------------------------------------------------------------------------
(* The refinement. *)

Status == [r \in Runs |-> row[r].status]
Deliveries == [r \in Runs |-> row[r].deliveries]

(* The rows of the runs of R take a status, the other rows keep theirs. *)
LEMMA MoveFacts ==
    ASSUME NEW R \in SUBSET Runs, NEW to,
           \A q \in R : row'[q].status = to /\ row'[q].deliveries = row[q].deliveries \cup {to},
           \A q \in Runs \ R : row'[q].status = row[q].status /\ row'[q].deliveries = row[q].deliveries
    PROVE  Contract!Move(R, to)
  BY DEF Contract!Move

LEMMA OneRowMoves ==
    ASSUME Inv, NEW r \in Runs, NEW to \in RunStatus, NEW w,
           row' = [row EXCEPT ![r] = w],
           w.status = to, w.deliveries = row[r].deliveries \cup {to}
    PROVE  Contract!Move({r}, to)
<1>1. row'[r] = w /\ \A q \in Runs \ {r} : row'[q] = row[q]
  BY DEF Inv, TypeOK
<1> QED
  BY <1>1, MoveFacts

(* Every step is a step of the contract, or leaves what it sees alone. *)
LEMMA ContractStep ==
    ASSUME Inv, Stored, [Next]_vars
    PROVE  [Contract!Next]_(Contract!vars)
<1>0. /\ \A r \in Runs : row[r] \in Rows /\ ShapeOf(r) /\ StoredOf(r)
      /\ \A r \in Runs : Status[r] = row[r].status
      /\ \A r \in Runs : state[r] \in RunState
  BY DEF Inv, TypeOK, Shape, Stored, Status
<1>1. ASSUME \A q \in Runs : row'[q].status = row[q].status /\ row'[q].deliveries = row[q].deliveries
      PROVE  UNCHANGED Contract!vars
  BY <1>1 DEF Contract!vars
<1>2. CASE QuietStep
  BY <1>1, <1>2 DEF QuietStep
<1>3. ASSUME NEW r \in Runs, InsertRun(r) PROVE Contract!Next
  <2>1. row[r].status = "absent" /\ row[r].deliveries = {}
    BY <1>0, <1>3 DEF InsertRun, ShapeOf, StoredOf
  <2> DEFINE w == [status |-> "queued", deliveries |-> {"queued"}]
  <2>2. /\ row' = [row EXCEPT ![r] = w] /\ w.status = "queued"
        /\ w.deliveries = row[r].deliveries \cup {"queued"}
    BY <1>3, <2>1 DEF InsertRun
  <2> HIDE DEF w
  <2>3. Contract!Move({r}, "queued")
    BY <2>2, OneRowMoves DEF RunStatus
  <2>4. Contract!Submit(r)
    BY <2>1, <2>3 DEF Contract!Submit
  <2> QED
    BY <2>4 DEF Contract!Next
<1>4. ASSUME NEW r \in Runs, MarkRunning(r) PROVE Contract!Next
  <2>1. state[r].start = "mark" /\ "running" \notin row[r].deliveries
    BY <1>0, <1>4 DEF MarkRunning, At, StoredOf
  <2>2. row[r].status \in {"queued", "canceled", "interrupted"}
    <3>1. state[r].finish # "done" => row[r].status = "queued"
      <4>1. state[r].finish # "done" => Unended(row[r])
        BY <1>0, <2>1 DEF StoredOf, ShapeOf
      <4> QED
        BY <1>0, <2>1, <4>1 DEF StoredOf, Unended, OpenStatus
    <3>2. state[r].finish = "done" => row[r].status \in {"canceled", "interrupted"}
      BY <1>0, <2>1 DEF StoredOf, ShapeOf, Reopened
    <3> QED
      BY <3>1, <3>2
  <2> DEFINE w == WriteStatus(row[r], "running")
  <2>3. row' = [row EXCEPT ![r] = w]
    BY <1>4 DEF MarkRunning
  <2>4. w.status = "running" /\ w.deliveries = row[r].deliveries \cup {"running"}
    BY <1>0, WriteStatusFacts DEF RunStatus
  <2> HIDE DEF w
  <2>5. Contract!Move({r}, "running")
    BY <2>3, <2>4, OneRowMoves DEF RunStatus
  <2>6. Contract!Begin(r) \/ Contract!BeginLate(r)
    BY <2>1, <2>2, <2>5 DEF Contract!Begin, Contract!BeginLate
  <2> QED
    BY <2>6 DEF Contract!Next
<1>5. ASSUME NEW r \in Runs, CommitTerminal(r) PROVE Contract!Next
  <2>1. Unended(row[r]) /\ state[r].result \in TerminalStatus
    BY <1>0, <1>5 DEF CommitTerminal, StoredOf, ShapeOf, RunState, Result, TerminalStatus
  <2>2. PICK to \in TerminalStatus : to = state[r].result
    BY <2>1
  <2>3. to \in RunStatus
    BY DEF RunStatus
  <2> DEFINE w == WriteStatus(row[r], to)
  <2>4. row' = [row EXCEPT ![r] = w]
    BY <1>5, <2>2 DEF CommitTerminal
  <2>5. w.status = to /\ w.deliveries = row[r].deliveries \cup {to}
    BY <1>0, <2>3, WriteStatusFacts
  <2> HIDE DEF w
  <2>6. Contract!Move({r}, to)
    BY <2>3, <2>4, <2>5, OneRowMoves
  <2>7. r \in Contract!Open /\ row[r].deliveries \cap TerminalStatus = {}
    BY <1>0, <2>1 DEF Contract!Open, Unended, OpenStatus
  <2>8. Contract!End(r)
    BY <2>6, <2>7 DEF Contract!End
  <2> QED
    BY <2>8 DEF Contract!Next
<1>6. CASE Startup
  <2> DEFINE R == {q \in Runs : row[q].status \in {"queued", "running"}}
  <2>1. \A q \in Runs : row'[q] = IF q \in R THEN WriteStatus(row[q], "interrupted") ELSE row[q]
    BY <1>6 DEF Startup
  <2>2. \A q \in Runs : /\ WriteStatus(row[q], "interrupted").status = "interrupted"
                        /\ WriteStatus(row[q], "interrupted").deliveries
                            = row[q].deliveries \cup {"interrupted"}
    BY <1>0, WriteStatusFacts DEF RunStatus, TerminalStatus
  <2>3. Contract!Open = R
    BY DEF Contract!Open
  <2>4. R \in SUBSET Runs
    OBVIOUS
  <2> HIDE DEF R
  <2>5. Contract!Move(R, "interrupted")
    BY <2>1, <2>2, <2>4, MoveFacts
  <2> QED
    BY <2>3, <2>5 DEF Contract!Next, Contract!InterruptOpen
<1>7. ASSUME \/ \E r \in Runs : Cleanup(r)
             \/ Dispatch \/ CloseServer \/ Shutdown \/ ShutdownResolves \/ Forget
      PROVE  UNCHANGED Contract!vars
  <2>1. row' = row
    BY <1>7 DEF Cleanup, Dispatch, CloseServer, Shutdown, ShutdownResolves, Forget
  <2> QED
    BY <1>1, <2>1
<1> QED
  BY <1>2, <1>3, <1>4, <1>5, <1>6, <1>7, StepKinds DEF LoudStep

(* The daemon keeps the contract of its runs. *)
THEOREM ContractKept == Spec => KeepsContract
<1>1. Init => Contract!Init
  <2> SUFFICES ASSUME Init PROVE Contract!Init
    OBVIOUS
  <2>1. \A r \in Runs : row[r].status = "absent" /\ row[r].deliveries = {}
    BY DEF Init
  <2> QED
    BY <2>1 DEF Contract!Init
<1>2. Inv /\ Stored /\ [Next]_vars => [Contract!Next]_(Contract!vars)
  BY ContractStep
<1> QED
  BY <1>1, <1>2, StoredInvariance, PTL DEF Spec, KeepsContract, Contract!Spec

-----------------------------------------------------------------------------
(* The loop of selectDispatchableCandidates. *)

(* Induction over the numbers, with a set in the place of a predicate. *)
LEMMA Induction ==
    ASSUME NEW T, 0 \in T, \A n \in Nat : n \in T => n + 1 \in T
    PROVE  Nat \subseteq T
<1> DEFINE Rest == Nat \ T
<1>1. SUFFICES ASSUME Rest # {} PROVE FALSE
    OBVIOUS
<1> HIDE DEF Rest
<1>2. PICK n \in Rest : \A m \in Rest : <<m, n>> \notin OpToRel(<, Nat)
    <2>1. Rest \subseteq Nat
        BY DEF Rest
    <2> QED BY <1>1, <2>1, WFMin, NatLessThanWellFounded, Zenon
<1>3. n \in Nat /\ n \notin T /\ n # 0
    BY DEF Rest
<1>4. n - 1 \in Nat /\ n - 1 < n /\ (n - 1) + 1 = n
    BY <1>3
<1>5. n - 1 \in T
    <2>1. <<n - 1, n>> \in OpToRel(<, Nat)
        BY <1>3, <1>4, Zenon DEF OpToRel
    <2> QED BY <1>2, <1>4, <2>1 DEF Rest
<1> QED BY <1>3, <1>4, <1>5

(* What is asked of the runs in a queue. *)
Sortable(S, seq) ==
    /\ S \in SUBSET Runs
    /\ \A s \in S : seq[s] \in Nat
    /\ \A s, t \in S : seq[s] = seq[t] => s = t

Sorted(order, S, seq, n) ==
    /\ order \in [1 .. n -> S]
    /\ \A r \in S : \E i \in 1 .. n : order[i] = r
    /\ \A i, j \in 1 .. n : i < j => seq[order[i]] < seq[order[j]]

(* The queue can be sorted: its last run goes behind the others. *)
LEMMA SortedExists ==
    ASSUME NEW seq, NEW S, Sortable(S, seq)
    PROVE  \E order : Sorted(order, S, seq, Cardinality(S))
<1> DEFINE T == {n \in Nat : \A Q : Sortable(Q, seq) /\ Cardinality(Q) = n
                                    => \E order : Sorted(order, Q, seq, n)}
<1>0. ASSUME NEW Q, Sortable(Q, seq) PROVE IsFiniteSet(Q) /\ Cardinality(Q) \in Nat
    BY <1>0, RunsAssumption, FS_Subset, FS_CardinalityType DEF Sortable
<1>1. 0 \in T
    <2> SUFFICES ASSUME NEW Q, Sortable(Q, seq), Cardinality(Q) = 0
                 PROVE  \E order : Sorted(order, Q, seq, 0)
        OBVIOUS
    <2>1. Q = {}
        BY <1>0, FS_EmptySet
    <2>2. Sorted([i \in 1 .. 0 |-> i], Q, seq, 0)
        BY <2>1 DEF Sorted
    <2> QED BY <2>2
<1>2. ASSUME NEW n \in Nat, n \in T PROVE n + 1 \in T
    <2> SUFFICES ASSUME NEW Q, Sortable(Q, seq), Cardinality(Q) = n + 1
                 PROVE  \E order : Sorted(order, Q, seq, n + 1)
        OBVIOUS
    <2>0. IsFiniteSet(Q) /\ Q # {}
        BY <1>0, FS_EmptySet
    <2>1. PICK m \in Q : \A s \in Q : seq[s] <= seq[m]
        BY <2>0, LastOfFiniteSet DEF Sortable
    <2> DEFINE R == Q \ {m}
    <2>2. Cardinality(R) = n
        BY <2>0, FS_RemoveElement
    <2>3. Sortable(R, seq)
        BY DEF Sortable
    <2>4. PICK f : Sorted(f, R, seq, n)
        BY <1>2, <2>2, <2>3
    <2> DEFINE g == [i \in 1 .. (n + 1) |-> IF i = n + 1 THEN m ELSE f[i]]
    <2>5. \A i \in 1 .. (n + 1) : i = n + 1 \/ i \in 1 .. n
        OBVIOUS
    <2>6. \A i \in 1 .. n : f[i] \in R
        BY <2>4 DEF Sorted
    <2>7. /\ g \in [1 .. (n + 1) -> Q] /\ g[n + 1] = m
          /\ \A i \in 1 .. n : g[i] = f[i] /\ i \in 1 .. (n + 1) /\ i < n + 1
        BY <2>5, <2>6
    <2>8. n + 1 \in 1 .. (n + 1)
        OBVIOUS
    <2> HIDE DEF g
    <2>9. \A r \in Q : \E i \in 1 .. (n + 1) : g[i] = r
        <3> SUFFICES ASSUME NEW r \in Q PROVE \E i \in 1 .. (n + 1) : g[i] = r
            OBVIOUS
        <3>1. CASE r = m
            BY <2>7, <2>8, <3>1
        <3>2. CASE r # m
            BY <2>4, <2>7, <3>2 DEF Sorted
        <3> QED BY <3>1, <3>2
    <2>10. ASSUME NEW i \in 1 .. (n + 1), NEW j \in 1 .. (n + 1), i < j PROVE seq[g[i]] < seq[g[j]]
        <3>1. i \in 1 .. n
            BY <2>10
        <3>2. g[i] = f[i] /\ f[i] \in R
            BY <2>6, <2>7, <3>1
        <3>3. CASE j = n + 1
            <4>1. seq[f[i]] \in Nat /\ seq[m] \in Nat /\ seq[f[i]] <= seq[m] /\ seq[f[i]] # seq[m]
                BY <2>1, <3>2 DEF Sortable
            <4> QED BY <2>7, <3>2, <3>3, <4>1
        <3>4. CASE j \in 1 .. n
            BY <2>4, <2>7, <2>10, <3>1, <3>4 DEF Sorted
        <3> QED BY <2>5, <3>3, <3>4
    <2>11. Sorted(g, Q, seq, n + 1)
        BY <2>7, <2>9, <2>10 DEF Sorted
    <2> QED BY <2>11
<1> HIDE DEF T
<1>3. Cardinality(S) \in T
    BY <1>0, <1>1, <1>2, Induction
<1> QED BY <1>3 DEF T

LEMMA InOrderIsSorted ==
    ASSUME NEW seq, NEW S, Sortable(S, seq)
    PROVE  Sorted(InOrder(S, seq), S, seq, Cardinality(S))
<1>1. PICK order : Sorted(order, S, seq, Cardinality(S))
    BY SortedExists
<1>2. PICK n : n = Cardinality(S)
    OBVIOUS
<1> DEFINE P(f) == /\ \A r \in S : \E i \in 1 .. n : f[i] = r
                   /\ \A i, j \in 1 .. n : i < j => seq[f[i]] < seq[f[j]]
<1>3. order \in [1 .. n -> S] /\ P(order)
    BY <1>1, <1>2 DEF Sorted
<1>4. InOrder(S, seq) = CHOOSE f \in [1 .. n -> S] : P(f)
    BY <1>2 DEF InOrder
<1> HIDE DEF P
<1>5. InOrder(S, seq) \in [1 .. n -> S] /\ P(InOrder(S, seq))
    BY <1>3, <1>4
<1> QED BY <1>2, <1>5 DEF P, Sorted

(* What the loop has selected after the first i runs, in two forms. *)
Walks(taken, order, busy, n) ==
    /\ taken = [i \in 0 .. n |-> taken[i]]
    /\ taken[0] = {}
    /\ \A i \in 1 .. n :
          taken[i] = IF CanStart(order[i], busy \cup taken[i - 1])
                     THEN taken[i - 1] \cup {order[i]} ELSE taken[i - 1]

Recurs(f, order, busy, n) ==
    f = [i \in 0 .. n |->
            IF i = 0 THEN {}
            ELSE IF CanStart(order[i], busy \cup f[i - 1])
                 THEN f[i - 1] \cup {order[i]} ELSE f[i - 1]]

LEMMA WalksOnce ==
    ASSUME NEW f, NEW order, NEW busy, NEW n \in Nat
    PROVE  Walks(f, order, busy, n) <=> Recurs(f, order, busy, n)
<1> DEFINE Step(i) == IF i = 0 THEN {}
                      ELSE IF CanStart(order[i], busy \cup f[i - 1])
                           THEN f[i - 1] \cup {order[i]} ELSE f[i - 1]
<1>1. Step(0) = {}
      /\ \A i \in 1 .. n : Step(i) = IF CanStart(order[i], busy \cup f[i - 1])
                                     THEN f[i - 1] \cup {order[i]} ELSE f[i - 1]
    OBVIOUS
<1>2. \A i \in 0 .. n : i = 0 \/ i \in 1 .. n
    OBVIOUS
<1>3. 0 \in 0 .. n /\ \A i \in 1 .. n : i \in 0 .. n
    OBVIOUS
<1> HIDE DEF Step
<1>4. ASSUME f = [i \in 0 .. n |-> Step(i)] PROVE Walks(f, order, busy, n)
    <2>1. \A i \in 0 .. n : f[i] = Step(i)
        BY <1>4
    <2>2. f = [i \in 0 .. n |-> f[i]]
        BY <1>4
    <2> QED BY <1>1, <1>3, <2>1, <2>2 DEF Walks
<1>5. ASSUME Walks(f, order, busy, n) PROVE f = [i \in 0 .. n |-> Step(i)]
    <2>1. \A i \in 0 .. n : f[i] = Step(i)
        BY <1>1, <1>2, <1>5 DEF Walks
    <2>2. f = [i \in 0 .. n |-> f[i]]
        BY <1>5 DEF Walks
    <2> QED BY <2>1, <2>2
<1> QED BY <1>4, <1>5 DEF Step, Recurs

LEMMA WalksExists ==
    ASSUME NEW order, NEW busy, NEW n \in Nat
    PROVE  \E taken : Walks(taken, order, busy, n)
<1> DEFINE T == {m \in Nat : \E taken : Walks(taken, order, busy, m)}
<1>1. 0 \in T
    <2>1. Walks([i \in 0 .. 0 |-> {}], order, busy, 0)
        BY DEF Walks
    <2> QED BY <2>1
<1>2. ASSUME NEW m \in Nat, m \in T PROVE m + 1 \in T
    <2>1. PICK f : Walks(f, order, busy, m)
        BY <1>2
    <2> DEFINE last == IF CanStart(order[m + 1], busy \cup f[m])
                       THEN f[m] \cup {order[m + 1]} ELSE f[m]
               g == [i \in 0 .. (m + 1) |-> IF i = m + 1 THEN last ELSE f[i]]
    <2>2. f[0] = {}
          /\ \A i \in 1 .. m : f[i] = IF CanStart(order[i], busy \cup f[i - 1])
                                      THEN f[i - 1] \cup {order[i]} ELSE f[i - 1]
        BY <2>1 DEF Walks
    <2>3. (m + 1) - 1 = m /\ m + 1 \in Nat /\ 0 \in 0 .. m /\ m \in 0 .. m
        OBVIOUS
    <2>4. \A i \in 1 .. (m + 1) : i \in 1 .. m \/ i = m + 1
        OBVIOUS
    <2>5. \A i \in 1 .. m : i - 1 \in 0 .. m /\ i \in 0 .. m
        OBVIOUS
    <2>6. g[m + 1] = last /\ \A i \in 0 .. m : g[i] = f[i]
        OBVIOUS
    <2>7. g = [i \in 0 .. (m + 1) |-> g[i]]
        OBVIOUS
    <2>8. last = IF CanStart(order[m + 1], busy \cup f[m])
                 THEN f[m] \cup {order[m + 1]} ELSE f[m]
        OBVIOUS
    <2> HIDE DEF g, last
    <2>9. ASSUME NEW i \in 1 .. (m + 1)
          PROVE  g[i] = IF CanStart(order[i], busy \cup g[i - 1])
                        THEN g[i - 1] \cup {order[i]} ELSE g[i - 1]
        <3>1. CASE i \in 1 .. m
            <4>1. g[i] = f[i] /\ g[i - 1] = f[i - 1]
                BY <2>5, <2>6, <3>1
            <4> QED BY <2>2, <3>1, <4>1
        <3>2. CASE i = m + 1
            <4>1. g[i - 1] = f[m] /\ g[i] = last
                BY <2>3, <2>6, <3>2
            <4> QED BY <2>8, <3>2, <4>1
        <3> QED BY <2>4, <3>1, <3>2
    <2>10. g[0] = {}
        BY <2>2, <2>3, <2>6
    <2>11. Walks(g, order, busy, m + 1)
        BY <2>7, <2>9, <2>10, Zenon DEF Walks
    <2> QED BY <2>3, <2>11, Zenon
<1> HIDE DEF T
<1>3. n \in T
    BY <1>1, <1>2, Induction
<1> QED BY <1>3 DEF T

LEMMA LoopWalks ==
    ASSUME NEW seq, NEW busy, NEW S, Cardinality(S) \in Nat
    PROVE  \E taken : /\ Walks(taken, InOrder(S, seq), busy, Cardinality(S))
                      /\ SelectDispatchable(S, busy, seq) = taken[Cardinality(S)]
<1>0. PICK n, order : n = Cardinality(S) /\ order = InOrder(S, seq)
    OBVIOUS
<1>1. n \in Nat
    BY <1>0
<1>2. PICK g : g = CHOOSE h : Recurs(h, order, busy, n)
    OBVIOUS
<1>3. \E f : Recurs(f, order, busy, n)
    <2>1. PICK f : Walks(f, order, busy, n)
        BY <1>1, WalksExists
    <2> QED BY <1>1, <2>1, WalksOnce
<1>4. Recurs(g, order, busy, n)
    BY <1>2, <1>3
<1>5. SelectDispatchable(S, busy, seq) = g[n]
    BY <1>0, <1>2, Zenon DEF SelectDispatchable, Recurs
<1>6. Walks(g, order, busy, n)
    BY <1>1, <1>4, WalksOnce
<1> QED BY <1>0, <1>1, <1>5, <1>6

(* The loop takes exactly the runs that can start next to those before     *)
(* them.                                                                   *)
LEMMA WalkSelects ==
    ASSUME NEW seq, NEW busy, NEW S, Sortable(S, seq), NEW order, NEW n \in Nat,
           Sorted(order, S, seq, n), NEW f, Walks(f, order, busy, n)
    PROVE  /\ f[n] \subseteq S
           /\ \A r \in S : r \in f[n] <=> CanStart(r, busy \cup Before(f[n], r, seq))
<1>1. /\ f[0] = {}
      /\ \A i \in 1 .. n : f[i] = IF CanStart(order[i], busy \cup f[i - 1])
                                  THEN f[i - 1] \cup {order[i]} ELSE f[i - 1]
    BY DEF Walks
<1>2. /\ \A i \in 1 .. n : order[i] \in S /\ seq[order[i]] \in Nat
      /\ \A r \in S : \E i \in 1 .. n : order[i] = r
      /\ \A i, j \in 1 .. n : i < j => seq[order[i]] < seq[order[j]]
    BY DEF Sorted, Sortable
<1> DEFINE P(m) == /\ \A r \in f[m] : \E k \in 1 .. m : order[k] = r
                   /\ \A j \in 1 .. m :
                         order[j] \in f[m]
                         <=> CanStart(order[j], busy \cup Before(f[m], order[j], seq))
           T == {m \in Nat : m <= n => P(m)}
<1>3. 0 \in T
    BY <1>1
<1>4. ASSUME NEW m \in Nat, m \in T PROVE m + 1 \in T
    <2> SUFFICES ASSUME m + 1 <= n PROVE P(m + 1)
        OBVIOUS
    <2>1. m <= n /\ m + 1 \in 1 .. n /\ (m + 1) - 1 = m /\ \A j \in 1 .. m : j \in 1 .. n /\ j < m + 1
        OBVIOUS
    <2>2. \A j \in 1 .. (m + 1) : j \in 1 .. m \/ j = m + 1
        OBVIOUS
    <2>3. \A j \in 1 .. m : j \in 1 .. (m + 1)
        OBVIOUS
    <2>4. P(m)
        BY <1>4, <2>1
    <2> DEFINE r == order[m + 1]
               q == f[m]
               t == f[m + 1]
    <2>5. t = IF CanStart(r, busy \cup q) THEN q \cup {r} ELSE q
        BY <1>1, <2>1
    <2>6. \A j \in 1 .. m : seq[order[j]] < seq[r] /\ seq[order[j]] \in Nat /\ seq[r] \in Nat
        BY <1>2, <2>1
    <2>7. /\ \A s \in q : \E k \in 1 .. m : order[k] = s
          /\ \A j \in 1 .. m :
                order[j] \in q <=> CanStart(order[j], busy \cup Before(q, order[j], seq))
        BY <2>4
    <2> HIDE DEF r, q, t
    <2>8. \A s \in q : seq[s] < seq[r] /\ s # r
        BY <2>6, <2>7
    <2>9. seq[r] \in Nat
        BY <1>2, <2>1 DEF r
    <2>10. Before(t, r, seq) = q
        BY <2>5, <2>8, <2>9 DEF Before
    <2>11. \A j \in 1 .. m : Before(t, order[j], seq) = Before(q, order[j], seq) /\ order[j] # r
        BY <2>5, <2>6 DEF Before
    <2>12. \A s \in t : \E k \in 1 .. (m + 1) : order[k] = s
        <3>1. m + 1 \in 1 .. (m + 1)
            OBVIOUS
        <3>2. \A s \in q : \E k \in 1 .. (m + 1) : order[k] = s
            BY <2>3, <2>7
        <3> QED BY <2>5, <3>1, <3>2 DEF r
    <2>13. r \in t <=> CanStart(r, busy \cup q)
        BY <2>5, <2>8
    <2>14. \A j \in 1 .. m :
              order[j] \in t <=> CanStart(order[j], busy \cup Before(t, order[j], seq))
        BY <2>5, <2>7, <2>11
    <2>15. ASSUME NEW j \in 1 .. (m + 1)
           PROVE  order[j] \in t <=> CanStart(order[j], busy \cup Before(t, order[j], seq))
        <3>1. CASE j = m + 1
            BY <2>10, <2>13, <3>1 DEF r
        <3>2. CASE j \in 1 .. m
            BY <2>14, <3>2
        <3> QED BY <2>2, <3>1, <3>2
    <2> QED BY <2>12, <2>15 DEF t
<1> HIDE DEF T
<1>5. n \in T
    BY <1>3, <1>4, Induction
<1>6. P(n)
    <2>1. n <= n
        OBVIOUS
    <2> HIDE DEF P
    <2> QED BY <1>5, <2>1 DEF T
<1>7. \A r \in S : r \in f[n] <=> CanStart(r, busy \cup Before(f[n], r, seq))
    BY <1>2, <1>6
<1> QED BY <1>2, <1>6, <1>7

(* There is one selection only: the first run two of them differ on has    *)
(* the same runs before it in both.                                        *)
LEMMA SelectionIsUnique ==
    ASSUME NEW seq, NEW busy, NEW queued, Sortable(queued, seq),
           NEW S, IsSelection(S, queued, busy, seq),
           NEW T, IsSelection(T, queued, busy, seq)
    PROVE  S = T
<1> DEFINE D == {r \in queued : (r \in S /\ r \notin T) \/ (r \notin S /\ r \in T)}
           N == {seq[r] : r \in D}
<1>1. S \subseteq queued /\ T \subseteq queued
    BY DEF IsSelection
<1>2. SUFFICES ASSUME N # {} PROVE FALSE
    BY <1>1
<1>3. N \subseteq Nat
    BY DEF Sortable
<1>4. PICK n \in N : \A m \in N : <<m, n>> \notin OpToRel(<, Nat)
    <2> HIDE DEF N
    <2> QED BY <1>2, <1>3, WFMin, NatLessThanWellFounded, Zenon
<1>5. PICK r \in D : seq[r] = n
    OBVIOUS
<1>6. \A s \in D : ~(seq[s] < seq[r])
    <2> SUFFICES ASSUME NEW s \in D, seq[s] < seq[r] PROVE FALSE
        OBVIOUS
    <2>1. seq[s] \in N /\ seq[s] \in Nat /\ n \in Nat
        BY <1>3
    <2>2. <<seq[s], n>> \in OpToRel(<, Nat)
        BY <1>5, <2>1, Zenon DEF OpToRel
    <2> QED BY <1>4, <2>1, <2>2
<1>7. Before(S, r, seq) = Before(T, r, seq)
    BY <1>1, <1>6 DEF Before
<1>8. r \in S <=> r \in T
    BY <1>7 DEF IsSelection
<1> QED BY <1>8

LEMMA LoopIsSelection ==
    ASSUME NEW seq, NEW busy, NEW queued, Sortable(queued, seq), NEW S
    PROVE  IsSelection(S, queued, busy, seq)
           <=> S = SelectDispatchable(queued, busy, seq)
<1> DEFINE n == Cardinality(queued)
           order == InOrder(queued, seq)
<1>1. n \in Nat
    BY RunsAssumption, FS_Subset, FS_CardinalityType DEF Sortable
<1>2. PICK f : Walks(f, order, busy, n) /\ SelectDispatchable(queued, busy, seq) = f[n]
    BY <1>1, LoopWalks
<1>3. Sorted(order, queued, seq, n)
    BY InOrderIsSorted
<1> HIDE DEF n, order
<1>4. /\ f[n] \subseteq queued
      /\ \A r \in queued : r \in f[n] <=> CanStart(r, busy \cup Before(f[n], r, seq))
    BY <1>1, <1>2, <1>3, WalkSelects
<1>5. IsSelection(f[n], queued, busy, seq)
    BY <1>4 DEF IsSelection
<1> QED BY <1>2, <1>5, SelectionIsUnique

(* What fits next to some runs fits next to fewer.                         *)
LEMMA CanStartBesideFewer ==
    ASSUME NEW B \in SUBSET Runs, NEW A \in SUBSET B, NEW r \in Runs, CanStart(r, B)
    PROVE  CanStart(r, A)
<1> DEFINE p == ProfileOf[r]
<1>1. p \in Profiles
    BY RunsAssumption
<1>2. OfProfile(A, p) \in SUBSET OfProfile(B, p) /\ OfProfile(B, p) \in SUBSET Runs
    BY DEF OfProfile
<1>3. IsFiniteSet(B) /\ IsFiniteSet(OfProfile(B, p))
    BY <1>2, RunsAssumption, FS_Subset
<1>4. /\ IsFiniteSet(A) /\ Cardinality(A) <= Cardinality(B)
      /\ IsFiniteSet(OfProfile(A, p)) /\ Cardinality(OfProfile(A, p)) <= Cardinality(OfProfile(B, p))
    BY <1>2, <1>3, FS_Subset
<1>5. /\ Cardinality(A) \in Nat /\ Cardinality(B) \in Nat
      /\ Cardinality(OfProfile(A, p)) \in Nat /\ Cardinality(OfProfile(B, p)) \in Nat
    BY <1>3, <1>4, FS_CardinalityType
<1>6. GlobalConcurrency \in Nat /\ ProfileConcurrency[p] \in Nat
    BY <1>1, LimitsAssumption
<1>7. /\ Cardinality(B) < GlobalConcurrency
      /\ Cardinality(OfProfile(B, p)) < ProfileConcurrency[p]
      /\ \A b \in B : WorkspaceOf[b] # WorkspaceOf[r]
    BY DEF CanStart
<1> HIDE DEF p
<1>8. Cardinality(A) < GlobalConcurrency /\ Cardinality(OfProfile(A, p)) < ProfileConcurrency[p]
    BY <1>4, <1>5, <1>6, <1>7
<1> QED BY <1>7, <1>8 DEF CanStart, p

(* The loop's own scheduler numbers the runs as they come. *)
QueueInv ==
    /\ queueStatus \in [Runs -> QueueStatus]
    /\ sequenceOf \in [Runs -> Nat]
    /\ nextNumber \in Nat \ {0}
    /\ \A r \in Runs : queueStatus[r] # "absent" => sequenceOf[r] < nextNumber
    /\ \A r, s \in Runs : queueStatus[r] # "absent" /\ queueStatus[s] # "absent"
                             /\ sequenceOf[r] = sequenceOf[s] => r = s

LEMMA WaitingSortable ==
    ASSUME QueueInv
    PROVE  Sortable(Waiting, sequenceOf)
BY DEF QueueInv, Sortable, Waiting, WithStatus

LEMMA QueueInvariance == QueueSpec => []QueueInv
<1>1. QueueInit => QueueInv
    BY DEF QueueInit, QueueInv, QueueStatus
<1>2. QueueInv /\ [QueueNext]_queueVars => QueueInv'
    <2> SUFFICES ASSUME QueueInv, [QueueNext]_queueVars PROVE QueueInv'
        OBVIOUS
    <2>1. CASE \E r \in Runs : Enqueue(r)
        <3>1. PICK r \in Runs : Enqueue(r)
            BY <2>1
        <3>2. /\ nextNumber' = nextNumber + 1
              /\ \A s \in Runs : sequenceOf'[s] = IF s = r THEN nextNumber ELSE sequenceOf[s]
              /\ \A s \in Runs : s = r \/ queueStatus'[s] = queueStatus[s]
              /\ queueStatus' \in [Runs -> QueueStatus] /\ sequenceOf' \in [Runs -> Nat]
            BY <3>1 DEF Enqueue, QueueInv, QueueStatus
        <3> QED BY <3>2 DEF QueueInv
    <2>2. CASE \E r \in Runs : BeginEnd(r) \/ End(r)
        BY <2>2 DEF BeginEnd, End, QueueInv, QueueStatus
    <2>3. CASE DispatchSelected
        <3> DEFINE S == SelectDispatchable(Waiting, Occupied, sequenceOf)
        <3>1. /\ queueStatus' = [r \in Runs |-> IF r \in S THEN "starting" ELSE queueStatus[r]]
              /\ UNCHANGED <<sequenceOf, nextNumber>>
            BY <2>3 DEF DispatchSelected
        <3>2. S \subseteq Waiting
            BY WaitingSortable, LoopIsSelection DEF IsSelection
        <3> HIDE DEF S
        <3>3. \A r \in Runs : queueStatus'[r] # "absent" => queueStatus[r] # "absent"
            BY <3>1, <3>2 DEF Waiting, WithStatus
        <3>4. queueStatus' \in [Runs -> QueueStatus]
            BY <3>1 DEF QueueInv, QueueStatus
        <3> QED BY <3>1, <3>3, <3>4 DEF QueueInv
    <2>4. CASE UNCHANGED queueVars
        BY <2>4 DEF queueVars, QueueInv
    <2> QED BY <2>1, <2>2, <2>3, <2>4 DEF QueueNext
<1> QED BY <1>1, <1>2, PTL DEF QueueSpec

(* Whatever is queued and busy, the queue has one selection by the         *)
(* declarative rule, and it is the set selectDispatchableCandidates walks  *)
(* to.                                                                     *)
THEOREM SelectionComputed == QueueSpec => []SelectionIsTheLoop
<1>1. QueueInv => SelectionIsTheLoop
    BY WaitingSortable, LoopIsSelection DEF SelectionIsTheLoop
<1> QED BY <1>1, QueueInvariance, PTL

(* A selection leaves nothing behind that still fits.                      *)
LEMMA SelectionIsMaximal ==
    ASSUME NEW seq, NEW busy \in SUBSET Runs, NEW queued \in SUBSET Runs,
           NEW S, IsSelection(S, queued, busy, seq), NEW r \in queued, r \notin S
    PROVE  ~CanStart(r, busy \cup S)
<1>1. ~CanStart(r, busy \cup Before(S, r, seq))
    BY DEF IsSelection
<1>2. /\ busy \cup S \in SUBSET Runs
      /\ busy \cup Before(S, r, seq) \in SUBSET (busy \cup S)
    BY DEF IsSelection, Before
<1> QED BY <1>1, <1>2, CanStartBesideFewer

(* After a dispatch no queued run could start: a run that is blocked by    *)
(* its workspace or its profile does not hold up the ones behind it.       *)
THEOREM DispatchTakesAllItCan == QueueSpec => DispatchIsMaximal
<1>1. ASSUME QueueInv, DispatchSelected, NEW r \in Waiting'
      PROVE  ~CanStart(r, Occupied')
    <2> DEFINE S == SelectDispatchable(Waiting, Occupied, sequenceOf)
    <2>1. IsSelection(S, Waiting, Occupied, sequenceOf)
        BY <1>1, WaitingSortable, LoopIsSelection
    <2>2. \A q \in Runs : queueStatus'[q] = IF q \in S THEN "starting" ELSE queueStatus[q]
        BY <1>1 DEF DispatchSelected
    <2> HIDE DEF S
    <2>3. r \in Waiting /\ r \notin S
        BY <1>1, <2>2 DEF Waiting, WithStatus
    <2>4. Occupied' = Occupied \cup S
        BY <2>1, <2>2 DEF Occupied, Waiting, WithStatus, CapacityConsuming, IsSelection
    <2>5. Occupied \in SUBSET Runs /\ Waiting \in SUBSET Runs
        BY DEF Occupied, Waiting, WithStatus
    <2>6. ~CanStart(r, Occupied \cup S)
        BY <2>1, <2>3, <2>5, SelectionIsMaximal
    <2> QED BY <2>4, <2>6
<1>2. QueueInv => (DispatchSelected => \A r \in Waiting' : ~CanStart(r, Occupied'))
    BY <1>1
<1> QED BY <1>2, QueueInvariance, PTL DEF DispatchIsMaximal

LEMMA DaemonSortable ==
    ASSUME Inv
    PROVE  Sortable(Queued, Sequence)
<1>1. \A r \in Queued : r \in Runs /\ state[r].seq > 0 /\ Sequence[r] = state[r].seq
    BY DEF Inv, Shape, ShapeOf, Queued, Sequence
<1>2. \A r \in Runs : state[r].seq \in Nat
    BY DEF Inv, TypeOK, RunState
<1>3. \A a, b \in Queued : state[a].seq = state[b].seq => a = b
    <2>1. \A n \in Nat : n > 0 => n # 0
        OBVIOUS
    <2> QED BY <1>1, <1>2, <2>1 DEF Inv, DistinctSequence
<1> QED BY <1>1, <1>2, <1>3 DEF Sortable

(* A dispatch of the daemon, wherever its runs stand, starts exactly the   *)
(* runs the loop walks to, and leaves no queued run behind that the limits *)
(* would still admit: it is not for want of another wakeup that one waits. *)
THEOREM DaemonDispatchesTheLoop ==
    Spec => [][Dispatch =>
                 /\ \A r \in Queued : r \in Queued' <=> r \notin SelectDispatchable(Queued, Busy, Sequence)
                 /\ \A r \in Queued' : ~CanStart(r, Busy')]_vars
<1>1. ASSUME Inv, Dispatch
      PROVE  /\ \A r \in Queued : r \in Queued' <=> r \notin SelectDispatchable(Queued, Busy, Sequence)
             /\ \A r \in Queued' : ~CanStart(r, Busy')
    <2>1. PICK S \in SUBSET Queued :
             /\ IsSelection(S, Queued, Busy, Sequence)
             /\ state' = [r \in Runs |-> IF r \in S
                                         THEN [state[r] EXCEPT !.queue = "starting", !.start = "mark"]
                                         ELSE state[r]]
        BY <1>1 DEF Dispatch
    <2>2. S = SelectDispatchable(Queued, Busy, Sequence)
        BY <1>1, <2>1, DaemonSortable, LoopIsSelection
    <2>3. \A r \in Runs : state[r] \in RunState
        BY <1>1 DEF Inv, TypeOK
    <2>4. \A r \in Runs : state'[r].queue = IF r \in S THEN "starting" ELSE state[r].queue
        BY <2>1, <2>3 DEF RunState
    <2>5. \A r \in Runs : r \in Queued' <=> r \in Queued /\ r \notin S
        BY <2>4 DEF Queued
    <2>6. Busy' = Busy \cup S
        BY <2>4 DEF Busy, CapacityConsuming, Queued
    <2>7. \A r \in Queued \ S : ~CanStart(r, Busy \cup S)
        BY <2>1, SelectionIsMaximal DEF Queued, Busy
    <2>8. Queued' \subseteq Runs /\ Queued \subseteq Runs
        BY DEF Queued
    <2> QED BY <2>2, <2>5, <2>6, <2>7, <2>8
<1>2. Inv => (Dispatch => /\ \A r \in Queued : r \in Queued' <=> r \notin SelectDispatchable(Queued, Busy, Sequence)
                          /\ \A r \in Queued' : ~CanStart(r, Busy'))
    BY <1>1
<1> QED BY <1>2, Invariance, PTL
=============================================================================
