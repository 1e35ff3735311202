------------------------- MODULE RunStreamingProofs -------------------------
(***************************************************************************)
(* Proofs about CliRunner, for both values of InactivityTimeout: the two   *)
(* timer invariants, and that the runner implements RunnerContract; that   *)
(* all of it holds of the runner in RunStreaming, whose steps change a     *)
(* runner by its own steps only.  And of the event stream beside it: what  *)
(* its clients miss was trimmed from the buffer.                           *)
(***************************************************************************)
EXTENDS RunStreaming, SequenceTheorems, WellFoundedInduction, TLAPS

(* A closed child has ended, and its run has a result; a run without a     *)
(* child has one too.                                                      *)
ClosedMeansOver ==
    /\ childClosed => exit \in {"zero", "other"} /\ Completed
    /\ exit = "unborn" => Completed /\ ~childClosed

Inv ==
    /\ TypeOK
    /\ WatchdogCoversRun
    /\ EscalationCoversChild
    /\ ClosedMeansOver

USE InactivityAssumption DEF Completed, Open

(* The invariant holds initially, with and without a child. *)
LEMMA InvInitially == Init => Inv
<1> SUFFICES ASSUME Init PROVE Inv
    OBVIOUS
<1> USE DEF Init, Inv, TypeOK, WatchdogCoversRun, EscalationCoversChild, ClosedMeansOver
<1>1. TypeOK
    OBVIOUS
<1>2. WatchdogCoversRun
    <2>1. CASE InactivityTimeout = TRUE
        BY <2>1
    <2>2. CASE InactivityTimeout = FALSE
        BY <2>2
    <2> QED BY <2>1, <2>2
<1>3. EscalationCoversChild /\ ClosedMeansOver
    OBVIOUS
<1> QED BY <1>1, <1>2, <1>3

(* Every handler keeps the timers in step with the run and the child. *)
LEMMA InvKept == Inv /\ [Next]_vars => Inv'
<1> SUFFICES ASSUME Inv, [Next]_vars PROVE Inv'
    OBVIOUS
<1> USE DEF Inv, TypeOK, WatchdogCoversRun, EscalationCoversChild, ClosedMeansOver
<1>1. CASE ProcessExits
    <2>1. exit' \in {"zero", "other"}
        BY <1>1 DEF ProcessExits
    <2> QED BY <1>1, <2>1 DEF ProcessExits
<1>2. CASE PipesEnd
    BY <1>2 DEF PipesEnd
<1>3. CASE Output
    BY <1>3 DEF Output, process, WatchdogAfterActivity
<1>4. CASE Close
    <2>1. CloseStatus \in {"succeeded", "failed", "canceled"}
        BY DEF CloseStatus
    <2>2. result' # "none" /\ result' \in {"succeeded", "failed", "canceled"}
        BY <1>4, <2>1 DEF Close, Complete
    <2>3. inactivityTimer' = FALSE
        BY <1>4 DEF Close, Complete, WatchdogAfterActivity
    <2> QED BY <1>4, <2>2, <2>3 DEF Close
<1>5. CASE Error
    BY <1>5 DEF Error, Complete, TerminateChild
<1>6. CASE InactivityFires
    BY <1>6 DEF InactivityFires, Complete, TerminateChild
<1>7. CASE KillTimerFires
    BY <1>7 DEF KillTimerFires
<1>8. CASE Cancel
    BY <1>8 DEF Cancel, TerminateChild
<1>9. CASE UNCHANGED vars
    BY <1>9 DEF vars
<1> QED BY <1>1, <1>2, <1>3, <1>4, <1>5, <1>6, <1>7, <1>8, <1>9 DEF Next

LEMMA InvAlways == Spec => []Inv
BY InvInitially, InvKept, PTL DEF Spec

(* The watchdog is set exactly while the run can still be found inactive:  *)
(* complete, cancel and the flush after close leave none behind; and a     *)
(* child that was sent SIGTERM has the timer for SIGKILL as long as it is  *)
(* there, whatever completed the run meanwhile.                            *)
THEOREM TimersExact == Spec => []TimersAreExact
<1>1. Inv => TimersAreExact
    BY DEF Inv, TimersAreExact
<1> QED BY <1>1, InvAlways, PTL

(* Where an open child stands in terms of the contract. *)
LEMMA StepKeepsContract == Inv /\ [Next]_vars => [Contract!Next]_Contract!vars
<1> SUFFICES ASSUME Inv, [Next]_vars PROVE [Contract!Next]_Contract!vars
    OBVIOUS
<1> USE DEF Inv, TypeOK, ClosedMeansOver, Contract!vars
<1>1. CASE ProcessExits
    <2>1. exit = "running" /\ exit' \in {"zero", "other"}
        BY <1>1 DEF ProcessExits
    <2> QED BY <1>1, <2>1 DEF ProcessExits
<1>2. CASE PipesEnd
    BY <1>2 DEF PipesEnd
<1>3. CASE Output
    BY <1>3 DEF Output, process
<1>4. CASE Close
    <2>1. /\ exit # "unborn" /\ exit' = exit
          /\ ~childClosed /\ childClosed'
          /\ cancelRequested' = cancelRequested
          /\ result' = IF Completed THEN result ELSE CloseStatus
        BY <1>4 DEF Close, Complete
    <2>2. Contract!ChildEnds
        <3>1. CASE Completed
            BY <2>1, <3>1 DEF Contract!ChildEnds
        <3>2. CASE ~Completed /\ cancelRequested
            BY <2>1, <3>2 DEF Contract!ChildEnds, Contract!Complete, CloseStatus
        <3>3. CASE ~Completed /\ ~cancelRequested
            BY <2>1, <3>3 DEF Contract!ChildEnds, Contract!Complete, CloseStatus
        <3> QED BY <3>1, <3>2, <3>3
    <2> QED BY <2>2 DEF Contract!Next
<1>5. CASE Error
    <2>1. Contract!Fail
        BY <1>5 DEF Error, Complete, Contract!Fail, Contract!Complete
    <2> QED BY <2>1 DEF Contract!Next
<1>6. CASE InactivityFires
    <2>1. /\ ~Completed /\ ~cancelRequested
          /\ exit # "unborn" /\ ~childClosed
        BY <1>6 DEF InactivityFires, WatchdogCoversRun
    <2>2. Contract!Fail
        BY <1>6, <2>1 DEF InactivityFires, Complete, Contract!Fail, Contract!Complete
    <2> QED BY <2>2 DEF Contract!Next
<1>7. CASE KillTimerFires
    BY <1>7 DEF KillTimerFires
<1>8. CASE Cancel
    <2>1. Contract!Cancel
        BY <1>8 DEF Cancel, Contract!Cancel
    <2> QED BY <2>1 DEF Contract!Next
<1>9. CASE UNCHANGED vars
    BY <1>9 DEF vars
<1> QED BY <1>1, <1>2, <1>3, <1>4, <1>5, <1>6, <1>7, <1>8, <1>9 DEF Next

(* The events, timers and cancel() of startClaudeCliRun, in any order,     *)
(* give the run one result by the rule RunLifecycle relies on.             *)
THEOREM RunnerKeepsContract == Spec => KeepsRunnerContract
<1>1. Init => Contract!Init
    BY DEF Init, Contract!Init
<1> QED BY <1>1, InvAlways, StepKeepsContract, PTL DEF Spec, KeepsRunnerContract, Contract!Spec

(* The run timeout, a cancel request and finishRun act on the child only   *)
(* through the handlers of startClaudeCliRun.                              *)
LEMMA StreamedRunner == StreamSpec => Spec
<1>1. StreamInit => Init
    BY DEF StreamInit
<1>2. [StreamNext]_streamVars => [Next]_vars
    <2> SUFFICES ASSUME [StreamNext]_streamVars PROVE [Next]_vars
        OBVIOUS
    <2>1. CASE FailedSpawn \/ ArtifactsFinalized \/ EndEvent \/ StreamStep
        BY <2>1 DEF FailedSpawn, ArtifactsFinalized, EndEvent, StreamStep
    <2>2. CASE Chunk \/ ProcessStep \/ RunnerFails \/ ChildCloses
        BY <2>2 DEF Chunk, ProcessStep, RunnerFails, ChildCloses, Next
    <2>3. CASE CancelRun \/ TimeoutRun
        BY <2>3 DEF CancelRun, TimeoutRun, Next
    <2>4. CASE UNCHANGED streamVars
        BY <2>4 DEF streamVars
    <2> QED BY <2>1, <2>2, <2>3, <2>4 DEF StreamNext
<1> QED BY <1>1, <1>2, PTL DEF StreamSpec, Spec

(* The runner beside its event stream, with any clients and any buffer,    *)
(* keeps its timers exact and its contract.                                *)
THEOREM StreamedRunnerIsExact == StreamSpec => []TimersAreExact /\ KeepsRunnerContract
<1> QED BY StreamedRunner, TimersExact, RunnerKeepsContract

-----------------------------------------------------------------------------
(* Induction over the numbers, with a set in the place of a predicate. *)
LEMMA Induction ==
    ASSUME NEW T, 0 \in T, \A n \in Nat : n \in T => n + 1 \in T
    PROVE  Nat \subseteq T
<1> DEFINE Rest == Nat \ T
<1>1. SUFFICES ASSUME Rest # {} PROVE FALSE
    OBVIOUS
<1> HIDE DEF Rest
<1>2. PICK n \in Rest : \A m \in Rest : <<m, n>> \notin OpToRel(<, Nat)
    <2>1. Rest \subseteq Nat
        BY DEF Rest
    <2> QED BY <1>1, <2>1, WFMin, NatLessThanWellFounded, Zenon
<1>3. n \in Nat /\ n \notin T /\ n # 0
    BY DEF Rest
<1>4. n - 1 \in Nat /\ n - 1 < n /\ (n - 1) + 1 = n
    BY <1>3
<1>5. n - 1 \in T
    <2>1. <<n - 1, n>> \in OpToRel(<, Nat)
        BY <1>3, <1>4, Zenon DEF OpToRel
    <2> QED BY <1>2, <1>4, <2>1 DEF Rest
<1> QED BY <1>3, <1>4, <1>5

(* What Among has taken of the first i elements. *)
Takes(taken, s, S, n) ==
    /\ taken = [i \in 0 .. n |-> taken[i]]
    /\ taken[0] = <<>>
    /\ \A i \in 1 .. n :
          taken[i] = IF s[i] \in S THEN Append(taken[i - 1], s[i]) ELSE taken[i - 1]

LEMMA TakesOnce ==
    ASSUME NEW f, NEW s, NEW S, NEW n \in Nat
    PROVE  Takes(f, s, S, n)
           <=> f = [i \in 0 .. n |-> IF i = 0 THEN <<>>
                                    ELSE IF s[i] \in S THEN Append(f[i - 1], s[i]) ELSE f[i - 1]]
<1> DEFINE Step(i) == IF i = 0 THEN <<>>
                      ELSE IF s[i] \in S THEN Append(f[i - 1], s[i]) ELSE f[i - 1]
<1>1. Step(0) = <<>>
      /\ \A i \in 1 .. n : Step(i) = IF s[i] \in S THEN Append(f[i - 1], s[i]) ELSE f[i - 1]
    OBVIOUS
<1>2. \A i \in 0 .. n : i = 0 \/ i \in 1 .. n
    OBVIOUS
<1>3. 0 \in 0 .. n /\ \A i \in 1 .. n : i \in 0 .. n
    OBVIOUS
<1> HIDE DEF Step
<1>4. ASSUME f = [i \in 0 .. n |-> Step(i)] PROVE Takes(f, s, S, n)
    <2>1. \A i \in 0 .. n : f[i] = Step(i)
        BY <1>4
    <2>2. f = [i \in 0 .. n |-> f[i]]
        BY <1>4
    <2> QED BY <1>1, <1>3, <2>1, <2>2 DEF Takes
<1>5. ASSUME Takes(f, s, S, n) PROVE f = [i \in 0 .. n |-> Step(i)]
    <2>1. \A i \in 0 .. n : f[i] = Step(i)
        BY <1>1, <1>2, <1>5 DEF Takes
    <2>2. f = [i \in 0 .. n |-> f[i]]
        BY <1>5 DEF Takes
    <2> QED BY <2>1, <2>2
<1> QED BY <1>4, <1>5 DEF Step

LEMMA TakesExists ==
    ASSUME NEW s, NEW S, NEW n \in Nat
    PROVE  \E taken : Takes(taken, s, S, n)
<1> DEFINE T == {m \in Nat : \E taken : Takes(taken, s, S, m)}
<1>1. 0 \in T
    <2>1. Takes([i \in 0 .. 0 |-> <<>>], s, S, 0)
        BY DEF Takes
    <2> QED BY <2>1
<1>2. ASSUME NEW m \in Nat, m \in T PROVE m + 1 \in T
    <2>1. PICK f : Takes(f, s, S, m)
        BY <1>2
    <2> DEFINE last == IF s[m + 1] \in S THEN Append(f[m], s[m + 1]) ELSE f[m]
               g == [i \in 0 .. (m + 1) |-> IF i = m + 1 THEN last ELSE f[i]]
    <2>2. DOMAIN f = 0 .. m /\ f[0] = <<>>
          /\ \A i \in 1 .. m : f[i] = IF s[i] \in S THEN Append(f[i - 1], s[i]) ELSE f[i - 1]
        BY <2>1 DEF Takes
    <2>3. \A i \in 0 .. (m + 1) : i \in 0 .. m \/ i = m + 1
        OBVIOUS
    <2>4. g[0] = <<>> /\ \A i \in 0 .. m : g[i] = f[i]
        BY <2>2
    <2>5. g[m + 1] = last
        OBVIOUS
    <2>6. ASSUME NEW i \in 1 .. (m + 1)
          PROVE  g[i] = IF s[i] \in S THEN Append(g[i - 1], s[i]) ELSE g[i - 1]
        <3>1. i - 1 \in 0 .. m /\ g[i - 1] = f[i - 1]
            BY <2>4
        <3>2. CASE i \in 1 .. m
            <4>1. g[i] = f[i]
                BY <2>4, <3>2
            <4> QED BY <2>2, <3>1, <3>2, <4>1
        <3>3. CASE i = m + 1
            BY <2>5, <3>1, <3>3
        <3> QED BY <3>2, <3>3
    <2> HIDE DEF last
    <2>7. g = [i \in 0 .. (m + 1) |-> g[i]]
        OBVIOUS
    <2> HIDE DEF g
    <2>8. Takes(g, s, S, m + 1)
        BY <2>4, <2>6, <2>7, Zenon DEF Takes
    <2>9. m + 1 \in Nat
        OBVIOUS
    <2> QED BY <2>8, <2>9, Zenon
<1> HIDE DEF T
<1>3. n \in T
    BY <1>1, <1>2, Induction
<1> QED BY <1>3 DEF T

LEMMA AmongTakes ==
    ASSUME NEW s, NEW S, Len(s) \in Nat
    PROVE  \E taken : Takes(taken, s, S, Len(s)) /\ Events!Among(s, S) = taken[Len(s)]
<1> DEFINE Inner(g) == g = [i \in 0 .. Len(s) |-> IF i = 0 THEN <<>>
                         ELSE IF s[i] \in S THEN Append(g[i - 1], s[i]) ELSE g[i - 1]]
<1>1. PICK g : g = CHOOSE h : Inner(h)
    OBVIOUS
<1>2. \E f : Inner(f)
    <2>1. PICK f : Takes(f, s, S, Len(s))
        BY TakesExists
    <2>2. Inner(f)
        BY <2>1, TakesOnce
    <2> QED BY <2>2
<1>3. Inner(g)
    <2> HIDE DEF Inner
    <2> QED BY <1>1, <1>2
<1>4. Events!Among(s, S) = g[Len(s)]
    BY <1>1, Zenon DEF Events!Among
<1> QED BY <1>3, <1>4, TakesOnce

(* Numbers in increasing order; all elements of s that are in S, and no    *)
(* others, in the order of s.                                              *)
Increasing(s) == \A i, j \in DOMAIN s : i < j => s[i] < s[j]

LEMMA AppendNumber ==
    ASSUME NEW q \in Seq(Nat), NEW n \in Nat
    PROVE  /\ Append(q, n) \in Seq(Nat)
           /\ Len(q) \in Nat /\ DOMAIN q = 1 .. Len(q) /\ DOMAIN Append(q, n) = 1 .. (Len(q) + 1)
           /\ Append(q, n)[Len(q) + 1] = n
           /\ \A k \in DOMAIN q : Append(q, n)[k] = q[k] /\ k < Len(q) + 1
           /\ \A k \in DOMAIN Append(q, n) : k \in DOMAIN q \/ k = Len(q) + 1
           /\ \A k \in DOMAIN q : k \in DOMAIN Append(q, n)
           /\ Len(q) + 1 \in DOMAIN Append(q, n)
           /\ \A k \in DOMAIN q : q[k] \in Nat
<1>1. /\ Append(q, n) \in Seq(Nat) /\ Len(Append(q, n)) = Len(q) + 1
      /\ Len(q) \in Nat /\ DOMAIN q = 1 .. Len(q) /\ DOMAIN Append(q, n) = 1 .. (Len(q) + 1)
    BY AppendProperties, LenProperties
<1>2. Append(q, n)[Len(q) + 1] = n /\ \A k \in 1 .. Len(q) : Append(q, n)[k] = q[k]
    BY AppendProperties
<1>3. \A k \in DOMAIN q : q[k] \in Nat
    BY <1>1, ElementOfSeq
<1> QED BY <1>1, <1>2, <1>3

LEMMA AmongFacts ==
    ASSUME NEW s \in Seq(Nat), NEW S, Increasing(s)
    PROVE  /\ Events!Among(s, S) \in Seq(Nat)
           /\ \A k \in DOMAIN Events!Among(s, S) :
                 \E j \in DOMAIN s : Events!Among(s, S)[k] = s[j] /\ s[j] \in S
           /\ \A j \in DOMAIN s :
                 s[j] \in S => \E k \in DOMAIN Events!Among(s, S) : Events!Among(s, S)[k] = s[j]
           /\ Increasing(Events!Among(s, S))
<1>1. Len(s) \in Nat /\ DOMAIN s = 1 .. Len(s) /\ \A i \in 1 .. Len(s) : s[i] \in Nat
    BY LenProperties, ElementOfSeq
<1>2. PICK f : Takes(f, s, S, Len(s)) /\ Events!Among(s, S) = f[Len(s)]
    BY <1>1, AmongTakes
<1>3. f[0] = <<>>
      /\ \A i \in 1 .. Len(s) : f[i] = IF s[i] \in S THEN Append(f[i - 1], s[i]) ELSE f[i - 1]
    BY <1>1, <1>2 DEF Takes
<1> DEFINE P(n) == /\ f[n] \in Seq(Nat)
                   /\ \A k \in DOMAIN f[n] : \E j \in 1 .. n : f[n][k] = s[j] /\ s[j] \in S
                   /\ \A j \in 1 .. n : s[j] \in S => \E k \in DOMAIN f[n] : f[n][k] = s[j]
                   /\ Increasing(f[n])
           T == {n \in Nat : n <= Len(s) => P(n)}
<1>4. 0 \in T
    <2>1. f[0] = <<>> /\ DOMAIN f[0] = {} /\ f[0] \in Seq(Nat) /\ 1 .. 0 = {}
        BY <1>3
    <2> QED BY <2>1 DEF Increasing
<1>5. ASSUME NEW m \in Nat, m \in T PROVE m + 1 \in T
    <2> SUFFICES ASSUME m + 1 <= Len(s) PROVE P(m + 1)
        OBVIOUS
    <2> DEFINE q == f[m]
               r == f[m + 1]
    <2>0. m <= Len(s)
        BY <1>1
    <2>1. /\ q \in Seq(Nat)
          /\ \A k \in DOMAIN q : \E j \in 1 .. m : q[k] = s[j] /\ s[j] \in S
          /\ \A j \in 1 .. m : s[j] \in S => \E k \in DOMAIN q : q[k] = s[j]
          /\ Increasing(q)
        BY <1>5, <2>0
    <2>2. m + 1 \in 1 .. Len(s) /\ (m + 1) - 1 = m /\ s[m + 1] \in Nat
        BY <1>1
    <2>3. r = IF s[m + 1] \in S THEN Append(q, s[m + 1]) ELSE q
        BY <1>3, <2>2
    <2>4. (\A j \in 1 .. (m + 1) : j \in 1 .. m \/ j = m + 1)
          /\ (\A j \in 1 .. m : j \in 1 .. (m + 1)) /\ m + 1 \in 1 .. (m + 1)
        OBVIOUS
    <2>5. \A j \in 1 .. m : s[j] < s[m + 1]
        BY <1>1, <2>2 DEF Increasing
    <2> HIDE DEF q, r
    <2>6. CASE s[m + 1] \notin S
        <3>1. r = q
            BY <2>3, <2>6
        <3> QED BY <2>1, <2>4, <2>6, <3>1 DEF q, r
    <2>7. CASE s[m + 1] \in S
        <3>1. r = Append(q, s[m + 1])
            BY <2>3, <2>7
        <3>2. /\ r \in Seq(Nat)
              /\ r[Len(q) + 1] = s[m + 1]
              /\ \A k \in DOMAIN q : r[k] = q[k] /\ k < Len(q) + 1
              /\ \A k \in DOMAIN r : k \in DOMAIN q \/ k = Len(q) + 1
              /\ \A k \in DOMAIN q : k \in DOMAIN r
              /\ Len(q) + 1 \in DOMAIN r
              /\ Len(q) \in Nat /\ DOMAIN q = 1 .. Len(q)
            BY <2>1, <2>2, <3>1, AppendNumber
        <3>3. \A k \in DOMAIN r : \E j \in 1 .. (m + 1) : r[k] = s[j] /\ s[j] \in S
            <4>1. \A k \in DOMAIN q : \E j \in 1 .. (m + 1) : r[k] = s[j] /\ s[j] \in S
                <5> SUFFICES ASSUME NEW k \in DOMAIN q
                             PROVE  \E j \in 1 .. (m + 1) : r[k] = s[j] /\ s[j] \in S
                    OBVIOUS
                <5>1. PICK j \in 1 .. m : q[k] = s[j] /\ s[j] \in S
                    BY <2>1
                <5>2. r[k] = q[k] /\ j \in 1 .. (m + 1)
                    BY <2>4, <3>2
                <5> QED BY <5>1, <5>2
            <4>2. r[Len(q) + 1] = s[m + 1] /\ m + 1 \in 1 .. (m + 1)
                BY <2>4, <3>2
            <4> QED BY <2>7, <3>2, <4>1, <4>2
        <3>4. \A j \in 1 .. (m + 1) : s[j] \in S => \E k \in DOMAIN r : r[k] = s[j]
            BY <2>1, <2>4, <3>2
        <3>5. \A k \in DOMAIN q : q[k] < s[m + 1]
            BY <2>1, <2>5
        <3>6. ASSUME NEW i \in DOMAIN r, NEW j \in DOMAIN r, i < j PROVE r[i] < r[j]
            <4>1. i \in DOMAIN q
                <5>1. j <= Len(q) + 1 /\ j \in Nat /\ i \in Nat
                    BY <2>1, <2>2, <3>1, AppendNumber
                <5> QED BY <3>2, <3>6, <5>1, SMTT(30)
            <4> QED BY <2>1, <3>2, <3>5, <3>6, <4>1 DEF Increasing
        <3> QED BY <3>2, <3>3, <3>4, <3>6 DEF r, Increasing
    <2> QED BY <2>6, <2>7
<1> HIDE DEF T
<1>6. Len(s) \in T
    BY <1>1, <1>4, <1>5, Induction
<1>7. P(Len(s))
    BY <1>1, <1>6 DEF T
<1> DEFINE a == f[Len(s)]
<1>8. /\ a \in Seq(Nat)
      /\ \A k \in DOMAIN a : \E j \in DOMAIN s : a[k] = s[j] /\ s[j] \in S
      /\ \A j \in DOMAIN s : s[j] \in S => \E k \in DOMAIN a : a[k] = s[j]
      /\ Increasing(a)
    BY <1>1, <1>7
<1> HIDE DEF a
<1>9. Events!Among(s, S) = a
    BY <1>2 DEF a
<1> QED BY <1>8, <1>9
-----------------------------------------------------------------------------
(* The event stream: the buffer holds the last ids, and of the ids before  *)
(* the last one a client has or will have received, it has all but those   *)
(* that were trimmed; while it is subscribed, of all ids.                  *)
Has(q, id) == \E k \in DOMAIN q : q[k] = id

BufferIsNewest ==
    /\ kinds \in Seq({"shown", "hidden", "end"})
    /\ buffer \in Seq(Nat)
    /\ Len(buffer) <= Len(kinds) /\ Len(buffer) <= BufferSize
    /\ Len(buffer) = Len(kinds) \/ Len(buffer) = BufferSize
    /\ \A i \in 1 .. Len(buffer) : buffer[i] = Len(kinds) - Len(buffer) + i

Trimmed(id) == id + BufferSize <= Len(kinds)
Passed(c, id) == \E later \in Nat : id < later /\ (Has(seen[c], later) \/ Has(wire[c], later))
Missing(c, id) == Events!Shown(kinds[id]) /\ ~Has(seen[c], id) /\ ~Has(wire[c], id)

ClientInv(c) ==
    /\ seen[c] \in Seq(Nat) /\ wire[c] \in Seq(Nat)
    /\ \A k \in DOMAIN seen[c] : seen[c][k] \in 1 .. Len(kinds)
    /\ \A k \in DOMAIN wire[c] : wire[c][k] \in 1 .. Len(kinds)
    /\ Increasing(seen[c]) /\ Increasing(wire[c])
    /\ \A i \in DOMAIN seen[c], k \in DOMAIN wire[c] : seen[c][i] < wire[c][k]
    /\ conn[c] = "none" => wire[c] = <<>>
    /\ \A id \in 1 .. Len(kinds) :
          Missing(c, id) /\ (conn[c] = "open" \/ Passed(c, id)) => Trimmed(id)

StreamInv ==
    /\ BufferIsNewest
    /\ conn \in [Clients -> {"none", "open", "ended"}]
    /\ DOMAIN wire = Clients /\ DOMAIN seen = Clients
    /\ \A c \in Clients : ClientInv(c)

(* The new ids come after all others, and stay in the buffer as long as it *)
(* has room.                                                               *)
LEMMA TrimKeepsNewest ==
    ASSUME BufferIsNewest, NEW new \in Seq({"shown", "hidden", "end"}), Events!Emit(new)
    PROVE  /\ BufferIsNewest'
           /\ Len(kinds') = Len(kinds) + Len(new)
           /\ \A id \in 1 .. Len(kinds) : kinds'[id] = kinds[id]
<1> DEFINE Kind == {"shown", "hidden", "end"}
           n == Len(kinds)
           ids == [i \in DOMAIN new |-> n + i]
           all == buffer \o ids
           b == Len(buffer)
           m == Len(new)
<1>1. /\ kinds \in Seq(Kind) /\ n \in Nat /\ m \in Nat /\ DOMAIN new = 1 .. m
      /\ buffer \in Seq(Nat) /\ b \in Nat /\ b <= n /\ b <= BufferSize
      /\ b = n \/ b = BufferSize
      /\ \A i \in 1 .. b : buffer[i] = n - b + i
      /\ BufferSize \in Nat \ {0}
    BY EventsAssumption, LenProperties DEF BufferIsNewest
<1>2. kinds' = kinds \o new /\ buffer' = Events!Trim(all)
    BY DEF Events!Emit
<1>3. /\ kinds' \in Seq(Kind) /\ Len(kinds') = n + m
      /\ \A id \in 1 .. n : kinds'[id] = kinds[id]
    <2> HIDE DEF Kind
    <2>1. /\ kinds \o new \in Seq(Kind) /\ Len(kinds \o new) = Len(kinds) + Len(new)
          /\ \A i \in 1 .. Len(kinds) + Len(new) : (kinds \o new)[i] =
                IF i <= Len(kinds) THEN kinds[i] ELSE new[i - Len(kinds)]
        BY <1>1, ConcatProperties DEF Kind
    <2>2. \A i \in 1 .. n : i \in 1 .. (n + m) /\ i <= n
        BY <1>1
    <2> QED BY <1>2, <2>1, <2>2
<1>4. ids \in Seq(Nat) /\ Len(ids) = m /\ \A i \in 1 .. m : ids[i] = n + i
    <2>1. ids \in [1 .. m -> Nat]
        BY <1>1
    <2>2. ids \in Seq(Nat)
        BY <1>1, <2>1, SeqDef
    <2>3. Len(ids) = m
        BY <1>1, <2>1, <2>2, LenProperties
    <2> QED BY <1>1, <2>2, <2>3
<1> HIDE DEF ids, n, b, m
<1>5. all \in Seq(Nat) /\ Len(all) = b + m /\ \A i \in 1 .. (b + m) : all[i] = (n + m) - (b + m) + i
    <2>1. /\ all \in Seq(Nat) /\ Len(all) = Len(buffer) + Len(ids)
          /\ \A i \in 1 .. Len(buffer) + Len(ids) : all[i] =
                IF i <= Len(buffer) THEN buffer[i] ELSE ids[i - Len(buffer)]
        BY <1>1, <1>4, ConcatProperties
    <2>2. Len(buffer) = b
        BY DEF b
    <2>3. ASSUME NEW i \in 1 .. (b + m) PROVE all[i] = (n + m) - (b + m) + i
        <3>1. CASE i <= b
            <4>1. i \in 1 .. b
                BY <1>1, <3>1
            <4>2. all[i] = n - b + i
                BY <1>1, <1>4, <2>1, <2>2, <3>1, <4>1
            <4> QED BY <1>1, <4>2
        <3>2. CASE ~(i <= b)
            <4>1. i - b \in 1 .. m
                BY <1>1, <3>2
            <4>2. all[i] = n + (i - b)
                BY <1>4, <2>1, <2>2, <3>2, <4>1
            <4> QED BY <1>1, <4>2
        <3> QED BY <3>1, <3>2
    <2> QED BY <1>4, <2>1, <2>2, <2>3
<1> DEFINE l == b + m
           k == n + m
<1>6. l \in Nat /\ k \in Nat /\ l <= k /\ (l = k \/ l >= BufferSize)
    BY <1>1
<1>7. Len(all) = l /\ \A i \in 1 .. l : all[i] = k - l + i
    BY <1>5
<1> HIDE DEF all, l, k
<1>8. CASE l > BufferSize
    <2>1. buffer' = SubSeq(all, 1 + l - BufferSize, l)
        BY <1>2, <1>7, <1>8 DEF Events!Trim
    <2>2. 1 + l - BufferSize \in Int /\ l \in Int /\ 1 + l - BufferSize <= l
          /\ l - (1 + l - BufferSize) + 1 = BufferSize
        BY <1>1, <1>6
    <2>3. \A i \in (1 + l - BufferSize) .. l : all[i] \in Nat
        <3>1. (1 + l - BufferSize) .. l \subseteq 1 .. l
            BY <1>1, <1>6, <1>8
        <3> QED BY <1>5, <1>7, <3>1, ElementOfSeq
    <2>4. /\ buffer' \in Seq(Nat) /\ Len(buffer') = BufferSize
          /\ \A i \in 1 .. BufferSize : buffer'[i] = all[(1 + l - BufferSize) + i - 1]
        BY <2>1, <2>2, <2>3, SubSeqProperties
    <2>5. \A i \in 1 .. BufferSize : buffer'[i] = k - BufferSize + i
        <3> SUFFICES ASSUME NEW i \in 1 .. BufferSize PROVE buffer'[i] = k - BufferSize + i
            OBVIOUS
        <3>1. (1 + l - BufferSize) + i - 1 \in 1 .. l
            BY <1>1, <1>6, <1>8
        <3>2. buffer'[i] = k - l + ((1 + l - BufferSize) + i - 1)
            BY <1>7, <2>4, <3>1
        <3> QED BY <1>1, <1>6, <3>2
    <2>6. BufferSize <= k
        BY <1>1, <1>6, <1>8
    <2> QED BY <1>1, <1>3, <2>4, <2>5, <2>6 DEF BufferIsNewest, k, n, m
<1>9. CASE ~(l > BufferSize)
    <2>1. buffer' = all
        BY <1>2, <1>7, <1>9 DEF Events!Trim
    <2>2. l <= BufferSize /\ (l = k \/ l = BufferSize)
        BY <1>1, <1>6, <1>9
    <2> QED BY <1>1, <1>3, <1>5, <1>6, <1>7, <2>1, <2>2 DEF BufferIsNewest, k, n, m
<1> QED BY <1>8, <1>9

LEMMA ConcatNumbers ==
    ASSUME NEW q \in Seq(Nat), NEW r \in Seq(Nat)
    PROVE  /\ q \o r \in Seq(Nat)
           /\ \A x : Has(q \o r, x) <=> Has(q, x) \/ Has(r, x)
           /\ (/\ Increasing(q) /\ Increasing(r)
               /\ \A i \in DOMAIN q, k \in DOMAIN r : q[i] < r[k]) => Increasing(q \o r)
<1> DEFINE t == q \o r
           l == Len(q)
<1>1. l \in Nat /\ DOMAIN q = 1 .. l /\ Len(r) \in Nat /\ DOMAIN r = 1 .. Len(r)
    BY LenProperties
<1>2. /\ t \in Seq(Nat) /\ Len(t) = l + Len(r)
      /\ \A i \in 1 .. l + Len(r) : t[i] = IF i <= l THEN q[i] ELSE r[i - l]
    BY ConcatProperties
<1> HIDE DEF t, l
<1>3. DOMAIN t = 1 .. (l + Len(r))
    BY <1>2, LenProperties
<1>4. \A k \in DOMAIN q : k \in DOMAIN t /\ t[k] = q[k]
    BY <1>1, <1>2, <1>3
<1>5. \A k \in DOMAIN r : l + k \in DOMAIN t /\ t[l + k] = r[k]
    <2> SUFFICES ASSUME NEW k \in 1 .. Len(r) PROVE l + k \in DOMAIN t /\ t[l + k] = r[k]
        BY <1>1
    <2>1. l + k \in 1 .. (l + Len(r)) /\ ~(l + k <= l) /\ (l + k) - l = k
        BY <1>1
    <2> QED BY <1>2, <1>3, <2>1
<1>6. \A k \in DOMAIN t : (k \in DOMAIN q /\ t[k] = q[k])
                          \/ (k > l /\ k - l \in DOMAIN r /\ t[k] = r[k - l])
    <2> SUFFICES ASSUME NEW k \in 1 .. (l + Len(r))
                 PROVE  (k \in DOMAIN q /\ t[k] = q[k])
                        \/ (k > l /\ k - l \in DOMAIN r /\ t[k] = r[k - l])
        BY <1>3
    <2>1. CASE k <= l
        BY <1>1, <1>2, <2>1
    <2>2. CASE ~(k <= l)
        <3>1. k - l \in 1 .. Len(r) /\ k > l
            BY <1>1, <2>2
        <3> QED BY <1>1, <1>2, <2>2, <3>1
    <2> QED BY <2>1, <2>2
<1>7. ASSUME NEW x PROVE Has(t, x) <=> Has(q, x) \/ Has(r, x)
    <2>1. Has(q, x) => Has(t, x)
        BY <1>4 DEF Has
    <2>2. Has(r, x) => Has(t, x)
        BY <1>5 DEF Has
    <2>3. Has(t, x) => Has(q, x) \/ Has(r, x)
        BY <1>6 DEF Has
    <2> QED BY <2>1, <2>2, <2>3
<1>8. ASSUME Increasing(q), Increasing(r), \A i \in DOMAIN q, k \in DOMAIN r : q[i] < r[k]
      PROVE  Increasing(t)
    <2> SUFFICES ASSUME NEW i \in DOMAIN t, NEW k \in DOMAIN t, i < k PROVE t[i] < t[k]
        BY DEF Increasing
    <2>1. i \in Nat /\ k \in Nat
        BY <1>1, <1>3
    <2>2. CASE k \in DOMAIN q
        <3>1. i \in DOMAIN q
            BY <1>1, <1>3, <2>1, <2>2
        <3> QED BY <1>4, <1>8, <2>2, <3>1 DEF Increasing
    <2>3. CASE k > l /\ k - l \in DOMAIN r /\ t[k] = r[k - l] /\ i \in DOMAIN q
        BY <1>4, <1>8, <2>3
    <2>4. CASE /\ k > l /\ k - l \in DOMAIN r /\ t[k] = r[k - l]
               /\ i > l /\ i - l \in DOMAIN r /\ t[i] = r[i - l]
        <3>1. i - l < k - l
            BY <1>1, <2>1
        <3> QED BY <1>8, <2>4, <3>1 DEF Increasing
    <2> QED BY <1>6, <2>2, <2>3, <2>4
<1> QED BY <1>2, <1>7, <1>8 DEF t

LEMMA EmitKeepsClient ==
    ASSUME BufferIsNewest, NEW c \in Clients, ClientInv(c), DOMAIN wire = Clients,
           NEW new \in Seq({"shown", "hidden", "end"}), Events!Emit(new), UNCHANGED seen,
           conn'[c] = conn[c] \/ (conn[c] = "open" /\ conn'[c] = "ended")
    PROVE  ClientInv(c)'
<1> DEFINE n == Len(kinds)
           m == Len(new)
           w == wire[c]
           v == wire'[c]
           ids == [i \in DOMAIN new |-> n + i]
           a == Events!Among(ids, Events!ShownIds(kinds'))
<1>1. /\ n \in Nat /\ m \in Nat /\ DOMAIN new = 1 .. m /\ BufferSize \in Nat
      /\ w \in Seq(Nat) /\ seen[c] \in Seq(Nat)
    BY LenProperties, EventsAssumption DEF BufferIsNewest, ClientInv
<1>2. /\ Len(kinds') = n + m /\ \A id \in 1 .. n : kinds'[id] = kinds[id]
      /\ kinds' \in Seq({"shown", "hidden", "end"})
    BY TrimKeepsNewest DEF BufferIsNewest
<1>3. v = IF conn[c] = "open" THEN w \o a ELSE w
    BY DEF Events!Emit
<1>4. /\ \A k \in DOMAIN seen[c] : seen[c][k] \in 1 .. n
      /\ \A k \in DOMAIN w : w[k] \in 1 .. n
      /\ Increasing(seen[c]) /\ Increasing(w)
      /\ \A i \in DOMAIN seen[c], k \in DOMAIN w : seen[c][i] < w[k]
      /\ conn[c] = "none" => w = <<>>
      /\ \A id \in 1 .. n : /\ Events!Shown(kinds[id]) /\ ~Has(seen[c], id) /\ ~Has(w, id)
                            /\ conn[c] = "open" \/ Passed(c, id)
                            => id + BufferSize <= n
    BY DEF ClientInv, Missing, Trimmed
<1> HIDE DEF ids, a, w, v, n, m
<1>5. \A id \in 1 .. n : id \in 1 .. (n + m)
    BY <1>1
<1>6. CASE conn[c] # "open"
    <2>1. v = w /\ conn'[c] = conn[c]
        BY <1>3, <1>6
    <2>2. ASSUME NEW id \in 1 .. (n + m), Missing(c, id)', Passed(c, id)' PROVE id + BufferSize <= n + m
        <3>1. PICK later \in Nat : id < later /\ (Has(seen[c], later) \/ Has(w, later))
            BY <2>1, <2>2 DEF Passed, v, w
        <3>2. later \in 1 .. n
            BY <1>4, <3>1 DEF Has
        <3>3. id \in 1 .. n
            BY <1>1, <3>1, <3>2
        <3>4. Passed(c, id)
            BY <3>1 DEF Passed, w
        <3>5. Events!Shown(kinds[id]) /\ ~Has(seen[c], id) /\ ~Has(w, id)
            BY <1>2, <2>1, <2>2, <3>3 DEF Missing, v, w
        <3>6. id + BufferSize <= n
            BY <1>4, <3>3, <3>4, <3>5
        <3> QED BY <1>1, <3>3, <3>6
    <2>3. \A k \in DOMAIN v : v[k] \in 1 .. (n + m)
        BY <1>4, <1>5, <2>1
    <2>4. \A k \in DOMAIN seen[c] : seen[c][k] \in 1 .. (n + m)
        BY <1>4, <1>5
    <2> QED BY <1>1, <1>2, <1>4, <1>6, <2>1, <2>2, <2>3, <2>4 DEF ClientInv, Trimmed, v
<1>7. CASE conn[c] = "open"
    <2>1. ids \in Seq(Nat) /\ DOMAIN ids = 1 .. m /\ \A i \in 1 .. m : ids[i] = n + i
        <3>1. ids \in [1 .. m -> Nat]
            BY <1>1 DEF ids
        <3>2. ids \in Seq(Nat)
            BY <1>1, <3>1, SeqDef
        <3> QED BY <1>1, <3>2 DEF ids
    <2>2. Increasing(ids)
        BY <1>1, <2>1 DEF Increasing
    <2> DEFINE S == Events!ShownIds(kinds')
    <2> HIDE DEF S
    <2>3. /\ a \in Seq(Nat) /\ Increasing(a)
          /\ \A k \in DOMAIN a : \E j \in DOMAIN ids : a[k] = ids[j] /\ ids[j] \in S
          /\ \A j \in DOMAIN ids : ids[j] \in S => \E k \in DOMAIN a : a[k] = ids[j]
        <3>1. a = Events!Among(ids, S)
            BY DEF a, S
        <3> HIDE DEF a
        <3>2. \A T :
                 /\ Events!Among(ids, T) \in Seq(Nat)
                 /\ \A k \in DOMAIN Events!Among(ids, T) :
                       \E j \in DOMAIN ids : Events!Among(ids, T)[k] = ids[j] /\ ids[j] \in T
                 /\ \A j \in DOMAIN ids :
                       ids[j] \in T => \E k \in DOMAIN Events!Among(ids, T) : Events!Among(ids, T)[k] = ids[j]
                 /\ Increasing(Events!Among(ids, T))
            BY <2>1, <2>2, AmongFacts, Zenon
        <3> QED BY <3>1, <3>2
    <2>4. \A k \in DOMAIN a : a[k] \in Nat /\ a[k] > n /\ a[k] <= n + m
        <3> SUFFICES ASSUME NEW k \in DOMAIN a PROVE a[k] \in Nat /\ a[k] > n /\ a[k] <= n + m
            OBVIOUS
        <3>1. PICK j \in 1 .. m : a[k] = n + j
            BY <2>1, <2>3
        <3> QED BY <1>1, <3>1
    <2>5. v = w \o a
        BY <1>3, <1>7
    <2>6. /\ v \in Seq(Nat)
          /\ \A x : Has(v, x) <=> Has(w, x) \/ Has(a, x)
          /\ Increasing(v)
        <3>1. \A i \in DOMAIN w, k \in DOMAIN a : w[i] < a[k]
            <4> SUFFICES ASSUME NEW i \in DOMAIN w, NEW k \in DOMAIN a PROVE w[i] < a[k]
                OBVIOUS
            <4>1. w[i] \in 1 .. n /\ a[k] \in Nat /\ a[k] > n
                BY <1>4, <2>4
            <4> QED BY <1>1, <4>1
        <3> QED BY <1>1, <1>4, <2>3, <2>5, <3>1, ConcatNumbers
    <2>7. ASSUME NEW k \in DOMAIN v
          PROVE  v[k] \in 1 .. (n + m) /\ \A i \in DOMAIN seen[c] : seen[c][i] < v[k]
        <3>1. Has(v, v[k])
            BY DEF Has
        <3>2. CASE Has(w, v[k])
            BY <1>4, <1>5, <3>2 DEF Has
        <3>3. CASE Has(a, v[k])
            <4>1. v[k] \in Nat /\ v[k] > n /\ v[k] <= n + m
                BY <2>4, <3>3 DEF Has
            <4>2. \A i \in DOMAIN seen[c] : seen[c][i] \in Nat /\ seen[c][i] <= n
                BY <1>1, <1>4
            <4> QED BY <1>1, <4>1, <4>2
        <3> QED BY <2>6, <3>1, <3>2, <3>3
    <2>8. ASSUME NEW id \in 1 .. (n + m), Missing(c, id)' PROVE id + BufferSize <= n + m
        <3>1. Events!Shown(kinds'[id]) /\ ~Has(seen[c], id) /\ ~Has(w, id) /\ ~Has(a, id)
            BY <2>6, <2>8 DEF Missing, v
        <3>2. CASE id <= n
            <4>1. id \in 1 .. n
                BY <1>1, <3>2
            <4>2. id + BufferSize <= n
                BY <1>2, <1>4, <1>7, <3>1, <4>1
            <4> QED BY <1>1, <4>1, <4>2
        <3>3. CASE ~(id <= n)
            <4>1. id - n \in 1 .. m /\ n + (id - n) = id
                BY <1>1, <3>3
            <4>2. ids[id - n] = id
                BY <2>1, <4>1
            <4>3. id \in S
                <5>1. DOMAIN kinds' = 1 .. (n + m)
                    BY <1>2, LenProperties
                <5> QED BY <3>1, <5>1 DEF Events!ShownIds, S
            <4> QED BY <2>1, <2>3, <3>1, <4>1, <4>2, <4>3 DEF Has
        <3> QED BY <3>2, <3>3
    <2>9. \A k \in DOMAIN seen[c] : seen[c][k] \in 1 .. (n + m)
        BY <1>4, <1>5
    <2>10. conn'[c] # "none"
        BY <1>7
    <2> QED BY <1>1, <1>2, <1>4, <2>6, <2>7, <2>8, <2>9, <2>10 DEF ClientInv, Trimmed, v
<1> QED BY <1>6, <1>7

(* A client nothing happens to. *)
LEMMA ClientStays ==
    ASSUME NEW c \in Clients, ClientInv(c), kinds' = kinds, wire'[c] = wire[c], seen'[c] = seen[c],
           conn'[c] = conn[c] \/ (conn'[c] # "open" /\ (conn'[c] = "none" => wire[c] = <<>>))
    PROVE  ClientInv(c)'
<1>1. \A id : Missing(c, id)' => Missing(c, id)
    BY DEF Missing
<1>2. \A id : Passed(c, id)' => Passed(c, id)
    BY DEF Passed
<1>3. \A id : Trimmed(id) => Trimmed(id)'
    BY DEF Trimmed
<1>4. conn'[c] = "open" => conn[c] = "open"
    OBVIOUS
<1>5. \A id \in 1 .. Len(kinds) :
         Missing(c, id)' /\ (conn'[c] = "open" \/ Passed(c, id)') => Trimmed(id)'
    BY <1>1, <1>2, <1>3, <1>4 DEF ClientInv
<1> QED BY <1>5 DEF ClientInv

(* The last id of an increasing sequence is its largest. *)
LEMMA LastIsLargest ==
    ASSUME NEW c \in Clients, seen[c] \in Seq(Nat), Increasing(seen[c])
    PROVE  /\ Events!LastSeen(c) \in Nat
           /\ \A k \in DOMAIN seen[c] : seen[c][k] <= Events!LastSeen(c)
           /\ Events!LastSeen(c) # 0 => Has(seen[c], Events!LastSeen(c))
<1> DEFINE q == seen[c]
<1>1. /\ Len(q) \in Nat /\ DOMAIN q = 1 .. Len(q) /\ \A k \in DOMAIN q : q[k] \in Nat
      /\ (q = <<>> => Len(q) = 0) /\ (q # <<>> => Len(q) # 0)
    BY LenProperties, ElementOfSeq, EmptySeq
<1>2. CASE q = <<>>
    <2>1. Events!LastSeen(c) = 0
        BY <1>2 DEF Events!LastSeen
    <2> QED BY <1>1, <1>2, <2>1
<1>3. CASE q # <<>>
    <2>1. Events!LastSeen(c) = q[Len(q)] /\ Len(q) \in DOMAIN q
        BY <1>1, <1>3 DEF Events!LastSeen
    <2>2. \A k \in DOMAIN q : k = Len(q) \/ k < Len(q)
        BY <1>1
    <2>3. \A k \in DOMAIN q : q[k] <= q[Len(q)]
        BY <1>1, <2>1, <2>2 DEF Increasing
    <2> QED BY <1>1, <2>1, <2>3 DEF Has
<1> QED BY <1>2, <1>3

(* What the buffer still has after the last id a client received is all    *)
(* that it misses and that was not trimmed.                                *)
LEMMA ConnectKeepsClient ==
    ASSUME BufferIsNewest, NEW c \in Clients, ClientInv(c), DOMAIN wire = Clients, DOMAIN conn = Clients,
           Events!Connect(c)
    PROVE  ClientInv(c)'
<1> DEFINE n == Len(kinds)
           b == Len(buffer)
           last == Events!LastSeen(c)
           S == {id \in Events!ShownIds(kinds) : Events!ShouldReplayAfter(id, last)}
           v == wire'[c]
<1>1. /\ n \in Nat /\ b \in Nat /\ BufferSize \in Nat /\ DOMAIN kinds = 1 .. n
      /\ buffer \in Seq(Nat) /\ DOMAIN buffer = 1 .. b /\ b <= n /\ (b = n \/ b = BufferSize)
      /\ \A i \in 1 .. b : buffer[i] = n - b + i
    BY LenProperties, EventsAssumption DEF BufferIsNewest
<1>2. /\ seen' = seen /\ kinds' = kinds /\ wire[c] = <<>> /\ conn'[c] # "none"
      /\ v = Events!Among(buffer, S)
    <2>1. wire' = [wire EXCEPT ![c] = Events!Among(buffer, S)]
        BY DEF Events!Connect
    <2>2. v = Events!Among(buffer, S)
        BY <2>1, Zenon
    <2> HIDE DEF v, S
    <2>3. conn[c] = "none" /\ conn' = [conn EXCEPT ![c] = IF phase = "terminal" THEN "ended" ELSE "open"]
        BY DEF Events!Connect
    <2> QED BY <2>2, <2>3 DEF Events!Connect, ClientInv
<1>3. \A id : id \in S <=> id \in 1 .. n /\ Events!Shown(kinds[id]) /\ id > last
    BY <1>1 DEF Events!ShownIds, Events!ShouldReplayAfter
<1>4. /\ seen[c] \in Seq(Nat) /\ Increasing(seen[c])
      /\ \A k \in DOMAIN seen[c] : seen[c][k] \in 1 .. n
      /\ \A id \in 1 .. n : Missing(c, id) /\ Passed(c, id) => Trimmed(id)
    BY DEF ClientInv
<1>5. /\ last \in Nat /\ (last # 0 => Has(seen[c], last))
      /\ \A k \in DOMAIN seen[c] : seen[c][k] <= last
    BY <1>4, LastIsLargest
<1> HIDE DEF n, b, last, S, v
<1>6. Increasing(buffer)
    BY <1>1 DEF Increasing
<1>7. /\ v \in Seq(Nat) /\ Increasing(v)
      /\ \A k \in DOMAIN v : \E j \in DOMAIN buffer : v[k] = buffer[j] /\ buffer[j] \in S
      /\ \A j \in DOMAIN buffer : buffer[j] \in S => \E k \in DOMAIN v : v[k] = buffer[j]
    <2>1. \A T :
             /\ Events!Among(buffer, T) \in Seq(Nat)
             /\ \A k \in DOMAIN Events!Among(buffer, T) :
                   \E j \in DOMAIN buffer : Events!Among(buffer, T)[k] = buffer[j] /\ buffer[j] \in T
             /\ \A j \in DOMAIN buffer :
                   buffer[j] \in T => \E k \in DOMAIN Events!Among(buffer, T) : Events!Among(buffer, T)[k] = buffer[j]
             /\ Increasing(Events!Among(buffer, T))
        BY <1>1, <1>6, AmongFacts, Zenon
    <2> QED BY <1>2, <2>1
<1>8. \A k \in DOMAIN v : v[k] \in 1 .. n /\ v[k] > last
    BY <1>3, <1>7
<1>9. \A i \in DOMAIN seen[c], k \in DOMAIN v : seen[c][i] < v[k]
    <2> SUFFICES ASSUME NEW i \in DOMAIN seen[c], NEW k \in DOMAIN v PROVE seen[c][i] < v[k]
        OBVIOUS
    <2>1. seen[c][i] \in 1 .. n /\ seen[c][i] <= last
        BY <1>4, <1>5
    <2>2. v[k] \in 1 .. n /\ v[k] > last
        BY <1>8
    <2>3. \A x, y \in 1 .. n : last \in Nat /\ n \in Nat /\ x <= last /\ y > last => x < y
        OBVIOUS
    <2>4. last \in Nat /\ n \in Nat
        BY <1>1, <1>5
    <2> QED BY <2>1, <2>2, <2>3, <2>4
<1>10. ASSUME NEW id \in 1 .. n, Missing(c, id)' PROVE Trimmed(id)'
    <2>1. Events!Shown(kinds[id]) /\ ~Has(seen[c], id) /\ ~Has(v, id) /\ ~Has(wire[c], id)
        <3>1. ~Has(wire[c], id)
            BY <1>2 DEF Has
        <3> QED BY <1>2, <1>10, <3>1 DEF Missing, v
    <2>2. CASE id <= last
        <3>1. last # 0 /\ id # last
            BY <1>1, <1>5, <2>1, <2>2
        <3>2. Passed(c, id)
            BY <1>1, <1>5, <2>2, <3>1 DEF Passed
        <3>3. Trimmed(id)
            BY <1>4, <2>1, <3>2 DEF Missing
        <3> QED BY <1>2, <3>3 DEF Trimmed
    <2>3. CASE ~(id <= last)
        <3>1. id \in S
            <4>1. n \in Nat /\ last \in Nat
                BY <1>1, <1>5
            <4>2. id > last
                BY <2>3, <4>1
            <4> QED BY <1>3, <2>1, <4>2
        <3>2. \A j \in 1 .. b : buffer[j] # id
            BY <1>1, <1>7, <2>1, <3>1 DEF Has
        <3>3. id <= n - b
            <4>1. ~(id > n - b)
                <5> SUFFICES ASSUME id > n - b PROVE FALSE
                    OBVIOUS
                <5>1. id - (n - b) \in 1 .. b /\ n - b + (id - (n - b)) = id
                    BY <1>1, SMTT(30)
                <5> QED BY <1>1, <3>2, <5>1
            <4> QED BY <1>1, <4>1
        <3>4. id + BufferSize <= n
            BY <1>1, <3>3
        <3> QED BY <1>2, <3>4 DEF Trimmed, n
    <2> QED BY <2>2, <2>3
<1> QED BY <1>2, <1>4, <1>7, <1>8, <1>9, <1>10 DEF ClientInv, n, v

(* What a client receives is the first id in flight. *)
LEMMA ReceiveKeepsClient ==
    ASSUME NEW c \in Clients, ClientInv(c), DOMAIN wire = Clients, DOMAIN seen = Clients,
           Events!Receive(c)
    PROVE  ClientInv(c)'
<1> DEFINE n == Len(kinds)
           q == seen[c]
           w == wire[c]
           r == seen'[c]
           v == wire'[c]
           l == Len(q)
           m == Len(w)
<1>1. /\ q \in Seq(Nat) /\ w \in Seq(Nat) /\ w # <<>>
      /\ \A k \in DOMAIN q : q[k] \in 1 .. n
      /\ \A k \in DOMAIN w : w[k] \in 1 .. n
      /\ Increasing(q) /\ Increasing(w)
      /\ \A i \in DOMAIN q, k \in DOMAIN w : q[i] < w[k]
    BY DEF ClientInv, Events!Receive
<1>2. /\ kinds' = kinds /\ conn' = conn /\ conn[c] # "none"
      /\ r = Append(q, Head(w)) /\ v = Tail(w)
    BY DEF Events!Receive, ClientInv
<1> HIDE DEF q, w, r, v, n, l, m
<1>3. /\ m \in Nat /\ m # 0 /\ DOMAIN w = 1 .. m /\ 1 \in DOMAIN w
      /\ Head(w) = w[1] /\ v \in Seq(Nat) /\ Len(v) = m - 1
      /\ \A k \in 1 .. (m - 1) : v[k] = w[k + 1]
    <2>1. /\ Len(w) \in Nat /\ Len(w) # 0 /\ DOMAIN w = 1 .. Len(w) /\ Head(w) = w[1]
        BY <1>1, LenProperties, EmptySeq, HeadTailProperties
    <2>2. Tail(w) \in Seq(Nat) /\ Len(Tail(w)) = Len(w) - 1 /\ \A k \in 1 .. Len(Tail(w)) : Tail(w)[k] = w[k + 1]
        BY <1>1, HeadTailProperties
    <2> QED BY <1>2, <2>1, <2>2 DEF m
<1>4. DOMAIN v = 1 .. (m - 1) /\ \A k \in DOMAIN v : k + 1 \in DOMAIN w /\ v[k] = w[k + 1]
    BY <1>3, LenProperties
<1>5. w[1] \in Nat /\ \A k \in DOMAIN w : k = 1 \/ (k - 1 \in DOMAIN v /\ v[k - 1] = w[k])
    <2>1. w[1] \in Nat
        BY <1>1, <1>3, ElementOfSeq
    <2>2. ASSUME NEW k \in DOMAIN w, k # 1 PROVE k - 1 \in DOMAIN v /\ v[k - 1] = w[k]
        <3>1. k - 1 \in 1 .. (m - 1) /\ (k - 1) + 1 = k
            BY <1>3, <2>2
        <3> QED BY <1>3, <1>4, <3>1
    <2> QED BY <2>1, <2>2
<1>6. /\ r \in Seq(Nat) /\ l \in Nat /\ DOMAIN q = 1 .. l /\ DOMAIN r = 1 .. (l + 1)
      /\ r[l + 1] = w[1] /\ l + 1 \in DOMAIN r
      /\ \A k \in DOMAIN q : r[k] = q[k] /\ k < l + 1 /\ k \in DOMAIN r
      /\ \A k \in DOMAIN r : k \in DOMAIN q \/ k = l + 1
    BY <1>1, <1>2, <1>3, <1>5, AppendNumber DEF l
<1>7. ASSUME NEW x PROVE (Has(r, x) \/ Has(v, x)) <=> (Has(q, x) \/ Has(w, x))
    <2>1. Has(r, x) => Has(q, x) \/ Has(w, x)
        BY <1>3, <1>6 DEF Has
    <2>2. Has(v, x) => Has(w, x)
        BY <1>4 DEF Has
    <2>3. Has(q, x) => Has(r, x)
        BY <1>6 DEF Has
    <2>4. Has(w, x) => Has(r, x) \/ Has(v, x)
        BY <1>5, <1>6 DEF Has
    <2> QED BY <2>1, <2>2, <2>3, <2>4
<1>8. \A k \in DOMAIN r : r[k] \in 1 .. n
    BY <1>1, <1>3, <1>6
<1>9. \A k \in DOMAIN v : v[k] \in 1 .. n /\ w[1] < v[k]
    <2> SUFFICES ASSUME NEW k \in DOMAIN v PROVE v[k] \in 1 .. n /\ w[1] < v[k]
        OBVIOUS
    <2>1. k + 1 \in DOMAIN w /\ v[k] = w[k + 1] /\ 1 < k + 1
        BY <1>3, <1>4
    <2> QED BY <1>1, <1>3, <2>1 DEF Increasing
<1>10. ASSUME NEW i \in DOMAIN r, NEW k \in DOMAIN r, i < k PROVE r[i] < r[k]
    <2>1. i \in DOMAIN q
        BY <1>6, <1>10
    <2>2. CASE k \in DOMAIN q
        BY <1>1, <1>6, <1>10, <2>1, <2>2 DEF Increasing
    <2>3. CASE k = l + 1
        BY <1>1, <1>3, <1>6, <2>1, <2>3
    <2> QED BY <1>6, <2>2, <2>3
<1>11. ASSUME NEW i \in DOMAIN v, NEW k \in DOMAIN v, i < k PROVE v[i] < v[k]
    <2>1. i + 1 < k + 1
        BY <1>3, <1>4, <1>11
    <2> QED BY <1>1, <1>4, <2>1 DEF Increasing
<1>12. \A i \in DOMAIN r, k \in DOMAIN v : r[i] < v[k]
    BY <1>1, <1>4, <1>6, <1>9
<1>13. \A id \in 1 .. n :
          Missing(c, id)' /\ (conn[c] = "open" \/ Passed(c, id)') => Trimmed(id)'
    <2>1. \A id : Missing(c, id)' => Missing(c, id)
        BY <1>2, <1>7 DEF Missing, q, w, r, v
    <2>2. \A id : Passed(c, id)' => Passed(c, id)
        BY <1>7 DEF Passed, q, w, r, v
    <2>3. \A id : Trimmed(id) => Trimmed(id)'
        BY <1>2 DEF Trimmed
    <2> QED BY <2>1, <2>2, <2>3 DEF ClientInv, n
<1> QED BY <1>2, <1>3, <1>6, <1>8, <1>9, <1>10, <1>11, <1>12, <1>13 DEF ClientInv, Increasing, r, v, n

(* What is lost with a connection is after everything the client received. *)
LEMMA DisconnectKeepsClient ==
    ASSUME NEW c \in Clients, ClientInv(c), kinds' = kinds, seen' = seen, wire'[c] = <<>>,
           conn'[c] = "none"
    PROVE  ClientInv(c)'
<1>1. \A x : ~Has(wire'[c], x)
    BY DEF Has
<1>2. ASSUME NEW id \in 1 .. Len(kinds), Missing(c, id)', Passed(c, id)' PROVE Trimmed(id)'
    <2>1. PICK later \in Nat : id < later /\ Has(seen[c], later)
        BY <1>1, <1>2 DEF Passed
    <2>2. Passed(c, id)
        BY <2>1 DEF Passed
    <2>3. Missing(c, id)
        <3>1. ASSUME Has(wire[c], id) PROVE FALSE
            <4>1. PICK i \in DOMAIN seen[c] : seen[c][i] = later
                BY <2>1 DEF Has
            <4>2. PICK k \in DOMAIN wire[c] : wire[c][k] = id
                BY <3>1 DEF Has
            <4>3. later < id
                BY <4>1, <4>2 DEF ClientInv
            <4>4. id \in Nat
                BY DEF ClientInv, Has
            <4> QED BY <2>1, <4>3, <4>4
        <3> QED BY <1>2, <3>1 DEF Missing
    <2> QED BY <2>2, <2>3 DEF ClientInv, Trimmed
<1>3. wire'[c] \in Seq(Nat) /\ DOMAIN wire'[c] = {}
    OBVIOUS
<1> QED BY <1>2, <1>3 DEF ClientInv, Increasing

(* Events of the run, the end event too, and what any client does. *)
LEMMA EmitKeepsStream ==
    ASSUME StreamInv, NEW new \in Seq({"shown", "hidden", "end"}), Events!Emit(new), UNCHANGED seen,
           \/ conn' = conn
           \/ conn' = [c \in Clients |-> IF conn[c] = "open" THEN "ended" ELSE conn[c]]
    PROVE  StreamInv'
<1>1. BufferIsNewest'
    BY TrimKeepsNewest DEF StreamInv
<1>2. DOMAIN wire' = Clients
    BY DEF Events!Emit
<1>3. \A c \in Clients : conn'[c] = conn[c] \/ (conn[c] = "open" /\ conn'[c] = "ended")
    OBVIOUS
<1>4. conn' \in [Clients -> {"none", "open", "ended"}]
    BY DEF StreamInv
<1>5. \A c \in Clients : ClientInv(c)'
    BY <1>3, EmitKeepsClient DEF StreamInv
<1> QED BY <1>1, <1>2, <1>4, <1>5 DEF StreamInv

LEMMA RunEventKeepsStream ==
    ASSUME StreamInv, NEW new \in Seq({"shown", "hidden", "end"}), Events!RunEvent(new)
    PROVE  StreamInv'
<1>1. CASE UNCHANGED events
    <2>1. /\ kinds' = kinds /\ buffer' = buffer /\ conn' = conn
          /\ wire' = wire /\ seen' = seen
        BY <1>1 DEF events
    <2>2. BufferIsNewest'
        BY <2>1 DEF StreamInv, BufferIsNewest
    <2>3. ASSUME NEW c \in Clients PROVE ClientInv(c)'
        <3>1. ClientInv(c)
            BY DEF StreamInv
        <3>2. ASSUME NEW id
              PROVE  /\ Missing(c, id)' <=> Missing(c, id)
                     /\ Passed(c, id)' <=> Passed(c, id)
                     /\ Trimmed(id)' <=> Trimmed(id)
            BY <2>1 DEF Missing, Passed, Trimmed, Has
        <3>3. /\ Increasing(seen[c])' <=> Increasing(seen[c])
              /\ Increasing(wire[c])' <=> Increasing(wire[c])
            BY <2>1 DEF Increasing
        <3> QED BY <2>1, <3>1, <3>2, <3>3 DEF ClientInv
    <2> QED BY <2>1, <2>2, <2>3 DEF StreamInv
<1>2. CASE Events!Emit(new) /\ UNCHANGED <<phase, conn, seen>>
    BY <1>2, EmitKeepsStream
<1> QED BY <1>1, <1>2 DEF Events!RunEvent, Events!vars, events

LEMMA ClientKeepsStream ==
    ASSUME StreamInv, NEW c \in Clients,
           Events!Connect(c) \/ Events!Receive(c) \/ Events!StreamDone(c) \/ Events!Disconnect(c)
    PROVE  StreamInv'
<1>1. /\ BufferIsNewest /\ \A d \in Clients : ClientInv(d)
      /\ DOMAIN wire = Clients /\ DOMAIN seen = Clients /\ DOMAIN conn = Clients
      /\ conn \in [Clients -> {"none", "open", "ended"}]
    BY DEF StreamInv
<1>2. kinds' = kinds /\ buffer' = buffer
    BY DEF Events!Connect, Events!Receive, Events!StreamDone, Events!Disconnect
<1>3. BufferIsNewest'
    BY <1>1, <1>2 DEF BufferIsNewest
<1>4. CASE Events!Connect(c)
    <2>1. ClientInv(c)'
        BY <1>1, <1>4, ConnectKeepsClient
    <2>2. \E v : wire' = [wire EXCEPT ![c] = v]
        BY <1>4 DEF Events!Connect
    <2>3. \E v \in {"ended", "open"} : conn' = [conn EXCEPT ![c] = v]
        BY <1>4 DEF Events!Connect
    <2>4. seen' = seen
        BY <1>4 DEF Events!Connect
    <2>5. /\ DOMAIN wire' = Clients /\ DOMAIN seen' = Clients
          /\ conn' \in [Clients -> {"none", "open", "ended"}]
          /\ \A d \in Clients : d # c => wire'[d] = wire[d] /\ conn'[d] = conn[d]
        BY <1>1, <2>2, <2>3, <2>4
    <2>6. \A d \in Clients : d # c => ClientInv(d)'
        BY <1>1, <1>2, <2>4, <2>5, ClientStays
    <2> QED BY <1>3, <2>1, <2>5, <2>6 DEF StreamInv
<1>5. CASE Events!Receive(c)
    <2>1. ClientInv(c)'
        BY <1>1, <1>5, ReceiveKeepsClient
    <2>2. \E v : wire' = [wire EXCEPT ![c] = v]
        BY <1>5 DEF Events!Receive
    <2>3. \E v : seen' = [seen EXCEPT ![c] = v]
        BY <1>5 DEF Events!Receive
    <2>4. conn' = conn
        BY <1>5 DEF Events!Receive
    <2>5. /\ DOMAIN wire' = Clients /\ DOMAIN seen' = Clients
          /\ conn' \in [Clients -> {"none", "open", "ended"}]
          /\ \A d \in Clients : d # c => wire'[d] = wire[d] /\ seen'[d] = seen[d] /\ conn'[d] = conn[d]
        BY <1>1, <2>2, <2>3, <2>4
    <2>6. \A d \in Clients : d # c => ClientInv(d)'
        BY <1>1, <1>2, <2>5, ClientStays
    <2> QED BY <1>3, <2>1, <2>5, <2>6 DEF StreamInv
<1>6. CASE Events!StreamDone(c)
    <2>1. conn' = [conn EXCEPT ![c] = "none"] /\ wire[c] = <<>> /\ wire' = wire /\ seen' = seen
        BY <1>6 DEF Events!StreamDone
    <2>2. conn'[c] = "none" /\ \A d \in Clients : d # c => conn'[d] = conn[d]
        BY <1>1, <2>1
    <2>3. \A d \in Clients : ClientInv(d)'
        BY <1>1, <1>2, <2>1, <2>2, ClientStays
    <2> QED BY <1>1, <1>3, <2>1, <2>3 DEF StreamInv
<1>7. CASE Events!Disconnect(c)
    <2>1. conn' = [conn EXCEPT ![c] = "none"] /\ wire' = [wire EXCEPT ![c] = <<>>] /\ seen' = seen
        BY <1>7 DEF Events!Disconnect
    <2>2. /\ conn'[c] = "none" /\ wire'[c] = <<>>
          /\ \A d \in Clients : d # c => conn'[d] = conn[d] /\ wire'[d] = wire[d]
          /\ DOMAIN wire' = Clients /\ conn' \in [Clients -> {"none", "open", "ended"}]
        BY <1>1, <2>1
    <2>3. ClientInv(c)'
        BY <1>1, <1>2, <2>1, <2>2, DisconnectKeepsClient
    <2>4. \A d \in Clients : d # c => ClientInv(d)'
        BY <1>1, <1>2, <2>1, <2>2, ClientStays
    <2> QED BY <1>1, <1>3, <2>1, <2>2, <2>3, <2>4 DEF StreamInv
<1> QED BY <1>4, <1>5, <1>6, <1>7

LEMMA StreamInvInitially == StreamInit => StreamInv
<1> SUFFICES ASSUME StreamInit PROVE StreamInv
    OBVIOUS
<1>1. /\ kinds = <<>> /\ buffer = <<>> /\ conn = [c \in Clients |-> "none"]
      /\ wire = [c \in Clients |-> <<>>] /\ seen = [c \in Clients |-> <<>>]
    BY DEF StreamInit, Events!Init
<1>2. BufferIsNewest
    BY <1>1, EventsAssumption DEF BufferIsNewest
<1>3. \A c \in Clients : ClientInv(c)
    BY <1>1 DEF ClientInv, Increasing
<1> QED BY <1>1, <1>2, <1>3 DEF StreamInv

LEMMA StreamInvKept == StreamInv /\ [StreamNext]_streamVars => StreamInv'
<1> SUFFICES ASSUME StreamInv, [StreamNext]_streamVars PROVE StreamInv'
    OBVIOUS
<1> DEFINE Kind == {"shown", "hidden", "end"}
<1>1. <<>> \in Seq(Kind) /\ \A kind \in Kind : <<kind>> \in Seq(Kind)
    OBVIOUS
<1>2. Parsed \subseteq Seq(Kind)
    BY <1>1 DEF Parsed, Kinds
<1>3. <<"shown">> \in Seq(Kind) /\ <<"end">> \in Seq(Kind)
    BY <1>1
<1> HIDE DEF Kind
<1>4. ASSUME NEW new \in Seq(Kind), Events!RunEvent(new) PROVE StreamInv'
    BY <1>4, RunEventKeepsStream DEF Kind
<1>5. CASE UNCHANGED events
    BY <1>5 DEF StreamInv, BufferIsNewest, ClientInv, Missing, Passed, Trimmed, Has, Increasing, events
<1>6. CASE Chunk
    BY <1>2, <1>4, <1>6 DEF Chunk
<1>7. CASE RunnerFails
    BY <1>1, <1>3, <1>4, <1>7 DEF RunnerFails
<1>8. CASE ChildCloses
    <2>1. PICK line \in (IF partialLine THEN Parsed ELSE {<<>>}) :
             Events!RunEvent(line \o (IF result' # result /\ result' = "failed"
                                      THEN <<"shown">> ELSE <<>>))
        BY <1>8 DEF ChildCloses
    <2>2. line \in Seq(Kind)
        BY <1>1, <1>2
    <2>3. ASSUME NEW more \in Seq(Kind) PROVE line \o more \in Seq(Kind)
        BY <2>2, ConcatProperties
    <2> QED BY <1>1, <1>3, <1>4, <2>1, <2>3
<1>9. CASE FailedSpawn \/ TimeoutRun \/ ArtifactsFinalized
    BY <1>3, <1>4, <1>9 DEF FailedSpawn, TimeoutRun, ArtifactsFinalized
<1>10. CASE EndEvent
    <2>1. /\ Events!Emit(<<"end">>) /\ UNCHANGED seen
          /\ conn' = [c \in Clients |-> IF conn[c] = "open" THEN "ended" ELSE conn[c]]
        BY <1>10 DEF EndEvent, Events!EndEvent
    <2> QED BY <1>3, <2>1, EmitKeepsStream DEF Kind
<1>11. CASE StreamStep
    <2>1. CASE Events!CommitTerminal \/ Events!Cleanup
        <3>1. UNCHANGED <<kinds, buffer, conn, wire, seen>>
            BY <2>1 DEF Events!CommitTerminal, Events!Cleanup
        <3> QED BY <3>1 DEF StreamInv, BufferIsNewest, ClientInv, Missing, Passed, Trimmed, Has, Increasing
    <2>2. CASE Events!ClientStep
        BY <2>2, ClientKeepsStream DEF Events!ClientStep
    <2> QED BY <1>11, <2>1, <2>2 DEF StreamStep
<1>12. CASE ProcessStep \/ CancelRun \/ UNCHANGED streamVars
    BY <1>5, <1>12 DEF ProcessStep, CancelRun, streamVars
<1> QED BY <1>6, <1>7, <1>8, <1>9, <1>10, <1>11, <1>12 DEF StreamNext

LEMMA StreamInvSuffices == StreamInv => Events!OnlyTrimmedEventsAreMissed
<1> SUFFICES ASSUME StreamInv, NEW c \in Clients
             PROVE  /\ \A i \in 1 .. Len(seen[c]) - 1 : seen[c][i] < seen[c][i + 1]
                    /\ \A id \in 1 .. Events!LastSeen(c) :
                          Events!Shown(kinds[id]) /\ id \notin Events!SeenIds(c)
                          => id + BufferSize <= Len(kinds)
    BY DEF Events!OnlyTrimmedEventsAreMissed
<1> DEFINE last == Events!LastSeen(c)
<1>1. /\ ClientInv(c) /\ seen[c] \in Seq(Nat) /\ Increasing(seen[c])
      /\ \A k \in DOMAIN seen[c] : seen[c][k] \in 1 .. Len(kinds)
    BY DEF StreamInv, ClientInv
<1>2. Len(seen[c]) \in Nat /\ DOMAIN seen[c] = 1 .. Len(seen[c]) /\ Len(kinds) \in Nat
    BY <1>1, LenProperties DEF StreamInv, BufferIsNewest
<1>3. /\ last \in Nat /\ (last # 0 => Has(seen[c], last))
      /\ \A k \in DOMAIN seen[c] : seen[c][k] <= last
    BY <1>1, LastIsLargest
<1>4. ASSUME NEW i \in 1 .. Len(seen[c]) - 1 PROVE seen[c][i] < seen[c][i + 1]
    <2>1. i \in DOMAIN seen[c] /\ i + 1 \in DOMAIN seen[c] /\ i < i + 1
        BY <1>2
    <2> QED BY <1>1, <2>1 DEF Increasing
<1> HIDE DEF last
<1>5. ASSUME NEW id \in 1 .. last, Events!Shown(kinds[id]), id \notin Events!SeenIds(c)
      PROVE  id + BufferSize <= Len(kinds)
    <2>1. ~Has(seen[c], id)
        BY <1>5 DEF Has, Events!SeenIds
    <2>2. last # 0 /\ id # last /\ id \in Nat /\ id < last /\ last \in 1 .. Len(kinds)
        BY <1>1, <1>3, <2>1 DEF Has
    <2>3. Passed(c, id)
        BY <1>3, <2>2 DEF Passed
    <2>4. ~Has(wire[c], id)
        <3> SUFFICES ASSUME NEW k \in DOMAIN wire[c], wire[c][k] = id PROVE FALSE
            BY DEF Has
        <3>1. PICK i \in DOMAIN seen[c] : seen[c][i] = last
            BY <1>3, <2>2 DEF Has
        <3>2. last < id
            BY <1>1, <3>1 DEF ClientInv
        <3> QED BY <1>3, <2>2, <3>2
    <2>5. id \in 1 .. Len(kinds)
        BY <1>2, <1>3, <2>2
    <2> QED BY <1>1, <1>5, <2>1, <2>3, <2>4, <2>5 DEF ClientInv, Missing, Trimmed
<1> QED BY <1>4, <1>5 DEF last

(* However a process talks and a client comes and goes, with any buffer:   *)
(* no event comes twice or out of order, and one that was passed over had  *)
(* been trimmed.                                                           *)
THEOREM ReplayMeetsLive == StreamSpec => []OnlyTrimmedEventsAreMissed
<1>1. StreamInv => OnlyTrimmedEventsAreMissed
    BY StreamInvSuffices DEF OnlyTrimmedEventsAreMissed
<1> QED BY <1>1, StreamInvInitially, StreamInvKept, PTL DEF StreamSpec

(* The phases of a stream, whose end is only emitted for a run that is *)
(* being finished.                                                     *)
PhaseInv ==
    /\ phase \in {"live", "ended", "terminal", "dropped"}
    /\ finishing \in {"no", "with", "without"} /\ runTimeoutTimer \in BOOLEAN
    /\ phase # "live" => finishing # "no"

LEMMA PhaseInitially == StreamInit => PhaseInv
    BY DEF StreamInit, Events!Init, PhaseInv

LEMMA PhaseKept == PhaseInv /\ [StreamNext]_streamVars => PhaseInv'
<1> SUFFICES ASSUME PhaseInv, [StreamNext]_streamVars PROVE PhaseInv'
    OBVIOUS
<1>1. ASSUME NEW new, Events!RunEvent(new) PROVE phase' = phase
    BY <1>1 DEF Events!RunEvent, Events!vars
<1>2. ASSUME FinishRun
      PROVE  /\ finishing' \in {"no", "with", "without"} /\ runTimeoutTimer' \in BOOLEAN
             /\ finishing # "no" => finishing' # "no"
    BY <1>2 DEF FinishRun, PhaseInv
<1>3. CASE FailedSpawn
    BY <1>1, <1>2, <1>3 DEF FailedSpawn, PhaseInv
<1>4. CASE Chunk
    BY <1>1, <1>4 DEF Chunk, PhaseInv
<1>5. CASE ProcessStep \/ CancelRun
    BY <1>5 DEF ProcessStep, CancelRun, events, PhaseInv
<1>6. CASE RunnerFails
    BY <1>1, <1>2, <1>6 DEF RunnerFails, PhaseInv
<1>7. CASE ChildCloses
    BY <1>1, <1>2, <1>7 DEF ChildCloses, PhaseInv
<1>8. CASE TimeoutRun
    BY <1>1, <1>8 DEF TimeoutRun, PhaseInv
<1>9. CASE ArtifactsFinalized
    BY <1>1, <1>9 DEF ArtifactsFinalized, PhaseInv
<1>10. CASE EndEvent
    BY <1>10 DEF EndEvent, Events!EndEvent, PhaseInv
<1>11. CASE StreamStep
    BY <1>11 DEF StreamStep, Events!CommitTerminal, Events!Cleanup, Events!ClientStep,
       Events!Connect, Events!Receive, Events!StreamDone, Events!Disconnect, PhaseInv
<1>12. CASE UNCHANGED streamVars
    BY <1>12 DEF streamVars, events, PhaseInv
<1> QED
    BY <1>3, <1>4, <1>5, <1>6, <1>7, <1>8, <1>9, <1>10, <1>11, <1>12 DEF StreamNext

LEMMA WithinNumbers ==
    ASSUME NEW n \in Nat, NEW s \in Seq(Nat), \A k \in DOMAIN s : s[k] \in 1 .. n
    PROVE  s \in Seq(1 .. n)
<1>1. Len(s) \in Nat /\ DOMAIN s = 1 .. Len(s) /\ s = [k \in 1 .. Len(s) |-> s[k]]
    OBVIOUS
<1>2. s \in [1 .. Len(s) -> 1 .. n]
    BY <1>1
<1> QED BY <1>1, <1>2

LEMMA StreamInvTypes == StreamInv /\ PhaseInv => Events!TypeOK
<1> SUFFICES ASSUME StreamInv, PhaseInv PROVE Events!TypeOK
    OBVIOUS
<1>1. Len(kinds) \in Nat /\ Len(buffer) \in Nat /\ DOMAIN buffer = 1 .. Len(buffer)
    BY DEF StreamInv, BufferIsNewest
<1>2. \A k \in DOMAIN buffer : buffer[k] \in 1 .. Len(kinds)
    BY <1>1 DEF StreamInv, BufferIsNewest
<1>3. buffer \in Seq(1 .. Len(kinds))
    BY <1>1, <1>2, WithinNumbers DEF StreamInv, BufferIsNewest
<1>4. ASSUME NEW c \in Clients
      PROVE  wire[c] \in Seq(1 .. Len(kinds)) /\ seen[c] \in Seq(1 .. Len(kinds))
    <2>1. ClientInv(c)
        BY DEF StreamInv
    <2> QED BY <1>1, <2>1, WithinNumbers DEF ClientInv
<1> QED BY <1>3, <1>4 DEF StreamInv, BufferIsNewest, PhaseInv, Events!TypeOK

(* The domains of the runner and of the stream beside it, the bound of the  *)
(* buffer among them: nothing a client is sent or has received is an id the *)
(* run did not give out, and no end event is out for a run nobody finishes. *)
THEOREM TypeCorrect == StreamSpec => [](TypeOK /\ Events!TypeOK /\ PhaseInv)
<1>1. StreamInv /\ PhaseInv /\ [StreamNext]_streamVars => StreamInv' /\ PhaseInv'
    BY StreamInvKept, PhaseKept
<1>2. StreamSpec => [](StreamInv /\ PhaseInv)
    BY <1>1, StreamInvInitially, PhaseInitially, PTL DEF StreamSpec
<1>3. StreamSpec => []TypeOK
    <2>1. Inv => TypeOK
        BY DEF Inv
    <2> QED BY <2>1, StreamedRunner, InvAlways, PTL
<1> QED BY <1>2, <1>3, StreamInvTypes, PTL
=============================================================================
