----------------------- MODULE WebhookDeliveryProofs -----------------------
(***************************************************************************)
(* The worker of the webhook outbox implements DeliveryContract, whatever  *)
(* crashes, connections are lost or database calls fail, for any number of *)
(* deliveries and attempts and any limits; and while it rests something    *)
(* will wake it for every open delivery.                                   *)
(***************************************************************************)
EXTENDS WebhookDelivery, FiniteSetTheorems, WellFoundedInduction, TLAPS

Outcomes == {"success", "retry", "refused"}

Types ==
    /\ status \in [Deliveries -> Open \cup {"absent", "succeeded", "abandoned"}]
    /\ attempts \in [Deliveries -> 0 .. MaxAttempts]
    /\ posts \in [Deliveries -> Nat]
    /\ sending \in [Deliveries -> {"none", "posting"} \cup Outcomes]
    /\ claimed \subseteq Deliveries
    /\ drain \in {"idle", "claim", "deliver"}

(* What a delivery in the hands of the worker has to do with its row. *)
HeldOf(d) ==
    /\ posts[d] <= attempts[d]
    /\ d \in claimed => status[d] = "delivering" /\ posts[d] < attempts[d] /\ sending[d] = "none"
    /\ sending[d] # "none" => status[d] = "delivering"

(* Only one drain runs: while the next claim is in flight, no delivery of *)
(* an earlier one is in the hands of the worker.                          *)
SingleFlight == drain # "deliver" => claimed = {} /\ \A d \in Deliveries : sending[d] = "none"

Inv == Types /\ (\A d \in Deliveries : HeldOf(d)) /\ SingleFlight

LEMMA InitInv == Init => Inv
  BY WebhookAssumption DEF Init, Inv, Types, HeldOf, SingleFlight, Open, Outcomes

-----------------------------------------------------------------------------
(* Steps that leave rows and deliveries alone, and start no batch. *)
QuietStep ==
    /\ UNCHANGED <<status, attempts, posts, claimed, sending>>
    /\ drain' = drain \/ (drain # "deliver" /\ drain' \in {"idle", "claim"})

Step == Inv' /\ [Contract!Next]_(Contract!vars)

LEMMA QuietKept == ASSUME Inv, QuietStep PROVE Step
<1>1. Types'
  BY DEF Inv, Types, QuietStep
<1>2. \A d \in Deliveries : HeldOf(d)'
  BY DEF Inv, HeldOf, QuietStep
<1>3. SingleFlight'
  BY DEF Inv, SingleFlight, QuietStep
<1>4. UNCHANGED Contract!vars
  BY DEF QuietStep, Contract!vars
<1> QED
  BY <1>1, <1>2, <1>3, <1>4 DEF Step, Inv

LEMMA QuietSteps ==
    ASSUME \/ Tick \/ Startup \/ Connect \/ Listen \/ RecoveryFails \/ LinkLost \/ LateEnd
           \/ KeepaliveFails \/ ReconnectTimerFires \/ NextDueTimerFires \/ NextDueKnown \/ Stop
           \/ \E ticks \in 0 .. Never : HandleNotification(ticks)
    PROVE  QuietStep
<1>1. CASE \/ Tick \/ Startup \/ Connect \/ LinkLost \/ LateEnd \/ KeepaliveFails
           \/ ReconnectTimerFires \/ NextDueKnown \/ Stop
  BY <1>1 DEF Tick, Startup, Connect, LinkLost, LateEnd, KeepaliveFails, ReconnectTimerFires,
              NextDueKnown, Stop, QuietStep, work, outbox
<1>2. CASE RecoveryFails
  BY <1>2 DEF RecoveryFails, QuietStep, outbox
<1>3. ASSUME DrainDue PROVE UNCHANGED <<claimed, sending>> /\
        (drain' = drain \/ (drain # "deliver" /\ drain' \in {"idle", "claim"}))
  BY <1>3 DEF DrainDue
<1>4. CASE Listen
  BY <1>3, <1>4 DEF Listen, QuietStep, work, outbox
<1>5. CASE NextDueTimerFires
  BY <1>3, <1>5 DEF NextDueTimerFires, QuietStep, outbox
<1>6. CASE \E ticks \in 0 .. Never : HandleNotification(ticks)
  BY <1>3, <1>6 DEF HandleNotification, QuietStep, work, outbox
<1> QED
  BY <1>1, <1>2, <1>4, <1>5, <1>6

-----------------------------------------------------------------------------
LEMMA CreateKept == ASSUME Inv, NEW d \in Deliveries, Create(d) PROVE Step
<1>1. /\ status[d] = "absent" /\ status' = [status EXCEPT ![d] = "pending"]
      /\ UNCHANGED <<attempts, posts, claimed, sending, drain>>
  BY DEF Create, work
<1>2. Types'
  BY <1>1 DEF Inv, Types, Open
<1>3. ASSUME NEW e \in Deliveries PROVE HeldOf(e)'
  BY <1>1 DEF Inv, Types, HeldOf
<1>4. SingleFlight'
  BY <1>1 DEF Inv, SingleFlight
<1>5. Contract!Create(d)
  BY <1>1 DEF Contract!Create
<1> QED
  BY <1>2, <1>3, <1>4, <1>5 DEF Step, Inv, Contract!Next

(* The rows of one claim, and who is handed over. *)
LEMMA ClaimKept == ASSUME Inv, Claim PROVE Step
<1>1. PICK S \in SUBSET Attemptable :
        /\ ClaimRows(S)
        /\ \/ drain' = "deliver" /\ claimed' = S
           \/ drain' \in {"idle", "claim"} /\ claimed' = claimed
  BY DEF Claim, kSubset, LoopOrLeave
<1>2. drain = "claim" /\ sending' = sending
  BY DEF Claim
<1>3. claimed = {} /\ \A d \in Deliveries : sending[d] = "none"
  BY <1>2 DEF Inv, SingleFlight
<1> DEFINE G == Claimable \ Attemptable
<1>4. /\ S \subseteq Deliveries /\ G \subseteq Deliveries
      /\ \A d \in S : status[d] \in Open /\ attempts[d] < MaxAttempts
      /\ \A d \in G : status[d] \in Open /\ attempts[d] = MaxAttempts
  BY WebhookAssumption DEF Attemptable, Claimable, Inv, Types
<1>5. /\ status' = [d \in Deliveries |-> IF d \in S THEN "delivering"
                                         ELSE IF d \in G THEN "abandoned" ELSE status[d]]
      /\ attempts' = [d \in Deliveries |-> IF d \in S THEN attempts[d] + 1 ELSE attempts[d]]
      /\ posts' = posts
  BY <1>1 DEF ClaimRows
<1> HIDE DEF G
<1>6. Types'
  <2>1. attempts' \in [Deliveries -> 0 .. MaxAttempts]
    BY <1>4, <1>5, WebhookAssumption DEF Inv, Types
  <2>2. status' \in [Deliveries -> Open \cup {"absent", "succeeded", "abandoned"}]
    BY <1>5 DEF Inv, Types, Open
  <2> QED
    BY <2>1, <2>2, <1>1, <1>2, <1>3, <1>4, <1>5 DEF Inv, Types
<1>7. ASSUME NEW d \in Deliveries PROVE HeldOf(d)'
  <2>1. posts[d] <= attempts[d] /\ posts[d] \in Nat /\ attempts[d] \in Nat
    BY WebhookAssumption DEF Inv, HeldOf, Types
  <2>2. posts'[d] = posts[d] /\ attempts'[d] = IF d \in S THEN attempts[d] + 1 ELSE attempts[d]
    BY <1>5
  <2>3. d \in claimed' => d \in S
    BY <1>1, <1>3
  <2>4. d \in S => status'[d] = "delivering"
    BY <1>5
  <2>5. sending'[d] = "none"
    BY <1>2, <1>3
  <2> QED
    BY <2>1, <2>2, <2>3, <2>4, <2>5 DEF HeldOf
<1>8. SingleFlight'
  BY <1>1, <1>2, <1>3 DEF SingleFlight
<1>9. Contract!Claim(S, G)
  BY <1>4, <1>5 DEF Contract!Claim, Contract!Closed, Open
<1> QED
  BY <1>4, <1>6, <1>7, <1>8, <1>9 DEF Step, Inv, Contract!Next

LEMMA StartKept == ASSUME Inv, NEW d \in Deliveries, StartDelivery(d) PROVE Step
<1>1. /\ d \in claimed /\ drain = "deliver" /\ drain' = drain
      /\ claimed' = claimed \ {d}
      /\ sending' = [sending EXCEPT ![d] = "posting"]
      /\ posts' = [posts EXCEPT ![d] = @ + 1]
      /\ UNCHANGED <<status, attempts>>
  BY DEF StartDelivery
<1>2. status[d] = "delivering" /\ posts[d] < attempts[d] /\ posts[d] \in Nat /\ attempts[d] \in Nat
  BY <1>1, WebhookAssumption DEF Inv, HeldOf, Types
<1>3. Types'
  BY <1>1 DEF Inv, Types
<1>4. ASSUME NEW e \in Deliveries PROVE HeldOf(e)'
  <2>1. CASE e = d
    BY <2>1, <1>1, <1>2 DEF Inv, Types, HeldOf
  <2>2. CASE e # d
    BY <2>2, <1>1 DEF Inv, Types, HeldOf
  <2> QED
    BY <2>1, <2>2
<1>5. SingleFlight'
  BY <1>1 DEF SingleFlight
<1>6. Contract!Send(d)
  BY <1>1, <1>2 DEF Contract!Send
<1> QED
  BY <1>3, <1>4, <1>5, <1>6 DEF Step, Inv, Contract!Next

LEMMA AnsweredKept == ASSUME Inv, NEW d \in Deliveries, Answered(d) PROVE Step
<1>1. PICK outcome \in Outcomes : sending' = [sending EXCEPT ![d] = outcome]
  BY DEF Answered, Outcomes, Results, Outcome
<1>2. /\ sending[d] = "posting" /\ drain' = drain
      /\ UNCHANGED <<status, attempts, posts, claimed>>
  BY DEF Answered, outbox
<1>3. Types'
  BY <1>1, <1>2 DEF Inv, Types
<1>4. ASSUME NEW e \in Deliveries PROVE HeldOf(e)'
  BY <1>1, <1>2 DEF Inv, Types, HeldOf
<1>5. SingleFlight'
  BY <1>1, <1>2 DEF Inv, SingleFlight
<1>6. UNCHANGED Contract!vars
  BY <1>2 DEF Contract!vars
<1> QED
  BY <1>3, <1>4, <1>5, <1>6 DEF Step, Inv

LEMMA RecordKept == ASSUME Inv, NEW d \in Deliveries, Record(d) PROVE Step
<1>1. /\ sending[d] # "none" /\ drain' = drain
      /\ sending' = [sending EXCEPT ![d] = "none"]
      /\ UNCHANGED <<attempts, posts, claimed>>
      /\ \/ \E outcome \in Contract!Closed \cup {"retrying"} : status' = [status EXCEPT ![d] = outcome]
         \/ status' = status
  BY DEF Record, Contract!Closed
<1>2. status[d] = "delivering" /\ d \notin claimed
  BY <1>1 DEF Inv, HeldOf
<1>3. Types'
  BY <1>1 DEF Inv, Types, Contract!Closed, Open
<1>4. ASSUME NEW e \in Deliveries PROVE HeldOf(e)'
  <2>1. CASE e = d
    BY <2>1, <1>1, <1>2 DEF Inv, Types, HeldOf
  <2>2. CASE e # d
    <3>1. status'[e] = status[e] /\ sending'[e] = sending[e]
      BY <2>2, <1>1 DEF Inv, Types
    <3> QED
      BY <3>1, <1>1 DEF Inv, HeldOf
  <2> QED
    BY <2>1, <2>2
<1>5. SingleFlight'
  BY <1>1 DEF Inv, Types, SingleFlight
<1>6. Contract!Record(d) \/ UNCHANGED Contract!vars
  BY <1>1, <1>2 DEF Contract!Record, Contract!vars
<1> QED
  BY <1>3, <1>4, <1>5, <1>6 DEF Step, Inv, Contract!Next

(* Batches and processes that end let go of every delivery. *)
LEMMA LetGoKept ==
    ASSUME Inv, UNCHANGED <<status, attempts, posts>>, claimed' = {},
           sending' = [d \in Deliveries |-> "none"], drain' \in {"idle", "claim", "deliver"}
    PROVE  Step
<1>1. Types'
  BY DEF Inv, Types
<1>2. ASSUME NEW d \in Deliveries PROVE HeldOf(d)'
  BY DEF Inv, HeldOf
<1>3. SingleFlight'
  BY DEF SingleFlight
<1>4. UNCHANGED Contract!vars
  BY DEF Contract!vars
<1> QED
  BY <1>1, <1>2, <1>3, <1>4 DEF Step, Inv

LEMMA EndKept == ASSUME Inv, BatchDone \/ StopDone \/ Crash PROVE Step
<1>1. CASE BatchDone
  <2>1. sending' = [d \in Deliveries |-> "none"]
    BY <1>1 DEF BatchDone, Inv, Types
  <2>2. drain' \in {"idle", "claim"}
    BY <1>1 DEF BatchDone, LoopOrLeave
  <2> QED
    BY <1>1, <2>1, <2>2, LetGoKept DEF BatchDone, outbox
<1>2. CASE StopDone \/ Crash
  BY <1>2, LetGoKept DEF StopDone, Crash, Forget, outbox
<1> QED
  BY <1>1, <1>2

LEMMA NextKept == ASSUME Inv, [Next]_vars PROVE Step
<1>1. CASE Next
  BY <1>1, QuietSteps, QuietKept, CreateKept, ClaimKept, StartKept, AnsweredKept, RecordKept,
     EndKept DEF Next, Work, Drain, Wakeup, Reconnect
<1>2. CASE UNCHANGED vars
  BY <1>2, QuietKept DEF vars, work, outbox, QuietStep
<1> QED
  BY <1>1, <1>2

-----------------------------------------------------------------------------
(* The rows of webhook_deliveries keep DeliveryContract: claims and late   *)
(* outcomes reopen nothing, and every request was counted before it went   *)
(* out, for every value of the constants.                                  *)
THEOREM OutboxKeepsContract == Spec => KeepsDeliveryContract
<1>1. Init => Contract!Init
  BY DEF Init, Contract!Init
<1>2. Inv /\ [Next]_vars => Inv' /\ [Contract!Next]_(Contract!vars)
  BY NextKept DEF Step
<1> QED
  BY <1>1, <1>2, InitInv, PTL DEF Spec, KeepsDeliveryContract, Contract!Spec

-----------------------------------------------------------------------------
(* Minima and maxima of ticks. *)

LEMMA MinOfTicks ==
    ASSUME NEW S \in SUBSET Nat, S # {}
    PROVE  Min(S) \in S /\ \A t \in S : Min(S) <= t
<1>1. PICK m \in S : \A t \in S : <<t, m>> \notin OpToRel(<, Nat)
  BY WFMin, NatLessThanWellFounded, Zenon
<1>2. \A t \in S : ~(t < m)
  BY <1>1, Zenon DEF OpToRel
<1>3. m \in S /\ \A t \in S : m <= t
  BY <1>2
<1> QED
  BY <1>3 DEF Min

LEMMA MaxOfTwo ==
    ASSUME NEW a \in Nat, NEW b \in Nat
    PROVE  \A t \in Nat : t <= Max({a, b}) <=> t <= a \/ t <= b
<1>1. \E m \in {a, b} : \A t \in {a, b} : m >= t
  OBVIOUS
<1>2. Max({a, b}) \in {a, b} /\ \A t \in {a, b} : Max({a, b}) >= t
  BY <1>1 DEF Max
<1> QED
  BY <1>2

-----------------------------------------------------------------------------
(* The wakeups of a worker that rests. *)

Distances ==
    /\ wait \in [Deliveries -> 0 .. Never - 1]
    /\ timer \in 0 .. Never
    /\ notes \subseteq Nat
    /\ queries \in Nat

Rests == service = "up" /\ link = "up" /\ drain = "idle" /\ recover = "none" /\ queries = 0

(* The timer or a notification comes before the row of d may be claimed, or *)
(* right after it.                                                          *)
WokenFor(d) ==
    timer <= wait[d] \/ timer <= RecheckTicks \/ \E n \in notes : n <= wait[d]

WakeInv ==
    /\ Distances
    /\ Rests => \A d \in Deliveries : status[d] \in Open => WokenFor(d)

LEMMA TickFacts ==
    /\ Never \in Nat /\ LockTicks + 1 \in 0 .. Never - 1 /\ BackoffTicks \in 0 .. Never - 1
    /\ LockTicks \in Nat /\ BackoffTicks \in Nat /\ Never > RecheckTicks
  BY WebhookAssumption DEF Never, RecheckTicks

LEMMA InitWakes == Init => WakeInv
  BY TickFacts DEF Init, WakeInv, Distances, Rests

(* Nothing is asked of a worker that does not rest. *)
LEMMA RestlessKept == ASSUME Distances', ~Rests' PROVE WakeInv'
  BY DEF WakeInv

(* One row is claimed or recorded; a query for the next due row is started. *)
LEMMA DrainIsRestless ==
    ASSUME Inv, WakeInv, Drain
    PROVE  WakeInv'
<1>1. ASSUME NEW more, NEW some, LoopOrLeave(more, some)
      PROVE  queries' \in Nat /\ ~Rests'
  BY <1>1 DEF LoopOrLeave, Rests, WakeInv, Distances
<1>2. CASE Claim
  <2>1. PICK S \in SUBSET Attemptable : ClaimRows(S)
    BY <1>2 DEF Claim, kSubset
  <2>2. wait' = [d \in Deliveries |-> IF d \in S THEN LockTicks + 1 ELSE wait[d]]
    BY <2>1 DEF ClaimRows
  <2>3. wait' \in [Deliveries -> 0 .. Never - 1]
    BY <2>2, TickFacts DEF WakeInv, Distances
  <2>4. timer' = timer /\ notes' = notes
    BY <1>2 DEF Claim, listening
  <2>5. queries' \in Nat /\ ~Rests'
    <3>1. CASE service # "up"
      BY <1>1, <1>2, <3>1 DEF Claim, Rests, WakeInv, Distances
    <3>2. CASE drain' = "deliver"
      BY <1>1, <1>2, <3>2 DEF Claim, Rests, WakeInv, Distances
    <3>3. CASE LoopOrLeave(again, claimedAny)
      BY <1>1, <3>3
    <3> QED
      BY <1>2, <3>1, <3>2, <3>3 DEF Claim
  <2> QED
    BY <2>3, <2>4, <2>5, RestlessKept DEF WakeInv, Distances
<1>3. CASE BatchDone
  <2>1. queries' \in Nat /\ ~Rests'
    BY <1>1, <1>3 DEF BatchDone
  <2>2. UNCHANGED <<wait, timer, notes>>
    BY <1>3 DEF BatchDone, outbox, listening
  <2> QED
    BY <2>1, <2>2, RestlessKept DEF WakeInv, Distances
<1>4. ASSUME NEW d \in Deliveries, StartDelivery(d) \/ Answered(d) PROVE WakeInv'
  <2>1. drain = "deliver" /\ drain' = drain
    BY <1>4 DEF StartDelivery, Answered, Inv, SingleFlight
  <2>2. UNCHANGED <<wait, timer, notes, queries>>
    BY <1>4 DEF StartDelivery, Answered, outbox, listening
  <2> QED
    BY <2>1, <2>2, RestlessKept DEF Rests, WakeInv, Distances
<1>5. ASSUME NEW d \in Deliveries, Record(d) PROVE WakeInv'
  <2>1. drain = "deliver" /\ drain' = drain /\ UNCHANGED <<timer, queries>>
    BY <1>5 DEF Record, Inv, SingleFlight
  <2>2. \/ wait' = wait
        \/ \E ticks \in {0, BackoffTicks} : wait' = [wait EXCEPT ![d] = ticks]
    BY <1>5 DEF Record
  <2>3. wait' \in [Deliveries -> 0 .. Never - 1]
    BY <2>2, TickFacts DEF WakeInv, Distances
  <2>4. notes' = notes \/ notes' = notes \cup {BackoffTicks}
    BY <1>5 DEF Record, Notify
  <2> QED
    BY <2>1, <2>3, <2>4, TickFacts, RestlessKept DEF Rests, WakeInv, Distances
<1> QED
  BY <1>2, <1>3, <1>4, <1>5 DEF Drain

(* Whatever starts a drain or a connection, loses one or ends the process. *)
LEMMA OthersAreRestless ==
    ASSUME Inv, WakeInv,
           \/ Reconnect \/ NextDueTimerFires \/ HandleNotification(0) \/ StopDone
           \/ RecoveryFails \/ LinkLost \/ LateEnd \/ Stop \/ Crash
    PROVE  WakeInv'
<1>1. Never \in 0 .. Never /\ {} \subseteq Nat /\ 0 \in Nat
  BY TickFacts
<1>2. ASSUME DrainDue PROVE drain' # "idle"
  BY <1>2 DEF DrainDue
<1>3. CASE Startup \/ ReconnectTimerFires
  <2>1. UNCHANGED <<wait, timer, notes, queries>> /\ recover' # "none"
    BY <1>3 DEF Startup, ReconnectTimerFires, outbox, listening
  <2> QED
    BY <2>1, RestlessKept DEF Rests, WakeInv, Distances
<1>4. CASE Connect
  <2>1. UNCHANGED <<wait, queries>>
    BY <1>4 DEF Connect, outbox
  <2>2. \/ recover' # "none" /\ UNCHANGED <<timer, notes>>
        \/ service' = "stopping" /\ UNCHANGED <<timer, notes>>
        \/ \E n : ScheduleReconnect(n)
    BY <1>4 DEF Connect, listening
  <2> QED
    BY <1>1, <2>1, <2>2, RestlessKept DEF ScheduleReconnect, Rests, WakeInv, Distances
<1>5. CASE Listen
  <2>1. UNCHANGED <<wait, queries>>
    BY <1>5 DEF Listen, outbox
  <2>2. \/ recover' # "none" /\ UNCHANGED <<timer, notes>>
        \/ service' = "stopping" /\ UNCHANGED <<timer, notes>>
        \/ \E n : ScheduleReconnect(n)
    BY <1>5 DEF Listen
  <2> QED
    BY <1>1, <2>1, <2>2, RestlessKept DEF ScheduleReconnect, Rests, WakeInv, Distances
<1>5a. CASE KeepaliveFails \/ RecoveryFails \/ LinkLost \/ LateEnd
  <2>1. UNCHANGED <<wait, queries>>
    BY <1>5a DEF KeepaliveFails, RecoveryFails, LinkLost, LateEnd, outbox
  <2>2. \/ \E n : ScheduleReconnect(n)
        \/ link' = "dead" /\ notes' = {} /\ timer' = timer
    BY <1>5a DEF KeepaliveFails, RecoveryFails, LinkLost, LateEnd
  <2> QED
    BY <1>1, <2>1, <2>2, RestlessKept DEF ScheduleReconnect, Rests, WakeInv, Distances
<1>6. CASE NextDueTimerFires
  <2>1. UNCHANGED <<wait, notes, queries>> /\ timer' = Never /\ drain' # "idle"
    BY <1>2, <1>6 DEF NextDueTimerFires, outbox, listening
  <2> QED
    BY <1>1, <2>1, RestlessKept DEF Rests, WakeInv, Distances
<1>7. CASE HandleNotification(0)
  <2>1. UNCHANGED <<wait, timer, queries>> /\ notes' = notes \ {0} /\ drain' # "idle"
    BY <1>2, <1>7 DEF HandleNotification, outbox
  <2> QED
    BY <2>1, RestlessKept DEF Rests, WakeInv, Distances
<1>8. CASE StopDone \/ Crash
  <2>1. UNCHANGED wait /\ service' = "down" /\ Forget
    BY <1>8 DEF StopDone, Crash, outbox
  <2> QED
    BY <1>1, <2>1, RestlessKept DEF Forget, Rests, WakeInv, Distances
<1>9. CASE Stop
  <2>1. /\ UNCHANGED <<wait, queries>> /\ service' = "stopping"
        /\ timer' = Never /\ notes' = {}
    BY <1>9 DEF Stop, outbox
  <2> QED
    BY <1>1, <2>1, RestlessKept DEF Rests, WakeInv, Distances
<1> QED
  BY <1>3, <1>4, <1>5, <1>6, <1>7, <1>8, <1>9, <1>5a DEF Reconnect

LEMMA CreateWakes == ASSUME WakeInv, NEW d \in Deliveries, Create(d) PROVE WakeInv'
<1>1. /\ UNCHANGED <<wait, timer, queries, service, link, drain, recover>>
      /\ status' = [status EXCEPT ![d] = "pending"]
      /\ notes' = IF link = "up" THEN notes \cup {0} ELSE notes
  BY DEF Create, Notify, work
<1>2. Distances'
  BY <1>1 DEF WakeInv, Distances
<1>3. ASSUME Rests', NEW e \in Deliveries, status'[e] \in Open PROVE WokenFor(e)'
  <2>1. Rests /\ 0 \in notes' /\ wait'[e] \in Nat
    BY <1>1, <1>3, TickFacts DEF Rests, WakeInv, Distances
  <2>2. 0 <= wait'[e]
    BY <2>1
  <2> QED
    BY <2>1, <2>2 DEF WokenFor
<1> QED
  BY <1>2, <1>3 DEF WakeInv

LEMMA TickWakes == ASSUME WakeInv, Tick PROVE WakeInv'
<1> DEFINE Less(n) == IF n = 0 THEN 0 ELSE n - 1
<1>1. /\ wait' = [d \in Deliveries |-> Less(wait[d])]
      /\ timer' = IF timer = Never THEN Never ELSE Less(timer)
      /\ notes' = {Less(n) : n \in notes}
      /\ UNCHANGED <<status, queries, service, link, drain, recover>>
  BY DEF Tick, work
<1>2. Distances
  BY DEF WakeInv
<1>3. \A n \in Nat : Less(n) \in Nat /\ Less(n) <= n
  OBVIOUS
<1>4. \A m, n \in Nat : m <= n => Less(m) <= Less(n)
  OBVIOUS
<1>5. Distances'
  <2>1. \A n \in 0 .. Never - 1 : Less(n) \in 0 .. Never - 1
    BY TickFacts
  <2>2. timer' \in 0 .. Never
    BY <1>1, <1>2, TickFacts DEF Distances
  <2>3. notes' \subseteq Nat
    BY <1>1, <1>2, <1>3 DEF Distances
  <2> HIDE DEF Less
  <2> QED
    BY <1>1, <1>2, <2>1, <2>2, <2>3 DEF Distances
<1>6. ASSUME Rests', NEW d \in Deliveries, status'[d] \in Open PROVE WokenFor(d)'
  <2>1. wait[d] \in 0 .. Never - 1 /\ wait'[d] = Less(wait[d]) /\ timer \in 0 .. Never
    BY <1>1, <1>2 DEF Distances
  <2>2. WokenFor(d)
    BY <1>1, <1>6 DEF Rests, WakeInv
  <2>3. CASE timer <= wait[d] \/ timer <= RecheckTicks
    <3>1. timer' = Less(timer)
      BY <1>1, <2>1, <2>3, TickFacts DEF RecheckTicks
    <3>2. timer' <= wait'[d] \/ timer' <= RecheckTicks
      BY <2>1, <2>3, <3>1, TickFacts DEF RecheckTicks
    <3> QED
      BY <3>2 DEF WokenFor
  <2>4. CASE \E n \in notes : n <= wait[d]
    <3>1. PICK n \in notes : n <= wait[d]
      BY <2>4
    <3>2. n \in Nat /\ wait[d] \in Nat
      BY <1>2, <2>1, TickFacts DEF Distances
    <3>3. Less(n) <= wait'[d] /\ Less(n) \in notes'
      BY <1>1, <1>4, <2>1, <3>1, <3>2
    <3> HIDE DEF Less
    <3> QED
      BY <3>3 DEF WokenFor
  <2> QED
    BY <2>2, <2>3, <2>4 DEF WokenFor
<1> QED
  BY <1>5, <1>6 DEF WakeInv

(* A notification about a later moment becomes the timer. *)
LEMMA NotificationWakes ==
    ASSUME WakeInv, NEW ticks \in 0 .. Never, ticks # 0, HandleNotification(ticks)
    PROVE  WakeInv'
<1>1. /\ timer' = Min({timer, ticks}) /\ notes' = notes \ {ticks}
      /\ UNCHANGED <<status, wait, queries, service, link, drain, recover>>
  BY DEF HandleNotification, ScheduleNextDue, work, outbox
<1>2. Distances /\ timer \in Nat /\ ticks \in Nat
  BY TickFacts DEF WakeInv, Distances
<1>3. timer' \in {timer, ticks} /\ timer' <= timer /\ timer' <= ticks
  BY <1>1, <1>2, MinOfTicks
<1>4. Distances'
  BY <1>1, <1>2, <1>3 DEF Distances
<1>5. ASSUME Rests', NEW d \in Deliveries, status'[d] \in Open PROVE WokenFor(d)'
  <2>1. WokenFor(d) /\ wait[d] \in Nat /\ wait'[d] = wait[d]
    BY <1>1, <1>2, <1>5, TickFacts DEF Rests, WakeInv, Distances
  <2>2. CASE timer <= wait[d] \/ timer <= RecheckTicks
    BY <1>2, <1>3, <2>1, <2>2 DEF WokenFor, RecheckTicks
  <2>3. ASSUME NEW n \in notes, n <= wait[d] PROVE WokenFor(d)'
    <3>1. n = ticks => timer' <= wait'[d]
      BY <1>2, <1>3, <2>1, <2>3
    <3> QED
      BY <1>1, <2>3, <3>1 DEF WokenFor
  <2> QED
    BY <2>1, <2>2, <2>3 DEF WokenFor
<1> QED
  BY <1>4, <1>5 DEF WakeInv

(* The answer of getNextWebhookDeliveryDueAt is early enough for all. *)
LEMMA QueryWakes == ASSUME WakeInv, NextDueKnown PROVE WakeInv'
<1> DEFINE due == {DueIn(d) : d \in {e \in Deliveries : status[e] \in Open}}
           next == IF Min(due) = 0 THEN RecheckTicks ELSE Min(due)
<1>1. /\ UNCHANGED <<status, wait, notes>>
      /\ timer' = IF due = {} THEN timer ELSE Min({timer, next})
      /\ \/ queries' = queries
         \/ queries > 0 /\ queries' = queries - 1
  BY DEF NextDueKnown, ScheduleFromPersistence, ScheduleNextDue, outbox, listening
<1>2. Distances /\ timer \in Nat
  BY TickFacts DEF WakeInv, Distances
<1>3. \A d \in Deliveries : wait[d] \in Nat /\ DueIn(d) \in Nat /\ DueIn(d) <= wait[d]
  <2> TAKE d \in Deliveries
  <2>1. wait[d] \in Nat
    BY <1>2, TickFacts DEF Distances
  <2> QED
    BY <2>1 DEF DueIn
<1>4. due \in SUBSET Nat
  BY <1>3
<1>5. ASSUME due # {}
      PROVE  next \in Nat /\ \A t \in due : next <= t \/ next <= RecheckTicks
  <2> HIDE DEF due
  <2>1. Min(due) \in due /\ \A t \in due : Min(due) <= t
    BY <1>4, <1>5, MinOfTicks
  <2>2. Min(due) \in Nat /\ \A t \in due : t \in Nat
    BY <1>4, <2>1
  <2>3. CASE Min(due) = 0
    BY <2>3 DEF RecheckTicks
  <2>4. CASE Min(due) # 0
    BY <2>1, <2>2, <2>4
  <2> QED
    BY <2>3, <2>4
<1> HIDE DEF next
<1>6. ASSUME due # {} PROVE timer' \in Nat /\ timer' <= timer /\ timer' <= next
  BY <1>1, <1>2, <1>5, <1>6, MinOfTicks
<1>7. Distances'
  <2>1. timer' \in 0 .. Never
    BY <1>1, <1>2, <1>6, TickFacts DEF Distances
  <2> QED
    BY <1>1, <1>2, <2>1 DEF Distances
<1>8. ASSUME NEW d \in Deliveries, status'[d] \in Open PROVE WokenFor(d)'
  <2>1. DueIn(d) \in due /\ due # {}
    BY <1>1, <1>8
  <2> HIDE DEF due
  <2>2. next \in Nat /\ (next <= DueIn(d) \/ next <= RecheckTicks)
    BY <1>5, <2>1
  <2>3. timer' \in Nat /\ timer' <= next
    BY <1>6, <2>1
  <2>4. DueIn(d) \in Nat /\ DueIn(d) <= wait[d] /\ wait[d] \in Nat /\ wait'[d] = wait[d]
    BY <1>1, <1>3
  <2>5. timer' <= wait'[d] \/ timer' <= RecheckTicks
    BY <2>2, <2>3, <2>4 DEF RecheckTicks
  <2> QED
    BY <2>5 DEF WokenFor
<1> QED
  BY <1>7, <1>8 DEF WakeInv

LEMMA NextWakes == ASSUME Inv, WakeInv, [Next]_vars PROVE WakeInv'
<1>1. CASE Wakeup
  <2>1. ASSUME NEW ticks \in 0 .. Never, HandleNotification(ticks) PROVE WakeInv'
    BY <2>1, NotificationWakes, OthersAreRestless
  <2> QED
    BY <1>1, <2>1, OthersAreRestless DEF Wakeup
<1>2. CASE Work
  BY <1>1, <1>2, DrainIsRestless, OthersAreRestless, QueryWakes DEF Work
<1>3. CASE UNCHANGED vars
  BY <1>3 DEF vars, outbox, listening, work, WakeInv, Distances, Rests, WokenFor
<1> QED
  BY <1>2, <1>3, CreateWakes, TickWakes, OthersAreRestless DEF Next

(* While the worker listens and rests, every open delivery has a timer or a *)
(* notification that wakes it in time: a lock or a retry that comes due, a  *)
(* delivery created meanwhile, a row whose outcome was never written, and   *)
(* whatever the answers of overlapping queries.                             *)
THEOREM NobodySleeps == Spec => []NoDeliverySleeps
<1>1. Inv /\ WakeInv /\ [Next]_vars => Inv' /\ WakeInv'
  BY NextKept, NextWakes DEF Step
<1>2. WakeInv => NoDeliverySleeps
  <2> SUFFICES ASSUME WakeInv, Rests, NEW d \in Deliveries, status[d] \in Open
               PROVE  \/ timer <= Max({wait[d], RecheckTicks})
                      \/ \E n \in notes : n <= wait[d]
    BY DEF NoDeliverySleeps, Rests
  <2>1. wait[d] \in Nat /\ timer \in Nat /\ RecheckTicks \in Nat /\ WokenFor(d)
    BY TickFacts DEF WakeInv, Distances, RecheckTicks
  <2> QED
    BY <2>1, MaxOfTwo DEF WokenFor
<1> QED
  BY <1>1, <1>2, InitInv, InitWakes, PTL DEF Spec

-----------------------------------------------------------------------------
(* The domains: that a worker is only taken off while it has a delivery    *)
(* rests on the number of requests in flight.                              *)

InFlight == {d \in Deliveries : sending[d] # "none"}

LanesInv ==
    /\ lanes \in 0 .. Concurrency
    /\ Cardinality(InFlight) <= lanes

WorkerTypes ==
    /\ service \in {"up", "stopping", "down"}
    /\ link \in {"none", "up", "dead"}
    /\ notes \subseteq 0 .. Never
    /\ reconnectTimer \in BOOLEAN /\ ending \in Nat
    /\ recover \in {"none", "connect", "listen", "drain", "query", "recheck"}
    /\ again \in BOOLEAN /\ claimedAny \in BOOLEAN
    /\ queries \in 0 .. MaxQueries
    /\ faults \in 0 .. MaxFaults

LEMMA InFlightFinite == IsFiniteSet(InFlight) /\ Cardinality(InFlight) \in Nat
  BY WebhookAssumption, FS_Subset, FS_CardinalityType DEF InFlight

LEMMA LanesInitially == Init => LanesInv
<1> SUFFICES ASSUME Init PROVE LanesInv
  OBVIOUS
<1>1. InFlight = {} /\ lanes = 0
  BY DEF Init, InFlight
<1> QED
  BY <1>1, FS_EmptySet, WebhookAssumption DEF LanesInv

(* A batch is started and left with nothing in flight. *)
LEMMA LanesOfBatches ==
    ASSUME Inv, lanes' \in 0 .. Concurrency, \A d \in Deliveries : sending'[d] = "none"
    PROVE  LanesInv'
<1>1. InFlight' = {}
  BY DEF InFlight
<1> QED
  BY <1>1, FS_EmptySet DEF LanesInv

LEMMA LanesStay ==
    ASSUME LanesInv, UNCHANGED lanes, InFlight' = InFlight
    PROVE  LanesInv'
  BY DEF LanesInv

LEMMA LanesOfClaim == ASSUME Inv, LanesInv, Claim PROVE LanesInv'
<1>1. \A d \in Deliveries : sending'[d] = "none"
  BY DEF Claim, Inv, SingleFlight
<1>2. lanes' \in 0 .. Concurrency
  <2>1. PICK S \in kSubset(Min({ClaimLimit, Cardinality(Attemptable)}), Attemptable) :
            \/ lanes' = Min({Concurrency, Cardinality(S)}) \/ lanes' = lanes
    BY DEF Claim
  <2>2. S \subseteq Deliveries
    BY <2>1 DEF kSubset, Attemptable, Claimable
  <2>3. Cardinality(S) \in Nat
    BY <2>2, WebhookAssumption, FS_Subset, FS_CardinalityType
  <2>4. Min({Concurrency, Cardinality(S)}) \in 0 .. Concurrency
    BY <2>3, WebhookAssumption, MinOfTicks
  <2> QED
    BY <2>1, <2>4 DEF LanesInv
<1> QED
  BY <1>1, <1>2, LanesOfBatches

LEMMA LanesOfStart ==
    ASSUME Inv, LanesInv, NEW d \in Deliveries, StartDelivery(d)
    PROVE  LanesInv'
<1>1. Cardinality(InFlight) < lanes /\ lanes' = lanes
  BY DEF StartDelivery, InFlight
<1>2. InFlight' \subseteq InFlight \cup {d}
  BY DEF StartDelivery, InFlight, Inv, Types
<1>3. /\ IsFiniteSet(InFlight \cup {d})
      /\ Cardinality(InFlight \cup {d}) <= Cardinality(InFlight) + 1
      /\ Cardinality(InFlight \cup {d}) \in Nat
  BY InFlightFinite, FS_AddElement
<1>4. Cardinality(InFlight') \in Nat /\ Cardinality(InFlight') <= Cardinality(InFlight) + 1
  BY <1>2, <1>3, InFlightFinite, FS_Subset, FS_CardinalityType
<1> QED
  BY <1>1, <1>4, InFlightFinite, WebhookAssumption DEF LanesInv

LEMMA LanesOfRecord ==
    ASSUME Inv, LanesInv, NEW d \in Deliveries, Record(d)
    PROVE  LanesInv'
<1>1. d \in InFlight /\ (lanes' = lanes \/ lanes' = lanes - 1)
  BY DEF Record, InFlight
<1>2. InFlight' = InFlight \ {d}
  BY DEF Record, InFlight, Inv, Types
<1>3. Cardinality(InFlight') = Cardinality(InFlight) - 1
  BY <1>1, <1>2, InFlightFinite, FS_RemoveElement
<1>4. Cardinality(InFlight') \in Nat
  BY <1>2, InFlightFinite, FS_Subset, FS_CardinalityType
<1> QED
  BY <1>1, <1>3, <1>4, InFlightFinite, WebhookAssumption DEF LanesInv

LEMMA LanesKept == ASSUME Inv, LanesInv, [Next]_vars PROVE LanesInv'
<1>1. ASSUME NEW d \in Deliveries, Answered(d) PROVE LanesInv'
  <2>1. InFlight' = InFlight
    BY <1>1 DEF Answered, InFlight, Inv, Types, Results, Outcome, IsRetryable
  <2> QED
    BY <1>1, <2>1, LanesStay DEF Answered
<1>2. CASE BatchDone \/ StopDone \/ Crash
  <2>1. lanes' = 0 /\ \A d \in Deliveries : sending'[d] = "none"
    BY <1>2 DEF BatchDone, StopDone, Crash, Forget
  <2> QED
    BY <2>1, LanesOfBatches, WebhookAssumption
<1>3. ASSUME UNCHANGED <<lanes, sending>> PROVE LanesInv'
  BY <1>3, LanesStay DEF InFlight
<1>4. CASE Wakeup \/ Reconnect \/ NextDueKnown
  <2>1. UNCHANGED <<lanes, sending>>
    BY <1>4 DEF Wakeup, Reconnect, NextDueKnown, NextDueTimerFires, HandleNotification, DrainDue,
       Startup, Connect, Listen, KeepaliveFails, ReconnectTimerFires, work
  <2> QED
    BY <1>3, <2>1
<1>5. CASE \/ Tick \/ (\E d \in Deliveries : Create(d))
           \/ RecoveryFails \/ LinkLost \/ LateEnd \/ Stop
  <2>1. UNCHANGED <<lanes, sending>>
    BY <1>5 DEF Tick, Create, RecoveryFails, LinkLost, LateEnd, Stop, work
  <2> QED
    BY <1>3, <2>1
<1>6. CASE UNCHANGED vars
  BY <1>3, <1>6 DEF vars, work
<1>7. CASE Drain
  BY <1>1, <1>2, <1>7, LanesOfClaim, LanesOfStart, LanesOfRecord DEF Drain
<1> QED
  BY <1>2, <1>4, <1>5, <1>6, <1>7 DEF Next, Work

LEMMA WorkerInitially == Init => WorkerTypes
<1> SUFFICES ASSUME Init PROVE WorkerTypes
  OBVIOUS
<1>1. notes \subseteq 0 .. Never
  BY DEF Init
<1>2. queries \in 0 .. MaxQueries /\ faults \in 0 .. MaxFaults
  BY WebhookAssumption DEF Init
<1> QED
  BY <1>1, <1>2 DEF Init, WorkerTypes

LEMMA DrainTypes == ASSUME Inv, WorkerTypes, Drain PROVE WorkerTypes'
<1>1. ASSUME NEW more, NEW some, LoopOrLeave(more, some)
      PROVE  /\ again' = FALSE
             /\ recover' \in {"none", "connect", "listen", "drain", "query", "recheck"}
             /\ queries' \in 0 .. MaxQueries
  BY <1>1, WebhookAssumption DEF LoopOrLeave, WorkerTypes
<1>2. CASE Claim
  <2>1. PICK S \in kSubset(Min({ClaimLimit, Cardinality(Attemptable)}), Attemptable) :
            /\ claimedAny' = (claimedAny \/ S # {})
            /\ \/ again' = (again \/ Cardinality(S) = ClaimLimit) /\ UNCHANGED <<recover, queries>>
               \/ LoopOrLeave(again, claimedAny)
               \/ UNCHANGED <<again, recover, queries>>
    BY <1>2 DEF Claim
  <2>2. claimedAny' \in BOOLEAN
    BY <2>1
  <2>3. /\ again' \in BOOLEAN
        /\ recover' \in {"none", "connect", "listen", "drain", "query", "recheck"}
        /\ queries' \in 0 .. MaxQueries
    BY <1>1, <2>1 DEF WorkerTypes
  <2>4. UNCHANGED <<service, link, notes, reconnectTimer, ending, faults>>
    BY <1>2 DEF Claim, listening
  <2> QED
    BY <2>2, <2>3, <2>4 DEF WorkerTypes
<1>3. CASE BatchDone
  <2>1. UNCHANGED <<service, link, notes, reconnectTimer, ending, claimedAny, faults>>
        /\ LoopOrLeave(again, claimedAny)
    BY <1>3 DEF BatchDone, listening
  <2> QED
    BY <1>1, <2>1 DEF WorkerTypes
<1>4. ASSUME NEW d \in Deliveries, StartDelivery(d) \/ Answered(d) PROVE WorkerTypes'
  BY <1>4 DEF StartDelivery, Answered, WorkerTypes, listening
<1>5. ASSUME NEW d \in Deliveries, Record(d) PROVE WorkerTypes'
  <2>1. notes' = notes \/ notes' = notes \cup {BackoffTicks}
    BY <1>5 DEF Record, Notify
  <2>2. BackoffTicks \in 0 .. Never
    BY TickFacts
  <2>3. notes' \subseteq 0 .. Never
    BY <2>1, <2>2 DEF WorkerTypes
  <2> QED
    BY <1>5, <2>3 DEF Record, WorkerTypes
<1> QED
  BY <1>2, <1>3, <1>4, <1>5 DEF Drain

LEMMA WorkerKept == ASSUME Inv, WorkerTypes, [Next]_vars PROVE WorkerTypes'
<1>1. Never \in Nat
  BY TickFacts
<1>2. ASSUME NEW d \in Deliveries, Create(d) PROVE WorkerTypes'
  <2>1. notes' \subseteq 0 .. Never
    BY <1>1, <1>2 DEF Create, Notify, WorkerTypes
  <2> QED
    BY <1>2, <2>1 DEF Create, WorkerTypes, work
<1>3. CASE Tick
  <2>1. notes' \subseteq 0 .. Never
    BY <1>1, <1>3 DEF Tick, WorkerTypes
  <2> QED
    BY <1>3, <2>1 DEF Tick, WorkerTypes, work
<1>1a. Listener \in Nat
  BY DEF Listener
<1>1b. ASSUME NEW n \in Nat, ScheduleReconnect(n)
       PROVE  /\ link' = "none" /\ notes' \subseteq 0 .. Never
              /\ reconnectTimer' \in BOOLEAN /\ ending' \in Nat
  BY <1>1b DEF ScheduleReconnect
<1>1c. ending \in Nat /\ ending + Listener \in Nat /\ ending + 1 + Listener \in Nat
       /\ ending + 1 \in Nat /\ (ending > 0 => ending - 1 + Listener \in Nat)
  BY <1>1a DEF WorkerTypes
<1>4. CASE Startup \/ KeepaliveFails \/ ReconnectTimerFires \/ LateEnd
  <2>1. CASE Startup \/ ReconnectTimerFires
    BY <1>1, <2>1 DEF Startup, ReconnectTimerFires, WorkerTypes, work, listening
  <2>2. CASE KeepaliveFails \/ LateEnd
    BY <1>1b, <1>1c, <2>2 DEF KeepaliveFails, LateEnd, WorkerTypes, work
  <2> QED
    BY <1>4, <2>1, <2>2
<1>5. ASSUME DrainDue PROVE again' \in BOOLEAN /\ claimedAny' \in BOOLEAN
  BY <1>5 DEF DrainDue, WorkerTypes
<1>6. ASSUME Fault PROVE faults' \in 0 .. MaxFaults
  BY <1>6, WebhookAssumption DEF Fault, WorkerTypes
<1>7. CASE Connect \/ Listen
  <2>1. CASE Connect
    BY <1>6, <1>1b, <1>1c, <2>1 DEF Connect, WorkerTypes, work, listening
  <2>2. CASE Listen
    BY <1>5, <1>6, <1>1b, <1>1c, <2>2 DEF Listen, WorkerTypes, work
  <2> QED
    BY <1>7, <2>1, <2>2
<1>8. ASSUME NEW ticks \in 0 .. Never, HandleNotification(ticks) PROVE WorkerTypes'
  BY <1>5, <1>8 DEF HandleNotification, WorkerTypes, work
<1>9. CASE NextDueTimerFires
  BY <1>5, <1>9 DEF NextDueTimerFires, WorkerTypes, listening
<1>10. CASE NextDueKnown
  BY <1>10, WebhookAssumption DEF NextDueKnown, WorkerTypes, listening, work
<1>11. CASE RecoveryFails \/ LinkLost \/ Stop
  <2>1. CASE RecoveryFails
    BY <1>6, <1>1b, <1>1c, <2>1 DEF RecoveryFails, WorkerTypes
  <2>2. CASE LinkLost
    BY <1>6, <1>1b, <1>1c, <2>2 DEF LinkLost, WorkerTypes, work
  <2>3. CASE Stop
    BY <1>6, <2>3 DEF Stop, WorkerTypes, work
  <2> QED
    BY <1>11, <2>1, <2>2, <2>3
<1>12. CASE StopDone \/ Crash
  <2>1. Forget /\ service' = "down" /\ faults' \in 0 .. MaxFaults
    BY <1>6, <1>12 DEF StopDone, Crash, WorkerTypes
  <2>2. notes' \subseteq 0 .. Never
    BY <2>1 DEF Forget
  <2>3. queries' \in 0 .. MaxQueries
    BY <2>1, WebhookAssumption DEF Forget
  <2> QED
    BY <2>1, <2>2, <2>3 DEF Forget, WorkerTypes
<1>13. CASE UNCHANGED vars
  BY <1>13 DEF vars, listening, work, WorkerTypes
<1> QED
  BY <1>2, <1>3, <1>4, <1>7, <1>8, <1>9, <1>10, <1>11, <1>12, <1>13, DrainTypes
  DEF Next, Work, Wakeup, Reconnect

(* The domains of the outbox and its worker; with them, the worker has     *)
(* never more requests out than it has takers, nor more takers than        *)
(* webhooks.maxConcurrentDeliveries, whatever calls fail.                  *)
THEOREM TypeCorrect == Spec => [](TypeOK /\ Cardinality(InFlight) <= Concurrency)
<1>1. Inv /\ WakeInv /\ LanesInv /\ WorkerTypes /\ [Next]_vars
      => Inv' /\ WakeInv' /\ LanesInv' /\ WorkerTypes'
  BY NextKept, NextWakes, LanesKept, WorkerKept DEF Step
<1>2. Inv /\ WakeInv /\ LanesInv /\ WorkerTypes => TypeOK /\ Cardinality(InFlight) <= Concurrency
  <2> SUFFICES ASSUME Inv, WakeInv, LanesInv, WorkerTypes
               PROVE  TypeOK /\ Cardinality(InFlight) <= Concurrency
    OBVIOUS
  <2>1. wait \in [Deliveries -> 0 .. Never] /\ timer \in 0 .. Never
    <3>1. wait \in [Deliveries -> 0 .. Never - 1] /\ Never \in Nat
      BY TickFacts DEF WakeInv, Distances
    <3> QED
      BY <3>1 DEF WakeInv, Distances
  <2>2. Cardinality(InFlight) <= Concurrency
    BY InFlightFinite, WebhookAssumption DEF LanesInv
  <2> QED
    BY <2>1, <2>2 DEF Inv, Types, Outcomes, WorkerTypes, LanesInv, TypeOK
<1> QED
  BY <1>1, <1>2, InitInv, InitWakes, LanesInitially, WorkerInitially, PTL DEF Spec
=============================================================================
