-------------------------- MODULE WebhookDelivery --------------------------
(***************************************************************************)
(* The webhook outbox and its worker: core/webhook-delivery-service.ts     *)
(* with the claim and outcome statements of db/postgres/repositories.ts.   *)
(*                                                                         *)
(* Nothing polls the outbox.  A drain is started by a notification, by the *)
(* next-due timer, or by the recovery that follows each LISTEN; only one   *)
(* drain runs at a time.  Time is kept as distances: wait[d] and timer     *)
(* count ticks down to the moment that is meant, so that no clock grows.   *)
(***************************************************************************)
EXTENDS Naturals, FiniteSets, FiniteSetsExt

CONSTANTS
    Deliveries,
    MaxAttempts,        \* webhooks.maxAttempts
    ClaimLimit,         \* webhooks.claimLimit
    Concurrency,        \* webhooks.maxConcurrentDeliveries
    LockTicks,          \* webhooks.lockTimeoutMs, in ticks
    BackoffTicks,       \* the retry delay, in ticks
    MaxFaults,          \* bound: crashes, stops and lost connections
    MaxQueries          \* bound: scheduleFromPersistence calls at once

ASSUME WebhookAssumption ==
    /\ IsFiniteSet(Deliveries)
    /\ MaxAttempts \in Nat \ {0} /\ ClaimLimit \in Nat \ {0} /\ Concurrency \in Nat \ {0}
    /\ LockTicks \in Nat \ {0} /\ BackoffTicks \in Nat \ {0} /\ MaxFaults \in Nat
    /\ MaxQueries \in Nat \ {0}

VARIABLES
    status,         \* delivery_status, or "absent"
    attempts,       \* attempt_count
    wait,           \* ticks until the row may be claimed (its lock must be older than the timeout)
    posts,          \* requests the receiver may have got
    service,        \* "up", "stopping", "down"
    link,           \* the LISTEN connection: "none", "up", "dead" (lost, and not noticed)
    notes,          \* notifications on the way, as ticks until their nextAttemptAt
    reconnectTimer, \* set
    ending,         \* listener clients that are closed, lost or left behind, and whose 'end'
                    \* event is still to come
    recover,        \* what connectListenRecover waits for: "none", "connect", "listen", "drain",
                    \* or its query for the next due row, with or without a second one to come
    timer,          \* ticks until the next-due timer fires, or Never
    drain,          \* drainDue: "idle", "claim" (the query is in flight) or "deliver"
    again,          \* drainAgain
    claimedAny,     \* the running drain has claimed something
    claimed,        \* of the claimed batch: not started
    lanes,          \* deliverClaimed: its workers that still take deliveries
    sending,        \* deliverOne: "none", "posting", or the outcome it is recording
    queries,        \* scheduleFromPersistence calls in flight, outside of recover
    faults

outbox == <<status, attempts, wait, posts>>
listening == <<link, notes, reconnectTimer, ending>>
work == <<drain, again, claimedAny, claimed, lanes, sending>>
vars == <<outbox, service, listening, recover, timer, work, queries, faults>>

Open == {"pending", "retrying", "delivering"}
Never == LockTicks + BackoffTicks + 2   \* later than every moment that is waited for
RecheckTicks == 1                       \* minRecheckDelayMs

(* The domains of the variables. *)
TypeOK ==
    /\ status \in [Deliveries -> Open \cup {"absent", "succeeded", "abandoned"}]
    /\ attempts \in [Deliveries -> 0 .. MaxAttempts]
    /\ wait \in [Deliveries -> 0 .. Never]
    /\ posts \in [Deliveries -> Nat]
    /\ service \in {"up", "stopping", "down"}
    /\ link \in {"none", "up", "dead"}
    /\ notes \subseteq 0 .. Never
    /\ reconnectTimer \in BOOLEAN /\ ending \in Nat
    /\ recover \in {"none", "connect", "listen", "drain", "query", "recheck"}
    /\ timer \in 0 .. Never
    /\ drain \in {"idle", "claim", "deliver"}
    /\ again \in BOOLEAN /\ claimedAny \in BOOLEAN
    /\ claimed \subseteq Deliveries
    /\ lanes \in 0 .. Concurrency
    /\ sending \in [Deliveries -> {"none", "posting", "success", "retry", "refused"}]
    /\ queries \in 0 .. MaxQueries
    /\ faults \in 0 .. MaxFaults

(* The worker as a new process has it, before start(). *)
Forget ==
    /\ link' = "none" /\ notes' = {} /\ reconnectTimer' = FALSE /\ ending' = 0
    /\ recover' = "none" /\ timer' = Never /\ queries' = 0
    /\ drain' = "idle" /\ again' = FALSE /\ claimedAny' = FALSE /\ claimed' = {} /\ lanes' = 0
    /\ sending' = [d \in Deliveries |-> "none"]

Init ==
    /\ status = [d \in Deliveries |-> "absent"]
    /\ attempts = [d \in Deliveries |-> 0]
    /\ wait = [d \in Deliveries |-> 0]
    /\ posts = [d \in Deliveries |-> 0]
    /\ service = "down" /\ link = "none" /\ notes = {} /\ reconnectTimer = FALSE /\ ending = 0
    /\ recover = "none" /\ timer = Never /\ queries = 0
    /\ drain = "idle" /\ again = FALSE /\ claimedAny = FALSE /\ claimed = {} /\ lanes = 0
    /\ sending = [d \in Deliveries |-> "none"]
    /\ faults = 0

-----------------------------------------------------------------------------
(* What the operations have in common. *)

Fault == faults < MaxFaults /\ faults' = faults + 1

(* pg_notify: only a connection that listens gets it. *)
Notify(ticks) == notes' = IF link = "up" THEN notes \cup {ticks} ELSE notes

(* A fault: a wakeup during a drain starts a second one. *)
DrainDueInParallel ==
    /\ drain' = "claim" /\ claimedAny' = FALSE
    /\ UNCHANGED <<again, claimed, lanes, sending>>

(* drainDue up to its first await: one drain at a time, and one more after *)
(* it if there was a wakeup meanwhile.                                     *)
DrainDue ==
    /\ IF drain = "idle" THEN drain' = "claim" /\ claimedAny' = FALSE /\ again' = FALSE
                         ELSE again' = TRUE /\ UNCHANGED <<drain, claimedAny>>
    /\ UNCHANGED <<claimed, lanes, sending>>

(* scheduleNextDue: a timer is never moved to a later moment. *)
ScheduleNextDue(ticks) == timer' = Min({timer, ticks})

(* getNextWebhookDeliveryDueAt, in ticks: a lock is due at its timeout, a *)
(* tick before it is old enough to be claimed.                            *)
DueIn(d) == IF status[d] = "delivering" /\ wait[d] > 0 THEN wait[d] - 1 ELSE wait[d]

(* A fault: what is due already is left to somebody else. *)
ScheduleFutureOnly ==
    LET due == {DueIn(d) : d \in {e \in Deliveries : status[e] \in Open}} \ {0} IN
    IF due = {} THEN UNCHANGED timer ELSE ScheduleNextDue(Min(due))

(* scheduleFromPersistence, when its query answers. *)
ScheduleFromPersistence ==
    LET due == {DueIn(d) : d \in {e \in Deliveries : status[e] \in Open}} IN
    IF due = {} THEN UNCHANGED timer
    ELSE ScheduleNextDue(IF Min(due) = 0 THEN RecheckTicks ELSE Min(due))

(* The client that is the listener, if there is one. *)
Listener == IF link = "none" THEN 0 ELSE 1

(* scheduleReconnect closes the listener and forgets it; from then on n     *)
(* clients have still to end.                                               *)
ScheduleReconnect(n) ==
    /\ timer' = Never
    /\ ending' = n
    /\ link' = "none"
    /\ notes' = {}
    /\ reconnectTimer' = TRUE

-----------------------------------------------------------------------------
(* The rows: created with the status of a run, also by the startup before  *)
(* the worker listens; and time.                                           *)
Create(d) ==
    /\ status[d] = "absent"
    /\ status' = [status EXCEPT ![d] = "pending"]
    /\ Notify(0)
    /\ UNCHANGED <<attempts, wait, posts, service, link, reconnectTimer, ending, recover, timer,
                   work, queries, faults>>

Tick ==
    LET Less(n) == IF n = 0 THEN 0 ELSE n - 1 IN
    /\ timer \in 1 .. Never - 1 \/ \E d \in Deliveries : wait[d] > 0
    /\ wait' = [d \in Deliveries |-> Less(wait[d])]
    /\ timer' = IF timer = Never THEN Never ELSE Less(timer)
    /\ notes' = {Less(n) : n \in notes}
    /\ UNCHANGED <<status, attempts, posts, service, link, reconnectTimer, ending, recover, work,
                   queries, faults>>

-----------------------------------------------------------------------------
(* The LISTEN connection. *)

Startup ==
    /\ service = "down"
    /\ service' = "up"
    /\ recover' = "connect"
    /\ UNCHANGED <<outbox, listening, timer, work, queries, faults>>

(* connectListenRecover: the client is connected, and its handlers are set; *)
(* or it is closed again, because the service was stopped; or an error.     *)
Connect ==
    /\ recover = "connect"
    /\ \/ /\ service = "up"
          /\ recover' = "listen"
          /\ UNCHANGED <<listening, timer, faults>>
       \/ /\ service = "stopping"
          /\ recover' = "none"
          /\ UNCHANGED <<listening, timer, faults>>
       \/ /\ service = "up"
          /\ Fault
          /\ ScheduleReconnect(ending + Listener)
          /\ recover' = "none"
    /\ UNCHANGED <<outbox, service, work, queries>>

(* A fault: the LISTEN is not followed by a recovery. *)
ListenWithoutRecovery ==
    /\ recover = "listen" /\ service = "up"
    /\ link' = "up" /\ recover' = "none"
    /\ UNCHANGED <<outbox, service, notes, reconnectTimer, ending, timer, work, queries, faults>>

(* The LISTEN answers: the client becomes the listener, in the place of one *)
(* there may be, and the recovery begins.  Or it fails, and nobody closes   *)
(* the client.  A service that was stopped meanwhile keeps the listener,    *)
(* and with it the process.                                                 *)
Listen ==
    /\ recover = "listen"
    /\ \/ /\ service = "up"
          /\ link' = "up"
          /\ ending' = ending + Listener
          /\ recover' = IF drain = "idle" THEN "drain" ELSE "query"
          /\ DrainDue
          /\ UNCHANGED <<notes, reconnectTimer, timer, faults>>
       \/ /\ service = "up"
          /\ Fault
          /\ ScheduleReconnect(ending + 1 + Listener)
          /\ recover' = "none"
          /\ UNCHANGED work
       \/ /\ service = "stopping"
          /\ link' = "up"
          /\ recover' = "none"
          /\ UNCHANGED <<notes, reconnectTimer, ending, timer, work, faults>>
    /\ UNCHANGED <<outbox, service, queries>>

(* A claim or a query of the recovery fails. *)
RecoveryFails ==
    /\ \/ recover = "drain" /\ drain = "claim"
       \/ recover \in {"query", "recheck"}
    /\ service = "up"
    /\ Fault
    /\ recover' = "none"
    /\ drain' = IF recover = "drain" THEN "idle" ELSE drain
    /\ ScheduleReconnect(ending + Listener)
    /\ UNCHANGED <<outbox, service, again, claimedAny, claimed, lanes, sending, queries>>

(* The connection breaks, and an error event tells so, which an end event  *)
(* follows, soon or late; or nothing is noticed.                           *)
LinkLost ==
    /\ link = "up" /\ service = "up"
    /\ Fault
    /\ \/ ScheduleReconnect(ending + 1)
       \/ link' = "dead" /\ notes' = {} /\ UNCHANGED <<reconnectTimer, ending, timer>>
    /\ UNCHANGED <<outbox, service, recover, work, queries>>

(* The end event of a client that is the listener no longer: it closes     *)
(* whoever is now, as nobody asks whose event it is.                       *)
LateEnd ==
    /\ ending > 0 /\ service = "up"
    /\ ScheduleReconnect(ending - 1 + Listener)
    /\ UNCHANGED <<outbox, service, recover, work, queries, faults>>

(* The keepalive query on the connection fails or times out. *)
KeepaliveFails ==
    /\ link = "dead" /\ service = "up"
    /\ ScheduleReconnect(ending + 1)
    /\ UNCHANGED <<outbox, service, recover, work, queries, faults>>

(* The reconnect timer: nothing is done while a connectListenRecover is *)
(* still at work.                                                       *)
ReconnectTimerFires ==
    /\ reconnectTimer
    /\ reconnectTimer' = FALSE
    /\ recover' = IF recover = "none" THEN "connect" ELSE recover
    /\ UNCHANGED <<outbox, service, link, notes, ending, timer, work, queries, faults>>

HandleNotification(ticks) ==
    /\ link = "up" /\ service = "up"
    /\ ticks \in notes
    /\ notes' = notes \ {ticks}
    /\ IF ticks = 0 THEN DrainDue /\ UNCHANGED timer
                    ELSE ScheduleNextDue(ticks) /\ UNCHANGED work
    /\ UNCHANGED <<outbox, service, link, reconnectTimer, ending, recover, queries, faults>>

NextDueTimerFires ==
    /\ timer = 0
    /\ timer' = Never
    /\ DrainDue
    /\ UNCHANGED <<outbox, service, listening, recover, queries, faults>>

-----------------------------------------------------------------------------
(* The drain. *)

(* The loop goes on after a wakeup or a full batch; else drainDue leaves   *)
(* it, and asks for the next due row.                                      *)
LoopOrLeave(more, some) ==
    IF more
    THEN /\ drain' = "claim" /\ again' = FALSE
         /\ UNCHANGED <<recover, queries>>
    ELSE /\ drain' = "idle" /\ again' = FALSE
         /\ IF recover = "drain"
            THEN recover' = (IF some THEN "query" ELSE "recheck") /\ UNCHANGED queries
            ELSE queries < MaxQueries /\ queries' = queries + 1 /\ UNCHANGED recover

(* claimDueWebhookDeliveries: the due rows without an attempt left are     *)
(* abandoned, up to claimLimit of the others locked with one attempt more. *)
(* The code takes the ones due first, here it is any.                      *)
Claimable == {d \in Deliveries : status[d] \in Open /\ wait[d] = 0}

(* A fault: the attempts are not looked at. *)
Attemptable == {d \in Claimable : attempts[d] < MaxAttempts}

ClaimRows(S) ==
    /\ status' = [d \in Deliveries |-> IF d \in S THEN "delivering"
                                       ELSE IF d \in Claimable \ Attemptable THEN "abandoned"
                                       ELSE status[d]]
    /\ attempts' = [d \in Deliveries |-> IF d \in S THEN attempts[d] + 1 ELSE attempts[d]]
    /\ wait' = [d \in Deliveries |-> IF d \in S THEN LockTicks + 1 ELSE wait[d]]
    /\ UNCHANGED posts

(* drainOnce: the claim answers, and its deliveries are handed to the      *)
(* workers; a service that was stopped leaves them locked.                 *)
Claim ==
    /\ drain = "claim"
    /\ \E S \in kSubset(Min({ClaimLimit, Cardinality(Attemptable)}), Attemptable) :
        /\ ClaimRows(S)
        /\ claimedAny' = (claimedAny \/ S # {})
        /\ \/ /\ service = "up" /\ S # {}
              /\ drain' = "deliver"
              /\ again' = (again \/ Cardinality(S) = ClaimLimit)
              /\ claimed' = S
              /\ lanes' = Min({Concurrency, Cardinality(S)})
              /\ UNCHANGED <<recover, queries>>
           \/ /\ service = "up" /\ S = {}
              /\ LoopOrLeave(again, claimedAny)
              /\ UNCHANGED <<claimed, lanes>>
           \/ /\ service # "up"
              /\ drain' = "idle"
              /\ UNCHANGED <<again, claimed, lanes, recover, queries>>
    /\ UNCHANGED <<service, listening, timer, sending, faults>>

(* A worker takes the next delivery of the batch: its request may be out. *)
StartDelivery(d) ==
    /\ drain = "deliver" /\ service = "up"
    /\ d \in claimed
    /\ Cardinality({e \in Deliveries : sending[e] # "none"}) < lanes
    /\ claimed' = claimed \ {d}
    /\ sending' = [sending EXCEPT ![d] = "posting"]
    /\ posts' = [posts EXCEPT ![d] = @ + 1]
    /\ UNCHANGED <<status, attempts, wait, service, listening, recover, timer, drain, again,
                   claimedAny, lanes, queries, faults>>

(* A response by its status, or none, or a URL that is not allowed (any more). *)
Answers == {"2xx", "busy", "other", "none", "not allowed"}

(* The whole body is read, and has to end before the timeout as well: a    *)
(* receiver that has accepted the request may count as one that has not    *)
(* answered.                                                               *)
ReadResponsePreview(answer) ==
    IF answer \in {"none", "not allowed"} THEN {answer} ELSE {answer, "none"}

IsRetryable(answer) == answer \in {"busy", "none"}

Outcome(answer) ==
    IF answer = "2xx" THEN "success" ELSE IF IsRetryable(answer) THEN "retry" ELSE "refused"

Results == {Outcome(answer) : answer \in UNION {ReadResponsePreview(a) : a \in Answers}}

(* The response, the timeout, or a refusal. *)
Answered(d) ==
    /\ sending[d] = "posting"
    /\ \E outcome \in Results : sending' = [sending EXCEPT ![d] = outcome]
    /\ UNCHANGED <<outbox, service, listening, recover, timer, drain, again, claimedAny, claimed,
                   lanes, queries, faults>>

(* The outcome is written, whatever the row holds by now.  Or a database   *)
(* call fails: the row stays locked, and the worker takes no more.         *)
Record(d) ==
    LET retry == sending[d] = "retry" /\ attempts[d] < MaxAttempts IN
    /\ sending[d] \notin {"none", "posting"}
    /\ sending' = [sending EXCEPT ![d] = "none"]
    /\ \/ /\ status' = [status EXCEPT ![d] = IF sending[d] = "success" THEN "succeeded"
                                             ELSE IF retry THEN "retrying" ELSE "abandoned"]
          /\ wait' = [wait EXCEPT ![d] = IF retry THEN BackoffTicks ELSE 0]
          /\ IF retry THEN Notify(BackoffTicks) ELSE UNCHANGED notes
          /\ UNCHANGED lanes
       \/ /\ lanes' = lanes - 1
          /\ UNCHANGED <<status, wait, notes>>
    /\ UNCHANGED <<attempts, posts, service, link, reconnectTimer, ending, recover, timer, drain,
                   again, claimedAny, claimed, queries, faults>>

(* The workers are through with the batch; what they did not take is left *)
(* locked.                                                                *)
BatchDone ==
    /\ drain = "deliver" /\ service = "up"
    /\ claimed = {} \/ lanes = 0
    /\ \A d \in Deliveries : sending[d] = "none"
    /\ claimed' = {} /\ lanes' = 0
    /\ LoopOrLeave(again, claimedAny)
    /\ UNCHANGED <<outbox, service, listening, timer, claimedAny, sending, faults>>

(* The query for the next due row answers. *)
NextDueKnown ==
    /\ service = "up"
    /\ \/ queries > 0 /\ queries' = queries - 1 /\ UNCHANGED recover
       \/ recover = "recheck" /\ recover' = "query" /\ UNCHANGED queries
       \/ recover = "query" /\ recover' = "none" /\ UNCHANGED queries
    /\ ScheduleFromPersistence
    /\ UNCHANGED <<outbox, service, listening, work, faults>>

-----------------------------------------------------------------------------
(* stop(): nothing is claimed or started any more, deliveries in flight    *)
(* are waited for (and aborted); then the process ends.                    *)
Stop ==
    /\ service = "up"
    /\ Fault
    /\ service' = "stopping"
    /\ link' = "none" /\ notes' = {} /\ reconnectTimer' = FALSE /\ timer' = Never
    /\ UNCHANGED <<outbox, ending, recover, work, queries>>

(* The process ends when nothing is open any more. *)
StopDone ==
    /\ service = "stopping"
    /\ link = "none" /\ recover \notin {"connect", "listen"}
    /\ \A d \in Deliveries : sending[d] = "none"
    /\ service' = "down"
    /\ Forget
    /\ UNCHANGED <<outbox, faults>>

(* Also a claim or query of a drain nobody awaits that fails. *)
Crash ==
    /\ service # "down"
    /\ Fault
    /\ service' = "down"
    /\ Forget
    /\ UNCHANGED outbox

Drain ==
    \/ Claim \/ BatchDone
    \/ \E d \in Deliveries : StartDelivery(d) \/ Answered(d) \/ Record(d)

Wakeup == NextDueTimerFires \/ \E ticks \in 0 .. Never : HandleNotification(ticks)

Reconnect == Startup \/ Connect \/ Listen \/ KeepaliveFails \/ ReconnectTimerFires

(* What goes on by itself: timers, answers, and the start of the daemon. *)
Work == Drain \/ Wakeup \/ Reconnect \/ NextDueKnown \/ StopDone

Next ==
    \/ Tick \/ Work
    \/ \E d \in Deliveries : Create(d)
    \/ RecoveryFails \/ LinkLost \/ LateEnd \/ Stop \/ Crash

Spec == Init /\ [][Next]_vars

(***************************************************************************)
(* Time passes, timers fire, the database, the receiver or its timeout and *)
(* the keepalive answer, and a daemon that ended is started again; a drain *)
(* goes on whatever becomes of the listener meanwhile.                     *)
(***************************************************************************)
Fairness ==
    /\ WF_vars(Tick)
    /\ WF_vars(Work)
    /\ WF_vars(Drain)

FairSpec == Spec /\ Fairness

-----------------------------------------------------------------------------
Contract == INSTANCE DeliveryContract

(* Crashes, stops, lost connections and late outcomes included, the row of *)
(* a delivery keeps the contract: no closed delivery is reopened, and the  *)
(* receiver never gets more requests than there were counted attempts.     *)
KeepsDeliveryContract == Contract!Spec

(* The worker listens, or is going to: the connection is there, a timer    *)
(* will make it anew, or it is being made.                                 *)
Deaf ==
    /\ service = "up" /\ link = "none"
    /\ ~reconnectTimer /\ recover \notin {"connect", "listen"}

(* A listener that came up after the stop keeps the process from ending. *)
Held == service = "stopping" /\ link # "none"

(* While the worker listens and rests, every open delivery has a timer or  *)
(* a notification that will wake it in time.                               *)
NoDeliverySleeps ==
    service = "up" /\ link = "up" /\ drain = "idle" /\ recover = "none" /\ queries = 0 =>
        \A d \in Deliveries : status[d] \in Open =>
            \/ timer <= Max({wait[d], RecheckTicks})
            \/ \E n \in notes : n <= wait[d]

(* Every delivery that was created is delivered or given up, through crashes *)
(* and lost connections: again and again all of them are, unless the worker  *)
(* has become deaf, or was stopped and does not end.                         *)
DeliveriesEndUnlessDeaf ==
    []<>((\A d \in Deliveries : status[d] \in Contract!Closed \cup {"absent"}) \/ Deaf \/ Held)
=============================================================================
