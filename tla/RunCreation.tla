---------------------------- MODULE RunCreation ----------------------------
(***************************************************************************)
(* POST /runs: createRun of core/run-service.ts with the transaction of    *)
(* db/postgres/repositories.ts.  Calls interleave at every await.  A       *)
(* transaction takes one connection of the pool, sees what others have     *)
(* committed (READ COMMITTED), and is rolled back when a statement fails   *)
(* or the daemon crashes.  A run, its messages and the conversation it     *)
(* makes have the name of the call that creates them.                      *)
(*                                                                         *)
(* There is one client, profile and workspace: the scope of a key and of a *)
(* default conversation.  What a call asks for and whether it may have it  *)
(* are told apart in RunRequests; the webhook that is stored with the run  *)
(* is left out.                                                            *)
(***************************************************************************)
EXTENDS RunRequests, Integers, Sequences, SequencesExt, FiniteSetsExt

CONSTANTS
  Calls,           \* 1..n, in the order they come
  Keys,            \* idempotency keys; NoKey is none
  NoKey,
  Prompts,         \* the lengths of the prompts
  PoolMax,         \* connections
  MaxQueueSize,
  MaxFaults        \* statements that fail and crashes, in all

ASSUME RunCreationAssumption ==
  /\ Calls \subseteq Nat \ {0} /\ IsFiniteSet(Calls)
  /\ NoKey \notin Keys
  /\ Prompts \subseteq Nat \ {0}
  /\ PoolMax \in Nat \ {0} /\ MaxQueueSize \in Nat /\ MaxFaults \in Nat

VARIABLES
  call,            \* the calls
  row,             \* runs: the status of the row of each
  conversations,   \* rows titled Default
  messages,        \* run_messages
  holder,          \* the call that has the advisory lock of the workspace
  queue,           \* the states of the queue, in the order of their sequence
  faults

db == <<row, conversations, messages>>
vars == <<call, db, holder, queue, faults>>

Nobody == 0
Default == 0   \* no conversationId

\* Prompts matter for the fingerprint of a key.
Bodies == {b \in [key : Keys \cup {NoKey}, prompt : Prompts, conversation : {Default} \cup Calls] :
             b.key = NoKey => b.prompt = Min(Prompts)}

NoCall == [pc |-> "none", found |-> Nobody, sequence |-> 0,
           body |-> [key |-> NoKey, prompt |-> 0, conversation |-> Default],
           conversation |-> Nobody, seq |-> 0, reply |-> "none", retry |-> FALSE]

Init ==
  /\ call = [c \in Calls |-> NoCall]
  /\ row = [c \in Calls |-> "absent"]
  /\ conversations = {}
  /\ messages = {}
  /\ holder = Nobody
  /\ queue = {}
  /\ faults = 0

At(c, point) == call[c].pc = point
InTransaction == {c \in Calls : call[c].pc \in {"conversation", "run", "order", "commit"}}
ConnectionFree == Cardinality(InTransaction) < PoolMax

\* c without what only its transaction needed.
Reply(c, reply) ==
  call' = [call EXCEPT ![c].pc = "done", ![c].reply = reply, ![c].conversation = Nobody,
                       ![c].seq = 0, ![c].sequence = 0]

Release(c) == holder' = IF holder = c THEN Nobody ELSE holder

\* getRunByIdempotencyKey.
WithKey(key) == {c \in Calls : key # NoKey /\ row[c] # "absent" /\ call[c].body.key = key}

\* What buildRunIdempotencyFingerprint hashes.
Fingerprint(c) == <<call[c].body.prompt, call[c].body.conversation>>

\* countQueued; and the selection of RunQueue, which starts one run of a
\* workspace at a time, the oldest first.
Queued == {c \in queue : row[c] = "queued"}
CanStartNewRun == queue = {}

-----------------------------------------------------------------------------
(* What a call may wait for *)

\* A statement outside a transaction takes a connection of its own.
WaitsForConnection(c) ==
  /\ \/ call[c].pc \in {"lookup", "refused", "connect"}
     \/ At(c, "replay") /\ Fingerprint(call[c].found) = Fingerprint(c)
  /\ ~ConnectionFree

\* Mutant: the lock is taken on another connection of the pool.
WaitsForLockOnThePool(c) ==
  /\ At(c, "conversation") /\ call[c].body.conversation = Default
  /\ holder # Nobody \/ ~ConnectionFree

\* pg_advisory_xact_lock, on the connection of the transaction.
WaitsForLock(c) ==
  At(c, "conversation") /\ call[c].body.conversation = Default /\ holder # Nobody

\* Open transactions that have inserted a run with the key of c.
Ahead(c) == {d \in Calls \ {c} : /\ call[d].pc \in {"order", "commit"}
                                 /\ call[d].body.key = call[c].body.key
                                 /\ call[d].body.key # NoKey}

\* The unique index makes the insert wait for a transaction that is ahead.
WaitsForKey(c) == At(c, "run") /\ Ahead(c) # {}

-----------------------------------------------------------------------------
(* The call *)

\* A call, or a retry of one: it names the conversation an answer has named,
\* or none.
Receive(c) ==
  /\ At(c, "none") /\ \A d \in 1..(c - 1) : ~At(d, "none")
  /\ \E body \in Bodies :
       /\ body.conversation \in {Default} \cup conversations
       /\ call' = [call EXCEPT ![c].body = body,
                               ![c].pc = IF body.key = NoKey THEN "admit" ELSE "lookup",
                               ![c].retry = WithKey(body.key) # {}]
  /\ UNCHANGED <<db, holder, queue, faults>>

\* A request that is malformed, or asks for what its client may not have.
Refuse(c) ==
  /\ At(c, "none") /\ \A d \in 1..(c - 1) : ~At(d, "none")
  /\ SomeRequestIsRefused
  /\ Reply(c, "rejected")
  /\ UNCHANGED <<db, holder, queue, faults>>

\* Before the insert, and again after the index has refused it.
Lookup(c) ==
  /\ call[c].pc \in {"lookup", "refused"} /\ ~WaitsForConnection(c)
  /\ LET existing == WithKey(call[c].body.key) IN
     \/ /\ existing # {}
        /\ \E run \in existing : call' = [call EXCEPT ![c].found = run, ![c].pc = "replay"]
     \/ /\ existing = {} /\ At(c, "lookup")
        /\ call' = [call EXCEPT ![c].pc = "admit"]
     \/ /\ existing = {} /\ At(c, "refused")
        /\ Reply(c, "error")
  /\ UNCHANGED <<db, holder, queue, faults>>

ReplayIdempotentRun(c) ==
  /\ At(c, "replay")
  /\ \/ Fingerprint(call[c].found) # Fingerprint(c) /\ Reply(c, "conflict")
     \/ /\ Fingerprint(call[c].found) = Fingerprint(c) /\ ~WaitsForConnection(c)
        /\ Reply(c, "replay")
  /\ UNCHANGED <<db, holder, queue, faults>>

\* The name of the host of its webhook is looked up: only a call whose key has no
\* run is refused for its URL.
RefuseWebhook(c) ==
  /\ At(c, "admit")
  /\ SomeWebhookIsRefused
  /\ Reply(c, "webhook")
  /\ UNCHANGED <<db, holder, queue, faults>>

\* The sequence number is taken, and the room in the queue looked at.  Calls
\* that have passed here and are not yet in the queue are not counted.
Admit(c) ==
  /\ At(c, "admit")
  /\ \/ ~CanStartNewRun /\ Cardinality(Queued) >= MaxQueueSize /\ Reply(c, "full")
     \/ /\ CanStartNewRun \/ Cardinality(Queued) < MaxQueueSize
        /\ call' = [call EXCEPT
             ![c].pc = "connect",
             ![c].sequence = 1 + Max({0} \cup {call[d].sequence : d \in Calls})]
  /\ UNCHANGED <<db, holder, queue, faults>>

-----------------------------------------------------------------------------
(* The transaction *)

Begin(c) ==
  /\ At(c, "connect") /\ ~WaitsForConnection(c)
  /\ call' = [call EXCEPT ![c].pc = "conversation"]
  /\ UNCHANGED <<db, holder, queue, faults>>

\* Mutant: the default conversation is looked for without the lock.
ConversationUnlocked(c) ==
  /\ At(c, "conversation")
  /\ \E v \in IF call[c].body.conversation # Default THEN {call[c].body.conversation}
              ELSE IF conversations # {} THEN conversations ELSE {c} :
       call' = [call EXCEPT ![c].conversation = v, ![c].pc = "run"]
  /\ UNCHANGED <<db, holder, queue, faults>>

\* Mutant: a transaction of its own, on another connection.
ConversationOnThePool(c) ==
  /\ At(c, "conversation")
  /\ \/ /\ call[c].body.conversation # Default
        /\ call' = [call EXCEPT ![c].conversation = call[c].body.conversation, ![c].pc = "run"]
        /\ UNCHANGED holder
     \/ /\ call[c].body.conversation = Default /\ ConnectionFree
        /\ holder \in {Nobody, c}
        /\ \E v \in IF conversations # {} THEN conversations ELSE {c} :
             call' = [call EXCEPT ![c].conversation = v, ![c].pc = "run"]
        /\ holder' = c
  /\ UNCHANGED <<db, queue, faults>>

\* getOrCreateDefaultConversation waits for the lock, which the transaction
\* then keeps to its end; a conversation that was named is just read.
Conversation(c) ==
  /\ At(c, "conversation")
  /\ \/ /\ call[c].body.conversation # Default
        /\ call' = [call EXCEPT ![c].conversation = call[c].body.conversation, ![c].pc = "run"]
        /\ UNCHANGED holder
     \/ /\ call[c].body.conversation = Default /\ ~WaitsForLock(c)
        /\ \E v \in IF conversations # {} THEN conversations ELSE {c} :
             call' = [call EXCEPT ![c].conversation = v, ![c].pc = "run"]
        /\ holder' = c
  /\ UNCHANGED <<db, queue, faults>>

\* Mutant: nothing refuses a second run.
InsertRunUnindexed(c) ==
  /\ At(c, "run")
  /\ call' = [call EXCEPT ![c].pc = "order"]
  /\ UNCHANGED <<db, holder, queue, faults>>

\* The unique index refuses a key that is taken: the transaction is rolled back.
InsertRun(c) ==
  /\ At(c, "run") /\ ~WaitsForKey(c)
  /\ \/ /\ WithKey(call[c].body.key) = {}
        /\ call' = [call EXCEPT ![c].pc = "order"]
        /\ UNCHANGED holder
     \/ /\ WithKey(call[c].body.key) # {}
        /\ call' = [call EXCEPT ![c].pc = "refused", ![c].conversation = Nobody]
        /\ Release(c)
  /\ UNCHANGED <<db, queue, faults>>

\* Greatest conversation_seq committed in the conversation.
LastSeq(v) == Max({0} \cup {m.seq : m \in {n \in messages : n.conversation = v}})

NextConversationSeq(c) ==
  /\ At(c, "order")
  /\ call' = [call EXCEPT ![c].seq = LastSeq(call[c].conversation) + 1, ![c].pc = "commit"]
  /\ UNCHANGED <<db, holder, queue, faults>>

Message(run, role, conversation, seq) ==
  [run |-> run, role |-> role, conversation |-> conversation, seq |-> seq]

\* The prompt and an empty answer; the snapshots; COMMIT.
Commit(c) ==
  /\ At(c, "commit")
  /\ row' = [row EXCEPT ![c] = "queued"]
  /\ conversations' = conversations \cup {call[c].conversation}
  /\ LET v == call[c].conversation
         n == call[c].seq
     IN messages' = messages \cup {Message(c, "user", v, n),
                                   Message(c, "assistant", v, n + 1)}
  /\ call' = [call EXCEPT ![c].pc = "publish"]
  /\ Release(c)
  /\ UNCHANGED <<queue, faults>>

\* A statement fails otherwise: everything is undone.
StatementFails(c) ==
  /\ faults < MaxFaults
  /\ c \in InTransaction
  /\ faults' = faults + 1
  /\ Reply(c, "error")
  /\ Release(c)
  /\ UNCHANGED <<db, queue>>

\* Only now is the run one of the queue.
Publish(c) ==
  /\ At(c, "publish")
  /\ queue' = queue \cup {c}
  /\ call' = [call EXCEPT ![c].pc = "done", ![c].reply = "created"]
  /\ UNCHANGED <<db, holder, faults>>

-----------------------------------------------------------------------------
(* The run *)

First(S) == CHOOSE c \in S : \A d \in S : call[c].sequence <= call[d].sequence

\* dispatch starts the oldest run once no other is busy.
Start ==
  /\ queue # {} /\ queue = Queued
  /\ row' = [row EXCEPT ![First(queue)] = "running"]
  /\ UNCHANGED <<call, conversations, messages, holder, queue, faults>>

End(c) ==
  /\ row[c] = "running"
  /\ row' = [row EXCEPT ![c] = "ended"]
  /\ queue' = queue \ {c}
  /\ call' = [call EXCEPT ![c].sequence = 0]
  /\ UNCHANGED <<conversations, messages, holder, faults>>

\* The daemon dies and starts again: open transactions are undone, nobody is
\* answered, and the runs that were under way are ended.
Crash ==
  /\ faults < MaxFaults
  /\ faults' = faults + 1
  /\ call' = [c \in Calls |->
       IF call[c].pc \in {"none", "done"} THEN [call[c] EXCEPT !.sequence = 0]
       ELSE [call[c] EXCEPT !.pc = "done", !.reply = "lost", !.sequence = 0,
                            !.conversation = Nobody, !.seq = 0]]
  /\ row' = [c \in Calls |-> IF row[c] = "absent" THEN "absent" ELSE "ended"]
  /\ holder' = Nobody
  /\ queue' = {}
  /\ UNCHANGED <<conversations, messages>>

CallStep(c) ==
  \/ Lookup(c) \/ ReplayIdempotentRun(c) \/ RefuseWebhook(c) \/ Admit(c) \/ Begin(c) \/ Conversation(c)
  \/ InsertRun(c) \/ NextConversationSeq(c) \/ Commit(c) \/ Publish(c)

Next ==
  \/ \E c \in Calls : Refuse(c) \/ Receive(c) \/ CallStep(c) \/ StatementFails(c) \/ End(c)
  \/ Start
  \/ Crash

Spec == Init /\ [][Next]_vars

-----------------------------------------------------------------------------
(* What of its conversation a daemon-composed prompt holds *)

AnswerLength == 2
Length(m) ==
  CASE m.role = "user" -> call[m.run].body.prompt
    [] m.role = "assistant" -> IF row[m.run] = "ended" THEN AnswerLength ELSE 0

\* By conversation_seq; ties are broken by time and id.
Earlier(m, n) ==
  \/ m.seq < n.seq
  \/ m.seq = n.seq /\ m.run < n.run

History(c) ==
  LET v == (CHOOSE m \in messages : m.run = c).conversation
      others == {m \in messages : m.conversation = v /\ m.run # c /\ Length(m) > 0}
      n == Cardinality(others)
  IN CHOOSE history \in [1..n -> others] :
       /\ \A m \in others : \E i \in 1..n : history[i] = m
       /\ \A i, j \in 1..n : i < j => ~Earlier(history[j], history[i])

Newest(s, n) == SubSeq(s, Max({1, Len(s) - n + 1}), Len(s))

\* listConversationMessagesForPrompt.
ListConversationMessages(c, limit) == IF limit <= 0 THEN <<>> ELSE Newest(History(c), limit)

\* A message that is cut has an ellipsis of three.
Limited(length, maxMessageChars) ==
  IF length <= maxMessageChars THEN length ELSE maxMessageChars + 3

\* Mutant: what does not fit is passed over.
KeepNewestThatFit(s, maxTotalChars) ==
  FoldRight(LAMBDA m, kept : IF kept.s = <<>> \/ kept.total + m <= maxTotalChars
                             THEN [kept EXCEPT !.s = <<m>> \o @, !.total = @ + m]
                             ELSE kept,
            s, [s |-> <<>>, total |-> 0]).s

\* From the newest back, until one does not fit; the newest is always kept.
\* kept[k]: what the loop has kept of the newest k.
KeepNewestWithinTotal(s, maxTotalChars) ==
  LET kept[k \in 0..Len(s)] ==
        IF k = 0 THEN [count |-> 0, total |-> 0, full |-> FALSE]
        ELSE LET total == kept[k - 1].total + s[Len(s) - k + 1] IN
             IF kept[k - 1].full \/ (kept[k - 1].count > 0 /\ total > maxTotalChars)
             THEN [kept[k - 1] EXCEPT !.full = TRUE]
             ELSE [count |-> k, total |-> total, full |-> FALSE]
  IN Newest(s, kept[Len(s)].count)

\* What the messages contribute.
Sizes(s, policy) == [i \in DOMAIN s |-> Limited(Length(s[i]), policy.maxMessageChars)]

\* buildConversationPromptContext: the lengths of the messages it returns.
PromptContext(c, policy) ==
  LET recent == Newest(ListConversationMessages(c, policy.recentMessages), policy.recentMessages)
  IN KeepNewestWithinTotal(Sizes(recent, policy), policy.maxTotalChars)

-----------------------------------------------------------------------------
(* A key names one run: no two are ever stored for it, and a call that is   *)
(* told of one, or that its key is taken, is told what its body deserves:   *)
(* a retry with the same parameters is given that run, whether it came      *)
(* after the first, during it or after a crash.  A retry that comes when    *)
(* the key has its run is never told that the queue is full or its webhook  *)
(* is not allowed.                                                          *)
KeyNamesOneRun ==
  \A c \in Calls :
    /\ Cardinality(WithKey(call[c].body.key)) <= 1
    /\ call[c].reply \in {"replay", "conflict"} =>
         \E run \in WithKey(call[c].body.key) \ {c} :
           call[c].reply = "replay" <=> Fingerprint(run) = Fingerprint(c)
    /\ call[c].retry => call[c].reply \notin {"full", "webhook", "created"}

(* The workspace has one default conversation, and calls that do not name   *)
(* it are put into it one after the other.                                  *)
DefaultTurnsInOrder ==
  /\ Cardinality(conversations) <= 1
  /\ \A m, n \in messages :
       (/\ m.role = "user" /\ n.role = "user" /\ m.run # n.run
        /\ call[m.run].body.conversation = Default
        /\ call[n.run].body.conversation = Default) => m.seq # n.seq

Policies == [recentMessages : {0, 2, 9}, maxMessageChars : {1, 9}, maxTotalChars : {5}]

TotalOfNewest(s) ==
  LET total[k \in 0..Len(s)] == IF k = 0 THEN 0 ELSE total[k - 1] + s[Len(s) - k + 1]
  IN total

(* The context of a prompt is the end of the conversation as it stands,     *)
(* without gaps: as much of it as the limits allow, and at least its last   *)
(* message.                                                                 *)
HoldsNewestPart(c, policy) ==
  LET history == History(c)
      total == TotalOfNewest(Sizes(history, policy))
      fits == {k \in 0..Len(history) : /\ k <= policy.recentMessages
                                       /\ k > 1 => total[k] <= policy.maxTotalChars}
  IN PromptContext(c, policy) = Sizes(Newest(history, Max(fits)), policy)

ContextIsNewestPart ==
  \A c \in Calls : row[c] = "queued" => \A policy \in Policies : HoldsNewestPart(c, policy)

(* Every call can be answered: as long as one is under way one of them is   *)
(* not waiting.  The lock, the index and the pool never wait for one another *)
(* in a circle, however small the pool is.                                   *)
UnderWay == {c \in Calls : call[c].pc \notin {"none", "done"}}
Waits(c) == WaitsForConnection(c) \/ WaitsForLock(c) \/ WaitsForKey(c)
NoCircularWait == UnderWay # {} => \E c \in UnderWay : ~Waits(c)

(* And a call that is not waiting for one of them can go on: createRun waits *)
(* for nothing else.                                                         *)
NothingElseIsAwaited == \A c \in UnderWay : ~Waits(c) => ENABLED CallStep(c)
=============================================================================
