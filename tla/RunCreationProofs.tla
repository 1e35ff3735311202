-------------------------- MODULE RunCreationProofs --------------------------
(***************************************************************************)
(* Proofs about RunCreation, for any calls, keys, prompts and pool: that a *)
(* key names one run, that the calls of the default conversation take      *)
(* their turns and do not wait in a circle, and what the context of a      *)
(* prompt holds.                                                           *)
(***************************************************************************)
EXTENDS RunCreation, FiniteSetTheorems, WellFoundedInduction, TLAPS

-----------------------------------------------------------------------------
(* Numbers. *)

(* Among finitely many things one has the largest number. *)
LEMMA LastOfAll ==
  ASSUME NEW S, IsFiniteSet(S), S # {},
         NEW number, \A s \in S : number[s] \in Nat
  PROVE  \E m \in S : \A s \in S : number[s] <= number[m]
<1> DEFINE After(m) == {s \in S : number[m] < number[s]}
           Family == {After(m) : m \in S}
<1>1. Family \subseteq FiniteSubsetsOf(S)
  <2> SUFFICES ASSUME NEW m \in S PROVE After(m) \in FiniteSubsetsOf(S)
    OBVIOUS
  <2>1. IsFiniteSet(After(m))
    BY FS_Subset
  <2> QED
    BY <2>1 DEF FiniteSubsetsOf
<1>2. PICK A \in Family : \A B \in Family : <<B, A>> \notin StrictSubsetOrdering(S)
  <2>1. Family # {}
    OBVIOUS
  <2> HIDE DEF Family
  <2> QED
    BY <1>1, <2>1, FS_StrictSubsetOrderingWellFounded, WFMin
<1>3. PICK m \in S : A = After(m)
  OBVIOUS
<1>4. ASSUME NEW t \in S, number[m] < number[t] PROVE FALSE
  <2>1. After(t) \subseteq After(m) /\ t \in After(m) /\ t \notin After(t)
    BY <1>4
  <2>2. <<After(t), After(m)>> \in StrictSubsetOrdering(S)
    BY <2>1 DEF StrictSubsetOrdering
  <2> QED
    BY <1>2, <1>3, <2>2
<1> QED
  BY <1>4

(* And some have the least number. *)
LEMMA FirstOfAll ==
  ASSUME NEW S, S # {}, NEW number, \A s \in S : number[s] \in Nat
  PROVE  \E m \in S : \A s \in S : number[m] <= number[s]
<1> DEFINE T == {number[s] : s \in S}
<1>1. T \subseteq Nat /\ T # {}
  OBVIOUS
<1> HIDE DEF T
<1>2. PICK n \in T : \A t \in T : <<t, n>> \notin OpToRel(<, Nat)
  BY <1>1, WFMin, NatLessThanWellFounded, Zenon
<1>3. \A t \in T : ~(t < n)
  BY <1>1, <1>2, Zenon DEF OpToRel
<1>4. \A t \in T : n <= t
  BY <1>1, <1>3
<1> QED
  BY <1>4 DEF T

LEMMA MaxIsLast ==
  ASSUME NEW S \in SUBSET Nat, NEW m \in S, \A s \in S : s <= m
  PROVE  Max(S) \in S /\ \A s \in S : s <= Max(S)
<1>1. m \in S /\ \A s \in S : m >= s
  OBVIOUS
<1>2. Max(S) \in S /\ \A s \in S : Max(S) >= s
  BY <1>1 DEF Max
<1> QED
  BY <1>2

-----------------------------------------------------------------------------
(* The invariant. *)

Points == {"none", "lookup", "refused", "replay", "admit", "connect", "conversation", "run",
           "order", "commit", "publish", "done"}
Replies == {"none", "rejected", "replay", "conflict", "webhook", "full", "created", "error",
            "lost"}
Body == [key : Keys \cup {NoKey}, prompt : Nat, conversation : {Default} \cup Calls]
CallRecord ==
  [pc : Points, found : {Nobody} \cup Calls, sequence : Nat, body : Body,
   conversation : {Nobody} \cup Calls, seq : Nat, reply : Replies, retry : BOOLEAN]

Stored(c) == row[c] # "absent"
(* A call that will make its run, and one that has it, or has inserted it. *)
Inserting(c) == call[c].pc \in {"run", "order", "commit"}
HoldsKey(c) == Stored(c) \/ call[c].pc \in {"order", "commit"}
SameKey(c, d) == call[c].body.key = call[d].body.key /\ call[c].body.key # NoKey
ForDefault(c) == call[c].body.conversation = Default

Typed ==
  /\ call \in [Calls -> CallRecord]
  /\ row \in [Calls -> {"absent", "queued", "running", "ended"}]
  /\ conversations \subseteq Calls
  /\ holder \in {Nobody} \cup Calls
  /\ IsFiniteSet(messages)
  /\ \A m \in messages :
       /\ m.run \in Calls /\ Stored(m.run)
       /\ m.conversation \in conversations /\ m.seq \in Nat
  /\ queue \subseteq {c \in Calls : Stored(c)}

(* Rows are those of transactions that have been committed. *)
RowsCommitted ==
  \A c \in Calls :
    /\ Stored(c) => call[c].pc \in {"publish", "done"}
    /\ call[c].pc = "publish" => Stored(c)

(* No two of them have a key, counting those that only have to commit. *)
KeysTaken == \A c, d \in Calls : HoldsKey(c) /\ HoldsKey(d) /\ SameKey(c, d) => c = d

(* What a call is told of a run is true of a run that is stored. *)
Replays ==
  \A c \in Calls :
    /\ call[c].pc = "replay" =>
         call[c].found \in Calls /\ Stored(call[c].found) /\ SameKey(call[c].found, c)
    /\ call[c].pc # "done" => call[c].reply = "none"
    /\ call[c].reply \in {"replay", "conflict"} =>
         \E run \in Calls \ {c} :
           /\ Stored(run) /\ SameKey(run, c)
           /\ call[c].reply = "replay" <=> Fingerprint(run) = Fingerprint(c)

(* A retry has its run, and goes no way but to it. *)
Retries ==
  \A c \in Calls : call[c].retry =>
    /\ call[c].pc \in {"lookup", "replay", "done"}
    /\ \E run \in Calls : Stored(run) /\ SameKey(run, c)
    /\ call[c].reply \notin {"full", "webhook", "created"}

(* Who makes a run in the default conversation has the lock. *)
LockHeld == \A c \in Calls : Inserting(c) /\ ForDefault(c) => holder = c

(* There is one conversation; the first call of it makes it under the lock. *)
OneConversation ==
  /\ \A u, v \in conversations : u = v
  /\ \A c \in Calls :
       /\ call[c].body.conversation \in {Default} \cup conversations
       /\ Inserting(c) =>
            \/ call[c].conversation \in conversations
            \/ conversations = {} /\ call[c].conversation = c /\ ForDefault(c)

(* The number under which a message of it will be stored is beyond the last. *)
Beyond(n) == \A m \in messages : m.role = "user" /\ ForDefault(m.run) => m.seq < n
NumbersGrow ==
  /\ \A c \in Calls : call[c].pc = "commit" /\ ForDefault(c) => Beyond(call[c].seq)
  /\ \A m, n \in messages :
       (/\ m.role = "user" /\ n.role = "user" /\ m.run # n.run
        /\ ForDefault(m.run) /\ ForDefault(n.run)) => m.seq # n.seq

IInv ==
  /\ Typed /\ RowsCommitted /\ KeysTaken /\ Replays /\ Retries
  /\ LockHeld /\ OneConversation /\ NumbersGrow

LEMMA InitHolds == Init => IInv
<1> SUFFICES ASSUME Init PROVE IInv
  OBVIOUS
<1>1. NoCall \in CallRecord
  BY RunCreationAssumption
     DEF NoCall, CallRecord, Points, Replies, Body, Nobody, Default
<1>2. /\ NoCall.pc = "none" /\ NoCall.reply = "none" /\ ~NoCall.retry
      /\ NoCall.body.conversation = Default
  BY DEF NoCall
<1>3. /\ call = [c \in Calls |-> NoCall] /\ row = [c \in Calls |-> "absent"]
      /\ conversations = {} /\ messages = {} /\ holder = Nobody /\ queue = {}
  BY DEF Init
<1>4. \A c \in Calls : call[c] = NoCall /\ ~Stored(c)
  BY <1>3 DEF Stored
<1>5. Typed
  BY <1>1, <1>3, FS_EmptySet DEF Typed
<1>6. RowsCommitted /\ KeysTaken /\ LockHeld /\ OneConversation
  BY <1>2, <1>3, <1>4
     DEF RowsCommitted, KeysTaken, HoldsKey, LockHeld, Inserting, OneConversation
<1>7. Replays /\ Retries /\ NumbersGrow
  BY <1>2, <1>3, <1>4 DEF Replays, Retries, NumbersGrow
<1> QED
  BY <1>5, <1>6, <1>7 DEF IInv

-----------------------------------------------------------------------------
(* A call that leaves the database and the queue alone. *)

Moves(c) ==
  /\ UNCHANGED <<row, conversations, messages, queue>>
  /\ ~Stored(c)
  /\ \A d \in Calls : d # c => call'[d] = call[d]
  /\ call' \in [Calls -> CallRecord]
  /\ holder' \in {Nobody} \cup Calls
  /\ holder' = holder \/ holder \in {Nobody, c}

(* The call c as r: what it holds and is told, and what it will store. *)
KeySound(c, r) ==
  /\ r.pc # "publish"
  /\ r.pc \in {"order", "commit"} =>
       \A d \in Calls \ {c} :
         HoldsKey(d) => r.body.key = NoKey \/ call[d].body.key # r.body.key
  /\ r.pc = "replay" => /\ r.found \in Calls \ {c} /\ Stored(r.found)
                        /\ r.body.key # NoKey /\ call[r.found].body.key = r.body.key
  /\ r.pc # "done" => r.reply = "none"
  /\ r.reply \in {"replay", "conflict"} =>
       \E run \in Calls \ {c} :
         /\ Stored(run) /\ r.body.key # NoKey /\ call[run].body.key = r.body.key
         /\ r.reply = "replay" <=> Fingerprint(run) = <<r.body.prompt, r.body.conversation>>
  /\ r.retry =>
       /\ r.pc \in {"lookup", "replay", "done"}
       /\ r.reply \notin {"full", "webhook", "created"}
       /\ \E run \in Calls \ {c} :
            Stored(run) /\ r.body.key # NoKey /\ call[run].body.key = r.body.key

PlaceSound(c, r, lock) ==
  LET inserting == r.pc \in {"run", "order", "commit"}
      default == r.body.conversation = Default
  IN /\ inserting /\ default => lock = c
     /\ r.body.conversation \in {Default} \cup conversations
     /\ inserting => \/ r.conversation \in conversations
                     \/ conversations = {} /\ r.conversation = c /\ default
     /\ r.pc = "commit" /\ default => Beyond(r.seq)

LEMMA CallMoves ==
  ASSUME IInv, NEW c \in Calls, Moves(c), KeySound(c, call'[c]), PlaceSound(c, call'[c], holder')
  PROVE  IInv'
<1> DEFINE r == call'[c]
<1>1. /\ \A d \in Calls : Stored(d)' <=> Stored(d)
      /\ \A d \in Calls : Stored(d) => d # c /\ call'[d] = call[d]
      /\ \A d \in Calls : d # c => call'[d] = call[d]
  BY DEF Moves, Stored
<1>2. Typed'
  <2>1. \A m \in messages' : /\ m.run \in Calls /\ row'[m.run] # "absent"
                             /\ m.conversation \in conversations' /\ m.seq \in Nat
    BY DEF Moves, IInv, Typed, Stored
  <2>2. queue' \subseteq {d \in Calls : row'[d] # "absent"}
    BY DEF Moves, IInv, Typed, Stored
  <2> QED
    BY <2>1, <2>2 DEF Moves, IInv, Typed, Stored
<1>3. RowsCommitted'
  BY <1>1 DEF IInv, RowsCommitted, KeySound
<1>4. KeysTaken'
  <2>1. \A d \in Calls \ {c} : HoldsKey(d)' <=> HoldsKey(d)
    BY <1>1 DEF HoldsKey
  <2>2. HoldsKey(c)' <=> r.pc \in {"order", "commit"}
    BY <1>1 DEF HoldsKey, Moves
  <2>3. \A d, e \in Calls \ {c} : HoldsKey(d)' /\ HoldsKey(e)' /\ SameKey(d, e)' => d = e
    BY <1>1, <2>1 DEF IInv, KeysTaken, SameKey
  <2>4. \A d \in Calls \ {c} : HoldsKey(d)' /\ HoldsKey(c)' =>
          ~SameKey(d, c)' /\ ~SameKey(c, d)'
    BY <1>1, <2>1, <2>2 DEF KeySound, SameKey
  <2> QED
    BY <2>3, <2>4 DEF KeysTaken
<1>5. Replays'
  <2>1. ASSUME NEW d \in Calls, call'[d].pc = "replay"
        PROVE  /\ call'[d].found \in Calls /\ row'[call'[d].found] # "absent"
               /\ call'[call'[d].found].body.key = call'[d].body.key
               /\ call'[call'[d].found].body.key # NoKey
    <3>1. CASE d = c
      BY <1>1, <2>1, <3>1 DEF KeySound, Moves, Stored
    <3>2. CASE d # c
      <4>1. call'[d] = call[d] /\ call[d].found \in Calls /\ Stored(call[d].found)
        BY <1>1, <2>1, <3>2 DEF IInv, Replays
      <4>2. SameKey(call[d].found, d)
        BY <2>1, <4>1 DEF IInv, Replays
      <4>3. call'[call[d].found] = call[call[d].found]
        BY <1>1, <4>1
      <4> QED
        BY <4>1, <4>2, <4>3 DEF SameKey, Moves, Stored
    <3> QED
      BY <3>1, <3>2
  <2>2. \A d \in Calls : call'[d].pc # "done" => call'[d].reply = "none"
    BY <1>1 DEF KeySound, IInv, Replays
  <2>3. ASSUME NEW d \in Calls, call'[d].reply \in {"replay", "conflict"}
        PROVE  \E run \in Calls \ {d} :
                 /\ Stored(run)' /\ SameKey(run, d)'
                 /\ call'[d].reply = "replay" <=> Fingerprint(run)' = Fingerprint(d)'
    <3>1. CASE d = c
      <4>1. PICK run \in Calls \ {c} :
              /\ Stored(run) /\ r.body.key # NoKey /\ call[run].body.key = r.body.key
              /\ r.reply = "replay" <=> Fingerprint(run) = <<r.body.prompt, r.body.conversation>>
        BY <2>3, <3>1 DEF KeySound
      <4>2. call'[run] = call[run] /\ Stored(run)'
        BY <1>1, <4>1
      <4> QED
        BY <3>1, <4>1, <4>2 DEF SameKey, Fingerprint
    <3>2. CASE d # c
      <4>1. call'[d] = call[d]
        BY <1>1, <3>2
      <4>2. PICK run \in Calls \ {d} :
              /\ Stored(run) /\ SameKey(run, d)
              /\ call[d].reply = "replay" <=> Fingerprint(run) = Fingerprint(d)
        BY <2>3, <4>1 DEF IInv, Replays
      <4>3. call'[run] = call[run] /\ Stored(run)'
        BY <1>1, <4>2
      <4> QED
        BY <4>1, <4>2, <4>3 DEF SameKey, Fingerprint
    <3> QED
      BY <3>1, <3>2
  <2> QED
    BY <2>1, <2>2, <2>3 DEF Replays, Stored, SameKey
<1>6. Retries'
  <2>1. ASSUME NEW d \in Calls, call'[d].retry
        PROVE  /\ call'[d].pc \in {"lookup", "replay", "done"}
               /\ \E run \in Calls : Stored(run)' /\ SameKey(run, d)'
               /\ call'[d].reply \notin {"full", "webhook", "created"}
    <3>1. CASE d = c
      BY <1>1, <2>1, <3>1 DEF KeySound, SameKey
    <3>2. CASE d # c
      BY <1>1, <2>1, <3>2 DEF IInv, Retries, SameKey
    <3> QED
      BY <3>1, <3>2
  <2> QED
    BY <2>1 DEF Retries
<1>7. LockHeld'
  BY <1>1, RunCreationAssumption DEF Moves, PlaceSound, IInv, LockHeld, Inserting, ForDefault, Nobody
<1>8. OneConversation'
  BY <1>1 DEF Moves, PlaceSound, IInv, OneConversation, Inserting, ForDefault
<1>9. NumbersGrow'
  <2>1. \A m \in messages : m.run \in Calls /\ call'[m.run] = call[m.run]
    BY <1>1 DEF IInv, Typed
  <2>2. \A m \in messages : ForDefault(m.run)' <=> ForDefault(m.run)
    BY <2>1 DEF ForDefault
  <2>3. \A n : Beyond(n) => \A m \in messages' : m.role = "user" /\ ForDefault(m.run)' => m.seq < n
    BY <2>2 DEF Beyond, Moves
  <2>4. ASSUME NEW d \in Calls, call'[d].pc = "commit", ForDefault(d)'
        PROVE  \A m \in messages' : m.role = "user" /\ ForDefault(m.run)' => m.seq < call'[d].seq
    <3>1. CASE d = c
      BY <2>3, <2>4, <3>1 DEF PlaceSound, ForDefault
    <3>2. CASE d # c
      <4>1. call'[d] = call[d]
        BY <1>1, <3>2
      <4> QED
        BY <2>3, <2>4, <4>1 DEF IInv, NumbersGrow, ForDefault
    <3> QED
      BY <3>1, <3>2
  <2>5. messages' = messages
    BY DEF Moves
  <2> QED
    BY <2>2, <2>4, <2>5 DEF IInv, NumbersGrow, Beyond
<1> QED
  BY <1>2, <1>3, <1>4, <1>5, <1>6, <1>7, <1>8, <1>9 DEF IInv

(* The fields of a call. *)
LEMMA CallFields ==
  ASSUME NEW r \in CallRecord
  PROVE  /\ r.pc \in Points /\ r.found \in {Nobody} \cup Calls /\ r.sequence \in Nat
         /\ r.body \in Body /\ r.conversation \in {Nobody} \cup Calls /\ r.seq \in Nat
         /\ r.reply \in Replies /\ r.retry \in BOOLEAN
  BY DEF CallRecord

LEMMA Replied ==
  ASSUME Typed, NEW c \in Calls, NEW reply \in Replies, Reply(c, reply)
  PROVE  /\ call' \in [Calls -> CallRecord]
         /\ \A d \in Calls : d # c => call'[d] = call[d]
         /\ call'[c].pc = "done" /\ call'[c].reply = reply
         /\ call'[c].body = call[c].body /\ call'[c].retry = call[c].retry
<1>1. call \in [Calls -> CallRecord] /\ call[c] \in CallRecord
  BY DEF Typed
<1> DEFINE r == [call[c] EXCEPT !.pc = "done", !.reply = reply, !.conversation = Nobody,
                                !.seq = 0, !.sequence = 0]
<1>2. call' = [call EXCEPT ![c] = r]
  BY <1>1 DEF Reply
<1>3. r \in CallRecord /\ r.pc = "done" /\ r.reply = reply /\ r.body = call[c].body
      /\ r.retry = call[c].retry
  BY <1>1 DEF CallRecord, Points
<1> QED
  BY <1>1, <1>2, <1>3

(* A call that has not been committed. *)
LEMMA NotStored ==
  ASSUME IInv, NEW c \in Calls, call[c].pc \notin {"publish", "done"}
  PROVE  /\ ~Stored(c) /\ call[c].reply = "none"
         /\ call[c].retry => \E run \in Calls \ {c} :
              Stored(run) /\ call[c].body.key # NoKey /\ call[run].body.key = call[c].body.key
         /\ call[c].body.conversation \in {Default} \cup conversations
         /\ call \in [Calls -> CallRecord] /\ call[c] \in CallRecord
         /\ holder \in {Nobody} \cup Calls
<1>1. ~Stored(c) /\ call[c].reply = "none"
  BY DEF IInv, RowsCommitted, Replays
<1>2. call[c].retry => \E run \in Calls : Stored(run) /\ SameKey(run, c)
  BY DEF IInv, Retries
<1> QED
  BY <1>1, <1>2 DEF IInv, SameKey, OneConversation, Typed

(* It is answered. *)
LEMMA Answered ==
  ASSUME IInv, NEW c \in Calls, call[c].pc \notin {"publish", "done"},
         UNCHANGED <<row, conversations, messages, queue>>,
         NEW reply \in Replies, Reply(c, reply),
         reply \in {"replay", "conflict"} =>
           \E run \in Calls \ {c} :
             /\ Stored(run) /\ SameKey(run, c)
             /\ reply = "replay" <=> Fingerprint(run) = Fingerprint(c),
         call[c].retry => reply \notin {"full", "webhook", "created"},
         UNCHANGED holder \/ Release(c)
  PROVE  IInv'
<1>1. /\ ~Stored(c)
      /\ call[c].retry => \E run \in Calls \ {c} :
           Stored(run) /\ call[c].body.key # NoKey /\ call[run].body.key = call[c].body.key
      /\ call[c].body.conversation \in {Default} \cup conversations
      /\ holder \in {Nobody} \cup Calls
  BY NotStored
<1>2. /\ call' \in [Calls -> CallRecord]
      /\ \A d \in Calls : d # c => call'[d] = call[d]
      /\ call'[c].pc = "done" /\ call'[c].reply = reply
      /\ call'[c].body = call[c].body /\ call'[c].retry = call[c].retry
  BY Replied DEF IInv
<1>3. Moves(c)
  BY <1>1, <1>2 DEF Moves, Release
<1>4. KeySound(c, call'[c])
  BY <1>1, <1>2 DEF KeySound, SameKey, Fingerprint
<1>5. PlaceSound(c, call'[c], holder')
  BY <1>1, <1>2 DEF PlaceSound
<1> QED
  BY <1>3, <1>4, <1>5, CallMoves

LEMMA Refuses ==
  ASSUME IInv, NEW c \in Calls, Refuse(c) \/ RefuseWebhook(c) \/ StatementFails(c) PROVE IInv'
<1>1. /\ call[c].pc \in {"none", "admit", "conversation", "run", "order", "commit"}
      /\ UNCHANGED <<row, conversations, messages, queue>> /\ (UNCHANGED holder \/ Release(c))
      /\ \E reply \in {"rejected", "webhook", "error"} : Reply(c, reply)
  <2>1. CASE Refuse(c)
    BY <2>1 DEF Refuse, db, At
  <2>2. CASE RefuseWebhook(c)
    BY <2>2 DEF RefuseWebhook, db, At
  <2>3. CASE StatementFails(c)
    BY <2>3 DEF StatementFails, db, InTransaction
  <2> QED
    BY <2>1, <2>2, <2>3
<1>2. ~call[c].retry
  BY <1>1 DEF IInv, Retries, Typed
<1>3. PICK reply \in {"rejected", "webhook", "error"} : Reply(c, reply)
  BY <1>1
<1>4. reply \in Replies /\ reply \notin {"replay", "conflict"}
  BY DEF Replies
<1> QED
  BY <1>1, <1>2, <1>3, <1>4, Answered

LEMMA Receives == ASSUME IInv, NEW c \in Calls, Receive(c) PROVE IInv'
<1>1. PICK body \in Bodies :
        /\ body.conversation \in {Default} \cup conversations
        /\ call' = [call EXCEPT ![c].body = body,
                                ![c].pc = IF body.key = NoKey THEN "admit" ELSE "lookup",
                                ![c].retry = WithKey(body.key) # {}]
  BY DEF Receive
<1>2. call[c].pc = "none" /\ UNCHANGED <<row, conversations, messages, queue, holder>>
  BY DEF Receive, At, db
<1> DEFINE r == [call[c] EXCEPT !.body = body,
                                !.pc = IF body.key = NoKey THEN "admit" ELSE "lookup",
                                !.retry = WithKey(body.key) # {}]
<1>3. /\ ~Stored(c) /\ call[c].reply = "none" /\ holder \in {Nobody} \cup Calls
      /\ call \in [Calls -> CallRecord] /\ call[c] \in CallRecord
  BY <1>2, NotStored
<1>4. body \in Body
  BY RunCreationAssumption DEF Bodies, Body
<1>5. r \in CallRecord
  BY <1>3, <1>4 DEF CallRecord, Points
<1>6. /\ r.body = body /\ r.reply = "none"
      /\ r.pc = IF body.key = NoKey THEN "admit" ELSE "lookup"
      /\ r.retry = (WithKey(body.key) # {})
  BY <1>3 DEF CallRecord
<1>7. call' = [call EXCEPT ![c] = r]
  BY <1>1, <1>3
<1> HIDE DEF r
<1>8. Moves(c) /\ call'[c] = r
  BY <1>2, <1>3, <1>5, <1>7 DEF Moves
<1>9. r.retry => r.pc = "lookup" /\ \E run \in Calls \ {c} :
        Stored(run) /\ body.key # NoKey /\ call[run].body.key = body.key
  BY <1>3, <1>6 DEF WithKey, Stored
<1>10. KeySound(c, r)
  BY <1>6, <1>9 DEF KeySound
<1>11. PlaceSound(c, r, holder')
  BY <1>1, <1>6 DEF PlaceSound
<1> QED
  BY <1>8, <1>10, <1>11, CallMoves

LEMMA LooksUp == ASSUME IInv, NEW c \in Calls, Lookup(c) PROVE IInv'
<1>1. call[c].pc \in {"lookup", "refused"} /\ UNCHANGED <<row, conversations, messages, queue, holder>>
  BY DEF Lookup, db
<1>2. /\ ~Stored(c) /\ call[c].reply = "none" /\ holder \in {Nobody} \cup Calls
      /\ call[c].body.conversation \in {Default} \cup conversations
      /\ call \in [Calls -> CallRecord] /\ call[c] \in CallRecord
      /\ call[c].retry => \E run \in Calls \ {c} :
           Stored(run) /\ call[c].body.key # NoKey /\ call[run].body.key = call[c].body.key
  BY <1>1, NotStored
<1>3. ASSUME NEW run \in WithKey(call[c].body.key),
             call' = [call EXCEPT ![c].found = run, ![c].pc = "replay"]
      PROVE  IInv'
  <2> DEFINE r == [call[c] EXCEPT !.found = run, !.pc = "replay"]
  <2>1. /\ run \in Calls \ {c} /\ Stored(run) /\ call[c].body.key # NoKey
        /\ call[run].body.key = call[c].body.key
    BY <1>2, <1>3 DEF WithKey, Stored
  <2>2. r \in CallRecord /\ call' = [call EXCEPT ![c] = r]
    BY <1>2, <1>3, <2>1 DEF CallRecord, Points
  <2>3. /\ r.pc = "replay" /\ r.found = run /\ r.body = call[c].body
        /\ r.reply = "none" /\ r.retry = call[c].retry
    BY <1>2 DEF CallRecord
  <2> HIDE DEF r
  <2>4. Moves(c) /\ call'[c] = r
    BY <1>1, <1>2, <2>2 DEF Moves
  <2>5. KeySound(c, r) /\ PlaceSound(c, r, holder')
    BY <1>2, <2>1, <2>3 DEF KeySound, PlaceSound
  <2> QED
    BY <2>4, <2>5, CallMoves
<1>4. ASSUME WithKey(call[c].body.key) = {}, call' = [call EXCEPT ![c].pc = "admit"]
      PROVE  IInv'
  <2> DEFINE r == [call[c] EXCEPT !.pc = "admit"]
  <2>1. ~call[c].retry
    BY <1>2, <1>4 DEF WithKey, Stored
  <2>2. r \in CallRecord /\ call' = [call EXCEPT ![c] = r]
    BY <1>2, <1>4 DEF CallRecord, Points
  <2>3. /\ r.pc = "admit" /\ r.body = call[c].body /\ r.reply = "none" /\ r.retry = call[c].retry
    BY <1>2 DEF CallRecord
  <2> HIDE DEF r
  <2>4. Moves(c) /\ call'[c] = r
    BY <1>1, <1>2, <2>2 DEF Moves
  <2>5. KeySound(c, r) /\ PlaceSound(c, r, holder')
    BY <1>2, <2>1, <2>3 DEF KeySound, PlaceSound
  <2> QED
    BY <2>4, <2>5, CallMoves
<1>5. ASSUME Reply(c, "error") PROVE IInv'
  BY <1>1, <1>5, Answered DEF Replies
<1> QED
  BY <1>3, <1>4, <1>5 DEF Lookup

LEMMA ReplaysRun == ASSUME IInv, NEW c \in Calls, ReplayIdempotentRun(c) PROVE IInv'
<1> DEFINE found == call[c].found
<1>1. call[c].pc = "replay" /\ UNCHANGED <<row, conversations, messages, queue, holder>>
  BY DEF ReplayIdempotentRun, At, db
<1>2. found \in Calls \ {c} /\ Stored(found) /\ SameKey(found, c)
  BY <1>1, NotStored DEF IInv, Replays
<1>3. CASE Fingerprint(found) # Fingerprint(c) /\ Reply(c, "conflict")
  BY <1>1, <1>2, <1>3, Answered DEF Replies
<1>4. CASE Fingerprint(found) = Fingerprint(c) /\ Reply(c, "replay")
  BY <1>1, <1>2, <1>4, Answered DEF Replies
<1> QED
  BY <1>3, <1>4 DEF ReplayIdempotentRun

(* It goes on with its request as it was. *)
LEMMA GoesOn ==
  ASSUME IInv, NEW c \in Calls, call[c].pc \notin {"publish", "done"}, ~call[c].retry,
         UNCHANGED <<row, conversations, messages, queue>>,
         NEW r \in CallRecord, call' = [call EXCEPT ![c] = r],
         r.body = call[c].body, r.reply = call[c].reply, r.retry = call[c].retry,
         r.pc \notin {"replay", "publish", "done"},
         r.pc \in {"order", "commit"} =>
           \A d \in Calls \ {c} : HoldsKey(d) => ~SameKey(c, d),
         holder' \in {Nobody} \cup Calls, holder' = holder \/ holder \in {Nobody, c},
         PlaceSound(c, r, holder')
  PROVE  IInv'
<1>1. /\ ~Stored(c) /\ call[c].reply = "none" /\ call \in [Calls -> CallRecord]
  BY NotStored
<1>2. Moves(c) /\ call'[c] = r
  BY <1>1 DEF Moves
<1>3. KeySound(c, r)
  BY <1>1 DEF KeySound, SameKey
<1> QED
  BY <1>2, <1>3, CallMoves

LEMMA Admits ==
  ASSUME IInv, NEW c \in Calls, Admit(c) \/ Begin(c)
  PROVE  IInv'
<1>1. call[c].pc \in {"admit", "connect"} /\ UNCHANGED <<row, conversations, messages, queue, holder>>
  BY DEF Admit, Begin, At, db
<1>2. /\ ~call[c].retry /\ call[c] \in CallRecord /\ call \in [Calls -> CallRecord]
      /\ call[c].body.conversation \in {Default} \cup conversations
      /\ holder \in {Nobody} \cup Calls
  BY <1>1, NotStored DEF IInv, Retries
<1>3. CASE Reply(c, "full")
  BY <1>1, <1>2, <1>3, Answered DEF Replies
<1>4. ASSUME NEW n \in Nat, call' = [call EXCEPT ![c].pc = "connect", ![c].sequence = n]
      PROVE  IInv'
  <2> DEFINE r == [call[c] EXCEPT !.pc = "connect", !.sequence = n]
  <2>1. r \in CallRecord /\ call' = [call EXCEPT ![c] = r]
    BY <1>2, <1>4 DEF CallRecord, Points
  <2>2. /\ r.pc = "connect" /\ r.body = call[c].body /\ r.reply = call[c].reply
        /\ r.retry = call[c].retry
    BY <1>2 DEF CallRecord
  <2> HIDE DEF r
  <2>3. PlaceSound(c, r, holder')
    BY <1>2, <2>2 DEF PlaceSound
  <2> QED
    BY <1>1, <1>2, <2>1, <2>2, <2>3, GoesOn
<1>5. ASSUME call' = [call EXCEPT ![c].pc = "conversation"] PROVE IInv'
  <2> DEFINE r == [call[c] EXCEPT !.pc = "conversation"]
  <2>1. r \in CallRecord /\ call' = [call EXCEPT ![c] = r]
    BY <1>2, <1>5 DEF CallRecord, Points
  <2>2. /\ r.pc = "conversation" /\ r.body = call[c].body /\ r.reply = call[c].reply
        /\ r.retry = call[c].retry
    BY <1>2 DEF CallRecord
  <2> HIDE DEF r
  <2>3. PlaceSound(c, r, holder')
    BY <1>2, <2>2 DEF PlaceSound
  <2> QED
    BY <1>1, <1>2, <2>1, <2>2, <2>3, GoesOn
<1>6. 1 + Max({0} \cup {call[d].sequence : d \in Calls}) \in Nat
  <2> DEFINE number == [d \in Calls |-> call[d].sequence]
             S == {0} \cup {call[d].sequence : d \in Calls}
  <2>1. \A d \in Calls : call[d].sequence \in Nat
    BY <1>2, CallFields
  <2>2. \A d \in Calls : number[d] = call[d].sequence /\ number[d] \in Nat
    BY <2>1
  <2> HIDE DEF number
  <2>3. PICK m \in Calls : \A d \in Calls : number[d] <= number[m]
    BY <2>2, LastOfAll, RunCreationAssumption
  <2>4. S \in SUBSET Nat /\ number[m] \in S /\ \A n \in S : n <= number[m]
    BY <2>1, <2>2, <2>3
  <2>5. Max(S) \in S
    <3> HIDE DEF S
    <3> QED
      BY <2>4, MaxIsLast
  <2> QED
    BY <2>4, <2>5
<1> QED
  BY <1>3, <1>4, <1>5, <1>6 DEF Admit, Begin

(* The conversation is named, or the default one under the lock. *)
LEMMA FindsConversation ==
  ASSUME IInv, NEW c \in Calls, Conversation(c)
  PROVE  IInv'
<1>1. call[c].pc = "conversation" /\ UNCHANGED <<row, conversations, messages, queue>>
  BY DEF Conversation, At, db
<1>2. /\ ~call[c].retry /\ call[c] \in CallRecord /\ call \in [Calls -> CallRecord]
      /\ call[c].body.conversation \in {Default} \cup conversations
      /\ holder \in {Nobody} \cup Calls /\ conversations \subseteq Calls
  BY <1>1, NotStored DEF IInv, Retries, Typed
<1>3. PICK v : /\ call' = [call EXCEPT ![c].conversation = v, ![c].pc = "run"]
               /\ \/ call[c].body.conversation # Default /\ v = call[c].body.conversation
                     /\ UNCHANGED holder
                  \/ /\ call[c].body.conversation = Default
                     /\ v \in IF conversations # {} THEN conversations ELSE {c}
                     /\ holder = Nobody /\ holder' = c
  BY DEF Conversation, WaitsForLock
<1> DEFINE r == [call[c] EXCEPT !.conversation = v, !.pc = "run"]
<1>4. v \in Calls /\ (v \in conversations \/ (conversations = {} /\ v = c
        /\ call[c].body.conversation = Default))
  BY <1>2, <1>3
<1>5. r \in CallRecord /\ call' = [call EXCEPT ![c] = r]
  BY <1>2, <1>3, <1>4 DEF CallRecord, Points
<1>6. /\ r.pc = "run" /\ r.body = call[c].body /\ r.reply = call[c].reply
      /\ r.retry = call[c].retry /\ r.conversation = v
  BY <1>2 DEF CallRecord
<1> HIDE DEF r
<1>7. PlaceSound(c, r, holder')
  BY <1>2, <1>3, <1>4, <1>6 DEF PlaceSound
<1>8. holder' \in {Nobody} \cup Calls /\ (holder' = holder \/ holder \in {Nobody, c})
  BY <1>2, <1>3
<1> QED
  BY <1>1, <1>2, <1>5, <1>6, <1>7, <1>8, GoesOn

(* The unique index lets in the run of a key that nobody has. *)
LEMMA InsertsRun == ASSUME IInv, NEW c \in Calls, InsertRun(c) PROVE IInv'
<1>1. call[c].pc = "run" /\ UNCHANGED <<row, conversations, messages, queue>> /\ Ahead(c) = {}
  BY DEF InsertRun, WaitsForKey, At, db
<1>2. /\ ~call[c].retry /\ call[c] \in CallRecord /\ call \in [Calls -> CallRecord]
      /\ holder \in {Nobody} \cup Calls /\ ~Stored(c)
      /\ call[c].body.conversation \in {Default} \cup conversations
  BY <1>1, NotStored DEF IInv, Retries
<1>3. CASE /\ WithKey(call[c].body.key) = {} /\ UNCHANGED holder
           /\ call' = [call EXCEPT ![c].pc = "order"]
  <2> DEFINE r == [call[c] EXCEPT !.pc = "order"]
  <2>1. r \in CallRecord /\ call' = [call EXCEPT ![c] = r]
    BY <1>2, <1>3 DEF CallRecord, Points
  <2>2. /\ r.pc = "order" /\ r.body = call[c].body /\ r.reply = call[c].reply
        /\ r.retry = call[c].retry /\ r.conversation = call[c].conversation
    BY <1>2 DEF CallRecord
  <2> HIDE DEF r
  <2>3. \A d \in Calls \ {c} : HoldsKey(d) => ~SameKey(c, d)
    BY <1>1, <1>3 DEF Ahead, WithKey, HoldsKey, SameKey, Stored
  <2>4. PlaceSound(c, r, holder')
    BY <1>1, <1>2, <1>3, <2>2
       DEF PlaceSound, IInv, LockHeld, OneConversation, Inserting, ForDefault
  <2> QED
    BY <1>1, <1>2, <1>3, <2>1, <2>2, <2>3, <2>4, GoesOn
<1>4. CASE call' = [call EXCEPT ![c].pc = "refused", ![c].conversation = Nobody] /\ Release(c)
  <2> DEFINE r == [call[c] EXCEPT !.pc = "refused", !.conversation = Nobody]
  <2>1. r \in CallRecord /\ call' = [call EXCEPT ![c] = r]
    BY <1>2, <1>4 DEF CallRecord, Points
  <2>2. /\ r.pc = "refused" /\ r.body = call[c].body /\ r.reply = call[c].reply
        /\ r.retry = call[c].retry
    BY <1>2 DEF CallRecord
  <2> HIDE DEF r
  <2>3. PlaceSound(c, r, holder')
    BY <1>2, <2>2 DEF PlaceSound
  <2>4. holder' \in {Nobody} \cup Calls /\ (holder' = holder \/ holder \in {Nobody, c})
    BY <1>2, <1>4 DEF Release
  <2> QED
    BY <1>1, <1>2, <2>1, <2>2, <2>3, <2>4, GoesOn
<1> QED
  BY <1>3, <1>4 DEF InsertRun

(* No message of the conversation has a number beyond the last. *)
LEMMA LastSeqIsLast ==
  ASSUME IInv, NEW v
  PROVE  /\ LastSeq(v) \in Nat
         /\ \A m \in messages : m.conversation = v => m.seq <= LastSeq(v)
<1> DEFINE M == {n \in messages : n.conversation = v}
           S == {0} \cup {m.seq : m \in M}
           number == [m \in M |-> m.seq]
<1>1. IsFiniteSet(M)
  BY FS_Subset DEF IInv, Typed
<1>2. \A m \in M : number[m] = m.seq /\ m.seq \in Nat
  BY DEF IInv, Typed
<1> HIDE DEF number, M
<1>3. \E n \in S : \A s \in S : s <= n
  <2>1. CASE M = {}
    BY <2>1
  <2>2. CASE M # {}
    <3>1. PICK m \in M : \A k \in M : number[k] <= number[m]
      BY <1>1, <1>2, <2>2, LastOfAll
    <3> QED
      BY <1>2, <3>1
  <2> QED
    BY <2>1, <2>2
<1>4. S \in SUBSET Nat
  BY <1>2
<1>5. Max(S) \in S /\ \A s \in S : s <= Max(S)
  <2> HIDE DEF S
  <2> QED
    BY <1>3, <1>4, MaxIsLast
<1>6. LastSeq(v) = Max(S)
  BY DEF LastSeq, M
<1> QED
  BY <1>4, <1>5, <1>6 DEF M

LEMMA Numbers == ASSUME IInv, NEW c \in Calls, NextConversationSeq(c) PROVE IInv'
<1> DEFINE n == LastSeq(call[c].conversation) + 1
           r == [call[c] EXCEPT !.seq = n, !.pc = "commit"]
<1>1. /\ call[c].pc = "order" /\ UNCHANGED <<row, conversations, messages, queue, holder>>
      /\ call' = [call EXCEPT ![c].seq = n, ![c].pc = "commit"]
  BY DEF NextConversationSeq, At, db
<1>2. /\ ~call[c].retry /\ call[c] \in CallRecord /\ call \in [Calls -> CallRecord]
      /\ holder \in {Nobody} \cup Calls
      /\ call[c].body.conversation \in {Default} \cup conversations
  BY <1>1, NotStored DEF IInv, Retries
<1>3. n \in Nat
  BY LastSeqIsLast
<1> HIDE DEF n
<1>4. r \in CallRecord /\ call' = [call EXCEPT ![c] = r]
  BY <1>1, <1>2, <1>3 DEF CallRecord, Points
<1>5. /\ r.pc = "commit" /\ r.body = call[c].body /\ r.reply = call[c].reply
      /\ r.retry = call[c].retry /\ r.conversation = call[c].conversation /\ r.seq = n
  BY <1>2 DEF CallRecord
<1> HIDE DEF r
<1>6. \A d \in Calls \ {c} : HoldsKey(d) => ~SameKey(c, d)
  BY <1>1 DEF IInv, KeysTaken, HoldsKey
<1>7. call[c].conversation \in conversations \/ conversations = {}
  BY <1>1 DEF IInv, OneConversation, Inserting
<1>8. \A m \in messages : m.conversation = call[c].conversation /\ m.seq \in Nat
  BY <1>7 DEF IInv, OneConversation, Typed
<1>9. Beyond(n)
  BY <1>8, LastSeqIsLast DEF Beyond, n
<1>10. PlaceSound(c, r, holder')
  BY <1>1, <1>2, <1>5, <1>9
     DEF PlaceSound, IInv, LockHeld, OneConversation, Inserting, ForDefault
<1> QED
  BY <1>1, <1>2, <1>4, <1>5, <1>6, <1>10, GoesOn

-----------------------------------------------------------------------------
(* The other steps. *)

(* COMMIT: the run has its row, its messages have their numbers. *)
LEMMA Commits == ASSUME IInv, NEW c \in Calls, Commit(c) PROVE IInv'
<1> DEFINE v == call[c].conversation
           n == call[c].seq
           new == {Message(c, "user", v, n), Message(c, "assistant", v, n + 1)}
           r == [call[c] EXCEPT !.pc = "publish"]
<1>1. /\ call[c].pc = "commit" /\ row' = [row EXCEPT ![c] = "queued"]
      /\ conversations' = conversations \cup {v} /\ messages' = messages \cup new
      /\ call' = [call EXCEPT ![c].pc = "publish"] /\ Release(c) /\ queue' = queue
  BY DEF Commit, At
<1>2. /\ ~call[c].retry /\ call[c] \in CallRecord /\ call \in [Calls -> CallRecord]
      /\ holder \in {Nobody} \cup Calls /\ call[c].reply = "none"
      /\ row \in [Calls -> {"absent", "queued", "running", "ended"}]
  BY <1>1, NotStored DEF IInv, Retries, Typed
<1>3. r \in CallRecord /\ call' = [call EXCEPT ![c] = r]
  BY <1>1, <1>2 DEF CallRecord, Points
<1>4. /\ r.pc = "publish" /\ r.body = call[c].body /\ r.reply = "none"
      /\ r.retry = call[c].retry
  BY <1>2 DEF CallRecord
<1> HIDE DEF r
<1>5. /\ \A d \in Calls : d # c => call'[d] = call[d]
      /\ call'[c] = r /\ call' \in [Calls -> CallRecord]
      /\ \A d \in Calls : call'[d].body = call[d].body
  BY <1>2, <1>3, <1>4
<1>6. /\ Stored(c)' /\ \A d \in Calls : d # c => (Stored(d)' <=> Stored(d))
      /\ row' \in [Calls -> {"absent", "queued", "running", "ended"}]
  BY <1>1, <1>2 DEF Stored
<1>7. n \in Nat /\ v \in {Nobody} \cup Calls
  BY <1>2, CallFields
<1>8. v \in conversations \/ (conversations = {} /\ v = c /\ ForDefault(c) /\ holder = c)
  BY <1>1 DEF IInv, OneConversation, LockHeld, Inserting
<1>9. /\ \A m \in new : m.run = c /\ m.conversation = v /\ m.seq \in Nat
      /\ \A m \in new : m.role = "user" => m.seq = n
  BY <1>7 DEF Message
<1>10. IsFiniteSet(messages')
  <2>1. IsFiniteSet(messages \cup {Message(c, "user", v, n)})
    BY FS_AddElement DEF IInv, Typed
  <2>2. messages' = (messages \cup {Message(c, "user", v, n)})
                      \cup {Message(c, "assistant", v, n + 1)}
    BY <1>1
  <2> QED
    BY <2>1, <2>2, FS_AddElement
<1> HIDE DEF new, v, n
<1>11. Typed'
  <2>1. conversations' \subseteq Calls
    BY <1>1, <1>8 DEF IInv, Typed
  <2>2. holder' \in {Nobody} \cup Calls
    BY <1>1, <1>2 DEF Release
  <2>3. \A m \in messages' : /\ m.run \in Calls /\ Stored(m.run)'
                             /\ m.conversation \in conversations' /\ m.seq \in Nat
    BY <1>1, <1>6, <1>9 DEF IInv, Typed
  <2>4. queue' \subseteq {d \in Calls : Stored(d)'}
    BY <1>1, <1>6 DEF IInv, Typed
  <2> QED
    BY <1>5, <1>6, <1>10, <2>1, <2>2, <2>3, <2>4 DEF Typed, Stored
<1>12. RowsCommitted'
  BY <1>4, <1>5, <1>6 DEF IInv, RowsCommitted
<1>13. KeysTaken'
  <2>1. \A d \in Calls : HoldsKey(d)' => HoldsKey(d)
    BY <1>1, <1>5, <1>6 DEF HoldsKey
  <2> QED
    BY <1>5, <2>1 DEF IInv, KeysTaken, SameKey
<1>14. \A d, run \in Calls :
         /\ Stored(run) => Stored(run)'
         /\ SameKey(run, d)' <=> SameKey(run, d)
         /\ Fingerprint(run)' = Fingerprint(run)
  BY <1>5, <1>6 DEF SameKey, Fingerprint
<1>15. Replays'
  <2>1. \A d \in Calls : d # c =>
          (call'[d].pc = "replay" =>
             /\ call'[d].found \in Calls /\ row'[call'[d].found] # "absent"
             /\ call'[call'[d].found].body.key = call'[d].body.key
             /\ call'[call'[d].found].body.key # NoKey)
    BY <1>5, <1>6 DEF IInv, Replays, SameKey, Stored
  <2>2. \A d \in Calls : call'[d].reply \in {"replay", "conflict"} =>
          \E run \in Calls \ {d} :
            /\ Stored(run)' /\ SameKey(run, d)'
            /\ call'[d].reply = "replay" <=> Fingerprint(run)' = Fingerprint(d)'
    BY <1>4, <1>5, <1>14 DEF IInv, Replays
  <2>3. \A d \in Calls : call'[d].pc # "done" => call'[d].reply = "none"
    BY <1>4, <1>5 DEF IInv, Replays
  <2> QED
    BY <1>4, <1>5, <2>1, <2>2, <2>3 DEF Replays, Stored, SameKey
<1>16. Retries'
  BY <1>2, <1>4, <1>5, <1>14 DEF IInv, Retries
<1>17. LockHeld'
  BY <1>1, <1>4, <1>5, RunCreationAssumption
     DEF Release, IInv, LockHeld, Inserting, ForDefault
<1>18. OneConversation'
  <2>1. \A x, y \in conversations' : x = y
    BY <1>1, <1>8 DEF IInv, OneConversation
  <2>2. \A d \in Calls : call'[d].body.conversation \in {Default} \cup conversations'
    BY <1>1, <1>5 DEF IInv, OneConversation
  <2>3. ASSUME NEW d \in Calls, Inserting(d)'
        PROVE  call'[d].conversation \in conversations'
    <3>1. d # c /\ call'[d] = call[d] /\ Inserting(d)
      BY <1>4, <1>5, <2>3 DEF Inserting
    <3>2. CASE call[d].conversation \in conversations
      BY <1>1, <3>1, <3>2
    <3>3. CASE conversations = {} /\ ForDefault(d)
      BY <1>8, <3>1, <3>3 DEF IInv, LockHeld
    <3> QED
      BY <3>1, <3>2, <3>3 DEF IInv, OneConversation
  <2> QED
    BY <2>1, <2>2, <2>3 DEF OneConversation
<1>19. NumbersGrow'
  <2>1. \A d \in Calls : ForDefault(d)' <=> ForDefault(d)
    BY <1>5 DEF ForDefault
  <2>2. \A m \in messages : m.run \in Calls
    BY DEF IInv, Typed
  <2>3. ASSUME NEW d \in Calls, call'[d].pc = "commit", ForDefault(d)'
        PROVE  \A m \in messages' : m.role = "user" /\ ForDefault(m.run)' => m.seq < call'[d].seq
    <3>1. d # c /\ call'[d] = call[d] /\ ForDefault(d)
      BY <1>4, <1>5, <2>1, <2>3
    <3>2. ~ForDefault(c)
      BY <1>1, <2>3, <3>1 DEF IInv, LockHeld, Inserting
    <3>3. Beyond(call[d].seq)
      BY <2>3, <3>1 DEF IInv, NumbersGrow
    <3> QED
      BY <1>1, <1>9, <2>1, <2>2, <3>1, <3>2, <3>3 DEF Beyond
  <2>4. ForDefault(c) => Beyond(n)
    BY <1>1 DEF IInv, NumbersGrow, n
  <2>5. ASSUME NEW m \in messages', NEW k \in messages',
               m.role = "user", k.role = "user", m.run # k.run,
               ForDefault(m.run)', ForDefault(k.run)'
        PROVE  m.seq # k.seq
    <3>1. CASE m \in messages /\ k \in messages
      BY <2>1, <2>2, <2>5, <3>1 DEF IInv, NumbersGrow
    <3>2. CASE m \in new /\ k \in messages
      BY <1>7, <1>9, <2>1, <2>2, <2>4, <2>5, <3>2 DEF Beyond, IInv, Typed
    <3>3. CASE m \in messages /\ k \in new
      BY <1>7, <1>9, <2>1, <2>2, <2>4, <2>5, <3>3 DEF Beyond, IInv, Typed
    <3>4. CASE m \in new /\ k \in new
      BY <1>9, <2>5, <3>4
    <3> QED
      BY <1>1, <3>1, <3>2, <3>3, <3>4
  <2> QED
    BY <2>3, <2>5 DEF NumbersGrow, Beyond
<1> QED
  BY <1>11, <1>12, <1>13, <1>15, <1>16, <1>17, <1>18, <1>19 DEF IInv

(* Steps that leave the rows there are, and end calls or leave them alone. *)
LEMMA OthersKept ==
  ASSUME IInv, UNCHANGED <<conversations, messages>>,
         row' \in [Calls -> {"absent", "queued", "running", "ended"}],
         \A d \in Calls : row'[d] = "absent" <=> row[d] = "absent",
         queue' \subseteq {d \in Calls : Stored(d)},
         call' \in [Calls -> CallRecord],
         \A d \in Calls :
           /\ call'[d].body = call[d].body /\ call'[d].found = call[d].found
           /\ call'[d].retry = call[d].retry
           /\ \/ /\ call'[d].pc = call[d].pc /\ call'[d].reply = call[d].reply
                 /\ call'[d].conversation = call[d].conversation /\ call'[d].seq = call[d].seq
              \/ /\ call'[d].pc = "done" /\ call'[d].reply \in {"created", "lost"}
                 /\ call'[d].reply = "created" => ~call[d].retry,
         \/ holder' = holder
         \/ holder' = Nobody /\ \A d \in Calls : call'[d].pc \in {"none", "done"}
  PROVE  IInv'
<1>1. \A d \in Calls : (Stored(d)' <=> Stored(d)) /\ (ForDefault(d)' <=> ForDefault(d))
  BY DEF Stored, ForDefault
<1>2. \A d, run \in Calls :
        (SameKey(run, d)' <=> SameKey(run, d)) /\ Fingerprint(run)' = Fingerprint(run)
  BY DEF SameKey, Fingerprint
<1>3. Typed'
  <2>1. holder' \in {Nobody} \cup Calls
    BY DEF IInv, Typed
  <2>2. \A m \in messages' : /\ m.run \in Calls /\ Stored(m.run)'
                             /\ m.conversation \in conversations' /\ m.seq \in Nat
    BY <1>1 DEF IInv, Typed
  <2>3. queue' \subseteq {d \in Calls : Stored(d)'}
    BY <1>1
  <2> QED
    BY <2>1, <2>2, <2>3 DEF IInv, Typed, Stored
<1>4. RowsCommitted'
  BY <1>1 DEF IInv, RowsCommitted
<1>5. KeysTaken'
  <2>1. \A d \in Calls : HoldsKey(d)' => HoldsKey(d)
    BY <1>1 DEF HoldsKey
  <2> QED
    BY <1>2, <2>1 DEF IInv, KeysTaken
<1>6. Replays'
  <2>1. \A d \in Calls : call'[d].pc = "replay" =>
          /\ call'[d].found \in Calls /\ row'[call'[d].found] # "absent"
          /\ call'[call'[d].found].body.key = call'[d].body.key
          /\ call'[call'[d].found].body.key # NoKey
    BY DEF IInv, Replays, SameKey, Stored
  <2>2. \A d \in Calls : call'[d].pc # "done" => call'[d].reply = "none"
    BY DEF IInv, Replays
  <2>3. ASSUME NEW d \in Calls, call'[d].reply \in {"replay", "conflict"}
        PROVE  \E run \in Calls \ {d} :
                 /\ Stored(run)' /\ SameKey(run, d)'
                 /\ call'[d].reply = "replay" <=> Fingerprint(run)' = Fingerprint(d)'
    <3>1. call'[d].reply = call[d].reply
      BY <2>3
    <3> QED
      BY <1>1, <1>2, <2>3, <3>1 DEF IInv, Replays
  <2> QED
    BY <2>1, <2>2, <2>3 DEF Replays, Stored, SameKey
<1>7. Retries'
  BY <1>1, <1>2 DEF IInv, Retries
<1>8. LockHeld' /\ OneConversation'
  BY DEF IInv, LockHeld, OneConversation, Inserting, ForDefault
<1>9. NumbersGrow'
  <2>1. \A m \in messages : m.run \in Calls
    BY DEF IInv, Typed
  <2>2. \A d \in Calls : call'[d].pc = "commit" => call'[d].seq = call[d].seq /\ call[d].pc = "commit"
    OBVIOUS
  <2> QED
    BY <1>1, <2>1, <2>2 DEF IInv, NumbersGrow, Beyond
<1> QED
  BY <1>3, <1>4, <1>5, <1>6, <1>7, <1>8, <1>9 DEF IInv

LEMMA PublishesRun == ASSUME IInv, NEW c \in Calls, Publish(c) PROVE IInv'
<1> DEFINE r == [call[c] EXCEPT !.pc = "done", !.reply = "created"]
<1>1. /\ call[c].pc = "publish" /\ queue' = queue \cup {c}
      /\ call' = [call EXCEPT ![c].pc = "done", ![c].reply = "created"]
      /\ UNCHANGED <<row, conversations, messages, holder>>
  BY DEF Publish, At, db
<1>2. /\ ~call[c].retry /\ Stored(c) /\ call \in [Calls -> CallRecord] /\ call[c] \in CallRecord
      /\ queue \subseteq {d \in Calls : Stored(d)}
      /\ row \in [Calls -> {"absent", "queued", "running", "ended"}]
  BY <1>1 DEF IInv, Retries, RowsCommitted, Typed
<1>3. r \in CallRecord /\ call' = [call EXCEPT ![c] = r]
  BY <1>1, <1>2 DEF CallRecord, Points, Replies
<1>4. /\ r.pc = "done" /\ r.reply = "created" /\ r.body = call[c].body
      /\ r.found = call[c].found /\ r.retry = call[c].retry
  BY <1>2 DEF CallRecord
<1> HIDE DEF r
<1> QED
  BY <1>1, <1>2, <1>3, <1>4, OthersKept

LEMMA Ends == ASSUME IInv, NEW c \in Calls, End(c) PROVE IInv'
<1> DEFINE r == [call[c] EXCEPT !.sequence = 0]
<1>1. /\ row[c] = "running" /\ row' = [row EXCEPT ![c] = "ended"] /\ queue' = queue \ {c}
      /\ call' = [call EXCEPT ![c].sequence = 0]
      /\ UNCHANGED <<conversations, messages, holder>>
  BY DEF End
<1>2. /\ call \in [Calls -> CallRecord] /\ call[c] \in CallRecord
      /\ queue \subseteq {d \in Calls : Stored(d)}
      /\ row \in [Calls -> {"absent", "queued", "running", "ended"}]
  BY DEF IInv, Typed
<1>3. r \in CallRecord /\ call' = [call EXCEPT ![c] = r]
  BY <1>1, <1>2 DEF CallRecord
<1>4. /\ r.pc = call[c].pc /\ r.reply = call[c].reply /\ r.body = call[c].body
      /\ r.found = call[c].found /\ r.retry = call[c].retry
      /\ r.conversation = call[c].conversation /\ r.seq = call[c].seq
  BY <1>2 DEF CallRecord
<1> HIDE DEF r
<1> QED
  BY <1>1, <1>2, <1>3, <1>4, OthersKept

LEMMA Starts == ASSUME IInv, Start PROVE IInv'
<1> DEFINE number == [c \in queue |-> call[c].sequence]
<1>1. queue \subseteq {d \in Calls : Stored(d)} /\ queue # {} /\ call \in [Calls -> CallRecord]
  BY DEF Start, IInv, Typed
<1>2. \A c \in queue : number[c] = call[c].sequence /\ number[c] \in Nat
  BY <1>1, CallFields
<1> HIDE DEF number
<1>3. \E m \in queue : \A c \in queue : number[m] <= number[c]
  BY <1>1, <1>2, FirstOfAll
<1>4. First(queue) \in queue
  BY <1>2, <1>3 DEF First
<1>5. /\ row' = [row EXCEPT ![First(queue)] = "running"]
      /\ UNCHANGED <<call, conversations, messages, holder, queue>>
  BY DEF Start
<1>6. row \in [Calls -> {"absent", "queued", "running", "ended"}]
  BY DEF IInv, Typed
<1>7. /\ row' \in [Calls -> {"absent", "queued", "running", "ended"}]
      /\ \A d \in Calls : row'[d] = "absent" <=> row[d] = "absent"
  BY <1>1, <1>4, <1>5, <1>6 DEF Stored
<1> QED
  BY <1>1, <1>5, <1>7, OthersKept

LEMMA Crashes == ASSUME IInv, Crash PROVE IInv'
<1>1. /\ call' = [c \in Calls |->
             IF call[c].pc \in {"none", "done"} THEN [call[c] EXCEPT !.sequence = 0]
             ELSE [call[c] EXCEPT !.pc = "done", !.reply = "lost", !.sequence = 0,
                                  !.conversation = Nobody, !.seq = 0]]
      /\ row' = [c \in Calls |-> IF row[c] = "absent" THEN "absent" ELSE "ended"]
      /\ holder' = Nobody /\ queue' = {} /\ UNCHANGED <<conversations, messages>>
  BY DEF Crash
<1>2. call \in [Calls -> CallRecord]
  BY DEF IInv, Typed
<1>3. ASSUME NEW d \in Calls
      PROVE  /\ call'[d] \in CallRecord
             /\ call'[d].body = call[d].body /\ call'[d].found = call[d].found
             /\ call'[d].retry = call[d].retry
             /\ call'[d].pc \in {"none", "done"}
             /\ \/ /\ call'[d].pc = call[d].pc /\ call'[d].reply = call[d].reply
                   /\ call'[d].conversation = call[d].conversation /\ call'[d].seq = call[d].seq
                \/ call'[d].pc = "done" /\ call'[d].reply = "lost"
  <2>1. call[d] \in CallRecord
    BY <1>2
  <2>2. CASE call[d].pc \in {"none", "done"}
    <3>1. call'[d] = [call[d] EXCEPT !.sequence = 0]
      BY <1>1, <2>2
    <3> QED
      BY <2>1, <2>2, <3>1 DEF CallRecord
  <2>3. CASE call[d].pc \notin {"none", "done"}
    <3>1. call'[d] = [call[d] EXCEPT !.pc = "done", !.reply = "lost", !.sequence = 0,
                                     !.conversation = Nobody, !.seq = 0]
      BY <1>1, <2>3
    <3>2. /\ call'[d].body = call[d].body /\ call'[d].found = call[d].found
          /\ call'[d].retry = call[d].retry
          /\ call'[d].pc = "done" /\ call'[d].reply = "lost"
      BY <2>1, <3>1 DEF CallRecord
    <3>3. /\ "done" \in Points /\ "lost" \in Replies
      BY DEF Points, Replies
    <3>4. PICK f \in {Nobody} \cup Calls, b \in Body, t \in BOOLEAN, pc \in Points,
               n \in Nat, v \in {Nobody} \cup Calls, m \in Nat, reply \in Replies :
            call[d] = [pc |-> pc, found |-> f, sequence |-> n, body |-> b,
                       conversation |-> v, seq |-> m, reply |-> reply, retry |-> t]
      BY <2>1 DEF CallRecord
    <3>5. call'[d] = [pc |-> "done", found |-> f, sequence |-> 0, body |-> b,
                      conversation |-> Nobody, seq |-> 0, reply |-> "lost", retry |-> t]
      <4>1. call'[d] = [[pc |-> pc, found |-> f, sequence |-> n, body |-> b,
                         conversation |-> v, seq |-> m, reply |-> reply, retry |-> t]
                        EXCEPT !.pc = "done", !.reply = "lost", !.sequence = 0,
                               !.conversation = Nobody, !.seq = 0]
        BY <3>1, <3>4, Zenon
      <4> QED
        BY <4>1
    <3>6. call'[d] \in CallRecord
      BY <3>3, <3>4, <3>5 DEF CallRecord
    <3> QED
      BY <3>2, <3>6
  <2> QED
    BY <2>2, <2>3
<1>4. call' \in [Calls -> CallRecord]
  BY <1>1, <1>3
<1>5. /\ row' \in [Calls -> {"absent", "queued", "running", "ended"}]
      /\ \A d \in Calls : row'[d] = "absent" <=> row[d] = "absent"
  BY <1>1
<1> QED
  BY <1>1, <1>3, <1>4, <1>5, OthersKept

LEMMA NextHolds == IInv /\ [Next]_vars => IInv'
<1> SUFFICES ASSUME IInv, [Next]_vars PROVE IInv'
  OBVIOUS
<1>1. ASSUME NEW c \in Calls, Refuse(c) \/ Receive(c) \/ StatementFails(c) \/ End(c) PROVE IInv'
  BY <1>1, Refuses, Receives, Ends
<1>2. ASSUME NEW c \in Calls, CallStep(c) PROVE IInv'
  BY <1>2, LooksUp, ReplaysRun, Refuses, Admits, FindsConversation, InsertsRun, Numbers, Commits,
     PublishesRun DEF CallStep
<1>3. CASE Start
  BY <1>3, Starts
<1>4. CASE Crash
  BY <1>4, Crashes
<1>5. CASE UNCHANGED vars
  <2>1. UNCHANGED <<call, row, conversations, messages, holder, queue>>
    BY <1>5 DEF vars, db
  <2>2. /\ call \in [Calls -> CallRecord]
        /\ row \in [Calls -> {"absent", "queued", "running", "ended"}]
        /\ queue \subseteq {d \in Calls : Stored(d)}
    BY DEF IInv, Typed
  <2> QED
    BY <2>1, <2>2, OthersKept
<1> QED
  BY <1>1, <1>2, <1>3, <1>4, <1>5 DEF Next

LEMMA CreationInvariant == Spec => []IInv
<1> QED
  BY InitHolds, NextHolds, PTL DEF Spec

-----------------------------------------------------------------------------
(* A set of which any two members are the same has at most one. *)
LEMMA AtMostOne ==
  ASSUME NEW S, \A x, y \in S : x = y
  PROVE  Cardinality(S) <= 1
<1>1. CASE S = {}
  BY <1>1, FS_EmptySet
<1>2. CASE S # {}
  <2>1. PICK x : x \in S
    BY <1>2
  <2>2. S = {x}
    BY <2>1
  <2> QED
    BY <2>2, FS_Singleton
<1> QED
  BY <1>1, <1>2

(* However calls with one key overlap, fail, crash and are sent again, one run  *)
(* is stored for it, and who is told of a run is told what is true of it.       *)
THEOREM OneRunPerKey == Spec => []KeyNamesOneRun
<1>1. IInv => KeyNamesOneRun
  <2> SUFFICES ASSUME IInv, NEW c \in Calls
               PROVE  /\ Cardinality(WithKey(call[c].body.key)) <= 1
                      /\ call[c].reply \in {"replay", "conflict"} =>
                           \E run \in WithKey(call[c].body.key) \ {c} :
                             call[c].reply = "replay" <=> Fingerprint(run) = Fingerprint(c)
                      /\ call[c].retry => call[c].reply \notin {"full", "webhook", "created"}
    BY DEF KeyNamesOneRun
  <2>1. \A x, y \in WithKey(call[c].body.key) : x = y
    BY DEF IInv, KeysTaken, HoldsKey, SameKey, Stored, WithKey
  <2>2. ASSUME call[c].reply \in {"replay", "conflict"}
        PROVE  \E run \in WithKey(call[c].body.key) \ {c} :
                 call[c].reply = "replay" <=> Fingerprint(run) = Fingerprint(c)
    <3>1. PICK run \in Calls \ {c} :
            /\ Stored(run) /\ SameKey(run, c)
            /\ call[c].reply = "replay" <=> Fingerprint(run) = Fingerprint(c)
      BY <2>2 DEF IInv, Replays
    <3>2. run \in WithKey(call[c].body.key) \ {c}
      BY <3>1 DEF WithKey, Stored, SameKey
    <3> QED
      BY <3>1, <3>2
  <2>3. call[c].retry => call[c].reply \notin {"full", "webhook", "created"}
    BY DEF IInv, Retries
  <2> QED
    BY <2>1, <2>2, <2>3, AtMostOne
<1> QED
  BY <1>1, CreationInvariant, PTL

(* The lock of the workspace is held from the look for its default conversation *)
(* to the COMMIT: there is one such conversation, and the prompts of the calls  *)
(* that share it have numbers of their own.                                     *)
THEOREM TurnsInOrder == Spec => []DefaultTurnsInOrder
<1>1. IInv => DefaultTurnsInOrder
  <2> SUFFICES ASSUME IInv PROVE DefaultTurnsInOrder
    OBVIOUS
  <2>1. Cardinality(conversations) <= 1
    BY AtMostOne DEF IInv, OneConversation
  <2> QED
    BY <2>1 DEF IInv, NumbersGrow, ForDefault, DefaultTurnsInOrder
<1> QED
  BY <1>1, CreationInvariant, PTL
-----------------------------------------------------------------------------
(* Who waits for whom. *)

(* The lock is that of a transaction which is past the look for its  *)
(* conversation, and has nothing left to wait for but its key.       *)
HolderInserts == holder # Nobody => holder \in Calls /\ Inserting(holder)

(* A step of one call takes the lock, gives it up or leaves it alone. *)
LEMMA HolderStays ==
  ASSUME HolderInserts, NEW c \in Calls, \A d \in Calls : d # c => call'[d].pc = call[d].pc,
         \/ holder' \in {holder, c} /\ Inserting(c)'
         \/ holder' = holder /\ ~Inserting(c)
         \/ holder' = IF holder = c THEN Nobody ELSE holder
  PROVE  HolderInserts'
<1>1. c # Nobody
  BY RunCreationAssumption DEF Nobody
<1> QED
  BY <1>1 DEF HolderInserts, Inserting

(* The lock is taken before the insert, and released by what ends the transaction. *)
LEMMA HolderKept == ASSUME Typed, HolderInserts, [Next]_vars PROVE HolderInserts'
<1>1. DOMAIN call = Calls /\ \A c \in Calls : call[c] \in CallRecord
  BY DEF Typed
<1>2. ASSUME NEW c \in Calls,
             \/ Refuse(c) \/ Receive(c) \/ Lookup(c) \/ ReplayIdempotentRun(c)
             \/ RefuseWebhook(c) \/ Admit(c) \/ Begin(c) \/ Publish(c)
      PROVE  HolderInserts'
  <2>1. ~Inserting(c) /\ holder' = holder
    BY <1>2 DEF Refuse, Receive, Lookup, ReplayIdempotentRun, RefuseWebhook, Admit, Begin,
                Publish, At, Inserting
  <2>2. \A d \in Calls : d # c => call'[d] = call[d]
    BY <1>1, <1>2 DEF Refuse, Receive, Lookup, ReplayIdempotentRun, RefuseWebhook, Admit, Begin,
                      Publish, Reply
  <2> QED
    BY <2>1, <2>2, HolderStays
<1>3. ASSUME NEW c \in Calls, Conversation(c) PROVE HolderInserts'
  <2>1. PICK v : call' = [call EXCEPT ![c].conversation = v, ![c].pc = "run"]
    BY <1>3 DEF Conversation
  <2>2. call'[c].pc = "run" /\ \A d \in Calls : d # c => call'[d] = call[d]
    BY <1>1, <2>1 DEF CallRecord
  <2>3. holder' = holder \/ holder' = c
    BY <1>3 DEF Conversation
  <2>4. Inserting(c)'
    BY <2>2 DEF Inserting
  <2> QED
    BY <2>2, <2>3, <2>4, HolderStays
<1>4. ASSUME NEW c \in Calls, InsertRun(c) PROVE HolderInserts'
  <2>1. CASE call' = [call EXCEPT ![c].pc = "order"] /\ UNCHANGED holder
    <3>1. call'[c].pc = "order" /\ \A d \in Calls : d # c => call'[d] = call[d]
      BY <1>1, <2>1 DEF CallRecord
    <3>2. Inserting(c)'
      BY <3>1 DEF Inserting
    <3> QED
      BY <2>1, <3>1, <3>2, HolderStays
  <2>2. CASE /\ call' = [call EXCEPT ![c].pc = "refused", ![c].conversation = Nobody]
             /\ Release(c)
    <3>1. \A d \in Calls : d # c => call'[d] = call[d]
      BY <1>1, <2>2
    <3> QED
      BY <2>2, <3>1, HolderStays DEF Release
  <2> QED
    BY <1>4, <2>1, <2>2 DEF InsertRun
<1>5. ASSUME NEW c \in Calls, NextConversationSeq(c) PROVE HolderInserts'
  <2>1. PICK n : call' = [call EXCEPT ![c].seq = n, ![c].pc = "commit"]
    BY <1>5 DEF NextConversationSeq
  <2>2. call'[c].pc = "commit" /\ \A d \in Calls : d # c => call'[d] = call[d]
    BY <1>1, <2>1 DEF CallRecord
  <2>3. Inserting(c)' /\ holder' = holder
    BY <1>5, <2>2 DEF Inserting, NextConversationSeq
  <2> QED
    BY <2>2, <2>3, HolderStays
<1>6. ASSUME NEW c \in Calls, Commit(c) \/ StatementFails(c) PROVE HolderInserts'
  <2>1. \A d \in Calls : d # c => call'[d] = call[d]
    BY <1>1, <1>6 DEF Commit, StatementFails, Reply
  <2>2. holder' = IF holder = c THEN Nobody ELSE holder
    BY <1>6 DEF Commit, StatementFails, Release
  <2> QED
    BY <2>1, <2>2, HolderStays
<1>7. ASSUME NEW c \in Calls, End(c) PROVE HolderInserts'
  <2>1. call' = [call EXCEPT ![c].sequence = 0] /\ holder' = holder
    BY <1>7 DEF End
  <2>2. \A d \in Calls : call'[d].pc = call[d].pc
    BY <1>1, <2>1 DEF CallRecord
  <2> QED
    BY <2>1, <2>2 DEF HolderInserts, Inserting
<1>8. Crash => HolderInserts'
  BY DEF Crash, HolderInserts
<1>9. Start \/ UNCHANGED vars => HolderInserts'
  BY DEF Start, vars, HolderInserts, Inserting
<1> QED
  BY <1>2, <1>3, <1>4, <1>5, <1>6, <1>7, <1>8, <1>9 DEF Next, CallStep

(* Calls that wait for the lock wait for a transaction past it, and those that *)
(* wait for a key for one past the insert, which waits for nothing and has its *)
(* connection; where no transaction is open there is a connection to be had:   *)
(* one of the calls that are under way is never kept waiting.                  *)
THEOREM NobodyWaitsForEver == Spec => []NoCircularWait
<1>1. Init => HolderInserts
  BY DEF Init, HolderInserts
<1>2. IInv /\ HolderInserts /\ [Next]_vars => HolderInserts'
  BY HolderKept DEF IInv
<1>3. IInv /\ HolderInserts => NoCircularWait
  <2> SUFFICES ASSUME IInv, HolderInserts, UnderWay # {}, \A c \in UnderWay : Waits(c)
               PROVE  FALSE
    BY DEF NoCircularWait
  <2>1. InTransaction \subseteq UnderWay
    BY DEF InTransaction, UnderWay
  <2>2. ASSUME NEW c \in Calls, call[c].pc \in {"order", "commit"} PROVE FALSE
    <3>1. c \in UnderWay /\ ~Waits(c)
      BY <2>2 DEF UnderWay, Waits, WaitsForConnection, WaitsForLock, WaitsForKey, At
    <3> QED
      BY <3>1
  <2>3. ASSUME NEW c \in Calls, call[c].pc = "run" PROVE FALSE
    <3>1. Ahead(c) = {}
      BY <2>2 DEF Ahead
    <3>2. c \in UnderWay /\ ~Waits(c)
      BY <2>3, <3>1 DEF UnderWay, Waits, WaitsForConnection, WaitsForLock, WaitsForKey, At
    <3> QED
      BY <3>2
  <2>4. holder = Nobody
    BY <2>2, <2>3 DEF HolderInserts, Inserting
  <2>5. ASSUME NEW c \in Calls, call[c].pc = "conversation" PROVE FALSE
    <3>1. c \in UnderWay /\ ~Waits(c)
      BY <2>4, <2>5 DEF UnderWay, Waits, WaitsForConnection, WaitsForLock, WaitsForKey, At
    <3> QED
      BY <3>1
  <2>6. InTransaction = {}
    BY <2>2, <2>3, <2>5 DEF InTransaction
  <2>7. ConnectionFree
    <3>1. Cardinality(InTransaction) = 0 /\ 0 < PoolMax
      BY <2>6, FS_EmptySet, RunCreationAssumption
    <3> QED
      BY <3>1 DEF ConnectionFree
  <2>8. PICK c : c \in UnderWay
    OBVIOUS
  <2>9. c \in Calls /\ Waits(c)
    BY <2>8 DEF UnderWay
  <2> QED
    BY <2>3, <2>5, <2>7, <2>9 DEF Waits, WaitsForConnection, WaitsForLock, WaitsForKey, At
<1> QED
  BY <1>1, <1>2, <1>3, CreationInvariant, PTL DEF Spec

-----------------------------------------------------------------------------
(* The context of a prompt.  Sequences first: their ends, and what the loop *)
(* over one keeps of it.                                                    *)

(* Induction over the numbers, with a set in the place of a predicate. *)
LEMMA Induction ==
  ASSUME NEW T, 0 \in T, \A n \in Nat : n \in T => n + 1 \in T
  PROVE  Nat \subseteq T
<1> DEFINE Rest == Nat \ T
<1>1. SUFFICES ASSUME Rest # {} PROVE FALSE
  OBVIOUS
<1> HIDE DEF Rest
<1>2. PICK n \in Rest : \A m \in Rest : <<m, n>> \notin OpToRel(<, Nat)
  <2>1. Rest \subseteq Nat
    BY DEF Rest
  <2> QED
    BY <1>1, <2>1, WFMin, NatLessThanWellFounded, Zenon
<1>3. n \in Nat /\ n \notin T /\ n # 0
  BY DEF Rest
<1>4. n - 1 \in Nat /\ n - 1 < n /\ (n - 1) + 1 = n
  BY <1>3
<1>5. n - 1 \in T
  <2>1. <<n - 1, n>> \in OpToRel(<, Nat)
    BY <1>3, <1>4, Zenon DEF OpToRel
  <2>2. n - 1 \notin Rest
    BY <1>2, <2>1
  <2> QED
    BY <1>4, <2>2 DEF Rest
<1> QED
  BY <1>3, <1>4, <1>5

(* A function that is given by its steps exists. *)
Steps(f, first, step, n) ==
  f[0] = first /\ \A k \in 1..n : f[k] = step[<<k, f[k - 1]>>]

LEMMA StepsExist ==
  ASSUME NEW V, NEW first \in V, NEW n \in Nat, NEW step,
         \A k \in 1..n, v \in V : step[<<k, v>>] \in V
  PROVE  \E f \in [0..n -> V] : Steps(f, first, step, n)
<1> DEFINE T == {m \in Nat : m <= n => \E f \in [0..m -> V] : Steps(f, first, step, m)}
<1>1. 0 \in T
  <2>1. [k \in 0..0 |-> first] \in [0..0 -> V] /\ Steps([k \in 0..0 |-> first], first, step, 0)
    BY DEF Steps
  <2> QED
    BY <2>1
<1>2. ASSUME NEW m \in Nat, m \in T PROVE m + 1 \in T
  <2> SUFFICES ASSUME m + 1 <= n
               PROVE  \E f \in [0..(m + 1) -> V] : Steps(f, first, step, m + 1)
    OBVIOUS
  <2>1. PICK f \in [0..m -> V] : Steps(f, first, step, m)
    BY <1>2
  <2> DEFINE g == [k \in 0..(m + 1) |-> IF k = m + 1 THEN step[<<m + 1, f[m]>>] ELSE f[k]]
  <2>2. (m + 1) - 1 = m /\ m + 1 \in 1..n /\ m \in 0..m /\ 0 \in 0..m
    OBVIOUS
  <2>3. \A k \in 1..(m + 1) : k = m + 1 \/ (k \in 1..m /\ k - 1 \in 0..m /\ k \in 0..m)
    OBVIOUS
  <2>4. g[m + 1] = step[<<m + 1, f[m]>>] /\ \A k \in 0..m : g[k] = f[k]
    OBVIOUS
  <2>5. g \in [0..(m + 1) -> V]
    <3>1. step[<<m + 1, f[m]>>] \in V
      BY <2>2
    <3>2. \A k \in 0..(m + 1) : k = m + 1 \/ k \in 0..m
      OBVIOUS
    <3> QED
      BY <3>1, <3>2
  <2> HIDE DEF g
  <2>6. ASSUME NEW k \in 1..(m + 1) PROVE g[k] = step[<<k, g[k - 1]>>]
    <3>1. CASE k = m + 1
      BY <2>2, <2>4, <3>1
    <3>2. CASE k \in 1..m
      BY <2>1, <2>3, <2>4, <3>2 DEF Steps
    <3> QED
      BY <2>3, <3>1, <3>2
  <2>7. Steps(g, first, step, m + 1)
    BY <2>1, <2>2, <2>4, <2>6 DEF Steps
  <2> QED
    BY <2>5, <2>7
<1> HIDE DEF T
<1>3. n \in T
  BY <1>1, <1>2, Induction
<1> QED
  BY <1>3 DEF T

LEMMA MaxOfTwo == \A a, b \in Int : Max({a, b}) = IF a >= b THEN a ELSE b
<1> SUFFICES ASSUME NEW a \in Int, NEW b \in Int
             PROVE  Max({a, b}) = IF a >= b THEN a ELSE b
  OBVIOUS
<1> DEFINE m == IF a >= b THEN a ELSE b
<1>1. m \in {a, b} /\ \A y \in {a, b} : m >= y
  OBVIOUS
<1>2. \A x \in {a, b} : (\A y \in {a, b} : x >= y) => x = m
  OBVIOUS
<1> HIDE DEF m
<1>3. Max({a, b}) = m
  BY <1>1, <1>2 DEF Max
<1> QED
  BY <1>3 DEF m

Least(a, b) == IF a <= b THEN a ELSE b

(* The newest n of a sequence. *)
LEMMA NewestIs ==
  ASSUME NEW S, NEW s \in Seq(S), NEW n \in Nat
  PROVE  LET k == Least(n, Len(s)) IN
         /\ Newest(s, n) \in Seq(S) /\ Len(Newest(s, n)) = k
         /\ \A i \in 1..k : Newest(s, n)[i] = s[Len(s) - k + i]
<1> DEFINE k == Least(n, Len(s))
           m == Len(s) - n + 1
<1>1. Len(s) \in Nat /\ k \in 0..Len(s) /\ m \in Int
  BY DEF Least
<1>2. Max({1, m}) = Len(s) - k + 1
  <2>1. Max({1, m}) = IF 1 >= m THEN 1 ELSE m
    <3> HIDE DEF m
    <3> QED
      BY <1>1, MaxOfTwo
  <2>2. \A l \in Nat : (IF 1 >= l - n + 1 THEN 1 ELSE l - n + 1) = l - Least(n, l) + 1
    BY DEF Least
  <2>3. (IF 1 >= m THEN 1 ELSE m) = Len(s) - k + 1
    BY <1>1, <2>2
  <2> HIDE DEF k, m
  <2> QED
    BY <2>1, <2>3
<1>3. Newest(s, n) = SubSeq(s, Len(s) - k + 1, Len(s))
  BY <1>2 DEF Newest
<1> HIDE DEF k, m
<1>4. SubSeq(s, Len(s) - k + 1, Len(s)) = [i \in 1..k |-> s[Len(s) - k + i]]
  BY <1>1
<1>5. \A i \in 1..k : s[Len(s) - k + i] \in S
  BY <1>1
<1>6. [i \in 1..k |-> s[Len(s) - k + i]] \in Seq(S)
      /\ Len([i \in 1..k |-> s[Len(s) - k + i]]) = k
  BY <1>1, <1>5
<1> QED
  BY <1>3, <1>4, <1>6 DEF k

(* Sequences with the same members are the same. *)
LEMMA SameSeq ==
  ASSUME NEW S, NEW s \in Seq(S), NEW t \in Seq(S), Len(s) = Len(t),
         \A i \in 1..Len(s) : s[i] = t[i]
  PROVE  s = t
  OBVIOUS

LEMMA NewestOfNewest ==
  ASSUME NEW S, NEW s \in Seq(S), NEW n \in Nat, NEW m \in Nat, m <= Len(Newest(s, n)) \/ m = n
  PROVE  Newest(Newest(s, n), m) = Newest(s, m)
<1> DEFINE t == Newest(s, n)
           j == Least(n, Len(s))
           k == Least(m, Len(s))
<1>1. /\ t \in Seq(S) /\ Len(t) = j
      /\ \A i \in 1..j : t[i] = s[Len(s) - j + i]
  BY NewestIs
<1>2. Len(s) \in Nat /\ j \in 0..Len(s) /\ k \in 0..j /\ Least(m, Len(t)) = k
  BY <1>1 DEF Least
<1>3. /\ Newest(t, m) \in Seq(S) /\ Len(Newest(t, m)) = k
      /\ \A i \in 1..k : Newest(t, m)[i] = t[Len(t) - k + i]
  <2> HIDE DEF t, k, j
  <2> QED
    BY <1>1, <1>2, NewestIs
<1>4. /\ Newest(s, m) \in Seq(S) /\ Len(Newest(s, m)) = k
      /\ \A i \in 1..k : Newest(s, m)[i] = s[Len(s) - k + i]
  BY NewestIs
<1> HIDE DEF t, j, k
<1>5. \A i \in 1..k : j - k + i \in 1..j /\ Len(s) - j + (j - k + i) = Len(s) - k + i
  BY <1>2
<1>6. \A i \in 1..k : Newest(t, m)[i] = Newest(s, m)[i]
  BY <1>1, <1>3, <1>4, <1>5
<1>7. Newest(t, m) = Newest(s, m)
  BY <1>3, <1>4, <1>6, SameSeq
<1> QED
  BY <1>7 DEF t

(* The sums of the newest numbers. *)
TotalSteps(f, s) ==
  f = [k \in 0..Len(s) |-> IF k = 0 THEN 0 ELSE f[k - 1] + s[Len(s) - k + 1]]

LEMMA TotalIs ==
  ASSUME NEW s \in Seq(Nat)
  PROVE  /\ \A k \in 0..Len(s) : TotalOfNewest(s)[k] \in Nat
         /\ TotalOfNewest(s)[0] = 0
         /\ \A k \in 1..Len(s) :
              TotalOfNewest(s)[k] = TotalOfNewest(s)[k - 1] + s[Len(s) - k + 1]
<1> DEFINE n == Len(s)
           step == [p \in (1..n) \X Nat |-> p[2] + s[n - p[1] + 1]]
<1>1. n \in Nat /\ \A k \in 1..n : n - k + 1 \in 1..n /\ s[n - k + 1] \in Nat /\ k - 1 \in 0..n
  OBVIOUS
<1>2. \A k \in 1..n, v \in Nat : step[<<k, v>>] = v + s[n - k + 1]
  OBVIOUS
<1> HIDE DEF step, n
<1>3. ASSUME NEW k \in 1..n, NEW v \in Nat PROVE step[<<k, v>>] \in Nat
  <2>1. s[n - k + 1] \in Nat /\ step[<<k, v>>] = v + s[n - k + 1]
    BY <1>1, <1>2
  <2> QED
    BY <2>1
<1>4. PICK f \in [0..n -> Nat] : Steps(f, 0, step, n)
  BY <1>1, <1>3, StepsExist
<1>5. f[0] = 0 /\ \A k \in 1..n : f[k] = f[k - 1] + s[n - k + 1]
  BY <1>1, <1>2, <1>4 DEF Steps
<1>6. TotalSteps(f, s)
  <2>1. f = [k \in 0..n |-> f[k]]
    BY <1>4
  <2>2. \A k \in 0..n : f[k] = IF k = 0 THEN 0 ELSE f[k - 1] + s[n - k + 1]
    BY <1>5
  <2> QED
    BY <2>1, <2>2 DEF TotalSteps, n
<1>7. PICK g : g = CHOOSE h : TotalSteps(h, s)
  OBVIOUS
<1>8. TotalSteps(g, s)
  BY <1>6, <1>7
<1>9. TotalOfNewest(s) = g
  BY <1>7, Zenon DEF TotalOfNewest, TotalSteps
<1>10. g[0] = 0 /\ \A k \in 1..n : g[k] = g[k - 1] + s[n - k + 1]
  <2>1. g = [k \in 0..n |-> IF k = 0 THEN 0 ELSE g[k - 1] + s[n - k + 1]]
    BY <1>8, Zenon DEF TotalSteps, n
  <2>2. 0 \in 0..n /\ \A k \in 1..n : k \in 0..n /\ k # 0
    BY <1>1
  <2>3. \A k \in 0..n : g[k] = IF k = 0 THEN 0 ELSE g[k - 1] + s[n - k + 1]
    BY <2>1
  <2> QED
    BY <2>2, <2>3
<1> DEFINE T == {m \in Nat : m <= n => g[m] \in Nat}
<1>11. 0 \in T
  BY <1>10
<1>12. ASSUME NEW m \in Nat, m \in T PROVE m + 1 \in T
  <2> SUFFICES ASSUME m + 1 <= n PROVE g[m + 1] \in Nat
    OBVIOUS
  <2>1. m + 1 \in 1..n /\ (m + 1) - 1 = m /\ g[m] \in Nat
    BY <1>1, <1>12
  <2>2. g[m + 1] = g[m] + s[n - (m + 1) + 1] /\ s[n - (m + 1) + 1] \in Nat
    BY <1>1, <1>10, <2>1
  <2> QED
    BY <2>1, <2>2
<1> HIDE DEF T
<1>13. Nat \subseteq T
  BY <1>11, <1>12, Induction
<1>14. \A k \in 0..n : g[k] \in Nat
  BY <1>1, <1>13 DEF T
<1> QED
  BY <1>9, <1>10, <1>14 DEF n

LEMMA TotalGrows ==
  ASSUME NEW s \in Seq(Nat), NEW j \in 0..Len(s), NEW k \in j..Len(s)
  PROVE  TotalOfNewest(s)[j] <= TotalOfNewest(s)[k]
<1> DEFINE total == TotalOfNewest(s)
           n == Len(s)
<1>1. /\ \A i \in 0..n : total[i] \in Nat
      /\ \A i \in 1..n : total[i] = total[i - 1] + s[n - i + 1]
      /\ n \in Nat /\ \A i \in 1..n : s[i] \in Nat
  BY TotalIs
<1> HIDE DEF total, n
<1>2. j \in Nat /\ k \in Nat /\ j <= k /\ k <= n
  BY DEF n
<1> DEFINE T == {m \in Nat : j + m <= n => total[j] <= total[j + m]}
<1>3. 0 \in T
  BY <1>1, <1>2
<1>4. ASSUME NEW m \in Nat, m \in T PROVE m + 1 \in T
  <2> SUFFICES ASSUME j + (m + 1) <= n PROVE total[j] <= total[j + (m + 1)]
    OBVIOUS
  <2> DEFINE i == j + (m + 1)
  <2>1. /\ i \in 1..n /\ i - 1 = j + m /\ j + m <= n /\ j \in 0..n /\ i - 1 \in 0..n
        /\ n - i + 1 \in 1..n
    BY <1>1, <1>2
  <2>2. total[j] <= total[i - 1]
    BY <1>4, <2>1
  <2> HIDE DEF i
  <2>3. total[i] = total[i - 1] + s[n - i + 1] /\ total[i - 1] \in Nat /\ total[j] \in Nat
        /\ s[n - i + 1] \in Nat
    BY <1>1, <2>1
  <2>4. total[j] <= total[i]
    BY <2>2, <2>3
  <2> QED
    BY <2>4 DEF i
<1> HIDE DEF T
<1>5. k - j \in T
  <2>1. k - j \in Nat
    BY <1>2
  <2> QED
    BY <1>3, <1>4, <2>1, Induction
<1>6. j + (k - j) = k
  BY <1>2
<1>7. total[j] <= total[k]
  BY <1>2, <1>5, <1>6 DEF T
<1> QED
  BY <1>7 DEF total

(* The loop of the context. *)
Kept == [count : Nat, total : Nat, full : BOOLEAN]

KeptSteps(kept, s, maxTotalChars) ==
  kept = [k \in 0..Len(s) |->
    IF k = 0 THEN [count |-> 0, total |-> 0, full |-> FALSE]
    ELSE LET total == kept[k - 1].total + s[Len(s) - k + 1] IN
         IF kept[k - 1].full \/ (kept[k - 1].count > 0 /\ total > maxTotalChars)
         THEN [kept[k - 1] EXCEPT !.full = TRUE]
         ELSE [count |-> k, total |-> total, full |-> FALSE]]

LEMMA KeptIs ==
  ASSUME NEW s \in Seq(Nat), NEW M \in Nat
  PROVE  \E g : /\ KeepNewestWithinTotal(s, M) = Newest(s, g[Len(s)].count)
                /\ KeptSteps(g, s, M)
<1> DEFINE n == Len(s)
           step == [p \in (1..n) \X Kept |->
                      LET total == p[2].total + s[n - p[1] + 1] IN
                      IF p[2].full \/ (p[2].count > 0 /\ total > M)
                      THEN [p[2] EXCEPT !.full = TRUE]
                      ELSE [count |-> p[1], total |-> total, full |-> FALSE]]
           first == [count |-> 0, total |-> 0, full |-> FALSE]
<1>1. n \in Nat /\ \A k \in 1..n : n - k + 1 \in 1..n /\ s[n - k + 1] \in Nat /\ k - 1 \in 0..n
  OBVIOUS
<1>2. \A k \in 1..n, v \in Kept :
        step[<<k, v>>] = LET total == v.total + s[n - k + 1] IN
                         IF v.full \/ (v.count > 0 /\ total > M)
                         THEN [v EXCEPT !.full = TRUE]
                         ELSE [count |-> k, total |-> total, full |-> FALSE]
  OBVIOUS
<1> HIDE DEF step, n
<1>3. ASSUME NEW k \in 1..n, NEW v \in Kept PROVE step[<<k, v>>] \in Kept
  <2>0. [v EXCEPT !.full = TRUE] \in Kept
    BY DEF Kept
  <2>1. s[n - k + 1] \in Nat /\ v.total \in Nat /\ k \in Nat
    BY <1>1 DEF Kept
  <2>2. v.total + s[n - k + 1] \in Nat
    BY <2>1
  <2>3. \A total \in Nat : [count |-> k, total |-> total, full |-> FALSE] \in Kept
    BY <2>1 DEF Kept
  <2> QED
    BY <1>2, <2>0, <2>2, <2>3
<1>4. first \in Kept
  BY DEF Kept
<1> HIDE DEF first
<1>5. PICK f \in [0..n -> Kept] : Steps(f, first, step, n)
  BY <1>1, <1>3, <1>4, StepsExist
<1> DEFINE Step(k) == IF k = 0 THEN [count |-> 0, total |-> 0, full |-> FALSE]
                      ELSE LET total == f[k - 1].total + s[n - k + 1] IN
                           IF f[k - 1].full \/ (f[k - 1].count > 0 /\ total > M)
                           THEN [f[k - 1] EXCEPT !.full = TRUE]
                           ELSE [count |-> k, total |-> total, full |-> FALSE]
<1>6. ASSUME NEW k \in 1..n PROVE f[k] = Step(k)
  <2>1. f[k - 1] \in Kept /\ k # 0 /\ f[k] = step[<<k, f[k - 1]>>]
    BY <1>1, <1>5 DEF Steps
  <2> QED
    BY <1>2, <2>1
<1>7. f[0] = Step(0)
  BY <1>5 DEF Steps, first
<1>8. KeptSteps(f, s, M)
  <2> HIDE DEF Step
  <2>1. \A k \in 0..n : f[k] = Step(k)
    <3>1. \A k \in 0..n : k = 0 \/ k \in 1..n
      BY <1>1
    <3> QED
      BY <1>6, <1>7, <3>1
  <2>2. f = [k \in 0..n |-> Step(k)]
    BY <1>5, <2>1
  <2> QED
    BY <2>2 DEF KeptSteps, Step, n
<1>9. PICK g : g = CHOOSE h : KeptSteps(h, s, M)
  OBVIOUS
<1>10. KeptSteps(g, s, M)
  BY <1>8, <1>9
<1>11. KeepNewestWithinTotal(s, M) = Newest(s, g[Len(s)].count)
  BY <1>9, Zenon DEF KeepNewestWithinTotal, KeptSteps
<1> QED
  BY <1>10, <1>11

(* It keeps a newest part: of more than one it stays within the limit, and  *)
(* with one more it would not.                                              *)
LEMMA KeepsNewest ==
  ASSUME NEW s \in Seq(Nat), NEW M \in Nat
  PROVE  \E count \in 0..Len(s) :
           /\ KeepNewestWithinTotal(s, M) = Newest(s, count)
           /\ count > 1 => TotalOfNewest(s)[count] <= M
           /\ count < Len(s) => count > 0 /\ TotalOfNewest(s)[count + 1] > M
<1> DEFINE n == Len(s)
           T == TotalOfNewest(s)
<1>1. PICK g : KeepNewestWithinTotal(s, M) = Newest(s, g[Len(s)].count) /\ KeptSteps(g, s, M)
  BY KeptIs
<1>2. /\ T[0] = 0 /\ \A k \in 0..n : T[k] \in Nat
      /\ \A k \in 1..n : T[k] = T[k - 1] + s[n - k + 1]
  BY TotalIs
<1>3. n \in Nat
  OBVIOUS
<1> DEFINE Step(k) ==
             IF k = 0 THEN [count |-> 0, total |-> 0, full |-> FALSE]
             ELSE LET total == g[k - 1].total + s[n - k + 1] IN
                  IF g[k - 1].full \/ (g[k - 1].count > 0 /\ total > M)
                  THEN [g[k - 1] EXCEPT !.full = TRUE]
                  ELSE [count |-> k, total |-> total, full |-> FALSE]
<1>4. g = [k \in 0..n |-> Step(k)]
  BY <1>1, Zenon DEF KeptSteps
<1> HIDE DEF T, n
<1>5. \A k \in 0..n : g[k] = Step(k)
  <2> HIDE DEF Step
  <2> QED
    BY <1>4
<1> DEFINE Sound(k) ==
             /\ g[k] \in Kept /\ g[k].count \in 0..k
             /\ g[k].count > 1 => T[g[k].count] <= M
             /\ ~g[k].full => g[k].count = k /\ g[k].total = T[k]
             /\ g[k].full => g[k].count > 0 /\ g[k].count < k /\ T[g[k].count + 1] > M
           All == {m \in Nat : m <= n => Sound(m)}
<1>6. 0 \in All
  <2>1. Step(0) = [count |-> 0, total |-> 0, full |-> FALSE] /\ 0 \in 0..n
    BY <1>3
  <2>2. g[0] = [count |-> 0, total |-> 0, full |-> FALSE]
    <3> HIDE DEF Step
    <3> QED
      BY <1>5, <2>1
  <2>3. /\ g[0] \in Kept /\ g[0].count = 0 /\ g[0].total = 0 /\ ~g[0].full
    BY <2>2 DEF Kept
  <2>4. Sound(0)
    <3> HIDE DEF Step
    <3> QED
      BY <1>2, <2>3
  <2> QED
    BY <2>4
<1>7. ASSUME NEW m \in Nat, m \in All PROVE m + 1 \in All
  <2> SUFFICES ASSUME m + 1 <= n PROVE Sound(m + 1)
    OBVIOUS
  <2>1. /\ m + 1 \in 0..n /\ m + 1 \in 1..n /\ m \in 0..n /\ (m + 1) - 1 = m /\ m + 1 # 0
        /\ m <= n
    BY <1>3
  <2> DEFINE v == g[m]
             w == g[m + 1]
             total == v.total + s[n - (m + 1) + 1]
  <2>2. /\ v \in Kept /\ v.count \in 0..m
        /\ v.count > 1 => T[v.count] <= M
        /\ ~v.full => v.count = m /\ v.total = T[m]
        /\ v.full => v.count > 0 /\ v.count < m /\ T[v.count + 1] > M
    BY <1>7, <2>1
  <2>3. w = IF v.full \/ (v.count > 0 /\ total > M)
            THEN [v EXCEPT !.full = TRUE]
            ELSE [count |-> m + 1, total |-> total, full |-> FALSE]
    BY <1>5, <2>1
  <2>4. ~v.full => total = T[m + 1]
    BY <1>2, <2>1, <2>2
  <2>5. T[m + 1] \in Nat /\ T[m] \in Nat
    BY <1>2, <2>1
  <2> HIDE DEF v, w, total, Step
  <2>6. CASE v.full
    <3>1. w = [v EXCEPT !.full = TRUE]
      BY <2>3, <2>6
    <3>2. w = v
      BY <2>2, <2>6, <3>1 DEF Kept
    <3>3. v.count \in 0..(m + 1) /\ v.count < m + 1
      BY <2>2
    <3> QED
      BY <2>2, <2>6, <3>2, <3>3 DEF w
  <2>7. CASE ~v.full /\ v.count > 0 /\ total > M
    <3>1. w = [v EXCEPT !.full = TRUE]
      BY <2>3, <2>7
    <3>2. w \in Kept /\ w.count = v.count /\ w.full
      BY <2>2, <3>1 DEF Kept
    <3>3. v.count = m /\ m > 0 /\ T[m + 1] > M /\ m \in 0..(m + 1) /\ m < m + 1
      BY <2>2, <2>4, <2>7
    <3>4. m > 1 => T[m] <= M
      BY <2>2, <3>3
    <3> QED
      BY <3>2, <3>3, <3>4 DEF w
  <2>8. CASE ~v.full /\ ~(v.count > 0 /\ total > M)
    <3>1. w = [count |-> m + 1, total |-> total, full |-> FALSE]
      BY <2>3, <2>8
    <3>2. total \in Nat /\ total = T[m + 1] /\ v.count = m
      BY <2>2, <2>4, <2>5, <2>8
    <3>3. w \in Kept /\ w.count = m + 1 /\ ~w.full /\ w.total = T[m + 1]
      BY <3>1, <3>2 DEF Kept
    <3>4. m + 1 > 1 => T[m + 1] <= M
      BY <2>5, <2>8, <3>2
    <3> QED
      BY <3>3, <3>4 DEF w
  <2> QED
    BY <2>6, <2>7, <2>8
<1> HIDE DEF All
<1>8. n \in All
  BY <1>3, <1>6, <1>7, Induction
<1>9. Sound(n)
  <2> HIDE DEF Sound
  <2> QED
    BY <1>3, <1>8 DEF All
<1>10. /\ g[n].count \in 0..n
       /\ g[n].count > 1 => T[g[n].count] <= M
       /\ g[n].count < n => g[n].count > 0 /\ T[g[n].count + 1] > M
  BY <1>3, <1>9
<1> DEFINE count == g[n].count
<1>11. KeepNewestWithinTotal(s, M) = Newest(s, count)
  BY <1>1 DEF n
<1> HIDE DEF count
<1>12. /\ count \in 0..n
       /\ count > 1 => T[count] <= M
       /\ count < n => count > 0 /\ T[count + 1] > M
  BY <1>10 DEF count
<1> QED
  BY <1>11, <1>12 DEF n, T

(* The sums of a newest part are those of the whole. *)
LEMMA TotalOfPart ==
  ASSUME NEW s \in Seq(Nat), NEW r \in Nat, NEW k \in 0..Len(Newest(s, r))
  PROVE  TotalOfNewest(Newest(s, r))[k] = TotalOfNewest(s)[k]
<1> DEFINE t == Newest(s, r)
           n == Len(s)
           j == Len(t)
           S == TotalOfNewest(s)
           P == TotalOfNewest(t)
<1>1. /\ n \in Nat /\ t \in Seq(Nat) /\ j \in 0..n
      /\ \A i \in 1..j : t[i] = s[n - j + i]
  <2>1. /\ t \in Seq(Nat) /\ j = Least(r, n)
        /\ \A i \in 1..Least(r, n) : t[i] = s[n - Least(r, n) + i]
    BY NewestIs
  <2>2. n \in Nat
    OBVIOUS
  <2> HIDE DEF t, n, j
  <2> QED
    BY <2>1, <2>2 DEF Least
<1>2. /\ P[0] = 0 /\ \A i \in 1..j : P[i] = P[i - 1] + t[j - i + 1]
  <2> HIDE DEF t
  <2> QED
    BY <1>1, TotalIs
<1>3. /\ S[0] = 0 /\ \A i \in 1..n : S[i] = S[i - 1] + s[n - i + 1]
  BY TotalIs
<1> HIDE DEF t, n, j, S, P
<1> DEFINE T == {m \in Nat : m <= j => P[m] = S[m]}
<1>4. 0 \in T
  BY <1>2, <1>3
<1>5. ASSUME NEW m \in Nat, m \in T PROVE m + 1 \in T
  <2> SUFFICES ASSUME m + 1 <= j PROVE P[m + 1] = S[m + 1]
    OBVIOUS
  <2> DEFINE i == m + 1
  <2>1. /\ i \in 1..j /\ i \in 1..n /\ i - 1 = m /\ j - i + 1 \in 1..j
        /\ n - j + (j - i + 1) = n - i + 1 /\ P[m] = S[m]
    BY <1>1, <1>5
  <2> HIDE DEF i
  <2>2. t[j - i + 1] = s[n - i + 1]
    BY <1>1, <2>1
  <2>3. P[i] = S[i]
    BY <1>2, <1>3, <2>1, <2>2
  <2> QED
    BY <2>3 DEF i
<1> HIDE DEF T
<1>6. k \in Nat /\ k <= j
  BY <1>1 DEF j, t
<1>7. k \in T
  BY <1>4, <1>5, <1>6, Induction
<1> QED
  BY <1>6, <1>7 DEF T, P, S, t

(* What is kept of the newest r is what is kept within both limits: as many *)
(* as fit.                                                                  *)
LEMMA KeepsAllThatFit ==
  ASSUME NEW s \in Seq(Nat), NEW r \in Nat, NEW M \in Nat
  PROVE  LET fits == {k \in 0..Len(s) : k <= r /\ (k > 1 => TotalOfNewest(s)[k] <= M)} IN
         /\ Max(fits) \in fits
         /\ KeepNewestWithinTotal(Newest(s, r), M) = Newest(s, Max(fits))
<1> DEFINE fits == {k \in 0..Len(s) : k <= r /\ (k > 1 => TotalOfNewest(s)[k] <= M)}
           t == Newest(s, r)
           n == Len(s)
           j == Len(t)
           T == TotalOfNewest(s)
<1>1. t \in Seq(Nat) /\ j = Least(r, n) /\ n \in Nat
  BY NewestIs
<1>2. PICK count \in 0..j :
         /\ KeepNewestWithinTotal(t, M) = Newest(t, count)
         /\ count > 1 => TotalOfNewest(t)[count] <= M
         /\ count < j => count > 0 /\ TotalOfNewest(t)[count + 1] > M
  <2> HIDE DEF t
  <2> QED
    BY <1>1, KeepsNewest
<1>3. \A k \in 0..j : TotalOfNewest(t)[k] = T[k]
  BY TotalOfPart
<1>4. \A a \in 0..n : T[a] \in Nat /\ \A b \in a..n : T[a] <= T[b]
  BY TotalIs, TotalGrows
<1>5. Newest(t, count) = Newest(s, count)
  BY NewestOfNewest
<1> HIDE DEF t, n, j, T
<1>6. /\ j \in Nat /\ j <= n /\ j <= r /\ count \in 0..n /\ count <= r /\ count \in Nat
      /\ \A k \in 0..n : k <= r => k <= j
  BY <1>1 DEF Least
<1>7. count > 1 => T[count] <= M
  BY <1>2, <1>3
<1>8. count < j => count > 0 /\ T[count + 1] > M
  <2>1. count < j => count + 1 \in 0..j
    BY <1>6
  <2> QED
    BY <1>2, <1>3, <2>1
<1>9. fits = {k \in 0..n : k <= r /\ (k > 1 => T[k] <= M)}
  BY DEF n, T
<1> HIDE DEF fits
<1>10. count \in fits
  BY <1>6, <1>7, <1>9
<1>11. ASSUME NEW k \in fits PROVE k <= count
  <2> SUFFICES ASSUME k > count PROVE FALSE
    BY <1>6, <1>9
  <2>1. k \in 0..n /\ k <= j /\ (k > 1 => T[k] <= M)
    BY <1>6, <1>9
  <2>2. count < j
    BY <1>6, <2>1
  <2>3. count + 1 \in 0..n /\ k \in (count + 1)..n /\ k > 1
    <3>1. count > 0
      BY <1>8, <2>2
    <3>2. k \in Nat /\ n \in Nat /\ k <= n /\ count + 1 <= k
      BY <1>1, <1>6, <2>1
    <3> QED
      BY <1>6, <3>1, <3>2
  <2>4. T[count + 1] > M /\ T[count + 1] <= T[k] /\ T[k] <= M /\ T[count + 1] \in Nat /\ T[k] \in Nat
    BY <1>4, <1>8, <2>1, <2>2, <2>3
  <2> QED
    BY <2>4
<1>12. fits \in SUBSET Nat
  BY <1>1, <1>9
<1>13. Max(fits) \in fits /\ \A k \in fits : k <= Max(fits)
  BY <1>10, <1>11, <1>12, MaxIsLast
<1>14. Max(fits) = count
  <2>1. \A a, b \in Nat : a <= b /\ b <= a => a = b
    OBVIOUS
  <2>2. count <= Max(fits) /\ Max(fits) <= count
    BY <1>10, <1>11, <1>13
  <2>3. count \in Nat /\ Max(fits) \in Nat
    BY <1>6, <1>12, <1>13
  <2> QED
    BY <2>1, <2>2, <2>3
<1> QED
  BY <1>2, <1>5, <1>13, <1>14 DEF t, fits

-----------------------------------------------------------------------------
(* The history is a sequence: its messages can be sorted. *)
Roles == \A m \in messages : m.role \in {"user", "assistant"}

LEMMA RolesHold == Spec => []Roles
<1>1. Init => Roles
  BY DEF Init, Roles
<1>2. Roles /\ [Next]_vars => Roles'
  <2> SUFFICES ASSUME Roles, [Next]_vars PROVE Roles'
    OBVIOUS
  <2>1. ASSUME NEW c \in Calls, Commit(c) PROVE Roles'
    <3>1. /\ Message(c, "user", call[c].conversation, call[c].seq).role = "user"
          /\ Message(c, "assistant", call[c].conversation, call[c].seq + 1).role = "assistant"
      BY DEF Message
    <3>2. messages' = messages \cup
             {Message(c, "user", call[c].conversation, call[c].seq),
              Message(c, "assistant", call[c].conversation, call[c].seq + 1)}
      BY <2>1 DEF Commit
    <3> QED
      BY <3>1, <3>2 DEF Roles
  <2>2. ASSUME NEW c \in Calls, CallStep(c), ~Commit(c) PROVE messages' = messages
    BY <2>2 DEF CallStep, Lookup, ReplayIdempotentRun, RefuseWebhook, Admit, Begin, Conversation,
                InsertRun, NextConversationSeq, Publish, db
  <2>3. ASSUME NEW c \in Calls, Refuse(c) \/ Receive(c) \/ StatementFails(c) \/ End(c)
        PROVE  messages' = messages
    BY <2>3 DEF Refuse, Receive, StatementFails, End, db
  <2>4. Start \/ Crash \/ UNCHANGED vars => messages' = messages
    BY DEF Start, Crash, vars, db
  <2>5. messages' = messages => Roles'
    BY DEF Roles
  <2> QED
    BY <2>1, <2>2, <2>3, <2>4, <2>5 DEF Next
<1> QED
  BY <1>1, <1>2, PTL DEF Spec

(* Among finitely many messages one has no later one. *)
Numbered(S) == \A m \in S : m.seq \in Nat /\ m.run \in Nat

LEMMA LatestOfAll ==
  ASSUME NEW S, IsFiniteSet(S), S # {}, Numbered(S)
  PROVE  \E m \in S : \A n \in S : ~Earlier(m, n)
<1> DEFINE seqs == [m \in S |-> m.seq]
<1>1. \A m \in S : seqs[m] = m.seq /\ seqs[m] \in Nat
  BY DEF Numbered
<1> HIDE DEF seqs
<1>2. PICK last \in S : \A m \in S : seqs[m] <= seqs[last]
  BY <1>1, LastOfAll
<1> DEFINE L == {m \in S : m.seq = last.seq}
           runs == [m \in L |-> m.run]
<1>3. IsFiniteSet(L) /\ L # {}
  BY <1>2, FS_Subset
<1>4. \A m \in L : runs[m] = m.run /\ runs[m] \in Nat
  BY DEF Numbered
<1>5. PICK m \in L : \A n \in L : runs[n] <= runs[m]
  <2> HIDE DEF L, runs
  <2> QED
    BY <1>3, <1>4, LastOfAll
<1>6. ASSUME NEW n \in S, Earlier(m, n) PROVE FALSE
  <2>1. /\ m \in S /\ m.seq = last.seq /\ n.seq <= m.seq /\ n.seq \in Nat /\ m.seq \in Nat
        /\ n.run \in Nat /\ m.run \in Nat
    BY <1>1, <1>2 DEF Numbered
  <2>2. n.seq = m.seq /\ m.run < n.run
    BY <1>6, <2>1 DEF Earlier
  <2>3. n.run <= m.run
    BY <1>4, <1>5, <2>1, <2>2
  <2> QED
    BY <2>1, <2>2, <2>3
<1> QED
  BY <1>6

Sorted(order, S, n) ==
  /\ order \in [1..n -> S]
  /\ \A m \in S : \E i \in 1..n : order[i] = m
  /\ \A i, j \in 1..n : i < j => ~Earlier(order[j], order[i])

LEMMA SortedExists ==
  ASSUME NEW S, IsFiniteSet(S), Numbered(S)
  PROVE  \E order : Sorted(order, S, Cardinality(S))
<1> DEFINE T == {n \in Nat : \A Q : IsFiniteSet(Q) /\ Numbered(Q) /\ Cardinality(Q) = n
                                    => \E order : Sorted(order, Q, n)}
<1>1. 0 \in T
  <2> SUFFICES ASSUME NEW Q, IsFiniteSet(Q), Cardinality(Q) = 0
               PROVE  \E order : Sorted(order, Q, 0)
    OBVIOUS
  <2>1. Q = {}
    BY FS_EmptySet
  <2>2. Sorted([i \in 1..0 |-> i], Q, 0)
    BY <2>1 DEF Sorted
  <2> QED
    BY <2>2
<1>2. ASSUME NEW n \in Nat, n \in T PROVE n + 1 \in T
  <2> SUFFICES ASSUME NEW Q, IsFiniteSet(Q), Numbered(Q), Cardinality(Q) = n + 1
               PROVE  \E order : Sorted(order, Q, n + 1)
    OBVIOUS
  <2>0. Q # {}
    BY FS_EmptySet
  <2>1. PICK m \in Q : \A s \in Q : ~Earlier(m, s)
    BY <2>0, LatestOfAll
  <2> DEFINE R == Q \ {m}
  <2>2. Cardinality(R) = n /\ IsFiniteSet(R)
    <3>1. IsFiniteSet(R) /\ Cardinality(R) = Cardinality(Q) - 1
      BY FS_RemoveElement, FS_Subset
    <3> QED
      BY <3>1
  <2>3. Numbered(R)
    BY DEF Numbered
  <2>4. PICK f : Sorted(f, R, n)
    BY <1>2, <2>2, <2>3
  <2> DEFINE g == [i \in 1..(n + 1) |-> IF i = n + 1 THEN m ELSE f[i]]
  <2>5. \A i \in 1..(n + 1) : i = n + 1 \/ i \in 1..n
    OBVIOUS
  <2>6. \A i \in 1..n : f[i] \in R
    BY <2>4 DEF Sorted
  <2>7. /\ g \in [1..(n + 1) -> Q] /\ g[n + 1] = m
        /\ \A i \in 1..n : g[i] = f[i] /\ i \in 1..(n + 1) /\ i < n + 1
    BY <2>5, <2>6
  <2>8. n + 1 \in 1..(n + 1)
    OBVIOUS
  <2> HIDE DEF g
  <2>9. ASSUME NEW r \in Q PROVE \E i \in 1..(n + 1) : g[i] = r
    <3>1. CASE r = m
      BY <2>7, <2>8, <3>1
    <3>2. CASE r # m
      BY <2>4, <2>7, <3>2 DEF Sorted
    <3> QED
      BY <3>1, <3>2
  <2>10. ASSUME NEW i \in 1..(n + 1), NEW j \in 1..(n + 1), i < j PROVE ~Earlier(g[j], g[i])
    <3>1. i \in 1..n
      BY <2>10
    <3>2. g[i] = f[i] /\ f[i] \in R
      BY <2>6, <2>7, <3>1
    <3>3. CASE j = n + 1
      BY <2>1, <2>7, <3>2, <3>3
    <3>4. CASE j \in 1..n
      BY <2>4, <2>7, <2>10, <3>1, <3>4 DEF Sorted
    <3> QED
      BY <2>5, <3>3, <3>4
  <2>11. Sorted(g, Q, n + 1)
    BY <2>7, <2>9, <2>10 DEF Sorted
  <2> QED
    BY <2>11
<1> HIDE DEF T
<1>3. Cardinality(S) \in T
  BY <1>1, <1>2, Induction, FS_CardinalityType
<1> QED
  BY <1>3 DEF T

LEMMA HistoryIsSeq ==
  ASSUME IInv, NEW c
  PROVE  History(c) \in Seq(messages)
<1> DEFINE v == (CHOOSE m \in messages : m.run = c).conversation
           others == {m \in messages : m.conversation = v /\ m.run # c /\ Length(m) > 0}
<1>1. IsFiniteSet(others)
  BY FS_Subset DEF IInv, Typed
<1>2. Numbered(others)
  BY RunCreationAssumption DEF IInv, Typed, Numbered
<1>3. others \subseteq messages
  OBVIOUS
<1> DEFINE n == Cardinality(others)
           Right(f) == /\ \A m \in others : \E i \in 1..n : f[i] = m
                       /\ \A i, j \in 1..n : i < j => ~Earlier(f[j], f[i])
<1>4. History(c) = CHOOSE f \in [1..n -> others] : Right(f)
  BY Zenon DEF History
<1> HIDE DEF others
<1>5. n \in Nat
  BY <1>1, FS_CardinalityType
<1>6. \E f \in [1..n -> others] : Right(f)
  BY <1>1, <1>2, SortedExists, Zenon DEF Sorted
<1> HIDE DEF n, Right
<1>7. History(c) \in [1..n -> others]
  BY <1>4, <1>6
<1> QED
  BY <1>3, <1>5, <1>7

LEMMA SizesAreNumbers ==
  ASSUME IInv, Roles, NEW s \in Seq(messages), NEW policy, policy.maxMessageChars \in Nat
  PROVE  /\ Sizes(s, policy) \in Seq(Nat) /\ Len(Sizes(s, policy)) = Len(s)
         /\ \A i \in 1..Len(s) :
              Sizes(s, policy)[i] = Limited(Length(s[i]), policy.maxMessageChars)
<1>1. ASSUME NEW m \in messages PROVE Length(m) \in Nat
  <2>1. call[m.run].body.prompt \in Nat
    BY CallFields DEF IInv, Typed, Body
  <2>2. m.role = "user" \/ m.role = "assistant"
    BY DEF Roles
  <2>3. AnswerLength \in Nat
    BY DEF AnswerLength
  <2> QED
    BY <2>1, <2>2, <2>3 DEF Length
<1>2. \A l \in Nat : Limited(l, policy.maxMessageChars) \in Nat
  BY DEF Limited
<1> DEFINE size(i) == Limited(Length(s[i]), policy.maxMessageChars)
<1>3. ASSUME NEW i \in 1..Len(s) PROVE size(i) \in Nat
  <2>1. s[i] \in messages
    OBVIOUS
  <2>2. Length(s[i]) \in Nat
    BY <1>1, <2>1
  <2> QED
    BY <1>2, <2>2
<1>4. Sizes(s, policy) = [i \in 1..Len(s) |-> size(i)]
  BY DEF Sizes
<1> HIDE DEF size
<1>5. /\ [i \in 1..Len(s) |-> size(i)] \in Seq(Nat)
      /\ Len([i \in 1..Len(s) |-> size(i)]) = Len(s)
  BY <1>3
<1>6. \A i \in 1..Len(s) : Sizes(s, policy)[i] = size(i)
  BY <1>4
<1> QED
  BY <1>4, <1>5, <1>6 DEF size

(* The sizes of the newest are the newest of the sizes. *)
LEMMA SizesOfNewest ==
  ASSUME IInv, Roles, NEW s \in Seq(messages), NEW n \in Nat,
         NEW policy, policy.maxMessageChars \in Nat
  PROVE  Sizes(Newest(s, n), policy) = Newest(Sizes(s, policy), n)
<1> DEFINE z == Sizes(s, policy)
           t == Newest(s, n)
           y == Sizes(t, policy)
           x == Newest(z, n)
           l == Len(s)
           k == Least(n, l)
           size(m) == Limited(Length(m), policy.maxMessageChars)
<1>1. /\ t \in Seq(messages) /\ Len(t) = k
      /\ \A i \in 1..k : t[i] = s[l - k + i]
  BY NewestIs
<1>2. z \in Seq(Nat) /\ Len(z) = l /\ \A i \in 1..l : z[i] = size(s[i])
  BY SizesAreNumbers
<1>3. l \in Nat /\ k \in 0..l
  BY DEF Least
<1>4. y \in Seq(Nat) /\ Len(y) = k /\ \A i \in 1..k : y[i] = size(t[i])
  <2> HIDE DEF t
  <2> QED
    BY <1>1, SizesAreNumbers
<1> HIDE DEF t, y, z, size
<1>5. /\ x \in Seq(Nat) /\ Len(x) = k /\ \A i \in 1..k : x[i] = z[l - k + i]
  <2>1. /\ x \in Seq(Nat) /\ Len(x) = Least(n, Len(z))
        /\ \A i \in 1..Least(n, Len(z)) : x[i] = z[Len(z) - Least(n, Len(z)) + i]
    BY <1>2, NewestIs
  <2> HIDE DEF x
  <2> QED
    BY <1>2, <2>1
<1> HIDE DEF x, k, l
<1>6. \A i \in 1..k : l - k + i \in 1..l
  BY <1>3
<1>7. \A i \in 1..k : y[i] = x[i]
  BY <1>1, <1>2, <1>4, <1>5, <1>6, ZenonT(40)
<1>8. y = x
  BY <1>4, <1>5, <1>7, SameSeq
<1> QED
  BY <1>8 DEF y, x, z, t

AllPolicies == [recentMessages : Nat, maxMessageChars : Nat, maxTotalChars : Nat]

LEMMA ContextIsNewest ==
  ASSUME IInv, Roles, NEW c, NEW policy \in AllPolicies
  PROVE  HoldsNewestPart(c, policy)
<1> DEFINE h == History(c)
           r == policy.recentMessages
           M == policy.maxTotalChars
           z == Sizes(h, policy)
<1>1. r \in Nat /\ policy.maxMessageChars \in Nat /\ M \in Nat
  BY DEF AllPolicies
<1>2. h \in Seq(messages)
  BY HistoryIsSeq
<1>3. z \in Seq(Nat) /\ Len(z) = Len(h)
  BY <1>1, <1>2, SizesAreNumbers
<1> DEFINE fits == {k \in 0..Len(h) : k <= r /\ (k > 1 => TotalOfNewest(z)[k] <= M)}
           largest == Max(fits)
<1> HIDE DEF h, r, M, z
<1>4. largest \in fits /\ KeepNewestWithinTotal(Newest(z, r), M) = Newest(z, largest)
  BY <1>1, <1>3, KeepsAllThatFit
<1>5. largest \in Nat
  <2>1. fits \subseteq Nat
    OBVIOUS
  <2> HIDE DEF fits, largest
  <2> QED
    BY <1>4, <2>1
<1>6. ListConversationMessages(c, r) = Newest(h, r)
  <2>1. CASE r = 0
    <3>1. Newest(h, 0) \in Seq(messages) /\ Len(Newest(h, 0)) = 0
      <4>1. Least(0, Len(h)) = 0
        BY <1>2 DEF Least
      <4> QED
        BY <1>2, <4>1, NewestIs
    <3>2. Newest(h, 0) = <<>>
      BY <3>1
    <3> QED
      BY <2>1, <3>2 DEF ListConversationMessages
  <2>2. CASE r > 0
    BY <1>1, <2>2 DEF ListConversationMessages, h
  <2> QED
    BY <1>1, <2>1, <2>2
<1>7. Newest(Newest(h, r), r) = Newest(h, r)
  BY <1>1, <1>2, NewestOfNewest
<1>8. Sizes(Newest(h, r), policy) = Newest(z, r)
  BY <1>1, <1>2, SizesOfNewest DEF z
<1>9. PromptContext(c, policy) = KeepNewestWithinTotal(Newest(z, r), M)
  BY <1>6, <1>7, <1>8 DEF PromptContext, r, M
<1>10. Sizes(Newest(h, largest), policy) = Newest(z, largest)
  <2> HIDE DEF largest
  <2> QED
    BY <1>1, <1>2, <1>5, SizesOfNewest DEF z
<1>11. PromptContext(c, policy) = Sizes(Newest(h, largest), policy)
  BY <1>4, <1>9, <1>10
<1> QED
  BY <1>11 DEF HoldsNewestPart, h, r, M, z

(* Whatever the conversation and the limits, the context of a prompt is the     *)
(* newest part of the conversation, and all of it that fits.                    *)
THEOREM ContextHolds ==
  Spec => [](/\ ContextIsNewestPart
             /\ \A c \in Calls, policy \in AllPolicies : HoldsNewestPart(c, policy))
<1>1. Policies \subseteq AllPolicies
  BY DEF Policies, AllPolicies
<1>2. IInv /\ Roles => /\ ContextIsNewestPart
                      /\ \A c \in Calls, policy \in AllPolicies : HoldsNewestPart(c, policy)
  BY <1>1, ContextIsNewest DEF ContextIsNewestPart
<1> QED
  BY <1>2, CreationInvariant, RolesHold, PTL
=============================================================================
