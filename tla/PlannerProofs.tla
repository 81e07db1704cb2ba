----------------------------- MODULE PlannerProofs -----------------------------
(***************************************************************************)
(* Theorems about the pocket agent's chats and their bridge to Telegram.   *)
(*                                                                         *)
(* PlannerChat, for any sizes of batches, rounds, queue and retries, and   *)
(* any number of messages, mails, approvals, stops, clears, faults and     *)
(* restarts: the transcript and the mailbox keep what they were given,     *)
(* nothing is left waiting, a stopped turn begins nothing, and one model   *)
(* at a time has the chat.  The invariant is stated of a queue, a memory   *)
(* and a history (Holds), not of the variables, so that what draining does *)
(* to a memory (DrainNext) is proved once and used after whatever step     *)
(* ends in it.                                                             *)
(*                                                                         *)
(* TelegramBridge, for any slots, caps and scenarios, so for any number of *)
(* updates, restarts and disablings: an update is forgotten only after it  *)
(* was taken care of, and handled no more often than the interruptions     *)
(* account for; an answer to a message from Telegram is relayed, and an    *)
(* idle chat is not.                                                       *)
(***************************************************************************)
EXTENDS PlannerChat, TelegramBridge, Integers, FiniteSetTheorems, SequenceTheorems,
        WellFoundedInduction, TLAPS

(* What the memory, a turn and the history are made of.                    *)
Stages  == {"none", "prompt", "deliver", "erase", "model", "tools", "running", "opening",
            "deciding", "answer", "compact"}
Origins == {"none", "user", "queue", "wake", "resumed", "compact"}
Turns   == [stage : Stages, origin : Origins, calls : 0..MaxCalls, round : 0..MaxRounds,
            snapshot : Seq(Nat), got : BOOLEAN, aborted : BOOLEAN, last : BOOLEAN]
Memory  == [turn : Turns, controller : {"none", "turn", "live"}, parked : Seq(Parks),
            dismiss : {"none", "result", "live", "complete"}, draining : BOOLEAN,
            stalled : BOOLEAN, mailbox : Seq(Nat), held : Seq(Nat),
            attempts : 0..MaxRetries + 1, retry : BOOLEAN, gaveUp : BOOLEAN, alarm : BOOLEAN,
            listener : BOOLEAN, setup : BOOLEAN, liveOn : BOOLEAN, expiry : BOOLEAN,
            chain : Seq({"tools", "record"}), answering : BOOLEAN]
History == [sent : Nat, said : Seq(Nat), withdrawn : SUBSET Nat, between : SUBSET Nat,
            mailed : Nat, told : Seq(Nat), dropped : SUBSET Nat, torn : SUBSET Nat,
            crossed : BOOLEAN, split : BOOLEAN, raced : BOOLEAN, left : BOOLEAN]

(* Batches of the planner's own that wait for a person.                     *)
Batches(m) == {i \in DOMAIN m.parked : m.parked[i].kind # "live"}

(* Only a turn for the queue drains it, only one for the mail tells any.    *)
Settled(m) ==
    /\ m.draining => Driven(m) /\ m.turn.origin = "queue"
    /\ m.held # <<>> => Driven(m) /\ m.turn.origin = "wake"

(* A turn that is driven has no batch parked, and at most one is parked: so *)
(* no batch is taken up beside a turn.                                      *)
OneDriver(m) ==
    /\ Settled(m)
    /\ Driven(m) => Batches(m) = {}
    /\ \A i, j \in Batches(m) : i = j
    /\ \A i \in Batches(m) : m.parked[i].calls \in 1..MaxCalls
    /\ m.turn.stage \in {"running", "opening", "deciding", "answer"} => m.turn.calls > 0
    /\ m.liveOn => m.expiry

(* The queue's numbers increase, and a turn delivers the oldest of them.    *)
Increasing(s) == \A i, j \in DOMAIN s : i < j => s[i] < s[j]
Writes(m) == IF m.turn.stage = "erase" THEN {Head(m.turn.snapshot)} ELSE {}

Sound(q, m, l) ==
    /\ Len(q) <= QueueCap
    /\ 1..l.sent = Range(l.said) \cup Range(q) \cup l.withdrawn
    /\ Increasing(q)
    /\ \A i, j \in DOMAIN l.said :
         i < j => l.said[i] < l.said[j] \/ (l.said[i] = l.said[j] /\ l.said[i] \in l.between)
    /\ \A x \in Range(l.said), r \in Range(q) : x < r \/ (x = r /\ r \in l.between \cup Writes(m))
    /\ l.withdrawn \cap Range(l.said) \subseteq l.between
    /\ l.withdrawn \cap Range(q) = {}

Snapshot(q, m, l) ==
    /\ m.turn.stage \in {"deliver", "erase"} =>
         /\ Increasing(m.turn.snapshot)
         /\ Range(m.turn.snapshot) \subseteq 1..l.sent
         /\ \A r \in Range(q), x \in Range(m.turn.snapshot) : r < x => r \in Range(m.turn.snapshot)
    /\ m.turn.stage = "erase" => m.turn.snapshot # <<>> /\ Head(m.turn.snapshot) \in Range(l.said)

(* While a call waits for its result, a user prompt follows it only in a race. *)
Pending(m) ==
    \/ m.turn.stage \in {"tools", "running", "opening", "deciding", "answer"}
    \/ Batches(m) # {}
    \/ m.dismiss = "result"
Paired(m, l) ==
    /\ l.split => l.raced
    /\ l.crossed /\ Pending(m) => l.raced

(* Mail is told once, unless a wake that told it threw; only the numbers in *)
(* S may be in a sequence twice.                                            *)
Twice(s, S) == \A i, j \in DOMAIN s : i # j /\ s[i] = s[j] => s[i] \in S
Once(s)     == Twice(s, {Timer})

Conserved(m, l) ==
    /\ 1..l.mailed = ((Range(m.mailbox) \cup Range(m.held)) \ {Timer}) \cup Range(l.told) \cup l.dropped
    /\ Twice(l.told, l.torn)
    /\ Range(m.mailbox) \cap Range(l.told) \subseteq l.torn
    /\ Range(m.mailbox) \cap Range(m.held) \subseteq {Timer}
    /\ Once(m.mailbox)
    /\ Once(m.held)
    /\ m.turn.stage = "prompt" => Range(m.held) \cap Range(l.told) \subseteq l.torn
    /\ m.turn.stage # "prompt" => Range(m.held) \ {Timer} \subseteq Range(l.told)

OneAlarm(m, l) ==
    l.torn = {} =>
      /\ \A i, j \in DOMAIN m.mailbox : m.mailbox[i] = Timer /\ m.mailbox[j] = Timer => i = j
      /\ m.alarm => Timer \notin Range(m.mailbox)

(* All of it, of a queue, a memory and a history.                           *)
Holds(q, m, l) ==
    /\ q \in Seq(Nat) /\ m \in Memory /\ l \in History
    /\ OneDriver(m)
    /\ Sound(q, m, l)
    /\ Snapshot(q, m, l)
    /\ Paired(m, l)
    /\ Conserved(m, l)
    /\ OneAlarm(m, l)

ChatInvariant ==
    /\ configured \in BOOLEAN
    /\ budget \in [Acts -> Nat]
    /\ Holds(rows, mem, log)

-----------------------------------------------------------------------------
(* Sequences.                                                               *)

\* Two numbers in a set of indices have different ranks in it, the later the
\* higher, and no rank is left out.
LEMMA Ranks ==
  ASSUME NEW N \in Nat, NEW at \in SUBSET (1..N)
  PROVE  /\ IsFiniteSet(at) /\ Cardinality(at) \in 0..N
         /\ \A i \in at : Cardinality(at \cap 1..i) \in 1..Cardinality(at)
         /\ \A i, j \in at : i < j => Cardinality(at \cap 1..i) < Cardinality(at \cap 1..j)
         /\ \A n \in 1..Cardinality(at) : \E i \in at : Cardinality(at \cap 1..i) = n
<1> DEFINE R(i) == Cardinality(at \cap 1..i)
<1>1. IsFiniteSet(at) /\ Cardinality(at) \in 0..N
  <2>1. IsFiniteSet(1..N) /\ Cardinality(1..N) = N
    BY FS_Interval
  <2>2. IsFiniteSet(at) /\ Cardinality(at) <= Cardinality(1..N)
    BY <2>1, FS_Subset
  <2>3. Cardinality(at) \in Nat
    BY <2>2, FS_CardinalityType
  <2> QED BY <2>1, <2>2, <2>3
<1>2. \A i \in 1..N : IsFiniteSet(at \cap 1..i) /\ R(i) \in Nat /\ R(i) <= Cardinality(at)
  <2> TAKE i \in 1..N
  <2>1. IsFiniteSet(at \cap 1..i) /\ R(i) <= Cardinality(at)
    BY <1>1, FS_Subset
  <2> QED BY <2>1, FS_CardinalityType
<1>3. ASSUME NEW i \in at PROVE R(i) \in 1..Cardinality(at)
  <2>1. i \in 1..N
    OBVIOUS
  <2>2. at \cap 1..i # {}
    BY <2>1
  <2>3. R(i) # 0
    BY <2>1, <2>2, <1>2, FS_EmptySet
  <2> QED BY <2>1, <2>3, <1>1, <1>2
<1>4. ASSUME NEW i \in at, NEW j \in at, i < j PROVE R(i) < R(j)
  <2>1. i \in 1..N /\ j \in 1..N
    OBVIOUS
  <2>2. at \cap 1..i \in SUBSET (at \cap 1..j) /\ at \cap 1..i # at \cap 1..j
    BY <2>1, <1>4
  <2>3. IsFiniteSet(at \cap 1..j) /\ R(j) \in Nat /\ R(i) \in Nat
    BY <2>1, <1>2
  <2>4. R(i) <= R(j) /\ (R(j) = R(i) => at \cap 1..j = at \cap 1..i)
    BY <2>2, <2>3, FS_Subset
  <2> QED BY <2>2, <2>3, <2>4
<1>5. ASSUME NEW n \in 1..Cardinality(at) PROVE \E i \in at : R(i) = n
  <2> DEFINE f == [i \in at |-> R(i)]
  <2>1. IsFiniteSet(1..Cardinality(at)) /\ Cardinality(1..Cardinality(at)) = Cardinality(at)
    BY <1>1, FS_Interval
  <2>2. f \in [at -> 1..Cardinality(at)]
    BY <1>3
  <2>3. \A i, j \in at : f[i] = f[j] => i = j
    <3> TAKE i, j \in at
    <3>1. i \in Int /\ j \in Int /\ R(i) \in Int /\ R(j) \in Int
      BY <1>2
    <3> QED BY <3>1, <1>4
  <2>4. f \in Injection(at, 1..Cardinality(at))
    BY <2>2, <2>3 DEF Injection, IsInjective
  <2>5. f \in Surjection(at, 1..Cardinality(at))
    BY <2>1, <2>4, <1>1, FS_Injection
  <2> QED BY <2>5 DEF Surjection
<1> QED BY <1>1, <1>3, <1>4, <1>5

\* What Those keeps: the members of the set, in the order of the sequence.
LEMMA ThoseKeep ==
  ASSUME NEW D, NEW s \in Seq(D), NEW S
  PROVE  /\ Those(s, S) \in Seq(D)
         /\ Len(Those(s, S)) = Cardinality({i \in DOMAIN s : s[i] \in S})
         /\ Len(Those(s, S)) <= Len(s)
         /\ Range(Those(s, S)) = Range(s) \cap S
         /\ \E e \in [1..Len(Those(s, S)) -> DOMAIN s] :
              /\ \A k \in 1..Len(Those(s, S)) : Those(s, S)[k] = s[e[k]]
              /\ \A k, l \in 1..Len(Those(s, S)) : k < l => e[k] < e[l]
<1> DEFINE at == {i \in DOMAIN s : s[i] \in S}
           R(i) == Cardinality(at \cap 1..i)
           N == Cardinality(at)
           e == [n \in 1..N |-> CHOOSE i \in at : R(i) = n]
           t == Those(s, S)
<1>1. DOMAIN s = 1..Len(s) /\ Len(s) \in Nat /\ at \in SUBSET (1..Len(s))
  OBVIOUS
<1>2. /\ N \in 0..Len(s)
      /\ \A i \in at : R(i) \in 1..N
      /\ \A i, j \in at : i < j => R(i) < R(j)
      /\ \A n \in 1..N : \E i \in at : R(i) = n
  BY <1>1, Ranks
<1>3. \A n \in 1..N : e[n] \in at /\ R(e[n]) = n
  BY <1>2
<1>4. t = [n \in 1..N |-> s[e[n]]]
  BY DEF Those
<1> HIDE DEF t, e, R, at, N
<1>5. \A i \in at : i \in 1..Len(s) /\ s[i] \in S /\ s[i] \in D
  BY <1>1 DEF at
<1>6. t \in Seq(D) /\ Len(t) = N
  BY <1>2, <1>3, <1>4, <1>5
<1>7. \A k, l \in 1..N : k < l => e[k] < e[l]
  <2> TAKE k, l \in 1..N
  <2>1. e[k] \in Int /\ e[l] \in Int /\ k \in Int /\ l \in Int
    BY <1>2, <1>3, <1>5
  <2> QED BY <2>1, <1>2, <1>3
<1>8. e \in [1..N -> DOMAIN s]
  <2>1. e = [n \in 1..N |-> e[n]]
    BY DEF e
  <2> QED BY <2>1, <1>1, <1>3, <1>5
<1>9. Range(t) \subseteq Range(s) \cap S
  BY <1>1, <1>2, <1>3, <1>4, <1>5, ZenonT(60) DEF Range
<1>10. ASSUME NEW x \in Range(s) \cap S PROVE x \in Range(t)
  <2>1. PICK i \in at : s[i] = x
    BY DEF Range, at
  <2>2. R(i) \in 1..N /\ e[R(i)] \in at /\ R(e[R(i)]) = R(i)
    BY <1>2, <1>3
  <2>3. e[R(i)] = i
    <3>1. i \in Int /\ e[R(i)] \in Int /\ R(i) \in Int
      BY <1>2, <1>5, <2>2
    <3> QED BY <3>1, <2>2, <1>2
  <2> QED BY <2>1, <2>2, <2>3, <1>4 DEF Range
<1>11. t \in Seq(D) /\ Len(t) = N /\ Len(t) <= Len(s) /\ Range(t) = Range(s) \cap S
  BY <1>2, <1>6, <1>9, <1>10
<1>12. \E f \in [1..Len(t) -> DOMAIN s] :
         /\ \A k \in 1..Len(t) : t[k] = s[f[k]]
         /\ \A k, l \in 1..Len(t) : k < l => f[k] < f[l]
  <2>1. /\ e \in [1..Len(t) -> DOMAIN s]
        /\ \A k \in 1..Len(t) : t[k] = s[e[k]]
        /\ \A k, l \in 1..Len(t) : k < l => e[k] < e[l]
    BY <1>4, <1>6, <1>7, <1>8
  <2> QED BY <2>1
<1> QED BY <1>11, <1>12 DEF t, at, N

\* What a sequence holds after an append, a concatenation and a tail.
LEMMA RangeOfAppend ==
  ASSUME NEW D, NEW s \in Seq(D), NEW x \in D
  PROVE  Append(s, x) \in Seq(D) /\ Range(Append(s, x)) = Range(s) \cup {x}
<1>1. Append(s, x) \in Seq(D) /\ Len(Append(s, x)) = Len(s) + 1
  OBVIOUS
<1>2. \A i \in 1..Len(s) : Append(s, x)[i] = s[i]
  OBVIOUS
<1>3. Append(s, x)[Len(s) + 1] = x
  OBVIOUS
<1> QED BY <1>1, <1>2, <1>3 DEF Range

\* Of a concatenation.
LEMMA RangeOfConcat ==
  ASSUME NEW D, NEW s \in Seq(D), NEW t \in Seq(D)
  PROVE  s \o t \in Seq(D) /\ Range(s \o t) = Range(s) \cup Range(t)
<1>1. s \o t \in Seq(D) /\ Len(s \o t) = Len(s) + Len(t)
  OBVIOUS
<1>2. \A i \in 1..Len(s) : (s \o t)[i] = s[i]
  OBVIOUS
<1>3. \A i \in 1..Len(t) : (s \o t)[Len(s) + i] = t[i]
  OBVIOUS
<1>4. \A i \in 1..Len(s \o t) : (s \o t)[i] \in Range(s) \cup Range(t)
  BY <1>1 DEF Range
<1>5. Range(s \o t) \subseteq Range(s) \cup Range(t)
  BY <1>1, <1>4 DEF Range
<1>6. Range(s) \subseteq Range(s \o t)
  BY <1>1, <1>2 DEF Range
<1>7. ASSUME NEW x \in Range(t) PROVE x \in Range(s \o t)
  <2>1. PICK i \in 1..Len(t) : t[i] = x
    BY DEF Range
  <2>2. Len(s) + i \in 1..Len(s \o t) /\ (s \o t)[Len(s) + i] = x
    BY <2>1, <1>1, <1>3
  <2> QED BY <2>2, <1>1 DEF Range
<1> QED BY <1>1, <1>5, <1>6, <1>7

\* Of a tail, one shorter, and of the head before it.
LEMMA RangeOfTail ==
  ASSUME NEW D, NEW s \in Seq(D), s # <<>>
  PROVE  /\ Tail(s) \in Seq(D) /\ Head(s) \in D /\ Len(Tail(s)) = Len(s) - 1
         /\ Len(s) > 0 /\ Head(s) = s[1]
         /\ \A i \in 1..Len(s) - 1 : Tail(s)[i] = s[i + 1]
         /\ Range(s) = {Head(s)} \cup Range(Tail(s))
<1>1. /\ Tail(s) \in Seq(D) /\ Head(s) \in D /\ Len(Tail(s)) = Len(s) - 1
      /\ Len(s) > 0 /\ Head(s) = s[1]
      /\ \A i \in 1..Len(s) - 1 : Tail(s)[i] = s[i + 1]
  OBVIOUS
<1>2. \A i \in 1..Len(s) : s[i] \in {Head(s)} \cup Range(Tail(s))
  <2> TAKE i \in 1..Len(s)
  <2>1. CASE i = 1
    BY <2>1, <1>1
  <2>2. CASE i # 1
    <3>1. i - 1 \in 1..Len(s) - 1 /\ Tail(s)[i - 1] = s[(i - 1) + 1] /\ (i - 1) + 1 = i
      BY <2>2, <1>1
    <3>2. i - 1 \in DOMAIN Tail(s) /\ Tail(s)[i - 1] = s[i]
      BY <3>1, <1>1
    <3>3. Tail(s)[i - 1] \in Range(Tail(s))
      BY <3>2 DEF Range
    <3> QED BY <3>2, <3>3
  <2> QED BY <2>1, <2>2
<1>3. \A i \in 1..Len(Tail(s)) : Tail(s)[i] \in Range(s)
  <2> TAKE i \in 1..Len(Tail(s))
  <2>1. i \in 1..Len(s) - 1 /\ i + 1 \in 1..Len(s)
    BY <1>1
  <2> QED BY <2>1, <1>1 DEF Range
<1>4. Head(s) \in Range(s)
  BY <1>1 DEF Range
<1> QED BY <1>1, <1>2, <1>3, <1>4 DEF Range

\* The empty sequence holds nothing.
LEMMA RangeOfNone == Range(<<>>) = {}
  BY DEF Range

\* Two sequences with no number in common but those that may be there twice.
LEMMA TwiceInConcat ==
  ASSUME NEW s \in Seq(Nat), NEW t \in Seq(Nat), NEW S, Twice(s, S), Twice(t, S),
         Range(s) \cap Range(t) \subseteq S
  PROVE  Twice(s \o t, S)
<1> DEFINE u == s \o t
<1>1. /\ u \in Seq(Nat) /\ DOMAIN u = 1..Len(s) + Len(t)
      /\ \A i \in 1..Len(s) + Len(t) : /\ i <= Len(s) => u[i] = s[i]
                                       /\ ~(i <= Len(s)) => u[i] = t[i - Len(s)]
  OBVIOUS
<1> HIDE DEF u
<1> SUFFICES ASSUME NEW i \in DOMAIN u, NEW j \in DOMAIN u, i # j, u[i] = u[j]
             PROVE  u[i] \in S
  BY DEF Twice, u
<1>2. i \in 1..Len(s) + Len(t) /\ j \in 1..Len(s) + Len(t) /\ Len(s) \in Nat /\ Len(t) \in Nat
  BY <1>1
<1>3. CASE i <= Len(s) /\ j <= Len(s)
  <2>1. i \in DOMAIN s /\ j \in DOMAIN s /\ u[i] = s[i] /\ u[j] = s[j]
    <3>1. i \in 1..Len(s) /\ j \in 1..Len(s)
      BY <1>2, <1>3
    <3> QED BY <3>1, <1>1, <1>2, <1>3, SMTT(40)
  <2> QED BY <2>1 DEF Twice
<1>4. CASE ~(i <= Len(s)) /\ ~(j <= Len(s))
  <2>1. /\ i - Len(s) \in DOMAIN t /\ j - Len(s) \in DOMAIN t /\ i - Len(s) # j - Len(s)
        /\ u[i] = t[i - Len(s)] /\ u[j] = t[j - Len(s)]
    BY <1>1, <1>2, <1>4, SMTT(40)
  <2> QED BY <2>1 DEF Twice
<1>5. CASE i <= Len(s) /\ ~(j <= Len(s))
  <2>1. i \in DOMAIN s /\ j - Len(s) \in DOMAIN t /\ u[i] = s[i] /\ u[j] = t[j - Len(s)]
    <3>1. i \in 1..Len(s) /\ j - Len(s) \in 1..Len(t)
      BY <1>2, <1>5
    <3>2. u[i] = s[i]
      BY <1>1, <1>2, <1>5
    <3>3. u[j] = t[j - Len(s)]
      BY <1>1, <1>2, <1>5
    <3>4. DOMAIN s = 1..Len(s) /\ DOMAIN t = 1..Len(t)
      OBVIOUS
    <3> QED BY <3>1, <3>2, <3>3, <3>4
  <2>2. u[i] \in Range(s) /\ u[j] \in Range(t)
    BY <2>1 DEF Range
  <2> QED BY <2>2
<1>6. CASE ~(i <= Len(s)) /\ j <= Len(s)
  <2>1. j \in DOMAIN s /\ i - Len(s) \in DOMAIN t /\ u[j] = s[j] /\ u[i] = t[i - Len(s)]
    <3>1. j \in 1..Len(s) /\ i - Len(s) \in 1..Len(t)
      BY <1>2, <1>6
    <3>2. u[j] = s[j]
      BY <1>1, <1>2, <1>6
    <3>3. u[i] = t[i - Len(s)]
      BY <1>1, <1>2, <1>6
    <3>4. DOMAIN s = 1..Len(s) /\ DOMAIN t = 1..Len(t)
      OBVIOUS
    <3> QED BY <3>1, <3>2, <3>3, <3>4
  <2>2. u[j] \in Range(s) /\ u[i] \in Range(t)
    BY <2>1 DEF Range
  <2> QED BY <2>2
<1> QED BY <1>3, <1>4, <1>5, <1>6

\* What is left of an increasing sequence increases, and what is appended to it
\* may be larger than the rest.
LEMMA IncreasingThose ==
  ASSUME NEW s \in Seq(Nat), Increasing(s), NEW S
  PROVE  Increasing(Those(s, S))
<1> DEFINE t == Those(s, S)
<1>1. t \in Seq(Nat)
  BY ThoseKeep
<1>2. PICK e \in [1..Len(t) -> DOMAIN s] :
        /\ \A k \in 1..Len(t) : t[k] = s[e[k]]
        /\ \A k, l \in 1..Len(t) : k < l => e[k] < e[l]
  BY ThoseKeep
<1> HIDE DEF t
<1> SUFFICES ASSUME NEW i \in DOMAIN t, NEW j \in DOMAIN t, i < j PROVE t[i] < t[j]
  BY DEF Increasing, t
<1>3. i \in 1..Len(t) /\ j \in 1..Len(t)
  BY <1>1
<1>4. e[i] \in DOMAIN s /\ e[j] \in DOMAIN s /\ e[i] < e[j] /\ t[i] = s[e[i]] /\ t[j] = s[e[j]]
  BY <1>2, <1>3
<1> QED BY <1>4 DEF Increasing

\* The head of an increasing sequence is its least.
LEMMA IncreasingTail ==
  ASSUME NEW s \in Seq(Nat), s # <<>>, Increasing(s)
  PROVE  /\ Increasing(Tail(s))
         /\ \A x \in Range(s) : Head(s) <= x
         /\ \A x \in Range(Tail(s)) : Head(s) < x
<1> DEFINE t == Tail(s)
<1>1. /\ t \in Seq(Nat) /\ DOMAIN t = 1..Len(s) - 1 /\ DOMAIN s = 1..Len(s) /\ Head(s) = s[1]
      /\ Len(s) > 0 /\ \A i \in 1..Len(s) - 1 : t[i] = s[i + 1]
      /\ Range(s) = {Head(s)} \cup Range(t) /\ Head(s) \in Nat
  BY RangeOfTail
<1> HIDE DEF t
<1>2. \A i, j \in 1..Len(s) - 1 : i < j => t[i] < t[j]
  <2> SUFFICES ASSUME NEW i \in 1..Len(s) - 1, NEW j \in 1..Len(s) - 1, i < j PROVE t[i] < t[j]
    OBVIOUS
  <2>1. i + 1 \in DOMAIN s /\ j + 1 \in DOMAIN s /\ i + 1 < j + 1
    BY <1>1
  <2>2. s[i + 1] < s[j + 1]
    BY <2>1 DEF Increasing
  <2> QED BY <2>2, <1>1
<1>3. ASSUME NEW x \in Range(t) PROVE Head(s) < x
  <2>1. PICK i \in 1..Len(s) - 1 : x = t[i]
    BY <1>1 DEF Range
  <2>2. 1 \in DOMAIN s /\ i + 1 \in DOMAIN s /\ 1 < i + 1
    BY <1>1
  <2>3. s[1] < s[i + 1]
    BY <2>2 DEF Increasing
  <2> QED BY <2>1, <2>3, <1>1
<1>4. \A x \in Range(s) : Head(s) <= x
  <2> TAKE x \in Range(s)
  <2>1. x \in Nat
    BY DEF Range
  <2> QED BY <2>1, <1>1, <1>3
<1> QED BY <1>1, <1>2, <1>3, <1>4 DEF Increasing, t

\* A number above the rest goes behind them.
LEMMA IncreasingAppend ==
  ASSUME NEW s \in Seq(Nat), Increasing(s), NEW x \in Nat, \A y \in Range(s) : y < x
  PROVE  Increasing(Append(s, x))
<1> DEFINE t == Append(s, x)
<1>1. /\ t \in Seq(Nat) /\ DOMAIN t = 1..Len(s) + 1 /\ DOMAIN s = 1..Len(s) /\ Len(s) \in Nat
      /\ \A i \in 1..Len(s) : t[i] = s[i]
      /\ t[Len(s) + 1] = x
  OBVIOUS
<1> HIDE DEF t
<1> SUFFICES ASSUME NEW i \in DOMAIN t, NEW j \in DOMAIN t, i < j PROVE t[i] < t[j]
  BY DEF Increasing, t
<1>2. i \in 1..Len(s) /\ (j \in 1..Len(s) \/ j = Len(s) + 1)
  BY <1>1
<1>3. CASE j \in 1..Len(s)
  BY <1>1, <1>2, <1>3 DEF Increasing
<1>4. CASE j = Len(s) + 1
  <2>1. t[i] \in Range(s)
    BY <1>1, <1>2 DEF Range
  <2> QED BY <2>1, <1>1, <1>4
<1> QED BY <1>2, <1>3, <1>4

\* No number of a filtered sequence is there twice that was not before.
LEMMA TwiceInThose ==
  ASSUME NEW s \in Seq(Nat), NEW S, NEW R, Twice(s, R)
  PROVE  Twice(Those(s, S), R \cap S)
<1> DEFINE t == Those(s, S)
<1>1. t \in Seq(Nat) /\ Range(t) = Range(s) \cap S
  BY ThoseKeep
<1>2. PICK e \in [1..Len(t) -> DOMAIN s] :
        /\ \A k \in 1..Len(t) : t[k] = s[e[k]]
        /\ \A k, l \in 1..Len(t) : k < l => e[k] < e[l]
  BY ThoseKeep
<1> HIDE DEF t
<1>3. \A k, l \in 1..Len(t) : k # l => e[k] # e[l]
  <2> TAKE k, l \in 1..Len(t)
  <2>1. e[k] \in 1..Len(s) /\ e[l] \in 1..Len(s)
    BY <1>2
  <2> QED BY <2>1, <1>2
<1> SUFFICES ASSUME NEW i \in DOMAIN t, NEW j \in DOMAIN t, i # j, t[i] = t[j]
             PROVE  t[i] \in R \cap S
  BY DEF Twice, t
<1>4. i \in 1..Len(t) /\ j \in 1..Len(t)
  BY <1>1
<1>5. e[i] \in DOMAIN s /\ e[j] \in DOMAIN s /\ e[i] # e[j] /\ t[i] = s[e[i]] /\ t[j] = s[e[j]]
  BY <1>2, <1>3, <1>4
<1>6. t[i] \in R
  BY <1>5 DEF Twice
<1>7. t[i] \in S
  BY <1>1 DEF Range
<1> QED BY <1>6, <1>7

-----------------------------------------------------------------------------
(* What draining a chat makes of its memory.                                *)

\* The part no turn's beginning or end touches.
Kept(m, n) ==
    /\ n.parked = m.parked /\ n.dismiss = m.dismiss /\ n.alarm = m.alarm /\ n.liveOn = m.liveOn
    /\ n.expiry = m.expiry /\ n.chain = m.chain /\ n.answering = m.answering

Begun(origin, stage, snapshot) ==
    [NoTurn EXCEPT !.origin = origin, !.stage = stage, !.snapshot = snapshot]

\* Something waits in a chat that is idle, with no timer of live mode set.
Waiting(q, m) ==
    /\ ~Busy(m) /\ ~m.liveOn /\ ~m.expiry
    /\ Deliverable(q, m) \/ m.listener \/ (m.mailbox # <<>> /\ ~m.retry /\ ~m.gaveUp)

\* Nothing, a turn for the queue, or one for the mail.
NoneBegun(m, n) ==
    n.turn = m.turn /\ n.draining = m.draining /\ n.held = m.held /\ n.mailbox = m.mailbox
QueueBegun(q, m, n) ==
    /\ ~Busy(m) /\ n.turn = Begun("queue", "deliver", q) /\ n.draining
    /\ n.held = m.held /\ n.mailbox = m.mailbox
WakeBegun(m, n) ==
    /\ ~Busy(m) /\ n.turn = Begun("wake", "prompt", <<>>) /\ n.draining = m.draining
    /\ n.held = m.mailbox /\ n.mailbox = <<>>
Drained(q, m, n) ==
    /\ n \in Memory
    /\ Kept(m, n)
    /\ NoneBegun(m, n) \/ QueueBegun(q, m, n) \/ WakeBegun(m, n)

\* A turn that begins is a turn, at its beginning.
LEMMA BegunIs ==
  ASSUME NEW origin \in Origins, NEW stage \in Stages, NEW snapshot \in Seq(Nat)
  PROVE  /\ Begun(origin, stage, snapshot) \in Turns
         /\ Begun(origin, stage, snapshot).origin = origin
         /\ Begun(origin, stage, snapshot).stage = stage
         /\ Begun(origin, stage, snapshot).snapshot = snapshot
         /\ Begun(origin, stage, snapshot).calls = 0
         /\ Begun(origin, stage, snapshot).round = 0
         /\ ~Begun(origin, stage, snapshot).got
         /\ ~Begun(origin, stage, snapshot).aborted
         /\ ~Begun(origin, stage, snapshot).last
<1>1. MaxCalls \in Nat /\ MaxRounds \in Nat
  BY SizesNat
<1>2. /\ NoTurn \in Turns /\ NoTurn.calls = 0 /\ NoTurn.round = 0
      /\ ~NoTurn.got /\ ~NoTurn.aborted /\ ~NoTurn.last
  BY <1>1 DEF NoTurn, Turns, Stages, Origins
<1>3. Begun(origin, stage, snapshot) =
        [NoTurn EXCEPT !.origin = origin, !.stage = stage, !.snapshot = snapshot]
  BY DEF Begun
<1> HIDE DEF NoTurn
<1>4. Begun(origin, stage, snapshot) \in Turns
  BY <1>2, <1>3 DEF Turns
<1>5. /\ Begun(origin, stage, snapshot).origin = origin
      /\ Begun(origin, stage, snapshot).stage = stage
      /\ Begun(origin, stage, snapshot).snapshot = snapshot
  BY <1>2, <1>3 DEF Turns
<1>6. /\ Begun(origin, stage, snapshot).calls = NoTurn.calls
      /\ Begun(origin, stage, snapshot).round = NoTurn.round
      /\ Begun(origin, stage, snapshot).got = NoTurn.got
      /\ Begun(origin, stage, snapshot).aborted = NoTurn.aborted
      /\ Begun(origin, stage, snapshot).last = NoTurn.last
  BY <1>2, <1>3 DEF Turns
<1> QED BY <1>2, <1>4, <1>5, <1>6, Zenon

\* The turn there is when there is none.
LEMMA NoTurnIs == NoTurn \in Turns /\ NoTurn.stage = "none" /\ NoTurn.origin = "none"
<1>1. MaxCalls \in Nat /\ MaxRounds \in Nat
  BY SizesNat
<1> QED BY <1>1 DEF NoTurn, Turns, Origins, Stages

\* sendMessage() changes the turn, the controller and the stall.
LEMMA StartedDoes ==
  ASSUME NEW m \in Memory, NEW origin \in Origins, NEW stage \in Stages \ {"none"},
         NEW snapshot \in Seq(Nat)
  PROVE  /\ Started(m, origin, stage, snapshot) \in Memory
         /\ Kept(m, Started(m, origin, stage, snapshot))
         /\ Started(m, origin, stage, snapshot).turn = Begun(origin, stage, snapshot)
         /\ Driven(Started(m, origin, stage, snapshot))
         /\ Busy(Started(m, origin, stage, snapshot))
         /\ Started(m, origin, stage, snapshot).draining = m.draining
         /\ Started(m, origin, stage, snapshot).held = m.held
         /\ Started(m, origin, stage, snapshot).mailbox = m.mailbox
<1> DEFINE n == Started(m, origin, stage, snapshot)
<1>1. n = [m EXCEPT !.turn = Begun(origin, stage, snapshot), !.controller = "turn",
                    !.stalled = m.stalled /\ origin = "queue"]
  BY DEF Started, Begun
<1>2. Begun(origin, stage, snapshot) \in Turns /\ Begun(origin, stage, snapshot).stage = stage
  BY BegunIs
<1>3. (m.stalled /\ origin = "queue") \in BOOLEAN
  OBVIOUS
<1>4. n \in Memory
  BY <1>1, <1>2, <1>3 DEF Memory
<1>5. n.turn = Begun(origin, stage, snapshot)
  BY <1>1 DEF Memory
<1>6. Driven(n) /\ Busy(n)
  BY <1>2, <1>5 DEF Driven, Busy
<1>7. Kept(m, n) /\ n.draining = m.draining /\ n.held = m.held /\ n.mailbox = m.mailbox
  BY <1>1 DEF Memory, Kept
<1> QED BY <1>4, <1>5, <1>6, <1>7

\* A wake that failed has its mail in front of the rest, and a retry or none left.
LEMMA WakeFailedDoes ==
  ASSUME NEW m \in Memory, NEW mail \in Seq(Nat)
  PROVE  /\ WakeFailed(m, mail) \in Memory
         /\ Kept(m, WakeFailed(m, mail))
         /\ WakeFailed(m, mail).turn = m.turn
         /\ WakeFailed(m, mail).draining = m.draining
         /\ WakeFailed(m, mail).held = m.held
         /\ WakeFailed(m, mail).stalled = m.stalled
         /\ WakeFailed(m, mail).listener = m.listener
         /\ WakeFailed(m, mail).mailbox = mail \o m.mailbox
         /\ WakeFailed(m, mail).retry \/ WakeFailed(m, mail).gaveUp
<1> DEFINE n == WakeFailed(m, mail)
<1>1. MaxRetries \in Nat
  BY SizesNat
<1>2. m.attempts \in 0..MaxRetries + 1 /\ m.mailbox \in Seq(Nat) /\ m.retry \in BOOLEAN
  BY DEF Memory
<1>3. (IF m.attempts > MaxRetries THEN m.attempts ELSE m.attempts + 1) \in 0..MaxRetries + 1
  BY <1>1, <1>2
<1>4. mail \o m.mailbox \in Seq(Nat)
  BY <1>2, RangeOfConcat
<1>5. n = [m EXCEPT !.mailbox = mail \o m.mailbox,
                    !.attempts = IF m.attempts > MaxRetries THEN m.attempts ELSE m.attempts + 1,
                    !.retry = m.retry \/ m.attempts < MaxRetries,
                    !.gaveUp = m.attempts >= MaxRetries]
  BY DEF WakeFailed
<1>6. (m.retry \/ m.attempts < MaxRetries) \in BOOLEAN /\ (m.attempts >= MaxRetries) \in BOOLEAN
  OBVIOUS
<1>7. n \in Memory
  BY <1>3, <1>4, <1>5, <1>6, ZenonT(60) DEF Memory
<1>8. /\ Kept(m, n) /\ n.turn = m.turn /\ n.draining = m.draining /\ n.held = m.held
      /\ n.stalled = m.stalled /\ n.listener = m.listener /\ n.mailbox = mail \o m.mailbox
  BY <1>5 DEF Memory, Kept
<1>9. n.retry = (m.retry \/ m.attempts < MaxRetries) /\ n.gaveUp = (m.attempts >= MaxRetries)
  BY <1>5 DEF Memory
<1>10. m.attempts < MaxRetries \/ m.attempts >= MaxRetries
  BY <1>1, <1>2
<1>11. n.retry \/ n.gaveUp
  BY <1>9, <1>10, Zenon
<1> QED BY <1>7, <1>8, <1>11, Zenon

\* drainMailbox(), in a chat whose queue it may leave alone.
LEMMA DrainMailboxDoes ==
  ASSUME NEW q \in Seq(Nat), NEW m \in Memory, Settled(m), configured \in BOOLEAN
  PROVE  /\ Drained(q, m, DrainMailbox(q, m))
         /\ Waiting(q, DrainMailbox(q, m)) =>
              ~Busy(m) /\ ~m.liveOn /\ ~m.expiry /\ (Deliverable(q, m) \/ m.listener)
<1> DEFINE n == [m EXCEPT !.retry = FALSE]
           taken == [n EXCEPT !.mailbox = <<>>, !.held = n.mailbox]
           bare == [taken EXCEPT !.held = <<>>, !.stalled = q # <<>>]
           d == DrainMailbox(q, m)
<1>1. m.mailbox \in Seq(Nat) /\ <<>> \in Seq(Nat) /\ <<>> \in Seq(Nat)
  BY DEF Memory
<1>2. /\ n \in Memory /\ Kept(m, n) /\ n.turn = m.turn /\ n.draining = m.draining
      /\ n.held = m.held /\ n.mailbox = m.mailbox /\ n.stalled = m.stalled
      /\ n.listener = m.listener
  BY DEF Memory, Kept
<1>3. Busy(n) = Busy(m) /\ Deliverable(q, n) = Deliverable(q, m)
  BY <1>2 DEF Kept, Busy, Driven, LiveTools, Deliverable
<1>4. /\ taken \in Memory /\ Kept(m, taken) /\ taken.turn = m.turn
      /\ taken.draining = m.draining /\ taken.held = m.mailbox /\ taken.mailbox = <<>>
      /\ taken.stalled = m.stalled /\ taken.listener = m.listener
  BY <1>1, <1>2 DEF Memory, Kept
<1>5. /\ bare \in Memory /\ Kept(m, bare) /\ bare.turn = m.turn /\ bare.draining = m.draining
      /\ bare.held = <<>> /\ bare.mailbox = <<>> /\ bare.stalled = (q # <<>>)
      /\ bare.listener = m.listener
  BY <1>1, <1>4, ZenonT(60) DEF Memory, Kept
<1> DEFINE idle == Busy(m) \/ Deliverable(q, m) \/ m.draining \/ m.liveOn \/ m.mailbox = <<>>
<1>6. d = IF idle THEN n
          ELSE IF configured THEN Started(taken, "wake", "prompt", <<>>)
          ELSE WakeFailed(bare, m.mailbox)
  <2>1. (Busy(n) \/ Deliverable(q, n) \/ n.draining \/ n.liveOn \/ n.mailbox = <<>>) = idle
    BY <1>2, <1>3 DEF Kept
  <2>2. d = IF Busy(n) \/ Deliverable(q, n) \/ n.draining \/ n.liveOn \/ n.mailbox = <<>> THEN n
            ELSE IF configured THEN Started(taken, "wake", "prompt", <<>>)
            ELSE WakeFailed(bare, n.mailbox)
    BY DEF DrainMailbox
  <2> QED BY <2>1, <2>2, <1>2
<1> HIDE DEF n, taken, bare, d
<1>7. CASE idle
  <2>1. d = n
    BY <1>6, <1>7
  <2>2. Drained(q, m, d)
    BY <2>1, <1>2 DEF Drained, NoneBegun
  <2>3. ASSUME Waiting(q, d)
        PROVE  ~Busy(m) /\ ~m.liveOn /\ ~m.expiry /\ (Deliverable(q, m) \/ m.listener)
    <3>1. ~Busy(m) /\ ~m.liveOn /\ ~m.expiry
      BY <2>1, <2>3, <1>2, <1>3 DEF Waiting, Kept
    <3>2. ~m.draining
      BY <3>1 DEF Settled, Busy
    <3>3. CASE m.mailbox = <<>>
      <4>1. Deliverable(q, n) \/ n.listener \/ n.mailbox # <<>>
        BY <2>1, <2>3, Zenon DEF Waiting
      <4> QED BY <4>1, <3>1, <3>3, <1>2, <1>3
    <3>4. CASE Deliverable(q, m)
      BY <3>1, <3>4
    <3> QED BY <3>1, <3>2, <3>3, <3>4, <1>7
  <2> QED BY <2>2, <2>3 DEF d
<1>8. CASE ~idle /\ configured
  <2>1. d = Started(taken, "wake", "prompt", <<>>)
    BY <1>6, <1>8
  <2>2. "wake" \in Origins /\ "prompt" \in Stages \ {"none"}
    BY DEF Origins, Stages
  <2>3. /\ d \in Memory /\ Kept(taken, d) /\ d.turn = Begun("wake", "prompt", <<>>) /\ Busy(d)
        /\ d.draining = taken.draining /\ d.held = taken.held /\ d.mailbox = taken.mailbox
    BY <2>1, <2>2, <1>1, <1>4, StartedDoes, ZenonT(60)
  <2>4. Kept(m, d)
    BY <2>3, <1>4 DEF Kept
  <2>5. Drained(q, m, d)
    BY <2>3, <2>4, <1>4, <1>8 DEF Drained, WakeBegun
  <2>6. ~Waiting(q, d)
    BY <2>3 DEF Waiting
  <2> QED BY <2>5, <2>6 DEF d
<1>9. CASE ~idle /\ ~configured
  <2>1. d = WakeFailed(bare, m.mailbox)
    BY <1>6, <1>9
  <2>2. /\ d \in Memory /\ Kept(bare, d) /\ d.turn = bare.turn /\ d.draining = bare.draining
        /\ d.held = bare.held /\ d.stalled = bare.stalled /\ d.listener = bare.listener
        /\ d.mailbox = m.mailbox \o bare.mailbox /\ (d.retry \/ d.gaveUp)
    BY <2>1, <1>1, <1>5, WakeFailedDoes, Zenon
  <2>3. Kept(m, d)
    BY <2>2, <1>5 DEF Kept
  <2>4. d.mailbox = m.mailbox
    BY <2>2, <1>1, <1>5
  <2>5. m.held = <<>>
    BY <1>9 DEF Settled, Busy
  <2>6. Drained(q, m, d)
    BY <2>2, <2>3, <2>4, <2>5, <1>5 DEF Drained, NoneBegun
  <2>7. Busy(d) = Busy(m) /\ ~Deliverable(q, d)
    BY <2>2, <2>3, <1>5 DEF Kept, Busy, Driven, LiveTools, Deliverable
  <2>8. Waiting(q, d) => ~Busy(m) /\ ~m.liveOn /\ ~m.expiry /\ m.listener
    BY <2>2, <2>3, <2>7, <1>5 DEF Waiting, Kept
  <2> QED BY <2>6, <2>8 DEF d
<1> QED BY <1>7, <1>8, <1>9 DEF d

\* Two memories that agree on what draining looks at are drained alike.
LEMMA DrainedAlike ==
  ASSUME NEW q, NEW m, NEW o, NEW n, Drained(q, o, n), Kept(m, o), NoneBegun(m, o)
  PROVE  Drained(q, m, n)
<1>1. Kept(m, n)
  BY DEF Drained, Kept
<1>2. Busy(o) = Busy(m)
  BY DEF Kept, NoneBegun, Busy, Driven, LiveTools
<1> QED BY <1>1, <1>2 DEF Drained, NoneBegun, QueueBegun, WakeBegun

\* drainNext(): nothing is left waiting.
LEMMA DrainNextDoes ==
  ASSUME NEW q \in Seq(Nat), NEW m \in Memory, Settled(m), configured \in BOOLEAN
  PROVE  Drained(q, m, DrainNext(q, m)) /\ ~Waiting(q, DrainNext(q, m))
<1> DEFINE d == DrainNext(q, m)
           heard == [m EXCEPT !.listener = FALSE]
           stuck == [m EXCEPT !.stalled = TRUE, !.listener = FALSE]
           asked == Started(m, "queue", "deliver", q)
<1>1. m.draining => Busy(m)
  BY DEF Settled, Busy
<1>2. /\ heard \in Memory /\ Kept(m, heard) /\ NoneBegun(m, heard) /\ ~heard.listener
      /\ heard.stalled = m.stalled /\ heard.turn = m.turn /\ heard.held = m.held
      /\ heard.draining = m.draining
  BY DEF Memory, Kept, NoneBegun
<1>3. /\ stuck \in Memory /\ Kept(m, stuck) /\ NoneBegun(m, stuck) /\ ~stuck.listener
      /\ stuck.stalled /\ stuck.turn = m.turn /\ stuck.held = m.held
      /\ stuck.draining = m.draining
  BY DEF Memory, Kept, NoneBegun
<1>4. Settled(heard) /\ Settled(stuck)
  BY <1>2, <1>3 DEF Settled, Driven
<1>5. d = IF Busy(m) \/ m.draining THEN m
          ELSE IF Deliverable(q, m) /\ ~m.liveOn
               THEN IF configured THEN [asked EXCEPT !.draining = TRUE] ELSE DrainMailbox(q, stuck)
          ELSE DrainMailbox(q, heard)
  BY Zenon DEF DrainNext
<1> HIDE DEF d, heard, stuck, asked
<1>6. CASE Busy(m)
  <2>1. d = m
    BY <1>5, <1>6
  <2>2. Drained(q, m, m)
    BY DEF Drained, Kept, NoneBegun
  <2> QED BY <2>1, <2>2, <1>6 DEF Waiting, d
<1>7. CASE ~Busy(m) /\ Deliverable(q, m) /\ ~m.liveOn /\ configured
  <2>1. d = [asked EXCEPT !.draining = TRUE]
    BY <1>1, <1>5, <1>7
  <2>2. "queue" \in Origins /\ "deliver" \in Stages \ {"none"}
    BY DEF Origins, Stages
  <2>3. /\ asked \in Memory /\ Kept(m, asked) /\ asked.turn = Begun("queue", "deliver", q)
        /\ Busy(asked) /\ asked.held = m.held /\ asked.mailbox = m.mailbox
    BY <2>2, StartedDoes DEF asked
  <2>4. /\ d \in Memory /\ Kept(asked, d) /\ d.turn = asked.turn /\ d.held = asked.held
        /\ d.mailbox = asked.mailbox /\ d.draining
    BY <2>1, <2>3 DEF Memory, Kept
  <2>5. Busy(d)
    BY <2>3, <2>4 DEF Kept, Busy, Driven, LiveTools
  <2>6. Kept(m, d)
    BY <2>3, <2>4 DEF Kept
  <2>7. Drained(q, m, d)
    BY <2>3, <2>4, <2>6, <1>7 DEF Drained, QueueBegun
  <2>8. ~Waiting(q, d)
    BY <2>5 DEF Waiting
  <2> QED BY <2>7, <2>8 DEF d
<1>8. CASE ~Busy(m) /\ Deliverable(q, m) /\ ~m.liveOn /\ ~configured
  <2>1. d = DrainMailbox(q, stuck)
    BY <1>1, <1>5, <1>8
  <2>2. Drained(q, stuck, d)
    BY <2>1, <1>3, <1>4, DrainMailboxDoes
  <2>3. ~Deliverable(q, stuck) /\ ~stuck.listener
    BY <1>3 DEF Deliverable
  <2>4. ~Waiting(q, d)
    BY <2>1, <2>3, <1>3, <1>4, DrainMailboxDoes
  <2>5. Drained(q, m, d)
    BY <2>2, <1>3, DrainedAlike
  <2> QED BY <2>4, <2>5 DEF d
<1>9. CASE ~Busy(m) /\ ~(Deliverable(q, m) /\ ~m.liveOn)
  <2>1. d = DrainMailbox(q, heard)
    BY <1>1, <1>5, <1>9
  <2>2. Drained(q, heard, d)
    BY <2>1, <1>2, <1>4, DrainMailboxDoes
  <2>3. Deliverable(q, heard) = Deliverable(q, m) /\ heard.liveOn = m.liveOn
    BY <1>2 DEF Deliverable, Kept
  <2>4. ~Waiting(q, d)
    BY <2>1, <2>3, <1>2, <1>4, <1>9, DrainMailboxDoes
  <2>5. Drained(q, m, d)
    BY <2>2, <1>2, DrainedAlike
  <2> QED BY <2>4, <2>5 DEF d
<1> QED BY <1>6, <1>7, <1>8, <1>9 DEF d

\* The generator that drove the chat is gone.
LEMMA OverIs ==
  ASSUME NEW m \in Memory, Settled(m)
  PROVE  /\ Over(m) \in Memory /\ Kept(m, Over(m)) /\ Settled(Over(m))
         /\ Over(m).turn = NoTurn /\ ~Over(m).draining /\ Over(m).held = <<>>
         /\ Over(m).mailbox = m.mailbox
         /\ ~Driven(Over(m))
<1> DEFINE o == Over(m)
<1>1. o = [m EXCEPT !.turn = NoTurn, !.controller = "none", !.held = <<>>,
                    !.draining = m.draining /\ m.turn.origin # "queue"]
  BY DEF Over
<1>2. NoTurn \in Turns /\ NoTurn.stage = "none" /\ <<>> \in Seq(Nat)
  BY NoTurnIs
<1> HIDE DEF NoTurn
<1>3. (m.draining /\ m.turn.origin # "queue") = FALSE
  BY Zenon DEF Settled
<1>4. o = [m EXCEPT !.turn = NoTurn, !.controller = "none", !.held = <<>>, !.draining = FALSE]
  BY <1>1, <1>3, Zenon
<1>5. /\ o \in Memory /\ Kept(m, o) /\ o.turn = NoTurn /\ o.draining = FALSE /\ o.held = <<>>
      /\ o.mailbox = m.mailbox
  BY <1>2, <1>4, ZenonT(60) DEF Memory, Kept
<1>6. ~Driven(o)
  BY <1>2, <1>5 DEF Driven
<1> QED BY <1>5, <1>6 DEF Settled

\* A turn that ends frees the chat, which is drained.
LEMMA EndedDoes ==
  ASSUME NEW q \in Seq(Nat), NEW m \in Memory, Settled(m), configured \in BOOLEAN
  PROVE  Drained(q, Over(m), Ended(q, m)) /\ ~Waiting(q, Ended(q, m))
<1> DEFINE d == DrainNext(q, Over(m))
           n == Ended(q, m)
<1>1. Drained(q, Over(m), d) /\ ~Waiting(q, d)
  BY OverIs, DrainNextDoes
<1>2. n = IF m.turn.origin = "wake" THEN [d EXCEPT !.attempts = 0] ELSE d
  BY DEF Ended
<1> HIDE DEF d, n
<1>3. CASE m.turn.origin = "wake"
  <2>1. n = [d EXCEPT !.attempts = 0] /\ d \in Memory
    BY <1>1, <1>2, <1>3 DEF Drained
  <2>0. 0 \in 0..MaxRetries + 1
    BY SizesNat
  <2>2. /\ n \in Memory /\ Kept(d, n) /\ NoneBegun(d, n) /\ n.stalled = d.stalled
        /\ n.listener = d.listener /\ n.retry = d.retry /\ n.gaveUp = d.gaveUp
    BY <2>0, <2>1 DEF Memory, Kept, NoneBegun
  <2>3. Drained(q, Over(m), n)
    <3>1. Kept(Over(m), n)
      BY <1>1, <2>2 DEF Drained, Kept
    <3> QED BY <1>1, <2>2, <3>1 DEF Drained, NoneBegun, QueueBegun, WakeBegun
  <2>4. Busy(n) = Busy(d)
    BY <2>2 DEF Kept, NoneBegun, Busy, Driven, LiveTools
  <2>5. ~Waiting(q, n)
    BY <1>1, <2>2, <2>4 DEF Waiting, Kept, NoneBegun, Deliverable
  <2> QED BY <2>3, <2>5 DEF n
<1>4. CASE m.turn.origin # "wake"
  BY <1>1, <1>2, <1>4 DEF n
<1> QED BY <1>3, <1>4

\* When a turn throws, the mail of a wake comes back in front of what arrived.
LEMMA ThrewDoes ==
  ASSUME NEW q \in Seq(Nat), NEW m \in Memory, Settled(m), configured \in BOOLEAN
  PROVE  /\ m.turn.origin # "wake" => Drained(q, Over(m), Threw(q, m))
         /\ m.turn.origin = "wake" =>
              \E d \in Memory :
                /\ Drained(q, Over(m), d)
                /\ Threw(q, m) \in Memory /\ Kept(d, Threw(q, m))
                /\ Threw(q, m).turn = d.turn /\ Threw(q, m).draining = d.draining
                /\ Threw(q, m).held = d.held /\ Threw(q, m).mailbox = m.held \o d.mailbox
         /\ ~Waiting(q, Threw(q, m))
<1> DEFINE n == Threw(q, m)
<1>1. /\ Over(m) \in Memory /\ Kept(m, Over(m)) /\ Settled(Over(m))
  BY OverIs
<1>2. CASE m.turn.origin = "queue"
  <2> DEFINE o == [Over(m) EXCEPT !.stalled = Over(m).stalled \/ q # <<>>]
  <2>1. n = DrainNext(q, o)
    BY <1>2 DEF Threw
  <2>2. (Over(m).stalled \/ q # <<>>) \in BOOLEAN
    OBVIOUS
  <2>3. /\ o \in Memory /\ Kept(Over(m), o) /\ NoneBegun(Over(m), o) /\ o.turn = Over(m).turn
        /\ o.draining = Over(m).draining /\ o.held = Over(m).held
    BY <1>1, <2>2 DEF Memory, Kept, NoneBegun
  <2> HIDE DEF o
  <2>4. Settled(o)
    BY <1>1, <2>3 DEF Settled, Driven
  <2>5. Drained(q, o, n) /\ ~Waiting(q, n)
    BY <2>1, <2>3, <2>4, DrainNextDoes
  <2>6. Drained(q, Over(m), n)
    BY <2>3, <2>5, DrainedAlike
  <2> QED BY <2>5, <2>6, <1>2
<1>3. CASE m.turn.origin = "wake"
  <2> DEFINE d == DrainNext(q, Over(m))
  <2>1. n = WakeFailed(d, m.held)
    BY <1>3 DEF Threw
  <2>2. Drained(q, Over(m), d) /\ ~Waiting(q, d)
    BY <1>1, DrainNextDoes
  <2> HIDE DEF d, n
  <2>3. d \in Memory /\ m.held \in Seq(Nat)
    BY <2>2 DEF Drained, Memory
  <2>4. /\ n \in Memory /\ Kept(d, n) /\ n.turn = d.turn /\ n.draining = d.draining
        /\ n.held = d.held /\ n.stalled = d.stalled /\ n.listener = d.listener
        /\ n.mailbox = m.held \o d.mailbox /\ (n.retry \/ n.gaveUp)
    BY <2>1, <2>3, WakeFailedDoes, Zenon
  <2>5. Busy(n) = Busy(d)
    BY <2>4 DEF Kept, Busy, Driven, LiveTools
  <2>6. ~Waiting(q, n)
    BY <2>2, <2>4, <2>5 DEF Waiting, Kept, Deliverable
  <2> QED BY <1>3, <2>2, <2>3, <2>4, <2>6 DEF n
<1>4. CASE m.turn.origin \notin {"queue", "wake"}
  <2>1. n = DrainNext(q, Over(m))
    BY <1>4 DEF Threw
  <2> QED BY <2>1, <1>1, <1>4, DrainNextDoes
<1> QED BY <1>2, <1>3, <1>4

-----------------------------------------------------------------------------
(* What keeps the invariant of a queue, a memory and a history.             *)

\* The same entries in the same order, but for some.
Fewer(s, t) ==
    \E g \in [DOMAIN t -> DOMAIN s] :
        /\ \A i \in DOMAIN t : t[i] = s[g[i]]
        /\ \A i, j \in DOMAIN t : g[i] = g[j] => i = j

SameTurn(m, n) ==
    /\ n.turn.stage = m.turn.stage /\ n.turn.origin = m.turn.origin
    /\ n.turn.calls = m.turn.calls /\ n.turn.snapshot = m.turn.snapshot

SameMail(m, n) == n.mailbox = m.mailbox /\ n.held = m.held /\ n.alarm = m.alarm

\* All entries are left.
LEMMA FewerSame == ASSUME NEW D, NEW s \in Seq(D) PROVE Fewer(s, s)
<1> DEFINE g == [i \in DOMAIN s |-> i]
<1>1. g \in [DOMAIN s -> DOMAIN s]
  OBVIOUS
<1>2. \A i \in DOMAIN s : s[i] = s[g[i]]
  OBVIOUS
<1>3. \A i, j \in DOMAIN s : g[i] = g[j] => i = j
  OBVIOUS
<1> QED BY <1>1, <1>2, <1>3 DEF Fewer

\* None is.
LEMMA FewerNone == ASSUME NEW D, NEW s \in Seq(D) PROVE Fewer(s, <<>>)
<1> DEFINE g == [i \in {} |-> 1]
<1>1. DOMAIN <<>> = {}
  OBVIOUS
<1>2. g \in [{} -> DOMAIN s]
  OBVIOUS
<1> QED BY <1>1, <1>2 DEF Fewer

\* The first is gone.
LEMMA FewerTail == ASSUME NEW D, NEW s \in Seq(D), s # <<>> PROVE Fewer(s, Tail(s)) /\ Tail(s) \in Seq(D)
<1> DEFINE t == Tail(s)
           g == [i \in 1..Len(s) - 1 |-> i + 1]
<1>1. /\ t \in Seq(D) /\ DOMAIN t = 1..Len(s) - 1 /\ DOMAIN s = 1..Len(s)
      /\ \A i \in 1..Len(s) - 1 : t[i] = s[i + 1]
  BY RangeOfTail
<1> HIDE DEF t
<1>2. g \in [DOMAIN t -> DOMAIN s]
  BY <1>1
<1>3. \A i \in DOMAIN t : t[i] = s[g[i]]
  BY <1>1
<1>4. \A i, j \in DOMAIN t : g[i] = g[j] => i = j
  BY <1>1
<1>5. Fewer(s, t)
  BY <1>2, <1>3, <1>4 DEF Fewer
<1> QED BY <1>1, <1>5 DEF t

\* One of them is gone, and the others are others.
LEMMA FewerRemoved ==
  ASSUME NEW D, NEW s \in Seq(D), NEW k \in DOMAIN s
  PROVE  /\ Fewer(s, RemoveAt(s, k)) /\ RemoveAt(s, k) \in Seq(D)
         /\ Len(RemoveAt(s, k)) = Len(s) - 1
         /\ \E g \in [DOMAIN RemoveAt(s, k) -> DOMAIN s] :
              /\ \A i \in DOMAIN RemoveAt(s, k) : RemoveAt(s, k)[i] = s[g[i]] /\ g[i] # k
              /\ \A i, j \in DOMAIN RemoveAt(s, k) : g[i] = g[j] => i = j
<1> DEFINE a == SubSeq(s, 1, k - 1)
           b == SubSeq(s, k + 1, Len(s))
           t == RemoveAt(s, k)
           g == [i \in 1..Len(s) - 1 |-> IF i < k THEN i ELSE i + 1]
<1>1. k \in 1..Len(s) /\ Len(s) \in Nat
  OBVIOUS
<1>2. a \in Seq(D) /\ Len(a) = k - 1 /\ \A i \in 1..k - 1 : a[i] = s[i]
  BY <1>1
<1>3. b \in Seq(D) /\ Len(b) = Len(s) - k /\ \A i \in 1..Len(s) - k : b[i] = s[k + i]
  BY <1>1
<1>4. t = a \o b
  BY DEF RemoveAt
<1> HIDE DEF a, b, t
<1>5. /\ t \in Seq(D) /\ Len(t) = Len(s) - 1
      /\ \A i \in 1..Len(s) - 1 : t[i] = IF i < k THEN a[i] ELSE b[i - (k - 1)]
  BY <1>1, <1>2, <1>3, <1>4, SMTT(40)
<1>6. \A i \in 1..Len(s) - 1 : t[i] = s[IF i < k THEN i ELSE i + 1]
  <2> TAKE i \in 1..Len(s) - 1
  <2>1. CASE i < k
    <3>1. i \in 1..k - 1
      BY <2>1, <1>1
    <3> QED BY <2>1, <3>1, <1>2, <1>5
  <2>2. CASE ~(i < k)
    <3>1. i - (k - 1) \in 1..Len(s) - k /\ k + (i - (k - 1)) = i + 1
      BY <2>2, <1>1
    <3>2. t[i] = b[i - (k - 1)]
      BY <2>2, <1>5
    <3>3. b[i - (k - 1)] = s[k + (i - (k - 1))]
      BY <3>1, <1>3
    <3>4. s[k + (i - (k - 1))] = s[i + 1]
      BY <3>1
    <3> QED BY <2>2, <3>2, <3>3, <3>4
  <2> QED BY <2>1, <2>2
<1>7. g \in [DOMAIN t -> DOMAIN s]
  BY <1>1, <1>5
<1>8. \A i \in DOMAIN t : t[i] = s[g[i]] /\ g[i] # k
  BY <1>1, <1>5, <1>6
<1>9. \A i, j \in DOMAIN t : g[i] = g[j] => i = j
  BY <1>1, <1>5
<1> HIDE DEF g
<1>10. Fewer(s, t)
  BY <1>7, <1>8, <1>9 DEF Fewer
<1>11. \E f \in [DOMAIN t -> DOMAIN s] : /\ \A i \in DOMAIN t : t[i] = s[f[i]] /\ f[i] # k
                                        /\ \A i, j \in DOMAIN t : f[i] = f[j] => i = j
  BY <1>7, <1>8, <1>9
<1> QED BY <1>5, <1>10, <1>11 DEF t

\* A memory that differs where the invariant does not look, or has fewer batches.
LEMMA HoldsAlike ==
  ASSUME NEW q, NEW m, NEW l, Holds(q, m, l), NEW n \in Memory, SameTurn(m, n), SameMail(m, n),
         n.draining = m.draining, Fewer(m.parked, n.parked), n.liveOn => n.expiry,
         n.dismiss = "result" => m.dismiss = "result" \/ Batches(m) # {}
  PROVE  Holds(q, n, l)
<1>1. PICK g \in [DOMAIN n.parked -> DOMAIN m.parked] :
        /\ \A i \in DOMAIN n.parked : n.parked[i] = m.parked[g[i]]
        /\ \A i, j \in DOMAIN n.parked : g[i] = g[j] => i = j
  BY DEF Fewer
<1>2. \A i \in Batches(n) : g[i] \in Batches(m) /\ n.parked[i] = m.parked[g[i]]
  BY <1>1 DEF Batches
<1>3. Batches(n) # {} => Batches(m) # {}
  BY <1>2
<1>4. OneDriver(n)
  <2>1. OneDriver(m)
    BY DEF Holds
  <2>2. Settled(n) /\ (Driven(n) => Batches(n) = {})
    BY <2>1, <1>3 DEF OneDriver, Settled, Driven, SameTurn, SameMail
  <2>3. \A i, j \in Batches(n) : i = j
    BY <2>1, <1>1, <1>2 DEF OneDriver, Batches
  <2>4. \A i \in Batches(n) : n.parked[i].calls \in 1..MaxCalls
    BY <2>1, <1>2 DEF OneDriver
  <2>5. n.turn.stage \in {"running", "opening", "deciding", "answer"} => n.turn.calls > 0
    BY <2>1 DEF OneDriver, SameTurn
  <2> QED BY <2>2, <2>3, <2>4, <2>5 DEF OneDriver
<1>5. Writes(n) = Writes(m)
  BY DEF Writes, SameTurn
<1>6. Sound(q, n, l)
  BY <1>5 DEF Holds, Sound
<1>7. Snapshot(q, n, l)
  BY DEF Holds, Snapshot, SameTurn
<1>8. Pending(n) => Pending(m)
  BY <1>3 DEF Pending, SameTurn
<1>9. Paired(n, l)
  BY <1>8 DEF Holds, Paired
<1>10. Conserved(n, l)
  BY DEF Holds, Conserved, SameMail, SameTurn
<1>11. OneAlarm(n, l)
  BY DEF Holds, OneAlarm, SameMail
<1> QED BY <1>4, <1>6, <1>7, <1>9, <1>10, <1>11 DEF Holds

\* A turn that goes on.
LEMMA HoldsMoved ==
  ASSUME NEW q, NEW m, NEW l, Holds(q, m, l), NEW n \in Memory, Kept(m, n), SameMail(m, n),
         n.draining = m.draining, n.turn.origin = m.turn.origin,
         m.turn.stage \notin {"none", "erase", "prompt"},
         n.turn.stage \notin {"none", "erase", "prompt"},
         n.turn.stage \in {"running", "opening", "deciding", "answer"} => n.turn.calls > 0,
         n.turn.stage = "deliver" => n.turn.snapshot = q,
         n.turn.stage \in {"tools", "running", "opening", "deciding", "answer"} =>
           Pending(m) \/ ~l.crossed
  PROVE  Holds(q, n, l)
<1>1. Driven(m) /\ Driven(n) /\ Batches(n) = Batches(m) /\ n.parked = m.parked
  BY DEF Driven, Kept, Batches
<1>2. OneDriver(n)
  <2>1. OneDriver(m)
    BY DEF Holds
  <2>2. Settled(n)
    BY <2>1, <1>1 DEF OneDriver, Settled, SameMail
  <2>3. /\ Driven(n) => Batches(n) = {}
        /\ \A i, j \in Batches(n) : i = j
        /\ \A i \in Batches(n) : n.parked[i].calls \in 1..MaxCalls
    BY <2>1, <1>1 DEF OneDriver
  <2>4. n.liveOn => n.expiry
    BY <2>1 DEF OneDriver, Kept
  <2> QED BY <2>2, <2>3, <2>4 DEF OneDriver
<1>3. Sound(q, n, l)
  <2>1. Writes(n) = {} /\ Writes(m) = {}
    BY DEF Writes
  <2> QED BY <2>1 DEF Holds, Sound
<1>4. Paired(n, l)
  <2>1. l.crossed /\ Pending(n) => Pending(m)
    BY <1>1 DEF Pending, Kept
  <2> QED BY <2>1 DEF Holds, Paired
<1>5. Conserved(n, l)
  BY DEF Holds, Conserved, SameMail
<1>6. OneAlarm(n, l)
  BY DEF Holds, OneAlarm, SameMail
<1>7. Snapshot(q, n, l)
  <2>1. Increasing(q) /\ Range(q) \subseteq 1..l.sent
    BY DEF Holds, Sound
  <2> QED BY <2>1 DEF Snapshot
<1> QED BY <1>2, <1>3, <1>4, <1>5, <1>6, <1>7 DEF Holds

\* A chat that is drained.
LEMMA HoldsDrained ==
  ASSUME NEW q, NEW m, NEW l, NEW n, Holds(q, m, l), Drained(q, m, n)
  PROVE  Holds(q, n, l)
<1>1. /\ n \in Memory /\ Kept(m, n) /\ OneDriver(m) /\ q \in Seq(Nat) /\ m \in Memory
      /\ m.parked \in Seq(Parks)
  BY DEF Drained, Holds, Memory
<1>2. CASE NoneBegun(m, n)
  <2>1. SameTurn(m, n) /\ SameMail(m, n) /\ n.draining = m.draining
    BY <1>1, <1>2 DEF NoneBegun, SameTurn, SameMail, Kept
  <2>2. Fewer(m.parked, n.parked)
    BY <1>1, FewerSame DEF Kept
  <2>3. (n.liveOn => n.expiry) /\ n.dismiss = m.dismiss
    BY <1>1 DEF OneDriver, Kept
  <2> QED BY <2>1, <2>2, <2>3, <1>1, HoldsAlike
<1>3. CASE ~Busy(m) /\ (QueueBegun(q, m, n) \/ WakeBegun(m, n))
  <2>1. /\ m.turn.stage = "none" /\ m.parked = <<>> /\ ~Driven(m)
        /\ m.held = <<>> /\ ~m.draining
    BY <1>1, <1>3 DEF Busy, Driven, OneDriver, Settled
  <2>2. Batches(n) = {} /\ Batches(m) = {}
    BY <2>1, <1>1 DEF Batches, Kept
  <2>3. "queue" \in Origins /\ "wake" \in Origins /\ "deliver" \in Stages /\ "prompt" \in Stages
    BY DEF Origins, Stages
  <2>4. /\ Begun("queue", "deliver", q).stage = "deliver"
        /\ Begun("queue", "deliver", q).origin = "queue"
        /\ Begun("queue", "deliver", q).snapshot = q
        /\ Begun("wake", "prompt", <<>>).stage = "prompt"
        /\ Begun("wake", "prompt", <<>>).origin = "wake"
    <3>1. <<>> \in Seq(Nat)
      OBVIOUS
    <3>2. /\ Begun("queue", "deliver", q).stage = "deliver"
          /\ Begun("queue", "deliver", q).origin = "queue"
          /\ Begun("queue", "deliver", q).snapshot = q
      BY <2>3, <1>1, BegunIs
    <3>3. /\ Begun("wake", "prompt", <<>>).stage = "prompt"
          /\ Begun("wake", "prompt", <<>>).origin = "wake"
      <4>1. ASSUME NEW e \in Seq(Nat)
            PROVE  Begun("wake", "prompt", e).stage = "prompt" /\ Begun("wake", "prompt", e).origin = "wake"
        BY <2>3, BegunIs
      <4> QED BY <3>1, <4>1
    <3> QED BY <3>2, <3>3
  <2>5. \/ /\ n.turn.stage = "deliver" /\ n.turn.origin = "queue" /\ n.turn.snapshot = q
           /\ n.held = <<>> /\ n.mailbox = m.mailbox
        \/ /\ n.turn.stage = "prompt" /\ n.turn.origin = "wake" /\ n.held = m.mailbox
           /\ n.mailbox = <<>> /\ ~n.draining
    BY <1>3, <2>1, <2>4 DEF QueueBegun, WakeBegun
  <2>6. OneDriver(n)
    <3>1. Settled(n)
      BY <2>5 DEF Settled, Driven
    <3>2. n.liveOn => n.expiry
      BY <1>1 DEF OneDriver, Kept
    <3> QED BY <2>2, <2>5, <3>1, <3>2 DEF OneDriver
  <2>7. Sound(q, n, l)
    <3>1. Writes(n) = {} /\ Writes(m) = {}
      BY <2>1, <2>5 DEF Writes
    <3> QED BY <3>1 DEF Holds, Sound
  <2>8. Snapshot(q, n, l)
    <3>1. Increasing(q) /\ Range(q) \subseteq 1..l.sent
      BY DEF Holds, Sound
    <3> QED BY <2>5, <3>1 DEF Snapshot
  <2>9. Paired(n, l)
    <3>1. Pending(n) => Pending(m)
      BY <2>2, <2>5, <1>1 DEF Pending, Kept
    <3> QED BY <3>1 DEF Holds, Paired
  <2>10. Conserved(n, l)
    <3> DEFINE waits == (Range(n.mailbox) \cup Range(n.held)) \ {Timer}
    <3>1. Conserved(m, l)
      BY DEF Holds
    <3>2. Range(n.mailbox) \cup Range(n.held) = Range(m.mailbox) \cup Range(m.held)
      BY <2>1, <2>5, RangeOfNone
    <3>3. Range(n.mailbox) \cap Range(n.held) = {}
      BY <2>5, RangeOfNone
    <3>4. Once(n.mailbox) /\ Once(n.held)
      BY <2>1, <2>5, <3>1 DEF Conserved, Once, Twice
    <3>5. Range(n.mailbox) \cap Range(l.told) \subseteq l.torn
      BY <2>5, <3>1, RangeOfNone DEF Conserved
    <3>6. n.turn.stage = "prompt" => Range(n.held) \cap Range(l.told) \subseteq l.torn
      BY <2>5, <3>1 DEF Conserved
    <3>7. n.turn.stage # "prompt" => Range(n.held) \ {Timer} \subseteq Range(l.told)
      BY <2>5, RangeOfNone
    <3> QED BY <3>1, <3>2, <3>3, <3>4, <3>5, <3>6, <3>7 DEF Conserved
  <2>11. OneAlarm(n, l)
    <3>1. n.alarm = m.alarm /\ (n.mailbox = m.mailbox \/ n.mailbox = <<>>)
      BY <1>1, <2>5 DEF Kept
    <3>2. CASE n.mailbox = m.mailbox
      BY <3>1, <3>2 DEF Holds, OneAlarm
    <3>3. CASE n.mailbox = <<>>
      BY <3>3, RangeOfNone DEF OneAlarm
    <3> QED BY <3>1, <3>2, <3>3
  <2> QED BY <1>1, <2>6, <2>7, <2>8, <2>9, <2>10, <2>11 DEF Holds
<1>4. NoneBegun(m, n) \/ QueueBegun(q, m, n) \/ WakeBegun(m, n)
  BY DEF Drained
<1>5. QueueBegun(q, m, n) \/ WakeBegun(m, n) => ~Busy(m)
  BY DEF QueueBegun, WakeBegun
<1> QED BY <1>2, <1>3, <1>4, <1>5

\* A history in which only the order of prompts and results is told further.
LEMMA HoldsLogged ==
  ASSUME NEW q, NEW m, NEW l, Holds(q, m, l), NEW k \in History,
         k.sent = l.sent, k.said = l.said, k.withdrawn = l.withdrawn, k.between = l.between,
         k.mailed = l.mailed, k.told = l.told, k.dropped = l.dropped, k.torn = l.torn, Paired(m, k)
  PROVE  Holds(q, m, k)
<1>1. Sound(q, m, k)
  BY DEF Holds, Sound
<1>2. Snapshot(q, m, k)
  BY DEF Holds, Snapshot
<1>3. Conserved(m, k)
  BY DEF Holds, Conserved
<1>4. OneAlarm(m, k)
  BY DEF Holds, OneAlarm
<1> QED BY <1>1, <1>2, <1>3, <1>4 DEF Holds

\* A turn that is over, whose prompt and mail were written.
LEMMA HoldsOver ==
  ASSUME NEW q, NEW m, NEW l, Holds(q, m, l), m.turn.stage \notin {"prompt", "erase"},
         NEW n \in Memory, Settled(n), Kept(m, n), n.mailbox = m.mailbox
  PROVE  Holds(q, Over(n), l)
<1> DEFINE o == Over(n)
<1>1. /\ o \in Memory /\ Kept(n, o) /\ Settled(o) /\ o.held = <<>> /\ o.mailbox = m.mailbox
      /\ o.turn.stage = "none" /\ ~Driven(o)
  BY OverIs, NoTurnIs
<1> HIDE DEF o
<1>2. Kept(m, o)
  BY <1>1 DEF Kept
<1>3. Batches(o) = Batches(m) /\ o.parked = m.parked
  BY <1>2 DEF Batches, Kept
<1>4. OneDriver(o)
  <2>1. OneDriver(m)
    BY DEF Holds
  <2>2. o.liveOn => o.expiry
    BY <1>2, <2>1 DEF OneDriver, Kept
  <2>3. /\ \A i, j \in Batches(o) : i = j
        /\ \A i \in Batches(o) : o.parked[i].calls \in 1..MaxCalls
    BY <1>3, <2>1 DEF OneDriver
  <2> QED BY <1>1, <2>2, <2>3 DEF OneDriver
<1>5. Sound(q, o, l)
  <2>1. Writes(o) = {} /\ Writes(m) = {}
    BY <1>1 DEF Writes
  <2> QED BY <2>1 DEF Holds, Sound
<1>6. Snapshot(q, o, l)
  BY <1>1 DEF Snapshot
<1>7. Paired(o, l)
  <2>1. Pending(o) => Pending(m)
    BY <1>1, <1>2, <1>3 DEF Pending, Kept
  <2> QED BY <2>1 DEF Holds, Paired
<1>8. Conserved(o, l)
  <2>1. Conserved(m, l) /\ Range(m.held) \ {Timer} \subseteq Range(l.told)
    BY DEF Holds, Conserved
  <2>2. Range(o.held) = {} /\ Once(o.held)
    BY <1>1, RangeOfNone DEF Once, Twice
  <2> QED BY <2>1, <2>2, <1>1 DEF Conserved
<1>9. OneAlarm(o, l)
  BY <1>1, <1>2 DEF Holds, OneAlarm, Kept
<1> QED BY <1>1, <1>4, <1>5, <1>6, <1>7, <1>8, <1>9 DEF Holds, o

\* The parts of the invariant that most steps start from.
LEMMA HoldsSettled ==
  ASSUME NEW q, NEW m, NEW l, Holds(q, m, l)
  PROVE  /\ m \in Memory /\ q \in Seq(Nat) /\ l \in History /\ Settled(m) /\ OneDriver(m)
         /\ Kept(m, m) /\ SameMail(m, m) /\ SameTurn(m, m) /\ Fewer(m.parked, m.parked)
<1>1. m.parked \in Seq(Parks)
  BY DEF Holds, Memory
<1> QED BY <1>1, FewerSame DEF Holds, OneDriver, Kept, SameMail, SameTurn

\* A turn that ends.
LEMMA HoldsFreed ==
  ASSUME NEW q, NEW m \in Memory, NEW l, Settled(m), configured \in BOOLEAN,
         Holds(q, Over(m), l)
  PROVE  Holds(q, Ended(q, m), l)
<1>1. Drained(q, Over(m), Ended(q, m))
  BY EndedDoes DEF Holds
<1> QED BY <1>1, HoldsDrained

\* A turn that ends, its prompt and its row written.
LEMMA HoldsEnded ==
  ASSUME NEW q, NEW m, NEW l, Holds(q, m, l), m.turn.stage \notin {"prompt", "erase"},
         configured \in BOOLEAN
  PROVE  Holds(q, Ended(q, m), l)
<1>1. m \in Memory /\ Settled(m) /\ Kept(m, m)
  BY HoldsSettled
<1>2. Holds(q, Over(m), l)
  BY <1>1, HoldsOver
<1> QED BY <1>1, <1>2, HoldsFreed

\* clearTimersForChat().
LEMMA TimersClearedIs ==
  ASSUME NEW m \in Memory
  PROVE  /\ TimersCleared(m) \in Memory
         /\ TimersCleared(m).turn = m.turn /\ TimersCleared(m).draining = m.draining
         /\ TimersCleared(m).held = m.held /\ TimersCleared(m).parked = m.parked
         /\ TimersCleared(m).dismiss = m.dismiss /\ TimersCleared(m).liveOn = m.liveOn
         /\ TimersCleared(m).expiry = m.expiry /\ TimersCleared(m).chain = m.chain
         /\ TimersCleared(m).answering = m.answering
         /\ ~TimersCleared(m).alarm
         /\ TimersCleared(m).mailbox = Those(m.mailbox, Range(m.mailbox) \ {Timer})
         /\ Range(TimersCleared(m).mailbox) = Range(m.mailbox) \ {Timer}
         /\ Once(m.mailbox) => Once(TimersCleared(m).mailbox)
<1> DEFINE box == Those(m.mailbox, Range(m.mailbox) \ {Timer})
           n == TimersCleared(m)
<1>1. m.mailbox \in Seq(Nat)
  BY DEF Memory
<1>2. box \in Seq(Nat) /\ Range(box) = Range(m.mailbox) \ {Timer}
  <2>1. box \in Seq(Nat) /\ Range(box) = Range(m.mailbox) \cap (Range(m.mailbox) \ {Timer})
    <3>1. ASSUME NEW S
          PROVE  Those(m.mailbox, S) \in Seq(Nat) /\ Range(Those(m.mailbox, S)) = Range(m.mailbox) \cap S
      BY <1>1, ThoseKeep
    <3> QED BY <3>1
  <2> QED BY <2>1
<1>4. n = [m EXCEPT !.alarm = FALSE, !.mailbox = box]
  BY DEF TimersCleared
<1> HIDE DEF box, n
<1>5. /\ n \in Memory
      /\ n.turn = m.turn /\ n.draining = m.draining /\ n.held = m.held /\ n.parked = m.parked
      /\ n.dismiss = m.dismiss /\ n.liveOn = m.liveOn /\ n.expiry = m.expiry
      /\ n.chain = m.chain /\ n.answering = m.answering /\ n.alarm = FALSE /\ n.mailbox = box
  BY <1>2, <1>4 DEF Memory
<1>7. ASSUME Once(m.mailbox) PROVE Once(box)
  <2>1. Twice(box, {Timer} \cap (Range(m.mailbox) \ {Timer}))
    BY <1>1, <1>7, TwiceInThose DEF Once, box
  <2> QED BY <2>1 DEF Once, Twice
<1> QED BY <1>2, <1>5, <1>7 DEF n, box

\* The timers' mail is cleared, and no other.
LEMMA HoldsCleared ==
  ASSUME NEW q, NEW m, NEW l, Holds(q, m, l)
  PROVE  Holds(q, TimersCleared(m), l)
<1> DEFINE n == TimersCleared(m)
<1>1. m \in Memory /\ OneDriver(m)
  BY DEF Holds
<1>2. /\ n \in Memory /\ n.turn = m.turn /\ n.draining = m.draining
      /\ n.held = m.held /\ n.parked = m.parked /\ n.dismiss = m.dismiss /\ n.liveOn = m.liveOn
      /\ n.expiry = m.expiry /\ ~n.alarm
      /\ Range(n.mailbox) = Range(m.mailbox) \ {Timer} /\ (Once(m.mailbox) => Once(n.mailbox))
  BY <1>1, TimersClearedIs
<1> HIDE DEF n
<1>3. OneDriver(n)
  BY <1>1, <1>2 DEF OneDriver, Settled, Driven, Batches
<1>4. Sound(q, n, l) /\ Snapshot(q, n, l)
  BY <1>2 DEF Holds, Sound, Snapshot, Writes
<1>5. Paired(n, l)
  BY <1>2 DEF Holds, Paired, Pending, Batches
<1>6. Conserved(n, l)
  <2>1. Conserved(m, l)
    BY DEF Holds
  <2> QED BY <2>1, <1>2 DEF Conserved
<1>7. OneAlarm(n, l)
  <2>1. n.mailbox \in Seq(Nat)
    BY <1>2 DEF Memory
  <2>2. \A i \in DOMAIN n.mailbox : n.mailbox[i] \in Range(n.mailbox)
    BY DEF Range
  <2>3. \A i \in DOMAIN n.mailbox : n.mailbox[i] # Timer
    BY <2>2, <1>2
  <2> QED BY <1>2, <2>3 DEF OneAlarm
<1> QED BY <1>2, <1>3, <1>4, <1>5, <1>6, <1>7 DEF Holds, n

\* A turn that throws: the mail of a wake is torn.
LEMMA HoldsThrew ==
  ASSUME NEW q, NEW m, NEW l, Holds(q, m, l), m.turn.stage # "erase", configured \in BOOLEAN,
         NEW k, k = [l EXCEPT !.torn = l.torn \cup (IF m.turn.origin = "wake" THEN Range(m.held) ELSE {})]
  PROVE  Holds(q, Threw(q, m), k)
<1>1. /\ m \in Memory /\ Settled(m) /\ Kept(m, m) /\ q \in Seq(Nat) /\ l \in History
      /\ m.held \in Seq(Nat) /\ m.mailbox \in Seq(Nat)
  BY HoldsSettled DEF Memory
<1>2. /\ Over(m) \in Memory /\ Over(m).mailbox = m.mailbox /\ Over(m).held = <<>>
      /\ Over(m).turn.stage = "none" /\ Kept(m, Over(m)) /\ Settled(Over(m))
  BY <1>1, OverIs, NoTurnIs
<1>3. CASE m.turn.origin # "wake"
  <2>1. k = [l EXCEPT !.torn = l.torn \cup {}]
    BY <1>3
  <2>2. /\ k \in History /\ k.sent = l.sent /\ k.said = l.said /\ k.withdrawn = l.withdrawn
        /\ k.between = l.between /\ k.mailed = l.mailed /\ k.told = l.told
        /\ k.dropped = l.dropped /\ k.torn = l.torn /\ k.crossed = l.crossed
        /\ k.split = l.split /\ k.raced = l.raced
    BY <1>1, <2>1, ZenonT(60) DEF History
  <2>3. Paired(m, k)
    BY <2>2 DEF Holds, Paired
  <2>4. Holds(q, m, k)
    BY <2>2, <2>3, HoldsLogged
  <2>5. m.held = <<>>
    BY <1>1, <1>3 DEF Settled
  <2> DEFINE n == [m EXCEPT !.turn.stage = "model"]
  <2>6. "model" \in Stages
    BY DEF Stages
  <2>7. n \in Memory /\ Kept(m, n) /\ n.mailbox = m.mailbox /\ n.held = m.held
    BY <1>1, <2>6 DEF Memory, Turns, Kept
  <2>8. Holds(q, Over(m), k)
    <3>1. CASE m.turn.stage # "prompt"
      BY <3>1, <2>4, <1>1, HoldsOver
    <3>2. CASE m.turn.stage = "prompt"
      <4> DEFINE o == Over(m)
      <4> HIDE DEF o
      <4>1. /\ o \in Memory /\ o.mailbox = m.mailbox /\ o.held = <<>> /\ o.turn.stage = "none"
            /\ Kept(m, o) /\ Settled(o)
        BY <1>2 DEF o
      <4>2. OneDriver(o)
        <5>1. OneDriver(m)
          BY DEF Holds
        <5>2. ~Driven(o) /\ Batches(o) = Batches(m) /\ o.parked = m.parked
          BY <4>1 DEF Driven, Batches, Kept
        <5>3. o.liveOn => o.expiry
          BY <5>1, <4>1 DEF OneDriver, Kept
        <5> QED BY <4>1, <5>1, <5>2, <5>3 DEF OneDriver
      <4>3. Sound(q, o, k)
        <5>1. Writes(o) = {} /\ Writes(m) = {}
          BY <4>1, <3>2 DEF Writes
        <5> QED BY <5>1, <2>4 DEF Holds, Sound
      <4>4. Snapshot(q, o, k)
        BY <4>1 DEF Snapshot
      <4>5. Paired(o, k)
        <5>1. Pending(o) => Pending(m)
          BY <4>1 DEF Pending, Kept, Batches
        <5> QED BY <5>1, <2>4 DEF Holds, Paired
      <4>6. Conserved(o, k) /\ OneAlarm(o, k)
        <5>1. Conserved(m, k) /\ OneAlarm(m, k)
          BY <2>4 DEF Holds
        <5> QED BY <5>1, <4>1, <2>5, RangeOfNone DEF Conserved, OneAlarm, Kept
      <4> QED BY <4>1, <4>2, <4>3, <4>4, <4>5, <4>6, <2>2, <1>1 DEF Holds, o
    <3> QED BY <3>1, <3>2
  <2>9. Drained(q, Over(m), Threw(q, m))
    BY <1>1, <1>3, ThrewDoes
  <2> QED BY <2>8, <2>9, HoldsDrained
<1>4. CASE m.turn.origin = "wake"
  <2> DEFINE lost == [k EXCEPT !.dropped = l.dropped \cup (Range(m.held) \ {Timer})]
             o == Over(m)
             n == Threw(q, m)
  <2>1. Range(m.held) \subseteq Nat
    BY <1>1 DEF Range
  <2>2. k = [l EXCEPT !.torn = l.torn \cup Range(m.held)]
    BY <1>4
  <2>3. /\ k \in History /\ k.sent = l.sent /\ k.said = l.said /\ k.withdrawn = l.withdrawn
        /\ k.between = l.between /\ k.mailed = l.mailed /\ k.told = l.told
        /\ k.dropped = l.dropped /\ k.torn = l.torn \cup Range(m.held)
        /\ k.crossed = l.crossed /\ k.split = l.split /\ k.raced = l.raced
    BY <1>1, <2>1, <2>2 DEF History
  <2>4. /\ lost \in History /\ lost.sent = l.sent /\ lost.said = l.said
        /\ lost.withdrawn = l.withdrawn /\ lost.between = l.between /\ lost.mailed = l.mailed
        /\ lost.told = l.told /\ lost.dropped = l.dropped \cup (Range(m.held) \ {Timer})
        /\ lost.torn = k.torn /\ lost.crossed = l.crossed /\ lost.split = l.split
        /\ lost.raced = l.raced
    <3>1. l.dropped \cup (Range(m.held) \ {Timer}) \in SUBSET Nat
      BY <1>1, <2>1 DEF History
    <3> QED BY <3>1, <2>3 DEF History
  <2> HIDE DEF lost, o
  <2>5. /\ o \in Memory /\ o.mailbox = m.mailbox /\ o.held = <<>> /\ o.turn.stage = "none"
        /\ Kept(m, o) /\ Settled(o) /\ ~Driven(o) /\ Batches(o) = Batches(m)
        /\ o.parked = m.parked
    BY <1>2 DEF o, Driven, Batches, Kept
  <2>6. Conserved(m, l) /\ OneAlarm(m, l) /\ OneDriver(m)
    BY DEF Holds
  <2>7. Holds(q, o, lost)
    <3>1. OneDriver(o)
      <4>1. o.liveOn => o.expiry
        BY <2>5, <2>6 DEF OneDriver, Kept
      <4> QED BY <2>5, <2>6, <4>1 DEF OneDriver
    <3>2. Sound(q, o, lost)
      <4>1. Writes(o) = {} /\ Writes(m) = {}
        BY <2>5 DEF Writes
      <4> QED BY <4>1, <2>4 DEF Holds, Sound
    <3>3. Snapshot(q, o, lost)
      BY <2>5 DEF Snapshot
    <3>4. Paired(o, lost)
      <4>1. Pending(o) => Pending(m)
        BY <2>5 DEF Pending, Kept
      <4> QED BY <4>1, <2>4 DEF Holds, Paired
    <3>5. Conserved(o, lost)
      <4>1. Range(o.held) = {} /\ Once(o.held)
        BY <2>5, RangeOfNone DEF Once, Twice
      <4>2. 1..lost.mailed = ((Range(o.mailbox) \cup Range(o.held)) \ {Timer}) \cup Range(lost.told) \cup lost.dropped
        BY <4>1, <2>3, <2>4, <2>5, <2>6 DEF Conserved
      <4>3. Twice(lost.told, lost.torn)
        BY <2>3, <2>4, <2>6 DEF Conserved, Twice
      <4>4. /\ Range(o.mailbox) \cap Range(lost.told) \subseteq lost.torn
            /\ Range(o.mailbox) \cap Range(o.held) \subseteq {Timer} /\ Once(o.mailbox)
        BY <4>1, <2>3, <2>4, <2>5, <2>6 DEF Conserved
      <4> QED BY <4>1, <4>2, <4>3, <4>4, <2>5 DEF Conserved
    <3>6. OneAlarm(o, lost)
      BY <2>3, <2>4, <2>5, <2>6 DEF OneAlarm, Kept
    <3> QED BY <2>4, <2>5, <3>1, <3>2, <3>3, <3>4, <3>5, <3>6, <1>1 DEF Holds
  <2>8. PICK d \in Memory :
          /\ Drained(q, o, d)
          /\ n \in Memory /\ Kept(d, n) /\ n.turn = d.turn /\ n.draining = d.draining
          /\ n.held = d.held /\ n.mailbox = m.held \o d.mailbox
    BY <1>1, <1>4, ThrewDoes, Zenon DEF o
  <2> HIDE DEF n
  <2>9. Holds(q, d, lost)
    BY <2>7, <2>8, HoldsDrained
  <2>10. d.mailbox \in Seq(Nat) /\ d.held \in Seq(Nat)
    BY DEF Memory
  <2>11. Range(n.mailbox) = Range(m.held) \cup Range(d.mailbox)
    BY <2>8, <2>10, <1>1, RangeOfConcat
  <2>12. Range(d.mailbox) \cup Range(d.held) = Range(m.mailbox)
    BY <2>5, <2>8, RangeOfNone DEF Drained, NoneBegun, QueueBegun, WakeBegun
  <2>13. OneDriver(n)
    <3>1. OneDriver(d)
      BY <2>9 DEF Holds
    <3> QED BY <3>1, <2>8 DEF OneDriver, Settled, Driven, Batches, Kept
  <2>14. Sound(q, n, k) /\ Snapshot(q, n, k)
    BY <2>3, <2>4, <2>8, <2>9 DEF Holds, Sound, Snapshot, Writes
  <2>15. Paired(n, k)
    <3>1. Pending(n) = Pending(d)
      BY <2>8 DEF Pending, Batches, Kept
    <3> QED BY <3>1, <2>3, <2>4, <2>9 DEF Holds, Paired
  <2>16. Conserved(n, k)
    <3>1. Conserved(d, lost)
      BY <2>9 DEF Holds
    <3>2. 1..k.mailed = ((Range(n.mailbox) \cup Range(n.held)) \ {Timer}) \cup Range(k.told) \cup k.dropped
      BY <3>1, <2>3, <2>4, <2>8, <2>11 DEF Conserved
    <3>3. Range(n.mailbox) \cap Range(k.told) \subseteq k.torn
      BY <3>1, <2>3, <2>4, <2>11 DEF Conserved
    <3>4. Range(n.mailbox) \cap Range(n.held) \subseteq {Timer}
      BY <3>1, <2>6, <2>8, <2>11, <2>12 DEF Conserved
    <3>5. Once(n.mailbox)
      <4>1. Once(m.held) /\ Once(d.mailbox) /\ Range(m.held) \cap Range(d.mailbox) \subseteq {Timer}
        BY <2>6, <2>12, <3>1 DEF Conserved
      <4>2. Twice(m.held \o d.mailbox, {Timer})
        BY <4>1, <2>10, <1>1, TwiceInConcat DEF Once
      <4> QED BY <4>2, <2>8 DEF Once
    <3> QED BY <3>1, <3>2, <3>3, <3>4, <3>5, <2>3, <2>4, <2>8 DEF Conserved
  <2>17. OneAlarm(n, k)
    <3> SUFFICES ASSUME k.torn = {}
                 PROVE  /\ \A i, j \in DOMAIN n.mailbox : n.mailbox[i] = Timer /\ n.mailbox[j] = Timer => i = j
                        /\ n.alarm => Timer \notin Range(n.mailbox)
      BY DEF OneAlarm
    <3>1. m.held = <<>>
      <4>1. Range(m.held) = {}
        BY <2>3
      <4>2. ASSUME m.held # <<>> PROVE FALSE
        <5>1. Range(m.held) = {Head(m.held)} \cup Range(Tail(m.held))
          BY <4>2, <1>1, RangeOfTail
        <5> QED BY <4>1, <5>1
      <4> QED BY <4>2
    <3>2. n.mailbox = d.mailbox /\ n.alarm = d.alarm
      BY <3>1, <2>8, <2>10 DEF Kept
    <3> QED BY <3>2, <2>4, <2>9 DEF Holds, OneAlarm
  <2> QED BY <2>3, <2>8, <2>13, <2>14, <2>15, <2>16, <2>17, <1>1 DEF Holds, n
<1> QED BY <1>3, <1>4

-----------------------------------------------------------------------------
(* The steps of a turn.                                                     *)

\* What the invariant says of the chat as it is.
LEMMA Now ==
  ASSUME ChatInvariant
  PROVE  /\ Holds(rows, mem, log) /\ mem \in Memory /\ rows \in Seq(Nat) /\ log \in History
         /\ Settled(mem) /\ OneDriver(mem) /\ configured \in BOOLEAN /\ mem.turn \in Turns
         /\ mem.parked \in Seq(Parks)
<1>1. Holds(rows, mem, log) /\ configured \in BOOLEAN
  BY DEF ChatInvariant
<1> QED BY <1>1, HoldsSettled DEF Memory

\* A result is written while a call waits for it, or when nobody has spoken since.
LEMMA AnsweredHolds ==
  ASSUME NEW q, NEW m, NEW l, Holds(q, m, l), Pending(m) \/ ~l.crossed
  PROVE  Holds(q, m, Answered(l)) /\ Answered(l).crossed = l.crossed
<1>1. l \in History
  BY DEF Holds
<1>2. l.split \in BOOLEAN /\ l.crossed \in BOOLEAN
  BY <1>1 DEF History
<1>3. Answered(l) = [l EXCEPT !.split = l.split \/ l.crossed]
  BY DEF Answered
<1>4. /\ Answered(l) \in History
      /\ Answered(l).sent = l.sent /\ Answered(l).said = l.said
      /\ Answered(l).withdrawn = l.withdrawn /\ Answered(l).between = l.between
      /\ Answered(l).mailed = l.mailed /\ Answered(l).told = l.told
      /\ Answered(l).dropped = l.dropped /\ Answered(l).torn = l.torn
      /\ Answered(l).crossed = l.crossed /\ Answered(l).raced = l.raced
      /\ Answered(l).split = (l.split \/ l.crossed)
  BY <1>1, <1>2, <1>3 DEF History
<1>5. Paired(m, Answered(l))
  BY <1>4 DEF Holds, Paired
<1> QED BY <1>4, <1>5, HoldsLogged

\* The calls of a new batch are written.
LEMMA AskedHolds ==
  ASSUME NEW q, NEW m, NEW l, Holds(q, m, l)
  PROVE  Holds(q, m, Asked(l)) /\ ~Asked(l).crossed
<1>1. l \in History
  BY DEF Holds
<1>2. Asked(l) = [l EXCEPT !.crossed = FALSE]
  BY DEF Asked
<1>4. /\ Asked(l) \in History
      /\ Asked(l).sent = l.sent /\ Asked(l).said = l.said
      /\ Asked(l).withdrawn = l.withdrawn /\ Asked(l).between = l.between
      /\ Asked(l).mailed = l.mailed /\ Asked(l).told = l.told
      /\ Asked(l).dropped = l.dropped /\ Asked(l).torn = l.torn
      /\ Asked(l).crossed = FALSE /\ Asked(l).raced = l.raced
      /\ Asked(l).split = l.split
  BY <1>1, <1>2 DEF History
<1>5. Paired(m, Asked(l))
  BY <1>4 DEF Holds, Paired
<1> QED BY <1>4, <1>5, HoldsLogged

\* The model asks for calls.
LEMMA ModelAsksHolds ==
  ASSUME ChatInvariant, NEW k \in 1..MaxCalls, ModelAsks(k)
  PROVE  Holds(rows', mem', log')
<1>1. mem \in Memory /\ mem.turn \in Turns /\ Holds(rows, mem, log)
  BY Now
<1>2. mem.turn.stage = "model" /\ mem.turn.round < MaxRounds
  BY DEF ModelAsks, T
<1>3. MaxCalls \in Nat /\ MaxRounds \in Nat
  BY SizesNat
<1>4. mem.turn.round + 1 \in 0..MaxRounds /\ k \in 0..MaxCalls /\ "tools" \in Stages
  BY <1>1, <1>2, <1>3 DEF Turns, Stages
<1>5. mem' = [mem EXCEPT !.turn = [mem.turn EXCEPT !.stage = "tools", !.calls = k,
                                         !.round = mem.turn.round + 1, !.got = TRUE]]
  BY <1>1 DEF ModelAsks, Memory, Turns
<1>6. /\ mem' \in Memory /\ Kept(mem, mem') /\ SameMail(mem, mem') /\ mem'.draining = mem.draining
      /\ mem'.turn.origin = mem.turn.origin /\ mem'.turn.stage = "tools"
  BY <1>1, <1>4, <1>5 DEF Memory, Turns, Kept, SameMail
<1>7. rows' = rows /\ log' = Asked(log)
  BY DEF ModelAsks
<1>8. Holds(rows, mem, Asked(log)) /\ ~Asked(log).crossed
  BY <1>1, AskedHolds
<1> QED BY <1>2, <1>6, <1>7, <1>8, HoldsMoved

\* It is cut off asking: each call gets an error for its result.
LEMMA ModelCutOffHolds ==
  ASSUME ChatInvariant, ModelCutOff
  PROVE  Holds(rows', mem', log')
<1>1. mem \in Memory /\ mem.turn \in Turns /\ Holds(rows, mem, log) /\ rows \in Seq(Nat)
  BY Now
<1>2. mem.turn.stage = "model" /\ mem.turn.round < MaxRounds
  BY DEF ModelCutOff, T
<1>3. MaxRounds \in Nat
  BY SizesNat
<1>4. mem.turn.round + 1 \in 0..MaxRounds /\ "deliver" \in Stages
  BY <1>1, <1>2, <1>3 DEF Turns, Stages
<1>5. mem' = [mem EXCEPT !.turn = [mem.turn EXCEPT !.stage = "deliver", !.snapshot = rows,
                                         !.round = mem.turn.round + 1, !.got = TRUE]]
  BY <1>1 DEF ModelCutOff, Memory, Turns
<1>6. /\ mem' \in Memory /\ Kept(mem, mem') /\ SameMail(mem, mem') /\ mem'.draining = mem.draining
      /\ mem'.turn.origin = mem.turn.origin /\ mem'.turn.stage = "deliver"
      /\ mem'.turn.snapshot = rows
  BY <1>1, <1>4, <1>5 DEF Memory, Turns, Kept, SameMail
<1>7. rows' = rows /\ log' = Answered(Asked(log))
  BY DEF ModelCutOff
<1>8. Holds(rows, mem, Answered(Asked(log)))
  BY <1>1, AskedHolds, AnsweredHolds
<1> QED BY <1>2, <1>6, <1>7, <1>8, HoldsMoved

\* A call of the batch gets its result without running, or after it ran.
LEMMA ResultHolds ==
  ASSUME ChatInvariant, mem.turn.stage \in {"tools", "running", "opening", "deciding", "answer"},
         mem.turn.calls > 0, rows' = rows, log' = Answered(log),
         mem' = [mem EXCEPT !.turn = [mem.turn EXCEPT !.stage = "tools", !.calls = mem.turn.calls - 1]]
  PROVE  Holds(rows', mem', log')
<1>1. mem \in Memory /\ mem.turn \in Turns /\ Holds(rows, mem, log)
  BY Now
<1>2. MaxCalls \in Nat
  BY SizesNat
<1>3. mem.turn.calls - 1 \in 0..MaxCalls /\ "tools" \in Stages
  BY <1>1, <1>2 DEF Turns, Stages
<1>4. /\ mem' \in Memory /\ Kept(mem, mem') /\ SameMail(mem, mem') /\ mem'.draining = mem.draining
      /\ mem'.turn.origin = mem.turn.origin /\ mem'.turn.stage = "tools"
  BY <1>1, <1>3 DEF Memory, Turns, Kept, SameMail
<1>5. Pending(mem)
  BY DEF Pending
<1>6. Holds(rows, mem, Answered(log))
  BY <1>1, <1>5, AnsweredHolds
<1> QED BY <1>4, <1>5, <1>6, HoldsMoved

\* A call is refused.
LEMMA RefuseCallHolds ==
  ASSUME ChatInvariant, RefuseCall
  PROVE  Holds(rows', mem', log')
<1>1. mem \in Memory /\ mem.turn \in Turns
  BY Now
<1>2. mem.turn.stage = "tools" /\ mem.turn.calls > 0 /\ rows' = rows /\ log' = Answered(log)
  BY DEF RefuseCall, AtCall, T
<1>3. mem' = [mem EXCEPT !.turn = [mem.turn EXCEPT !.stage = "tools", !.calls = mem.turn.calls - 1]]
  BY <1>1, <1>2 DEF RefuseCall, Memory, Turns
<1> QED BY <1>2, <1>3, ResultHolds

\* A call, a browser that failed or an answered call has its result.
LEMMA CallDoneHolds ==
  ASSUME ChatInvariant, CallDone \/ BrowserFails \/ AnswerDone
  PROVE  Holds(rows', mem', log')
<1>1. mem \in Memory /\ mem.turn \in Turns /\ OneDriver(mem)
  BY Now
<1>2. mem.turn.stage \in {"running", "opening", "deciding", "answer"} /\ rows' = rows /\ log' = Answered(log)
  BY DEF CallDone, BrowserFails, AnswerDone, T
<1>3. mem.turn.calls > 0
  BY <1>1, <1>2 DEF OneDriver
<1>4. mem' = [mem EXCEPT !.turn = [mem.turn EXCEPT !.stage = "tools", !.calls = mem.turn.calls - 1]]
  BY <1>1 DEF CallDone, BrowserFails, AnswerDone, Memory, Turns
<1> QED BY <1>2, <1>3, <1>4, ResultHolds

\* A call starts, alone or with the rest of a parallel batch.
LEMMA StartCallHolds ==
  ASSUME ChatInvariant, StartCall
  PROVE  Holds(rows', mem', log')
<1>1. mem \in Memory /\ mem.turn \in Turns /\ Holds(rows, mem, log)
  BY Now
<1>2. mem.turn.stage = "tools" /\ mem.turn.calls > 0 /\ rows' = rows /\ log' = log
  BY DEF StartCall, AtCall, T
<1>3. PICK group \in {1, mem.turn.calls} :
        mem' = [mem EXCEPT !.turn.stage = "running", !.turn.calls = mem.turn.calls - group + 1]
  <2>1. \E group \in {1, mem.turn.calls} :
          mem' = [mem EXCEPT !.turn.stage = "running", !.turn.calls = @ - group + 1]
    BY DEF StartCall, T
  <2>2. PICK group \in {1, mem.turn.calls} :
          mem' = [mem EXCEPT !.turn.stage = "running", !.turn.calls = @ - group + 1]
    BY <2>1
  <2>3. mem' = [mem EXCEPT !.turn.stage = "running", !.turn.calls = mem.turn.calls - group + 1]
    BY <2>2, <1>1 DEF Memory, Turns
  <2> QED BY <2>3
<1>4. MaxCalls \in Nat
  BY SizesNat
<1>5. mem.turn.calls - group + 1 \in 1..MaxCalls /\ "running" \in Stages
  <2>1. mem.turn.calls \in 1..MaxCalls /\ "running" \in Stages
    BY <1>1, <1>2, <1>4 DEF Turns, Stages
  <2>2. CASE group = 1
    BY <2>1, <2>2, <1>4
  <2>3. CASE group = mem.turn.calls
    BY <2>1, <2>3, <1>4
  <2> QED BY <2>2, <2>3
<1>6. /\ mem' \in Memory /\ Kept(mem, mem') /\ SameMail(mem, mem') /\ mem'.draining = mem.draining
      /\ mem'.turn.origin = mem.turn.origin /\ mem'.turn.stage = "running" /\ mem'.turn.calls > 0
  <2>1. PICK c \in 1..MaxCalls : mem' = [mem EXCEPT !.turn.stage = "running", !.turn.calls = c]
    BY <1>3, <1>5
  <2>2. c \in 0..MaxCalls /\ c > 0
    BY <1>4
  <2> QED BY <1>1, <1>5, <2>1, <2>2 DEF Memory, Turns, Kept, SameMail
<1>7. Pending(mem)
  BY <1>2 DEF Pending
<1> QED BY <1>1, <1>2, <1>6, <1>7, HoldsMoved

\* The approved call runs.
LEMMA RunApprovedHolds ==
  ASSUME ChatInvariant, RunApproved
  PROVE  Holds(rows', mem', log')
<1>1. mem \in Memory /\ mem.turn \in Turns /\ Holds(rows, mem, log) /\ OneDriver(mem)
  BY Now
<1>2. /\ mem.turn.stage = "deciding" /\ rows' = rows /\ log' = log
      /\ mem' = [mem EXCEPT !.turn.stage = "running"] /\ "running" \in Stages
  BY DEF RunApproved, T, Stages
<1>3. mem.turn.calls > 0 /\ Pending(mem)
  BY <1>1, <1>2 DEF OneDriver, Pending
<1>4. /\ mem' \in Memory /\ Kept(mem, mem') /\ SameMail(mem, mem') /\ mem'.draining = mem.draining
      /\ mem'.turn.origin = mem.turn.origin /\ mem'.turn.stage = "running"
      /\ mem'.turn.calls = mem.turn.calls
  BY <1>1, <1>2 DEF Memory, Turns, Kept, SameMail
<1> QED BY <1>1, <1>2, <1>3, <1>4, HoldsMoved

\* The browser is opened for a person.
LEMMA OpenBrowserHolds ==
  ASSUME ChatInvariant, OpenBrowser
  PROVE  Holds(rows', mem', log')
<1>1. mem \in Memory /\ mem.turn \in Turns /\ Holds(rows, mem, log)
  BY Now
<1>2. /\ mem.turn.stage = "tools" /\ mem.turn.calls > 0 /\ rows' = rows /\ log' = log
      /\ mem' = [mem EXCEPT !.turn.stage = "opening"] /\ "opening" \in Stages
  BY DEF OpenBrowser, AtCall, T, Stages
<1>3. /\ mem' \in Memory /\ Kept(mem, mem') /\ SameMail(mem, mem') /\ mem'.draining = mem.draining
      /\ mem'.turn.origin = mem.turn.origin /\ mem'.turn.stage = "opening"
      /\ mem'.turn.calls = mem.turn.calls
  BY <1>1, <1>2 DEF Memory, Turns, Kept, SameMail
<1>4. Pending(mem)
  BY <1>2 DEF Pending
<1> QED BY <1>1, <1>2, <1>3, <1>4, HoldsMoved

\* check_back_in replaces the timer and what it left in the mailbox.
LEMMA CheckBackInHolds ==
  ASSUME ChatInvariant, CheckBackIn
  PROVE  Holds(rows', mem', log')
<1> DEFINE c == TimersCleared(mem)
           kept == [c EXCEPT !.alarm = TRUE]
<1>1. mem \in Memory /\ mem.turn \in Turns /\ Holds(rows, mem, log)
  BY Now
<1>2. mem.turn.stage = "tools" /\ mem.turn.calls > 0 /\ rows' = rows /\ log' = Answered(log)
  BY DEF CheckBackIn, AtCall, T
<1>3. /\ c \in Memory /\ c.turn = mem.turn /\ ~c.alarm
      /\ Range(c.mailbox) = Range(mem.mailbox) \ {Timer}
  BY <1>1, TimersClearedIs
<1>4. Holds(rows, c, log)
  BY <1>1, HoldsCleared
<1> HIDE DEF c
<1>5. /\ kept \in Memory /\ kept.turn = c.turn /\ kept.draining = c.draining
      /\ kept.parked = c.parked /\ kept.dismiss = c.dismiss /\ kept.liveOn = c.liveOn
      /\ kept.expiry = c.expiry /\ kept.mailbox = c.mailbox /\ kept.held = c.held
      /\ kept.alarm = TRUE
  BY <1>3 DEF Memory
<1>6. Holds(rows, kept, log)
  <2>1. OneDriver(kept)
    BY <1>4, <1>5 DEF Holds, OneDriver, Settled, Driven, Batches
  <2>2. Sound(rows, kept, log) /\ Snapshot(rows, kept, log)
    BY <1>4, <1>5 DEF Holds, Sound, Snapshot, Writes
  <2>3. Paired(kept, log)
    BY <1>4, <1>5 DEF Holds, Paired, Pending, Batches
  <2>4. Conserved(kept, log)
    BY <1>4, <1>5 DEF Holds, Conserved
  <2>5. OneAlarm(kept, log)
    <3>1. Timer \notin Range(kept.mailbox)
      BY <1>3, <1>5
    <3>2. \A i \in DOMAIN kept.mailbox : kept.mailbox[i] \in Range(kept.mailbox)
      BY DEF Range
    <3> QED BY <3>1, <3>2 DEF OneAlarm
  <2> QED BY <1>4, <1>5, <2>1, <2>2, <2>3, <2>4, <2>5 DEF Holds
<1>7. Pending(kept)
  BY <1>2, <1>3, <1>5 DEF Pending
<1>8. Holds(rows, kept, Answered(log))
  BY <1>6, <1>7, AnsweredHolds
<1>9. MaxCalls \in Nat
  BY SizesNat
<1>10. mem.turn.calls - 1 \in 0..MaxCalls /\ "tools" \in Stages
  BY <1>1, <1>2, <1>9 DEF Turns, Stages
<1>11. mem' = [kept EXCEPT !.turn = [mem.turn EXCEPT !.last = TRUE, !.calls = mem.turn.calls - 1]]
  BY <1>1, <1>3 DEF CheckBackIn, c, Memory, Turns
<1>12. /\ mem' \in Memory /\ Kept(kept, mem') /\ SameMail(kept, mem')
       /\ mem'.draining = kept.draining
       /\ mem'.turn.origin = kept.turn.origin /\ mem'.turn.stage = "tools"
  BY <1>1, <1>2, <1>3, <1>5, <1>10, <1>11, ZenonT(60) DEF Memory, Turns, Kept, SameMail
<1> HIDE DEF kept
<1> QED BY <1>2, <1>3, <1>5, <1>7, <1>8, <1>12, HoldsMoved

\* A turn that only ends.
LEMMA EndsHolds ==
  ASSUME ChatInvariant, mem.turn.stage \notin {"prompt", "erase"}, mem' = Ended(rows, mem),
         rows' = rows, log' = log
  PROVE  Holds(rows', mem', log')
  BY Now, HoldsEnded

\* The model has answered, or the conversation is compacted.
LEMMA ModelAnswersHolds ==
  ASSUME ChatInvariant, ModelAnswers \/ CompactDone
  PROVE  Holds(rows', mem', log')
  BY EndsHolds DEF ModelAnswers, CompactDone, T

\* The request fails, and the chat's timers go.
LEMMA ModelFailsHolds ==
  ASSUME ChatInvariant, ModelFails
  PROVE  Holds(rows', mem', log')
<1>1. mem.turn.stage = "model" /\ mem' = Ended(rows, TimersCleared(mem)) /\ rows' = rows /\ log' = log
  BY DEF ModelFails, T
<1>2. TimersCleared(mem).turn = mem.turn
  BY Now, TimersClearedIs
<1>3. Holds(rows, TimersCleared(mem), log)
  BY Now, HoldsCleared
<1> QED BY <1>1, <1>2, <1>3, Now, HoldsEnded

\* The batch is over.
LEMMA BatchOverHolds ==
  ASSUME ChatInvariant, BatchOver
  PROVE  Holds(rows', mem', log')
<1>1. mem \in Memory /\ mem.turn \in Turns /\ Holds(rows, mem, log) /\ rows \in Seq(Nat)
  BY Now
<1>2. mem.turn.stage = "tools" /\ rows' = rows /\ log' = log
  BY DEF BatchOver, T
<1>3. CASE mem' = Ended(rows, mem)
  BY <1>2, <1>3, EndsHolds
<1>4. CASE mem' = [mem EXCEPT !.turn.stage = "deliver", !.turn.snapshot = rows]
  <2>1. "deliver" \in Stages
    BY DEF Stages
  <2>2. /\ mem' \in Memory /\ Kept(mem, mem') /\ SameMail(mem, mem')
        /\ mem'.draining = mem.draining /\ mem'.turn.origin = mem.turn.origin
        /\ mem'.turn.stage = "deliver" /\ mem'.turn.snapshot = rows
    BY <1>1, <1>4, <2>1 DEF Memory, Turns, Kept, SameMail
  <2> QED BY <1>1, <1>2, <2>2, HoldsMoved
<1> QED BY <1>3, <1>4 DEF BatchOver

\* No row is left to deliver.
LEMMA DeliveredHolds ==
  ASSUME ChatInvariant, Delivered
  PROVE  Holds(rows', mem', log')
<1>1. mem \in Memory /\ mem.turn \in Turns /\ Holds(rows, mem, log) /\ rows \in Seq(Nat)
  BY Now
<1>2. mem.turn.stage = "deliver" /\ rows' = rows /\ log' = log
  BY DEF Delivered, T
<1>3. CASE mem' = Ended(rows, mem)
  BY <1>2, <1>3, EndsHolds
<1>4. CASE mem' = [mem EXCEPT !.turn.stage = "model"]
  <2>1. "model" \in Stages
    BY DEF Stages
  <2>2. /\ mem' \in Memory /\ Kept(mem, mem') /\ SameMail(mem, mem')
        /\ mem'.draining = mem.draining /\ mem'.turn.origin = mem.turn.origin
        /\ mem'.turn.stage = "model"
    BY <1>1, <1>4, <2>1 DEF Memory, Turns, Kept, SameMail
  <2> QED BY <1>1, <1>2, <2>2, HoldsMoved
<1> QED BY <1>3, <1>4 DEF Delivered, Drive

\* The generator throws.
LEMMA TurnThrowsHolds ==
  ASSUME ChatInvariant, TurnThrows
  PROVE  Holds(rows', mem', log')
<1>1. /\ mem.turn.stage # "erase" /\ mem' = Threw(rows, mem) /\ rows' = rows
      /\ log' = [log EXCEPT !.torn = log.torn \cup (IF mem.turn.origin = "wake" THEN Range(mem.held) ELSE {})]
  BY DEF TurnThrows, T
<1> QED BY <1>1, Now, HoldsThrew

\* The prompt is written, and with it the mail it was built from.
LEMMA PromptWrittenHolds ==
  ASSUME ChatInvariant, PromptWritten
  PROVE  Holds(rows', mem', log')
<1> DEFINE n == [mem EXCEPT !.turn.stage = "model"]
           new == Those(mem.held, Range(mem.held) \ {Timer})
<1>1. /\ mem \in Memory /\ mem.turn \in Turns /\ Holds(rows, mem, log) /\ rows \in Seq(Nat)
      /\ log \in History /\ Settled(mem) /\ OneDriver(mem) /\ configured \in BOOLEAN
      /\ mem.parked \in Seq(Parks)
  BY Now
<1>2. /\ mem.turn.stage = "prompt" /\ rows' = rows /\ mem' = Drive(rows, mem)
      /\ log' = [Prompted(log) EXCEPT !.told = @ \o new]
  BY DEF PromptWritten, T
<1>3. mem.held \in Seq(Nat) /\ log.told \in Seq(Nat) /\ log.raced \in BOOLEAN
  BY <1>1 DEF Memory, History
<1>4. new \in Seq(Nat) /\ Range(new) = Range(mem.held) \ {Timer}
  <2>1. \A S : Those(mem.held, S) \in Seq(Nat) /\ Range(Those(mem.held, S)) = Range(mem.held) \cap S
    BY <1>3, ThoseKeep, ZenonT(60)
  <2> QED BY <2>1
<1>5. Conserved(mem, log) /\ OneAlarm(mem, log)
  BY <1>1 DEF Holds
<1>6. Twice(new, {})
  <2>1. Twice(new, {Timer} \cap (Range(mem.held) \ {Timer}))
    BY <1>3, <1>5, TwiceInThose DEF Conserved, Once
  <2> QED BY <2>1 DEF Twice
<1> HIDE DEF new
<1>7. log.told \o new \in Seq(Nat) /\ Range(log.told \o new) = Range(log.told) \cup Range(new)
  BY <1>3, <1>4, RangeOfConcat
<1>8. /\ log' \in History
      /\ log'.sent = log.sent /\ log'.said = log.said
      /\ log'.withdrawn = log.withdrawn /\ log'.between = log.between
      /\ log'.mailed = log.mailed /\ log'.told = log.told \o new
      /\ log'.dropped = log.dropped /\ log'.torn = log.torn
      /\ log'.crossed = TRUE /\ log'.raced = (log.raced \/ mem.dismiss = "result")
      /\ log'.split = log.split
  <2>1. (log.raced \/ mem.dismiss = "result") \in BOOLEAN
    OBVIOUS
  <2>2. log' = [log EXCEPT !.crossed = TRUE, !.raced = log.raced \/ mem.dismiss = "result",
                           !.told = log.told \o new]
    BY <1>1, <1>2 DEF Prompted, History
  <2> QED BY <1>1, <1>7, <2>1, <2>2 DEF History
<1>9. "model" \in Stages
  BY DEF Stages
<1>10. /\ n \in Memory /\ Kept(mem, n) /\ SameMail(mem, n) /\ n.draining = mem.draining
       /\ n.turn.origin = mem.turn.origin /\ n.turn.stage = "model"
  BY <1>1, <1>9 DEF Memory, Turns, Kept, SameMail
<1> HIDE DEF n
<1>11. n.parked = mem.parked /\ Batches(n) = {} /\ n.dismiss = mem.dismiss
  BY <1>1, <1>2, <1>10 DEF OneDriver, Driven, Kept, Batches
<1>12. OneDriver(n)
  <2>1. Settled(n)
    BY <1>1, <1>2, <1>10 DEF Settled, Driven, SameMail
  <2>2. n.liveOn => n.expiry
    BY <1>1, <1>10 DEF OneDriver, Kept
  <2> QED BY <1>10, <1>11, <2>1, <2>2 DEF OneDriver
<1>13. Sound(rows, n, log')
  <2>1. Writes(n) = {} /\ Writes(mem) = {}
    BY <1>2, <1>10 DEF Writes
  <2> QED BY <2>1, <1>1, <1>8 DEF Holds, Sound
<1>14. Snapshot(rows, n, log')
  BY <1>10 DEF Snapshot
<1>15. Paired(n, log')
  BY <1>1, <1>8, <1>10, <1>11 DEF Holds, Paired, Pending
<1>16. Conserved(n, log')
  <2>1. Twice(log.told \o new, log.torn)
    <3>1. Twice(log.told, log.torn) /\ Twice(new, log.torn)
      BY <1>5, <1>6 DEF Conserved, Twice
    <3>2. Range(log.told) \cap Range(new) \subseteq log.torn
      BY <1>2, <1>4, <1>5 DEF Conserved
    <3> QED BY <3>1, <3>2, <1>3, <1>4, TwiceInConcat
  <2>2. 1..log'.mailed = ((Range(n.mailbox) \cup Range(n.held)) \ {Timer}) \cup Range(log'.told) \cup log'.dropped
    BY <1>4, <1>5, <1>7, <1>8, <1>10 DEF Conserved, SameMail
  <2>3. Range(n.mailbox) \cap Range(log'.told) \subseteq log'.torn
    BY <1>4, <1>5, <1>7, <1>8, <1>10 DEF Conserved, SameMail
  <2>4. Range(n.held) \ {Timer} \subseteq Range(log'.told)
    BY <1>4, <1>7, <1>8, <1>10 DEF SameMail
  <2>5. Range(n.mailbox) \cap Range(n.held) \subseteq {Timer} /\ Once(n.mailbox) /\ Once(n.held)
    BY <1>5, <1>10 DEF Conserved, SameMail
  <2> QED BY <1>8, <1>10, <2>1, <2>2, <2>3, <2>4, <2>5 DEF Conserved
<1>17. OneAlarm(n, log')
  BY <1>5, <1>8, <1>10 DEF OneAlarm, SameMail
<1>18. Holds(rows, n, log')
  BY <1>1, <1>8, <1>10, <1>12, <1>13, <1>14, <1>15, <1>16, <1>17 DEF Holds
<1>19. CASE mem' = n
  BY <1>2, <1>18, <1>19
<1>20. CASE mem' = Ended(rows, mem)
  <2>1. Kept(n, mem) /\ mem.mailbox = n.mailbox
    BY <1>10 DEF Kept, SameMail
  <2>2. Holds(rows, Over(mem), log')
    BY <2>1, <1>1, <1>10, <1>18, HoldsOver
  <2> QED BY <2>2, <1>1, <1>2, <1>20, HoldsFreed
<1> QED BY <1>2, <1>19, <1>20 DEF Drive, n

\* The oldest row is written.
LEMMA DeliverHolds ==
  ASSUME ChatInvariant, Deliver
  PROVE  Holds(rows', mem', log')
<1> DEFINE s == StillQueued
           x == Head(s)
           snap == mem.turn.snapshot
<1>1. /\ mem \in Memory /\ mem.turn \in Turns /\ Holds(rows, mem, log) /\ rows \in Seq(Nat)
      /\ log \in History /\ Settled(mem) /\ OneDriver(mem) /\ mem.parked \in Seq(Parks)
      /\ snap \in Seq(Nat)
  BY Now DEF Turns
<1>2. /\ mem.turn.stage = "deliver" /\ s # <<>> /\ rows' = rows
      /\ mem' = [mem EXCEPT !.turn.stage = "erase", !.turn.snapshot = s]
      /\ log' = [Prompted(log) EXCEPT !.said = Append(@, x)]
  BY DEF Deliver, T
<1>3. Sound(rows, mem, log) /\ Conserved(mem, log) /\ OneAlarm(mem, log)
  BY <1>1 DEF Holds
<1>4. /\ Increasing(snap) /\ Range(snap) \subseteq 1..log.sent
      /\ \A r \in Range(rows), y \in Range(snap) : r < y => r \in Range(snap)
  BY <1>1, <1>2 DEF Holds, Snapshot
<1>5. s \in Seq(Nat) /\ Range(s) = Range(snap) \cap Range(rows) /\ Increasing(s)
  <2>1. s = Those(snap, Range(rows))
    BY DEF StillQueued, T
  <2> HIDE DEF s, snap
  <2>2. ASSUME NEW S PROVE Those(snap, S) \in Seq(Nat) /\ Range(Those(snap, S)) = Range(snap) \cap S
    BY <1>1, ThoseKeep
  <2>3. ASSUME NEW S PROVE Increasing(Those(snap, S))
    BY <1>1, <1>4, IncreasingThose
  <2>4. s \in Seq(Nat) /\ Range(s) = Range(snap) \cap Range(rows)
    BY <2>1, <2>2
  <2>5. Increasing(s)
    BY <2>1, <2>3
  <2> QED BY <2>4, <2>5
<1> HIDE DEF s
<1>6. x \in Nat /\ x \in Range(s) /\ \A y \in Range(s) : x <= y
  BY <1>2, <1>5, RangeOfTail, IncreasingTail
<1>7. Range(rows) \subseteq Nat
  BY <1>1 DEF Range
<1>8. \A r \in Range(rows) : x <= r
  <2> TAKE r \in Range(rows)
  <2>1. CASE r < x
    <3>1. r \in Range(snap)
      BY <2>1, <1>4, <1>5, <1>6
    <3> QED BY <3>1, <1>5, <1>6
  <2>2. CASE ~(r < x)
    BY <2>2, <1>6, <1>7
  <2> QED BY <2>1, <2>2
<1>9. log.said \in Seq(Nat) /\ log.raced \in BOOLEAN
  BY <1>1 DEF History
<1>10. Append(log.said, x) \in Seq(Nat) /\ Range(Append(log.said, x)) = Range(log.said) \cup {x}
  BY <1>6, <1>9, RangeOfAppend
<1> HIDE DEF x
<1>11. /\ log' \in History
       /\ log'.sent = log.sent /\ log'.said = Append(log.said, x)
       /\ log'.withdrawn = log.withdrawn /\ log'.between = log.between
       /\ log'.mailed = log.mailed /\ log'.told = log.told
       /\ log'.dropped = log.dropped /\ log'.torn = log.torn
       /\ log'.crossed = TRUE /\ log'.raced = (log.raced \/ mem.dismiss = "result")
       /\ log'.split = log.split
  <2>1. (log.raced \/ mem.dismiss = "result") \in BOOLEAN
    OBVIOUS
  <2>2. log' = [log EXCEPT !.crossed = TRUE, !.raced = log.raced \/ mem.dismiss = "result",
                           !.said = Append(log.said, x)]
    BY <1>1, <1>2 DEF Prompted, History
  <2> QED BY <1>1, <1>10, <2>1, <2>2 DEF History
<1>12. "erase" \in Stages
  BY DEF Stages
<1>13. /\ mem' \in Memory /\ Kept(mem, mem') /\ SameMail(mem, mem') /\ mem'.draining = mem.draining
       /\ mem'.turn.origin = mem.turn.origin /\ mem'.turn.stage = "erase" /\ mem'.turn.snapshot = s
  BY <1>1, <1>2, <1>5, <1>12 DEF Memory, Turns, Kept, SameMail
<1>14. mem'.parked = mem.parked /\ Batches(mem') = {} /\ mem'.dismiss = mem.dismiss
  BY <1>1, <1>2, <1>13 DEF OneDriver, Driven, Kept, Batches
<1>15. OneDriver(mem')
  <2>1. Settled(mem')
    BY <1>1, <1>2, <1>13 DEF Settled, Driven, SameMail
  <2>2. mem'.liveOn => mem'.expiry
    BY <1>1, <1>13 DEF OneDriver, Kept
  <2> QED BY <1>13, <1>14, <2>1, <2>2 DEF OneDriver
<1>16. Writes(mem) = {} /\ Writes(mem') = {x}
  BY <1>2, <1>13 DEF Writes, x
<1>17. Sound(rows, mem', log')
  <2>1. /\ Len(rows) <= QueueCap /\ Increasing(rows)
        /\ 1..log.sent = Range(log.said) \cup Range(rows) \cup log.withdrawn
        /\ log.withdrawn \cap Range(log.said) \subseteq log.between
        /\ log.withdrawn \cap Range(rows) = {}
        /\ \A i, j \in DOMAIN log.said :
             i < j => log.said[i] < log.said[j] \/ (log.said[i] = log.said[j] /\ log.said[i] \in log.between)
        /\ \A y \in Range(log.said), r \in Range(rows) : y < r \/ (y = r /\ r \in log.between)
    BY <1>3, <1>16 DEF Sound
  <2>2. 1..log'.sent = Range(log'.said) \cup Range(rows) \cup log'.withdrawn
    BY <1>5, <1>6, <1>10, <1>11, <2>1
  <2>3. ASSUME NEW i \in DOMAIN log'.said, NEW j \in DOMAIN log'.said, i < j
        PROVE  \/ log'.said[i] < log'.said[j]
               \/ log'.said[i] = log'.said[j] /\ log'.said[i] \in log'.between
    <3>1. /\ DOMAIN log'.said = 1..Len(log.said) + 1 /\ DOMAIN log.said = 1..Len(log.said)
          /\ \A k \in 1..Len(log.said) : log'.said[k] = log.said[k]
          /\ log'.said[Len(log.said) + 1] = x /\ Len(log.said) \in Nat
      BY <1>6, <1>9, <1>11
    <3>2. i \in DOMAIN log.said /\ log'.said[i] = log.said[i]
      BY <2>3, <3>1
    <3>3. CASE j = Len(log.said) + 1
      <4>1. log.said[i] \in Range(log.said) /\ log'.said[j] = x /\ x \in Range(rows)
        BY <3>1, <3>2, <3>3, <1>5, <1>6 DEF Range
      <4> QED BY <4>1, <3>2, <2>1, <1>11
    <3>4. CASE j # Len(log.said) + 1
      <4>1. j \in DOMAIN log.said /\ log'.said[j] = log.said[j]
        BY <3>1, <3>4
      <4> QED BY <4>1, <3>2, <2>1, <2>3, <1>11
    <3> QED BY <3>3, <3>4
  <2>4. ASSUME NEW y \in Range(log'.said), NEW r \in Range(rows)
        PROVE  y < r \/ (y = r /\ r \in log'.between \cup Writes(mem'))
    <3>1. CASE y \in Range(log.said)
      BY <3>1, <2>1, <1>11
    <3>2. CASE y = x
      <4>1. x <= r /\ r \in Nat
        BY <1>7, <1>8
      <4> QED BY <4>1, <3>2, <1>6, <1>16
    <3> QED BY <3>1, <3>2, <1>10, <1>11
  <2>5. log'.withdrawn \cap Range(log'.said) \subseteq log'.between
    BY <1>5, <1>6, <1>10, <1>11, <2>1
  <2> QED BY <2>1, <2>2, <2>3, <2>4, <2>5, <1>11 DEF Sound
<1>18. Snapshot(rows, mem', log')
  <2>1. Increasing(s) /\ Range(s) \subseteq 1..log'.sent
    BY <1>4, <1>5, <1>11
  <2>2. \A r \in Range(rows), y \in Range(s) : r < y => r \in Range(s)
    BY <1>4, <1>5
  <2>3. s # <<>> /\ Head(s) \in Range(log'.said)
    BY <1>2, <1>10, <1>11 DEF x
  <2> QED BY <1>13, <2>1, <2>2, <2>3 DEF Snapshot
<1>19. Paired(mem', log')
  BY <1>1, <1>11, <1>13, <1>14 DEF Holds, Paired, Pending
<1>20. Conserved(mem', log') /\ OneAlarm(mem', log')
  BY <1>2, <1>3, <1>11, <1>13 DEF Conserved, OneAlarm, SameMail
<1> QED BY <1>1, <1>2, <1>11, <1>13, <1>15, <1>17, <1>18, <1>19, <1>20 DEF Holds

\* The row that was written goes.
LEMMA EraseHolds ==
  ASSUME ChatInvariant, Erase
  PROVE  Holds(rows', mem', log')
<1> DEFINE snap == mem.turn.snapshot
           x == Head(snap)
<1>1. /\ mem \in Memory /\ mem.turn \in Turns /\ Holds(rows, mem, log) /\ rows \in Seq(Nat)
      /\ log \in History /\ Settled(mem) /\ OneDriver(mem) /\ mem.parked \in Seq(Parks)
      /\ snap \in Seq(Nat)
  BY Now DEF Turns
<1>2. /\ mem.turn.stage = "erase" /\ log' = log
      /\ rows' = Those(rows, Range(rows) \ {x})
      /\ mem' = [mem EXCEPT !.turn.stage = "deliver", !.turn.snapshot = Tail(snap), !.turn.got = TRUE]
  BY <1>1 DEF Erase, T, Memory, Turns
<1>3. Sound(rows, mem, log) /\ Conserved(mem, log) /\ OneAlarm(mem, log)
  BY <1>1 DEF Holds
<1>4. /\ Increasing(snap) /\ Range(snap) \subseteq 1..log.sent
      /\ \A r \in Range(rows), y \in Range(snap) : r < y => r \in Range(snap)
      /\ snap # <<>> /\ x \in Range(log.said)
  BY <1>1, <1>2 DEF Holds, Snapshot
<1>5. rows' \in Seq(Nat) /\ Range(rows') = Range(rows) \ {x} /\ Len(rows') <= Len(rows) /\ Increasing(rows')
  <2>1. \A S : /\ Those(rows, S) \in Seq(Nat) /\ Range(Those(rows, S)) = Range(rows) \cap S
               /\ Len(Those(rows, S)) <= Len(rows)
    BY <1>1, ThoseKeep
  <2>2. Increasing(Those(rows, Range(rows) \ {x}))
    BY <1>1, <1>3, IncreasingThose DEF Sound
  <2> QED BY <1>2, <2>1, <2>2
<1>6. Tail(snap) \in Seq(Nat) /\ Range(snap) = {x} \cup Range(Tail(snap)) /\ Increasing(Tail(snap))
  BY <1>1, <1>4, RangeOfTail, IncreasingTail
<1>7. "deliver" \in Stages
  BY DEF Stages
<1>8. /\ mem' \in Memory /\ Kept(mem, mem') /\ SameMail(mem, mem') /\ mem'.draining = mem.draining
      /\ mem'.turn.origin = mem.turn.origin /\ mem'.turn.stage = "deliver"
      /\ mem'.turn.snapshot = Tail(snap)
  BY <1>1, <1>2, <1>6, <1>7 DEF Memory, Turns, Kept, SameMail
<1>9. mem'.parked = mem.parked /\ Batches(mem') = {} /\ mem'.dismiss = mem.dismiss
  BY <1>1, <1>2, <1>8 DEF OneDriver, Driven, Kept, Batches
<1>10. OneDriver(mem')
  <2>1. Settled(mem')
    BY <1>1, <1>2, <1>8 DEF Settled, Driven, SameMail
  <2>2. mem'.liveOn => mem'.expiry
    BY <1>1, <1>8 DEF OneDriver, Kept
  <2> QED BY <1>8, <1>9, <2>1, <2>2 DEF OneDriver
<1>11. Writes(mem) = {x} /\ Writes(mem') = {}
  BY <1>2, <1>8 DEF Writes
<1> HIDE DEF x, snap
<1>12. Sound(rows', mem', log')
  <2>1. Len(rows') <= QueueCap
    <3>1. Len(rows') \in Nat /\ Len(rows) \in Nat /\ QueueCap \in Nat
      BY <1>1, <1>5, SizesNat
    <3> QED BY <3>1, <1>3, <1>5 DEF Sound
  <2>2. 1..log.sent = Range(log.said) \cup Range(rows') \cup log.withdrawn
    BY <1>3, <1>4, <1>5 DEF Sound
  <2>3. \A y \in Range(log.said), r \in Range(rows') :
          y < r \/ (y = r /\ r \in log.between \cup Writes(mem'))
    BY <1>3, <1>5, <1>11 DEF Sound
  <2>4. log.withdrawn \cap Range(rows') = {}
    BY <1>3, <1>5 DEF Sound
  <2> QED BY <1>2, <1>3, <1>5, <2>1, <2>2, <2>3, <2>4 DEF Sound
<1>13. Snapshot(rows', mem', log')
  BY <1>2, <1>4, <1>5, <1>6, <1>8 DEF Snapshot
<1>14. Paired(mem', log')
  BY <1>1, <1>2, <1>8, <1>9 DEF Holds, Paired, Pending
<1>15. Conserved(mem', log') /\ OneAlarm(mem', log')
  BY <1>2, <1>3, <1>8 DEF Conserved, OneAlarm, SameMail
<1> QED BY <1>1, <1>2, <1>5, <1>8, <1>10, <1>12, <1>13, <1>14, <1>15 DEF Holds

\* The batch is parked, and the turn that drove it is over.
LEMMA ParkHolds ==
  ASSUME ChatInvariant, ParkForApproval \/ ParkForHelp
  PROVE  Holds(rows', mem', log')
<1>1. /\ mem \in Memory /\ mem.turn \in Turns /\ Holds(rows, mem, log) /\ rows \in Seq(Nat)
      /\ log \in History /\ Settled(mem) /\ OneDriver(mem) /\ mem.parked \in Seq(Parks)
      /\ configured \in BOOLEAN
  BY Now
<1>2. PICK kind \in {"loop", "help"} :
        mem' = Ended(rows, [mem EXCEPT !.parked = Append(@, Parking(kind))])
  BY DEF ParkForApproval, ParkForHelp
<1> DEFINE p == Parking(kind)
           n == [mem EXCEPT !.parked = Append(@, p)]
           e == Over(mem)
           o == Over(n)
<1>3. /\ mem.turn.stage \in {"tools", "opening"} /\ rows' = rows /\ log' = log
      /\ (mem.turn.stage = "tools" => mem.turn.calls > 0)
  BY DEF ParkForApproval, ParkForHelp, AtCall, T
<1>4. MaxCalls \in Nat /\ mem.turn.calls \in 0..MaxCalls /\ mem.turn.calls > 0 /\ Batches(mem) = {}
  BY <1>1, <1>3, SizesNat DEF OneDriver, Turns, Driven
<1>5. p \in Parks /\ p.kind = kind /\ p.calls = mem.turn.calls
  BY <1>1, <1>4 DEF Parking, Parks, Waits, T, Turns
<1> HIDE DEF p
<1>6. Append(mem.parked, p) \in Seq(Parks)
  BY <1>1, <1>5
<1>7. /\ n \in Memory /\ n.turn = mem.turn /\ n.held = mem.held /\ n.draining = mem.draining
      /\ n.parked = Append(mem.parked, p) /\ n.mailbox = mem.mailbox /\ n.alarm = mem.alarm
      /\ n.liveOn = mem.liveOn /\ n.expiry = mem.expiry /\ n.dismiss = mem.dismiss
  BY <1>1, <1>6 DEF Memory
<1> HIDE DEF n
<1>8. Settled(n)
  BY <1>1, <1>7 DEF Settled, Driven
<1>9. /\ o \in Memory /\ Kept(n, o) /\ Settled(o) /\ o.held = <<>> /\ o.mailbox = n.mailbox
      /\ o.turn.stage = "none" /\ ~Driven(o)
  BY <1>7, <1>8, OverIs, NoTurnIs
<1>10. /\ e \in Memory /\ Kept(mem, e) /\ e.held = <<>> /\ e.mailbox = mem.mailbox
       /\ e.turn.stage = "none"
  BY <1>1, OverIs, NoTurnIs
<1>11. Holds(rows, e, log)
  <2>1. Kept(mem, mem)
    BY DEF Kept
  <2> QED BY <2>1, <1>1, <1>3, HoldsOver
<1> HIDE DEF o, e
<1>12. \A i \in Batches(o) : o.parked[i] = p /\ i = Len(mem.parked) + 1
  <2>1. o.parked = Append(mem.parked, p)
    BY <1>7, <1>9 DEF Kept
  <2>2. /\ DOMAIN o.parked = 1..Len(mem.parked) + 1 /\ DOMAIN mem.parked = 1..Len(mem.parked)
        /\ \A i \in 1..Len(mem.parked) : o.parked[i] = mem.parked[i]
        /\ o.parked[Len(mem.parked) + 1] = p
    BY <2>1, <1>1, <1>5
  <2> TAKE i \in Batches(o)
  <2>3. i \in DOMAIN o.parked /\ o.parked[i].kind # "live"
    BY DEF Batches
  <2>4. CASE i \in 1..Len(mem.parked)
    <3>1. i \in Batches(mem)
      BY <2>2, <2>3, <2>4 DEF Batches
    <3> QED BY <3>1, <1>4
  <2>5. CASE i = Len(mem.parked) + 1
    BY <2>2, <2>5
  <2> QED BY <2>2, <2>3, <2>4, <2>5
<1>13. OneDriver(o)
  <2>1. o.liveOn => o.expiry
    BY <1>1, <1>7, <1>9 DEF OneDriver, Kept
  <2>2. \A i \in Batches(o) : o.parked[i].calls \in 1..MaxCalls
    BY <1>4, <1>5, <1>12
  <2> QED BY <1>9, <1>12, <2>1, <2>2 DEF OneDriver
<1>14. Sound(rows, o, log)
  <2>1. Writes(o) = {} /\ Writes(e) = {}
    BY <1>9, <1>10 DEF Writes
  <2> QED BY <2>1, <1>11 DEF Holds, Sound
<1>15. Snapshot(rows, o, log)
  BY <1>9 DEF Snapshot
<1>16. Paired(o, log)
  <2>1. Pending(mem)
    BY <1>3, <1>1, <1>4 DEF Pending
  <2> QED BY <2>1, <1>1 DEF Holds, Paired
<1>17. Conserved(o, log)
  BY <1>7, <1>9, <1>10, <1>11 DEF Holds, Conserved
<1>18. OneAlarm(o, log)
  <2>1. o.alarm = e.alarm /\ o.mailbox = e.mailbox
    BY <1>7, <1>9, <1>10 DEF Kept
  <2> QED BY <2>1, <1>11 DEF Holds, OneAlarm
<1>19. Holds(rows, o, log)
  BY <1>1, <1>9, <1>13, <1>14, <1>15, <1>16, <1>17, <1>18 DEF Holds
<1>20. mem' = Ended(rows, n)
  BY <1>2 DEF n, p
<1> QED BY <1>1, <1>3, <1>7, <1>8, <1>19, <1>20, HoldsFreed DEF o

-----------------------------------------------------------------------------
(* The steps of people, of mail and of timers.                              *)

\* A memory that differs where the invariant does not look.
LEMMA AlikeHolds ==
  ASSUME ChatInvariant, NEW n \in Memory, n.turn = mem.turn, SameMail(mem, n),
         n.draining = mem.draining, n.parked = mem.parked, n.dismiss = mem.dismiss,
         n.liveOn => n.expiry
  PROVE  Holds(rows, n, log)
<1>1. Holds(rows, mem, log) /\ mem.parked \in Seq(Parks)
  BY Now
<1>2. Fewer(mem.parked, n.parked)
  BY <1>1, FewerSame
<1>3. SameTurn(mem, n)
  BY DEF SameTurn
<1> QED BY <1>1, <1>2, <1>3, HoldsAlike

\* The same, drained.
LEMMA DrainedHolds ==
  ASSUME NEW q, NEW m, NEW l, Holds(q, m, l), configured \in BOOLEAN
  PROVE  Holds(q, DrainNext(q, m), l)
<1>1. q \in Seq(Nat) /\ m \in Memory /\ Settled(m)
  BY HoldsSettled
<1>2. Drained(q, m, DrainNext(q, m))
  BY <1>1, DrainNextDoes
<1> QED BY <1>2, HoldsDrained

\* whenIdle() and the live mode's own steps that drain nothing.
LEMMA MarksHold ==
  ASSUME ChatInvariant,
         \/ WhenIdle \/ LiveSetup \/ LiveReady \/ LiveLapses
         \/ \E work \in {"tools", "record"} : LiveAccept(work)
  PROVE  Holds(rows', mem', log')
<1>1. mem \in Memory /\ OneDriver(mem)
  BY Now
<1>2. rows' = rows /\ log' = log
  BY DEF WhenIdle, LiveSetup, LiveReady, LiveLapses, LiveAccept
<1>3. CASE WhenIdle
  <2>1. mem' = [mem EXCEPT !.listener = TRUE]
    BY <1>3 DEF WhenIdle
  <2>2. /\ mem' \in Memory /\ mem'.turn = mem.turn /\ SameMail(mem, mem')
        /\ mem'.draining = mem.draining /\ mem'.parked = mem.parked
        /\ mem'.dismiss = mem.dismiss /\ (mem'.liveOn => mem'.expiry)
    BY <1>1, <2>1 DEF Memory, SameMail, OneDriver
  <2> QED BY <1>2, <2>2, AlikeHolds
<1>4. CASE LiveSetup
  <2>1. mem' = [mem EXCEPT !.setup = TRUE]
    BY <1>4 DEF LiveSetup
  <2>2. /\ mem' \in Memory /\ mem'.turn = mem.turn /\ SameMail(mem, mem')
        /\ mem'.draining = mem.draining /\ mem'.parked = mem.parked
        /\ mem'.dismiss = mem.dismiss /\ (mem'.liveOn => mem'.expiry)
    BY <1>1, <2>1 DEF Memory, SameMail, OneDriver
  <2> QED BY <1>2, <2>2, AlikeHolds
<1>5. CASE LiveReady
  <2>1. mem' = [mem EXCEPT !.liveOn = TRUE, !.expiry = TRUE, !.setup = FALSE]
    BY <1>1, <1>5 DEF LiveReady, Touched, Memory
  <2>2. /\ mem' \in Memory /\ mem'.turn = mem.turn /\ SameMail(mem, mem')
        /\ mem'.draining = mem.draining /\ mem'.parked = mem.parked
        /\ mem'.dismiss = mem.dismiss /\ (mem'.liveOn => mem'.expiry)
    BY <1>1, <2>1 DEF Memory, SameMail, OneDriver
  <2> QED BY <1>2, <2>2, AlikeHolds
<1>6. CASE LiveLapses
  <2>1. mem' = [mem EXCEPT !.liveOn = FALSE]
    BY <1>6 DEF LiveLapses
  <2>2. /\ mem' \in Memory /\ mem'.turn = mem.turn /\ SameMail(mem, mem')
        /\ mem'.draining = mem.draining /\ mem'.parked = mem.parked
        /\ mem'.dismiss = mem.dismiss /\ (mem'.liveOn => mem'.expiry)
    BY <1>1, <2>1 DEF Memory, SameMail, OneDriver
  <2> QED BY <1>2, <2>2, AlikeHolds
<1>7. CASE \E work \in {"tools", "record"} : LiveAccept(work)
  <2>1. PICK work \in {"tools", "record"} : LiveAccept(work)
    BY <1>7
  <2>2. mem' = [mem EXCEPT !.liveOn = TRUE, !.expiry = TRUE, !.chain = Append(mem.chain, work)]
    BY <1>1, <2>1 DEF LiveAccept, Touched, Memory
  <2>3. Append(mem.chain, work) \in Seq({"tools", "record"})
    BY <1>1 DEF Memory
  <2>4. /\ mem' \in Memory /\ mem'.turn = mem.turn /\ SameMail(mem, mem')
        /\ mem'.draining = mem.draining /\ mem'.parked = mem.parked
        /\ mem'.dismiss = mem.dismiss /\ (mem'.liveOn => mem'.expiry)
    BY <1>1, <2>2, <2>3 DEF Memory, SameMail, OneDriver
  <2> QED BY <1>2, <2>4, AlikeHolds
<1> QED BY <1>3, <1>4, <1>5, <1>6, <1>7

\* Live mode ends, a live call was answered: the chat is drained.
LEMMA LiveDrainsHold ==
  ASSUME ChatInvariant, ExpiryFires \/ EndLive \/ LiveAnswered
  PROVE  Holds(rows', mem', log')
<1>1. mem \in Memory /\ OneDriver(mem) /\ configured \in BOOLEAN
  BY Now
<1>2. rows' = rows /\ log' = log
  BY DEF ExpiryFires, EndLive, LiveAnswered
<1>3. CASE ExpiryFires \/ EndLive
  <2>1. mem' = DrainNext(rows, LiveOff)
    BY <1>3 DEF ExpiryFires, EndLive
  <2>2. /\ LiveOff \in Memory /\ LiveOff.turn = mem.turn /\ SameMail(mem, LiveOff)
        /\ LiveOff.draining = mem.draining /\ LiveOff.parked = mem.parked
        /\ LiveOff.dismiss = mem.dismiss /\ (LiveOff.liveOn => LiveOff.expiry)
    BY <1>1 DEF Memory, SameMail, LiveOff
  <2>3. Holds(rows, LiveOff, log)
    BY <2>2, AlikeHolds
  <2> QED BY <1>1, <1>2, <2>1, <2>3, DrainedHolds
<1>4. CASE LiveAnswered
  <2> DEFINE n == [mem EXCEPT !.answering = FALSE, !.controller = "none"]
  <2>1. mem' = DrainNext(rows, n)
    BY <1>4 DEF LiveAnswered
  <2>2. /\ n \in Memory /\ n.turn = mem.turn /\ SameMail(mem, n)
        /\ n.draining = mem.draining /\ n.parked = mem.parked
        /\ n.dismiss = mem.dismiss /\ (n.liveOn => n.expiry)
    BY <1>1 DEF Memory, SameMail, OneDriver
  <2> HIDE DEF n
  <2>3. Holds(rows, n, log)
    BY <2>2, AlikeHolds
  <2> QED BY <1>1, <1>2, <2>1, <2>3, DrainedHolds
<1> QED BY <1>3, <1>4

\* The drain retry timer fires.
LEMMA RetryFiresHolds ==
  ASSUME ChatInvariant, RetryFires
  PROVE  Holds(rows', mem', log')
<1> DEFINE n == [mem EXCEPT !.retry = FALSE]
<1>1. mem \in Memory /\ OneDriver(mem) /\ configured \in BOOLEAN
  BY Now
<1>2. rows' = rows /\ log' = log /\ mem' = IF Busy(n) THEN n ELSE DrainMailbox(rows, n)
  BY DEF RetryFires
<1>3. /\ n \in Memory /\ n.turn = mem.turn /\ SameMail(mem, n)
      /\ n.draining = mem.draining /\ n.parked = mem.parked
      /\ n.dismiss = mem.dismiss /\ (n.liveOn => n.expiry)
  BY <1>1 DEF Memory, SameMail, OneDriver
<1> HIDE DEF n
<1>4. Holds(rows, n, log)
  BY <1>3, AlikeHolds
<1>5. Drained(rows, n, DrainMailbox(rows, n))
  <2>1. rows \in Seq(Nat) /\ Settled(n)
    BY <1>4, HoldsSettled
  <2> QED BY <2>1, <1>1, <1>3, DrainMailboxDoes
<1>6. Holds(rows, DrainMailbox(rows, n), log)
  BY <1>4, <1>5, HoldsDrained
<1> QED BY <1>2, <1>4, <1>6

\* A turn for a person's message, or to compact, begins in an idle chat.
LEMMA HoldsBegun ==
  ASSUME NEW q, NEW m, NEW l, Holds(q, m, l), ~Busy(m), NEW n \in Memory, Kept(m, n),
         SameMail(m, n), n.draining = m.draining, n.turn.stage \in {"prompt", "compact"}
  PROVE  Holds(q, n, l)
<1>1. /\ m.turn.stage = "none" /\ m.parked = <<>> /\ m.held = <<>> /\ ~m.draining
      /\ OneDriver(m) /\ ~Driven(m)
  BY DEF Holds, Busy, Driven, OneDriver, Settled
<1>2. Batches(m) = {} /\ Batches(n) = {} /\ n.parked = <<>> /\ n.held = <<>>
  BY <1>1 DEF Batches, Kept, SameMail
<1>3. OneDriver(n)
  <2>1. Settled(n)
    BY <1>1, <1>2 DEF Settled
  <2>2. n.liveOn => n.expiry
    BY <1>1 DEF OneDriver, Kept
  <2> QED BY <1>2, <2>1, <2>2 DEF OneDriver
<1>4. Sound(q, n, l)
  <2>1. Writes(n) = {} /\ Writes(m) = {}
    BY <1>1 DEF Writes
  <2> QED BY <2>1 DEF Holds, Sound
<1>5. Snapshot(q, n, l)
  BY DEF Snapshot
<1>6. Paired(n, l)
  <2>1. Pending(n) => Pending(m)
    BY <1>2 DEF Pending, Kept
  <2> QED BY <2>1 DEF Holds, Paired
<1>7. Conserved(n, l) /\ OneAlarm(n, l)
  BY <1>1, <1>2, RangeOfNone DEF Holds, Conserved, OneAlarm, SameMail
<1> QED BY <1>3, <1>4, <1>5, <1>6, <1>7 DEF Holds

\* A turn that begins in place of none.
LEMMA StartedKeeps ==
  ASSUME NEW m \in Memory, NEW origin \in Origins, NEW stage \in Stages \ {"none"},
         NEW snapshot \in Seq(Nat)
  PROVE  LET n == Started(m, origin, stage, snapshot) IN
         /\ n \in Memory /\ Kept(m, n) /\ SameMail(m, n) /\ n.draining = m.draining
         /\ n.turn.stage = stage
<1> DEFINE n == Started(m, origin, stage, snapshot)
<1>1. /\ n \in Memory /\ Kept(m, n) /\ n.draining = m.draining /\ n.held = m.held
      /\ n.mailbox = m.mailbox /\ n.turn = Begun(origin, stage, snapshot)
  BY StartedDoes
<1>2. Begun(origin, stage, snapshot).stage = stage
  BY BegunIs
<1> HIDE DEF n
<1>3. n.turn.stage = stage
  BY <1>1, <1>2
<1>4. SameMail(m, n)
  BY <1>1 DEF Kept, SameMail
<1> QED BY <1>1, <1>3, <1>4 DEF n

\* sendMessage().
LEMMA SendMessageHolds ==
  ASSUME ChatInvariant, SendMessage
  PROVE  Holds(rows', mem', log')
<1>1. /\ Holds(rows, mem, log) /\ mem \in Memory /\ OneDriver(mem) /\ configured \in BOOLEAN
  BY Now
<1>2. rows' = rows /\ log' = log /\ ~Busy(mem)
  BY DEF SendMessage
<1>3. CASE configured
  <2>1. mem' = Started(mem, "user", "prompt", <<>>)
    BY <1>3 DEF SendMessage
  <2>2. "user" \in Origins /\ "prompt" \in Stages \ {"none"}
    BY DEF Origins, Stages
  <2>4. <<>> \in Seq(Nat)
    OBVIOUS
  <2>5. /\ mem' \in Memory /\ Kept(mem, mem') /\ SameMail(mem, mem')
        /\ mem'.draining = mem.draining /\ mem'.turn.stage = "prompt"
    BY <1>1, <2>1, <2>2, <2>4, StartedKeeps, ZenonT(60)
  <2> QED BY <1>1, <1>2, <2>5, HoldsBegun
<1>4. CASE ~configured
  <2> DEFINE n == [mem EXCEPT !.stalled = FALSE]
  <2>1. mem' = DrainNext(rows, n)
    BY <1>4 DEF SendMessage
  <2>2. /\ n \in Memory /\ n.turn = mem.turn /\ SameMail(mem, n)
        /\ n.draining = mem.draining /\ n.parked = mem.parked
        /\ n.dismiss = mem.dismiss /\ (n.liveOn => n.expiry)
    BY <1>1 DEF Memory, SameMail, OneDriver
  <2> HIDE DEF n
  <2>3. Holds(rows, n, log)
    BY <2>2, AlikeHolds
  <2> QED BY <1>1, <1>2, <2>1, <2>3, DrainedHolds
<1> QED BY <1>3, <1>4

\* compact().
LEMMA CompactHolds ==
  ASSUME ChatInvariant, Compact
  PROVE  Holds(rows', mem', log')
<1>1. /\ Holds(rows, mem, log) /\ mem \in Memory /\ OneDriver(mem)
  BY Now
<1>2. /\ rows' = rows /\ log' = log /\ ~Busy(mem)
      /\ mem' = [Started(mem, "compact", "compact", <<>>) EXCEPT !.stalled = mem.stalled]
  BY DEF Compact
<1>3. "compact" \in Origins /\ "compact" \in Stages \ {"none"}
  BY DEF Origins, Stages
<1>5. <<>> \in Seq(Nat)
  OBVIOUS
<1>6. PICK s \in Memory : /\ mem' = [s EXCEPT !.stalled = mem.stalled]
                          /\ Kept(mem, s) /\ SameMail(mem, s) /\ s.draining = mem.draining
                          /\ s.turn.stage = "compact"
  BY <1>1, <1>2, <1>3, <1>5, StartedKeeps
<1>7. /\ mem' \in Memory /\ Kept(mem, mem') /\ SameMail(mem, mem')
      /\ mem'.draining = mem.draining /\ mem'.turn.stage = "compact"
  BY <1>1, <1>6 DEF Memory, Kept, SameMail
<1> QED BY <1>1, <1>2, <1>7, HoldsBegun

\* interrupt() dismisses the oldest parked entry, and goes on to the next.
LEMMA DismissalIs ==
  ASSUME NEW q, NEW m, NEW l, Holds(q, m, l)
  PROVE  LET n == Dismissal(m) IN
         /\ n \in Memory /\ Holds(q, n, l) /\ Fewer(m.parked, n.parked)
         /\ n.turn = m.turn /\ SameMail(m, n) /\ n.draining = m.draining /\ n.liveOn = m.liveOn
         /\ n.expiry = m.expiry /\ n.held = m.held
         /\ n.dismiss = "result" => Batches(m) # {}
<1> DEFINE n == Dismissal(m)
<1>1. /\ m \in Memory /\ OneDriver(m) /\ m.parked \in Seq(Parks)
  BY HoldsSettled DEF Memory
<1>2. CASE m.parked = <<>>
  <2>1. n = [m EXCEPT !.dismiss = "none"]
    BY <1>2 DEF Dismissal
  <2>2. Fewer(m.parked, m.parked)
    BY <1>1, FewerSame
  <2>3. /\ n \in Memory /\ n.parked = m.parked /\ n.turn = m.turn /\ SameMail(m, n)
        /\ n.draining = m.draining /\ n.liveOn = m.liveOn /\ n.expiry = m.expiry
        /\ n.held = m.held /\ n.dismiss = "none"
    BY <1>1, <2>1 DEF Memory, SameMail
  <2> HIDE DEF n
  <2>4. Holds(q, n, l)
    BY <1>1, <2>2, <2>3, HoldsAlike DEF SameTurn, OneDriver
  <2> QED BY <2>2, <2>3, <2>4 DEF n
<1>3. CASE m.parked # <<>>
  <2> DEFINE how == IF Head(m.parked).kind = "live" THEN "live" ELSE "result"
             rest == Tail(m.parked)
  <2>1. n = [m EXCEPT !.parked = rest, !.dismiss = how]
    BY <1>3 DEF Dismissal
  <2>2. rest \in Seq(Parks) /\ Fewer(m.parked, rest)
    BY <1>1, <1>3, FewerTail
  <2>3. how \in {"result", "live"}
    OBVIOUS
  <2>4. how = "result" => Batches(m) # {}
    <3>1. Head(m.parked) = m.parked[1] /\ 1 \in DOMAIN m.parked
      BY <1>1, <1>3, RangeOfTail
    <3> QED BY <3>1 DEF Batches
  <2> HIDE DEF how, rest
  <2>5. /\ n \in Memory /\ n.parked = rest /\ n.turn = m.turn /\ SameMail(m, n)
        /\ n.draining = m.draining /\ n.liveOn = m.liveOn /\ n.expiry = m.expiry
        /\ n.held = m.held /\ n.dismiss = how
    BY <1>1, <2>1, <2>2, <2>3 DEF Memory, SameMail
  <2> HIDE DEF n
  <2>6. Holds(q, n, l)
    BY <1>1, <2>2, <2>4, <2>5, HoldsAlike DEF SameTurn, OneDriver
  <2> QED BY <2>2, <2>4, <2>5, <2>6 DEF n
<1> QED BY <1>2, <1>3

\* interrupt() up to its first await.
LEMMA InterruptHolds ==
  ASSUME ChatInvariant, Interrupt
  PROVE  Holds(rows', mem', log')
<1> DEFINE n == Dismissal(mem)
           stop == mem.turn.aborted \/ mem.controller = "turn"
<1>1. Holds(rows, mem, log) /\ mem \in Memory /\ mem.turn \in Turns
  BY Now
<1>2. /\ n \in Memory /\ Holds(rows, n, log) /\ n.turn = mem.turn
  BY <1>1, DismissalIs
<1>3. /\ rows' = rows /\ log' = log
      /\ mem' = [n EXCEPT !.controller = "none", !.turn = [mem.turn EXCEPT !.aborted = stop]]
  BY <1>1, <1>2 DEF Interrupt, Memory, Turns
<1>4. stop \in BOOLEAN
  BY <1>1 DEF Turns
<1> HIDE DEF n, stop
<1>5. /\ mem' \in Memory /\ SameTurn(n, mem') /\ SameMail(n, mem')
      /\ mem'.draining = n.draining /\ mem'.parked = n.parked /\ mem'.liveOn = n.liveOn
      /\ mem'.expiry = n.expiry /\ mem'.dismiss = n.dismiss
  BY <1>1, <1>2, <1>3, <1>4 DEF Memory, Turns, SameTurn, SameMail
<1>6. OneDriver(n) /\ Fewer(n.parked, n.parked)
  BY <1>2, HoldsSettled
<1> QED BY <1>2, <1>3, <1>5, <1>6, HoldsAlike DEF OneDriver

\* The dismissed call's result is written.
LEMMA DismissalAnsweredHolds ==
  ASSUME ChatInvariant, DismissalAnswered
  PROVE  Holds(rows', mem', log')
<1>1. Holds(rows, mem, log) /\ mem \in Memory /\ OneDriver(mem) /\ log \in History
  BY Now
<1>2. /\ rows' = rows /\ mem.dismiss \in {"result", "live"}
      /\ mem' = [mem EXCEPT !.dismiss = "complete"]
  BY DEF DismissalAnswered
<1>3. /\ mem' \in Memory /\ SameTurn(mem, mem') /\ SameMail(mem, mem')
      /\ mem'.draining = mem.draining /\ mem'.parked = mem.parked /\ mem'.liveOn = mem.liveOn
      /\ mem'.expiry = mem.expiry /\ mem'.dismiss = "complete"
  BY <1>1, <1>2 DEF Memory, SameTurn, SameMail
<1>4. Holds(rows, mem', log)
  <2>1. Fewer(mem.parked, mem'.parked)
    BY <1>1, <1>3, HoldsSettled
  <2> QED BY <1>1, <1>3, <2>1, HoldsAlike DEF OneDriver
<1>5. CASE mem.dismiss = "live"
  BY <1>2, <1>4, <1>5 DEF DismissalAnswered
<1>6. CASE mem.dismiss = "result"
  <2>1. log' = [log EXCEPT !.split = log.split \/ log.crossed \/ log.raced]
    BY <1>6 DEF DismissalAnswered
  <2>2. (log.split \/ log.crossed \/ log.raced) \in BOOLEAN
    OBVIOUS
  <2>3. /\ log' \in History /\ log'.sent = log.sent /\ log'.said = log.said
        /\ log'.withdrawn = log.withdrawn /\ log'.between = log.between
        /\ log'.mailed = log.mailed /\ log'.told = log.told /\ log'.dropped = log.dropped
        /\ log'.torn = log.torn /\ log'.crossed = log.crossed /\ log'.raced = log.raced
        /\ log'.split = (log.split \/ log.crossed \/ log.raced)
    BY <1>1, <2>1, <2>2 DEF History
  <2>4. Pending(mem) /\ Paired(mem, log) /\ Paired(mem', log)
    BY <1>1, <1>4, <1>6 DEF Holds, Pending
  <2>5. Paired(mem', log')
    BY <2>3, <2>4 DEF Paired
  <2> QED BY <1>2, <1>4, <2>3, <2>5, HoldsLogged
<1> QED BY <1>2, <1>5, <1>6

\* The chat is drained, and the next entry is dismissed.
LEMMA DismissalOverHolds ==
  ASSUME ChatInvariant, DismissalOver
  PROVE  Holds(rows', mem', log')
<1>1. rows' = rows /\ log' = log /\ mem' = Dismissal(DrainNext(rows, mem))
  BY DEF DismissalOver
<1>2. Holds(rows, DrainNext(rows, mem), log)
  BY Now, DrainedHolds
<1> QED BY <1>1, <1>2, DismissalIs

\* A live call that was parked is answered.
LEMMA ResolveLiveHolds ==
  ASSUME ChatInvariant, NEW i \in DOMAIN mem.parked, ResolveLive(i)
  PROVE  Holds(rows', mem', log')
<1> DEFINE rest == RemoveAt(mem.parked, i)
<1>1. Holds(rows, mem, log) /\ mem \in Memory /\ OneDriver(mem) /\ mem.parked \in Seq(Parks)
  BY Now
<1>2. /\ rows' = rows /\ log' = log
      /\ mem' = [mem EXCEPT !.parked = rest, !.answering = TRUE, !.controller = "live"]
  BY DEF ResolveLive
<1>3. rest \in Seq(Parks) /\ Fewer(mem.parked, rest)
  BY <1>1, FewerRemoved
<1> HIDE DEF rest
<1>4. /\ mem' \in Memory /\ SameTurn(mem, mem') /\ SameMail(mem, mem')
      /\ mem'.draining = mem.draining /\ mem'.parked = rest /\ mem'.liveOn = mem.liveOn
      /\ mem'.expiry = mem.expiry /\ mem'.dismiss = mem.dismiss
  BY <1>1, <1>2, <1>3 DEF Memory, SameTurn, SameMail
<1> QED BY <1>1, <1>2, <1>3, <1>4, HoldsAlike DEF OneDriver

\* The batch that was parked is driven again: it was the only one, and nobody
\* drives the chat.
LEMMA ResolveParkedHolds ==
  ASSUME ChatInvariant, NEW i \in DOMAIN mem.parked, NEW allowed \in BOOLEAN,
         ResolveParked(i, allowed)
  PROVE  Holds(rows', mem', log')
<1> DEFINE rest == RemoveAt(mem.parked, i)
           stage == IF allowed THEN "deciding" ELSE "answer"
           t == [NoTurn EXCEPT !.stage = stage, !.origin = "resumed", !.got = TRUE,
                               !.calls = mem.parked[i].calls, !.round = mem.parked[i].round]
<1>1. /\ Holds(rows, mem, log) /\ mem \in Memory /\ OneDriver(mem) /\ mem.parked \in Seq(Parks)
      /\ rows \in Seq(Nat) /\ log \in History
  BY Now
<1>2. /\ rows' = rows /\ log' = log /\ mem.parked[i].kind # "live"
      /\ mem' = [mem EXCEPT !.parked = rest, !.controller = "turn", !.turn = t]
  BY DEF ResolveParked
<1>3. i \in Batches(mem)
  BY <1>2 DEF Batches
<1>4. /\ ~Driven(mem) /\ mem.turn.stage = "none" /\ ~mem.draining /\ mem.held = <<>>
      /\ \A j \in Batches(mem) : j = i
      /\ mem.parked[i].calls \in 1..MaxCalls
  BY <1>1, <1>3 DEF OneDriver, Settled, Driven
<1>5. mem.parked[i].round \in 0..MaxRounds
  <2>1. mem.parked[i] \in Parks
    BY <1>1
  <2> QED BY <2>1 DEF Parks
<1>6. mem.parked[i].calls \in 0..MaxCalls /\ mem.parked[i].calls > 0
  BY <1>4, SizesNat
<1>7. t \in Turns /\ t.stage \in {"deciding", "answer"} /\ t.calls > 0
  <2>1. stage \in Stages /\ stage \in {"deciding", "answer"} /\ "resumed" \in Origins
    BY DEF Stages, Origins
  <2>2. PICK c \in 0..MaxCalls, r \in 0..MaxRounds :
          /\ t = [NoTurn EXCEPT !.stage = stage, !.origin = "resumed", !.got = TRUE,
                                !.calls = c, !.round = r]
          /\ c > 0
    BY <1>5, <1>6
  <2> HIDE DEF t, stage
  <2>3. NoTurn \in Turns
    BY NoTurnIs
  <2> HIDE DEF NoTurn
  <2> QED BY <2>1, <2>2, <2>3 DEF Turns
<1>8. /\ rest \in Seq(Parks)
      /\ \E g \in [DOMAIN rest -> DOMAIN mem.parked] :
           /\ \A j \in DOMAIN rest : rest[j] = mem.parked[g[j]] /\ g[j] # i
           /\ \A j, k \in DOMAIN rest : g[j] = g[k] => j = k
  BY <1>1, FewerRemoved
<1> HIDE DEF rest, t, stage
<1>16. PICK g \in [DOMAIN rest -> DOMAIN mem.parked] :
         \A j \in DOMAIN rest : rest[j] = mem.parked[g[j]] /\ g[j] # i
  BY <1>8
<1>9. /\ mem' \in Memory /\ mem'.turn = t /\ SameMail(mem, mem')
      /\ mem'.draining = mem.draining /\ mem'.parked = rest /\ mem'.liveOn = mem.liveOn
      /\ mem'.expiry = mem.expiry /\ mem'.dismiss = mem.dismiss
  BY <1>1, <1>2, <1>7, <1>8 DEF Memory, SameMail
<1>10. Batches(mem') = {}
  <2>1. SUFFICES ASSUME NEW j \in Batches(mem') PROVE FALSE
    OBVIOUS
  <2>2. j \in DOMAIN rest /\ rest[j].kind # "live"
    BY <1>9 DEF Batches
  <2>3. g[j] \in Batches(mem) /\ g[j] # i
    BY <1>16, <2>2 DEF Batches
  <2> QED BY <2>3, <1>4
<1>11. OneDriver(mem')
  <2>1. Settled(mem')
    BY <1>4, <1>9 DEF Settled, SameMail
  <2>2. mem'.liveOn => mem'.expiry
    BY <1>1, <1>9 DEF OneDriver
  <2> QED BY <1>7, <1>9, <1>10, <2>1, <2>2 DEF OneDriver
<1>12. Sound(rows, mem', log)
  <2>1. Writes(mem') = {} /\ Writes(mem) = {}
    BY <1>4, <1>7, <1>9 DEF Writes
  <2> QED BY <2>1, <1>1 DEF Holds, Sound
<1>13. Snapshot(rows, mem', log)
  BY <1>7, <1>9 DEF Snapshot
<1>14. Paired(mem', log)
  <2>1. Pending(mem)
    BY <1>3 DEF Pending
  <2> QED BY <2>1, <1>1 DEF Holds, Paired
<1>15. Conserved(mem', log) /\ OneAlarm(mem', log)
  BY <1>1, <1>4, <1>7, <1>9 DEF Holds, Conserved, OneAlarm, SameMail
<1> QED BY <1>1, <1>2, <1>9, <1>11, <1>12, <1>13, <1>14, <1>15 DEF Holds

\* A message is queued behind the others.
LEMMA QueuePromptHolds ==
  ASSUME ChatInvariant, QueuePrompt
  PROVE  Holds(rows', mem', log')
<1> DEFINE new == log.sent + 1
           n == [mem EXCEPT !.stalled = FALSE]
<1>1. /\ Holds(rows, mem, log) /\ mem \in Memory /\ OneDriver(mem) /\ rows \in Seq(Nat)
      /\ log \in History /\ configured \in BOOLEAN /\ Sound(rows, mem, log)
  BY Now DEF Holds
<1>2. /\ rows' = Append(rows, new) /\ log' = [log EXCEPT !.sent = new] /\ Len(rows) < QueueCap
      /\ mem' = DrainNext(rows', n)
  BY DEF QueuePrompt
<1>3. log.sent \in Nat /\ new \in Nat
  BY <1>1 DEF History
<1>4. /\ n \in Memory /\ n.turn = mem.turn /\ SameMail(mem, n)
      /\ n.draining = mem.draining /\ n.parked = mem.parked
      /\ n.dismiss = mem.dismiss /\ (n.liveOn => n.expiry)
  BY <1>1 DEF Memory, SameMail, OneDriver
<1> HIDE DEF n
<1>5. Holds(rows, n, log)
  BY <1>4, AlikeHolds
<1>6. /\ log' \in History /\ log'.sent = new /\ log'.said = log.said
      /\ log'.withdrawn = log.withdrawn /\ log'.between = log.between
      /\ log'.mailed = log.mailed /\ log'.told = log.told /\ log'.dropped = log.dropped
      /\ log'.torn = log.torn /\ log'.crossed = log.crossed /\ log'.split = log.split
      /\ log'.raced = log.raced
  BY <1>1, <1>2, <1>3 DEF History
<1>7. rows' \in Seq(Nat) /\ Range(rows') = Range(rows) \cup {new} /\ Len(rows') = Len(rows) + 1
  BY <1>1, <1>2, <1>3, RangeOfAppend
<1>8. Sound(rows, n, log) /\ Snapshot(rows, n, log)
  BY <1>5 DEF Holds
<1>9. /\ Range(rows) \subseteq 1..log.sent /\ Range(log.said) \subseteq 1..log.sent
      /\ log.withdrawn \subseteq 1..log.sent
  BY <1>8 DEF Sound
<1>10. new \notin 1..log.sent /\ 1..new = (1..log.sent) \cup {new} /\ \A y \in 1..log.sent : y < new
  BY <1>3
<1> HIDE DEF new
<1>11. Sound(rows', n, log')
  <2>1. Len(rows') <= QueueCap
    <3>1. Len(rows) \in Nat /\ QueueCap \in Nat
      BY <1>1, SizesNat
    <3> QED BY <3>1, <1>2, <1>7
  <2>2. Increasing(rows')
    <3>1. Increasing(rows) /\ \A y \in Range(rows) : y < new
      BY <1>8, <1>9, <1>10 DEF Sound
    <3> QED BY <3>1, <1>1, <1>2, <1>3, IncreasingAppend
  <2>3. 1..log'.sent = Range(log'.said) \cup Range(rows') \cup log'.withdrawn
    BY <1>6, <1>7, <1>8, <1>10 DEF Sound
  <2>4. \A x \in Range(log'.said), r \in Range(rows') :
          x < r \/ (x = r /\ r \in log'.between \cup Writes(n))
    <3>1. \A x \in Range(log.said) : x < new
      BY <1>9, <1>10
    <3>2. \A x \in Range(log.said), r \in Range(rows) :
            x < r \/ (x = r /\ r \in log.between \cup Writes(n))
      BY <1>8 DEF Sound
    <3> HIDE <1>8
    <3> QED BY <3>1, <3>2, <1>6, <1>7
  <2>5. /\ log'.withdrawn \cap Range(log'.said) \subseteq log'.between
        /\ log'.withdrawn \cap Range(rows') = {}
    BY <1>6, <1>7, <1>8, <1>9, <1>10 DEF Sound
  <2>6. \A i, j \in DOMAIN log'.said :
          i < j => log'.said[i] < log'.said[j] \/ (log'.said[i] = log'.said[j] /\ log'.said[i] \in log'.between)
    BY <1>6, <1>8 DEF Sound
  <2> QED BY <2>1, <2>2, <2>3, <2>4, <2>5, <2>6 DEF Sound
<1>12. Snapshot(rows', n, log')
  <2>1. ASSUME n.turn.stage \in {"deliver", "erase"}
        PROVE  /\ Increasing(n.turn.snapshot)
               /\ Range(n.turn.snapshot) \subseteq 1..log'.sent
               /\ \A r \in Range(rows'), x \in Range(n.turn.snapshot) :
                    r < x => r \in Range(n.turn.snapshot)
    <3>1. /\ Increasing(n.turn.snapshot) /\ Range(n.turn.snapshot) \subseteq 1..log.sent
          /\ \A r \in Range(rows), x \in Range(n.turn.snapshot) : r < x => r \in Range(n.turn.snapshot)
      BY <2>1, <1>8 DEF Snapshot
    <3>2. Range(n.turn.snapshot) \subseteq 1..log'.sent
      BY <3>1, <1>6, <1>10
    <3>3. \A x \in Range(n.turn.snapshot) : ~(new < x)
      <4>1. \A y \in 1..log.sent : ~(new < y)
        BY <1>3, <1>10
      <4> QED BY <4>1, <3>1
    <3> QED BY <3>1, <3>2, <3>3, <1>7
  <2>2. n.turn.stage = "erase" => n.turn.snapshot # <<>> /\ Head(n.turn.snapshot) \in Range(log'.said)
    BY <1>6, <1>8 DEF Snapshot
  <2> QED BY <2>1, <2>2 DEF Snapshot
<1>13. Paired(n, log') /\ Conserved(n, log') /\ OneAlarm(n, log')
  BY <1>5, <1>6 DEF Holds, Paired, Conserved, OneAlarm
<1>14. Holds(rows', n, log')
  BY <1>5, <1>6, <1>7, <1>11, <1>12, <1>13 DEF Holds
<1> QED BY <1>1, <1>2, <1>14, DrainedHolds

\* Queued messages are withdrawn; one that is being written is noted.
LEMMA WithdrawnHolds ==
  ASSUME NEW q, NEW m, NEW l, Holds(q, m, l), NEW R \in SUBSET Range(q),
         NEW p \in Seq(Nat), Len(p) <= Len(q), Range(p) = Range(q) \ R, Increasing(p),
         NEW k \in History, k.withdrawn = l.withdrawn \cup R,
         k.between = l.between \cup (Writes(m) \cap R),
         k.sent = l.sent, k.said = l.said, k.mailed = l.mailed, k.told = l.told,
         k.dropped = l.dropped, k.torn = l.torn, k.crossed = l.crossed, k.split = l.split,
         k.raced = l.raced
  PROVE  Holds(p, m, k)
<1>1. q \in Seq(Nat) /\ Sound(q, m, l) /\ Snapshot(q, m, l) /\ Paired(m, l)
      /\ Conserved(m, l) /\ OneAlarm(m, l) /\ m \in Memory /\ OneDriver(m)
  BY DEF Holds
<1>2. Sound(p, m, k)
  <2>1. Len(p) <= QueueCap
    <3>1. Len(p) \in Nat /\ Len(q) \in Nat /\ QueueCap \in Nat
      BY <1>1, SizesNat
    <3> QED BY <3>1, <1>1 DEF Sound
  <2>2. 1..k.sent = Range(k.said) \cup Range(p) \cup k.withdrawn
    BY <1>1 DEF Sound
  <2>3. ASSUME NEW i \in DOMAIN k.said, NEW j \in DOMAIN k.said, i < j
        PROVE  k.said[i] < k.said[j] \/ (k.said[i] = k.said[j] /\ k.said[i] \in k.between)
    BY <2>3, <1>1 DEF Sound
  <2>4. ASSUME NEW x \in Range(k.said), NEW r \in Range(p)
        PROVE  x < r \/ (x = r /\ r \in k.between \cup Writes(m))
    BY <2>4, <1>1 DEF Sound
  <2>5. k.withdrawn \cap Range(k.said) \subseteq k.between
    <3>1. SUFFICES ASSUME NEW r \in R, r \in Range(l.said) PROVE r \in k.between
      BY <1>1 DEF Sound
    <3>2. r < r \/ r \in l.between \cup Writes(m)
      BY <3>1, <1>1 DEF Sound
    <3>3. r \in Nat
      <4>1. Range(q) \subseteq Nat
        BY <1>1 DEF Range
      <4> QED BY <4>1
    <3>4. ~(r < r)
      BY <3>3
    <3> QED BY <3>2, <3>4
  <2>6. k.withdrawn \cap Range(p) = {}
    BY <1>1 DEF Sound
  <2> QED BY <2>1, <2>2, <2>3, <2>4, <2>5, <2>6 DEF Sound
<1>3. Snapshot(p, m, k)
  BY <1>1 DEF Snapshot
<1>4. Paired(m, k)
  BY <1>1 DEF Paired
<1>5. Conserved(m, k) /\ OneAlarm(m, k)
  BY <1>1 DEF Conserved, OneAlarm
<1> QED BY <1>1, <1>2, <1>3, <1>4, <1>5 DEF Holds

\* cancelQueuedPrompt().
LEMMA CancelQueuedPromptHolds ==
  ASSUME ChatInvariant, NEW r \in Range(rows), CancelQueuedPrompt(r)
  PROVE  Holds(rows', mem', log')
<1> DEFINE n == [mem EXCEPT !.stalled = mem.stalled /\ rows' # <<>>]
<1>1. /\ Holds(rows, mem, log) /\ mem \in Memory /\ OneDriver(mem) /\ rows \in Seq(Nat)
      /\ log \in History /\ configured \in BOOLEAN /\ Sound(rows, mem, log)
  BY Now DEF Holds
<1>2. /\ rows' = Those(rows, Range(rows) \ {r}) /\ mem' = DrainNext(rows', n)
      /\ log' = [log EXCEPT !.withdrawn = log.withdrawn \cup {r},
                            !.between = log.between \cup (Writes(mem) \cap {r})]
  BY DEF CancelQueuedPrompt, Writing, Writes
<1>3. (mem.stalled /\ rows' # <<>>) \in BOOLEAN
  OBVIOUS
<1>4. /\ n \in Memory /\ n.turn = mem.turn /\ SameMail(mem, n)
      /\ n.draining = mem.draining /\ n.parked = mem.parked
      /\ n.dismiss = mem.dismiss /\ (n.liveOn => n.expiry)
  BY <1>1, <1>3 DEF Memory, SameMail, OneDriver
<1> HIDE DEF n
<1>5. Holds(rows, n, log)
  BY <1>4, AlikeHolds
<1>6. /\ Those(rows, Range(rows) \ {r}) \in Seq(Nat)
      /\ Range(Those(rows, Range(rows) \ {r})) = Range(rows) \ {r}
      /\ Len(Those(rows, Range(rows) \ {r})) <= Len(rows)
      /\ Increasing(Those(rows, Range(rows) \ {r}))
  <2>1. ASSUME NEW S
        PROVE  /\ Those(rows, S) \in Seq(Nat) /\ Range(Those(rows, S)) = Range(rows) \cap S
               /\ Len(Those(rows, S)) <= Len(rows) /\ Increasing(Those(rows, S))
    BY <1>1, ThoseKeep, IncreasingThose, ZenonT(60) DEF Sound
  <2> QED BY <2>1
<1>7. r \in Nat
  BY <1>1 DEF Range
<1>8. log' \in History /\ log'.withdrawn = log.withdrawn \cup {r}
      /\ log'.between = log.between \cup (Writes(mem) \cap {r})
      /\ log'.sent = log.sent /\ log'.said = log.said /\ log'.mailed = log.mailed
      /\ log'.told = log.told /\ log'.dropped = log.dropped /\ log'.torn = log.torn
      /\ log'.crossed = log.crossed /\ log'.split = log.split /\ log'.raced = log.raced
  <2>1. /\ log.withdrawn \cup {r} \in SUBSET Nat
        /\ log.between \cup (Writes(mem) \cap {r}) \in SUBSET Nat
    BY <1>1, <1>7 DEF History
  <2> QED BY <2>1, <1>1, <1>2 DEF History
<1>9. Writes(n) = Writes(mem)
  BY <1>4 DEF Writes
<1>10. Holds(rows', n, log')
  <2>1. /\ rows' \in Seq(Nat) /\ Range(rows') = Range(rows) \ {r} /\ Len(rows') <= Len(rows)
        /\ Increasing(rows')
    BY <1>2, <1>6
  <2>2. {r} \in SUBSET Range(rows)
    OBVIOUS
  <2>3. /\ log' \in History /\ log'.withdrawn = log.withdrawn \cup {r}
        /\ log'.between = log.between \cup (Writes(n) \cap {r})
    BY <1>8, <1>9
  <2> QED BY <1>5, <1>8, <2>1, <2>2, <2>3, WithdrawnHolds
<1> QED BY <1>1, <1>2, <1>10, DrainedHolds

\* clearHistory(): queue, approvals and mailbox go.
LEMMA ClearHistoryHolds ==
  ASSUME ChatInvariant, ClearHistory
  PROVE  Holds(rows', mem', log')
<1> DEFINE lost == Range(mem.mailbox) \ {Timer}
           stop == mem.turn.aborted \/ mem.controller = "turn"
           kept == [log EXCEPT !.withdrawn = log.withdrawn \cup Range(rows),
                               !.between = log.between \cup (Writes(mem) \cap Range(rows))]
<1>1. /\ Holds(rows, mem, log) /\ mem \in Memory /\ OneDriver(mem) /\ rows \in Seq(Nat)
      /\ log \in History /\ mem.turn \in Turns /\ mem.mailbox \in Seq(Nat)
  BY Now DEF Memory
<1>2. /\ rows' = <<>>
      /\ mem' = [mem EXCEPT !.stalled = FALSE, !.parked = <<>>, !.mailbox = <<>>,
                            !.controller = "none", !.turn = [mem.turn EXCEPT !.aborted = stop]]
      /\ log' = [log EXCEPT !.withdrawn = log.withdrawn \cup Range(rows),
                            !.between = log.between \cup (Writes(mem) \cap Range(rows)),
                            !.dropped = log.dropped \cup lost]
  BY <1>1 DEF ClearHistory, Writing, Writes, Memory, Turns
<1>3. Range(rows) \in SUBSET Nat /\ lost \in SUBSET Nat
  BY <1>1 DEF Range
<1>4. /\ log.withdrawn \cup Range(rows) \in SUBSET Nat /\ log.dropped \cup lost \in SUBSET Nat
      /\ log.between \cup (Writes(mem) \cap Range(rows)) \in SUBSET Nat
  BY <1>1, <1>3 DEF History
<1> HIDE DEF lost, stop
<1>5. /\ kept \in History /\ kept.withdrawn = log.withdrawn \cup Range(rows)
      /\ kept.between = log.between \cup (Writes(mem) \cap Range(rows))
      /\ kept.sent = log.sent /\ kept.said = log.said /\ kept.mailed = log.mailed
      /\ kept.told = log.told /\ kept.dropped = log.dropped /\ kept.torn = log.torn
      /\ kept.crossed = log.crossed /\ kept.split = log.split /\ kept.raced = log.raced
  BY <1>1, <1>4 DEF History
<1>6. /\ log' \in History /\ log'.withdrawn = kept.withdrawn
      /\ log'.between = kept.between /\ log'.dropped = kept.dropped \cup lost
      /\ log'.sent = kept.sent /\ log'.said = kept.said /\ log'.mailed = kept.mailed
      /\ log'.told = kept.told /\ log'.torn = kept.torn
      /\ log'.crossed = kept.crossed /\ log'.split = kept.split /\ log'.raced = kept.raced
  BY <1>1, <1>2, <1>4 DEF History
<1>7. ASSUME NEW e \in Seq(Nat), e = <<>>
      PROVE  Holds(e, mem, kept)
  <2>1. Len(e) <= Len(rows) /\ Range(e) = {} /\ Increasing(e) /\ Range(e) = Range(rows) \ Range(rows)
    BY <1>1, <1>7, RangeOfNone DEF Increasing
  <2> HIDE DEF kept
  <2> QED BY <1>1, <1>5, <1>7, <2>1, WithdrawnHolds
<1>8. <<>> \in Seq(Nat) /\ rows' \in Seq(Nat) /\ <<>> \in Seq(Parks)
  BY <1>2
<1> HIDE DEF kept
<1>9. Holds(rows', mem, kept)
  BY <1>2, <1>7, <1>8
<1>10. stop \in BOOLEAN
  BY <1>1 DEF stop, Turns
<1>11. /\ mem' \in Memory /\ SameTurn(mem, mem') /\ mem'.draining = mem.draining
       /\ mem'.liveOn = mem.liveOn /\ mem'.expiry = mem.expiry /\ mem'.dismiss = mem.dismiss
       /\ mem'.parked = <<>> /\ mem'.mailbox = <<>> /\ mem'.held = mem.held
       /\ mem'.alarm = mem.alarm
  BY <1>1, <1>2, <1>8, <1>10, ZenonT(60) DEF Memory, Turns, SameTurn
<1>12. Batches(mem') = {}
  BY <1>11 DEF Batches
<1>13. OneDriver(mem')
  <2>1. Settled(mem')
    BY <1>1, <1>11 DEF OneDriver, Settled, Driven, SameTurn
  <2>2. mem'.liveOn => mem'.expiry
    BY <1>1, <1>11 DEF OneDriver
  <2>3. mem'.turn.stage \in {"running", "opening", "deciding", "answer"} => mem'.turn.calls > 0
    BY <1>1, <1>11 DEF OneDriver, SameTurn
  <2> QED BY <1>12, <2>1, <2>2, <2>3 DEF OneDriver
<1>14. Sound(rows', mem', log')
  <2>1. Writes(mem') = Writes(mem)
    BY <1>11 DEF Writes, SameTurn
  <2> QED BY <2>1, <1>6, <1>9 DEF Holds, Sound
<1>15. Snapshot(rows', mem', log')
  BY <1>6, <1>9, <1>11 DEF Holds, Snapshot, SameTurn
<1>16. Paired(mem', log')
  <2>1. Pending(mem') => Pending(mem)
    BY <1>11, <1>12 DEF Pending, SameTurn
  <2> QED BY <2>1, <1>6, <1>9 DEF Holds, Paired
<1>17. Conserved(mem', log')
  <2>1. Conserved(mem, kept)
    BY <1>9 DEF Holds
  <2>2. Range(mem'.mailbox) = {} /\ Once(mem'.mailbox)
    BY <1>11, RangeOfNone DEF Once, Twice
  <2>3. 1..log'.mailed = ((Range(mem'.mailbox) \cup Range(mem'.held)) \ {Timer})
                           \cup Range(log'.told) \cup log'.dropped
    BY <2>1, <2>2, <1>6, <1>11 DEF Conserved, lost
  <2> QED BY <2>1, <2>2, <2>3, <1>6, <1>11 DEF Conserved, SameTurn
<1>18. OneAlarm(mem', log')
  BY <1>11, RangeOfNone DEF OneAlarm
<1> QED BY <1>6, <1>8, <1>11, <1>13, <1>14, <1>15, <1>16, <1>17, <1>18 DEF Holds

\* What a restart starts from.
LEMMA FreshIs ==
  /\ Fresh \in Memory /\ Fresh.turn.stage = "none" /\ Fresh.parked = <<>> /\ Fresh.mailbox = <<>>
  /\ Fresh.held = <<>> /\ ~Fresh.draining /\ ~Fresh.liveOn /\ ~Fresh.alarm
  /\ Fresh.dismiss = "none" /\ ~Driven(Fresh) /\ Batches(Fresh) = {} /\ OneDriver(Fresh)
<1>1. /\ NoTurn \in Turns /\ NoTurn.stage = "none" /\ <<>> \in Seq(Nat) /\ <<>> \in Seq(Parks)
      /\ <<>> \in Seq({"tools", "record"}) /\ 0 \in 0..MaxRetries + 1
  BY NoTurnIs, SizesNat
<1>2. Fresh.turn = NoTurn
  BY DEF Fresh
<1> HIDE DEF NoTurn
<1>3. Fresh \in Memory
  BY <1>1 DEF Fresh, Memory
<1>4. /\ Fresh.turn.stage = "none" /\ Fresh.parked = <<>> /\ Fresh.mailbox = <<>>
      /\ Fresh.held = <<>> /\ ~Fresh.draining /\ ~Fresh.liveOn /\ ~Fresh.alarm
      /\ Fresh.dismiss = "none"
  BY <1>1, <1>2 DEF Fresh
<1> HIDE DEF Fresh
<1>5. ~Driven(Fresh) /\ Batches(Fresh) = {}
  BY <1>4 DEF Driven, Batches
<1>6. OneDriver(Fresh)
  BY <1>4, <1>5 DEF OneDriver, Settled
<1> QED BY <1>3, <1>4, <1>5, <1>6

\* The process goes and comes back.
LEMMA RestartHolds ==
  ASSUME ChatInvariant, Restart
  PROVE  Holds(rows', mem', log')
<1> DEFINE lost == Range(mem.mailbox \o mem.held) \ {Timer}
<1>1. /\ Holds(rows, mem, log) /\ mem \in Memory /\ rows \in Seq(Nat) /\ configured \in BOOLEAN
      /\ log \in History /\ mem.mailbox \in Seq(Nat) /\ mem.held \in Seq(Nat)
  BY Now DEF Memory
<1>2. /\ rows' = rows /\ mem' = IF rows = <<>> THEN Fresh ELSE DrainNext(rows, Fresh)
      /\ log' = [log EXCEPT !.between = log.between \cup (Writes(mem) \cap Range(rows)),
                            !.dropped = log.dropped \cup lost]
  BY DEF Restart, Writing, Writes
<1>3. lost = (Range(mem.mailbox) \cup Range(mem.held)) \ {Timer}
  BY <1>1, RangeOfConcat
<1>4. Range(rows) \in SUBSET Nat /\ lost \in SUBSET Nat
  <2>1. Range(rows) \subseteq Nat /\ Range(mem.mailbox) \subseteq Nat /\ Range(mem.held) \subseteq Nat
    BY <1>1 DEF Range
  <2> HIDE DEF lost
  <2> QED BY <2>1, <1>3
<1>5. /\ log.dropped \cup lost \in SUBSET Nat
      /\ log.between \cup (Writes(mem) \cap Range(rows)) \in SUBSET Nat
  BY <1>1, <1>4 DEF History
<1> HIDE DEF lost
<1>6. /\ log' \in History /\ log'.withdrawn = log.withdrawn
      /\ log'.between = log.between \cup (Writes(mem) \cap Range(rows))
      /\ log'.dropped = log.dropped \cup lost
      /\ log'.sent = log.sent /\ log'.said = log.said /\ log'.mailed = log.mailed
      /\ log'.told = log.told /\ log'.torn = log.torn
      /\ log'.crossed = log.crossed /\ log'.split = log.split /\ log'.raced = log.raced
  BY <1>1, <1>2, <1>5 DEF History
<1>7. Sound(rows, Fresh, log')
  <2>1. Writes(Fresh) = {}
    BY FreshIs DEF Writes
  <2>2. Sound(rows, mem, log)
    BY <1>1 DEF Holds
  <2> QED BY <1>6, <2>1, <2>2 DEF Sound
<1>8. Snapshot(rows, Fresh, log')
  BY FreshIs DEF Snapshot
<1>9. Paired(Fresh, log')
  <2>1. ~Pending(Fresh)
    BY FreshIs DEF Pending
  <2> QED BY <1>1, <1>6, <2>1 DEF Holds, Paired
<1>10. Conserved(Fresh, log')
  <2>1. Range(Fresh.mailbox) = {} /\ Range(Fresh.held) = {} /\ Once(Fresh.mailbox) /\ Once(Fresh.held)
    BY FreshIs, RangeOfNone DEF Once, Twice
  <2>2. Conserved(mem, log)
    BY <1>1 DEF Holds
  <2>3. 1..log'.mailed = Range(log'.told) \cup log'.dropped
    BY <1>3, <1>6, <2>2 DEF Conserved
  <2> QED BY <1>6, <2>1, <2>2, <2>3 DEF Conserved
<1>11. OneAlarm(Fresh, log')
  BY FreshIs, RangeOfNone DEF OneAlarm
<1>12. Holds(rows, Fresh, log')
  BY <1>1, <1>6, <1>7, <1>8, <1>9, <1>10, <1>11, FreshIs DEF Holds
<1> QED BY <1>1, <1>2, <1>12, DrainedHolds

\* Mail, or a timer's notification, is put behind the rest of the mailbox.
LEMMA HoldsMailed ==
  ASSUME NEW q, NEW m, NEW l, Holds(q, m, l), NEW x \in Nat,
         NEW n \in Memory, n.mailbox = Append(m.mailbox, x), SameTurn(m, n),
         n.draining = m.draining, n.parked = m.parked, n.dismiss = m.dismiss,
         n.liveOn = m.liveOn, n.expiry = m.expiry, n.held = m.held,
         NEW k \in History, k.sent = l.sent, k.said = l.said, k.withdrawn = l.withdrawn,
         k.between = l.between, k.told = l.told, k.dropped = l.dropped, k.torn = l.torn,
         k.crossed = l.crossed, k.split = l.split, k.raced = l.raced,
         \/ x = l.mailed + 1 /\ k.mailed = x /\ n.alarm = m.alarm
         \/ x = Timer /\ k.mailed = l.mailed /\ ~n.alarm /\ m.alarm
  PROVE  Holds(q, n, k)
<1>1. /\ q \in Seq(Nat) /\ OneDriver(m) /\ Sound(q, m, l) /\ Snapshot(q, m, l) /\ Paired(m, l)
      /\ Conserved(m, l) /\ OneAlarm(m, l) /\ m \in Memory /\ l \in History
  BY DEF Holds
<1>2. Batches(n) = Batches(m)
  BY DEF Batches
<1>3. OneDriver(n)
  <2>1. Settled(n) /\ (Driven(n) => Driven(m))
    BY <1>1 DEF OneDriver, Settled, Driven, SameTurn
  <2>2. n.turn.stage \in {"running", "opening", "deciding", "answer"} => n.turn.calls > 0
    BY <1>1 DEF OneDriver, SameTurn
  <2> QED BY <1>1, <1>2, <2>1, <2>2 DEF OneDriver
<1>4. Sound(q, n, k)
  <2>1. Writes(n) = Writes(m)
    BY DEF Writes, SameTurn
  <2> QED BY <2>1, <1>1 DEF Sound
<1>5. Snapshot(q, n, k)
  BY <1>1 DEF Snapshot, SameTurn
<1>6. Paired(n, k)
  <2>1. Pending(n) => Pending(m)
    BY <1>2 DEF Pending, SameTurn
  <2> QED BY <2>1, <1>1 DEF Paired
<1>7. /\ m.mailbox \in Seq(Nat) /\ m.held \in Seq(Nat) /\ l.told \in Seq(Nat) /\ l.mailed \in Nat
  BY <1>1 DEF Memory, History
<1>8. /\ Range(n.mailbox) = Range(m.mailbox) \cup {x} /\ DOMAIN n.mailbox = 1..Len(m.mailbox) + 1
      /\ DOMAIN m.mailbox = 1..Len(m.mailbox) /\ Len(m.mailbox) \in Nat
      /\ \A i \in 1..Len(m.mailbox) : n.mailbox[i] = m.mailbox[i]
      /\ n.mailbox[Len(m.mailbox) + 1] = x
  <2>1. Append(m.mailbox, x) \in Seq(Nat) /\ Range(n.mailbox) = Range(m.mailbox) \cup {x}
    <3>1. ASSUME NEW s \in Seq(Nat)
          PROVE  Append(s, x) \in Seq(Nat) /\ Range(Append(s, x)) = Range(s) \cup {x}
      BY RangeOfAppend
    <3> QED BY <3>1, <1>7
  <2>2. Len(Append(m.mailbox, x)) = Len(m.mailbox) + 1 /\ Len(m.mailbox) \in Nat
    BY <1>7
  <2>3. \A i \in 1..Len(m.mailbox) : Append(m.mailbox, x)[i] = m.mailbox[i]
    BY <1>7
  <2>4. Append(m.mailbox, x)[Len(m.mailbox) + 1] = x
    BY <1>7
  <2> QED BY <2>1, <2>2, <2>3, <2>4, <1>7
<1>9. \A i \in DOMAIN m.mailbox : m.mailbox[i] \in Range(m.mailbox)
  BY DEF Range
<1>10. /\ Range(m.mailbox) \subseteq (1..l.mailed) \cup {Timer}
       /\ Range(m.held) \subseteq (1..l.mailed) \cup {Timer}
       /\ Range(l.told) \subseteq 1..l.mailed
  BY <1>1 DEF Conserved
<1>11. Timer \notin 1..l.mailed
  BY <1>7 DEF Timer
<1>12. ASSUME NEW i \in DOMAIN n.mailbox, NEW j \in DOMAIN n.mailbox, i # j,
              n.mailbox[i] = n.mailbox[j]
       PROVE  (n.mailbox[i] = x /\ x \in Range(m.mailbox)) \/ n.mailbox[i] = Timer
  <2>1. CASE i \in DOMAIN m.mailbox /\ j \in DOMAIN m.mailbox
    <3>1. m.mailbox[i] = m.mailbox[j]
      BY <2>1, <1>8, <1>12
    <3>2. m.mailbox[i] \in {Timer}
      BY <2>1, <3>1, <1>1, <1>12 DEF Conserved, Once, Twice
    <3> QED BY <2>1, <3>2, <1>8
  <2>2. CASE i \notin DOMAIN m.mailbox
    <3>1. i = Len(m.mailbox) + 1 /\ j \in DOMAIN m.mailbox
      BY <2>2, <1>8, <1>12
    <3> QED BY <3>1, <1>8, <1>9, <1>12
  <2>3. CASE j \notin DOMAIN m.mailbox
    <3>1. j = Len(m.mailbox) + 1 /\ i \in DOMAIN m.mailbox
      BY <2>3, <1>8, <1>12
    <3> QED BY <3>1, <1>8, <1>9, <1>12
  <2> QED BY <2>1, <2>2, <2>3
<1>13. CASE x = l.mailed + 1 /\ k.mailed = x /\ n.alarm = m.alarm
  <2>1. x \notin 1..l.mailed /\ x # Timer /\ 1..x = (1..l.mailed) \cup {x}
    BY <1>7, <1>13 DEF Timer
  <2>2. Conserved(n, k)
    <3>1. 1..k.mailed = ((Range(n.mailbox) \cup Range(n.held)) \ {Timer}) \cup Range(k.told) \cup k.dropped
      BY <2>1, <1>1, <1>8, <1>13 DEF Conserved
    <3>2. /\ Range(n.mailbox) \cap Range(k.told) \subseteq k.torn
          /\ Range(n.mailbox) \cap Range(n.held) \subseteq {Timer}
      BY <2>1, <1>1, <1>8, <1>10 DEF Conserved
    <3>3. Once(n.mailbox)
      BY <2>1, <1>10, <1>12 DEF Once, Twice
    <3> QED BY <3>1, <3>2, <3>3, <1>1 DEF Conserved, SameTurn
  <2>3. OneAlarm(n, k)
    <3> SUFFICES ASSUME k.torn = {}
                 PROVE  /\ \A i, j \in DOMAIN n.mailbox : n.mailbox[i] = Timer /\ n.mailbox[j] = Timer => i = j
                        /\ n.alarm => Timer \notin Range(n.mailbox)
      BY DEF OneAlarm
    <3>1. \A i \in DOMAIN n.mailbox : n.mailbox[i] = Timer => i \in DOMAIN m.mailbox /\ m.mailbox[i] = Timer
      BY <2>1, <1>8
    <3> QED BY <3>1, <2>1, <1>1, <1>8, <1>13 DEF OneAlarm
  <2> QED BY <1>1, <1>3, <1>4, <1>5, <1>6, <2>2, <2>3 DEF Holds
<1>14. CASE x = Timer /\ k.mailed = l.mailed /\ ~n.alarm /\ m.alarm
  <2>2. Conserved(n, k)
    <3>1. 1..k.mailed = ((Range(n.mailbox) \cup Range(n.held)) \ {Timer}) \cup Range(k.told) \cup k.dropped
      BY <1>1, <1>8, <1>14 DEF Conserved
    <3>2. /\ Range(n.mailbox) \cap Range(k.told) \subseteq k.torn
          /\ Range(n.mailbox) \cap Range(n.held) \subseteq {Timer}
      BY <1>1, <1>8, <1>10, <1>11, <1>14 DEF Conserved
    <3>3. Once(n.mailbox)
      BY <1>12, <1>14 DEF Once, Twice
    <3> QED BY <3>1, <3>2, <3>3, <1>1 DEF Conserved, SameTurn
  <2>3. OneAlarm(n, k)
    <3> SUFFICES ASSUME k.torn = {}
                 PROVE  \A i, j \in DOMAIN n.mailbox : n.mailbox[i] = Timer /\ n.mailbox[j] = Timer => i = j
      BY <1>14 DEF OneAlarm
    <3>1. Timer \notin Range(m.mailbox)
      BY <1>1, <1>14 DEF OneAlarm
    <3>2. \A i \in DOMAIN n.mailbox : n.mailbox[i] = Timer => i = Len(m.mailbox) + 1
      BY <3>1, <1>8, <1>9
    <3> QED BY <3>2
  <2> QED BY <1>1, <1>3, <1>4, <1>5, <1>6, <2>2, <2>3 DEF Holds
<1> QED BY <1>13, <1>14

\* What arrives wakes a chat that is neither busy nor live.
LEMMA MailedHolds ==
  ASSUME ChatInvariant, NEW m \in Memory, NEW x \in Nat, NEW l,
         Holds(rows, [m EXCEPT !.mailbox = Append(m.mailbox, x)], l)
  PROVE  Holds(rows, Mailed(m, x), l)
<1> DEFINE n == [m EXCEPT !.mailbox = Append(m.mailbox, x)]
<1>1. Mailed(m, x) = IF Busy(n) \/ n.liveOn THEN n ELSE DrainNext(rows, n)
  BY DEF Mailed
<1> HIDE DEF n
<1>2. Holds(rows, n, l)
  BY DEF n
<1> QED BY <1>1, <1>2, Now, DrainedHolds

\* A subagent has finished.
LEMMA EnqueueMailboxHolds ==
  ASSUME ChatInvariant, EnqueueMailbox
  PROVE  Holds(rows', mem', log')
<1> DEFINE x == log.mailed + 1
           n == [mem EXCEPT !.mailbox = Append(mem.mailbox, x)]
<1>1. /\ Holds(rows, mem, log) /\ mem \in Memory /\ log \in History /\ mem.mailbox \in Seq(Nat)
  BY Now DEF Memory
<1>2. rows' = rows /\ mem' = Mailed(mem, x) /\ log' = [log EXCEPT !.mailed = x]
  BY DEF EnqueueMailbox
<1>3. x \in Nat
  BY <1>1 DEF History
<1>4. Append(mem.mailbox, x) \in Seq(Nat)
  BY <1>1, <1>3, RangeOfAppend
<1>5. x = log.mailed + 1
  OBVIOUS
<1> HIDE DEF x
<1>6. /\ log' \in History /\ log'.sent = log.sent /\ log'.said = log.said
      /\ log'.withdrawn = log.withdrawn /\ log'.between = log.between /\ log'.told = log.told
      /\ log'.dropped = log.dropped /\ log'.torn = log.torn /\ log'.crossed = log.crossed
      /\ log'.split = log.split /\ log'.raced = log.raced /\ log'.mailed = x
  BY <1>1, <1>2, <1>3 DEF History
<1>7. /\ n \in Memory /\ n.mailbox = Append(mem.mailbox, x) /\ SameTurn(mem, n)
      /\ n.draining = mem.draining /\ n.parked = mem.parked /\ n.dismiss = mem.dismiss
      /\ n.liveOn = mem.liveOn /\ n.expiry = mem.expiry /\ n.held = mem.held
      /\ n.alarm = mem.alarm
  BY <1>1, <1>4 DEF Memory, SameTurn
<1>8. Holds(rows, n, log')
  <2> HIDE DEF n
  <2> QED BY <1>1, <1>3, <1>5, <1>6, <1>7, HoldsMailed
<1> QED BY <1>1, <1>2, <1>3, <1>8, MailedHolds

\* The check_back_in timer fires.
LEMMA AlarmFiresHolds ==
  ASSUME ChatInvariant, AlarmFires
  PROVE  Holds(rows', mem', log')
<1> DEFINE n == [mem EXCEPT !.alarm = FALSE]
           o == [n EXCEPT !.mailbox = Append(n.mailbox, Timer)]
<1>1. /\ Holds(rows, mem, log) /\ mem \in Memory /\ log \in History /\ mem.mailbox \in Seq(Nat)
      /\ OneDriver(mem)
  BY Now DEF Memory
<1>2. /\ rows' = rows /\ log' = log /\ mem.alarm
      /\ mem' = IF Busy(n) THEN n ELSE Mailed(n, Timer)
  BY DEF AlarmFires
<1>3. Timer \in Nat
  BY DEF Timer
<1>4. Append(mem.mailbox, Timer) \in Seq(Nat)
  BY <1>1, <1>3, RangeOfAppend
<1>5. /\ n \in Memory /\ SameTurn(mem, n) /\ n.mailbox = mem.mailbox
      /\ n.draining = mem.draining /\ n.parked = mem.parked /\ n.dismiss = mem.dismiss
      /\ n.liveOn = mem.liveOn /\ n.expiry = mem.expiry /\ n.held = mem.held
      /\ ~n.alarm
  BY <1>1 DEF Memory, SameTurn
<1> HIDE DEF n
<1>6. /\ o \in Memory /\ SameTurn(mem, o) /\ o.mailbox = Append(mem.mailbox, Timer)
      /\ o.draining = mem.draining /\ o.parked = mem.parked /\ o.dismiss = mem.dismiss
      /\ o.liveOn = mem.liveOn /\ o.expiry = mem.expiry /\ o.held = mem.held
      /\ ~o.alarm
  BY <1>4, <1>5 DEF Memory, SameTurn
<1>7. Holds(rows, n, log)
  <2>1. OneDriver(n)
    BY <1>1, <1>5 DEF OneDriver, Settled, Driven, Batches, SameTurn
  <2>2. Sound(rows, n, log) /\ Snapshot(rows, n, log)
    BY <1>1, <1>5 DEF Holds, Sound, Snapshot, Writes, SameTurn
  <2>3. Paired(n, log)
    BY <1>1, <1>5 DEF Holds, Paired, Pending, Batches, SameTurn
  <2>4. Conserved(n, log) /\ OneAlarm(n, log)
    BY <1>1, <1>5 DEF Holds, Conserved, OneAlarm, SameTurn
  <2> QED BY <1>1, <1>5, <2>1, <2>2, <2>3, <2>4 DEF Holds
<1>8. Holds(rows, o, log)
  <2> HIDE DEF o
  <2> QED BY <1>1, <1>2, <1>3, <1>6, HoldsMailed
<1>9. Holds(rows, Mailed(n, Timer), log)
  BY <1>3, <1>5, <1>8, MailedHolds
<1> QED BY <1>2, <1>7, <1>9

\* The head of the live line is done.
LEMMA LiveDoneHolds ==
  ASSUME ChatInvariant, NEW parks \in BOOLEAN, LiveDone(parks)
  PROVE  Holds(rows', mem', log')
<1> DEFINE e == [kind |-> "live", calls |-> 1, round |-> 0]
           parked == IF parks THEN Append(mem.parked, e) ELSE mem.parked
<1>1. /\ Holds(rows, mem, log) /\ mem \in Memory /\ log \in History /\ mem.parked \in Seq(Parks)
      /\ OneDriver(mem) /\ mem.chain \in Seq({"tools", "record"})
  BY Now DEF Memory
<1>2. /\ rows' = rows /\ mem.chain # <<>> /\ (parks => Head(mem.chain) = "tools")
      /\ mem' = [mem EXCEPT !.chain = Tail(mem.chain), !.parked = parked]
      /\ log' = IF Head(mem.chain) = "record"
                THEN [Prompted(log) EXCEPT !.raced = Prompted(log).raced \/ PlannerBusy(<<>>, mem)]
                ELSE [log EXCEPT !.left = log.left \/ Stuck(rows, mem')]
  BY DEF LiveDone
<1>3. e \in Parks /\ e.kind = "live"
  BY SizesNat DEF Parks, Waits
<1>4. Tail(mem.chain) \in Seq({"tools", "record"})
  BY <1>1, <1>2
<1> HIDE DEF e
<1>5. /\ parked \in Seq(Parks)
      /\ \A i \in DOMAIN parked : parked[i].kind # "live" => i \in DOMAIN mem.parked /\ parked[i] = mem.parked[i]
      /\ \A i \in DOMAIN mem.parked : i \in DOMAIN parked /\ parked[i] = mem.parked[i]
  <2>1. CASE parks
    <3>1. /\ Append(mem.parked, e) \in Seq(Parks)
          /\ DOMAIN Append(mem.parked, e) = 1..Len(mem.parked) + 1
          /\ DOMAIN mem.parked = 1..Len(mem.parked) /\ Len(mem.parked) \in Nat
          /\ \A i \in 1..Len(mem.parked) : Append(mem.parked, e)[i] = mem.parked[i]
          /\ Append(mem.parked, e)[Len(mem.parked) + 1] = e
      BY <1>1, <1>3
    <3>2. \A i \in 1..Len(mem.parked) + 1 : i \in 1..Len(mem.parked) \/ i = Len(mem.parked) + 1
      BY <3>1
    <3> QED BY <2>1, <3>1, <3>2, <1>3
  <2>2. CASE ~parks
    BY <2>2, <1>1
  <2> QED BY <2>1, <2>2
<1> HIDE DEF parked
<1>6. /\ mem' \in Memory /\ mem'.turn = mem.turn /\ SameMail(mem, mem')
      /\ mem'.draining = mem.draining /\ mem'.parked = parked /\ mem'.dismiss = mem.dismiss
      /\ mem'.liveOn = mem.liveOn /\ mem'.expiry = mem.expiry
  BY <1>1, <1>2, <1>4, <1>5 DEF Memory, SameMail
<1>7. Batches(mem') = Batches(mem) /\ \A i \in Batches(mem) : mem'.parked[i] = mem.parked[i]
  BY <1>5, <1>6 DEF Batches
<1>8. OneDriver(mem')
  BY <1>1, <1>6, <1>7 DEF OneDriver, Settled, Driven, SameMail
<1>9. Holds(rows, mem', log)
  <2>1. Sound(rows, mem', log) /\ Snapshot(rows, mem', log)
    BY <1>1, <1>6 DEF Holds, Sound, Snapshot, Writes
  <2>2. Paired(mem', log)
    BY <1>1, <1>6, <1>7 DEF Holds, Paired, Pending
  <2>3. Conserved(mem', log) /\ OneAlarm(mem', log)
    BY <1>1, <1>6 DEF Holds, Conserved, OneAlarm, SameMail
  <2> QED BY <1>1, <1>6, <1>8, <2>1, <2>2, <2>3 DEF Holds
<1>10. CASE Head(mem.chain) = "record"
  <2> DEFINE race == log.raced \/ mem.dismiss = "result" \/ PlannerBusy(<<>>, mem)
  <2>1. Prompted(log) = [log EXCEPT !.crossed = TRUE, !.raced = log.raced \/ mem.dismiss = "result"]
    BY DEF Prompted
  <2>2. Prompted(log).raced = (log.raced \/ mem.dismiss = "result")
    BY <2>1, <1>1 DEF History
  <2>3. log' = [log EXCEPT !.crossed = TRUE, !.raced = race]
    BY <1>1, <1>2, <1>10, <2>1, <2>2 DEF History
  <2>4. race \in BOOLEAN
    OBVIOUS
  <2>5. Pending(mem) => race
    BY DEF Pending, PlannerBusy, Driven, Batches
  <2>6. log.raced => race
    OBVIOUS
  <2> HIDE DEF race
  <2>7. /\ log' \in History /\ log'.sent = log.sent /\ log'.said = log.said
        /\ log'.withdrawn = log.withdrawn /\ log'.between = log.between
        /\ log'.mailed = log.mailed /\ log'.told = log.told /\ log'.dropped = log.dropped
        /\ log'.torn = log.torn /\ log'.crossed = TRUE /\ log'.split = log.split
        /\ log'.raced = race
    BY <1>1, <2>3, <2>4 DEF History
  <2>8. Paired(mem', log')
    <3>1. Pending(mem') => Pending(mem)
      BY <1>6, <1>7 DEF Pending
    <3> QED BY <1>1, <3>1, <2>5, <2>6, <2>7 DEF Holds, Paired
  <2> QED BY <1>2, <1>9, <2>7, <2>8, HoldsLogged
<1>11. CASE Head(mem.chain) # "record"
  <2> DEFINE leaves == log.left \/ Stuck(rows, mem')
  <2>1. log' = [log EXCEPT !.left = leaves]
    BY <1>2, <1>11
  <2>2. leaves \in BOOLEAN
    OBVIOUS
  <2> HIDE DEF leaves
  <2>3. /\ log' \in History /\ log'.sent = log.sent /\ log'.said = log.said
        /\ log'.withdrawn = log.withdrawn /\ log'.between = log.between
        /\ log'.mailed = log.mailed /\ log'.told = log.told /\ log'.dropped = log.dropped
        /\ log'.torn = log.torn /\ log'.crossed = log.crossed /\ log'.split = log.split
        /\ log'.raced = log.raced
    BY <1>1, <2>1, <2>2 DEF History
  <2>4. Paired(mem', log')
    BY <1>9, <2>3 DEF Holds, Paired
  <2> QED BY <1>2, <1>9, <2>3, <2>4, HoldsLogged
<1> QED BY <1>10, <1>11

-----------------------------------------------------------------------------
(* The invariant holds.                                                     *)

\* A step of a turn.
LEMMA TurnStepHolds ==
  ASSUME ChatInvariant, TurnStep
  PROVE  Holds(rows', mem', log')
<1>1. CASE PromptWritten
  BY <1>1, PromptWrittenHolds
<1>2. CASE Deliver
  BY <1>2, DeliverHolds
<1>3. CASE Erase
  BY <1>3, EraseHolds
<1>4. CASE Delivered
  BY <1>4, DeliveredHolds
<1>5. CASE ModelAnswers \/ CompactDone
  BY <1>5, ModelAnswersHolds
<1>6. CASE ModelFails
  BY <1>6, ModelFailsHolds
<1>7. CASE \E k \in 1..MaxCalls : ModelAsks(k)
  BY <1>7, ModelAsksHolds
<1>8. CASE ModelCutOff
  BY <1>8, ModelCutOffHolds
<1>9. CASE RefuseCall
  BY <1>9, RefuseCallHolds
<1>10. CASE StartCall
  BY <1>10, StartCallHolds
<1>11. CASE CallDone \/ BrowserFails \/ AnswerDone
  BY <1>11, CallDoneHolds
<1>12. CASE CheckBackIn
  BY <1>12, CheckBackInHolds
<1>13. CASE ParkForApproval \/ ParkForHelp
  BY <1>13, ParkHolds
<1>14. CASE OpenBrowser
  BY <1>14, OpenBrowserHolds
<1>15. CASE BatchOver
  BY <1>15, BatchOverHolds
<1>16. CASE RunApproved
  BY <1>16, RunApprovedHolds
<1> QED BY <1>1, <1>2, <1>3, <1>4, <1>5, <1>6, <1>7, <1>8, <1>9, <1>10, <1>11, <1>12, <1>13,
           <1>14, <1>15, <1>16 DEF TurnStep

\* A step of the live mode or of a person.
LEMMA PeopleHold ==
  ASSUME ChatInvariant, LiveStep \/ People
  PROVE  Holds(rows', mem', log')
<1>1. CASE WhenIdle \/ LiveSetup \/ LiveReady \/ LiveLapses \/ \E work \in {"tools", "record"} : LiveAccept(work)
  BY <1>1, MarksHold
<1>2. CASE EndLive \/ LiveAnswered
  BY <1>2, LiveDrainsHold
<1>3. CASE \E parks \in BOOLEAN : LiveDone(parks)
  BY <1>3, LiveDoneHolds
<1>4. CASE SendMessage
  BY <1>4, SendMessageHolds
<1>5. CASE QueuePrompt
  BY <1>5, QueuePromptHolds
<1>6. CASE \E r \in Range(rows) : CancelQueuedPrompt(r)
  BY <1>6, CancelQueuedPromptHolds
<1>7. CASE Compact
  BY <1>7, CompactHolds
<1>8. CASE \/ \E i \in DOMAIN mem.parked, allowed \in BOOLEAN : ResolveParked(i, allowed)
         \/ \E i \in DOMAIN mem.parked : ResolveLive(i)
  BY <1>8, ResolveParkedHolds, ResolveLiveHolds
<1>9. CASE Interrupt
  BY <1>9, InterruptHolds
<1>10. CASE ClearHistory
  BY <1>10, ClearHistoryHolds
<1> QED BY <1>1, <1>2, <1>3, <1>4, <1>5, <1>6, <1>7, <1>8, <1>9, <1>10 DEF LiveStep, People

\* Whatever is spent is spent from the budget of an act.
LEMMA BudgetFalls ==
  ASSUME budget \in [Acts -> Nat], configured \in BOOLEAN, Next
  PROVE  /\ budget' \in [Acts -> Nat] /\ configured' \in BOOLEAN
         /\ ~ClearHistory => budget'["clears"] = budget["clears"] \/ budget' = budget
<1>1. ASSUME NEW act \in Acts, Spend(act)
      PROVE  budget' \in [Acts -> Nat] /\ (act # "clears" => budget'["clears"] = budget["clears"])
  <2>1. budget[act] \in Nat /\ budget[act] > 0 /\ budget' = [budget EXCEPT ![act] = budget[act] - 1]
    BY <1>1 DEF Spend
  <2>2. budget[act] - 1 \in Nat
    BY <2>1
  <2>3. "clears" \in Acts
    BY DEF Acts
  <2> QED BY <2>1, <2>2, <2>3
<1>2. CASE budget' = budget /\ configured' = configured
  BY <1>2
<1>3. CASE (\E act \in Acts : Spend(act)) /\ configured' \in BOOLEAN /\ (~ClearHistory => \E act \in Acts \ {"clears"} : Spend(act))
  BY <1>1, <1>3
<1>4. {"typed", "queued", "cancels", "mails", "checks", "parks", "helps", "stops", "compacts",
       "lives", "idles", "faults", "toggles", "restarts"} \subseteq Acts \ {"clears"} /\ "clears" \in Acts
  BY DEF Acts
<1>5. CASE TurnStep
  <2>1. CASE PromptWritten \/ Deliver \/ Delivered \/ Erase
    BY <2>1, <1>2, Zenon DEF PromptWritten, Deliver, Delivered, Erase
  <2>2. CASE ModelAnswers \/ ModelFails \/ ModelCutOff \/ \E k \in 1..MaxCalls : ModelAsks(k)
    BY <2>2, <1>2, Zenon DEF ModelAnswers, ModelFails, ModelCutOff, ModelAsks
  <2>3. CASE RefuseCall \/ StartCall \/ CallDone
    BY <2>3, <1>2, Zenon DEF RefuseCall, StartCall, CallDone
  <2>4. CASE ParkForHelp \/ BrowserFails \/ BatchOver \/ RunApproved \/ AnswerDone \/ CompactDone
    BY <2>4, <1>2, Zenon DEF ParkForHelp, BrowserFails, BatchOver, RunApproved, AnswerDone, CompactDone
  <2>5. CASE CheckBackIn \/ ParkForApproval \/ OpenBrowser
    <3>1. configured' = configured /\ (Spend("checks") \/ Spend("parks") \/ Spend("helps"))
      BY <2>5, Zenon DEF CheckBackIn, ParkForApproval, OpenBrowser
    <3> QED BY <3>1, <1>3, <1>4
  <2> QED BY <1>5, <2>1, <2>2, <2>3, <2>4, <2>5 DEF TurnStep
<1>6. CASE People
  <2>1. \/ budget' = budget /\ configured' = configured
        \/ configured' = configured /\ ClearHistory /\ Spend("clears")
        \/ /\ configured' = configured
           /\ Spend("typed") \/ Spend("queued") \/ Spend("cancels") \/ Spend("idles")
              \/ Spend("compacts") \/ Spend("stops") \/ Spend("lives")
    BY <1>6, Zenon DEF People, SendMessage, QueuePrompt, CancelQueuedPrompt, WhenIdle, Compact, ResolveParked,
       ResolveLive, Interrupt, ClearHistory, LiveSetup, LiveAccept, LiveLapses, EndLive
  <2> QED BY <2>1, <1>2, <1>3, <1>4
<1>7. CASE LiveStep \/ DismissalAnswered \/ DismissalOver \/ AlarmFires \/ RetryFires \/ ExpiryFires
  <2>1. budget' = budget /\ configured' = configured
    BY <1>7, Zenon DEF LiveStep, LiveReady, LiveDone, LiveAnswered, DismissalAnswered, DismissalOver,
       AlarmFires, RetryFires, ExpiryFires
  <2> QED BY <2>1, <1>2
<1>8. CASE TurnThrows \/ EnqueueMailbox \/ Configure \/ Restart
  <2>1. /\ configured' = configured \/ configured' = ~configured
        /\ Spend("faults") \/ Spend("mails") \/ Spend("toggles") \/ Spend("restarts")
    BY <1>8, Zenon DEF TurnThrows, EnqueueMailbox, Configure, Restart
  <2> QED BY <2>1, <1>3, <1>4
<1> QED BY <1>5, <1>6, <1>7, <1>8 DEF Next

\* Every step of the specification.
LEMMA NextHolds ==
  ASSUME ChatInvariant, [Next]_vars
  PROVE  ChatInvariant'
<1>1. CASE UNCHANGED vars
  BY <1>1 DEF vars, ChatInvariant, Holds, OneDriver, Settled, Driven, Batches, Sound, Snapshot,
     Writes, Paired, Pending, Conserved, OneAlarm
<1>2. CASE Next
  <2>12. Holds(rows', mem', log')
    <3>1. CASE TurnStep
      BY <3>1, TurnStepHolds
    <3>2. CASE LiveStep \/ People
      BY <3>2, PeopleHold
    <3>3. CASE DismissalAnswered
      BY <3>3, DismissalAnsweredHolds
    <3>4. CASE DismissalOver
      BY <3>4, DismissalOverHolds
    <3>5. CASE TurnThrows
      BY <3>5, TurnThrowsHolds
    <3>6. CASE EnqueueMailbox
      BY <3>6, EnqueueMailboxHolds
    <3>7. CASE AlarmFires
      BY <3>7, AlarmFiresHolds
    <3>8. CASE RetryFires
      BY <3>8, RetryFiresHolds
    <3>9. CASE ExpiryFires
      BY <3>9, LiveDrainsHold
    <3>10. CASE Configure
      <4>1. rows' = rows /\ mem' = mem /\ log' = log
        BY <3>10 DEF Configure
      <4> QED BY <4>1, Now
    <3>11. CASE Restart
      BY <3>11, RestartHolds
    <3> QED
      BY <1>2, <3>1, <3>2, <3>3, <3>4, <3>5, <3>6, <3>7, <3>8, <3>9, <3>10, <3>11 DEF Next
  <2>13. budget' \in [Acts -> Nat] /\ configured' \in BOOLEAN
    BY <1>2, BudgetFalls DEF ChatInvariant
  <2> QED BY <2>12, <2>13 DEF ChatInvariant
<1> QED BY <1>1, <1>2

\* It holds of an empty chat.
LEMMA InitHolds == Init => ChatInvariant
<1> SUFFICES ASSUME Init PROVE ChatInvariant
  OBVIOUS
<1>1. rows = <<>> /\ mem = Fresh /\ configured = TRUE /\ log = NoLog /\ budget \in Scenarios
  BY DEF Init
<1>2. budget \in [Acts -> Nat]
  BY <1>1, ScenariosType
<1>3. <<>> \in Seq(Nat) /\ DOMAIN <<>> = {} /\ Len(<<>>) = 0 /\ QueueCap \in Nat /\ 1..0 = {}
  BY SizesNat
<1>4. /\ log \in History /\ log.sent = 0 /\ log.said = <<>> /\ log.withdrawn = {}
      /\ log.mailed = 0 /\ log.told = <<>> /\ log.dropped = {} /\ log.torn = {}
      /\ ~log.split /\ ~log.crossed
  BY <1>1, <1>3 DEF NoLog, History
<1>5. Sound(rows, mem, log)
  BY <1>1, <1>3, <1>4, RangeOfNone DEF Sound, Increasing
<1>6. Snapshot(rows, mem, log)
  BY <1>1, FreshIs DEF Snapshot
<1>7. Paired(mem, log)
  BY <1>4 DEF Paired
<1>8. Conserved(mem, log)
  <2>1. Range(mem.mailbox) = {} /\ Range(mem.held) = {} /\ Once(mem.mailbox) /\ Once(mem.held)
    BY <1>1, FreshIs, RangeOfNone DEF Once, Twice
  <2>2. Range(log.told) = {} /\ Twice(log.told, log.torn)
    BY <1>4, RangeOfNone DEF Twice
  <2> QED BY <1>3, <1>4, <2>1, <2>2 DEF Conserved
<1>9. OneAlarm(mem, log)
  BY <1>1, FreshIs, RangeOfNone DEF OneAlarm
<1> QED BY <1>1, <1>2, <1>3, <1>4, <1>5, <1>6, <1>7, <1>8, <1>9, FreshIs DEF ChatInvariant, Holds

\* The invariant that carries the others: one driver, the queue and the
\* transcript in the order sent, results behind their calls, mail kept, one
\* check_back_in, in one chat of planner/chats.ts under any of its interleavings.
THEOREM ChatInvariantHolds == Spec => []ChatInvariant
<1>1. Init => ChatInvariant
  BY InitHolds
<1>2. ChatInvariant /\ [Next]_vars => ChatInvariant'
  BY NextHolds
<1> QED BY <1>1, <1>2, PTL DEF Spec

\* Types of the chat's state.
THEOREM ChatTypes == Spec => []TypeOK
<1>1. ChatInvariant => TypeOK
  <2> SUFFICES ASSUME ChatInvariant PROVE TypeOK
    OBVIOUS
  <2>1. /\ mem \in Memory /\ mem.turn \in Turns /\ rows \in Seq(Nat) /\ log \in History
        /\ Settled(mem)
    BY Now
  <2>2. Sound(rows, mem, log)
    BY DEF ChatInvariant, Holds
  <2>3. rows \in Seq(1..log.sent)
    <3>1. Range(rows) \subseteq 1..log.sent
      BY <2>2 DEF Sound
    <3>2. \A i \in 1..Len(rows) : rows[i] \in 1..log.sent
      BY <3>1, <2>1 DEF Range
    <3>3. rows \in [1..Len(rows) -> 1..log.sent] /\ Len(rows) \in Nat
      BY <3>2, <2>1
    <3> QED BY <3>3, SeqDef
  <2>4. Len(rows) <= QueueCap
    BY <2>2 DEF Sound
  <2>5. configured \in BOOLEAN /\ budget \in [Acts -> Nat]
    BY DEF ChatInvariant
  <2>6. mem.draining => mem.turn.origin = "queue"
    BY <2>1 DEF Settled
  <2>7. /\ mem.turn.stage \in Stages /\ mem.turn.origin \in Origins
        /\ mem.turn.calls \in 0..MaxCalls /\ mem.turn.round \in 0..MaxRounds
    BY <2>1 DEF Turns
  <2>8. /\ mem.controller \in {"none", "turn", "live"} /\ mem.parked \in Seq(Parks)
        /\ mem.dismiss \in {"none", "result", "live", "complete"}
        /\ mem.attempts \in 0..MaxRetries + 1 /\ mem.chain \in Seq({"tools", "record"})
    BY <2>1 DEF Memory
  <2> QED BY <2>3, <2>4, <2>5, <2>6, <2>7, <2>8 DEF TypeOK, Stages, Origins
<1> QED BY <1>1, ChatInvariantHolds, PTL

\* Every message accepted is queued, written or withdrawn, in the order sent and
\* once but for a crash between the append and the deletion of its row; and no
\* user prompt comes between a call and its result but in the races named.
THEOREM TranscriptHolds == Spec => []TranscriptSound
<1>1. ChatInvariant => TranscriptSound
  <2> SUFFICES ASSUME ChatInvariant PROVE MessagesKept /\ PairsKept
    BY DEF TranscriptSound
  <2>1. /\ rows \in Seq(Nat) /\ log.said \in Seq(Nat) /\ Sound(rows, mem, log)
        /\ Paired(mem, log)
    BY Now DEF Holds, History
  <2>2. PairsKept
    BY <2>1 DEF Paired, PairsKept
  <2>3. Writing = Writes(mem)
    BY DEF Writing, Writes
  <2> DEFINE all == log.said \o rows
  <2>4. /\ DOMAIN all = 1..Len(log.said) + Len(rows)
        /\ \A i \in 1..Len(log.said) + Len(rows) :
             /\ i <= Len(log.said) => all[i] = log.said[i]
             /\ ~(i <= Len(log.said)) => all[i] = rows[i - Len(log.said)]
        /\ DOMAIN log.said = 1..Len(log.said) /\ DOMAIN rows = 1..Len(rows)
        /\ Len(log.said) \in Nat /\ Len(rows) \in Nat
    BY <2>1
  <2> HIDE DEF all
  <2>5. ASSUME NEW i \in DOMAIN all, NEW j \in DOMAIN all, i < j
        PROVE  all[i] < all[j] \/ (all[i] = all[j] /\ all[i] \in log.between \cup Writing)
    <3>1. CASE j <= Len(log.said)
      <4>1. i \in DOMAIN log.said /\ j \in DOMAIN log.said /\ all[i] = log.said[i] /\ all[j] = log.said[j]
        BY <3>1, <2>4, <2>5
      <4> QED BY <4>1, <2>1, <2>5 DEF Sound
    <3>2. CASE ~(j <= Len(log.said)) /\ i <= Len(log.said)
      <4>1. /\ i \in DOMAIN log.said /\ j - Len(log.said) \in DOMAIN rows
            /\ all[i] = log.said[i] /\ all[j] = rows[j - Len(log.said)]
        BY <3>2, <2>4, <2>5
      <4>2. all[i] \in Range(log.said) /\ all[j] \in Range(rows)
        BY <4>1 DEF Range
      <4>3. all[i] < all[j] \/ (all[i] = all[j] /\ all[j] \in log.between \cup Writes(mem))
        BY <4>2, <2>1 DEF Sound
      <4> QED BY <4>3, <2>3
    <3>3. CASE ~(j <= Len(log.said)) /\ ~(i <= Len(log.said))
      <4>1. /\ i - Len(log.said) \in DOMAIN rows /\ j - Len(log.said) \in DOMAIN rows
            /\ i - Len(log.said) < j - Len(log.said)
            /\ all[i] = rows[i - Len(log.said)] /\ all[j] = rows[j - Len(log.said)]
        BY <3>3, <2>4, <2>5, SMTT(40)
      <4>2. ASSUME NEW a \in DOMAIN rows, NEW b \in DOMAIN rows, a < b
            PROVE  rows[a] < rows[b]
        BY <4>2, <2>1 DEF Sound, Increasing
      <4> QED BY <4>1, <4>2
    <3>4. i <= Len(log.said) => i \in DOMAIN log.said
      BY <2>4, <2>5
    <3>5. i \in Int /\ j \in Int
      BY <2>4
    <3> QED BY <3>1, <3>2, <3>3
  <2>6. MessagesKept
    <3>1. /\ 1..log.sent = Range(log.said) \cup Range(rows) \cup log.withdrawn
          /\ log.withdrawn \cap Range(log.said) \subseteq log.between
          /\ log.withdrawn \cap Range(rows) = {}
      BY <2>1 DEF Sound
    <3>2. \A i, j \in DOMAIN (log.said \o rows) :
            i < j => (log.said \o rows)[i] < (log.said \o rows)[j]
                     \/ ((log.said \o rows)[i] = (log.said \o rows)[j]
                         /\ (log.said \o rows)[i] \in log.between \cup Writing)
      BY <2>5, Zenon DEF all
    <3> QED BY <3>1, <3>2 DEF MessagesKept
  <2> QED BY <2>2, <2>6
<1> QED BY <1>1, ChatInvariantHolds, PTL

\* No mail is lost while the server is up, it is told once unless its wake
\* threw, and one check_back_in is outstanding.
THEOREM MailboxHolds == Spec => []MailboxSound
<1>1. ChatInvariant => MailboxSound
  <2> SUFFICES ASSUME ChatInvariant PROVE MailConserved /\ OneCheckBack
    BY DEF MailboxSound
  <2>1. Conserved(mem, log) /\ OneAlarm(mem, log) /\ mem \in Memory /\ mem.mailbox \in Seq(Nat)
        /\ mem.alarm \in BOOLEAN
    BY Now DEF Holds, Memory
  <2>2. MailConserved
    BY <2>1 DEF Conserved, Twice, MailConserved
  <2>3. OneCheckBack
    <3> DEFINE at == {i \in DOMAIN mem.mailbox : mem.mailbox[i] \in {Timer}}
    <3>1. Len(Those(mem.mailbox, {Timer})) = Cardinality(at)
      <4>1. ASSUME NEW S
            PROVE  Len(Those(mem.mailbox, S)) = Cardinality({i \in DOMAIN mem.mailbox : mem.mailbox[i] \in S})
        BY <2>1, ThoseKeep
      <4> QED BY <4>1
    <3> SUFFICES ASSUME log.torn = {}
                 PROVE  Cardinality(at) + (IF mem.alarm THEN 1 ELSE 0) <= 1
      BY <3>1 DEF OneCheckBack
    <3>2. \A i, j \in at : i = j
      BY <2>1 DEF OneAlarm
    <3>3. mem.alarm => at = {}
      BY <2>1 DEF OneAlarm, Range
    <3> HIDE DEF at
    <3>4. CASE at = {}
      <4>1. Cardinality(at) = 0
        BY <3>4, FS_EmptySet
      <4> QED BY <4>1
    <3>5. CASE at # {}
      <4>1. PICK i : i \in at
        BY <3>5
      <4>2. at = {i}
        BY <4>1, <3>2
      <4>3. Cardinality(at) = 1
        BY <4>2, FS_Singleton
      <4> QED BY <4>3, <3>3, <3>5
    <3> QED BY <3>4, <3>5
  <2> QED BY <2>2, <2>3
<1> QED BY <1>1, ChatInvariantHolds, PTL

-----------------------------------------------------------------------------
(* What a step may never do.                                                *)

\* The three action properties, of one step.
Woken ==
    Stuck(rows', mem') => Stuck(rows, mem) \/ budget'["clears"] < budget["clears"] \/ log'.left
Stopped ==
    T.aborted =>
      /\ mem'.turn.stage \in {"model", "running", "opening", "deciding", "answer"} =>
           \/ mem'.turn.stage = T.stage
           \/ ~mem'.turn.aborted
           \/ T.stage = "deciding" /\ mem'.turn.stage = "running"
      /\ Len(mem'.parked) > Len(mem.parked) => T.stage = "opening" \/ mem'.chain # mem.chain
Single == TwoModels(mem') => TwoModels(mem) \/ Len(mem.chain) > 1
Orderly == Woken /\ Stopped /\ Single

\* What waits in an idle chat, and is not being dismissed, is stuck.
LEMMA StuckIs ==
  ASSUME NEW q, NEW m
  PROVE  Stuck(q, m) <=> Waiting(q, m) /\ m.dismiss = "none"
  BY Zenon DEF Stuck, Waiting

\* The planner's model has the chat while it drives it or a batch is parked.
LEMMA TwoModelsIs ==
  ASSUME NEW m
  PROVE  TwoModels(m) <=> (Driven(m) \/ Batches(m) # {}) /\ LiveTools(m)
  BY DEF TwoModels, PlannerBusy, Batches

\* The turn after draining is the one before, or one that has just begun.
LEMMA DrainedTurn ==
  ASSUME NEW q \in Seq(Nat), NEW m, NEW n, Drained(q, m, n)
  PROVE  \/ n.turn = m.turn
         \/ ~Busy(m) /\ n.turn.stage \in {"deliver", "prompt"} /\ ~n.turn.aborted
<1>1. "queue" \in Origins /\ "wake" \in Origins /\ "deliver" \in Stages /\ "prompt" \in Stages
  BY DEF Origins, Stages
<1>2. <<>> \in Seq(Nat)
  OBVIOUS
<1>3. /\ Begun("queue", "deliver", q).stage = "deliver"
      /\ ~Begun("queue", "deliver", q).aborted
  BY <1>1, BegunIs
<1>4. ASSUME NEW e \in Seq(Nat)
      PROVE  /\ Begun("wake", "prompt", e).stage = "prompt"
             /\ ~Begun("wake", "prompt", e).aborted
  BY <1>1, BegunIs
<1>5. /\ Begun("wake", "prompt", <<>>).stage = "prompt"
      /\ ~Begun("wake", "prompt", <<>>).aborted
  BY <1>2, <1>4
<1>6. CASE NoneBegun(m, n)
  BY <1>6 DEF NoneBegun
<1>7. CASE QueueBegun(q, m, n)
  BY <1>3, <1>7, Zenon DEF QueueBegun
<1>8. CASE WakeBegun(m, n)
  BY <1>5, <1>8, Zenon DEF WakeBegun
<1> QED BY <1>6, <1>7, <1>8 DEF Drained

\* A turn that goes on.
LEMMA GoesOn ==
  ASSUME ChatInvariant, Driven(mem), Driven(mem'), mem'.chain = mem.chain,
         mem'.parked = mem.parked,
         T.aborted /\ mem'.turn.stage \in {"model", "running", "opening", "deciding", "answer"} =>
           mem'.turn.stage = T.stage \/ (T.stage = "deciding" /\ mem'.turn.stage = "running")
  PROVE  Orderly
<1>1. ~Waiting(rows', mem')
  BY DEF Waiting, Busy
<1>2. Woken
  BY <1>1, StuckIs DEF Woken
<1>3. Len(mem.parked) \in Nat
  BY Now
<1>4. Stopped
  BY <1>3 DEF Stopped
<1>5. LiveTools(mem') => LiveTools(mem)
  BY DEF LiveTools
<1>6. Single
  BY <1>5, TwoModelsIs DEF Single
<1> QED BY <1>2, <1>4, <1>6 DEF Orderly

\* A turn that is over, its chat drained.
LEMMA GoesOff ==
  ASSUME ChatInvariant, Driven(mem), mem'.chain = mem.chain, ~Waiting(rows', mem'),
         mem'.turn.stage \in {"none", "deliver", "prompt"},
         Len(mem'.parked) > Len(mem.parked) => T.stage = "opening" \/ ~T.aborted
  PROVE  Orderly
<1>1. Woken
  BY StuckIs DEF Woken
<1>2. Stopped
  BY DEF Stopped
<1>3. LiveTools(mem') => LiveTools(mem)
  BY DEF LiveTools
<1>4. Single
  BY <1>3, TwoModelsIs DEF Single
<1> QED BY <1>1, <1>2, <1>4 DEF Orderly

\* The generator ends, having parked a batch or not.
LEMMA EndedOrderly ==
  ASSUME ChatInvariant, Driven(mem), NEW m \in Memory, Settled(m), m.chain = mem.chain,
         mem' = Ended(rows, m), rows' = rows,
         Len(m.parked) > Len(mem.parked) => T.stage = "opening" \/ ~T.aborted
  PROVE  Orderly
<1>1. rows \in Seq(Nat) /\ configured \in BOOLEAN
  BY Now
<1>2. Drained(rows, Over(m), mem') /\ ~Waiting(rows, mem')
  BY <1>1, EndedDoes
<1>3. Kept(m, Over(m)) /\ Over(m).turn.stage = "none"
  BY OverIs, NoTurnIs
<1>4. mem'.chain = mem.chain /\ mem'.parked = m.parked
  BY <1>2, <1>3 DEF Drained, Kept
<1>5. mem'.turn.stage \in {"none", "deliver", "prompt"}
  BY <1>1, <1>2, <1>3, DrainedTurn
<1> QED BY <1>2, <1>4, <1>5, GoesOff

\* It throws.
LEMMA ThrewOrderly ==
  ASSUME ChatInvariant, TurnThrows
  PROVE  Orderly
<1>1. /\ rows \in Seq(Nat) /\ configured \in BOOLEAN /\ mem \in Memory /\ Settled(mem)
      /\ mem.parked \in Seq(Parks)
  BY Now
<1>2. Driven(mem) /\ mem' = Threw(rows, mem) /\ rows' = rows
  BY DEF TurnThrows, T, Driven
<1>3. Kept(mem, Over(mem)) /\ Over(mem).turn.stage = "none"
  BY <1>1, OverIs, NoTurnIs
<1>4. ~Waiting(rows', mem')
  BY <1>1, <1>2, ThrewDoes
<1>5. \E d \in Memory : Drained(rows, Over(mem), d) /\ Kept(d, mem') /\ mem'.turn = d.turn
  <2>1. CASE mem.turn.origin = "wake"
    BY <2>1, <1>1, <1>2, ThrewDoes, Zenon
  <2>2. CASE mem.turn.origin # "wake"
    <3>1. Drained(rows, Over(mem), mem')
      BY <2>2, <1>1, <1>2, ThrewDoes
    <3>2. mem' \in Memory /\ Kept(mem', mem')
      BY <3>1 DEF Drained, Kept
    <3> QED BY <3>1, <3>2
  <2> QED BY <2>1, <2>2
<1>6. PICK d \in Memory : Drained(rows, Over(mem), d) /\ Kept(d, mem') /\ mem'.turn = d.turn
  BY <1>5
<1>7. mem'.chain = mem.chain /\ mem'.parked = mem.parked
  BY <1>3, <1>6 DEF Drained, Kept
<1>8. mem'.turn.stage \in {"none", "deliver", "prompt"}
  BY <1>1, <1>3, <1>6, DrainedTurn
<1>9. ~(Len(mem'.parked) > Len(mem.parked))
  BY <1>1, <1>7
<1> QED BY <1>2, <1>4, <1>7, <1>8, <1>9, GoesOff

\* The steps of a turn.
LEMMA TurnOrderly ==
  ASSUME ChatInvariant, TurnStep
  PROVE  Orderly
<1>1. /\ rows \in Seq(Nat) /\ mem \in Memory /\ Settled(mem) /\ mem.parked \in Seq(Parks)
      /\ mem.turn \in Turns /\ OneDriver(mem) /\ Len(mem.parked) \in Nat
  BY Now
<1>2. ASSUME mem' = Ended(rows, mem), rows' = rows, Driven(mem)
      PROVE  Orderly
  BY <1>1, <1>2, EndedOrderly
<1>3. CASE ModelAnswers \/ CompactDone
  BY <1>2, <1>3 DEF ModelAnswers, CompactDone, T, Driven
<1>4. CASE PromptWritten \/ Delivered
  <2>1. CASE mem' = Ended(rows, mem)
    BY <1>2, <1>4, <2>1 DEF PromptWritten, Delivered, T, Driven
  <2>2. CASE mem' = [mem EXCEPT !.turn.stage = "model"] /\ ~mem.turn.aborted
    <3>1. /\ mem'.turn.stage = "model" /\ mem'.chain = mem.chain /\ mem'.parked = mem.parked
          /\ Driven(mem)
      BY <1>1, <1>4, <2>2 DEF PromptWritten, Delivered, T, Driven, Memory, Turns
    <3> QED BY <3>1, <2>2, GoesOn DEF Driven, T
  <2>3. \/ mem' = Ended(rows, mem)
        \/ mem' = [mem EXCEPT !.turn.stage = "model"] /\ ~mem.turn.aborted
    <3>1. Drive(rows, mem) = IF mem.turn.aborted THEN Ended(rows, mem) ELSE [mem EXCEPT !.turn.stage = "model"]
      BY DEF Drive
    <3>2. mem' = Drive(rows, mem) \/ mem' = Ended(rows, mem)
      BY <1>4 DEF PromptWritten, Delivered
    <3> QED BY <3>1, <3>2, Zenon
  <2> QED BY <2>1, <2>2, <2>3
<1>5. CASE BatchOver
  <2>1. mem.turn.stage = "tools" /\ rows' = rows /\ Driven(mem)
    BY <1>5 DEF BatchOver, T, Driven
  <2>2. CASE mem' = Ended(rows, mem)
    BY <1>2, <2>1, <2>2
  <2>3. CASE mem' = [mem EXCEPT !.turn.stage = "deliver", !.turn.snapshot = rows]
    <3>1. mem'.turn.stage = "deliver" /\ mem'.chain = mem.chain /\ mem'.parked = mem.parked
      BY <1>1, <2>3 DEF Memory, Turns
    <3> QED BY <3>1, <2>1, GoesOn DEF Driven
  <2> QED BY <1>5, <2>2, <2>3 DEF BatchOver
<1>6. ASSUME Driven(mem), NEW t, t.stage # "none", mem' = [mem EXCEPT !.turn = t],
             T.aborted /\ t.stage \in {"model", "running", "opening", "deciding", "answer"} =>
               t.stage = T.stage \/ (T.stage = "deciding" /\ t.stage = "running")
      PROVE  Orderly
  <2>1. mem'.turn = t /\ mem'.chain = mem.chain /\ mem'.parked = mem.parked
    BY <1>1, <1>6 DEF Memory
  <2> QED BY <1>6, <2>1, GoesOn DEF Driven
<1>7. CASE Deliver \/ Erase
  <2>1. Driven(mem)
    BY <1>7 DEF Deliver, Erase, T, Driven
  <2>2. CASE Deliver
    <3>1. mem' = [mem EXCEPT !.turn = [mem.turn EXCEPT !.stage = "erase", !.snapshot = StillQueued]]
      BY <1>1, <2>2 DEF Deliver, Memory, Turns
    <3>2. [mem.turn EXCEPT !.stage = "erase", !.snapshot = StillQueued].stage = "erase"
      BY <1>1 DEF Turns
    <3> QED BY <2>1, <3>1, <3>2, <1>6
  <2>3. CASE Erase
    <3>1. mem' = [mem EXCEPT !.turn = [mem.turn EXCEPT !.stage = "deliver", !.got = TRUE,
                                                       !.snapshot = Tail(mem.turn.snapshot)]]
      BY <1>1, <2>3 DEF Erase, Memory, Turns
    <3>2. [mem.turn EXCEPT !.stage = "deliver", !.got = TRUE,
                           !.snapshot = Tail(mem.turn.snapshot)].stage = "deliver"
      BY <1>1 DEF Turns
    <3> QED BY <2>1, <3>1, <3>2, <1>6
  <2> QED BY <1>7, <2>2, <2>3
<1>8. CASE ModelCutOff \/ \E k \in 1..MaxCalls : ModelAsks(k)
  <2>1. Driven(mem)
    BY <1>8 DEF ModelCutOff, ModelAsks, T, Driven
  <2>2. CASE ModelCutOff
    <3>1. mem' = [mem EXCEPT !.turn = [mem.turn EXCEPT !.stage = "deliver", !.snapshot = rows,
                                            !.round = mem.turn.round + 1, !.got = TRUE]]
      BY <1>1, <2>2 DEF ModelCutOff, Memory, Turns
    <3>2. [mem.turn EXCEPT !.stage = "deliver", !.snapshot = rows,
                           !.round = mem.turn.round + 1, !.got = TRUE].stage = "deliver"
      BY <1>1 DEF Turns
    <3> QED BY <2>1, <3>1, <3>2, <1>6
  <2>3. CASE \E k \in 1..MaxCalls : ModelAsks(k)
    <3>1. PICK k \in 1..MaxCalls : ModelAsks(k)
      BY <2>3
    <3>2. mem' = [mem EXCEPT !.turn = [mem.turn EXCEPT !.stage = "tools", !.calls = k,
                                            !.round = mem.turn.round + 1, !.got = TRUE]]
      BY <1>1, <3>1 DEF ModelAsks, Memory, Turns
    <3>3. [mem.turn EXCEPT !.stage = "tools", !.calls = k,
                           !.round = mem.turn.round + 1, !.got = TRUE].stage = "tools"
      BY <1>1 DEF Turns
    <3> QED BY <2>1, <3>2, <3>3, <1>6
  <2> QED BY <1>8, <2>2, <2>3
<1>9. CASE \/ RefuseCall \/ CallDone \/ BrowserFails \/ AnswerDone
         \/ StartCall \/ OpenBrowser \/ RunApproved
  <2>1. Driven(mem) /\ (StartCall \/ OpenBrowser => ~T.aborted)
    BY <1>9 DEF RefuseCall, CallDone, BrowserFails, AnswerDone, StartCall, OpenBrowser, RunApproved,
                AtCall, T, Driven
  <2>2. ASSUME NEW c, NEW s, mem' = [mem EXCEPT !.turn = [mem.turn EXCEPT !.stage = s, !.calls = c]],
               \/ s = "tools"
               \/ s \in {"running", "opening"} /\ ~T.aborted
               \/ T.stage = "deciding" /\ s = "running"
        PROVE  Orderly
    <3>1. [mem.turn EXCEPT !.stage = s, !.calls = c].stage = s
      BY <1>1 DEF Turns
    <3> QED BY <2>1, <2>2, <3>1, <1>6
  <2>3. CASE RefuseCall
    <3>1. mem' = [mem EXCEPT !.turn = [mem.turn EXCEPT !.stage = "tools", !.calls = mem.turn.calls - 1]]
      BY <1>1, <2>3 DEF RefuseCall, AtCall, T, Memory, Turns
    <3> QED BY <3>1, <2>2
  <2>4. CASE CallDone \/ BrowserFails \/ AnswerDone
    <3>1. mem' = [mem EXCEPT !.turn = [mem.turn EXCEPT !.stage = "tools", !.calls = mem.turn.calls - 1]]
      BY <1>1, <2>4 DEF CallDone, BrowserFails, AnswerDone, Memory, Turns
    <3> QED BY <3>1, <2>2
  <2>5. CASE StartCall
    <3>1. PICK group \in {1, mem.turn.calls} :
            mem' = [mem EXCEPT !.turn.stage = "running", !.turn.calls = @ - group + 1]
      BY <2>5 DEF StartCall, T
    <3>2. mem' = [mem EXCEPT !.turn = [mem.turn EXCEPT !.stage = "running",
                                            !.calls = mem.turn.calls - group + 1]]
      BY <1>1, <3>1 DEF Memory, Turns
    <3> QED BY <2>1, <2>5, <3>2, <2>2
  <2>6. CASE OpenBrowser
    <3>1. mem' = [mem EXCEPT !.turn = [mem.turn EXCEPT !.stage = "opening", !.calls = mem.turn.calls]]
      BY <1>1, <2>6 DEF OpenBrowser, Memory, Turns
    <3> QED BY <2>1, <2>6, <3>1, <2>2
  <2>7. CASE RunApproved
    <3>1. /\ T.stage = "deciding"
          /\ mem' = [mem EXCEPT !.turn = [mem.turn EXCEPT !.stage = "running", !.calls = mem.turn.calls]]
      BY <1>1, <2>7 DEF RunApproved, T, Memory, Turns
    <3> QED BY <3>1, <2>2
  <2> QED BY <1>9, <2>3, <2>4, <2>5, <2>6, <2>7
<1>10. CASE CheckBackIn
  <2> DEFINE c == TimersCleared(mem)
  <2>1. mem.turn.stage = "tools" /\ Driven(mem)
    BY <1>10 DEF CheckBackIn, AtCall, T, Driven
  <2>2. c \in Memory /\ c.turn = mem.turn /\ c.chain = mem.chain /\ c.parked = mem.parked
    BY <1>1, TimersClearedIs
  <2>3. mem' = [c EXCEPT !.alarm = TRUE, !.turn.last = TRUE, !.turn.calls = @ - 1]
    BY <1>10 DEF CheckBackIn
  <2> HIDE DEF c
  <2>4. mem'.turn.stage = "tools" /\ mem'.chain = mem.chain /\ mem'.parked = mem.parked
    BY <2>1, <2>2, <2>3 DEF Memory, Turns
  <2> QED BY <2>1, <2>4, GoesOn DEF Driven
<1>11. CASE ModelFails
  <2> DEFINE c == TimersCleared(mem)
  <2>1. mem.turn.stage = "model" /\ Driven(mem) /\ mem' = Ended(rows, c) /\ rows' = rows
    BY <1>11 DEF ModelFails, T, Driven
  <2>2. /\ c \in Memory /\ c.turn = mem.turn /\ c.chain = mem.chain /\ c.parked = mem.parked
        /\ c.held = mem.held /\ c.draining = mem.draining
    BY <1>1, TimersClearedIs
  <2> HIDE DEF c
  <2>3. Settled(c)
    BY <1>1, <2>2 DEF Settled, Driven
  <2> QED BY <1>1, <2>1, <2>2, <2>3, EndedOrderly
<1>12. CASE ParkForApproval \/ ParkForHelp
  <2>1. PICK kind \in {"loop", "help"} :
          mem' = Ended(rows, [mem EXCEPT !.parked = Append(@, Parking(kind))])
    BY <1>12 DEF ParkForApproval, ParkForHelp
  <2> DEFINE p == Parking(kind)
             n == [mem EXCEPT !.parked = Append(mem.parked, p)]
  <2>2. /\ mem.turn.stage \in {"tools", "opening"} /\ rows' = rows /\ Driven(mem)
        /\ mem.turn.stage = "tools" => ~T.aborted
    BY <1>12 DEF ParkForApproval, ParkForHelp, AtCall, T, Driven
  <2>3. p \in Parks
    BY <1>1 DEF Parking, Parks, Waits, T, Turns
  <2>4. mem' = Ended(rows, n)
    BY <2>1
  <2> HIDE DEF p
  <2>5. Append(mem.parked, p) \in Seq(Parks)
    BY <1>1, <2>3
  <2>6. /\ n \in Memory /\ n.turn = mem.turn /\ n.held = mem.held /\ n.draining = mem.draining
        /\ n.chain = mem.chain
    BY <1>1, <2>5 DEF Memory
  <2> HIDE DEF n
  <2>7. Settled(n)
    BY <1>1, <2>6 DEF Settled, Driven
  <2>8. T.stage = "opening" \/ ~T.aborted
    BY <2>2 DEF T
  <2> QED BY <2>2, <2>4, <2>6, <2>7, <2>8, EndedOrderly
<1> QED BY <1>3, <1>4, <1>5, <1>6, <1>7, <1>8, <1>9, <1>10, <1>11, <1>12 DEF TurnStep

\* A chat that is drained with its turn, its parked entries and its live line as
\* they were.
LEMMA DrainedOrderly ==
  ASSUME ChatInvariant, rows' \in Seq(Nat), NEW m \in Memory, Settled(m),
         m.turn.stage = mem.turn.stage, m.turn.aborted = mem.turn.aborted, m.parked = mem.parked, m.chain = mem.chain,
         mem' = DrainNext(rows', m)
  PROVE  Orderly
<1>1. configured \in BOOLEAN
  BY Now
<1>2. Drained(rows', m, mem') /\ ~Waiting(rows', mem')
  BY <1>1, DrainNextDoes
<1>3. mem'.parked = mem.parked /\ mem'.chain = mem.chain
  BY <1>2 DEF Drained, Kept
<1>4. \/ mem'.turn = m.turn
      \/ ~Busy(m) /\ mem'.turn.stage \in {"deliver", "prompt"} /\ ~mem'.turn.aborted
  BY <1>1, <1>2, DrainedTurn
<1>5. Woken
  BY <1>2, StuckIs DEF Woken
<1>6. Stopped
  <2>1. ~(Len(mem'.parked) > Len(mem.parked))
    <3>1. Len(mem.parked) \in Nat
      BY Now
    <3> QED BY <3>1, <1>3
  <2> QED BY <2>1, <1>4 DEF Stopped, T
<1>7. Single
  <2>1. LiveTools(mem') => LiveTools(mem) /\ LiveTools(m)
    BY <1>3 DEF LiveTools
  <2>2. LiveTools(m) => Busy(m)
    BY DEF Busy
  <2>3. Batches(mem') = Batches(mem)
    BY <1>3 DEF Batches
  <2>4. mem'.turn = m.turn => Driven(mem') = Driven(mem)
    BY DEF Driven
  <2> QED BY <1>4, <2>1, <2>2, <2>3, <2>4, TwoModelsIs DEF Single
<1> QED BY <1>5, <1>6, <1>7 DEF Orderly

\* A step that begins nothing and leaves nothing waiting that was not.
LEMMA IdleOrderly ==
  ASSUME ChatInvariant, mem'.turn.stage = mem.turn.stage, Len(mem'.parked) <= Len(mem.parked),
         LiveTools(mem') => LiveTools(mem), Batches(mem') # {} => Batches(mem) # {},
         Stuck(rows', mem') => Stuck(rows, mem)
  PROVE  Orderly
<1>1. mem'.parked \in Seq(Parks) => Len(mem'.parked) \in Nat
  OBVIOUS
<1>2. Woken
  BY DEF Woken
<1>3. Stopped
  <2>1. Holds(rows', mem', log') => mem'.parked \in Seq(Parks)
    BY DEF Holds, Memory
  <2> QED BY DEF Stopped, T
<1>4. Driven(mem') = Driven(mem)
  BY DEF Driven
<1>5. Single
  BY <1>4, TwoModelsIs DEF Single
<1> QED BY <1>2, <1>3, <1>5 DEF Orderly

\* Live mode's marks, its drains, and a retry of a wake.
LEMMA LiveOrderly ==
  ASSUME ChatInvariant,
         \/ WhenIdle \/ LiveSetup \/ LiveReady \/ LiveLapses \/ RetryFires \/ Configure
         \/ ExpiryFires \/ EndLive \/ LiveAnswered
         \/ \E work \in {"tools", "record"} : LiveAccept(work)
  PROVE  Orderly
<1>1. /\ mem \in Memory /\ OneDriver(mem) /\ Settled(mem) /\ rows \in Seq(Nat)
      /\ configured \in BOOLEAN /\ mem.chain \in Seq({"tools", "record"})
      /\ Len(mem.parked) \in Nat
  BY Now DEF Memory
<1>2. rows' = rows
  BY DEF WhenIdle, LiveSetup, LiveReady, LiveLapses, RetryFires, Configure, ExpiryFires,
     EndLive, LiveAnswered, LiveAccept
<1>3. ASSUME NEW n \in Memory, mem' = DrainNext(rows, n), n.turn = mem.turn, SameMail(mem, n),
             n.draining = mem.draining, n.parked = mem.parked, n.dismiss = mem.dismiss,
             n.liveOn => n.expiry, n.chain = mem.chain
      PROVE  Orderly
  <2>1. Holds(rows, n, log)
    BY <1>3, AlikeHolds
  <2>2. Settled(n)
    BY <2>1, HoldsSettled
  <2> QED BY <2>2, <1>1, <1>2, <1>3, DrainedOrderly
<1>4. CASE WhenIdle
  <2>1. mem' = [mem EXCEPT !.listener = TRUE] /\ Busy(mem)
    BY <1>4 DEF WhenIdle
  <2>2. /\ mem'.turn = mem.turn /\ mem'.parked = mem.parked /\ mem'.chain = mem.chain
        /\ mem'.answering = mem.answering
    BY <1>1, <2>1 DEF Memory
  <2>3. Busy(mem')
    BY <2>1, <2>2 DEF Busy, Driven, LiveTools
  <2>4. ~Stuck(rows', mem')
    BY <2>3 DEF Stuck
  <2> QED BY <1>1, <2>2, <2>4, IdleOrderly DEF LiveTools, Batches
<1>5. CASE LiveSetup
  <2>1. mem' = [mem EXCEPT !.setup = TRUE]
    BY <1>5 DEF LiveSetup
  <2>2. /\ mem'.turn = mem.turn /\ mem'.parked = mem.parked /\ mem'.chain = mem.chain
        /\ mem'.answering = mem.answering /\ mem'.liveOn = mem.liveOn
        /\ mem'.expiry = mem.expiry /\ mem'.dismiss = mem.dismiss /\ mem'.stalled = mem.stalled
        /\ mem'.listener = mem.listener /\ mem'.mailbox = mem.mailbox
        /\ mem'.retry = mem.retry /\ mem'.gaveUp = mem.gaveUp
    BY <1>1, <2>1 DEF Memory
  <2>3. Stuck(rows', mem') => Stuck(rows, mem)
    BY <2>2, <1>2 DEF Stuck, Busy, Driven, LiveTools, Deliverable
  <2> QED BY <1>1, <2>2, <2>3, IdleOrderly DEF LiveTools, Batches
<1>6. CASE LiveReady
  <2>1. mem' = [mem EXCEPT !.liveOn = TRUE, !.expiry = TRUE, !.setup = FALSE]
    BY <1>1, <1>6 DEF LiveReady, Touched, Memory
  <2>2. /\ mem'.turn = mem.turn /\ mem'.parked = mem.parked /\ mem'.chain = mem.chain
        /\ mem'.liveOn = TRUE
    BY <1>1, <2>1 DEF Memory
  <2>3. ~Stuck(rows', mem')
    BY <2>2 DEF Stuck
  <2> QED BY <1>1, <2>2, <2>3, IdleOrderly DEF LiveTools, Batches
<1>7. CASE LiveLapses
  <2>1. mem' = [mem EXCEPT !.liveOn = FALSE] /\ mem.liveOn
    BY <1>7 DEF LiveLapses
  <2>2. /\ mem'.turn = mem.turn /\ mem'.parked = mem.parked /\ mem'.chain = mem.chain
        /\ mem'.expiry = mem.expiry
    BY <1>1, <2>1 DEF Memory
  <2>3. ~Stuck(rows', mem')
    BY <1>1, <2>1, <2>2 DEF Stuck, OneDriver
  <2> QED BY <1>1, <2>2, <2>3, IdleOrderly DEF LiveTools, Batches
<1>8. CASE ExpiryFires \/ EndLive
  <2>1. mem' = DrainNext(rows, LiveOff)
    BY <1>8 DEF ExpiryFires, EndLive
  <2>2. /\ LiveOff \in Memory /\ LiveOff.turn = mem.turn /\ SameMail(mem, LiveOff)
        /\ LiveOff.draining = mem.draining /\ LiveOff.parked = mem.parked
        /\ LiveOff.dismiss = mem.dismiss /\ (LiveOff.liveOn => LiveOff.expiry)
        /\ LiveOff.chain = mem.chain
    BY <1>1 DEF Memory, SameMail, LiveOff
  <2> QED BY <2>1, <2>2, <1>3
<1>9. CASE LiveAnswered
  <2> DEFINE n == [mem EXCEPT !.answering = FALSE, !.controller = "none"]
  <2>1. mem' = DrainNext(rows, n)
    BY <1>9 DEF LiveAnswered
  <2>2. /\ n \in Memory /\ n.turn = mem.turn /\ SameMail(mem, n)
        /\ n.draining = mem.draining /\ n.parked = mem.parked
        /\ n.dismiss = mem.dismiss /\ (n.liveOn => n.expiry) /\ n.chain = mem.chain
    BY <1>1 DEF Memory, SameMail, OneDriver
  <2> HIDE DEF n
  <2> QED BY <2>1, <2>2, <1>3
<1>10. CASE RetryFires
  <2> DEFINE n == [mem EXCEPT !.retry = FALSE]
  <2>1. mem' = IF Busy(n) THEN n ELSE DrainMailbox(rows, n)
    BY <1>10 DEF RetryFires
  <2>2. /\ n \in Memory /\ n.turn = mem.turn /\ n.parked = mem.parked /\ n.chain = mem.chain
        /\ n.answering = mem.answering /\ n.liveOn = mem.liveOn /\ n.expiry = mem.expiry
        /\ n.dismiss = mem.dismiss /\ n.stalled = mem.stalled /\ n.listener = mem.listener
        /\ n.draining = mem.draining /\ n.held = mem.held
    BY <1>1 DEF Memory
  <2> HIDE DEF n
  <2>3. Busy(n) = Busy(mem) /\ Deliverable(rows, n) = Deliverable(rows, mem) /\ Settled(n)
    BY <1>1, <2>2 DEF Busy, Driven, LiveTools, Deliverable, Settled
  <2>4. CASE Busy(n)
    <3>1. mem' = n /\ ~Stuck(rows', mem')
      BY <2>1, <2>4 DEF Stuck
    <3> QED BY <1>1, <2>2, <3>1, IdleOrderly DEF LiveTools, Batches
  <2>5. CASE ~Busy(n)
    <3>1. mem' = DrainMailbox(rows, n)
      BY <2>1, <2>5
    <3>2. /\ Drained(rows, n, mem')
          /\ Waiting(rows, mem') =>
               ~Busy(n) /\ ~n.liveOn /\ ~n.expiry /\ (Deliverable(rows, n) \/ n.listener)
      BY <1>1, <2>2, <2>3, <3>1, DrainMailboxDoes
    <3>3. mem'.parked = mem.parked /\ mem'.chain = mem.chain /\ mem'.dismiss = mem.dismiss
      BY <2>2, <3>2 DEF Drained, Kept
    <3>4. \/ mem'.turn = mem.turn
          \/ mem'.turn.stage \in {"deliver", "prompt"} /\ ~mem'.turn.aborted
      BY <1>1, <2>2, <3>2, DrainedTurn
    <3>5. Woken
      <4>1. Stuck(rows', mem') => Stuck(rows, mem)
        BY <3>2, <3>3, <2>2, <2>3, <1>2, StuckIs DEF Stuck
      <4> QED BY <4>1 DEF Woken
    <3>6. Stopped
      BY <1>1, <3>3, <3>4 DEF Stopped, T
    <3>7. ~LiveTools(mem')
      BY <3>3, <2>5, <2>3 DEF LiveTools, Busy
    <3>8. Single
      BY <3>7, TwoModelsIs DEF Single
    <3> QED BY <3>5, <3>6, <3>8 DEF Orderly
  <2> QED BY <2>4, <2>5
<1>11. CASE Configure
  <2>1. mem' = mem
    BY <1>11 DEF Configure
  <2> QED BY <1>1, <1>2, <2>1, IdleOrderly
<1>12. CASE \E work \in {"tools", "record"} : LiveAccept(work)
  <2>1. PICK work \in {"tools", "record"} : LiveAccept(work)
    BY <1>12
  <2>2. mem' = [mem EXCEPT !.liveOn = TRUE, !.expiry = TRUE, !.chain = Append(mem.chain, work)]
    BY <1>1, <2>1 DEF LiveAccept, Touched, Memory
  <2>3. /\ mem'.turn = mem.turn /\ mem'.parked = mem.parked /\ mem'.liveOn = TRUE
    BY <1>1, <2>2 DEF Memory
  <2>4. ~Driven(mem') /\ Batches(mem') = {}
    BY <2>1, <2>3 DEF LiveAccept, PlannerBusy, Driven, Batches
  <2>5. Woken
    BY <2>3 DEF Woken, Stuck
  <2>6. Stopped
    BY <1>1, <2>3 DEF Stopped, T
  <2>7. Single
    BY <2>4, TwoModelsIs DEF Single
  <2> QED BY <2>5, <2>6, <2>7 DEF Orderly
<1> QED BY <1>4, <1>5, <1>6, <1>7, <1>8, <1>9, <1>10, <1>11, <1>12

\* People's messages, and a conversation compacted.
LEMMA MessagesOrderly ==
  ASSUME ChatInvariant,
         \/ SendMessage \/ QueuePrompt \/ Compact
         \/ \E r \in Range(rows) : CancelQueuedPrompt(r)
  PROVE  Orderly
<1>1. /\ mem \in Memory /\ OneDriver(mem) /\ Settled(mem) /\ rows \in Seq(Nat)
      /\ log \in History /\ mem.turn \in Turns
  BY Now
<1>2. ASSUME NEW b \in BOOLEAN
      PROVE  LET n == [mem EXCEPT !.stalled = b] IN
             /\ n \in Memory /\ n.turn = mem.turn /\ n.parked = mem.parked /\ n.chain = mem.chain
             /\ n.draining = mem.draining /\ n.held = mem.held
  BY <1>1 DEF Memory
<1>3. ASSUME rows' \in Seq(Nat), NEW b \in BOOLEAN,
             mem' = DrainNext(rows', [mem EXCEPT !.stalled = b])
      PROVE  Orderly
  <2> DEFINE n == [mem EXCEPT !.stalled = b]
  <2>1. /\ n \in Memory /\ n.turn = mem.turn /\ n.parked = mem.parked /\ n.chain = mem.chain
        /\ n.draining = mem.draining /\ n.held = mem.held
    BY <1>2
  <2>2. mem' = DrainNext(rows', n)
    BY <1>3
  <2> HIDE DEF n
  <2>3. Settled(n)
    BY <1>1, <2>1 DEF Settled, Driven
  <2> QED BY <1>3, <2>1, <2>2, <2>3, DrainedOrderly
<1>4. ASSUME ~Busy(mem), Kept(mem, mem'), mem'.turn.stage \in {"prompt", "compact"}
      PROVE  Orderly
  <2>1. mem'.parked = mem.parked /\ mem'.chain = mem.chain /\ Len(mem.parked) \in Nat
    BY <1>1, <1>4 DEF Kept, Memory
  <2>2. Woken
    BY <1>4 DEF Woken, Stuck, Busy, Driven
  <2>3. Stopped
    BY <1>4, <2>1 DEF Stopped
  <2>4. ~LiveTools(mem')
    BY <1>4, <2>1 DEF LiveTools, Busy
  <2> QED BY <2>2, <2>3, <2>4, TwoModelsIs DEF Orderly, Single
<1>5. CASE SendMessage
  <2>1. CASE configured
    <3>1. mem' = Started(mem, "user", "prompt", <<>>) /\ ~Busy(mem)
      BY <1>5, <2>1 DEF SendMessage
    <3>2. "user" \in Origins /\ "prompt" \in Stages \ {"none"} /\ <<>> \in Seq(Nat)
      BY DEF Origins, Stages
    <3>3. /\ Kept(mem, Started(mem, "user", "prompt", <<>>))
          /\ Started(mem, "user", "prompt", <<>>).turn.stage = "prompt"
      BY <1>1, <3>2, StartedKeeps, ZenonT(60)
    <3> QED BY <3>1, <3>3, <1>4
  <2>2. CASE ~configured
    <3>1. rows' = rows /\ mem' = DrainNext(rows, [mem EXCEPT !.stalled = FALSE])
      BY <1>5, <2>2 DEF SendMessage
    <3> QED BY <1>1, <3>1, <1>3
  <2> QED BY <2>1, <2>2
<1>6. CASE QueuePrompt
  <2>1. rows' = Append(rows, log.sent + 1) /\ mem' = DrainNext(rows', [mem EXCEPT !.stalled = FALSE])
    BY <1>6 DEF QueuePrompt
  <2>2. log.sent + 1 \in Nat
    BY <1>1 DEF History
  <2>3. rows' \in Seq(Nat)
    BY <1>1, <2>1, <2>2, RangeOfAppend
  <2> QED BY <2>1, <2>3, <1>3
<1>7. CASE Compact
  <2> DEFINE s == Started(mem, "compact", "compact", <<>>)
  <2>1. mem' = [s EXCEPT !.stalled = mem.stalled] /\ ~Busy(mem)
    BY <1>7 DEF Compact
  <2>2. "compact" \in Origins /\ "compact" \in Stages \ {"none"} /\ <<>> \in Seq(Nat)
    BY DEF Origins, Stages
  <2>3. s \in Memory /\ Kept(mem, s) /\ s.turn.stage = "compact"
    BY <1>1, <2>2, StartedKeeps, ZenonT(60)
  <2> HIDE DEF s
  <2>4. Kept(mem, mem') /\ mem'.turn.stage = "compact"
    BY <2>1, <2>3 DEF Memory, Kept
  <2> QED BY <2>1, <2>4, <1>4
<1>8. CASE \E r \in Range(rows) : CancelQueuedPrompt(r)
  <2>1. PICK r \in Range(rows) : CancelQueuedPrompt(r)
    BY <1>8
  <2>2. /\ rows' = Those(rows, Range(rows) \ {r})
        /\ mem' = DrainNext(rows', [mem EXCEPT !.stalled = mem.stalled /\ rows' # <<>>])
    BY <2>1 DEF CancelQueuedPrompt
  <2>3. (mem.stalled /\ rows' # <<>>) \in BOOLEAN
    OBVIOUS
  <2>4. ASSUME NEW S
        PROVE  Those(rows, S) \in Seq(Nat)
    BY <1>1, ThoseKeep
  <2> QED BY <2>2, <2>3, <2>4, <1>3
<1> QED BY <1>5, <1>6, <1>7, <1>8

\* What was parked is resolved.
LEMMA ResolvedOrderly ==
  ASSUME ChatInvariant, NEW i \in DOMAIN mem.parked, NEW allowed \in BOOLEAN,
         ResolveParked(i, allowed) \/ ResolveLive(i)
  PROVE  Orderly
<1>1. /\ mem \in Memory /\ OneDriver(mem) /\ mem.parked \in Seq(Parks) /\ mem.turn \in Turns
      /\ Len(mem.parked) \in Nat /\ Batches(mem) \subseteq DOMAIN mem.parked
  BY Now DEF Batches
<1> DEFINE left == RemoveAt(mem.parked, i)
<1>2. /\ left \in Seq(Parks) /\ Len(left) = Len(mem.parked) - 1
      /\ \E g \in [DOMAIN left -> DOMAIN mem.parked] :
           /\ \A k \in DOMAIN left : left[k] = mem.parked[g[k]] /\ g[k] # i
           /\ \A j, k \in DOMAIN left : g[j] = g[k] => j = k
  BY <1>1, FewerRemoved
<1>3. CASE ResolveParked(i, allowed)
  <2> DEFINE t == [NoTurn EXCEPT !.stage = IF allowed THEN "deciding" ELSE "answer",
                                 !.origin = "resumed", !.got = TRUE,
                                 !.calls = mem.parked[i].calls, !.round = mem.parked[i].round]
  <2>1. /\ mem' = [mem EXCEPT !.parked = left, !.controller = "turn", !.turn = t]
        /\ mem.parked[i].kind # "live"
    BY <1>3 DEF ResolveParked
  <2>2. t.stage \in {"deciding", "answer"} /\ ~t.aborted
    BY DEF NoTurn
  <2> HIDE DEF t, left
  <2>3. mem'.turn = t /\ mem'.parked = left /\ mem'.chain = mem.chain
    BY <1>1, <2>1 DEF Memory
  <2>4. Woken
    BY <2>2, <2>3 DEF Woken, Stuck, Busy, Driven
  <2>5. Stopped
    BY <1>1, <1>2, <2>2, <2>3 DEF Stopped
  <2>6. i \in Batches(mem)
    BY <2>1 DEF Batches
  <2>7. LiveTools(mem') => LiveTools(mem)
    BY <2>3 DEF LiveTools
  <2>8. Single
    BY <2>6, <2>7, TwoModelsIs DEF Single
  <2> QED BY <2>4, <2>5, <2>8 DEF Orderly
<1>4. CASE ResolveLive(i)
  <2>1. mem' = [mem EXCEPT !.parked = left, !.answering = TRUE, !.controller = "live"]
    BY <1>4 DEF ResolveLive
  <2> HIDE DEF left
  <2>2. /\ mem'.turn = mem.turn /\ mem'.parked = left /\ mem'.chain = mem.chain
        /\ mem'.answering = TRUE
    BY <1>1, <2>1 DEF Memory
  <2>3. ~Stuck(rows', mem')
    BY <2>2 DEF Stuck, Busy
  <2>4. Batches(mem') # {} => Batches(mem) # {}
    <3>1. SUFFICES ASSUME NEW k \in DOMAIN left, left[k].kind # "live"
                   PROVE  \E j \in DOMAIN mem.parked : mem.parked[j].kind # "live"
      BY <2>2 DEF Batches
    <3> QED BY <3>1, <1>2
  <2>5. Len(mem'.parked) <= Len(mem.parked)
    BY <1>1, <1>2, <2>2
  <2>6. LiveTools(mem') => LiveTools(mem)
    BY <2>2 DEF LiveTools
  <2> QED BY <2>2, <2>3, <2>4, <2>5, <2>6, IdleOrderly
<1> QED BY <1>3, <1>4

\* interrupt(), the history cleared, and the dismissed call's result written.
LEMMA StopsOrderly ==
  ASSUME ChatInvariant, Interrupt \/ ClearHistory \/ DismissalAnswered
  PROVE  Orderly
<1>1. /\ mem \in Memory /\ OneDriver(mem) /\ mem.parked \in Seq(Parks) /\ mem.turn \in Turns
      /\ Len(mem.parked) \in Nat /\ Holds(rows, mem, log)
  BY Now
<1>2. CASE Interrupt
  <2> DEFINE d == Dismissal(mem)
             t == [mem.turn EXCEPT !.aborted = mem.turn.aborted \/ mem.controller = "turn"]
  <2>1. mem' = [d EXCEPT !.controller = "none",
                         !.turn.aborted = @ \/ mem.controller = "turn"] /\ mem.dismiss = "none"
        /\ rows' = rows
    BY <1>2 DEF Interrupt
  <2>2. d \in Memory /\ d.turn = mem.turn
    BY <1>1, DismissalIs
  <2>3. \/ mem.parked = <<>> /\ d = [mem EXCEPT !.dismiss = "none"]
        \/ /\ mem.parked # <<>>
           /\ \E x \in {"live", "result"} : d = [mem EXCEPT !.parked = Tail(mem.parked), !.dismiss = x]
    BY Zenon DEF Dismissal
  <2> HIDE DEF d
  <2>4. /\ mem'.turn.stage = mem.turn.stage /\ mem'.parked = d.parked /\ mem'.chain = d.chain
        /\ mem'.dismiss = d.dismiss /\ mem'.answering = d.answering /\ mem'.liveOn = d.liveOn
        /\ mem'.expiry = d.expiry /\ mem'.stalled = d.stalled /\ mem'.listener = d.listener
        /\ mem'.mailbox = d.mailbox /\ mem'.retry = d.retry /\ mem'.gaveUp = d.gaveUp
    BY <1>1, <2>1, <2>2 DEF Memory, Turns
  <2>5. CASE mem.parked = <<>> /\ d = [mem EXCEPT !.dismiss = "none"]
    <3>1. /\ d.parked = mem.parked /\ d.chain = mem.chain /\ d.dismiss = mem.dismiss
          /\ d.answering = mem.answering /\ d.liveOn = mem.liveOn /\ d.expiry = mem.expiry
          /\ d.stalled = mem.stalled /\ d.listener = mem.listener /\ d.mailbox = mem.mailbox
          /\ d.retry = mem.retry /\ d.gaveUp = mem.gaveUp
      BY <1>1, <2>1, <2>5 DEF Memory
    <3>2. Stuck(rows', mem') => Stuck(rows, mem)
      BY <2>1, <2>4, <3>1 DEF Stuck, Busy, Driven, LiveTools, Deliverable
    <3>3. mem'.parked = mem.parked /\ mem'.chain = mem.chain
      BY <2>4, <3>1
    <3> QED BY <1>1, <2>4, <3>2, <3>3, IdleOrderly DEF LiveTools, Batches
  <2>6. CASE /\ mem.parked # <<>>
             /\ \E x \in {"live", "result"} : d = [mem EXCEPT !.parked = Tail(mem.parked), !.dismiss = x]
    <3>1. PICK x \in {"live", "result"} : d = [mem EXCEPT !.parked = Tail(mem.parked), !.dismiss = x]
      BY <2>6
    <3>2. mem'.parked = Tail(mem.parked) /\ mem'.chain = mem.chain /\ mem'.dismiss # "none"
      BY <1>1, <3>1, <2>4 DEF Memory
    <3>3. /\ Len(Tail(mem.parked)) = Len(mem.parked) - 1 /\ Tail(mem.parked) \in Seq(Parks)
          /\ \A k \in 1..Len(mem.parked) - 1 : Tail(mem.parked)[k] = mem.parked[k + 1]
      BY <1>1, <2>6, RangeOfTail
    <3>4. Batches(mem') # {} => Batches(mem) # {}
      <4>1. SUFFICES ASSUME NEW k \in DOMAIN Tail(mem.parked), Tail(mem.parked)[k].kind # "live"
                     PROVE  \E j \in DOMAIN mem.parked : mem.parked[j].kind # "live"
        BY <3>2 DEF Batches
      <4>2. k \in 1..Len(mem.parked) - 1 /\ k + 1 \in DOMAIN mem.parked
        BY <1>1, <3>3
      <4> QED BY <4>1, <4>2, <3>3
    <3>5. Len(mem'.parked) <= Len(mem.parked)
      BY <1>1, <3>2, <3>3
    <3>6. ~Stuck(rows', mem')
      BY <3>2 DEF Stuck
    <3>7. LiveTools(mem') => LiveTools(mem)
      BY <3>2 DEF LiveTools
    <3> QED BY <2>4, <3>4, <3>5, <3>6, <3>7, IdleOrderly
  <2> QED BY <2>3, <2>5, <2>6
<1>3. CASE ClearHistory
  <2>1. mem' = [mem EXCEPT !.stalled = FALSE, !.parked = <<>>, !.mailbox = <<>>,
                           !.controller = "none",
                           !.turn.aborted = @ \/ mem.controller = "turn"]
    BY <1>3 DEF ClearHistory
  <2>2. mem'.turn.stage = mem.turn.stage /\ mem'.parked = <<>> /\ mem'.chain = mem.chain
    BY <1>1, <2>1 DEF Memory, Turns
  <2>3. Woken
    <3>1. budget["clears"] > 0 /\ budget' = [budget EXCEPT !["clears"] = budget["clears"] - 1]
      BY <1>3 DEF ClearHistory, Spend
    <3>2. budget \in [Acts -> Nat] /\ "clears" \in Acts
      BY DEF ChatInvariant, Acts
    <3>3. budget'["clears"] = budget["clears"] - 1 /\ budget["clears"] \in Nat
      BY <3>1, <3>2
    <3>4. budget'["clears"] < budget["clears"]
      BY <3>3
    <3> QED BY <3>4 DEF Woken
  <2>4. Stopped
    <3>1. ~(Len(mem'.parked) > Len(mem.parked))
      BY <1>1, <2>2
    <3> QED BY <3>1, <2>2 DEF Stopped, T
  <2>5. Batches(mem') = {} /\ Driven(mem') = Driven(mem)
    BY <2>2 DEF Batches, Driven
  <2>6. LiveTools(mem') = LiveTools(mem)
    BY <2>2 DEF LiveTools
  <2>7. Single
    BY <2>5, <2>6, TwoModelsIs DEF Single
  <2> QED BY <2>3, <2>4, <2>7 DEF Orderly
<1>4. CASE DismissalAnswered
  <2>1. mem' = [mem EXCEPT !.dismiss = "complete"]
    BY <1>4 DEF DismissalAnswered
  <2>2. /\ mem'.turn = mem.turn /\ mem'.parked = mem.parked /\ mem'.chain = mem.chain
        /\ mem'.dismiss = "complete"
    BY <1>1, <2>1 DEF Memory
  <2>3. ~Stuck(rows', mem')
    BY <2>2 DEF Stuck
  <2> QED BY <1>1, <2>2, <2>3, IdleOrderly DEF LiveTools, Batches
<1> QED BY <1>2, <1>3, <1>4

\* The chat is drained after a dismissal, and the next entry dismissed.
LEMMA DismissalOverOrderly ==
  ASSUME ChatInvariant, DismissalOver
  PROVE  Orderly
<1> DEFINE d == DrainNext(rows, mem)
<1>1. /\ mem \in Memory /\ Settled(mem) /\ rows \in Seq(Nat) /\ configured \in BOOLEAN
      /\ mem.parked \in Seq(Parks) /\ Len(mem.parked) \in Nat
  BY Now
<1>2. mem' = Dismissal(d) /\ rows' = rows
  BY DEF DismissalOver
<1>3. Drained(rows, mem, d) /\ ~Waiting(rows, d)
  BY <1>1, DrainNextDoes
<1>4. \/ d.turn = mem.turn
      \/ ~Busy(mem) /\ d.turn.stage \in {"deliver", "prompt"} /\ ~d.turn.aborted
  BY <1>1, <1>3, DrainedTurn
<1>5. d \in Memory /\ d.parked = mem.parked /\ d.chain = mem.chain
  BY <1>3 DEF Drained, Kept
<1>6. \/ mem.parked = <<>> /\ mem' = [d EXCEPT !.dismiss = "none"]
      \/ /\ mem.parked # <<>>
         /\ \E x \in {"live", "result"} : mem' = [d EXCEPT !.parked = Tail(mem.parked), !.dismiss = x]
  <2> HIDE DEF d
  <2> QED BY <1>2, <1>5, Zenon DEF Dismissal
<1> HIDE DEF d
<1>7. /\ mem'.turn = d.turn /\ mem'.chain = mem.chain /\ Len(mem'.parked) <= Len(mem.parked)
      /\ (Batches(mem') # {} => Batches(mem) # {}) /\ ~Stuck(rows', mem')
  <2>1. CASE mem.parked = <<>> /\ mem' = [d EXCEPT !.dismiss = "none"]
    <3>1. /\ mem'.turn = d.turn /\ mem'.chain = d.chain /\ mem'.parked = d.parked
          /\ mem'.answering = d.answering /\ mem'.liveOn = d.liveOn /\ mem'.expiry = d.expiry
          /\ mem'.stalled = d.stalled /\ mem'.listener = d.listener /\ mem'.mailbox = d.mailbox
          /\ mem'.retry = d.retry /\ mem'.gaveUp = d.gaveUp
      BY <2>1, <1>5 DEF Memory
    <3>2. ~Waiting(rows', mem')
      BY <3>1, <1>2, <1>3 DEF Waiting, Busy, Driven, LiveTools, Deliverable
    <3> QED BY <1>1, <1>5, <3>1, <3>2, StuckIs DEF Batches
  <2>2. CASE /\ mem.parked # <<>>
             /\ \E x \in {"live", "result"} : mem' = [d EXCEPT !.parked = Tail(mem.parked), !.dismiss = x]
    <3>1. PICK x \in {"live", "result"} : mem' = [d EXCEPT !.parked = Tail(mem.parked), !.dismiss = x]
      BY <2>2
    <3>2. /\ mem'.turn = d.turn /\ mem'.chain = mem.chain /\ mem'.parked = Tail(mem.parked)
          /\ mem'.dismiss # "none"
      BY <3>1, <1>5 DEF Memory
    <3>3. /\ Len(Tail(mem.parked)) = Len(mem.parked) - 1 /\ Tail(mem.parked) \in Seq(Parks)
          /\ \A k \in 1..Len(mem.parked) - 1 : Tail(mem.parked)[k] = mem.parked[k + 1]
      BY <1>1, <2>2, RangeOfTail
    <3>4. Batches(mem') # {} => Batches(mem) # {}
      <4>1. SUFFICES ASSUME NEW k \in DOMAIN Tail(mem.parked), Tail(mem.parked)[k].kind # "live"
                     PROVE  \E j \in DOMAIN mem.parked : mem.parked[j].kind # "live"
        BY <3>2 DEF Batches
      <4>2. k \in 1..Len(mem.parked) - 1 /\ k + 1 \in DOMAIN mem.parked
        BY <1>1, <3>3
      <4> QED BY <4>1, <4>2, <3>3
    <3>5. Len(mem'.parked) <= Len(mem.parked)
      BY <1>1, <3>2, <3>3
    <3>6. ~Stuck(rows', mem')
      BY <3>2 DEF Stuck
    <3> QED BY <3>2, <3>4, <3>5, <3>6
  <2> QED BY <1>6, <2>1, <2>2
<1>8. CASE d.turn = mem.turn
  <2>1. /\ mem'.turn.stage = mem.turn.stage /\ (LiveTools(mem') => LiveTools(mem))
        /\ (Stuck(rows', mem') => Stuck(rows, mem))
    BY <1>7, <1>8 DEF LiveTools
  <2> QED BY <2>1, <1>7, IdleOrderly
<1>9. CASE ~Busy(mem) /\ d.turn.stage \in {"deliver", "prompt"} /\ ~d.turn.aborted
  <2>1. ~LiveTools(mem')
    BY <1>7, <1>9 DEF LiveTools, Busy
  <2>2. Single
    BY <2>1, TwoModelsIs DEF Single
  <2>3. Woken
    BY <1>7 DEF Woken
  <2>4. Stopped
    <3>1. Len(mem'.parked) > Len(mem.parked) => FALSE
      <4>1. mem'.parked \in Seq(Parks)
        <5>1. Tail(mem.parked) \in Seq(Parks) \/ mem.parked = <<>>
          BY <1>1, RangeOfTail
        <5> QED BY <1>1, <1>5, <1>6, <5>1 DEF Memory
      <4> QED BY <4>1, <1>1, <1>7
    <3> QED BY <3>1, <1>7, <1>9 DEF Stopped
  <2> QED BY <2>2, <2>3, <2>4 DEF Orderly
<1> QED BY <1>4, <1>8, <1>9

\* Mail arrives, and the check_back_in timer fires.
LEMMA MailOrderly ==
  ASSUME ChatInvariant, EnqueueMailbox \/ AlarmFires
  PROVE  Orderly
<1>1. /\ mem \in Memory /\ Settled(mem) /\ rows \in Seq(Nat) /\ log \in History
      /\ Len(mem.parked) \in Nat
  BY Now
<1>2. rows' = rows
  BY DEF EnqueueMailbox, AlarmFires
<1>3. ASSUME NEW n \in Memory, mem' = n, Busy(n) \/ n.liveOn, n.turn = mem.turn,
             n.parked = mem.parked, n.chain = mem.chain
      PROVE  Orderly
  <2>1. ~Stuck(rows', mem')
    BY <1>3 DEF Stuck
  <2> QED BY <1>1, <1>3, <2>1, IdleOrderly DEF LiveTools, Batches
<1>4. ASSUME NEW m \in Memory, NEW x \in Nat, mem' = Mailed(m, x), m.turn = mem.turn,
             m.parked = mem.parked, m.chain = mem.chain, m.draining = mem.draining,
             m.held = mem.held
      PROVE  Orderly
  <2> DEFINE n == [m EXCEPT !.mailbox = Append(m.mailbox, x)]
  <2>1. mem' = IF Busy(n) \/ n.liveOn THEN n ELSE DrainNext(rows, n)
    BY <1>4 DEF Mailed
  <2>2. Append(m.mailbox, x) \in Seq(Nat)
    BY <1>4 DEF Memory
  <2>3. /\ n \in Memory /\ n.turn = mem.turn /\ n.parked = mem.parked /\ n.chain = mem.chain
        /\ n.draining = mem.draining /\ n.held = mem.held
    BY <1>4, <2>2 DEF Memory
  <2> HIDE DEF n
  <2>4. CASE Busy(n) \/ n.liveOn
    BY <2>1, <2>3, <2>4, <1>3
  <2>5. CASE ~(Busy(n) \/ n.liveOn)
    <3>1. Settled(n)
      BY <1>1, <2>3 DEF Settled, Driven
    <3>2. mem' = DrainNext(rows', n)
      BY <1>2, <2>1, <2>5
    <3> QED BY <1>1, <1>2, <2>3, <3>1, <3>2, DrainedOrderly
  <2> QED BY <2>4, <2>5
<1>5. CASE EnqueueMailbox
  <2>1. mem' = Mailed(mem, log.mailed + 1) /\ log.mailed + 1 \in Nat
    BY <1>1, <1>5 DEF EnqueueMailbox, History
  <2> QED BY <2>1, <1>1, <1>4
<1>6. CASE AlarmFires
  <2> DEFINE n == [mem EXCEPT !.alarm = FALSE]
  <2>1. mem' = IF Busy(n) THEN n ELSE Mailed(n, Timer)
    BY <1>6 DEF AlarmFires
  <2>2. /\ n \in Memory /\ n.turn = mem.turn /\ n.parked = mem.parked /\ n.chain = mem.chain
        /\ n.draining = mem.draining /\ n.held = mem.held
    BY <1>1 DEF Memory
  <2>3. Timer \in Nat
    BY DEF Timer
  <2> HIDE DEF n
  <2>4. CASE Busy(n)
    BY <2>1, <2>2, <2>4, <1>3
  <2>5. CASE ~Busy(n)
    BY <2>1, <2>2, <2>3, <2>5, <1>4
  <2> QED BY <2>4, <2>5
<1> QED BY <1>5, <1>6

\* The head of the live line is done: the next in it, if any, was accepted behind
\* it, and what its call leaves waiting is noted.
LEMMA LiveDoneOrderly ==
  ASSUME ChatInvariant, NEW parks \in BOOLEAN, LiveDone(parks)
  PROVE  Orderly
<1> DEFINE park == [kind |-> "live", calls |-> 1, round |-> 0]
           left == IF parks THEN Append(mem.parked, park) ELSE mem.parked
<1>1. /\ mem \in Memory /\ mem.chain \in Seq({"tools", "record"}) /\ mem.chain # <<>>
      /\ log \in History /\ rows' = rows
  BY Now DEF LiveDone, Memory
<1>2. mem' = [mem EXCEPT !.chain = Tail(mem.chain), !.parked = left]
  BY DEF LiveDone
<1> HIDE DEF left
<1>3. mem'.turn = mem.turn /\ mem'.chain = Tail(mem.chain) /\ mem'.parked = left
  BY <1>1, <1>2 DEF Memory
<1>4. Tail(mem.chain) # mem.chain /\ (Tail(mem.chain) # <<>> => Len(mem.chain) > 1)
  <2>1. Len(Tail(mem.chain)) = Len(mem.chain) - 1 /\ Len(mem.chain) \in Nat
        /\ Tail(mem.chain) \in Seq({"tools", "record"})
    BY <1>1, RangeOfTail
  <2>2. Tail(mem.chain) # mem.chain
    <3>1. Len(Tail(mem.chain)) # Len(mem.chain)
      BY <2>1
    <3> QED BY <3>1, Zenon
  <2>3. ASSUME NEW u \in Seq({"tools", "record"}), u # <<>>
        PROVE  Len(u) > 0
    BY <2>3
  <2>4. Tail(mem.chain) # <<>> => Len(Tail(mem.chain)) > 0
    BY <2>1, <2>3, Zenon
  <2> QED BY <2>1, <2>2, <2>4
<1>5. Single
  BY <1>3, <1>4, TwoModelsIs DEF Single, LiveTools
<1>6. Stopped
  BY <1>3, <1>4 DEF Stopped, T
<1>7. Woken
  <2>1. CASE Head(mem.chain) = "record"
    <3>1. ~parks
      BY <2>1 DEF LiveDone
    <3>2. mem' = [mem EXCEPT !.chain = Tail(mem.chain), !.parked = mem.parked]
      BY <1>2, <3>1 DEF left
    <3>3. /\ mem'.parked = mem.parked /\ mem'.turn = mem.turn
          /\ mem'.answering = mem.answering /\ mem'.liveOn = mem.liveOn
          /\ mem'.expiry = mem.expiry /\ mem'.dismiss = mem.dismiss /\ mem'.stalled = mem.stalled
          /\ mem'.listener = mem.listener /\ mem'.mailbox = mem.mailbox
          /\ mem'.retry = mem.retry /\ mem'.gaveUp = mem.gaveUp
      BY <1>1, <3>2 DEF Memory
    <3>4. ~LiveTools(mem)
      BY <2>1 DEF LiveTools
    <3>5. Stuck(rows', mem') => Stuck(rows, mem)
      BY <1>1, <3>3, <3>4 DEF Stuck, Busy, Driven, Deliverable
    <3> QED BY <3>5 DEF Woken
  <2>2. CASE Head(mem.chain) # "record"
    <3>1. log' = [log EXCEPT !.left = log.left \/ Stuck(rows, mem')]
      BY <2>2 DEF LiveDone
    <3>2. log'.left = (log.left \/ Stuck(rows, mem'))
      BY <1>1, <3>1 DEF History
    <3> QED BY <1>1, <3>2 DEF Woken
  <2> QED BY <2>1, <2>2
<1> QED BY <1>5, <1>6, <1>7 DEF Orderly

\* The process goes and comes back.
LEMMA RestartOrderly ==
  ASSUME ChatInvariant, Restart
  PROVE  Orderly
<1>1. /\ rows \in Seq(Nat) /\ configured \in BOOLEAN /\ rows' = rows
      /\ Len(mem.parked) \in Nat
  BY Now DEF Restart
<1>2. Fresh.chain = <<>> /\ ~Fresh.listener
  BY DEF Fresh
<1>3. /\ mem'.chain = <<>> /\ mem'.parked = <<>> /\ ~Waiting(rows, mem')
      /\ mem'.turn.stage \in {"none", "deliver", "prompt"}
  <2>1. CASE rows = <<>>
    <3>1. mem' = Fresh
      BY <2>1 DEF Restart
    <3> QED BY <2>1, <3>1, <1>2, FreshIs DEF Waiting, Deliverable
  <2>2. CASE rows # <<>>
    <3>1. mem' = DrainNext(rows, Fresh)
      BY <2>2 DEF Restart
    <3>2. Settled(Fresh) /\ Fresh \in Memory
      BY FreshIs DEF OneDriver
    <3>3. Drained(rows, Fresh, mem') /\ ~Waiting(rows, mem')
      BY <1>1, <3>1, <3>2, DrainNextDoes
    <3>4. \/ mem'.turn = Fresh.turn
          \/ mem'.turn.stage \in {"deliver", "prompt"}
      BY <1>1, <3>2, <3>3, DrainedTurn
    <3>5. mem'.chain = <<>> /\ mem'.parked = <<>>
      BY <1>2, <3>3, FreshIs DEF Drained, Kept
    <3> QED BY <3>3, <3>4, <3>5, FreshIs
  <2> QED BY <2>1, <2>2
<1>4. Woken
  BY <1>1, <1>3, StuckIs DEF Woken
<1>5. Stopped
  BY <1>1, <1>3 DEF Stopped
<1>6. Single
  BY <1>3, TwoModelsIs DEF Single, LiveTools
<1> QED BY <1>4, <1>5, <1>6 DEF Orderly

\* Every step.
LEMMA NextOrderly ==
  ASSUME ChatInvariant, [Next]_vars
  PROVE  Orderly
<1>1. CASE UNCHANGED vars
  <2>1. mem' = mem /\ rows' = rows /\ Len(mem.parked) \in Nat
    BY <1>1, Now DEF vars
  <2> QED BY <2>1, IdleOrderly
<1>2. CASE People
  <2>1. CASE \/ \E i \in DOMAIN mem.parked, allowed \in BOOLEAN : ResolveParked(i, allowed)
             \/ \E i \in DOMAIN mem.parked : ResolveLive(i)
    BY <2>1, ResolvedOrderly
  <2>2. CASE SendMessage \/ QueuePrompt \/ Compact \/ \E r \in Range(rows) : CancelQueuedPrompt(r)
    BY <2>2, MessagesOrderly
  <2>3. CASE Interrupt \/ ClearHistory
    BY <2>3, StopsOrderly
  <2>4. CASE \/ WhenIdle \/ LiveSetup \/ LiveLapses \/ EndLive
             \/ \E work \in {"tools", "record"} : LiveAccept(work)
    BY <2>4, LiveOrderly
  <2> QED BY <1>2, <2>1, <2>2, <2>3, <2>4, Zenon DEF People
<1>3. CASE LiveStep
  <2>1. CASE LiveReady \/ LiveAnswered
    BY <2>1, LiveOrderly
  <2>2. CASE \E parks \in BOOLEAN : LiveDone(parks)
    BY <2>2, LiveDoneOrderly
  <2> QED BY <1>3, <2>1, <2>2 DEF LiveStep
<1>4. CASE TurnStep
  BY <1>4, TurnOrderly
<1>5. CASE TurnThrows
  BY <1>5, ThrewOrderly
<1>6. CASE DismissalAnswered
  BY <1>6, StopsOrderly
<1>7. CASE DismissalOver
  BY <1>7, DismissalOverOrderly
<1>8. CASE EnqueueMailbox \/ AlarmFires
  BY <1>8, MailOrderly
<1>9. CASE RetryFires \/ ExpiryFires \/ Configure
  BY <1>9, LiveOrderly
<1>10. CASE Restart
  BY <1>10, RestartOrderly
<1> QED BY <1>1, <1>2, <1>3, <1>4, <1>5, <1>6, <1>7, <1>8, <1>9, <1>10 DEF Next

\* Whatever ends a turn, a parked entry or live mode, and whatever arrives, leaves
\* nothing waiting in an idle chat, but for a clear and a live call that is last.
THEOREM NothingLeftWaiting == Spec => NoLostWake
<1>1. ASSUME ChatInvariant, [Next]_vars
      PROVE  Stuck(rows', mem') =>
               Stuck(rows, mem) \/ budget'["clears"] < budget["clears"] \/ log'.left
  BY <1>1, NextOrderly DEF Orderly, Woken
<1>2. ChatInvariant /\ [Next]_vars =>
        [Stuck(rows', mem') =>
           Stuck(rows, mem) \/ budget'["clears"] < budget["clears"] \/ log'.left]_vars
  BY <1>1
<1> QED BY <1>2, ChatInvariantHolds, PTL DEF Spec, NoLostWake

\* A stopped turn begins no request, no tool and no answer, but for an approved
\* tool whose approval was being written, and parks nothing but behind a browser
\* that was being opened.
THEOREM StopsHold == Spec => StoppedMeansStopped
<1>1. ASSUME ChatInvariant, [Next]_vars
      PROVE  T.aborted =>
               /\ mem'.turn.stage \in {"model", "running", "opening", "deciding", "answer"} =>
                    \/ mem'.turn.stage = T.stage
                    \/ ~mem'.turn.aborted
                    \/ T.stage = "deciding" /\ mem'.turn.stage = "running"
               /\ Len(mem'.parked) > Len(mem.parked) => T.stage = "opening" \/ mem'.chain # mem.chain
  BY <1>1, NextOrderly DEF Orderly, Stopped
<1>2. ChatInvariant /\ [Next]_vars =>
        [T.aborted =>
           /\ mem'.turn.stage \in {"model", "running", "opening", "deciding", "answer"} =>
                \/ mem'.turn.stage = T.stage
                \/ ~mem'.turn.aborted
                \/ T.stage = "deciding" /\ mem'.turn.stage = "running"
           /\ Len(mem'.parked) > Len(mem.parked) => T.stage = "opening" \/ mem'.chain # mem.chain]_vars
  BY <1>1
<1> QED BY <1>2, ChatInvariantHolds, PTL DEF Spec, StoppedMeansStopped

\* Gemini's tools and the planner's model do not come to work together, but when
\* a live call that was accepted earlier comes up in its line.
THEOREM OneModelHolds == Spec => OneModel
<1>1. ASSUME ChatInvariant, [Next]_vars
      PROVE  TwoModels(mem') => TwoModels(mem) \/ Len(mem.chain) > 1
  BY <1>1, NextOrderly DEF Orderly, Single
<1>2. ChatInvariant /\ [Next]_vars =>
        [TwoModels(mem') => TwoModels(mem) \/ Len(mem.chain) > 1]_vars
  BY <1>1
<1> QED BY <1>2, ChatInvariantHolds, PTL DEF Spec, OneModel

----------------------------------------------------------------------------
(* The bridge to Telegram.                                                  *)

(* The updates of a scenario, loops, handlers, the chat and the history.   *)
Updates == 1 .. Len(telegramLeft.plan)
Poll    == [state : {"none", "asking", "answered", "handling"}, aborted : BOOLEAN,
            offset : Nat, batch : Seq(Nat)]
Hand    == [stage : {"none", "begin", "file", "tap", "reply"}, parts : Seq(Updates)]
Convo   == [turn : {"none", "begin", "on"}, by : Handlers \cup {Off}, asked : SUBSET Updates,
            queue : SUBSET Updates, parked : BOOLEAN, draining : BOOLEAN, stalled : BOOLEAN]
Tale    == [taken : [Updates -> Nat], shaken : [Updates -> Nat], seen : SUBSET Updates,
            dropped : SUBSET Updates, unheard : SUBSET Updates, excused : SUBSET Updates]
Scenario == [plan : Seq(Kinds), parks : Nat, throws : Nat, others : Nat, toggles : Nat,
             restarts : Nat]

BridgeTypes ==
    /\ telegramLeft \in Scenario
    /\ cloud \in [sent : Nat, floor : Nat] /\ cloud.sent <= Len(telegramLeft.plan)
    /\ cloud.floor \in 1 .. cloud.sent + 1
    /\ botRow \in [enabled : BOOLEAN, offset : Nat] /\ botRow.offset \in 1 .. cloud.sent + 1
    /\ poll \in [PollSlots -> Poll] /\ current \in PollSlots \cup {Off}
    /\ hand \in [Handlers -> Hand] /\ album \in Seq(Updates)
    /\ convo \in Convo /\ relaying \in BOOLEAN /\ tale \in Tale

\* A loop holds consecutive updates Telegram has sent, none below its offset, and only the
\* active one is neither idle nor aborted.
LoopSound(l) ==
    /\ poll[l].state = "none" => poll[l] = NoPoll
    /\ (l = current) = (poll[l].state # "none" /\ ~poll[l].aborted)
    /\ poll[l].state \notin {"answered", "handling"} => poll[l].batch = <<>>
    /\ poll[l].state # "handling" => hand[l] = NoHand
    /\ \A i \in DOMAIN poll[l].batch : /\ poll[l].batch[i] = poll[l].batch[1] + i - 1
                                       /\ poll[l].batch[i] \in Sent
    /\ poll[l].offset <= cloud.sent + 1
    /\ poll[l].state # "none" => poll[l].offset >= 1
    /\ poll[l].batch # <<>> => poll[l].offset <= poll[l].batch[1]
    /\ poll[l].batch # <<>> /\ poll[l].state = "answered" => poll[l].batch[1] <= cloud.floor

\* A handler holds updates while it works; one that awaits a turn is the turn's.
HandSound(h) ==
    /\ hand[h].stage = "none" <=> hand[h].parts = <<>>
    /\ hand[h].stage = "begin" <=> convo.turn = "begin" /\ convo.by = h
    /\ hand[h].stage = "tap" =>
          h \notin AlbumSlots /\ \A i \in DOMAIN hand[h].parts : KindOf(hand[h].parts[i]) = "tap"
    /\ hand[h].stage = "file" /\ h \in AlbumSlots =>
          \A i \in DOMAIN hand[h].parts : KindOf(hand[h].parts[i]) = "part"

\* No handler awaits a turn that has begun, and a parked chat has no turn.
ChatSound ==
    /\ convo.turn # "begin" => convo.by = Off
    /\ convo.draining => convo.turn # "none"
    /\ convo.parked => convo.turn = "none"

\* Only album parts and taps are given up.
GivenUp ==
    /\ \A i \in DOMAIN album : KindOf(album[i]) = "part"
    /\ \A u \in tale.dropped : KindOf(u) \in {"part", "tap"}

WellFormed == /\ BridgeTypes /\ ChatSound /\ GivenUp
              /\ \A l \in PollSlots : LoopSound(l)
              /\ \A h \in Handlers : HandSound(h)

----------------------------------------------------------------------------
(* A set of numbers that is not empty has a least one.                     *)
LEMMA MinIsOne ==
    ASSUME NEW Ts \in SUBSET Nat, Ts # {}
    PROVE  Min(Ts) \in Ts
  <1>1. IsWellFoundedOn(OpToRel(<, Nat), Nat)
    BY NatLessThanWellFounded
  <1>2. PICK x \in Ts : \A y \in Ts : ~ (<<y, x>> \in OpToRel(<, Nat))
    BY <1>1, WFMin
  <1>3. \A y \in Ts : ~ (y < x)
    BY <1>2 DEF OpToRel
  <1>4. \E z \in Ts : \A y \in Ts : z <= y
    BY <1>3
  <1> QED BY <1>4 DEF Min

(* A sequence that is not empty has a first element.                       *)
LEMMA NotEmpty ==
    ASSUME NEW U, NEW s \in Seq(U), s # <<>>
    PROVE  1 \in DOMAIN s /\ s[1] \in U /\ Len(s) >= 1
  BY EmptySeq

(* What is left of a batch once its first update is taken.                 *)
LEMMA TailIs ==
    ASSUME NEW U, NEW s \in Seq(U), s # <<>>
    PROVE  /\ Head(s) = s[1] /\ Tail(s) \in Seq(U) /\ DOMAIN Tail(s) \subseteq Nat
           /\ \A i \in DOMAIN Tail(s) : Tail(s)[i] = s[i + 1] /\ i + 1 \in DOMAIN s
           /\ Tail(s) # <<>> => 1 \in DOMAIN Tail(s)
  <1>1. Tail(s) \in Seq(U) /\ Len(Tail(s)) = Len(s) - 1 /\ Len(s) \in Nat
    BY HeadTailProperties
  <1>2. DOMAIN Tail(s) = 1 .. Len(s) - 1
    BY <1>1
  <1>3. Tail(s) # <<>> => 1 \in DOMAIN Tail(s)
    BY <1>1, NotEmpty
  <1> QED BY <1>1, <1>2, <1>3

(* How often an update is among parts.                                     *)
Pos(s, u) == {i \in DOMAIN s : s[i] = u}

(* The places of an update in a sequence can be counted.                   *)
LEMMA PosFinite ==
    ASSUME NEW U, NEW s \in Seq(U), NEW u
    PROVE  IsFiniteSet(Pos(s, u)) /\ Cardinality(Pos(s, u)) \in Nat
  <1>1. Len(s) \in Nat /\ DOMAIN s = 1 .. Len(s)
    OBVIOUS
  <1>2. IsFiniteSet(1 .. Len(s))
    BY <1>1, FS_Interval
  <1>3. Pos(s, u) \subseteq 1 .. Len(s)
    BY <1>1 DEF Pos
  <1>4. IsFiniteSet(Pos(s, u))
    BY <1>2, <1>3, FS_Subset
  <1> QED BY <1>4, FS_CardinalityType

(* Counted() adds to each update the places it has, and changes no more.   *)
LEMMA CountedIs ==
    ASSUME BridgeTypes, NEW parts \in Seq(Updates)
    PROVE  /\ Counted(tale, parts) \in Tale
           /\ \A u \in Updates : Counted(tale, parts).taken[u] = tale.taken[u] + Cardinality(Pos(parts, u))
           /\ Counted(tale, parts) = [tale EXCEPT !.taken = Counted(tale, parts).taken]
  <1> DEFINE n == [u \in DOMAIN tale.taken |-> tale.taken[u] + Cardinality(Pos(parts, u))]
  <1>1. tale \in Tale /\ tale.taken \in [Updates -> Nat]
    BY DEF BridgeTypes, Tale
  <1>2. \A u \in Updates : Cardinality(Pos(parts, u)) \in Nat
    BY PosFinite
  <1>3. n \in [Updates -> Nat]
    BY <1>1, <1>2
  <1>4. Counted(tale, parts) = [tale EXCEPT !.taken = n]
    BY DEF Counted, Pos
  <1>5. \A u \in Updates : n[u] = tale.taken[u] + Cardinality(Pos(parts, u))
    BY <1>1
  <1> HIDE DEF n
  <1>6. [tale EXCEPT !.taken = n] \in Tale /\ [tale EXCEPT !.taken = n].taken = n
    BY <1>1, <1>3 DEF Tale
  <1> QED BY <1>4, <1>5, <1>6

(* Shaken() adds one to what a loop has seen and Telegram still holds.     *)
LEMMA ShakenIs ==
    ASSUME BridgeTypes
    PROVE  /\ Shaken(tale) \in Tale
           /\ \A u \in Updates : Shaken(tale).shaken[u] =
                 IF u \in tale.seen /\ u >= cloud.floor THEN tale.shaken[u] + 1 ELSE tale.shaken[u]
           /\ Shaken(tale) = [tale EXCEPT !.shaken = Shaken(tale).shaken]
  <1> DEFINE n == [u \in DOMAIN tale.shaken |->
                     IF u \in tale.seen /\ u >= cloud.floor THEN tale.shaken[u] + 1 ELSE tale.shaken[u]]
  <1>1. tale \in Tale /\ tale.shaken \in [Updates -> Nat]
    BY DEF BridgeTypes, Tale
  <1>3. n \in [Updates -> Nat]
    BY <1>1
  <1>4. Shaken(tale) = [tale EXCEPT !.shaken = n]
    BY DEF Shaken
  <1>5. \A u \in Updates : n[u] =
                 IF u \in tale.seen /\ u >= cloud.floor THEN tale.shaken[u] + 1 ELSE tale.shaken[u]
    BY <1>1
  <1> HIDE DEF n
  <1>6. [tale EXCEPT !.shaken = n] \in Tale /\ [tale EXCEPT !.shaken = n].shaken = n
    BY <1>1, <1>3 DEF Tale
  <1> QED BY <1>4, <1>5, <1>6

(* What Drains makes of a chat.                                            *)
LEMMA DrainsIs ==
    ASSUME NEW c, NEW on \in BOOLEAN, c \in Convo
    PROVE  /\ Drains(c, on) \in [chat : Convo, relaying : BOOLEAN]
           /\ \/ Drains(c, on) = ChatNow(c, on) /\ (ChatBusy(c) \/ c.draining)
              \/ /\ Drains(c, on) = ChatNow([c EXCEPT !.draining = TRUE, !.turn = "begin"], on)
                 /\ ~ChatBusy(c) /\ ~c.draining /\ QueueDue(c)
              \/ Drains(c, on) = ChatNow(c, FALSE) /\ ~ChatBusy(c) /\ ~c.draining /\ ~QueueDue(c)
  <1>1. [c EXCEPT !.draining = TRUE, !.turn = "begin"] \in Convo
    BY DEF Convo
  <1>2. /\ ChatNow(c, on) \in [chat : Convo, relaying : BOOLEAN]
        /\ ChatNow(c, FALSE) \in [chat : Convo, relaying : BOOLEAN]
        /\ ChatNow([c EXCEPT !.draining = TRUE, !.turn = "begin"], on) \in [chat : Convo, relaying : BOOLEAN]
    BY <1>1 DEF ChatNow
  <1>3. CASE ChatBusy(c) \/ c.draining
    <2>1. Drains(c, on) = ChatNow(c, on)
      BY <1>3 DEF Drains
    <2> QED BY <2>1, <1>2, <1>3
  <1>4. CASE ~ChatBusy(c) /\ ~c.draining /\ QueueDue(c)
    <2>1. Drains(c, on) = ChatNow([c EXCEPT !.draining = TRUE, !.turn = "begin"], on)
      BY <1>4 DEF Drains
    <2> QED BY <2>1, <1>2, <1>4
  <1>5. CASE ~ChatBusy(c) /\ ~c.draining /\ ~QueueDue(c)
    <2>1. Drains(c, on) = ChatNow(c, FALSE)
      BY <1>5 DEF Drains
    <2> QED BY <2>1, <1>2, <1>5
  <1> QED BY <1>3, <1>4, <1>5

(* What Drains() leaves: a chat, in which no handler waits.                *)
LEMMA DrainsTo ==
    ASSUME NEW c, NEW on \in BOOLEAN, c \in Convo, c.turn = "none", c.by = Off, ~c.draining,
           NEW d, d = Drains(c, on).chat
    PROVE  /\ d \in Convo /\ d.by = Off
           /\ d.turn = "none" => ~d.draining
           /\ d.parked => d.turn = "none"
           /\ d.asked = c.asked /\ d.queue = c.queue /\ d.stalled = c.stalled
           /\ Drains(c, on).relaying \in BOOLEAN
  <1>1. Drains(c, on) \in [chat : Convo, relaying : BOOLEAN]
    BY DrainsIs
  <1>2. d \in Convo /\ Drains(c, on).relaying \in BOOLEAN
    BY <1>1
  <1> DEFINE b == [c EXCEPT !.draining = TRUE, !.turn = "begin"]
  <1>3. /\ b.by = Off /\ b.turn = "begin" /\ b.parked = c.parked /\ b.asked = c.asked
        /\ b.queue = c.queue /\ b.stalled = c.stalled
    BY DEF Convo
  <1>4. CASE Drains(c, on) = ChatNow(c, on) \/ Drains(c, on) = ChatNow(c, FALSE)
    <2>1. d = c
      BY <1>4 DEF ChatNow
    <2> QED BY <1>2, <2>1
  <1>5. CASE Drains(c, on) = ChatNow(b, on) /\ ~ChatBusy(c)
    <2>1. d = b
      BY <1>5 DEF ChatNow
    <2>2. ~c.parked
      BY <1>5 DEF ChatBusy
    <2> HIDE DEF b
    <2> QED BY <1>2, <1>3, <2>1, <2>2
  <1> QED BY <1>4, <1>5, DrainsIs

(* A choice of what may happen is counted down; the plan stays.            *)
LEMMA PayIs ==
    ASSUME BridgeTypes, NEW what \in {"parks", "throws", "others", "toggles", "restarts"}, TelegramPay(what)
    PROVE  telegramLeft' \in Scenario /\ telegramLeft'.plan = telegramLeft.plan
  <1> telegramLeft \in Scenario /\ telegramLeft[what] > 0
    BY DEF BridgeTypes, TelegramPay
  <1>1. CASE what = "parks" BY <1>1 DEF TelegramPay, Scenario
  <1>2. CASE what = "throws" BY <1>2 DEF TelegramPay, Scenario
  <1>3. CASE what = "others" BY <1>3 DEF TelegramPay, Scenario
  <1>4. CASE what = "toggles" BY <1>4 DEF TelegramPay, Scenario
  <1>5. CASE what = "restarts" BY <1>5 DEF TelegramPay, Scenario
  <1> QED BY <1>1, <1>2, <1>3, <1>4, <1>5

----------------------------------------------------------------------------
(* Where the loops, Telegram and the album stay, the hands that change are *)
(* let go or told to reply, and whoever awaits the turn is the turn's.     *)
LEMMA ChatMoves ==
    ASSUME WellFormed,
           UNCHANGED <<cloud, botRow, poll, current, album>>,
           telegramLeft' \in Scenario, telegramLeft'.plan = telegramLeft.plan,
           convo' \in Convo, relaying' \in BOOLEAN, tale' \in Tale,
           tale'.dropped = tale.dropped, hand' \in [Handlers -> Hand],
           \A h \in Handlers : \/ hand'[h] = hand[h]
                               \/ hand[h].stage = "begin" /\ hand'[h] = NoHand
                               \/ hand[h].stage = "begin" /\ hand'[h] = [hand[h] EXCEPT !.stage = "reply"],
           \A h \in Handlers : hand'[h].stage = "begin" <=> convo'.turn = "begin" /\ convo'.by = h,
           ChatSound'
    PROVE  WellFormed'
  <1>1. BridgeTypes'
    BY DEF WellFormed, BridgeTypes, Updates, Hand, Tale, Convo, Handlers
  <1>2. GivenUp'
    BY DEF WellFormed, GivenUp, KindOf
  <1>3. ASSUME NEW l \in PollSlots PROVE LoopSound(l)'
    <2>1. LoopSound(l) /\ l \in Handlers
      BY DEF WellFormed, Handlers
    <2>2. hand[l] = NoHand => hand'[l] = hand[l]
      BY <2>1 DEF NoHand
    <2> QED BY <2>1, <2>2 DEF LoopSound, Sent
  <1>4. ASSUME NEW h \in Handlers PROVE HandSound(h)'
    <2>1. HandSound(h) /\ hand[h] \in Hand
      BY DEF WellFormed, BridgeTypes
    <2>2. CASE hand'[h] = hand[h]
      BY <2>1, <2>2 DEF HandSound, KindOf
    <2>3. CASE hand[h].stage = "begin" /\ hand'[h] = NoHand
      <3>1. hand'[h].stage = "none" /\ hand'[h].parts = <<>>
        BY <2>3 DEF NoHand
      <3> QED BY <3>1 DEF HandSound
    <2>4. CASE hand[h].stage = "begin" /\ hand'[h] = [hand[h] EXCEPT !.stage = "reply"]
      <3>1. hand'[h].stage = "reply" /\ hand'[h].parts = hand[h].parts
        BY <2>1, <2>4 DEF Hand
      <3> QED BY <3>1, <2>1, <2>4 DEF HandSound
    <2> QED BY <2>2, <2>3, <2>4
  <1> QED BY <1>1, <1>2, <1>3, <1>4 DEF WellFormed

(* The turns, the planner's and others'.                                   *)
ChatActs == TurnBegins \/ TurnTakes \/ TurnAnswers \/ TurnParks \/ AnswerThrows
            \/ OthersStart \/ OthersApprove

(* The turns of the chat keep it.                                          *)
LEMMA ChatForms == WellFormed /\ ChatActs => WellFormed'
  <1> SUFFICES ASSUME WellFormed, ChatActs PROVE WellFormed'
    OBVIOUS
  <1>1. /\ BridgeTypes /\ ChatSound /\ convo \in Convo /\ tale \in Tale /\ relaying \in BOOLEAN
        /\ hand \in [Handlers -> Hand] /\ telegramLeft \in Scenario
        /\ \A h \in Handlers : hand[h].stage = "begin" <=> convo.turn = "begin" /\ convo.by = h
    BY DEF WellFormed, BridgeTypes, HandSound
  <1>2. /\ convo.asked \in SUBSET Updates /\ convo.queue \in SUBSET Updates
        /\ tale.unheard \in SUBSET Updates /\ tale.excused \in SUBSET Updates
    BY <1>1 DEF Convo, Tale
  <1>3. Says \in Tale /\ Says.dropped = tale.dropped
    BY <1>1, <1>2 DEF Says, Tale
  <1>4. NoHand \in Hand /\ NoHand.stage = "none"
    BY EmptySeq DEF NoHand, Hand
  <1>5. CASE TurnBegins
    <2>1. /\ convo' \in Convo /\ convo'.turn = "on" /\ convo'.by = Off
          /\ convo'.draining = convo.draining /\ convo'.parked = convo.parked
      <3>1. CASE convo.draining
        BY <1>1, <1>2, <1>5, <3>1 DEF TurnBegins, Convo
      <3>2. CASE ~convo.draining
        BY <1>1, <1>2, <1>5, <3>2 DEF TurnBegins, Convo
      <3> QED BY <3>1, <3>2
    <2>2. /\ hand' \in [Handlers -> Hand]
          /\ \A h \in Handlers : \/ hand'[h] = hand[h]
                                 \/ hand[h].stage = "begin" /\ hand'[h] = NoHand
          /\ \A h \in Handlers : hand'[h].stage # "begin"
      <3>1. \A h \in Handlers : h # Off
        BY TelegramAssumption DEF Handlers
      <3>2. CASE convo.by = Off
        BY <1>1, <1>5, <3>1, <3>2 DEF TurnBegins
      <3>3. CASE convo.by # Off
        <4>1. convo.by \in Handlers /\ convo.turn = "begin" /\ hand' = [hand EXCEPT ![convo.by] = NoHand]
          BY <1>1, <1>5, <3>3 DEF TurnBegins, Convo
        <4> QED BY <1>1, <1>4, <4>1
      <3> QED BY <3>2, <3>3
    <2>3. ChatSound'
      BY <1>1, <1>5, <2>1 DEF ChatSound, TurnBegins
    <2> QED BY <1>1, <1>5, <2>1, <2>2, <2>3, ChatMoves DEF TurnBegins
  <1>6. CASE TurnTakes
    <2>1. /\ convo' \in Convo /\ convo'.turn = "on" /\ convo'.by = convo.by
          /\ convo'.draining = convo.draining /\ convo'.parked = convo.parked
      BY <1>1, <1>2, <1>6 DEF TurnTakes, Convo
    <2>3. ChatSound'
      BY <1>1, <1>6, <2>1 DEF ChatSound, TurnTakes
    <2> QED BY <1>1, <1>6, <2>1, <2>3, ChatMoves DEF TurnTakes
  <1>7. CASE TurnAnswers
    <2> DEFINE c == EndedTurn(convo)
    <2>1. c \in Convo /\ c.turn = "none" /\ c.by = Off /\ ~c.draining
      BY <1>1 DEF EndedTurn, Convo
    <2>2. convo' = Drains(c, relaying).chat /\ relaying' = Drains(c, relaying).relaying
      BY <1>7 DEF TurnAnswers, ChatBecomes
    <2> HIDE DEF c
    <2>3. convo' \in Convo /\ relaying' \in BOOLEAN /\ convo'.by = Off /\ ChatSound'
      BY <1>1, <2>1, <2>2, DrainsTo DEF ChatSound
    <2>4. \A h \in Handlers : h # Off
      BY TelegramAssumption DEF Handlers
    <2>5. \A h \in Handlers : hand[h].stage # "begin"
      BY <1>1, <1>7 DEF TurnAnswers
    <2> QED BY <1>1, <1>3, <1>7, <2>3, <2>4, <2>5, ChatMoves DEF TurnAnswers
  <1>8. CASE TurnParks
    <2>1. convo' \in Convo /\ convo'.turn = "none" /\ convo'.by = convo.by /\ ~convo'.draining
      BY <1>1, <1>2, <1>8 DEF TurnParks, Convo
    <2>2. telegramLeft' \in Scenario /\ telegramLeft'.plan = telegramLeft.plan
      BY <1>1, <1>8, PayIs DEF TurnParks
    <2>3. ChatSound'
      BY <1>1, <1>8, <2>1 DEF ChatSound, TurnParks
    <2> QED BY <1>1, <1>3, <1>8, <2>1, <2>2, <2>3, ChatMoves DEF TurnParks
  <1>10. CASE OthersStart
    <2>1. /\ convo' \in Convo /\ convo'.turn = "begin" /\ convo'.by = convo.by
          /\ convo'.parked = convo.parked
      BY <1>1, <1>2, <1>10 DEF OthersStart, Convo
    <2>2. telegramLeft' \in Scenario /\ telegramLeft'.plan = telegramLeft.plan
      BY <1>1, <1>10, PayIs DEF OthersStart
    <2>3. convo.turn = "none" /\ convo.by = Off
      BY <1>1, <1>10 DEF OthersStart, ChatBusy, ChatSound
    <2>4. \A h \in Handlers : h # Off
      BY TelegramAssumption DEF Handlers
    <2>5. ChatSound'
      BY <1>10, <2>1 DEF ChatSound, OthersStart, ChatBusy
    <2> QED BY <1>1, <1>10, <2>1, <2>2, <2>3, <2>4, <2>5, ChatMoves DEF OthersStart
  <1>11. CASE OthersApprove
    <2>1. convo' \in Convo /\ convo'.turn = "begin" /\ convo'.by = convo.by /\ ~convo'.parked
      BY <1>1, <1>2, <1>11 DEF OthersApprove, Convo
    <2>2. telegramLeft' \in Scenario /\ telegramLeft'.plan = telegramLeft.plan
      BY <1>1, <1>11, PayIs DEF OthersApprove
    <2>3. convo.turn = "none" /\ convo.by = Off
      BY <1>1, <1>11 DEF OthersApprove, ChatSound
    <2>4. \A h \in Handlers : h # Off
      BY TelegramAssumption DEF Handlers
    <2>5. ChatSound'
      BY <2>1 DEF ChatSound
    <2> QED BY <1>1, <1>11, <2>1, <2>2, <2>3, <2>4, <2>5, ChatMoves DEF OthersApprove
  <1>9. CASE AnswerThrows
    <2> DEFINE stalls == convo.draining /\ convo.queue # {}
               c == [EndedTurn(convo) EXCEPT !.stalled = @ \/ stalls]
    <2>1. c \in Convo /\ c.turn = "none" /\ c.by = Off /\ ~c.draining
      BY <1>1 DEF EndedTurn, Convo
    <2>2. /\ convo' = Drains(c, relaying).chat
          /\ relaying' = (Drains(c, relaying).relaying
                            /\ (convo.by # Off => ChatBusy(Drains(c, relaying).chat)))
      BY <1>9 DEF AnswerThrows, ChatBecomes, ChatNow
    <2>3. /\ tale' = [tale EXCEPT !.excused = @ \cup convo.asked \cup IF stalls THEN convo.queue ELSE {}]
          /\ hand' = IF convo.by = Off THEN hand ELSE [hand EXCEPT ![convo.by].stage = "reply"]
          /\ convo.turn \in {"begin", "on"}
          /\ UNCHANGED <<cloud, botRow, poll, current, album>>
      BY <1>9 DEF AnswerThrows
    <2>4. telegramLeft' \in Scenario /\ telegramLeft'.plan = telegramLeft.plan
      BY <1>1, <1>9, PayIs DEF AnswerThrows
    <2>5. tale' \in Tale /\ tale'.dropped = tale.dropped
      BY <1>1, <1>2, <2>3 DEF Tale
    <2> HIDE DEF c, stalls
    <2>6. convo' \in Convo /\ relaying' \in BOOLEAN /\ convo'.by = Off /\ ChatSound'
      BY <1>1, <2>1, <2>2, DrainsTo DEF ChatSound
    <2>7. \A h \in Handlers : h # Off
      BY TelegramAssumption DEF Handlers
    <2>8. \A h \in Handlers : h # convo.by => hand'[h] = hand[h] /\ hand[h].stage # "begin"
      BY <1>1, <2>3
    <2>9. CASE convo.by = Off
      <3>1. hand' = hand
        BY <2>3, <2>9
      <3> QED BY <1>1, <2>3, <2>4, <2>5, <2>6, <2>7, <2>8, <2>9, <3>1, ChatMoves
    <2>10. CASE convo.by # Off
      <3>1. convo.by \in Handlers /\ convo.turn = "begin"
        BY <1>1, <2>3, <2>10 DEF Convo, ChatSound
      <3>2. hand[convo.by].stage = "begin" /\ hand[convo.by] \in Hand
        BY <1>1, <3>1
      <3>3. /\ hand'[convo.by] = [hand[convo.by] EXCEPT !.stage = "reply"]
            /\ hand'[convo.by] \in Hand /\ hand'[convo.by].stage = "reply"
            /\ DOMAIN hand' = Handlers /\ hand' = [h \in Handlers |-> hand'[h]]
        BY <1>1, <2>3, <2>10, <3>1, <3>2 DEF Hand
      <3>4. hand' \in [Handlers -> Hand]
        BY <1>1, <2>8, <3>3
      <3>5. \A h \in Handlers : hand'[h].stage # "begin"
        BY <2>8, <3>3
      <3> QED BY <1>1, <2>3, <2>4, <2>5, <2>6, <2>7, <2>8, <3>2, <3>3, <3>4, <3>5, ChatMoves
    <2> QED BY <2>9, <2>10
  <1> QED BY <1>5, <1>6, <1>7, <1>8, <1>9, <1>10, <1>11 DEF ChatActs

(* A message enters the chat: the handler waits for its turn or replies.   *)
LEMMA EntersIs ==
    ASSUME WellFormed, NEW h \in Handlers, NEW parts \in Seq(Updates), parts # <<>>,
           hand[h].stage # "begin", Enters(h, parts)
    PROVE  /\ convo' \in Convo /\ relaying' \in BOOLEAN /\ ChatSound'
           /\ tale' = Counted(tale, parts) /\ tale' \in Tale
           /\ \A u \in Updates : tale'.taken[u] = tale.taken[u] + Cardinality(Pos(parts, u))
           /\ tale' = [tale EXCEPT !.taken = tale'.taken]
           /\ hand' \in [Handlers -> Hand]
           /\ hand'[h].parts = parts /\ hand'[h].stage \in {"begin", "reply"}
           /\ \A k \in Handlers : k # h => hand'[k] = hand[k]
           /\ \A k \in Handlers : hand'[k].stage = "begin" <=> convo'.turn = "begin" /\ convo'.by = k
  <1>1. /\ BridgeTypes /\ ChatSound /\ convo \in Convo /\ tale \in Tale /\ relaying \in BOOLEAN
        /\ hand \in [Handlers -> Hand]
        /\ \A k \in Handlers : hand[k].stage = "begin" <=> convo.turn = "begin" /\ convo.by = k
    BY DEF WellFormed, BridgeTypes, HandSound
  <1>2. /\ tale' = Counted(tale, parts) /\ tale' \in Tale
        /\ \A u \in Updates : tale'.taken[u] = tale.taken[u] + Cardinality(Pos(parts, u))
        /\ tale' = [tale EXCEPT !.taken = tale'.taken]
    BY <1>1, CountedIs DEF Enters
  <1> DEFINE m == Min(ToSet(parts))
  <1>3. m \in Updates
    <2>1. ToSet(parts) \subseteq Updates /\ Updates \subseteq Nat
      BY DEF ToSet, Updates
    <2>2. parts[1] \in ToSet(parts)
      BY DEF ToSet
    <2> QED BY <2>1, <2>2, MinIsOne
  <1>4. \A st \in {"begin", "reply"} :
           /\ [stage |-> st, parts |-> parts] \in Hand
           /\ [stage |-> st, parts |-> parts].stage = st /\ [stage |-> st, parts |-> parts].parts = parts
    BY DEF Hand
  <1>5. \A k \in Handlers : k # Off
    BY TelegramAssumption DEF Handlers
  <1>6. ASSUME ~ChatBusy(convo),
               ChatBecomes(ChatNow([convo EXCEPT !.turn = "begin", !.by = h, !.asked = {m},
                                                 !.stalled = FALSE], TRUE)),
               hand' = [hand EXCEPT ![h] = [stage |-> "begin", parts |-> parts]]
        PROVE  /\ convo' \in Convo /\ relaying' \in BOOLEAN /\ ChatSound'
               /\ hand' \in [Handlers -> Hand]
               /\ hand'[h].parts = parts /\ hand'[h].stage \in {"begin", "reply"}
               /\ \A k \in Handlers : k # h => hand'[k] = hand[k]
               /\ \A k \in Handlers : hand'[k].stage = "begin" <=> convo'.turn = "begin" /\ convo'.by = k
    <2>1. /\ convo' = [convo EXCEPT !.turn = "begin", !.by = h, !.asked = {m}, !.stalled = FALSE]
          /\ relaying' = TRUE
      BY <1>6 DEF ChatBecomes, ChatNow
    <2>2. /\ convo' \in Convo /\ convo'.turn = "begin" /\ convo'.by = h
          /\ convo'.parked = convo.parked
      BY <1>1, <1>3, <2>1 DEF Convo
    <2>3. convo.turn = "none" /\ ~convo.parked
      BY <1>6 DEF ChatBusy
    <2>4. ChatSound'
      BY <2>2, <2>3 DEF ChatSound
    <2>5. /\ hand' \in [Handlers -> Hand]
          /\ hand'[h] = [stage |-> "begin", parts |-> parts]
          /\ \A k \in Handlers : k # h => hand'[k] = hand[k]
      BY <1>1, <1>4, <1>6
    <2>6. \A k \in Handlers : hand[k].stage # "begin"
      BY <1>1, <2>3
    <2>7. \A k \in Handlers : hand'[k].stage = "begin" <=> k = h
      BY <1>4, <2>5, <2>6
    <2> QED BY <1>4, <2>1, <2>2, <2>4, <2>5, <2>7
  <1>7. ASSUME ChatBusy(convo),
               \/ ChatBecomes(ChatNow([convo EXCEPT !.queue = @ \cup {m}, !.stalled = FALSE], TRUE))
               \/ UNCHANGED <<convo, relaying>>,
               hand' = [hand EXCEPT ![h] = [stage |-> "reply", parts |-> parts]]
        PROVE  /\ convo' \in Convo /\ relaying' \in BOOLEAN /\ ChatSound'
               /\ hand' \in [Handlers -> Hand]
               /\ hand'[h].parts = parts /\ hand'[h].stage \in {"begin", "reply"}
               /\ \A k \in Handlers : k # h => hand'[k] = hand[k]
               /\ \A k \in Handlers : hand'[k].stage = "begin" <=> convo'.turn = "begin" /\ convo'.by = k
    <2>1. /\ convo' \in Convo /\ convo'.turn = convo.turn /\ convo'.by = convo.by
          /\ convo'.parked = convo.parked /\ convo'.draining = convo.draining
          /\ relaying' \in BOOLEAN
      <3>1. CASE ChatBecomes(ChatNow([convo EXCEPT !.queue = @ \cup {m}, !.stalled = FALSE], TRUE))
        <4>1. convo' = [convo EXCEPT !.queue = @ \cup {m}, !.stalled = FALSE] /\ relaying' = TRUE
          BY <3>1 DEF ChatBecomes, ChatNow
        <4>2. convo.queue \cup {m} \in SUBSET Updates
          BY <1>1, <1>3 DEF Convo
        <4> QED BY <1>1, <4>1, <4>2 DEF Convo
      <3>2. CASE UNCHANGED <<convo, relaying>>
        BY <1>1, <3>2
      <3> QED BY <1>7, <3>1, <3>2
    <2>2. ChatSound'
      BY <1>1, <2>1 DEF ChatSound
    <2>5. /\ hand' \in [Handlers -> Hand]
          /\ hand'[h] = [stage |-> "reply", parts |-> parts]
          /\ \A k \in Handlers : k # h => hand'[k] = hand[k]
      BY <1>1, <1>4, <1>7
    <2>6. \A k \in Handlers : hand'[k].stage = "begin" <=> hand[k].stage = "begin"
      BY <1>4, <2>5
    <2> QED BY <1>1, <1>4, <2>1, <2>2, <2>5, <2>6
  <1>8. \/ /\ ~ChatBusy(convo)
           /\ ChatBecomes(ChatNow([convo EXCEPT !.turn = "begin", !.by = h, !.asked = {m},
                                                 !.stalled = FALSE], TRUE))
           /\ hand' = [hand EXCEPT ![h] = [stage |-> "begin", parts |-> parts]]
        \/ /\ ChatBusy(convo)
           /\ \/ ChatBecomes(ChatNow([convo EXCEPT !.queue = @ \cup {m}, !.stalled = FALSE], TRUE))
              \/ UNCHANGED <<convo, relaying>>
           /\ hand' = [hand EXCEPT ![h] = [stage |-> "reply", parts |-> parts]]
    BY DEF Enters
  <1> QED BY <1>2, <1>6, <1>7, <1>8

(* One handler moves on; Telegram, the loops and the album stay.           *)
LEMMA HandMoves ==
    ASSUME WellFormed, NEW h \in Handlers,
           UNCHANGED <<cloud, botRow, poll, current, album, telegramLeft>>,
           convo' \in Convo, relaying' \in BOOLEAN, tale' \in Tale, ChatSound',
           \A u \in tale'.dropped \ tale.dropped : KindOf(u) \in {"part", "tap"},
           hand' \in [Handlers -> Hand], hand[h].stage # "none",
           \A k \in Handlers : k # h => hand'[k] = hand[k],
           hand'[h].stage = "none" <=> hand'[h].parts = <<>>, hand'[h].stage \notin {"tap", "file"},
           \A k \in Handlers : hand'[k].stage = "begin" <=> convo'.turn = "begin" /\ convo'.by = k
    PROVE  WellFormed'
  <1>1. BridgeTypes'
    BY DEF WellFormed, BridgeTypes, Updates, Hand, Tale, Convo, Handlers
  <1>2. GivenUp'
    BY DEF WellFormed, GivenUp, KindOf
  <1>3. ASSUME NEW l \in PollSlots PROVE LoopSound(l)'
    <2>1. LoopSound(l) /\ l \in Handlers
      BY DEF WellFormed, Handlers
    <2>2. hand[l] = NoHand => hand'[l] = hand[l]
      BY <2>1 DEF NoHand
    <2> QED BY <2>1, <2>2 DEF LoopSound, Sent
  <1>4. ASSUME NEW k \in Handlers PROVE HandSound(k)'
    <2>1. HandSound(k)
      BY DEF WellFormed
    <2>2. CASE k # h
      BY <2>1, <2>2 DEF HandSound, KindOf
    <2>3. CASE k = h
      BY <2>3 DEF HandSound, KindOf
    <2> QED BY <2>2, <2>3
  <1> QED BY <1>1, <1>2, <1>3, <1>4 DEF WellFormed

HandActs(h) == FilesReceived(h) \/ FilesRefused(h) \/ Tapped(h) \/ TapFails(h) \/ Replied(h)

(* So do the steps of a handler: files, taps and replies.                  *)
LEMMA HandForms ==
    ASSUME WellFormed, NEW h \in Handlers, HandActs(h)
    PROVE  WellFormed'
  <1>1. /\ BridgeTypes /\ ChatSound /\ convo \in Convo /\ tale \in Tale /\ relaying \in BOOLEAN
        /\ hand \in [Handlers -> Hand] /\ hand[h] \in Hand /\ HandSound(h)
        /\ \A k \in Handlers : hand[k].stage = "begin" <=> convo.turn = "begin" /\ convo.by = k
    BY DEF WellFormed, BridgeTypes, HandSound
  <1>2. hand[h].parts \in Seq(Updates)
    BY <1>1 DEF Hand
  <1>3. NoHand \in Hand /\ NoHand.stage = "none" /\ NoHand.parts = <<>>
    BY EmptySeq DEF NoHand, Hand
  <1>4. \A st \in {"begin", "reply"} :
           /\ [hand[h] EXCEPT !.stage = st] \in Hand
           /\ [hand[h] EXCEPT !.stage = st].stage = st
           /\ [hand[h] EXCEPT !.stage = st].parts = hand[h].parts
    BY <1>1 DEF Hand
  <1>5. CASE FilesReceived(h)
    <2>1. hand[h].stage = "file" /\ hand[h].parts # <<>> /\ Enters(h, hand[h].parts)
      BY <1>1, <1>5 DEF FilesReceived, HandSound
    <2>2. tale'.dropped = tale.dropped
      BY <1>1, <1>2, <2>1, EntersIs DEF Tale
    <2> QED BY <1>2, <1>5, <2>1, <2>2, EntersIs, HandMoves DEF FilesReceived
  <1>6. CASE FilesRefused(h)
    <2>1. hand[h].stage = "file" /\ tale' \in Tale /\ tale'.dropped = tale.dropped
      BY <1>1, <1>2, <1>6, CountedIs DEF FilesRefused, Tale
    <2>2. /\ hand' \in [Handlers -> Hand] /\ hand'[h] = [hand[h] EXCEPT !.stage = "reply"]
          /\ \A k \in Handlers : k # h => hand'[k] = hand[k]
      BY <1>1, <1>4, <1>6 DEF FilesRefused
    <2>3. hand'[h].stage = "reply" /\ hand'[h].parts # <<>>
      BY <1>1, <1>4, <2>1, <2>2 DEF HandSound
    <2>4. \A k \in Handlers : hand'[k].stage = "begin" <=> hand[k].stage = "begin"
      BY <2>1, <2>2, <2>3
    <2>5. ChatSound' /\ UNCHANGED <<cloud, botRow, poll, current, album, telegramLeft, convo, relaying>>
      BY <1>1, <1>6 DEF FilesRefused, ChatSound
    <2>6. \A k \in Handlers : hand'[k].stage = "begin" <=> convo'.turn = "begin" /\ convo'.by = k
      BY <1>1, <2>4, <2>5
    <2>7. convo' \in Convo /\ relaying' \in BOOLEAN
      BY <1>1, <2>5
    <2> QED BY <2>1, <2>2, <2>3, <2>5, <2>6, <2>7, HandMoves
  <1>7. CASE TapFails(h)
    <2>1. hand[h].stage = "tap"
      BY <1>7 DEF TapFails
    <2>2. ToSet(hand[h].parts) \subseteq Updates /\ \A u \in ToSet(hand[h].parts) : KindOf(u) = "tap"
      BY <1>1, <1>2, <2>1 DEF ToSet, HandSound
    <2>3. tale' \in Tale /\ tale'.dropped = tale.dropped \cup ToSet(hand[h].parts)
      <3>1. tale' = [tale EXCEPT !.dropped = @ \cup ToSet(hand[h].parts)]
        BY <1>7 DEF TapFails
      <3> QED BY <1>1, <2>2, <3>1 DEF Tale
    <2>4. /\ hand' \in [Handlers -> Hand] /\ hand'[h] = NoHand
          /\ \A k \in Handlers : k # h => hand'[k] = hand[k]
      BY <1>1, <1>3, <1>7 DEF TapFails
    <2>5. \A k \in Handlers : hand'[k].stage = "begin" <=> hand[k].stage = "begin"
      BY <1>3, <2>1, <2>4
    <2>6. ChatSound' /\ UNCHANGED <<cloud, botRow, poll, current, album, telegramLeft, convo, relaying>>
      BY <1>1, <1>7 DEF TapFails, ChatSound
    <2> QED BY <1>1, <1>3, <2>1, <2>2, <2>3, <2>4, <2>5, <2>6, HandMoves
  <1>8. CASE Replied(h)
    <2>1. hand[h].stage = "reply"
      BY <1>8 DEF Replied
    <2>4. /\ hand' \in [Handlers -> Hand] /\ hand'[h] = NoHand
          /\ \A k \in Handlers : k # h => hand'[k] = hand[k]
      BY <1>1, <1>3, <1>8 DEF Replied
    <2>5. \A k \in Handlers : hand'[k].stage = "begin" <=> hand[k].stage = "begin"
      BY <1>3, <2>1, <2>4
    <2>6. ChatSound' /\ UNCHANGED <<cloud, botRow, poll, current, album, telegramLeft, convo, relaying, tale>>
      BY <1>1, <1>8 DEF Replied, ChatSound
    <2> QED BY <1>1, <1>3, <2>1, <2>4, <2>5, <2>6, HandMoves
  <1>9. CASE Tapped(h)
    <2>1. hand[h].stage = "tap" /\ tale' \in Tale /\ tale'.dropped = tale.dropped
      BY <1>1, <1>2, <1>9, CountedIs DEF Tapped, Tale
    <2>2. CASE /\ convo.parked
               /\ ChatBecomes(ChatNow([convo EXCEPT !.turn = "begin", !.by = h, !.parked = FALSE], TRUE))
               /\ hand' = [hand EXCEPT ![h].stage = "begin"]
      <3>1. convo' \in Convo /\ convo'.turn = "begin" /\ convo'.by = h /\ ~convo'.parked /\ relaying' = TRUE
        BY <1>1, <2>2 DEF ChatBecomes, ChatNow, Convo
      <3>2. ChatSound'
        BY <3>1 DEF ChatSound
      <3>3. \A k \in Handlers : hand[k].stage # "begin"
        BY <1>1, <2>2 DEF ChatSound
      <3>4. /\ hand' \in [Handlers -> Hand] /\ hand'[h] = [hand[h] EXCEPT !.stage = "begin"]
            /\ \A k \in Handlers : k # h => hand'[k] = hand[k]
        BY <1>1, <1>4, <2>2
      <3>5. hand'[h].stage = "begin" /\ hand'[h].parts # <<>>
        BY <1>1, <1>4, <2>1, <3>4 DEF HandSound
      <3>6. \A k \in Handlers : hand'[k].stage = "begin" <=> k = h
        BY <3>3, <3>4, <3>5
      <3>7. UNCHANGED <<cloud, botRow, poll, current, album, telegramLeft>>
        BY <1>9 DEF Tapped
      <3> QED BY <2>1, <3>1, <3>2, <3>4, <3>5, <3>6, <3>7, HandMoves, ZenonT(40)
    <2>3. CASE /\ ~convo.parked
               /\ ChatBecomes(ChatNow(convo, ChatBusy(convo)))
               /\ hand' = [hand EXCEPT ![h].stage = "reply"]
      <3>1. convo' = convo /\ relaying' \in BOOLEAN
        BY <2>3 DEF ChatBecomes, ChatNow, ChatBusy
      <3>4. /\ hand' \in [Handlers -> Hand] /\ hand'[h] = [hand[h] EXCEPT !.stage = "reply"]
            /\ \A k \in Handlers : k # h => hand'[k] = hand[k]
        BY <1>1, <1>4, <2>3
      <3>5. hand'[h].stage = "reply" /\ hand'[h].parts # <<>>
        BY <1>1, <1>4, <2>1, <3>4 DEF HandSound
      <3>6. \A k \in Handlers : hand'[k].stage = "begin" <=> hand[k].stage = "begin"
        BY <2>1, <3>4, <3>5
      <3>7. ChatSound' /\ UNCHANGED <<cloud, botRow, poll, current, album, telegramLeft>>
        BY <1>1, <1>9, <3>1 DEF Tapped, ChatSound
      <3> QED BY <1>1, <2>1, <3>1, <3>4, <3>5, <3>6, <3>7, HandMoves, ZenonT(40)
    <2> QED BY <1>9, <2>2, <2>3 DEF Tapped
  <1> QED BY <1>5, <1>6, <1>7, <1>8, <1>9 DEF HandActs

(* Loop l, or Telegram, moves; the chat, the hands and the album stay.     *)
LEMMA LoopMoves ==
    ASSUME WellFormed, UNCHANGED <<hand, album, convo, relaying>>,
           telegramLeft' \in Scenario, telegramLeft'.plan = telegramLeft.plan,
           cloud' \in [sent : Nat, floor : Nat], cloud'.sent <= Len(telegramLeft.plan),
           cloud'.floor \in 1 .. cloud'.sent + 1,
           botRow' \in [enabled : BOOLEAN, offset : Nat], botRow'.offset \in 1 .. cloud'.sent + 1,
           poll' \in [PollSlots -> Poll], current' \in PollSlots \cup {Off},
           tale' \in Tale, tale'.dropped = tale.dropped,
           \A l \in PollSlots : LoopSound(l)'
    PROVE  WellFormed'
  <1>1. BridgeTypes'
    BY DEF WellFormed, BridgeTypes, Updates, Hand, Tale, Convo, Handlers
  <1>2. GivenUp' /\ ChatSound'
    BY DEF WellFormed, GivenUp, KindOf, ChatSound
  <1>3. ASSUME NEW k \in Handlers PROVE HandSound(k)'
    BY DEF WellFormed, HandSound, KindOf
  <1> QED BY <1>1, <1>2, <1>3 DEF WellFormed

LoopActs(l) == PollServed(l) \/ PollAnswers(l) \/ PollFails(l) \/ BatchDone(l)

(* A loop's own step leaves the others as they are.                        *)
LEMMA OtherLoops ==
    ASSUME WellFormed, NEW l \in PollSlots, UNCHANGED <<hand, current>>, cloud'.sent = cloud.sent,
           cloud'.floor \in Nat, cloud'.floor >= cloud.floor,
           \A k \in PollSlots : k # l => poll'[k] = poll[k], LoopSound(l)'
    PROVE  \A k \in PollSlots : LoopSound(k)'
  <1> SUFFICES ASSUME NEW k \in PollSlots, k # l PROVE LoopSound(k)'
    OBVIOUS
  <1>1. LoopSound(k) /\ poll[k] \in Poll /\ cloud.floor \in Nat /\ poll'[k] = poll[k]
    BY DEF WellFormed, BridgeTypes
  <1>2. poll[k].batch # <<>> => poll[k].batch[1] \in Nat
    <2>1. poll[k].batch \in Seq(Nat)
      BY <1>1 DEF Poll
    <2> QED BY <2>1, NotEmpty
  <1>3. poll[k].batch # <<>> /\ poll[k].batch[1] <= cloud.floor => poll[k].batch[1] <= cloud'.floor
    BY <1>1, <1>2
  <1> QED BY <1>1, <1>3 DEF LoopSound, Sent

(* So does a poll: the call, its answer or failure, the end of a batch.    *)
LEMMA LoopForms ==
    ASSUME WellFormed, NEW l \in PollSlots, LoopActs(l)
    PROVE  WellFormed'
  <1>1. /\ BridgeTypes /\ tale \in Tale /\ telegramLeft \in Scenario
        /\ poll \in [PollSlots -> Poll] /\ poll[l] \in Poll /\ LoopSound(l) /\ l \in Handlers
        /\ cloud \in [sent : Nat, floor : Nat] /\ botRow \in [enabled : BOOLEAN, offset : Nat]
        /\ l # Off
    BY TelegramAssumption DEF WellFormed, BridgeTypes, Handlers
  <1>2. NoPoll \in Poll /\ NoPoll.state = "none" /\ NoPoll.batch = <<>> /\ NoPoll.offset = 0
        /\ NoPoll.aborted = FALSE
    BY EmptySeq DEF NoPoll, Poll
  <1>3. CASE PollServed(l)
    <2> DEFINE b == [i \in 1 .. cloud.sent + 1 - cloud'.floor |-> cloud'.floor + i - 1]
    <2>1. /\ cloud' \in [sent : Nat, floor : Nat] /\ cloud'.sent = cloud.sent
          /\ cloud'.floor = IF poll[l].offset > cloud.floor THEN poll[l].offset ELSE cloud.floor
          /\ poll[l].state = "asking"
      BY <1>1, <1>3 DEF PollServed, Poll
    <2>2. cloud'.floor \in 1 .. cloud'.sent + 1 /\ poll[l].offset <= cloud'.floor
      BY <1>1, <2>1 DEF BridgeTypes, LoopSound, Poll
    <2>3. b \in Seq(Nat) /\ DOMAIN b = 1 .. cloud.sent + 1 - cloud'.floor
          /\ \A i \in DOMAIN b : b[i] = cloud'.floor + i - 1
      <3>1. cloud.sent + 1 - cloud'.floor \in Nat
        BY <1>1, <2>1, <2>2
      <3>2. \A i \in 1 .. cloud.sent + 1 - cloud'.floor : cloud'.floor + i - 1 \in Nat
        BY <2>1, <2>2
      <3> QED BY <3>1, <3>2, IsASeq
    <2>4. poll' = [poll EXCEPT ![l].state = "answered", ![l].batch = b]
      BY <1>3 DEF PollServed
    <2> HIDE DEF b
    <2>5. /\ poll' \in [PollSlots -> Poll] /\ \A k \in PollSlots : k # l => poll'[k] = poll[k]
          /\ poll'[l] = [poll[l] EXCEPT !.state = "answered", !.batch = b]
      BY <1>1, <2>3, <2>4 DEF Poll
    <2>6. /\ poll'[l].state = "answered" /\ poll'[l].batch = b /\ poll'[l].offset = poll[l].offset
          /\ poll'[l].aborted = poll[l].aborted
      BY <1>1, <2>5 DEF Poll
    <2>7. b # <<>> => 1 \in DOMAIN b
      BY <2>3, NotEmpty
    <2>8. LoopSound(l)'
      <3>1. ASSUME NEW i \in DOMAIN b PROVE b[i] = b[1] + i - 1 /\ b[i] \in 1 .. cloud.sent
        <4> DEFINE f == cloud'.floor
        <4>1. f \in Int /\ f >= 1 /\ cloud.sent \in Int
          BY <1>1, <2>1, <2>2
        <4>2. i \in 1 .. cloud.sent + 1 - f /\ b[i] = f + i - 1
          BY <2>3, <3>1
        <4> HIDE DEF f
        <4>3. 1 \in 1 .. cloud.sent + 1 - f
          BY <4>1, <4>2
        <4>4. b[1] = f + 1 - 1
          BY <2>3, <4>3 DEF f
        <4> QED BY <4>1, <4>2, <4>4
      <3>2. b # <<>> => poll[l].offset <= b[1]
        <4>1. cloud'.floor \in Int /\ (b # <<>> => b[1] = cloud'.floor + 1 - 1)
          BY <2>2, <2>3, <2>7
        <4> QED BY <2>2, <4>1
      <3>3. UNCHANGED <<current, hand>>
        BY <1>3 DEF PollServed
      <3>4. b # <<>> => b[1] <= cloud'.floor
        <4>1. cloud'.floor \in Int /\ (b # <<>> => b[1] = cloud'.floor + 1 - 1)
          BY <2>2, <2>3, <2>7
        <4> QED BY <4>1
      <3> QED BY <1>1, <2>1, <2>6, <3>1, <3>2, <3>3, <3>4 DEF LoopSound, Sent
    <2>9. \A k \in PollSlots : LoopSound(k)'
      <3>1. cloud'.floor \in Nat /\ cloud'.floor >= cloud.floor
        BY <1>1, <2>1 DEF Poll
      <3>2. UNCHANGED <<current, hand>>
        BY <1>3 DEF PollServed
      <3> QED BY <2>1, <2>5, <2>8, <3>1, <3>2, OtherLoops
    <2> QED BY <1>1, <1>3, <2>1, <2>2, <2>5, <2>9, LoopMoves DEF PollServed, BridgeTypes
  <1>4. CASE PollAnswers(l)
    <2>1. /\ poll[l].state = "answered" /\ UNCHANGED <<cloud, botRow, current, hand, album, convo, relaying, telegramLeft>>
          /\ poll' \in [PollSlots -> Poll] /\ \A k \in PollSlots : k # l => poll'[k] = poll[k]
          /\ poll'[l] = IF poll[l].aborted THEN NoPoll
                        ELSE [poll[l] EXCEPT !.state = IF poll[l].batch = <<>> THEN "asking" ELSE "handling"]
      BY <1>1, <1>2, <1>4 DEF PollAnswers, Poll
    <2>2. ToSet(poll[l].batch) \subseteq Updates
      <3>1. \A i \in DOMAIN poll[l].batch : poll[l].batch[i] \in Sent
        BY <1>1 DEF LoopSound
      <3>2. Sent \subseteq Updates
        BY <1>1 DEF BridgeTypes, Sent, Updates, Scenario
      <3> QED BY <3>1, <3>2 DEF ToSet
    <2>3. tale' \in Tale /\ tale'.dropped = tale.dropped
      <3>1. tale' = [tale EXCEPT !.seen = @ \cup IF poll[l].aborted THEN {} ELSE ToSet(poll[l].batch)]
        BY <1>4 DEF PollAnswers
      <3> QED BY <1>1, <2>2, <3>1 DEF Tale
    <2>4. LoopSound(l)'
      <3>1. CASE poll[l].aborted
        BY <1>1, <1>2, <2>1, <3>1 DEF LoopSound, Sent
      <3>2. CASE ~poll[l].aborted
        <4>1. /\ poll'[l].batch = poll[l].batch /\ poll'[l].offset = poll[l].offset
              /\ poll'[l].aborted = poll[l].aborted
              /\ poll'[l].state = IF poll[l].batch = <<>> THEN "asking" ELSE "handling"
          BY <1>1, <2>1, <3>2 DEF Poll
        <4> QED BY <1>1, <2>1, <3>2, <4>1 DEF LoopSound, Sent
      <3> QED BY <3>1, <3>2
    <2>5. \A k \in PollSlots : LoopSound(k)'
      BY <1>1, <2>1, <2>4, OtherLoops
    <2> QED BY <1>1, <2>1, <2>3, <2>5, LoopMoves DEF BridgeTypes
  <1>5. CASE PollFails(l)
    <2>1. /\ poll[l].state \in {"asking", "answered"}
          /\ UNCHANGED <<cloud, botRow, current, hand, album, convo, relaying, tale, telegramLeft>>
          /\ poll' \in [PollSlots -> Poll] /\ \A k \in PollSlots : k # l => poll'[k] = poll[k]
          /\ poll'[l] = IF poll[l].aborted THEN NoPoll
                        ELSE [poll[l] EXCEPT !.state = "asking", !.batch = <<>>]
      BY <1>1, <1>2, <1>5, EmptySeq DEF PollFails, Poll
    <2>4. LoopSound(l)'
      <3>1. CASE poll[l].aborted
        BY <1>1, <1>2, <2>1, <3>1 DEF LoopSound, Sent
      <3>2. CASE ~poll[l].aborted
        <4>1. /\ poll'[l].batch = <<>> /\ poll'[l].offset = poll[l].offset
              /\ poll'[l].aborted = poll[l].aborted /\ poll'[l].state = "asking"
          BY <1>1, <2>1, <3>2 DEF Poll
        <4> QED BY <1>1, <2>1, <3>2, <4>1 DEF LoopSound, Sent
      <3> QED BY <3>1, <3>2
    <2>5. \A k \in PollSlots : LoopSound(k)'
      BY <1>1, <2>1, <2>4, OtherLoops
    <2> QED BY <1>1, <2>1, <2>5, LoopMoves DEF BridgeTypes
  <1>6. CASE BatchDone(l)
    <2>1. /\ poll[l].state = "handling" /\ hand[l] = NoHand /\ poll[l].batch = <<>>
          /\ UNCHANGED <<cloud, current, hand, album, convo, relaying, tale, telegramLeft>>
          /\ poll' \in [PollSlots -> Poll] /\ \A k \in PollSlots : k # l => poll'[k] = poll[k]
          /\ poll'[l] = IF poll[l].aborted THEN NoPoll ELSE [poll[l] EXCEPT !.state = "asking"]
          /\ botRow' \in [enabled : BOOLEAN, offset : Nat] /\ botRow'.offset = poll[l].offset
      BY <1>1, <1>2, <1>6 DEF BatchDone, Poll
    <2>2. botRow'.offset \in 1 .. cloud.sent + 1
      BY <1>1, <2>1 DEF LoopSound
    <2>4. LoopSound(l)'
      <3>1. CASE poll[l].aborted
        BY <1>1, <1>2, <2>1, <3>1 DEF LoopSound, Sent
      <3>2. CASE ~poll[l].aborted
        <4>1. /\ poll'[l].batch = <<>> /\ poll'[l].offset = poll[l].offset
              /\ poll'[l].aborted = poll[l].aborted /\ poll'[l].state = "asking"
          BY <1>1, <2>1, <3>2 DEF Poll
        <4> QED BY <1>1, <2>1, <3>2, <4>1 DEF LoopSound, Sent
      <3> QED BY <3>1, <3>2
    <2>5. \A k \in PollSlots : LoopSound(k)'
      BY <1>1, <2>1, <2>4, OtherLoops
    <2> QED BY <1>1, <2>1, <2>2, <2>5, LoopMoves DEF BridgeTypes
  <1> QED BY <1>3, <1>4, <1>5, <1>6 DEF LoopActs

(* A loop takes the next update of its batch.                              *)
LEMMA HandleForms ==
    ASSUME WellFormed, NEW l \in PollSlots, HandleUpdate(l)
    PROVE  WellFormed'
  <1> DEFINE b == poll[l].batch
             u == Head(b)
  <1>1. /\ BridgeTypes /\ ChatSound /\ convo \in Convo /\ tale \in Tale /\ relaying \in BOOLEAN
        /\ telegramLeft \in Scenario /\ poll \in [PollSlots -> Poll] /\ poll[l] \in Poll
        /\ hand \in [Handlers -> Hand] /\ album \in Seq(Updates) /\ LoopSound(l) /\ l \in Handlers
        /\ cloud \in [sent : Nat, floor : Nat] /\ cloud.sent <= Len(telegramLeft.plan)
        /\ \A k \in Handlers : hand[k].stage = "begin" <=> convo.turn = "begin" /\ convo.by = k
        /\ \A k \in Handlers : HandSound(k)
    BY DEF WellFormed, BridgeTypes, Handlers, HandSound
  <1>2. /\ poll[l].state = "handling" /\ hand[l] = NoHand /\ b # <<>>
        /\ poll' = [poll EXCEPT ![l].batch = Tail(@), ![l].offset = u + 1]
        /\ UNCHANGED <<cloud, botRow, current, telegramLeft>>
    BY DEF HandleUpdate
  <1>3. hand[l].stage = "none" /\ hand[l].parts = <<>>
    BY <1>2 DEF NoHand
  <1>4. b \in Seq(Nat) /\ (\A i \in DOMAIN b : b[i] = b[1] + i - 1 /\ b[i] \in Sent)
    BY <1>1 DEF Poll, LoopSound
  <1>5. u = b[1] /\ u \in Sent /\ u \in Nat /\ u >= 1 /\ u <= cloud.sent
    BY <1>1, <1>2, <1>4, NotEmpty, TailIs DEF Sent
  <1>6. Sent \subseteq Updates /\ u \in Updates /\ KindOf(u) \in Kinds
    <2>1. Len(telegramLeft.plan) \in Nat /\ telegramLeft.plan \in Seq(Kinds)
      BY <1>1 DEF Scenario
    <2>2. Sent \subseteq Updates
      BY <1>1, <2>1 DEF Sent, Updates
    <2> QED BY <1>5, <2>1, <2>2 DEF KindOf, Updates
  <1>7. /\ Tail(b) \in Seq(Nat) /\ DOMAIN Tail(b) \subseteq Nat
        /\ \A i \in DOMAIN Tail(b) : Tail(b)[i] = b[i + 1] /\ i + 1 \in DOMAIN b
        /\ Tail(b) # <<>> => 1 \in DOMAIN Tail(b)
    BY <1>2, <1>4, TailIs
  <1>8. ASSUME NEW i \in DOMAIN Tail(b)
        PROVE  Tail(b)[i] = Tail(b)[1] + i - 1 /\ Tail(b)[i] \in Sent
    <2>1. i \in Nat /\ 1 \in DOMAIN Tail(b)
      BY <1>7, <1>8
    <2>2. Tail(b)[i] = b[1] + (i + 1) - 1 /\ Tail(b)[i] \in Sent
      BY <1>4, <1>7, <1>8
    <2>3. Tail(b)[1] = b[1] + (1 + 1) - 1
      BY <1>4, <1>7, <2>1
    <2>4. b[1] \in Nat
      BY <1>5
    <2> QED BY <2>1, <2>2, <2>3, <2>4
  <1>9. Tail(b) # <<>> => Tail(b)[1] = u + 1
    <2>1. Tail(b) # <<>> => Tail(b)[1] = b[1] + (1 + 1) - 1
      BY <1>4, <1>7
    <2> QED BY <1>5, <2>1
  <1>19. poll' = [poll EXCEPT ![l].batch = Tail(b), ![l].offset = u + 1]
    BY <1>2
  <1> HIDE DEF b, u
  <1>10. /\ poll' \in [PollSlots -> Poll] /\ \A k \in PollSlots : k # l => poll'[k] = poll[k]
         /\ poll'[l] = [poll[l] EXCEPT !.batch = Tail(b), !.offset = u + 1]
    <2>1. poll \in [PollSlots -> Poll] /\ poll[l] \in Poll /\ Tail(b) \in Seq(Nat) /\ u + 1 \in Nat
      BY <1>1, <1>5, <1>7
    <2>2. [poll[l] EXCEPT !.batch = Tail(b), !.offset = u + 1] \in Poll
      BY <2>1 DEF Poll
    <2>3. DOMAIN poll = PollSlots
      BY <2>1
    <2>4. poll' = [poll EXCEPT ![l] = [poll[l] EXCEPT !.batch = Tail(b), !.offset = u + 1]]
      BY <1>19, <2>3
    <2> QED BY <2>1, <2>2, <2>4
  <1>11. /\ poll'[l].state = "handling" /\ poll'[l].batch = Tail(b) /\ poll'[l].offset = u + 1
         /\ poll'[l].aborted = poll[l].aborted
    BY <1>1, <1>2, <1>10 DEF Poll
  <1>12. LoopSound(l)'
    <2>1. /\ (l = current') = (poll'[l].state # "none" /\ ~poll'[l].aborted)
          /\ poll'[l].offset >= 1 /\ poll'[l].offset <= cloud'.sent + 1
      BY <1>1, <1>2, <1>5, <1>11 DEF LoopSound
    <2>2. \A i \in DOMAIN poll'[l].batch : /\ poll'[l].batch[i] = poll'[l].batch[1] + i - 1
                                           /\ poll'[l].batch[i] \in Sent'
      BY <1>2, <1>8, <1>11 DEF Sent
    <2>3. poll'[l].batch # <<>> => poll'[l].offset <= poll'[l].batch[1]
      BY <1>5, <1>9, <1>11
    <2> QED BY <1>11, <2>1, <2>2, <2>3 DEF LoopSound
  <1>13. ASSUME \A k \in Handlers : k # l => hand'[k] = hand[k] PROVE \A k \in PollSlots : LoopSound(k)'
    <2> SUFFICES ASSUME NEW k \in PollSlots, k # l PROVE LoopSound(k)'
      BY <1>12
    <2>1. LoopSound(k) /\ hand'[k] = hand[k] /\ poll'[k] = poll[k]
      BY <1>10, <1>13 DEF WellFormed, Handlers
    <2> QED BY <1>2, <2>1 DEF LoopSound, Sent
  <1>14. <<u>> \in Seq(Updates) /\ <<u>> # <<>> /\ DOMAIN <<u>> = {1} /\ <<u>>[1] = u
    BY <1>6
  <1>15. ASSUME convo' \in Convo, relaying' \in BOOLEAN, tale' \in Tale, ChatSound',
                hand' \in [Handlers -> Hand], album' \in Seq(Updates), GivenUp',
                \A k \in Handlers : k # l => hand'[k] = hand[k], HandSound(l)',
                \A k \in Handlers : hand'[k].stage = "begin" <=> convo'.turn = "begin" /\ convo'.by = k
         PROVE  WellFormed'
    <2>1. BridgeTypes'
      BY <1>1, <1>2, <1>10, <1>15 DEF BridgeTypes, Updates, Hand, Tale, Convo, Handlers
    <2>2. ASSUME NEW k \in Handlers, k # l PROVE HandSound(k)'
      BY <1>1, <1>2, <1>15, <2>2 DEF HandSound, KindOf
    <2> QED BY <1>13, <1>15, <2>1, <2>2 DEF WellFormed
  <1>16. CASE KindOf(u) = "text" /\ Enters(l, <<u>>) /\ UNCHANGED album
    <2>1. hand[l].stage # "begin"
      BY <1>3
    <2>2. /\ convo' \in Convo /\ relaying' \in BOOLEAN /\ ChatSound' /\ tale' \in Tale
          /\ tale' = [tale EXCEPT !.taken = tale'.taken]
          /\ hand' \in [Handlers -> Hand]
          /\ hand'[l].parts = <<u>> /\ hand'[l].stage \in {"begin", "reply"}
          /\ \A k \in Handlers : k # l => hand'[k] = hand[k]
          /\ \A k \in Handlers : hand'[k].stage = "begin" <=> convo'.turn = "begin" /\ convo'.by = k
      BY <1>1, <1>14, <1>16, <2>1, EntersIs
    <2>3. tale'.dropped = tale.dropped
      BY <1>1, <2>2 DEF Tale
    <2>4. HandSound(l)'
      BY <1>1, <1>14, <2>2 DEF HandSound
    <2>5. GivenUp'
      BY <1>2, <1>16, <2>3 DEF WellFormed, GivenUp, KindOf
    <2> QED BY <1>1, <1>15, <1>16, <2>2, <2>4, <2>5
  <1>17. CASE KindOf(u) = "part" /\ Buffers(u) /\ UNCHANGED <<hand, convo, relaying>>
    <2>1. /\ album' \in Seq(Updates) /\ tale' \in Tale
          /\ \A i \in DOMAIN album' : KindOf(album'[i]) = "part"
          /\ \A w \in tale'.dropped : KindOf(w) \in {"part", "tap"}
      <3>1. CASE album' = Append(album, u) /\ UNCHANGED tale
        <4>1. /\ album' \in Seq(Updates) /\ DOMAIN album' = 1 .. Len(album) + 1
              /\ \A i \in 1 .. Len(album) + 1 : album'[i] = IF i <= Len(album) THEN album[i] ELSE u
          BY <1>1, <1>6, <3>1, AppendProperties
        <4>2. /\ \A i \in DOMAIN album : KindOf(album[i]) = "part"
              /\ DOMAIN album = 1 .. Len(album) /\ Len(album) \in Nat
          BY <1>1 DEF WellFormed, GivenUp
        <4>3. ASSUME NEW i \in 1 .. Len(album) + 1 PROVE KindOf(album'[i]) = "part"
          <5>1. CASE i <= Len(album)
            BY <4>1, <4>2, <5>1
          <5>2. CASE ~(i <= Len(album))
            BY <1>17, <4>1, <5>2
          <5> QED BY <5>1, <5>2
        <4> QED BY <1>1, <3>1, <4>1, <4>3 DEF WellFormed, GivenUp
      <3>2. CASE tale' = [tale EXCEPT !.dropped = @ \cup {u}] /\ UNCHANGED album
        <4>1. tale' \in Tale /\ tale'.dropped = tale.dropped \cup {u}
          BY <1>1, <1>6, <3>2 DEF Tale
        <4> QED BY <1>1, <1>17, <3>2, <4>1 DEF WellFormed, GivenUp
      <3> QED BY <1>17, <3>1, <3>2 DEF Buffers
    <2>2. GivenUp' /\ ChatSound'
      BY <1>1, <1>2, <1>17, <2>1 DEF GivenUp, KindOf, ChatSound
    <2>3. HandSound(l)'
      BY <1>1, <1>2, <1>17 DEF HandSound, KindOf
    <2> QED BY <1>1, <1>15, <1>17, <2>1, <2>2, <2>3
  <1>18. CASE /\ KindOf(u) \in {"file", "tap"}
              /\ hand' = [hand EXCEPT ![l] = [stage |-> KindOf(u), parts |-> <<u>>]]
              /\ UNCHANGED <<album, convo, relaying, tale>>
    <2>1. /\ [stage |-> KindOf(u), parts |-> <<u>>] \in Hand
          /\ [stage |-> KindOf(u), parts |-> <<u>>].stage = KindOf(u)
          /\ [stage |-> KindOf(u), parts |-> <<u>>].parts = <<u>>
      BY <1>14, <1>18 DEF Hand
    <2>2. /\ hand' \in [Handlers -> Hand] /\ \A k \in Handlers : k # l => hand'[k] = hand[k]
          /\ hand'[l].stage = KindOf(u) /\ hand'[l].parts = <<u>>
      BY <1>1, <1>18, <2>1
    <2>3. l \notin AlbumSlots
      BY TelegramAssumption
    <2>4. hand'[l].stage # "begin" /\ hand'[l].stage # "none" /\ hand[l].stage # "begin"
      BY <1>3, <1>18, <2>2
    <2>5. \A k \in Handlers : hand'[k].stage = "begin" <=> convo'.turn = "begin" /\ convo'.by = k
      BY <1>1, <1>18, <2>2, <2>4
    <2>6. HandSound(l)'
      BY <1>1, <1>2, <1>14, <2>2, <2>3, <2>4, <2>5 DEF HandSound, KindOf
    <2>7. GivenUp' /\ ChatSound'
      BY <1>1, <1>2, <1>18 DEF WellFormed, GivenUp, KindOf, ChatSound
    <2> QED BY <1>1, <1>15, <1>18, <2>2, <2>5, <2>6, <2>7
  <1> QED BY <1>16, <1>17, <1>18 DEF HandleUpdate, u, b

(* An album's timer runs out.                                              *)
LEMMA AlbumForms ==
    ASSUME WellFormed, NEW h \in AlbumSlots, AlbumDue(h)
    PROVE  WellFormed'
  <1>1. /\ BridgeTypes /\ ChatSound /\ hand \in [Handlers -> Hand] /\ album \in Seq(Updates)
        /\ h \in Handlers /\ h \notin PollSlots
        /\ \A k \in Handlers : HandSound(k)
        /\ \A i \in DOMAIN album : KindOf(album[i]) = "part"
    BY TelegramAssumption DEF WellFormed, BridgeTypes, Handlers, GivenUp
  <1>2. /\ album # <<>> /\ hand[h] = NoHand /\ album' = <<>>
        /\ hand' = [hand EXCEPT ![h] = [stage |-> "file", parts |-> album]]
        /\ UNCHANGED <<cloud, botRow, poll, current, convo, relaying, tale, telegramLeft>>
    BY DEF AlbumDue
  <1>3. hand[h].stage = "none"
    BY <1>2 DEF NoHand
  <1>4. [stage |-> "file", parts |-> album] \in Hand
    BY <1>1 DEF Hand
  <1>5. /\ hand' \in [Handlers -> Hand] /\ \A k \in Handlers : k # h => hand'[k] = hand[k]
        /\ hand'[h].stage = "file" /\ hand'[h].parts = album
    BY <1>1, <1>2, <1>4
  <1>6. BridgeTypes'
    BY <1>1, <1>2, <1>5, EmptySeq DEF BridgeTypes, Updates, Hand, Tale, Convo, Handlers
  <1>7. GivenUp' /\ ChatSound'
    BY <1>1, <1>2 DEF WellFormed, GivenUp, KindOf, ChatSound
  <1>8. ASSUME NEW l \in PollSlots PROVE LoopSound(l)'
    <2>1. LoopSound(l) /\ l \in Handlers /\ l # h
      BY <1>1 DEF WellFormed, Handlers
    <2> QED BY <1>2, <1>5, <2>1 DEF LoopSound, Sent
  <1>9. ASSUME NEW k \in Handlers PROVE HandSound(k)'
    <2>1. CASE k # h
      BY <1>1, <1>2, <1>5, <2>1 DEF HandSound, KindOf
    <2>2. CASE k = h
      BY <1>1, <1>2, <1>3, <1>5, <2>2 DEF HandSound, KindOf
    <2> QED BY <2>1, <2>2
  <1> QED BY <1>6, <1>7, <1>8, <1>9 DEF WellFormed

(* What Telegram, a person or the poller's tick may do.                    *)
LEMMA ArrivalForms == WellFormed /\ UpdateArrives => WellFormed'
  <1> SUFFICES ASSUME WellFormed, UpdateArrives PROVE WellFormed'
    OBVIOUS
  <1>1. /\ BridgeTypes /\ telegramLeft \in Scenario /\ cloud \in [sent : Nat, floor : Nat]
        /\ tale \in Tale /\ Len(telegramLeft.plan) \in Nat
    BY DEF WellFormed, BridgeTypes, Scenario
  <1>2. /\ cloud.sent < Len(telegramLeft.plan) /\ cloud' = [cloud EXCEPT !.sent = @ + 1]
        /\ UNCHANGED <<botRow, poll, current, hand, album, convo, relaying, tale, telegramLeft>>
    BY DEF UpdateArrives
  <1>3. /\ cloud' \in [sent : Nat, floor : Nat] /\ cloud'.sent = cloud.sent + 1
        /\ cloud'.floor = cloud.floor
    BY <1>1, <1>2
  <1>4. /\ cloud'.sent <= Len(telegramLeft.plan) /\ cloud'.floor \in 1 .. cloud'.sent + 1
        /\ botRow'.offset \in 1 .. cloud'.sent + 1
    BY <1>1, <1>2, <1>3 DEF BridgeTypes
  <1>5. ASSUME NEW l \in PollSlots PROVE LoopSound(l)'
    <2>1. LoopSound(l) /\ poll[l] \in Poll
      BY <1>1 DEF WellFormed, BridgeTypes
    <2>2. Sent \subseteq Sent'
      BY <1>1, <1>3 DEF Sent
    <2>3. poll[l].offset <= cloud.sent + 1 => poll[l].offset <= cloud'.sent + 1
      BY <1>1, <1>3, <2>1 DEF Poll
    <2> QED BY <1>2, <2>1, <2>2, <2>3 DEF LoopSound
  <1> QED BY <1>1, <1>2, <1>3, <1>4, <1>5, LoopMoves DEF BridgeTypes

(* Disabling or enabling the bot changes its row only.                     *)
LEMMA ToggleForms == WellFormed /\ BotToggled => WellFormed'
  <1> SUFFICES ASSUME WellFormed, BotToggled PROVE WellFormed'
    OBVIOUS
  <1>1. /\ BridgeTypes /\ botRow \in [enabled : BOOLEAN, offset : Nat] /\ tale \in Tale
    BY DEF WellFormed, BridgeTypes
  <1>2. /\ botRow' = [botRow EXCEPT !.enabled = ~@] /\ TelegramPay("toggles")
        /\ UNCHANGED <<cloud, poll, current, hand, album, convo, relaying, tale>>
    BY DEF BotToggled
  <1>3. botRow' \in [enabled : BOOLEAN, offset : Nat] /\ botRow'.offset = botRow.offset
    BY <1>1, <1>2
  <1>4. telegramLeft' \in Scenario /\ telegramLeft'.plan = telegramLeft.plan
    BY <1>1, <1>2, PayIs
  <1>5. \A l \in PollSlots : LoopSound(l)'
    BY <1>2 DEF WellFormed, LoopSound, Sent
  <1> QED BY <1>1, <1>2, <1>3, <1>4, <1>5, LoopMoves DEF BridgeTypes

(* reconcile() aborts the active loop, or starts one in a free slot.       *)
LEMMA ReconcileForms == WellFormed /\ Reconcile => WellFormed'
  <1> SUFFICES ASSUME WellFormed, Reconcile PROVE WellFormed'
    OBVIOUS
  <1>1. /\ BridgeTypes /\ poll \in [PollSlots -> Poll] /\ current \in PollSlots \cup {Off} /\ tale \in Tale
        /\ \A l \in PollSlots : LoopSound(l) /\ poll[l] \in Poll /\ l # Off
        /\ telegramLeft \in Scenario /\ cloud \in [sent : Nat, floor : Nat]
        /\ botRow \in [enabled : BOOLEAN, offset : Nat] /\ botRow.offset \in 1 .. cloud.sent + 1
    BY TelegramAssumption DEF WellFormed, BridgeTypes
  <1>2. UNCHANGED <<cloud, botRow, hand, album, convo, relaying, telegramLeft>>
    BY DEF Reconcile
  <1>3. CASE /\ ~botRow.enabled /\ current # Off
             /\ poll' = [poll EXCEPT ![current].aborted = TRUE]
             /\ current' = Off
             /\ tale' = Shaken(tale)
    <2>1. current \in PollSlots
      BY <1>1, <1>3
    <2>2. /\ poll' \in [PollSlots -> Poll] /\ \A k \in PollSlots : k # current => poll'[k] = poll[k]
          /\ poll'[current] = [poll[current] EXCEPT !.aborted = TRUE]
      <3>1. [poll[current] EXCEPT !.aborted = TRUE] \in Poll
        BY <1>1, <2>1 DEF Poll
      <3> QED BY <1>1, <1>3, <2>1, <3>1
    <2>3. /\ poll'[current].state = poll[current].state /\ poll'[current].aborted = TRUE
          /\ poll'[current].offset = poll[current].offset /\ poll'[current].batch = poll[current].batch
      BY <1>1, <2>1, <2>2 DEF Poll
    <2>4. tale' \in Tale /\ tale'.dropped = tale.dropped
      BY <1>1, <1>3, ShakenIs DEF Tale
    <2>5. ASSUME NEW l \in PollSlots PROVE LoopSound(l)'
      <3>1. CASE l # current
        BY <1>1, <1>2, <1>3, <2>2, <3>1 DEF LoopSound, Sent
      <3>2. CASE l = current
        <4>1. poll[l].state # "none" /\ ~poll[l].aborted /\ LoopSound(l)
          BY <1>1, <3>2 DEF LoopSound
        <4> QED BY <1>1, <1>2, <1>3, <2>3, <3>2, <4>1 DEF LoopSound, Sent
      <3> QED BY <3>1, <3>2
    <2> QED BY <1>1, <1>2, <1>3, <2>2, <2>4, <2>5, LoopMoves DEF BridgeTypes
  <1>4. CASE /\ botRow.enabled /\ current = Off
             /\ \E l \in PollSlots : poll[l] = NoPoll
             /\ LET l == Min({l \in PollSlots : poll[l] = NoPoll}) IN
                  /\ poll' = [poll EXCEPT ![l] = [NoPoll EXCEPT !.state = "asking",
                                                                !.offset = botRow.offset]]
                  /\ current' = l
             /\ UNCHANGED tale
    <2> DEFINE l == Min({k \in PollSlots : poll[k] = NoPoll})
               v == [NoPoll EXCEPT !.state = "asking", !.offset = botRow.offset]
    <2>1. l \in PollSlots /\ poll[l] = NoPoll
      <3>1. PollSlots \subseteq Nat
        BY TelegramAssumption
      <3> DEFINE Ts == {k \in PollSlots : poll[k] = NoPoll}
      <3>2. Ts \in SUBSET Nat /\ Ts # {}
        BY <1>4, <3>1
      <3> HIDE DEF Ts
      <3>3. Min(Ts) \in Ts
        BY <3>2, MinIsOne
      <3> QED BY <3>3 DEF Ts
    <2>2. poll' = [poll EXCEPT ![l] = v] /\ current' = l
      BY <1>4
    <2> HIDE DEF l
    <2>3. v \in Poll /\ v.state = "asking" /\ v.offset = botRow.offset /\ v.batch = <<>> /\ v.aborted = FALSE
      BY <1>1, EmptySeq DEF NoPoll, Poll
    <2> HIDE DEF v
    <2>4. /\ poll' \in [PollSlots -> Poll] /\ poll'[l] = v
          /\ \A k \in PollSlots : k # l => poll'[k] = poll[k]
      BY <1>1, <2>1, <2>2, <2>3
    <2>5. ASSUME NEW k \in PollSlots PROVE LoopSound(k)'
      <3>1. CASE k # l
        <4>1. (k = current') = (k = current)
          BY <1>1, <1>4, <2>2, <3>1
        <4> QED BY <1>1, <1>2, <2>4, <3>1, <4>1 DEF LoopSound, Sent
      <3>2. CASE k = l
        <4>1. hand[l] = NoHand
          BY <1>1, <2>1 DEF LoopSound, NoPoll
        <4> QED BY <1>1, <1>2, <2>2, <2>3, <2>4, <3>2, <4>1 DEF LoopSound, Sent
      <3> QED BY <3>1, <3>2
    <2> QED BY <1>1, <1>2, <1>4, <2>1, <2>2, <2>4, <2>5, LoopMoves DEF BridgeTypes
  <1> QED BY <1>3, <1>4 DEF Reconcile

(* A restart leaves Telegram and the row, and what the chat had queued.    *)
Cold == /\ poll = [l \in PollSlots |-> NoPoll] /\ current = Off
        /\ hand = [h \in Handlers |-> NoHand] /\ album = <<>>

ColdIsForm == /\ poll \in [PollSlots -> Poll] /\ current \in PollSlots \cup {Off}
              /\ hand \in [Handlers -> Hand] /\ album \in Seq(Updates)
              /\ \A h \in Handlers : hand[h].stage = "none" /\ hand[h].parts = <<>>
              /\ cloud.sent \in Nat => \A l \in PollSlots : LoopSound(l)

(* Nothing runs: the loops and the handlers are well formed.               *)
LEMMA ColdForms == Cold => ColdIsForm
  <1> SUFFICES ASSUME Cold PROVE ColdIsForm
    OBVIOUS
  <1>1. NoPoll \in Poll /\ NoPoll.state = "none" /\ NoPoll.batch = <<>> /\ NoPoll.offset = 0
    BY EmptySeq DEF NoPoll, Poll
  <1>2. NoHand \in Hand /\ NoHand.stage = "none" /\ NoHand.parts = <<>>
    BY EmptySeq DEF NoHand, Hand
  <1>3. poll \in [PollSlots -> Poll] /\ hand \in [Handlers -> Hand] /\ album \in Seq(Updates)
    BY <1>1, <1>2, EmptySeq DEF Cold
  <1>4. \A h \in Handlers : hand[h] = NoHand
    BY DEF Cold
  <1>5. ASSUME NEW l \in PollSlots, cloud.sent \in Nat PROVE LoopSound(l)
    <2>1. poll[l] = NoPoll /\ hand[l] = NoHand /\ l # Off /\ current = Off
      BY <1>4, TelegramAssumption DEF Cold, Handlers
    <2>2. poll[l].batch = <<>> /\ poll[l].state = "none" /\ poll[l].offset = 0
      BY <1>1, <2>1
    <2> QED BY <1>5, <2>1, <2>2 DEF LoopSound
  <1> QED BY <1>2, <1>3, <1>4, <1>5 DEF Cold, ColdIsForm

(* A restart keeps it: what is given up of albums are parts.               *)
LEMMA RestartForms == WellFormed /\ TelegramRestart => WellFormed'
  <1> SUFFICES ASSUME WellFormed, TelegramRestart PROVE WellFormed'
    OBVIOUS
  <1>1. /\ BridgeTypes /\ convo \in Convo /\ tale \in Tale /\ hand \in [Handlers -> Hand]
        /\ album \in Seq(Updates) /\ telegramLeft \in Scenario /\ cloud.sent \in Nat
        /\ \A h \in Handlers : hand[h] \in Hand /\ HandSound(h)
        /\ \A i \in DOMAIN album : KindOf(album[i]) = "part"
        /\ \A u \in tale.dropped : KindOf(u) \in {"part", "tap"}
    BY DEF WellFormed, BridgeTypes, GivenUp
  <1> DEFINE c == [QuietChat EXCEPT !.queue = convo.queue]
             gone == ToSet(album) \cup UNION {ToSet(hand[h].parts) :
                              h \in {a \in AlbumSlots : hand[a].stage = "file"}}
  <1>2. /\ Cold' /\ UNCHANGED <<cloud, botRow>> /\ TelegramPay("restarts")
        /\ convo' = Drains(c, FALSE).chat /\ relaying' = Drains(c, FALSE).relaying
        /\ tale' = [Shaken(tale) EXCEPT !.dropped = @ \cup gone,
                                        !.excused = @ \cup convo.asked \cup convo.queue]
    BY DEF TelegramRestart, Cold, ChatBecomes, Handlers
  <1>3. convo.asked \in SUBSET Updates /\ convo.queue \in SUBSET Updates
    BY <1>1 DEF Convo
  <1>4. c \in Convo /\ c.turn = "none" /\ c.by = Off /\ ~c.draining
    BY <1>3 DEF QuietChat, Convo
  <1>5. /\ gone \in SUBSET Updates /\ \A u \in gone : KindOf(u) = "part"
    <2>1. \A u \in ToSet(album) : u \in Updates /\ KindOf(u) = "part"
      BY <1>1 DEF ToSet
    <2>2. ASSUME NEW h \in AlbumSlots, hand[h].stage = "file", NEW u \in ToSet(hand[h].parts)
          PROVE  u \in Updates /\ KindOf(u) = "part"
      <3>1. h \in Handlers
        BY DEF Handlers
      <3>2. hand[h].parts \in Seq(Updates)
        BY <1>1, <3>1 DEF Hand
      <3>3. PICK i \in DOMAIN hand[h].parts : hand[h].parts[i] = u
        BY <2>2 DEF ToSet
      <3> QED BY <1>1, <2>2, <3>1, <3>2, <3>3 DEF HandSound
    <2> QED BY <2>1, <2>2
  <1> HIDE DEF c, gone
  <1>6. tale' \in Tale /\ tale'.dropped = tale.dropped \cup gone
    <2> DEFINE t == Shaken(tale)
    <2>1. t \in Tale /\ t.dropped = tale.dropped
      BY <1>1, ShakenIs DEF Tale
    <2>2. tale' = [t EXCEPT !.dropped = @ \cup gone, !.excused = @ \cup convo.asked \cup convo.queue]
      BY <1>2
    <2> HIDE DEF t
    <2> QED BY <1>3, <1>5, <2>1, <2>2 DEF Tale
  <1>7. convo' \in Convo /\ relaying' \in BOOLEAN /\ convo'.by = Off /\ ChatSound'
    BY <1>2, <1>4, DrainsTo, ZenonT(40) DEF ChatSound
  <1>8. telegramLeft' \in Scenario /\ telegramLeft'.plan = telegramLeft.plan
    BY <1>1, <1>2, PayIs
  <1>9. /\ poll' \in [PollSlots -> Poll] /\ current' \in PollSlots \cup {Off}
        /\ hand' \in [Handlers -> Hand]' /\ album' \in Seq(Updates)'
        /\ \A h \in Handlers : hand'[h].stage = "none" /\ hand'[h].parts = <<>>
        /\ \A l \in PollSlots : LoopSound(l)'
    <2>1. (Cold => ColdIsForm)'
      BY ColdForms, PTL
    <2>2. ColdIsForm'
      BY <1>2, <2>1
    <2> QED BY <1>1, <1>2, <2>2 DEF ColdIsForm, Poll, Handlers
  <1>10. BridgeTypes'
    BY <1>1, <1>2, <1>6, <1>7, <1>8, <1>9 DEF BridgeTypes, Updates, Tale, Convo, Handlers
  <1>11. GivenUp'
    BY <1>1, <1>2, <1>5, <1>6, <1>8 DEF GivenUp, KindOf, Cold
  <1>12. \A h \in Handlers : HandSound(h)'
    <2>1. \A h \in Handlers : h # Off
      BY TelegramAssumption DEF Handlers
    <2> QED BY <1>7, <1>9, <2>1 DEF HandSound
  <1> QED BY <1>7, <1>9, <1>10, <1>11, <1>12 DEF WellFormed, Handlers

(* It begins that way.                                                     *)
LEMMA BridgeBegins == TelegramInit => WellFormed
  <1> SUFFICES ASSUME TelegramInit PROVE WellFormed
    OBVIOUS
  <1>1. /\ telegramLeft \in Scenario /\ Len(telegramLeft.plan) \in Nat
        /\ cloud = [sent |-> 0, floor |-> 1] /\ botRow = [enabled |-> TRUE, offset |-> 1]
        /\ Cold /\ convo = QuietChat /\ relaying = FALSE /\ tale = NoTale
    BY TelegramAssumption DEF TelegramInit, Scenario, Cold
  <1>2. convo \in Convo /\ convo.turn = "none" /\ convo.by = Off /\ ~convo.draining /\ ~convo.parked
    BY <1>1 DEF QuietChat, Convo
  <1>3. tale \in Tale /\ tale.dropped = {}
    BY <1>1 DEF NoTale, Tale, Updates
  <1>4. /\ poll \in [PollSlots -> Poll] /\ current \in PollSlots \cup {Off}
        /\ hand \in [Handlers -> Hand] /\ album \in Seq(Updates)
        /\ \A h \in Handlers : hand[h].stage = "none" /\ hand[h].parts = <<>>
        /\ \A l \in PollSlots : LoopSound(l)
    BY <1>1, ColdForms DEF ColdIsForm
  <1>5. BridgeTypes
    <2>1. /\ cloud \in [sent : Nat, floor : Nat] /\ cloud.sent = 0 /\ cloud.floor = 1
          /\ botRow \in [enabled : BOOLEAN, offset : Nat] /\ botRow.offset = 1
      BY <1>1
    <2>2. /\ cloud.sent <= Len(telegramLeft.plan) /\ cloud.floor \in 1 .. cloud.sent + 1
          /\ botRow.offset \in 1 .. cloud.sent + 1
      BY <1>1, <2>1
    <2>3. relaying \in BOOLEAN
      BY <1>1
    <2>4. telegramLeft \in Scenario
      BY <1>1
    <2> QED BY <1>2, <1>3, <1>4, <2>1, <2>2, <2>3, <2>4 DEF BridgeTypes
  <1>6. GivenUp /\ ChatSound
    BY <1>1, <1>2, <1>3 DEF GivenUp, ChatSound, Cold
  <1>7. \A h \in Handlers : HandSound(h)
    BY <1>2, <1>4 DEF HandSound
  <1> QED BY <1>4, <1>5, <1>6, <1>7 DEF WellFormed

(* Every step keeps it.                                                    *)
LEMMA BridgeStays == WellFormed /\ [TelegramNext]_telegramVars => WellFormed'
  <1> SUFFICES ASSUME WellFormed, [TelegramNext]_telegramVars PROVE WellFormed'
    OBVIOUS
  <1>1. CASE UNCHANGED telegramVars
    <2>1. BridgeTypes' /\ ChatSound' /\ GivenUp'
      BY <1>1 DEF telegramVars, WellFormed, BridgeTypes, ChatSound, GivenUp, KindOf, Updates, Hand, Tale,
                  Convo, Handlers
    <2>2. ASSUME NEW l \in PollSlots PROVE LoopSound(l)'
      BY <1>1 DEF telegramVars, WellFormed, LoopSound, Sent
    <2>3. ASSUME NEW h \in Handlers PROVE HandSound(h)'
      BY <1>1 DEF telegramVars, WellFormed, HandSound, KindOf
    <2> QED BY <2>1, <2>2, <2>3 DEF WellFormed
  <1>2. CASE TelegramNext
    BY <1>2, ChatForms, HandForms, LoopForms, HandleForms, AlbumForms, ArrivalForms, ToggleForms,
       ReconcileForms, RestartForms DEF TelegramNext, ChatActs, HandActs, LoopActs
  <1> QED BY <1>1, <1>2

(* The loops, the handlers and the chat belong together, in every state.   *)
THEOREM BridgeInvariant == TelegramSpec => []WellFormed
  <1> QED BY BridgeBegins, BridgeStays, PTL DEF TelegramSpec

(* Types: the active loop runs and is not aborted, all others are on their *)
(* way out, and a handler that awaits a turn is the turn's.                *)
THEOREM TelegramTypes == TelegramSpec => []TelegramTypeOK
  <1>1. WellFormed => TelegramTypeOK
    <2> SUFFICES ASSUME WellFormed PROVE TelegramTypeOK
      OBVIOUS
    <2>1. BridgeTypes /\ ChatSound
      BY DEF WellFormed
    <2>2. /\ cloud.sent \in 0 .. Len(telegramLeft.plan) /\ cloud.floor \in 1 .. cloud.sent + 1
          /\ botRow.offset \in 1 .. cloud.sent + 1
      <3>1. cloud.sent \in Nat /\ cloud.sent <= Len(telegramLeft.plan) /\ Len(telegramLeft.plan) \in Nat
        BY <2>1 DEF BridgeTypes, Scenario
      <3> QED BY <2>1, <3>1 DEF BridgeTypes
    <2>3. ASSUME NEW l \in PollSlots
          PROVE  /\ poll[l].state \in {"none", "asking", "answered", "handling"}
                 /\ (l = current) = (poll[l].state # "none" /\ ~poll[l].aborted)
                 /\ hand[l] # NoHand => poll[l].state = "handling"
      <3>1. poll[l] \in Poll /\ LoopSound(l)
        BY <2>1 DEF BridgeTypes, WellFormed
      <3>2. poll[l].state \in {"none", "asking", "answered", "handling"}
        BY <3>1 DEF Poll
      <3> QED BY <3>1, <3>2 DEF LoopSound
    <2>4. ASSUME NEW h \in Handlers
          PROVE  (hand[h].stage = "begin") = (convo.turn = "begin" /\ convo.by = h)
      BY DEF WellFormed, HandSound
    <2>5. convo.draining => convo.turn # "none"
      BY <2>1 DEF ChatSound
    <2> QED BY <2>2, <2>3, <2>4, <2>5 DEF TelegramTypeOK
  <1> QED BY <1>1, BridgeInvariant, PTL

----------------------------------------------------------------------------
(* The relay is on while anything from Telegram is to be answered, or what *)
(* is to be answered is excused.                                           *)
Relays(c, on, t) ==
    /\ on => ChatBusy(c)
    /\ ~on => c.asked \subseteq t.excused /\ c.queue \subseteq t.excused
    /\ t.unheard \subseteq t.excused
    /\ c.stalled => c.queue \subseteq t.excused
    /\ ~ChatBusy(c) => c.asked = {} /\ (c.queue = {} \/ c.stalled)

RelayKept == Relays(convo, relaying, tale)

(* Drains() ends a relay only when nothing is left to be answered.         *)
LEMMA DrainsRelays ==
    ASSUME NEW c, NEW on \in BOOLEAN, NEW t, c \in Convo, c.turn = "none", ~c.draining, c.asked = {},
           ~on => c.queue \subseteq t.excused, c.stalled => c.queue \subseteq t.excused,
           t.unheard \subseteq t.excused
    PROVE  Relays(Drains(c, on).chat, Drains(c, on).relaying, t)
  <1>1. CASE Drains(c, on) = ChatNow(c, on) /\ (ChatBusy(c) \/ c.draining)
    <2>1. Drains(c, on).chat = c /\ Drains(c, on).relaying = on
      BY <1>1 DEF ChatNow
    <2> QED BY <1>1, <2>1 DEF Relays
  <1>2. CASE /\ Drains(c, on) = ChatNow([c EXCEPT !.draining = TRUE, !.turn = "begin"], on)
             /\ ~ChatBusy(c) /\ ~c.draining /\ QueueDue(c)
    <2> DEFINE d == [c EXCEPT !.draining = TRUE, !.turn = "begin"]
    <2>1. Drains(c, on).chat = d /\ Drains(c, on).relaying = on
      BY <1>2 DEF ChatNow
    <2>2. d.asked = c.asked /\ d.queue = c.queue /\ d.stalled = c.stalled /\ d.turn = "begin"
      BY DEF Convo
    <2> HIDE DEF d
    <2>3. ChatBusy(d)
      BY <2>2 DEF ChatBusy
    <2> QED BY <2>1, <2>2, <2>3 DEF Relays
  <1>3. CASE Drains(c, on) = ChatNow(c, FALSE) /\ ~ChatBusy(c) /\ ~c.draining /\ ~QueueDue(c)
    <2>1. Drains(c, on).chat = c /\ Drains(c, on).relaying = FALSE
      BY <1>3 DEF ChatNow
    <2>2. c.queue = {} \/ c.stalled
      BY <1>3 DEF QueueDue
    <2> QED BY <1>3, <2>1, <2>2 DEF Relays
  <1> QED BY <1>1, <1>2, <1>3, DrainsIs

(* A message enters a chat that is then relayed.                           *)
LEMMA EntersRelays ==
    ASSUME WellFormed, RelayKept, NEW h \in Handlers, NEW parts \in Seq(Updates), Enters(h, parts)
    PROVE  RelayKept'
  <1>1. convo \in Convo /\ tale \in Tale /\ BridgeTypes
    BY DEF WellFormed, BridgeTypes
  <1>2. tale'.unheard = tale.unheard /\ tale'.excused = tale.excused
    <2>1. tale' = [tale EXCEPT !.taken = Counted(tale, parts).taken]
      BY <1>1, CountedIs DEF Enters
    <2> QED BY <1>1, <2>1 DEF Tale
  <1> DEFINE m == Min(ToSet(parts))
  <1>3. CASE ChatBecomes(ChatNow([convo EXCEPT !.turn = "begin", !.by = h, !.asked = {m},
                                               !.stalled = FALSE], TRUE))
    <2>1. /\ relaying' = TRUE /\ convo' = [convo EXCEPT !.turn = "begin", !.by = h, !.asked = {m},
                                                        !.stalled = FALSE]
      BY <1>3 DEF ChatBecomes, ChatNow
    <2>2. convo'.turn = "begin" /\ convo'.stalled = FALSE
      BY <1>1, <2>1 DEF Convo
    <2> QED BY <1>2, <2>1, <2>2 DEF RelayKept, Relays, ChatBusy
  <1>4. CASE /\ ChatBusy(convo)
             /\ ChatBecomes(ChatNow([convo EXCEPT !.queue = @ \cup {m}, !.stalled = FALSE], TRUE))
    <2>1. relaying' = TRUE /\ convo' = [convo EXCEPT !.queue = @ \cup {m}, !.stalled = FALSE]
      BY <1>4 DEF ChatBecomes, ChatNow
    <2>2. convo'.turn = convo.turn /\ convo'.stalled = FALSE /\ convo'.parked = convo.parked
      BY <1>1, <2>1 DEF Convo
    <2> QED BY <1>2, <1>4, <2>1, <2>2 DEF RelayKept, Relays, ChatBusy
  <1>5. CASE UNCHANGED <<convo, relaying>>
    BY <1>2, <1>5 DEF RelayKept, Relays, ChatBusy
  <1> QED BY <1>3, <1>4, <1>5 DEF Enters

(* The chat's own steps.                                                   *)
LEMMA ChatRelays == WellFormed /\ RelayKept /\ ChatActs => RelayKept'
  <1> SUFFICES ASSUME WellFormed, RelayKept, ChatActs PROVE RelayKept'
    OBVIOUS
  <1>1. convo \in Convo /\ tale \in Tale /\ relaying \in BOOLEAN /\ ChatSound
    BY DEF WellFormed, BridgeTypes
  <1>2. /\ Says.excused = tale.excused
        /\ Says.unheard = tale.unheard \cup IF relaying THEN {} ELSE convo.asked
        /\ Says.unheard \subseteq tale.excused
    <2>1. /\ Says.excused = tale.excused
          /\ Says.unheard = tale.unheard \cup IF relaying THEN {} ELSE convo.asked
      BY <1>1 DEF Says, Tale
    <2> QED BY <2>1 DEF RelayKept, Relays
  <1>3. CASE TurnBegins
    <2>1. /\ convo.turn = "begin" /\ relaying' = relaying /\ tale' = tale
          /\ convo' = [convo EXCEPT !.turn = "on", !.by = Off,
                              !.asked = IF convo.draining THEN convo.queue ELSE @,
                              !.queue = IF convo.draining THEN {} ELSE @]
      BY <1>3 DEF TurnBegins
    <2>2. /\ convo'.turn = "on" /\ convo'.stalled = convo.stalled
          /\ convo'.asked = IF convo.draining THEN convo.queue ELSE convo.asked
          /\ convo'.queue = IF convo.draining THEN {} ELSE convo.queue
      BY <1>1, <2>1 DEF Convo
    <2>3. ChatBusy(convo')
      BY <2>2 DEF ChatBusy
    <2> QED BY <2>1, <2>2, <2>3 DEF RelayKept, Relays
  <1>4. CASE TurnTakes
    <2>1. /\ convo.turn = "on" /\ relaying' = relaying /\ tale' = tale
          /\ convo' = [convo EXCEPT !.asked = @ \cup convo.queue, !.queue = {}]
      BY <1>4 DEF TurnTakes
    <2>2. /\ convo'.turn = "on" /\ convo'.stalled = convo.stalled
          /\ convo'.asked = convo.asked \cup convo.queue /\ convo'.queue = {}
      BY <1>1, <2>1 DEF Convo
    <2>3. ChatBusy(convo')
      BY <2>2 DEF ChatBusy
    <2> QED BY <2>1, <2>2, <2>3 DEF RelayKept, Relays
  <1>5. CASE TurnAnswers
    <2> DEFINE c == EndedTurn(convo)
    <2>1. /\ c \in Convo /\ c.turn = "none" /\ ~c.draining /\ c.asked = {}
          /\ c.queue = convo.queue /\ c.stalled = convo.stalled
      BY <1>1 DEF EndedTurn, Convo
    <2>2. convo' = Drains(c, relaying).chat /\ relaying' = Drains(c, relaying).relaying /\ tale' = Says
      BY <1>5 DEF TurnAnswers, ChatBecomes
    <2> HIDE DEF c
    <2>3. /\ ~relaying => c.queue \subseteq tale'.excused
          /\ c.stalled => c.queue \subseteq tale'.excused
          /\ tale'.unheard \subseteq tale'.excused
      BY <1>2, <2>1, <2>2 DEF RelayKept, Relays
    <2>4. Relays(Drains(c, relaying).chat, Drains(c, relaying).relaying, tale')
      BY <1>1, <2>1, <2>3, DrainsRelays
    <2> QED BY <2>2, <2>4 DEF RelayKept
  <1>6. CASE TurnParks
    <2>1. /\ relaying' = relaying /\ tale' = Says
          /\ convo' = [convo EXCEPT !.turn = "none", !.parked = TRUE, !.draining = FALSE]
      BY <1>6 DEF TurnParks
    <2>2. /\ convo'.parked /\ convo'.stalled = convo.stalled
          /\ convo'.asked = convo.asked /\ convo'.queue = convo.queue
      BY <1>1, <2>1 DEF Convo
    <2>3. ChatBusy(convo')
      BY <2>2 DEF ChatBusy
    <2> QED BY <1>2, <2>1, <2>2, <2>3 DEF RelayKept, Relays
  <1>7. CASE AnswerThrows
    <2> DEFINE stalls == convo.draining /\ convo.queue # {}
               c == [EndedTurn(convo) EXCEPT !.stalled = @ \/ stalls]
               on == Drains(c, relaying).relaying
               d == Drains(c, relaying).chat
    <2>1. /\ c \in Convo /\ c.turn = "none" /\ ~c.draining /\ c.asked = {}
          /\ c.queue = convo.queue /\ c.stalled = (convo.stalled \/ stalls)
      BY <1>1 DEF EndedTurn, Convo
    <2>2. convo' = d /\ relaying' = (on /\ (convo.by # Off => ChatBusy(d)))
      BY <1>7 DEF AnswerThrows, ChatBecomes, ChatNow
    <2>3. tale' = [tale EXCEPT !.excused = @ \cup convo.asked \cup IF stalls THEN convo.queue ELSE {}]
      BY <1>7 DEF AnswerThrows
    <2>4. /\ tale'.excused = tale.excused \cup convo.asked \cup IF stalls THEN convo.queue ELSE {}
          /\ tale'.unheard = tale.unheard
      BY <1>1, <2>3 DEF Tale
    <2> HIDE DEF c, stalls
    <2>5. /\ ~relaying => c.queue \subseteq tale'.excused
          /\ c.stalled => c.queue \subseteq tale'.excused
          /\ tale'.unheard \subseteq tale'.excused
      BY <2>1, <2>4 DEF RelayKept, Relays
    <2>6. Relays(d, on, tale')
      BY <1>1, <2>1, <2>5, DrainsRelays
    <2>7. on \in BOOLEAN
      BY <1>1, <2>1, DrainsIs
    <2> HIDE DEF d, on
    <2>8. relaying' = on
      BY <2>2, <2>6, <2>7 DEF Relays
    <2> QED BY <2>2, <2>6, <2>8 DEF RelayKept
  <1>8. CASE OthersStart
    <2>1. /\ ~ChatBusy(convo) /\ relaying' = relaying /\ tale' = tale
          /\ convo' = [convo EXCEPT !.turn = "begin", !.stalled = FALSE]
      BY <1>8 DEF OthersStart
    <2>2. /\ convo'.turn = "begin" /\ convo'.stalled = FALSE
          /\ convo'.asked = convo.asked /\ convo'.queue = convo.queue
      BY <1>1, <2>1 DEF Convo
    <2>3. ChatBusy(convo')
      BY <2>2 DEF ChatBusy
    <2> QED BY <2>1, <2>2, <2>3 DEF RelayKept, Relays
  <1>9. CASE OthersApprove
    <2>1. /\ relaying' = relaying /\ tale' = tale /\ convo.parked
          /\ convo' = [convo EXCEPT !.turn = "begin", !.parked = FALSE]
      BY <1>9 DEF OthersApprove
    <2>2. /\ convo'.turn = "begin" /\ convo'.stalled = convo.stalled
          /\ convo'.asked = convo.asked /\ convo'.queue = convo.queue
      BY <1>1, <2>1 DEF Convo
    <2>3. ChatBusy(convo')
      BY <2>2 DEF ChatBusy
    <2> QED BY <2>1, <2>2, <2>3 DEF RelayKept, Relays
  <1> QED BY <1>3, <1>4, <1>5, <1>6, <1>7, <1>8, <1>9 DEF ChatActs

(* Every step keeps the relay.                                             *)
LEMMA RelayStays == WellFormed /\ RelayKept /\ [TelegramNext]_telegramVars => RelayKept'
  <1> SUFFICES ASSUME WellFormed, RelayKept, [TelegramNext]_telegramVars PROVE RelayKept'
    OBVIOUS
  <1>1. BridgeTypes /\ convo \in Convo /\ tale \in Tale /\ hand \in [Handlers -> Hand]
    BY DEF WellFormed, BridgeTypes
  <1>2. ASSUME UNCHANGED <<convo, relaying>>, tale'.unheard = tale.unheard, tale'.excused = tale.excused
        PROVE  RelayKept'
    BY <1>2 DEF RelayKept, Relays
  <1>3. CASE UNCHANGED <<convo, relaying, tale>>
    BY <1>2, <1>3
  <1>4. CASE ChatActs
    BY <1>4, ChatRelays
  <1>5. ASSUME NEW parts \in Seq(Updates), UNCHANGED <<convo, relaying>>, tale' = Counted(tale, parts)
        PROVE  RelayKept'
    <2>1. tale' = [tale EXCEPT !.taken = Counted(tale, parts).taken]
      BY <1>1, <1>5, CountedIs
    <2>2. tale'.unheard = tale.unheard /\ tale'.excused = tale.excused
      BY <1>1, <2>1 DEF Tale
    <2> QED BY <1>2, <1>5, <2>2
  <1>6. ASSUME NEW h \in Handlers, HandActs(h) PROVE RelayKept'
    <2>1. hand[h].parts \in Seq(Updates)
      BY <1>1 DEF Hand
    <2>2. CASE FilesReceived(h)
      BY <2>1, <2>2, EntersRelays DEF FilesReceived
    <2>3. CASE FilesRefused(h)
      BY <1>5, <2>1, <2>3 DEF FilesRefused
    <2>4. CASE Tapped(h)
      <3>1. tale'.unheard = tale.unheard /\ tale'.excused = tale.excused
        <4>1. tale' = [tale EXCEPT !.taken = Counted(tale, hand[h].parts).taken]
          BY <1>1, <2>1, <2>4, CountedIs DEF Tapped
        <4> QED BY <1>1, <4>1 DEF Tale
      <3>2. CASE ChatBecomes(ChatNow([convo EXCEPT !.turn = "begin", !.by = h, !.parked = FALSE], TRUE))
        <4>1. relaying' = TRUE /\ convo' = [convo EXCEPT !.turn = "begin", !.by = h, !.parked = FALSE]
          BY <3>2 DEF ChatBecomes, ChatNow
        <4>2. /\ convo'.turn = "begin" /\ convo'.stalled = convo.stalled /\ convo'.queue = convo.queue
          BY <1>1, <4>1 DEF Convo
        <4> QED BY <3>1, <4>1, <4>2 DEF RelayKept, Relays, ChatBusy
      <3>3. CASE ChatBecomes(ChatNow(convo, ChatBusy(convo)))
        <4>1. relaying' = ChatBusy(convo) /\ convo' = convo
          BY <3>3 DEF ChatBecomes, ChatNow
        <4> QED BY <3>1, <4>1 DEF RelayKept, Relays
      <3> QED BY <2>4, <3>2, <3>3 DEF Tapped
    <2>5. CASE TapFails(h)
      <3>1. tale' = [tale EXCEPT !.dropped = @ \cup ToSet(hand[h].parts)] /\ UNCHANGED <<convo, relaying>>
        BY <2>5 DEF TapFails
      <3>2. tale'.unheard = tale.unheard /\ tale'.excused = tale.excused
        BY <1>1, <3>1 DEF Tale
      <3> QED BY <1>2, <3>1, <3>2
    <2>6. CASE Replied(h)
      BY <1>3, <2>6 DEF Replied
    <2> QED BY <1>6, <2>2, <2>3, <2>4, <2>5, <2>6 DEF HandActs
  <1>7. ASSUME NEW l \in PollSlots, LoopActs(l) PROVE RelayKept'
    <2>1. CASE PollAnswers(l)
      <3>1. /\ UNCHANGED <<convo, relaying>>
            /\ tale' = [tale EXCEPT !.seen = @ \cup IF poll[l].aborted THEN {} ELSE ToSet(poll[l].batch)]
        BY <2>1 DEF PollAnswers
      <3>2. tale'.unheard = tale.unheard /\ tale'.excused = tale.excused
        BY <1>1, <3>1 DEF Tale
      <3> QED BY <1>2, <3>1, <3>2
    <2>2. CASE PollServed(l) \/ PollFails(l) \/ BatchDone(l)
      BY <1>3, <2>2 DEF PollServed, PollFails, BatchDone
    <2> QED BY <1>7, <2>1, <2>2 DEF LoopActs
  <1>8. ASSUME NEW l \in PollSlots, HandleUpdate(l) PROVE RelayKept'
    <2> DEFINE u == Head(poll[l].batch)
    <2>1. CASE Enters(l, <<u>>)
      <3>1. u \in Updates
        <4>1. /\ poll[l].batch # <<>> /\ poll[l] \in Poll
              /\ \A i \in DOMAIN poll[l].batch : poll[l].batch[i] \in Sent
          BY <1>8 DEF HandleUpdate, WellFormed, BridgeTypes, LoopSound
        <4>2. poll[l].batch \in Seq(Nat)
          BY <4>1 DEF Poll
        <4>3. u = poll[l].batch[1] /\ 1 \in DOMAIN poll[l].batch
          BY <4>1, <4>2, NotEmpty
        <4>4. Sent \subseteq Updates
          BY <1>1 DEF BridgeTypes, Sent, Updates, Scenario
        <4> QED BY <4>1, <4>3, <4>4
      <3>2. <<u>> \in Seq(Updates) /\ l \in Handlers
        BY <3>1 DEF Handlers
      <3> QED BY <2>1, <3>2, EntersRelays
    <2>2. CASE Buffers(u) /\ UNCHANGED <<hand, convo, relaying>>
      <3>1. tale' = tale \/ tale' = [tale EXCEPT !.dropped = @ \cup {u}]
        BY <2>2 DEF Buffers
      <3>2. tale'.unheard = tale.unheard /\ tale'.excused = tale.excused
        BY <1>1, <3>1 DEF Tale
      <3> QED BY <1>2, <2>2, <3>2
    <2>3. CASE UNCHANGED <<album, convo, relaying, tale>>
      BY <1>3, <2>3
    <2> QED BY <1>8, <2>1, <2>2, <2>3 DEF HandleUpdate
  <1>9. CASE Reconcile
    <2>1. CASE tale' = Shaken(tale)
      <3>1. tale' = [tale EXCEPT !.shaken = Shaken(tale).shaken]
        BY <1>1, <2>1, ShakenIs
      <3>2. tale'.unheard = tale.unheard /\ tale'.excused = tale.excused
        BY <1>1, <3>1 DEF Tale
      <3> QED BY <1>2, <1>9, <3>2 DEF Reconcile
    <2> QED BY <1>3, <1>9, <2>1 DEF Reconcile
  <1>10. CASE TelegramRestart
    <2> DEFINE c == [QuietChat EXCEPT !.queue = convo.queue]
               gone == ToSet(album) \cup UNION {ToSet(hand[h].parts) :
                              h \in {a \in AlbumSlots : hand[a].stage = "file"}}
               t == Shaken(tale)
    <2>1. /\ convo' = Drains(c, FALSE).chat /\ relaying' = Drains(c, FALSE).relaying
          /\ tale' = [t EXCEPT !.dropped = @ \cup gone,
                               !.excused = @ \cup convo.asked \cup convo.queue]
      BY <1>10 DEF TelegramRestart, ChatBecomes
    <2>2. convo.queue \in SUBSET Updates
      BY <1>1 DEF Convo
    <2>3. c \in Convo /\ c.turn = "none" /\ ~c.draining /\ c.asked = {} /\ c.queue = convo.queue
      BY <2>2 DEF QuietChat, Convo
    <2>4. t \in Tale /\ t.unheard = tale.unheard /\ t.excused = tale.excused
      BY <1>1, ShakenIs DEF Tale
    <2> HIDE DEF c, t, gone
    <2>5. /\ tale'.excused = tale.excused \cup convo.asked \cup convo.queue
          /\ tale'.unheard = tale.unheard
      BY <2>1, <2>4 DEF Tale
    <2>6. c.queue \subseteq tale'.excused /\ tale'.unheard \subseteq tale'.excused
      BY <2>3, <2>5 DEF RelayKept, Relays
    <2> QED BY <2>1, <2>3, <2>6, DrainsRelays DEF RelayKept
  <1>11. CASE UpdateArrives \/ BotToggled \/ UNCHANGED telegramVars
    BY <1>3, <1>11 DEF UpdateArrives, BotToggled, telegramVars
  <1>12. ASSUME NEW h \in AlbumSlots, AlbumDue(h) PROVE RelayKept'
    BY <1>3, <1>12 DEF AlbumDue
  <1> QED BY <1>4, <1>6, <1>7, <1>8, <1>9, <1>10, <1>11, <1>12
          DEF TelegramNext, ChatActs, HandActs, LoopActs

(* What the chat says to a message from Telegram is relayed to it, short   *)
(* of a restart, a turn that throws and a stalled queue, and an idle chat  *)
(* is relayed to nobody.                                                   *)
THEOREM RepliesAreHeard == TelegramSpec => []RepliesHeard
  <1>1. TelegramInit => RelayKept
    BY DEF TelegramInit, RelayKept, Relays, NoTale, QuietChat, ChatBusy
  <1>2. RelayKept => RepliesHeard
    BY DEF RelayKept, Relays, RepliesHeard
  <1> QED BY <1>1, <1>2, BridgeInvariant, RelayStays, PTL DEF TelegramSpec

----------------------------------------------------------------------------
(* Where updates wait: the album, and the handlers before they reach the   *)
(* chat.                                                                   *)
Spots    == Handlers \cup {Off}
PartsHeld(h) == IF hand[h].stage \in {"file", "tap"} THEN hand[h].parts ELSE <<>>
Places   == [x \in Spots |-> IF x = Off THEN album ELSE PartsHeld(x)]

Cell(F, x, u) == {x} \X Pos(F[x], u)
Occur(F, u)   == UNION {Cell(F, x, u) : x \in Spots}

(* Elements and places of short sequences.                                 *)
LEMMA Members ==
    /\ ToSet(<<>>) = {}
    /\ \A u : ToSet(<<u>>) = {u}
    /\ \A s, u : u \in ToSet(s) <=> Pos(s, u) # {}
    /\ \A u : Pos(<<>>, u) = {}
    /\ \A u, v : Pos(<<v>>, u) = IF u = v THEN {1} ELSE {}
  <1>1. ToSet(<<>>) = {} /\ \A u : Pos(<<>>, u) = {}
    BY DEF ToSet, Pos
  <1>2. \A u : ToSet(<<u>>) = {u}
    BY DEF ToSet
  <1>3. \A s, u : u \in ToSet(s) <=> Pos(s, u) # {}
    BY DEF ToSet, Pos
  <1>4. \A u, v : Pos(<<v>>, u) = IF u = v THEN {1} ELSE {}
    BY DEF Pos
  <1> QED BY <1>1, <1>2, <1>3, <1>4

(* An element is counted at its places, and has one if it is a member.     *)
LEMMA Counts ==
    ASSUME NEW U, NEW s \in Seq(U), NEW u
    PROVE  /\ Cardinality(Pos(s, u)) \in Nat
           /\ Cardinality(Pos(s, u)) > 0 <=> u \in ToSet(s)
  <1>1. IsFiniteSet(Pos(s, u)) /\ Cardinality(Pos(s, u)) \in Nat
    BY PosFinite
  <1>2. Cardinality(Pos(s, u)) = 0 <=> Pos(s, u) = {}
    BY <1>1, FS_EmptySet
  <1> QED BY <1>1, <1>2, Members

(* One more at the end is one more of its own.                             *)
LEMMA CountsAppend ==
    ASSUME NEW U, NEW s \in Seq(U), NEW v \in U, NEW u
    PROVE  /\ ToSet(Append(s, v)) = ToSet(s) \cup {v}
           /\ Cardinality(Pos(Append(s, v), u)) =
                 Cardinality(Pos(s, u)) + IF u = v THEN 1 ELSE 0
  <1> DEFINE t == Append(s, v)
             n == Len(s)
  <1>1. /\ n \in Nat /\ DOMAIN s = 1 .. n /\ t \in Seq(U) /\ DOMAIN t = 1 .. n + 1
        /\ t[n + 1] = v /\ \A i \in 1 .. n : t[i] = s[i]
    BY AppendProperties
  <1> HIDE DEF t, n
  <1>2. DOMAIN t = DOMAIN s \cup {n + 1} /\ n + 1 \notin DOMAIN s
    BY <1>1
  <1>3. ToSet(t) = ToSet(s) \cup {v}
    BY <1>1, <1>2 DEF ToSet
  <1>4. Pos(t, u) = IF u = v THEN Pos(s, u) \cup {n + 1} ELSE Pos(s, u)
    BY <1>1, <1>2 DEF Pos
  <1>5. IsFiniteSet(Pos(s, u)) /\ Cardinality(Pos(s, u)) \in Nat /\ n + 1 \notin Pos(s, u)
    BY <1>2, PosFinite DEF Pos
  <1>6. u = v => Cardinality(Pos(t, u)) = Cardinality(Pos(s, u)) + 1
    BY <1>4, <1>5, FS_AddElement
  <1>7. u # v => Cardinality(Pos(t, u)) = Cardinality(Pos(s, u))
    BY <1>4
  <1> QED BY <1>3, <1>5, <1>6, <1>7 DEF t

(* The places of an update are counted cell by cell.                       *)
LEMMA SpotsFinite == IsFiniteSet(Spots) /\ IsFiniteSet(PollSlots \cup {Off}) /\ Off \notin Handlers
  <1>1. IsFiniteSet(PollSlots) /\ IsFiniteSet(AlbumSlots) /\ IsFiniteSet({Off})
    BY TelegramAssumption, FS_Singleton
  <1>2. IsFiniteSet(PollSlots \cup AlbumSlots)
    BY <1>1, FS_Union
  <1>3. IsFiniteSet((PollSlots \cup AlbumSlots) \cup {Off})
    BY <1>1, <1>2, FS_Union
  <1>4. IsFiniteSet(PollSlots \cup {Off})
    BY <1>1, FS_Union
  <1> QED BY <1>3, <1>4, TelegramAssumption DEF Spots, Handlers

(* A cell has as many members as the update has places there.              *)
LEMMA CellIs ==
    ASSUME NEW U, NEW F \in [Spots -> Seq(U)], NEW x \in Spots, NEW u
    PROVE  /\ IsFiniteSet(Cell(F, x, u))
           /\ Cardinality(Cell(F, x, u)) = Cardinality(Pos(F[x], u))
           /\ Cardinality(Pos(F[x], u)) \in Nat
  <1>1. F[x] \in Seq(U)
    OBVIOUS
  <1>2. IsFiniteSet(Pos(F[x], u)) /\ Cardinality(Pos(F[x], u)) \in Nat
    BY <1>1, PosFinite
  <1>3. IsFiniteSet({x}) /\ Cardinality({x}) = 1
    BY FS_Singleton
  <1>4. /\ IsFiniteSet({x} \X Pos(F[x], u))
        /\ Cardinality({x} \X Pos(F[x], u)) = Cardinality({x}) * Cardinality(Pos(F[x], u))
    BY <1>2, <1>3, FS_Product
  <1>5. Cardinality({x} \X Pos(F[x], u)) = Cardinality(Pos(F[x], u))
    BY <1>2, <1>3, <1>4
  <1> QED BY <1>2, <1>4, <1>5 DEF Cell

(* The places of an update, of all cells, can be counted.                  *)
LEMMA OccurFinite ==
    ASSUME NEW U, NEW F \in [Spots -> Seq(U)], NEW u
    PROVE  IsFiniteSet(Occur(F, u)) /\ Cardinality(Occur(F, u)) \in Nat
  <1> DEFINE S == {Cell(F, x, u) : x \in Spots}
             f == [x \in Spots |-> Cell(F, x, u)]
  <1>1. f \in Surjection(Spots, S)
    BY DEF Surjection
  <1>2. IsFiniteSet(S)
    BY <1>1, SpotsFinite, FS_Surjection
  <1>3. \A Ts \in S : IsFiniteSet(Ts)
    BY CellIs
  <1>4. IsFiniteSet(UNION S)
    BY <1>2, <1>3, FS_UNION
  <1> QED BY <1>4, FS_CardinalityType DEF Occur

\* G is F with nothing at x.
Cleared(F, G, x, U) == /\ F \in [Spots -> Seq(U)] /\ G \in [Spots -> Seq(U)] /\ x \in Spots
                       /\ G[x] = <<>> /\ \A y \in Spots : y # x => G[y] = F[y]

(* Clearing a cell takes away its own places.                              *)
LEMMA OccurLeaves ==
    ASSUME NEW U, NEW F, NEW G, NEW x, NEW u, Cleared(F, G, x, U)
    PROVE  /\ Cardinality(Occur(F, u)) = Cardinality(Occur(G, u)) + Cardinality(Pos(F[x], u))
           /\ Cardinality(Occur(G, u)) \in Nat
  <1> USE DEF Cleared
  <1>1. \A y \in Spots : y # x => Cell(G, y, u) = Cell(F, y, u)
    BY DEF Cell
  <1>2. Cell(G, x, u) = {}
    BY Members DEF Cell
  <1>3. Occur(F, u) = Occur(G, u) \cup Cell(F, x, u)
    BY <1>1, <1>2 DEF Occur
  <1>4. Occur(G, u) \cap Cell(F, x, u) = {}
    <2> SUFFICES ASSUME NEW p \in Occur(G, u), p \in Cell(F, x, u) PROVE FALSE
      OBVIOUS
    <2>1. PICK y \in Spots : p \in Cell(G, y, u)
      BY DEF Occur
    <2>2. y # x
      BY <1>2, <2>1
    <2>3. p[1] = y
      BY <2>1 DEF Cell
    <2>4. p[1] = x
      BY DEF Cell
    <2> QED BY <2>2, <2>3, <2>4
  <1>5. /\ IsFiniteSet(Occur(G, u)) /\ Cardinality(Occur(G, u)) \in Nat
        /\ IsFiniteSet(Cell(F, x, u)) /\ Cardinality(Cell(F, x, u)) = Cardinality(Pos(F[x], u))
        /\ Cardinality(Pos(F[x], u)) \in Nat
    <2> HIDE DEF Cleared
    <2>1. F \in [Spots -> Seq(U)] /\ G \in [Spots -> Seq(U)] /\ x \in Spots
      BY DEF Cleared
    <2>2. IsFiniteSet(Occur(G, u)) /\ Cardinality(Occur(G, u)) \in Nat
      BY <2>1, OccurFinite
    <2> QED BY <2>1, <2>2, CellIs
  <1>6. Cardinality(Occur(F, u)) = Cardinality(Occur(G, u)) + Cardinality(Cell(F, x, u))
    <2> DEFINE A == Occur(G, u)
               B == Cell(F, x, u)
    <2>1. IsFiniteSet(A) /\ IsFiniteSet(B) /\ A \cap B = {}
      BY <1>4, <1>5
    <2>2. Cardinality(A) \in Nat /\ Cardinality(B) \in Nat
      BY <1>5
    <2> HIDE DEF A, B
    <2>3. Cardinality(A \cup B) = Cardinality(A) + Cardinality(B) - Cardinality(A \cap B)
      BY <2>1, FS_Union
    <2>4. Cardinality(A \cap B) = 0
      BY <2>1, FS_EmptySet
    <2>5. Cardinality(A \cup B) = Cardinality(A) + Cardinality(B)
      BY <2>2, <2>3, <2>4
    <2> QED BY <1>3, <2>5 DEF A, B
  <1> QED BY <1>5, <1>6

----------------------------------------------------------------------------
(* An update is kept: handed on, collected, with an album's handler, or    *)
(* given up.                                                               *)
Keeps(u) == \/ tale.taken[u] > 0 \/ u \in tale.dropped \/ u \in ToSet(Places[Off])
            \/ \E h \in AlbumSlots : u \in ToSet(Places[h])

\* A loop is past it, which Telegram may be told.
Passed(l, u) == u < poll[l].offset \/ (poll[l].batch # <<>> /\ u < poll[l].batch[1])

\* A loop may still hand it on: it handles it, or is to be given it.
Beyond(l, u)  == u >= cloud.floor /\ ~Passed(l, u)
MayTake(l, u) == \/ poll[l].state = "handling" /\ u \in ToSet(poll[l].batch)
                 \/ l = current /\ (u \in ToSet(poll[l].batch) \/ Beyond(l, u))
Chances(u)    == {x \in PollSlots \cup {Off} :
                    \/ x \in PollSlots /\ MayTake(x, u)
                    \/ x = Off /\ current = Off /\ u >= cloud.floor}

KeptIs(u) ==
    /\ u < cloud.floor \/ u < botRow.offset => Keeps(u)
    /\ \A l \in PollSlots : Passed(l, u) => Keeps(u) \/ u \in ToSet(Places[l])

Untouched(u) == tale.taken[u] = 0 /\ \A x \in Spots : u \notin ToSet(Places[x])

UnseenIs(u) ==
    u \notin tale.seen =>
       /\ u >= cloud.floor /\ u >= botRow.offset /\ Untouched(u)
       /\ \A l \in PollSlots : /\ ~Passed(l, u)
                               /\ poll[l].state = "handling" => u \notin ToSet(poll[l].batch)

TokensAre(u) ==
    tale.taken[u] + Cardinality(Chances(u)) + Cardinality(Occur(Places, u)) <= 1 + tale.shaken[u]

BridgeKept == \A u \in Updates : KeptIs(u) /\ UnseenIs(u) /\ TokensAre(u)

(* What is known of the pieces.                                            *)
Known ==
    /\ Places \in [Spots -> Seq(Updates)] /\ Places[Off] = album
    /\ \A h \in Handlers : Places[h] = PartsHeld(h)
    /\ tale \in Tale /\ tale.taken \in [Updates -> Nat] /\ tale.shaken \in [Updates -> Nat]
    /\ cloud.floor \in Nat /\ cloud.sent \in Nat /\ botRow.offset \in Nat
    /\ Updates \subseteq Nat /\ Sent \subseteq Updates /\ cloud.floor <= cloud.sent + 1
    /\ \A l \in PollSlots : /\ poll[l] \in Poll /\ poll[l].offset \in Nat /\ poll[l].batch \in Seq(Nat)
                            /\ poll[l].batch # <<>> => poll[l].batch[1] \in Nat
    /\ \A u : IsFiniteSet(Chances(u)) /\ Cardinality(Chances(u)) \in Nat
    /\ \A u : Cardinality(Occur(Places, u)) \in Nat

(* In a well-formed state all of that holds.                               *)
LEMMA Kinded == WellFormed => Known
  <1> SUFFICES ASSUME WellFormed PROVE Known
    OBVIOUS
  <1>1. /\ BridgeTypes /\ hand \in [Handlers -> Hand] /\ album \in Seq(Updates) /\ tale \in Tale
        /\ telegramLeft \in Scenario
    BY DEF WellFormed, BridgeTypes
  <1>2. \A h \in Handlers : PartsHeld(h) \in Seq(Updates)
    <2> SUFFICES ASSUME NEW h \in Handlers PROVE PartsHeld(h) \in Seq(Updates)
      OBVIOUS
    <2>1. hand[h].parts \in Seq(Updates)
      BY <1>1 DEF Hand
    <2> QED BY <2>1, EmptySeq DEF PartsHeld
  <1>3. /\ Places \in [Spots -> Seq(Updates)] /\ Places[Off] = album
        /\ \A h \in Handlers : Places[h] = PartsHeld(h)
    BY <1>1, <1>2, SpotsFinite DEF Places, Spots
  <1>4. tale.taken \in [Updates -> Nat] /\ tale.shaken \in [Updates -> Nat]
    BY <1>1 DEF Tale
  <1>5. /\ cloud.floor \in Nat /\ cloud.sent \in Nat /\ botRow.offset \in Nat
        /\ cloud.floor <= cloud.sent + 1
    BY <1>1 DEF BridgeTypes
  <1>6. Updates \subseteq Nat /\ Sent \subseteq Updates
    BY <1>1 DEF BridgeTypes, Sent, Updates, Scenario
  <1>7. ASSUME NEW l \in PollSlots
        PROVE  /\ poll[l] \in Poll /\ poll[l].offset \in Nat /\ poll[l].batch \in Seq(Nat)
               /\ poll[l].batch # <<>> => poll[l].batch[1] \in Nat
    <2>1. poll[l] \in Poll
      BY <1>1 DEF BridgeTypes
    <2>2. poll[l].offset \in Nat /\ poll[l].batch \in Seq(Nat)
      BY <2>1 DEF Poll
    <2> QED BY <2>1, <2>2, NotEmpty
  <1>8. ASSUME NEW u PROVE IsFiniteSet(Chances(u)) /\ Cardinality(Chances(u)) \in Nat
    <2>1. Chances(u) \in SUBSET (PollSlots \cup {Off})
      BY DEF Chances
    <2>2. IsFiniteSet(Chances(u))
      BY <2>1, SpotsFinite, FS_Subset
    <2> QED BY <2>2, FS_CardinalityType
  <1>9. \A u : Cardinality(Occur(Places, u)) \in Nat
    BY <1>3, OccurFinite
  <1> QED BY <1>1, <1>3, <1>4, <1>5, <1>6, <1>7, <1>8, <1>9 DEF Known

(* Fewer chances are a smaller number.                                     *)
LEMMA FewerChances ==
    ASSUME WellFormed, NEW u, NEW C \in SUBSET Chances(u)
    PROVE  Cardinality(C) <= Cardinality(Chances(u)) /\ Cardinality(C) \in Nat
  BY Kinded, FS_Subset, FS_CardinalityType DEF Known

(* The property is a consequence.                                          *)
LEMMA KeptSuffices == WellFormed /\ BridgeKept => UpdatesKept
  <1> SUFFICES ASSUME WellFormed, BridgeKept PROVE UpdatesKept
    OBVIOUS
  <1> DEFINE inHand == ToSet(album) \cup UNION {ToSet(hand[h].parts) : h \in Handlers}
  <1>1. ASSUME NEW u \in 1 .. cloud.floor - 1 PROVE tale.taken[u] > 0 \/ u \in inHand \cup tale.dropped
    <2>1. u \in Sent /\ u \in Nat /\ u < cloud.floor
      BY Kinded DEF Known, Sent
    <2>2. Keeps(u)
      BY <2>1, Kinded DEF Known, BridgeKept, KeptIs
    <2>3. ASSUME NEW h \in AlbumSlots, u \in ToSet(Places[h]) PROVE u \in inHand
      <3>1. h \in Handlers /\ u \in ToSet(PartsHeld(h))
        BY <2>3, Kinded DEF Known, Handlers
      <3>2. u \in ToSet(hand[h].parts)
        BY <3>1, Members DEF PartsHeld
      <3> QED BY <3>1, <3>2
    <2> QED BY <2>2, <2>3, Kinded DEF Known, Keeps
  <1>2. \A u \in tale.dropped : KindOf(u) \in {"part", "tap"}
    BY DEF WellFormed, GivenUp
  <1>3. ASSUME NEW u \in Sent PROVE tale.taken[u] <= 1 + tale.shaken[u]
    <2>1. u \in Updates /\ TokensAre(u)
      BY Kinded DEF Known, BridgeKept
    <2>2. /\ tale.taken[u] \in Nat /\ tale.shaken[u] \in Nat /\ Cardinality(Chances(u)) \in Nat
          /\ Cardinality(Occur(Places, u)) \in Nat
      BY <2>1, Kinded DEF Known
    <2> QED BY <2>1, <2>2 DEF TokensAre
  <1> QED BY <1>1, <1>2, <1>3 DEF UpdatesKept

(* Steps that leave the places of the updates.                             *)
LEMMA LoopsKeep ==
    ASSUME WellFormed, BridgeKept, WellFormed',
           Places' = Places, Updates' = Updates, tale'.taken = tale.taken,
           tale'.dropped = tale.dropped, tale'.shaken = tale.shaken, tale.seen \subseteq tale'.seen,
           \A u \in Updates :
              /\ u < cloud'.floor \/ u < botRow'.offset => Keeps(u)
              /\ \A l \in PollSlots : Passed(l, u)' => Keeps(u) \/ u \in ToSet(Places[l])
              /\ u \notin tale'.seen =>
                    /\ u >= cloud'.floor /\ u >= botRow'.offset
                    /\ \A l \in PollSlots : /\ ~Passed(l, u)'
                                            /\ poll'[l].state = "handling" => u \notin ToSet(poll'[l].batch)
              /\ Cardinality(Chances(u)') <= Cardinality(Chances(u))
    PROVE  BridgeKept'
  <1> SUFFICES ASSUME NEW u \in Updates PROVE KeptIs(u)' /\ UnseenIs(u)' /\ TokensAre(u)'
    BY DEF BridgeKept
  <1>1. KeptIs(u) /\ UnseenIs(u) /\ TokensAre(u)
    BY DEF BridgeKept
  <1>2. Keeps(u)' <=> Keeps(u)
    BY DEF Keeps
  <1>3. KeptIs(u)'
    BY <1>2 DEF KeptIs
  <1>4. Untouched(u)' <=> Untouched(u)
    BY DEF Untouched
  <1>5. UnseenIs(u)'
    BY <1>1, <1>4 DEF UnseenIs
  <1>6. TokensAre(u)'
    <2> DEFINE n == Cardinality(Chances(u)')
    <2>1. n <= Cardinality(Chances(u)) /\ n \in Nat
      <3>1. (WellFormed => Known)'
        BY Kinded, PTL
      <3> QED BY <3>1 DEF Known
    <2>2. /\ tale.taken[u] \in Nat /\ tale.shaken[u] \in Nat /\ Cardinality(Chances(u)) \in Nat
          /\ Cardinality(Occur(Places, u)) \in Nat
      BY Kinded DEF Known
    <2>3. TokensAre(u)' <=> tale.taken[u] + n + Cardinality(Occur(Places, u)) <= 1 + tale.shaken[u]
      BY DEF TokensAre, Occur, Cell
    <2> HIDE DEF n
    <2> QED BY <1>1, <2>1, <2>2, <2>3 DEF TokensAre
  <1> QED BY <1>3, <1>5, <1>6

(* Steps of the handlers and the chat, which leave the loops.              *)
LEMMA HandsKeep ==
    ASSUME WellFormed, BridgeKept, WellFormed', UNCHANGED <<cloud, botRow, poll, current>>,
           Updates' = Updates, tale'.seen = tale.seen, tale'.shaken = tale.shaken,
           \A u \in Updates :
              /\ Keeps(u) => Keeps(u)'
              /\ \A l \in PollSlots : u \in ToSet(Places[l]) => Keeps(u)' \/ u \in ToSet(Places'[l])
              /\ Untouched(u) => Untouched(u)'
              /\ tale'.taken[u] + Cardinality(Occur(Places', u))
                    <= tale.taken[u] + Cardinality(Occur(Places, u))
    PROVE  BridgeKept'
  <1> SUFFICES ASSUME NEW u \in Updates PROVE KeptIs(u)' /\ UnseenIs(u)' /\ TokensAre(u)'
    BY DEF BridgeKept
  <1>1. KeptIs(u) /\ UnseenIs(u) /\ TokensAre(u)
    BY DEF BridgeKept
  <1>2. /\ Chances(u)' = Chances(u)
        /\ \A l \in PollSlots : Passed(l, u)' <=> Passed(l, u)
    BY DEF Chances, MayTake, Beyond, Passed
  <1>3. KeptIs(u)'
    BY <1>1, <1>2 DEF KeptIs
  <1>4. UnseenIs(u)'
    BY <1>1, <1>2 DEF UnseenIs
  <1>5. TokensAre(u)'
    <2>1. /\ tale.taken[u] \in Nat /\ tale.shaken[u] \in Nat /\ Cardinality(Chances(u)) \in Nat
          /\ Cardinality(Occur(Places, u)) \in Nat
      BY Kinded DEF Known
    <2>2. (WellFormed => Known)'
      BY Kinded, PTL
    <2>3. tale'.taken[u] \in Nat /\ Cardinality(Occur(Places', u)) \in Nat
      BY <2>2 DEF Known, Occur, Cell
    <2>4. TokensAre(u)' <=> tale'.taken[u] + Cardinality(Chances(u)) + Cardinality(Occur(Places', u))
                               <= 1 + tale.shaken[u]
      BY <1>2 DEF TokensAre, Occur, Cell
    <2> QED BY <1>1, <2>1, <2>3, <2>4 DEF TokensAre
  <1> QED BY <1>3, <1>4, <1>5

(* What the steps do to the places and the history.                        *)
Told == <<tale.taken, tale.dropped, tale.seen, tale.shaken>>

(* A turn of the chat touches no update.                                   *)
LEMMA ChatTells ==
    ASSUME WellFormed, ChatActs
    PROVE  /\ UNCHANGED <<cloud, botRow, poll, current, Told, Places, Updates>>
  <1>1. /\ convo \in Convo /\ tale \in Tale /\ hand \in [Handlers -> Hand] /\ ChatSound /\ BridgeTypes
        /\ \A h \in Handlers : hand[h].stage = "begin" <=> convo.turn = "begin" /\ convo.by = h
    BY DEF WellFormed, BridgeTypes, HandSound
  <1>2. UNCHANGED <<cloud, botRow, poll, current, album>>
    BY DEF ChatActs, TurnBegins, TurnTakes, TurnAnswers, TurnParks, AnswerThrows, OthersStart, OthersApprove
  <1>3. UNCHANGED Updates
    <2>1. telegramLeft' = telegramLeft \/ telegramLeft'.plan = telegramLeft.plan
      BY <1>1, PayIs DEF ChatActs, TurnBegins, TurnTakes, TurnAnswers, TurnParks, AnswerThrows,
                         OthersStart, OthersApprove
    <2> QED BY <2>1 DEF Updates
  <1>4. UNCHANGED Told
    <2>1. CASE tale' = tale
      BY <2>1 DEF Told
    <2>2. CASE tale' = Says
      BY <1>1, <2>2 DEF Says, Tale, Told
    <2>3. CASE AnswerThrows
      <3> DEFINE e == tale.excused \cup convo.asked
                         \cup IF convo.draining /\ convo.queue # {} THEN convo.queue ELSE {}
      <3>1. tale' = [tale EXCEPT !.excused = e]
        BY <2>3 DEF AnswerThrows
      <3> HIDE DEF e
      <3> QED BY <1>1, <3>1 DEF Tale, Told
    <2> QED BY <2>1, <2>2, <2>3 DEF ChatActs, TurnBegins, TurnTakes, TurnAnswers, TurnParks,
                                    OthersStart, OthersApprove
  <1>5. ASSUME NEW h \in Handlers PROVE PartsHeld(h)' = PartsHeld(h)
    <2>1. CASE hand' = hand
      BY <2>1 DEF PartsHeld
    <2>2. CASE convo.by # Off /\ hand' = [hand EXCEPT ![convo.by] = NoHand]
      <3>1. convo.by \in Handlers /\ hand[convo.by].stage = "begin"
        BY <1>1, <2>2 DEF Convo, ChatSound
      <3>2. h # convo.by => hand'[h] = hand[h]
        BY <1>1, <2>2
      <3>3. h = convo.by => hand'[h].stage = "none"
        BY <1>1, <2>2, <3>1 DEF NoHand
      <3> QED BY <3>1, <3>2, <3>3 DEF PartsHeld
    <2>3. CASE convo.by # Off /\ hand' = [hand EXCEPT ![convo.by].stage = "reply"]
      <3>1. convo.by \in Handlers /\ hand[convo.by].stage = "begin"
        BY <1>1, <2>3 DEF Convo, ChatSound
      <3>2. h # convo.by => hand'[h] = hand[h]
        BY <1>1, <2>3
      <3>3. h = convo.by => hand'[h].stage = "reply"
        BY <1>1, <2>3, <3>1 DEF Hand
      <3> QED BY <3>1, <3>2, <3>3 DEF PartsHeld
    <2> QED BY <2>1, <2>2, <2>3 DEF ChatActs, TurnBegins, TurnTakes, TurnAnswers, TurnParks, AnswerThrows,
                                    OthersStart, OthersApprove
  <1> QED BY <1>2, <1>3, <1>4, <1>5 DEF Places, Spots

(* A handler clears its own place: counted, given up, or both left.        *)
LEMMA HandTells ==
    ASSUME WellFormed, NEW h \in Handlers, HandActs(h)
    PROVE  /\ UNCHANGED <<cloud, botRow, poll, current, Updates>>
           /\ tale'.seen = tale.seen /\ tale'.shaken = tale.shaken
           /\ Places' = [Places EXCEPT ![h] = <<>>]
           /\ \/ /\ tale'.dropped = tale.dropped
                 /\ \A u \in Updates : tale'.taken[u] = tale.taken[u] + Cardinality(Pos(Places[h], u))
              \/ /\ tale'.dropped = tale.dropped \cup ToSet(Places[h])
                 /\ tale'.taken = tale.taken
  <1>1. /\ tale \in Tale /\ hand \in [Handlers -> Hand] /\ BridgeTypes /\ HandSound(h) /\ hand[h] \in Hand
        /\ hand[h].parts \in Seq(Updates)
    BY DEF WellFormed, BridgeTypes, Hand
  <1>2. UNCHANGED <<cloud, botRow, poll, current, album, telegramLeft>>
    BY DEF HandActs, FilesReceived, FilesRefused, Tapped, TapFails, Replied
  <1>3. UNCHANGED Updates
    BY <1>2 DEF Updates
  <1>4. ASSUME hand'[h].stage \notin {"file", "tap"}, \A k \in Handlers : k # h => hand'[k] = hand[k]
        PROVE  Places' = [Places EXCEPT ![h] = <<>>]
    <2>1. PartsHeld(h)' = <<>> /\ \A k \in Handlers : k # h => PartsHeld(k)' = PartsHeld(k)
      BY <1>4 DEF PartsHeld
    <2> QED BY <1>2, <2>1, SpotsFinite DEF Places, Spots
  <1>5. ASSUME hand[h].stage \in {"file", "tap"}
        PROVE  Places[h] = hand[h].parts
    BY <1>5, Kinded DEF Known, PartsHeld
  <1>6. ASSUME hand[h].stage \in {"file", "tap"}, tale' = Counted(tale, hand[h].parts)
        PROVE  /\ tale'.seen = tale.seen /\ tale'.shaken = tale.shaken /\ tale'.dropped = tale.dropped
               /\ \A u \in Updates : tale'.taken[u] = tale.taken[u] + Cardinality(Pos(Places[h], u))
    <2>1. /\ \A u \in Updates : tale'.taken[u] = tale.taken[u] + Cardinality(Pos(hand[h].parts, u))
          /\ tale' = [tale EXCEPT !.taken = Counted(tale, hand[h].parts).taken]
      BY <1>1, <1>6, CountedIs
    <2>2. tale'.seen = tale.seen /\ tale'.shaken = tale.shaken /\ tale'.dropped = tale.dropped
      BY <1>1, <2>1 DEF Tale
    <2> QED BY <1>5, <1>6, <2>1, <2>2
  <1>7. CASE FilesReceived(h)
    <2>1. hand[h].stage = "file" /\ Enters(h, hand[h].parts) /\ hand[h].parts # <<>>
      BY <1>1, <1>7 DEF FilesReceived, HandSound
    <2>2. /\ tale' = Counted(tale, hand[h].parts) /\ hand'[h].stage \in {"begin", "reply"}
          /\ \A k \in Handlers : k # h => hand'[k] = hand[k]
      BY <1>1, <2>1, EntersIs
    <2> QED BY <1>2, <1>3, <1>4, <1>6, <2>1, <2>2
  <1>8. CASE FilesRefused(h)
    <2>1. /\ hand[h].stage = "file" /\ tale' = Counted(tale, hand[h].parts)
          /\ hand' = [hand EXCEPT ![h].stage = "reply"]
      BY <1>8 DEF FilesRefused
    <2>2. hand'[h].stage = "reply" /\ \A k \in Handlers : k # h => hand'[k] = hand[k]
      BY <1>1, <2>1 DEF Hand
    <2> QED BY <1>2, <1>3, <1>4, <1>6, <2>1, <2>2
  <1>9. CASE Tapped(h)
    <2>1. /\ hand[h].stage = "tap" /\ tale' = Counted(tale, hand[h].parts)
          /\ \/ hand' = [hand EXCEPT ![h].stage = "begin"]
             \/ hand' = [hand EXCEPT ![h].stage = "reply"]
      BY <1>9 DEF Tapped
    <2>2. hand'[h].stage \in {"begin", "reply"} /\ \A k \in Handlers : k # h => hand'[k] = hand[k]
      BY <1>1, <2>1 DEF Hand
    <2> QED BY <1>2, <1>3, <1>4, <1>6, <2>1, <2>2
  <1>10. CASE TapFails(h)
    <2>1. /\ hand[h].stage = "tap" /\ hand' = [hand EXCEPT ![h] = NoHand]
          /\ tale' = [tale EXCEPT !.dropped = @ \cup ToSet(hand[h].parts)]
      BY <1>10 DEF TapFails
    <2>2. hand'[h].stage = "none" /\ \A k \in Handlers : k # h => hand'[k] = hand[k]
      BY <1>1, <2>1 DEF NoHand
    <2>3. /\ tale'.seen = tale.seen /\ tale'.shaken = tale.shaken /\ tale'.taken = tale.taken
          /\ tale'.dropped = tale.dropped \cup ToSet(hand[h].parts)
      BY <1>1, <2>1 DEF Tale
    <2> QED BY <1>2, <1>3, <1>4, <1>5, <2>1, <2>2, <2>3
  <1>11. CASE Replied(h)
    <2>1. /\ hand[h].stage = "reply" /\ hand' = [hand EXCEPT ![h] = NoHand] /\ tale' = tale
      BY <1>11 DEF Replied
    <2>2. hand'[h].stage = "none" /\ \A k \in Handlers : k # h => hand'[k] = hand[k]
      BY <1>1, <2>1 DEF NoHand
    <2>3. Places[h] = <<>>
      BY <2>1, Kinded DEF Known, PartsHeld
    <2> QED BY <1>2, <1>3, <1>4, <2>1, <2>2, <2>3, Members
  <1> QED BY <1>7, <1>8, <1>9, <1>10, <1>11 DEF HandActs

(* The album's timer moves the parts from the album to a handler.          *)
LEMMA AlbumTells ==
    ASSUME WellFormed, NEW h \in AlbumSlots, AlbumDue(h)
    PROVE  /\ UNCHANGED <<cloud, botRow, poll, current, tale, Updates>>
           /\ Places[h] = <<>> /\ h \in Handlers /\ Places'[h] = Places[Off] /\ Places'[Off] = <<>>
           /\ \A x \in Spots : x \notin {h, Off} => Places'[x] = Places[x]
  <1>1. h \in Handlers /\ h # Off /\ hand \in [Handlers -> Hand]
    BY TelegramAssumption DEF Handlers, WellFormed, BridgeTypes
  <1>2. /\ hand[h] = NoHand /\ hand' = [hand EXCEPT ![h] = [stage |-> "file", parts |-> album]] /\ album' = <<>>
        /\ UNCHANGED <<cloud, botRow, poll, current, tale, telegramLeft>>
    BY DEF AlbumDue
  <1>3. hand[h].stage = "none" /\ hand'[h].stage = "file" /\ hand'[h].parts = album
        /\ \A k \in Handlers : k # h => hand'[k] = hand[k]
    BY <1>1, <1>2 DEF NoHand
  <1>4. PartsHeld(h) = <<>> /\ PartsHeld(h)' = album /\ \A k \in Handlers : k # h => PartsHeld(k)' = PartsHeld(k)
    BY <1>3 DEF PartsHeld
  <1> QED BY <1>1, <1>2, <1>4 DEF Places, Spots, Updates

(* The steps that leave the loops keep the updates.                        *)
LEMMA ChatKeeps == WellFormed /\ BridgeKept /\ WellFormed' /\ ChatActs => BridgeKept'
  <1> SUFFICES ASSUME WellFormed, BridgeKept, WellFormed', ChatActs PROVE BridgeKept'
    OBVIOUS
  <1>1. UNCHANGED <<cloud, botRow, poll, current, Told, Places, Updates>>
    BY ChatTells
  <1>2. /\ tale'.taken = tale.taken /\ tale'.dropped = tale.dropped /\ tale'.seen = tale.seen
        /\ tale'.shaken = tale.shaken /\ Places' = Places /\ Updates' = Updates
    BY <1>1 DEF Told
  <1>3. ASSUME NEW u \in Updates
        PROVE  /\ Keeps(u) => Keeps(u)'
               /\ \A l \in PollSlots : u \in ToSet(Places[l]) => Keeps(u)' \/ u \in ToSet(Places'[l])
               /\ Untouched(u) => Untouched(u)'
               /\ tale'.taken[u] + Cardinality(Occur(Places', u))
                     <= tale.taken[u] + Cardinality(Occur(Places, u))
    <2>1. tale.taken[u] \in Nat /\ Cardinality(Occur(Places, u)) \in Nat
      BY Kinded DEF Known
    <2> QED BY <1>2, <2>1 DEF Keeps, Untouched
  <1> QED BY <1>1, <1>2, <1>3, HandsKeep

(* So a handler keeps the updates.                                         *)
LEMMA HandKeeps ==
    ASSUME WellFormed, BridgeKept, WellFormed', NEW h \in Handlers, HandActs(h)
    PROVE  BridgeKept'
  <1>1. /\ UNCHANGED <<cloud, botRow, poll, current, Updates>>
        /\ tale'.seen = tale.seen /\ tale'.shaken = tale.shaken
        /\ Places' = [Places EXCEPT ![h] = <<>>]
        /\ \/ /\ tale'.dropped = tale.dropped
              /\ \A u \in Updates : tale'.taken[u] = tale.taken[u] + Cardinality(Pos(Places[h], u))
           \/ /\ tale'.dropped = tale.dropped \cup ToSet(Places[h])
              /\ tale'.taken = tale.taken
    BY HandTells
  <1>2. /\ Places \in [Spots -> Seq(Updates)] /\ h \in Spots /\ h # Off
        /\ Places' \in [Spots -> Seq(Updates)] /\ Places'[h] = <<>>
        /\ \A x \in Spots : x # h => Places'[x] = Places[x]
    BY <1>1, Kinded, EmptySeq, SpotsFinite DEF Known, Spots
  <1>3. ASSUME NEW u \in Updates
        PROVE  /\ Keeps(u) => Keeps(u)'
               /\ \A l \in PollSlots : u \in ToSet(Places[l]) => Keeps(u)' \/ u \in ToSet(Places'[l])
               /\ Untouched(u) => Untouched(u)'
               /\ tale'.taken[u] + Cardinality(Occur(Places', u))
                     <= tale.taken[u] + Cardinality(Occur(Places, u))
    <2>1. /\ tale.taken[u] \in Nat /\ Cardinality(Occur(Places, u)) \in Nat
          /\ Places[h] \in Seq(Updates)
      BY <1>2, Kinded DEF Known
    <2>2. /\ Cardinality(Pos(Places[h], u)) \in Nat
          /\ Cardinality(Pos(Places[h], u)) > 0 <=> u \in ToSet(Places[h])
      BY <2>1, Counts
    <2>3. /\ Cardinality(Occur(Places, u)) = Cardinality(Occur(Places', u)) + Cardinality(Pos(Places[h], u))
          /\ Cardinality(Occur(Places', u)) \in Nat
      <3> DEFINE F == Places
                 G == Places'
                 U == Updates
      <3>1. Cleared(F, G, h, U)
        BY <1>2 DEF Cleared
      <3> HIDE DEF F, G, U
      <3>2. Cardinality(Occur(F, u)) = Cardinality(Occur(G, u)) + Cardinality(Pos(F[h], u))
        BY <3>1, OccurLeaves
      <3>3. Cardinality(Occur(G, u)) \in Nat
        BY <3>1, OccurLeaves
      <3> QED BY <3>2, <3>3 DEF F, G
    <2>4. u \in ToSet(Places[h]) => tale'.taken[u] > 0 \/ u \in tale'.dropped
      BY <1>1, <2>1, <2>2
    <2>5. (tale.taken[u] > 0 => tale'.taken[u] > 0) /\ (u \in tale.dropped => u \in tale'.dropped)
      BY <1>1, <2>1, <2>2
    <2>6. Keeps(u) => Keeps(u)'
      <3>1. \A x \in Spots : u \in ToSet(Places[x]) /\ x # h => u \in ToSet(Places'[x])
        BY <1>2
      <3>2. Off \in Spots /\ AlbumSlots \subseteq Spots
        BY DEF Spots, Handlers
      <3> QED BY <1>2, <2>4, <2>5, <3>1, <3>2 DEF Keeps
    <2>7. \A l \in PollSlots : u \in ToSet(Places[l]) => Keeps(u)' \/ u \in ToSet(Places'[l])
      <3>1. PollSlots \subseteq Spots
        BY DEF Spots, Handlers
      <3> QED BY <1>2, <2>4, <3>1 DEF Keeps
    <2>8. Untouched(u) => Untouched(u)'
      <3> SUFFICES ASSUME Untouched(u) PROVE Untouched(u)'
        OBVIOUS
      <3>1. tale.taken[u] = 0 /\ \A x \in Spots : u \notin ToSet(Places[x])
        BY DEF Untouched
      <3>2. Cardinality(Pos(Places[h], u)) = 0
        BY <1>2, <2>2, <3>1
      <3>3. tale'.taken[u] = 0
        BY <1>1, <3>1, <3>2
      <3>4. \A x \in Spots : u \notin ToSet(Places'[x])
        BY <1>2, <3>1, Members
      <3> QED BY <3>3, <3>4 DEF Untouched
    <2>9. tale'.taken[u] + Cardinality(Occur(Places', u)) <= tale.taken[u] + Cardinality(Occur(Places, u))
      BY <1>1, <2>1, <2>2, <2>3
    <2> QED BY <2>6, <2>7, <2>8, <2>9
  <1> QED BY <1>1, <1>3, HandsKeep

(* And so does the album's timer.                                          *)
LEMMA AlbumKeeps ==
    ASSUME WellFormed, BridgeKept, WellFormed', NEW h \in AlbumSlots, AlbumDue(h)
    PROVE  BridgeKept'
  <1>1. /\ UNCHANGED <<cloud, botRow, poll, current, tale, Updates>>
        /\ Places[h] = <<>> /\ h \in Handlers /\ Places'[h] = Places[Off] /\ Places'[Off] = <<>>
        /\ \A x \in Spots : x \notin {h, Off} => Places'[x] = Places[x]
    BY AlbumTells
  <1>2. /\ Places \in [Spots -> Seq(Updates)] /\ h \in Spots /\ h # Off /\ Off \in Spots
        /\ Places[Off] \in Seq(Updates)
    BY <1>1, Kinded, SpotsFinite DEF Known, Spots
  <1>3. Places' \in [Spots -> Seq(Updates)]
    <2>1. (WellFormed => Known)'
      BY Kinded, PTL
    <2> QED BY <1>1, <2>1 DEF Known, Spots
  <1>4. ASSUME NEW u \in Updates
        PROVE  /\ Keeps(u) => Keeps(u)'
               /\ \A l \in PollSlots : u \in ToSet(Places[l]) => Keeps(u)' \/ u \in ToSet(Places'[l])
               /\ Untouched(u) => Untouched(u)'
               /\ tale'.taken[u] + Cardinality(Occur(Places', u))
                     <= tale.taken[u] + Cardinality(Occur(Places, u))
    <2>1. tale.taken[u] \in Nat /\ Cardinality(Occur(Places, u)) \in Nat
      BY Kinded DEF Known
    <2> DEFINE G == [Places EXCEPT ![Off] = <<>>]
    <2>2. /\ G \in [Spots -> Seq(Updates)] /\ G[Off] = <<>> /\ G[h] = <<>>
          /\ \A x \in Spots : x # Off => G[x] = Places[x]
          /\ \A x \in Spots : x # h => G[x] = Places'[x]
      BY <1>1, <1>2, EmptySeq
    <2> HIDE DEF G
    <2>3. /\ Cardinality(Occur(Places, u)) = Cardinality(Occur(G, u)) + Cardinality(Pos(Places[Off], u))
          /\ Cardinality(Occur(Places', u)) = Cardinality(Occur(G, u)) + Cardinality(Pos(Places'[h], u))
      <3> DEFINE F == Places
                 N == Places'
                 U == Updates
      <3>1. Cleared(F, G, Off, U) /\ Cleared(N, G, h, U)
        BY <1>2, <1>3, <2>2 DEF Cleared
      <3> HIDE DEF F, N, U
      <3>2. Cardinality(Occur(F, u)) = Cardinality(Occur(G, u)) + Cardinality(Pos(F[Off], u))
        BY <3>1, OccurLeaves
      <3>3. Cardinality(Occur(N, u)) = Cardinality(Occur(G, u)) + Cardinality(Pos(N[h], u))
        BY <3>1, OccurLeaves
      <3> QED BY <3>2, <3>3 DEF F, N
    <2>5. Cardinality(Occur(Places', u)) = Cardinality(Occur(Places, u))
      BY <1>1, <2>3
    <2>6. Keeps(u) => Keeps(u)'
      <3>1. AlbumSlots \subseteq Spots
        BY DEF Spots, Handlers
      <3> QED BY <1>1, <1>2, <3>1, Members DEF Keeps
    <2>7. \A l \in PollSlots : u \in ToSet(Places[l]) => u \in ToSet(Places'[l])
      <3>1. \A l \in PollSlots : l \in Spots /\ l # h /\ l # Off
        BY TelegramAssumption DEF Spots, Handlers
      <3> QED BY <1>1, <3>1
    <2>8. Untouched(u) => Untouched(u)'
      BY <1>1, <1>2, Members DEF Untouched
    <2> QED BY <1>1, <2>1, <2>5, <2>6, <2>7, <2>8
  <1> QED BY <1>1, <1>4, HandsKeep

----------------------------------------------------------------------------
(* Steps that leave the hands and the album.                               *)
LEMMA PlacesStay ==
    ASSUME UNCHANGED <<hand, album>>
    PROVE  Places' = Places
  BY DEF Places, PartsHeld

\* Nothing about the updates moves.
Steady == /\ UNCHANGED <<poll, current, hand, album, tale, Updates>>
          /\ cloud'.floor = cloud.floor /\ botRow'.offset = botRow.offset

(* Such a step keeps the updates.                                          *)
LEMMA SteadyKeeps == WellFormed /\ BridgeKept /\ WellFormed' /\ Steady => BridgeKept'
  <1> SUFFICES ASSUME WellFormed, BridgeKept, WellFormed', Steady PROVE BridgeKept'
    OBVIOUS
  <1>1. Places' = Places
    BY PlacesStay DEF Steady
  <1>2. ASSUME NEW u \in Updates
        PROVE  /\ Chances(u)' = Chances(u)
               /\ \A l \in PollSlots : Passed(l, u)' <=> Passed(l, u)
    BY DEF Steady, Chances, MayTake, Beyond, Passed
  <1>3. ASSUME NEW u \in Updates
        PROVE  KeptIs(u)' /\ UnseenIs(u)' /\ TokensAre(u)'
    <2>1. KeptIs(u) /\ UnseenIs(u) /\ TokensAre(u)
      BY DEF BridgeKept
    <2>2. Keeps(u)' <=> Keeps(u)
      BY <1>1 DEF Keeps, Steady
    <2>3. Untouched(u)' <=> Untouched(u)
      BY <1>1 DEF Untouched, Steady
    <2>4. KeptIs(u)'
      BY <1>1, <1>2, <2>1, <2>2 DEF KeptIs, Steady
    <2>5. UnseenIs(u)'
      BY <1>2, <2>1, <2>3 DEF UnseenIs, Steady
    <2>6. TokensAre(u)'
      BY <1>1, <1>2, <2>1 DEF TokensAre, Occur, Cell, Steady
    <2> QED BY <2>4, <2>5, <2>6
  <1> QED BY <1>3 DEF BridgeKept, Steady

(* An arrival and a toggle are such steps.                                 *)
LEMMA ArrivalIsSteady == WellFormed /\ (UpdateArrives \/ BotToggled \/ UNCHANGED telegramVars) => Steady
  <1> SUFFICES ASSUME WellFormed, UpdateArrives \/ BotToggled \/ UNCHANGED telegramVars PROVE Steady
    OBVIOUS
  <1>1. cloud \in [sent : Nat, floor : Nat] /\ botRow \in [enabled : BOOLEAN, offset : Nat] /\ BridgeTypes
    BY DEF WellFormed, BridgeTypes
  <1>2. CASE UpdateArrives
    <2>1. /\ cloud' = [cloud EXCEPT !.sent = @ + 1]
          /\ UNCHANGED <<botRow, poll, current, hand, album, tale, telegramLeft>>
      BY <1>2 DEF UpdateArrives
    <2>2. cloud'.floor = cloud.floor
      BY <1>1, <2>1
    <2> QED BY <2>1, <2>2 DEF Steady, Updates
  <1>3. CASE BotToggled
    <2>1. /\ botRow' = [botRow EXCEPT !.enabled = ~@] /\ TelegramPay("toggles")
          /\ UNCHANGED <<cloud, poll, current, hand, album, tale>>
      BY <1>3 DEF BotToggled
    <2>2. botRow'.offset = botRow.offset /\ telegramLeft'.plan = telegramLeft.plan
      BY <1>1, <2>1, PayIs
    <2> QED BY <2>1, <2>2 DEF Steady, Updates
  <1>4. CASE UNCHANGED telegramVars
    BY <1>4 DEF telegramVars, Steady, Updates
  <1> QED BY <1>2, <1>3, <1>4

(* One loop moves.                                                         *)
LEMMA LoopKeeps ==
    ASSUME WellFormed, BridgeKept, WellFormed', NEW l \in PollSlots,
           UNCHANGED <<hand, album, current, Updates>>, \A k \in PollSlots : k # l => poll'[k] = poll[k],
           cloud'.floor >= cloud.floor, tale'.taken = tale.taken, tale'.dropped = tale.dropped,
           tale'.shaken = tale.shaken, tale.seen \subseteq tale'.seen,
           \A u \in Updates :
              /\ u < cloud'.floor \/ u < botRow'.offset => Keeps(u)
              /\ Passed(l, u)' => Keeps(u) \/ u \in ToSet(Places[l])
              /\ u \notin tale'.seen =>
                    /\ u >= cloud'.floor /\ u >= botRow'.offset /\ ~Passed(l, u)'
                    /\ poll'[l].state = "handling" => u \notin ToSet(poll'[l].batch)
              /\ MayTake(l, u)' => MayTake(l, u)
    PROVE  BridgeKept'
  <1>1. Places' = Places
    BY PlacesStay
  <1>2. Known /\ cloud'.floor \in Nat /\ Updates \subseteq Nat
    <2>1. (WellFormed => Known)'
      BY Kinded, PTL
    <2> QED BY <2>1, Kinded DEF Known
  <1>3. ASSUME NEW u \in Updates
        PROVE  /\ u < cloud'.floor \/ u < botRow'.offset => Keeps(u)
               /\ \A k \in PollSlots : Passed(k, u)' => Keeps(u) \/ u \in ToSet(Places[k])
               /\ u \notin tale'.seen =>
                     /\ u >= cloud'.floor /\ u >= botRow'.offset
                     /\ \A k \in PollSlots : /\ ~Passed(k, u)'
                                             /\ poll'[k].state = "handling" => u \notin ToSet(poll'[k].batch)
               /\ Cardinality(Chances(u)') <= Cardinality(Chances(u))
    <2>1. KeptIs(u) /\ UnseenIs(u)
      BY DEF BridgeKept
    <2>2. \A k \in PollSlots : k # l => (Passed(k, u)' <=> Passed(k, u))
      BY DEF Passed
    <2>3. u >= cloud'.floor => u >= cloud.floor
      BY <1>2 DEF Known
    <2>4. \A k \in PollSlots : MayTake(k, u)' => MayTake(k, u)
      <3> SUFFICES ASSUME NEW k \in PollSlots, k # l, MayTake(k, u)' PROVE MayTake(k, u)
        OBVIOUS
      <3>1. poll'[k] = poll[k] /\ current' = current
        OBVIOUS
      <3> QED BY <2>2, <2>3, <3>1 DEF MayTake, Beyond
    <2>5. Chances(u)' \in SUBSET Chances(u)
      BY <2>3, <2>4 DEF Chances
    <2>6. Cardinality(Chances(u)') <= Cardinality(Chances(u))
      BY <2>5, FewerChances
    <2> QED BY <2>1, <2>2, <2>6 DEF KeptIs, UnseenIs
  <1> QED BY <1>1, <1>3, LoopsKeep

(* So do the call, its answer or failure, and the end of a batch.          *)
LEMMA LoopActsKeep ==
    ASSUME WellFormed, BridgeKept, WellFormed', NEW l \in PollSlots, LoopActs(l)
    PROVE  BridgeKept'
  <1>1. /\ tale \in Tale /\ poll \in [PollSlots -> Poll] /\ poll[l] \in Poll /\ LoopSound(l)
        /\ l \in Handlers /\ l \in Spots
        /\ cloud \in [sent : Nat, floor : Nat] /\ botRow \in [enabled : BOOLEAN, offset : Nat]
        /\ Updates \subseteq Nat /\ cloud.floor \in Nat /\ poll[l].offset \in Nat
        /\ poll[l].batch # <<>> => poll[l].batch[1] \in Nat
    BY Kinded DEF Known, WellFormed, BridgeTypes, Handlers, Spots
  <1>2. NoPoll.state = "none" /\ NoPoll.batch = <<>> /\ NoPoll.offset = 0
    BY DEF NoPoll
  <1>3. hand[l] = NoHand => Places[l] = <<>>
    BY <1>1, Kinded DEF Known, PartsHeld, NoHand
  <1>4. \A u \in Updates : KeptIs(u) /\ UnseenIs(u)
    BY DEF BridgeKept
  <1>5. UNCHANGED <<hand, album, current, Updates>>
    <2>1. UNCHANGED <<hand, album, current, telegramLeft>>
      BY DEF LoopActs, PollServed, PollAnswers, PollFails, BatchDone
    <2> QED BY <2>1 DEF Updates
  \* A loop that stops.
  <1>6. ASSUME poll'[l] = NoPoll, poll[l].aborted, poll[l].state # "none", NEW u \in Updates
        PROVE  ~Passed(l, u)' /\ ~MayTake(l, u)' /\ poll'[l].state # "handling"
    <2>1. l # current
      BY <1>1, <1>6 DEF LoopSound
    <2>2. ~Passed(l, u)'
      BY <1>1, <1>2, <1>6 DEF Passed
    <2>3. ~MayTake(l, u)'
      BY <1>2, <1>5, <1>6, <2>1 DEF MayTake
    <2> QED BY <1>2, <1>6, <2>2, <2>3
  <1>7. ~poll[l].aborted /\ poll[l].state # "none" => l = current
    BY <1>1 DEF LoopSound
  <1>8. CASE PollServed(l)
    <2> DEFINE b == [i \in 1 .. cloud.sent + 1 - cloud'.floor |-> cloud'.floor + i - 1]
    <2>1. /\ poll[l].state = "asking" /\ tale' = tale /\ botRow' = botRow
          /\ cloud'.floor = IF poll[l].offset > cloud.floor THEN poll[l].offset ELSE cloud.floor
          /\ poll' = [poll EXCEPT ![l].state = "answered", ![l].batch = b]
      BY <1>1, <1>8 DEF PollServed
    <2>2. /\ cloud'.floor \in Nat /\ cloud'.floor >= cloud.floor /\ cloud'.floor >= poll[l].offset
      BY <1>1, <2>1
    <2>3. /\ \A i \in DOMAIN b : b[i] = cloud'.floor + i - 1 /\ i \in Nat /\ i >= 1
          /\ b # <<>> => b[1] = cloud'.floor + 1 - 1
      <3>1. cloud'.floor <= cloud.sent + 1 /\ cloud.sent \in Nat
        <4>1. (WellFormed => Known)'
          BY Kinded, PTL
        <4>2. cloud'.sent = cloud.sent
          BY <1>1, <1>8 DEF PollServed
        <4> QED BY <1>1, <4>1, <4>2 DEF Known
      <3> DEFINE n == cloud.sent + 1 - cloud'.floor
      <3>2. n \in Nat /\ DOMAIN b = 1 .. n
        BY <2>2, <3>1
      <3>3. n = 0 => b = <<>>
        BY <3>2
      <3> QED BY <3>2, <3>3
    <2> HIDE DEF b
    <2>4. /\ poll'[l].state = "answered" /\ poll'[l].batch = b /\ poll'[l].offset = poll[l].offset
          /\ \A k \in PollSlots : k # l => poll'[k] = poll[k]
      BY <1>1, <2>1 DEF Poll
    <2>5. poll[l].batch = <<>> /\ hand[l] = NoHand
      BY <1>1, <2>1 DEF LoopSound
    <2>6. ASSUME NEW u \in Updates
          PROVE  /\ u < cloud'.floor \/ u < botRow'.offset => Keeps(u)
                 /\ Passed(l, u)' => Keeps(u) \/ u \in ToSet(Places[l])
                 /\ u \notin tale'.seen =>
                       /\ u >= cloud'.floor /\ u >= botRow'.offset /\ ~Passed(l, u)'
                       /\ poll'[l].state = "handling" => u \notin ToSet(poll'[l].batch)
                 /\ MayTake(l, u)' => MayTake(l, u)
      <3>1. Passed(l, u) <=> u < poll[l].offset
        BY <2>5 DEF Passed
      <3>2. u \in Nat /\ KeptIs(u) /\ UnseenIs(u) /\ u \notin ToSet(Places[l])
        BY <1>1, <1>3, <1>4, <2>5, Members
      <3>3. Passed(l, u)' => u < cloud'.floor
        BY <1>1, <2>2, <2>3, <2>4, <3>2 DEF Passed
      <3>4. u < cloud'.floor => Keeps(u)
        BY <2>1, <3>1, <3>2 DEF KeptIs
      <3>5. u < botRow'.offset => Keeps(u)
        BY <2>1, <3>2 DEF KeptIs
      <3>6. u \notin tale'.seen => u >= cloud'.floor /\ u >= botRow'.offset
        BY <1>1, <2>1, <3>1, <3>2 DEF UnseenIs
      <3>7. MayTake(l, u)' => MayTake(l, u)
        <4> SUFFICES ASSUME MayTake(l, u)' PROVE MayTake(l, u)
          OBVIOUS
        <4>1. l = current /\ (u \in ToSet(b) \/ (u >= cloud'.floor /\ ~Passed(l, u)'))
          BY <1>5, <2>4 DEF MayTake, Beyond
        <4>2. u \in ToSet(b) => u >= cloud'.floor
          <5> SUFFICES ASSUME u \in ToSet(b) PROVE u >= cloud'.floor
            OBVIOUS
          <5>1. PICK i \in DOMAIN b : b[i] = u
            BY DEF ToSet
          <5> QED BY <2>2, <2>3, <5>1
        <4>3. u >= cloud'.floor
          BY <4>1, <4>2
        <4>4. u >= cloud.floor /\ ~(u < poll[l].offset)
          BY <1>1, <2>2, <3>2, <4>3
        <4> QED BY <3>1, <4>1, <4>4 DEF MayTake, Beyond
      <3>8. u >= cloud'.floor => ~Passed(l, u)'
        BY <2>2, <3>2, <3>3
      <3> QED BY <2>4, <3>3, <3>4, <3>5, <3>6, <3>7, <3>8
    <2> QED BY <1>5, <2>1, <2>2, <2>4, <2>6, LoopKeeps
  <1>9. CASE PollAnswers(l)
    <2>1. /\ poll[l].state = "answered" /\ UNCHANGED <<cloud, botRow>>
          /\ poll'[l] = IF poll[l].aborted THEN NoPoll
                        ELSE [poll[l] EXCEPT !.state = IF poll[l].batch = <<>> THEN "asking" ELSE "handling"]
          /\ \A k \in PollSlots : k # l => poll'[k] = poll[k]
      BY <1>1, <1>9 DEF PollAnswers
    <2>2. /\ tale'.taken = tale.taken /\ tale'.dropped = tale.dropped /\ tale'.shaken = tale.shaken
          /\ tale'.seen = tale.seen \cup IF poll[l].aborted THEN {} ELSE ToSet(poll[l].batch)
      <3> DEFINE e == IF poll[l].aborted THEN {} ELSE ToSet(poll[l].batch)
      <3>1. tale' = [tale EXCEPT !.seen = @ \cup e]
        BY <1>9 DEF PollAnswers
      <3> HIDE DEF e
      <3>2. /\ tale'.taken = tale.taken /\ tale'.dropped = tale.dropped /\ tale'.shaken = tale.shaken
            /\ tale'.seen = tale.seen \cup e
        BY <1>1, <3>1 DEF Tale
      <3> QED BY <3>2 DEF e
    <2>3. hand[l] = NoHand
      BY <1>1, <2>1 DEF LoopSound
    <2>4. ~poll[l].aborted => poll'[l].batch = poll[l].batch /\ poll'[l].offset = poll[l].offset
      BY <1>1, <2>1 DEF Poll
    <2>5. ASSUME NEW u \in Updates
          PROVE  /\ u < cloud'.floor \/ u < botRow'.offset => Keeps(u)
                 /\ Passed(l, u)' => Keeps(u) \/ u \in ToSet(Places[l])
                 /\ u \notin tale'.seen =>
                       /\ u >= cloud'.floor /\ u >= botRow'.offset /\ ~Passed(l, u)'
                       /\ poll'[l].state = "handling" => u \notin ToSet(poll'[l].batch)
                 /\ MayTake(l, u)' => MayTake(l, u)
      <3>1. KeptIs(u) /\ UnseenIs(u)
        BY <1>4
      <3>2. CASE poll[l].aborted
        <4>1. ~Passed(l, u)' /\ ~MayTake(l, u)' /\ poll'[l].state # "handling"
          BY <1>6, <2>1, <3>2
        <4> QED BY <2>1, <2>2, <3>1, <4>1 DEF KeptIs, UnseenIs
      <3>3. CASE ~poll[l].aborted
        <4>1. Passed(l, u)' <=> Passed(l, u)
          BY <2>4, <3>3 DEF Passed
        <4>2. l = current
          BY <1>7, <2>1, <3>3
        <4>3. MayTake(l, u)' => MayTake(l, u)
          BY <2>1, <2>4, <3>3, <4>1, <4>2 DEF MayTake, Beyond
        <4>4. u \notin tale'.seen => u \notin tale.seen /\ u \notin ToSet(poll'[l].batch)
          BY <2>2, <2>4, <3>3
        <4> QED BY <2>1, <3>1, <4>1, <4>3, <4>4 DEF KeptIs, UnseenIs
      <3> QED BY <3>2, <3>3
    <2>6. cloud'.floor >= cloud.floor /\ tale.seen \subseteq tale'.seen
      BY <1>1, <2>1, <2>2
    <2> QED BY <1>5, <2>1, <2>2, <2>5, <2>6, LoopKeeps
  <1>10. CASE PollFails(l)
    <2>1. /\ poll[l].state \in {"asking", "answered"} /\ UNCHANGED <<cloud, botRow, tale>>
          /\ poll'[l] = IF poll[l].aborted THEN NoPoll ELSE [poll[l] EXCEPT !.state = "asking", !.batch = <<>>]
          /\ \A k \in PollSlots : k # l => poll'[k] = poll[k]
      BY <1>1, <1>10 DEF PollFails
    <2>2. ~poll[l].aborted => /\ poll'[l].batch = <<>> /\ poll'[l].offset = poll[l].offset
                              /\ poll'[l].state = "asking"
      BY <1>1, <2>1 DEF Poll
    <2>3. poll[l].batch # <<>> => poll[l].batch[1] <= cloud.floor
      BY <1>1, <2>1 DEF LoopSound
    <2>4. ASSUME NEW u \in Updates
          PROVE  /\ u < cloud'.floor \/ u < botRow'.offset => Keeps(u)
                 /\ Passed(l, u)' => Keeps(u) \/ u \in ToSet(Places[l])
                 /\ u \notin tale'.seen =>
                       /\ u >= cloud'.floor /\ u >= botRow'.offset /\ ~Passed(l, u)'
                       /\ poll'[l].state = "handling" => u \notin ToSet(poll'[l].batch)
                 /\ MayTake(l, u)' => MayTake(l, u)
      <3>1. KeptIs(u) /\ UnseenIs(u) /\ u \in Nat
        BY <1>1, <1>4
      <3>2. CASE poll[l].aborted
        <4>1. ~Passed(l, u)' /\ ~MayTake(l, u)' /\ poll'[l].state # "handling"
          BY <1>6, <2>1, <3>2
        <4> QED BY <2>1, <3>1, <4>1 DEF KeptIs, UnseenIs
      <3>3. CASE ~poll[l].aborted
        <4>1. Passed(l, u)' <=> u < poll[l].offset
          BY <2>2, <3>3 DEF Passed
        <4>2. Passed(l, u)' => Passed(l, u)
          BY <4>1 DEF Passed
        <4>3. u >= cloud.floor /\ ~Passed(l, u)' => ~Passed(l, u)
          BY <1>1, <2>3, <3>1, <4>1 DEF Passed
        <4>4. MayTake(l, u)' => MayTake(l, u)
          BY <1>5, <2>1, <2>2, <3>3, <4>3, Members DEF MayTake, Beyond
        <4> QED BY <2>1, <2>2, <3>1, <3>3, <4>2, <4>4 DEF KeptIs, UnseenIs
      <3> QED BY <3>2, <3>3
    <2>5. cloud'.floor >= cloud.floor
      BY <1>1, <2>1
    <2> QED BY <1>5, <2>1, <2>4, <2>5, LoopKeeps
  <1>11. CASE BatchDone(l)
    <2>1. /\ poll[l].state = "handling" /\ hand[l] = NoHand /\ poll[l].batch = <<>>
          /\ UNCHANGED <<cloud, tale>> /\ botRow'.offset = poll[l].offset
          /\ poll'[l] = IF poll[l].aborted THEN NoPoll ELSE [poll[l] EXCEPT !.state = "asking"]
          /\ \A k \in PollSlots : k # l => poll'[k] = poll[k]
      BY <1>1, <1>11 DEF BatchDone
    <2>2. ~poll[l].aborted => /\ poll'[l].batch = <<>> /\ poll'[l].offset = poll[l].offset
                              /\ poll'[l].state = "asking"
      BY <1>1, <2>1 DEF Poll
    <2>4. ASSUME NEW u \in Updates
          PROVE  /\ u < cloud'.floor \/ u < botRow'.offset => Keeps(u)
                 /\ Passed(l, u)' => Keeps(u) \/ u \in ToSet(Places[l])
                 /\ u \notin tale'.seen =>
                       /\ u >= cloud'.floor /\ u >= botRow'.offset /\ ~Passed(l, u)'
                       /\ poll'[l].state = "handling" => u \notin ToSet(poll'[l].batch)
                 /\ MayTake(l, u)' => MayTake(l, u)
      <3>1. KeptIs(u) /\ UnseenIs(u) /\ u \in Nat /\ u \notin ToSet(Places[l])
        BY <1>1, <1>3, <1>4, <2>1, Members
      <3>2. Passed(l, u) <=> u < poll[l].offset
        BY <2>1 DEF Passed
      <3>3. /\ u < cloud'.floor \/ u < botRow'.offset => Keeps(u)
            /\ u \notin tale'.seen => u >= cloud'.floor /\ u >= botRow'.offset
        BY <1>1, <2>1, <3>1, <3>2 DEF KeptIs, UnseenIs
      <3>4. CASE poll[l].aborted
        <4>1. ~Passed(l, u)' /\ ~MayTake(l, u)' /\ poll'[l].state # "handling"
          BY <1>6, <2>1, <3>4
        <4> QED BY <3>3, <4>1
      <3>5. CASE ~poll[l].aborted
        <4>1. Passed(l, u)' <=> Passed(l, u)
          BY <2>2, <3>2, <3>5 DEF Passed
        <4>2. MayTake(l, u)' => MayTake(l, u)
          BY <1>5, <2>1, <2>2, <3>5, <4>1, Members DEF MayTake, Beyond
        <4> QED BY <2>1, <2>2, <3>1, <3>3, <3>5, <4>1, <4>2 DEF KeptIs, UnseenIs
      <3> QED BY <3>4, <3>5
    <2>5. cloud'.floor >= cloud.floor
      BY <1>1, <2>1
    <2> QED BY <1>5, <2>1, <2>4, <2>5, LoopKeeps
  <1> QED BY <1>8, <1>9, <1>10, <1>11 DEF LoopActs

(* What the loop does with the next update of its batch.                   *)
LEMMA HandleTells ==
    ASSUME WellFormed, NEW l \in PollSlots, HandleUpdate(l), NEW a, a = Head(poll[l].batch)
    PROVE  /\ UNCHANGED <<cloud, botRow, current, Updates>>
           /\ tale'.seen = tale.seen /\ tale'.shaken = tale.shaken
           /\ a \in Updates /\ a = poll[l].batch[1] /\ a \in ToSet(poll[l].batch)
           /\ Places[l] = <<>> /\ Off \in Spots /\ l \in Spots /\ l # Off
           /\ \A x \in Spots : x \notin {l, Off} => Places'[x] = Places[x]
           /\ \/ /\ Places' = Places /\ tale'.dropped = tale.dropped
                 /\ \A u \in Updates : tale'.taken[u] = tale.taken[u] + IF u = a THEN 1 ELSE 0
              \/ /\ Places'[Off] = Append(Places[Off], a) /\ Places'[l] = Places[l]
                 /\ tale'.dropped = tale.dropped /\ tale'.taken = tale.taken
              \/ /\ Places' = Places /\ tale'.dropped = tale.dropped \cup {a}
                 /\ tale'.taken = tale.taken
              \/ /\ Places'[Off] = Places[Off] /\ Places'[l] = <<a>>
                 /\ tale'.dropped = tale.dropped /\ tale'.taken = tale.taken
  <1>1. /\ tale \in Tale /\ hand \in [Handlers -> Hand] /\ LoopSound(l) /\ Known
        /\ l \in Handlers /\ l \in Spots /\ Off \in Spots /\ l # Off
    BY Kinded, SpotsFinite DEF WellFormed, BridgeTypes, Handlers, Spots
  <1>2. /\ poll[l].state = "handling" /\ hand[l] = NoHand /\ poll[l].batch # <<>>
        /\ UNCHANGED <<cloud, botRow, current, telegramLeft>>
    BY DEF HandleUpdate
  <1>3. a = poll[l].batch[1] /\ a \in ToSet(poll[l].batch) /\ a \in Updates
    <2>1. poll[l].batch \in Seq(Nat) /\ Sent \subseteq Updates
      BY <1>1 DEF Known
    <2>2. a = poll[l].batch[1] /\ 1 \in DOMAIN poll[l].batch
      BY <1>2, <2>1, NotEmpty
    <2>3. a \in Sent
      BY <1>1, <2>2 DEF LoopSound
    <2> QED BY <2>1, <2>2, <2>3 DEF ToSet
  <1>4. UNCHANGED Updates
    BY <1>2 DEF Updates
  <1>5. hand[l].stage = "none" /\ PartsHeld(l) = <<>> /\ Places[l] = <<>>
    BY <1>1, <1>2 DEF NoHand, PartsHeld, Known
  <1>6. ASSUME \A k \in Handlers : k # l => hand'[k] = hand[k]
        PROVE  \A k \in Handlers : k # l => PartsHeld(k)' = PartsHeld(k)
    BY <1>6 DEF PartsHeld
  <1>7. CASE Enters(l, <<a>>) /\ UNCHANGED album
    <2>1. <<a>> \in Seq(Updates) /\ <<a>> # <<>> /\ hand[l].stage # "begin"
      BY <1>3, <1>5
    <2>2. /\ \A u \in Updates : tale'.taken[u] = tale.taken[u] + Cardinality(Pos(<<a>>, u))
          /\ tale' = [tale EXCEPT !.taken = tale'.taken]
          /\ hand'[l].stage \in {"begin", "reply"} /\ \A k \in Handlers : k # l => hand'[k] = hand[k]
      BY <1>1, <1>7, <2>1, EntersIs
    <2>3. tale'.seen = tale.seen /\ tale'.shaken = tale.shaken /\ tale'.dropped = tale.dropped
      BY <1>1, <2>2 DEF Tale
    <2>4. PartsHeld(l)' = PartsHeld(l)
      BY <1>5, <2>2 DEF PartsHeld
    <2>5. Places' = Places
      BY <1>6, <1>7, <2>2, <2>4 DEF Places, Spots
    <2>6. \A u \in Updates : Cardinality(Pos(<<a>>, u)) = IF u = a THEN 1 ELSE 0
      BY Members, FS_Singleton, FS_EmptySet, ZenonT(40)
    <2>7. \A u \in Updates : tale'.taken[u] = tale.taken[u] + IF u = a THEN 1 ELSE 0
      BY <2>2, <2>6
    <2> QED BY <1>1, <1>2, <1>3, <1>4, <1>5, <2>3, <2>5, <2>7
  <1>8. CASE Buffers(a) /\ UNCHANGED <<hand, convo, relaying>>
    <2>1. \A k \in Handlers : PartsHeld(k)' = PartsHeld(k)
      BY <1>8 DEF PartsHeld
    <2>2. CASE album' = Append(album, a) /\ UNCHANGED tale
      <3>1. /\ Places'[Off] = Append(Places[Off], a) /\ Places'[l] = Places[l]
            /\ \A x \in Spots : x \notin {l, Off} => Places'[x] = Places[x]
        BY <1>1, <2>1, <2>2 DEF Places, Spots
      <3> QED BY <1>1, <1>2, <1>3, <1>4, <1>5, <2>2, <3>1
    <2>3. CASE tale' = [tale EXCEPT !.dropped = @ \cup {a}] /\ UNCHANGED album
      <3>1. /\ tale'.seen = tale.seen /\ tale'.shaken = tale.shaken /\ tale'.taken = tale.taken
            /\ tale'.dropped = tale.dropped \cup {a}
        BY <1>1, <2>3 DEF Tale
      <3>2. Places' = Places
        BY <2>1, <2>3 DEF Places, Spots
      <3> QED BY <1>1, <1>2, <1>3, <1>4, <1>5, <3>1, <3>2
    <2> QED BY <1>8, <2>2, <2>3 DEF Buffers
  <1>9. CASE /\ KindOf(a) \in {"file", "tap"}
             /\ hand' = [hand EXCEPT ![l] = [stage |-> KindOf(a), parts |-> <<a>>]]
             /\ UNCHANGED <<album, convo, relaying, tale>>
    <2>1. /\ hand'[l].stage \in {"file", "tap"} /\ hand'[l].parts = <<a>>
          /\ \A k \in Handlers : k # l => hand'[k] = hand[k]
      BY <1>1, <1>9
    <2>2. PartsHeld(l)' = <<a>>
      BY <2>1 DEF PartsHeld
    <2>3. /\ Places'[Off] = Places[Off] /\ Places'[l] = <<a>>
          /\ \A x \in Spots : x \notin {l, Off} => Places'[x] = Places[x]
      BY <1>1, <1>6, <1>9, <2>1, <2>2 DEF Places, Spots
    <2> QED BY <1>1, <1>2, <1>3, <1>4, <1>5, <1>9, <2>3
  <1>10. a = Head(poll[l].batch)
    OBVIOUS
  <1> QED BY <1>7, <1>8, <1>9, <1>10 DEF HandleUpdate

(* So handling an update keeps it: a chance becomes a place or a count.    *)
LEMMA HandleKeeps ==
    ASSUME WellFormed, BridgeKept, WellFormed', NEW l \in PollSlots, HandleUpdate(l)
    PROVE  BridgeKept'
  <1> DEFINE a == Head(poll[l].batch)
  <1>1. /\ UNCHANGED <<cloud, botRow, current, Updates>>
        /\ tale'.seen = tale.seen /\ tale'.shaken = tale.shaken
        /\ a \in Updates /\ a = poll[l].batch[1] /\ a \in ToSet(poll[l].batch)
        /\ Places[l] = <<>> /\ Off \in Spots /\ l \in Spots /\ l # Off
        /\ \A x \in Spots : x \notin {l, Off} => Places'[x] = Places[x]
        /\ \/ /\ Places' = Places /\ tale'.dropped = tale.dropped
              /\ \A u \in Updates : tale'.taken[u] = tale.taken[u] + IF u = a THEN 1 ELSE 0
           \/ /\ Places'[Off] = Append(Places[Off], a) /\ Places'[l] = Places[l]
              /\ tale'.dropped = tale.dropped /\ tale'.taken = tale.taken
           \/ /\ Places' = Places /\ tale'.dropped = tale.dropped \cup {a}
              /\ tale'.taken = tale.taken
           \/ /\ Places'[Off] = Places[Off] /\ Places'[l] = <<a>>
              /\ tale'.dropped = tale.dropped /\ tale'.taken = tale.taken
    BY HandleTells
  <1>2. /\ poll[l].state = "handling" /\ poll[l].batch # <<>>
        /\ poll' = [poll EXCEPT ![l].batch = Tail(@), ![l].offset = a + 1]
    BY DEF HandleUpdate
  <1>3. poll' = [poll EXCEPT ![l].batch = Tail(poll[l].batch), ![l].offset = a + 1]
    BY <1>2
  <1> HIDE DEF a
  <1>4. /\ LoopSound(l) /\ poll \in [PollSlots -> Poll] /\ poll[l] \in Poll /\ Known
        /\ poll[l].batch \in Seq(Nat) /\ a \in Nat /\ Updates \subseteq Nat /\ poll[l].offset \in Nat
    BY <1>1, Kinded DEF Known, WellFormed, BridgeTypes
  <1>5. Known' /\ Places' \in [Spots -> Seq(Updates)] /\ tale'.taken \in [Updates -> Nat]
    <2>1. (WellFormed => Known)'
      BY Kinded, PTL
    <2> QED BY <1>1, <2>1 DEF Known, Spots
  <1>6. /\ Tail(poll[l].batch) \in Seq(Nat) /\ DOMAIN Tail(poll[l].batch) \subseteq Nat
        /\ \A i \in DOMAIN Tail(poll[l].batch) : /\ Tail(poll[l].batch)[i] = poll[l].batch[i + 1]
                                                 /\ i + 1 \in DOMAIN poll[l].batch
        /\ Tail(poll[l].batch) # <<>> => 1 \in DOMAIN Tail(poll[l].batch)
    BY <1>2, <1>4, TailIs
  <1>7. /\ poll'[l].batch = Tail(poll[l].batch) /\ poll'[l].offset = a + 1 /\ poll'[l].state = "handling"
        /\ \A k \in PollSlots : k # l => poll'[k] = poll[k]
    <2> DEFINE t == Tail(poll[l].batch)
    <2>1. poll' = [poll EXCEPT ![l].batch = t, ![l].offset = a + 1] /\ t \in Seq(Nat)
      BY <1>3, <1>6
    <2> HIDE DEF t
    <2>2. /\ poll'[l].batch = t /\ poll'[l].offset = a + 1 /\ poll'[l].state = poll[l].state
          /\ \A k \in PollSlots : k # l => poll'[k] = poll[k]
      BY <1>4, <2>1 DEF Poll
    <2> QED BY <1>2, <2>2 DEF t
  <1>8. ASSUME NEW u \in ToSet(poll'[l].batch) PROVE u \in ToSet(poll[l].batch) /\ u # a
    <2>1. PICK i \in DOMAIN Tail(poll[l].batch) : u = Tail(poll[l].batch)[i]
      BY <1>7, <1>8 DEF ToSet
    <2>2. /\ u = poll[l].batch[i + 1] /\ i + 1 \in DOMAIN poll[l].batch /\ i \in Nat
      BY <1>6, <2>1
    <2>3. u = a + (i + 1) - 1
      BY <1>1, <1>4, <2>2 DEF LoopSound
    <2>4. i # 0
      <3>1. DOMAIN Tail(poll[l].batch) = 1 .. Len(Tail(poll[l].batch)) /\ Len(Tail(poll[l].batch)) \in Nat
        BY <1>6
      <3> QED BY <2>1, <3>1
    <2>5. u # a
      BY <1>4, <2>2, <2>3, <2>4
    <2> QED BY <2>2, <2>5 DEF ToSet
  <1>9. poll'[l].batch # <<>> => poll'[l].batch[1] = a + 1
    <2> SUFFICES ASSUME poll'[l].batch # <<>> PROVE poll'[l].batch[1] = a + 1
      OBVIOUS
    <2>1. poll'[l].batch[1] = poll[l].batch[1 + 1] /\ 1 + 1 \in DOMAIN poll[l].batch
      BY <1>6, <1>7
    <2>2. poll[l].batch[1 + 1] = a + (1 + 1) - 1
      BY <1>1, <1>4, <2>1 DEF LoopSound
    <2> QED BY <1>4, <2>1, <2>2
  <1>10. ASSUME NEW u \in Updates
         PROVE  KeptIs(u)' /\ UnseenIs(u)' /\ TokensAre(u)'
    <2>1. /\ KeptIs(u) /\ UnseenIs(u) /\ TokensAre(u) /\ u \in Nat
          /\ tale.taken[u] \in Nat /\ tale'.taken[u] \in Nat /\ tale.shaken[u] \in Nat
          /\ Cardinality(Occur(Places, u)) \in Nat /\ Cardinality(Occur(Places', u)) \in Nat
          /\ Cardinality(Chances(u)) \in Nat /\ IsFiniteSet(Chances(u))
      BY <1>4, <1>5 DEF BridgeKept, Known, Occur, Cell
    <2>2. /\ Passed(l, u)' <=> u <= a
          /\ Passed(l, u) <=> u < a
          /\ \A k \in PollSlots : k # l => (Passed(k, u)' <=> Passed(k, u))
      <3>1. Passed(l, u)' <=> u < a + 1
        BY <1>7, <1>9 DEF Passed
      <3>2. poll[l].offset <= a
        BY <1>1, <1>2, <1>4 DEF LoopSound
      <3>3. Passed(l, u) <=> u < a
        BY <1>1, <1>2, <1>4, <2>1, <3>2, SMTT(40) DEF Passed
      <3>4. \A k \in PollSlots : k # l => (Passed(k, u)' <=> Passed(k, u))
        BY <1>7 DEF Passed
      <3> QED BY <1>4, <2>1, <3>1, <3>3, <3>4
    \* The places and the count.
    <2>3. /\ tale'.taken[u] + Cardinality(Occur(Places', u)) <=
                tale.taken[u] + Cardinality(Occur(Places, u)) + IF u = a THEN 1 ELSE 0
          /\ Keeps(u) => Keeps(u)'
          /\ u = a => Keeps(u)' \/ u \in ToSet(Places'[l])
          /\ u # a /\ Untouched(u) => Untouched(u)'
      <3>0. AlbumSlots \subseteq Spots /\ l \notin AlbumSlots /\ Off \notin AlbumSlots
        BY TelegramAssumption DEF Spots, Handlers
      <3> DEFINE F == Places
                 N == Places'
                 U == Updates
      <3>1. /\ F \in [Spots -> Seq(U)] /\ N \in [Spots -> Seq(U)] /\ F[Off] \in Seq(U)
        BY <1>1, <1>4, <1>5 DEF Known
      <3>2. CASE /\ Places' = Places /\ tale'.dropped = tale.dropped
                 /\ \A v \in Updates : tale'.taken[v] = tale.taken[v] + IF v = a THEN 1 ELSE 0
        BY <2>1, <3>2 DEF Keeps, Untouched
      <3>3. CASE /\ Places' = Places /\ tale'.dropped = tale.dropped \cup {a}
                 /\ tale'.taken = tale.taken
        BY <2>1, <3>3 DEF Keeps, Untouched
      <3>4. CASE /\ Places'[Off] = Append(Places[Off], a) /\ Places'[l] = Places[l]
                 /\ tale'.dropped = tale.dropped /\ tale'.taken = tale.taken
        <4> DEFINE G == [F EXCEPT ![Off] = <<>>]
        <4>1. Cleared(F, G, Off, U) /\ Cleared(N, G, Off, U)
          <5>1. \A x \in Spots : x # Off => N[x] = F[x]
            BY <1>1, <3>4
          <5> QED BY <1>1, <3>1, <5>1, EmptySeq DEF Cleared
        <4>2. ToSet(N[Off]) = ToSet(F[Off]) \cup {a}
              /\ Cardinality(Pos(N[Off], u)) = Cardinality(Pos(F[Off], u)) + IF u = a THEN 1 ELSE 0
          <5>1. F[Off] \in Seq(U) /\ a \in U /\ N[Off] = Append(F[Off], a)
            BY <1>1, <3>1, <3>4
          <5> HIDE DEF F, N, U
          <5> QED BY <5>1, CountsAppend
        <4>3. \A x \in Spots : x # Off => N[x] = F[x]
          BY <1>1, <3>4
        <4> HIDE DEF F, G, N, U
        <4>4. /\ Cardinality(Occur(F, u)) = Cardinality(Occur(G, u)) + Cardinality(Pos(F[Off], u))
              /\ Cardinality(Occur(N, u)) = Cardinality(Occur(G, u)) + Cardinality(Pos(N[Off], u))
              /\ Cardinality(Occur(G, u)) \in Nat
          BY <4>1, OccurLeaves
        <4>5. Cardinality(Pos(F[Off], u)) \in Nat
          BY <3>1, Counts
        <4>6. Cardinality(Occur(N, u)) = Cardinality(Occur(F, u)) + IF u = a THEN 1 ELSE 0
          BY <4>2, <4>4, <4>5
        <4>7. tale'.taken[u] + Cardinality(Occur(N, u)) <=
                tale.taken[u] + Cardinality(Occur(F, u)) + IF u = a THEN 1 ELSE 0
          BY <2>1, <3>4, <4>6 DEF F, N
        <4>8. (Keeps(u) => Keeps(u)') /\ (u = a => Keeps(u)')
          BY <3>0, <3>4, <4>2, <4>3 DEF Keeps, F, N
        <4>9. u # a /\ Untouched(u) => Untouched(u)'
          BY <3>4, <4>2, <4>3 DEF Untouched, F, N
        <4> QED BY <4>7, <4>8, <4>9 DEF F, N
      <3>5. CASE /\ Places'[Off] = Places[Off] /\ Places'[l] = <<a>>
                 /\ tale'.dropped = tale.dropped /\ tale'.taken = tale.taken
        <4>1. \A x \in Spots : x # l => N[x] = F[x]
          BY <1>1, <3>5
        <4>2. Cleared(N, F, l, U)
          BY <1>1, <3>1, <4>1 DEF Cleared
        <4>3. Cardinality(Pos(N[l], u)) = IF u = a THEN 1 ELSE 0
          <5>1. N[l] = <<a>>
            BY <3>5
          <5>2. Pos(N[l], u) = IF u = a THEN {1} ELSE {}
            BY <5>1, Members
          <5>3. Cardinality({1}) = 1 /\ Cardinality({}) = 0
            BY FS_Singleton, FS_EmptySet
          <5> HIDE DEF N
          <5> QED BY <5>2, <5>3
        <4> HIDE DEF F, N, U
        <4>4. Cardinality(Occur(N, u)) = Cardinality(Occur(F, u)) + Cardinality(Pos(N[l], u))
          BY <4>2, OccurLeaves
        <4>7. tale'.taken[u] + Cardinality(Occur(N, u)) <=
                tale.taken[u] + Cardinality(Occur(F, u)) + IF u = a THEN 1 ELSE 0
          BY <2>1, <3>5, <4>3, <4>4 DEF F, N
        <4>8. (Keeps(u) => Keeps(u)') /\ (u = a => u \in ToSet(Places'[l]))
          BY <1>1, <3>0, <3>5, <4>1, Members DEF Keeps, F, N
        <4>9. u # a /\ Untouched(u) => Untouched(u)'
          BY <3>5, <4>1, Members DEF Untouched, F, N
        <4> QED BY <4>7, <4>8, <4>9 DEF F, N
      <3> QED BY <1>1, <3>2, <3>3, <3>4, <3>5
    \* The loops.
    <2>4. KeptIs(u)'
      <3>1. u < cloud.floor \/ u < botRow.offset => Keeps(u)'
        BY <2>1, <2>3 DEF KeptIs
      <3>2. ASSUME NEW k \in PollSlots, Passed(k, u)' PROVE Keeps(u)' \/ u \in ToSet(Places'[k])
        <4>1. CASE k # l
          <5>1. k \in Spots /\ k # Off
            BY TelegramAssumption DEF Spots, Handlers
          <5> QED BY <1>1, <2>1, <2>2, <2>3, <3>2, <4>1, <5>1 DEF KeptIs
        <4>2. CASE k = l
          <5>1. u = a \/ Passed(l, u)
            BY <1>4, <2>1, <2>2, <3>2, <4>2
          <5> QED BY <1>1, <2>1, <2>3, <4>2, <5>1, Members DEF KeptIs
        <4> QED BY <4>1, <4>2
      <3> QED BY <1>1, <3>1, <3>2 DEF KeptIs
    <2>5. UnseenIs(u)'
      <3> SUFFICES ASSUME u \notin tale.seen PROVE UnseenIs(u)'
        BY <1>1 DEF UnseenIs
      <3>1. /\ u >= cloud.floor /\ u >= botRow.offset /\ Untouched(u)
            /\ \A k \in PollSlots : /\ ~Passed(k, u)
                                    /\ poll[k].state = "handling" => u \notin ToSet(poll[k].batch)
        BY <2>1 DEF UnseenIs
      <3>2. u # a /\ ~(u <= a) /\ u \notin ToSet(poll'[l].batch)
        <4>1. u \notin ToSet(poll[l].batch) /\ ~Passed(l, u)
          BY <1>2, <3>1
        <4>2. u # a
          BY <1>1, <4>1
        <4>3. ~(u <= a)
          BY <1>4, <2>1, <2>2, <4>1, <4>2
        <4>4. u \notin ToSet(poll'[l].batch)
          BY <1>8, <4>1
        <4> QED BY <4>2, <4>3, <4>4
      <3>3. Untouched(u)'
        BY <2>3, <3>1, <3>2
      <3>4. ASSUME NEW k \in PollSlots
            PROVE  ~Passed(k, u)' /\ (poll'[k].state = "handling" => u \notin ToSet(poll'[k].batch))
        BY <1>7, <2>2, <3>1, <3>2
      <3> QED BY <1>1, <3>1, <3>3, <3>4 DEF UnseenIs
    <2>6. TokensAre(u)'
      <3>1. \A k \in PollSlots : MayTake(k, u)' => MayTake(k, u)
        <4> SUFFICES ASSUME NEW k \in PollSlots, MayTake(k, u)' PROVE MayTake(k, u)
          OBVIOUS
        <4>1. CASE k # l
          BY <1>1, <1>7, <2>2, <4>1 DEF MayTake, Beyond
        <4>2. CASE k = l
          <5>1. Passed(l, u) => Passed(l, u)'
            BY <1>4, <2>1, <2>2
          <5>2. u \in ToSet(poll'[l].batch) => u \in ToSet(poll[l].batch)
            BY <1>8
          <5> QED BY <1>1, <1>2, <4>2, <5>1, <5>2 DEF MayTake, Beyond
        <4> QED BY <4>1, <4>2
      <3>2. Chances(u)' \in SUBSET Chances(u)
        BY <1>1, <3>1 DEF Chances
      <3>3. u = a => l \in Chances(u) /\ l \notin Chances(u)'
        <4> SUFFICES ASSUME u = a PROVE l \in Chances(u) /\ l \notin Chances(u)'
          OBVIOUS
        <4>1. MayTake(l, u)
          BY <1>1, <1>2 DEF MayTake
        <4>2. ~MayTake(l, u)'
          BY <1>4, <1>8, <2>2 DEF MayTake, Beyond
        <4> QED BY <1>1, <4>1, <4>2 DEF Chances
      <3>4. /\ Cardinality(Chances(u)') \in Nat
            /\ Cardinality(Chances(u)') + (IF u = a THEN 1 ELSE 0) <= Cardinality(Chances(u))
        <4> DEFINE C == Chances(u)
                   D == Chances(u)'
        <4>1. IsFiniteSet(C) /\ D \in SUBSET C /\ Cardinality(C) \in Nat
          BY <2>1, <3>2
        <4>2. u = a => l \in C /\ l \notin D
          BY <3>3
        <4> HIDE DEF C, D
        <4>3. IsFiniteSet(D) /\ Cardinality(D) <= Cardinality(C) /\ Cardinality(D) \in Nat
          BY <4>1, FS_Subset, FS_CardinalityType
        <4>4. Cardinality(C) = Cardinality(D) => C = D
          BY <4>1, FS_Subset
        <4> QED BY <4>1, <4>2, <4>3, <4>4 DEF C, D
      <3>5. TokensAre(u)' <=> tale'.taken[u] + Cardinality(Chances(u)') + Cardinality(Occur(Places', u))
                                 <= 1 + tale.shaken[u]
        BY <1>1 DEF TokensAre, Occur, Cell
      <3>6. tale.taken[u] + Cardinality(Chances(u)) + Cardinality(Occur(Places, u)) <= 1 + tale.shaken[u]
        BY <2>1 DEF TokensAre
      <3> QED BY <2>1, <2>3, <3>4, <3>5, <3>6
    <2> QED BY <2>4, <2>5, <2>6
  <1> QED BY <1>1, <1>10 DEF BridgeKept

----------------------------------------------------------------------------
(* The tick of the poller.  One chance is given for another.               *)
LEMMA Swapped ==
    ASSUME NEW C, IsFiniteSet(C), NEW x \in C, NEW y, NEW D, D \subseteq (C \ {x}) \cup {y}
    PROVE  Cardinality(D) <= Cardinality(C)
  <1>1. /\ IsFiniteSet(C \ {x}) /\ Cardinality(C \ {x}) = Cardinality(C) - 1
        /\ Cardinality(C) \in Nat /\ Cardinality(C \ {x}) \in Nat
    BY FS_RemoveElement, FS_CardinalityType
  <1> DEFINE E == (C \ {x}) \cup {y}
  <1>2. IsFiniteSet(E) /\ Cardinality(E) \in Nat /\ Cardinality(E) <= Cardinality(C)
    <2>1. CASE y \in C \ {x}
      <3>1. E = C \ {x}
        BY <2>1
      <3> QED BY <1>1, <3>1
    <2>2. CASE y \notin C \ {x}
      <3>1. IsFiniteSet(E) /\ Cardinality(E) = Cardinality(C \ {x}) + 1
        BY <1>1, <2>2, FS_AddElement
      <3> QED BY <1>1, <3>1
    <2> QED BY <2>1, <2>2
  <1> HIDE DEF E
  <1>3. D \in SUBSET E
    BY DEF E
  <1>4. IsFiniteSet(D) /\ Cardinality(D) <= Cardinality(E) /\ Cardinality(D) \in Nat
    BY <1>2, <1>3, FS_Subset, FS_CardinalityType
  <1> QED BY <1>1, <1>2, <1>4

(* One more chance at most.                                                *)
LEMMA Grown ==
    ASSUME NEW C, IsFiniteSet(C), NEW y, NEW D, D \subseteq C \cup {y}
    PROVE  Cardinality(D) <= Cardinality(C) + 1
  <1>1. IsFiniteSet(C \cup {y}) /\ Cardinality(C \cup {y}) <= Cardinality(C) + 1 /\ Cardinality(C) \in Nat
    <2>1. Cardinality(C) \in Nat
      BY FS_CardinalityType
    <2>2. CASE y \in C
      <3>1. C \cup {y} = C
        BY <2>2
      <3> QED BY <2>1, <3>1
    <2>3. CASE y \notin C
      <3>1. IsFiniteSet(C \cup {y}) /\ Cardinality(C \cup {y}) = Cardinality(C) + 1
        BY <2>3, FS_AddElement
      <3> QED BY <2>1, <3>1
    <2> QED BY <2>2, <2>3
  <1>2. Cardinality(C \cup {y}) \in Nat
    BY <1>1, FS_CardinalityType
  <1> DEFINE E == C \cup {y}
  <1>3. D \in SUBSET E /\ IsFiniteSet(E)
    BY <1>1
  <1> HIDE DEF E
  <1>4. Cardinality(D) <= Cardinality(E) /\ Cardinality(D) \in Nat
    BY <1>3, FS_Subset, FS_CardinalityType
  <1> QED BY <1>1, <1>2, <1>4 DEF E

(* A new loop asks from the saved offset and takes the chance of none.     *)
LEMMA StartKeeps ==
    ASSUME WellFormed, BridgeKept, WellFormed', UNCHANGED <<cloud, botRow, hand, album, tale, Updates>>,
           current = Off, NEW l \in PollSlots, current' = l, NEW v,
           poll' = [poll EXCEPT ![l] = v], v.state = "asking", v.offset = botRow.offset, v.batch = <<>>
    PROVE  BridgeKept'
  <1>1. Places' = Places
    BY PlacesStay
  <1>2. /\ Known /\ poll \in [PollSlots -> Poll] /\ \A k \in PollSlots : k # Off
        /\ poll'[l] = v /\ \A k \in PollSlots : k # l => poll'[k] = poll[k]
    BY Kinded, TelegramAssumption DEF WellFormed, BridgeTypes
  <1>3. ASSUME NEW u \in Updates
        PROVE  /\ u < cloud'.floor \/ u < botRow'.offset => Keeps(u)
               /\ \A k \in PollSlots : Passed(k, u)' => Keeps(u) \/ u \in ToSet(Places[k])
               /\ u \notin tale'.seen =>
                     /\ u >= cloud'.floor /\ u >= botRow'.offset
                     /\ \A k \in PollSlots : /\ ~Passed(k, u)'
                                             /\ poll'[k].state = "handling" => u \notin ToSet(poll'[k].batch)
               /\ Cardinality(Chances(u)') <= Cardinality(Chances(u))
    <2>1. KeptIs(u) /\ UnseenIs(u) /\ u \in Nat /\ cloud.floor \in Nat /\ botRow.offset \in Nat
      BY <1>2 DEF BridgeKept, Known
    <2>2. \A k \in PollSlots : k # l => (Passed(k, u)' <=> Passed(k, u))
      BY <1>2 DEF Passed
    <2>3. Passed(l, u)' <=> u < botRow.offset
      BY <1>2 DEF Passed
    <2>4. \A k \in PollSlots : k # l => (MayTake(k, u)' => MayTake(k, u))
      BY <1>2 DEF MayTake
    <2>5. MayTake(l, u)' => u >= cloud.floor
      BY <1>2, Members DEF MayTake, Beyond
    <2>6. Cardinality(Chances(u)') <= Cardinality(Chances(u))
      <3>1. IsFiniteSet(Chances(u))
        BY <1>2 DEF Known
      <3>2. CASE u >= cloud.floor
        <4>1. Off \in Chances(u) /\ Chances(u)' \subseteq (Chances(u) \ {Off}) \cup {l}
          BY <1>2, <2>4, <3>2 DEF Chances
        <4> DEFINE C == Chances(u)
                   D == Chances(u)'
        <4>2. IsFiniteSet(C) /\ Off \in C /\ D \subseteq (C \ {Off}) \cup {l}
          BY <3>1, <4>1
        <4> HIDE DEF C, D
        <4>3. Cardinality(D) <= Cardinality(C)
          BY <4>2, Swapped
        <4> QED BY <4>3 DEF C, D
      <3>3. CASE ~(u >= cloud.floor)
        <4>1. Chances(u)' \in SUBSET Chances(u)
          BY <1>2, <2>4, <2>5, <3>3 DEF Chances
        <4> QED BY <4>1, FewerChances
      <3> QED BY <3>2, <3>3
    <2>7. \A k \in PollSlots : Passed(k, u)' => Keeps(u) \/ u \in ToSet(Places[k])
      BY <2>1, <2>2, <2>3 DEF KeptIs
    <2>8. ASSUME u \notin tale.seen, NEW k \in PollSlots
          PROVE  ~Passed(k, u)' /\ (poll'[k].state = "handling" => u \notin ToSet(poll'[k].batch))
      <3>1. CASE k # l
        BY <1>2, <2>1, <2>2, <2>8, <3>1 DEF UnseenIs
      <3>2. CASE k = l
        <4>1. ~(u < botRow.offset)
          BY <2>1, <2>8 DEF UnseenIs
        <4> QED BY <1>2, <2>3, <3>2, <4>1
      <3> QED BY <3>1, <3>2
    <2> QED BY <2>1, <2>6, <2>7, <2>8 DEF KeptIs, UnseenIs
  <1> QED BY <1>1, <1>3, LoopsKeep

(* An aborted loop still handles what it has: one more chance for it.      *)
LEMMA AbortKeeps ==
    ASSUME WellFormed, BridgeKept, WellFormed', UNCHANGED <<cloud, botRow, hand, album, Updates>>,
           NEW l \in PollSlots, current = l, current' = Off, tale' = Shaken(tale),
           poll' = [poll EXCEPT ![l].aborted = TRUE]
    PROVE  BridgeKept'
  <1>1. Places' = Places
    BY PlacesStay
  <1>2. /\ Known /\ BridgeTypes /\ poll \in [PollSlots -> Poll] /\ \A k \in PollSlots : k # Off
        /\ \A k \in PollSlots : /\ poll'[k].state = poll[k].state /\ poll'[k].batch = poll[k].batch
                                /\ poll'[k].offset = poll[k].offset
    BY Kinded, TelegramAssumption, SMTT(40) DEF WellFormed, BridgeTypes, Poll
  <1>3. /\ tale'.taken = tale.taken /\ tale'.dropped = tale.dropped /\ tale'.seen = tale.seen
        /\ \A u \in Updates : tale'.shaken[u] =
              IF u \in tale.seen /\ u >= cloud.floor THEN tale.shaken[u] + 1 ELSE tale.shaken[u]
    <2> DEFINE n == Shaken(tale).shaken
    <2>1. tale' = [tale EXCEPT !.shaken = n] /\ tale \in Tale
      BY <1>2, ShakenIs DEF BridgeTypes
    <2>2. \A u \in Updates : n[u] =
              IF u \in tale.seen /\ u >= cloud.floor THEN tale.shaken[u] + 1 ELSE tale.shaken[u]
      BY <1>2, ShakenIs
    <2> HIDE DEF n
    <2> QED BY <2>1, <2>2 DEF Tale
  <1>4. ASSUME NEW u \in Updates PROVE KeptIs(u)' /\ UnseenIs(u)' /\ TokensAre(u)'
    <2>1. /\ KeptIs(u) /\ UnseenIs(u) /\ TokensAre(u) /\ u \in Nat /\ cloud.floor \in Nat
          /\ IsFiniteSet(Chances(u)) /\ Cardinality(Chances(u)) \in Nat
          /\ tale.taken[u] \in Nat /\ tale.shaken[u] \in Nat /\ Cardinality(Occur(Places, u)) \in Nat
      BY <1>2 DEF BridgeKept, Known
    <2>2. \A k \in PollSlots : Passed(k, u)' <=> Passed(k, u)
      BY <1>2 DEF Passed
    <2>3. Keeps(u)' <=> Keeps(u)
      BY <1>1, <1>3 DEF Keeps
    <2>4. KeptIs(u)'
      BY <1>1, <2>1, <2>2, <2>3 DEF KeptIs
    <2>5. UnseenIs(u)'
      <3>1. Untouched(u)' <=> Untouched(u)
        BY <1>1, <1>3 DEF Untouched
      <3> QED BY <1>2, <1>3, <2>1, <2>2, <3>1 DEF UnseenIs
    <2>6. \A k \in PollSlots : MayTake(k, u)' => MayTake(k, u)
      BY <1>2 DEF MayTake
    <2>7. Cardinality(Chances(u)') + tale.shaken[u] <= Cardinality(Chances(u)) + tale'.shaken[u]
          /\ Cardinality(Chances(u)') \in Nat
      <3> DEFINE C == Chances(u)
                 D == Chances(u)'
      <3>1. D \subseteq C \cup {Off} /\ IsFiniteSet(C) /\ Cardinality(C) \in Nat
        BY <2>1, <2>6 DEF Chances
      <3>2. CASE ~(u >= cloud.floor)
        <4>1. D \in SUBSET C
          BY <2>6, <3>2 DEF Chances
        <4>2. Cardinality(D) <= Cardinality(C) /\ Cardinality(D) \in Nat
          BY <4>1, FewerChances
        <4> HIDE DEF C, D
        <4>3. tale'.shaken[u] = tale.shaken[u]
          BY <1>3, <3>2
        <4> QED BY <2>1, <3>1, <4>2, <4>3 DEF C, D
      <3>3. CASE u >= cloud.floor /\ u \in tale.seen
        <4>1. tale'.shaken[u] = tale.shaken[u] + 1
          BY <1>3, <3>3
        <4> HIDE DEF C, D
        <4>2. Cardinality(D) <= Cardinality(C) + 1
          BY <3>1, Grown
        <4>3. Cardinality(D) \in Nat
          BY <3>1, FS_AddElement, FS_Subset, FS_CardinalityType
        <4> QED BY <2>1, <3>1, <4>1, <4>2, <4>3 DEF C, D
      <3>4. CASE u >= cloud.floor /\ u \notin tale.seen
        <4>1. tale'.shaken[u] = tale.shaken[u]
          BY <1>3, <3>4
        <4>2. ~Passed(l, u) /\ (poll[l].state = "handling" => u \notin ToSet(poll[l].batch))
          BY <2>1, <3>4 DEF UnseenIs
        <4>3. l \in C
          BY <3>4, <4>2 DEF Chances, MayTake, Beyond
        <4>4. l \notin D
          BY <1>2, <4>2 DEF Chances, MayTake
        <4> HIDE DEF C, D
        <4>5. D \subseteq (C \ {l}) \cup {Off}
          BY <3>1, <4>4
        <4>6. Cardinality(D) <= Cardinality(C)
          BY <3>1, <4>3, <4>5, Swapped
        <4>7. Cardinality(D) \in Nat
          BY <3>1, FS_AddElement, FS_Subset, FS_CardinalityType
        <4> QED BY <2>1, <3>1, <4>1, <4>6, <4>7 DEF C, D
      <3> QED BY <3>2, <3>3, <3>4
    <2>8. TokensAre(u)'
      <3> DEFINE n == Cardinality(Chances(u)')
                 o == Cardinality(Occur(Places, u))
      <3>1. TokensAre(u)' <=> tale.taken[u] + n + o <= 1 + tale'.shaken[u]
        BY <1>1, <1>3 DEF TokensAre, Occur, Cell
      <3>2. tale.taken[u] + Cardinality(Chances(u)) + o <= 1 + tale.shaken[u]
        BY <2>1 DEF TokensAre
      <3>3. tale'.shaken[u] \in Nat
        BY <1>3, <2>1
      <3>4. n \in Nat /\ n + tale.shaken[u] <= Cardinality(Chances(u)) + tale'.shaken[u] /\ o \in Nat
        BY <2>1, <2>7
      <3> HIDE DEF n, o
      <3> QED BY <2>1, <3>1, <3>2, <3>3, <3>4
    <2> QED BY <2>4, <2>5, <2>8
  <1> QED BY <1>4 DEF BridgeKept

(* So reconcile() keeps the updates.                                       *)
LEMMA ReconcileKeeps == WellFormed /\ BridgeKept /\ WellFormed' /\ Reconcile => BridgeKept'
  <1> SUFFICES ASSUME WellFormed, BridgeKept, WellFormed', Reconcile PROVE BridgeKept'
    OBVIOUS
  <1>1. UNCHANGED <<cloud, botRow, hand, album, Updates>> /\ current \in PollSlots \cup {Off}
    BY DEF Reconcile, Updates, WellFormed, BridgeTypes
  <1>2. CASE /\ ~botRow.enabled /\ current # Off
             /\ poll' = [poll EXCEPT ![current].aborted = TRUE]
             /\ current' = Off
             /\ tale' = Shaken(tale)
    BY <1>1, <1>2, AbortKeeps
  <1>3. CASE /\ botRow.enabled /\ current = Off
             /\ \E l \in PollSlots : poll[l] = NoPoll
             /\ LET l == Min({l \in PollSlots : poll[l] = NoPoll}) IN
                  /\ poll' = [poll EXCEPT ![l] = [NoPoll EXCEPT !.state = "asking",
                                                                !.offset = botRow.offset]]
                  /\ current' = l
             /\ UNCHANGED tale
    <2> DEFINE l == Min({k \in PollSlots : poll[k] = NoPoll})
               v == [NoPoll EXCEPT !.state = "asking", !.offset = botRow.offset]
    <2>1. l \in PollSlots
      <3>1. PollSlots \subseteq Nat
        BY TelegramAssumption
      <3> DEFINE Ts == {k \in PollSlots : poll[k] = NoPoll}
      <3>2. Ts \in SUBSET Nat /\ Ts # {}
        BY <1>3, <3>1
      <3> HIDE DEF Ts
      <3>3. Min(Ts) \in Ts
        BY <3>2, MinIsOne
      <3> QED BY <3>3 DEF Ts
    <2>2. poll' = [poll EXCEPT ![l] = v] /\ current' = l
      BY <1>3
    <2> HIDE DEF l
    <2>3. v.state = "asking" /\ v.offset = botRow.offset /\ v.batch = <<>>
      BY DEF NoPoll
    <2> HIDE DEF v
    <2> QED BY <1>1, <1>3, <2>1, <2>2, <2>3, StartKeeps
  <1> QED BY <1>2, <1>3 DEF Reconcile

----------------------------------------------------------------------------
(* A restart.                                                              *)
Nowhere == /\ \A x \in Spots : Places[x] = <<>>
           /\ \A u : Occur(Places, u) = {}
           /\ \A l \in PollSlots, u \in Nat : ~Passed(l, u)
           /\ \A u : Chances(u) = IF u >= cloud.floor THEN {Off} ELSE {}

(* Nothing waits anywhere in a server that has just started.               *)
LEMMA NoPlaces == Cold => Nowhere
  <1> SUFFICES ASSUME Cold PROVE Nowhere
    OBVIOUS
  <1>1. \A h \in Handlers : hand[h].stage = "none"
    BY DEF Cold, NoHand
  <1>2. \A x \in Spots : Places[x] = <<>>
    BY <1>1 DEF Places, Spots, PartsHeld, Cold
  <1>3. \A u : Occur(Places, u) = {}
    BY <1>2, Members DEF Occur, Cell
  <1>4. \A l \in PollSlots : /\ poll[l].offset = 0 /\ poll[l].batch = <<>> /\ poll[l].state = "none"
                             /\ l # current /\ l # Off
    BY TelegramAssumption DEF Cold, NoPoll
  <1>5. \A l \in PollSlots, u \in Nat : ~Passed(l, u)
    BY <1>4 DEF Passed
  <1>6. ASSUME NEW u PROVE Chances(u) = IF u >= cloud.floor THEN {Off} ELSE {}
    <2>1. \A l \in PollSlots : ~MayTake(l, u)
      BY <1>4 DEF MayTake
    <2> QED BY <2>1, TelegramAssumption DEF Chances, Cold
  <1> QED BY <1>2, <1>3, <1>5, <1>6 DEF Nowhere

\* What the restart writes down.
LEMMA RestartTells ==
    ASSUME WellFormed, TelegramRestart
    PROVE  /\ UNCHANGED <<cloud, botRow, Updates>> /\ Cold'
           /\ tale'.taken = tale.taken /\ tale'.seen = tale.seen
           /\ \A u \in Updates : tale'.shaken[u] =
                 IF u \in tale.seen /\ u >= cloud.floor THEN tale.shaken[u] + 1 ELSE tale.shaken[u]
           /\ \A u \in Updates : Keeps(u) => tale.taken[u] > 0 \/ u \in tale'.dropped
  <1> DEFINE gone == ToSet(album) \cup UNION {ToSet(hand[h].parts) :
                              h \in {a \in AlbumSlots : hand[a].stage = "file"}}
             e == convo.asked \cup convo.queue
             n == Shaken(tale).shaken
  <1>1. BridgeTypes /\ tale \in Tale /\ Known /\ telegramLeft \in Scenario
        /\ \A h \in Handlers : HandSound(h)
    BY Kinded DEF WellFormed, BridgeTypes
  <1>2. /\ Cold' /\ UNCHANGED <<cloud, botRow>> /\ TelegramPay("restarts")
        /\ tale' = [Shaken(tale) EXCEPT !.dropped = @ \cup gone, !.excused = @ \cup convo.asked \cup convo.queue]
    BY DEF TelegramRestart, Cold, Handlers
  <1>3. telegramLeft'.plan = telegramLeft.plan
    BY <1>1, <1>2, PayIs
  <1>4. ASSUME NEW u \in Updates, Keeps(u) PROVE tale.taken[u] > 0 \/ u \in tale.dropped \cup gone
    <2>1. u \in ToSet(Places[Off]) => u \in gone
      BY <1>1 DEF Known
    <2>2. ASSUME NEW h \in AlbumSlots, u \in ToSet(Places[h]) PROVE u \in gone
      <3>1. h \in Handlers /\ Places[h] = PartsHeld(h) /\ HandSound(h)
        BY <1>1 DEF Known, Handlers
      <3>2. hand[h].stage \in {"file", "tap"} /\ u \in ToSet(hand[h].parts)
        BY <2>2, <3>1, Members DEF PartsHeld
      <3>3. hand[h].stage = "file"
        BY <3>1, <3>2 DEF HandSound
      <3> QED BY <3>2, <3>3
    <2> QED BY <1>4, <2>1, <2>2 DEF Keeps
  <1>5. \A u \in Updates : n[u] =
              IF u \in tale.seen /\ u >= cloud.floor THEN tale.shaken[u] + 1 ELSE tale.shaken[u]
    BY <1>1, ShakenIs
  <1>6. Shaken(tale) = [tale EXCEPT !.shaken = n]
    BY <1>1, ShakenIs
  <1> HIDE DEF gone, n
  <1>7. /\ tale'.taken = tale.taken /\ tale'.seen = tale.seen /\ tale'.shaken = n
        /\ tale'.dropped = tale.dropped \cup gone
    <2> DEFINE t == [tale EXCEPT !.shaken = n]
    <2>1. /\ t.taken = tale.taken /\ t.seen = tale.seen /\ t.shaken = n /\ t.dropped = tale.dropped
          /\ t = [taken |-> t.taken, shaken |-> t.shaken, seen |-> t.seen, dropped |-> t.dropped,
                  unheard |-> t.unheard, excused |-> t.excused]
      BY <1>1 DEF Tale
    <2>2. tale' = [t EXCEPT !.dropped = t.dropped \cup gone, !.excused = t.excused \cup convo.asked \cup convo.queue]
      BY <1>2, <1>6
    <2> HIDE DEF t
    <2> QED BY <2>1, <2>2
  <1> QED BY <1>2, <1>3, <1>4, <1>5, <1>7 DEF Updates

(* A restart keeps the updates: what was waiting is on record as given up. *)
LEMMA RestartKeeps == WellFormed /\ BridgeKept /\ WellFormed' /\ TelegramRestart => BridgeKept'
  <1> SUFFICES ASSUME WellFormed, BridgeKept, WellFormed', TelegramRestart PROVE BridgeKept'
    OBVIOUS
  <1>1. /\ UNCHANGED <<cloud, botRow, Updates>> /\ Cold'
        /\ tale'.taken = tale.taken /\ tale'.seen = tale.seen
        /\ \A u \in Updates : tale'.shaken[u] =
              IF u \in tale.seen /\ u >= cloud.floor THEN tale.shaken[u] + 1 ELSE tale.shaken[u]
        /\ \A u \in Updates : Keeps(u) => tale.taken[u] > 0 \/ u \in tale'.dropped
    BY RestartTells
  <1>2. /\ \A x \in Spots : Places'[x] = <<>>
        /\ \A u : Occur(Places', u) = {}
        /\ \A l \in PollSlots, u \in Nat : ~Passed(l, u)'
        /\ \A u : Chances(u)' = IF u >= cloud.floor THEN {Off} ELSE {}
    <2>2. (Cold => Nowhere)'
      BY NoPlaces, PTL
    <2>3. Nowhere'
      BY <1>1, <2>2
    <2> QED BY <1>1, <2>3 DEF Nowhere, Spots, Handlers, Occur, Cell
  <1>3. \A l \in PollSlots : poll'[l].state = "none"
    BY <1>1 DEF Cold, NoPoll
  <1>4. Cardinality({Off}) = 1 /\ Cardinality({}) = 0
    BY FS_Singleton, FS_EmptySet
  <1>5. ASSUME NEW u \in Updates PROVE KeptIs(u)' /\ UnseenIs(u)' /\ TokensAre(u)'
    <2>1. /\ KeptIs(u) /\ UnseenIs(u) /\ TokensAre(u) /\ u \in Nat
          /\ tale.taken[u] \in Nat /\ tale.shaken[u] \in Nat /\ Cardinality(Chances(u)) \in Nat
          /\ Cardinality(Occur(Places, u)) \in Nat
      BY Kinded DEF BridgeKept, Known
    <2>2. Keeps(u) => Keeps(u)'
      BY <1>1 DEF Keeps
    <2>3. KeptIs(u)'
      BY <1>1, <1>2, <2>1, <2>2 DEF KeptIs
    <2>4. UnseenIs(u)'
      <3>1. Untouched(u) => Untouched(u)'
        BY <1>1, <1>2, Members DEF Untouched
      <3> QED BY <1>1, <1>2, <1>3, <2>1, <3>1 DEF UnseenIs
    <2>5. TokensAre(u)'
      <3>1. Cardinality(Occur(Places', u)) = 0
        BY <1>2, <1>4
      <3>2. Cardinality(Chances(u)') = IF u >= cloud.floor THEN 1 ELSE 0
        BY <1>2, <1>4
      <3>3. tale.taken[u] <= 1 + tale.shaken[u]
        BY <2>1 DEF TokensAre
      <3>4. u >= cloud.floor /\ u \notin tale.seen => tale.taken[u] = 0
        BY <2>1 DEF UnseenIs, Untouched
      <3>5. TokensAre(u)' <=> tale.taken[u] + Cardinality(Chances(u)') + Cardinality(Occur(Places', u))
                                 <= 1 + tale'.shaken[u]
        BY <1>1 DEF TokensAre, Occur, Cell
      <3>6. tale'.shaken[u] = IF u \in tale.seen /\ u >= cloud.floor THEN tale.shaken[u] + 1 ELSE tale.shaken[u]
        BY <1>1
      <3> QED BY <2>1, <3>1, <3>2, <3>3, <3>4, <3>5, <3>6
    <2> QED BY <2>3, <2>4, <2>5
  <1> QED BY <1>1, <1>5 DEF BridgeKept

(* It begins that way, every step keeps it, and so no update is lost.      *)
LEMMA KeptBegins == TelegramInit => BridgeKept
  <1> SUFFICES ASSUME TelegramInit PROVE BridgeKept
    OBVIOUS
  <1>1. Known /\ Cold /\ cloud = [sent |-> 0, floor |-> 1] /\ botRow = [enabled |-> TRUE, offset |-> 1]
        /\ tale = NoTale
    BY BridgeBegins, Kinded DEF TelegramInit, Cold
  <1>2. /\ \A x \in Spots : Places[x] = <<>>
        /\ \A u : Occur(Places, u) = {}
        /\ \A l \in PollSlots, u \in Nat : ~Passed(l, u)
        /\ \A u : Chances(u) = IF u >= cloud.floor THEN {Off} ELSE {}
    BY <1>1, NoPlaces DEF Nowhere
  <1>3. Cardinality({Off}) = 1 /\ Cardinality({}) = 0
    BY FS_Singleton, FS_EmptySet
  <1>4. cloud.floor = 1 /\ botRow.offset = 1
    BY <1>1
  <1>5. ASSUME NEW u \in Updates PROVE KeptIs(u) /\ UnseenIs(u) /\ TokensAre(u)
    <2>1. u \in Nat /\ u >= 1 /\ tale.taken[u] = 0 /\ tale.shaken[u] = 0
      BY <1>1, <1>5 DEF Updates, Known, NoTale
    <2>2. KeptIs(u)
      BY <1>2, <1>4, <2>1 DEF KeptIs
    <2>3. Untouched(u)
      BY <1>2, <2>1, Members DEF Untouched
    <2>4. \A l \in PollSlots : poll[l].state = "none"
      BY <1>1 DEF Cold, NoPoll
    <2>5. UnseenIs(u)
      BY <1>2, <1>4, <2>1, <2>3, <2>4 DEF UnseenIs
    <2>6. Cardinality(Chances(u)) = 1 /\ Cardinality(Occur(Places, u)) = 0
      BY <1>2, <1>3, <1>4, <2>1
    <2> QED BY <2>1, <2>2, <2>5, <2>6 DEF TokensAre
  <1> QED BY <1>5 DEF BridgeKept

(* Every step keeps them.                                                  *)
LEMMA KeptStays == WellFormed /\ BridgeKept /\ [TelegramNext]_telegramVars => BridgeKept'
  <1> SUFFICES ASSUME WellFormed, BridgeKept, [TelegramNext]_telegramVars PROVE BridgeKept'
    OBVIOUS
  <1>1. WellFormed'
    BY BridgeStays
  <1>2. CASE UpdateArrives \/ BotToggled \/ UNCHANGED telegramVars
    BY <1>1, <1>2, ArrivalIsSteady, SteadyKeeps
  <1>3. CASE Reconcile
    BY <1>1, <1>3, ReconcileKeeps
  <1>4. CASE TelegramRestart
    BY <1>1, <1>4, RestartKeeps
  <1>5. ASSUME NEW l \in PollSlots, LoopActs(l) PROVE BridgeKept'
    BY <1>1, <1>5, LoopActsKeep
  <1>6. ASSUME NEW l \in PollSlots, HandleUpdate(l) PROVE BridgeKept'
    BY <1>1, <1>6, HandleKeeps
  <1>7. ASSUME NEW h \in AlbumSlots, AlbumDue(h) PROVE BridgeKept'
    BY <1>1, <1>7, AlbumKeeps
  <1>8. ASSUME NEW h \in Handlers, HandActs(h) PROVE BridgeKept'
    BY <1>1, <1>8, HandKeeps
  <1>9. CASE ChatActs
    BY <1>1, <1>9, ChatKeeps
  <1>10. CASE TelegramNext
    BY <1>2, <1>3, <1>4, <1>5, <1>6, <1>7, <1>8, <1>9, <1>10 DEF TelegramNext, ChatActs, HandActs, LoopActs
  <1> QED BY <1>2, <1>10

(* Telegram forgets an update only after it was handed to the chat,        *)
(* refused, collected or given up, and it is handled no more often than    *)
(* the restarts and disablings account for.                                *)
THEOREM UpdatesAreKept == TelegramSpec => []UpdatesKept
  <1> DEFINE I == WellFormed /\ BridgeKept
  <1>1. TelegramInit => I
    BY BridgeBegins, KeptBegins
  <1>2. I /\ [TelegramNext]_telegramVars => I'
    BY BridgeStays, KeptStays
  <1>3. I => UpdatesKept
    BY KeptSuffices
  <1> QED BY <1>1, <1>2, <1>3, PTL DEF TelegramSpec
=============================================================================
