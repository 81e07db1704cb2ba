--------------------------- MODULE RunQueueProofs ---------------------------
(***************************************************************************)
(* The directory queue for every set of trees, items and caps: its state    *)
(* invariants, what a grant may never do, and that disk and line agree.     *)
(***************************************************************************)
EXTENDS RunQueue, FiniteSetTheorems, SequenceTheorems, TLAPS

Of(t) == {i \in Items : TreeOf[i] = t}

\* Every waiter stands in the line of its own tree.
OwnLine == \A t \in Trees : line[t] \in Seq(Of(t))

\* A server that is down holds nothing in memory.
DownIsEmpty == ~up => line = EmptyLine /\ granted = NoGrant /\ claims = {}

IInv ==
    /\ TypeOK
    /\ OwnLine
    /\ DownIsEmpty
    /\ NoStrandedWaiter
    /\ ClaimIsExclusive
    /\ NoOrphanGrant

-----------------------------------------------------------------------------
(* The operators.                                                           *)

\* An arrangement of a set of items is a sequence over any set that holds them.
LEMMA ArrangementType ==
    ASSUME NEW S \in SUBSET Items, NEW s \in SetToSeqs(S), NEW R, S \subseteq R
    PROVE  s \in Seq(R)
<1>1. IsFiniteSet(S) BY FS_Subset, ItemsFinite
<1>2. Cardinality(S) \in Nat BY <1>1, FS_CardinalityType
<1>3. s \in [1..Cardinality(S) -> S] BY DEF SetToSeqs
<1>4. s \in [1..Cardinality(S) -> R] BY <1>3
<1> QED BY <1>2, <1>4

\* Removing a position leaves a sequence over the same set.
LEMMA RemoveAtType ==
    ASSUME NEW S, NEW s \in Seq(S), NEW k \in DOMAIN s
    PROVE  RemoveAt(s, k) \in Seq(S)
<1>1. k \in 1..Len(s) /\ Len(s) \in Nat OBVIOUS
<1>2. SubSeq(s, 1, k - 1) \in Seq(S) BY <1>1
<1>3. SubSeq(s, k + 1, Len(s)) \in Seq(S) BY <1>1
<1>4. SubSeq(s, 1, k - 1) \o SubSeq(s, k + 1, Len(s)) \in Seq(S)
  BY <1>2, <1>3, ConcatProperties
<1> QED BY <1>4 DEF RemoveAt

\* Serving k waiters takes the k-th of them last and leaves the others.
LEMMA ShiftType ==
    ASSUME NEW S, NEW s \in Seq(S), NEW k \in 1..Len(s)
    PROVE  /\ Shift(s, k).served[k] = s[k]
           /\ s[k] \in S
           /\ Shift(s, k).rest \in Seq(S)
           /\ k = Len(s) => Shift(s, k).rest = <<>>
<1>1. Len(s) \in Nat OBVIOUS
<1>2. SubSeq(s, 1, k)[k] = s[k] BY <1>1
<1>3. SubSeq(s, k + 1, Len(s)) \in Seq(S) BY <1>1
<1>4. k = Len(s) => SubSeq(s, k + 1, Len(s)) = <<>>
  <2>1. Len(SubSeq(s, k + 1, Len(s))) = Len(s) - k BY <1>1
  <2> QED BY <1>1, <1>3, <2>1
<1> QED BY <1>1, <1>2, <1>3, <1>4 DEF Shift

-----------------------------------------------------------------------------
(* The pump.                                                                *)

\* Whatever the runs do, a pump leaves every line empty or its tree held, every
\* line holding items of its own tree, and grants and claims matched, provided
\* they matched before.
LEMMA PumpedSafe ==
    ASSUME NEW l, NEW g, NEW b, NEW c, NEW r, NEW l2, NEW g2, NEW b2, NEW c2, NEW r2,
           l \in [Trees -> Seq(Items)],
           g \in [Trees -> Items \cup {NoItem}],
           b \subseteq Trees,
           c \subseteq Items,
           r \in [Items -> Int \cup {NoRow}],
           \A t \in Trees : l[t] \in Seq(Of(t)),
           \A i \in c : g[TreeOf[i]] = i,
           \A t \in Trees : g[t] # NoItem => g[t] \in c /\ TreeOf[g[t]] = t,
           Pumped(l, g, b, c, r, l2, g2, b2, c2, r2)
    PROVE  /\ l2 \in [Trees -> Seq(Items)]
           /\ g2 \in [Trees -> Items \cup {NoItem}]
           /\ b2 \subseteq Trees
           /\ c2 \subseteq Items
           /\ r2 \in [Items -> Int \cup {NoRow}]
           /\ \A t \in Trees : l2[t] \in Seq(Of(t))
           /\ \A t \in Trees : l2[t] # <<>> => t \in b2 \/ g2[t] # NoItem
           /\ \A i \in c2 : g2[TreeOf[i]] = i
           /\ \A t \in Trees : g2[t] # NoItem => g2[t] \in c2 /\ TreeOf[g2[t]] = t
<1> DEFINE free == {t \in Trees \ b : g[t] = NoItem /\ l[t] # <<>>}
<1>1. PICK taken \in [free -> 1..MaxPerKey], out \in [free -> Outcomes] :
        /\ \A t \in free : taken[t] <= Len(l[t])
        /\ \A t \in {u \in free : out[u] = "settles"} : taken[t] = Len(l[t])
        /\ l2 = [t \in Trees |-> IF t \in free
                                 THEN Shift(l[t], taken[t]).rest ELSE l[t]]
        /\ g2 = [t \in Trees |-> IF t \in {u \in free : out[u] = "holds"}
                                 THEN Shift(l[t], taken[t]).served[taken[t]] ELSE g[t]]
        /\ b2 = b \cup {u \in free : out[u] = "prompts"}
        /\ c2 = c \cup {Shift(l[t], taken[t]).served[taken[t]] :
                          t \in {u \in free : out[u] = "holds"}}
        /\ r2 = [i \in Items |->
                   IF \E t \in free : i \in ToSet(Shift(l[t], taken[t]).served)
                   THEN NoRow ELSE r[i]]
  BY Zenon DEF Pumped
<1>2. \A t \in free : taken[t] \in 1..Len(l[t]) BY <1>1, CapsPositive
<1> DEFINE final(t) == l[t][taken[t]]
           holds == {u \in free : out[u] = "holds"}
<1>3. ASSUME NEW t \in free
      PROVE  /\ Shift(l[t], taken[t]).served[taken[t]] = final(t)
             /\ final(t) \in Of(t)
             /\ Shift(l[t], taken[t]).rest \in Seq(Of(t))
             /\ out[t] = "settles" => Shift(l[t], taken[t]).rest = <<>>
  <2>1. l[t] \in Seq(Of(t)) /\ taken[t] \in 1..Len(l[t]) BY <1>2
  <2>2. out[t] = "settles" => taken[t] = Len(l[t]) BY <1>1
  <2> QED BY <2>1, <2>2, ShiftType
<1>4. g2 = [t \in Trees |-> IF t \in holds THEN final(t) ELSE g[t]]
  BY <1>1, <1>3
<1>5. \A i : i \in c2 <=> i \in c \/ \E t \in holds : i = final(t)
  <2> DEFINE served(t) == Shift(l[t], taken[t]).served[taken[t]]
  <2>1. \A t \in holds : served(t) = final(t) BY <1>3
  <2>2. c2 = c \cup {served(t) : t \in holds} BY <1>1
  <2> HIDE DEF holds, final, served
  <2> QED BY <2>1, <2>2
<1>6. \A t \in Trees : l2[t] \in Seq(Of(t)) BY <1>1, <1>3
<1>7. \A t \in holds : final(t) \in Items /\ TreeOf[final(t)] = t BY <1>3 DEF Of
<1>8. l2 \in [Trees -> Seq(Items)]
  <2>1. \A t \in Trees : Seq(Of(t)) \subseteq Seq(Items) BY DEF Of
  <2>2. l2 = [t \in Trees |-> l2[t]] BY <1>1
  <2> QED BY <1>6, <2>1, <2>2
<1>9. \A t \in Trees : l2[t] # <<>> => t \in b2 \/ g2[t] # NoItem
  <2> SUFFICES ASSUME NEW t \in Trees, l2[t] # <<>>
               PROVE  t \in b2 \/ g2[t] # NoItem
    OBVIOUS
  <2>1. CASE t \in free
    <3>1. out[t] # "settles" BY <1>1, <1>3, <2>1
    <3>2. out[t] \in {"holds", "prompts"} BY <2>1, <3>1 DEF Outcomes
    <3>3. CASE out[t] = "holds"
      <4>1. g2[t] = final(t) BY <1>4, <2>1, <3>3
      <4>2. final(t) \in Items BY <1>7, <2>1, <3>3
      <4> QED BY <4>1, <4>2, NoItemOutside
    <3>4. CASE out[t] = "prompts" BY <1>1, <2>1, <3>4
    <3> QED BY <3>2, <3>3, <3>4
  <2>2. CASE t \notin free
    <3>1. l2[t] = l[t] BY <1>1, <2>2
    <3>2. t \in b \/ g[t] # NoItem BY <2>2, <3>1
    <3>3. g2[t] = g[t] BY <1>4, <2>2
    <3> QED BY <1>1, <3>2, <3>3
  <2> QED BY <2>1, <2>2
<1>10. \A i \in c2 : g2[TreeOf[i]] = i
  <2> SUFFICES ASSUME NEW i \in c2 PROVE g2[TreeOf[i]] = i
    OBVIOUS
  <2>1. CASE i \in c
    <3>1. i \in Items /\ TreeOf[i] \in Trees /\ g[TreeOf[i]] = i BY <2>1, TreeOfType
    <3>2. TreeOf[i] \notin free BY <3>1, NoItemOutside
    <3> QED BY <1>4, <3>1, <3>2
  <2>2. CASE \E t \in holds : i = final(t)
    <3>1. PICK t \in holds : i = final(t) BY <2>2
    <3>2. TreeOf[i] = t BY <1>7, <3>1
    <3> QED BY <1>4, <3>1, <3>2
  <2> QED BY <1>5, <2>1, <2>2
<1>11. \A t \in Trees : g2[t] # NoItem => g2[t] \in c2 /\ TreeOf[g2[t]] = t
  <2> SUFFICES ASSUME NEW t \in Trees, g2[t] # NoItem
               PROVE  g2[t] \in c2 /\ TreeOf[g2[t]] = t
    OBVIOUS
  <2>1. CASE t \in holds
    <3>1. g2[t] = final(t) BY <1>4, <2>1
    <3> QED BY <1>5, <1>7, <2>1, <3>1
  <2>2. CASE t \notin holds
    <3>1. g2[t] = g[t] BY <1>4, <2>2
    <3> QED BY <1>5, <3>1
  <2> QED BY <2>1, <2>2
<1>12. g2 \in [Trees -> Items \cup {NoItem}] BY <1>4, <1>7
<1>13. c2 \subseteq Items BY <1>5, <1>7
<1>14. b2 \subseteq Trees BY <1>1
<1>15. r2 \in [Items -> Int \cup {NoRow}] BY <1>1
<1> QED BY <1>8, <1>9, <1>10, <1>11, <1>12, <1>13, <1>14, <1>15, <1>6

-----------------------------------------------------------------------------
(* The steps.                                                               *)

\* The initial state satisfies the inductive invariant.
LEMMA InitInv == Init => IInv
<1> SUFFICES ASSUME Init PROVE IInv OBVIOUS
<1>1. TypeOK BY BoundsType DEF Init, TypeOK, EmptyLine, NoGrant
<1>2. OwnLine BY DEF Init, OwnLine, EmptyLine
<1>3. DownIsEmpty BY DEF Init, DownIsEmpty
<1>4. NoStrandedWaiter BY DEF Init, NoStrandedWaiter, EmptyLine
<1>5. ClaimIsExclusive BY DEF Init, ClaimIsExclusive
<1>6. NoOrphanGrant BY DEF Init, NoOrphanGrant, NoGrant
<1> QED BY <1>1, <1>2, <1>3, <1>4, <1>5, <1>6 DEF IInv

\* A grant given back by its own holder, which is all started and release do,
\* leaves the other grants and claims matched.
LEMMA GiveBackSafe ==
    ASSUME NEW i \in Items, NEW g, NEW c,
           g \in [Trees -> Items \cup {NoItem}],
           c \subseteq Items,
           \A j \in c : g[TreeOf[j]] = j,
           \A t \in Trees : g[t] # NoItem => g[t] \in c /\ TreeOf[g[t]] = t
    PROVE  /\ GiveBack(g, i) \in [Trees -> Items \cup {NoItem}]
           /\ \A j \in c \ {i} : GiveBack(g, i)[TreeOf[j]] = j
           /\ \A t \in Trees : GiveBack(g, i)[t] # NoItem => GiveBack(g, i)[t] \in c \ {i} /\ TreeOf[GiveBack(g, i)[t]] = t
           /\ \A t \in Trees : t # TreeOf[i] => GiveBack(g, i)[t] = g[t]
<1>1. TreeOf[i] \in Trees BY TreeOfType
<1>2. GiveBack(g, i) \in [Trees -> Items \cup {NoItem}] BY <1>1 DEF GiveBack
<1>3. \A t \in Trees : GiveBack(g, i)[t] = IF t = TreeOf[i] /\ g[t] = i THEN NoItem ELSE g[t]
  BY <1>1 DEF GiveBack
<1>4. \A j \in c \ {i} : GiveBack(g, i)[TreeOf[j]] = j
  <2> TAKE j \in c \ {i}
  <2>1. TreeOf[j] \in Trees /\ g[TreeOf[j]] = j BY TreeOfType
  <2> QED BY <1>3, <2>1
<1>5. \A t \in Trees : GiveBack(g, i)[t] # NoItem => GiveBack(g, i)[t] \in c \ {i} /\ TreeOf[GiveBack(g, i)[t]] = t
  BY <1>3
<1> QED BY <1>2, <1>3, <1>4, <1>5

\* A step that ends in a pump over the current lines preserves the invariant.
LEMMA PumpStep ==
    ASSUME IInv,
           NEW g \in [Trees -> Items \cup {NoItem}],
           NEW b \in SUBSET Trees,
           NEW c \in SUBSET Items,
           \A i \in c : g[TreeOf[i]] = i,
           \A t \in Trees : g[t] # NoItem => g[t] \in c /\ TreeOf[g[t]] = t,
           up,
           Pump(line, g, b, c),
           UNCHANGED <<stamp, submitted, clock, server>>
    PROVE  IInv'
<1>1. /\ line \in [Trees -> Seq(Items)] /\ row \in [Items -> Int \cup {NoRow}]
      /\ \A t \in Trees : line[t] \in Seq(Of(t))
  BY DEF IInv, TypeOK, OwnLine
<1>2. /\ Pumped(line, g, b, c, row, line', granted', busy', claims', row')
      /\ late' = {}
  BY DEF Pump
<1>3. /\ line' \in [Trees -> Seq(Items)]
      /\ granted' \in [Trees -> Items \cup {NoItem}]
      /\ busy' \subseteq Trees /\ claims' \subseteq Items
      /\ row' \in [Items -> Int \cup {NoRow}]
      /\ \A t \in Trees : line'[t] \in Seq(Of(t))
      /\ \A t \in Trees : line'[t] # <<>> => t \in busy' \/ granted'[t] # NoItem
      /\ \A i \in claims' : granted'[TreeOf[i]] = i
      /\ \A t \in Trees : granted'[t] # NoItem =>
           granted'[t] \in claims' /\ TreeOf[granted'[t]] = t
  BY <1>1, <1>2, PumpedSafe
<1>4. TypeOK' BY <1>2, <1>3 DEF IInv, TypeOK, server
<1>5. OwnLine' /\ NoStrandedWaiter' /\ ClaimIsExclusive' /\ NoOrphanGrant'
  BY <1>3 DEF OwnLine, NoStrandedWaiter, ClaimIsExclusive, NoOrphanGrant, Held
<1>6. DownIsEmpty' BY DEF DownIsEmpty, server
<1> QED BY <1>4, <1>5, <1>6 DEF IInv

\* Every action preserves the inductive invariant.
LEMMA NextInv == IInv /\ [Next]_vars => IInv'
<1> SUFFICES ASSUME IInv, [Next]_vars PROVE IInv' OBVIOUS
<1> USE DEF server, memory, disk
<1>0. /\ TypeOK /\ OwnLine /\ DownIsEmpty
      /\ NoStrandedWaiter /\ ClaimIsExclusive /\ NoOrphanGrant
  BY DEF IInv
<1>1. ASSUME NEW i \in Items, TryAcquire(i) PROVE IInv'
  <2> DEFINE t == TreeOf[i]
  <2>1. t \in Trees /\ granted[t] = NoItem /\ up BY <1>1, TreeOfType DEF TryAcquire, Submit, Held
  <2>2. granted' = [granted EXCEPT ![t] = i] /\ claims' = claims \cup {i} BY <1>1 DEF TryAcquire
  <2>3. UNCHANGED <<line, stamp, busy, late, row, clock, server>>
        /\ submitted' = submitted \cup {i}
    BY <1>1 DEF TryAcquire, Submit
  <2>4. TypeOK' BY <1>0, <2>1, <2>2, <2>3 DEF TypeOK
  <2>5. OwnLine' BY <1>0, <2>3 DEF OwnLine
  <2>6. DownIsEmpty' BY <2>1, <2>3 DEF DownIsEmpty
  <2>7. NoStrandedWaiter'
    BY <1>0, <2>1, <2>2, <2>3, NoItemOutside DEF NoStrandedWaiter, Held, TypeOK
  <2>8. ClaimIsExclusive'
    <3> SUFFICES ASSUME NEW j \in claims' PROVE granted'[TreeOf[j]] = j
      BY DEF ClaimIsExclusive
    <3>1. CASE j = i BY <1>0, <2>1, <2>2, <3>1 DEF TypeOK
    <3>2. CASE j # i
      <4>1. j \in claims /\ j \in Items /\ granted[TreeOf[j]] = j
        BY <1>0, <2>2, <3>2 DEF ClaimIsExclusive, TypeOK
      <4>2. TreeOf[j] # t BY <2>1, <4>1, NoItemOutside
      <4> QED BY <1>0, <2>2, <4>1, <4>2, TreeOfType DEF TypeOK
    <3> QED BY <3>1, <3>2
  <2>9. NoOrphanGrant' BY <1>0, <2>1, <2>2 DEF NoOrphanGrant, TypeOK
  <2> QED BY <2>4, <2>5, <2>6, <2>7, <2>8, <2>9 DEF IInv
<1>2. ASSUME NEW i \in Items, Enqueue(i) PROVE IInv'
  <2> DEFINE t == TreeOf[i]
  <2>1. t \in Trees /\ Held(t) /\ up BY <1>2, TreeOfType DEF Enqueue, Submit
  <2>2. /\ clock' = clock + 1
        /\ stamp' = [stamp EXCEPT ![i] = clock']
        /\ row' = [row EXCEPT ![i] = clock']
        /\ submitted' = submitted \cup {i}
        /\ UNCHANGED <<granted, busy, claims, late, server>>
    BY <1>2 DEF Enqueue, Submit
  <2>3. PICK s \in SetToSeqs(ToSet(line[t]) \cup {i}) : line' = [line EXCEPT ![t] = s]
    BY <1>2 DEF Enqueue
  <2>4. line \in [Trees -> Seq(Items)] /\ line[t] \in Seq(Of(t)) BY <1>0, <2>1 DEF TypeOK, OwnLine
  <2>5. ToSet(line[t]) \cup {i} \subseteq Of(t) BY <2>4, TreeOfType DEF ToSet, Of
  <2>6. s \in Seq(Of(t)) /\ s \in Seq(Items)
    <3>1. Of(t) \subseteq Items BY DEF Of
    <3> QED BY <2>5, <3>1, ArrangementType
  <2>7. TypeOK' BY <1>0, <2>1, <2>2, <2>3, <2>4, <2>6 DEF TypeOK
  <2>8. OwnLine' BY <1>0, <2>1, <2>3, <2>4, <2>6 DEF OwnLine
  <2>9. DownIsEmpty' BY <2>1, <2>2 DEF DownIsEmpty
  <2>10. NoStrandedWaiter'
    BY <1>0, <2>1, <2>2, <2>3, <2>4 DEF NoStrandedWaiter, Held
  <2>11. ClaimIsExclusive' /\ NoOrphanGrant'
    BY <1>0, <2>2 DEF ClaimIsExclusive, NoOrphanGrant
  <2> QED BY <2>7, <2>8, <2>9, <2>10, <2>11 DEF IInv
<1>3. ASSUME NEW i \in Items, Refuse(i) PROVE IInv'
  <2>1. TreeOf[i] \in Trees BY TreeOfType
  <2>2. /\ up /\ busy' \in {busy, busy \cup {TreeOf[i]}}
        /\ submitted' = submitted \cup {i}
        /\ UNCHANGED <<line, stamp, granted, claims, late, row, clock, server>>
    BY <1>3 DEF Refuse, Submit
  <2> QED BY <1>0, <2>1, <2>2 DEF IInv, TypeOK, OwnLine, DownIsEmpty, NoStrandedWaiter,
                                  ClaimIsExclusive, NoOrphanGrant, Held
<1>4. ASSUME NEW i \in Items, Started(i) PROVE IInv'
  <2>1. TreeOf[i] \in Trees BY TreeOfType
  <2>2. /\ up
        /\ claims' = claims \ {i} /\ busy' = busy \cup {TreeOf[i]}
        /\ granted' = GiveBack(granted, i)
        /\ UNCHANGED <<line, stamp, late, disk, server>>
    BY <1>4 DEF Started
  <2>3. /\ granted' \in [Trees -> Items \cup {NoItem}]
        /\ \A j \in claims \ {i} : granted'[TreeOf[j]] = j
        /\ \A t \in Trees : granted'[t] # NoItem =>
             granted'[t] \in claims \ {i} /\ TreeOf[granted'[t]] = t
        /\ \A t \in Trees : t # TreeOf[i] => granted'[t] = granted[t]
    <3>1. /\ granted \in [Trees -> Items \cup {NoItem}]
          /\ claims \subseteq Items
          /\ \A j \in claims : granted[TreeOf[j]] = j
          /\ \A t \in Trees : granted[t] # NoItem =>
               granted[t] \in claims /\ TreeOf[granted[t]] = t
      BY <1>0 DEF TypeOK, ClaimIsExclusive, NoOrphanGrant
    <3>2. granted' = GiveBack(granted, i) BY <2>2
    <3> QED BY <3>1, <3>2, GiveBackSafe
  <2>4. TypeOK' BY <1>0, <2>1, <2>2, <2>3 DEF TypeOK
  <2>5. OwnLine' BY <1>0, <2>2 DEF OwnLine
  <2>6. DownIsEmpty' BY <2>2 DEF DownIsEmpty
  <2>7. NoStrandedWaiter' BY <1>0, <2>2, <2>3 DEF NoStrandedWaiter, Held
  <2>8. ClaimIsExclusive' BY <2>2, <2>3 DEF ClaimIsExclusive
  <2>9. NoOrphanGrant' BY <2>2, <2>3 DEF NoOrphanGrant
  <2> QED BY <2>4, <2>5, <2>6, <2>7, <2>8, <2>9 DEF IInv
<1>5. ASSUME NEW i \in Items, StartedElsewhere(i) PROVE IInv'
  <2>1. TreeOf[i] \in Trees BY TreeOfType
  <2>2. /\ up
        /\ claims' = claims \ {i} /\ late' = late \cup {TreeOf[i]}
        /\ granted' = GiveBack(granted, i)
        /\ UNCHANGED <<line, stamp, busy, disk, server>>
    BY <1>5 DEF StartedElsewhere
  <2>3. /\ granted' \in [Trees -> Items \cup {NoItem}]
        /\ \A j \in claims \ {i} : granted'[TreeOf[j]] = j
        /\ \A t \in Trees : granted'[t] # NoItem =>
             granted'[t] \in claims \ {i} /\ TreeOf[granted'[t]] = t
        /\ \A t \in Trees : t # TreeOf[i] => granted'[t] = granted[t]
    <3>1. /\ granted \in [Trees -> Items \cup {NoItem}]
          /\ claims \subseteq Items
          /\ \A j \in claims : granted[TreeOf[j]] = j
          /\ \A t \in Trees : granted[t] # NoItem =>
               granted[t] \in claims /\ TreeOf[granted[t]] = t
      BY <1>0 DEF TypeOK, ClaimIsExclusive, NoOrphanGrant
    <3>2. granted' = GiveBack(granted, i) BY <2>2
    <3> QED BY <3>1, <3>2, GiveBackSafe
  <2>4. TypeOK' BY <1>0, <2>1, <2>2, <2>3 DEF TypeOK
  <2>5. OwnLine' BY <1>0, <2>2 DEF OwnLine
  <2>6. DownIsEmpty' BY <2>2 DEF DownIsEmpty
  <2>7. NoStrandedWaiter' BY <1>0, <2>2, <2>3 DEF NoStrandedWaiter, Held
  <2>8. ClaimIsExclusive' BY <2>2, <2>3 DEF ClaimIsExclusive
  <2>9. NoOrphanGrant' BY <2>2, <2>3 DEF NoOrphanGrant
  <2> QED BY <2>4, <2>5, <2>6, <2>7, <2>8, <2>9 DEF IInv
<1>6. ASSUME NEW i \in Items, Release(i) PROVE IInv'
  <2> DEFINE g == GiveBack(granted, i)
  <2>1. /\ g \in [Trees -> Items \cup {NoItem}]
        /\ \A j \in claims \ {i} : g[TreeOf[j]] = j
        /\ \A t \in Trees : g[t] # NoItem => g[t] \in claims \ {i} /\ TreeOf[g[t]] = t
    <3>1. /\ granted \in [Trees -> Items \cup {NoItem}]
          /\ claims \subseteq Items
          /\ \A j \in claims : granted[TreeOf[j]] = j
          /\ \A t \in Trees : granted[t] # NoItem =>
               granted[t] \in claims /\ TreeOf[granted[t]] = t
      BY <1>0 DEF TypeOK, ClaimIsExclusive, NoOrphanGrant
    <3> QED BY <3>1, GiveBackSafe
  <2>2. busy \in SUBSET Trees /\ claims \ {i} \in SUBSET Items BY <1>0 DEF TypeOK
  <2>3. up /\ Pump(line, g, busy, claims \ {i}) /\ UNCHANGED <<stamp, submitted, clock, server>>
    BY <1>6 DEF Release
  <2> HIDE DEF g
  <2> QED BY <2>1, <2>2, <2>3, PumpStep
<1>7. ASSUME NEW t \in Trees, TurnEnds(t) PROVE IInv'
  <2>1. busy \ {t} \in SUBSET Trees /\ claims \in SUBSET Items
        /\ granted \in [Trees -> Items \cup {NoItem}]
    BY <1>0 DEF TypeOK
  <2>2. up /\ Pump(line, granted, busy \ {t}, claims)
        /\ UNCHANGED <<stamp, submitted, clock, server>>
    BY <1>7 DEF TurnEnds
  <2> QED BY <1>0, <2>1, <2>2, PumpStep DEF ClaimIsExclusive, NoOrphanGrant
<1>8. ASSUME Sweep PROVE IInv'
  <2>1. busy \in SUBSET Trees /\ claims \in SUBSET Items
        /\ granted \in [Trees -> Items \cup {NoItem}]
    BY <1>0 DEF TypeOK
  <2>2. up /\ Pump(line, granted, busy, claims)
        /\ UNCHANGED <<stamp, submitted, clock, server>>
    BY <1>8 DEF Sweep
  <2> QED BY <1>0, <2>1, <2>2, PumpStep DEF ClaimIsExclusive, NoOrphanGrant
<1>9. ASSUME NEW t \in Trees, OutsideTurn(t) PROVE IInv'
  BY <1>0, <1>9 DEF OutsideTurn, IInv, TypeOK, OwnLine, DownIsEmpty, NoStrandedWaiter,
                    ClaimIsExclusive, NoOrphanGrant, Held
<1>16. ASSUME NEW t \in Trees, TurnEndsQuietly(t) PROVE IInv'
  BY <1>0, <1>16 DEF TurnEndsQuietly, IInv, TypeOK, OwnLine, DownIsEmpty, NoStrandedWaiter,
                     ClaimIsExclusive, NoOrphanGrant, Held, disk, server
<1>10. ASSUME NEW i \in Items, Drop(i), busy' \in {busy, busy \cup {TreeOf[i]}} PROVE IInv'
  <2> DEFINE t == TreeOf[i]
  <2>1. t \in Trees BY TreeOfType
  <2>2. PICK k \in DOMAIN line[t] : line' = [line EXCEPT ![t] = RemoveAt(@, k)]
    BY <1>10 DEF Drop
  <2>3. /\ up /\ row' = [row EXCEPT ![i] = NoRow]
        /\ UNCHANGED <<stamp, granted, claims, late, submitted, clock, server>>
    BY <1>10 DEF Drop
  <2>4. line[t] \in Seq(Of(t)) /\ line[t] \in Seq(Items) BY <1>0, <2>1 DEF OwnLine, TypeOK
  <2>5. line[t] # <<>> BY <2>2
  <2>6. RemoveAt(line[t], k) \in Seq(Of(t)) /\ RemoveAt(line[t], k) \in Seq(Items)
    BY <2>2, <2>4, RemoveAtType
  <2>7. TypeOK' BY <1>0, <1>10, <2>1, <2>2, <2>3, <2>6 DEF TypeOK
  <2>8. OwnLine' BY <1>0, <2>1, <2>2, <2>6 DEF OwnLine, TypeOK
  <2>9. DownIsEmpty' BY <2>3 DEF DownIsEmpty
  <2>10. NoStrandedWaiter'
    BY <1>0, <1>10, <2>1, <2>2, <2>3, <2>5 DEF NoStrandedWaiter, Held, TypeOK
  <2>11. ClaimIsExclusive' /\ NoOrphanGrant'
    BY <1>0, <2>3 DEF ClaimIsExclusive, NoOrphanGrant
  <2> QED BY <2>7, <2>8, <2>9, <2>10, <2>11 DEF IInv
<1>11. ASSUME NEW i \in Items, MoveToFront(i) PROVE IInv'
  <2> DEFINE t == TreeOf[i]
  <2>1. t \in Trees /\ i \in Of(t) BY TreeOfType DEF Of
  <2>2. PICK k \in DOMAIN line[t] :
          LET rest == RemoveAt(line[t], k)
              moved == IF rest = <<>> THEN stamp[i] ELSE stamp[Head(rest)] - 1
          IN /\ up
             /\ line' = [line EXCEPT ![t] = <<i>> \o rest]
             /\ stamp' = [stamp EXCEPT ![i] = moved]
             /\ row' = [row EXCEPT ![i] = IF @ = NoRow THEN NoRow ELSE moved]
             /\ UNCHANGED <<granted, busy, claims, late, submitted, clock, server>>
    BY <1>11 DEF MoveToFront
  <2> DEFINE rest == RemoveAt(line[t], k)
             moved == IF rest = <<>> THEN stamp[i] ELSE stamp[Head(rest)] - 1
  <2>3. line[t] \in Seq(Of(t)) /\ line[t] \in Seq(Items) BY <1>0, <2>1 DEF OwnLine, TypeOK
  <2>4. line[t] # <<>> BY <2>2
  <2>5. rest \in Seq(Of(t)) /\ rest \in Seq(Items) BY <2>2, <2>3, RemoveAtType
  <2> HIDE DEF rest
  <2>6. <<i>> \o rest \in Seq(Of(t)) /\ <<i>> \o rest \in Seq(Items)
    <3>1. <<i>> \in Seq(Of(t)) /\ <<i>> \in Seq(Items) BY <2>1
    <3> QED BY <2>5, <3>1, ConcatProperties
  <2>7. moved \in Int
    <3>1. rest # <<>> => Head(rest) \in Items BY <2>5, HeadTailProperties
    <3> QED BY <1>0, <3>1 DEF TypeOK
  <2> HIDE DEF moved
  <2>8. /\ up
        /\ line' = [line EXCEPT ![t] = <<i>> \o rest]
        /\ stamp' = [stamp EXCEPT ![i] = moved]
        /\ row' = [row EXCEPT ![i] = IF @ = NoRow THEN NoRow ELSE moved]
        /\ UNCHANGED <<granted, busy, claims, late, submitted, clock, server>>
    BY <2>2 DEF rest, moved
  <2>9. TypeOK' BY <1>0, <2>1, <2>6, <2>7, <2>8 DEF TypeOK
  <2>10. OwnLine' BY <1>0, <2>1, <2>6, <2>8 DEF OwnLine, TypeOK
  <2>11. DownIsEmpty' BY <2>8 DEF DownIsEmpty
  <2>12. NoStrandedWaiter' BY <1>0, <2>1, <2>4, <2>8 DEF NoStrandedWaiter, Held, TypeOK
  <2>13. ClaimIsExclusive' /\ NoOrphanGrant'
    BY <1>0, <2>8 DEF ClaimIsExclusive, NoOrphanGrant
  <2> QED BY <2>9, <2>10, <2>11, <2>12, <2>13 DEF IInv
<1>12. ASSUME NEW i \in Items, LoseRow(i) PROVE IInv'
  BY <1>0, <1>12 DEF LoseRow, IInv, TypeOK, OwnLine, DownIsEmpty, NoStrandedWaiter,
                     ClaimIsExclusive, NoOrphanGrant, Held
<1>13. ASSUME GoDown PROVE IInv'
  <2>1. restarts' \in 0..MaxRestarts BY <1>0, <1>13, BoundsType DEF GoDown, TypeOK
  <2>2. /\ up' = FALSE /\ line' = EmptyLine /\ granted' = NoGrant
        /\ busy' = {} /\ claims' = {} /\ late' = {}
        /\ UNCHANGED <<stamp, disk>>
    BY <1>13 DEF GoDown
  <2>3. EmptyLine \in [Trees -> Seq(Items)] /\ NoGrant \in [Trees -> Items \cup {NoItem}]
    BY DEF EmptyLine, NoGrant
  <2>31. TypeOK' BY <1>0, <2>1, <2>2, <2>3 DEF TypeOK
  <2>4. OwnLine' BY <2>2 DEF OwnLine, EmptyLine
  <2>5. DownIsEmpty' BY <2>2 DEF DownIsEmpty, EmptyLine, NoGrant
  <2>6. NoStrandedWaiter' BY <2>2 DEF NoStrandedWaiter
  <2>7. ClaimIsExclusive' BY <2>2 DEF ClaimIsExclusive
  <2>8. NoOrphanGrant' BY <2>2 DEF NoOrphanGrant, NoGrant
  <2> QED BY <2>31, <2>4, <2>5, <2>6, <2>7, <2>8 DEF IInv
<1>14. ASSUME Boot PROVE IInv'
  <2> DEFINE S == {i \in Items : row[i] # NoRow}
  <2>1. PICK l \in [Trees -> UNION {SetToSeqs(R) : R \in SUBSET S}] :
          /\ \A t \in Trees : ToSet(l[t]) = {i \in Items : row[i] # NoRow /\ TreeOf[i] = t}
          /\ Pump(l, granted, busy, claims)
    BY <1>14 DEF Boot
  <2>2. /\ ~up /\ up' = TRUE
        /\ stamp' = [i \in Items |-> IF row[i] = NoRow THEN stamp[i] ELSE row[i]]
        /\ UNCHANGED <<submitted, clock, restarts>>
    BY <1>14 DEF Boot
  <2>3. \A t \in Trees : l[t] \in Seq(Items)
    <3> TAKE t \in Trees
    <3>1. PICK R \in SUBSET S : l[t] \in SetToSeqs(R) BY <2>1
    <3> QED BY <3>1, ArrangementType
  <2>4. \A t \in Trees : l[t] \in Seq(Of(t))
    <3> TAKE t \in Trees
    <3>1. \A k \in DOMAIN l[t] : l[t][k] \in Of(t) BY <2>1 DEF ToSet, Of
    <3> QED BY <2>3, <3>1
  <2>5. l \in [Trees -> Seq(Items)] BY <2>1, <2>3
  <2>6. /\ granted \in [Trees -> Items \cup {NoItem}] /\ busy \subseteq Trees
        /\ claims \subseteq Items /\ row \in [Items -> Int \cup {NoRow}]
        /\ \A i \in claims : granted[TreeOf[i]] = i
        /\ \A t \in Trees : granted[t] # NoItem => granted[t] \in claims /\ TreeOf[granted[t]] = t
    BY <1>0 DEF TypeOK, ClaimIsExclusive, NoOrphanGrant
  <2>7. /\ Pumped(l, granted, busy, claims, row, line', granted', busy', claims', row')
        /\ late' = {}
    BY <2>1 DEF Pump
  <2>8. /\ line' \in [Trees -> Seq(Items)]
        /\ granted' \in [Trees -> Items \cup {NoItem}]
        /\ busy' \subseteq Trees /\ claims' \subseteq Items
        /\ row' \in [Items -> Int \cup {NoRow}]
        /\ \A t \in Trees : line'[t] \in Seq(Of(t))
        /\ \A t \in Trees : line'[t] # <<>> => t \in busy' \/ granted'[t] # NoItem
        /\ \A i \in claims' : granted'[TreeOf[i]] = i
        /\ \A t \in Trees : granted'[t] # NoItem =>
             granted'[t] \in claims' /\ TreeOf[granted'[t]] = t
    BY <2>4, <2>5, <2>6, <2>7, PumpedSafe
  <2>9. TypeOK' BY <1>0, <2>2, <2>7, <2>8 DEF TypeOK
  <2>10. OwnLine' /\ NoStrandedWaiter' /\ ClaimIsExclusive' /\ NoOrphanGrant'
    BY <2>8 DEF OwnLine, NoStrandedWaiter, ClaimIsExclusive, NoOrphanGrant, Held
  <2>11. DownIsEmpty' BY <2>2 DEF DownIsEmpty
  <2> QED BY <2>9, <2>10, <2>11 DEF IInv
<1>15. CASE UNCHANGED vars
  BY <1>0, <1>15 DEF vars, IInv, TypeOK, OwnLine, DownIsEmpty, NoStrandedWaiter,
                     ClaimIsExclusive, NoOrphanGrant, Held
<1> QED BY <1>1, <1>2, <1>3, <1>4, <1>5, <1>6, <1>7, <1>8, <1>9, <1>10, <1>11, <1>12,
           <1>13, <1>14, <1>15, <1>16 DEF Next, ItemStep, Cancel, Forget

-----------------------------------------------------------------------------
(* The theorems.                                                            *)

\* The inductive invariant holds in every reachable state.
THEOREM Invariant == Spec => []IInv
<1> QED BY InitInv, NextInv, PTL DEF Spec

\* The state stays well typed.
THEOREM TypeCorrect == Spec => []TypeOK
<1>1. IInv => TypeOK BY DEF IInv
<1> QED BY <1>1, Invariant, PTL

\* A waiter is never left behind a tree that nothing holds, except behind one
\* that came free without a pump and is left to the sweep (pump, release and
\* onTreeIdle between them cover every other way a tree comes free).
THEOREM NeverStranded == Spec => []NoStrandedWaiter
<1>1. IInv => NoStrandedWaiter BY DEF IInv
<1> QED BY <1>1, Invariant, PTL

\* Grants match the runs that hold a tree: late and repeated releases by other
\* runs evict nobody, and no grant is left behind by a run that is over or has
\* started its session (RunQueue.release and started).
THEOREM NeverEvicted == Spec => []GrantsMatchRuns
<1>1. IInv => GrantsMatchRuns BY DEF IInv, GrantsMatchRuns
<1> QED BY <1>1, Invariant, PTL

-----------------------------------------------------------------------------
(* The order of the line.  It is also needed that an item is in one place   *)
(* at a time, waiting once, or granted, never both, and that it was         *)
(* submitted before it is either.                                           *)

\* No item stands twice in a line.
NoTwice(l) == \A t \in Trees : IsInjective(l[t])

\* No item of a set stands in a line.
Apart(l, c) == \A t \in Trees : \A n \in DOMAIN l[t] : l[t][n] \notin c

OnePlace ==
    /\ NoTwice(line)
    /\ Apart(line, claims)

\* Whatever the queue knows of was submitted.
KnownIsSubmitted ==
    /\ Apart(line, Items \ submitted)
    /\ claims \subseteq submitted
    /\ \A i \in Items : row[i] # NoRow => i \in submitted

OInv == IInv /\ OnePlace /\ KnownIsSubmitted

-----------------------------------------------------------------------------
(* The operators.                                                           *)

\* An arrangement of a set of items holds each of them, and nothing twice.
LEMMA ArrangementOrder ==
    ASSUME NEW S \in SUBSET Items, NEW s \in SetToSeqs(S)
    PROVE  IsInjective(s) /\ \A n \in DOMAIN s : s[n] \in S
<1>1. /\ s \in [1..Cardinality(S) -> S]
      /\ \A m, n \in 1..Cardinality(S) : m # n => s[m] # s[n]
  BY DEF SetToSeqs
<1> QED BY <1>1 DEF IsInjective

\* Where the n-th item of a sequence without its k-th stood before.
Before(k, n) == IF n < k THEN n ELSE n + 1

\* Removing position k leaves what stood elsewhere, in its order.
LEMMA RemoveAtKeeps ==
    ASSUME NEW S, NEW s \in Seq(S), NEW k \in DOMAIN s
    PROVE  LET r == RemoveAt(s, k)
           IN /\ r \in Seq(S) /\ Len(r) = Len(s) - 1 /\ DOMAIN r = 1..(Len(s) - 1)
              /\ \A n \in DOMAIN r :
                   Before(k, n) \in DOMAIN s /\ Before(k, n) # k /\ r[n] = s[Before(k, n)]
              /\ \A m \in DOMAIN s : m # k => \E n \in DOMAIN r : Before(k, n) = m
<1> DEFINE a == SubSeq(s, 1, k - 1)
           z == SubSeq(s, k + 1, Len(s))
           r == RemoveAt(s, k)
<1>1. k \in 1..Len(s) /\ Len(s) \in Nat /\ DOMAIN s = 1..Len(s) OBVIOUS
<1>2. a \in Seq(S) /\ Len(a) = k - 1 /\ \A n \in 1..(k - 1) : a[n] = s[n] BY <1>1
<1>3. z \in Seq(S) /\ Len(z) = Len(s) - k /\ \A n \in 1..(Len(s) - k) : z[n] = s[k + n] BY <1>1
<1> HIDE DEF a, z
<1>4. r = a \o z BY DEF RemoveAt, a, z
<1>5. /\ r \in Seq(S) /\ Len(r) = Len(s) - 1
      /\ \A n \in 1..(Len(s) - 1) : r[n] = IF n <= k - 1 THEN a[n] ELSE z[n - (k - 1)]
  <2>1. (k - 1) + (Len(s) - k) = Len(s) - 1 BY <1>1
  <2>2. /\ a \o z \in Seq(S)
        /\ Len(a \o z) = Len(a) + Len(z)
        /\ \A n \in 1..(Len(a) + Len(z)) :
             (a \o z)[n] = IF n <= Len(a) THEN a[n] ELSE z[n - Len(a)]
    BY <1>2, <1>3, ConcatProperties
  <2>3. Len(a) + Len(z) = Len(s) - 1 /\ Len(a) = k - 1 BY <1>2, <1>3, <2>1
  <2> HIDE DEF r
  <2> QED BY <1>4, <2>2, <2>3, Zenon
<1> HIDE DEF r
<1>6. DOMAIN r = 1..(Len(s) - 1) BY <1>5
<1>7. ASSUME NEW n \in DOMAIN r
      PROVE  Before(k, n) \in DOMAIN s /\ Before(k, n) # k /\ r[n] = s[Before(k, n)]
  <2>1. n \in 1..(Len(s) - 1) BY <1>6
  <2>2. CASE n < k BY <1>1, <1>2, <1>5, <2>1, <2>2 DEF Before
  <2>3. CASE ~(n < k)
    <3>1. n - (k - 1) \in 1..(Len(s) - k) /\ k + (n - (k - 1)) = n + 1 BY <1>1, <2>1, <2>3
    <3>2. r[n] = z[n - (k - 1)]
      <4>1. ~(n <= k - 1) BY <1>1, <2>1, <2>3
      <4> QED BY <1>5, <2>1, <4>1, Zenon
    <3>3. r[n] = s[n + 1] BY <1>3, <3>1, <3>2
    <3> QED BY <1>1, <2>1, <2>3, <3>3 DEF Before
  <2> QED BY <2>2, <2>3
<1>8. ASSUME NEW m \in DOMAIN s, m # k PROVE \E n \in DOMAIN r : Before(k, n) = m
  <2> DEFINE n == IF m < k THEN m ELSE m - 1
  <2>1. n \in 1..(Len(s) - 1) /\ Before(k, n) = m BY <1>1, <1>8 DEF Before
  <2> QED BY <1>6, <2>1
<1> QED BY <1>5, <1>6, <1>7, <1>8 DEF r

\* So of a sequence that holds nothing twice.
LEMMA RemoveAtOrder ==
    ASSUME NEW S, NEW s \in Seq(S), NEW k \in DOMAIN s, IsInjective(s)
    PROVE  /\ IsInjective(RemoveAt(s, k))
           /\ \A n \in DOMAIN RemoveAt(s, k) :
                \E m \in DOMAIN s : m # k /\ RemoveAt(s, k)[n] = s[m]
<1> DEFINE r == RemoveAt(s, k)
<1>1. /\ DOMAIN r = 1..(Len(s) - 1) /\ Len(s) \in Nat /\ k \in Nat
      /\ \A n \in DOMAIN r :
           Before(k, n) \in DOMAIN s /\ Before(k, n) # k /\ r[n] = s[Before(k, n)]
  BY RemoveAtKeeps
<1> HIDE DEF r
<1>2. ASSUME NEW m \in DOMAIN r, NEW n \in DOMAIN r, r[m] = r[n] PROVE m = n
  <2>1. Before(k, m) = Before(k, n) BY <1>1, <1>2 DEF IsInjective
  <2> QED BY <1>1, <2>1 DEF Before
<1>3. IsInjective(r) BY <1>2 DEF IsInjective
<1>4. \A n \in DOMAIN r : \E m \in DOMAIN s : m # k /\ r[n] = s[m] BY <1>1
<1> QED BY <1>3, <1>4 DEF r

-----------------------------------------------------------------------------
(* The pump.                                                                *)

\* Each tree t has lost the first k[t] items of its line and their rows, and the
\* last of them is granted in the trees of holds, which were free.
Took(k, holds, l, g, c, r, l2, g2, b2, c2, r2) ==
    /\ \A t \in Trees : k[t] <= Len(l[t]) /\ l2[t] = SubSeq(l[t], k[t] + 1, Len(l[t]))
    /\ \A t \in holds : /\ t \notin b2 /\ g[t] = NoItem
                        /\ k[t] \in DOMAIN l[t] /\ g2[t] = l[t][k[t]]
    /\ \A t \in Trees \ holds : g2[t] = g[t]
    /\ \A i : i \in c2 <=> i \in c \/ \E t \in holds : i = l[t][k[t]]
    /\ \A i \in Items : r2[i] # NoRow =>
         r2[i] = r[i] /\ \A t \in Trees : \A n \in 1..k[t] : l[t][n] # i

\* The tail of a sequence after its first k items.
LEMMA TailAfter ==
    ASSUME NEW S, NEW s \in Seq(S), NEW k \in Nat, k <= Len(s)
    PROVE  /\ DOMAIN SubSeq(s, k + 1, Len(s)) = 1..(Len(s) - k)
           /\ \A n \in 1..(Len(s) - k) :
                k + n \in 1..Len(s) /\ SubSeq(s, k + 1, Len(s))[n] = s[k + n]
  OBVIOUS

\* What a pump does to the lines.
LEMMA PumpedTakes ==
    ASSUME NEW l, NEW g, NEW b, NEW c, NEW r, NEW l2, NEW g2, NEW b2, NEW c2, NEW r2,
           l \in [Trees -> Seq(Items)],
           b \subseteq Trees,
           Pumped(l, g, b, c, r, l2, g2, b2, c2, r2)
    PROVE  \E k \in [Trees -> Nat], holds \in SUBSET Trees :
             Took(k, holds, l, g, c, r, l2, g2, b2, c2, r2)
<1> DEFINE free == {t \in Trees \ b : g[t] = NoItem /\ l[t] # <<>>}
<1>1. PICK taken \in [free -> 1..MaxPerKey], out \in [free -> Outcomes] :
        /\ \A t \in free : taken[t] <= Len(l[t])
        /\ l2 = [t \in Trees |-> IF t \in free
                                 THEN Shift(l[t], taken[t]).rest ELSE l[t]]
        /\ g2 = [t \in Trees |-> IF t \in {u \in free : out[u] = "holds"}
                                 THEN Shift(l[t], taken[t]).served[taken[t]] ELSE g[t]]
        /\ b2 = b \cup {u \in free : out[u] = "prompts"}
        /\ c2 = c \cup {Shift(l[t], taken[t]).served[taken[t]] :
                          t \in {u \in free : out[u] = "holds"}}
        /\ r2 = [i \in Items |->
                   IF \E t \in free : i \in ToSet(Shift(l[t], taken[t]).served)
                   THEN NoRow ELSE r[i]]
  BY Zenon DEF Pumped
<1> DEFINE holds == {u \in free : out[u] = "holds"}
           k == [t \in Trees |-> IF t \in free THEN taken[t] ELSE 0]
           served(t) == Shift(l[t], taken[t]).served[taken[t]]
<1>2. \A t \in free : taken[t] \in 1..Len(l[t]) BY SMTT(40), <1>1, CapsPositive
<1>3. k \in [Trees -> Nat] BY SMTT(40), <1>1, CapsPositive
<1>4. ASSUME NEW t \in free
      PROVE  /\ k[t] = taken[t] /\ k[t] \in DOMAIN l[t]
             /\ served(t) = l[t][k[t]]
             /\ Shift(l[t], taken[t]).rest = SubSeq(l[t], k[t] + 1, Len(l[t]))
  <2>1. l[t] \in Seq(Items) /\ taken[t] \in 1..Len(l[t]) /\ k[t] = taken[t] BY <1>2
  <2> QED BY <2>1, ShiftType DEF Shift
<1>5. ASSUME NEW t \in Trees
      PROVE  k[t] <= Len(l[t]) /\ l2[t] = SubSeq(l[t], k[t] + 1, Len(l[t]))
  <2>1. CASE t \in free BY <1>1, <1>2, <1>4, <2>1
  <2>2. CASE t \notin free
    <3>1. l[t] \in Seq(Items) /\ k[t] = 0 /\ l2[t] = l[t] BY <1>1, <2>2
    <3>2. SubSeq(l[t], 1, Len(l[t])) = l[t] BY <3>1
    <3> QED BY <3>1, <3>2
  <2> QED BY <2>1, <2>2
<1>6. ASSUME NEW t \in holds
      PROVE  t \notin b2 /\ g[t] = NoItem /\ k[t] \in DOMAIN l[t] /\ g2[t] = l[t][k[t]]
  BY <1>1, <1>4
<1>7. \A t \in Trees \ holds : g2[t] = g[t] BY <1>1
<1>8. \A i : i \in c2 <=> i \in c \/ \E t \in holds : i = l[t][k[t]]
  <2>1. \A t \in holds : served(t) = l[t][k[t]] BY <1>4
  <2>2. c2 = c \cup {served(t) : t \in holds} BY <1>1
  <2> HIDE DEF holds, served, k
  <2> QED BY <2>1, <2>2
<1>9. ASSUME NEW i \in Items, r2[i] # NoRow
      PROVE  r2[i] = r[i] /\ \A t \in Trees : \A n \in 1..k[t] : l[t][n] # i
  <2>1. r2[i] = r[i] /\ \A t \in free : i \notin ToSet(Shift(l[t], taken[t]).served)
    BY <1>1, <1>9
  <2>2. ASSUME NEW t \in Trees, NEW n \in 1..k[t] PROVE l[t][n] # i
    <3>1. t \in free /\ k[t] = taken[t] /\ taken[t] \in 1..Len(l[t]) /\ l[t] \in Seq(Items)
      BY <1>2
    <3>2. /\ DOMAIN SubSeq(l[t], 1, taken[t]) = 1..taken[t]
          /\ SubSeq(l[t], 1, taken[t])[n] = l[t][n]
      BY <3>1
    <3>3. l[t][n] \in ToSet(Shift(l[t], taken[t]).served)
      BY <3>1, <3>2 DEF Shift, ToSet
    <3> QED BY <2>1, <3>1, <3>3
  <2> QED BY <2>1, <2>2
<1>10. holds \in SUBSET Trees OBVIOUS
<1> HIDE DEF k, holds
<1>11. \A t \in Trees : k[t] <= Len(l[t]) /\ l2[t] = SubSeq(l[t], k[t] + 1, Len(l[t])) BY <1>5
<1>12. \A t \in holds : /\ t \notin b2 /\ g[t] = NoItem
                        /\ k[t] \in DOMAIN l[t] /\ g2[t] = l[t][k[t]]
  BY <1>6
<1>13. \A i \in Items : r2[i] # NoRow =>
          r2[i] = r[i] /\ \A t \in Trees : \A n \in 1..k[t] : l[t][n] # i
  BY <1>9
<1>14. Took(k, holds, l, g, c, r, l2, g2, b2, c2, r2)
  BY <1>7, <1>8, <1>11, <1>12, <1>13, Zenon DEF Took
<1> QED BY <1>3, <1>10, <1>14, Zenon

\* A pump keeps every item in one place, grants from the lines in their order
\* and only where nothing held the tree, and writes no row.
LEMMA PumpedOrder ==
    ASSUME NEW l, NEW g, NEW b, NEW c, NEW r, NEW l2, NEW g2, NEW b2, NEW c2, NEW r2,
           l \in [Trees -> Seq(Items)],
           b \subseteq Trees,
           \A t \in Trees : l[t] \in Seq(Of(t)),
           NoTwice(l), Apart(l, c),
           Pumped(l, g, b, c, r, l2, g2, b2, c2, r2)
    PROVE  /\ NoTwice(l2) /\ Apart(l2, c2)
           /\ \A S : Apart(l, S) => Apart(l2, S)
           /\ \A i \in c2 : i \in c \/ \E t \in Trees : \E n \in DOMAIN l[t] : l[t][n] = i
           /\ \A t \in Trees : \A m, n \in DOMAIN l[t] :
                m < n /\ l[t][m] \in ToSet(l2[t]) => l[t][n] \notin c2
           /\ \A t \in Trees : g2[t] # g[t] => t \notin b2 /\ g[t] = NoItem
           /\ \A i \in Items : r2[i] # NoRow => r[i] # NoRow
<1>1. PICK k \in [Trees -> Nat], holds \in SUBSET Trees :
        Took(k, holds, l, g, c, r, l2, g2, b2, c2, r2)
  BY ZenonT(40), PumpedTakes
<1> USE <1>1 DEF Took
<1>2. ASSUME NEW t \in Trees
      PROVE  /\ l[t] \in Seq(Items) /\ DOMAIN l[t] = 1..Len(l[t]) /\ Len(l[t]) \in Nat
             /\ k[t] \in Nat
             /\ DOMAIN l2[t] = 1..(Len(l[t]) - k[t])
             /\ \A n \in DOMAIN l2[t] : k[t] + n \in DOMAIN l[t] /\ l2[t][n] = l[t][k[t] + n]
  <2>1. l[t] \in Seq(Items) /\ Len(l[t]) \in Nat /\ k[t] \in Nat /\ k[t] <= Len(l[t]) BY <1>1
  <2>2. l2[t] = SubSeq(l[t], k[t] + 1, Len(l[t])) OBVIOUS
  <2>3. /\ DOMAIN l2[t] = 1..(Len(l[t]) - k[t])
        /\ \A n \in 1..(Len(l[t]) - k[t]) :
             k[t] + n \in 1..Len(l[t]) /\ l2[t][n] = l[t][k[t] + n]
    BY <2>1, <2>2, TailAfter
  <2> QED BY <2>1, <2>3
<1>3. ASSUME NEW t \in Trees PROVE IsInjective(l2[t])
  <2> SUFFICES ASSUME NEW m \in DOMAIN l2[t], NEW n \in DOMAIN l2[t], l2[t][m] = l2[t][n]
               PROVE  m = n
    BY DEF IsInjective
  <2>1. k[t] + m = k[t] + n BY <1>2 DEF NoTwice, IsInjective
  <2> QED BY <1>2, <2>1
\* An item granted from t is the k[t]-th of t's line and stands nowhere else.
<1>4. ASSUME NEW t \in Trees, NEW n \in DOMAIN l[t], l[t][n] \in c2
      PROVE  t \in holds /\ n = k[t]
  <2>1. PICK u \in holds : l[t][n] = l[u][k[u]] BY <1>1, <1>4 DEF Apart
  <2>2. l[t][n] \in Of(t) /\ l[u][k[u]] \in Of(u)
    <3>1. l[t] \in Seq(Of(t)) /\ l[u] \in Seq(Of(u)) BY <2>1
    <3> QED BY <1>1, <1>2, <2>1, <3>1
  <2>3. u = t BY <2>1, <2>2 DEF Of
  <2> QED BY <1>1, <2>1, <2>3 DEF NoTwice, IsInjective
<1>5. Apart(l2, c2)
  <2> SUFFICES ASSUME NEW t \in Trees, NEW n \in DOMAIN l2[t], l2[t][n] \in c2 PROVE FALSE
    BY DEF Apart
  <2>1. k[t] + n = k[t] BY <1>2, <1>4
  <2> QED BY <1>2, <2>1
<1>6. \A S : Apart(l, S) => Apart(l2, S) BY <1>2 DEF Apart
<1>7. ASSUME NEW t \in Trees, NEW m \in DOMAIN l[t], NEW n \in DOMAIN l[t],
             m < n, l[t][m] \in ToSet(l2[t]), l[t][n] \in c2
      PROVE  FALSE
  <2>1. n = k[t] BY <1>4, <1>7
  <2>2. PICK j \in DOMAIN l2[t] : l[t][m] = l2[t][j] BY <1>7 DEF ToSet
  <2>3. m = k[t] + j BY <1>2, <2>2 DEF NoTwice, IsInjective
  <2> QED BY <1>2, <1>7, <2>1, <2>3
<1>8. \A i \in c2 : i \in c \/ \E t \in Trees : \E n \in DOMAIN l[t] : l[t][n] = i BY <1>1
<1>9. \A t \in Trees : g2[t] # g[t] => t \notin b2 /\ g[t] = NoItem BY <1>1
<1>10. \A i \in Items : r2[i] # NoRow => r[i] # NoRow BY <1>1
<1> QED BY <1>3, <1>5, <1>6, <1>7, <1>8, <1>9, <1>10 DEF NoTwice

-----------------------------------------------------------------------------
(* Steps that edit one line.                                                *)

\* A line moved at one tree to an arrangement of items it already held keeps
\* every item in one place.
LEMMA EditedLine ==
    ASSUME NEW l \in [Trees -> Seq(Items)], NEW t \in Trees, NEW s,
           NoTwice(l), IsInjective(s),
           \A n \in DOMAIN s : \E m \in DOMAIN l[t] : s[n] = l[t][m]
    PROVE  /\ NoTwice([l EXCEPT ![t] = s])
           /\ \A S : Apart(l, S) => Apart([l EXCEPT ![t] = s], S)
<1> DEFINE l2 == [l EXCEPT ![t] = s]
<1>1. \A u \in Trees : l2[u] = IF u = t THEN s ELSE l[u] OBVIOUS
<1> HIDE DEF l2
<1>2. NoTwice(l2) BY <1>1 DEF NoTwice
<1>3. ASSUME NEW S, Apart(l, S) PROVE Apart(l2, S) BY <1>1, <1>3 DEF Apart
<1> QED BY <1>2, <1>3 DEF l2

\* Putting an item in front of a sequence.
LEMMA InFront ==
    ASSUME NEW S, NEW x \in S, NEW r \in Seq(S)
    PROVE  /\ <<x>> \o r \in Seq(S) /\ DOMAIN (<<x>> \o r) = 1..(Len(r) + 1)
           /\ \A n \in 1..(Len(r) + 1) : (<<x>> \o r)[n] = IF n <= 1 THEN x ELSE r[n - 1]
<1> DEFINE one == <<x>>
<1>1. one \in Seq(S) /\ Len(one) = 1 /\ one[1] = x OBVIOUS
<1> HIDE DEF one
<1>2. Len(r) \in Nat OBVIOUS
<1>3. /\ one \o r \in Seq(S)
      /\ Len(one \o r) = Len(one) + Len(r)
      /\ \A n \in 1..(Len(one) + Len(r)) :
           (one \o r)[n] = IF n <= Len(one) THEN one[n] ELSE r[n - Len(one)]
  BY <1>1, ConcatProperties
<1>4. \A n \in 1..(Len(r) + 1) : (one \o r)[n] = IF n <= 1 THEN x ELSE r[n - 1]
  BY <1>1, <1>2, <1>3
<1>5. DOMAIN (one \o r) = 1..(Len(r) + 1) BY <1>1, <1>2, <1>3
<1> QED BY <1>3, <1>4, <1>5 DEF one

\* Moving the k-th item to the front loses and doubles nothing.
LEMMA MovedOrder ==
    ASSUME NEW S, NEW s \in Seq(S), NEW k \in DOMAIN s, IsInjective(s)
    PROVE  /\ IsInjective(<<s[k]>> \o RemoveAt(s, k))
           /\ \A n \in DOMAIN (<<s[k]>> \o RemoveAt(s, k)) :
                \E m \in DOMAIN s : (<<s[k]>> \o RemoveAt(s, k))[n] = s[m]
<1> DEFINE r == RemoveAt(s, k)
           q == <<s[k]>> \o r
<1>1. s[k] \in S OBVIOUS
<1>2. r \in Seq(S) /\ Len(r) \in Nat /\ DOMAIN r = 1..Len(r)
  <2>1. r \in Seq(S) BY RemoveAtType
  <2> HIDE DEF r
  <2> QED BY <2>1
<1>3. IsInjective(r) /\ \A n \in DOMAIN r : \E m \in DOMAIN s : m # k /\ r[n] = s[m]
  BY RemoveAtOrder
<1> HIDE DEF r
<1>4. /\ q \in Seq(S) /\ DOMAIN q = 1..(Len(r) + 1)
      /\ \A n \in 1..(Len(r) + 1) : q[n] = IF n <= 1 THEN s[k] ELSE r[n - 1]
  BY <1>1, <1>2, InFront
<1> HIDE DEF q
<1>5. ASSUME NEW n \in DOMAIN q, n # 1
      PROVE  n - 1 \in DOMAIN r /\ q[n] = r[n - 1]
  BY <1>2, <1>4, <1>5
<1>6. q[1] = s[k] BY <1>2, <1>4
<1>7. \A n \in DOMAIN q : n # 1 => q[n] # s[k] BY <1>3, <1>5 DEF IsInjective
<1>8. ASSUME NEW m \in DOMAIN q, NEW n \in DOMAIN q, q[m] = q[n] PROVE m = n
  <2>1. CASE m = 1 \/ n = 1 BY <1>6, <1>7, <1>8, <2>1
  <2>2. CASE m # 1 /\ n # 1
    <3>1. m - 1 = n - 1 BY <1>3, <1>5, <1>8, <2>2 DEF IsInjective
    <3> QED BY <1>2, <1>4, <3>1
  <2> QED BY <2>1, <2>2
<1>9. \A n \in DOMAIN q : \E m \in DOMAIN s : q[n] = s[m] BY <1>3, <1>5, <1>6
<1>10. IsInjective(q) BY <1>8 DEF IsInjective
<1> QED BY <1>9, <1>10 DEF q, r

-----------------------------------------------------------------------------
(* The steps.                                                               *)

\* The initial state has nothing anywhere.
LEMMA InitOrder == Init => OnePlace /\ KnownIsSubmitted
  BY DEF Init, OnePlace, KnownIsSubmitted, NoTwice, Apart, IsInjective, EmptyLine

\* A step that ends in a pump over lines l keeps every item in one place, if
\* the lines and the runs it starts from do.
LEMMA PumpKeepsPlace ==
    ASSUME IInv, KnownIsSubmitted,
           NEW l \in [Trees -> Seq(Items)], NEW g, NEW b \in SUBSET Trees,
           NEW c \in SUBSET claims,
           \A t \in Trees : l[t] \in Seq(Of(t)),
           NoTwice(l), Apart(l, c), Apart(l, Items \ submitted),
           Pump(l, g, b, c), UNCHANGED submitted
    PROVE  OnePlace' /\ KnownIsSubmitted'
<1>1. Pumped(l, g, b, c, row, line', granted', busy', claims', row') BY DEF Pump
<1>2. /\ NoTwice(line') /\ Apart(line', claims')
      /\ \A S : Apart(l, S) => Apart(line', S)
      /\ \A i \in claims' : i \in c \/ \E t \in Trees : \E n \in DOMAIN l[t] : l[t][n] = i
      /\ \A i \in Items : row'[i] # NoRow => row[i] # NoRow
  BY <1>1, PumpedOrder
<1>3. Apart(line', Items \ submitted) BY <1>2
<1>4. \A i \in claims' : i \in submitted
  <2> SUFFICES ASSUME NEW i \in claims' PROVE i \in submitted OBVIOUS
  <2>1. CASE i \in c BY <2>1 DEF KnownIsSubmitted
  <2>2. CASE \E t \in Trees : \E n \in DOMAIN l[t] : l[t][n] = i
    <3>0. PICK t \in Trees : \E n \in DOMAIN l[t] : l[t][n] = i BY <2>2
    <3>1. PICK n \in DOMAIN l[t] : l[t][n] = i BY <3>0
    <3>2. l[t] \in Seq(Items) OBVIOUS
    <3>3. i \in Items BY <3>1, <3>2
    <3> QED BY <3>1, <3>3 DEF Apart
  <2> QED BY <1>2, <2>1, <2>2
<1>5. OnePlace' BY <1>2 DEF OnePlace, NoTwice, Apart
<1>6. KnownIsSubmitted' BY <1>2, <1>3, <1>4 DEF KnownIsSubmitted, Apart
<1> QED BY <1>5, <1>6

\* Booting builds lines that hold each persisted item once.
LEMMA BootLines ==
    ASSUME IInv, KnownIsSubmitted,
           NEW l \in [Trees -> UNION {SetToSeqs(R) : R \in SUBSET {i \in Items : row[i] # NoRow}}],
           \A t \in Trees : ToSet(l[t]) = {i \in Items : row[i] # NoRow /\ TreeOf[i] = t}
    PROVE  /\ l \in [Trees -> Seq(Items)]
           /\ \A t \in Trees : l[t] \in Seq(Of(t))
           /\ NoTwice(l) /\ Apart(l, Items \ submitted)
<1>1. ASSUME NEW t \in Trees
      PROVE  l[t] \in Seq(Items) /\ l[t] \in Seq(Of(t)) /\ IsInjective(l[t])
  <2>1. PICK R \in SUBSET {i \in Items : row[i] # NoRow} : l[t] \in SetToSeqs(R) OBVIOUS
  <2>2. l[t] \in Seq(Items) /\ IsInjective(l[t])
    BY <2>1, ArrangementType, ArrangementOrder
  <2>3. \A n \in DOMAIN l[t] : l[t][n] \in Of(t) BY DEF ToSet, Of
  <2> QED BY <2>2, <2>3
<1>2. l \in [Trees -> Seq(Items)] BY <1>1
<1>3. ASSUME NEW t \in Trees, NEW n \in DOMAIN l[t] PROVE l[t][n] \in submitted
  <2>1. l[t][n] \in ToSet(l[t]) BY DEF ToSet
  <2> QED BY <2>1 DEF KnownIsSubmitted
<1> QED BY <1>1, <1>2, <1>3 DEF NoTwice, Apart

\* Every step keeps every item in one place, and submitted before it is there.
LEMMA NextOrder == OInv /\ [Next]_vars => OnePlace' /\ KnownIsSubmitted'
<1> SUFFICES ASSUME OInv, [Next]_vars PROVE OnePlace' /\ KnownIsSubmitted' OBVIOUS
<1> USE DEF server, memory, disk
<1>0. /\ IInv /\ OnePlace /\ KnownIsSubmitted
      /\ NoTwice(line) /\ Apart(line, claims) /\ Apart(line, Items \ submitted)
      /\ line \in [Trees -> Seq(Items)] /\ \A t \in Trees : line[t] \in Seq(Of(t))
      /\ busy \subseteq Trees /\ claims \subseteq Items
  BY DEF OInv, IInv, TypeOK, OwnLine, OnePlace, KnownIsSubmitted
<1>1. ASSUME line' = line, claims' \subseteq claims, submitted \subseteq submitted',
             \A i \in Items : row'[i] # NoRow => row[i] # NoRow
      PROVE  OnePlace' /\ KnownIsSubmitted'
  BY <1>0, <1>1 DEF OnePlace, KnownIsSubmitted, NoTwice, Apart
<1>2. ASSUME NEW i \in Items, TryAcquire(i) PROVE OnePlace' /\ KnownIsSubmitted'
  <2>1. /\ i \notin submitted /\ submitted' = submitted \cup {i}
        /\ claims' = claims \cup {i} /\ line' = line /\ row' = row
    BY <1>2 DEF TryAcquire, Submit
  <2>2. Apart(line', claims') BY <1>0, <2>1 DEF Apart
  <2> QED BY <1>0, <2>1, <2>2 DEF OnePlace, KnownIsSubmitted, NoTwice, Apart
<1>3. ASSUME NEW i \in Items, Enqueue(i) PROVE OnePlace' /\ KnownIsSubmitted'
  <2> DEFINE t == TreeOf[i]
  <2>1. /\ i \notin submitted /\ submitted' = submitted \cup {i} /\ claims' = claims
        /\ row' = [row EXCEPT ![i] = clock']
    BY <1>3 DEF Enqueue, Submit
  <2>2. PICK s \in SetToSeqs(ToSet(line[t]) \cup {i}) : line' = [line EXCEPT ![t] = s]
    BY <1>3 DEF Enqueue
  <2>3. t \in Trees BY TreeOfType
  <2>4. line[t] \in Seq(Items) BY <1>0, <2>3
  <2>5. ToSet(line[t]) \cup {i} \in SUBSET Items BY <2>4 DEF ToSet
  <2>6. IsInjective(s) /\ \A n \in DOMAIN s : s[n] \in ToSet(line[t]) \cup {i}
    BY <2>5, ArrangementOrder
  <2>7. \A u \in Trees : line'[u] = IF u = t THEN s ELSE line[u] BY <1>0, <2>2
  <2>8. NoTwice(line') BY <1>0, <2>6, <2>7 DEF NoTwice
  <2>9. ASSUME NEW S, Apart(line, S), i \notin S PROVE Apart(line', S)
    <3> SUFFICES ASSUME NEW u \in Trees, NEW n \in DOMAIN line'[u] PROVE line'[u][n] \notin S
      BY DEF Apart
    <3>1. CASE u = t
      <4>1. line'[u][n] = i \/ \E m \in DOMAIN line[t] : line'[u][n] = line[t][m]
        BY <2>6, <2>7, <3>1 DEF ToSet
      <4> QED BY <2>3, <2>9, <4>1 DEF Apart
    <3>2. CASE u # t BY <2>7, <2>9, <3>2 DEF Apart
    <3> QED BY <3>1, <3>2
  <2>10. i \notin claims BY <1>0, <2>1 DEF KnownIsSubmitted
  <2>11. Apart(line', claims') BY <1>0, <2>1, <2>9, <2>10
  <2>12. Apart(line', Items \ submitted')
    <3>1. Apart(line, Items \ submitted') BY <1>0, <2>1 DEF Apart
    <3> QED BY <2>1, <2>9, <3>1
  <2>13. \A j \in Items : row'[j] # NoRow => j \in submitted'
    BY <1>0, <2>1 DEF IInv, TypeOK, KnownIsSubmitted
  <2>14. OnePlace' BY <2>8, <2>11 DEF OnePlace, NoTwice, Apart
  <2>15. KnownIsSubmitted' BY <1>0, <2>1, <2>12, <2>13 DEF KnownIsSubmitted, Apart
  <2> QED BY <2>14, <2>15
<1>4. ASSUME NEW i \in Items,
             Refuse(i) \/ Started(i) \/ StartedElsewhere(i) \/ LoseRow(i)
      PROVE  OnePlace' /\ KnownIsSubmitted'
  <2>1. line' = line /\ claims' \subseteq claims /\ submitted \subseteq submitted'
    BY <1>4 DEF Refuse, Submit, Started, StartedElsewhere, LoseRow
  <2>2. row \in [Items -> Int \cup {NoRow}] BY <1>0 DEF IInv, TypeOK
  <2>3. row' = row \/ row' = [row EXCEPT ![i] = NoRow]
    BY <1>4 DEF Refuse, Submit, Started, StartedElsewhere, LoseRow
  <2>4. \A j \in Items : row'[j] # NoRow => row[j] # NoRow BY <2>2, <2>3
  <2> QED BY <1>1, <2>1, <2>4
<1>5. ASSUME NEW t \in Trees, TurnEndsQuietly(t) \/ OutsideTurn(t)
      PROVE  OnePlace' /\ KnownIsSubmitted'
  BY <1>1, <1>5 DEF TurnEndsQuietly, OutsideTurn
<1>6. ASSUME NEW i \in Items, Release(i) PROVE OnePlace' /\ KnownIsSubmitted'
  <2>1. Pump(line, GiveBack(granted, i), busy, claims \ {i}) /\ UNCHANGED submitted
    BY <1>6 DEF Release
  <2>2. Apart(line, claims \ {i}) BY <1>0 DEF Apart
  <2>3. busy \in SUBSET Trees /\ claims \ {i} \in SUBSET claims BY <1>0
  <2> QED BY <1>0, <2>1, <2>2, <2>3, PumpKeepsPlace
<1>7. ASSUME NEW t \in Trees, TurnEnds(t) PROVE OnePlace' /\ KnownIsSubmitted'
  <2>1. Pump(line, granted, busy \ {t}, claims) /\ UNCHANGED submitted BY <1>7 DEF TurnEnds
  <2>2. busy \ {t} \in SUBSET Trees /\ claims \in SUBSET claims BY <1>0
  <2> QED BY <1>0, <2>1, <2>2, PumpKeepsPlace
<1>8. ASSUME Sweep PROVE OnePlace' /\ KnownIsSubmitted'
  <2>1. Pump(line, granted, busy, claims) /\ UNCHANGED submitted BY <1>8 DEF Sweep
  <2>2. busy \in SUBSET Trees /\ claims \in SUBSET claims BY <1>0
  <2> QED BY <1>0, <2>1, <2>2, PumpKeepsPlace
<1>9. ASSUME NEW t \in Trees, NEW s, line' = [line EXCEPT ![t] = s],
             IsInjective(s), \A n \in DOMAIN s : \E m \in DOMAIN line[t] : s[n] = line[t][m],
             claims' = claims, submitted' = submitted,
             \A i \in Items : row'[i] # NoRow => row[i] # NoRow
      PROVE  OnePlace' /\ KnownIsSubmitted'
  <2>1. NoTwice(line') /\ \A S : Apart(line, S) => Apart(line', S)
    BY <1>0, <1>9, EditedLine
  <2>2. Apart(line', claims) /\ Apart(line', Items \ submitted) BY <1>0, <2>1
  <2> QED BY <1>0, <1>9, <2>1, <2>2 DEF OnePlace, KnownIsSubmitted, NoTwice, Apart
<1>10. ASSUME NEW i \in Items, Drop(i) PROVE OnePlace' /\ KnownIsSubmitted'
  <2> DEFINE t == TreeOf[i]
  <2>1. t \in Trees /\ line[t] \in Seq(Items) /\ IsInjective(line[t])
    BY <1>0, TreeOfType DEF NoTwice
  <2>2. PICK k \in DOMAIN line[t] : line' = [line EXCEPT ![t] = RemoveAt(@, k)]
    BY <1>10 DEF Drop
  <2>3. claims' = claims /\ submitted' = submitted /\ row' = [row EXCEPT ![i] = NoRow]
    BY <1>10 DEF Drop
  <2>4. \A j \in Items : row'[j] # NoRow => row[j] # NoRow
    BY <1>0, <2>3 DEF IInv, TypeOK
  <2>5. /\ IsInjective(RemoveAt(line[t], k))
        /\ \A n \in DOMAIN RemoveAt(line[t], k) :
             \E m \in DOMAIN line[t] : RemoveAt(line[t], k)[n] = line[t][m]
    BY <2>1, RemoveAtOrder
  <2>6. line' = [line EXCEPT ![t] = RemoveAt(line[t], k)] BY <2>2
  <2> QED BY <1>9, <2>1, <2>3, <2>4, <2>5, <2>6
<1>11. ASSUME NEW i \in Items, MoveToFront(i) PROVE OnePlace' /\ KnownIsSubmitted'
  <2> DEFINE t == TreeOf[i]
  <2>1. t \in Trees /\ line[t] \in Seq(Items) /\ IsInjective(line[t])
    BY <1>0, TreeOfType DEF NoTwice
  <2>2. PICK k \in DOMAIN line[t] :
          /\ line[t][k] = i
          /\ line' = [line EXCEPT ![t] = <<i>> \o RemoveAt(line[t], k)]
          /\ claims' = claims /\ submitted' = submitted
          /\ \E v : row' = [row EXCEPT ![i] = IF @ = NoRow THEN NoRow ELSE v]
    BY <1>11 DEF MoveToFront
  <2>3. \A j \in Items : row'[j] # NoRow => row[j] # NoRow
    BY <1>0, <2>2 DEF IInv, TypeOK
  <2> DEFINE s == <<line[t][k]>> \o RemoveAt(line[t], k)
  <2>4. IsInjective(s) /\ \A n \in DOMAIN s : \E m \in DOMAIN line[t] : s[n] = line[t][m]
    <3> HIDE DEF t
    <3> QED BY <2>1, MovedOrder, Zenon
  <2>5. line' = [line EXCEPT ![t] = s] BY <2>2
  <2> HIDE DEF s
  <2> QED BY <1>9, <2>1, <2>2, <2>3, <2>4, <2>5
<1>12. ASSUME GoDown PROVE OnePlace' /\ KnownIsSubmitted'
  BY <1>0, <1>12 DEF GoDown, OnePlace, KnownIsSubmitted, NoTwice, Apart, IsInjective, EmptyLine
<1>13. ASSUME Boot PROVE OnePlace' /\ KnownIsSubmitted'
  <2>1. PICK l \in [Trees -> UNION {SetToSeqs(R) : R \in SUBSET {i \in Items : row[i] # NoRow}}] :
          /\ \A t \in Trees : ToSet(l[t]) = {i \in Items : row[i] # NoRow /\ TreeOf[i] = t}
          /\ Pump(l, granted, busy, claims)
    BY <1>13 DEF Boot
  <2>2. UNCHANGED submitted /\ claims = {} BY <1>0, <1>13 DEF Boot, IInv, DownIsEmpty
  <2>3. /\ l \in [Trees -> Seq(Items)]
        /\ \A t \in Trees : l[t] \in Seq(Of(t))
        /\ NoTwice(l) /\ Apart(l, Items \ submitted)
    BY <1>0, <2>1, BootLines
  <2>4. Apart(l, claims) BY <2>2 DEF Apart
  <2>5. busy \in SUBSET Trees /\ claims \in SUBSET claims BY <1>0
  <2> QED BY <1>0, <2>1, <2>2, <2>3, <2>4, <2>5, PumpKeepsPlace
<1>14. CASE UNCHANGED vars BY <1>1, <1>14 DEF vars
<1> QED BY <1>2, <1>3, <1>4, <1>5, <1>6, <1>7, <1>8, <1>10, <1>11, <1>12, <1>13, <1>14
        DEF Next, ItemStep, Cancel, Forget

-----------------------------------------------------------------------------
(* What the steps do to grants.                                             *)

\* A pump over grants from which only runs that are over were taken passes a
\* tree on only if it is free and its last run is one of those.
LEMMA PumpGrantsFree ==
    ASSUME IInv, IInv',
           NEW l \in [Trees -> Seq(Items)], NEW g, NEW b \in SUBSET Trees,
           NEW c \in SUBSET claims,
           \A t \in Trees : l[t] \in Seq(Of(t)),
           NoTwice(l), Apart(l, claims),
           \A t \in Trees : g[t] = granted[t] \/ (g[t] = NoItem /\ granted[t] \notin c),
           Pump(l, g, b, c)
    PROVE  \A t \in Trees : granted'[t] \notin {granted[t], NoItem} =>
             t \notin busy' /\ granted[t] \notin claims'
<1> SUFFICES ASSUME NEW t \in Trees, granted'[t] \notin {granted[t], NoItem}
             PROVE  t \notin busy' /\ granted[t] \notin claims'
  OBVIOUS
<1>1. Apart(l, c) BY DEF Apart
<1>2. Pumped(l, g, b, c, row, line', granted', busy', claims', row') BY DEF Pump
<1>3. /\ \A i \in claims' : i \in c \/ \E u \in Trees : \E n \in DOMAIN l[u] : l[u][n] = i
      /\ \A u \in Trees : granted'[u] # g[u] => u \notin busy' /\ g[u] = NoItem
  BY <1>1, <1>2, PumpedOrder
<1>4. t \notin busy' /\ g[t] = NoItem BY <1>3
<1>5. CASE granted[t] = NoItem
  <2>1. claims' \subseteq Items BY DEF IInv, TypeOK
  <2> QED BY <1>4, <1>5, <2>1, NoItemOutside
<1>6. CASE granted[t] # NoItem
  <2>1. granted[t] \in claims BY <1>6 DEF IInv, NoOrphanGrant
  <2>2. granted[t] \notin c BY <1>4, <1>6
  <2>3. \A u \in Trees : \A n \in DOMAIN l[u] : l[u][n] # granted[t] BY <2>1 DEF Apart
  <2> QED BY <1>3, <1>4, <2>2, <2>3
<1> QED BY <1>5, <1>6

\* No step takes a tree from a run that has not given it back.
LEMMA NextGrants ==
    OInv /\ IInv' /\ [Next]_vars =>
      \A t \in Trees : granted'[t] \notin {granted[t], NoItem} =>
        t \notin busy' /\ granted[t] \notin claims'
<1> SUFFICES ASSUME OInv, IInv', [Next]_vars
             PROVE  \A t \in Trees : granted'[t] \notin {granted[t], NoItem} =>
                      t \notin busy' /\ granted[t] \notin claims'
  OBVIOUS
<1> DEFINE Goal == \A t \in Trees : granted'[t] \notin {granted[t], NoItem} =>
                      t \notin busy' /\ granted[t] \notin claims'
<1> USE DEF server, memory, disk
<1>0. /\ IInv /\ NoTwice(line) /\ Apart(line, claims)
      /\ line \in [Trees -> Seq(Items)] /\ \A t \in Trees : line[t] \in Seq(Of(t))
      /\ busy \in SUBSET Trees /\ claims \in SUBSET claims
      /\ granted \in [Trees -> Items \cup {NoItem}]
      /\ claims' \subseteq Items
  BY DEF OInv, IInv, TypeOK, OwnLine, OnePlace
<1>1. ASSUME NEW i \in Items, TryAcquire(i) PROVE Goal
  <2>1. /\ ~Held(TreeOf[i]) /\ busy' = busy
        /\ granted' = [granted EXCEPT ![TreeOf[i]] = i]
    BY <1>1 DEF TryAcquire
  <2>2. ASSUME NEW t \in Trees, granted'[t] # granted[t] PROVE t = TreeOf[i]
    BY <1>0, <2>1, <2>2
  <2> QED BY <1>0, <2>1, <2>2, NoItemOutside DEF Held
<1>2. ASSUME granted' = granted PROVE Goal BY <1>2
<1>3. ASSUME NEW i \in Items,
             Enqueue(i) \/ Refuse(i) \/ Drop(i) \/ MoveToFront(i) \/ LoseRow(i)
      PROVE  Goal
  BY <1>2, <1>3 DEF Enqueue, Refuse, Drop, MoveToFront, LoseRow
<1>4. ASSUME NEW t \in Trees, TurnEndsQuietly(t) \/ OutsideTurn(t) PROVE Goal
  BY <1>2, <1>4 DEF TurnEndsQuietly, OutsideTurn
<1>5. \A i \in Items, t \in Trees :
        \/ GiveBack(granted, i)[t] = granted[t]
        \/ GiveBack(granted, i)[t] = NoItem /\ granted[t] = i
  BY <1>0, TreeOfType DEF GiveBack
<1>6. ASSUME NEW i \in Items, Started(i) \/ StartedElsewhere(i) PROVE Goal
  <2>1. granted' = GiveBack(granted, i) BY <1>6 DEF Started, StartedElsewhere
  <2> QED BY <1>5, <2>1
<1>7. ASSUME NEW i \in Items, Release(i) PROVE Goal
  <2> DEFINE g == GiveBack(granted, i)
  <2>1. Pump(line, g, busy, claims \ {i}) BY <1>7 DEF Release
  <2>2. claims \ {i} \in SUBSET claims OBVIOUS
  <2>3. \A t \in Trees : g[t] = granted[t] \/ (g[t] = NoItem /\ granted[t] \notin claims \ {i})
    BY <1>5
  <2> HIDE DEF g
  <2> QED BY <1>0, <2>1, <2>2, <2>3, PumpGrantsFree
<1>8. ASSUME NEW t \in Trees, TurnEnds(t) PROVE Goal
  <2>1. Pump(line, granted, busy \ {t}, claims) BY <1>8 DEF TurnEnds
  <2>2. busy \ {t} \in SUBSET Trees BY <1>0
  <2> QED BY <1>0, <2>1, <2>2, PumpGrantsFree
<1>9. ASSUME Sweep PROVE Goal
  <2>1. Pump(line, granted, busy, claims) BY <1>9 DEF Sweep
  <2> QED BY <1>0, <2>1, PumpGrantsFree
<1>10. ASSUME GoDown PROVE Goal BY <1>10 DEF GoDown, NoGrant
<1>11. ASSUME Boot PROVE Goal
  <2>1. granted = NoGrant BY <1>0, <1>11 DEF Boot, IInv, DownIsEmpty
  <2>2. \A t \in Trees : granted[t] \notin claims' BY <1>0, <2>1, NoItemOutside DEF NoGrant
  <2>3. PICK l \in [Trees -> UNION {SetToSeqs(R) : R \in SUBSET {i \in Items : row[i] # NoRow}}] :
          /\ \A t \in Trees : ToSet(l[t]) = {i \in Items : row[i] # NoRow /\ TreeOf[i] = t}
          /\ Pump(l, granted, busy, claims)
    BY <1>11 DEF Boot
  <2>4. /\ l \in [Trees -> Seq(Items)]
        /\ \A t \in Trees : l[t] \in Seq(Of(t))
        /\ NoTwice(l)
    BY <1>0, <2>3, BootLines DEF OInv
  <2>5. Apart(l, claims) BY <1>0, <1>11 DEF Boot, IInv, DownIsEmpty, Apart
  <2> QED BY <1>0, <2>3, <2>4, <2>5, PumpGrantsFree
<1>12. CASE UNCHANGED vars BY <1>2, <1>12 DEF vars
<1> QED BY <1>1, <1>3, <1>4, <1>6, <1>7, <1>8, <1>9, <1>10, <1>11, <1>12
        DEF Next, ItemStep, Cancel, Forget

\* No step grants a waiter while an earlier one of its line goes on waiting.
LEMMA NextServes ==
    OInv /\ [Next]_vars =>
      \A t \in Trees : \A m, n \in DOMAIN line[t] :
        m < n /\ line[t][m] \in ToSet(line'[t]) => line[t][n] \notin claims'
<1> SUFFICES ASSUME OInv, [Next]_vars
             PROVE  \A t \in Trees : \A m, n \in DOMAIN line[t] :
                      m < n /\ line[t][m] \in ToSet(line'[t]) => line[t][n] \notin claims'
  OBVIOUS
<1> DEFINE Goal == \A t \in Trees : \A m, n \in DOMAIN line[t] :
                      m < n /\ line[t][m] \in ToSet(line'[t]) => line[t][n] \notin claims'
<1> USE DEF server, memory, disk
<1>0. /\ IInv /\ NoTwice(line) /\ Apart(line, claims) /\ Apart(line, Items \ submitted)
      /\ line \in [Trees -> Seq(Items)] /\ \A t \in Trees : line[t] \in Seq(Of(t))
      /\ busy \subseteq Trees
  BY DEF OInv, IInv, TypeOK, OwnLine, OnePlace, KnownIsSubmitted
<1>1. ASSUME claims' \subseteq claims PROVE Goal BY <1>0, <1>1 DEF Apart
<1>2. ASSUME NEW i \in Items, TryAcquire(i) PROVE Goal
  <2>1. claims' = claims \cup {i} /\ i \notin submitted BY <1>2 DEF TryAcquire, Submit
  <2> QED BY <1>0, <2>1 DEF Apart
<1>3. ASSUME NEW i \in Items,
             \/ Enqueue(i) \/ Refuse(i) \/ Started(i) \/ StartedElsewhere(i)
             \/ Drop(i) \/ MoveToFront(i) \/ LoseRow(i)
      PROVE  Goal
  <2>1. claims' \subseteq claims
    BY <1>3 DEF Enqueue, Refuse, Started, StartedElsewhere, Drop, MoveToFront, LoseRow
  <2> QED BY <1>1, <2>1
<1>4. ASSUME NEW t \in Trees, TurnEndsQuietly(t) \/ OutsideTurn(t) PROVE Goal
  BY <1>1, <1>4 DEF TurnEndsQuietly, OutsideTurn
<1>5. ASSUME NEW g, NEW b \in SUBSET Trees, NEW c \in SUBSET claims, Pump(line, g, b, c)
      PROVE  Goal
  <2>1. Pumped(line, g, b, c, row, line', granted', busy', claims', row') BY <1>5 DEF Pump
  <2>2. Apart(line, c) BY <1>0 DEF Apart
  <2> QED BY <1>0, <2>1, <2>2, PumpedOrder
<1>6. ASSUME NEW i \in Items, Release(i) PROVE Goal
  <2>1. Pump(line, GiveBack(granted, i), busy, claims \ {i}) BY <1>6 DEF Release
  <2> QED BY <1>0, <1>5, <2>1
<1>7. ASSUME NEW t \in Trees, TurnEnds(t) PROVE Goal
  <2>1. Pump(line, granted, busy \ {t}, claims) BY <1>7 DEF TurnEnds
  <2>2. busy \ {t} \in SUBSET Trees BY <1>0
  <2> QED BY <1>5, <2>1, <2>2
<1>8. ASSUME Sweep PROVE Goal
  <2>1. Pump(line, granted, busy, claims) BY <1>8 DEF Sweep
  <2> QED BY <1>0, <1>5, <2>1
<1>9. ASSUME GoDown PROVE Goal BY <1>1, <1>9 DEF GoDown
<1>10. ASSUME Boot PROVE Goal
  <2>1. line = EmptyLine BY <1>0, <1>10 DEF Boot, IInv, DownIsEmpty
  <2> QED BY <2>1 DEF EmptyLine
<1>11. CASE UNCHANGED vars BY <1>1, <1>11 DEF vars
<1> QED BY <1>2, <1>3, <1>4, <1>6, <1>7, <1>8, <1>9, <1>10, <1>11
        DEF Next, ItemStep, Cancel, Forget

-----------------------------------------------------------------------------
(* Line and disk.                                                           *)

\* DiskAgreesWithLine of lines l, stamps st and rows r.
Agree(l, st, r) ==
    /\ \A i \in Items : r[i] # NoRow => i \in ToSet(l[TreeOf[i]]) /\ r[i] = st[i]
    /\ \A t \in Trees : Ascending(l[t], st)

\* A pump takes rows with the items it takes, and leaves the rest in order.
LEMMA PumpedAgrees ==
    ASSUME NEW l, NEW g, NEW b, NEW c, NEW r, NEW l2, NEW g2, NEW b2, NEW c2, NEW r2, NEW st,
           l \in [Trees -> Seq(Items)],
           b \subseteq Trees,
           Pumped(l, g, b, c, r, l2, g2, b2, c2, r2),
           Agree(l, st, r)
    PROVE  Agree(l2, st, r2)
<1>1. PICK k \in [Trees -> Nat], holds \in SUBSET Trees :
        Took(k, holds, l, g, c, r, l2, g2, b2, c2, r2)
  BY PumpedTakes, Zenon
<1>2. ASSUME NEW t \in Trees
      PROVE  /\ DOMAIN l[t] = 1..Len(l[t]) /\ Len(l[t]) \in Nat /\ k[t] \in Nat /\ k[t] <= Len(l[t])
             /\ DOMAIN l2[t] = 1..(Len(l[t]) - k[t])
             /\ \A n \in 1..(Len(l[t]) - k[t]) :
                  k[t] + n \in 1..Len(l[t]) /\ l2[t][n] = l[t][k[t] + n]
  <2>1. l[t] \in Seq(Items) /\ Len(l[t]) \in Nat /\ k[t] \in Nat /\ k[t] <= Len(l[t])
    BY <1>1 DEF Took
  <2>2. l2[t] = SubSeq(l[t], k[t] + 1, Len(l[t])) BY <1>1 DEF Took
  <2> QED BY <2>1, <2>2, TailAfter
<1>3. ASSUME NEW i \in Items, r2[i] # NoRow
      PROVE  i \in ToSet(l2[TreeOf[i]]) /\ r2[i] = st[i]
  <2> DEFINE t == TreeOf[i]
  <2>1. t \in Trees BY TreeOfType
  <2>2. r2[i] = r[i] /\ \A n \in 1..k[t] : l[t][n] # i BY <1>1, <1>3, <2>1 DEF Took
  <2>3. i \in ToSet(l[t]) /\ r[i] = st[i] BY <1>3, <2>2 DEF Agree
  <2>4. PICK n \in 1..Len(l[t]) : l[t][n] = i BY <1>2, <2>1, <2>3 DEF ToSet
  <2> HIDE DEF t
  <2>5. n - k[t] \in 1..(Len(l[t]) - k[t]) /\ k[t] + (n - k[t]) = n
    BY <1>2, <2>1, <2>2, <2>4
  <2>6. l2[t][n - k[t]] = i BY <1>2, <2>1, <2>4, <2>5
  <2> QED BY <1>2, <2>1, <2>2, <2>3, <2>5, <2>6 DEF ToSet, t
<1>4. ASSUME NEW t \in Trees PROVE Ascending(l2[t], st)
  <2> SUFFICES ASSUME NEW m \in DOMAIN l2[t], NEW n \in DOMAIN l2[t], m < n
               PROVE  st[l2[t][m]] < st[l2[t][n]]
    BY DEF Ascending
  <2>1. k[t] + m \in DOMAIN l[t] /\ k[t] + n \in DOMAIN l[t] /\ k[t] + m < k[t] + n
    BY <1>2
  <2>2. st[l[t][k[t] + m]] < st[l[t][k[t] + n]] BY <2>1 DEF Agree, Ascending
  <2> QED BY <1>2, <2>2
<1> QED BY <1>3, <1>4 DEF Agree

\* A step that ends in a pump over lines, stamps and rows that agree.
LEMMA PumpKeepsAgreement ==
    ASSUME NEW l, NEW g, NEW b, NEW c,
           l \in [Trees -> Seq(Items)], b \subseteq Trees,
           Pump(l, g, b, c), Agree(l, stamp', row)
    PROVE  DiskAgreesWithLine'
<1>1. Pumped(l, g, b, c, row, line', granted', busy', claims', row') BY DEF Pump
<1>2. Agree(line', stamp', row') BY <1>1, PumpedAgrees
<1> QED BY <1>2 DEF Agree, DiskAgreesWithLine, Ascending

\* An arrangement of a set of items leaves none of them out.
LEMMA ArrangementHolds ==
    ASSUME NEW S \in SUBSET Items, NEW s \in SetToSeqs(S)
    PROVE  S \subseteq ToSet(s)
<1>1. IsFiniteSet(S) /\ Cardinality(S) \in Nat BY FS_Subset, FS_CardinalityType, ItemsFinite
<1> DEFINE D == 1..Cardinality(S)
<1>2. s \in [D -> S] /\ \A m, n \in D : m # n => s[m] # s[n] BY DEF SetToSeqs
<1>3. Cardinality(D) = Cardinality(S) BY <1>1, FS_Interval
<1> HIDE DEF D
<1>4. s \in Injection(D, S) BY <1>2 DEF Injection, IsInjective
<1>5. s \in Surjection(D, S) BY <1>1, <1>3, <1>4, FS_Injection
<1>6. \A i \in S : \E n \in DOMAIN s : s[n] = i BY <1>2, <1>5 DEF Surjection
<1> QED BY <1>6 DEF ToSet

\* An edit of one line that moves, adds or removes only i, and its row and stamp.
LEMMA EditAgrees ==
    ASSUME NEW l \in [Trees -> Seq(Items)], NEW st, NEW r, NEW st2, NEW r2, NEW s,
           NEW i \in Items,
           \A t \in Trees : l[t] \in Seq(Of(t)),
           Agree(l, st, r),
           \A j \in Items \ {i} : st2[j] = st[j] /\ r2[j] = r[j],
           r2[i] # NoRow => i \in ToSet(s) /\ r2[i] = st2[i],
           ToSet(l[TreeOf[i]]) \ {i} \subseteq ToSet(s),
           Ascending(s, st2)
    PROVE  Agree([l EXCEPT ![TreeOf[i]] = s], st2, r2)
<1> DEFINE l2 == [l EXCEPT ![TreeOf[i]] = s]
<1>1. TreeOf[i] \in Trees /\ \A u \in Trees : l2[u] = IF u = TreeOf[i] THEN s ELSE l[u]
  BY TreeOfType
<1> HIDE DEF l2
<1>2. ASSUME NEW j \in Items, r2[j] # NoRow PROVE j \in ToSet(l2[TreeOf[j]]) /\ r2[j] = st2[j]
  <2>1. TreeOf[j] \in Trees BY TreeOfType
  <2>2. CASE j = i BY <1>1, <1>2, <2>2
  <2>3. CASE j # i
    <3>1. j \in ToSet(l[TreeOf[j]]) /\ r2[j] = st2[j] BY <1>2, <2>3 DEF Agree
    <3> QED BY <1>1, <2>1, <2>3, <3>1
  <2> QED BY <2>2, <2>3
<1>3. ASSUME NEW t \in Trees PROVE Ascending(l2[t], st2)
  <2>1. CASE t = TreeOf[i] BY <1>1, <2>1
  <2>2. CASE t # TreeOf[i]
    <3>1. l2[t] = l[t] BY <1>1, <2>2
    <3>2. l[t] \in Seq(Of(t)) OBVIOUS
    <3>3. \A n \in DOMAIN l[t] : l[t][n] \in Items \ {i} BY <2>2, <3>2 DEF Of
    <3>4. \A n \in DOMAIN l[t] : st2[l[t][n]] = st[l[t][n]] BY <3>3
    <3> QED BY <3>1, <3>4 DEF Agree, Ascending
  <2> QED BY <2>1, <2>2
<1> QED BY <1>2, <1>3 DEF Agree, l2

\* Taking an item out leaves the order of the others.
LEMMA DroppedAscends ==
    ASSUME NEW s \in Seq(Items), NEW k \in DOMAIN s, NEW st, Ascending(s, st)
    PROVE  /\ Ascending(RemoveAt(s, k), st)
           /\ ToSet(s) \ {s[k]} \subseteq ToSet(RemoveAt(s, k))
<1> DEFINE r == RemoveAt(s, k)
<1>0. DOMAIN s = 1..Len(s) /\ k \in Nat /\ Len(s) \in Nat OBVIOUS
<1>1. /\ DOMAIN r = 1..(Len(s) - 1)
      /\ \A n \in DOMAIN r :
           Before(k, n) \in DOMAIN s /\ Before(k, n) # k /\ r[n] = s[Before(k, n)]
  BY RemoveAtKeeps
<1>6. \A m \in DOMAIN s : m # k => \E n \in DOMAIN r : Before(k, n) = m
  <2> HIDE DEF Before
  <2> QED BY RemoveAtKeeps
<1> HIDE DEF r
<1>2. \A m, n \in DOMAIN r : m < n => Before(k, m) < Before(k, n) BY <1>0, <1>1 DEF Before
<1>3. Ascending(r, st)
  <2> SUFFICES ASSUME NEW m \in DOMAIN r, NEW n \in DOMAIN r, m < n
               PROVE  st[r[m]] < st[r[n]]
    BY DEF Ascending
  <2>1. st[s[Before(k, m)]] < st[s[Before(k, n)]] BY <1>1, <1>2 DEF Ascending
  <2> QED BY <1>1, <2>1
<1>4. ASSUME NEW m \in DOMAIN s, s[m] # s[k] PROVE \E n \in DOMAIN r : r[n] = s[m]
  BY <1>1, <1>4, <1>6
<1>5. ToSet(s) \ {s[k]} \subseteq ToSet(r) BY <1>4 DEF ToSet
<1> QED BY <1>3, <1>5 DEF r

\* Moving an item to the front, under a stamp below the head's, keeps the order.
LEMMA MovedAscends ==
    ASSUME NEW s \in Seq(Items), NEW k \in DOMAIN s, NEW st \in [Items -> Int], NEW v \in Int,
           IsInjective(s), Ascending(s, st),
           LET rest == RemoveAt(s, k)
           IN  v = IF rest = <<>> THEN st[s[k]] ELSE st[Head(rest)] - 1
    PROVE  LET q == <<s[k]>> \o RemoveAt(s, k)
           IN  Ascending(q, [st EXCEPT ![s[k]] = v]) /\ ToSet(s) \subseteq ToSet(q)
<1> DEFINE r == RemoveAt(s, k)
           q == <<s[k]>> \o r
           i == s[k]
           st2 == [st EXCEPT ![i] = v]
<1>1. /\ i \in Items
      /\ r \in Seq(Items) /\ DOMAIN r = 1..Len(r) /\ Len(r) \in Nat
      /\ Ascending(r, st) /\ ToSet(s) \ {i} \subseteq ToSet(r)
      /\ \A n \in DOMAIN r : r[n] \in Items /\ r[n] # i
  <2>1. i \in Items OBVIOUS
  <2>2. r \in Seq(Items) BY RemoveAtType
  <2>3. Ascending(r, st) /\ ToSet(s) \ {i} \subseteq ToSet(r) BY DroppedAscends
  <2>4. \A n \in DOMAIN r : r[n] # i
    <3>1. \A n \in DOMAIN r : \E m \in DOMAIN s : m # k /\ r[n] = s[m] BY RemoveAtOrder
    <3> QED BY <3>1 DEF IsInjective
  <2> HIDE DEF r
  <2> QED BY <2>1, <2>2, <2>3, <2>4
<1>2. r # <<>> => v = st[r[1]] - 1 BY <1>1
<1> HIDE DEF r
<1>3. /\ DOMAIN q = 1..(Len(r) + 1)
      /\ \A n \in 1..(Len(r) + 1) : q[n] = IF n <= 1 THEN i ELSE r[n - 1]
  BY <1>1, InFront
<1> HIDE DEF q, i
<1>4. q[1] = i /\ 1 \in DOMAIN q BY <1>1, <1>3
<1>5. ASSUME NEW n \in DOMAIN q, n # 1
      PROVE  n - 1 \in DOMAIN r /\ q[n] = r[n - 1] /\ n - 1 >= 1
  BY <1>1, <1>3, <1>5
<1>6. \A n \in DOMAIN r : st2[r[n]] = st[r[n]] BY <1>1
<1>7. st2[i] = v BY <1>1
<1> HIDE DEF st2
<1>8. ASSUME NEW m \in DOMAIN q, NEW n \in DOMAIN q, m < n PROVE st2[q[m]] < st2[q[n]]
  <2>1. n \in Nat /\ m \in Nat /\ m >= 1 /\ n # 1 /\ n > m BY SMTT(40), <1>1, <1>3, <1>8
  <2>2. n - 1 \in DOMAIN r /\ q[n] = r[n - 1] /\ r # <<>> BY <1>1, <1>5, <2>1
  <2>3. st2[q[n]] = st[r[n - 1]] /\ st[r[n - 1]] \in Int BY <1>1, <1>6, <2>2
  <2>4. CASE m = 1
    <3>1. 1 \in DOMAIN r /\ st[r[1]] \in Int /\ v = st[r[1]] - 1 BY <1>1, <1>2, <2>2
    <3>2. n - 1 = 1 \/ 1 < n - 1 BY <2>1
    <3>3. CASE n - 1 = 1
      <4>1. st[r[n - 1]] = st[r[1]] BY <3>3
      <4> QED BY <1>4, <1>7, <2>3, <2>4, <3>1, <4>1
    <3>4. CASE 1 < n - 1
      <4>1. st[r[1]] < st[r[n - 1]] BY <1>1, <2>2, <3>1, <3>4 DEF Ascending
      <4> QED BY <1>4, <1>7, <2>3, <2>4, <3>1, <4>1
    <3> QED BY <3>2, <3>3, <3>4
  <2>5. CASE m # 1
    <3>1. m - 1 \in DOMAIN r /\ q[m] = r[m - 1] BY <1>5, <2>5
    <3>2. m - 1 < n - 1 BY <1>8, <2>1
    <3>3. st[r[m - 1]] < st[r[n - 1]] BY <1>1, <2>2, <3>1, <3>2 DEF Ascending
    <3> QED BY <1>6, <2>3, <3>1, <3>3
  <2> QED BY <2>4, <2>5
<1>9. Ascending(q, st2) BY <1>8 DEF Ascending
<1>10. ToSet(s) \subseteq ToSet(q)
  <2> SUFFICES ASSUME NEW j \in ToSet(s) PROVE j \in ToSet(q) OBVIOUS
  <2>1. CASE j = i BY <1>4, <2>1 DEF ToSet
  <2>2. CASE j # i
    <3>1. PICK n \in DOMAIN r : r[n] = j
      <4>1. j \in ToSet(r) BY <1>1, <2>2
      <4> QED BY <4>1 DEF ToSet
    <3>2. n + 1 \in DOMAIN q /\ q[n + 1] = r[n]
      <4>1. n \in Nat /\ n >= 1 /\ n <= Len(r) BY <1>1, <3>1
      <4>2. n + 1 \in 1..(Len(r) + 1) /\ ~(n + 1 <= 1) /\ (n + 1) - 1 = n BY SMTT(40), <1>1, <4>1
      <4> QED BY <1>3, <4>2
    <3> QED BY <3>1, <3>2 DEF ToSet
  <2> QED BY <2>1, <2>2
<1> QED BY <1>9, <1>10 DEF q, r, st2, i

\* Every step keeps line and disk in agreement.
LEMMA NextAgrees == OInv /\ DiskAgreesWithLine /\ [Next]_vars => DiskAgreesWithLine'
<1> SUFFICES ASSUME OInv, DiskAgreesWithLine, [Next]_vars PROVE DiskAgreesWithLine'
  OBVIOUS
<1> USE DEF server, memory, disk
<1>0. /\ IInv /\ KnownIsSubmitted /\ NoTwice(line) /\ Apart(line, Items \ submitted)
      /\ line \in [Trees -> Seq(Items)] /\ \A t \in Trees : line[t] \in Seq(Of(t))
      /\ stamp \in [Items -> Int] /\ row \in [Items -> Int \cup {NoRow}]
      /\ busy \subseteq Trees /\ clock \in Nat
      /\ up => Agree(line, stamp, row)
  BY DEF OInv, IInv, TypeOK, OwnLine, OnePlace, KnownIsSubmitted, DiskAgreesWithLine, Agree
<1>1. ASSUME Agree(line', stamp', row') PROVE DiskAgreesWithLine'
  BY <1>1 DEF Agree, DiskAgreesWithLine, Ascending
<1>2. ASSUME up, line' = line, stamp' = stamp,
             \A i \in Items : row'[i] # NoRow => row'[i] = row[i]
      PROVE  DiskAgreesWithLine'
  BY <1>0, <1>1, <1>2 DEF Agree, Ascending
<1>3. ASSUME NEW i \in Items, TryAcquire(i) \/ Refuse(i) \/ Started(i) \/ StartedElsewhere(i)
      PROVE  DiskAgreesWithLine'
  BY <1>2, <1>3 DEF TryAcquire, Refuse, Submit, Started, StartedElsewhere
<1>4. ASSUME NEW t \in Trees, TurnEndsQuietly(t) \/ OutsideTurn(t) PROVE DiskAgreesWithLine'
  BY <1>2, <1>4 DEF TurnEndsQuietly, OutsideTurn
<1>5. ASSUME NEW i \in Items, LoseRow(i) PROVE DiskAgreesWithLine'
  BY <1>0, <1>2, <1>5 DEF LoseRow
<1>6. ASSUME NEW i \in Items, NEW s, line' = [line EXCEPT ![TreeOf[i]] = s], up,
             \A j \in Items \ {i} : stamp'[j] = stamp[j] /\ row'[j] = row[j],
             row'[i] # NoRow => i \in ToSet(s) /\ row'[i] = stamp'[i],
             ToSet(line[TreeOf[i]]) \ {i} \subseteq ToSet(s),
             Ascending(s, stamp')
      PROVE  DiskAgreesWithLine'
  BY <1>0, <1>1, <1>6, EditAgrees
<1>7. ASSUME NEW i \in Items, Enqueue(i) PROVE DiskAgreesWithLine'
  <2> DEFINE t == TreeOf[i]
  <2>1. /\ up /\ stamp' = [stamp EXCEPT ![i] = clock'] /\ row' = [row EXCEPT ![i] = clock']
    BY <1>7 DEF Enqueue, Submit
  <2>2. PICK s \in SetToSeqs(ToSet(line[t]) \cup {i}) :
          Ascending(s, stamp') /\ line' = [line EXCEPT ![t] = s]
    BY <1>7 DEF Enqueue
  <2>3. ToSet(line[t]) \cup {i} \in SUBSET Items BY <1>0, TreeOfType DEF ToSet
  <2>4. ToSet(line[t]) \cup {i} \subseteq ToSet(s) BY <2>3, ArrangementHolds
  <2>5. /\ \A j \in Items \ {i} : stamp'[j] = stamp[j] /\ row'[j] = row[j]
        /\ row'[i] = stamp'[i]
    BY <1>0, <2>1
  <2> QED BY <1>6, <2>1, <2>2, <2>4, <2>5
<1>8. ASSUME NEW i \in Items, Drop(i) PROVE DiskAgreesWithLine'
  <2> DEFINE t == TreeOf[i]
  <2>1. line[t] \in Seq(Items) /\ Ascending(line[t], stamp)
    BY <1>0, <1>8, TreeOfType DEF Agree, Drop
  <2>2. PICK k \in DOMAIN line[t] :
          line[t][k] = i /\ line' = [line EXCEPT ![t] = RemoveAt(line[t], k)]
    BY <1>8 DEF Drop
  <2>3. /\ up /\ stamp' = stamp
        /\ \A j \in Items \ {i} : row'[j] = row[j]
        /\ row'[i] = NoRow
    BY <1>0, <1>8 DEF Drop
  <2>4. /\ Ascending(RemoveAt(line[t], k), stamp)
        /\ ToSet(line[t]) \ {i} \subseteq ToSet(RemoveAt(line[t], k))
    BY <2>1, <2>2, DroppedAscends
  <2> QED BY <1>6, <2>2, <2>3, <2>4
<1>9. ASSUME NEW i \in Items, MoveToFront(i) PROVE DiskAgreesWithLine'
  <2> DEFINE t == TreeOf[i]
             rest(k) == RemoveAt(line[t], k)
             v(k) == IF rest(k) = <<>> THEN stamp[i] ELSE stamp[Head(rest(k))] - 1
  <2>1. up /\ t \in Trees /\ line[t] \in Seq(Items) /\ IsInjective(line[t])
        /\ Ascending(line[t], stamp)
    BY <1>0, <1>9, TreeOfType DEF MoveToFront, Agree, NoTwice
  <2>2. PICK k \in DOMAIN line[t] :
          /\ line[t][k] = i
          /\ line' = [line EXCEPT ![t] = <<i>> \o rest(k)]
          /\ stamp' = [stamp EXCEPT ![i] = v(k)]
          /\ row' = [row EXCEPT ![i] = IF @ = NoRow THEN NoRow ELSE v(k)]
    BY <1>9 DEF MoveToFront
  <2>3. v(k) \in Int
    <3>1. rest(k) \in Seq(Items) BY <2>1, RemoveAtType
    <3>2. rest(k) # <<>> => Head(rest(k)) \in Items BY <3>1
    <3> QED BY <1>0, <3>2
  <2>4. Ascending(<<i>> \o rest(k), stamp') /\ ToSet(line[t]) \subseteq ToSet(<<i>> \o rest(k))
    BY <1>0, <2>1, <2>2, <2>3, MovedAscends
  <2>5. i \in ToSet(line[t]) BY <2>2 DEF ToSet
  <2>6. /\ \A j \in Items \ {i} : stamp'[j] = stamp[j] /\ row'[j] = row[j]
        /\ row'[i] # NoRow => row'[i] = stamp'[i]
    BY <1>0, <2>2
  <2> HIDE DEF v, rest
  <2> QED BY <1>6, <2>1, <2>2, <2>4, <2>5, <2>6
<1>10. ASSUME NEW g, NEW b \in SUBSET Trees, NEW c, Pump(line, g, b, c), stamp' = stamp, up
       PROVE  DiskAgreesWithLine'
  BY <1>0, <1>10, PumpKeepsAgreement
<1>11. ASSUME NEW i \in Items, Release(i) PROVE DiskAgreesWithLine'
  BY <1>0, <1>10, <1>11 DEF Release
<1>12. ASSUME NEW t \in Trees, TurnEnds(t) PROVE DiskAgreesWithLine'
  <2>1. busy \ {t} \in SUBSET Trees BY <1>0
  <2> QED BY <1>10, <1>12, <2>1 DEF TurnEnds
<1>13. ASSUME Sweep PROVE DiskAgreesWithLine'
  BY <1>0, <1>10, <1>13 DEF Sweep
<1>14. ASSUME GoDown PROVE DiskAgreesWithLine' BY <1>14 DEF GoDown, DiskAgreesWithLine
<1>15. ASSUME Boot PROVE DiskAgreesWithLine'
  <2>1. PICK l \in [Trees -> UNION {SetToSeqs(R) : R \in SUBSET {i \in Items : row[i] # NoRow}}] :
          /\ \A t \in Trees : ToSet(l[t]) = {i \in Items : row[i] # NoRow /\ TreeOf[i] = t}
          /\ \A t \in Trees : Ascending(l[t], row)
          /\ Pump(l, granted, busy, claims)
    BY <1>15 DEF Boot
  <2>2. stamp' = [i \in Items |-> IF row[i] = NoRow THEN stamp[i] ELSE row[i]]
    BY <1>15 DEF Boot
  <2>3. l \in [Trees -> Seq(Items)] BY <1>0, <2>1, BootLines
  <2>4. ASSUME NEW i \in Items, row[i] # NoRow
        PROVE  i \in ToSet(l[TreeOf[i]]) /\ row[i] = stamp'[i]
    BY <2>1, <2>2, <2>4, TreeOfType
  <2>5. ASSUME NEW t \in Trees PROVE Ascending(l[t], stamp')
    <3>1. \A n \in DOMAIN l[t] : l[t][n] \in Items /\ row[l[t][n]] # NoRow
      BY <2>1 DEF ToSet
    <3>2. \A n \in DOMAIN l[t] : stamp'[l[t][n]] = row[l[t][n]] BY <2>2, <3>1
    <3> QED BY <2>1, <3>2 DEF Ascending
  <2>6. Agree(l, stamp', row) BY <2>4, <2>5 DEF Agree
  <2> QED BY <1>0, <2>1, <2>3, <2>6, PumpKeepsAgreement
<1>16. CASE UNCHANGED vars
  BY <1>0, <1>16 DEF vars, DiskAgreesWithLine, Ascending, Agree
<1> QED BY <1>3, <1>4, <1>5, <1>7, <1>8, <1>9, <1>11, <1>12, <1>13, <1>14, <1>15, <1>16
        DEF Next, ItemStep, Cancel, Forget

-----------------------------------------------------------------------------
(* The theorems.                                                            *)

\* An item waits once or holds its tree, never both, in every reachable state.
THEOREM OrderInvariant == Spec => []OInv
<1>1. Init => OInv BY InitInv, InitOrder DEF OInv
<1>2. OInv /\ [Next]_vars => OInv' BY NextInv, NextOrder DEF OInv
<1> QED BY <1>1, <1>2, PTL DEF Spec

\* A waiter whose row is on disk is in its line under that row's stamp, and the
\* line is in the stamps' order, so a restart adopts the order people last saw:
\* whatever was enqueued, moved to the front, cancelled, lost or granted before.
THEOREM DiskAgrees == Spec => []DiskAgreesWithLine
<1>1. Init => DiskAgreesWithLine
  BY DEF Init, DiskAgreesWithLine, EmptyLine, Ascending
<1>2. OInv /\ DiskAgreesWithLine /\ [Next]_vars => DiskAgreesWithLine' BY NextAgrees
<1> QED BY <1>1, <1>2, OrderInvariant, PTL DEF Spec

\* A tree passes to another run only in a step where the run holding it gave it
\* back or the server went down, and only if no session is mid-turn there: a
\* grant has no timeout (queue.ts:27-31).
THEOREM GrantedWhenFree == Spec => GrantOnlyFree
<1>1. OInv /\ OInv' /\ [Next]_vars =>
        [\A t \in Trees : granted'[t] \notin {granted[t], NoItem} =>
           t \notin busy' /\ granted[t] \notin claims']_vars
  BY NextGrants DEF OInv
<1> QED BY <1>1, OrderInvariant, PTL DEF Spec, GrantOnlyFree

\* A waiter is granted only after everything ahead of it in its line has left
\* it: the pump shifts from the front (queue.ts pump), and a cancel or an
\* override from the middle grants nothing.
THEOREM ServedInOrder == Spec => FirstComeFirstServed
<1>1. OInv /\ [Next]_vars =>
        [\A t \in Trees : \A m, n \in DOMAIN line[t] :
           m < n /\ line[t][m] \in ToSet(line'[t]) => line[t][n] \notin claims']_vars
  BY NextServes
<1> QED BY <1>1, OrderInvariant, PTL DEF Spec, FirstComeFirstServed

\* A grant is neither early nor out of turn: what the queue promises whoever
\* waits in it.
THEOREM GrantedInTurn == Spec => GrantsInTurn
  BY GrantedWhenFree, ServedInOrder DEF GrantsInTurn
=============================================================================
