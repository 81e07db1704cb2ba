------------------------- MODULE DirectoryGateProofs -------------------------
(***************************************************************************)
(* One session at a time is mid-turn in a working tree, for any sessions,  *)
(* prompts, deliveries and caps.                                           *)
(***************************************************************************)
EXTENDS DirectoryGate, FiniteSetTheorems, SequenceTheorems, TLAPS

\* A delivery that is starting holds the grant; so at most one is.
OneStarting == starting \subseteq Deliveries /\ \A d \in starting : granted = d

\* A session mid-turn while a grant is out was put there beside it.
GrantIsAlone == granted # NoItem => busy \subseteq beside

GateInv == OneStarting /\ GrantIsAlone /\ OneBusySession

\* A pump on a tree that is OneStarting's and free, or held as it was, leaves
\* one session mid-turn more than there were, and then no grant.
LEMMA PumpGates ==
    ASSUME NEW l, NEW g, NEW c, NEW live, NEW b, NEW q, NEW f,
           Pump(l, g, c, live, b, q, f),
           c \subseteq Deliveries, \A d \in c : g = d
    PROVE  /\ starting' \subseteq Deliveries /\ \A d \in starting' : granted' = d
           /\ \/ busy' = b /\ granted' = g
              \/ busy' = {}
              \/ granted' = NoItem /\ \E s \in live : busy' = {s}
<1>1. CASE busy' = b /\ granted' = g /\ starting' = c
  BY <1>1
<1>2. CASE ~(busy' = b /\ granted' = g /\ starting' = c)
  <2>1. PICK k \in DOMAIN l :
          /\ ~Held(g, b)
          /\ \/ /\ l[k] \in Deliveries \cap saved
                /\ granted' = l[k] /\ starting' = c \cup {l[k]} /\ busy' = b
             \/ /\ granted' = NoItem /\ starting' = c
                /\ \E s \in live : busy' = b \cup {s}
             \/ /\ granted' = NoItem /\ starting' = c /\ busy' = b
    BY <1>2 DEF Pump, Freed
  <2>2. b = {} /\ g = NoItem BY <2>1 DEF Held
  <2>3. c = {} BY <2>2, ItemsApart DEF Items
  <2> QED BY <2>1, <2>2, <2>3
<1> QED BY <1>1, <1>2

\* A step that ends in a pump, after sessions may have ended their turns and a
\* start may have failed.
LEMMA PumpKeepsGate ==
    ASSUME GateInv, NEW l, NEW g \in {granted, NoItem}, NEW c \in SUBSET starting,
           NEW live, NEW b \in SUBSET busy, NEW q, NEW f,
           Pump(l, g, c, live, b, q, f), c # {} => g = granted,
           beside' = beside \/ beside' = beside \cap busy'
    PROVE  GateInv'
<1>1. c \subseteq Deliveries /\ \A d \in c : g = d BY DEF GateInv, OneStarting
<1>2. /\ starting' \subseteq Deliveries /\ \A d \in starting' : granted' = d
      /\ \/ busy' = b /\ granted' = g
         \/ busy' = {}
         \/ granted' = NoItem /\ \E s \in live : busy' = {s}
  BY <1>1, PumpGates
<1>3. OneStarting' BY <1>2 DEF OneStarting
<1>4. CASE busy' = b /\ granted' = g
  BY <1>3, <1>4 DEF GateInv, GrantIsAlone, OneBusySession
<1>5. CASE busy' = {}
  BY <1>3, <1>5 DEF GateInv, GrantIsAlone, OneBusySession
<1>6. CASE granted' = NoItem /\ \E s \in live : busy' = {s}
  BY <1>3, <1>6 DEF GateInv, GrantIsAlone, OneBusySession
<1> QED BY <1>2, <1>4, <1>5, <1>6

\* A session put to work beside whoever has the tree.
LEMMA BesideKeepsGate ==
    ASSUME GateInv, NEW s, PutBeside(s), UNCHANGED <<granted, starting>>
    PROVE  GateInv'
<1>1. busy' = busy \cup {s} BY DEF PutBeside, PutToWork
<1>2. OneStarting' BY DEF GateInv, OneStarting
<1>3. CASE Held(granted, busy \ {s})
  <2>1. beside' = beside \cup {s} BY <1>3 DEF PutBeside
  <2> QED BY <1>1, <1>2, <2>1 DEF GateInv, GrantIsAlone, OneBusySession
<1>4. CASE ~Held(granted, busy \ {s})
  <2>1. beside' = beside /\ busy \ {s} = {} /\ granted = NoItem
    BY <1>4 DEF PutBeside, Held
  <2> QED BY <1>1, <1>2, <2>1 DEF GateInv, GrantIsAlone, OneBusySession
<1> QED BY <1>3, <1>4

(* With no session mid-turn and nothing granted, a grant is alone.         *)
LEMMA GateInit == Init => GateInv
BY DEF Init, GateInv, OneStarting, GrantIsAlone, OneBusySession

(* Every step keeps a grant alone and with the delivery that is starting.  *)
LEMMA GateStep == GateInv /\ [Next]_vars => GateInv'
<1> SUFFICES ASSUME GateInv, [Next]_vars PROVE GateInv' OBVIOUS
<1> USE DEF queue, work, disk
<1>1. ASSUME NEW p \in Prompts, SendNow(p) PROVE GateInv'
  <2>1. /\ granted = NoItem /\ busy \subseteq {SessionOf[p]} /\ busy' = busy \cup {SessionOf[p]}
        /\ UNCHANGED <<granted, starting, beside>>
    BY <1>1 DEF SendNow, Blocked, PutToWork
  <2> QED BY <2>1 DEF GateInv, OneStarting, GrantIsAlone, OneBusySession
<1>2. ASSUME NEW p \in Prompts, SendPastFull(p) PROVE GateInv'
  BY <1>2, BesideKeepsGate DEF SendPastFull
<1>3. ASSUME NEW p \in Prompts, ForcePrompt(p) PROVE GateInv'
  <2>1. CASE SessionOf[p] \in Live BY <1>3, <2>1, BesideKeepsGate DEF ForcePrompt
  <2>2. CASE SessionOf[p] \notin Live
    <3>1. UNCHANGED <<busy, beside, granted, starting>> BY <1>3, <2>2 DEF ForcePrompt
    <3> QED BY <3>1 DEF GateInv, OneStarting, GrantIsAlone, OneBusySession
  <2> QED BY <2>1, <2>2
<1>4. ASSUME NEW s \in Sessions, OutsideTurn(s) PROVE GateInv'
  BY <1>4, BesideKeepsGate DEF OutsideTurn
<1>5. ASSUME NEW d \in Deliveries, Acquire(d) PROVE GateInv'
  <2>1. /\ granted = NoItem /\ busy = {} /\ granted' = d /\ starting' = starting \cup {d}
        /\ UNCHANGED <<busy, beside>>
    BY <1>5 DEF Acquire, Held
  <2>2. starting = {} BY <2>1, ItemsApart DEF GateInv, OneStarting, Items
  <2> QED BY <2>1, <2>2 DEF GateInv, OneStarting, GrantIsAlone, OneBusySession
<1>6. ASSUME NEW d \in Deliveries, NEW s \in Sessions, Started(d, s) PROVE GateInv'
  <2>1. /\ d \in starting /\ starting' = starting \ {d} /\ granted' = GrantAfter(d)
        /\ busy' = busy \cup {s} /\ UNCHANGED beside
    BY <1>6 DEF Started
  <2>2. granted = d /\ starting \subseteq {d} /\ d # NoItem
    BY <2>1, ItemsApart DEF GateInv, OneStarting, Items
  <2>3. granted' = NoItem /\ starting' = {} BY <2>1, <2>2 DEF GrantAfter
  <2>4. busy \subseteq beside BY <2>2 DEF GateInv, GrantIsAlone
  <2> QED BY <2>1, <2>3, <2>4 DEF GateInv, OneStarting, GrantIsAlone, OneBusySession
<1>7. ASSUME NEW d \in Deliveries, StartFails(d) PROVE GateInv'
  <2>1. d \in starting /\ UNCHANGED beside
        /\ Pump(line, GrantAfter(d), starting \ {d}, Live, busy, inbox, fate)
    BY <1>7 DEF StartFails
  <2>2. GrantAfter(d) \in {granted, NoItem} BY DEF GrantAfter
  <2>3. starting \ {d} = {} BY <2>1 DEF GateInv, OneStarting
  <2> QED BY <2>1, <2>2, <2>3, PumpKeepsGate
<1>8. ASSUME NEW s \in Sessions, TurnComplete(s) \/ End(s) PROVE GateInv'
  <2>1. beside' = beside \cap busy' BY <1>8 DEF TurnComplete, End
  <2>2. \E b \in SUBSET busy : \E live, q : Pump(line, granted, starting, live, b, q, fate)
    BY <1>8 DEF TurnComplete, End
  <2> QED BY <2>1, <2>2, PumpKeepsGate
<1>9. ASSUME Sweep PROVE GateInv'
  BY <1>9, PumpKeepsGate DEF Sweep
<1>10. ASSUME Boot PROVE GateInv'
  BY <1>10, PumpKeepsGate DEF Boot
<1>11. ASSUME NEW s \in Sessions, Quieten(s) PROVE GateInv'
  <2>1. busy' = busy \ {s} /\ beside' = beside \cap busy' /\ UNCHANGED <<granted, starting>>
    BY <1>11 DEF Quieten
  <2> QED BY <2>1 DEF GateInv, OneStarting, GrantIsAlone, OneBusySession
<1>12. ASSUME GoDown PROVE GateInv'
  BY <1>12 DEF GoDown, GateInv, OneStarting, GrantIsAlone, OneBusySession
<1>13. ASSUME UNCHANGED <<busy, beside, granted, starting>> PROVE GateInv'
  BY <1>13 DEF GateInv, OneStarting, GrantIsAlone, OneBusySession
<1>14. ASSUME NEW p \in Prompts, QueuePrompt(p) PROVE GateInv'
  BY <1>13, <1>14 DEF QueuePrompt
<1>15. ASSUME NEW d \in Deliveries, QueueDelivery(d) \/ Throttle(d) \/ ClearRow(d) PROVE GateInv'
  BY <1>13, <1>15 DEF QueueDelivery, Throttle, ClearRow
<1>16. ASSUME NEW i \in Items, Cancel(i) PROVE GateInv'
  BY <1>13, <1>16 DEF Cancel
<1>17. ASSUME NEW s \in Sessions, OpenChat(s) PROVE GateInv'
  BY <1>13, <1>17 DEF OpenChat
<1>18. CASE UNCHANGED vars BY <1>13, <1>18 DEF vars
<1> QED BY <1>1, <1>2, <1>3, <1>4, <1>5, <1>6, <1>7, <1>8, <1>9, <1>10, <1>11, <1>12,
           <1>14, <1>15, <1>16, <1>17, <1>18 DEF Next

\* Deliveries that start hold the tree's one grant, and whoever is mid-turn
\* while it is out was put beside it.
THEOREM GateInvariant == Spec => []GateInv
<1> QED BY GateInit, GateStep, PTL DEF Spec

\* Two sessions are mid-turn in one tree only where one of them was put beside
\* the other: a person's override, a full queue, or work that never asks
\* (isBlockedByOther, tryAcquire, started and the pump between them).
THEOREM OneAgentPerTree == Spec => []OneBusySession
<1>1. GateInv => OneBusySession BY DEF GateInv
<1> QED BY <1>1, GateInvariant, PTL

-----------------------------------------------------------------------------
(* What a pump does, and types.                                             *)

\* The pump has taken the first k waiters of l and their rows, and leaves the
\* tree to the last of them: a delivery that starts, the session s its prompt
\* or follow-up went to, or nobody, at the end of the line.
PumpTook(k, l, g, c, live, b, q, f) ==
    /\ late' = FALSE
    /\ line' = SubSeq(l, k + 1, Len(l))
    /\ saved' = saved \ {l[n] : n \in 1..k}
    /\ fate' = [p \in Prompts |->
                  IF p \notin {l[n] : n \in 1..k} THEN f[p]
                  ELSE IF SessionOf[p] \in live THEN "sent" ELSE "dropped"]
    /\ k > 0 => ~Held(g, b)
    /\ \/ /\ k = 0 /\ (Held(g, b) \/ l = <<>>)
          /\ granted' = g /\ starting' = c /\ busy' = b /\ inbox' = q
       \/ /\ k > 0 /\ l[k] \in Deliveries
          /\ granted' = l[k] /\ starting' = c \cup {l[k]} /\ busy' = b /\ inbox' = q
       \/ /\ k > 0 /\ granted' = NoItem /\ starting' = c
          /\ \E s \in live : busy' = b \cup {s} /\ inbox' = [q EXCEPT ![s] = @ + 1]
       \/ /\ k > 0 /\ k = Len(l)
          /\ granted' = NoItem /\ starting' = c /\ busy' = b /\ inbox' = q

Fates == {"none", "waiting", "sent", "cancelled", "dropped"}

\* Whatever the sessions are, a pump takes some prefix of the line.
LEMMA PumpTakes ==
    ASSUME NEW l \in Seq(Items), NEW g, NEW c, NEW live, NEW b, NEW q,
           NEW f \in [Prompts -> Fates],
           Pump(l, g, c, live, b, q, f)
    PROVE  \E k \in 0..Len(l) : PumpTook(k, l, g, c, live, b, q, f)
<1>1. CASE /\ Held(g, b) \/ l = <<>>
           /\ line' = l /\ granted' = g /\ starting' = c /\ busy' = b /\ inbox' = q
           /\ fate' = f
           /\ UNCHANGED saved
  <2>1. SubSeq(l, 1, Len(l)) = l /\ 0 \in 0..Len(l) /\ 1..0 = {} OBVIOUS
  <2>2. {l[n] : n \in 1..0} = {} BY <2>1
  <2>3. fate' = [p \in Prompts |->
                   IF p \notin {l[n] : n \in 1..0} THEN f[p]
                   ELSE IF SessionOf[p] \in live THEN "sent" ELSE "dropped"]
    BY <1>1, <2>2
  <2>4. PumpTook(0, l, g, c, live, b, q, f)
    BY <1>1, <2>1, <2>2, <2>3 DEF Pump, PumpTook
  <2> QED BY <2>1, <2>4
<1>2. ASSUME NEW k \in DOMAIN l, ~Held(g, b),
             line' = SubSeq(l, k + 1, Len(l)),
             saved' = saved \ {l[n] : n \in 1..k},
             fate' = [p \in Prompts |->
                        IF p \notin {l[n] : n \in 1..k} THEN f[p]
                        ELSE IF SessionOf[p] \in live THEN "sent" ELSE "dropped"],
             \/ /\ l[k] \in Deliveries
                /\ granted' = l[k] /\ starting' = c \cup {l[k]} /\ busy' = b /\ inbox' = q
             \/ /\ granted' = NoItem /\ starting' = c
                /\ \E s \in live : busy' = b \cup {s} /\ inbox' = [q EXCEPT ![s] = @ + 1]
             \/ /\ k = Len(l)
                /\ granted' = NoItem /\ starting' = c /\ busy' = b /\ inbox' = q
      PROVE  \E j \in 0..Len(l) : PumpTook(j, l, g, c, live, b, q, f)
  <2>1. k \in 0..Len(l) /\ k > 0 OBVIOUS
  <2>2. PumpTook(k, l, g, c, live, b, q, f) BY <1>2, <2>1 DEF Pump, PumpTook
  <2> QED BY <2>1, <2>2
<1> DEFINE Serves(k) ==
             /\ line' = SubSeq(l, k + 1, Len(l))
             /\ saved' = saved \ {l[n] : n \in 1..k}
             /\ fate' = [p \in Prompts |->
                           IF p \notin {l[n] : n \in 1..k} THEN f[p]
                           ELSE IF SessionOf[p] \in live THEN "sent" ELSE "dropped"]
             /\ \/ /\ l[k] \in Deliveries \cap saved
                   /\ granted' = l[k] /\ starting' = c \cup {l[k]} /\ busy' = b /\ inbox' = q
                \/ \E s \in live :
                     /\ granted' = Freed(l[k]) /\ starting' = c
                     /\ busy' = b \cup {s} /\ inbox' = [q EXCEPT ![s] = @ + 1]
                \/ /\ k = Len(l)
                   /\ granted' = Freed(l[k]) /\ starting' = c
                   /\ busy' = b /\ inbox' = q
<1>3. CASE ~Held(g, b) /\ \E k \in DOMAIN l : Serves(k)
  <2> HIDE DEF Serves
  <2>1. PICK k \in DOMAIN l : Serves(k) BY <1>3
  <2>2. \/ /\ l[k] \in Deliveries
           /\ granted' = l[k] /\ starting' = c \cup {l[k]} /\ busy' = b /\ inbox' = q
        \/ /\ granted' = NoItem /\ starting' = c
           /\ \E s \in live : busy' = b \cup {s} /\ inbox' = [q EXCEPT ![s] = @ + 1]
        \/ /\ k = Len(l)
           /\ granted' = NoItem /\ starting' = c /\ busy' = b /\ inbox' = q
    BY <2>1, Zenon DEF Freed, Serves
  <2> QED BY <1>2, <1>3, <2>1, <2>2, Zenon DEF Serves
<1> QED BY <1>1, <1>3, Zenon DEF Pump

\* A pump keeps the state well typed, if the sessions it is given are live.
LEMMA PumpKeepsTypes ==
    ASSUME TypeOK,
           NEW l \in Seq(Items), NEW g \in Items \cup {NoItem}, NEW c \in SUBSET Deliveries,
           NEW live \in SUBSET Sessions, NEW b \in SUBSET live, NEW q \in [Sessions -> Nat],
           \A s \in Sessions : q[s] > 0 => s \in live,
           Pump(l, g, c, live, b, q, fate)
    PROVE  /\ line' \in Seq(Items) /\ granted' \in Items \cup {NoItem}
           /\ starting' \subseteq Deliveries /\ late' \in BOOLEAN
           /\ busy' \subseteq live /\ inbox' \in [Sessions -> Nat]
           /\ \A s \in Sessions : inbox'[s] > 0 => s \in live
           /\ fate' \in [Prompts -> Fates] /\ saved' \subseteq saved
<1>1. fate \in [Prompts -> Fates] BY DEF TypeOK, Fates
<1>2. PICK k \in 0..Len(l) : PumpTook(k, l, g, c, live, b, q, fate) BY <1>1, PumpTakes
<1>3. line' \in Seq(Items) /\ saved' \subseteq saved /\ late' \in BOOLEAN
  <2>1. SubSeq(l, k + 1, Len(l)) \in Seq(Items) OBVIOUS
  <2> QED BY <1>2, <2>1, Zenon DEF PumpTook
<1>4. fate' \in [Prompts -> Fates] BY <1>1, <1>2 DEF PumpTook, Fates
<1>5. k > 0 => l[k] \in Items OBVIOUS
<1>6. CASE granted' = g /\ starting' = c /\ busy' = b /\ inbox' = q
  BY <1>3, <1>4, <1>6
<1>7. CASE /\ k > 0 /\ l[k] \in Deliveries
           /\ granted' = l[k] /\ starting' = c \cup {l[k]} /\ busy' = b /\ inbox' = q
  BY <1>3, <1>4, <1>5, <1>7
<1>8. CASE /\ granted' = NoItem /\ starting' = c
           /\ \E s \in live : busy' = b \cup {s} /\ inbox' = [q EXCEPT ![s] = @ + 1]
  BY <1>3, <1>4, <1>8
<1>9. CASE granted' = NoItem /\ starting' = c /\ busy' = b /\ inbox' = q
  BY <1>3, <1>4, <1>9
<1> QED BY <1>2, <1>6, <1>7, <1>8, <1>9 DEF PumpTook

\* The rows a boot adopts are a sequence of the items on disk, each of them once.
LEMMA AdoptedType ==
    ASSUME NEW l \in Adopted, saved \subseteq Items
    PROVE  l \in Seq(Items) /\ Len(l) = Cardinality(saved) /\ IsInjective(l) /\ ToSet(l) = saved
<1>1. IsFiniteSet(saved) /\ Cardinality(saved) \in Nat
  BY ItemsApart, FS_Subset, FS_CardinalityType
<1> DEFINE D == 1..Cardinality(saved)
<1>2. l \in [D -> saved] /\ \A m, n \in D : m # n => l[m] # l[n] BY DEF Adopted, SetToSeqs
<1>3. l \in Seq(Items) /\ Len(l) = Cardinality(saved) BY <1>1, <1>2
<1>4. Cardinality(D) = Cardinality(saved) BY <1>1, FS_Interval
<1> HIDE DEF D
<1>5. l \in Injection(D, saved) BY <1>2 DEF Injection, IsInjective
<1>6. l \in Surjection(D, saved) BY <1>1, <1>4, <1>5, FS_Injection
<1>7. ToSet(l) = saved BY <1>2, <1>6 DEF Surjection, ToSet
<1> QED BY <1>3, <1>5, <1>7 DEF Injection

\* The initial state is well typed.
LEMMA TypeInit == Init => TypeOK
<1> SUFFICES ASSUME Init PROVE TypeOK OBVIOUS
<1>1. /\ sess \in [Sessions -> {"none", "live", "dead"}]
      /\ inbox \in [Sessions -> Nat] /\ \A s \in Sessions : inbox[s] = 0
      /\ fate \in [Prompts -> {"none", "waiting", "sent", "cancelled", "dropped"}]
      /\ at \in [Items -> Nat]
  BY DEF Init
<1>2. /\ busy = {} /\ beside = {} /\ line = <<>> /\ granted = NoItem /\ starting = {}
      /\ saved = {} /\ asked = {} /\ clock = 0 /\ outside = 0 /\ restarts = 0
  BY DEF Init
<1>3. up \in BOOLEAN /\ late \in BOOLEAN BY DEF Init
<1> QED BY <1>1, <1>2, <1>3, BoundsNat DEF TypeOK

\* Every step keeps the state well typed.
LEMMA TypeStep == TypeOK /\ [Next]_vars => TypeOK'
<1> SUFFICES ASSUME TypeOK, [Next]_vars PROVE TypeOK' OBVIOUS
<1> USE DEF queue, work, disk
<1>0. /\ sess \in [Sessions -> {"none", "live", "dead"}] /\ inbox \in [Sessions -> Nat]
      /\ \A s \in Sessions : inbox[s] > 0 => sess[s] = "live"
      /\ busy \subseteq Live /\ beside \subseteq Sessions
      /\ line \in Seq(Items) /\ granted \in Items \cup {NoItem} /\ starting \subseteq Deliveries
      /\ fate \in [Prompts -> Fates] /\ saved \subseteq asked /\ at \in [Items -> Nat]
      /\ asked \subseteq Items /\ clock \in Nat /\ Live \subseteq Sessions
  BY DEF TypeOK, Live, Fates
<1>1. SessionOf \in [Prompts -> Sessions] /\ Prompts \subseteq Items /\ Deliveries \subseteq Items
  BY SessionOfType DEF Items
\* What changes who works, and nothing of the queue.
<1>2. ASSUME NEW s \in Live, PutToWork(s)
      PROVE  /\ inbox' \in [Sessions -> Nat] /\ busy' \subseteq Live
             /\ \A o \in Sessions : inbox'[o] > 0 => o \in Live
  BY <1>0, <1>2 DEF PutToWork, Live
<1>3. ASSUME NEW s \in Live, PutBeside(s)
      PROVE  /\ inbox' \in [Sessions -> Nat] /\ busy' \subseteq Live
             /\ \A o \in Sessions : inbox'[o] > 0 => o \in Live
             /\ beside' \subseteq Sessions
  BY <1>0, <1>2, <1>3 DEF PutBeside
<1>4. ASSUME NEW i \in Items, Park(i), asked' = asked \cup {i}
      PROVE  /\ line' \in Seq(Items) /\ saved' \subseteq asked' /\ asked' \subseteq Items
             /\ at' \in [Items -> Nat] /\ clock' \in Nat
  BY <1>0, <1>4 DEF Park
<1>5. ASSUME NEW p \in Prompts, SendNow(p) PROVE TypeOK'
  <2>1. /\ SessionOf[p] \in Live /\ PutToWork(SessionOf[p]) /\ fate' = [fate EXCEPT ![p] = "sent"]
        /\ UNCHANGED <<sess, beside, queue, disk, up, outside, restarts>>
    BY <1>5 DEF SendNow
  <2>2. fate' \in [Prompts -> Fates] BY <1>0, <2>1 DEF Fates
  <2> QED BY <1>2, <2>1, <2>2 DEF TypeOK, Live, Fates
<1>6. ASSUME NEW p \in Prompts, QueuePrompt(p) PROVE TypeOK'
  <2>1. /\ Park(p) /\ asked' = asked \cup {p} /\ fate' = [fate EXCEPT ![p] = "waiting"]
        /\ UNCHANGED <<work, granted, starting, late, up, outside, restarts>>
    BY <1>6 DEF QueuePrompt, Ask
  <2>2. fate' \in [Prompts -> Fates] BY <1>0, <2>1 DEF Fates
  <2>3. p \in Items BY <1>1
  <2> QED BY <1>4, <2>1, <2>2, <2>3 DEF TypeOK, Fates
<1>7. ASSUME NEW p \in Prompts, SendPastFull(p) PROVE TypeOK'
  <2>1. /\ SessionOf[p] \in Live /\ PutBeside(SessionOf[p]) /\ asked' = asked \cup {p}
        /\ fate' = [fate EXCEPT ![p] = "sent"]
        /\ UNCHANGED <<sess, queue, saved, at, clock, up, outside, restarts>>
    BY <1>7 DEF SendPastFull, Ask
  <2>2. fate' \in [Prompts -> Fates] BY <1>0, <2>1 DEF Fates
  <2>3. asked' \subseteq Items /\ saved' \subseteq asked' BY <1>0, <1>1, <2>1
  <2> QED BY <1>3, <2>1, <2>2, <2>3 DEF TypeOK, Live, Fates
<1>8. ASSUME NEW i \in Items, TakeOut(i) PROVE line' \in Seq(Items)
  <2>1. PICK k \in DOMAIN line : line' = RemoveAt(line, k) BY <1>8 DEF TakeOut
  <2>2. k \in 1..Len(line) BY <1>0
  <2>3. /\ SubSeq(line, 1, k - 1) \in Seq(Items)
        /\ SubSeq(line, k + 1, Len(line)) \in Seq(Items)
    BY <1>0, <2>2
  <2>4. SubSeq(line, 1, k - 1) \o SubSeq(line, k + 1, Len(line)) \in Seq(Items)
    BY <2>3, ConcatProperties
  <2> QED BY <2>1, <2>4 DEF RemoveAt
<1>9. ASSUME NEW p \in Prompts, ForcePrompt(p) PROVE TypeOK'
  <2>1. /\ TakeOut(p) /\ saved' = saved \ {p}
        /\ UNCHANGED <<sess, granted, starting, late, at, asked, clock, up, outside, restarts>>
    BY <1>9 DEF ForcePrompt
  <2>2. line' \in Seq(Items) BY <1>1, <1>8, <2>1
  <2>3. fate' \in [Prompts -> Fates] BY <1>0, <1>9 DEF ForcePrompt, Fates
  <2>4. CASE SessionOf[p] \in Live
    <3>1. PutBeside(SessionOf[p]) BY <1>9, <2>4 DEF ForcePrompt
    <3> QED BY <1>0, <1>3, <2>1, <2>2, <2>3, <2>4, <3>1 DEF TypeOK, Live, Fates
  <2>5. CASE SessionOf[p] \notin Live
    <3>1. UNCHANGED <<inbox, busy, beside>> BY <1>9, <2>5 DEF ForcePrompt
    <3> QED BY <1>0, <2>1, <2>2, <2>3, <3>1 DEF TypeOK, Fates
  <2> QED BY <2>4, <2>5
<1>10. ASSUME NEW i \in Items, Cancel(i) PROVE TypeOK'
  <2>1. /\ TakeOut(i) /\ saved' = saved \ {i}
        /\ UNCHANGED <<work, granted, starting, late, at, asked, clock, up, outside, restarts>>
    BY <1>10 DEF Cancel
  <2>2. line' \in Seq(Items) BY <1>8, <2>1
  <2>3. fate' \in [Prompts -> Fates] BY <1>0, <1>10 DEF Cancel, Fates
  <2> QED BY <2>1, <2>2, <2>3 DEF TypeOK, Fates
<1>11. ASSUME NEW d \in Deliveries, Acquire(d) PROVE TypeOK'
  BY <1>0, <1>1, <1>11 DEF Acquire, Ask, TypeOK
<1>12. ASSUME NEW d \in Deliveries, QueueDelivery(d) PROVE TypeOK'
  <2>1. /\ Park(d) /\ asked' = asked \cup {d} /\ d \in Items
        /\ UNCHANGED <<work, granted, starting, late, fate, up, outside, restarts>>
    BY <1>1, <1>12 DEF QueueDelivery, Ask
  <2> QED BY <1>4, <2>1 DEF TypeOK
<1>13. ASSUME NEW d \in Deliveries, Throttle(d) \/ ClearRow(d) PROVE TypeOK'
  BY <1>0, <1>1, <1>13 DEF Throttle, ClearRow, Ask, TypeOK
<1>14. ASSUME NEW d \in Deliveries, NEW s \in Sessions, Started(d, s) PROVE TypeOK'
  BY <1>0, <1>14 DEF Started, GrantAfter, TypeOK
<1>15. ASSUME NEW s \in Sessions, OpenChat(s) PROVE TypeOK'
  BY <1>0, <1>15 DEF OpenChat, TypeOK
<1>16. ASSUME NEW s \in Sessions, OutsideTurn(s) PROVE TypeOK'
  <2>1. /\ s \in Live /\ PutBeside(s) /\ outside < MaxOutside /\ outside' = outside + 1
        /\ UNCHANGED <<sess, queue, fate, disk, up, restarts>>
    BY <1>16 DEF OutsideTurn
  <2>2. outside' \in 0..MaxOutside BY <2>1, BoundsNat DEF TypeOK
  <2> QED BY <1>3, <2>1, <2>2 DEF TypeOK, Live
<1>17. ASSUME NEW l \in Seq(Items), NEW g \in Items \cup {NoItem}, NEW c \in SUBSET Deliveries,
              NEW live \in SUBSET Sessions, NEW b \in SUBSET live, NEW q \in [Sessions -> Nat],
              \A s \in Sessions : q[s] > 0 => s \in live,
              Pump(l, g, c, live, b, q, fate),
              sess' \in [Sessions -> {"none", "live", "dead"}],
              \A s \in live : sess'[s] = "live",
              beside' \in SUBSET Sessions, up' \in BOOLEAN,
              UNCHANGED <<at, asked, clock, outside, restarts>>
       PROVE  TypeOK'
  <2>1. /\ line' \in Seq(Items) /\ granted' \in Items \cup {NoItem}
        /\ starting' \subseteq Deliveries /\ late' \in BOOLEAN
        /\ busy' \subseteq live /\ inbox' \in [Sessions -> Nat]
        /\ \A s \in Sessions : inbox'[s] > 0 => s \in live
        /\ fate' \in [Prompts -> Fates] /\ saved' \subseteq saved
    BY <1>17, PumpKeepsTypes
  <2>2. \A s \in Sessions : inbox'[s] > 0 => sess'[s] = "live" BY <1>17, <2>1
  <2>3. busy' \subseteq {s \in Sessions : sess'[s] = "live"} BY <1>17, <2>1
  <2> QED BY <1>17, <2>1, <2>2, <2>3 DEF TypeOK, Fates
<1>18. ASSUME NEW d \in Deliveries, StartFails(d) PROVE TypeOK'
  <2>1. GrantAfter(d) \in Items \cup {NoItem} /\ starting \ {d} \in SUBSET Deliveries
    BY <1>0 DEF GrantAfter
  <2>2. /\ Pump(line, GrantAfter(d), starting \ {d}, Live, busy, inbox, fate)
        /\ UNCHANGED <<sess, beside, at, asked, clock, up, outside, restarts>>
    BY <1>18 DEF StartFails
  <2>3. up' \in BOOLEAN BY <2>2 DEF TypeOK
  <2> QED BY <1>0, <1>17, <2>1, <2>2, <2>3 DEF Live
<1>19. ASSUME NEW s \in Sessions, TurnComplete(s) PROVE TypeOK'
  <2> DEFINE b == IF s \in Draining THEN busy ELSE busy \ {s}
             q == [inbox EXCEPT ![s] = @ - 1]
  <2>1. b \in SUBSET Live /\ q \in [Sessions -> Nat] /\ \A o \in Sessions : q[o] > 0 => o \in Live
    BY <1>0, <1>19 DEF TurnComplete, Live
  <2>2. /\ Pump(line, granted, starting, Live, b, q, fate)
        /\ beside' \in SUBSET Sessions
        /\ UNCHANGED <<sess, at, asked, clock, up, outside, restarts>>
    BY <1>0, <1>19 DEF TurnComplete
  <2>3. up' \in BOOLEAN BY <2>2 DEF TypeOK
  <2>4. starting \in SUBSET Deliveries /\ Live \in SUBSET Sessions BY <1>0
  <2> HIDE DEF b, q
  <2> QED BY <1>0, <1>17, <2>1, <2>2, <2>3, <2>4 DEF Live
<1>20. ASSUME NEW s \in Sessions, End(s) PROVE TypeOK'
  <2> DEFINE q == [inbox EXCEPT ![s] = 0]
             live == Live \ {s}
  <2>1. /\ busy \ {s} \in SUBSET live /\ q \in [Sessions -> Nat]
        /\ \A o \in Sessions : q[o] > 0 => o \in live
    BY <1>0 DEF Live
  <2>2. /\ Pump(line, granted, starting, live, busy \ {s}, q, fate)
        /\ beside' \in SUBSET Sessions
        /\ sess' = [sess EXCEPT ![s] = "dead"]
        /\ UNCHANGED <<at, asked, clock, up, outside, restarts>>
    BY <1>0, <1>20 DEF End
  <2>3. up' \in BOOLEAN BY <2>2 DEF TypeOK
  <2>4. starting \in SUBSET Deliveries /\ live \in SUBSET Sessions BY <1>0
  <2>5. /\ sess' \in [Sessions -> {"none", "live", "dead"}]
        /\ \A o \in live : sess'[o] = "live"
    BY <1>0, <2>2 DEF Live
  <2> HIDE DEF live, q
  <2> QED BY <1>0, <1>17, <2>1, <2>2, <2>3, <2>4, <2>5
<1>21. ASSUME Sweep PROVE TypeOK'
  <2>1. /\ Pump(line, granted, starting, Live, busy, inbox, fate)
        /\ UNCHANGED <<sess, beside, at, asked, clock, up, outside, restarts>>
    BY <1>21 DEF Sweep
  <2>2. up' \in BOOLEAN BY <2>1 DEF TypeOK
  <2> QED BY <1>0, <1>17, <2>1, <2>2 DEF Live
<1>22. ASSUME Boot PROVE TypeOK'
  <2>1. PICK l \in Adopted : Pump(l, granted, starting, Live, busy, inbox, fate)
    BY <1>22 DEF Boot
  <2>2. l \in Seq(Items) BY <1>0, <2>1, AdoptedType
  <2>3. up' \in BOOLEAN /\ UNCHANGED <<sess, beside, at, asked, clock, outside, restarts>>
    BY <1>22 DEF Boot
  <2> QED BY <1>0, <1>17, <2>1, <2>2, <2>3 DEF Live
<1>23. ASSUME NEW s \in Sessions, Quieten(s) PROVE TypeOK'
  <2>1. /\ busy' = busy \ {s} /\ beside' = beside \cap busy'
        /\ UNCHANGED <<sess, line, granted, starting, fate, disk, up, outside, restarts>>
    BY <1>23 DEF Quieten
  <2>2. inbox' \in [Sessions -> Nat] /\ \A o \in Sessions : inbox'[o] <= inbox[o]
    <3>1. CASE s \in Draining
      <4>1. inbox' = inbox BY <1>23, <3>1 DEF Quieten
      <4> QED BY <1>0, <4>1
    <3>2. CASE s \notin Draining
      <4>1. inbox[s] > 0 /\ inbox' = [inbox EXCEPT ![s] = @ - 1] BY <1>23, <3>2 DEF Quieten
      <4> QED BY <1>0, <4>1
    <3> QED BY <3>1, <3>2
  <2>3. \A o \in Sessions : inbox'[o] > 0 => sess[o] = "live" BY <1>0, <2>2
  <2>4. late' \in BOOLEAN BY <1>23, Zenon DEF Quieten
  <2> QED BY <1>0, <2>1, <2>2, <2>3, <2>4 DEF TypeOK, Live
<1>24. ASSUME GoDown PROVE TypeOK'
  <2>1. restarts' \in 0..MaxRestarts BY <1>24, BoundsNat DEF GoDown, TypeOK
  <2>2. /\ sess' \in [Sessions -> {"none", "live", "dead"}]
        /\ inbox' \in [Sessions -> Nat] /\ \A s \in Sessions : inbox'[s] = 0
    BY <1>0, <1>24 DEF GoDown
  <2>3. /\ line' = <<>> /\ granted' = NoItem /\ busy' = {} /\ beside' = {} /\ starting' = {}
        /\ UNCHANGED <<fate, disk, outside>>
    BY <1>24 DEF GoDown
  <2>4. up' \in BOOLEAN /\ late' \in BOOLEAN BY <1>24 DEF GoDown
  <2> QED BY <1>0, <2>1, <2>2, <2>3, <2>4 DEF TypeOK, Fates
<1>25. CASE UNCHANGED vars BY <1>25 DEF vars, TypeOK
<1> QED BY <1>5, <1>6, <1>7, <1>9, <1>10, <1>11, <1>12, <1>13, <1>14, <1>15, <1>16, <1>18,
           <1>19, <1>20, <1>21, <1>22, <1>23, <1>24, <1>25 DEF Next

-----------------------------------------------------------------------------
(* The line and its rows.                                                   *)

\* The queue's own theorems, for the line of this tree.
QueueProofs == INSTANCE RunQueueProofs WITH
    Trees <- {Tree},
    TreeOf <- [i \in Items |-> Tree],
    MaxTotal <- MaxPerKey,
    MinStamp <- 0,
    line <- [t \in {Tree} |-> line],
    stamp <- at,
    granted <- [t \in {Tree} |-> granted],
    busy <- {t \in {Tree} : busy # {}},
    claims <- starting,
    late <- {t \in {Tree} : late},
    row <- [i \in Items |-> IF i \in saved THEN at[i] ELSE NoRow],
    submitted <- asked

\* What the queue asks of its constants.
LEMMA QueueAssumptions ==
    /\ QueueProofs!ItemsFinite /\ QueueProofs!TreeOfType /\ QueueProofs!NoItemOutside
    /\ QueueProofs!NoRowOutside /\ QueueProofs!CapsPositive /\ QueueProofs!BoundsType
<1>1. QueueProofs!ItemsFinite
  BY ItemsApart, Zenon DEF QueueProofs!ItemsFinite, IsFiniteSet, QueueProofs!IsFiniteSet
<1> QED
  BY <1>1, ItemsApart, NoRowOutside, CapPositive, BoundsNat
  DEF QueueProofs!TreeOfType, QueueProofs!NoItemOutside, QueueProofs!NoRowOutside,
      QueueProofs!CapsPositive, QueueProofs!BoundsType

\* The waiters of l stand in the order of their stamps, none of them twice, no
\* more than the cap, and the queue was asked about each.
Ordered(l) ==
    /\ IsInjective(l)
    /\ \A m, n \in DOMAIN l : m < n => at[l[m]] < at[l[n]]
    /\ Len(l) <= MaxPerKey
    /\ ToSet(l) \subseteq asked

\* What is on disk waits in l, and the prompts that wait there are on disk.
Backed(l) == saved \subseteq ToSet(l) /\ ToSet(l) \cap Prompts \subseteq saved

LineInOrder ==
    /\ Ordered(line)
    /\ starting \subseteq asked
    /\ \A i \in Items : at[i] <= clock

\* The rows of a server that is down fit the line it boots with.
RowsMatchLine ==
    /\ up => Backed(line)
    /\ ~up => Cardinality(saved) <= MaxPerKey
    /\ \A p \in Prompts : fate[p] = "waiting" <=> p \in saved

\* A server that is down holds nothing in memory.
DownIsEmpty == ~up => line = <<>> /\ granted = NoItem /\ starting = {}

LineInv == LineInOrder /\ RowsMatchLine /\ DownIsEmpty

\* A sequence of which nothing stands twice holds as many items as it is long.
LEMMA LineSize ==
    ASSUME NEW l \in Seq(Items), IsInjective(l)
    PROVE  /\ IsFiniteSet(ToSet(l)) /\ ToSet(l) \subseteq Items
           /\ Cardinality(ToSet(l)) = Len(l)
<1>1. Len(l) \in Nat /\ DOMAIN l = 1..Len(l) OBVIOUS
<1>2. ToSet(l) \subseteq Items BY DEF ToSet
<1>3. l \in [1..Len(l) -> ToSet(l)] BY DEF ToSet
<1>4. \A i \in ToSet(l) : \E n \in 1..Len(l) : l[n] = i BY <1>1 DEF ToSet
<1>5. l \in Bijection(1..Len(l), ToSet(l)) BY <1>3, <1>4 DEF Bijection, Injection, Surjection
<1>6. Cardinality(ToSet(l)) = Len(l)
  BY <1>1, <1>5, FS_CountingElements DEF ExistsBijection
<1> QED BY <1>2, <1>6, ItemsApart, FS_Subset

\* A pump over a line in order keeps it in order, and its rows with it.
LEMMA PumpKeepsLine ==
    ASSUME TypeOK, NEW l \in Seq(Items), NEW g, NEW c \in SUBSET starting, NEW live, NEW b, NEW q,
           Pump(l, g, c, live, b, q, fate),
           Ordered(l), Backed(l), starting \subseteq asked,
           \A i \in Items : at[i] <= clock,
           \A p \in Prompts : fate[p] = "waiting" <=> p \in saved,
           up', UNCHANGED <<at, asked, clock>>
    PROVE  LineInv'
<1>1. fate \in [Prompts -> Fates] BY DEF TypeOK, Fates
<1>2. PICK k \in 0..Len(l) : PumpTook(k, l, g, c, live, b, q, fate) BY <1>1, PumpTakes
<1> DEFINE taken == {l[n] : n \in 1..k}
<1>3. Len(l) \in Nat /\ DOMAIN l = 1..Len(l) /\ k \in Nat /\ k <= Len(l) OBVIOUS
<1>4. line' = SubSeq(l, k + 1, Len(l)) /\ saved' = saved \ taken BY <1>2 DEF PumpTook
<1>5. /\ DOMAIN line' = 1..(Len(l) - k) /\ Len(line') = Len(l) - k
      /\ \A n \in DOMAIN line' : k + n \in DOMAIN l /\ line'[n] = l[k + n]
  BY <1>3, <1>4
<1>6. ToSet(line') = ToSet(l) \ taken
  <2>1. ASSUME NEW n \in DOMAIN line' PROVE line'[n] \in ToSet(l) \ taken
    <3>1. l[k + n] \in ToSet(l) BY <1>5 DEF ToSet
    <3>2. \A m \in 1..k : l[m] # l[k + n]
      BY <1>3, <1>5 DEF Ordered, IsInjective
    <3> QED BY <1>5, <3>1, <3>2
  <2>2. ASSUME NEW i \in ToSet(l), i \notin taken PROVE \E n \in DOMAIN line' : line'[n] = i
    <3>1. PICK m \in DOMAIN l : l[m] = i BY DEF ToSet
    <3>2. m - k \in DOMAIN line' /\ k + (m - k) = m BY <1>3, <1>5, <2>2, <3>1
    <3> QED BY <1>5, <3>1, <3>2
  <2> QED BY <2>1, <2>2 DEF ToSet
<1>7. IsInjective(line')
  <2> SUFFICES ASSUME NEW m \in DOMAIN line', NEW n \in DOMAIN line', line'[m] = line'[n]
               PROVE  m = n
    BY DEF IsInjective
  <2>1. k + m = k + n BY <1>5 DEF Ordered, IsInjective
  <2> QED BY <1>3, <1>5, <2>1
<1>8. \A m, n \in DOMAIN line' : m < n => at[line'[m]] < at[line'[n]]
  <2> SUFFICES ASSUME NEW m \in DOMAIN line', NEW n \in DOMAIN line', m < n
               PROVE  at[line'[m]] < at[line'[n]]
    OBVIOUS
  <2>1. k + m < k + n BY <1>3, <1>5
  <2> QED BY <1>5, <2>1 DEF Ordered
<1>9. Ordered(line)'
  BY <1>3, <1>5, <1>6, <1>7, <1>8, CapPositive DEF Ordered
<1>10. Backed(line)' BY <1>4, <1>6 DEF Backed
<1>11. ASSUME NEW p \in Prompts PROVE fate'[p] = "waiting" <=> p \in saved'
  <2>1. fate'[p] = IF p \notin taken THEN fate[p]
                   ELSE IF SessionOf[p] \in live THEN "sent" ELSE "dropped"
    BY <1>2 DEF PumpTook
  <2> HIDE DEF taken
  <2> QED BY <1>4, <2>1
<1>12. starting' \subseteq asked
  <2>1. k > 0 => l[k] \in asked BY <1>3 DEF Ordered, ToSet
  <2>2. starting' = c \/ (k > 0 /\ starting' = c \cup {l[k]}) BY <1>2 DEF PumpTook
  <2> QED BY <2>1, <2>2
<1>13. LineInOrder'
  <2>1. \A i \in Items : at'[i] <= clock' OBVIOUS
  <2>2. starting' \subseteq asked' BY <1>12
  <2> QED BY <1>9, <2>1, <2>2 DEF LineInOrder
<1>14. RowsMatchLine' BY <1>10, <1>11 DEF RowsMatchLine
<1>15. DownIsEmpty' BY DEF DownIsEmpty
<1> QED BY <1>13, <1>14, <1>15 DEF LineInv

\* The initial state has nobody in line and nothing on disk.
LEMMA LineInit == Init => LineInv
<1> SUFFICES ASSUME Init PROVE LineInv OBVIOUS
<1>1. line = <<>> /\ saved = {} /\ asked = {} /\ starting = {} /\ up /\ clock = 0
      /\ \A i \in Items : at[i] = 0
      /\ \A p \in Prompts : fate[p] = "none"
  BY DEF Init
<1>2. Ordered(line) /\ Backed(line)
  BY <1>1, CapPositive DEF Ordered, Backed, IsInjective, ToSet
<1>3. LineInOrder
  <2>1. \A i \in Items : at[i] <= clock
    <3>1. clock = 0 /\ \A i \in Items : at[i] = 0 BY <1>1
    <3> QED BY <3>1
  <2> QED BY <1>1, <1>2, <2>1 DEF LineInOrder
<1>4. RowsMatchLine
  <2>1. \A p \in Prompts : fate[p] # "waiting" /\ p \notin saved BY DEF Init
  <2>2. up BY <1>1
  <2> QED BY <1>2, <2>1, <2>2, Zenon DEF RowsMatchLine
<1>5. DownIsEmpty BY <1>1 DEF DownIsEmpty
<1> QED BY <1>3, <1>4, <1>5 DEF LineInv

\* Every step keeps the line in order and its rows with it.
LEMMA LineStep == TypeOK /\ LineInv /\ [Next]_vars => LineInv'
<1> SUFFICES ASSUME TypeOK, LineInv, [Next]_vars PROVE LineInv' OBVIOUS
<1> USE DEF queue, work, disk
<1>0. /\ line \in Seq(Items) /\ at \in [Items -> Nat] /\ clock \in Nat /\ saved \subseteq asked
      /\ fate \in [Prompts -> Fates] /\ asked \subseteq Items /\ starting \subseteq Deliveries
      /\ Ordered(line) /\ starting \subseteq asked /\ (\A i \in Items : at[i] <= clock)
      /\ (up => Backed(line))
      /\ \A p \in Prompts : fate[p] = "waiting" <=> p \in saved
      /\ Prompts \subseteq Items /\ Deliveries \subseteq Items /\ Prompts \cap Deliveries = {}
  BY ItemsApart DEF LineInv, LineInOrder, RowsMatchLine, TypeOK, Fates, Items
\* Steps that leave the line and its rows alone.
<1>1. ASSUME up, UNCHANGED <<line, saved, at, clock, up>>,
             asked \subseteq asked', starting' \subseteq asked',
             \A p \in Prompts : fate'[p] = "waiting" <=> fate[p] = "waiting"
      PROVE  LineInv'
  <2>1. Ordered(line)' BY <1>0, <1>1 DEF Ordered
  <2>2. LineInOrder' BY <1>0, <1>1, <2>1 DEF LineInOrder
  <2>3. RowsMatchLine' BY <1>0, <1>1 DEF RowsMatchLine, Backed
  <2>4. DownIsEmpty' BY <1>1 DEF DownIsEmpty
  <2> QED BY <2>2, <2>3, <2>4 DEF LineInv
<1>2. ASSUME NEW p \in Prompts, SendNow(p) \/ SendPastFull(p) PROVE LineInv'
  <2>1. /\ up /\ UNCHANGED <<line, saved, at, clock, starting, up>> /\ asked \subseteq asked'
        /\ fate[p] = "none" /\ fate' = [fate EXCEPT ![p] = "sent"]
    BY <1>2 DEF SendNow, SendPastFull, Ask
  <2>2. \A o \in Prompts : fate'[o] = "waiting" <=> fate[o] = "waiting"
    BY <1>0, <2>1 DEF Fates
  <2> QED BY <1>0, <1>1, <2>1, <2>2
<1>3. ASSUME NEW d \in Deliveries, Acquire(d) \/ Throttle(d) PROVE LineInv'
  <2>1. /\ up /\ UNCHANGED <<line, saved, at, clock, fate, up>>
        /\ asked' = asked \cup {d} /\ starting' \subseteq starting \cup {d}
    BY <1>3 DEF Acquire, Throttle, Ask
  <2> QED BY <1>0, <1>1, <2>1
<1>4. ASSUME NEW d \in Deliveries, NEW s \in Sessions, Started(d, s) PROVE LineInv'
  BY <1>0, <1>1, <1>4 DEF Started
<1>5. ASSUME NEW s \in Sessions, OpenChat(s) \/ OutsideTurn(s) \/ Quieten(s) PROVE LineInv'
  BY <1>0, <1>1, <1>5 DEF OpenChat, OutsideTurn, Quieten
\* A new waiter, behind the others.
<1>6. ASSUME NEW i \in Items, up, up', i \notin asked, asked' = asked \cup {i}, Park(i),
             starting' = starting,
             \A p \in Prompts : fate'[p] = "waiting" <=> (fate[p] = "waiting" \/ p = i)
      PROVE  LineInv'
  <2>1. /\ Len(line) < MaxPerKey /\ clock' = clock + 1 /\ at' = [at EXCEPT ![i] = clock']
        /\ saved' = saved \cup {i} /\ line' = Append(line, i)
    BY <1>6 DEF Park
  <2>2. /\ Len(line) \in Nat /\ DOMAIN line = 1..Len(line) /\ DOMAIN line' = 1..(Len(line) + 1)
        /\ Len(line') = Len(line) + 1
        /\ line'[Len(line) + 1] = i
        /\ \A n \in DOMAIN line : line'[n] = line[n]
    BY <1>0, <2>1
  <2>3. \A n \in DOMAIN line : line[n] \in asked /\ line[n] \in Items /\ line[n] # i
    BY <1>0, <1>6, <2>2 DEF Ordered, ToSet
  <2>4. at'[i] = clock + 1 /\ \A j \in Items : j # i => at'[j] = at[j] BY <1>0, <2>1
  <2>5. ASSUME NEW n \in DOMAIN line', n \notin DOMAIN line PROVE n = Len(line) + 1
    BY <2>2, <2>5
  <2>6. IsInjective(line')
    <3> SUFFICES ASSUME NEW m \in DOMAIN line', NEW n \in DOMAIN line', line'[m] = line'[n]
                 PROVE  m = n
      BY DEF IsInjective
    <3>1. CASE m \in DOMAIN line /\ n \in DOMAIN line
      <4>1. line[m] = line[n] BY <2>2, <3>1
      <4> QED BY <1>0, <3>1, <4>1 DEF Ordered, IsInjective
    <3>2. CASE m \notin DOMAIN line \/ n \notin DOMAIN line BY <2>2, <2>3, <2>5, <3>2
    <3> QED BY <3>1, <3>2
  <2>7. ASSUME NEW m \in DOMAIN line', NEW n \in DOMAIN line', m < n
        PROVE  at'[line'[m]] < at'[line'[n]]
    <3>1. m \in DOMAIN line BY <2>2, <2>7
    <3>2. line'[m] = line[m] /\ at'[line[m]] = at[line[m]] BY <2>2, <2>3, <2>4, <3>1
    <3>3. CASE n \in DOMAIN line
      <4>1. line'[n] = line[n] /\ at'[line[n]] = at[line[n]] BY <2>2, <2>3, <2>4, <3>3
      <4>2. at[line[m]] < at[line[n]] BY <1>0, <2>7, <3>1, <3>3 DEF Ordered
      <4> QED BY <3>2, <4>1, <4>2
    <3>4. CASE n \notin DOMAIN line
      <4>1. line'[n] = i BY <2>2, <2>5, <3>4
      <4>2. at[line[m]] \in Nat /\ at[line[m]] <= clock BY <1>0, <2>3, <3>1
      <4> QED BY <1>0, <2>4, <3>2, <4>1, <4>2
    <3> QED BY <3>3, <3>4
  <2>8. ToSet(line') = ToSet(line) \cup {i}
    <3>1. \A n \in DOMAIN line' : line'[n] = i \/ \E m \in DOMAIN line : line[m] = line'[n]
      BY <2>2, <2>5
    <3>2. Len(line) + 1 \in DOMAIN line' /\ \A n \in DOMAIN line : n \in DOMAIN line'
      BY <2>2
    <3> QED BY <2>2, <3>1, <3>2 DEF ToSet
  <2>9. Ordered(line)'
    <3>1. Len(line') <= MaxPerKey BY <2>1, <2>2, CapPositive
    <3>2. ToSet(line') \subseteq asked' BY <1>0, <1>6, <2>8 DEF Ordered
    <3> QED BY <2>6, <2>7, <3>1, <3>2 DEF Ordered
  <2>10. \A j \in Items : at'[j] <= clock'
    <3> SUFFICES ASSUME NEW j \in Items PROVE at'[j] <= clock' OBVIOUS
    <3>1. at[j] \in Nat /\ at[j] <= clock BY <1>0
    <3> QED BY <1>0, <2>1, <2>4, <3>1
  <2>11. LineInOrder' BY <1>0, <1>6, <2>9, <2>10 DEF LineInOrder
  <2>12. Backed(line)' BY <1>0, <1>6, <2>1, <2>8 DEF Backed
  <2>13. RowsMatchLine' BY <1>0, <1>6, <2>1, <2>12 DEF RowsMatchLine
  <2>14. DownIsEmpty' BY <1>6 DEF DownIsEmpty
  <2> QED BY <2>11, <2>13, <2>14 DEF LineInv
<1>7. ASSUME NEW p \in Prompts, QueuePrompt(p) PROVE LineInv'
  <2>1. /\ up /\ up' /\ p \notin asked /\ asked' = asked \cup {p} /\ Park(p)
        /\ starting' = starting /\ fate' = [fate EXCEPT ![p] = "waiting"]
    BY <1>7 DEF QueuePrompt, Ask
  <2>2. \A o \in Prompts : fate'[o] = "waiting" <=> (fate[o] = "waiting" \/ o = p)
    BY <1>0, <2>1
  <2> QED BY <1>0, <1>6, <2>1, <2>2
<1>8. ASSUME NEW d \in Deliveries, QueueDelivery(d) PROVE LineInv'
  <2>1. /\ up /\ up' /\ d \notin asked /\ asked' = asked \cup {d} /\ Park(d)
        /\ starting' = starting /\ fate' = fate
    BY <1>8 DEF QueueDelivery, Ask
  <2> QED BY <1>0, <1>6, <2>1
\* A waiter taken out by a person.
<1>9. ASSUME NEW i \in Items, TakeOut(i), saved' = saved \ {i},
             \A p \in Prompts : fate'[p] = "waiting" <=> (fate[p] = "waiting" /\ p # i),
             UNCHANGED <<starting, at, asked, clock, up>>
      PROVE  LineInv'
  <2>1. PICK k \in DOMAIN line : up /\ line[k] = i /\ line' = RemoveAt(line, k)
    BY <1>9 DEF TakeOut
  <2>2. line' = QueueProofs!RemoveAt(line, k)
    BY <2>1, Zenon DEF RemoveAt, QueueProofs!RemoveAt
  <2>3. IsInjective(line) /\ QueueProofs!IsInjective(line) /\ QueueProofs!Ascending(line, at)
    BY <1>0 DEF Ordered, IsInjective, QueueProofs!IsInjective, QueueProofs!Ascending
  <2>4. Len(line') = Len(line) - 1 /\ Len(line) \in Nat
    BY <1>0, <2>2, QueueAssumptions, QueueProofs!RemoveAtKeeps
  <2>5. /\ QueueProofs!IsInjective(line')
        /\ \A n \in DOMAIN line' : \E m \in DOMAIN line : m # k /\ line'[n] = line[m]
    BY <1>0, <2>2, <2>3, QueueAssumptions, QueueProofs!RemoveAtOrder
  <2>6. /\ QueueProofs!Ascending(line', at)
        /\ QueueProofs!ToSet(line) \ {i} \subseteq QueueProofs!ToSet(line')
    BY <1>0, <2>1, <2>2, <2>3, QueueAssumptions, QueueProofs!DroppedAscends
  <2>7. ToSet(line') = ToSet(line) \ {i}
    <3>1. \A n \in DOMAIN line' : line'[n] \in ToSet(line) \ {i}
      BY <2>1, <2>3, <2>5 DEF IsInjective, ToSet
    <3> QED BY <2>6, <3>1 DEF ToSet, QueueProofs!ToSet
  <2>8. Ordered(line)'
    <3>1. IsInjective(line') BY <2>5 DEF IsInjective, QueueProofs!IsInjective
    <3>2. \A m, n \in DOMAIN line' : m < n => at[line'[m]] < at[line'[n]]
      BY <2>6 DEF QueueProofs!Ascending
    <3>3. Len(line') <= MaxPerKey BY <1>0, <2>4, CapPositive DEF Ordered
    <3>4. ToSet(line') \subseteq asked BY <1>0, <2>7 DEF Ordered
    <3> QED BY <1>9, <3>1, <3>2, <3>3, <3>4 DEF Ordered
  <2>9. LineInOrder' BY <1>0, <1>9, <2>8 DEF LineInOrder
  <2>10. Backed(line)' BY <1>0, <1>9, <2>1, <2>7 DEF Backed
  <2>11. RowsMatchLine' BY <1>0, <1>9, <2>1, <2>10 DEF RowsMatchLine
  <2>12. DownIsEmpty' BY <1>9, <2>1 DEF DownIsEmpty
  <2> QED BY <2>9, <2>11, <2>12 DEF LineInv
<1>10. ASSUME NEW i \in Items, Cancel(i) PROVE LineInv'
  <2>1. /\ TakeOut(i) /\ saved' = saved \ {i} /\ UNCHANGED <<starting, at, asked, clock, up>>
        /\ fate' = [p \in Prompts |-> IF p = i THEN "cancelled" ELSE fate[p]]
    BY <1>10 DEF Cancel
  <2>2. \A p \in Prompts : fate'[p] = "waiting" <=> (fate[p] = "waiting" /\ p # i)
    BY <2>1
  <2> QED BY <1>9, <2>1, <2>2
<1>11. ASSUME NEW p \in Prompts, ForcePrompt(p) PROVE LineInv'
  <2>1. /\ TakeOut(p) /\ saved' = saved \ {p} /\ UNCHANGED <<starting, at, asked, clock, up>>
        /\ \E v \in {"sent", "dropped"} : fate' = [fate EXCEPT ![p] = v]
    BY <1>11 DEF ForcePrompt
  <2>2. \A o \in Prompts : fate'[o] = "waiting" <=> (fate[o] = "waiting" /\ o # p)
    BY <1>0, <2>1
  <2> QED BY <1>0, <1>9, <2>1, <2>2
<1>12. ASSUME NEW d \in Deliveries, ClearRow(d) PROVE LineInv'
  <2>1. /\ up /\ saved' = saved \ {d} /\ UNCHANGED <<line, starting, fate, at, asked, clock, up>>
    BY <1>12 DEF ClearRow
  <2>2. LineInOrder' BY <1>0, <2>1 DEF LineInOrder, Ordered
  <2>3. RowsMatchLine' BY <1>0, <2>1 DEF RowsMatchLine, Backed
  <2>4. DownIsEmpty' BY <2>1 DEF DownIsEmpty
  <2> QED BY <2>2, <2>3, <2>4 DEF LineInv
<1>13. ASSUME NEW g, NEW c \in SUBSET starting, NEW live, NEW b, NEW q,
              Pump(line, g, c, live, b, q, fate), up, UNCHANGED <<at, asked, clock, up>>
       PROVE  LineInv'
  BY <1>0, <1>13, PumpKeepsLine
<1>14. ASSUME NEW d \in Deliveries, StartFails(d) PROVE LineInv'
  <2>1. starting \ {d} \in SUBSET starting OBVIOUS
  <2> QED BY <1>13, <1>14, <2>1 DEF StartFails
<1>15. ASSUME NEW s \in Sessions, TurnComplete(s) \/ End(s) PROVE LineInv'
  <2>1. /\ \E live, b, q : Pump(line, granted, starting, live, b, q, fate)
        /\ up /\ UNCHANGED <<at, asked, clock, up>>
    BY <1>15 DEF TurnComplete, End
  <2> QED BY <1>13, <2>1
<1>16. ASSUME Sweep PROVE LineInv'
  BY <1>13, <1>16 DEF Sweep
<1>17. ASSUME GoDown PROVE LineInv'
  <2>1. /\ up /\ ~up' /\ line' = <<>> /\ granted' = NoItem /\ starting' = {}
        /\ UNCHANGED <<fate, saved, at, asked, clock>>
    BY <1>17 DEF GoDown
  <2>2. Ordered(line)'
    <3>1. DOMAIN line' = {} /\ Len(line') = 0 /\ ToSet(line') = {} BY <2>1 DEF ToSet
    <3> QED BY <3>1, CapPositive DEF Ordered, IsInjective
  <2>3. Cardinality(saved) <= MaxPerKey
    <3>1. IsFiniteSet(ToSet(line)) /\ Cardinality(ToSet(line)) = Len(line)
      BY <1>0, LineSize DEF Ordered
    <3>2. saved \subseteq ToSet(line) BY <1>0, <2>1 DEF Backed
    <3>3. IsFiniteSet(saved) /\ Cardinality(saved) <= Cardinality(ToSet(line))
      BY <3>1, <3>2, FS_Subset
    <3>4. Cardinality(saved) \in Nat BY <3>3, FS_CardinalityType
    <3> QED BY <1>0, <3>1, <3>3, <3>4, CapPositive DEF Ordered
  <2>4. LineInOrder' BY <1>0, <2>1, <2>2 DEF LineInOrder
  <2>5. RowsMatchLine' BY <1>0, <2>1, <2>3 DEF RowsMatchLine
  <2>6. DownIsEmpty' BY <2>1 DEF DownIsEmpty
  <2> QED BY <2>4, <2>5, <2>6 DEF LineInv
<1>18. ASSUME Boot PROVE LineInv'
  <2>1. PICK l \in Adopted : Pump(l, granted, starting, Live, busy, inbox, fate)
    BY <1>18 DEF Boot
  <2>2. l \in Seq(Items) /\ Len(l) = Cardinality(saved) /\ IsInjective(l) /\ ToSet(l) = saved
    BY <1>0, <2>1, AdoptedType
  <2>3. ~up /\ up' /\ UNCHANGED <<at, asked, clock>> BY <1>18 DEF Boot
  <2>4. Cardinality(saved) <= MaxPerKey BY <2>3 DEF LineInv, RowsMatchLine
  <2>5. Ordered(l) BY <1>0, <2>2, <2>4 DEF Ordered, Adopted
  <2>6. Backed(l) BY <2>2 DEF Backed
  <2> QED BY <1>0, <2>1, <2>2, <2>3, <2>5, <2>6, PumpKeepsLine
<1>19. CASE UNCHANGED vars
  BY <1>19 DEF vars, LineInv, LineInOrder, Ordered, RowsMatchLine, Backed, DownIsEmpty
<1> QED BY <1>2, <1>3, <1>4, <1>5, <1>7, <1>8, <1>10, <1>11, <1>12, <1>14, <1>15, <1>16,
           <1>17, <1>18, <1>19 DEF Next

\* Types, the line's order and its rows, in every reachable state.
THEOREM LineInvariant == Spec => [](TypeOK /\ LineInv)
<1>1. Init => TypeOK /\ LineInv BY TypeInit, LineInit
<1>2. TypeOK /\ LineInv /\ [Next]_vars => (TypeOK /\ LineInv)' BY TypeStep, LineStep
<1> QED BY <1>1, <1>2, PTL DEF Spec

\* The state stays well typed; a session that is mid-turn or has turns to do
\* is live.
THEOREM GateTypes == Spec => []TypeOK
BY LineInvariant, PTL

\* A prompt its client believes to be waiting has its row and its place in line,
\* and one that was sent or cancelled has neither, so no restart sends it again
\* (prompt-queue.ts submit, deliver and resolve; RunQueue.init).
THEOREM PromptsQueued == Spec => []WaitingIsQueued
<1>1. LineInv => WaitingIsQueued
  BY DEF LineInv, RowsMatchLine, Backed, WaitingIsQueued
<1> QED BY <1>1, LineInvariant, PTL

-----------------------------------------------------------------------------
(* The queue's contract.                                                    *)

\* A value kept per tree, and the trees with a session mid-turn.
PerTree(x) == [t \in {Tree} |-> x]
Marks(b) == {t \in {Tree} : b # {}}
Row == [i \in Items |-> IF i \in saved THEN at[i] ELSE NoRow]

\* The pump of the gate is a pump of the queue in which what becomes of each
\* waiter is decided by its session.
LEMMA PumpRefines ==
    ASSUME TypeOK, NEW l \in Seq(Items), Len(l) <= MaxPerKey,
           NEW g, NEW c, NEW live, NEW b, NEW q,
           Pump(l, g, c, live, b, q, fate), UNCHANGED at
    PROVE  Contract!Pump(PerTree(l), PerTree(g), Marks(b), c)
<1> DEFINE L == PerTree(l)
           G == PerTree(g)
           B == Marks(b)
           free == {t \in {Tree} \ B : G[t] = NoItem /\ L[t] # <<>>}
<1>0. fate \in [Prompts -> Fates] BY DEF TypeOK, Fates
<1>1. PICK k \in 0..Len(l) : PumpTook(k, l, g, c, live, b, q, fate) BY <1>0, PumpTakes
<1>2. Len(l) \in Nat /\ k \in Nat /\ k <= MaxPerKey BY CapPositive
<1> DEFINE taken == [t \in free |-> k]
           served == SubSeq(l, 1, k)
           final == served[k]
           Pumped(o) ==
             /\ \A t \in free : k <= Len(l)
             /\ o = "settles" /\ free # {} => k = Len(l)
             /\ PerTree(line') = [t \in {Tree} |-> IF t \in free THEN SubSeq(l, k + 1, Len(l)) ELSE l]
             /\ PerTree(granted') = [t \in {Tree} |-> IF t \in free /\ o = "holds" THEN final ELSE g]
             /\ Marks(busy') = B \cup {t \in free : o = "prompts"}
             /\ starting' = c \cup {final : t \in {u \in free : o = "holds"}}
             /\ Row' = [i \in Items |-> IF \E t \in free : i \in ToSet(served) THEN NoRow ELSE Row[i]]
<1>3. ASSUME NEW o \in {"holds", "prompts", "settles"}, free # {} => k > 0, Pumped(o)
      PROVE  Contract!Pumped(L, G, B, c, Row, PerTree(line'), PerTree(granted'),
                             Marks(busy'), starting', Row')
  <2> DEFINE out == [t \in free |-> o]
  <2>1. taken \in [free -> 1..MaxPerKey] BY <1>2, <1>3
  <2>2. out \in [free -> Contract!Outcomes] BY <1>3 DEF Contract!Outcomes
  <2>3. ASSUME NEW t \in free
        PROVE  /\ taken[t] = k /\ out[t] = o /\ L[t] = l
               /\ Contract!Shift(L[t], taken[t]).served = served
               /\ Contract!Shift(L[t], taken[t]).rest = SubSeq(l, k + 1, Len(l))
    BY DEF Contract!Shift, PerTree
  <2>4. \A t \in {Tree} : L[t] = l /\ G[t] = g BY DEF PerTree
  <2> HIDE DEF taken, out, L, G, B, served
  <2>5. \A t \in free : taken[t] <= Len(L[t]) BY <1>3, <2>3
  <2>6. \A t \in {u \in free : out[u] = "settles"} : taken[t] = Len(L[t]) BY <1>3, <2>3
  <2>7. PerTree(line') = [t \in {Tree} |-> IF t \in free
                                           THEN Contract!Shift(L[t], taken[t]).rest ELSE L[t]]
    BY <1>3, <2>3, <2>4
  <2>8. PerTree(granted') = [t \in {Tree} |->
                               IF t \in {u \in free : out[u] = "holds"}
                               THEN Contract!Shift(L[t], taken[t]).served[taken[t]] ELSE G[t]]
    BY <1>3, <2>3, <2>4
  <2>9. Marks(busy') = B \cup {t \in free : out[t] = "prompts"} BY <1>3, <2>3
  <2>10. starting' = c \cup {Contract!Shift(L[t], taken[t]).served[taken[t]] :
                               t \in {u \in free : out[u] = "holds"}}
    BY <1>3, <2>3
  <2>11. Row' = [i \in Items |->
                   IF \E t \in free : i \in Contract!ToSet(Contract!Shift(L[t], taken[t]).served)
                   THEN NoRow ELSE Row[i]]
    BY <1>3, <2>3 DEF ToSet, Contract!ToSet
  <2> QED
    BY <2>1, <2>2, <2>5, <2>6, <2>7, <2>8, <2>9, <2>10, <2>11, ZenonT(60) DEF Contract!Pumped
<1>4. /\ late' = FALSE /\ line' = SubSeq(l, k + 1, Len(l)) /\ saved' = saved \ {l[n] : n \in 1..k}
      /\ k > 0 => ~Held(g, b)
  BY <1>1 DEF PumpTook
<1>5. ASSUME NEW i \in Items
      PROVE  Row'[i] = IF k > 0 /\ i \in ToSet(served) THEN NoRow ELSE Row[i]
  <2>1. DOMAIN served = 1..k /\ \A n \in 1..k : served[n] = l[n] BY <1>2
  <2> HIDE DEF served
  <2>2. i \in ToSet(served) <=> i \in {l[n] : n \in 1..k} BY <2>1 DEF ToSet
  <2>3. k = 0 => {l[n] : n \in 1..k} = {} BY <1>2
  <2>4. i \in saved' <=> i \in saved /\ ~(k > 0 /\ i \in ToSet(served))
    BY <1>2, <1>4, <2>2, <2>3
  <2> QED BY <2>4 DEF Row
<1>6. Row' = [i \in Items |-> Row'[i]] BY DEF Row
<1>7. ASSUME NEW o \in {"holds", "prompts", "settles"}, free # {} => k > 0,
             o = "settles" /\ free # {} => k = Len(l),
             line' = IF free = {} THEN l ELSE SubSeq(l, k + 1, Len(l)),
             granted' = IF free # {} /\ o = "holds" THEN final ELSE g,
             Marks(busy') = IF o = "prompts" THEN B \cup free ELSE B,
             starting' = IF free # {} /\ o = "holds" THEN c \cup {final} ELSE c,
             \A i \in Items : Row'[i] = IF free # {} /\ i \in ToSet(served) THEN NoRow ELSE Row[i]
      PROVE  Contract!Pumped(L, G, B, c, Row, PerTree(line'), PerTree(granted'),
                             Marks(busy'), starting', Row')
  <2>1. free \subseteq {Tree} OBVIOUS
  <2> HIDE DEF free, final, B, served
  <2>2. free = {} \/ free = {Tree} BY <2>1
  <2>3. \A t \in free : k <= Len(l) BY <1>2
  <2>4. PerTree(line') = [t \in {Tree} |-> IF t \in free THEN SubSeq(l, k + 1, Len(l)) ELSE l]
    BY <1>7, <2>2 DEF PerTree
  <2>5. PerTree(granted') = [t \in {Tree} |-> IF t \in free /\ o = "holds" THEN final ELSE g]
    BY <1>7, <2>2 DEF PerTree
  <2>6. Marks(busy') = B \cup {t \in free : o = "prompts"} BY <1>7
  <2>7. starting' = c \cup {final : t \in {u \in free : o = "holds"}}
    <3>1. CASE free # {} /\ o = "holds" BY <1>7, <2>2, <3>1
    <3>2. CASE ~(free # {} /\ o = "holds") BY <1>7, <2>2, <3>2
    <3> QED BY <3>1, <3>2
  <2>8. Row' = [i \in Items |-> IF \E t \in free : i \in ToSet(served) THEN NoRow ELSE Row[i]]
    BY <1>6, <1>7, <2>2
  <2>9. Pumped(o) BY <1>7, <2>3, <2>4, <2>5, <2>6, <2>7, <2>8, Zenon
  <2> HIDE DEF Pumped
  <2> QED BY <1>3, <1>7, <2>9
<1> DEFINE Done == Contract!Pumped(L, G, B, c, Row, PerTree(line'), PerTree(granted'),
                                  Marks(busy'), starting', Row')
<1> SUFFICES Done
  <2>1. {t \in {Tree} : late'} = {} BY <1>4
  <2> QED BY <2>1, Zenon DEF Contract!Pump, PerTree, Marks, Row
<1>8. CASE k = 0 /\ (Held(g, b) \/ l = <<>>)
           /\ granted' = g /\ starting' = c /\ busy' = b
  <2>1. free = {} BY <1>8 DEF Held, PerTree, Marks
  <2>2. line' = l BY <1>4, <1>8
  <2>3. Marks(busy') = B BY <1>8
  <2> HIDE DEF free, final, L, G, B, served
  <2> QED BY <1>5, <1>7, <1>8, <2>1, <2>2, <2>3
<1>9. CASE k > 0
  <2>1. b = {} /\ g = NoItem /\ l # <<>> BY <1>2, <1>4, <1>9 DEF Held
  <2>2. free = {Tree} /\ B = {} BY <2>1 DEF PerTree, Marks
  <2>3. final = l[k] BY <1>2, <1>9
  <2>4. line' = SubSeq(l, k + 1, Len(l)) BY <1>4
  <2> HIDE DEF free, final, L, G, B, served
  <2>5. \A i \in Items : Row'[i] = IF free # {} /\ i \in ToSet(served) THEN NoRow ELSE Row[i]
    BY <1>5, <1>9, <2>2
  <2>6. CASE granted' = l[k] /\ starting' = c \cup {l[k]} /\ busy' = b
    <3>1. Marks(busy') = {} BY <2>1, <2>6 DEF Marks
    <3> QED BY <1>7, <1>9, <2>1, <2>2, <2>3, <2>4, <2>5, <2>6, <3>1
  <2>7. CASE granted' = NoItem /\ starting' = c /\ \E s \in live : busy' = b \cup {s}
    <3>1. busy' # {} BY <2>7
    <3>2. Marks(busy') = {Tree} BY <3>1 DEF Marks
    <3> QED BY <1>7, <1>9, <2>1, <2>2, <2>4, <2>5, <2>7, <3>2
  <2>8. CASE k = Len(l) /\ granted' = NoItem /\ starting' = c /\ busy' = b
    <3>1. Marks(busy') = {} BY <2>1, <2>8 DEF Marks
    <3> QED BY <1>7, <1>9, <2>1, <2>2, <2>4, <2>5, <2>8, <3>1
  <2> QED BY <1>1, <1>9, <2>6, <2>7, <2>8 DEF PumpTook
<1>10. k > 0 \/ (k = 0 /\ (Held(g, b) \/ l = <<>>)
                 /\ granted' = g /\ starting' = c /\ busy' = b)
  BY <1>1 DEF PumpTook
<1> HIDE DEF Done
<1> QED BY <1>8, <1>9, <1>10

\* A session begins another turn, or none does: to the queue, work from outside.
LEMMA TurnRefines ==
    ASSUME up, UNCHANGED <<queue, disk, up, restarts>>, busy' # {} \/ busy' = busy
    PROVE  Contract!Next \/ UNCHANGED Contract!vars
<1>1. UNCHANGED <<line, granted, starting, late, saved, at, asked, clock, up, restarts>>
  BY DEF queue, disk
<1>2. /\ PerTree(line)' = PerTree(line) /\ PerTree(granted)' = PerTree(granted) /\ Row' = Row
      /\ {t \in {Tree} : late}' = {t \in {Tree} : late}
  BY <1>1, Zenon DEF PerTree, Row
<1>3. CASE Marks(busy') = Marks(busy)
  <2>1. UNCHANGED Contract!vars
    BY <1>1, <1>2, <1>3, Zenon
    DEF Contract!vars, Contract!memory, Contract!disk, Contract!server, PerTree, Row, Marks
  <2> QED BY <2>1
<1>4. CASE Marks(busy') # Marks(busy)
  <2>1. busy = {} /\ busy' # {} BY <1>4 DEF Marks
  <2>2. Tree \notin Marks(busy) /\ Marks(busy') = Marks(busy) \cup {Tree} BY <2>1 DEF Marks
  <2>3. Contract!OutsideTurn(Tree)
    BY <1>1, <1>2, <2>2, Zenon
    DEF Contract!OutsideTurn, Contract!memory, Contract!disk, Contract!server, PerTree, Row, Marks
  <2> QED BY <2>3, Zenon DEF Contract!Next
<1> QED BY <1>3, <1>4

\* A new waiter: the queue parks it behind the others.
LEMMA ParkRefines ==
    ASSUME TypeOK, LineInv, LineInv', NEW i \in Items, Ask(i), Park(i), Held(granted, busy),
           UNCHANGED <<busy, granted, starting, late, up, restarts>>
    PROVE  Contract!Enqueue(i)
<1>1. /\ up /\ i \notin asked /\ asked' = asked \cup {i} /\ Len(line) < MaxPerKey
      /\ clock' = clock + 1 /\ at' = [at EXCEPT ![i] = clock'] /\ saved' = saved \cup {i}
      /\ line' = Append(line, i)
  BY DEF Ask, Park
<1>2. line \in Seq(Items) /\ Ordered(line) /\ at \in [Items -> Nat]
  BY DEF TypeOK, LineInv, LineInOrder
<1>3. IsFiniteSet(ToSet(line)) /\ Cardinality(ToSet(line)) = Len(line)
  BY <1>2, LineSize DEF Ordered
<1>4. Contract!Held(Tree) BY Zenon DEF Contract!Held, Held
<1>5. ~Contract!Full(Tree)
  <2>1. UNION {Contract!ToSet(PerTree(line)[t]) : t \in {Tree}} = ToSet(line)
    BY DEF PerTree, ToSet, Contract!ToSet
  <2>2. Contract!Depth = Len(line)
    <3>1. Contract!Cardinality(ToSet(line)) = Len(line)
      BY <1>3, Zenon DEF Cardinality, Contract!Cardinality, IsFiniteSet, Contract!IsFiniteSet
    <3> QED BY <2>1, <3>1 DEF Contract!Depth, PerTree
  <2>3. Len(line) \in Nat /\ ~(Len(line) >= MaxPerKey) BY <1>1, <1>2, CapPositive
  <2> QED BY <2>2, <2>3 DEF Contract!Full
<1>6. Row' = [Row EXCEPT ![i] = clock']
  <2>1. \A j \in Items : Row'[j] = IF j = i THEN clock' ELSE Row[j] BY <1>1, <1>2 DEF Row
  <2> QED BY <2>1 DEF Row
<1>7. Ordered(line)' BY DEF LineInv, LineInOrder
<1>8. line' \in Contract!SetToSeqs(Contract!ToSet(PerTree(line)[Tree]) \cup {i})
  <2>1. i \notin ToSet(line) BY <1>1, <1>2 DEF Ordered
  <2>2. Cardinality(ToSet(line) \cup {i}) = Len(line) + 1 BY <1>3, <2>1, FS_AddElement
  <2>3. DOMAIN line' = 1..(Len(line) + 1) /\ Len(line) \in Nat BY <1>1, <1>2
  <2>4. \A n \in 1..Len(line) : line'[n] = line[n] /\ line[n] \in ToSet(line)
    BY <1>1, <1>2 DEF ToSet
  <2>5. line'[Len(line) + 1] = i BY <1>1, <1>2
  <2>6. line' \in [1..(Len(line) + 1) -> ToSet(line) \cup {i}]
    <3>1. \A n \in 1..(Len(line) + 1) : n \in 1..Len(line) \/ n = Len(line) + 1 BY <2>3
    <3>2. line' \in Seq(Items) BY <1>1, <1>2
    <3> QED BY <2>3, <2>4, <2>5, <3>1, <3>2
  <2>7. \A m, n \in 1..(Len(line) + 1) : m # n => line'[m] # line'[n]
    BY <1>7, <2>3 DEF Ordered, IsInjective
  <2>8. Contract!ToSet(PerTree(line)[Tree]) = ToSet(line) BY DEF PerTree, ToSet, Contract!ToSet
  <2>9. Contract!Cardinality(ToSet(line) \cup {i}) = Len(line) + 1
    BY <2>2, Zenon DEF Cardinality, Contract!Cardinality, IsFiniteSet, Contract!IsFiniteSet
  <2> QED BY <2>6, <2>7, <2>8, <2>9 DEF Contract!SetToSeqs
<1>9. Contract!Ascending(line', at') BY <1>7 DEF Ordered, Contract!Ascending
<1>10. PerTree(line)' = [PerTree(line) EXCEPT ![Tree] = line'] BY DEF PerTree
<1>11. UNCHANGED <<PerTree(granted), Marks(busy), starting, {t \in {Tree} : late}, up, restarts>>
  BY Zenon DEF PerTree, Marks
<1>12. [j \in Items |-> Tree][i] = Tree OBVIOUS
<1> QED
  BY <1>1, <1>4, <1>5, <1>6, <1>8, <1>9, <1>10, <1>11, <1>12
  DEF Contract!Enqueue, Contract!Submit, Contract!server, PerTree, Marks, Row

\* A full queue refuses; the prompt then goes to its session all the same.
LEMMA RefuseRefines ==
    ASSUME NEW i \in Items, Ask(i), Held(granted, busy), Len(line) >= MaxPerKey,
           busy' = busy \/ busy' # {},
           UNCHANGED <<line, granted, starting, late, saved, at, clock, up, restarts>>
    PROVE  Contract!Refuse(i)
<1>1. Contract!Held(Tree) BY Zenon DEF Contract!Held, Held
<1>2. Contract!Full(Tree) BY DEF Contract!Full
<1>3. Marks(busy') \in {Marks(busy), Marks(busy) \cup {Tree}} BY DEF Marks
<1>4. UNCHANGED <<PerTree(line), PerTree(granted), Row, {t \in {Tree} : late}>>
  BY Zenon DEF PerTree, Row
<1>5. [j \in Items |-> Tree][i] = Tree OBVIOUS
<1> QED
  BY <1>1, <1>2, <1>3, <1>4, <1>5
  DEF Contract!Refuse, Contract!Submit, Contract!memory, Contract!server, Ask, PerTree, Marks, Row

\* A person takes a waiter out, with its row.
LEMMA DropRefines ==
    ASSUME TypeOK, NEW i \in Items, TakeOut(i), saved' = saved \ {i},
           UNCHANGED <<granted, starting, late, at, asked, clock, up, restarts>>
    PROVE  Contract!Drop(i)
<1>1. PICK k \in DOMAIN line : up /\ line[k] = i /\ line' = RemoveAt(line, k) BY DEF TakeOut
<1>2. line' = Contract!RemoveAt(line, k) BY <1>1, Zenon DEF RemoveAt, Contract!RemoveAt
<1>3. [j \in Items |-> Tree][i] = Tree OBVIOUS
<1>4. PerTree(line)' = [PerTree(line) EXCEPT ![Tree] = Contract!RemoveAt(@, k)]
  BY <1>2 DEF PerTree
<1>5. PerTree(line)[Tree] = line BY DEF PerTree
<1>6. Row' = [Row EXCEPT ![i] = NoRow]
  <2>1. \A j \in Items : Row'[j] = IF j = i THEN NoRow ELSE Row[j] BY DEF Row
  <2> QED BY <2>1 DEF Row
<1>7. UNCHANGED <<PerTree(granted), {t \in {Tree} : late}>> BY Zenon DEF PerTree
<1> QED
  BY <1>1, <1>3, <1>4, <1>5, <1>6, <1>7
  DEF Contract!Drop, Contract!server, PerTree, Row

\* Turns end and the pump runs.
LEMMA SettleRefines ==
    ASSUME TypeOK, LineInv, up, NEW live, NEW b \in SUBSET busy, NEW q,
           Pump(line, granted, starting, live, b, q, fate),
           UNCHANGED <<at, asked, clock, up, restarts>>
    PROVE  Contract!Next
<1>1. line \in Seq(Items) /\ Len(line) <= MaxPerKey
  BY DEF TypeOK, LineInv, LineInOrder, Ordered
<1>2. Contract!Pump(PerTree(line), PerTree(granted), Marks(b), starting)
  <2>1. UNCHANGED at OBVIOUS
  <2> QED BY <1>1, <2>1, PumpRefines, Zenon DEF Contract!Pump, Contract!Pumped
<1>3. CASE Marks(b) = Marks(busy)
  <2>1. Contract!Pump(PerTree(line), PerTree(granted), Marks(busy), starting) BY <1>2, <1>3
  <2>2. Contract!Sweep BY <2>1, Zenon DEF Contract!Sweep, Contract!server, PerTree, Marks
  <2> QED BY <2>2, Zenon DEF Contract!Next
<1>4. CASE Marks(b) # Marks(busy)
  <2>1. b = {} /\ busy # {} BY <1>4 DEF Marks
  <2>2. Tree \in Marks(busy) /\ Marks(b) = Marks(busy) \ {Tree} BY <2>1 DEF Marks
  <2>3. Contract!Pump(PerTree(line), PerTree(granted), Marks(busy) \ {Tree}, starting)
    BY <1>2, <2>2
  <2>4. Contract!TurnEnds(Tree)
    BY <2>2, <2>3, Zenon DEF Contract!TurnEnds, Contract!server, PerTree, Marks
  <2> QED BY <2>4, Zenon DEF Contract!Next
<1> QED BY <1>3, <1>4

\* A server that boots adopts the rows in their order.
LEMMA BootRefines ==
    ASSUME TypeOK, LineInv, Boot PROVE Contract!Boot
<1>1. PICK l \in Adopted : Pump(l, granted, starting, Live, busy, inbox, fate) BY DEF Boot
<1>2. ~up /\ up' = TRUE /\ UNCHANGED <<at, asked, clock, restarts>> BY DEF Boot
<1>3. saved \subseteq Items /\ at \in [Items -> Nat] BY DEF TypeOK
<1>4. l \in Seq(Items) /\ Len(l) = Cardinality(saved) /\ ToSet(l) = saved
  BY <1>1, <1>3, AdoptedType
<1>5. Len(l) <= MaxPerKey BY <1>2, <1>4 DEF LineInv, RowsMatchLine
<1>6. Contract!Pump(PerTree(l), PerTree(granted), Marks(busy), starting)
  <2>1. UNCHANGED at BY <1>2
  <2> QED BY <1>1, <1>4, <1>5, <2>1, PumpRefines, Zenon DEF Contract!Pump, Contract!Pumped
<1>7. \A i \in Items : Row[i] # NoRow <=> i \in saved BY <1>3, NoRowOutside DEF Row
<1>8. {i \in Items : Row[i] # NoRow} = saved BY <1>3, <1>7
<1>9. l \in Contract!SetToSeqs(saved)
  <2>1. Contract!Cardinality(saved) = Cardinality(saved)
    BY Zenon DEF Cardinality, Contract!Cardinality, IsFiniteSet, Contract!IsFiniteSet
  <2> QED BY <1>1, <2>1 DEF Adopted, SetToSeqs, Contract!SetToSeqs
<1>10. PerTree(l) \in [{Tree} -> UNION {Contract!SetToSeqs(S) :
                                          S \in SUBSET {i \in Items : Row[i] # NoRow}}]
  BY <1>8, <1>9 DEF PerTree
<1>11. ASSUME NEW t \in {Tree}
       PROVE  /\ Contract!ToSet(PerTree(l)[t])
                   = {i \in Items : Row[i] # NoRow /\ [j \in Items |-> Tree][i] = t}
              /\ Contract!Ascending(PerTree(l)[t], Row)
  <2>1. PerTree(l)[t] = l BY DEF PerTree
  <2>2. Contract!ToSet(l) = saved BY <1>4 DEF ToSet, Contract!ToSet
  <2>3. {i \in Items : Row[i] # NoRow /\ [j \in Items |-> Tree][i] = t} = saved BY <1>3, <1>7
  <2>4. \A n \in DOMAIN l : l[n] \in saved /\ Row[l[n]] = at[l[n]]
    BY <1>3, <1>4 DEF ToSet, Row
  <2>5. Contract!Ascending(l, Row) BY <1>1, <2>4 DEF Adopted, Contract!Ascending
  <2> QED BY <2>1, <2>2, <2>3, <2>5
<1>12. at' = [i \in Items |-> IF Row[i] = NoRow THEN at[i] ELSE Row[i]]
  BY <1>2, <1>3, <1>7 DEF Row
<1> QED
  BY <1>2, <1>6, <1>10, <1>11, <1>12, Zenon DEF Contract!Boot, PerTree, Marks, Row

\* A start that failed gives the grant back, if it still holds it, and pumps.
LEMMA ReleaseRefines ==
    ASSUME TypeOK, LineInv, NEW d \in Deliveries, StartFails(d)
    PROVE  Contract!Release(d)
<1>1. /\ up /\ d \in starting /\ UNCHANGED <<at, asked, clock, up, restarts>>
      /\ Pump(line, GrantAfter(d), starting \ {d}, Live, busy, inbox, fate)
  BY DEF StartFails
<1>2. line \in Seq(Items) /\ Len(line) <= MaxPerKey /\ d \in asked /\ d \in Items
  BY <1>1 DEF TypeOK, LineInv, LineInOrder, Ordered, Items
<1>3. Contract!Pump(PerTree(line), PerTree(GrantAfter(d)), Marks(busy), starting \ {d})
  <2>1. UNCHANGED at BY <1>1
  <2> QED BY <1>1, <1>2, <2>1, PumpRefines, Zenon DEF Contract!Pump, Contract!Pumped
<1>4. [j \in Items |-> Tree][d] = Tree BY <1>2
<1>5. Contract!GiveBack(PerTree(granted), d) = PerTree(GrantAfter(d))
  BY <1>4 DEF Contract!GiveBack, PerTree, GrantAfter
<1>6. Contract!Pump(PerTree(line), Contract!GiveBack(PerTree(granted), d), Marks(busy),
                    starting \ {d})
  BY <1>3, <1>5
<1> QED
  BY <1>1, <1>2, <1>6, Zenon DEF Contract!Release, Contract!server, PerTree, Marks

\* The initial states of the gate are initial states of the queue.
LEMMA RefineInit == Init => Contract!Init
<1> SUFFICES ASSUME Init PROVE Contract!Init OBVIOUS
<1>1. /\ busy = {} /\ line = <<>> /\ granted = NoItem /\ starting = {} /\ saved = {}
      /\ at = [i \in Items |-> 0] /\ asked = {} /\ clock = 0 /\ restarts = 0
  BY DEF Init
<1>2. up = TRUE /\ late = FALSE BY DEF Init
<1>3. Marks(busy) = {} /\ {t \in {Tree} : late} = {} /\ Row = [i \in Items |-> NoRow]
  BY <1>1, <1>2 DEF Marks, Row
<1> QED
  BY <1>1, <1>2, <1>3
  DEF Contract!Init, Contract!EmptyLine, Contract!NoGrant, PerTree, Marks, Row

\* Every step of the gate is a step of the queue, or none of its business.
LEMMA RefineStep ==
    ASSUME TypeOK, LineInv, LineInv', [Next]_vars
    PROVE  Contract!Next \/ UNCHANGED Contract!vars
<1> USE DEF queue, work, disk
<1>0. /\ Prompts \subseteq Items /\ Deliveries \subseteq Items
      /\ saved \subseteq asked /\ asked \subseteq Items /\ at \in [Items -> Nat]
  BY DEF TypeOK, Items
<1>1. ASSUME NEW i \in Items, Contract!ItemStep(i) PROVE Contract!Next
  BY <1>1, Zenon DEF Contract!Next
<1>2. ASSUME NEW p \in Prompts, SendNow(p) PROVE Contract!Next \/ UNCHANGED Contract!vars
  <2>1. up /\ UNCHANGED <<queue, disk, up, restarts>> /\ busy' # {}
    BY <1>2 DEF SendNow, PutToWork
  <2> QED BY <2>1, TurnRefines
<1>3. ASSUME NEW s \in Sessions, OutsideTurn(s) \/ OpenChat(s)
      PROVE  Contract!Next \/ UNCHANGED Contract!vars
  <2>1. up /\ UNCHANGED <<queue, disk, up, restarts>> /\ (busy' # {} \/ busy' = busy)
    BY <1>3 DEF OutsideTurn, OpenChat, PutBeside, PutToWork
  <2> QED BY <2>1, TurnRefines
<1>4. ASSUME NEW p \in Prompts, QueuePrompt(p) PROVE Contract!Next
  <2>1. /\ Held(granted, busy) /\ Ask(p) /\ Park(p)
        /\ UNCHANGED <<busy, granted, starting, late, up, restarts>>
    BY <1>4 DEF QueuePrompt, Blocked, Held
  <2>2. Contract!Enqueue(p) BY <1>0, <2>1, ParkRefines
  <2> QED BY <1>0, <1>1, <2>2, Zenon DEF Contract!ItemStep
<1>5. ASSUME NEW d \in Deliveries, QueueDelivery(d) PROVE Contract!Next
  <2>1. /\ Held(granted, busy) /\ Ask(d) /\ Park(d)
        /\ UNCHANGED <<busy, granted, starting, late, up, restarts>>
    BY <1>5 DEF QueueDelivery
  <2>2. Contract!Enqueue(d) BY <1>0, <2>1, ParkRefines
  <2> QED BY <1>0, <1>1, <2>2, Zenon DEF Contract!ItemStep
<1>6. ASSUME NEW p \in Prompts, SendPastFull(p) PROVE Contract!Next
  <2>1. /\ Held(granted, busy) /\ Ask(p) /\ Len(line) >= MaxPerKey /\ busy' # {}
        /\ UNCHANGED <<line, granted, starting, late, saved, at, clock, up, restarts>>
    BY <1>6 DEF SendPastFull, Blocked, Held, PutBeside, PutToWork
  <2>2. Contract!Refuse(p) BY <1>0, <2>1, RefuseRefines
  <2> QED BY <1>0, <1>1, <2>2, Zenon DEF Contract!ItemStep
<1>7. ASSUME NEW d \in Deliveries, Throttle(d) PROVE Contract!Next
  <2>1. /\ Held(granted, busy) /\ Ask(d) /\ Len(line) >= MaxPerKey /\ busy' = busy
        /\ UNCHANGED <<line, granted, starting, late, saved, at, clock, up, restarts>>
    BY <1>7 DEF Throttle
  <2>2. Contract!Refuse(d) BY <1>0, <2>1, RefuseRefines
  <2> QED BY <1>0, <1>1, <2>2, Zenon DEF Contract!ItemStep
<1>8. ASSUME NEW d \in Deliveries, Acquire(d) PROVE Contract!Next
  <2>1. /\ up /\ d \notin asked /\ asked' = asked \cup {d} /\ ~Held(granted, busy)
        /\ granted' = d /\ starting' = starting \cup {d}
        /\ UNCHANGED <<busy, line, late, saved, at, clock, up, restarts>>
    BY <1>8 DEF Acquire, Ask
  <2>2. ~Contract!Held(Tree) BY <2>1 DEF Contract!Held, Held
  <2>3. [j \in Items |-> Tree][d] = Tree BY <1>0
  <2>4. PerTree(granted)' = [PerTree(granted) EXCEPT ![Tree] = d] BY <2>1 DEF PerTree
  <2>5. UNCHANGED <<PerTree(line), Marks(busy), Row, {t \in {Tree} : late}>>
    BY <2>1, Zenon DEF PerTree, Marks, Row
  <2>6. Contract!TryAcquire(d)
    BY <2>1, <2>2, <2>3, <2>4, <2>5
    DEF Contract!TryAcquire, Contract!Submit, Contract!server, PerTree, Marks, Row
  <2> QED BY <1>0, <1>1, <2>6, Zenon DEF Contract!ItemStep
<1>9. ASSUME NEW d \in Deliveries, NEW s \in Sessions, Started(d, s) PROVE Contract!Next
  <2>1. /\ up /\ d \in starting /\ starting' = starting \ {d} /\ granted' = GrantAfter(d)
        /\ busy' # {}
        /\ UNCHANGED <<line, late, saved, at, asked, clock, up, restarts>>
    BY <1>9 DEF Started
  <2>2. [j \in Items |-> Tree][d] = Tree BY <1>0
  <2>3. PerTree(granted)' = Contract!GiveBack(PerTree(granted), d)
    BY <2>1, <2>2 DEF Contract!GiveBack, PerTree, GrantAfter
  <2>4. Marks(busy)' = Marks(busy) \cup {Tree} BY <2>1 DEF Marks
  <2>5. UNCHANGED <<PerTree(line), Row, {t \in {Tree} : late}>>
    BY <2>1, Zenon DEF PerTree, Row
  <2>6. Contract!Started(d)
    BY <2>1, <2>2, <2>3, <2>4, <2>5
    DEF Contract!Started, Contract!disk, Contract!server, PerTree, Marks, Row
  <2> QED BY <1>0, <1>1, <2>6, Zenon DEF Contract!ItemStep
<1>10. ASSUME NEW d \in Deliveries, StartFails(d) PROVE Contract!Next
  <2>1. Contract!Release(d) BY <1>10, ReleaseRefines
  <2> QED BY <1>0, <1>1, <2>1, Zenon DEF Contract!ItemStep
<1>11. ASSUME NEW i \in Items, Cancel(i) PROVE Contract!Next
  <2>1. /\ TakeOut(i) /\ saved' = saved \ {i} /\ busy' = busy
        /\ UNCHANGED <<granted, starting, late, at, asked, clock, up, restarts>>
    BY <1>11 DEF Cancel
  <2>2. Contract!Drop(i) BY <2>1, DropRefines
  <2>3. UNCHANGED Marks(busy) BY <2>1, Zenon DEF Marks
  <2>4. Contract!Cancel(i) BY <2>2, <2>3, Zenon DEF Contract!Cancel, Marks
  <2> QED BY <1>1, <2>4, Zenon DEF Contract!ItemStep
<1>12. ASSUME NEW p \in Prompts, ForcePrompt(p) PROVE Contract!Next
  <2>1. /\ TakeOut(p) /\ saved' = saved \ {p} /\ (busy' = busy \/ busy' # {})
        /\ UNCHANGED <<granted, starting, late, at, asked, clock, up, restarts>>
    BY <1>12 DEF ForcePrompt, PutBeside, PutToWork
  <2>2. Contract!Drop(p) BY <1>0, <2>1, DropRefines
  <2>3. Marks(busy)' \in {Marks(busy), Marks(busy) \cup {Tree}} BY <2>1 DEF Marks
  <2>4. [j \in Items |-> Tree][p] = Tree BY <1>0
  <2>5. Contract!Forget(p) BY <2>2, <2>3, <2>4 DEF Contract!Forget, Marks
  <2> QED BY <1>0, <1>1, <2>5, Zenon DEF Contract!ItemStep
<1>13. ASSUME NEW d \in Deliveries, ClearRow(d) PROVE Contract!Next
  <2>1. /\ up /\ d \in saved /\ saved' = saved \ {d}
        /\ UNCHANGED <<busy, line, granted, starting, late, at, asked, clock, up, restarts>>
    BY <1>13 DEF ClearRow
  <2>2. Row[d] # NoRow BY <1>0, <2>1, NoRowOutside DEF Row
  <2>3. Row' = [Row EXCEPT ![d] = NoRow]
    <3>1. \A j \in Items : Row'[j] = IF j = d THEN NoRow ELSE Row[j] BY <2>1 DEF Row
    <3> QED BY <3>1 DEF Row
  <2>4. UNCHANGED <<PerTree(line), PerTree(granted), Marks(busy), {t \in {Tree} : late}>>
    BY <2>1, Zenon DEF PerTree, Marks
  <2>5. Contract!LoseRow(d)
    BY <2>1, <2>2, <2>3, <2>4
    DEF Contract!LoseRow, Contract!memory, Contract!server, PerTree, Marks, Row
  <2> QED BY <1>0, <1>1, <2>5, Zenon DEF Contract!ItemStep
<1>14. ASSUME NEW s \in Sessions, TurnComplete(s) \/ End(s) PROVE Contract!Next
  <2>1. /\ \E b \in SUBSET busy : \E live, q : Pump(line, granted, starting, live, b, q, fate)
        /\ up /\ UNCHANGED <<at, asked, clock, up, restarts>>
    BY <1>14 DEF TurnComplete, End
  <2> QED BY <2>1, SettleRefines
<1>15. ASSUME Sweep PROVE Contract!Next
  <2>1. /\ Pump(line, granted, starting, Live, busy, inbox, fate)
        /\ up /\ UNCHANGED <<at, asked, clock, up, restarts>> /\ busy \in SUBSET busy
    BY <1>15 DEF Sweep
  <2> QED BY <2>1, SettleRefines
<1>16. ASSUME NEW s \in Sessions, Quieten(s) PROVE Contract!Next \/ UNCHANGED Contract!vars
  <2>1. /\ up /\ busy # {} /\ late' = (late \/ busy' = {})
        /\ UNCHANGED <<line, granted, starting, saved, at, asked, clock, up, restarts>>
    BY <1>16 DEF Quieten
  <2>2. UNCHANGED <<PerTree(line), PerTree(granted), Row>> BY <2>1, Zenon DEF PerTree, Row
  <2>3. CASE busy' = {}
    <3>1. late' BY <2>1, <2>3
    <3>2. {t \in {Tree} : late}' = {t \in {Tree} : late} \cup {Tree} BY <3>1
    <3>3. Tree \in Marks(busy) /\ Marks(busy)' = Marks(busy) \ {Tree} BY <2>1, <2>3 DEF Marks
    <3>4. Contract!TurnEndsQuietly(Tree)
      BY <2>1, <2>2, <3>2, <3>3, Zenon
      DEF Contract!TurnEndsQuietly, Contract!disk, Contract!server, PerTree, Marks, Row
    <3> QED BY <3>4, Zenon DEF Contract!Next
  <2>4. CASE busy' # {}
    <3>1. late' <=> late BY <2>1, <2>4
    <3>2. {t \in {Tree} : late}' = {t \in {Tree} : late} BY <3>1
    <3>3. Marks(busy)' = Marks(busy) BY <2>1, <2>4 DEF Marks
    <3>4. UNCHANGED Contract!vars
      BY <2>1, <2>2, <3>2, <3>3, Zenon
      DEF Contract!vars, Contract!memory, Contract!disk, Contract!server, PerTree, Marks, Row
    <3> QED BY <3>4
  <2> QED BY <2>3, <2>4
<1>17. ASSUME GoDown PROVE Contract!Next
  <2>1. /\ up /\ restarts < MaxRestarts /\ restarts' = restarts + 1 /\ up' = FALSE
        /\ busy' = {} /\ line' = <<>> /\ granted' = NoItem /\ starting' = {}
        /\ UNCHANGED <<saved, at, asked, clock>>
    BY <1>17 DEF GoDown
  <2>2. late' = FALSE BY <1>17 DEF GoDown
  <2>3. Marks(busy)' = {} /\ {t \in {Tree} : late}' = {} BY <2>1, <2>2 DEF Marks
  <2>4. Row' = Row BY <2>1, Zenon DEF Row
  <2>5. PerTree(line)' = Contract!EmptyLine /\ PerTree(granted)' = Contract!NoGrant
    BY <2>1 DEF PerTree, Contract!EmptyLine, Contract!NoGrant
  <2>6. Contract!GoDown
    BY <2>1, <2>3, <2>4, <2>5, Zenon DEF Contract!GoDown, Contract!disk, PerTree, Marks, Row
  <2> QED BY <2>6, Zenon DEF Contract!Next
<1>18. ASSUME Boot PROVE Contract!Next
  BY <1>18, BootRefines, Zenon DEF Contract!Next
<1>19. CASE UNCHANGED vars
  <2>1. UNCHANGED <<busy, line, granted, starting, late, saved, at, asked, clock, up, restarts>>
    BY <1>19 DEF vars
  <2> QED
    BY <2>1, Zenon
    DEF Contract!vars, Contract!memory, Contract!disk, Contract!server
<1> QED BY <1>2, <1>3, <1>4, <1>5, <1>6, <1>7, <1>8, <1>9, <1>10, <1>11, <1>12, <1>13, <1>14,
           <1>15, <1>16, <1>17, <1>18, <1>19 DEF Next

\* Prompts, deliveries and sessions together keep to the queue's contract, so
\* what is proved of the queue holds of them (queue.ts; prompt-queue.ts and
\* webhooks/index.ts as its producers).
THEOREM GateKeepsContract == Spec => KeepsContract
<1>1. TypeOK /\ LineInv /\ (TypeOK /\ LineInv)' /\ [Next]_vars => [Contract!Next]_Contract!vars
  BY RefineStep
<1> QED BY <1>1, RefineInit, LineInvariant, PTL DEF Spec, KeepsContract, Contract!Spec

\* The queue the gate keeps the contract of is the one the theorems are about.
LEMMA SameQueue == KeepsContract => QueueProofs!Spec
<1>1. Contract!Init => QueueProofs!Init
  BY Zenon DEF Contract!Init, QueueProofs!Init, Contract!EmptyLine, QueueProofs!EmptyLine,
               Contract!NoGrant, QueueProofs!NoGrant
<1>2. Contract!Next => QueueProofs!Next
  BY Zenon
  DEF Contract!TryAcquire, QueueProofs!TryAcquire, Contract!Enqueue, QueueProofs!Enqueue,
      Contract!Refuse, QueueProofs!Refuse, Contract!Started, QueueProofs!Started,
      Contract!StartedElsewhere, QueueProofs!StartedElsewhere, Contract!Release,
      QueueProofs!Release, Contract!Cancel, QueueProofs!Cancel, Contract!Forget,
      QueueProofs!Forget, Contract!MoveToFront, QueueProofs!MoveToFront, Contract!LoseRow,
      QueueProofs!LoseRow, Contract!TurnEnds, QueueProofs!TurnEnds, Contract!TurnEndsQuietly,
      QueueProofs!TurnEndsQuietly, Contract!OutsideTurn, QueueProofs!OutsideTurn,
      Contract!Sweep, QueueProofs!Sweep, Contract!GoDown, QueueProofs!GoDown, Contract!Boot,
      QueueProofs!Boot, Contract!ItemStep, QueueProofs!ItemStep, Contract!Next,
      QueueProofs!Next, Contract!vars, QueueProofs!vars, Contract!memory, QueueProofs!memory,
      Contract!disk, QueueProofs!disk, Contract!server, QueueProofs!server, Contract!EmptyLine,
      QueueProofs!EmptyLine, Contract!NoGrant, QueueProofs!NoGrant, Contract!Ascending,
      QueueProofs!Ascending, Contract!Held, QueueProofs!Held, Contract!Depth, QueueProofs!Depth,
      Contract!Full, QueueProofs!Full, Contract!Shift, QueueProofs!Shift, Contract!Outcomes,
      QueueProofs!Outcomes, Contract!Pumped, QueueProofs!Pumped, Contract!Pump,
      QueueProofs!Pump, Contract!Submit, QueueProofs!Submit, Contract!GiveBack,
      QueueProofs!GiveBack, Contract!Drop, QueueProofs!Drop, Contract!ToSet, QueueProofs!ToSet,
      Contract!SetToSeqs, QueueProofs!SetToSeqs, Contract!RemoveAt, QueueProofs!RemoveAt,
      Contract!Cardinality, QueueProofs!Cardinality, Contract!IsFiniteSet,
      QueueProofs!IsFiniteSet
<1>3. [Contract!Next]_Contract!vars => [QueueProofs!Next]_QueueProofs!vars
  BY <1>2, Zenon
  DEF Contract!vars, QueueProofs!vars, Contract!memory, Contract!disk, Contract!server,
      QueueProofs!memory, QueueProofs!disk, QueueProofs!server
<1> QED BY <1>1, <1>3, PTL DEF KeepsContract, Contract!Spec, QueueProofs!Spec

\* So the tree goes to whoever waited longest and only when it is free, no
\* waiter is left standing behind a free tree that was announced, grants and
\* runs match, and the rows on disk say what the line says (pump, holderOf and
\* init as prompts, deliveries and sessions drive them).
THEOREM GateServesInTurn ==
    Spec => /\ QueueProofs!GrantsInTurn
            /\ [](/\ QueueProofs!NoStrandedWaiter
                  /\ QueueProofs!GrantsMatchRuns
                  /\ QueueProofs!DiskAgreesWithLine)
<1>1. Spec => QueueProofs!Spec BY GateKeepsContract, SameQueue, PTL
<1>2. QueueProofs!Spec => QueueProofs!GrantsInTurn
  BY QueueAssumptions, QueueProofs!GrantedInTurn
<1>3. QueueProofs!Spec => []QueueProofs!NoStrandedWaiter
  BY QueueAssumptions, QueueProofs!NeverStranded
<1>4. QueueProofs!Spec => []QueueProofs!GrantsMatchRuns
  BY QueueAssumptions, QueueProofs!NeverEvicted
<1>5. QueueProofs!Spec => []QueueProofs!DiskAgreesWithLine
  BY QueueAssumptions, QueueProofs!DiskAgrees
<1> QED BY <1>1, <1>2, <1>3, <1>4, <1>5, PTL
=============================================================================
