------------------------- MODULE SessionStreamProofs -------------------------
(***************************************************************************)
(* Pages show a session's output in order, and a terminal page keeps the   *)
(* promise of LiveView, for any limits, restarts and losses.               *)
(***************************************************************************)
EXTENDS SessionStream, SequenceTheorems, TLAPS

\* The next frame is the answer to the attach.
Answered == wire # <<>> /\ wire[1].kind = "attached"

\* What was appended last is never evicted.
Window == last = 0 \/ first <= last

\* An answer gives what the client lacks of this epoch, up to what was there;
\* when it says that nothing was left out, it goes on where the client is.
Answer(f) ==
    /\ f.epoch = epoch
    /\ f.to \in 0..last
    /\ f.lo \in 1..(f.to + 1)
    /\ IF f.truncated
       THEN f.lo <= first /\ (f.to = 0 \/ f.lo <= f.to) /\ (clientEpoch = epoch => lastSeq + 1 < f.lo)
       ELSE f.lo = lastSeq + 1 /\ (clientEpoch # epoch => lastSeq = 0)

\* The client has seen nothing that is not there, and lastSeq is the last item
\* it shows.
ClientKnows ==
    /\ clientEpoch <= epoch
    /\ clientEpoch = 0 => lastSeq = 0
    /\ clientEpoch = epoch => lastSeq <= last
    /\ IF shown = <<>> THEN lastSeq = 0 ELSE shown[Len(shown)][2] = lastSeq

\* A subscribed socket is one whose attach was answered, with what the client
\* is still at; no frame goes to another.
SocketKnows ==
    /\ link = "down" => request = <<>> /\ ~subscribed
    /\ request # <<>> => ~subscribed /\ request = <<lastSeq, clientEpoch>>
    /\ wire # <<>> => subscribed
    /\ subscribed /\ ~Answered => clientEpoch = epoch

\* The answer comes first, and the items after it exist.
WireHolds ==
    \A i \in DOMAIN wire :
        IF wire[i].kind = "attached" THEN i = 1 /\ Answer(wire[1]) ELSE wire[i].seq \in 1..last

\* What a terminal's client will have once the answer is in.
Base == IF Answered THEN wire[1].to - 1 ELSE lastSeq

\* A terminal's items come one after the other, and an open socket has them all.
Gapless ==
    transport = "terminal" =>
        /\ \A i \in DOMAIN wire : wire[i].kind = "item" => wire[i].seq = Base + i
        /\ link = "up" /\ subscribed => Base + Len(wire) = last

StreamInv == Window /\ ClientKnows /\ SocketKnows /\ WireHolds /\ Gapless

-----------------------------------------------------------------------------
(* Sending.                                                                 *)

\* What the two kinds of frame carry.
LEMMA FrameKinds ==
    ASSUME NEW f \in Frames
    PROVE  \/ /\ f.kind = "attached" /\ f.epoch \in 1..MaxEpoch /\ f.lo \in Nat /\ f.to \in Nat
              /\ f.truncated \in BOOLEAN
           \/ f.kind = "item" /\ f.seq \in Nat \ {0}
BY DEF Frames

\* An item is a frame.
LEMMA ItemIsFrame ==
    ASSUME NEW n \in Nat \ {0}
    PROVE  Item(n) \in Frames /\ Item(n).kind = "item" /\ Item(n).seq = n
BY DEF Item, Frames

\* send() does nothing, closes, or appends.
LEMMA Sent ==
    ASSUME NEW l, NEW w, NEW frame
    PROVE  LET out == Send([link |-> l, wire |-> w], frame)
           IN \/ l # "up" /\ out.link = l /\ out.wire = w
              \/ l = "up" /\ Len(w) >= MaxBuffered /\ out.link = "closing" /\ out.wire = w
              \/ l = "up" /\ out.link = l /\ out.wire = Append(w, frame)
BY DEF Send

\* w is the wire and items of the session behind it.
Longer(w, total) ==
    /\ w \in Seq(Frames)
    /\ Len(wire) <= Len(w)
    /\ \A i \in 1..Len(wire) : w[i] = wire[i]
    /\ \A i \in (Len(wire) + 1)..Len(w) : w[i].kind = "item" /\ w[i].seq \in 1..total

\* Sending one more item keeps it so.
LEMMA SendKeepsLonger ==
    ASSUME wire \in Seq(Frames), NEW total \in Nat, NEW n \in 1..total,
           NEW l, NEW w, Longer(w, total)
    PROVE  LET out == Send([link |-> l, wire |-> w], Item(n))
           IN Longer(out.wire, total) /\ out.link \in {l, "closing"}
<1> DEFINE out == Send([link |-> l, wire |-> w], Item(n))
<1>1. Item(n) \in Frames /\ Item(n).kind = "item" /\ Item(n).seq = n BY ItemIsFrame
<1>2. Longer(Append(w, Item(n)), total)
  <2> DEFINE v == Append(w, Item(n))
  <2>1. w \in Seq(Frames) /\ Len(w) \in Nat /\ Len(wire) \in Nat BY DEF Longer
  <2>2. v \in Seq(Frames) /\ Len(v) = Len(w) + 1 /\ v[Len(w) + 1] = Item(n)
        /\ \A i \in 1..Len(w) : v[i] = w[i]
    BY <1>1, <2>1
  <2> HIDE DEF v
  <2>3. \A i \in (Len(wire) + 1)..Len(v) : i \in (Len(wire) + 1)..Len(w) \/ i = Len(w) + 1
    BY <2>1, <2>2
  <2>4. \A i \in (Len(wire) + 1)..Len(v) : v[i].kind = "item" /\ v[i].seq \in 1..total
    <3> SUFFICES ASSUME NEW i \in (Len(wire) + 1)..Len(v)
                 PROVE  v[i].kind = "item" /\ v[i].seq \in 1..total
      OBVIOUS
    <3>1. CASE i \in (Len(wire) + 1)..Len(w)
      <4>1. v[i] = w[i] BY <2>1, <2>2, <3>1
      <4> QED BY <3>1, <4>1 DEF Longer
    <3>2. CASE i = Len(w) + 1 BY <1>1, <2>2, <3>2
    <3> QED BY <2>3, <3>1, <3>2
  <2>5. \A i \in 1..Len(wire) : v[i] = wire[i] BY <2>1, <2>2 DEF Longer
  <2>6. Len(wire) <= Len(v) BY <2>1, <2>2 DEF Longer
  <2>7. Longer(v, total) BY <2>2, <2>4, <2>5, <2>6 DEF Longer
  <2> QED BY <2>7 DEF v
<1>3. out.link \in {l, "closing"} /\ (out.wire = w \/ out.wire = Append(w, Item(n)))
  BY Sent
<1> QED BY <1>2, <1>3

-----------------------------------------------------------------------------
(* The invariant.                                                           *)

Inv == TypeOK /\ InOrder /\ StreamInv

\* It holds of a session nobody has attached to.
LEMMA StreamInit == Init => Inv
<1> SUFFICES ASSUME Init PROVE Inv OBVIOUS
<1>1. /\ transport \in Transports /\ epoch = 1 /\ first = 1 /\ last = 0
      /\ link = "down" /\ request = <<>> /\ wire = <<>>
      /\ clientEpoch = 0 /\ lastSeq = 0 /\ shown = <<>> /\ losses = 0
  BY DEF Init
<1>2. alive = TRUE /\ subscribed = FALSE BY DEF Init
<1>3. DOMAIN wire = {} /\ DOMAIN shown = {} BY <1>1
<1>4. TypeOK
  <2>1. wire \in Seq(Frames) /\ shown \in Seq((1..MaxEpoch) \X (1..MaxSeq)) BY <1>1
  <2>2. alive \in BOOLEAN /\ subscribed \in BOOLEAN BY <1>2
  <2> QED BY <1>1, <2>1, <2>2, LimitsType DEF TypeOK
<1>5. InOrder /\ Window BY <1>1, <1>3 DEF InOrder, Window
<1>6. ClientKnows BY <1>1 DEF ClientKnows
<1>7. SocketKnows BY <1>1, <1>2 DEF SocketKnows
<1>8. WireHolds BY <1>3 DEF WireHolds
<1>9. Gapless BY <1>1, <1>2, <1>3 DEF Gapless
<1> QED BY <1>4, <1>5, <1>6, <1>7, <1>8, <1>9 DEF Inv, StreamInv

\* What replayAfter gives a client that shows everything up to after.
LEMMA ReplayGives ==
    ASSUME last \in Nat, first \in 1..(last + 1), Window, NEW after \in Nat
    PROVE  LET replay == ReplayAfter(after)
           IN /\ replay.to = last
              /\ replay.truncated \in BOOLEAN
              /\ replay.lo \in 1..(last + 1)
              /\ replay.truncated => replay.lo = first /\ first <= last /\ after + 1 < first
              /\ ~replay.truncated /\ after <= last => replay.lo = after + 1
<1> DEFINE given == ReplayAfter(after)
<1>1. CASE after >= last
  <2>1. given = [lo |-> last + 1, to |-> last, truncated |-> FALSE] BY <1>1 DEF ReplayAfter
  <2> HIDE DEF given
  <2>2. given.to = last /\ given.lo = last + 1 BY <2>1
  <2>3. given.truncated = FALSE BY <2>1
  <2>4. last + 1 \in 1..(last + 1) /\ (after <= last => last + 1 = after + 1) BY <1>1
  <2>5. given.truncated \in BOOLEAN /\ ~given.truncated BY <2>3
  <2> QED BY <2>2, <2>4, <2>5 DEF given
<1>2. CASE after < last
  <2>1. ~(after >= last) BY <1>2
  <2>2. CASE after + 1 < first
    <3>1. given.to = last /\ given.lo = first /\ given.truncated = TRUE
      BY <2>1, <2>2 DEF ReplayAfter
    <3>2. first <= last BY <1>2 DEF Window
    <3> QED BY <2>2, <3>1, <3>2
  <2>3. CASE ~(after + 1 < first)
    <3>1. given = [lo |-> after + 1, to |-> last, truncated |-> after + 1 < first]
      BY <2>1, <2>3, Zenon DEF ReplayAfter
    <3> HIDE DEF given
    <3>2. given.to = last /\ given.lo = after + 1 BY <3>1
    <3>3. given.truncated = (after + 1 < first) BY <3>1
    <3>a. (after + 1 < first) = FALSE BY <2>3
    <3>4. given.truncated = FALSE BY <3>3, <3>a, Zenon
    <3>6. given.truncated \in BOOLEAN /\ ~given.truncated BY <3>4
    <3>5. after + 1 \in 1..(last + 1) BY <1>2
    <3> QED BY <3>2, <3>6, <3>5 DEF given
  <2> QED BY <2>2, <2>3
<1> QED BY <1>1, <1>2

\* An answer on its way stays true while the client stays where it is and the
\* buffer only moves on.
LEMMA AnswerStands ==
    ASSUME NEW f, Answer(f), first \in Nat, first' \in Nat, first <= first',
           last \in Nat, last' \in Nat, last <= last',
           epoch' = epoch, clientEpoch' = clientEpoch, lastSeq' = lastSeq
    PROVE  Answer(f)'
<1>1. f.lo \in 1..(f.to + 1) /\ f.to \in 0..last /\ f.epoch = epoch BY DEF Answer
<1>2. f.to \in 0..last' /\ (f.lo <= first => f.lo <= first') BY <1>1
<1>3. CASE f.truncated
  <2>1. f.lo <= first /\ (f.to = 0 \/ f.lo <= f.to) /\ (clientEpoch = epoch => lastSeq + 1 < f.lo)
    BY <1>3 DEF Answer
  <2> QED BY <1>1, <1>2, <1>3, <2>1 DEF Answer
<1>4. CASE ~f.truncated
  <2>1. f.lo = lastSeq + 1 /\ (clientEpoch # epoch => lastSeq = 0) BY <1>4 DEF Answer
  <2> QED BY <1>1, <1>2, <1>4, <2>1 DEF Answer
<1> QED BY <1>3, <1>4

\* The session emits.  What the client has does not change, and what is on the
\* wire gets longer.
LEMMA EmitStep ==
    ASSUME Inv, Emit \/ EmitAndDeliver PROVE Inv'
<1>0. /\ TypeOK /\ InOrder /\ Window /\ ClientKnows /\ SocketKnows /\ WireHolds /\ Gapless
      /\ wire \in Seq(Frames) /\ last \in 0..MaxSeq /\ MaxSeq \in Nat /\ last \in Nat
      /\ first \in 1..(last + 1) /\ epoch \in 1..MaxEpoch /\ clientEpoch \in 0..MaxEpoch
      /\ lastSeq \in 0..MaxSeq
  BY LimitsType DEF Inv, StreamInv, TypeOK
<1>1. UNCHANGED <<transport, alive, epoch, request, subscribed, client, losses>>
  BY DEF Emit, EmitAndDeliver
<1>2. PICK k \in {1, 2} : Store(k) BY DEF Emit, EmitAndDeliver
<1>3. last' = last + k /\ last + k <= MaxSeq /\ first' \in first..last' BY <1>2 DEF Store
<1>4. Longer(wire', last') /\ link' \in {link, "closing"}
      /\ (~subscribed => wire' = wire /\ link' = link)
  <2>1. CASE ~subscribed
    <3>1. wire' = wire /\ link' = link BY <2>1 DEF Emit, EmitAndDeliver, Forward
    <3>2. Longer(wire, last') BY <1>0 DEF Longer
    <3> QED BY <2>1, <3>1, <3>2
  <2>2. CASE subscribed /\ Emit
    <3>1. link' = Send(Here, Item(last + 1)).link /\ wire' = Send(Here, Item(last + 1)).wire
      BY <2>2 DEF Emit, Forward
    <3>2. last' \in Nat /\ last + 1 \in 1..last' BY <1>0, <1>3
    <3>3. Longer(wire, last') BY <1>0 DEF Longer
    <3> QED BY <1>0, <2>2, <3>1, <3>2, <3>3, SendKeepsLonger DEF Here
  <2>3. CASE subscribed /\ EmitAndDeliver
    <3> DEFINE mid == Send(Here, Item(last + 2))
    <3>1. link' = Send(mid, Item(last + 1)).link /\ wire' = Send(mid, Item(last + 1)).wire
      BY <2>3 DEF EmitAndDeliver, Forward
    <3>2. Store(2) BY <2>3 DEF EmitAndDeliver
    <3>3. last' \in Nat /\ last + 1 \in 1..last' /\ last + 2 \in 1..last'
      BY <1>0, <3>2 DEF Store
    <3>4. Longer(wire, last') BY <1>0 DEF Longer
    <3>5. Longer(mid.wire, last') /\ mid.link \in {link, "closing"}
      BY <1>0, <3>3, <3>4, SendKeepsLonger DEF Here
    <3>6. mid = [link |-> mid.link, wire |-> mid.wire] BY DEF Send, Here
    <3> HIDE DEF mid
    <3> QED BY <1>0, <2>3, <3>1, <3>3, <3>5, <3>6, SendKeepsLonger
  <2> QED BY <2>1, <2>2, <2>3
<1>5. /\ wire' \in Seq(Frames) /\ Len(wire) \in Nat /\ Len(wire') \in Nat /\ Len(wire) <= Len(wire')
      /\ DOMAIN wire = 1..Len(wire) /\ DOMAIN wire' = 1..Len(wire')
      /\ \A i \in 1..Len(wire) : wire'[i] = wire[i]
      /\ \A i \in 1..Len(wire') : i \notin 1..Len(wire) =>
           wire'[i].kind = "item" /\ wire'[i].seq \in 1..last'
  BY <1>0, <1>4 DEF Longer
<1>6. /\ UNCHANGED <<clientEpoch, lastSeq, shown>> /\ last' \in Nat /\ last < last' /\ last' \in 0..MaxSeq
      /\ first <= first' /\ first' \in 1..(last' + 1)
  BY <1>0, <1>1, <1>3 DEF client
<1>a. last \in Nat /\ last' \in Nat /\ last < last' /\ first \in Nat /\ first' \in Nat /\ first <= first'
  BY <1>0, <1>6
<1>b. 1..last \subseteq 1..last' /\ 0..last \subseteq 0..last' BY <1>a
<1>7. TypeOK'
  <2>1. link' \in {"down", "up", "closing"} BY <1>0, <1>4 DEF TypeOK
  <2>2. /\ transport' \in Transports /\ alive' \in BOOLEAN /\ subscribed' \in BOOLEAN
        /\ (request' = <<>> \/ request' \in (0..MaxSeq) \X (0..MaxEpoch))
        /\ shown' \in Seq((1..MaxEpoch) \X (1..MaxSeq)) /\ losses' \in 0..MaxLosses
    BY <1>0, <1>1, <1>6 DEF TypeOK
  <2> QED BY <1>0, <1>1, <1>5, <1>6, <2>1, <2>2 DEF TypeOK
<1>8. InOrder' /\ Window' BY <1>0, <1>3, <1>6 DEF InOrder, Window
<1>9. ClientKnows' BY <1>0, <1>1, <1>6 DEF ClientKnows
<1>10. ASSUME NEW f, Answer(f) PROVE Answer(f)'
  <2>1. epoch' = epoch /\ clientEpoch' = clientEpoch /\ lastSeq' = lastSeq BY <1>1, <1>6
  <2> QED BY <1>a, <1>10, <2>1, AnswerStands
<1>11. WireHolds'
  <2> SUFFICES ASSUME NEW i \in 1..Len(wire')
               PROVE  IF wire'[i].kind = "attached" THEN i = 1 /\ Answer(wire[1])'
                      ELSE wire'[i].seq \in 1..last'
    BY <1>5 DEF WireHolds
  <2>1. CASE i \in 1..Len(wire)
    <3>1. wire'[i] = wire[i] BY <1>5, <2>1
    <3>2. CASE wire[i].kind = "attached"
      <4>1. i = 1 /\ Answer(wire[1]) BY <1>0, <1>5, <2>1, <3>2 DEF WireHolds
      <4>2. Answer(wire[1])' BY <1>10, <3>1, <4>1
      <4> QED BY <3>1, <3>2, <4>1, <4>2
    <3>3. CASE wire[i].kind # "attached"
      <4>1. wire[i].seq \in 1..last BY <1>0, <1>5, <2>1, <3>3 DEF WireHolds
      <4>2. wire[i].seq \in 1..last' BY <1>b, <4>1
      <4> QED BY <3>1, <3>3, <4>2
    <3> QED BY <3>2, <3>3
  <2>2. CASE i \notin 1..Len(wire)
    BY <1>5, <2>2
  <2> QED BY <2>1, <2>2
<1>12. wire # <<>> => (Answered' <=> Answered) /\ wire'[1] = wire[1]
  BY <1>0, <1>5 DEF Answered
<1>13. wire = <<>> => ~Answered'
  <2> SUFFICES ASSUME wire = <<>>, wire' # <<>> PROVE wire'[1].kind # "attached"
    BY DEF Answered
  <2>1. Len(wire) = 0 /\ 1 \in 1..Len(wire') BY <1>5
  <2> QED BY <1>5, <2>1
<1>14. SocketKnows'
  <2>1. link' = "down" => request' = <<>> /\ ~subscribed' BY <1>0, <1>1, <1>4 DEF SocketKnows
  <2>2. wire' # <<>> => subscribed' BY <1>0, <1>1, <1>4 DEF SocketKnows
  <2>3. subscribed' /\ ~Answered' => clientEpoch' = epoch'
    BY <1>0, <1>1, <1>6, <1>12 DEF SocketKnows, Answered
  <2>4. request' # <<>> => ~subscribed' /\ request' = <<lastSeq', clientEpoch'>>
    BY <1>0, <1>1, <1>6 DEF SocketKnows
  <2> QED BY <2>1, <2>2, <2>3, <2>4 DEF SocketKnows
<1>15. Gapless'
  <2> SUFFICES ASSUME transport = "terminal" PROVE Gapless' BY <1>1 DEF Gapless
  <2>0. Emit BY DEF EmitAndDeliver
  <2>1. last' = last + 1 /\ Emit BY <2>0 DEF Emit, Store
  <2>2. Base' = Base BY <1>6, <1>12, <1>13 DEF Base, Answered
  <2>3. /\ \A i \in DOMAIN wire : wire[i].kind = "item" => wire[i].seq = Base + i
        /\ link = "up" /\ subscribed => Base + Len(wire) = last
    BY <1>0 DEF Gapless
  <2>4. Base \in Int
    <3>1. CASE Answered
      <4>1. 1 \in DOMAIN wire /\ wire[1].kind = "attached" BY <1>5, <3>1 DEF Answered
      <4>2. wire[1].to \in 0..last BY <1>0, <4>1 DEF WireHolds, Answer
      <4> QED BY <3>1, <4>2 DEF Base
    <3>2. CASE ~Answered BY <1>0, <3>2 DEF Base
    <3> QED BY <3>1, <3>2
  <2>5. CASE wire' = wire /\ (link' = "up" /\ subscribed' => FALSE)
    BY <2>2, <2>3, <2>5 DEF Gapless
  <2>6. CASE subscribed /\ link = "up" /\ link' = "up" /\ wire' = Append(wire, Item(last + 1))
    <3>1. Item(last + 1).seq = Base + Len(wire) + 1 BY <1>0, <2>3, <2>6, ItemIsFrame
    <3>2. Len(wire') = Len(wire) + 1 /\ wire'[Len(wire) + 1] = Item(last + 1) BY <1>0, <2>6
    <3>3. \A i \in DOMAIN wire' : wire'[i].kind = "item" => wire'[i].seq = Base + i
      <4> SUFFICES ASSUME NEW i \in DOMAIN wire', wire'[i].kind = "item"
                   PROVE  wire'[i].seq = Base + i
        OBVIOUS
      <4>1. i \in 1..Len(wire) \/ i = Len(wire) + 1 BY <1>5, <3>2
      <4>2. CASE i \in 1..Len(wire) BY <1>5, <2>3, <4>2
      <4>3. CASE i = Len(wire) + 1 BY <1>5, <2>4, <3>1, <3>2, <4>3
      <4> QED BY <4>1, <4>2, <4>3
    <3>4. Base + Len(wire') = last' BY <1>5, <2>1, <2>3, <2>4, <2>6, <3>2
    <3> QED BY <2>2, <3>3, <3>4 DEF Gapless
  <2>7. CASE ~subscribed
    <3>1. wire' = wire /\ ~subscribed' BY <1>1, <1>4, <2>7
    <3> QED BY <2>2, <2>3, <3>1 DEF Gapless
  <2>8. CASE subscribed
    <3>1. link' = Send(Here, Item(last + 1)).link /\ wire' = Send(Here, Item(last + 1)).wire
      BY <2>1, <2>8 DEF Emit, Forward
    <3>2. \/ link # "up" /\ link' = link /\ wire' = wire
          \/ link = "up" /\ link' = "closing" /\ wire' = wire
          \/ link = "up" /\ link' = link /\ wire' = Append(wire, Item(last + 1))
      BY <3>1, Sent DEF Here
    <3> QED BY <2>5, <2>6, <2>8, <3>2
  <2> QED BY <2>7, <2>8
<1> QED BY <1>7, <1>8, <1>9, <1>11, <1>14, <1>15 DEF Inv, StreamInv

\* The server answers an attach: the socket starts with the answer alone.
LEMMA AttachStep ==
    ASSUME Inv, HandleAttach PROVE Inv'
<1>0. /\ TypeOK /\ InOrder /\ Window /\ ClientKnows /\ SocketKnows /\ WireHolds /\ Gapless
      /\ last \in 0..MaxSeq /\ MaxSeq \in Nat /\ last \in Nat /\ MaxBuffered \in Nat \ {0}
      /\ first \in 1..(last + 1) /\ epoch \in 1..MaxEpoch /\ clientEpoch \in 0..MaxEpoch
      /\ MaxEpoch \in Nat /\ lastSeq \in 0..MaxSeq
  BY LimitsType DEF Inv, StreamInv, TypeOK
<1>1. /\ link = "up" /\ request # <<>> /\ request' = <<>> /\ subscribed' = alive
      /\ UNCHANGED <<session, client, losses>>
  BY DEF HandleAttach
<1>2. UNCHANGED <<transport, alive, epoch, first, last, clientEpoch, lastSeq, shown, losses>>
  BY <1>1 DEF session, client
<1>3. request = <<lastSeq, clientEpoch>> /\ ~subscribed /\ wire = <<>>
  BY <1>0, <1>1 DEF SocketKnows
<1>4. InOrder' /\ Window' /\ ClientKnows'
  BY <1>0, <1>2 DEF InOrder, Window, ClientKnows
<1> DEFINE matches == EpochMatches(request[2])
           replay == ReplayAfter(IF matches THEN request[1] ELSE 0)
           answer == [kind |-> "attached", epoch |-> epoch, lo |-> replay.lo, to |-> replay.to,
                      truncated |-> replay.truncated \/ (~matches /\ request[1] > 0)]
           out == IF alive THEN Send(Here, answer) ELSE Here
<1>5. link' = out.link /\ wire' = out.wire BY DEF HandleAttach
<1>6. request[1] = lastSeq /\ request[2] = clientEpoch BY <1>3
<1>7. answer \in Frames /\ answer.kind = "attached" /\ Answer(answer) /\ answer.to = last
  <2>1. matches <=> clientEpoch = 0 \/ clientEpoch = epoch BY <1>6 DEF EpochMatches
  <2> DEFINE after == IF matches THEN request[1] ELSE 0
  <2>2. after \in Nat /\ after = IF matches THEN lastSeq ELSE 0 BY <1>0, <1>6
  <2>3. matches => lastSeq <= last BY <1>0, <2>1 DEF ClientKnows
  <2>4. after <= last BY <1>0, <2>2, <2>3
  <2> HIDE DEF after, matches
  <2>5. /\ replay.to = last /\ replay.truncated \in BOOLEAN /\ replay.lo \in 1..(last + 1)
        /\ replay.truncated => replay.lo = first /\ first <= last /\ after + 1 < first
        /\ ~replay.truncated => replay.lo = after + 1
    BY <1>0, <2>2, <2>4, ReplayGives DEF after
  <2> DEFINE cut == replay.truncated \/ (~matches /\ request[1] > 0)
  <2>6. /\ answer.kind = "attached" /\ answer.epoch = epoch /\ answer.lo = replay.lo
        /\ answer.to = replay.to /\ answer.truncated = cut
    OBVIOUS
  <2>7. cut \in BOOLEAN OBVIOUS
  <2>a. answer.truncated = cut BY <2>6
  <2> HIDE DEF cut, replay
  <2>8. answer \in Frames BY <1>0, <2>5, <2>7 DEF Frames
  <2>9. CASE cut
    <3>1. replay.lo <= first /\ (last = 0 \/ replay.lo <= last)
          /\ (clientEpoch = epoch => lastSeq + 1 < replay.lo)
      <4>1. CASE replay.truncated BY <1>0, <2>1, <2>2, <2>5, <4>1
      <4>2. CASE ~replay.truncated /\ ~matches
        BY <1>0, <2>1, <2>2, <2>5, <4>2
      <4> QED BY <2>9, <4>1, <4>2 DEF cut
    <3>2. answer.truncated BY <2>a, <2>9
    <3>3. answer.epoch = epoch /\ answer.lo = replay.lo /\ answer.to = last BY <2>5, <2>6
    <3>4. last \in 0..last BY <1>0
    <3> HIDE DEF answer
    <3>5. Answer(answer) BY <2>5, <3>1, <3>2, <3>3, <3>4 DEF Answer
    <3> QED BY <2>6, <2>8, <3>3, <3>5 DEF answer
  <2>10. CASE ~cut
    <3>1. ~replay.truncated /\ (~matches => lastSeq = 0) BY <1>0, <1>6, <2>10 DEF cut
    <3>2. replay.lo = lastSeq + 1 BY <1>0, <2>2, <2>5, <3>1
    <3>3. clientEpoch # epoch => lastSeq = 0 BY <1>0, <2>1, <3>1 DEF ClientKnows
    <3>4. Answer(answer) BY <1>0, <2>5, <2>6, <2>10, <3>2, <3>3 DEF Answer
    <3> QED BY <2>5, <2>6, <2>8, <3>4
  <2> QED BY <2>9, <2>10
<1> HIDE DEF answer
<1>a. PICK a : a = answer OBVIOUS
<1>b. a \in Frames /\ a.kind = "attached" /\ Answer(a) /\ a.to = last BY <1>7, <1>a
<1>8. link' = "up" /\ wire' = IF alive THEN <<a>> ELSE <<>>
  <2>1. CASE alive
    <3>1. out = Send([link |-> link, wire |-> wire], answer) BY <2>1 DEF Here
    <3>2. ~(Len(wire) >= MaxBuffered) BY <1>0, <1>3
    <3>3. out.link = "up" /\ out.wire = Append(wire, answer) BY <1>1, <3>1, <3>2, Sent
    <3>4. Append(wire, answer) = <<answer>> BY <1>3
    <3> QED BY <1>5, <1>a, <2>1, <3>3, <3>4
  <2>2. CASE ~alive BY <1>1, <1>3, <1>5, <2>2 DEF Here
  <2> QED BY <2>1, <2>2
<1>9. Answer(a)' 
  <2>1. epoch' = epoch /\ clientEpoch' = clientEpoch /\ lastSeq' = lastSeq BY <1>2
  <2>2. first \in Nat /\ first' \in Nat /\ first <= first' /\ last' \in Nat /\ last <= last'
    BY <1>0, <1>2
  <2> QED BY <1>0, <1>b, <2>1, <2>2, AnswerStands
<1>10. TypeOK'
  <2>1. alive' \in BOOLEAN /\ subscribed' \in BOOLEAN BY <1>0, <1>1, <1>2 DEF TypeOK
  <2>2. wire' \in Seq(Frames) BY <1>b, <1>8
  <2>3. /\ transport' \in Transports /\ epoch' \in 1..MaxEpoch /\ last' \in 0..MaxSeq
        /\ first' \in 1..(last' + 1) /\ clientEpoch' \in 0..MaxEpoch /\ lastSeq' \in 0..MaxSeq
        /\ shown' \in Seq((1..MaxEpoch) \X (1..MaxSeq)) /\ losses' \in 0..MaxLosses
    BY <1>0, <1>2 DEF TypeOK
  <2> QED BY <1>1, <1>8, <2>1, <2>2, <2>3 DEF TypeOK
<1>11. CASE ~alive
  <2>1. wire' = <<>> /\ ~subscribed' /\ DOMAIN wire' = {} BY <1>1, <1>8, <1>11
  <2>2. SocketKnows' BY <1>1, <1>8, <2>1 DEF SocketKnows
  <2>3. WireHolds' /\ Gapless' BY <2>1 DEF WireHolds, Gapless
  <2> QED BY <1>4, <1>10, <2>2, <2>3 DEF Inv, StreamInv
<1>12. CASE alive
  <2>1. /\ wire' = <<a>> /\ subscribed' /\ DOMAIN wire' = {1} /\ wire'[1] = a
        /\ wire' # <<>> /\ Len(wire') = 1
    BY <1>1, <1>8, <1>12
  <2>2. Answered' BY <1>b, <2>1 DEF Answered
  <2>3. SocketKnows' BY <1>1, <1>8, <2>1, <2>2 DEF SocketKnows
  <2>4. WireHolds'
    <3> SUFFICES ASSUME NEW i \in DOMAIN wire'
                 PROVE  IF wire'[i].kind = "attached" THEN i = 1 /\ Answer(wire[1])'
                        ELSE wire'[i].seq \in 1..last'
      BY DEF WireHolds
    <3>1. i = 1 BY <2>1
    <3>2. Answer(wire[1])' BY <1>9, <2>1
    <3>3. wire'[i].kind = "attached" BY <1>b, <2>1, <3>1
    <3> QED BY <3>1, <3>2, <3>3
  <2>5. Base' = last - 1 BY <1>b, <2>1, <2>2 DEF Base
  <2>6. Gapless' BY <1>0, <1>2, <1>b, <2>1, <2>5 DEF Gapless
  <2> QED BY <1>4, <1>10, <2>3, <2>4, <2>6 DEF Inv, StreamInv
<1> QED BY <1>11, <1>12

\* The client opens a socket and says where it is.
LEMMA ConnectStep ==
    ASSUME Inv, Connect PROVE Inv'
<1>0. /\ TypeOK /\ InOrder /\ Window /\ ClientKnows /\ SocketKnows
  BY DEF Inv, StreamInv
<1>1. /\ link = "down" /\ link' = "up" /\ request' = <<lastSeq, clientEpoch>>
      /\ UNCHANGED <<subscribed, wire, transport, alive, epoch, first, last, clientEpoch, lastSeq,
                     shown, losses>>
  BY DEF Connect, session, client
<1>2. ~subscribed /\ wire = <<>> /\ wire' = <<>> /\ DOMAIN wire' = {}
  BY <1>0, <1>1 DEF SocketKnows
<1>3. ~subscribed' BY <1>1, <1>2
<1>4. InOrder' /\ Window' /\ ClientKnows'
  BY <1>0, <1>1 DEF InOrder, Window, ClientKnows
<1>5. SocketKnows' BY <1>1, <1>2, <1>3 DEF SocketKnows
<1>6. WireHolds' /\ Gapless' BY <1>2, <1>3 DEF WireHolds, Gapless
<1>7. TypeOK'
  <2>1. alive' \in BOOLEAN /\ subscribed' \in BOOLEAN BY <1>0, <1>1 DEF TypeOK
  <2>2. request' \in (0..MaxSeq) \X (0..MaxEpoch) BY <1>0, <1>1 DEF TypeOK
  <2>3. /\ transport' \in Transports /\ epoch' \in 1..MaxEpoch /\ last' \in 0..MaxSeq
        /\ first' \in 1..(last' + 1) /\ clientEpoch' \in 0..MaxEpoch /\ lastSeq' \in 0..MaxSeq
        /\ shown' \in Seq((1..MaxEpoch) \X (1..MaxSeq)) /\ losses' \in 0..MaxLosses
        /\ wire' \in Seq(Frames)
    BY <1>0, <1>1 DEF TypeOK
  <2> QED BY <1>1, <2>1, <2>2, <2>3 DEF TypeOK
<1> QED BY <1>4, <1>5, <1>6, <1>7 DEF Inv, StreamInv

\* The socket goes away, whatever took it.
LEMMA DisconnectStep ==
    ASSUME Inv, Closed \/ Lose \/ Reload \/ RestartRecovered \/ RestartEnded PROVE Inv'
<1>0. /\ TypeOK /\ InOrder /\ Window /\ ClientKnows /\ epoch \in 1..MaxEpoch
      /\ clientEpoch \in 0..MaxEpoch /\ MaxEpoch \in Nat /\ MaxSeq \in Nat /\ MaxLosses \in Nat
      /\ losses \in 0..MaxLosses
  BY LimitsType DEF Inv, StreamInv, TypeOK
<1>1. Disconnected BY DEF Closed, Lose, Reload, RestartRecovered, RestartEnded
<1>2. /\ link' = "down" /\ request' = <<>> /\ wire' = <<>> /\ DOMAIN wire' = {}
      /\ subscribed' = FALSE
  BY <1>1 DEF Disconnected
<1>3. SocketKnows' /\ WireHolds' /\ Gapless' BY <1>2 DEF SocketKnows, WireHolds, Gapless
<1>4. UNCHANGED transport /\ alive' \in BOOLEAN /\ losses' \in 0..MaxLosses
  <2>1. UNCHANGED transport
    BY DEF Closed, Lose, Reload, RestartRecovered, RestartEnded, session
  <2>2. alive' \in BOOLEAN
    BY <1>0 DEF TypeOK, Closed, Lose, Reload, RestartRecovered, RestartEnded, session
  <2>3. losses' \in 0..MaxLosses
    BY <1>0 DEF Closed, Lose, Reload, RestartRecovered, RestartEnded
  <2> QED BY <2>1, <2>2, <2>3
<1>5. \/ UNCHANGED <<epoch, first, last>>
      \/ /\ epoch' = epoch + 1 /\ epoch < MaxEpoch /\ first' = 1 /\ last' = 0
         /\ UNCHANGED <<clientEpoch, lastSeq, shown>>
  BY DEF Closed, Lose, Reload, RestartRecovered, RestartEnded, session, client
<1>6. \/ UNCHANGED <<clientEpoch, lastSeq, shown>>
      \/ clientEpoch' = 0 /\ lastSeq' = 0 /\ shown' = <<>>
  BY DEF Closed, Lose, Reload, RestartRecovered, RestartEnded, client
<1>7. /\ epoch' \in 1..MaxEpoch /\ last' \in 0..MaxSeq /\ first' \in 1..(last' + 1) /\ Window'
      /\ epoch <= epoch'
  <2>1. last \in 0..MaxSeq /\ first \in 1..(last + 1) BY <1>0 DEF TypeOK
  <2>2. CASE UNCHANGED <<epoch, first, last>> BY <1>0, <2>1, <2>2 DEF Window
  <2>3. CASE epoch' = epoch + 1 /\ epoch < MaxEpoch /\ first' = 1 /\ last' = 0
    BY <1>0, <2>3 DEF Window
  <2> QED BY <1>5, <2>2, <2>3
<1>8. /\ clientEpoch' \in 0..MaxEpoch /\ lastSeq' \in 0..MaxSeq
      /\ shown' \in Seq((1..MaxEpoch) \X (1..MaxSeq))
  <2>1. lastSeq \in 0..MaxSeq /\ shown \in Seq((1..MaxEpoch) \X (1..MaxSeq)) BY <1>0 DEF TypeOK
  <2>2. <<>> \in Seq((1..MaxEpoch) \X (1..MaxSeq)) OBVIOUS
  <2>3. clientEpoch' \in 0..MaxEpoch /\ lastSeq' \in 0..MaxSeq BY <1>0, <1>6, <2>1
  <2>4. shown' = shown \/ shown' = <<>> BY <1>6
  <2> QED BY <2>1, <2>2, <2>3, <2>4
<1>9. TypeOK'
  <2>1. transport' \in Transports BY <1>0, <1>4 DEF TypeOK
  <2>2. wire' \in Seq(Frames) BY <1>2
  <2>4. subscribed' \in BOOLEAN BY <1>2
  <2>3. link' \in {"down", "up", "closing"} BY <1>2
  <2> QED BY <1>2, <1>4, <1>7, <1>8, <2>1, <2>2, <2>3, <2>4, Zenon DEF TypeOK
<1>10. CASE UNCHANGED <<clientEpoch, lastSeq, shown>>
  <2>1. InOrder' BY <1>0, <1>10 DEF InOrder
  <2>2. ClientKnows' BY <1>0, <1>5, <1>10 DEF ClientKnows
  <2> QED BY <1>3, <1>7, <1>9, <2>1, <2>2 DEF Inv, StreamInv
<1>11. CASE clientEpoch' = 0 /\ lastSeq' = 0 /\ shown' = <<>>
  <2>1. DOMAIN shown' = {} BY <1>11
  <2>2. InOrder' BY <2>1 DEF InOrder
  <2>3. last' \in Nat /\ epoch' \in Nat BY <1>7
  <2>4. ClientKnows' BY <1>11, <2>3 DEF ClientKnows
  <2> QED BY <1>3, <1>7, <1>9, <2>2, <2>4 DEF Inv, StreamInv
<1> QED BY <1>6, <1>10, <1>11

-----------------------------------------------------------------------------
(* Receiving.                                                               *)

Shown == (1..MaxEpoch) \X (1..MaxSeq)

\* s is items of epoch e in order, up to n.
Shows(s, e, n) ==
    /\ s \in Seq(Shown)
    /\ \A i \in 1..Len(s) : s[i][1] = e /\ s[i][2] <= n
    /\ \A i, j \in 1..Len(s) : i < j => s[i][2] < s[j][2]
    /\ IF s = <<>> THEN n = 0 ELSE s[Len(s)][2] = n

\* It is what the invariant says of the page.
LEMMA PageShows ==
    ASSUME TypeOK, InOrder, ClientKnows PROVE Shows(shown, clientEpoch, lastSeq)
<1>1. shown \in Seq(Shown) /\ DOMAIN shown = 1..Len(shown) BY DEF TypeOK, Shown
<1>2. IF shown = <<>> THEN lastSeq = 0 ELSE shown[Len(shown)][2] = lastSeq BY DEF ClientKnows
<1> QED BY <1>1, <1>2 DEF InOrder, Shows

\* A page with nothing on it has reached nothing, and the other way round.
LEMMA NothingShown ==
    ASSUME NEW s, NEW e, Shows(s, e, 0) PROVE s = <<>>
<1> SUFFICES ASSUME s # <<>> PROVE FALSE OBVIOUS
<1>1. s \in Seq(Shown) /\ Len(s) \in 1..Len(s) BY DEF Shows
<1>2. s[Len(s)] \in Shown /\ s[Len(s)][2] = 0 BY <1>1 DEF Shows
<1> QED BY <1>2, LimitsType DEF Shown

\* What a replay or a live item adds to it.
LEMMA ShowsMore ==
    ASSUME NEW s, NEW t, NEW e, NEW n \in Nat, NEW hi \in Nat,
           Shows(s, e, n), Shows(t, e, hi), t # <<>>, \A i \in 1..Len(t) : t[i][2] > n
    PROVE  Shows(s \o t, e, hi)
<1> DEFINE u == s \o t
<1>1. /\ s \in Seq(Shown) /\ t \in Seq(Shown) /\ Len(s) \in Nat /\ Len(t) \in Nat /\ Len(t) > 0
      /\ u \in Seq(Shown) /\ Len(u) = Len(s) + Len(t)
      /\ \A i \in 1..Len(u) : u[i] = IF i <= Len(s) THEN s[i] ELSE t[i - Len(s)]
  BY DEF Shows
<1>a. \A x \in Shown : x[2] \in Nat BY LimitsType DEF Shown
<1>b. \A x, y \in Nat : x <= n /\ y > n => x < y OBVIOUS
<1>2. \A i \in 1..Len(s) : s[i][2] \in Nat
  <2>1. \A i \in 1..Len(s) : s[i] \in Shown BY <1>1
  <2> QED BY <1>a, <2>1
<1>3. \A i \in 1..Len(t) : t[i][2] \in Nat
  <2>1. \A i \in 1..Len(t) : t[i] \in Shown BY <1>1
  <2> QED BY <1>a, <2>1
<1> HIDE DEF u
<1>4. /\ \A i \in 1..Len(s) : s[i][1] = e /\ s[i][2] <= n
      /\ \A i, j \in 1..Len(s) : i < j => s[i][2] < s[j][2]
      /\ \A i \in 1..Len(t) : t[i][1] = e /\ t[i][2] <= hi
      /\ \A i, j \in 1..Len(t) : i < j => t[i][2] < t[j][2]
      /\ t[Len(t)][2] = hi
  BY DEF Shows
<1>5. n < hi
  <2>1. Len(t) \in 1..Len(t) BY <1>1
  <2> QED BY <1>4, <2>1
<1>6. ASSUME NEW i \in 1..Len(u), i > Len(s) PROVE i - Len(s) \in 1..Len(t) BY <1>1, <1>6
<1>7. ASSUME NEW i \in 1..Len(u) PROVE u[i][1] = e /\ u[i][2] <= hi
  <2>1. CASE i <= Len(s)
    <3>1. i \in 1..Len(s) /\ u[i] = s[i] BY <1>1, <2>1
    <3>2. s[i][1] = e /\ s[i][2] <= n /\ s[i][2] \in Nat BY <1>2, <1>4, <3>1
    <3> QED BY <1>5, <3>1, <3>2
  <2>2. CASE i > Len(s)
    <3>1. u[i] = t[i - Len(s)] BY <1>1, <2>2
    <3> QED BY <1>4, <1>6, <2>2, <3>1
  <2> QED BY <1>1, <2>1, <2>2
<1>8. ASSUME NEW i \in 1..Len(u), NEW j \in 1..Len(u), i < j PROVE u[i][2] < u[j][2]
  <2>1. CASE j <= Len(s)
    <3>1. i \in 1..Len(s) /\ u[i] = s[i] /\ j \in 1..Len(s) /\ u[j] = s[j] BY <1>1, <1>8, <2>1
    <3> QED BY <1>4, <1>8, <3>1
  <2>2. CASE i <= Len(s) /\ j > Len(s)
    <3>1. i \in 1..Len(s) /\ u[i] = s[i] /\ u[j] = t[j - Len(s)] BY <1>1, <2>2
    <3>2. j - Len(s) \in 1..Len(t) BY <1>6, <2>2
    <3>3. s[i][2] <= n /\ s[i][2] \in Nat BY <1>2, <1>4, <3>1
    <3>4. t[j - Len(s)][2] > n /\ t[j - Len(s)][2] \in Nat BY <1>3, <3>2
    <3>5. s[i][2] < t[j - Len(s)][2] BY <1>b, <3>3, <3>4
    <3> QED BY <3>1, <3>5
  <2>3. CASE i > Len(s)
    <3>1. j > Len(s) BY <1>1, <1>8, <2>3
    <3>2. i - Len(s) \in 1..Len(t) /\ j - Len(s) \in 1..Len(t) BY <1>6, <2>3, <3>1
    <3>3. u[i] = t[i - Len(s)] /\ u[j] = t[j - Len(s)] BY <1>1, <2>3, <3>1
    <3>4. i - Len(s) < j - Len(s) BY <1>1, <1>8
    <3> QED BY <1>4, <3>2, <3>3, <3>4
  <2> QED BY <1>1, <2>1, <2>2, <2>3
<1>9. u # <<>> /\ u[Len(u)][2] = hi
  <2>1. Len(u) \in 1..Len(u) /\ Len(u) > Len(s) /\ Len(u) - Len(s) = Len(t) BY <1>1
  <2>2. u[Len(u)] = t[Len(t)] BY <1>1, <2>1
  <2>3. u # <<>> BY <2>1
  <2> QED BY <1>4, <2>2, <2>3
<1>10. Shows(u, e, hi) BY <1>1, <1>7, <1>8, <1>9 DEF Shows
<1> QED BY <1>10 DEF u

\* What a replay holds.
LEMMA EntriesShow ==
    ASSUME epoch \in 1..MaxEpoch, NEW lo \in Nat \ {0}, NEW hi \in 0..MaxSeq, lo <= hi + 1
    PROVE  /\ Len(Entries(lo, hi)) = hi - lo + 1
           /\ \A i \in 1..Len(Entries(lo, hi)) : Entries(lo, hi)[i] = <<epoch, lo + i - 1>>
           /\ lo <= hi \/ hi = 0 => Shows(Entries(lo, hi), epoch, hi)
<1>0. MaxSeq \in Nat /\ MaxEpoch \in Nat /\ hi \in Nat BY LimitsType
<1> DEFINE len == hi - lo + 1
           s == Entries(lo, hi)
<1>1. len \in Nat BY <1>0
<1>2. s = [i \in 1..len |-> <<epoch, lo + i - 1>>] BY DEF Entries
<1>3. \A i \in 1..len : <<epoch, lo + i - 1>> \in Shown
  <2> SUFFICES ASSUME NEW i \in 1..len PROVE <<epoch, lo + i - 1>> \in Shown OBVIOUS
  <2>1. lo + i - 1 \in 1..MaxSeq BY <1>0
  <2> QED BY <2>1 DEF Shown
<1> HIDE DEF len, s
<1>4. /\ s \in Seq(Shown) /\ Len(s) = len /\ \A i \in 1..len : s[i] = <<epoch, lo + i - 1>>
  <2>1. s \in [1..len -> Shown] BY <1>2, <1>3
  <2>2. s \in Seq(Shown) BY <1>1, <2>1
  <2>3. DOMAIN s = 1..len BY <1>2
  <2>4. Len(s) = len BY <1>1, <2>2, <2>3
  <2> QED BY <1>2, <2>2, <2>4
<1>5. ASSUME lo <= hi \/ hi = 0 PROVE Shows(s, epoch, hi)
  <2>1. \A i \in 1..len : s[i][1] = epoch /\ s[i][2] = lo + i - 1 BY <1>4
  <2>2. \A i \in 1..len : s[i][2] <= hi BY <1>0, <2>1 DEF len
  <2>3. \A i, j \in 1..len : i < j => s[i][2] < s[j][2] BY <1>0, <1>1, <2>1
  <2>4. IF s = <<>> THEN hi = 0 ELSE s[Len(s)][2] = hi
    <3>1. CASE s = <<>>
      <4>1. len = 0 BY <1>4, <3>1
      <4> QED BY <1>0, <1>5, <3>1, <4>1 DEF len
    <3>2. CASE s # <<>>
      <4>1. len # 0 BY <1>4, <3>2
      <4>2. len \in 1..len BY <1>1, <4>1
      <4>3. s[len][2] = lo + len - 1 BY <2>1, <4>2
      <4> QED BY <1>0, <1>4, <3>2, <4>3 DEF len
    <3> QED BY <3>1, <3>2
  <2> QED BY <1>4, <2>1, <2>2, <2>3, <2>4 DEF Shows
<1>6. hi - lo + 1 = len BY DEF len
<1>7. Len(s) = hi - lo + 1 /\ \A i \in 1..Len(s) : s[i] = <<epoch, lo + i - 1>> BY <1>4, <1>6
<1> QED BY <1>5, <1>7 DEF s

\* What taking the answer does: nothing to add, a fresh screen, or more of it.
LEMMA AnswerTaken ==
    ASSUME Inv, NEW f \in Frames, Answer(f), TakeAttached(f)
    PROVE  /\ clientEpoch' = epoch /\ lastSeq' = f.to
           /\ \/ /\ shown' = shown /\ lastSeq = f.to /\ (clientEpoch # epoch => shown = <<>>)
              \/ /\ shown' = Entries(f.lo, f.to) /\ (f.lo <= f.to \/ f.to = 0)
                 /\ transport = "structured" \/ f.truncated
              \/ /\ shown' = shown \o Entries(f.lo, f.to) /\ f.lo = lastSeq + 1 /\ lastSeq < f.to
                 /\ clientEpoch # epoch => shown = <<>>
                 /\ transport # "structured"
<1>0. /\ TypeOK /\ InOrder /\ ClientKnows /\ MaxSeq \in Nat /\ last \in Nat /\ lastSeq \in Nat
      /\ epoch \in Nat
  BY LimitsType DEF Inv, StreamInv, TypeOK
<1>1. f.epoch = epoch /\ f.to \in 0..last /\ f.lo \in 1..(f.to + 1) BY DEF Answer
<1>2. f.to \in Nat /\ f.lo \in Nat BY <1>0, <1>1
<1>3. clientEpoch' = epoch /\ shown' = Replayed(f) BY <1>1 DEF TakeAttached
<1> DEFINE kept == IF f.epoch # clientEpoch THEN 0 ELSE lastSeq
<1>4. lastSeq' = IF f.to > kept THEN f.to ELSE kept BY DEF TakeAttached
<1>5. kept = IF epoch = clientEpoch THEN lastSeq ELSE 0 BY <1>1
<1> HIDE DEF kept
<1>6. CASE f.truncated
  <2>1. (f.to = 0 \/ f.lo <= f.to) /\ (clientEpoch = epoch => lastSeq + 1 < f.lo)
    BY <1>6 DEF Answer
  <2>2. kept \in Nat /\ kept <= f.to BY <1>0, <1>1, <1>2, <1>5, <2>1
  <2>3. lastSeq' = f.to BY <1>2, <1>4, <2>2
  <2>4. shown' = Entries(f.lo, f.to) BY <1>3, <1>6 DEF Replayed
  <2> QED BY <1>3, <1>6, <2>1, <2>3, <2>4
<1>7. CASE ~f.truncated
  <2>1. f.lo = lastSeq + 1 /\ (clientEpoch # epoch => lastSeq = 0) BY <1>7 DEF Answer
  <2>2. kept \in Nat /\ kept <= f.to BY <1>0, <1>1, <1>2, <1>5, <2>1
  <2>3. lastSeq' = f.to BY <1>2, <1>4, <2>2
  <2>4. clientEpoch # epoch => shown = <<>>
    <3> SUFFICES ASSUME clientEpoch # epoch PROVE shown = <<>> OBVIOUS
    <3>1. Shows(shown, clientEpoch, 0) BY <1>0, <2>1, PageShows
    <3> QED BY <3>1, NothingShown
  <2>5. CASE f.lo > f.to
    <3>1. shown' = shown BY <1>3, <1>7, <2>5 DEF Replayed
    <3>2. lastSeq = f.to BY <1>0, <1>1, <1>2, <2>1, <2>5
    <3> QED BY <1>3, <2>3, <2>4, <3>1, <3>2
  <2>6. CASE ~(f.lo > f.to) /\ transport = "structured"
    <3>1. shown' = Entries(f.lo, f.to) BY <1>3, <1>7, <2>6 DEF Replayed
    <3>2. f.lo <= f.to BY <1>2, <2>6
    <3> QED BY <1>3, <2>3, <2>6, <3>1, <3>2
  <2>7. CASE ~(f.lo > f.to) /\ transport # "structured"
    <3>1. shown' = shown \o Entries(f.lo, f.to) BY <1>3, <1>7, <2>7 DEF Replayed
    <3>2. lastSeq < f.to BY <1>0, <1>2, <2>1, <2>7
    <3> QED BY <1>3, <2>1, <2>3, <2>4, <2>7, <3>1, <3>2
  <2> QED BY <2>5, <2>6, <2>7
<1> QED BY <1>6, <1>7

\* Whatever the answer holds, the page shows one epoch in order up to its end.
LEMMA AnswerShows ==
    ASSUME Inv, NEW f \in Frames, Answer(f), TakeAttached(f)
    PROVE  Shows(shown', epoch, f.to)
<1>0. /\ TypeOK /\ InOrder /\ ClientKnows /\ MaxSeq \in Nat /\ last \in Nat /\ lastSeq \in Nat
      /\ last <= MaxSeq /\ epoch \in 1..MaxEpoch
  BY LimitsType DEF Inv, StreamInv, TypeOK
<1>1. f.to \in 0..last /\ f.lo \in 1..(f.to + 1) BY DEF Answer
<1>2. f.to \in 0..MaxSeq /\ f.to \in Nat /\ f.lo \in Nat \ {0} /\ f.lo <= f.to + 1 BY <1>0, <1>1
<1> DEFINE t == Entries(f.lo, f.to)
<1>3. /\ Len(t) = f.to - f.lo + 1 /\ \A i \in 1..Len(t) : t[i] = <<epoch, f.lo + i - 1>>
      /\ f.lo <= f.to \/ f.to = 0 => Shows(t, epoch, f.to)
  BY <1>0, <1>2, EntriesShow
<1>4. Shows(shown, clientEpoch, lastSeq) BY <1>0, PageShows
<1>5. \A e : shown = <<>> => Shows(shown, e, 0) BY <1>0 DEF Shows, TypeOK, Shown
<1> HIDE DEF t
<1>6. CASE shown' = shown /\ lastSeq = f.to /\ (clientEpoch # epoch => shown = <<>>)
  <2>1. CASE clientEpoch = epoch BY <1>4, <1>6, <2>1
  <2>2. CASE clientEpoch # epoch
    <3>1. shown = <<>> /\ lastSeq = 0 BY <1>0, <1>6, <2>2 DEF ClientKnows
    <3> QED BY <1>5, <1>6, <3>1
  <2> QED BY <2>1, <2>2
<1>7. CASE shown' = t /\ (f.lo <= f.to \/ f.to = 0) BY <1>3, <1>7
<1>8. CASE /\ shown' = shown \o t /\ f.lo = lastSeq + 1 /\ lastSeq < f.to
           /\ clientEpoch # epoch => shown = <<>>
  <2>1. Shows(shown, epoch, lastSeq)
    <3>1. CASE clientEpoch = epoch BY <1>4, <3>1
    <3>2. CASE clientEpoch # epoch
      <4>1. shown = <<>> /\ lastSeq = 0 BY <1>0, <1>8, <3>2 DEF ClientKnows
      <4> QED BY <1>5, <4>1
    <3> QED BY <3>1, <3>2
  <2>2. f.lo <= f.to BY <1>0, <1>2, <1>8
  <2>3. Shows(t, epoch, f.to) BY <1>3, <2>2
  <2>4. t # <<>> BY <1>2, <1>3, <2>2
  <2>5. \A i \in 1..Len(t) : t[i][2] > lastSeq
    <3> SUFFICES ASSUME NEW i \in 1..Len(t) PROVE t[i][2] > lastSeq OBVIOUS
    <3>1. t[i][2] = f.lo + i - 1 BY <1>3
    <3> QED BY <1>0, <1>8, <3>1
  <2> QED BY <1>0, <1>2, <1>8, <2>1, <2>3, <2>4, <2>5, ShowsMore
<1> QED BY <1>6, <1>7, <1>8, AnswerTaken DEF t

\* An item is added after what is shown, or is there already.
LEMMA ItemShows ==
    ASSUME Inv, NEW n \in 1..last, TakeItem(n), clientEpoch = epoch
    PROVE  /\ lastSeq' \in Nat /\ lastSeq' <= last /\ lastSeq' = IF n > lastSeq THEN n ELSE lastSeq
           /\ Shows(shown', epoch, lastSeq')
<1>0. /\ TypeOK /\ InOrder /\ ClientKnows /\ MaxSeq \in Nat /\ last \in Nat /\ lastSeq \in Nat
      /\ last <= MaxSeq /\ epoch \in 1..MaxEpoch /\ lastSeq <= last
  BY LimitsType DEF Inv, StreamInv, TypeOK, ClientKnows
<1>1. Shows(shown, epoch, lastSeq) BY <1>0, PageShows
<1>2. lastSeq' = IF n > lastSeq THEN n ELSE lastSeq BY DEF TakeItem, Fresh
<1>3. lastSeq' \in Nat /\ lastSeq' <= last BY <1>0, <1>2
<1>4. CASE ~(n > lastSeq)
  <2>1. shown' = shown BY <1>4 DEF TakeItem, Fresh
  <2> QED BY <1>1, <1>2, <1>3, <1>4, <2>1
<1>5. CASE n > lastSeq
  <2>1. shown' = Append(shown, <<epoch, n>>) BY <1>5 DEF TakeItem, Fresh
  <2> DEFINE t == <<<<epoch, n>>>>
  <2>2. <<epoch, n>> \in Shown BY <1>0 DEF Shown
  <2>3. t \in Seq(Shown) /\ Len(t) = 1 /\ t[1] = <<epoch, n>> /\ t # <<>> BY <2>2
  <2> HIDE DEF t
  <2>4. \A i \in 1..Len(t) : i = 1 BY <2>3
  <2>5. Shows(t, epoch, n) BY <2>3, <2>4 DEF Shows
  <2>6. \A i \in 1..Len(t) : t[i][2] > lastSeq BY <1>5, <2>3, <2>4
  <2>7. Shows(shown \o t, epoch, n) BY <1>0, <1>1, <2>3, <2>5, <2>6, ShowsMore
  <2>8. shown \in Seq(Shown) BY <1>0 DEF TypeOK, Shown
  <2>9. Append(shown, <<epoch, n>>) = shown \o t BY <2>2, <2>8, AppendIsConcat DEF t
  <2> QED BY <1>2, <1>3, <1>5, <2>1, <2>7, <2>9
<1> QED BY <1>4, <1>5

\* The client takes the next frame, and the wire is the rest.
LEMMA DeliverStep ==
    ASSUME Inv, Deliver PROVE Inv'
<1>0. /\ TypeOK /\ InOrder /\ Window /\ ClientKnows /\ SocketKnows /\ WireHolds /\ Gapless
      /\ last \in 0..MaxSeq /\ MaxSeq \in Nat /\ last \in Nat /\ wire \in Seq(Frames)
      /\ epoch \in 1..MaxEpoch /\ clientEpoch \in 0..MaxEpoch /\ MaxEpoch \in Nat
      /\ lastSeq \in 0..MaxSeq /\ lastSeq \in Nat /\ epoch \in 0..MaxEpoch /\ epoch \in Nat
  BY LimitsType DEF Inv, StreamInv, TypeOK
<1>1. /\ wire # <<>> /\ wire' = Tail(wire)
      /\ UNCHANGED <<link, request, subscribed, transport, alive, epoch, first, last, losses>>
  BY DEF Deliver, session
<1>2. /\ Len(wire) \in Nat /\ Len(wire) > 0 /\ DOMAIN wire = 1..Len(wire)
      /\ Head(wire) = wire[1] /\ wire[1] \in Frames
      /\ wire' \in Seq(Frames) /\ Len(wire') = Len(wire) - 1 /\ DOMAIN wire' = 1..Len(wire')
      /\ \A i \in 1..Len(wire') : wire'[i] = wire[i + 1]
  BY <1>0, <1>1
<1>3. \A i \in 1..Len(wire') : i + 1 \in 1..Len(wire) /\ i + 1 # 1 BY <1>2
<1>4. \A i \in 1..Len(wire') : wire'[i].kind # "attached" /\ wire'[i].seq \in 1..last
  <2> SUFFICES ASSUME NEW i \in 1..Len(wire')
               PROVE  wire'[i].kind # "attached" /\ wire'[i].seq \in 1..last
    OBVIOUS
  <2>1. i + 1 \in DOMAIN wire /\ i + 1 # 1 /\ wire'[i] = wire[i + 1] BY <1>2, <1>3
  <2> QED BY <1>0, <2>1 DEF WireHolds
<1>5. WireHolds' BY <1>1, <1>2, <1>4 DEF WireHolds
<1>6. ~Answered' BY <1>2, <1>4 DEF Answered
<1>7. PICK f : f = wire[1] OBVIOUS
<1>8. subscribed /\ request = <<>> /\ link # "down" BY <1>0, <1>1 DEF SocketKnows
<1>9. /\ Shows(shown', epoch, lastSeq') /\ clientEpoch' = epoch /\ lastSeq' \in 0..last
      /\ transport = "terminal" => lastSeq' = Base + 1
  <2>1. CASE f.kind = "attached"
    <3>1. f \in Frames /\ Answer(f) BY <1>0, <1>2, <1>7, <2>1 DEF WireHolds
    <3>2. TakeAttached(f) BY <1>2, <1>7, <2>1 DEF Deliver
    <3>3. f.to \in 0..last BY <3>1 DEF Answer
    <3>4. Base = f.to - 1 BY <1>1, <1>7, <2>1 DEF Base, Answered
    <3>5. clientEpoch' = epoch /\ lastSeq' = f.to BY <3>1, <3>2, AnswerTaken
    <3>6. Shows(shown', epoch, f.to) BY <3>1, <3>2, AnswerShows
    <3>7. lastSeq' = Base + 1 BY <1>0, <3>3, <3>4, <3>5
    <3> QED BY <3>3, <3>5, <3>6, <3>7
  <2>2. CASE f.kind # "attached"
    <3>1. f.seq \in 1..last /\ 1 \in DOMAIN wire BY <1>0, <1>2, <1>7, <2>2 DEF WireHolds
    <3>2. TakeItem(f.seq) BY <1>2, <1>7, <2>2 DEF Deliver
    <3>3. ~Answered BY <1>7, <2>2 DEF Answered
    <3>4. clientEpoch = epoch BY <1>0, <1>8, <3>3 DEF SocketKnows
    <3>5. PICK n \in 1..last : n = f.seq BY <3>1
    <3>6. /\ lastSeq' \in Nat /\ lastSeq' <= last /\ lastSeq' = IF n > lastSeq THEN n ELSE lastSeq
          /\ Shows(shown', epoch, lastSeq')
      BY <3>2, <3>4, <3>5, ItemShows
    <3>7. clientEpoch' = epoch BY <3>2, <3>4 DEF TakeItem
    <3>8. transport = "terminal" => lastSeq' = Base + 1
      <4> SUFFICES ASSUME transport = "terminal" PROVE lastSeq' = Base + 1 OBVIOUS
      <4>1. Base = lastSeq BY <3>3 DEF Base
      <4>2. wire[1].kind = "item" BY <1>2, <1>7, <2>2, FrameKinds
      <4>3. n = Base + 1 BY <1>0, <1>7, <3>1, <3>5, <4>2 DEF Gapless
      <4> QED BY <1>0, <3>6, <4>1, <4>3
    <3> QED BY <1>0, <3>6, <3>7, <3>8
  <2> QED BY <2>1, <2>2
<1>10. Gapless'
  <2> SUFFICES ASSUME transport = "terminal" PROVE Gapless' BY <1>1 DEF Gapless
  <2>1. Base' = lastSeq' BY <1>6 DEF Base
  <2>2. Base \in Int /\ lastSeq' = Base + 1
    <3>1. Base \in Int
      <4>1. CASE Answered
        <5>1. 1 \in DOMAIN wire /\ wire[1].kind = "attached" BY <1>2, <4>1 DEF Answered
        <5>2. wire[1].to \in 0..last BY <1>0, <5>1 DEF WireHolds, Answer
        <5> QED BY <4>1, <5>2 DEF Base
      <4>2. CASE ~Answered BY <1>0, <4>2 DEF Base
      <4> QED BY <4>1, <4>2
    <3> QED BY <1>9, <3>1
  <2>3. \A i \in 1..Len(wire') : wire'[i].kind = "item" => wire'[i].seq = Base' + i
    <3> SUFFICES ASSUME NEW i \in 1..Len(wire'), wire'[i].kind = "item"
                 PROVE  wire'[i].seq = Base' + i
      OBVIOUS
    <3>1. wire'[i] = wire[i + 1] /\ i + 1 \in DOMAIN wire BY <1>2, <1>3
    <3>2. wire[i + 1].seq = Base + (i + 1) BY <1>0, <3>1 DEF Gapless
    <3>3. Base' + i = Base + (i + 1) BY <2>1, <2>2
    <3> QED BY <3>1, <3>2, <3>3
  <2>4. link = "up" => Base' + Len(wire') = last
    <3> SUFFICES ASSUME link = "up" PROVE Base' + Len(wire') = last OBVIOUS
    <3>1. Base + Len(wire) = last BY <1>0, <1>8 DEF Gapless
    <3> QED BY <1>2, <2>1, <2>2, <3>1
  <2> QED BY <1>1, <1>2, <2>3, <2>4 DEF Gapless
<1>11. SocketKnows'
  <2>1. subscribed' /\ request' = <<>> /\ link' # "down" BY <1>1, <1>8
  <2> QED BY <1>1, <1>9, <2>1 DEF SocketKnows
<1>12. /\ shown' \in Seq(Shown) /\ DOMAIN shown' = 1..Len(shown')
       /\ \A i \in 1..Len(shown') : shown'[i][1] = clientEpoch' /\ shown'[i][2] <= lastSeq'
       /\ \A i, j \in 1..Len(shown') : i < j => shown'[i][2] < shown'[j][2]
       /\ IF shown' = <<>> THEN lastSeq' = 0 ELSE shown'[Len(shown')][2] = lastSeq'
  BY <1>9 DEF Shows
<1>13. InOrder' BY <1>12 DEF InOrder
<1>14. ClientKnows'
  <2>1. clientEpoch' <= epoch' /\ clientEpoch' # 0 /\ lastSeq' <= last'
    BY <1>0, <1>1, <1>9
  <2> QED BY <1>12, <2>1 DEF ClientKnows
<1>15. Window' BY <1>0, <1>1 DEF Window
<1>16. TypeOK'
  <2>1. alive' \in BOOLEAN /\ subscribed' \in BOOLEAN BY <1>0, <1>1 DEF TypeOK
  <2>2. /\ transport' \in Transports /\ epoch' \in 1..MaxEpoch /\ last' \in 0..MaxSeq
        /\ first' \in 1..(last' + 1) /\ losses' \in 0..MaxLosses
        /\ link' \in {"down", "up", "closing"}
    BY <1>0, <1>1 DEF TypeOK
  <2>3. request' = <<>> BY <1>1, <1>8
  <2>4. clientEpoch' \in 0..MaxEpoch /\ lastSeq' \in 0..MaxSeq BY <1>0, <1>9
  <2>5. shown' \in Seq((1..MaxEpoch) \X (1..MaxSeq)) BY <1>12 DEF Shown
  <2> QED BY <1>2, <2>1, <2>2, <2>3, <2>4, <2>5, Zenon DEF TypeOK
<1> QED BY <1>5, <1>10, <1>11, <1>13, <1>14, <1>15, <1>16 DEF Inv, StreamInv

-----------------------------------------------------------------------------
(* The theorems.                                                            *)

\* The invariant holds for any limits, however often a connection is lost, the
\* page reloaded or the server restarted.
THEOREM StreamInvariant == Spec => []Inv
<1>1. Init => Inv BY StreamInit
<1>2. Inv /\ [Next]_vars => Inv'
  <2> SUFFICES ASSUME Inv, [Next]_vars PROVE Inv' OBVIOUS
  <2>1. CASE Emit \/ EmitAndDeliver BY <2>1, EmitStep
  <2>2. CASE HandleAttach BY <2>2, AttachStep
  <2>3. CASE Connect BY <2>3, ConnectStep
  <2>4. CASE Deliver BY <2>4, DeliverStep
  <2>5. CASE Closed \/ Lose \/ Reload \/ RestartRecovered \/ RestartEnded
    BY <2>5, DisconnectStep
  <2>6. CASE UNCHANGED vars
    <3>1. UNCHANGED <<transport, alive, epoch, first, last, link, request, subscribed, wire,
                      clientEpoch, lastSeq, shown, losses>>
      BY <2>6 DEF vars, session, socket, client
    <3> QED BY <3>1 DEF Inv, TypeOK, InOrder, StreamInv, Window, ClientKnows, SocketKnows,
                        WireHolds, Gapless, Answered, Answer, Base
  <2> QED BY <2>1, <2>2, <2>3, <2>4, <2>5, <2>6 DEF Next
<1> QED BY <1>1, <1>2, PTL DEF Spec

\* Every variable keeps its type (attachTo, handleMessage, the buffers).
THEOREM StreamTypes == Spec => []TypeOK
<1>1. Inv => TypeOK BY DEF Inv
<1> QED BY <1>1, StreamInvariant, PTL

\* A page never mixes two epochs and never shows an item twice or out of order
\* (attachTo, TerminalConnection.handleMessage), whatever the limits.
THEOREM StreamInOrder == Spec => []InOrder
<1>1. Inv => InOrder BY DEF Inv
<1> QED BY <1>1, StreamInvariant, PTL

-----------------------------------------------------------------------------
(* The promise.                                                             *)

\* The positions of what is shown.
Page(s) == [i \in DOMAIN s |-> s[i][2]]

\* Pages are as long as what they show, and no longer.
LEMMA PageOf ==
    ASSUME NEW s \in Seq(Shown)
    PROVE  /\ Page(s) \in Seq(Nat) /\ Len(Page(s)) = Len(s)
           /\ \A i \in 1..Len(s) : Page(s)[i] = s[i][2]
           /\ Page(s) = <<>> <=> s = <<>>
<1> DEFINE p == Page(s)
<1>1. Len(s) \in Nat /\ DOMAIN s = 1..Len(s) OBVIOUS
<1>2. p = [i \in 1..Len(s) |-> s[i][2]] BY <1>1 DEF Page
<1>3. \A i \in 1..Len(s) : s[i][2] \in Nat
  <2>1. \A x \in Shown : x[2] \in Nat BY LimitsType DEF Shown
  <2>2. \A i \in 1..Len(s) : s[i] \in Shown BY <1>1
  <2> QED BY <2>1, <2>2
<1> HIDE DEF p
<1>4. p \in [1..Len(s) -> Nat] BY <1>2, <1>3
<1>5. p \in Seq(Nat) BY <1>1, <1>4
<1>6. Len(p) = Len(s) BY <1>1, <1>4, <1>5
<1>7. \A i \in 1..Len(s) : p[i] = s[i][2] BY <1>2
<1>8. (p = <<>> <=> Len(p) = 0) /\ (s = <<>> <=> Len(s) = 0) BY <1>5
<1>9. p = <<>> <=> s = <<>> BY <1>6, <1>8
<1> QED BY <1>5, <1>6, <1>7, <1>9 DEF p

\* More of it is shown after it.
LEMMA PageConcat ==
    ASSUME NEW s \in Seq(Shown), NEW t \in Seq(Shown)
    PROVE  Page(s \o t) = Page(s) \o Page(t)
<1> DEFINE p == Page(s)
           q == Page(t)
           u == s \o t
           r == Page(u)
           v == p \o q
<1>1. /\ u \in Seq(Shown) /\ Len(u) = Len(s) + Len(t) /\ Len(s) \in Nat /\ Len(t) \in Nat
      /\ \A i \in 1..Len(u) : u[i] = IF i <= Len(s) THEN s[i] ELSE t[i - Len(s)]
  OBVIOUS
<1>2. p \in Seq(Nat) /\ Len(p) = Len(s) /\ \A i \in 1..Len(s) : p[i] = s[i][2] BY PageOf
<1>3. q \in Seq(Nat) /\ Len(q) = Len(t) /\ \A i \in 1..Len(t) : q[i] = t[i][2] BY PageOf
<1>4. r \in Seq(Nat) /\ Len(r) = Len(u) /\ \A i \in 1..Len(u) : r[i] = u[i][2] BY <1>1, PageOf
<1> HIDE DEF p, q, r
<1>5. /\ v \in Seq(Nat) /\ Len(v) = Len(p) + Len(q)
      /\ \A i \in 1..Len(v) : v[i] = IF i <= Len(p) THEN p[i] ELSE q[i - Len(p)]
  <2>1. v \in Seq(Nat) /\ Len(v) = Len(p) + Len(q) BY <1>2, <1>3, ConcatProperties
  <2>2. \A i \in 1..(Len(p) + Len(q)) : v[i] = IF i <= Len(p) THEN p[i] ELSE q[i - Len(p)]
    BY <1>2, <1>3, ConcatProperties
  <2> HIDE DEF v
  <2> QED BY <2>1, <2>2
<1> HIDE DEF u, v
<1>6. \A i \in 1..Len(r) : r[i] = v[i]
  <2> SUFFICES ASSUME NEW i \in 1..Len(r) PROVE r[i] = v[i] OBVIOUS
  <2>1. i \in 1..Len(u) /\ i \in 1..Len(v) BY <1>1, <1>2, <1>3, <1>4, <1>5
  <2>2. CASE i <= Len(s)
    <3>1. i \in 1..Len(s) BY <2>2
    <3>2. r[i] = s[i][2] BY <1>1, <1>4, <2>1, <2>2
    <3>3. v[i] = p[i] BY <1>2, <1>5, <2>1, <2>2
    <3> QED BY <1>2, <3>1, <3>2, <3>3
  <2>3. CASE ~(i <= Len(s))
    <3>1. i - Len(s) \in 1..Len(t) BY <1>1, <2>1, <2>3
    <3>2. r[i] = t[i - Len(s)][2] BY <1>1, <1>4, <2>1, <2>3
    <3>3. v[i] = q[i - Len(s)] BY <1>2, <1>5, <2>1, <2>3
    <3> QED BY <1>3, <3>1, <3>2, <3>3
  <2> QED BY <2>2, <2>3
<1>7. Len(r) = Len(v) BY <1>1, <1>2, <1>3, <1>4, <1>5
<1>8. r = v BY <1>4, <1>5, <1>6, <1>7, SeqEqual
<1> QED BY <1>8 DEF r, v, p, q, u

\* A replay is consecutive.
LEMMA PageEntries ==
    ASSUME NEW lo \in Nat, NEW hi \in Nat
    PROVE  Page(Entries(lo, hi)) = View!Consecutive(lo, hi)
<1>1. DOMAIN Entries(lo, hi) = 1..(hi - lo + 1) BY DEF Entries
<1>2. \A i \in 1..(hi - lo + 1) : Entries(lo, hi)[i][2] = lo + i - 1 BY DEF Entries
<1> QED BY <1>1, <1>2 DEF Page, View!Consecutive

\* So is one item.
LEMMA PageItem ==
    ASSUME NEW n \in Nat
    PROVE  Page(<<<<epoch, n>>>>) = View!Consecutive(n, n)
<1> DEFINE t == <<<<epoch, n>>>>
<1>1. DOMAIN t = 1..(n - n + 1) OBVIOUS
<1>2. \A i \in 1..(n - n + 1) : t[i][2] = n + i - 1 OBVIOUS
<1> HIDE DEF t
<1>3. Page(t) = View!Consecutive(n, n) BY <1>1, <1>2 DEF Page, View!Consecutive
<1> QED BY <1>3 DEF t

\* What the abstract page has reached is lastSeq.
LEMMA ViewReached ==
    ASSUME TypeOK, ClientKnows, transport = "terminal"
    PROVE  /\ View!Reached = lastSeq
           /\ Terminal(Page(shown), <<>>) = Page(shown)
<1>1. shown \in Seq(Shown) BY DEF TypeOK, Shown
<1>2. /\ Len(Page(shown)) = Len(shown) /\ \A i \in 1..Len(shown) : Page(shown)[i] = shown[i][2]
      /\ Page(shown) = <<>> <=> shown = <<>>
  BY <1>1, PageOf
<1>3. View!Reached = IF Page(shown) = <<>> THEN 0 ELSE Page(shown)[Len(Page(shown))]
  BY DEF View!Reached, View!Last, Terminal, Page
<1>4. CASE shown = <<>> BY <1>2, <1>3, <1>4 DEF ClientKnows, Terminal
<1>5. CASE shown # <<>>
  <2>1. Len(shown) \in 1..Len(shown) BY <1>1, <1>5
  <2>2. View!Reached = shown[Len(shown)][2] BY <1>2, <1>3, <1>5, <2>1
  <2> QED BY <1>5, <2>2 DEF ClientKnows, Terminal
<1> QED BY <1>4, <1>5

\* A fresh stream and an empty screen are what LiveView starts from.
LEMMA ViewInit == Init => View!Init
<1> SUFFICES ASSUME Init PROVE View!Init OBVIOUS
<1>1. epoch = 1 /\ last = 0 /\ first = 1 /\ clientEpoch = 0 /\ shown = <<>> BY DEF Init
<1>2. Page(shown) = <<>>
  <2>1. shown \in Seq(Shown) BY <1>1
  <2> QED BY <1>1, <2>1, PageOf
<1>3. Terminal([i \in DOMAIN shown |-> shown[i][2]], <<>>) = <<>> BY <1>2 DEF Page, Terminal
<1> QED BY <1>1, <1>3 DEF View!Init, Terminal

\* The abstract page when there is a terminal.
LEMMA ViewOf ==
    ASSUME transport = "terminal"
    PROVE  /\ Terminal(epoch, 1) = epoch /\ Terminal(last, 0) = last /\ Terminal(first, 1) = first
           /\ Terminal(clientEpoch, 0) = clientEpoch
           /\ Terminal([i \in DOMAIN shown |-> shown[i][2]], <<>>) = Page(shown)
BY DEF Terminal, Page

\* What leaves the stream and the screen alone is a stutter of the page.
LEMMA ViewStutters ==
    ASSUME UNCHANGED <<transport, epoch, first, last, clientEpoch, shown>>
    PROVE  UNCHANGED View!vars
BY DEF View!vars, Terminal

\* For a structured session everything is.
LEMMA ViewIdle ==
    ASSUME transport # "terminal", UNCHANGED transport
    PROVE  UNCHANGED View!vars
<1>1. /\ Terminal(epoch, 1) = 1 /\ Terminal(last, 0) = 0 /\ Terminal(first, 1) = 1
      /\ Terminal(clientEpoch, 0) = 0
      /\ Terminal([i \in DOMAIN shown |-> shown[i][2]], <<>>) = <<>>
  BY DEF Terminal
<1>2. /\ Terminal(epoch, 1)' = 1 /\ Terminal(last, 0)' = 0 /\ Terminal(first, 1)' = 1
      /\ Terminal(clientEpoch, 0)' = 0
      /\ Terminal([i \in DOMAIN shown |-> shown[i][2]], <<>>)' = <<>>
  BY DEF Terminal
<1> QED BY <1>1, <1>2 DEF View!vars

\* A client that is behind resumes the stream.
LEMMA ViewExtends ==
    ASSUME TypeOK, ClientKnows, transport = "terminal", transport' = "terminal",
           UNCHANGED <<epoch, first, last, clientEpoch>>, clientEpoch = epoch,
           NEW hi \in (lastSeq + 1)..last,
           Page(shown') = Page(shown) \o View!Consecutive(lastSeq + 1, hi)
    PROVE  View!Extend
<1>1. View!Reached = lastSeq BY ViewReached
<1>2. Terminal(clientEpoch, 0) = Terminal(epoch, 1) BY ViewOf
<1>3. hi \in (View!Reached + 1)..Terminal(last, 0) BY <1>1, ViewOf
<1>4. Terminal([i \in DOMAIN shown |-> shown[i][2]], <<>>)'
        = Terminal([i \in DOMAIN shown |-> shown[i][2]], <<>>)
            \o View!Consecutive(View!Reached + 1, hi)
  BY <1>1 DEF Terminal, Page
<1>5. UNCHANGED <<Terminal(epoch, 1), Terminal(last, 0), Terminal(first, 1), Terminal(clientEpoch, 0)>>
  BY DEF Terminal
<1> QED BY <1>2, <1>3, <1>4, <1>5, Zenon DEF View!Extend

\* A client that is on another stream, or that lacks what is gone, starts over.
LEMMA ViewResyncs ==
    ASSUME TypeOK, ClientKnows, transport = "terminal", transport' = "terminal",
           UNCHANGED <<epoch, first, last>>, clientEpoch' = epoch,
           NEW lo \in 1..first, NEW hi \in 0..last, lo <= hi + 1,
           clientEpoch = epoch => lastSeq + 1 < lo,
           Page(shown') = View!Consecutive(lo, hi)
    PROVE  View!Resync
<1>0. first \in Nat /\ lastSeq \in Nat /\ lo \in Nat
  <2>1. first \in Nat BY LimitsType DEF TypeOK
  <2>2. lastSeq \in Nat BY LimitsType DEF TypeOK
  <2> QED BY <2>1, <2>2
<1>1. View!Reached = lastSeq BY ViewReached
<1>2. Terminal(clientEpoch, 0) # Terminal(epoch, 1) \/ View!Reached + 1 < Terminal(first, 1)
  <2>1. CASE clientEpoch = epoch
    <3>1. lastSeq + 1 < first BY <1>0, <2>1
    <3> QED BY <1>1, <3>1, ViewOf
  <2>2. CASE clientEpoch # epoch BY <2>2, ViewOf
  <2> QED BY <2>1, <2>2
<1>3. Terminal(clientEpoch, 0) = Terminal(epoch, 1) => lo > View!Reached
  <2>1. clientEpoch = epoch => lo > lastSeq BY <1>0
  <2> QED BY <1>1, <2>1, ViewOf
<1>4. Terminal(clientEpoch, 0)' = Terminal(epoch, 1) BY DEF Terminal
<1>5. lo \in 1..Terminal(first, 1) /\ hi \in 0..Terminal(last, 0) BY ViewOf
<1>6. Terminal([i \in DOMAIN shown |-> shown[i][2]], <<>>)' = View!Consecutive(lo, hi)
  BY DEF Terminal, Page
<1>7. UNCHANGED <<Terminal(epoch, 1), Terminal(last, 0), Terminal(first, 1)>> BY DEF Terminal
<1> QED BY <1>2, <1>3, <1>4, <1>5, <1>6, <1>7, Zenon DEF View!Resync

\* Taking the next frame of a terminal extends its screen, replaces it for a
\* reason, or leaves it alone.
LEMMA ViewDelivers ==
    ASSUME Inv, Deliver, transport = "terminal"
    PROVE  View!Extend \/ View!Resync \/ UNCHANGED View!vars
<1>0. /\ TypeOK /\ InOrder /\ ClientKnows /\ SocketKnows /\ WireHolds /\ Gapless
      /\ last \in 0..MaxSeq /\ MaxSeq \in Nat /\ last \in Nat /\ wire \in Seq(Frames)
      /\ first \in Nat /\ first >= 1 /\ epoch \in 1..MaxEpoch
      /\ lastSeq \in Nat /\ shown \in Seq(Shown)
  BY LimitsType DEF Inv, StreamInv, TypeOK, Shown
<1>1. /\ wire # <<>> /\ UNCHANGED <<transport, epoch, first, last>>
      /\ 1 \in DOMAIN wire /\ Head(wire) = wire[1] /\ wire[1] \in Frames
  BY <1>0 DEF Deliver, session
<1>2. transport' = "terminal" BY <1>1
<1>3. PICK f : f = wire[1] OBVIOUS
<1>4. CASE f.kind = "attached"
  <2>1. f \in Frames /\ Answer(f) /\ TakeAttached(f)
    BY <1>0, <1>1, <1>3, <1>4 DEF WireHolds, Deliver
  <2>2. f.to \in 0..last /\ f.lo \in 1..(f.to + 1) BY <2>1 DEF Answer
  <2>3. f.to \in Nat /\ f.lo \in Nat /\ f.lo <= f.to + 1 /\ f.lo >= 1 BY <2>2
  <2>4. clientEpoch' = epoch BY <2>1, AnswerTaken
  <2>5. Page(Entries(f.lo, f.to)) = View!Consecutive(f.lo, f.to) BY <2>3, PageEntries
  <2>6. CASE shown' = shown /\ lastSeq = f.to /\ (clientEpoch # epoch => shown = <<>>)
    <3>1. CASE clientEpoch = epoch BY <1>1, <2>4, <2>6, <3>1, ViewStutters
    <3>2. CASE clientEpoch # epoch
      <4>1. View!Consecutive(1, 0) = <<>>
        <5>1. 0 - 1 + 1 = 0 OBVIOUS
        <5>2. View!Consecutive(1, 0) = [i \in 1..0 |-> 1 + i - 1] BY <5>1 DEF View!Consecutive
        <5>5. \A i \in 1..0 : 1 + i - 1 \in Nat OBVIOUS
        <5>3. View!Consecutive(1, 0) \in [1..0 -> Nat] BY <5>2, <5>5
        <5>4. View!Consecutive(1, 0) \in Seq(Nat) /\ Len(View!Consecutive(1, 0)) = 0 BY <5>3
        <5> QED BY <5>4
      <4>2. Page(shown') = <<>> BY <1>0, <2>6, <3>2, PageOf
      <4>3. 1 \in 1..first /\ 0 \in 0..last /\ 1 <= 0 + 1 BY <1>0
      <4>4. View!Resync
        BY <1>0, <1>1, <1>2, <2>4, <3>2, <4>1, <4>2, <4>3, ViewResyncs
      <4> QED BY <4>4
    <3> QED BY <3>1, <3>2
  <2>7. CASE shown' = Entries(f.lo, f.to) /\ f.truncated
    <3>1. f.lo <= first /\ (clientEpoch = epoch => lastSeq + 1 < f.lo) BY <2>1, <2>7 DEF Answer
    <3>2. f.lo \in 1..first BY <1>0, <2>3, <3>1
    <3>3. Page(shown') = View!Consecutive(f.lo, f.to) BY <2>5, <2>7
    <3>4. View!Resync
      BY <1>0, <1>1, <1>2, <2>2, <2>3, <2>4, <3>1, <3>2, <3>3, ViewResyncs
    <3> QED BY <3>4
  <2>8. CASE /\ shown' = shown \o Entries(f.lo, f.to) /\ f.lo = lastSeq + 1 /\ lastSeq < f.to
             /\ clientEpoch # epoch => shown = <<>>
    <3>1. Entries(f.lo, f.to) \in Seq(Shown)
      <4>3. f.lo \in Nat \ {0} /\ f.to \in 0..MaxSeq BY <1>0, <2>2, <2>3
      <4>4. f.lo <= f.to BY <1>0, <2>3, <2>8
      <4>1. f.lo \in Nat \ {0} /\ f.to \in 0..MaxSeq /\ f.lo <= f.to BY <4>3, <4>4
      <4>2. Shows(Entries(f.lo, f.to), epoch, f.to) BY <1>0, <2>3, <4>1, EntriesShow
      <4> QED BY <4>2 DEF Shows
    <3>2. Page(shown') = Page(shown) \o View!Consecutive(f.lo, f.to)
      BY <1>0, <2>5, <2>8, <3>1, PageConcat
    <3>3. CASE clientEpoch = epoch
      <4>1. f.to \in (lastSeq + 1)..last BY <1>0, <2>2, <2>8
      <4>2. UNCHANGED clientEpoch BY <2>4, <3>3
      <4>3. Page(shown') = Page(shown) \o View!Consecutive(lastSeq + 1, f.to) BY <2>8, <3>2
      <4>4. View!Extend BY <1>0, <1>1, <1>2, <3>3, <4>1, <4>2, <4>3, ViewExtends
      <4> QED BY <4>4
    <3>4. CASE clientEpoch # epoch
      <4>1. shown = <<>> /\ f.lo = 1 BY <1>0, <2>8, <3>4 DEF ClientKnows
      <4>2. shown' = Entries(f.lo, f.to) BY <2>8, <3>1, <4>1, ConcatEmptySeq
      <4>3. Page(shown') = View!Consecutive(f.lo, f.to) BY <2>5, <4>2
      <4>4. f.lo \in 1..first BY <1>0, <4>1
      <4>5. View!Resync
        BY <1>0, <1>1, <1>2, <2>2, <2>3, <2>4, <3>4, <4>3, <4>4, ViewResyncs
      <4> QED BY <4>5
    <3> QED BY <3>3, <3>4
  <2> QED BY <2>1, <2>6, <2>7, <2>8, AnswerTaken
<1>5. CASE f.kind # "attached"
  <2>1. wire[1].kind = "item" /\ wire[1].seq \in 1..last
    BY <1>0, <1>1, <1>3, <1>5, FrameKinds DEF WireHolds
  <2>2. ~Answered /\ Base = lastSeq BY <1>3, <1>5 DEF Answered, Base
  <2>3. clientEpoch = epoch BY <1>0, <1>1, <2>2 DEF SocketKnows
  <2>4. wire[1].seq = lastSeq + 1 BY <1>0, <1>1, <2>1, <2>2 DEF Gapless
  <2>5. PICK n \in 1..last : n = wire[1].seq BY <2>1
  <2>6. n = lastSeq + 1 /\ n > lastSeq BY <1>0, <2>4, <2>5
  <2>7. TakeItem(n) BY <1>1, <2>1, <2>5 DEF Deliver
  <2>8. UNCHANGED clientEpoch /\ shown' = Append(shown, <<epoch, n>>)
    BY <2>6, <2>7 DEF TakeItem, Fresh
  <2>9. <<epoch, n>> \in Shown BY <1>0 DEF Shown
  <2>10. shown' = shown \o <<<<epoch, n>>>> BY <1>0, <2>8, <2>9, AppendIsConcat
  <2>11. <<<<epoch, n>>>> \in Seq(Shown) BY <2>9
  <2>12. Page(shown') = Page(shown) \o View!Consecutive(lastSeq + 1, n)
    <3>1. n \in Nat BY <1>0
    <3>2. Page(<<<<epoch, n>>>>) = View!Consecutive(n, n) BY <3>1, PageItem
    <3>3. View!Consecutive(n, n) = View!Consecutive(lastSeq + 1, n) BY <2>6
    <3>4. Page(shown') = Page(shown) \o Page(<<<<epoch, n>>>>) BY <1>0, <2>10, <2>11, PageConcat
    <3> QED BY <3>2, <3>3, <3>4
  <2>13. n \in (lastSeq + 1)..last BY <1>0, <2>6
  <2>14. View!Extend BY <1>0, <1>1, <1>2, <2>3, <2>8, <2>12, <2>13, ViewExtends
  <2> QED BY <2>14
<1> QED BY <1>4, <1>5

\* Whatever happens is a step of the promise, or none it speaks of.
LEMMA ViewStep ==
    ASSUME Inv, [Next]_vars PROVE [View!Next]_(View!vars)
<1>0. UNCHANGED transport
  BY DEF Next, Emit, EmitAndDeliver, HandleAttach, Connect, Deliver, Closed, Lose, Reload,
         RestartRecovered, RestartEnded, session, vars
<1>1. CASE transport # "terminal" BY <1>0, <1>1, ViewIdle
<1>2. CASE transport = "terminal"
  <2>0. transport' = "terminal" BY <1>0, <1>2
  <2>1. CASE Emit
    <3>1. /\ last' = last + 1 /\ first' \in first..last' /\ UNCHANGED <<epoch, clientEpoch, shown>>
      BY <2>1 DEF Emit, Store, client
    <3>2. View!Grow BY <1>2, <2>0, <3>1 DEF View!Grow, Terminal
    <3> QED BY <3>2 DEF View!Next
  <2>2. CASE EmitAndDeliver BY <1>2, <2>2 DEF EmitAndDeliver
  <2>3. CASE HandleAttach \/ Connect \/ Closed \/ Lose \/ RestartEnded \/ UNCHANGED vars
    <3>1. UNCHANGED <<transport, epoch, first, last, clientEpoch, shown>>
      BY <2>3 DEF HandleAttach, Connect, Closed, Lose, RestartEnded, session, client, vars
    <3> QED BY <3>1, ViewStutters
  <2>4. CASE Reload
    <3>1. clientEpoch' = 0 /\ shown' = <<>> /\ UNCHANGED <<epoch, first, last>>
      BY <2>4 DEF Reload, session
    <3>2. <<>> \in Seq(Shown) OBVIOUS
    <3>3. Page(shown') = <<>> BY <3>1, <3>2, PageOf
    <3>4. Terminal([i \in DOMAIN shown |-> shown[i][2]], <<>>)' = <<>> BY <3>3 DEF Terminal, Page
    <3>5. Terminal(clientEpoch, 0)' = 0 BY <3>1 DEF Terminal
    <3>6. UNCHANGED <<Terminal(epoch, 1), Terminal(last, 0), Terminal(first, 1)>>
      BY <1>0, <3>1 DEF Terminal
    <3>7. View!Leave BY <3>4, <3>5, <3>6, Zenon DEF View!Leave
    <3> QED BY <3>7 DEF View!Next
  <2>5. CASE RestartRecovered
    <3>1. epoch' = epoch + 1 /\ first' = 1 /\ last' = 0 /\ UNCHANGED <<clientEpoch, shown>>
      BY <2>5 DEF RestartRecovered, client
    <3>2. View!StartOver BY <1>2, <2>0, <3>1 DEF View!StartOver, Terminal
    <3> QED BY <3>2 DEF View!Next
  <2>6. CASE Deliver
    <3>1. View!Extend \/ View!Resync \/ UNCHANGED View!vars BY <1>2, <2>6, ViewDelivers
    <3> QED BY <3>1 DEF View!Next
  <2> QED BY <2>1, <2>2, <2>3, <2>4, <2>5, <2>6 DEF Next
<1> QED BY <1>1, <1>2

\* A terminal's screen is an unbroken piece of one stream and is replaced only
\* when it has to be: buffers, route and client together keep LiveView.
THEOREM StreamKeepsPromise == Spec => Promise
<1>1. Init => View!Init BY ViewInit
<1>2. Inv /\ [Next]_vars => [View!Next]_(View!vars) BY ViewStep
<1> QED BY <1>1, <1>2, StreamInvariant, PTL DEF Spec, Promise, View!Spec
=============================================================================
