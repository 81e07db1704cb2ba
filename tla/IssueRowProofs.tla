---------------------------- MODULE IssueRowProofs ----------------------------
(***************************************************************************)
(* Theorems about the row of an issue, while no two of its deliveries run  *)
(* side by side, for any agents, any number of deliveries and any          *)
(* scenarios: a conversation that cannot be resumed does not stay in it,   *)
(* and what it continues is continued in its own directory.                *)
(* They rest on IssueConversationsProofs and are laid out as those are.    *)
(***************************************************************************)
EXTENDS IssueConversationsProofs

Going(s, X) == {d \in Numbers \ X : UnderWay(s, d)}
Alone(s, X) == \A d, e \in Going(s, X) :
    d # e => s.update[d].session # Nil /\ s.update[d].session = s.update[e].session

Excused(s, c) == \E d \in Numbers : s.update[d].resume = c /\ s.update[d].started = s.memo.born
Pending(s)    == (\E d \in s.recheck : Resumed(s, d)) /\ ~UpIn(s, s.memo.session)

LinePreparing(s, p) == LET r == s.update[p] IN
    s.memo.there => /\ s.memo.born < r.received /\ s.memo.born < r.started
                    /\ r.resume # Nil => s.memo.id = r.resume
LineCreating(s, p) == LET r == s.update[p] IN
    /\ s.recheck = {} /\ s.memo.there /\ s.memo.agent = r.agent
    /\ s.memo.born < r.received \/ s.memo.born = r.started
    /\ r.resume # Nil => s.memo.id = r.resume \/ s.memo.born = r.started
LineRunning(s, p) == LET r == s.update[p] IN
    UpIn(s, r.session) => /\ s.memo.there /\ s.memo.session = r.session /\ s.memo.agent = r.agent
                          /\ p = r.session => s.memo.born < r.received \/ s.memo.born = r.started
LineWaiting(s, X, d) ==
    /\ s.memo.there => s.memo.born < s.update[d].received
    /\ \A p \in Going(s, X) : Starting(s, p) => s.update[p].started < s.update[d].received

LineOf(s, p) ==
    /\ s.update[p].state = "preparing" => LinePreparing(s, p)
    /\ s.update[p].state = "creating" => LineCreating(s, p)
    /\ s.update[p].state = "running" => LineRunning(s, p)
LineRow(s) ==
    UpIn(s, s.memo.session) /\ s.update[s.memo.session].resume # Nil =>
        s.memo.id = s.update[s.memo.session].resume
Line(s, X) ==
    /\ \A p \in Going(s, X) : LineOf(s, p)
    /\ LineRow(s)
    /\ \A d \in InLine(s) : LineWaiting(s, X, d)
\* k: the deliveries each conversation has failed.
Dead(s, k) == \A c \in Numbers : k[c] > 0 /\ s.memo.id = c => Excused(s, c) \/ Pending(s)

Served(s) == InLine(s) # {} => \E p \in Going(s, {}) : Starting(s, p) \/ UpIn(s, s.update[p].session)

\* What NoWedge rests on, of state s and the count k of those that failed.
Orderly(s, k) == Line(s, {}) /\ Dead(s, k) /\ Served(s)

ILine == ~beside => Alone(Now, {}) /\ Orderly(Now, cost)

----------------------------------------------------------------------------
\* A session that cannot be resumed.  X: those that the handler is about to end.
Doom(s, n) == s.work[n].id # n /\ (s.work[n].id \in lost \/ s.work[s.work[n].id].agent # s.work[n].agent)
Sure(s, X) == /\ \A c \in lost : s.work[c].agent # "none" /\ (s.work[c].up => s.work[c].id # c)
              /\ \A n \in Numbers \ X : s.work[n].up /\ Doom(s, n) => n \in s.work[n].watchers
Aside == /\ cost \in [Numbers -> Nat] /\ lost \subseteq Numbers
         /\ \A c \in Numbers : cost[c] > 0 => c \in lost \/ c = Old
         /\ Sure(Now, {})
----------------------------------------------------------------------------
(* Under way one after the other: what the handlers' steps leave of Line.  *)

(* A start touches no other delivery.                                       *)
LEMMA StartOthers ==
  ASSUME NEW s, NEW t, NEW d, NEW h, Fit(s), Ready(s, d, h), Start(s, t, d, h)
  PROVE  /\ d \in Numbers \ {Old} /\ s \in States /\ t \in States /\ t.recheck = s.recheck
         /\ s.update[d].agent \in Agents /\ s.work[d] = NoWork /\ ~s.work[d].up
         /\ s.update[d].state \in {"none", "waiting"}
         /\ t.update[d].state \notin {"none", "waiting", "skipped", "creating"}
         /\ \A e \in Numbers \ {d} : t.update[e] = s.update[e]
         /\ InLine(t) = InLine(s) \ {d}
         /\ \A X : Going(t, X) \ {d} = Going(s, X)
         /\ \A n \in Ids : UpIn(t, n) <=> UpIn(s, n)
<1>1. d \in Numbers \ {Old} /\ s \in States /\ t \in States /\ t.recheck = s.recheck
      /\ s.update[d].agent \in Agents /\ FitRun(s, d) /\ s.update[d].state \in {"none", "waiting"}
  BY DEF Ready, Fit, Start, Begun
<1>2. s.work[d] = NoWork /\ ~s.work[d].up
  BY <1>1 DEF FitRun, NoWork
<1>3. \A e \in Numbers \ {d} : t.update[e] = s.update[e]
  BY DEF Start, Begun
<1>4. t.update[d].state \notin {"none", "waiting", "skipped", "creating"}
  BY DEF Start, AsFollowUp, AsNew, AsChat, AsRefused
<1>5. InLine(t) = InLine(s) \ {d}
  BY <1>3, <1>4 DEF InLine
<1>6. ASSUME NEW X PROVE Going(t, X) \ {d} = Going(s, X)
  <2>1. d \notin Going(s, X)
    BY <1>1 DEF Going, UnderWay, Starting
  <2>2. \A e \in Numbers \ {d} : UnderWay(t, e) <=> UnderWay(s, e)
    BY <1>3 DEF UnderWay, Starting
  <2> QED BY <2>1, <2>2 DEF Going
<1>7. \A n \in Numbers : t.work[n].up <=> s.work[n].up
  <2>1. CASE AsFollowUp(s, t, d)
    BY <2>1 DEF AsFollowUp, SameWork
  <2>2. CASE AsNew(s, t, d, h) \/ AsRefused(s, t, d)
    BY <2>2 DEF AsNew, AsRefused
  <2>3. CASE AsChat(s, t, d)
    <3>1. s.work[d] \in Works
      BY <1>1 DEF States
    <3>2. t.work[d].up <=> s.work[d].up
      BY <2>3, <3>1 DEF AsChat, Works
    <3> QED BY <2>3, <3>2 DEF AsChat, SameWork
  <2> QED BY <2>1, <2>2, <2>3 DEF Start
<1>8. \A n \in Ids : UpIn(t, n) <=> UpIn(s, n)
  BY <1>7, NumbersAre DEF UpIn
<1> QED BY <1>1, <1>2, <1>3, <1>4, <1>5, <1>6, <1>8

(* What a delivery under way relies on stays as it is.                      *)
LEMMA LineOfStays ==
  ASSUME NEW s, NEW t, NEW p \in Numbers, s \in States, LineOf(s, p), t.update[p] = s.update[p],
         t.recheck = s.recheck, UpIn(t, s.update[p].session) => UpIn(s, s.update[p].session),
         t.memo.there = s.memo.there, t.memo.id = s.memo.id, t.memo.session = s.memo.session,
         t.memo.born = s.memo.born,
         s.memo.there /\ s.memo.agent = s.update[p].agent => t.memo.agent = s.memo.agent
  PROVE  LineOf(t, p)
<1>1. s.update[p].state = "preparing" => LinePreparing(t, p)
  BY DEF LineOf, LinePreparing
<1>2. s.update[p].state = "creating" => LineCreating(t, p)
  BY DEF LineOf, LineCreating
<1>3. s.update[p].state = "running" => LineRunning(t, p)
  BY DEF LineOf, LineRunning
<1> QED BY <1>1, <1>2, <1>3 DEF LineOf

(* The row's session resumes what it resumed, if it is up.                   *)
LEMMA LineRowStays ==
  ASSUME NEW s, NEW t, LineRow(s), t.memo = s.memo, s.memo.session \in Ids,
         \A n \in Numbers : t.update[n].resume = s.update[n].resume,
         UpIn(t, s.memo.session) => UpIn(s, s.memo.session)
  PROVE  LineRow(t)
<1>1. CASE s.memo.session = Nil
  BY <1>1 DEF LineRow, UpIn
<1>2. CASE s.memo.session \in Numbers
  BY <1>2 DEF LineRow
<1> QED BY <1>1, <1>2 DEF Ids

(* Fewer deliveries to answer for.                                          *)
LEMMA LineLess ==
  ASSUME NEW s, NEW X, NEW Y, X \subseteq Y, Line(s, X)
  PROVE  Line(s, Y)
<1>1. Going(s, Y) \subseteq Going(s, X)
  BY DEF Going
<1> QED BY <1>1 DEF Line, LineWaiting

(* Sessions that end, and nothing else.                                     *)
LEMMA LineKept ==
  ASSUME NEW s, NEW t, NEW X, s \in States, t.memo = s.memo, t.recheck = s.recheck, t.update = s.update,
         \A n \in Numbers : t.work[n].up => s.work[n].up, Line(s, X)
  PROVE  Line(t, X)
<1>1. Going(t, X) = Going(s, X) /\ InLine(t) = InLine(s) /\ Going(s, X) \subseteq Numbers
  BY DEF Going, InLine, UnderWay, Starting
<1>2. \A n \in Ids : UpIn(t, n) => UpIn(s, n)
  BY NumbersAre DEF UpIn
<1>3. s.memo.session \in Ids /\ \A p \in Numbers : s.update[p].session \in Ids
  BY DEF States, Rows, Runs
<1>4. ASSUME NEW p \in Going(t, X) PROVE LineOf(t, p)
  <2>1. p \in Numbers /\ LineOf(s, p)
    BY <1>1 DEF Line
  <2> QED BY <1>2, <1>3, <2>1, LineOfStays
<1>5. LineRow(t)
  BY <1>2, <1>3 DEF Line, LineRow
<1>6. \A d \in InLine(t) : LineWaiting(t, X, d)
  BY <1>1 DEF Line, LineWaiting, Starting
<1> QED BY <1>4, <1>5, <1>6 DEF Line

(* A follow-up joins those that run in its session.                         *)
LEMMA FollowLine ==
  ASSUME NEW s, NEW t, NEW d, NEW h, Fit(s), Ready(s, d, h), Start(s, t, d, h), AsFollowUp(s, t, d),
         NEW X, Line(s, X)
  PROVE  Line(t, X)
<1> DEFINE n == s.memo.session
<1>1. /\ d \in Numbers \ {Old} /\ s \in States /\ t.recheck = s.recheck /\ ~s.work[d].up
      /\ \A e \in Numbers \ {d} : t.update[e] = s.update[e]
      /\ InLine(t) = InLine(s) \ {d} /\ Going(t, X) \ {d} = Going(s, X)
      /\ \A m \in Ids : UpIn(t, m) <=> UpIn(s, m)
  BY StartOthers
<1>2. /\ n \in Numbers /\ s.work[n].up /\ Owns(s, s.update[d].agent)
      /\ t.update[d].state = "running" /\ t.update[d].session = n
      /\ t.memo.there /\ t.memo.agent = s.update[d].agent /\ t.memo.session = n
      /\ t.memo.id = s.memo.id /\ t.memo.born = s.memo.born
  BY DEF AsFollowUp, MayContinue
<1>3. s.memo.there /\ (s.memo.agent = Unknown \/ t.memo.agent = s.memo.agent)
  BY <1>2 DEF Owns
<1>4. s.memo.session \in Ids /\ \A p \in Numbers : s.update[p].session \in Ids
  BY <1>1 DEF States, Rows, Runs
<1>5. ASSUME NEW p \in Going(s, X) PROVE LineOf(t, p)
  <2>1. p \in Numbers \ {d} /\ LineOf(s, p) /\ UnderWay(s, p) /\ FitRun(s, p)
    BY <1>1 DEF Line, Going, Fit
  <2>2. s.update[p].agent # Unknown
    BY <2>1, AgentsAre DEF FitRun, UnderWay, Starting
  <2> QED BY <1>1, <1>2, <1>3, <1>4, <2>1, <2>2, LineOfStays
<1>6. LineOf(t, d)
  <2>1. t.update[d].agent = s.update[d].agent /\ d # n
    BY <1>1, <1>2 DEF Start, Begun, SameWish
  <2> QED BY <1>2, <2>1 DEF LineOf, LineRunning
<1>7. LineRow(t)
  <2>1. n # d
    BY <1>1, <1>2
  <2> QED BY <1>1, <1>2, <1>4, <2>1 DEF Line, LineRow
<1>8. \A e \in InLine(t) : LineWaiting(t, X, e)
  <2> SUFFICES ASSUME NEW e \in InLine(t) PROVE LineWaiting(t, X, e)
    OBVIOUS
  <2>1. e \in InLine(s) /\ t.update[e] = s.update[e] /\ LineWaiting(s, X, e)
    BY <1>1 DEF InLine, Line
  <2>2. \A p \in Going(t, X) : Starting(t, p) => p \in Going(s, X) /\ Starting(s, p) /\ t.update[p] = s.update[p]
    BY <1>1, <1>2 DEF Starting, Going
  <2> QED BY <1>2, <1>3, <2>1, <2>2 DEF LineWaiting
<1> QED BY <1>1, <1>5, <1>6, <1>7, <1>8 DEF Line

(* One that nobody waits behind starts afresh or resumes.                   *)
LEMMA NewLine ==
  ASSUME NEW s, NEW t, NEW d, NEW h, Fit(s), Ready(s, d, h), Start(s, t, d, h), AsNew(s, t, d, h),
         NEW X, Line(s, X), InLine(s) \subseteq {d},
         s.memo.there => s.memo.born < s.update[d].received
  PROVE  Line(t, X)
<1>1. /\ d \in Numbers \ {Old} /\ s \in States /\ t.recheck = s.recheck /\ ~s.work[d].up
      /\ \A e \in Numbers \ {d} : t.update[e] = s.update[e]
      /\ InLine(t) = InLine(s) \ {d} /\ Going(t, X) \ {d} = Going(s, X)
      /\ \A m \in Ids : UpIn(t, m) <=> UpIn(s, m)
  BY StartOthers
<1>2. /\ t.memo = s.memo /\ t.update[d].state = "preparing"
      /\ t.update[d].resume = (IF MayContinue(s, d) THEN s.memo.id ELSE Nil)
  BY DEF AsNew
<1>3. s.memo.born \in Nat /\ s.clock \in Nat /\ s.memo.born <= s.clock
  BY <1>1 DEF States, Rows, Fit, FitRow
<1>4. s.memo.session \in Ids /\ \A p \in Numbers : s.update[p].session \in Ids
  BY <1>1 DEF States, Rows, Runs
<1>5. ASSUME NEW p \in Going(s, X) PROVE LineOf(t, p)
  <2>1. p \in Numbers \ {d} /\ LineOf(s, p)
    BY <1>1 DEF Line, Going
  <2> QED BY <1>1, <1>2, <1>4, <2>1, LineOfStays
<1>6. LineOf(t, d)
  <2>1. t.update[d].received = s.update[d].received /\ t.update[d].started = s.clock + 1
    BY DEF Start, Begun, SameWish
  <2>2. s.memo.there => s.memo.born < t.update[d].started
    BY <1>3, <2>1
  <2> QED BY <1>2, <2>1, <2>2 DEF LineOf, LinePreparing
<1>7. LineRow(t)
  <2>1. UpIn(s, s.memo.session) => s.memo.session # d
    BY <1>1 DEF UpIn
  <2>2. UpIn(s, s.memo.session) => t.update[s.memo.session] = s.update[s.memo.session]
    BY <1>1, <1>4, <2>1, NumbersAre DEF UpIn
  <2> QED BY <1>1, <1>2, <1>4, <2>2 DEF Line, LineRow
<1> QED BY <1>1, <1>5, <1>6, <1>7 DEF Line

(* A chat that is alone.                                                    *)
LEMMA ChatLine ==
  ASSUME NEW s, NEW t, NEW d, NEW h, Fit(s), Ready(s, d, h), Start(s, t, d, h), AsChat(s, t, d),
         NEW X, Line(s, X), InLine(s) \subseteq {d}, Going(t, X) \subseteq {d}
  PROVE  Line(t, X)
<1>1. /\ d \in Numbers \ {Old} /\ s \in States /\ ~s.work[d].up
      /\ \A e \in Numbers \ {d} : t.update[e] = s.update[e]
      /\ InLine(t) = InLine(s) \ {d}
      /\ \A m \in Ids : UpIn(t, m) <=> UpIn(s, m)
  BY StartOthers
<1>2. s.update[d].session = Nil
  BY DEF Fit, FitRun, Ready
<1>3. /\ t.update[d].state = "running" /\ t.update[d].session = Nil
      /\ (t.memo.session = s.memo.session /\ t.memo.id = s.memo.id) \/ t.memo.session = Nil
  BY <1>2 DEF AsChat
<1>4. s.memo.session \in Ids
  BY <1>1 DEF States, Rows
<1>5. LineOf(t, d)
  BY <1>3 DEF LineOf, LineRunning, UpIn
<1>6. LineRow(t)
  <2>1. CASE t.memo.session = Nil
    BY <2>1 DEF LineRow, UpIn
  <2>2. CASE t.memo.session = s.memo.session /\ t.memo.id = s.memo.id
    <3>1. UpIn(s, s.memo.session) => s.memo.session # d
      BY <1>1 DEF UpIn
    <3>2. UpIn(s, s.memo.session) => t.update[s.memo.session] = s.update[s.memo.session]
      BY <1>1, <1>4, <3>1, NumbersAre DEF UpIn
    <3> QED BY <1>1, <1>4, <2>2, <3>2 DEF Line, LineRow
  <2> QED BY <1>3, <2>1, <2>2
<1> QED BY <1>1, <1>5, <1>6 DEF Line

(* One that is refused leaves the row alone.                                *)
LEMMA RefusedLine ==
  ASSUME NEW s, NEW t, NEW d, NEW h, Fit(s), Ready(s, d, h), Start(s, t, d, h), AsRefused(s, t, d),
         NEW X, Line(s, X)
  PROVE  Line(t, X)
<1>1. /\ d \in Numbers \ {Old} /\ s \in States /\ t.recheck = s.recheck /\ ~s.work[d].up
      /\ \A e \in Numbers \ {d} : t.update[e] = s.update[e]
      /\ InLine(t) = InLine(s) \ {d} /\ Going(t, X) \ {d} = Going(s, X)
      /\ \A m \in Ids : UpIn(t, m) <=> UpIn(s, m)
  BY StartOthers
<1>2. t.memo = s.memo /\ t.update[d].state = "failed"
  BY DEF AsRefused
<1>3. d \notin Going(t, X) /\ d \notin Going(s, X)
  BY <1>1, <1>2 DEF Going, UnderWay, Starting
<1>4. s.memo.session \in Ids /\ \A p \in Numbers : s.update[p].session \in Ids
  BY <1>1 DEF States, Rows, Runs
<1>5. ASSUME NEW p \in Going(s, X) PROVE LineOf(t, p)
  <2>1. p \in Numbers \ {d} /\ LineOf(s, p)
    BY <1>1, <1>3 DEF Line, Going
  <2> QED BY <1>1, <1>2, <1>4, <2>1, LineOfStays
<1>6. LineRow(t)
  <2>1. UpIn(s, s.memo.session) => s.memo.session # d
    BY <1>1 DEF UpIn
  <2>2. UpIn(s, s.memo.session) => t.update[s.memo.session] = s.update[s.memo.session]
    BY <1>1, <1>4, <2>1, NumbersAre DEF UpIn
  <2> QED BY <1>1, <1>2, <1>4, <2>2 DEF Line, LineRow
<1>7. \A e \in InLine(t) : LineWaiting(t, X, e)
  <2> SUFFICES ASSUME NEW e \in InLine(t) PROVE LineWaiting(t, X, e)
    OBVIOUS
  <2>1. e \in InLine(s) /\ t.update[e] = s.update[e] /\ LineWaiting(s, X, e)
    BY <1>1 DEF InLine, Line
  <2>2. \A p \in Going(t, X) : p \in Going(s, X) /\ t.update[p] = s.update[p]
    BY <1>1, <1>3 DEF Going
  <2> QED BY <1>2, <2>1, <2>2 DEF LineWaiting, Starting
<1> QED BY <1>1, <1>3, <1>5, <1>6, <1>7 DEF Line

NoneCreating(s, X) == \A p \in Going(s, X) : s.update[p].state # "creating"

(* Whoever starts is not creating yet.                                      *)
LEMMA StartNone ==
  ASSUME NEW s, NEW t, NEW d, NEW h, Fit(s), Ready(s, d, h), Start(s, t, d, h), NEW X, NoneCreating(s, X)
  PROVE  NoneCreating(t, X)
<1>1. Going(t, X) \ {d} = Going(s, X) /\ \A e \in Numbers \ {d} : t.update[e] = s.update[e]
  BY StartOthers
<1>2. t.update[d].state # "creating"
  BY StartOthers
<1> QED BY <1>1, <1>2 DEF NoneCreating, Going

(* The pump starts a waiter that has come after the row was begun.          *)
LEMMA PumpLine ==
  ASSUME NEW s, NEW t, Fit(s), PumpAs(s, t), NEW X, Line(s, X)
  PROVE  Line(t, X) /\ (NoneCreating(s, X) => NoneCreating(t, X))
<1>1. CASE t = s
  BY <1>1
<1>2. CASE \E d \in InLine(s) : Ready(s, d, TRUE) /\ Start(s, t, d, TRUE)
  <2>1. PICK d \in InLine(s) : Ready(s, d, TRUE) /\ Start(s, t, d, TRUE)
    BY <1>2
  <2>2. d \in Numbers /\ s.update[d].state = "waiting" /\ FitRun(s, d)
    BY DEF InLine, Fit
  <2>3. s.update[d].agent \notin PocketAgents
    BY <2>2, AgentsAre DEF FitRun
  <2>4. InLine(s) \subseteq {d}
    BY <2>2 DEF InLine, Fit
  <2>5. s.memo.there => s.memo.born < s.update[d].received
    BY DEF Line, LineWaiting
  <2>6. AsFollowUp(s, t, d) \/ AsNew(s, t, d, TRUE)
    BY <2>1, <2>3 DEF Start, AsChat, AsRefused
  <2>7. Line(t, X)
    BY <2>1, <2>4, <2>5, <2>6, FollowLine, NewLine
  <2>8. NoneCreating(s, X) => NoneCreating(t, X)
    BY <2>1, StartNone
  <2> QED BY <2>7, <2>8
<1> QED BY <1>1, <1>2 DEF PumpAs

(* Those that end are no longer under way.                                  *)
LEMMA CloseOthers ==
  ASSUME NEW s, NEW t, NEW ds \in SUBSET Numbers, NEW how \in {"succeeded", "failed"},
         CloseAs(s, t, ds, how), t.work = s.work
  PROVE  /\ Going(t, {}) = Going(s, ds)
         /\ InLine(t) \subseteq InLine(s)
         /\ \A p \in Going(s, ds) \cup InLine(t) : t.update[p] = s.update[p]
         /\ \A n \in Numbers : t.update[n].resume = s.update[n].resume
         /\ \A n : UpIn(t, n) <=> UpIn(s, n)
<1>1. \A p \in Numbers \ ds : t.update[p] = s.update[p]
  BY DEF CloseAs
<1>2. \A p \in ds : t.update[p].state = how /\ t.update[p].resume = s.update[p].resume
  BY DEF CloseAs, OverAs
<1>3. Going(t, {}) = Going(s, ds)
  BY <1>1, <1>2 DEF Going, UnderWay, Starting
<1> QED BY <1>1, <1>2, <1>3 DEF InLine, UpIn, Going

(* Those that end leave the others in line.                                *)
LEMMA CloseLine ==
  ASSUME NEW s, NEW t, NEW ds \in SUBSET Numbers, NEW how \in {"succeeded", "failed"}, s \in States,
         ClosedAs(s, t, ds, how), Line(s, ds)
  PROVE  Line(t, {})
<1>1. CloseAs(s, t, ds, how) /\ t.work = s.work /\ t.memo = s.memo /\ t.recheck = s.recheck
  BY DEF ClosedAs
<1>2. /\ Going(t, {}) = Going(s, ds) /\ Going(s, ds) \subseteq Numbers
      /\ InLine(t) \subseteq InLine(s)
      /\ \A p \in Going(s, ds) \cup InLine(t) : t.update[p] = s.update[p]
      /\ \A n \in Numbers : t.update[n].resume = s.update[n].resume
      /\ \A n : UpIn(t, n) <=> UpIn(s, n)
  BY <1>1, CloseOthers DEF Going
<1>3. s.memo.session \in Ids /\ \A p \in Numbers : s.update[p].session \in Ids
  BY DEF States, Rows, Runs
<1>4. ASSUME NEW p \in Going(t, {}) PROVE LineOf(t, p)
  <2>1. p \in Numbers /\ LineOf(s, p)
    BY <1>2 DEF Line
  <2> QED BY <1>1, <1>2, <1>3, <2>1, LineOfStays
<1>5. LineRow(t)
  BY <1>1, <1>2, <1>3, LineRowStays DEF Line
<1>6. \A d \in InLine(t) : LineWaiting(t, {}, d)
  BY <1>1, <1>2 DEF Line, LineWaiting, Starting
<1> QED BY <1>4, <1>5, <1>6 DEF Line

(* Failing drops the row or leaves it; nobody whose place is in it and who  *)
(* still needs it is under way.                                              *)
LEMMA FailLine ==
  ASSUME NEW s, NEW t, NEW ds \in SUBSET Numbers, s \in States, FailedAs(s, t, ds), Line(s, ds),
         ds = {} \/ NoneCreating(s, ds)
  PROVE  Line(t, {})
<1>1. CloseAs(s, t, ds, "failed") /\ t.work = s.work
  BY DEF FailedAs
<1>2. /\ Going(t, {}) = Going(s, ds) /\ Going(s, ds) \subseteq Numbers
      /\ InLine(t) \subseteq InLine(s)
      /\ \A p \in Going(s, ds) \cup InLine(t) : t.update[p] = s.update[p]
      /\ \A n \in Numbers : t.update[n].resume = s.update[n].resume
      /\ \A n : UpIn(t, n) <=> UpIn(s, n)
  BY <1>1, CloseOthers DEF Going
<1>3. s.memo.session \in Ids /\ \A p \in Numbers : s.update[p].session \in Ids
  BY DEF States, Rows, Runs
<1>4. \/ t.memo = s.memo /\ t.recheck = s.recheck
      \/ t.memo = s.memo /\ ds # {}
      \/ t.memo = NoRow /\ ds # {} /\ ~UpIn(s, s.memo.session)
  BY DEF FailedAs, Hits
<1>5. NoRow.there = FALSE /\ NoRow.session = Nil /\ NoRow.id = Nil
  BY DEF NoRow
<1>6. ASSUME NEW p \in Going(t, {}) PROVE LineOf(t, p)
  <2>1. p \in Numbers /\ LineOf(s, p) /\ t.update[p] = s.update[p]
    BY <1>2 DEF Line
  <2>2. ds # {} => s.update[p].state # "creating"
    BY <1>2 DEF NoneCreating
  <2>3. s.update[p].state = "preparing" => LinePreparing(t, p)
    BY <1>4, <1>5, <2>1 DEF LineOf, LinePreparing
  <2>4. s.update[p].state = "creating" => LineCreating(t, p)
    BY <1>4, <2>1, <2>2 DEF LineOf, LineCreating
  <2>5. s.update[p].state = "running" => LineRunning(t, p)
    BY <1>2, <1>4, <2>1 DEF LineOf, LineRunning
  <2> QED BY <2>1, <2>3, <2>4, <2>5 DEF LineOf
<1>7. LineRow(t)
  <2>1. CASE t.memo = s.memo
    BY <1>2, <1>3, <2>1, NumbersAre DEF Line, LineRow, UpIn
  <2>2. CASE t.memo = NoRow
    BY <1>5, <2>2 DEF LineRow, UpIn
  <2> QED BY <1>4, <2>1, <2>2
<1>8. \A d \in InLine(t) : LineWaiting(t, {}, d)
  BY <1>2, <1>4, <1>5 DEF Line, LineWaiting, Starting
<1> QED BY <1>6, <1>7, <1>8 DEF Line

(* So does dropping the row.                                                *)
LEMMA DropLine ==
  ASSUME NEW s, NEW t, NEW X, s \in States, Line(s, X), t.memo = NoRow, t.update = s.update, t.work = s.work,
         NoneCreating(s, X), \A p \in Going(s, X) : s.update[p].state = "running" => ~UpIn(s, s.update[p].session)
  PROVE  Line(t, X)
<1>1. Going(t, X) = Going(s, X) /\ InLine(t) = InLine(s) /\ \A n : UpIn(t, n) <=> UpIn(s, n)
  BY DEF Going, InLine, UnderWay, Starting, UpIn
<1>2. NoRow.there = FALSE /\ NoRow.session = Nil
  BY DEF NoRow
<1>3. \A p \in Going(t, X) : LineOf(t, p)
  BY <1>1, <1>2 DEF NoneCreating, LineOf, LinePreparing, LineRunning
<1>4. LineRow(t)
  BY <1>2 DEF LineRow, UpIn
<1>5. \A d \in InLine(t) : LineWaiting(t, X, d)
  BY <1>1, <1>2 DEF Line, LineWaiting, Starting
<1> QED BY <1>3, <1>4, <1>5 DEF Line

(* After a stop nothing is under way.                                       *)
LEMMA DarkLine ==
  ASSUME NEW s, NEW t, s \in States, Line(s, {}), CloseAs(s, t, Flying(s), "failed"), t.memo = s.memo \/ t.memo = NoRow,
         \A n \in Numbers : ~t.work[n].up, t \in States
  PROVE  Line(t, {}) /\ Going(t, {}) = {}
<1>1. Flying(s) \subseteq Numbers
  BY DEF Flying
<1>2. Going(t, {}) = {}
  BY DEF CloseAs, OverAs, Going, UnderWay, Starting, Flying
<1>3. \A d \in InLine(t) : d \in InLine(s) /\ t.update[d] = s.update[d]
  BY DEF CloseAs, OverAs, InLine
<1>4. NoRow.there = FALSE
  BY DEF NoRow
<1>5. LineRow(t)
  BY NumbersAre DEF LineRow, UpIn, States, Rows
<1>6. \A d \in InLine(t) : LineWaiting(t, {}, d)
  BY <1>2, <1>3, <1>4 DEF Line, LineWaiting
<1> QED BY <1>2, <1>5, <1>6 DEF Line

(* Whoever is still starting is under way alone.                            *)
LEMMA AloneStarting ==
  ASSUME NEW s, Fit(s), Alone(s, {}), NEW p \in Numbers, UnderWay(s, p), s.update[p].session = Nil
  PROVE  Going(s, {}) = {p}
<1>1. p \in Going(s, {})
  BY DEF Going
<1>2. \A e \in Going(s, {}) : e = p
  BY <1>1 DEF Alone
<1> QED BY <1>1, <1>2

(* A delivery that starts has no session, and is not the one in the row.    *)
LEMMA StartingIs ==
  ASSUME NEW s, Fit(s), NEW d \in Numbers, s.update[d].state \in {"none", "waiting", "skipped", "preparing", "creating"}
  PROVE  s.update[d].session = Nil /\ s.memo.session # d
<1>1. s.update[d].session = Nil /\ d # Nil
  BY NumbersAre DEF Fit, FitRun
<1>2. s.memo.session = d => s.update[d].session = d
  BY <1>1 DEF Fit, FitRow, Made
<1> QED BY <1>1, <1>2

(* Prepared: the directory goes into the delivery's own row, or a new one.  *)
LEMMA PreparedLine ==
  ASSUME NEW s, NEW t, NEW d \in Numbers, Fit(s), s.update[d].state = "preparing", s.recheck = {},
         PreparedAs(s, t, d), Line(s, {}), Alone(s, {})
  PROVE  Line(t, {})
<1> DEFINE r == s.update[d]
           q == t.update[d]
<1>1. s.update[d].session = Nil /\ s.memo.session # d
  BY StartingIs
<1>2. Going(s, {}) = {d}
  BY <1>1, AloneStarting DEF UnderWay, Starting
<1>3. LinePreparing(s, d)
  BY <1>2 DEF Line, LineOf
<1>4. /\ t.work = s.work /\ t.recheck = {} /\ q.state = "creating"
      /\ q.started = r.started /\ q.received = r.received /\ q.agent = r.agent
      /\ q.resume = Nil \/ q.resume = r.resume
      /\ t.memo.there /\ t.memo.agent = r.agent
      /\ \A e \in Numbers \ {d} : t.update[e] = s.update[e]
  BY DEF PreparedAs, SameWish
<1>5. \/ /\ s.memo.there /\ t.memo.session = s.memo.session /\ t.memo.id = s.memo.id
         /\ t.memo.born = s.memo.born
      \/ t.memo.session = Nil /\ t.memo.born = r.started
  BY DEF PreparedAs, Owns
<1>6. Going(t, {}) = {d} /\ InLine(t) = InLine(s) /\ \A e \in InLine(t) : t.update[e] = s.update[e]
  <2>1. \A e \in Numbers \ {d} : UnderWay(t, e) <=> UnderWay(s, e)
    BY <1>4 DEF UnderWay, Starting
  <2>2. UnderWay(t, d)
    BY <1>4 DEF UnderWay, Starting
  <2> QED BY <1>2, <1>4, <2>1, <2>2 DEF Going, InLine
<1>7. LineOf(t, d)
  <2>1. LineCreating(t, d)
    BY <1>3, <1>4, <1>5 DEF LineCreating, LinePreparing
  <2> QED BY <1>4, <2>1 DEF LineOf
<1>8. LineRow(t)
  <2>1. CASE t.memo.session = Nil
    BY <2>1 DEF LineRow, UpIn
  <2>2. CASE t.memo.session = s.memo.session /\ t.memo.id = s.memo.id
    <3>1. UpIn(s, s.memo.session) => t.update[s.memo.session] = s.update[s.memo.session]
      BY <1>1, <1>4, NumbersAre DEF UpIn, Fit, States, Rows
    <3> QED BY <1>4, <2>2, <3>1 DEF Line, LineRow, UpIn
  <2> QED BY <1>5, <2>1, <2>2
<1>9. \A e \in InLine(t) : LineWaiting(t, {}, e)
  <2> SUFFICES ASSUME NEW e \in InLine(t) PROVE LineWaiting(t, {}, e)
    OBVIOUS
  <2>1. t.update[e] = s.update[e] /\ LineWaiting(s, {}, e)
    BY <1>6 DEF Line
  <2>2. r.started < s.update[e].received
    BY <1>2, <2>1 DEF LineWaiting, Starting
  <2> QED BY <1>4, <1>5, <1>6, <2>1, <2>2 DEF LineWaiting
<1> QED BY <1>6, <1>7, <1>8, <1>9 DEF Line

(* Created: the session goes into the row, which is the delivery's own.     *)
LEMMA CreatedLine ==
  ASSUME NEW s, NEW t, NEW d \in Numbers, Fit(s), s.update[d].state = "creating",
         CreatesAs(s, t, d), Line(s, {}), Alone(s, {})
  PROVE  Line(t, {}) /\ Owns(s, s.update[d].agent)
<1> DEFINE r == s.update[d]
           q == t.update[d]
<1>1. s.update[d].session = Nil /\ s.memo.session # d /\ r.agent \in Agents
  BY StartingIs DEF Fit, FitRun
<1>2. Going(s, {}) = {d}
  BY <1>1, AloneStarting DEF UnderWay, Starting
<1>3. LineCreating(s, d)
  BY <1>2 DEF Line, LineOf
<1>4. Owns(s, r.agent)
  BY <1>1, <1>3, AgentsAre DEF LineCreating, Owns
<1>5. PICK id \in Ids : CreatedAs(s, t, d, id) /\ (id = Nil \/ id = t.work[d].id) /\ (r.resume # Nil => id # Nil)
  BY DEF CreatesAs
<1>6. /\ q.state = "running" /\ q.session = d /\ q.resume = r.resume
      /\ q.started = r.started /\ q.received = r.received /\ q.agent = r.agent
      /\ t.memo.there /\ t.memo.agent = r.agent /\ t.memo.session = d /\ t.memo.born = s.memo.born
      /\ r.resume # Nil => t.memo.id = r.resume
      /\ \A e \in Numbers \ {d} : t.update[e] = s.update[e]
  BY <1>4, <1>5 DEF CreatedAs, SameWish
<1>7. Going(t, {}) = {d} /\ InLine(t) = InLine(s) /\ \A e \in InLine(t) : t.update[e] = s.update[e]
  <2>1. \A e \in Numbers \ {d} : UnderWay(t, e) <=> UnderWay(s, e)
    BY <1>6 DEF UnderWay, Starting
  <2>2. UnderWay(t, d)
    BY <1>6 DEF UnderWay, Starting
  <2> QED BY <1>2, <1>6, <2>1, <2>2 DEF Going, InLine
<1>8. LineOf(t, d)
  <2>1. LineRunning(t, d)
    BY <1>3, <1>6 DEF LineCreating, LineRunning
  <2> QED BY <1>6, <2>1 DEF LineOf
<1>9. LineRow(t)
  BY <1>6 DEF LineRow
<1>10. \A e \in InLine(t) : LineWaiting(t, {}, e)
  <2> SUFFICES ASSUME NEW e \in InLine(t) PROVE LineWaiting(t, {}, e)
    OBVIOUS
  <2>1. t.update[e] = s.update[e] /\ LineWaiting(s, {}, e)
    BY <1>7 DEF Line
  <2> QED BY <1>3, <1>6, <1>7, <2>1 DEF LineWaiting, LineCreating, Starting
<1> QED BY <1>4, <1>7, <1>8, <1>9, <1>10 DEF Line

(* Those that are under way with one that runs in session n run there too.  *)
LEMMA AloneRunning ==
  ASSUME NEW s, Fit(s), Alone(s, {}), NEW f \in Numbers, NEW n \in Numbers,
         s.update[f].state = "running", s.update[f].session = n, NEW p \in Going(s, {})
  PROVE  s.update[p].state = "running" /\ s.update[p].session = n /\ ~Starting(s, p)
<1>1. f \in Going(s, {}) /\ n # Nil
  BY NumbersAre DEF Going, UnderWay
<1>2. s.update[p].session = n
  BY <1>1 DEF Alone
<1>3. p \in Numbers /\ UnderWay(s, p) /\ ~Starting(s, p)
  BY <1>1, <1>2 DEF Going, Starting, Fit, FitRun
<1> QED BY <1>2, <1>3 DEF UnderWay

(* session_started: the id goes into the row of the session that has it.    *)
LEMMA AnnouncedLine ==
  ASSUME NEW s, NEW t, NEW n \in Numbers, Fit(s), s.work[n].up, AnnouncedAs(s, t, n),
         Line(s, {}), Alone(s, {})
  PROVE  /\ Line(t, {})
         /\ s.memo.session = n /\ t.memo.session = n /\ t.memo.born = s.memo.born
         /\ t.memo.id = s.work[n].id
<1>1. PICK f \in s.work[n].watchers :
        LET a == s.update[f].agent IN
        /\ t.memo.there /\ t.memo.agent = a /\ t.memo.id = s.work[n].id
        /\ t.memo.session = IF Owns(s, a) THEN s.memo.session ELSE Nil
        /\ t.memo.born = IF Owns(s, a) THEN s.memo.born ELSE s.update[f].started
  BY DEF AnnouncedAs
<1>2. s.work[n].watchers \subseteq Numbers
  BY DEF Fit, States, Works
<1>3. /\ f \in Numbers /\ s.update[f].state = "running" /\ s.update[f].session = n
      /\ s.update[f].agent \in Agents
  BY <1>2 DEF Fit, FitWork, FitRun
<1>4. LineRunning(s, f)
  BY <1>3 DEF Line, LineOf, Going, UnderWay
<1>5. s.memo.there /\ s.memo.session = n /\ s.memo.agent = s.update[f].agent
  BY <1>3, <1>4, NumbersAre DEF LineRunning, UpIn
<1>6. Owns(s, s.update[f].agent)
  BY <1>3, <1>5, AgentsAre DEF Owns
<1>7. /\ t.memo.there /\ t.memo.agent = s.memo.agent /\ t.memo.id = s.work[n].id
      /\ t.memo.session = n /\ t.memo.born = s.memo.born
  BY <1>1, <1>5, <1>6
<1>8. /\ t.work = s.work
      /\ \A p \in Numbers : /\ t.update[p].state = s.update[p].state
                            /\ t.update[p].session = s.update[p].session
                            /\ t.update[p].agent = s.update[p].agent
                            /\ t.update[p].received = s.update[p].received
                            /\ t.update[p].started = s.update[p].started
                            /\ t.update[p].resume = s.update[p].resume
  BY DEF AnnouncedAs, HeardAs, SameWish
<1>9. Going(t, {}) = Going(s, {}) /\ InLine(t) = InLine(s) /\ Going(s, {}) \subseteq Numbers
  BY <1>8 DEF Going, InLine, UnderWay, Starting
<1>10. \A p \in Going(t, {}) : s.update[p].state = "running" /\ s.update[p].session = n /\ ~Starting(s, p)
  BY <1>3, <1>9, AloneRunning
<1>11. ASSUME NEW p \in Going(t, {}) PROVE LineOf(t, p)
  <2>1. p \in Numbers /\ LineRunning(s, p) /\ t.update[p].state = "running"
    BY <1>8, <1>9, <1>10 DEF Line, LineOf
  <2>2. LineRunning(t, p)
    BY <1>5, <1>7, <1>8, <1>10, <2>1, NumbersAre DEF LineRunning, UpIn
  <2> QED BY <2>1, <2>2 DEF LineOf
<1>12. LineRow(t)
  <2>1. s.work[n].id = (IF s.update[n].resume = Nil THEN n ELSE s.update[n].resume)
    BY DEF Fit, FitWork
  <2> QED BY <1>7, <1>8, <2>1 DEF LineRow
<1>13. \A e \in InLine(t) : LineWaiting(t, {}, e)
  <2> SUFFICES ASSUME NEW e \in InLine(t) PROVE LineWaiting(t, {}, e)
    OBVIOUS
  <2>1. e \in Numbers /\ LineWaiting(s, {}, e)
    BY <1>9 DEF Line, InLine
  <2>2. \A p \in Going(t, {}) : ~Starting(t, p)
    BY <1>8, <1>9, <1>10 DEF Starting
  <2> QED BY <1>5, <1>7, <1>8, <2>1, <2>2 DEF LineWaiting
<1> QED BY <1>5, <1>7, <1>11, <1>12, <1>13 DEF Line

(* A tree that is not free has somebody under way in it.                    *)
LEMMA NotFree ==
  ASSUME NEW s, Fit(s), NEW key, ~Free(s, key)
  PROVE  \E p \in Going(s, {}) : /\ Starting(s, p) \/ UpIn(s, s.update[p].session)
                                 /\ Starting(s, p) \/ p \in s.work[s.update[p].session].watchers
<1>1. CASE \E p \in Numbers : s.update[p].holds /\ s.update[p].key = key
  BY <1>1 DEF Fit, FitRun, Going, UnderWay, Starting
<1>2. CASE \E n \in Numbers : s.work[n].up /\ s.work[n].busy /\ s.work[n].tree = key
  <2>1. PICK n \in Numbers : s.work[n].up /\ s.work[n].busy
    BY <1>2
  <2>2. PICK p \in s.work[n].watchers : TRUE
    BY <2>1 DEF Fit, FitWork
  <2>3. p \in Numbers /\ s.update[p].state = "running" /\ s.update[p].session = n
    BY <2>2 DEF Fit, FitWork, States, Works
  <2>4. UpIn(s, n)
    BY <2>1, NumbersAre DEF UpIn
  <2> QED BY <2>2, <2>3, <2>4 DEF Going, UnderWay
<1> QED BY <1>1, <1>2 DEF Free

(* A new delivery, before anything is done with it.                         *)
LEMMA ArrivedLine ==
  ASSUME NEW s, NEW t, NEW d \in Numbers, NEW p, NEW f, NEW key, Fit(s), s.update[d].state = "none",
         ArrivedAs(s, t, d, p, f, key), Line(s, {})
  PROVE  /\ Line(t, {}) /\ Going(t, {}) = Going(s, {}) /\ InLine(t) = InLine(s)
         /\ s.memo.born < t.update[d].received
         /\ \A e \in Numbers : s.update[e].started < t.update[d].received
<1>1. /\ t.memo = s.memo /\ t.work = s.work /\ t.recheck = s.recheck /\ t.update[d].state = "none"
      /\ t.update[d].received = s.clock + 1 /\ \A e \in Numbers \ {d} : t.update[e] = s.update[e]
  BY DEF ArrivedAs
<1>2. Going(t, {}) = Going(s, {}) /\ InLine(t) = InLine(s) /\ d \notin Going(s, {}) /\ d \notin InLine(s)
  <2>1. \A e \in Numbers \ {d} : UnderWay(t, e) <=> UnderWay(s, e)
    BY <1>1 DEF UnderWay, Starting
  <2>2. ~UnderWay(s, d) /\ ~UnderWay(t, d)
    BY <1>1 DEF UnderWay, Starting
  <2> QED BY <1>1, <2>1, <2>2 DEF Going, InLine
<1>3. s.memo.session # d
  BY StartingIs
<1>4. /\ s.memo.session \in Ids /\ \A e \in Numbers : s.update[e].session \in Ids
      /\ s.memo.born \in Nat /\ s.clock \in Nat /\ \A e \in Numbers : s.update[e].started \in Nat
  BY DEF Fit, States, Rows, Runs
<1>5. ASSUME NEW e \in Going(t, {}) PROVE LineOf(t, e)
  <2>1. e \in Numbers /\ LineOf(s, e) /\ t.update[e] = s.update[e]
    BY <1>1, <1>2 DEF Line, Going
  <2> QED BY <1>1, <2>1, LineOfStays DEF UpIn, Fit
<1>6. LineRow(t)
  BY <1>1, <1>3, <1>4, NumbersAre DEF Line, LineRow, UpIn
<1>7. \A e \in InLine(t) : LineWaiting(t, {}, e)
  <2> SUFFICES ASSUME NEW e \in InLine(t) PROVE LineWaiting(t, {}, e)
    OBVIOUS
  <2>1. e \in Numbers \ {d} /\ LineWaiting(s, {}, e)
    BY <1>2 DEF Line, InLine
  <2>2. \A x \in Going(t, {}) : x \in Numbers \ {d}
    BY <1>2 DEF Going
  <2> QED BY <1>1, <1>2, <2>1, <2>2 DEF LineWaiting, Starting
<1>8. s.memo.born < t.update[d].received
  BY <1>1, <1>4 DEF Fit, FitRow
<1>9. \A e \in Numbers : s.update[e].started < t.update[d].received
  BY <1>1, <1>4 DEF Fit, FitRun
<1> QED BY <1>2, <1>5, <1>6, <1>7, <1>8, <1>9 DEF Line

(* One that waits.                                                          *)
LEMMA ParkedLine ==
  ASSUME NEW s, NEW t, NEW d \in Numbers, Fit(s), s.update[d].state = "none", ParkedAs(s, t, d), Line(s, {}),
         s.memo.born < s.update[d].received,
         \A e \in Going(s, {}) : s.update[e].started < s.update[d].received
  PROVE  /\ Line(t, {}) /\ Going(t, {}) = Going(s, {})
         /\ \A e \in Going(s, {}) : t.update[e] = s.update[e]
<1>1. /\ t.memo = s.memo /\ t.work = s.work /\ t.recheck = s.recheck
      /\ \A e \in Numbers \ ({d} \cup InLine(s)) : t.update[e] = s.update[e]
      /\ t.update[d].state \in {"waiting", "skipped"} /\ t.update[d].received = s.update[d].received
      /\ t.update[d].resume = s.update[d].resume
      /\ \A e \in InLine(s) : t.update[e].received = s.update[e].received /\ t.update[e].state = "waiting"
                              /\ t.update[e].resume = s.update[e].resume
  BY DEF ParkedAs, Waits
<1>2. \A e \in Going(s, {}) : e \in Numbers /\ t.update[e] = s.update[e]
  BY <1>1 DEF Going, UnderWay, Starting, InLine
<1>3. Going(t, {}) = Going(s, {})
  <2>1. \A e \in Numbers : UnderWay(t, e) => e \notin {d} \cup InLine(s)
    BY <1>1 DEF UnderWay, Starting, InLine
  <2>2. \A e \in Numbers : UnderWay(t, e) => UnderWay(s, e)
    BY <1>1, <2>1 DEF UnderWay, Starting
  <2>3. \A e \in Going(s, {}) : UnderWay(t, e)
    BY <1>2 DEF UnderWay, Starting, Going
  <2> QED BY <1>2, <2>2, <2>3 DEF Going
<1>4. ASSUME NEW e \in Going(t, {}) PROVE LineOf(t, e)
  <2>1. e \in Numbers /\ LineOf(s, e) /\ t.update[e] = s.update[e]
    BY <1>2, <1>3 DEF Line
  <2> QED BY <1>1, <2>1, LineOfStays DEF UpIn, Fit
<1>5. LineRow(t)
  <2>1. \A e \in Numbers : t.update[e].resume = s.update[e].resume
    BY <1>1
  <2>2. s.memo.session \in Ids
    BY DEF Fit, States, Rows
  <2> QED BY <1>1, <2>1, <2>2, LineRowStays DEF Line, UpIn
<1>6. \A e \in InLine(t) : LineWaiting(t, {}, e)
  <2> SUFFICES ASSUME NEW e \in InLine(t) PROVE LineWaiting(t, {}, e)
    OBVIOUS
  <2>1. e \in InLine(s) \/ e = d
    BY <1>1 DEF InLine
  <2>2. CASE e \in InLine(s)
    <3>1. LineWaiting(s, {}, e) /\ t.update[e].received = s.update[e].received
      BY <1>1, <2>2 DEF Line
    <3> QED BY <1>1, <1>2, <1>3, <3>1 DEF LineWaiting, Starting
  <2>3. CASE e = d
    BY <1>1, <1>2, <1>3, <2>3 DEF LineWaiting
  <2> QED BY <2>1, <2>2, <2>3
<1> QED BY <1>2, <1>3, <1>4, <1>5, <1>6 DEF Line

(* dispatch: unless two are then under way side by side, what is under way  *)
(* stays in line.                                                            *)
LEMMA ArrivesLine ==
  ASSUME NEW s, NEW t, NEW d \in Numbers, NEW key, Fit(s), ArrivesAs(s, t, d, key),
         Line(s, {}), Served(s), Alone(t, {})
  PROVE  Line(t, {}) /\ Served(t)
<1>1. PICK p \in Wishes, f \in Folders, came \in States :
        /\ s.update[d].state = "none"
        /\ ArrivedAs(s, came, d, p, f, key) /\ Fit(came)
        /\ \/ \E h \in BOOLEAN : Ready(came, d, h) /\ Start(came, t, d, h)
           \/ ~Free(s, key) /\ ParkedAs(came, t, d)
  BY DEF ArrivesAs
<1>2. /\ Line(came, {}) /\ Going(came, {}) = Going(s, {}) /\ InLine(came) = InLine(s)
      /\ s.memo.born < came.update[d].received
      /\ \A e \in Numbers : s.update[e].started < came.update[d].received
  BY <1>1, ArrivedLine
<1>3. /\ came.memo = s.memo /\ came.work = s.work /\ came.update[d].state = "none"
      /\ \A e \in Numbers \ {d} : came.update[e] = s.update[e]
      /\ d \notin Going(s, {})
  BY <1>1 DEF ArrivedAs, Going, UnderWay, Starting
<1>4. CASE \E h \in BOOLEAN : Ready(came, d, h) /\ Start(came, t, d, h)
  <2>1. PICK h \in BOOLEAN : Ready(came, d, h) /\ Start(came, t, d, h)
    BY <1>4
  <2>2. /\ InLine(t) = InLine(came) \ {d} /\ Going(t, {}) \ {d} = Going(came, {})
        /\ \A e \in Numbers \ {d} : t.update[e] = came.update[e]
        /\ \A m \in Ids : UpIn(t, m) <=> UpIn(came, m)
    BY <1>1, <2>1, StartOthers
  <2>3. Served(t)
    <3>1. ASSUME InLine(t) # {} PROVE \E p2 \in Going(t, {}) : Starting(t, p2) \/ UpIn(t, t.update[p2].session)
      <4>1. PICK g \in Going(s, {}) : Starting(s, g) \/ UpIn(s, s.update[g].session)
        BY <1>2, <2>2, <3>1 DEF Served
      <4>2. g \in Numbers \ {d} /\ t.update[g] = s.update[g] /\ g \in Going(t, {}) /\ s.update[g].session \in Ids
        BY <1>2, <1>3, <2>2, <4>1 DEF Going, Fit, States, Runs
      <4> QED BY <1>3, <2>2, <4>1, <4>2 DEF Starting, UpIn
    <3> QED BY <3>1 DEF Served
  <2>4. ASSUME UnderWay(t, d), t.update[d].session = Nil PROVE InLine(came) \subseteq {d} /\ Going(t, {}) \subseteq {d}
    <3>1. Fit(t)
      BY <1>1, <2>1, StartFit
    <3>2. Going(t, {}) = {d}
      BY <2>4, <3>1, AloneStarting
    <3>3. Going(s, {}) = {}
      BY <1>2, <1>3, <2>2, <3>2
    <3> QED BY <1>2, <3>2, <3>3 DEF Served
  <2>5. came.update[d].session = Nil
    BY <1>1 DEF ArrivedAs
  <2>6. CASE AsFollowUp(came, t, d)
    BY <1>1, <1>2, <2>1, <2>6, <2>3, FollowLine
  <2>7. CASE AsNew(came, t, d, h)
    <3>1. UnderWay(t, d) /\ t.update[d].session = Nil
      BY <2>5, <2>7 DEF AsNew, UnderWay, Starting
    <3> QED BY <1>1, <1>2, <1>3, <2>1, <2>3, <2>4, <2>7, <3>1, NewLine
  <2>8. CASE AsChat(came, t, d)
    <3>1. UnderWay(t, d) /\ t.update[d].session = Nil
      BY <2>5, <2>8 DEF AsChat, UnderWay
    <3> QED BY <1>1, <1>2, <2>1, <2>3, <2>4, <2>8, <3>1, ChatLine
  <2>9. CASE AsRefused(came, t, d)
    BY <1>1, <1>2, <2>1, <2>3, <2>9, RefusedLine
  <2> QED BY <2>1, <2>6, <2>7, <2>8, <2>9 DEF Start
<1>5. CASE ~Free(s, key) /\ ParkedAs(came, t, d)
  <2>1. \A e \in Going(came, {}) : came.update[e].started < came.update[d].received
    BY <1>2, <1>3 DEF Going
  <2>2. /\ Line(t, {}) /\ Going(t, {}) = Going(came, {})
        /\ \A e \in Going(came, {}) : t.update[e] = came.update[e]
    BY <1>1, <1>2, <1>3, <1>5, <2>1, ParkedLine
  <2>3. PICK g \in Going(s, {}) : Starting(s, g) \/ UpIn(s, s.update[g].session)
    BY <1>5, NotFree
  <2>4. g \in Going(t, {}) /\ t.update[g] = s.update[g] /\ t.work = s.work
    BY <1>2, <1>3, <1>5, <2>2, <2>3 DEF Going, ParkedAs
  <2>5. Served(t)
    BY <2>3, <2>4 DEF Served, Starting, UpIn
  <2> QED BY <2>2, <2>5
<1> QED BY <1>1, <1>4, <1>5

----------------------------------------------------------------------------
(* Conversations that failed somebody, and the row.                        *)

(* The row goes on, and so do those that excuse it and those that look      *)
(* again.                                                                    *)
LEMMA DeadKept ==
  ASSUME NEW s, NEW t, NEW k, Dead(s, k),
         t.memo.id # Nil => /\ t.memo.there = s.memo.there /\ t.memo.id = s.memo.id
                            /\ t.memo.born = s.memo.born /\ t.memo.session = s.memo.session,
         \A e \in Numbers : s.update[e].resume # Nil =>
             t.update[e].resume = s.update[e].resume /\ t.update[e].started = s.update[e].started,
         s.recheck \subseteq t.recheck,
         \A e \in s.recheck : t.update[e].id = s.update[e].id /\ t.update[e].received = s.update[e].received,
         UpIn(t, s.memo.session) => UpIn(s, s.memo.session)
  PROVE  Dead(t, k)
<1> SUFFICES ASSUME NEW c \in Numbers, k[c] > 0, t.memo.id = c PROVE Excused(t, c) \/ Pending(t)
  BY DEF Dead
<1>1. c # Nil
  BY NumbersAre
<1>2. Excused(s, c) \/ Pending(s)
  BY <1>1 DEF Dead
<1>3. Excused(s, c) => Excused(t, c)
  BY <1>1 DEF Excused
<1>4. Pending(s) => Pending(t)
  BY <1>1 DEF Pending, Resumed
<1> QED BY <1>2, <1>3, <1>4

(* A start.                                                                 *)
LEMMA StartDead ==
  ASSUME NEW s, NEW t, NEW d, NEW h, Fit(s), Ready(s, d, h), Start(s, t, d, h), NEW k, Dead(s, k)
  PROVE  Dead(t, k)
<1>1. /\ d \in Numbers \ {Old} /\ t.recheck = s.recheck /\ s.update[d].state \in {"none", "waiting"}
      /\ \A e \in Numbers \ {d} : t.update[e] = s.update[e]
      /\ \A m \in Ids : UpIn(t, m) <=> UpIn(s, m)
  BY StartOthers
<1>2. s.update[d].resume = Nil /\ s.memo.session \in Ids
  BY <1>1 DEF Fit, FitRun, States, Rows
<1>3. d \notin s.recheck /\ s.recheck \subseteq Numbers
  BY <1>1 DEF Fit, States
<1>4. t.memo.id # Nil => /\ t.memo.there = s.memo.there /\ t.memo.id = s.memo.id
                         /\ t.memo.born = s.memo.born /\ t.memo.session = s.memo.session
  <2>1. CASE AsFollowUp(s, t, d)
    BY <2>1 DEF AsFollowUp, MayContinue, Owns
  <2>2. CASE AsNew(s, t, d, h) \/ AsRefused(s, t, d)
    BY <2>2 DEF AsNew, AsRefused
  <2>3. CASE AsChat(s, t, d)
    BY <2>3 DEF AsChat, Owns
  <2> QED BY <2>1, <2>2, <2>3 DEF Start
<1> QED BY <1>1, <1>2, <1>3, <1>4, DeadKept

(* The pump begins no row.                                                  *)
LEMMA PumpMemo ==
  ASSUME NEW s, NEW t, Fit(s), PumpAs(s, t)
  PROVE  /\ t.memo.there = s.memo.there /\ t.memo.id = s.memo.id
         /\ t.memo.born = s.memo.born /\ t.memo.session = s.memo.session
         /\ t.recheck = s.recheck
         /\ \A e \in Numbers : s.update[e].state # "waiting" => t.update[e] = s.update[e]
         /\ \A m \in Ids : UpIn(t, m) <=> UpIn(s, m)
<1>1. CASE t = s
  BY <1>1
<1>2. CASE \E d \in InLine(s) : Ready(s, d, TRUE) /\ Start(s, t, d, TRUE)
  <2>1. PICK d \in InLine(s) : Ready(s, d, TRUE) /\ Start(s, t, d, TRUE)
    BY <1>2
  <2>2. d \in Numbers /\ s.update[d].state = "waiting" /\ FitRun(s, d)
    BY DEF InLine, Fit
  <2>3. s.update[d].agent \notin PocketAgents
    BY <2>2, AgentsAre DEF FitRun
  <2>4. AsFollowUp(s, t, d) \/ AsNew(s, t, d, TRUE)
    BY <2>1, <2>3 DEF Start, AsChat, AsRefused
  <2>5. /\ t.memo.there = s.memo.there /\ t.memo.id = s.memo.id
        /\ t.memo.born = s.memo.born /\ t.memo.session = s.memo.session
    BY <2>4 DEF AsFollowUp, AsNew, MayContinue, Owns
  <2>6. /\ t.recheck = s.recheck
        /\ \A e \in Numbers \ {d} : t.update[e] = s.update[e]
        /\ \A m \in Ids : UpIn(t, m) <=> UpIn(s, m)
    <3>1. PICK h : h = TRUE
      OBVIOUS
    <3>2. Ready(s, d, h) /\ Start(s, t, d, h)
      BY <2>1, <3>1
    <3> QED BY <3>2, StartOthers
  <2> QED BY <2>2, <2>5, <2>6
<1> QED BY <1>1, <1>2 DEF PumpAs

(* The pump leaves no dead conversation in the row that was not there.     *)
LEMMA PumpDead ==
  ASSUME NEW s, NEW t, Fit(s), PumpAs(s, t), NEW k, Dead(s, k)
  PROVE  Dead(t, k)
BY StartDead DEF PumpAs

(* Deliveries that end look again, or the row is dropped, if it is theirs.  *)
LEMMA CloseDead ==
  ASSUME NEW s, NEW t, NEW ds \in SUBSET Numbers, NEW how \in {"succeeded", "failed"}, s \in States,
         ClosedAs(s, t, ds, how) \/ FailedAs(s, t, ds), NEW k, Dead(s, k)
  PROVE  Dead(t, k)
<1>1. t.work = s.work /\ s.recheck \subseteq t.recheck /\ s.recheck \subseteq Numbers
  BY DEF ClosedAs, FailedAs, States
<1>2. t.memo = s.memo \/ t.memo = NoRow
  BY DEF ClosedAs, FailedAs
<1>3. \A e \in Numbers : /\ t.update[e].resume = s.update[e].resume
                         /\ t.update[e].started = s.update[e].started
                         /\ t.update[e].id = s.update[e].id
                         /\ t.update[e].received = s.update[e].received
  BY DEF ClosedAs, FailedAs, CloseAs, OverAs, SameWish
<1>4. NoRow.id = Nil
  BY DEF NoRow
<1> QED BY <1>1, <1>2, <1>3, <1>4, DeadKept DEF UpIn

(* A session that falls silent.                                             *)
LEMMA SilentDead ==
  ASSUME NEW s, NEW t, NEW n \in Numbers, NEW up, SilentAs(s, t, n, up), up => s.work[n].up, s \in States,
         NEW k, Dead(s, k)
  PROVE  Dead(t, k)
<1>1. t.memo = s.memo /\ t.update = s.update /\ t.recheck = s.recheck
  BY DEF SilentAs
<1>2. s.memo.session \in Ids
  BY DEF States, Rows
<1>3. UpIn(t, s.memo.session) => UpIn(s, s.memo.session)
  BY <1>2, NumbersAre DEF SilentAs, SameWork, UpIn
<1> QED BY <1>1, <1>3, DeadKept

(* Prepared: a row of one's own begins without a conversation.              *)
LEMMA PreparedDead ==
  ASSUME NEW s, NEW t, NEW d \in Numbers, Fit(s), s.update[d].state = "preparing", s.recheck = {},
         PreparedAs(s, t, d), Line(s, {}), NEW k, Dead(s, k)
  PROVE  Dead(t, k)
<1> SUFFICES ASSUME NEW c \in Numbers, k[c] > 0, t.memo.id = c PROVE Excused(t, c)
  BY DEF Dead
<1>1. c # Nil
  BY NumbersAre
<1>2. s.memo.there /\ s.memo.id = c /\ t.memo.born = s.memo.born
  BY <1>1 DEF PreparedAs, Owns
<1>3. Excused(s, c)
  BY <1>2 DEF Dead, Pending
<1>4. PICK e \in Numbers : s.update[e].resume = c /\ s.update[e].started = s.memo.born
  BY <1>3 DEF Excused
<1>5. LinePreparing(s, d)
  BY DEF Line, LineOf, Going, UnderWay, Starting
<1>6. s.memo.born \in Nat /\ s.update[d].started \in Nat
  BY DEF Fit, States, Rows, Runs
<1>7. e # d
  BY <1>2, <1>4, <1>5, <1>6 DEF LinePreparing
<1>8. t.update[e] = s.update[e]
  BY <1>7 DEF PreparedAs
<1> QED BY <1>2, <1>4, <1>8 DEF Excused

(* Created: the conversation of a new session has failed nobody; one that   *)
(* is resumed is in the row, or the delivery that has put it there began it. *)
LEMMA CreatedDead ==
  ASSUME NEW s, NEW t, NEW d \in Numbers, Fit(s), s.update[d].state = "creating", s.recheck = {},
         CreatesAs(s, t, d), Line(s, {}), Owns(s, s.update[d].agent), NEW k, Dead(s, k), ~(k[d] > 0)
  PROVE  Dead(t, k)
<1> SUFFICES ASSUME NEW c \in Numbers, k[c] > 0, t.memo.id = c PROVE Excused(t, c)
  BY DEF Dead
<1>1. PICK id \in Ids : CreatedAs(s, t, d, id) /\ (id = Nil \/ id = t.work[d].id)
  BY DEF CreatesAs
<1>2. /\ t.memo.born = s.memo.born
      /\ \A e \in Numbers : t.update[e].resume = s.update[e].resume /\ t.update[e].started = s.update[e].started
  BY <1>1 DEF CreatedAs
<1>3. CASE s.memo.id = c
  <2>1. Excused(s, c)
    BY <1>3 DEF Dead, Pending
  <2> QED BY <1>2, <2>1 DEF Excused
<1>4. CASE s.memo.id # c
  <2>1. id = c /\ t.work[d].id = c
    BY <1>1, <1>4, NumbersAre DEF CreatedAs
  <2>2. c # d
    OBVIOUS
  <2>3. s.update[d].resume = c
    BY <1>1, <2>1, <2>2 DEF CreatedAs
  <2>4. LineCreating(s, d)
    BY DEF Line, LineOf, Going, UnderWay, Starting
  <2>5. s.memo.born = s.update[d].started
    BY <1>4, <2>3, <2>4, NumbersAre DEF LineCreating
  <2> QED BY <1>2, <2>3, <2>5 DEF Excused
<1> QED BY <1>3, <1>4

(* session_started: a conversation that is resumed is in the row.           *)
LEMMA AnnouncedDead ==
  ASSUME NEW s, NEW t, NEW n \in Numbers, Fit(s), s.work[n].up, AnnouncedAs(s, t, n), Line(s, {}),
         s.memo.session = n, t.memo.id = s.work[n].id, t.memo.born = s.memo.born,
         NEW k, Dead(s, k), s.work[n].id = n => ~(k[n] > 0)
  PROVE  Dead(t, k)
<1> SUFFICES ASSUME NEW c \in Numbers, k[c] > 0, t.memo.id = c PROVE Excused(t, c)
  BY DEF Dead
<1>1. s.work[n].id = c /\ c # n
  OBVIOUS
<1>2. s.update[n].resume = c
  BY <1>1, NumbersAre DEF Fit, FitWork
<1>3. UpIn(s, s.memo.session)
  BY NumbersAre DEF UpIn
<1>4. s.memo.id = c
  BY <1>2, <1>3, NumbersAre DEF Line, LineRow
<1>5. Excused(s, c)
  BY <1>3, <1>4 DEF Dead, Pending
<1>6. \A e \in Numbers : t.update[e].resume = s.update[e].resume /\ t.update[e].started = s.update[e].started
  BY DEF AnnouncedAs, HeardAs
<1> QED BY <1>5, <1>6 DEF Excused

(* The second look drops the row, or has nothing to do with it.             *)
LEMMA LooksAgainDead ==
  ASSUME NEW s, NEW t, NEW d, LooksAgainAs(s, t, d), NEW k, Dead(s, k)
  PROVE  Dead(t, k)
<1> SUFFICES ASSUME NEW c \in Numbers, k[c] > 0, t.memo.id = c PROVE Excused(t, c) \/ Pending(t)
  BY DEF Dead
<1>1. t.memo = s.memo /\ ~(Resumed(s, d) /\ ~UpIn(s, s.memo.session))
  <2>1. NoRow.id = Nil
    BY DEF NoRow
  <2> QED BY <2>1, NumbersAre DEF LooksAgainAs
<1>2. Excused(s, c) \/ Pending(s)
  BY <1>1 DEF Dead
<1>3. t.update = s.update /\ t.work = s.work /\ t.recheck = s.recheck \ {d}
  BY DEF LooksAgainAs
<1>4. Excused(s, c) => Excused(t, c)
  BY <1>1, <1>3 DEF Excused
<1>5. Pending(s) => Pending(t)
  BY <1>1, <1>3 DEF Pending, Resumed, UpIn
<1> QED BY <1>2, <1>4, <1>5

----------------------------------------------------------------------------
(* Endings.                                                                *)

(* A waiter the pump has left waits for somebody who is not over.           *)
LEMMA PumpLeaves ==
  ASSUME NEW s, NEW t, Fit(s), PumpAs(s, t), InLine(t) # {}
  PROVE  /\ t = s
         /\ \E p \in Going(s, {}) : /\ Starting(s, p) \/ UpIn(s, s.update[p].session)
                                    /\ Starting(s, p) \/ p \in s.work[s.update[p].session].watchers
<1>1. t = s /\ \A d \in InLine(s) : ~Free(s, s.update[d].key)
  <2>1. ASSUME NEW d \in InLine(s), Ready(s, d, TRUE), Start(s, t, d, TRUE) PROVE FALSE
    <3>1. InLine(t) = InLine(s) \ {d}
      BY <2>1, StartOthers
    <3>2. InLine(s) \subseteq {d}
      BY DEF InLine, Fit
    <3> QED BY <3>1, <3>2
  <2> QED BY <2>1 DEF PumpAs
<1>2. PICK d \in InLine(s) : ~Free(s, s.update[d].key)
  BY <1>1
<1> QED BY <1>1, <1>2, NotFree

(* After the pump, whoever waits has somebody to wait for.                 *)
LEMMA PumpServes ==
  ASSUME NEW s, NEW t, Fit(s), PumpAs(s, t)
  PROVE  Served(t)
BY PumpLeaves DEF Served

(* Still so when those whose turn it was are settled.                       *)
LEMMA SettleServes ==
  ASSUME NEW s, NEW u, NEW t, Fit(s), PumpAs(s, u), NEW ds \in SUBSET Numbers,
         NEW how \in {"succeeded", "failed"}, CloseAs(u, t, ds, how), t.work = u.work,
         MaySettle(u, ds), \A d \in ds : u.update[d].state = "running"
  PROVE  Served(t)
<1> SUFFICES ASSUME InLine(t) # {}
             PROVE  \E p \in Going(t, {}) : Starting(t, p) \/ UpIn(t, t.update[p].session)
  BY DEF Served
<1>1. /\ InLine(t) \subseteq InLine(u) /\ Going(t, {}) = Going(u, ds)
      /\ \A p \in Going(u, ds) : t.update[p] = u.update[p]
      /\ \A n : UpIn(t, n) <=> UpIn(u, n)
  BY CloseOthers
<1>2. InLine(u) # {}
  BY <1>1
<1>3. PICK p \in Going(u, {}) : /\ Starting(u, p) \/ UpIn(u, u.update[p].session)
                                /\ Starting(u, p) \/ p \in u.work[u.update[p].session].watchers
  BY <1>2, PumpLeaves
<1>4. p \notin ds
  <2>1. CASE Starting(u, p)
    BY <2>1 DEF Starting
  <2>2. CASE UpIn(u, u.update[p].session) /\ p \in u.work[u.update[p].session].watchers
    <3>1. u = s /\ p \in Numbers /\ s \in States
      BY <1>2, PumpLeaves DEF Fit, Going
    <3>2. s.update[p].session \in Ids
      BY <3>1 DEF States, Runs
    <3>3. u.update[p].session \in Numbers
      BY <2>2, <3>1, <3>2, NumbersAre DEF UpIn
    <3> QED BY <2>2, <3>3 DEF MaySettle
  <2> QED BY <1>3, <2>1, <2>2
<1>5. p \in Going(u, ds)
  BY <1>4 DEF Going
<1> QED BY <1>1, <1>3, <1>5 DEF Starting

(* Where some run in a session, nobody is starting.                         *)
LEMMA AloneNoneCreating ==
  ASSUME NEW s, Fit(s), Alone(s, {}), NEW f \in Numbers, s.update[f].state = "running",
         s.update[f].session # Nil
  PROVE  NoneCreating(s, {})
<1>1. s.update[f].session \in Numbers
  BY NumbersAre DEF Fit, States, Runs
<1> QED BY <1>1, AloneRunning DEF NoneCreating

(* No delivery is creating its session, still.                             *)
LEMMA NoneLess ==
  ASSUME NEW s, NEW t, NEW X, NEW Y, X \subseteq Y, NoneCreating(s, X), t.update = s.update
  PROVE  NoneCreating(t, Y)
BY DEF NoneCreating, Going, UnderWay, Starting

(* Those who listen to a session run in it.                                *)
LEMMA WatchersAre ==
  ASSUME NEW s, Fit(s), NEW n \in Numbers
  PROVE  /\ s.work[n].watchers \subseteq Numbers
         /\ \A d \in s.work[n].watchers : s.update[d].state = "running" /\ s.update[d].session = n
BY DEF Fit, FitWork, States, Works

(* A session that falls silent leaves the deliveries in line.              *)
LEMMA SilentLine ==
  ASSUME NEW s, NEW t, NEW n \in Numbers, NEW up, s \in States, SilentAs(s, t, n, up), up => s.work[n].up,
         NEW X, Line(s, X)
  PROVE  Line(t, X)
<1>1. \A m \in Numbers : t.work[m].up => s.work[m].up
  BY DEF SilentAs, SameWork
<1> QED BY <1>1, LineKept DEF SilentAs

(* A turn that is over: the pump, and then those that listened.             *)
LEMMA TurnLine ==
  ASSUME NEW s, NEW y, NEW u, NEW n \in Numbers, NEW up, Fit(s), Alone(s, {}), Line(s, {}),
         SilentAs(s, y, n, up), up => s.work[n].up, Fit(y), PumpAs(y, u)
  PROVE  /\ Line(u, {}) /\ Line(u, s.work[n].watchers)
         /\ s.work[n].watchers # {} => NoneCreating(u, s.work[n].watchers)
<1> DEFINE W == s.work[n].watchers
<1>1. W \subseteq Numbers /\ \A d \in W : s.update[d].state = "running" /\ s.update[d].session = n
  BY WatchersAre
<1>2. Line(y, {}) /\ y.update = s.update
  BY SilentLine DEF SilentAs, Fit
<1>3. Line(u, {}) /\ Line(u, W)
  BY <1>2, PumpLine, LineLess
<1>4. ASSUME W # {} PROVE NoneCreating(u, W)
  <2>1. PICK f \in W : TRUE
    BY <1>4
  <2>2. NoneCreating(s, {})
    BY <1>1, <2>1, AloneNoneCreating, NumbersAre
  <2>3. NoneCreating(y, W)
    BY <1>2, <2>2, NoneLess
  <2>4. Line(y, W)
    BY <1>2, LineLess
  <2> QED BY <2>3, <2>4, PumpLine
<1> QED BY <1>3, <1>4

(* turn_complete.                                                           *)
LEMMA TurnOverLine ==
  ASSUME NEW s, NEW t, NEW n \in Numbers, Fit(s), s.work[n].up, TurnOverAs(s, t, n), Alone(s, {}),
         NEW k, Orderly(s, k)
  PROVE  Orderly(t, k)
<1> DEFINE W == s.work[n].watchers
<1>1. PICK y, u \in States :
        /\ SilentAs(s, y, n, TRUE) /\ PumpAs(y, u)
        /\ ClosedAs(u, t, W, "succeeded") \/ FailedAs(u, t, W)
  BY DEF TurnOverAs
<1>2. W \in SUBSET Numbers /\ \A d \in W : s.update[d].state = "running"
  BY WatchersAre
<1>3. Fit(y) /\ Fit(u) /\ y.update = s.update
  BY <1>1, SilentTame, TameFit, PumpFit DEF SilentAs
<1>4. MaySettle(u, W)
  BY <1>1, <1>3, WatchersSettle
<1>5. \A d \in W : u.update[d].state = "running"
  BY <1>1, <1>2, <1>3, PumpMemo
<1>6. /\ Line(s, {}) /\ Dead(s, k) /\ s \in States
      /\ \E how \in {"succeeded", "failed"} : CloseAs(u, t, W, how)
      /\ t.work = u.work
  BY <1>1 DEF Orderly, ClosedAs, FailedAs, Fit
<1>7. Line(u, {}) /\ Line(u, W) /\ (W # {} => NoneCreating(u, W))
  BY <1>1, <1>3, <1>6, TurnLine
<1>8. Line(t, {})
  BY <1>1, <1>2, <1>7, CloseLine, FailLine
<1>9. Dead(t, k)
  <2>1. Dead(u, k)
    BY <1>1, <1>3, <1>6, SilentDead, PumpDead
  <2> QED BY <1>1, <1>2, <2>1, CloseDead
<1>10. Served(t)
  BY <1>1, <1>2, <1>3, <1>4, <1>5, <1>6, SettleServes
<1> QED BY <1>8, <1>9, <1>10 DEF Orderly

(* A session that ends.                                                     *)
LEMMA SessionExitsLine ==
  ASSUME NEW s, NEW y, NEW u, NEW t, NEW n \in Numbers, Fit(s), s.work[n].up, SilentAs(s, y, n, FALSE), PumpAs(y, u),
         t = u \/ FailedAs(u, t, s.work[n].watchers), Fit(y), Fit(u), Alone(s, {}),
         NEW k, Orderly(s, k)
  PROVE  Orderly(t, k)
<1> DEFINE W == s.work[n].watchers
<1>1. W \in SUBSET Numbers /\ \A d \in W : s.update[d].state = "running"
  BY WatchersAre
<1>2. MaySettle(u, W)
  BY WatchersSettle
<1>3. \A d \in W : u.update[d].state = "running"
  BY <1>1, PumpMemo DEF SilentAs
<1>4. Line(s, {}) /\ Dead(s, k) /\ s \in States /\ y \in States /\ u \in States
  BY DEF Orderly, Fit
<1>5. Line(u, {}) /\ Line(u, W) /\ (W # {} => NoneCreating(u, W))
  BY <1>4, TurnLine
<1>6. Dead(u, k)
  BY <1>4, SilentDead, PumpDead
<1>7. CASE t = u
  BY <1>5, <1>6, <1>7, PumpServes DEF Orderly
<1>8. CASE FailedAs(u, t, W)
  <2>1. Line(t, {})
    BY <1>1, <1>4, <1>5, <1>8, FailLine
  <2>2. Dead(t, k)
    BY <1>1, <1>4, <1>6, <1>8, CloseDead
  <2>3. CloseAs(u, t, W, "failed") /\ t.work = u.work
    BY <1>8 DEF FailedAs
  <2>4. Served(t)
    BY <1>1, <1>2, <1>3, <2>3, SettleServes
  <2> QED BY <2>1, <2>2, <2>4 DEF Orderly
<1> QED BY <1>7, <1>8

(* forgetDeadCachedConversation, on the next tick.                          *)
LEMMA LooksAgainLine ==
  ASSUME NEW s, NEW t, NEW d \in Numbers, Fit(s), d \in s.recheck, LooksAgainAs(s, t, d), NEW k, Orderly(s, k)
  PROVE  Orderly(t, k)
<1>1. t.update = s.update /\ t.work = s.work /\ s \in States /\ Line(s, {}) /\ Dead(s, k) /\ Served(s)
  BY DEF LooksAgainAs, Fit, Orderly
<1>2. NoneCreating(s, {})
  BY <1>1 DEF NoneCreating, Line, LineOf, LineCreating
<1>3. ASSUME t.memo = NoRow, ~UpIn(s, s.memo.session) PROVE Line(t, {})
  <2>1. \A p \in Going(s, {}) : s.update[p].state = "running" => ~UpIn(s, s.update[p].session)
    BY <1>1, <1>3 DEF Line, LineOf, LineRunning
  <2> QED BY <1>1, <1>2, <1>3, <2>1, DropLine
<1>4. ASSUME t.memo = s.memo PROVE Line(t, {})
  <2>1. Going(t, {}) = Going(s, {}) /\ InLine(t) = InLine(s) /\ \A m : UpIn(t, m) <=> UpIn(s, m)
    BY <1>1 DEF Going, InLine, UnderWay, Starting, UpIn
  <2>2. \A p \in Going(t, {}) : LineOf(t, p)
    BY <1>1, <1>2, <1>4, <2>1 DEF Line, LineOf, LinePreparing, LineRunning, NoneCreating
  <2>3. LineRow(t)
    BY <1>1, <1>4, <2>1 DEF Line, LineRow
  <2>4. \A e \in InLine(t) : LineWaiting(t, {}, e)
    BY <1>1, <1>4, <2>1 DEF Line, LineWaiting, Starting
  <2> QED BY <2>2, <2>3, <2>4 DEF Line
<1>5. Line(t, {})
  BY <1>3, <1>4 DEF LooksAgainAs
<1>6. Served(t)
  BY <1>1 DEF Served, Going, InLine, UnderWay, Starting, UpIn
<1> QED BY <1>1, <1>5, <1>6, LooksAgainDead DEF Orderly

(* A start that fails, and one of a chat that is over.                      *)
LEMMA StartFailsLine ==
  ASSUME NEW s, NEW y, NEW t, NEW d \in Numbers, Fit(s), ClosedAs(s, y, {d}, "failed"), PumpAs(y, t), Fit(y),
         NEW k, Orderly(s, k)
  PROVE  Orderly(t, k)
<1>1. s \in States /\ y \in States /\ Line(s, {d}) /\ Dead(s, k)
  BY LineLess DEF Orderly, Fit
<1>2. Line(y, {}) /\ Dead(y, k)
  BY <1>1, CloseLine, CloseDead
<1> QED BY <1>2, PumpLine, PumpDead, PumpServes DEF Orderly

\* A chat ends.
PocketEndsAs(s, t, d) ==
    /\ s.update[d].state = "running" /\ s.update[d].session = Nil
    /\ \E how \in {"succeeded", "failed"} : ClosedAs(s, t, {d}, how)

(* The end of a chat leaves the issue orderly.                             *)
LEMMA PocketEndsLine ==
  ASSUME NEW s, NEW t, NEW d \in Numbers, Fit(s), PocketEndsAs(s, t, d), NEW k, Orderly(s, k)
  PROVE  Orderly(t, k)
<1>0. PICK how \in {"succeeded", "failed"} : ClosedAs(s, t, {d}, how)
  BY DEF PocketEndsAs
<1>1. s \in States /\ Line(s, {d}) /\ Dead(s, k) /\ Served(s)
  BY LineLess DEF Orderly, Fit
<1>3. PICK ds \in SUBSET Numbers : ds = {d}
  OBVIOUS
<1>2. Line(t, {}) /\ Dead(t, k)
  <2>1. ClosedAs(s, t, ds, how) /\ Line(s, ds)
    BY <1>0, <1>1, <1>3
  <2> QED BY <1>1, <2>1, CloseLine, CloseDead
<1>4. /\ Going(t, {}) = Going(s, ds) /\ InLine(t) \subseteq InLine(s)
      /\ \A p \in Going(s, ds) : t.update[p] = s.update[p]
      /\ \A n : UpIn(t, n) <=> UpIn(s, n)
  <2>1. CloseAs(s, t, ds, how) /\ t.work = s.work
    BY <1>0, <1>3 DEF ClosedAs
  <2> QED BY <2>1, CloseOthers
<1>5. ASSUME InLine(t) # {} PROVE \E p \in Going(t, {}) : Starting(t, p) \/ UpIn(t, t.update[p].session)
  <2>1. PICK p \in Going(s, {}) : Starting(s, p) \/ UpIn(s, s.update[p].session)
    BY <1>1, <1>4, <1>5 DEF Served
  <2>2. p # d
    BY <2>1 DEF Starting, UpIn, PocketEndsAs
  <2>3. p \in Going(s, ds)
    BY <1>3, <2>2 DEF Going
  <2> QED BY <1>4, <2>1, <2>3 DEF Starting
<1> QED BY <1>2, <1>5 DEF Orderly, Served

(* What starts is served at once.                                           *)
LEMMA PreparedOrderly ==
  ASSUME NEW s, NEW t, NEW d \in Numbers, Fit(s), s.update[d].state = "preparing", s.recheck = {},
         PreparedAs(s, t, d), Alone(s, {}), NEW k, Orderly(s, k)
  PROVE  Orderly(t, k)
<1>1. Line(t, {}) /\ Dead(t, k)
  BY PreparedLine, PreparedDead DEF Orderly
<1>2. d \in Going(t, {}) /\ Starting(t, d)
  BY DEF PreparedAs, Going, UnderWay, Starting
<1> QED BY <1>1, <1>2 DEF Orderly, Served

(* So does a session that is there, if its own conversation has failed     *)
(* nobody,                                                                 *)
LEMMA CreatedOrderly ==
  ASSUME NEW s, NEW t, NEW d \in Numbers, Fit(s), s.update[d].state = "creating", s.recheck = {},
         CreatesAs(s, t, d), Alone(s, {}), NEW k, Orderly(s, k), ~(k[d] > 0)
  PROVE  Orderly(t, k)
<1>1. Line(t, {}) /\ Dead(t, k)
  BY CreatedLine, CreatedDead DEF Orderly
<1>2. t.update[d].state = "running" /\ t.update[d].session = d /\ t.work[d].up
  BY DEF CreatesAs, CreatedAs
<1>3. d \in Going(t, {}) /\ UpIn(t, t.update[d].session)
  BY <1>2, NumbersAre DEF Going, UnderWay, UpIn
<1> QED BY <1>1, <1>3 DEF Orderly, Served

(* and one that announces its id.                                          *)
LEMMA AnnouncedOrderly ==
  ASSUME NEW s, NEW t, NEW n \in Numbers, Fit(s), s.work[n].up, AnnouncedAs(s, t, n), Alone(s, {}),
         NEW k, Orderly(s, k), s.work[n].id = n => ~(k[n] > 0)
  PROVE  Orderly(t, k)
<1>1. Line(t, {}) /\ Dead(t, k)
  BY AnnouncedLine, AnnouncedDead DEF Orderly
<1>2. /\ t.work = s.work
      /\ \A p \in Numbers : t.update[p].state = s.update[p].state /\ t.update[p].session = s.update[p].session
  BY DEF AnnouncedAs, HeardAs
<1>3. Served(t)
  <2>1. InLine(t) = InLine(s) /\ Going(t, {}) = Going(s, {}) /\ Going(s, {}) \subseteq Numbers
    BY <1>2 DEF InLine, Going, UnderWay, Starting
  <2>2. Served(s)
    BY DEF Orderly
  <2> QED BY <1>2, <2>1, <2>2 DEF Served, Starting, UpIn
<1> QED BY <1>1, <1>3 DEF Orderly

(* A resume that fails: the row goes with the session, unless the delivery  *)
(* that was refused has begun it itself.                                     *)
LEMMA ResumeFailsLine ==
  ASSUME NEW s, NEW y, NEW u, NEW v, NEW x, NEW t, NEW n \in Numbers, Fit(s),
         FailsTwice(s, y, u, v, x, t, n), Alone(s, {}), n \in s.work[n].watchers,
         NEW k, Orderly(s, k)
  PROVE  Line(t, {}) /\ Served(t) /\ Dead(t, k)
<1> USE DEF FailsTwice
<1> DEFINE W == s.work[n].watchers
           V == u.work[n].watchers
<1>1. W \in SUBSET Numbers /\ V \in SUBSET Numbers /\ W # {} /\ \A d \in W : s.update[d].state = "running"
  BY WatchersAre
<1>2. Line(s, {}) /\ Dead(s, k)
  BY DEF Orderly
<1>3. /\ s \in States /\ y \in States /\ u \in States /\ v \in States /\ x \in States
      /\ y.update = s.update /\ x.update = v.update /\ v.work = u.work /\ t.work = x.work
      /\ CloseAs(u, v, W, "failed") /\ CloseAs(x, t, V, "failed")
  BY DEF Fit, SilentAs, FailedAs
<1>4. Line(u, W) /\ NoneCreating(u, W)
  BY <1>1, <1>2, TurnLine
<1>5. Line(v, {}) /\ NoneCreating(v, {})
  <2>1. Line(v, {})
    BY <1>1, <1>3, <1>4, FailLine
  <2>2. Going(v, {}) = Going(u, W) /\ \A p \in Going(u, W) : v.update[p] = u.update[p]
    BY <1>1, <1>3, CloseOthers
  <2> QED BY <1>4, <2>1, <2>2 DEF NoneCreating
<1>6. Line(x, V) /\ NoneCreating(x, V)
  <2>1. Line(x, {})
    BY <1>3, <1>5, SilentLine
  <2>2. {} \subseteq V
    OBVIOUS
  <2>3. Line(x, V)
    BY <2>1, <2>2, LineLess
  <2>4. NoneCreating(x, V)
    BY <1>3, <1>5, <2>2, NoneLess
  <2> QED BY <2>3, <2>4
<1>7. Line(t, {})
  BY <1>1, <1>3, <1>6, FailLine
<1>8. Dead(t, k)
  <2>1. Dead(u, k)
    <3>1. Dead(y, k)
      BY <1>2, <1>3, SilentDead
    <3> QED BY <3>1, PumpDead
  <2>2. Dead(v, k)
    BY <1>1, <1>3, <2>1, CloseDead
  <2>3. Dead(x, k)
    BY <1>3, <2>2, SilentDead
  <2> QED BY <1>1, <1>3, <2>3, CloseDead
<1>9. Served(t)
  <2> SUFFICES ASSUME InLine(t) # {}
               PROVE  \E p \in Going(t, {}) : Starting(t, p) \/ UpIn(t, t.update[p].session)
    BY DEF Served
  <2>1. InLine(t) \subseteq InLine(u)
    <3>1. InLine(t) \subseteq InLine(x) /\ InLine(v) \subseteq InLine(u)
      BY <1>1, <1>3, CloseOthers
    <3> QED BY <1>3, <3>1 DEF InLine
  <2>2. PICK p \in Going(y, {}) : /\ Starting(y, p) \/ UpIn(y, y.update[p].session)
                                  /\ Starting(y, p) \/ p \in y.work[y.update[p].session].watchers
    BY <2>1, PumpLeaves
  <2>3. u = y /\ V = {} /\ p \in Numbers
    BY <2>1, PumpLeaves DEF SilentAs, Going
  <2>4. MaySettle(u, W)
    BY WatchersSettle
  <2>5. \A d \in W : u.update[d].state = "running"
    BY <1>1, <1>3, <2>3
  <2>6. y.update[p].session \in Ids
    BY <1>3, <2>3 DEF States, Runs
  <2>7. CASE Starting(y, p)
    <3>1. p \notin W
      BY <2>3, <2>5, <2>7 DEF Starting
    <3>2. t.update[p] = y.update[p]
      BY <1>3, <2>3, <3>1 DEF CloseAs
    <3> QED BY <2>3, <2>7, <3>2 DEF Going, UnderWay, Starting
  <2>8. CASE UpIn(y, y.update[p].session) /\ p \in y.work[y.update[p].session].watchers
    <3>1. y.update[p].session \in Numbers
      BY <2>6, <2>8, NumbersAre DEF UpIn
    <3>2. p \notin W /\ y.update[p].session # n
      BY <2>3, <2>4, <2>8, <3>1 DEF MaySettle
    <3>3. t.update[p] = y.update[p]
      BY <1>3, <2>3, <3>2 DEF CloseAs
    <3>4. t.work[y.update[p].session] = y.work[y.update[p].session]
      BY <1>3, <2>3, <3>1, <3>2 DEF SilentAs, SameWork
    <3>5. p \in Going(t, {}) /\ UpIn(t, t.update[p].session)
      BY <2>2, <2>3, <2>8, <3>3, <3>4 DEF Going, UnderWay, Starting, UpIn
    <3> QED BY <3>5
  <2> QED BY <2>2, <2>7, <2>8
<1> QED BY <1>7, <1>8, <1>9

(* The conversation that was refused is not left in the row.                *)
LEMMA RefusedDead ==
  ASSUME NEW s, NEW y, NEW u, NEW v, NEW x, NEW t, NEW n \in Numbers, Fit(s),
         FailsTwice(s, y, u, v, x, t, n), n \in s.work[n].watchers, Line(s, {}),
         NEW c, c = s.work[n].id, c # n
  PROVE  t.memo.id = c => Excused(t, c) \/ Pending(t)
<1> USE DEF FailsTwice
<1> SUFFICES ASSUME t.memo.id = c PROVE Excused(t, c) \/ Pending(t)
  OBVIOUS
<1>1. s.update[n].state = "running" /\ s.update[n].session = n /\ s.update[n].resume = c /\ s.update[n].id = c
  BY NumbersAre DEF Fit, FitWork
<1>2. c \in Numbers /\ c # Nil
  <2>1. s.work[n].id \in Ids
    BY DEF Fit, States, Works
  <2>2. c # Nil
    BY NumbersAre DEF Fit, FitWork
  <2> QED BY <2>1, <2>2, NumbersAre
<1>3. UpIn(s, n)
  BY NumbersAre DEF UpIn
<1>4. LineRunning(s, n)
  BY <1>1 DEF Line, LineOf, Going, UnderWay
<1>5. /\ s.memo.there /\ s.memo.session = n
      /\ s.memo.born < s.update[n].received \/ s.memo.born = s.update[n].started
  BY <1>1, <1>3, <1>4 DEF LineRunning
<1>6. s.memo.id = c
  BY <1>1, <1>2, <1>3, <1>5 DEF Line, LineRow
<1>7. /\ y.memo = s.memo /\ y.update = s.update /\ y.work[n].up
  BY DEF SilentAs
<1>8. /\ u.memo.there /\ u.memo.id = c /\ u.memo.session = n /\ u.memo.born = s.memo.born
      /\ u.update[n] = s.update[n] /\ UpIn(u, n)
  BY <1>1, <1>5, <1>6, <1>7, PumpMemo, NumbersAre DEF UpIn
<1>9. /\ v.memo = u.memo /\ v.recheck = u.recheck \cup Hits(u, s.work[n].watchers)
      /\ SameWish(s.update[n], v.update[n]) /\ v.update[n].id = c /\ v.update[n].resume = c
      /\ v.update[n].started = s.update[n].started
  BY <1>1, <1>8 DEF FailedAs, CloseAs, OverAs
<1>10. x.memo = u.memo /\ x.recheck = v.recheck /\ x.update = v.update /\ ~UpIn(x, n)
  BY <1>9 DEF SilentAs, UpIn
<1>11. NoRow.id = Nil
  BY DEF NoRow
<1>12. t.memo = u.memo /\ t.recheck = x.recheck /\ t.work = x.work
  BY <1>2, <1>8, <1>10, <1>11 DEF FailedAs
<1>13. /\ t.update[n].id = c /\ t.update[n].resume = c /\ t.update[n].started = s.update[n].started
       /\ t.update[n].received = s.update[n].received
  <2>1. CloseAs(x, t, u.work[n].watchers, "failed") /\ x.update[n] = v.update[n]
    BY <1>10 DEF FailedAs
  <2>2. x.update[n].id = t.update[n].id /\ SameWish(x.update[n], t.update[n])
        /\ t.update[n].resume = x.update[n].resume /\ t.update[n].started = x.update[n].started
    BY <2>1 DEF CloseAs, OverAs, SameWish
  <2> QED BY <1>9, <2>1, <2>2 DEF SameWish
<1>14. CASE s.memo.born = s.update[n].started
  BY <1>8, <1>12, <1>13, <1>14 DEF Excused
<1>15. CASE s.memo.born < s.update[n].received
  <2>1. Resumed(u, n)
    BY <1>1, <1>2, <1>8, <1>15 DEF Resumed
  <2>2. n \in t.recheck
    BY <1>9, <1>10, <1>12, <2>1 DEF Hits
  <2>3. Resumed(t, n)
    BY <1>2, <1>8, <1>12, <1>13, <1>15 DEF Resumed
  <2>4. ~UpIn(t, t.memo.session)
    BY <1>8, <1>10, <1>12 DEF UpIn
  <2> QED BY <2>2, <2>3, <2>4 DEF Pending
<1> QED BY <1>5, <1>14, <1>15

(* The sweep closes what no listener will, before the pump or after it.     *)
LEMMA SweptLine ==
  ASSUME NEW s, NEW u, NEW v, Fit(s), Fit(u), Fit(v), Alone(s, {}),
         (PumpAs(s, u) /\ FailedAs(u, v, Deaf(s))) \/ (FailedAs(s, u, Deaf(s)) /\ PumpAs(u, v)),
         NEW k, Orderly(s, k)
  PROVE  Orderly(v, k)
<1>1. PICK ds \in SUBSET Numbers : ds = Deaf(s)
  BY DEF Deaf
<1>2. Line(s, {}) /\ Line(s, ds) /\ Dead(s, k) /\ s \in States /\ u \in States
  <2>1. {} \subseteq ds
    OBVIOUS
  <2> QED BY <2>1, LineLess DEF Orderly, Fit
<1>3. ds # {} => NoneCreating(s, ds)
  <2>1. ASSUME ds # {} PROVE NoneCreating(s, ds)
    <3>1. PICK f \in ds : s.update[f].state = "running" /\ s.update[f].session # Nil
      BY <1>1, <2>1, Zenon DEF Deaf
    <3>2. NoneCreating(s, {})
      BY <3>1, AloneNoneCreating
    <3> QED BY <3>2, NoneLess
  <2> QED BY <2>1
<1>4. CASE PumpAs(s, u) /\ FailedAs(u, v, ds)
  <2>1. Line(u, ds) /\ (ds # {} => NoneCreating(u, ds))
    BY <1>2, <1>3, <1>4, PumpLine
  <2>2. Line(v, {})
    BY <1>2, <1>4, <2>1, FailLine
  <2>3. Dead(v, k)
    <3>1. Dead(u, k)
      BY <1>2, <1>4, PumpDead
    <3> QED BY <1>2, <1>4, <3>1, CloseDead
  <2>4. MaySettle(u, ds) /\ \A d \in ds : u.update[d].state = "running"
    <3>1. MaySettle(u, ds) /\ \A d \in ds : u.update[d] = s.update[d]
      BY <1>1, <1>4, DeafSettle
    <3> QED BY <1>1, <3>1, Zenon DEF Deaf
  <2>5. CloseAs(u, v, ds, "failed") /\ v.work = u.work
    BY <1>4 DEF FailedAs
  <2>6. Served(v)
    BY <1>4, <2>4, <2>5, SettleServes
  <2> QED BY <2>2, <2>3, <2>6 DEF Orderly
<1>5. CASE FailedAs(s, u, ds) /\ PumpAs(u, v)
  <2>1. Line(u, {})
    BY <1>2, <1>3, <1>5, FailLine
  <2>2. Line(v, {})
    BY <1>5, <2>1, PumpLine
  <2>3. Dead(v, k)
    <3>1. Dead(u, k)
      BY <1>2, <1>5, CloseDead
    <3> QED BY <1>5, <3>1, PumpDead
  <2> QED BY <1>5, <2>2, <2>3, PumpServes DEF Orderly
<1> QED BY <1>1, <1>4, <1>5

(* Nobody is under way, and so nobody waits.                                *)
LEMMA SweptIdle ==
  ASSUME NEW s, NEW u, NEW v, Fit(s), Fit(u), Fit(v), Served(s), \A d \in Numbers : ~UnderWay(s, d),
         (PumpAs(s, u) /\ FailedAs(u, v, Deaf(s))) \/ (FailedAs(s, u, Deaf(s)) /\ PumpAs(u, v))
  PROVE  Going(v, {}) = {} /\ InLine(v) = {}
<1>1. PICK ds \in SUBSET Numbers : ds = Deaf(s)
  BY DEF Deaf
<1>2. Going(s, {}) = {} /\ InLine(s) = {}
  BY DEF Going, Served
<1>3. ASSUME NEW a, NEW b, PumpAs(a, b), InLine(a) = {} PROVE b = a
  BY <1>3 DEF PumpAs
<1>4. ASSUME NEW a, NEW b, FailedAs(a, b, ds), Going(a, {}) = {}, InLine(a) = {}
      PROVE  Going(b, {}) = {} /\ InLine(b) = {}
  <2>1. CloseAs(a, b, ds, "failed") /\ b.work = a.work
    BY <1>4 DEF FailedAs
  <2>2. Going(b, {}) = Going(a, ds) /\ InLine(b) \subseteq InLine(a)
    BY <2>1, CloseOthers
  <2> QED BY <1>4, <2>2 DEF Going
<1> QED BY <1>1, <1>2, <1>3, <1>4

(* The sweep.                                                               *)
LEMMA SweepsLine ==
  ASSUME NEW s, NEW u, NEW v, NEW t, Fit(s), Fit(u), Fit(v), Alone(s, {}),
         (PumpAs(s, u) /\ FailedAs(u, v, Deaf(s))) \/ (FailedAs(s, u, Deaf(s)) /\ PumpAs(u, v)),
         PrunedAs(s, v, t), NEW k, Orderly(s, k)
  PROVE  Orderly(t, k)
<1>1. Orderly(v, k)
  BY SweptLine
<1>2. t.update = v.update /\ t.work = v.work /\ t.recheck = v.recheck /\ v \in States
  BY DEF PrunedAs, Fit
<1>3. Served(t)
  BY <1>1, <1>2 DEF Orderly, Served, InLine, Going, UnderWay, Starting, UpIn
<1>4. Dead(t, k)
  <2>1. t.memo = v.memo \/ t.memo = NoRow
    BY DEF PrunedAs
  <2>2. NoRow.id = Nil
    BY DEF NoRow
  <2>3. Dead(v, k)
    BY <1>1 DEF Orderly
  <2> QED BY <1>2, <2>1, <2>2, <2>3, DeadKept DEF UpIn
<1>5. Line(t, {})
  <2>0. Line(v, {})
    BY <1>1 DEF Orderly
  <2>1. CASE t.memo = v.memo
    <3>1. \A n \in Numbers : t.work[n].up => v.work[n].up
      BY <1>2
    <3> QED BY <1>2, <2>0, <2>1, <3>1, LineKept
  <2>2. CASE t.memo = NoRow /\ \A d \in Numbers : ~UnderWay(s, d)
    <3>1. Going(v, {}) = {}
      BY <2>2, SweptIdle DEF Orderly
    <3> QED BY <1>2, <2>0, <2>2, <3>1, DropLine DEF NoneCreating
  <2> QED BY <2>1, <2>2 DEF PrunedAs
<1> QED BY <1>3, <1>4, <1>5 DEF Orderly

(* The boot after a crash or a stop.                                        *)
LEMMA RestartsLine ==
  ASSUME NEW s, NEW b, NEW y, NEW t, Fit(s), Fit(y), PumpAs(y, t),
         b = s \/ FailedAs(s, b, {d \in Flying(s) : s.update[d].state = "running"}),
         CloseAs(s, y, Flying(s), "failed"), y.memo = b.memo, \A n \in Numbers : ~y.work[n].up,
         Line(s, {})
  PROVE  Line(t, {}) /\ Served(t)
<1>1. b.memo = s.memo \/ b.memo = NoRow
  BY DEF FailedAs
<1>2. Line(y, {})
  BY <1>1, DarkLine DEF Fit
<1> QED BY <1>2, PumpLine, PumpServes

(* dispatch.                                                                *)
LEMMA ArrivesDead ==
  ASSUME NEW s, NEW t, NEW d \in Numbers, NEW key, Fit(s), ArrivesAs(s, t, d, key), NEW k, Dead(s, k)
  PROVE  Dead(t, k)
<1>1. PICK p \in Wishes, f \in Folders, came \in States :
        /\ s.update[d].state = "none"
        /\ ArrivedAs(s, came, d, p, f, key) /\ Fit(came)
        /\ \/ \E h \in BOOLEAN : Ready(came, d, h) /\ Start(came, t, d, h)
           \/ ParkedAs(came, t, d)
  BY DEF ArrivesAs
<1>2. /\ came.memo = s.memo /\ came.work = s.work /\ came.recheck = s.recheck
      /\ \A e \in Numbers \ {d} : came.update[e] = s.update[e]
  BY <1>1 DEF ArrivedAs
<1>3. s.update[d].resume = Nil /\ d \notin s.recheck /\ s.recheck \subseteq Numbers
  BY <1>1 DEF Fit, FitRun, States
<1>4. Dead(came, k)
  BY <1>2, <1>3, DeadKept DEF UpIn
<1>5. CASE \E h \in BOOLEAN : Ready(came, d, h) /\ Start(came, t, d, h)
  BY <1>1, <1>4, <1>5, StartDead
<1>6. CASE ParkedAs(came, t, d)
  <2>1. /\ t.memo = came.memo /\ t.work = came.work /\ t.recheck = came.recheck
        /\ \A e \in Numbers : /\ t.update[e].resume = came.update[e].resume
                              /\ t.update[e].started = came.update[e].started
                              /\ t.update[e].id = came.update[e].id
                              /\ t.update[e].received = came.update[e].received
    BY <1>6 DEF ParkedAs, Waits
  <2>2. came.recheck \subseteq Numbers
    BY <1>2, <1>3
  <2> QED BY <1>4, <2>1, <2>2, DeadKept DEF UpIn
<1> QED BY <1>1, <1>5, <1>6

----------------------------------------------------------------------------
(* Sessions that cannot be resumed.                                        *)

(* A session that is up is somebody's, and has a conversation.              *)
LEMMA UpIs ==
  ASSUME NEW s, Fit(s), NEW n \in Numbers, s.work[n].up
  PROVE  n # Old /\ s.work[n].agent # "none" /\ s.work[n].id \in Numbers
<1>1. n # Old /\ Made(s, n)
  BY DEF Fit, FitWork
<1>2. s.work[n] # NoWork
  BY DEF NoWork
<1>3. s.work[n].id \in Ids /\ s.work[n].id # Nil
  BY <1>1, NumbersAre DEF Fit, FitWork, States, Works
<1> QED BY <1>1, <1>2, <1>3, NumbersAre DEF Fit, FitWork

(* Sessions keep their listeners, or end.                                   *)
LEMMA SureKept ==
  ASSUME NEW s, NEW t, NEW X, NEW Y, Fit(s), lost \subseteq Numbers, Sure(s, X), HandsKept(s, t),
         \A n \in Numbers : t.work[n].up => s.work[n].up /\ t.work[n].id = s.work[n].id,
         \A n \in Numbers \ Y : t.work[n].up =>
             n \notin X /\ (Doom(s, n) => s.work[n].watchers \subseteq t.work[n].watchers)
  PROVE  Sure(t, Y)
<1>1. ASSUME NEW c \in lost PROVE t.work[c].agent # "none" /\ (t.work[c].up => t.work[c].id # c)
  <2>1. c \in Numbers /\ s.work[c].agent # "none" /\ (s.work[c].up => s.work[c].id # c)
    BY DEF Sure
  <2>2. t.work[c].agent # "none"
    BY <2>1 DEF HandsKept
  <2> QED BY <2>1, <2>2
<1>2. ASSUME NEW n \in Numbers \ Y, t.work[n].up, Doom(t, n) PROVE n \in t.work[n].watchers
  <2>1. s.work[n].up /\ t.work[n].id = s.work[n].id /\ n \notin X
    BY <1>2
  <2>2. s.work[n].agent # "none" /\ s.work[n].id \in Numbers
    BY <2>1, UpIs
  <2>3. Doom(s, n)
    BY <1>2, <2>1, <2>2 DEF Doom, HandsKept
  <2>4. n \in s.work[n].watchers
    BY <2>1, <2>3 DEF Sure
  <2> QED BY <1>2, <2>1, <2>3, <2>4
<1> QED BY <1>1, <1>2 DEF Sure

(* A start.                                                                 *)
LEMMA StartSure ==
  ASSUME NEW s, NEW t, NEW d, NEW h, Fit(s), Ready(s, d, h), Start(s, t, d, h), lost \subseteq Numbers,
         NEW X, Sure(s, X)
  PROVE  Sure(t, X)
<1>1. d \in Numbers /\ s.work[d] \in Works
  BY DEF Ready, Fit, States
<1>2. \A n \in Numbers : /\ t.work[n].up <=> s.work[n].up
                         /\ t.work[n].id = s.work[n].id
                         /\ s.work[n].watchers \subseteq t.work[n].watchers
  <2>1. CASE AsFollowUp(s, t, d)
    BY <2>1 DEF AsFollowUp, SameWork
  <2>2. CASE AsNew(s, t, d, h) \/ AsRefused(s, t, d)
    BY <2>2 DEF AsNew, AsRefused
  <2>3. CASE AsChat(s, t, d)
    <3>1. /\ t.work[d].up <=> s.work[d].up
          /\ t.work[d].id = s.work[d].id
          /\ s.work[d].watchers = t.work[d].watchers
      BY <1>1, <2>3 DEF AsChat, Works
    <3> QED BY <2>3, <3>1 DEF AsChat, SameWork
  <2> QED BY <2>1, <2>2, <2>3 DEF Start
<1>3. HandsKept(s, t)
  BY StartHands
<1> QED BY <1>2, <1>3, SureKept

(* The pump does as well.                                                  *)
LEMMA PumpSure ==
  ASSUME NEW s, NEW t, Fit(s), PumpAs(s, t), lost \subseteq Numbers, NEW X, Sure(s, X)
  PROVE  Sure(t, X)
BY StartSure DEF PumpAs

(* Nothing happens to the sessions.                                         *)
LEMMA SameSure ==
  ASSUME NEW s, NEW t, t.work = s.work, NEW X, Sure(s, X)
  PROVE  Sure(t, X)
BY DEF Sure, Doom

(* A session falls silent: one that can be resumed, or that ends.           *)
LEMMA SilentSure ==
  ASSUME NEW s, NEW t, NEW n \in Numbers, NEW up, Fit(s), SilentAs(s, t, n, up), up => s.work[n].up,
         lost \subseteq Numbers, NEW X, NEW Y, Sure(s, X), X \ {n} \subseteq Y,
         n \in Y \/ ~up \/ (n \notin X /\ ~Doom(s, n))
  PROVE  Sure(t, Y)
<1>1. /\ \A m \in Numbers \ {n} : t.work[m] = s.work[m]
      /\ t.work[n].up = up /\ t.work[n].agent = s.work[n].agent /\ t.work[n].id = s.work[n].id
  BY DEF SilentAs, SameWork
<1>2. HandsKept(s, t)
  BY <1>1 DEF HandsKept
<1>3. \A m \in Numbers : t.work[m].up => s.work[m].up /\ t.work[m].id = s.work[m].id
  BY <1>1
<1>4. \A m \in Numbers \ Y : t.work[m].up =>
          m \notin X /\ (s.work[m].up /\ Doom(s, m) => s.work[m].watchers \subseteq t.work[m].watchers)
  BY <1>1
<1> QED BY <1>2, <1>3, <1>4, SureKept

(* A new session is listened to by the delivery that has made it.           *)
LEMMA CreatedSure ==
  ASSUME NEW s, NEW t, NEW d \in Numbers, Fit(s), s.update[d].state = "creating", CreatesAs(s, t, d),
         lost \subseteq Numbers, Sure(s, {})
  PROVE  Sure(t, {}) /\ d \notin lost /\ d # Old
<1>1. s.work[d] = NoWork /\ d # Old
  BY DEF Fit, FitRun
<1>2. s.work[d].agent = "none" /\ ~s.work[d].up
  BY <1>1 DEF NoWork
<1>3. d \notin lost
  BY <1>2 DEF Sure
<1>4. /\ \A m \in Numbers \ {d} : t.work[m] = s.work[m]
      /\ d \in t.work[d].watchers
  BY DEF CreatesAs, CreatedAs, SameWork
<1>5. HandsKept(s, t)
  BY <1>2, <1>4 DEF HandsKept
<1>6. ASSUME NEW c \in lost PROVE t.work[c].agent # "none" /\ (t.work[c].up => t.work[c].id # c)
  BY <1>3, <1>4, <1>6 DEF Sure
<1>7. ASSUME NEW n \in Numbers, t.work[n].up, Doom(t, n) PROVE n \in t.work[n].watchers
  <2>1. CASE n = d
    BY <1>4, <2>1
  <2>2. CASE n # d
    <3>1. t.work[n] = s.work[n] /\ s.work[n].up
      BY <1>4, <1>7, <2>2
    <3>2. s.work[n].agent # "none" /\ s.work[n].id \in Numbers
      BY <3>1, UpIs
    <3>3. Doom(s, n)
      BY <1>5, <1>7, <3>1, <3>2 DEF Doom, HandsKept
    <3> QED BY <3>1, <3>3 DEF Sure
  <2> QED BY <2>1, <2>2
<1> QED BY <1>1, <1>3, <1>6, <1>7 DEF Sure

(* Aside is about sessions, lost conversations and their cost only.        *)
LEMMA AsideStep ==
  ASSUME Aside, NEW t, Now' = t, Sure(t, {}), UNCHANGED <<lost, cost>>
  PROVE  Aside'
<1>1. Sure(t, {})'
  BY DEF Sure, Doom
<1>2. Sure(Now, {})'
  BY <1>1
<1> QED BY <1>2 DEF Aside

(* A session that cannot be resumed, of the present state.                 *)
LEMMA DoomedIs ==
  ASSUME NEW n
  PROVE  Doomed(n) <=> Doom(Now, n)
BY NowParts DEF Doomed, Doom

(* Nothing is lost at first.                                               *)
LEMMA AsideInit ==
  ASSUME IssueInit
  PROVE  Aside
<1>1. Now.work = [n \in Numbers |-> IF n = Old THEN [NoWork EXCEPT !.agent = issueLeft.minter, !.tree = issueLeft.row.tree,
                                                !.id = Old] ELSE NoWork]
  BY NowParts DEF IssueInit
<1>2. \A n \in Numbers : ~Now.work[n].up
  BY <1>1 DEF NoWork
<1> QED BY <1>2 DEF IssueInit, Aside, Sure

(* Aside holds after an arrival,                                           *)
LEMMA ArrivesAside ==
  ASSUME IFit, Aside, Arrives
  PROVE  Aside'
<1>1. PICK d \in Numbers \ {Old}, key \in Trees : ArrivesAs(Now, Now', d, key)
  BY ArrivesIs
<1>2. PICK t : t = Now'
  OBVIOUS
<1>3. PICK s : s = Now
  OBVIOUS
<1>4. Fit(s) /\ lost \subseteq Numbers /\ Sure(s, {})
  BY <1>3 DEF IFit, Aside
<1>5. PICK p \in Wishes, f \in Folders, came \in States :
        /\ ArrivedAs(s, came, d, p, f, key) /\ Fit(came)
        /\ \/ \E h \in BOOLEAN : Ready(came, d, h) /\ Start(came, t, d, h)
           \/ ParkedAs(came, t, d)
  BY <1>1, <1>2, <1>3 DEF ArrivesAs
<1>6. Sure(came, {})
  BY <1>4, <1>5, SameSure DEF ArrivedAs
<1>7. Sure(t, {})
  BY <1>4, <1>5, <1>6, StartSure, SameSure DEF ParkedAs
<1>8. UNCHANGED <<lost, cost>>
  BY Zenon DEF Arrives
<1> QED BY <1>2, <1>7, <1>8, AsideStep

(* after the steps of a delivery,                                          *)
LEMMA UpdateAside ==
  ASSUME IFit, Aside, NEW d \in Numbers, UpdateStep(d)
  PROVE  Aside'
<1>1. PICK t : t = Now'
  OBVIOUS
<1>2. PICK s : s = Now
  OBVIOUS
<1>3. Fit(s) /\ lost \subseteq Numbers /\ Sure(s, {})
  BY <1>2 DEF IFit, Aside
<1>4. UNCHANGED <<lost, cost>>
  BY DEF UpdateStep, Prepared, Created, StartFails, PocketEnds, LooksAgain
<1>5. CASE Prepared(d)
  <2>1. t.work = s.work
    BY <1>1, <1>2, <1>5, PreparedAct DEF PreparedAs
  <2> QED BY <1>1, <1>3, <1>4, <2>1, SameSure, AsideStep
<1>6. CASE Created(d)
  <2>1. s.update[d].state = "creating" /\ CreatesAs(s, t, d)
    BY <1>1, <1>2, <1>6, CreatedAct
  <2> QED BY <1>1, <1>3, <1>4, <2>1, CreatedSure, AsideStep
<1>7. CASE StartFails(d)
  <2>1. PICK y \in States : ClosedAs(s, y, {d}, "failed") /\ PumpAs(y, t) /\ Fit(y)
    BY <1>1, <1>2, <1>7, StartFailsIs
  <2>2. Sure(y, {})
    BY <1>3, <2>1, SameSure DEF ClosedAs
  <2> QED BY <1>1, <1>3, <1>4, <2>1, <2>2, PumpSure, AsideStep
<1>8. CASE PocketEnds(d)
  <2>1. t.work = s.work
    BY <1>1, <1>2, <1>8, PocketEndsIs DEF ClosedAs
  <2> QED BY <1>1, <1>3, <1>4, <2>1, SameSure, AsideStep
<1>9. CASE LooksAgain(d)
  <2>1. t.work = s.work
    BY <1>1, <1>2, <1>9, LooksAgainIs DEF LooksAgainAs
  <2> QED BY <1>1, <1>3, <1>4, <2>1, SameSure, AsideStep
<1> QED BY <1>5, <1>6, <1>7, <1>8, <1>9 DEF UpdateStep

(* after the sweep,                                                        *)
LEMMA SweepsAside ==
  ASSUME IFit, Aside, Sweeps
  PROVE  Aside'
<1>1. PICK t : t = Now'
  OBVIOUS
<1>2. PICK s : s = Now
  OBVIOUS
<1>3. Fit(s) /\ lost \subseteq Numbers /\ Sure(s, {})
  BY <1>2 DEF IFit, Aside
<1>4. UNCHANGED <<lost, cost>>
  BY DEF Sweeps
<1>5. PICK u, v \in States :
           /\ \/ PumpAs(s, u) /\ FailedAs(u, v, Deaf(s))
              \/ FailedAs(s, u, Deaf(s)) /\ PumpAs(u, v)
           /\ PrunedAs(s, v, t) /\ Fit(u) /\ Fit(v)
  BY <1>1, <1>2, SweepsIs
<1>6. CASE PumpAs(s, u) /\ FailedAs(u, v, Deaf(s))
  <2>1. Sure(u, {})
    BY <1>3, <1>6, PumpSure
  <2>2. t.work = u.work
    BY <1>5, <1>6 DEF FailedAs, PrunedAs
  <2> QED BY <1>1, <1>4, <2>1, <2>2, SameSure, AsideStep
<1>7. CASE FailedAs(s, u, Deaf(s)) /\ PumpAs(u, v)
  <2>1. Sure(u, {})
    BY <1>3, <1>7, SameSure DEF FailedAs
  <2>2. Sure(v, {})
    BY <1>3, <1>5, <1>7, <2>1, PumpSure
  <2>3. t.work = v.work
    BY <1>5 DEF PrunedAs
  <2> QED BY <1>1, <1>4, <2>2, <2>3, SameSure, AsideStep
<1> QED BY <1>5, <1>6, <1>7

(* after a restart, which counts anew,                                     *)
LEMMA RestartsAside ==
  ASSUME IFit, Aside, Restarts
  PROVE  Aside'
<1>1. PICK t : t = Now'
  OBVIOUS
<1>2. PICK s : s = Now
  OBVIOUS
<1>3. Fit(s) /\ lost \subseteq Numbers /\ Sure(s, {})
  BY <1>2 DEF IFit, Aside
<1>4. lost' = lost /\ cost' = [n \in Numbers |-> 0]
  BY DEF Restarts
<1>5. PICK y \in States : Tame(s, y) /\ PumpAs(y, t) /\ Fit(y) /\ \A n \in Numbers : ~y.work[n].up
  BY <1>1, <1>2, RestartsIs
<1>6. Sure(y, {})
  <2>1. \A c \in lost : y.work[c].agent # "none"
    BY <1>3, <1>5 DEF Tame, Sure
  <2> QED BY <1>3, <1>5, <2>1 DEF Sure
<1>7. Sure(t, {})
  BY <1>3, <1>5, <1>6, PumpSure
<1>8. Sure(t, {})'
  BY <1>4, <1>7 DEF Sure, Doom
<1>9. Sure(Now, {})'
  BY <1>1, <1>8
<1>10. \A c \in Numbers : cost'[c] = 0
  BY <1>4
<1> QED BY <1>3, <1>4, <1>9, <1>10 DEF Aside

(* and after what people do: a conversation that is lost has no session    *)
(* up.                                                                     *)
LEMMA OutsideAside ==
  ASSUME IFit, Aside, UNCHANGED <<memo, update, work, clock, recheck>>,
         \/ UNCHANGED <<lost, cost>>
         \/ \E n \in Numbers : Loses(n)
  PROVE  Aside'
<1>1. PICK t : t = Now'
  OBVIOUS
<1>2. t = Now /\ Fit(t)
  BY <1>1 DEF IFit, Now
<1>3. CASE UNCHANGED <<lost, cost>>
  BY <1>1, <1>2, <1>3, AsideStep DEF Aside
<1>4. ASSUME NEW n \in Numbers, Loses(n) PROVE Aside'
  <2>1. /\ lost' = lost \cup {n} /\ cost' = cost /\ t.work[n].agent # "none"
        /\ \A k \in Numbers : ~(t.work[k].up /\ t.work[k].id = n)
    BY <1>2, <1>4, NowParts DEF Loses
  <2>2. Sure(t, {})
    BY <1>2 DEF Aside
  <2>3. \A c \in lost' : t.work[c].agent # "none" /\ (t.work[c].up => t.work[c].id # c)
    BY <2>1, <2>2 DEF Sure
  <2>4. \A k \in Numbers : t.work[k].up /\ Doom(t, k)' => Doom(t, k)
    BY <2>1 DEF Doom
  <2>5. Sure(t, {})'
    BY <2>2, <2>3, <2>4 DEF Sure
  <2>6. Sure(Now, {})'
    BY <1>1, <2>5
  <2> QED BY <2>1, <2>6 DEF Aside
<1> QED BY <1>3, <1>4

(* What a resume that fails costs is charged to a conversation that is no   *)
(* more, or to one that was there before agents were recorded.              *)
LEMMA DoomedCost ==
  ASSUME IFit, Aside, NEW n \in Numbers, Now.work[n].up, Doom(Now, n)
  PROVE  /\ Now.work[n].id \in Numbers /\ Now.work[n].id # n
         /\ Now.work[n].id \in lost \/ Now.work[n].id = Old
<1>1. PICK s : s = Now
  OBVIOUS
<1>2. Fit(s) /\ FitRun(s, n) /\ FitWork(s, n) /\ s.work[n].up /\ Doom(s, n)
  BY <1>1 DEF IFit, Fit
<1>3. s.work[n].id \in Numbers /\ n # Old /\ s.work[n].id # n
  BY <1>2, UpIs DEF Doom
<1>4. s.update[n].session = n /\ s.update[n].resume = s.work[n].id
  BY <1>2, <1>3 DEF FitWork, Made
<1>5. s.work[n].agent = s.update[n].agent
  BY <1>2, <1>3, <1>4, NumbersAre DEF FitRun, May, Ancient
<1>6. s.work[n].id \in lost \/ s.work[n].id = Old
  BY <1>2, <1>3, <1>4, <1>5, NumbersAre DEF FitRun, May, Ancient, Doom
<1> QED BY <1>1, <1>3, <1>6

(* Deliveries that failed are counted for their conversation only.         *)
LEMMA CostIs ==
  ASSUME cost \in [Numbers -> Nat], NEW c \in Numbers, NEW W \in SUBSET Numbers, NEW V \in SUBSET Numbers,
         cost' = [cost EXCEPT ![c] = @ + Cardinality(W \cup V)]
  PROVE  cost' \in [Numbers -> Nat] /\ \A e \in Numbers : e # c => cost'[e] = cost[e]
<1>1. IsFiniteSet(Numbers)
  BY IssueAssumption, FS_Interval DEF Numbers
<1>2. Cardinality(W \cup V) \in Nat
  <2>1. W \cup V \subseteq Numbers
    OBVIOUS
  <2> QED BY <1>1, <2>1, FS_Subset, FS_CardinalityType
<1> DEFINE k == Cardinality(W \cup V)
<1> HIDE DEF k
<1>3. k \in Nat /\ cost' = [cost EXCEPT ![c] = @ + k]
  BY <1>2 DEF k
<1> QED BY <1>3

(* Aside holds after the steps of a session.                               *)
LEMMA WorkAside ==
  ASSUME IFit, Aside, NEW n \in Numbers, WorkStep(n)
  PROVE  Aside'
<1>1. PICK t : t = Now'
  OBVIOUS
<1>2. PICK s : s = Now
  OBVIOUS
<1>3. Fit(s) /\ lost \subseteq Numbers /\ Sure(s, {})
  BY <1>2 DEF IFit, Aside
<1>4. CASE Announced(n)
  <2>1. t.work = s.work
    BY <1>1, <1>2, <1>4, AnnouncedAct DEF AnnouncedAs
  <2>2. UNCHANGED <<lost, cost>>
    BY <1>4 DEF Announced
  <2> QED BY <1>1, <1>3, <2>1, <2>2, SameSure, AsideStep
<1>5. CASE TurnOver(n)
  <2>1. PICK y, u \in States :
          /\ s.work[n].up /\ SilentAs(s, y, n, TRUE) /\ PumpAs(y, u)
          /\ ClosedAs(u, t, s.work[n].watchers, "succeeded") \/ FailedAs(u, t, s.work[n].watchers)
    BY <1>1, <1>2, <1>5, TurnOverIs DEF TurnOverAs
  <2>2. ~Doom(s, n)
    BY <1>2, <1>5, DoomedIs DEF TurnOver
  <2>3. Sure(y, {})
    BY <1>3, <2>1, <2>2, SilentSure
  <2>4. Fit(y)
    BY <1>3, <2>1, SilentTame, TameFit
  <2>5. Sure(u, {})
    BY <1>3, <2>1, <2>3, <2>4, PumpSure
  <2>6. t.work = u.work
    BY <2>1 DEF ClosedAs, FailedAs
  <2>7. UNCHANGED <<lost, cost>>
    BY <1>5 DEF TurnOver
  <2> QED BY <1>1, <2>5, <2>6, <2>7, SameSure, AsideStep
<1>6. CASE ResumeFails(n)
  <2>0. PICK y, u, v, x \in States :
           /\ FailsTwice(s, y, u, v, x, t, n)
           /\ cost' = [cost EXCEPT ![s.work[n].id] =
                         @ + Cardinality(s.work[n].watchers \cup u.work[n].watchers)]
    BY <1>1, <1>2, <1>6, ResumeFailsIs
  <2>1. /\ s.work[n].up
        /\ SilentAs(s, y, n, TRUE) /\ PumpAs(y, u) /\ FailedAs(u, v, s.work[n].watchers)
        /\ SilentAs(v, x, n, FALSE) /\ FailedAs(x, t, u.work[n].watchers)
        /\ Fit(y) /\ Fit(u) /\ Fit(v)
        /\ cost' = [cost EXCEPT ![s.work[n].id] =
                      @ + Cardinality(s.work[n].watchers \cup u.work[n].watchers)]
    BY <2>0 DEF FailsTwice
  <2>2. Sure(y, {n})
    <3>1. {} \ {n} \subseteq {n} /\ n \in {n}
      OBVIOUS
    <3>2. SilentAs(s, y, n, TRUE) /\ s.work[n].up
      BY <2>1
    <3> QED BY <1>3, <3>1, <3>2, SilentSure
  <2>3. Sure(u, {n})
    BY <1>3, <2>1, <2>2, PumpSure
  <2>4. Sure(v, {n})
    BY <2>1, <2>3, SameSure DEF FailedAs
  <2>5. Sure(x, {})
    <3>1. {n} \ {n} \subseteq {}
      OBVIOUS
    <3>2. SilentAs(v, x, n, FALSE) /\ Fit(v)
      BY <2>1
    <3> QED BY <1>3, <2>4, <3>1, <3>2, SilentSure
  <2>6. Sure(t, {})
    BY <2>1, <2>5, SameSure DEF FailedAs
  <2>7. Doom(s, n) /\ lost' = lost
    BY <1>2, <1>6, DoomedIs DEF ResumeFails
  <2>8. s.work[n].id \in Numbers /\ (s.work[n].id \in lost \/ s.work[n].id = Old)
    BY <1>2, <2>1, <2>7, DoomedCost
  <2>9. s.work[n].watchers \in SUBSET Numbers /\ u.work[n].watchers \in SUBSET Numbers
    BY <1>3, <2>1, WatchersAre
  <2>10. cost' \in [Numbers -> Nat] /\ \A e \in Numbers : e # s.work[n].id => cost'[e] = cost[e]
    BY <2>1, <2>8, <2>9, CostIs DEF Aside
  <2>11. Sure(t, {})'
    BY <2>6, <2>7 DEF Sure, Doom
  <2>12. Sure(Now, {})'
    BY <1>1, <2>11
  <2>13. \A c \in Numbers : cost'[c] > 0 => c \in lost' \/ c = Old
    BY <2>7, <2>8, <2>10 DEF Aside
  <2> QED BY <1>3, <2>7, <2>10, <2>12, <2>13 DEF Aside
<1>7. CASE SessionExits(n)
  <2>1. PICK y, u \in States :
          /\ SilentAs(s, y, n, FALSE) /\ PumpAs(y, u) /\ Fit(y)
          /\ t = u \/ FailedAs(u, t, s.work[n].watchers)
    BY <1>1, <1>2, <1>7, SessionExitsIs
  <2>2. Sure(y, {})
    BY <1>3, <2>1, SilentSure
  <2>3. Sure(u, {})
    BY <1>3, <2>1, <2>2, PumpSure
  <2>4. t.work = u.work
    BY <2>1 DEF FailedAs
  <2>5. UNCHANGED <<lost, cost>>
    BY <1>7 DEF SessionExits
  <2> QED BY <1>1, <2>3, <2>4, <2>5, SameSure, AsideStep
<1>8. CASE RemovesTree(n)
  BY <1>8, OutsideAside DEF RemovesTree
<1>9. CASE Loses(n)
  BY <1>9, OutsideAside DEF Loses
<1> QED BY <1>4, <1>5, <1>6, <1>7, <1>8, <1>9 DEF WorkStep

(* Conversations that failed somebody are no more, or ancient.              *)
LEMMA AsideNext ==
  ASSUME IFit, Aside, IssueNext
  PROVE  Aside'
<1>1. CASE Arrives
  BY <1>1, ArrivesAside
<1>2. CASE Sweeps
  BY <1>2, SweepsAside
<1>3. CASE Restarts
  BY <1>3, RestartsAside
<1>4. CASE Reroutes
  BY <1>4, OutsideAside DEF Reroutes
<1>5. ASSUME NEW n \in Numbers, UpdateStep(n) \/ WorkStep(n) PROVE Aside'
  BY <1>5, UpdateAside, WorkAside
<1> QED BY <1>1, <1>2, <1>3, <1>4, <1>5 DEF IssueNext

----------------------------------------------------------------------------
(* The issue's deliveries, while no two run side by side.                  *)
LEMMA SideBySideIs ==
  /\ SideBySide <=> ~Alone(Now, {})
  /\ SideBySide' <=> ~Alone(Now, {})'
BY DEF SideBySide, Alone, Going, UnderWay, Starting, Now

(* The row that was there is in line, there being no deliveries.           *)
LEMMA LineInit ==
  ASSUME IssueInit
  PROVE  ILine
<1>1. PICK s : s = Now
  OBVIOUS
<1>2. /\ s.memo = issueLeft.row /\ issueLeft \in IssueScenarios /\ \A c \in Numbers : cost[c] = 0
      /\ s.update = [d \in Numbers |->
                   IF d = Old /\ issueLeft.last # "none"
                   THEN [NoRun EXCEPT !.state = "succeeded", !.agent = issueLeft.last] ELSE NoRun]
  BY <1>1, NowParts DEF IssueInit
<1>3. \A d \in Numbers : s.update[d].state \in {"none", "succeeded"}
  BY <1>2 DEF NoRun
<1>4. Going(s, {}) = {} /\ InLine(s) = {}
  BY <1>3 DEF Going, InLine, UnderWay, Starting
<1>5. s.memo.session = Nil
  <2>1. issueLeft.row.session \in {Nil}
    BY <1>2, IssueAssumption
  <2> QED BY <1>2, <2>1
<1>6. Line(s, {}) /\ Alone(s, {}) /\ Served(s)
  BY <1>4, <1>5 DEF Line, LineRow, UpIn, Alone, Served
<1>7. Dead(s, cost)
  BY <1>2 DEF Dead
<1> QED BY <1>1, <1>6, <1>7 DEF ILine, Orderly

(* ILine is about the state and the cost.                                  *)
LEMMA OrderlyStep ==
  ASSUME NEW t, Now' = t, Orderly(t, cost'), beside' = (beside \/ SideBySide')
  PROVE  ILine'
<1>1. Orderly(t, cost)'
  BY DEF Orderly, Line, LineOf, LinePreparing, LineCreating, LineRunning, LineRow, LineWaiting,
         Dead, Excused, Pending, Served, Resumed
<1>2. Orderly(Now, cost)'
  BY <1>1
<1>3. ~beside' => Alone(Now, {})'
  BY SideBySideIs
<1> QED BY <1>2, <1>3 DEF ILine

(* A delivery's steps leave the issue orderly.                             *)
LEMMA UpdateOrderly ==
  ASSUME IFit, Aside, NEW s, s = Now, Alone(s, {}), Orderly(s, cost),
         NEW d \in Numbers, UpdateStep(d), NEW t, t = Now'
  PROVE  Orderly(t, cost')
<1>1. Fit(s) /\ Sure(s, {}) /\ lost \subseteq Numbers
  BY DEF IFit, Aside
<1>2. cost' = cost
  BY DEF UpdateStep, Prepared, Created, StartFails, PocketEnds, LooksAgain
<1>3. CASE Prepared(d)
  BY <1>1, <1>2, <1>3, PreparedAct, PreparedOrderly
<1>4. CASE Created(d)
  <2>1. s.update[d].state = "creating" /\ s.recheck = {} /\ CreatesAs(s, t, d)
    BY <1>4, CreatedAct
  <2>2. d \notin lost /\ d # Old
    BY <1>1, <2>1, CreatedSure
  <2>3. ~(cost[d] > 0)
    BY <2>2 DEF Aside
  <2> QED BY <1>1, <1>2, <2>1, <2>3, CreatedOrderly
<1>5. CASE StartFails(d)
  <2>1. PICK y \in States : ClosedAs(s, y, {d}, "failed") /\ PumpAs(y, t) /\ Fit(y)
    BY <1>5, StartFailsIs
  <2> QED BY <1>1, <1>2, <2>1, StartFailsLine
<1>6. CASE PocketEnds(d)
  <2>1. PocketEndsAs(s, t, d)
    BY <1>6, PocketEndsIs DEF PocketEndsAs
  <2>2. PICK k : k = cost
    OBVIOUS
  <2>3. Orderly(s, k) /\ Fit(s)
    BY <1>1, <2>2
  <2>4. Orderly(t, k)
    BY <2>1, <2>3, PocketEndsLine
  <2> QED BY <1>2, <2>2, <2>4
<1>7. CASE LooksAgain(d)
  <2>1. d \in s.recheck /\ LooksAgainAs(s, t, d)
    BY <1>7, LooksAgainIs
  <2> QED BY <1>1, <1>2, <2>1, LooksAgainLine
<1> QED BY <1>3, <1>4, <1>5, <1>6, <1>7 DEF UpdateStep

(* So do the steps that concern other things,                              *)
LEMMA SameOrderly ==
  ASSUME NEW s, Orderly(s, cost), s = Now, UNCHANGED <<memo, update, work, clock, recheck, cost>>, NEW t, t = Now'
  PROVE  Orderly(t, cost')
<1>1. t = s
  BY DEF Now
<1> QED BY <1>1

(* and those of a session.                                                 *)
LEMMA WorkOrderly ==
  ASSUME IFit, Aside, NEW s, s = Now, Alone(s, {}), Orderly(s, cost),
         NEW n \in Numbers, WorkStep(n), NEW t, t = Now'
  PROVE  Orderly(t, cost')
<1>1. Fit(s) /\ Sure(s, {}) /\ lost \subseteq Numbers
  BY DEF IFit, Aside
<1>2. CASE Announced(n)
  <2>1. s.work[n].up /\ AnnouncedAs(s, t, n)
    BY <1>2, AnnouncedAct
  <2>2. s.work[n].id = n => ~(cost[n] > 0)
    <3>1. n # Old
      BY <1>1, <2>1, UpIs
    <3> QED BY <1>1, <2>1, <3>1 DEF Sure, Aside
  <2>3. cost' = cost
    BY <1>2 DEF Announced
  <2> QED BY <1>1, <2>1, <2>2, <2>3, AnnouncedOrderly
<1>3. CASE TurnOver(n)
  <2>1. s.work[n].up /\ TurnOverAs(s, t, n)
    BY <1>3, TurnOverIs
  <2>2. cost' = cost
    BY <1>3 DEF TurnOver
  <2> QED BY <1>1, <2>1, <2>2, TurnOverLine
<1>4. CASE ResumeFails(n)
  <2>1. PICK y, u, v, x \in States :
           /\ FailsTwice(s, y, u, v, x, t, n) /\ Fit(u)
           /\ cost' = [cost EXCEPT ![s.work[n].id] =
                         @ + Cardinality(s.work[n].watchers \cup u.work[n].watchers)]
    BY <1>4, ResumeFailsIs DEF FailsTwice
  <2>2. Doom(s, n)
    BY <1>4, DoomedIs DEF ResumeFails
  <2>3. n \in s.work[n].watchers
    BY <1>1, <2>1, <2>2 DEF Sure, FailsTwice
  <2>4. s.work[n].id \in Numbers /\ s.work[n].id # n
    BY <2>1, <2>2, DoomedCost DEF FailsTwice
  <2>5. Line(t, {}) /\ Served(t) /\ Dead(t, cost)
    <3>1. PICK k : k = cost
      OBVIOUS
    <3>2. Orderly(s, k)
      BY <3>1
    <3>3. Line(t, {}) /\ Served(t) /\ Dead(t, k)
      BY <1>1, <2>1, <2>3, <3>2, ResumeFailsLine
    <3> QED BY <3>1, <3>3
  <2>6. t.memo.id = s.work[n].id => Excused(t, s.work[n].id) \/ Pending(t)
    <3>1. Line(s, {})
      BY DEF Orderly
    <3>2. PICK c : c = s.work[n].id
      OBVIOUS
    <3>3. c # n
      BY <2>4, <3>2
    <3>4. t.memo.id = c => Excused(t, c) \/ Pending(t)
      BY <1>1, <2>1, <2>3, <3>1, <3>2, <3>3, RefusedDead
    <3> QED BY <3>2, <3>4
  <2>7. \A e \in Numbers : e # s.work[n].id => cost'[e] = cost[e]
    <3>1. s.work[n].watchers \in SUBSET Numbers /\ u.work[n].watchers \in SUBSET Numbers
      BY <1>1, <2>1, WatchersAre
    <3> QED BY <2>1, <2>4, <3>1, CostIs DEF Aside
  <2>8. Dead(t, cost')
    BY <2>5, <2>6, <2>7 DEF Dead
  <2> QED BY <2>5, <2>8 DEF Orderly
<1>5. CASE SessionExits(n)
  <2>1. PICK y, u \in States :
          /\ s.work[n].up /\ SilentAs(s, y, n, FALSE) /\ PumpAs(y, u) /\ Fit(y) /\ Fit(u)
          /\ t = u \/ FailedAs(u, t, s.work[n].watchers)
    BY <1>5, SessionExitsIs
  <2>2. cost' = cost
    BY <1>5 DEF SessionExits
  <2> QED BY <1>1, <2>1, <2>2, SessionExitsLine
<1>6. CASE RemovesTree(n) \/ Loses(n)
  BY <1>6, SameOrderly DEF RemovesTree, Loses
<1> QED BY <1>2, <1>3, <1>4, <1>5, <1>6 DEF WorkStep

(* Every step leaves the issue orderly, while no two deliveries run side   *)
(* by side.                                                                *)
LEMMA OrderlyNext ==
  ASSUME IFit, Aside, NEW s, s = Now, Alone(s, {}), Orderly(s, cost), IssueNext, NEW t, t = Now', Alone(t, {})
  PROVE  Orderly(t, cost')
<1>1. Fit(s) /\ s \in States
  BY DEF IFit, Fit
<1>2. CASE Arrives
  <2>1. PICK d \in Numbers, key \in Trees : ArrivesAs(s, t, d, key)
    BY <1>2, ArrivesIs
  <2>2. cost' = cost
    BY <1>2, Zenon DEF Arrives
  <2>3. Line(s, {}) /\ Dead(s, cost) /\ Served(s)
    BY DEF Orderly
  <2>4. Line(t, {}) /\ Served(t)
    BY <1>1, <2>1, <2>3, ArrivesLine
  <2>5. Dead(t, cost)
    BY <1>1, <2>1, <2>3, ArrivesDead
  <2> QED BY <2>2, <2>4, <2>5 DEF Orderly
<1>3. CASE Sweeps
  <2>1. PICK u, v \in States :
           /\ \/ PumpAs(s, u) /\ FailedAs(u, v, Deaf(s))
              \/ FailedAs(s, u, Deaf(s)) /\ PumpAs(u, v)
           /\ PrunedAs(s, v, t) /\ Fit(u) /\ Fit(v)
    BY <1>3, SweepsIs
  <2>2. cost' = cost
    BY <1>3 DEF Sweeps
  <2>3. Orderly(t, cost)
    BY <1>1, <2>1, SweepsLine
  <2> QED BY <2>2, <2>3
<1>4. CASE Restarts
  <2>1. PICK b, y \in States :
           /\ b = s \/ FailedAs(s, b, {d \in Flying(s) : s.update[d].state = "running"})
           /\ CloseAs(s, y, Flying(s), "failed") /\ y.memo = b.memo
           /\ \A n \in Numbers : ~y.work[n].up
           /\ PumpAs(y, t) /\ Fit(y)
    BY <1>4, RestartsIs
  <2>2. \A c \in Numbers : ~(cost'[c] > 0)
    <3>1. cost' = [n \in Numbers |-> 0]
      BY <1>4 DEF Restarts
    <3> QED BY <3>1
  <2>3. Line(s, {})
    BY DEF Orderly
  <2>4. Line(t, {}) /\ Served(t)
    BY <1>1, <2>1, <2>3, RestartsLine
  <2> QED BY <2>2, <2>4 DEF Orderly, Dead
<1>5. CASE Reroutes
  BY <1>5, SameOrderly DEF Reroutes
<1>6. ASSUME NEW n \in Numbers, UpdateStep(n) PROVE Orderly(t, cost')
  BY <1>6, UpdateOrderly
<1>7. ASSUME NEW n \in Numbers, WorkStep(n) PROVE Orderly(t, cost')
  BY <1>7, WorkOrderly
<1> QED BY <1>2, <1>3, <1>4, <1>5, <1>6, <1>7 DEF IssueNext

(* ILine is inductive, with the other two.                                 *)
LEMMA LineNext ==
  ASSUME IFit, Aside, ILine, IssueNext
  PROVE  ILine'
<1>1. beside' = (beside \/ SideBySide')
  BY DEF IssueNext
<1>2. CASE beside'
  BY <1>2 DEF ILine
<1>3. CASE ~beside'
  <2>1. PICK s : s = Now
    OBVIOUS
  <2>2. PICK t : t = Now'
    OBVIOUS
  <2>3. Alone(s, {}) /\ Orderly(s, cost)
    BY <1>1, <1>3, <2>1 DEF ILine
  <2>4. Alone(t, {})
    <3>1. ~SideBySide'
      BY <1>1, <1>3
    <3>2. Alone(Now, {})'
      BY <3>1, SideBySideIs
    <3> QED BY <2>2, <3>2
  <2>5. Orderly(t, cost')
    BY <2>1, <2>2, <2>3, <2>4, OrderlyNext
  <2> QED BY <1>1, <2>2, <2>5, OrderlyStep
<1> QED BY <1>2, <1>3

(* While no two deliveries run side by side, they and the row are in line,  *)
(* and what cannot be resumed is out of the row or about to be.              *)
THEOREM IssueInLine == IssueSpec => [](IFit /\ Aside /\ ILine)
<1> DEFINE Inv == IFit /\ Aside /\ ILine
<1>1. IssueInit => Inv
  BY FitInit, AsideInit, LineInit
<1>2. ASSUME Inv, [IssueNext]_issueVars PROVE Inv'
  <2>1. CASE IssueNext
    BY <1>2, <2>1, FitNext, AsideNext, LineNext
  <2>2. CASE UNCHANGED issueVars
    <3>1. UNCHANGED issueVars
      BY <2>2
    <3>2. Now' = Now /\ UNCHANGED <<routed, lost, cost, beside, issueLeft>>
      BY <3>1 DEF issueVars, Now
    <3>3. IFit'
      <4>1. UNCHANGED <<memo, update, work, clock, recheck>> /\ routed' \in Folders
        BY <1>2, <3>1 DEF issueVars, IFit
      <4> QED BY <1>2, <3>2, <4>1, OutsideFit
    <3>4. Aside'
      BY <1>2, <3>2 DEF Aside, Sure, Doom
    <3>5. ILine'
      <4>1. PICK s : s = Now
        OBVIOUS
      <4>2. PICK k : k = cost
        OBVIOUS
      <4>3. ~beside' => Alone(s, {}) /\ Orderly(s, k)
        BY <1>2, <3>2, <4>1, <4>2 DEF ILine
      <4>4. Now' = s /\ cost' = k
        BY <3>2, <4>1, <4>2
      <4> QED BY <4>3, <4>4 DEF ILine
    <3> QED BY <3>3, <3>4, <3>5
  <2> QED BY <1>2, <2>1, <2>2
<1> QED BY <1>1, <1>2, PTL DEF IssueSpec

(* NoWedge: when its deliveries are over, an issue's row names no           *)
(* conversation that failed one, but for a delivery that began the row with *)
(* it (forgetDeadCachedConversation).                                        *)
THEOREM IssueNoWedge == IssueSpec => []NoWedge
<1>1. IFit /\ Aside /\ ILine => NoWedge
  <2> SUFFICES ASSUME ILine, ~beside, recheck = {}, NEW n \in Numbers, cost[n] > 0, memo.id = n
               PROVE  \E d \in Numbers : update[d].resume = n /\ update[d].started = memo.born
    BY DEF NoWedge
  <2>1. Dead(Now, cost)
    BY DEF ILine, Orderly
  <2>2. Excused(Now, n)
    BY <2>1, NowParts DEF Dead, Pending
  <2> QED BY <2>2, NowParts DEF Excused
<1> QED BY <1>1, IssueInLine, PTL
----------------------------------------------------------------------------
(* Directories, while no two deliveries run side by side and none has      *)
(* strayed.                                                                *)
\* Deliveries whose directory is in the row while their conversation's id is not.
Nameless(s) == {d \in Numbers : /\ UnderWay(s, d) /\ s.update[d].tree # NoTree /\ s.update[d].id = Nil
                                /\ s.update[d].resume = Nil \/ s.memo.id # s.update[d].resume}
\* The row's directory is its conversation's, and its session's.
RowOK(s) == s.memo.there =>
    /\ s.memo.agent \notin PocketAgents => s.memo.id # Nil
    /\ s.memo.id # Nil => s.work[s.memo.id].tree = s.memo.tree
    /\ UpIn(s, s.memo.session) => /\ s.work[s.memo.session].tree = s.memo.tree
                                  /\ s.work[s.memo.session].id = s.memo.id

\* The row is not one without an agent that a refused chat has claimed.
Known(s)   == s.memo.there /\ (s.memo.agent = Unknown => LastAgent(s) \notin PocketAgents)
Is(t, key) == t = key \/ key.of \in gone

KeptPreparing(s, p) == LET r == s.update[p] IN
    /\ r.resume # Nil => /\ r.reuse = s.work[r.resume].tree /\ r.reuse.folder = r.folder
                         /\ r.key # NoTree => Is(r.reuse, r.key)
                         /\ ~UpIn(s, s.memo.session)
    /\ r.holds /\ Known(s) => Owns(s, r.agent) /\ Is(r.reuse, r.key)
    /\ InLine(s) # {} => r.holds /\ Is(r.reuse, r.key)
KeptCreating(s, p) == LET r == s.update[p] IN
    /\ s.memo.tree = r.tree /\ r.tree.folder = r.folder
    /\ r.key # NoTree => r.tree.of = p \/ Is(r.tree, r.key)
    /\ r.resume # Nil => r.tree = s.work[r.resume].tree
    /\ InLine(s) # {} => r.holds /\ Is(r.tree, r.key)
KeptRunning(s, p) == LET r == s.update[p] IN
    UpIn(s, r.session) => /\ s.memo.tree = s.work[r.session].tree
                          /\ s.memo.id # s.work[r.session].id =>
                                UnderWay(s, r.session) /\ s.update[r.session].id = Nil
\* What a delivery that waits, or starts, can expect of the row.
Due(s, d) == LET r == s.update[d] IN
    /\ s.memo.there => Is(s.memo.tree, r.key)
    /\ Known(s) => Owns(s, r.agent)
    /\ r.folder = r.key.folder \/ r.key.of \in gone
KeptWaiting(s, X, d) == LET r == s.update[d] IN
    /\ Due(s, d)
    /\ \A p \in Going(s, X) : Starting(s, p) => s.update[p].key = r.key /\ s.update[p].agent = r.agent
InPlace(s, d) == s.update[d].session # Nil =>
    LET w == s.work[s.update[d].session] IN
    /\ w.tree.folder = s.update[d].folder
    /\ s.update[d].key # NoTree => w.tree = s.update[d].key \/ w.tree.of = d
                                     \/ s.update[d].key.of \in gone
    /\ w.tree = s.work[w.id].tree

KeptOf(s, p) ==
    /\ s.update[p].state = "preparing" => KeptPreparing(s, p)
    /\ s.update[p].state = "creating" => KeptCreating(s, p)
    /\ s.update[p].state = "running" => KeptRunning(s, p)
Kept(s, X) ==
    /\ \A p \in Going(s, X) : KeptOf(s, p)
    /\ \A d \in InLine(s) : KeptWaiting(s, X, d)
    /\ \A d \in Numbers : InPlace(s, d)
    /\ Nameless(s) = {} => RowOK(s)

IKept == ~beside /\ ~strayed => Kept(Now, {})
----------------------------------------------------------------------------
(* Whose the row is.                                                       *)
SameOwner(s, t) == Known(t) => Known(s) /\ \A a : Owns(t, a) <=> Owns(s, a)

(* A row is owned by one agent.                                             *)
LEMMA OneOwner ==
  ASSUME NEW s, NEW a, NEW b, Owns(s, a), Owns(s, b)
  PROVE  a = b
BY DEF Owns

(* An agent that is no Pocket Agent knows a row for its own.                *)
LEMMA OwnerKnown ==
  ASSUME NEW s, NEW a, Owns(s, a), a \notin PocketAgents
  PROVE  Known(s)
BY DEF Owns, Known

(* A row is the same agent's while its agent is named, or nobody else ended. *)
LEMMA SameOwnerIs ==
  ASSUME NEW s, NEW t, t.memo.there = s.memo.there, t.memo.agent = s.memo.agent,
         s.memo.agent # Unknown \/ LastAgent(t) = LastAgent(s)
  PROVE  SameOwner(s, t)
BY DEF SameOwner, Known, Owns

(* If some deliveries of one agent ended, the last that ran is the one that *)
(* was last, or of that agent.                                              *)
LEMMA LastAgentOr ==
  ASSUME NEW s \in States, NEW t \in States, NEW a, Ended(s) \subseteq Ended(t),
         \A d \in Ended(s) : t.update[d].agent = s.update[d].agent,
         \A d \in Ended(t) \ Ended(s) : t.update[d].agent = a
  PROVE  LastAgent(t) = LastAgent(s) \/ LastAgent(t) = a
<1>1. CASE Ended(t) = {}
  <2>1. Ended(s) = {}
    BY <1>1
  <2> QED BY <1>1, <2>1, LastAgentIs
<1>2. CASE Ended(t) # {}
  <2>1. PICK f \in Ended(t) : (\A e \in Ended(t) : e <= f) /\ LastAgent(t) = t.update[f].agent
    BY <1>2, LastAgentIs
  <2>2. CASE f \notin Ended(s)
    BY <2>1, <2>2
  <2>3. CASE f \in Ended(s)
    <3>1. PICK d \in Ended(s) : (\A e \in Ended(s) : e <= d) /\ LastAgent(s) = s.update[d].agent
      BY <2>3, LastAgentIs
    <3>2. f <= d /\ d <= f /\ f \in Nat /\ d \in Nat
      BY <2>1, <2>3, <3>1, NumbersAre DEF Ended
    <3>3. f = d
      BY <3>2
    <3> QED BY <2>1, <3>1, <3>3
  <2> QED BY <2>2, <2>3
<1> QED BY <1>1, <1>2

(* A session that a delivery runs in has a directory and a conversation.    *)
LEMMA SessionIs ==
  ASSUME NEW s, Fit(s), NEW d \in Numbers, s.update[d].session # Nil
  PROVE  LET n == s.update[d].session IN
         /\ n \in Numbers /\ n # Old /\ s.update[n].session = n
         /\ s.work[n].id \in Numbers /\ s.work[n].tree # NoTree /\ s.work[n].tree = s.update[n].tree
         /\ s.work[n].id = IF s.update[n].resume = Nil THEN n ELSE s.update[n].resume
         /\ s.update[n].resume # Nil => s.update[n].id = s.update[n].resume
<1>1. PICK n : n = s.update[d].session
  OBVIOUS
<1>2. n \in Ids /\ FitRun(s, d) /\ s \in States
  BY <1>1 DEF Fit, States, Runs
<1>3. n \in Numbers /\ n # Old /\ s.update[n].session = n
  BY <1>1, <1>2, NumbersAre DEF FitRun, Made
<1>4. FitWork(s, n) /\ s.update[n].resume \in Ids
  BY <1>2, <1>3 DEF Fit, States, Runs
<1>5. /\ s.work[n].tree = s.update[n].tree /\ s.work[n].tree # NoTree
      /\ s.work[n].id = IF s.update[n].resume = Nil THEN n ELSE s.update[n].resume
      /\ s.update[n].resume # Nil => s.update[n].id = s.update[n].resume
  BY <1>3, <1>4 DEF FitWork, Made
<1>6. s.work[n].id \in Numbers
  BY <1>3, <1>4, <1>5, NumbersAre
<1> QED BY <1>1, <1>3, <1>5, <1>6

(* The maker of a session that has not announced its conversation.          *)
LEMMA NamelessIs ==
  ASSUME NEW s, Fit(s), NEW n \in Numbers, s.work[n].up, UnderWay(s, n), s.update[n].id = Nil
  PROVE  n \in Nameless(s)
<1>1. FitWork(s, n)
  BY DEF Fit
<1>2. s.update[n].session = n /\ s.update[n].resume = Nil /\ s.update[n].tree # NoTree
  BY <1>1, NumbersAre DEF FitWork, Made
<1> QED BY <1>2 DEF Nameless

\* The sessions of t are those of s, some of them over.
SameTrees(s, t) == \A n \in Numbers : /\ t.work[n].tree = s.work[n].tree /\ t.work[n].id = s.work[n].id
                                      /\ t.work[n].up => s.work[n].up
\* The deliveries of t ran where those of s did.
SamePlaces(s, t) == \A d \in Numbers : /\ t.update[d].session = s.update[d].session
                                       /\ t.update[d].session # Nil =>
                                             /\ t.update[d].folder = s.update[d].folder
                                             /\ t.update[d].key = s.update[d].key

(* A delivery is where it belongs as long as its session is the same.       *)
LEMMA InPlaceStays ==
  ASSUME NEW s, NEW t, Fit(s), SameTrees(s, t), SamePlaces(s, t), NEW d \in Numbers, InPlace(s, d)
  PROVE  InPlace(t, d)
<1> SUFFICES ASSUME t.update[d].session # Nil PROVE InPlace(t, d)
  BY DEF InPlace
<1>1. PICK n : n = s.update[d].session
  OBVIOUS
<1>2. /\ t.update[d].session = n /\ s.update[d].session # Nil
      /\ t.update[d].folder = s.update[d].folder /\ t.update[d].key = s.update[d].key
  BY <1>1 DEF SamePlaces
<1>3. n \in Numbers /\ s.work[n].id \in Numbers
  BY <1>1, <1>2, SessionIs
<1>4. /\ t.work[n].tree = s.work[n].tree /\ t.work[n].id = s.work[n].id
      /\ t.work[s.work[n].id].tree = s.work[s.work[n].id].tree
  BY <1>3 DEF SameTrees
<1> QED BY <1>1, <1>2, <1>4 DEF InPlace

(* The row is in order as long as it is the same.                           *)
LEMMA RowOKStays ==
  ASSUME NEW s, NEW t, s \in States, SameTrees(s, t), RowOK(s),
         t.memo.there => s.memo.there, t.memo.id = s.memo.id, t.memo.tree = s.memo.tree,
         t.memo.session = s.memo.session, t.memo.agent \notin PocketAgents => s.memo.agent \notin PocketAgents
  PROVE  RowOK(t)
<1>1. s.memo.id \in Ids /\ s.memo.session \in Ids
  BY DEF States, Rows
<1>2. s.memo.id # Nil => t.work[s.memo.id].tree = s.work[s.memo.id].tree
  BY <1>1, NumbersAre DEF SameTrees
<1>3. UpIn(t, s.memo.session) => /\ UpIn(s, s.memo.session)
                                 /\ t.work[s.memo.session].tree = s.work[s.memo.session].tree
                                 /\ t.work[s.memo.session].id = s.work[s.memo.session].id
  BY <1>1, NumbersAre DEF SameTrees, UpIn
<1> QED BY <1>2, <1>3 DEF RowOK

(* What a delivery under way relies on stays as it is.                      *)
LEMMA KeptOfStays ==
  ASSUME NEW s, NEW t, s \in States, SameTrees(s, t), NEW p \in Numbers, KeptOf(s, p),
         t.update[p] = s.update[p], t.memo.id = s.memo.id, t.memo.tree = s.memo.tree,
         t.memo.session = s.memo.session, Known(t) => Known(s) /\ \A a : Owns(s, a) => Owns(t, a),
         InLine(t) # {} => InLine(s) # {},
         UpIn(s, s.update[p].session) /\ UnderWay(s, s.update[p].session) /\ s.update[s.update[p].session].id = Nil
         /\ s.memo.id # s.work[s.update[p].session].id
           => UnderWay(t, s.update[p].session) /\ t.update[s.update[p].session].id = Nil
  PROVE  KeptOf(t, p)
<1>1. /\ s.memo.id \in Ids /\ s.memo.session \in Ids /\ s.update[p].resume \in Ids
      /\ s.update[p].session \in Ids
  BY DEF States, Rows, Runs
<1>2. ~UpIn(s, s.memo.session) => ~UpIn(t, s.memo.session)
  BY <1>1, NumbersAre DEF SameTrees, UpIn
<1>3. s.update[p].state = "preparing" => KeptPreparing(t, p)
  <2>1. s.update[p].resume # Nil => t.work[s.update[p].resume].tree = s.work[s.update[p].resume].tree
    BY <1>1, NumbersAre DEF SameTrees
  <2> QED BY <1>2, <2>1 DEF KeptOf, KeptPreparing
<1>4. s.update[p].state = "creating" => KeptCreating(t, p)
  <2>1. s.update[p].resume # Nil => t.work[s.update[p].resume].tree = s.work[s.update[p].resume].tree
    BY <1>1, NumbersAre DEF SameTrees
  <2> QED BY <2>1 DEF KeptOf, KeptCreating
<1>5. s.update[p].state = "running" => KeptRunning(t, p)
  <2>1. PICK n : n = s.update[p].session
    OBVIOUS
  <2>2. UpIn(t, n) => UpIn(s, n) /\ t.work[n].tree = s.work[n].tree /\ t.work[n].id = s.work[n].id
    BY <1>1, <2>1, NumbersAre DEF SameTrees, UpIn
  <2> QED BY <2>1, <2>2 DEF KeptOf, KeptRunning
<1> QED BY <1>3, <1>4, <1>5 DEF KeptOf

(* So does what one that waits expects.                                     *)
LEMMA DueStays ==
  ASSUME NEW s, NEW t, NEW d, Due(s, d), t.memo.there => s.memo.there, t.memo.tree = s.memo.tree,
         SameOwner(s, t), t.update[d].key = s.update[d].key, t.update[d].agent = s.update[d].agent,
         t.update[d].folder = s.update[d].folder
  PROVE  Due(t, d)
BY DEF Due, SameOwner

(* Nothing but that some sessions and deliveries are over.                  *)
LEMMA KeptStays ==
  ASSUME NEW s, NEW t, NEW X, NEW Y, Fit(s), Kept(s, X), t.memo = s.memo, SameTrees(s, t), SamePlaces(s, t),
         SameOwner(s, t), Going(t, Y) \subseteq Going(s, X), InLine(t) \subseteq InLine(s),
         \A p \in Going(t, Y) \cup InLine(t) : t.update[p] = s.update[p],
         \A n \in Nameless(s) : UnderWay(t, n) /\ t.update[n] = s.update[n]
  PROVE  Kept(t, Y)
<1>0. s \in States
  BY DEF Fit
<1>1. ASSUME NEW p \in Going(t, Y) PROVE KeptOf(t, p)
  <2>1. p \in Numbers /\ KeptOf(s, p) /\ t.update[p] = s.update[p]
    BY DEF Kept, Going
  <2>2. PICK n : n = s.update[p].session
    OBVIOUS
  <2>3. UpIn(s, n) => n \in Numbers /\ s.work[n].up
    BY <1>0, <2>1, <2>2, NumbersAre DEF UpIn, States, Runs
  <2>4. ASSUME UpIn(s, n), UnderWay(s, n), s.update[n].id = Nil PROVE UnderWay(t, n) /\ t.update[n].id = Nil
    <3>1. n \in Nameless(s)
      BY <2>3, <2>4, NamelessIs
    <3> QED BY <2>4, <3>1
  <2> QED BY <1>0, <2>1, <2>2, <2>4, KeptOfStays DEF SameOwner
<1>2. ASSUME NEW d \in InLine(t) PROVE KeptWaiting(t, Y, d)
  <2>1. d \in InLine(s) /\ KeptWaiting(s, X, d) /\ t.update[d] = s.update[d]
    BY DEF Kept
  <2>2. Due(t, d)
    BY <2>1, DueStays DEF KeptWaiting
  <2>3. \A p \in Going(t, Y) : Starting(t, p) => p \in Going(s, X) /\ Starting(s, p) /\ t.update[p] = s.update[p]
    BY DEF Starting
  <2> QED BY <2>1, <2>2, <2>3 DEF KeptWaiting
<1>3. \A d \in Numbers : InPlace(t, d)
  BY InPlaceStays DEF Kept
<1>4. Nameless(t) = {} => RowOK(t)
  <2>1. \A n \in Nameless(s) : n \in Nameless(t)
    BY DEF Nameless
  <2>2. Nameless(t) = {} => Nameless(s) = {}
    BY <2>1
  <2>3. Nameless(s) = {} => RowOK(s)
    BY Zenon DEF Kept
  <2> QED BY <1>0, <2>2, <2>3, RowOKStays
<1> QED BY <1>1, <1>2, <1>3, <1>4 DEF Kept
----------------------------------------------------------------------------
(* Starts.                                                                 *)
(* A delivery is where it belongs, whatever session d makes.                *)
LEMMA PlaceStays ==
  ASSUME NEW s, NEW t, Fit(s), NEW e \in Numbers, InPlace(s, e), t.update[e] = s.update[e],
         NEW d \in Numbers, s.work[d] = NoWork, s.update[d].session = Nil, d # Old,
         \A n \in Numbers \ {d} : t.work[n].tree = s.work[n].tree /\ t.work[n].id = s.work[n].id
  PROVE  InPlace(t, e)
<1> SUFFICES ASSUME s.update[e].session # Nil PROVE InPlace(t, e)
  BY DEF InPlace
<1>1. PICK n : n = s.update[e].session
  OBVIOUS
<1>2. /\ n \in Numbers /\ s.update[n].session = n /\ n # Nil
      /\ s.work[n].id \in Numbers
      /\ s.work[n].id = IF s.update[n].resume = Nil THEN n ELSE s.update[n].resume
  BY <1>1, SessionIs
<1>3. n # d
  BY <1>2
<1>4. s.work[n].id # d
  <2>1. FitRun(s, n) /\ s.update[n].state # "none"
    BY <1>2 DEF Fit, FitRun
  <2>2. s.update[n].agent \in Agents /\ May(s, s.update[n].agent, s.update[n].resume)
    BY <2>1 DEF FitRun
  <2>3. s.work[d].agent = "none" /\ s.update[n].agent # "none"
    BY <2>2, AgentsAre DEF NoWork
  <2>4. d # Nil
    BY NumbersAre
  <2> QED BY <1>2, <1>3, <2>2, <2>3, <2>4 DEF May, Ancient
<1>5. t.work[n].tree = s.work[n].tree /\ t.work[t.work[n].id].tree = s.work[s.work[n].id].tree
  BY <1>2, <1>3, <1>4
<1> QED BY <1>1, <1>5, Zenon DEF InPlace

(* A follow-up finds the session in the directory of the row.               *)
LEMMA FollowRow ==
  ASSUME NEW s, NEW t, NEW d, NEW h, Fit(s), Ready(s, d, h), Start(s, t, d, h), AsFollowUp(s, t, d),
         NEW X, d \notin X, Kept(s, X), Alone(t, X), Nameless(s) \cap X = {}
  PROVE  LET n == s.memo.session IN
         /\ \A p \in Going(t, X) : t.update[p].state = "running" /\ t.update[p].session = n
         /\ s.memo.tree = s.work[n].tree
         /\ s.memo.id # s.work[n].id => UnderWay(s, n) /\ s.update[n].id = Nil
<1> DEFINE n == s.memo.session
<1>1. /\ d \in Numbers \ {Old} /\ s \in States
      /\ \A e \in Numbers \ {d} : t.update[e] = s.update[e]
      /\ Going(t, X) \ {d} = Going(s, X) /\ s.update[d].state \in {"none", "waiting"}
  BY StartOthers
<1>2. /\ n \in Numbers /\ UpIn(s, n) /\ Owns(s, s.update[d].agent)
      /\ t.update[d].state = "running" /\ t.update[d].session = n
  BY NumbersAre DEF AsFollowUp, MayContinue, UpIn
<1>3. d \in Going(t, X)
  BY <1>1, <1>2 DEF Going, UnderWay
<1>4. ASSUME NEW p \in Going(t, X), p # d
      PROVE  t.update[p].state = "running" /\ t.update[p].session = n /\ t.update[p] = s.update[p] /\ p \in Going(s, X)
  <2>1. p \in Numbers /\ t.update[p] = s.update[p] /\ UnderWay(t, p) /\ p \in Going(s, X)
    BY <1>1, <1>4 DEF Going
  <2>2. t.update[p].session = n /\ n # Nil
    BY <1>2, <1>3, <1>4, NumbersAre DEF Alone
  <2>3. FitRun(s, p)
    BY <2>1 DEF Fit
  <2> QED BY <2>1, <2>2, <2>3 DEF FitRun, UnderWay, Starting
<1>5. CASE Nameless(s) = {}
  <2>1. RowOK(s) /\ s.memo.there
    BY <1>2, <1>5 DEF Kept, Owns
  <2>2. s.memo.tree = s.work[n].tree /\ s.memo.id = s.work[n].id
    BY <1>2, <2>1 DEF RowOK
  <2> QED BY <1>2, <1>4, <2>2
<1>6. CASE Nameless(s) # {}
  <2>1. PICK e : e \in Nameless(s)
    BY <1>6
  <2>2. e \in Numbers /\ UnderWay(s, e) /\ e \notin X /\ e # d
    BY <1>1, <2>1 DEF Nameless, UnderWay, Starting
  <2>3. e \in Going(s, X) /\ e \in Going(t, X)
    BY <1>1, <2>2 DEF Going
  <2>4. s.update[e].state = "running" /\ s.update[e].session = n
    BY <1>4, <2>2, <2>3
  <2>5. KeptRunning(s, e)
    BY <2>3, <2>4 DEF Kept, KeptOf
  <2>6. s.memo.tree = s.work[n].tree /\ (s.memo.id # s.work[n].id => UnderWay(s, n) /\ s.update[n].id = Nil)
    BY <1>2, <2>4, <2>5 DEF KeptRunning
  <2> QED BY <1>2, <1>4, <2>6
<1> QED BY <1>5, <1>6

(* It runs where its conversation does.                                     *)
LEMMA FollowKept ==
  ASSUME NEW s, NEW t, NEW d, NEW h, Fit(s), Ready(s, d, h), Start(s, t, d, h), AsFollowUp(s, t, d),
         NEW X, d \notin X, Kept(s, X), Alone(t, X), Nameless(s) \cap X = {},
         s.update[d].key # NoTree => Due(s, d)
  PROVE  Kept(t, X) /\ Nameless(t) = Nameless(s)
<1>1. /\ d \in Numbers \ {Old} /\ s \in States /\ s.work[d] = NoWork
      /\ \A e \in Numbers \ {d} : t.update[e] = s.update[e]
      /\ Going(t, X) \ {d} = Going(s, X) /\ s.update[d].state \in {"none", "waiting"}
      /\ InLine(t) = InLine(s) \ {d}
      /\ \A m \in Ids : UpIn(t, m) <=> UpIn(s, m)
  BY StartOthers
<1>2. PICK n : n = s.memo.session
  OBVIOUS
<1>3. /\ n \in Numbers /\ s.work[n].up /\ Owns(s, s.update[d].agent)
      /\ s.memo.tree.folder = s.update[d].folder /\ s.update[d].agent \notin PocketAgents
      /\ t.update[d].state = "running" /\ t.update[d].session = n
      /\ t.memo.there /\ t.memo.agent = s.update[d].agent /\ t.memo.session = n /\ t.memo.id = s.memo.id
      /\ t.memo.tree = s.memo.tree
  BY <1>2 DEF AsFollowUp, MayContinue
<1>4. \A m \in Numbers : t.work[m].tree = s.work[m].tree /\ t.work[m].id = s.work[m].id
  BY <1>2 DEF AsFollowUp, SameWork
<1>5. /\ \A p \in Going(t, X) : t.update[p].state = "running" /\ t.update[p].session = n
      /\ s.memo.tree = s.work[n].tree
      /\ s.memo.id # s.work[n].id => UnderWay(s, n) /\ s.update[n].id = Nil
  BY <1>2, FollowRow
<1>6. n # Nil /\ n # d /\ s.update[n].session = n /\ FitRun(s, d)
  <2>1. FitRun(s, d) /\ FitRow(s)
    BY <1>1 DEF Fit
  <2>2. s.update[n].session = n /\ n # Nil
    BY <1>2, <1>3, <2>1, NumbersAre DEF FitRow, Made
  <2>3. s.update[d].session = Nil
    BY <1>1, <2>1 DEF FitRun
  <2> QED BY <2>1, <2>2, <2>3
<1>7. s.update[d].session = Nil /\ s.update[d].tree = NoTree /\ t.update[d].tree = NoTree
  BY <1>1, <1>6 DEF FitRun, Start, Begun
<1>8. Nameless(t) = Nameless(s)
  <2>1. \A e \in Numbers \ {d} : e \in Nameless(t) <=> e \in Nameless(s)
    BY <1>1, <1>3 DEF Nameless, UnderWay, Starting
  <2>2. d \notin Nameless(t) /\ d \notin Nameless(s)
    BY <1>7 DEF Nameless
  <2>3. Nameless(t) \subseteq Numbers /\ Nameless(s) \subseteq Numbers
    BY DEF Nameless
  <2> QED BY <2>1, <2>2, <2>3
<1>9. Known(s) /\ SameOwner(s, t) /\ t.update[d].agent = s.update[d].agent
  <2>1. Known(s)
    BY <1>3, OwnerKnown
  <2>2. t.memo.agent # Unknown
    BY <1>1, <1>3, AgentsAre DEF Ready
  <2>3. \A a : Owns(t, a) <=> a = s.update[d].agent
    BY <1>3, <2>2 DEF Owns
  <2>4. \A a : Owns(s, a) <=> a = s.update[d].agent
    BY <1>3, OneOwner
  <2>5. t.update[d].agent = s.update[d].agent
    BY DEF Start, Begun, SameWish
  <2> QED BY <2>1, <2>3, <2>4, <2>5 DEF SameOwner
<1>10. ASSUME NEW p \in Going(t, X) PROVE KeptOf(t, p)
  <2>1. t.update[p].state = "running" /\ t.update[p].session = n
    BY <1>5
  <2>2. t.memo.tree = t.work[n].tree
    BY <1>3, <1>4, <1>5
  <2>3. t.memo.id # t.work[n].id => UnderWay(t, n) /\ t.update[n].id = Nil
    BY <1>1, <1>3, <1>4, <1>5, <1>6 DEF UnderWay, Starting
  <2> QED BY <2>1, <2>2, <2>3 DEF KeptOf, KeptRunning
<1>11. ASSUME NEW e \in InLine(t) PROVE KeptWaiting(t, X, e)
  <2>1. e \in InLine(s) /\ e # d /\ t.update[e] = s.update[e]
    BY <1>1 DEF InLine
  <2>2. Due(s, e)
    BY <2>1 DEF Kept, KeptWaiting
  <2>3. Due(t, e)
    BY <1>3, <1>9, <2>1, <2>2, DueStays DEF Known
  <2>4. \A p \in Going(t, X) : ~Starting(t, p)
    BY <1>5 DEF Starting
  <2> QED BY <2>3, <2>4 DEF KeptWaiting
<1>12. ASSUME NEW e \in Numbers PROVE InPlace(t, e)
  <2>1. CASE e # d
    <3>1. InPlace(s, e)
      BY DEF Kept
    <3>2. t.update[e] = s.update[e] /\ d \in Numbers /\ d # Old /\ s.work[d] = NoWork /\ s.update[d].session = Nil
      BY <1>1, <1>7, <2>1
    <3> QED BY <1>4, <3>1, <3>2, PlaceStays
  <2>2. CASE e = d
    <3>1. t.update[d].folder = s.update[d].folder /\ t.update[d].key = s.update[d].key
      BY DEF Start, Begun, SameWish
    <3>2. InPlace(s, n)
      BY <1>3 DEF Kept
    <3>3. s.work[n].tree = s.work[s.work[n].id].tree
      BY <1>6, <3>2 DEF InPlace
    <3>4. s.work[n].id \in Numbers
      BY <1>3, <1>6, SessionIs
    <3>5. s.update[d].key # NoTree => s.memo.tree = s.update[d].key \/ s.update[d].key.of \in gone
      BY <1>9 DEF Due, Is, Known
    <3>6. t.work[n].tree = s.memo.tree /\ t.work[n].tree = t.work[t.work[n].id].tree
      BY <1>3, <1>4, <1>5, <3>3, <3>4
    <3> QED BY <1>3, <2>2, <3>1, <3>5, <3>6 DEF InPlace
  <2> QED BY <2>1, <2>2
<1>13. Nameless(t) = {} => RowOK(t)
  <2>1. SameTrees(s, t)
    BY <1>1, <1>4, NumbersAre DEF SameTrees, UpIn
  <2>2. s.memo.there /\ (t.memo.agent \notin PocketAgents => s.memo.agent \notin PocketAgents)
    BY <1>3, AgentsAre DEF Owns
  <2>3. RowOK(s) => RowOK(t)
    BY <1>1, <1>2, <1>3, <2>1, <2>2, RowOKStays
  <2> QED BY <1>8, <2>3 DEF Kept
<1> QED BY <1>8, <1>10, <1>11, <1>12, <1>13 DEF Kept

(* A start makes nothing of an agent that has ended.                        *)
LEMMA StartEnds ==
  ASSUME NEW s, NEW t, NEW d, NEW h, Fit(s), Ready(s, d, h), Start(s, t, d, h), t.update[d].state # "failed"
  PROVE  LastAgent(t) = LastAgent(s)
<1>1. /\ d \in Numbers /\ s \in States /\ t \in States /\ s.update[d].state \in {"none", "waiting"}
      /\ \A e \in Numbers \ {d} : t.update[e] = s.update[e]
  BY StartOthers
<1>2. t.update[d].state \in {"running", "preparing"}
  BY DEF Start, AsFollowUp, AsNew, AsChat, AsRefused
<1>3. Ended(s) = Ended(t) /\ \A e \in Ended(s) : t.update[e].agent = s.update[e].agent
  BY <1>1, <1>2 DEF Ended
<1> QED BY <1>1, <1>3, LastAgentStays

(* A new session is for the directory that the delivery waited for, and for  *)
(* that of the conversation.                                                *)
LEMMA NewPreparing ==
  ASSUME NEW s, NEW t, NEW d, NEW h, Fit(s), Ready(s, d, h), Start(s, t, d, h), AsNew(s, t, d, h),
         RowOK(s), s.update[d].key # NoTree => Due(s, d), InLine(t) = {}
  PROVE  KeptPreparing(t, d)
<1> DEFINE r == s.update[d]
<1> DEFINE q == t.update[d]
<1>1. /\ r.agent \notin PocketAgents /\ (MayContinue(s, d) => ~UpIn(s, s.memo.session))
      /\ q.resume = (IF MayContinue(s, d) THEN s.memo.id ELSE Nil)
      /\ q.reuse = (IF q.resume = Nil THEN NoTree ELSE s.memo.tree)
      /\ q.holds = h /\ q.state = "preparing" /\ t.work = s.work /\ t.memo = s.memo
  BY DEF AsNew
<1>2. q.agent = r.agent /\ q.folder = r.folder /\ q.key = r.key
  BY DEF Start, Begun, SameWish
<1>3. h => r.key # NoTree
  BY DEF Ready
<1>4. UpIn(t, t.memo.session) <=> UpIn(s, s.memo.session)
  BY <1>1 DEF UpIn
<1>5. q.resume # Nil => /\ q.reuse = t.work[q.resume].tree /\ q.reuse.folder = q.folder
                        /\ q.key # NoTree => Is(q.reuse, q.key)
                        /\ ~UpIn(t, t.memo.session)
  <2> SUFFICES ASSUME q.resume # Nil
               PROVE  /\ q.reuse = t.work[q.resume].tree /\ q.reuse.folder = q.folder
                      /\ q.key # NoTree => Is(q.reuse, q.key)
                      /\ ~UpIn(t, t.memo.session)
    OBVIOUS
  <2>1. MayContinue(s, d) /\ q.resume = s.memo.id /\ q.reuse = s.memo.tree
    BY <1>1
  <2>2. s.memo.there /\ s.memo.tree.folder = r.folder
    BY <2>1 DEF MayContinue, Owns
  <2>3. s.work[s.memo.id].tree = s.memo.tree
    BY <2>1, <2>2 DEF RowOK
  <2>4. q.key # NoTree => Is(q.reuse, q.key)
    BY <1>2, <2>1, <2>2 DEF Due
  <2> QED BY <1>1, <1>2, <1>4, <2>1, <2>2, <2>3, <2>4
<1>6. q.holds /\ Known(t) => Owns(t, q.agent) /\ Is(q.reuse, q.key)
  <2> SUFFICES ASSUME q.holds, Known(t) PROVE Owns(t, q.agent) /\ Is(q.reuse, q.key)
    OBVIOUS
  <2>1. LastAgent(t) = LastAgent(s)
    BY <1>1, StartEnds
  <2>2. Known(s) /\ \A a : Owns(t, a) <=> Owns(s, a)
    BY <1>1, <2>1, SameOwnerIs DEF SameOwner
  <2>3. Due(s, d)
    BY <1>1, <1>3
  <2>4. Owns(s, r.agent) /\ s.memo.there
    BY <2>2, <2>3 DEF Due, Known
  <2>5. s.memo.agent \notin PocketAgents
    BY <1>1, <2>4, AgentsAre DEF Owns
  <2>6. s.memo.id # Nil
    BY <2>4, <2>5 DEF RowOK
  <2>7. CASE MayContinue(s, d)
    <3>1. q.reuse = s.memo.tree
      BY <1>1, <2>6, <2>7
    <3> QED BY <1>2, <2>2, <2>3, <2>4, <3>1 DEF Due
  <2>8. CASE ~MayContinue(s, d)
    <3>1. s.memo.tree.folder # r.folder
      BY <2>4, <2>8 DEF MayContinue
    <3>2. r.key.of \in gone
      BY <2>3, <2>4, <3>1 DEF Due, Is
    <3> QED BY <1>2, <2>2, <2>4, <3>2 DEF Is
  <2> QED BY <2>7, <2>8
<1> QED BY <1>5, <1>6 DEF KeptPreparing

(* Whoever starts without a session is under way alone.                     *)
LEMMA StartAlone ==
  ASSUME NEW s, NEW t, NEW d, NEW h, Fit(s), Ready(s, d, h), Start(s, t, d, h), NEW X, d \notin X,
         Alone(t, X), UnderWay(t, d), t.update[d].session = s.update[d].session, Nameless(s) \cap X = {}
  PROVE  /\ Going(t, X) = {d} /\ Going(s, X) = {} /\ Nameless(s) = {}
         /\ s.update[d].session = Nil /\ s.update[d].tree = NoTree /\ t.update[d].tree = NoTree
<1>1. /\ d \in Numbers \ {Old} /\ Going(t, X) \ {d} = Going(s, X) /\ s.update[d].state \in {"none", "waiting"}
  BY StartOthers
<1>2. FitRun(s, d)
  BY <1>1 DEF Fit
<1>3. s.update[d].session = Nil /\ s.update[d].tree = NoTree /\ t.update[d].tree = NoTree
  BY <1>1, <1>2 DEF FitRun, Start, Begun
<1>4. d \in Going(t, X) /\ d \notin Going(s, X)
  BY <1>1 DEF Going, UnderWay, Starting
<1>5. \A e \in Going(t, X) : e = d
  BY <1>3, <1>4 DEF Alone
<1>6. Nameless(s) \subseteq Going(s, X)
  BY DEF Nameless, Going
<1> QED BY <1>1, <1>3, <1>4, <1>5, <1>6

(* A delivery that starts a session of its own.                             *)
LEMMA NewKept ==
  ASSUME NEW s, NEW t, NEW d, NEW h, Fit(s), Ready(s, d, h), Start(s, t, d, h), AsNew(s, t, d, h),
         NEW X, d \notin X, Kept(s, X), Alone(t, X), Nameless(s) \cap X = {}, InLine(s) \subseteq {d},
         s.update[d].key # NoTree => Due(s, d)
  PROVE  Kept(t, X) /\ Nameless(t) = Nameless(s)
<1>1. /\ d \in Numbers \ {Old} /\ s \in States /\ s.work[d] = NoWork
      /\ \A e \in Numbers \ {d} : t.update[e] = s.update[e]
      /\ s.update[d].state \in {"none", "waiting"} /\ InLine(t) = InLine(s) \ {d}
  BY StartOthers
<1>2. /\ t.memo = s.memo /\ t.work = s.work /\ t.update[d].state = "preparing"
      /\ t.update[d].session = s.update[d].session
  BY DEF AsNew
<1>3. /\ Going(t, X) = {d} /\ Nameless(s) = {}
      /\ s.update[d].session = Nil /\ t.update[d].tree = NoTree
  BY <1>2, StartAlone DEF UnderWay, Starting
<1>4. RowOK(s) /\ \A e \in Numbers : InPlace(s, e)
  BY <1>3 DEF Kept
<1>5. InLine(t) = {}
  BY <1>1
<1>6. \A p \in Going(t, X) : KeptOf(t, p)
  BY <1>2, <1>3, <1>4, <1>5, NewPreparing DEF KeptOf
<1>7. ASSUME NEW e \in Numbers PROVE InPlace(t, e)
  <2>1. CASE e # d
    BY <1>1, <1>2, <1>3, <1>4, <2>1, PlaceStays
  <2>2. CASE e = d
    BY <1>2, <1>3, <2>2 DEF InPlace
  <2> QED BY <2>1, <2>2
<1>8. RowOK(t)
  BY <1>1, <1>2, <1>4, RowOKStays DEF SameTrees
<1>9. Nameless(t) = {}
  <2>1. \A e \in Numbers \ {d} : e \in Nameless(t) => e \in Nameless(s)
    BY <1>1, <1>2 DEF Nameless, UnderWay, Starting
  <2> QED BY <1>3, <2>1 DEF Nameless
<1> QED BY <1>3, <1>5, <1>6, <1>7, <1>8, <1>9 DEF Kept

(* A chat.                                                                  *)
LEMMA ChatKept ==
  ASSUME NEW s, NEW t, NEW d, NEW h, Fit(s), Ready(s, d, h), Start(s, t, d, h), AsChat(s, t, d),
         NEW X, d \notin X, Kept(s, X), Alone(t, X), Nameless(s) \cap X = {}, InLine(s) \subseteq {d}
  PROVE  Kept(t, X)
<1>1. /\ d \in Numbers \ {Old} /\ s \in States /\ s.work[d] = NoWork
      /\ \A e \in Numbers \ {d} : t.update[e] = s.update[e]
      /\ s.update[d].state \in {"none", "waiting"} /\ InLine(t) = InLine(s) \ {d}
      /\ \A m \in Ids : UpIn(t, m) <=> UpIn(s, m)
  BY StartOthers
<1>2. /\ t.update[d].state = "running" /\ t.update[d].session = s.update[d].session
  BY DEF AsChat
<1>3. /\ Going(t, X) = {d} /\ Nameless(s) = {} /\ s.update[d].session = Nil
  BY <1>2, StartAlone DEF UnderWay
<1>4. RowOK(s) /\ \A e \in Numbers : InPlace(s, e)
  BY <1>3 DEF Kept
<1>5. InLine(t) = {}
  BY <1>1
<1>6. \A n \in Numbers : t.work[n].tree = s.work[n].tree /\ t.work[n].id = s.work[n].id
  <2>1. \A n \in Numbers \ {d} : t.work[n] = s.work[n]
    BY DEF AsChat, SameWork
  <2>2. t.work[d].tree = s.work[d].tree /\ t.work[d].id = s.work[d].id
    BY <1>1 DEF AsChat, NoWork
  <2> QED BY <2>1, <2>2
<1>7. \A p \in Going(t, X) : KeptOf(t, p)
  BY <1>2, <1>3 DEF KeptOf, KeptRunning, UpIn
<1>8. ASSUME NEW e \in Numbers PROVE InPlace(t, e)
  <2>1. CASE e # d
    BY <1>1, <1>3, <1>4, <1>6, <2>1, PlaceStays
  <2>2. CASE e = d
    BY <1>2, <1>3, <2>2 DEF InPlace
  <2> QED BY <2>1, <2>2
<1>9. SameTrees(s, t)
  BY <1>1, <1>6, NumbersAre DEF SameTrees, UpIn
<1>10. RowOK(t)
  <2>1. CASE Owns(s, s.update[d].agent)
    <3>1. /\ s.memo.there /\ t.memo.session = s.memo.session /\ t.memo.id = s.memo.id
          /\ t.memo.tree = s.memo.tree /\ t.memo.agent \in PocketAgents
      BY <2>1 DEF AsChat, Owns
    <3> QED BY <1>1, <1>4, <1>9, <3>1, RowOKStays
  <2>2. CASE ~Owns(s, s.update[d].agent)
    <3>1. t.memo.session = Nil /\ t.memo.id = Nil /\ t.memo.agent \in PocketAgents
      BY <2>2 DEF AsChat
    <3> QED BY <3>1 DEF RowOK, UpIn
  <2> QED BY <2>1, <2>2
<1> QED BY <1>5, <1>7, <1>8, <1>10 DEF Kept

(* A chat that is refused may claim a row without an agent.                 *)
LEMMA RefusedKept ==
  ASSUME NEW s, NEW t, NEW d, NEW h, Fit(s), Ready(s, d, h), Start(s, t, d, h), AsRefused(s, t, d),
         NEW X, Kept(s, X)
  PROVE  Kept(t, X)
<1>1. /\ d \in Numbers \ {Old} /\ s \in States /\ t \in States
      /\ \A e \in Numbers \ {d} : t.update[e] = s.update[e]
      /\ s.update[d].state \in {"none", "waiting"} /\ InLine(t) = InLine(s) \ {d}
      /\ Going(t, X) \ {d} = Going(s, X)
  BY StartOthers
<1>2. /\ t.memo = s.memo /\ t.work = s.work /\ t.update[d].state = "failed"
      /\ t.update[d].session = s.update[d].session /\ s.update[d].agent \in PocketAgents
  BY DEF AsRefused
<1>3. t.update[d].agent = s.update[d].agent
  BY DEF Start, Begun, SameWish
<1>4. SameOwner(s, t)
  <2>1. Ended(s) \subseteq Ended(t) /\ (\A e \in Ended(s) : t.update[e].agent = s.update[e].agent)
        /\ \A e \in Ended(t) \ Ended(s) : t.update[e].agent = s.update[d].agent
    BY <1>1, <1>2, <1>3 DEF Ended
  <2>2. LastAgent(t) = LastAgent(s) \/ LastAgent(t) \in PocketAgents
    BY <1>1, <1>2, <2>1, LastAgentOr
  <2>3. CASE s.memo.agent = Unknown /\ LastAgent(t) \in PocketAgents
    BY <1>2, <2>3 DEF SameOwner, Known
  <2>4. CASE s.memo.agent # Unknown \/ LastAgent(t) = LastAgent(s)
    BY <1>2, <2>4, SameOwnerIs
  <2> QED BY <2>2, <2>3, <2>4
<1>5. FitRun(s, d) /\ s.update[d].session = Nil
  BY <1>1 DEF Fit, FitRun
<1>6. SameTrees(s, t)
  BY <1>2 DEF SameTrees
<1>7. SamePlaces(s, t)
  BY <1>1, <1>2, <1>5 DEF SamePlaces
<1>8. d \notin Going(t, X) /\ d \notin InLine(t)
  BY <1>2 DEF Going, UnderWay, Starting, InLine
<1>9. Going(t, X) \subseteq Going(s, X) /\ InLine(t) \subseteq InLine(s)
  BY <1>1, <1>8
<1>10. \A p \in Going(t, X) \cup InLine(t) : t.update[p] = s.update[p]
  BY <1>1, <1>8 DEF Going, InLine
<1>11. \A n \in Nameless(s) : UnderWay(t, n) /\ t.update[n] = s.update[n]
  <2> SUFFICES ASSUME NEW n \in Nameless(s) PROVE UnderWay(t, n) /\ t.update[n] = s.update[n]
    OBVIOUS
  <2>1. n \in Numbers /\ UnderWay(s, n) /\ n # d
    BY <1>1 DEF Nameless, UnderWay, Starting
  <2> QED BY <1>1, <2>1 DEF UnderWay, Starting
<1> QED BY <1>2, <1>4, <1>6, <1>7, <1>9, <1>10, <1>11, KeptStays

(* A start.                                                                 *)
LEMMA StartKept ==
  ASSUME NEW s, NEW t, NEW d, NEW h, Fit(s), Ready(s, d, h), Start(s, t, d, h),
         NEW X, d \notin X, Kept(s, X), Alone(t, X), Nameless(s) \cap X = {},
         InLine(s) \subseteq {d} \/ AsFollowUp(s, t, d) \/ AsRefused(s, t, d),
         s.update[d].key # NoTree => Due(s, d)
  PROVE  /\ Kept(t, X)
         /\ s.update[d].agent \notin PocketAgents => Nameless(t) = Nameless(s)
<1>1. CASE AsFollowUp(s, t, d)
  BY <1>1, FollowKept
<1>2. CASE AsNew(s, t, d, h)
  <2>1. InLine(s) \subseteq {d}
    BY <1>2 DEF AsFollowUp, AsRefused, AsNew
  <2> QED BY <1>2, <2>1, NewKept
<1>3. CASE AsChat(s, t, d)
  <2>1. InLine(s) \subseteq {d} /\ s.update[d].agent \in PocketAgents
    BY <1>3 DEF AsFollowUp, AsRefused, AsChat
  <2> QED BY <1>3, <2>1, ChatKept
<1>4. CASE AsRefused(s, t, d)
  <2>1. s.update[d].agent \in PocketAgents
    BY <1>4 DEF AsRefused
  <2> QED BY <1>4, <2>1, RefusedKept
<1> QED BY <1>1, <1>2, <1>3, <1>4 DEF Start

(* A session that falls silent changes nothing of this.                     *)
LEMMA SilentKept ==
  ASSUME NEW s, NEW t, NEW n \in Numbers, NEW up, Fit(s), SilentAs(s, t, n, up), up => s.work[n].up,
         NEW X, Kept(s, X)
  PROVE  /\ Kept(t, X) /\ Nameless(t) = Nameless(s) /\ InLine(t) = InLine(s)
         /\ \A Y : Going(t, Y) = Going(s, Y)
<1>1. t.memo = s.memo /\ t.update = s.update
  BY DEF SilentAs
<1>2. SameTrees(s, t)
  <2>1. \A m \in Numbers \ {n} : t.work[m] = s.work[m]
    BY DEF SilentAs, SameWork
  <2>2. t.work[n].tree = s.work[n].tree /\ t.work[n].id = s.work[n].id /\ (t.work[n].up => s.work[n].up)
    BY DEF SilentAs
  <2> QED BY <2>1, <2>2 DEF SameTrees
<1>3. SamePlaces(s, t)
  BY <1>1 DEF SamePlaces
<1>4. /\ Nameless(t) = Nameless(s) /\ InLine(t) = InLine(s) /\ LastAgent(t) = LastAgent(s)
      /\ \A Y : Going(t, Y) = Going(s, Y)
  BY <1>1 DEF Nameless, InLine, LastAgent, Going, UnderWay, Starting
<1>5. SameOwner(s, t)
  BY <1>1, <1>4, SameOwnerIs
<1>6. \A m \in Nameless(s) : UnderWay(t, m) /\ t.update[m] = s.update[m]
  BY <1>1 DEF Nameless, UnderWay, Starting
<1>7. Kept(t, X)
  BY <1>1, <1>2, <1>3, <1>4, <1>5, <1>6, KeptStays
<1> QED BY <1>4, <1>7

(* The pump starts one that can expect its directory in the row.            *)
LEMMA PumpKept ==
  ASSUME NEW s, NEW t, Fit(s), PumpAs(s, t), NEW X, Kept(s, X), Alone(t, X), X \cap InLine(s) = {},
         Nameless(s) \cap X = {}
  PROVE  Kept(t, X) /\ Nameless(t) = Nameless(s)
<1>1. CASE t = s
  BY <1>1
<1>2. CASE t # s
  <2>1. PICK d \in InLine(s) : Ready(s, d, TRUE) /\ Start(s, t, d, TRUE)
    BY <1>2 DEF PumpAs
  <2>2. d \in Numbers /\ s.update[d].state = "waiting" /\ d \notin X
    BY <2>1 DEF InLine
  <2>3. InLine(s) \subseteq {d}
    BY <2>2 DEF InLine, Fit
  <2>4. KeptWaiting(s, X, d)
    BY <2>1 DEF Kept
  <2>5. Due(s, d)
    BY <2>4 DEF KeptWaiting
  <2>6. FitRun(s, d)
    BY <2>2 DEF Fit
  <2>7. s.update[d].agent \notin PocketAgents
    BY <2>2, <2>6, AgentsAre DEF FitRun
  <2> QED BY <2>1, <2>2, <2>3, <2>5, <2>7, StartKept
<1> QED BY <1>1, <1>2

----------------------------------------------------------------------------
(* Ends.                                                                   *)
(* Deliveries that are over stay where they were.                           *)
LEMMA ClosePlaces ==
  ASSUME NEW s, NEW t, NEW ds, NEW how, CloseAs(s, t, ds, how)
  PROVE  SamePlaces(s, t) /\ \A d \in Numbers : t.update[d].agent = s.update[d].agent
<1> SUFFICES ASSUME NEW d \in Numbers
             PROVE  /\ t.update[d].session = s.update[d].session /\ t.update[d].folder = s.update[d].folder
                    /\ t.update[d].key = s.update[d].key /\ t.update[d].agent = s.update[d].agent
  BY DEF SamePlaces
<1>1. CASE d \in ds
  BY <1>1 DEF CloseAs, OverAs, SameWish
<1>2. CASE d \notin ds
  BY <1>2 DEF CloseAs
<1> QED BY <1>1, <1>2

(* Fewer deliveries to answer for.                                          *)
LEMMA KeptLess ==
  ASSUME NEW s, NEW X, NEW Y, X \subseteq Y, Kept(s, X)
  PROVE  Kept(s, Y)
<1>1. Going(s, Y) \subseteq Going(s, X)
  BY DEF Going
<1>2. \A p \in Going(s, Y) : KeptOf(s, p)
  BY <1>1 DEF Kept
<1>3. \A d \in InLine(s) : KeptWaiting(s, Y, d)
  <2> SUFFICES ASSUME NEW d \in InLine(s) PROVE KeptWaiting(s, Y, d)
    OBVIOUS
  <2>1. KeptWaiting(s, X, d)
    BY DEF Kept
  <2> QED BY <1>1, <2>1 DEF KeptWaiting
<1> QED BY <1>2, <1>3 DEF Kept

\* Whoever is settled leaves the row its owner, or the only one left that could mind is
\* of the same agent.
Settles(s, ds) ==
    \/ s.memo.agent # Unknown \/ ds = {}
    \/ Going(s, ds) = {} /\ \A d \in InLine(s), e \in ds : s.update[d].agent = s.update[e].agent

(* When nobody is left under way, whoever waits finds what it can expect.   *)
LEMMA OverDue ==
  ASSUME NEW s, NEW t, s \in States, t \in States, NEW ds \in SUBSET Numbers, NEW how \in {"succeeded", "failed"},
         CloseAs(s, t, ds, how), t.memo = s.memo, Settles(s, ds),
         NEW d \in InLine(s), d \in InLine(t), t.update[d] = s.update[d], Due(s, d)
  PROVE  Due(t, d)
<1>1. \A e \in Numbers : t.update[e].agent = s.update[e].agent
  BY ClosePlaces
<1>2. Known(t) => Owns(t, s.update[d].agent)
  <2>1. CASE s.memo.agent # Unknown \/ LastAgent(t) = LastAgent(s)
    <3>1. SameOwner(s, t)
      BY <2>1, SameOwnerIs
    <3> QED BY <3>1 DEF SameOwner, Due
  <2>2. CASE s.memo.agent = Unknown /\ LastAgent(t) # LastAgent(s)
    <3>1. \A e \in ds : s.update[e].agent = s.update[d].agent
      BY <2>2 DEF Settles
    <3>2. Ended(s) \subseteq Ended(t)
      <4> SUFFICES ASSUME NEW e \in Ended(s) PROVE e \in Ended(t)
        OBVIOUS
      <4>1. e \in Numbers /\ s.update[e].state \in {"succeeded", "failed"}
        BY DEF Ended
      <4>2. t.update[e].state \in {"succeeded", "failed"}
        <5>1. CASE e \in ds
          BY <5>1 DEF CloseAs, OverAs
        <5>2. CASE e \notin ds
          BY <4>1, <5>2 DEF CloseAs
        <5> QED BY <5>1, <5>2
      <4> QED BY <4>1, <4>2 DEF Ended
    <3>3. \A e \in Ended(t) \ Ended(s) : e \in ds
      BY DEF Ended, CloseAs
    <3>4. \A e \in Ended(s) : t.update[e].agent = s.update[e].agent
      BY <1>1 DEF Ended
    <3>5. \A e \in Ended(t) \ Ended(s) : t.update[e].agent = s.update[d].agent
      BY <1>1, <3>1, <3>3
    <3>6. LastAgent(t) = s.update[d].agent
      BY <2>2, <3>2, <3>4, <3>5, LastAgentOr
    <3> QED BY <2>2, <3>6 DEF Known, Owns
  <2> QED BY <2>1, <2>2
<1> QED BY <1>2 DEF Due

(* Nobody is left under way.                                                *)
LEMMA OverKept ==
  ASSUME NEW s, NEW t, Fit(s), t \in States, NEW ds \in SUBSET Numbers, NEW how \in {"succeeded", "failed"},
         CloseAs(s, t, ds, how), SameTrees(s, t), NEW X, Kept(s, X), Going(s, ds) = {}, Nameless(s) \cap ds = {},
         t.memo = NoRow \/ (t.memo = s.memo /\ Settles(s, ds))
  PROVE  Kept(t, {}) /\ Going(t, {}) = {}
<1>0. s \in States
  BY DEF Fit
<1>1. Nameless(s) = {}
  BY DEF Nameless, Going
<1>2. RowOK(s)
  BY <1>1 DEF Kept
<1>3. SamePlaces(s, t)
  BY ClosePlaces
<1>4. ASSUME NEW d \in Numbers, UnderWay(t, d) \/ t.update[d].state = "waiting"
      PROVE  d \notin ds /\ t.update[d] = s.update[d]
  BY <1>4 DEF CloseAs, OverAs, UnderWay, Starting
<1>5. Going(t, {}) = {}
  BY <1>4 DEF Going, UnderWay, Starting
<1>6. ASSUME NEW d \in InLine(t) PROVE KeptWaiting(t, {}, d)
  <2>1. d \in Numbers /\ t.update[d] = s.update[d] /\ d \in InLine(s)
    BY <1>4 DEF InLine
  <2>2. KeptWaiting(s, X, d)
    BY <2>1 DEF Kept
  <2>3. Due(s, d)
    BY <2>2 DEF KeptWaiting
  <2>4. Due(t, d)
    <3>1. CASE t.memo = NoRow
      BY <2>1, <2>3, <3>1 DEF Due, Known, NoRow
    <3>2. CASE t.memo = s.memo /\ Settles(s, ds)
      BY <1>0, <2>1, <2>3, <3>2, OverDue
    <3> QED BY <3>1, <3>2
  <2> QED BY <1>5, <2>4 DEF KeptWaiting
<1>7. \A d \in Numbers : InPlace(t, d)
  BY <1>3, InPlaceStays DEF Kept
<1>8. RowOK(t)
  <2>1. CASE t.memo = NoRow
    BY <2>1 DEF RowOK, NoRow
  <2>2. CASE t.memo = s.memo
    BY <1>0, <1>2, <2>2, RowOKStays
  <2> QED BY <2>1, <2>2
<1> QED BY <1>5, <1>6, <1>7, <1>8 DEF Kept

(* Deliveries that end take nothing from the others.                        *)
LEMMA CloseKept ==
  ASSUME NEW s, NEW t, Fit(s), t \in States, NEW ds \in SUBSET Numbers, NEW how \in {"succeeded", "failed"},
         CloseAs(s, t, ds, how), t.work = s.work, t.memo = s.memo, Kept(s, ds), Nameless(s) \cap ds = {},
         Settles(s, ds)
  PROVE  Kept(t, {})
<1>1. SameTrees(s, t)
  BY DEF SameTrees
<1>2. CASE Going(s, ds) = {}
  BY <1>1, <1>2, OverKept
<1>3. CASE s.memo.agent # Unknown \/ ds = {}
  <2>1. /\ Going(t, {}) = Going(s, ds) /\ InLine(t) \subseteq InLine(s)
        /\ \A p \in Going(s, ds) \cup InLine(t) : t.update[p] = s.update[p]
    BY CloseOthers
  <2>2. SamePlaces(s, t)
    BY ClosePlaces
  <2>3. SameOwner(s, t)
    <3>1. ASSUME ds = {} PROVE LastAgent(t) = LastAgent(s)
      <4>1. \A d \in Numbers : t.update[d] = s.update[d]
        BY <3>1 DEF CloseAs
      <4>2. Ended(s) = Ended(t) /\ \A d \in Ended(s) : t.update[d].agent = s.update[d].agent
        BY <4>1 DEF Ended
      <4> QED BY <4>2, LastAgentStays DEF Fit
    <3> QED BY <1>3, <3>1, SameOwnerIs
  <2>4. \A n \in Nameless(s) : UnderWay(t, n) /\ t.update[n] = s.update[n]
    <3> SUFFICES ASSUME NEW n \in Nameless(s) PROVE UnderWay(t, n) /\ t.update[n] = s.update[n]
      OBVIOUS
    <3>1. n \in Numbers \ ds /\ UnderWay(s, n)
      BY DEF Nameless
    <3>2. t.update[n] = s.update[n]
      BY <3>1 DEF CloseAs
    <3> QED BY <3>1, <3>2 DEF UnderWay, Starting
  <2> QED BY <1>1, <2>1, <2>2, <2>3, <2>4, KeptStays
<1> QED BY <1>2, <1>3 DEF Settles

(* A row may be dropped when nobody has his place in it.                     *)
LEMMA DropKept ==
  ASSUME NEW s, NEW t, Fit(s), t.memo = NoRow, t.work = s.work, SamePlaces(s, t), NEW X, NEW Y,
         Going(t, Y) \subseteq Going(s, X), InLine(t) \subseteq InLine(s),
         \A p \in Going(t, Y) \cup InLine(t) : t.update[p] = s.update[p],
         Kept(s, X),
         Going(t, Y) = {} \/ (Line(s, X) /\ ~UpIn(s, s.memo.session) /\ NoneCreating(s, X))
  PROVE  Kept(t, Y)
<1>1. ~Known(t) /\ ~t.memo.there /\ t.memo.session = Nil
  BY DEF Known, NoRow
<1>2. ASSUME NEW p \in Going(t, Y) PROVE KeptOf(t, p)
  <2>1. /\ p \in Going(s, X) /\ t.update[p] = s.update[p] /\ KeptOf(s, p) /\ LineOf(s, p)
        /\ s.update[p].state # "creating"
    BY <1>2 DEF Kept, Line, NoneCreating
  <2>2. s.update[p].state = "running" => ~UpIn(s, s.update[p].session)
    BY <2>1 DEF LineOf, LineRunning
  <2>3. s.update[p].state = "running" => KeptRunning(t, p)
    BY <2>1, <2>2 DEF KeptRunning, UpIn
  <2>4. s.update[p].state = "preparing" => KeptPreparing(t, p)
    BY <1>1, <2>1 DEF KeptOf, KeptPreparing, UpIn
  <2> QED BY <2>1, <2>3, <2>4 DEF KeptOf
<1>3. ASSUME NEW d \in InLine(t) PROVE KeptWaiting(t, Y, d)
  <2>1. d \in InLine(s) /\ t.update[d] = s.update[d] /\ KeptWaiting(s, X, d)
    BY DEF Kept
  <2>2. Due(t, d)
    BY <1>1, <2>1 DEF Due, KeptWaiting
  <2>3. \A p \in Going(t, Y) : Starting(t, p) => p \in Going(s, X) /\ Starting(s, p) /\ t.update[p] = s.update[p]
    BY DEF Starting
  <2> QED BY <2>1, <2>2, <2>3 DEF KeptWaiting
<1>4. SameTrees(s, t)
  BY DEF SameTrees
<1>5. \A d \in Numbers : InPlace(t, d)
  BY <1>4, InPlaceStays DEF Kept
<1>6. RowOK(t)
  BY <1>1 DEF RowOK
<1> QED BY <1>2, <1>3, <1>5, <1>6 DEF Kept

(* Failing drops the row or leaves it.                                      *)
LEMMA FailKept ==
  ASSUME NEW s, NEW t, NEW ds \in SUBSET Numbers, Fit(s), FailedAs(s, t, ds), Kept(s, ds), Line(s, ds),
         ds = {} \/ NoneCreating(s, ds), Nameless(s) \cap ds = {}, Settles(s, ds)
  PROVE  Kept(t, {})
<1>1. t \in States /\ t.work = s.work /\ CloseAs(s, t, ds, "failed")
  BY DEF FailedAs
<1>2. CASE ~UpIn(s, s.memo.session) /\ Hits(s, ds) # {}
  <2>1. t.memo = NoRow /\ ds # {}
    BY <1>2 DEF FailedAs, Hits
  <2>2. /\ Going(t, {}) = Going(s, ds) /\ InLine(t) \subseteq InLine(s)
        /\ \A p \in Going(s, ds) \cup InLine(t) : t.update[p] = s.update[p]
    BY <1>1, CloseOthers
  <2>3. SamePlaces(s, t)
    BY <1>1, ClosePlaces
  <2> QED BY <1>1, <1>2, <2>1, <2>2, <2>3, DropKept
<1>3. CASE ~(~UpIn(s, s.memo.session) /\ Hits(s, ds) # {})
  <2>1. t.memo = s.memo
    BY <1>3 DEF FailedAs
  <2> QED BY <1>1, <2>1, CloseKept
<1> QED BY <1>2, <1>3

----------------------------------------------------------------------------
(* What a start goes through.                                              *)
(* Whoever waits behind one that starts waits for its directory.            *)
LEMMA BehindStarting ==
  ASSUME NEW s, Kept(s, {}), NEW d, Going(s, {}) = {d}, Starting(s, d), NEW e \in InLine(s)
  PROVE  /\ s.update[d].key = s.update[e].key /\ s.update[d].agent = s.update[e].agent
         /\ s.update[e].folder = s.update[e].key.folder \/ s.update[e].key.of \in gone
BY DEF Kept, KeptWaiting, Due

(* A row of one's own, in the directory the others wait for.                *)
LEMMA OwnDue ==
  ASSUME NEW s, NEW t, Kept(s, {}), NEW d, Going(s, {}) = {d}, Starting(s, d), NEW e \in InLine(s),
         t.update[e] = s.update[e], t.memo.agent = s.update[d].agent, t.memo.there,
         s.update[d].agent \in Agents, Is(t.memo.tree, s.update[d].key)
  PROVE  Due(t, e)
<1>1. /\ s.update[d].key = s.update[e].key /\ s.update[d].agent = s.update[e].agent
      /\ s.update[e].folder = s.update[e].key.folder \/ s.update[e].key.of \in gone
  BY BehindStarting
<1>2. Owns(t, s.update[d].agent)
  BY AgentsAre DEF Owns
<1> QED BY <1>1, <1>2 DEF Due

(* Prepared: the directory to be reused is the conversation's.              *)
LEMMA PreparedTree ==
  ASSUME NEW s, NEW t, NEW d \in Numbers, Fit(s), s.update[d].state = "preparing", PreparedAs(s, t, d),
         KeptPreparing(s, d), InLine(t) = InLine(s)
  PROVE  KeptCreating(t, d) /\ t.update[d].tree # NoTree
<1> DEFINE r == s.update[d]
<1> DEFINE q == t.update[d]
<1>1. /\ q.tree = TreeOf(r, d) /\ q.resume = (IF Keeps(r) THEN r.resume ELSE Nil)
      /\ q.folder = r.folder /\ q.key = r.key /\ q.holds = r.holds
      /\ t.memo.tree = q.tree /\ t.work = s.work
  BY DEF PreparedAs, SameWish
<1>2. FitRun(s, d)
  BY DEF Fit
<1>3. (r.resume = Nil => r.reuse = NoTree) /\ (r.holds => r.key # NoTree)
  BY <1>2 DEF FitRun
<1>4. CASE Keeps(r)
  <2>1. q.tree = r.reuse /\ q.resume = r.resume /\ r.reuse # NoTree /\ r.resume # Nil
    BY <1>1, <1>3, <1>4 DEF Keeps, TreeOf
  <2> QED BY <1>1, <2>1 DEF KeptPreparing, KeptCreating
<1>5. CASE ~Keeps(r)
  <2>1. q.tree = Tree(r.folder, d) /\ q.resume = Nil
    BY <1>1, <1>5 DEF TreeOf
  <2>2. q.tree.folder = r.folder /\ q.tree.of = d /\ q.tree # NoTree
    BY <2>1, NumbersAre DEF Tree, NoTree
  <2>3. InLine(s) # {} => r.holds /\ r.key.of \in gone
    <3>1. InLine(s) # {} => r.holds /\ Is(r.reuse, r.key)
      BY DEF KeptPreparing
    <3> QED BY <1>3, <1>5, <3>1 DEF Is, Keeps
  <2> QED BY <1>1, <2>1, <2>2, <2>3 DEF KeptCreating, Is
<1> QED BY <1>4, <1>5

(* The row is in that directory, with the conversation that is resumed.     *)
LEMMA PreparedKept ==
  ASSUME NEW s, NEW t, NEW d \in Numbers, Fit(s), s.update[d].state = "preparing",
         PreparedAs(s, t, d), Kept(s, {}), Alone(s, {})
  PROVE  Kept(t, {})
<1>1. /\ s \in States /\ t.work = s.work /\ \A e \in Numbers \ {d} : t.update[e] = s.update[e]
      /\ t.update[d].state = "creating" /\ t.update[d].session = s.update[d].session
      /\ t.update[d].id = s.update[d].id /\ t.update[d].agent = s.update[d].agent
      /\ t.update[d].key = s.update[d].key
      /\ t.memo.there /\ t.memo.agent = s.update[d].agent
      /\ t.memo.session = s.memo.session \/ t.memo.session = Nil
  BY DEF Fit, PreparedAs, SameWish
<1>2. FitRun(s, d)
  BY DEF Fit
<1>3. /\ s.update[d].session = Nil /\ s.update[d].id = Nil /\ s.update[d].tree = NoTree
      /\ s.update[d].agent \in Agents /\ d # Old /\ s.work[d] = NoWork
  BY <1>2 DEF FitRun
<1>4. Going(s, {}) = {d} /\ Starting(s, d)
  BY <1>3, AloneStarting DEF UnderWay, Starting
<1>5. Going(t, {}) = {d} /\ Starting(t, d) /\ InLine(t) = InLine(s)
  <2>1. \A e \in Numbers : UnderWay(t, e) <=> UnderWay(s, e)
    BY <1>1 DEF UnderWay, Starting
  <2>2. \A e \in Numbers : t.update[e].state = "waiting" <=> s.update[e].state = "waiting"
    BY <1>1
  <2>3. InLine(t) = InLine(s)
    BY <2>2 DEF InLine
  <2> QED BY <1>1, <1>4, <2>1, <2>3 DEF Going, Starting
<1>6. KeptPreparing(s, d)
  BY <1>4 DEF Kept, KeptOf
<1>7. KeptCreating(t, d) /\ t.update[d].tree # NoTree
  BY <1>5, <1>6, PreparedTree
<1>8. \A p \in Going(t, {}) : KeptOf(t, p)
  BY <1>1, <1>5, <1>7 DEF KeptOf
<1>9. ASSUME NEW e \in InLine(t) PROVE KeptWaiting(t, {}, e)
  <2>1. e \in InLine(s) /\ e # d /\ t.update[e] = s.update[e]
    BY <1>1, <1>5 DEF InLine
  <2>2. Is(t.memo.tree, s.update[d].key)
    BY <1>1, <1>7, <2>1, <1>5 DEF KeptCreating
  <2>3. Due(t, e)
    BY <1>1, <1>3, <1>4, <2>1, <2>2, OwnDue
  <2>4. s.update[d].key = s.update[e].key /\ s.update[d].agent = s.update[e].agent
    BY <1>4, <2>1, BehindStarting
  <2> QED BY <1>1, <1>5, <2>1, <2>3, <2>4 DEF KeptWaiting
<1>10. ASSUME NEW e \in Numbers PROVE InPlace(t, e)
  <2>1. CASE e # d
    <3>1. InPlace(s, e) /\ t.update[e] = s.update[e]
      BY <1>1, <2>1 DEF Kept
    <3> QED BY <1>1, <1>3, <3>1, PlaceStays
  <2>2. CASE e = d
    BY <1>1, <1>3, <2>2 DEF InPlace
  <2> QED BY <2>1, <2>2
<1>11. ASSUME Nameless(t) = {} PROVE RowOK(t)
  <2>1. d \notin Nameless(t) /\ UnderWay(t, d)
    BY <1>5, <1>11 DEF UnderWay
  <2>2. t.update[d].resume # Nil /\ t.memo.id = t.update[d].resume
    BY <1>1, <1>3, <1>7, <2>1 DEF Nameless
  <2>3. t.memo.tree = t.work[t.memo.id].tree
    BY <1>7, <2>2 DEF KeptCreating
  <2>4. s.update[d].resume # Nil
    BY <2>2 DEF PreparedAs
  <2>5. ~UpIn(t, t.memo.session)
    BY <1>1, <1>6, <2>4 DEF KeptPreparing, UpIn
  <2> QED BY <2>2, <2>3, <2>5 DEF RowOK
<1> QED BY <1>8, <1>9, <1>10, <1>11 DEF Kept

(* Created: the session is in the directory of the row, which is the        *)
(* delivery's own.                                                          *)
LEMMA CreatedKept ==
  ASSUME NEW s, NEW t, NEW d \in Numbers, Fit(s), s.update[d].state = "creating",
         CreatesAs(s, t, d), Kept(s, {}), Line(s, {}), Alone(s, {})
  PROVE  Kept(t, {})
<1>1. PICK id \in Ids : /\ CreatedAs(s, t, d, id) /\ (id = Nil \/ id = t.work[d].id)
                        /\ s.update[d].resume # Nil => id # Nil
  BY DEF CreatesAs
<1>2. FitRun(s, d) /\ s \in States
  BY DEF Fit
<1>3. /\ s.update[d].session = Nil /\ s.update[d].agent \in Agents /\ d # Old /\ s.work[d] = NoWork
      /\ s.update[d].tree # NoTree /\ d # Nil /\ s.update[d].resume \in Ids
  BY <1>2, NumbersAre DEF FitRun, States, Runs
<1>4. Going(s, {}) = {d} /\ Starting(s, d)
  BY <1>3, AloneStarting DEF UnderWay, Starting
<1>5. KeptCreating(s, d) /\ s.memo.there /\ s.memo.agent = s.update[d].agent
  BY <1>4 DEF Kept, KeptOf, Line, LineOf, LineCreating
<1>6. Owns(s, s.update[d].agent)
  BY <1>3, <1>5, AgentsAre DEF Owns
<1>7. /\ \A e \in Numbers \ {d} : t.update[e] = s.update[e]
      /\ \A n \in Numbers \ {d} : t.work[n] = s.work[n]
      /\ t.update[d].state = "running" /\ t.update[d].session = d /\ t.update[d].id = id
      /\ t.update[d].resume = s.update[d].resume
      /\ t.update[d].folder = s.update[d].folder /\ t.update[d].key = s.update[d].key
      /\ t.update[d].tree = s.update[d].tree
  BY <1>1 DEF CreatedAs, SameWork, SameWish
<1>8. /\ t.work[d].up /\ t.work[d].tree = s.update[d].tree
      /\ t.work[d].id = (IF s.update[d].resume = Nil THEN d ELSE s.update[d].resume)
      /\ t.memo.there /\ t.memo.agent = s.update[d].agent /\ t.memo.session = d
      /\ t.memo.tree = s.update[d].tree
      /\ id # Nil => t.memo.id = id
  BY <1>1, <1>5, <1>6 DEF CreatedAs, KeptCreating
<1>9. Going(t, {}) = {d} /\ UnderWay(t, d) /\ InLine(t) = InLine(s)
  <2>1. \A e \in Numbers : UnderWay(t, e) <=> UnderWay(s, e)
    BY <1>7 DEF UnderWay, Starting
  <2>2. \A e \in Numbers : t.update[e].state = "waiting" <=> s.update[e].state = "waiting"
    BY <1>7
  <2>3. InLine(t) = InLine(s)
    BY <2>2 DEF InLine
  <2> QED BY <1>4, <1>7, <2>1, <2>3 DEF Going, UnderWay
<1>10. \A p \in Going(t, {}) : KeptOf(t, p)
  <2>1. t.memo.id # t.work[d].id => t.update[d].id = Nil
    BY <1>1, <1>7, <1>8
  <2> QED BY <1>7, <1>8, <1>9, <2>1 DEF KeptOf, KeptRunning
<1>11. ASSUME NEW e \in InLine(t) PROVE KeptWaiting(t, {}, e)
  <2>1. e \in InLine(s) /\ e # d /\ t.update[e] = s.update[e]
    BY <1>7, <1>9 DEF InLine
  <2>2. Is(t.memo.tree, s.update[d].key)
    BY <1>5, <1>8, <2>1 DEF KeptCreating
  <2>3. Due(t, e)
    BY <1>3, <1>4, <1>8, <2>1, <2>2, OwnDue
  <2> QED BY <1>7, <1>9, <2>3 DEF KeptWaiting, Starting
<1>12. t.work[d].tree = t.work[t.work[d].id].tree
  <2>1. CASE s.update[d].resume = Nil
    BY <1>8, <2>1
  <2>2. CASE s.update[d].resume # Nil
    <3>1. s.update[d].tree = s.work[s.update[d].resume].tree
      BY <1>5, <2>2 DEF KeptCreating
    <3>2. s.update[d].resume \in Numbers \ {d}
      <4>1. s.work[d].tree = NoTree
        BY <1>3 DEF NoWork
      <4>2. s.update[d].resume # d
        BY <1>3, <3>1, <4>1
      <4> QED BY <1>3, <2>2, <4>2, NumbersAre
    <3> QED BY <1>7, <1>8, <2>2, <3>1, <3>2
  <2> QED BY <2>1, <2>2
<1>13. ASSUME NEW e \in Numbers PROVE InPlace(t, e)
  <2>1. CASE e # d
    <3>1. InPlace(s, e) /\ t.update[e] = s.update[e]
      BY <1>7, <2>1 DEF Kept
    <3>2. \A n \in Numbers \ {d} : t.work[n].tree = s.work[n].tree /\ t.work[n].id = s.work[n].id
      BY <1>7, Zenon
    <3> QED BY <1>3, <3>1, <3>2, PlaceStays
  <2>2. CASE e = d
    <3>1. /\ s.update[d].tree.folder = s.update[d].folder
          /\ s.update[d].key # NoTree => s.update[d].tree.of = d \/ Is(s.update[d].tree, s.update[d].key)
      BY <1>5 DEF KeptCreating
    <3> QED BY <1>7, <1>8, <1>12, <2>2, <3>1 DEF InPlace, Is
  <2> QED BY <2>1, <2>2
<1>14. ASSUME Nameless(t) = {} PROVE RowOK(t)
  <2>1. d \notin Nameless(t) /\ t.update[d].tree # NoTree
    BY <1>3, <1>7, <1>14
  <2>2. id # Nil
    BY <1>1, <1>7, <1>9, <2>1 DEF Nameless
  <2>3. t.memo.id = t.work[d].id /\ t.memo.id # Nil
    BY <1>1, <1>8, <2>2
  <2> QED BY <1>8, <1>12, <2>3 DEF RowOK
<1> QED BY <1>10, <1>11, <1>13, <1>14 DEF Kept

(* session_started: the row's session has the row's directory, and so has   *)
(* its conversation.                                                        *)
LEMMA AnnouncedKept ==
  ASSUME NEW s, NEW t, NEW n \in Numbers, Fit(s), s.work[n].up, AnnouncedAs(s, t, n),
         Kept(s, {}), Line(s, {}), Alone(s, {})
  PROVE  Kept(t, {})
<1>1. PICK f \in s.work[n].watchers :
          LET a == s.update[f].agent IN
          /\ t.memo.there /\ t.memo.agent = a /\ t.memo.id = s.work[n].id
          /\ t.memo.tree = IF Owns(s, a) THEN s.memo.tree ELSE Tree(s.update[f].folder, Nil)
  BY DEF AnnouncedAs
<1>2. t.memo.session = n
  BY AnnouncedLine
<1>3. /\ s.work[n].watchers \subseteq Numbers
      /\ \A d \in s.work[n].watchers : s.update[d].state = "running" /\ s.update[d].session = n
  BY WatchersAre
<1>4. f \in Numbers /\ s.update[f].state = "running" /\ s.update[f].session = n /\ FitRun(s, f) /\ f \in Going(s, {})
  BY <1>1, <1>3 DEF Fit, Going, UnderWay
<1>5. UpIn(s, n) /\ n # Nil
  BY NumbersAre DEF UpIn
<1>6. /\ s.memo.there /\ s.memo.agent = s.update[f].agent /\ s.memo.tree = s.work[n].tree
      /\ s.update[f].agent \in Agents
  BY <1>4, <1>5 DEF Line, LineOf, LineRunning, Kept, KeptOf, KeptRunning, FitRun
<1>7. t.memo.tree = s.memo.tree /\ t.memo.agent = s.memo.agent /\ s.memo.agent # Unknown
  <2>1. Owns(s, s.update[f].agent)
    BY <1>6, AgentsAre DEF Owns
  <2> QED BY <1>1, <1>6, <2>1, AgentsAre
<1>8. /\ t.work = s.work /\ s \in States
      /\ \A d \in Numbers \ s.work[n].watchers : t.update[d] = s.update[d]
      /\ \A d \in s.work[n].watchers : HeardAs(s.update[d], t.update[d], s.work[n].id)
  BY DEF AnnouncedAs, Fit
<1>9. \A d \in Numbers : /\ t.update[d].state = s.update[d].state /\ t.update[d].session = s.update[d].session
                         /\ t.update[d].folder = s.update[d].folder /\ t.update[d].key = s.update[d].key
  BY <1>8 DEF HeardAs, SameWish
<1>10. Going(t, {}) = Going(s, {}) /\ InLine(t) = InLine(s)
  BY <1>9 DEF Going, UnderWay, Starting, InLine
<1>11. ASSUME NEW p \in Going(s, {}) PROVE t.update[p].state = "running" /\ t.update[p].session = n
  BY <1>4, <1>9, AloneRunning DEF Going
<1>12. \A p \in Going(t, {}) : KeptOf(t, p)
  BY <1>1, <1>6, <1>7, <1>8, <1>10, <1>11 DEF KeptOf, KeptRunning
<1>13. ASSUME NEW e \in InLine(t) PROVE KeptWaiting(t, {}, e)
  <2>1. e \in InLine(s) /\ t.update[e] = s.update[e]
    BY <1>3, <1>8, <1>10 DEF InLine
  <2>2. Due(s, e)
    BY <2>1 DEF Kept, KeptWaiting
  <2>3. SameOwner(s, t)
    BY <1>1, <1>6, <1>7, SameOwnerIs
  <2>4. Due(t, e)
    BY <1>6, <1>7, <2>1, <2>2, <2>3, DueStays
  <2> QED BY <1>10, <1>11, <2>4 DEF KeptWaiting, Starting
<1>14. \A d \in Numbers : InPlace(t, d)
  <2>1. SameTrees(s, t)
    BY <1>8 DEF SameTrees
  <2>2. SamePlaces(s, t)
    BY <1>9 DEF SamePlaces
  <2> QED BY <2>1, <2>2, InPlaceStays DEF Kept
<1>15. RowOK(t)
  <2>1. s.update[n].session = n
    BY <1>4, <1>5, SessionIs
  <2>2. s.work[n].id \in Numbers /\ s.work[n].id # Nil
    BY <1>4, <1>5, SessionIs, NumbersAre
  <2>3. s.work[n].tree = s.work[s.work[n].id].tree
    BY <1>5, <2>1 DEF Kept, InPlace
  <2> QED BY <1>1, <1>2, <1>6, <1>7, <1>8, <2>2, <2>3 DEF RowOK
<1> QED BY <1>12, <1>13, <1>14, <1>15 DEF Kept

----------------------------------------------------------------------------
(* Arrivals.                                                               *)
\* Delivery d goes by the row's conversation.
Wanted(s, d) == LET r == s.update[d] IN
    /\ r.agent \in CodingAgents /\ Owns(s, r.agent)
    /\ r.key = s.memo.tree /\ s.memo.tree.folder = r.folder

(* It can expect the row's directory.                                       *)
LEMMA WantedDue ==
  ASSUME NEW s, NEW d, Wanted(s, d)
  PROVE  Due(s, d) /\ Known(s)
<1>1. Known(s)
  BY OwnerKnown, AgentsAre DEF Wanted
<1> QED BY <1>1 DEF Wanted, Due, Is

(* queueKeyFor: a new delivery's directory is that of the conversation.     *)
LEMMA ArrivedKept ==
  ASSUME NEW s, NEW t, NEW d \in Numbers, NEW p \in Wishes, NEW key, Fit(s), s.update[d].state = "none",
         ArrivedAs(s, t, d, p, routed, key), key = KeyFor(s, p), Kept(s, {})
  PROVE  /\ Kept(t, {}) /\ Nameless(t) = Nameless(s)
         /\ key # NoTree => Wanted(t, d)
<1>1. /\ t.memo = s.memo /\ t.work = s.work /\ t.update[d].state = "none" /\ t.update[d].session = Nil
      /\ t.update[d].agent = p.agent /\ t.update[d].folder = routed /\ t.update[d].key = key
      /\ \A e \in Numbers \ {d} : t.update[e] = s.update[e]
      /\ t \in States
  BY DEF ArrivedAs
<1>2. s \in States /\ s.update[d].session = Nil
  BY DEF Fit, FitRun
<1>3. LastAgent(t) = LastAgent(s)
  <2>1. Ended(s) = Ended(t) /\ \A e \in Ended(s) : t.update[e].agent = s.update[e].agent
    BY <1>1 DEF Ended
  <2> QED BY <1>1, <1>2, <2>1, LastAgentStays
<1>4. SameOwner(s, t)
  BY <1>1, <1>3, SameOwnerIs
<1>5. SameTrees(s, t)
  BY <1>1 DEF SameTrees
<1>6. SamePlaces(s, t)
  BY <1>1, <1>2 DEF SamePlaces
<1>7. /\ \A e \in Numbers : UnderWay(t, e) <=> UnderWay(s, e)
      /\ ~UnderWay(s, d) /\ ~UnderWay(t, d)
  BY <1>1 DEF UnderWay, Starting
<1>8. Going(t, {}) = Going(s, {}) /\ InLine(t) = InLine(s) /\ d \notin Going(s, {}) /\ d \notin InLine(s)
  BY <1>1, <1>7 DEF Going, InLine
<1>9. \A e \in Going(t, {}) \cup InLine(t) : t.update[e] = s.update[e]
  BY <1>1, <1>8 DEF Going, InLine
<1>10. Nameless(t) = Nameless(s)
  <2>1. \A e \in Numbers \ {d} : e \in Nameless(t) <=> e \in Nameless(s)
    BY <1>1, <1>7 DEF Nameless
  <2>2. d \notin Nameless(t) /\ d \notin Nameless(s)
    BY <1>7 DEF Nameless
  <2>3. Nameless(t) \subseteq Numbers /\ Nameless(s) \subseteq Numbers
    BY DEF Nameless
  <2> QED BY <2>1, <2>2, <2>3
<1>11. \A n \in Nameless(s) : UnderWay(t, n) /\ t.update[n] = s.update[n]
  BY <1>1, <1>7 DEF Nameless
<1>12. Kept(t, {})
  BY <1>1, <1>4, <1>5, <1>6, <1>8, <1>9, <1>11, KeptStays
<1>13. ASSUME key # NoTree PROVE Wanted(t, d)
  <2>1. p.agent \in CodingAgents /\ Owns(s, p.agent) /\ s.memo.tree.folder = routed /\ key = s.memo.tree
    BY <1>13 DEF KeyFor
  <2>2. Owns(t, p.agent)
    BY <1>1, <1>3, <2>1 DEF Owns
  <2> QED BY <1>1, <2>1, <2>2 DEF Wanted
<1> QED BY <1>10, <1>12, <1>13

(* Somebody starts, and a tree is not free: it is granted to him.            *)
LEMMA HolderIs ==
  ASSUME NEW s, Fit(s), NEW key, ~Free(s, key), Alone(s, {}), NEW p \in Going(s, {}), Starting(s, p)
  PROVE  s.update[p].holds /\ s.update[p].key = key /\ Going(s, {}) = {p}
<1>1. p \in Numbers /\ UnderWay(s, p) /\ s.update[p].session = Nil
  BY DEF Going, UnderWay, Starting, Fit, FitRun
<1>2. Going(s, {}) = {p}
  BY <1>1, AloneStarting
<1>3. CASE \E e \in Numbers : s.update[e].holds /\ s.update[e].key = key
  <2>1. PICK e \in Numbers : s.update[e].holds /\ s.update[e].key = key
    BY <1>3
  <2>2. e \in Going(s, {})
    BY <2>1 DEF Fit, FitRun, Going, UnderWay, Starting
  <2> QED BY <1>2, <2>1, <2>2
<1>4. CASE \E n \in Numbers : s.work[n].up /\ s.work[n].busy /\ s.work[n].tree = key
  <2>1. PICK n \in Numbers : s.work[n].up /\ s.work[n].busy
    BY <1>4
  <2>2. PICK e \in s.work[n].watchers : TRUE
    BY <2>1 DEF Fit, FitWork
  <2>3. e \in Numbers /\ s.update[e].state = "running"
    BY <2>2, WatchersAre
  <2>4. e \in Going(s, {})
    BY <2>3 DEF Going, UnderWay
  <2> QED BY <1>2, <2>3, <2>4 DEF Starting
<1> QED BY <1>2, <1>3, <1>4 DEF Free

(* Whoever starts while another would have his directory is of the same     *)
(* agent, and starts there.                                                 *)
LEMMA BehindHolder ==
  ASSUME NEW s, Fit(s), Alone(s, {}), Kept(s, {}), Line(s, {}), NEW d, Wanted(s, d),
         ~Free(s, s.update[d].key), NEW p \in Going(s, {}), Starting(s, p)
  PROVE  /\ s.update[p].holds /\ s.update[p].key = s.update[d].key /\ s.update[p].agent = s.update[d].agent
         /\ s.update[p].state = "preparing" => Is(s.update[p].reuse, s.update[p].key)
         /\ s.update[p].state = "creating" => Is(s.update[p].tree, s.update[p].key)
<1>1. s.update[p].holds /\ s.update[p].key = s.update[d].key
  BY HolderIs
<1>2. Known(s) /\ Due(s, d) /\ Owns(s, s.update[d].agent)
  BY WantedDue DEF Wanted
<1>3. CASE s.update[p].state = "preparing"
  <2>1. Owns(s, s.update[p].agent) /\ Is(s.update[p].reuse, s.update[p].key)
    BY <1>1, <1>2, <1>3 DEF Kept, KeptOf, KeptPreparing
  <2> QED BY <1>1, <1>2, <1>3, <2>1, OneOwner
<1>4. CASE s.update[p].state = "creating"
  <2>1. s.memo.there /\ s.memo.agent = s.update[p].agent /\ s.memo.tree = s.update[p].tree
    BY <1>4 DEF Kept, KeptOf, KeptCreating, Line, LineOf, LineCreating
  <2>2. p \in Numbers /\ FitRun(s, p)
    BY DEF Fit, Going
  <2>3. s.update[p].agent \in Agents
    BY <1>4, <2>2 DEF FitRun
  <2>4. Owns(s, s.update[p].agent)
    BY <2>1, <2>3, AgentsAre DEF Owns
  <2>5. Is(s.update[p].tree, s.update[p].key)
    BY <1>1, <1>2, <2>1 DEF Due
  <2> QED BY <1>1, <1>2, <1>4, <2>4, <2>5, OneOwner
<1> QED BY <1>3, <1>4 DEF Starting

(* One that waits can expect the directory, as the one it is merged into    *)
(* could.                                                                   *)
LEMMA ParkedKept ==
  ASSUME NEW s, NEW t, NEW d \in Numbers, Fit(s), s.update[d].state = "none", ParkedAs(s, t, d),
         Kept(s, {}), Line(s, {}), Alone(s, {}), Wanted(s, d), ~Free(s, s.update[d].key)
  PROVE  Kept(t, {})
<1>0. s \in States /\ t \in States
  BY DEF Fit, ParkedAs
<1>1. /\ t.memo = s.memo /\ t.work = s.work
      /\ \A e \in Numbers \ ({d} \cup InLine(s)) : t.update[e] = s.update[e]
  BY DEF ParkedAs
<1>2. Waits(s.update[d], t.update[d], IF InLine(s) = {} THEN "waiting" ELSE "skipped", s.update[d].agent, s.update[d].folder)
  BY DEF ParkedAs
<1>3. \A e \in InLine(s) : Waits(s.update[e], t.update[e], "waiting", s.update[d].agent, s.update[d].folder)
  BY DEF ParkedAs
<1>4. d \notin InLine(s) /\ InLine(s) \subseteq Numbers /\ \A e \in InLine(s) : s.update[e].state = "waiting"
  BY DEF InLine
<1>5. \A e \in Numbers : e \notin {d} \cup InLine(s) \/ (~UnderWay(s, e) /\ ~UnderWay(t, e) /\ s.update[e].session = Nil
                                                          /\ t.update[e].session = Nil)
  <2> SUFFICES ASSUME NEW e \in Numbers, e \in {d} \cup InLine(s)
               PROVE  ~UnderWay(s, e) /\ ~UnderWay(t, e) /\ s.update[e].session = Nil /\ t.update[e].session = Nil
    OBVIOUS
  <2>1. s.update[e].state \in {"none", "waiting"} /\ FitRun(s, e)
    BY <1>4 DEF Fit
  <2>2. s.update[e].session = Nil
    BY <2>1 DEF FitRun
  <2>3. t.update[e].state \in {"waiting", "skipped"} /\ t.update[e].session = s.update[e].session
    BY <1>2, <1>3 DEF Waits
  <2> QED BY <2>1, <2>2, <2>3 DEF UnderWay, Starting
<1>6. \A e \in Numbers : UnderWay(t, e) \/ UnderWay(s, e) => t.update[e] = s.update[e]
  BY <1>1, <1>5
<1>7. \A e \in Numbers : UnderWay(t, e) <=> UnderWay(s, e)
  BY <1>6 DEF UnderWay, Starting
<1>8. Going(t, {}) = Going(s, {}) /\ \A p \in Going(s, {}) : p \in Numbers /\ t.update[p] = s.update[p]
  BY <1>6, <1>7 DEF Going
<1>9. LastAgent(t) = LastAgent(s)
  <2>1. \A e \in Numbers : e \in {d} \cup InLine(s) =>
            /\ s.update[e].state \in {"none", "waiting"} /\ t.update[e].state \in {"waiting", "skipped"}
    BY <1>2, <1>3, <1>4 DEF Waits
  <2>2. Ended(s) = Ended(t) /\ \A e \in Ended(s) : t.update[e] = s.update[e]
    BY <1>1, <2>1 DEF Ended
  <2> QED BY <1>0, <2>2, LastAgentStays
<1>10. (Known(t) <=> Known(s)) /\ \A a : Owns(t, a) <=> Owns(s, a)
  BY <1>1, <1>9 DEF Known, Owns
<1>11. SameTrees(s, t)
  BY <1>1 DEF SameTrees
<1>12. SamePlaces(s, t)
  BY <1>1, <1>5 DEF SamePlaces
<1>13. ASSUME NEW p \in Going(t, {}) PROVE KeptOf(t, p)
  <2>1. p \in Numbers /\ KeptOf(s, p) /\ t.update[p] = s.update[p] /\ p \in Going(s, {})
    BY <1>8 DEF Kept
  <2>2. CASE s.update[p].state = "preparing"
    <3>1. KeptPreparing(s, p) /\ Starting(s, p)
      BY <2>1, <2>2 DEF KeptOf, Starting
    <3>2. s.update[p].holds /\ Is(s.update[p].reuse, s.update[p].key)
      BY <2>1, <2>2, <3>1, BehindHolder
    <3> QED BY <1>1, <1>10, <2>1, <2>2, <3>1, <3>2 DEF KeptOf, KeptPreparing, UpIn
  <2>3. CASE s.update[p].state = "creating"
    <3>1. KeptCreating(s, p) /\ Starting(s, p)
      BY <2>1, <2>3 DEF KeptOf, Starting
    <3>2. s.update[p].holds /\ Is(s.update[p].tree, s.update[p].key)
      BY <2>1, <2>3, <3>1, BehindHolder
    <3> QED BY <1>1, <2>1, <2>3, <3>1, <3>2 DEF KeptOf, KeptCreating
  <2>4. CASE s.update[p].state = "running"
    <3>1. KeptRunning(s, p)
      BY <2>1, <2>4 DEF KeptOf
    <3>2. PICK n : n = s.update[p].session
      OBVIOUS
    <3>3. UpIn(s, n) => n \in Numbers
      BY <1>0, <2>1, <3>2, NumbersAre DEF UpIn, States, Runs
    <3>4. UpIn(s, n) /\ UnderWay(s, n) => UnderWay(t, n) /\ t.update[n] = s.update[n]
      BY <1>6, <1>7, <3>3
    <3>5. UpIn(t, n) <=> UpIn(s, n)
      BY <1>1 DEF UpIn
    <3>6. KeptRunning(t, p)
      BY <1>1, <2>1, <3>1, <3>2, <3>4, <3>5 DEF KeptRunning
    <3> QED BY <2>1, <2>4, <3>6 DEF KeptOf
  <2> QED BY <2>1, <2>2, <2>3, <2>4 DEF KeptOf
<1>14. Due(s, d) /\ Known(s) /\ Owns(s, s.update[d].agent) /\ s.memo.there
       /\ s.update[d].key = s.memo.tree /\ s.memo.tree.folder = s.update[d].folder
  BY WantedDue DEF Wanted, Known
<1>15. ASSUME NEW e \in InLine(t) PROVE KeptWaiting(t, {}, e)
  <2>1. CASE e = d
    <3>1. t.update[d].key = s.update[d].key /\ t.update[d].agent = s.update[d].agent /\ t.update[d].folder = s.update[d].folder
      BY <1>2 DEF Waits
    <3>2. Due(t, d)
      BY <1>1, <1>10, <1>14, <3>1 DEF Due
    <3>3. ASSUME NEW p \in Going(t, {}), Starting(t, p)
          PROVE  t.update[p].key = t.update[d].key /\ t.update[p].agent = t.update[d].agent
      <4>1. p \in Going(s, {}) /\ Starting(s, p) /\ t.update[p] = s.update[p]
        BY <1>8, <3>3 DEF Starting
      <4> QED BY <3>1, <4>1, BehindHolder
    <3> QED BY <2>1, <3>2, <3>3 DEF KeptWaiting
  <2>2. CASE e # d
    <3>1. e \in InLine(s)
      BY <1>1, <2>2 DEF InLine
    <3>2. t.update[e].key = s.update[e].key /\ t.update[e].agent = s.update[d].agent /\ t.update[e].folder = s.update[d].folder
      BY <1>3, <3>1 DEF Waits
    <3>3. KeptWaiting(s, {}, e)
      BY <3>1 DEF Kept
    <3>4. Is(s.memo.tree, s.update[e].key)
      BY <1>14, <3>3 DEF KeptWaiting, Due
    <3>5. Due(t, e)
      BY <1>1, <1>10, <1>14, <3>2, <3>4 DEF Due, Is
    <3>6. ASSUME NEW p \in Going(t, {}), Starting(t, p)
          PROVE  t.update[p].key = t.update[e].key /\ t.update[p].agent = t.update[e].agent
      <4>1. p \in Going(s, {}) /\ Starting(s, p) /\ t.update[p] = s.update[p]
        BY <1>8, <3>6 DEF Starting
      <4>2. s.update[p].key = s.update[e].key
        BY <3>3, <4>1 DEF KeptWaiting
      <4>3. s.update[p].agent = s.update[d].agent
        BY <4>1, BehindHolder
      <4> QED BY <3>2, <4>1, <4>2, <4>3
    <3> QED BY <3>5, <3>6 DEF KeptWaiting
  <2> QED BY <2>1, <2>2
<1>16. \A e \in Numbers : InPlace(t, e)
  BY <1>11, <1>12, InPlaceStays DEF Kept
<1>17. Nameless(t) = {} => RowOK(t)
  <2>1. \A n \in Nameless(s) : n \in Nameless(t)
    BY <1>1, <1>6, <1>7 DEF Nameless
  <2>2. RowOK(s) => RowOK(t)
    BY <1>0, <1>1, <1>11, RowOKStays
  <2> QED BY <2>1, <2>2 DEF Kept
<1> QED BY <1>13, <1>15, <1>16, <1>17 DEF Kept

(* dispatch: unless two are then under way side by side, whatever starts     *)
(* starts in its place, and whatever waits waits for it.                    *)
LEMMA ArrivesKept ==
  ASSUME NEW s, NEW t, NEW d \in Numbers, NEW key, Fit(s), ArrivesAs(s, t, d, key),
         Kept(s, {}), Line(s, {}), Served(s), Alone(s, {}), Alone(t, {})
  PROVE  Kept(t, {})
<1>1. PICK p \in Wishes, f \in Folders, came \in States :
        /\ s.update[d].state = "none" /\ key = KeyFor(s, p) /\ f = routed
        /\ ArrivedAs(s, came, d, p, f, key) /\ Fit(came)
        /\ \/ \E h \in BOOLEAN : Ready(came, d, h) /\ Start(came, t, d, h)
           \/ key # NoTree /\ ~Free(s, key) /\ ParkedAs(came, t, d)
  BY DEF ArrivesAs
<1>2. Line(came, {}) /\ Going(came, {}) = Going(s, {}) /\ InLine(came) = InLine(s)
  BY <1>1, ArrivedLine
<1>3. /\ came.memo = s.memo /\ came.work = s.work /\ came.update[d].state = "none"
      /\ came.update[d].key = key /\ came.update[d].session = Nil
      /\ \A e \in Numbers \ {d} : came.update[e] = s.update[e]
      /\ d \notin Going(s, {})
  BY <1>1 DEF ArrivedAs, Going, UnderWay, Starting
<1>4. Kept(came, {}) /\ Nameless(came) = Nameless(s) /\ (key # NoTree => Wanted(came, d))
  <2>1. ArrivedAs(s, came, d, p, routed, key)
    BY <1>1
  <2>2. s.update[d].state = "none" /\ key = KeyFor(s, p) /\ p \in Wishes
    BY <1>1
  <2> QED BY <2>1, <2>2, ArrivedKept
<1>5. CASE \E h \in BOOLEAN : Ready(came, d, h) /\ Start(came, t, d, h)
  <2>1. PICK h \in BOOLEAN : Ready(came, d, h) /\ Start(came, t, d, h)
    BY <1>5
  <2>2. Going(t, {}) \ {d} = Going(came, {}) /\ t.update[d].state # "creating"
    BY <1>1, <2>1, StartOthers
  <2>3. Fit(t)
    BY <1>1, <2>1, StartFit
  <2>4. ASSUME UnderWay(t, d), t.update[d].session = Nil PROVE InLine(came) \subseteq {d}
    <3>1. Going(t, {}) = {d}
      BY <2>3, <2>4, AloneStarting
    <3>2. Going(s, {}) = {}
      BY <1>2, <1>3, <2>2, <3>1
    <3> QED BY <1>2, <3>2 DEF Served
  <2>5. InLine(came) \subseteq {d} \/ AsFollowUp(came, t, d) \/ AsRefused(came, t, d)
    <3>1. CASE AsNew(came, t, d, h)
      BY <1>3, <2>4, <3>1 DEF AsNew, UnderWay, Starting
    <3>2. CASE AsChat(came, t, d)
      BY <1>3, <2>4, <3>2 DEF AsChat, UnderWay
    <3> QED BY <2>1, <3>1, <3>2 DEF Start
  <2>6. came.update[d].key # NoTree => Due(came, d)
    BY <1>3, <1>4, WantedDue
  <2>7. Nameless(came) \cap {} = {} /\ d \notin {}
    OBVIOUS
  <2> QED BY <1>1, <1>4, <2>1, <2>5, <2>6, <2>7, StartKept
<1>6. CASE key # NoTree /\ ~Free(s, key) /\ ParkedAs(came, t, d)
  <2>1. ~Free(came, key)
    <3>1. ~s.update[d].holds
      BY <1>1 DEF Fit, FitRun
    <3> QED BY <1>3, <1>6, <3>1 DEF Free
  <2>2. \A e \in Going(s, {}) : came.update[e] = s.update[e]
    BY <1>3 DEF Going
  <2>3. Alone(came, {})
    BY <1>2, <2>2 DEF Alone
  <2> QED BY <1>1, <1>2, <1>3, <1>4, <1>6, <2>1, <2>3, ParkedKept
<1> QED BY <1>1, <1>5, <1>6

----------------------------------------------------------------------------
(* Endings, once more.                                                     *)
\* No delivery strays from s to t.
NoneStrays(s, t) == \A d \in Nameless(s) : UnderWay(t, d)

(* The pump leaves the row without an agent only as it was.                  *)
LEMMA PumpAgent ==
  ASSUME NEW s, NEW t, Fit(s), PumpAs(s, t), s.memo.agent # Unknown
  PROVE  t.memo.agent # Unknown
<1>1. CASE t = s
  BY <1>1
<1>2. CASE t # s
  <2>1. PICK d \in InLine(s) : Ready(s, d, TRUE) /\ Start(s, t, d, TRUE)
    BY <1>2 DEF PumpAs
  <2>2. s.update[d].agent # Unknown
    BY <2>1, AgentsAre DEF Ready
  <2>3. t.memo.agent = s.memo.agent \/ t.memo.agent = s.update[d].agent
    BY <2>1 DEF Start, AsFollowUp, AsNew, AsChat, AsRefused
  <2> QED BY <2>2, <2>3
<1> QED BY <1>1, <1>2

(* The row of a session that is up is that of an agent.                     *)
LEMMA RunningAgent ==
  ASSUME NEW s, Fit(s), Line(s, {}), NEW f \in Numbers, s.update[f].state = "running", UpIn(s, s.update[f].session)
  PROVE  s.memo.agent # Unknown /\ s.memo.there /\ s.memo.session = s.update[f].session
<1>1. LineRunning(s, f) /\ FitRun(s, f)
  BY DEF Line, LineOf, Going, UnderWay, Fit
<1>2. s.update[f].agent \in Agents
  BY <1>1 DEF FitRun
<1> QED BY <1>1, <1>2, AgentsAre DEF LineRunning

(* Those that are settled leave the others side by side or not.             *)
LEMMA AloneBefore ==
  ASSUME NEW s, NEW t, NEW ds \in SUBSET Numbers, NEW how \in {"succeeded", "failed"},
         CloseAs(s, t, ds, how), t.work = s.work, Alone(t, {})
  PROVE  Alone(s, ds)
<1>1. Going(t, {}) = Going(s, ds) /\ \A p \in Going(s, ds) : t.update[p] = s.update[p]
  BY CloseOthers
<1> QED BY <1>1 DEF Alone

(* The pump starts one at most.                                             *)
LEMMA PumpOne ==
  ASSUME NEW s, NEW t, Fit(s), PumpAs(s, t), NEW X, Going(s, X) = {}
  PROVE  Alone(t, X)
<1>1. CASE t = s
  BY <1>1 DEF Alone
<1>2. CASE t # s
  <2>1. PICK d \in InLine(s) : Ready(s, d, TRUE) /\ Start(s, t, d, TRUE)
    BY <1>2 DEF PumpAs
  <2>2. \A Z : Going(t, Z) \ {d} = Going(s, Z)
    <3>1. PICK h : h = TRUE
      OBVIOUS
    <3>2. Ready(s, d, h) /\ Start(s, t, d, h)
      BY <2>1, <3>1
    <3> QED BY <3>2, StartOthers
  <2>3. Going(t, X) \subseteq {d}
    BY <2>2
  <2> QED BY <2>3 DEF Alone
<1> QED BY <1>1, <1>2

(* A turn or a session is over, and the pump has run.                       *)
LEMMA QuietKept ==
  ASSUME NEW s, NEW y, NEW u, NEW n \in Numbers, NEW up, Fit(s), s.work[n].up, Line(s, {}), Kept(s, {}),
         SilentAs(s, y, n, up), Fit(y), PumpAs(y, u),
         NEW W, W = s.work[n].watchers, Nameless(s) \cap W = {}, Alone(u, W)
  PROVE  /\ Kept(u, W) /\ Nameless(u) = Nameless(s) /\ Settles(u, W)
         /\ W # {} => u.memo.agent # Unknown
<1>1. W \in SUBSET Numbers /\ \A d \in W : s.update[d].state = "running" /\ s.update[d].session = n
  BY WatchersAre
<1>2. Kept(y, {}) /\ Nameless(y) = Nameless(s) /\ InLine(y) = InLine(s) /\ y.memo = s.memo
  BY SilentKept DEF SilentAs
<1>3. {} \subseteq W
  OBVIOUS
<1>4. Kept(y, W)
  BY <1>2, <1>3, KeptLess
<1>5. W \cap InLine(y) = {}
  BY <1>1, <1>2 DEF InLine
<1>6. Kept(u, W) /\ Nameless(u) = Nameless(s)
  BY <1>2, <1>4, <1>5, PumpKept
<1>7. ASSUME W # {} PROVE u.memo.agent # Unknown
  <2>1. PICK f \in W : TRUE
    BY <1>7
  <2>2. f \in Numbers /\ s.update[f].state = "running" /\ UpIn(s, s.update[f].session)
    BY <1>1, <2>1, NumbersAre DEF UpIn
  <2>3. s.memo.agent # Unknown
    BY <2>2, RunningAgent
  <2> QED BY <1>2, <2>3, PumpAgent
<1> QED BY <1>6, <1>7 DEF Settles

(* Then those that listened are settled.                                    *)
LEMMA EndKept ==
  ASSUME NEW s, NEW y, NEW u, NEW t, NEW n \in Numbers, NEW up, Fit(s), s.work[n].up, up => s.work[n].up,
         Line(s, {}), Kept(s, {}), Alone(s, {}),
         SilentAs(s, y, n, up), Fit(y), Fit(u), PumpAs(y, u),
         NEW W, W = s.work[n].watchers,
         t = u \/ ClosedAs(u, t, W, "succeeded") \/ FailedAs(u, t, W),
         Alone(t, {}), NoneStrays(s, t)
  PROVE  Kept(t, {})
<1>1. W \in SUBSET Numbers /\ \A d \in W : s.update[d].state = "running"
  BY WatchersAre
<1>2. CASE t = u
  <2>1. Kept(y, {}) /\ Nameless(y) = Nameless(s)
    BY SilentKept
  <2>2. {} \cap InLine(y) = {} /\ Nameless(y) \cap {} = {}
    OBVIOUS
  <2> QED BY <1>2, <2>1, <2>2, PumpKept
<1>3. ASSUME NEW how \in {"succeeded", "failed"}, CloseAs(u, t, W, how), t.work = u.work
      PROVE  Nameless(s) \cap W = {} /\ Alone(u, W)
  <2>1. Alone(u, W)
    BY <1>1, <1>3, AloneBefore
  <2>2. \A d \in W : ~UnderWay(t, d)
    BY <1>3 DEF CloseAs, OverAs, UnderWay, Starting
  <2> QED BY <2>1, <2>2 DEF NoneStrays
<1>4. CASE ClosedAs(u, t, W, "succeeded")
  <2>1. CloseAs(u, t, W, "succeeded") /\ t.work = u.work /\ t.memo = u.memo /\ t \in States
    BY <1>4 DEF ClosedAs
  <2>2. Nameless(s) \cap W = {} /\ Alone(u, W)
    BY <1>3, <2>1
  <2>3. Kept(u, W) /\ Nameless(u) = Nameless(s) /\ Settles(u, W)
    BY <2>2, QuietKept
  <2> QED BY <1>1, <2>1, <2>2, <2>3, CloseKept
<1>5. CASE FailedAs(u, t, W)
  <2>1. CloseAs(u, t, W, "failed") /\ t.work = u.work
    BY <1>5 DEF FailedAs
  <2>2. Nameless(s) \cap W = {} /\ Alone(u, W)
    BY <1>3, <2>1
  <2>3. Kept(u, W) /\ Nameless(u) = Nameless(s) /\ Settles(u, W)
    BY <2>2, QuietKept
  <2>4. Line(u, W) /\ (W # {} => NoneCreating(u, W))
    BY TurnLine
  <2> QED BY <1>1, <1>5, <2>2, <2>3, <2>4, FailKept
<1> QED BY <1>2, <1>4, <1>5

(* turn_complete.                                                           *)
LEMMA TurnOverKept ==
  ASSUME NEW s, NEW t, NEW n \in Numbers, Fit(s), s.work[n].up, TurnOverAs(s, t, n), Line(s, {}), Kept(s, {}),
         Alone(s, {}), Alone(t, {}), NoneStrays(s, t)
  PROVE  Kept(t, {})
<1>1. PICK y, u \in States :
        /\ SilentAs(s, y, n, TRUE) /\ PumpAs(y, u)
        /\ ClosedAs(u, t, s.work[n].watchers, "succeeded") \/ FailedAs(u, t, s.work[n].watchers)
  BY DEF TurnOverAs
<1>2. Fit(y) /\ Fit(u)
  BY <1>1, SilentTame, TameFit, PumpFit
<1>3. PICK W : W = s.work[n].watchers
  OBVIOUS
<1> QED BY <1>1, <1>2, <1>3, EndKept

(* A session that ends.                                                     *)
LEMMA SessionExitsKept ==
  ASSUME NEW s, NEW y, NEW u, NEW t, NEW n \in Numbers, Fit(s), s.work[n].up, SilentAs(s, y, n, FALSE), PumpAs(y, u),
         t = u \/ FailedAs(u, t, s.work[n].watchers), Fit(y), Fit(u), Line(s, {}), Kept(s, {}),
         Alone(s, {}), Alone(t, {}), NoneStrays(s, t)
  PROVE  Kept(t, {})
<1>1. PICK W : W = s.work[n].watchers
  OBVIOUS
<1> QED BY <1>1, EndKept

(* A resume that fails: nobody else was under way.                          *)
LEMMA ResumeFailsKept ==
  ASSUME NEW s, NEW y, NEW u, NEW v, NEW x, NEW t, NEW n \in Numbers, Fit(s), Listening(s, {}),
         FailsTwice(s, y, u, v, x, t, n), Alone(s, {}), n \in s.work[n].watchers,
         Line(s, {}), Kept(s, {}), NoneStrays(s, t)
  PROVE  Kept(t, {})
<1> USE DEF FailsTwice
<1>0. PICK W : W = s.work[n].watchers
  OBVIOUS
<1>1. W \in SUBSET Numbers /\ n \in W /\ \A d \in W : s.update[d].state = "running" /\ s.update[d].session = n
  BY <1>0, WatchersAre
<1>2. PICK V : V = u.work[n].watchers
  OBVIOUS
<1>3. V \in SUBSET Numbers
  BY <1>2, WatchersAre
<1>4. /\ y.update = s.update /\ x.update = v.update /\ x.memo = v.memo /\ t.work = x.work
      /\ CloseAs(u, v, W, "failed") /\ CloseAs(x, t, V, "failed") /\ v.work = u.work
  BY <1>0, <1>2 DEF SilentAs, FailedAs
<1>5. Going(s, {}) \subseteq W
  <2> SUFFICES ASSUME NEW p \in Going(s, {}) PROVE p \in W
    OBVIOUS
  <2>1. p \in Numbers /\ s.update[p].state = "running" /\ s.update[p].session = n
    BY <1>1, AloneRunning DEF Going
  <2> QED BY <1>0, <2>1, NumbersAre DEF Listening
<1>6. \A d \in W : ~UnderWay(t, d)
  <2> SUFFICES ASSUME NEW d \in W PROVE ~UnderWay(t, d)
    OBVIOUS
  <2>1. d \in Numbers /\ x.update[d].state = "failed"
    BY <1>1, <1>4 DEF CloseAs, OverAs
  <2>2. t.update[d].state = "failed"
    BY <1>4, <2>1 DEF CloseAs, OverAs
  <2> QED BY <2>2 DEF UnderWay, Starting
<1>7. Nameless(s) = {}
  <2>1. Nameless(s) \subseteq Going(s, {})
    BY DEF Nameless, Going
  <2> QED BY <1>5, <1>6, <2>1 DEF NoneStrays
<1>8. Alone(u, W)
  <2>1. Going(y, W) = {}
    BY <1>4, <1>5 DEF Going, UnderWay, Starting
  <2> QED BY <2>1, PumpOne
<1>9. Kept(u, W) /\ Nameless(u) = {} /\ Settles(u, W) /\ u.memo.agent # Unknown
  BY <1>0, <1>1, <1>7, <1>8, QuietKept
<1>10. Line(u, W) /\ NoneCreating(u, W)
  BY <1>0, <1>1, TurnLine
<1>11. Kept(v, {}) /\ Line(v, {}) /\ NoneCreating(v, {}) /\ Going(v, {}) = Going(u, W)
       /\ \A p \in Going(u, W) : v.update[p] = u.update[p]
  <2>0. FailedAs(u, v, W)
    BY <1>0
  <2>1. Going(v, {}) = Going(u, W) /\ \A p \in Going(u, W) : v.update[p] = u.update[p]
    BY <1>1, <1>4, CloseOthers
  <2>2. Kept(v, {})
    BY <1>1, <1>9, <1>10, <2>0, FailKept
  <2>3. Line(v, {})
    BY <1>1, <1>10, <2>0, FailLine DEF Fit
  <2>4. NoneCreating(v, {})
    BY <1>10, <2>1 DEF NoneCreating
  <2> QED BY <2>1, <2>2, <2>3, <2>4
<1>12. v.memo = u.memo
  <2>1. UpIn(s, s.update[n].session)
    BY <1>1, NumbersAre DEF UpIn
  <2>2. s.memo.session = n
    BY <1>1, <2>1, RunningAgent
  <2>3. y.memo.session = n /\ y.work[n].up
    BY <2>2 DEF SilentAs
  <2>4. u.memo.session = n /\ UpIn(u, n)
    BY <2>3, PumpMemo, NumbersAre DEF UpIn
  <2> QED BY <2>4 DEF FailedAs
<1>13. Nameless(v) = {}
  <2>1. \A e \in Nameless(v) : e \in Going(v, {})
    BY DEF Nameless, Going
  <2>2. \A e \in Nameless(v) : v.update[e] = u.update[e] /\ UnderWay(u, e)
    BY <1>11, <2>1 DEF Going
  <2>3. \A e \in Nameless(v) : e \in Nameless(u)
    BY <1>12, <2>2 DEF Nameless
  <2> QED BY <1>9, <2>3
<1>14. Kept(x, V) /\ Nameless(x) = {}
  <2>1. Kept(x, {}) /\ Nameless(x) = {}
    BY <1>11, <1>13, SilentKept
  <2>2. {} \subseteq V
    OBVIOUS
  <2> QED BY <2>1, <2>2, KeptLess
<1>15. Line(x, V) /\ NoneCreating(x, V)
  <2>1. Line(x, {})
    BY <1>11, SilentLine DEF Fit
  <2>2. {} \subseteq V
    OBVIOUS
  <2>3. Line(x, V)
    BY <2>1, <2>2, LineLess
  <2>4. NoneCreating(x, V)
    BY <1>4, <1>11, <2>2, NoneLess
  <2> QED BY <2>3, <2>4
<1>16. Settles(x, V)
  BY <1>4, <1>9, <1>12 DEF Settles
<1> QED BY <1>2, <1>3, <1>14, <1>15, <1>16, FailKept

(* A start that fails: whoever waits is of the same agent.                  *)
LEMMA StartFailsKept ==
  ASSUME NEW s, NEW y, NEW t, NEW d \in Numbers, Fit(s), Starting(s, d), ClosedAs(s, y, {d}, "failed"), PumpAs(y, t),
         Fit(y), Line(s, {}), Kept(s, {}), Alone(s, {}), Alone(t, {}), NoneStrays(s, t)
  PROVE  Kept(t, {})
<1>1. PICK ds \in SUBSET Numbers : ds = {d}
  OBVIOUS
<1>2. /\ CloseAs(s, y, ds, "failed") /\ y.work = s.work /\ y.memo = s.memo /\ y \in States
      /\ y.update[d].state = "failed"
  BY <1>1 DEF ClosedAs, CloseAs, OverAs
<1>3. s.update[d].session = Nil
  BY DEF Fit, FitRun, Starting
<1>4. Going(s, {}) = {d}
  BY <1>3, AloneStarting DEF UnderWay
<1>5. Settles(s, ds)
  <2>1. Going(s, ds) = {}
    BY <1>1, <1>4 DEF Going
  <2>2. \A e \in InLine(s) : s.update[d].agent = s.update[e].agent
    BY <1>4, BehindStarting
  <2> QED BY <1>1, <2>1, <2>2 DEF Settles
<1>6. Nameless(s) \cap ds = {}
  <2>1. t.update[d].state = "failed"
    BY <1>2, PumpMemo
  <2>2. ~UnderWay(t, d)
    BY <2>1 DEF UnderWay, Starting
  <2> QED BY <1>1, <2>2 DEF NoneStrays
<1>7. Kept(y, {})
  <2>1. {} \subseteq ds
    OBVIOUS
  <2>2. Kept(s, ds)
    BY <2>1, KeptLess
  <2> QED BY <1>2, <1>5, <1>6, <2>2, CloseKept
<1>8. {} \cap InLine(y) = {} /\ Nameless(y) \cap {} = {}
  OBVIOUS
<1> QED BY <1>7, <1>8, PumpKept

(* A chat that is over: nobody waits.                                       *)
LEMMA PocketEndsKept ==
  ASSUME NEW s, NEW t, NEW d \in Numbers, Fit(s), PocketEndsAs(s, t, d), Served(s), Kept(s, {}), Alone(s, {}),
         NoneStrays(s, t)
  PROVE  Kept(t, {})
<1>0. PICK how \in {"succeeded", "failed"} : ClosedAs(s, t, {d}, how)
  BY DEF PocketEndsAs
<1>1. PICK ds \in SUBSET Numbers : ds = {d}
  OBVIOUS
<1>2. /\ CloseAs(s, t, ds, how) /\ t.work = s.work /\ t.memo = s.memo /\ t \in States
      /\ t.update[d].state = how
  BY <1>0, <1>1 DEF ClosedAs, CloseAs, OverAs
<1>3. s.update[d].session = Nil /\ s.update[d].state = "running"
  BY DEF PocketEndsAs
<1>4. Going(s, {}) = {d}
  BY <1>3, AloneStarting DEF UnderWay
<1>5. InLine(s) = {}
  BY <1>3, <1>4 DEF Served, Starting, UpIn
<1>6. Settles(s, ds)
  BY <1>1, <1>4, <1>5 DEF Settles, Going
<1>7. Nameless(s) \cap ds = {}
  BY <1>1, <1>2 DEF NoneStrays, UnderWay, Starting
<1>8. Kept(s, ds)
  <2>1. {} \subseteq ds
    OBVIOUS
  <2> QED BY <2>1, KeptLess
<1> QED BY <1>2, <1>6, <1>7, <1>8, CloseKept

(* Only the row, or nothing, goes.                                          *)
LEMMA RowKept2 ==
  ASSUME NEW s, NEW t, Fit(s), t.memo = s.memo, t.update = s.update, t.work = s.work, Kept(s, {})
  PROVE  Kept(t, {})
<1>1. /\ Going(t, {}) = Going(s, {}) /\ InLine(t) = InLine(s) /\ LastAgent(t) = LastAgent(s)
      /\ \A n \in Nameless(s) : UnderWay(t, n) /\ t.update[n] = s.update[n]
  BY DEF Going, InLine, LastAgent, UnderWay, Starting, Nameless
<1>2. SameTrees(s, t) /\ SamePlaces(s, t)
  BY DEF SameTrees, SamePlaces
<1>3. SameOwner(s, t)
  BY <1>1, SameOwnerIs
<1> QED BY <1>1, <1>2, <1>3, KeptStays

(* forgetDeadCachedConversation, on the next tick.                          *)
LEMMA LooksAgainKept ==
  ASSUME NEW s, NEW t, NEW d \in Numbers, Fit(s), d \in s.recheck, LooksAgainAs(s, t, d), Line(s, {}), Kept(s, {})
  PROVE  Kept(t, {})
<1>1. t.update = s.update /\ t.work = s.work
  BY DEF LooksAgainAs
<1>2. NoneCreating(s, {})
  BY DEF NoneCreating, Line, LineOf, LineCreating
<1>3. CASE t.memo = s.memo
  BY <1>1, <1>3, RowKept2
<1>4. CASE t.memo # s.memo
  <2>1. t.memo = NoRow /\ ~UpIn(s, s.memo.session)
    BY <1>4 DEF LooksAgainAs
  <2>2. Going(t, {}) = Going(s, {}) /\ InLine(t) = InLine(s)
    BY <1>1 DEF Going, InLine, UnderWay, Starting
  <2>3. SamePlaces(s, t)
    BY <1>1 DEF SamePlaces
  <2> QED BY <1>1, <1>2, <2>1, <2>2, <2>3, DropKept
<1> QED BY <1>3, <1>4


(* Where a session that is down still has deliveries, nobody else is under  *)
(* way and nobody waits.                                                    *)
LEMMA DeafAlone ==
  ASSUME NEW s, Fit(s), Alone(s, {}), Served(s), NEW ds, ds = Deaf(s), ds # {}
  PROVE  Going(s, ds) = {} /\ InLine(s) = {}
<1>1. PICK f \in ds : f \in Numbers
  BY DEF Deaf
<1>2. PICK n : n = s.update[f].session
  OBVIOUS
<1>3. s.update[f].state = "running" /\ s.update[f].session = n /\ n # Nil /\ ~s.work[n].up /\ n \in Numbers
  <2>1. s.update[f].state = "running" /\ n # Nil /\ ~s.work[n].up
    BY <1>1, <1>2 DEF Deaf
  <2>2. n \in Numbers
    BY <1>1, <1>2, <2>1, SessionIs
  <2> QED BY <1>2, <2>1, <2>2
<1>4. ASSUME NEW p \in Going(s, {}) PROVE p \in ds /\ ~Starting(s, p) /\ ~UpIn(s, s.update[p].session)
  <2>1. s.update[p].state = "running" /\ s.update[p].session = n /\ ~Starting(s, p)
    BY <1>1, <1>3, <1>4, AloneRunning
  <2>2. p \in Numbers
    BY <1>4 DEF Going
  <2> QED BY <1>3, <2>1, <2>2 DEF Deaf, UpIn
<1>5. Going(s, ds) \subseteq Going(s, {})
  BY DEF Going
<1>6. Going(s, ds) \cap ds = {}
  BY DEF Going
<1> QED BY <1>4, <1>5, <1>6 DEF Served

(* The sweep closes those that no listener will, before the pump or after it. *)
LEMMA SweptKept ==
  ASSUME NEW s, NEW u, NEW v, Fit(s), Fit(u), Fit(v), Alone(s, {}), Alone(v, {}),
         (PumpAs(s, u) /\ FailedAs(u, v, Deaf(s))) \/ (FailedAs(s, u, Deaf(s)) /\ PumpAs(u, v)),
         Line(s, {}), Served(s), Kept(s, {}), NoneStrays(s, v)
  PROVE  Kept(v, {})
<1>1. PICK ds \in SUBSET Numbers : ds = Deaf(s)
  BY DEF Deaf
<1>2. ds # {} => Going(s, ds) = {} /\ InLine(s) = {}
  BY <1>1, DeafAlone
<1>3. Kept(s, ds) /\ Line(s, ds) /\ Settles(s, ds) /\ (ds = {} \/ NoneCreating(s, ds))
  <2>1. {} \subseteq ds
    OBVIOUS
  <2>2. Kept(s, ds) /\ Line(s, ds)
    BY <2>1, KeptLess, LineLess
  <2> QED BY <1>2, <2>2 DEF Settles, NoneCreating
<1>4. Nameless(s) \cap ds = {}
  <2> SUFFICES ASSUME NEW d \in ds PROVE ~UnderWay(v, d)
    BY DEF NoneStrays
  <2>1. CASE FailedAs(u, v, ds)
    BY <2>1 DEF FailedAs, CloseAs, OverAs, UnderWay, Starting
  <2>2. CASE FailedAs(s, u, ds) /\ PumpAs(u, v)
    <3>1. u.update[d].state = "failed" /\ d \in Numbers
      BY <2>2 DEF FailedAs, CloseAs, OverAs
    <3>2. v.update[d].state = "failed"
      BY <2>2, <3>1, PumpMemo
    <3> QED BY <3>2 DEF UnderWay, Starting
  <2> QED BY <1>1, <2>1, <2>2
<1>5. CASE PumpAs(s, u) /\ FailedAs(u, v, ds) /\ ds # {}
  <2>1. u = s
    BY <1>2, <1>5 DEF PumpAs
  <2> QED BY <1>3, <1>4, <1>5, <2>1, FailKept
<1>6. CASE PumpAs(s, u) /\ FailedAs(u, v, ds) /\ ds = {}
  <2>1. CloseAs(u, v, ds, "failed") /\ v.work = u.work
    BY <1>6 DEF FailedAs
  <2>2. Alone(u, ds)
    BY <2>1, AloneBefore
  <2>3. ds \cap InLine(s) = {}
    BY <1>6
  <2>4. Kept(u, ds) /\ Nameless(u) = Nameless(s)
    BY <1>3, <1>4, <1>6, <2>2, <2>3, PumpKept
  <2>5. Line(u, ds)
    BY <1>3, <1>6, PumpLine
  <2>6. Nameless(u) \cap ds = {} /\ Settles(u, ds)
    BY <1>6 DEF Settles
  <2> QED BY <1>6, <2>4, <2>5, <2>6, FailKept
<1>7. CASE FailedAs(s, u, ds) /\ PumpAs(u, v)
  <2>1. Kept(u, {})
    BY <1>3, <1>4, <1>7, FailKept
  <2>2. {} \cap InLine(u) = {} /\ Nameless(u) \cap {} = {}
    OBVIOUS
  <2> QED BY <1>7, <2>1, <2>2, PumpKept
<1> QED BY <1>1, <1>5, <1>6, <1>7

(* The sweep.                                                               *)
LEMMA SweepsKept ==
  ASSUME NEW s, NEW u, NEW v, NEW t, Fit(s), Fit(u), Fit(v), Alone(s, {}), Alone(t, {}),
         (PumpAs(s, u) /\ FailedAs(u, v, Deaf(s))) \/ (FailedAs(s, u, Deaf(s)) /\ PumpAs(u, v)),
         PrunedAs(s, v, t), Line(s, {}), Served(s), Kept(s, {}), NoneStrays(s, t)
  PROVE  Kept(t, {})
<1>1. t.update = v.update /\ t.work = v.work
  BY DEF PrunedAs
<1>2. Alone(v, {}) /\ NoneStrays(s, v)
  BY <1>1 DEF Alone, NoneStrays, Going, UnderWay, Starting
<1>3. Kept(v, {})
  BY <1>2, SweptKept
<1>4. CASE t.memo = v.memo
  BY <1>1, <1>3, <1>4, RowKept2
<1>5. CASE t.memo = NoRow /\ \A d \in Numbers : ~UnderWay(s, d)
  <2>1. Going(v, {}) = {} /\ InLine(v) = {}
    BY <1>5, SweptIdle
  <2>2. Going(t, {}) = {} /\ InLine(t) = {}
    BY <1>1, <2>1 DEF Going, InLine, UnderWay, Starting
  <2>3. SamePlaces(v, t)
    BY <1>1 DEF SamePlaces
  <2>4. /\ Going(t, {}) \subseteq Going(v, {}) /\ InLine(t) \subseteq InLine(v)
        /\ \A p \in Going(t, {}) \cup InLine(t) : t.update[p] = v.update[p]
    BY <2>1, <2>2
  <2> QED BY <1>1, <1>3, <1>5, <2>2, <2>3, <2>4, DropKept
<1> QED BY <1>4, <1>5 DEF PrunedAs

(* The boot after a crash or a stop.                                        *)
LEMMA RestartsKept ==
  ASSUME NEW s, NEW b, NEW y, NEW t, Fit(s), Fit(y), Tame(s, y), PumpAs(y, t),
         b = s \/ FailedAs(s, b, {d \in Flying(s) : s.update[d].state = "running"}),
         CloseAs(s, y, Flying(s), "failed"), y.memo = b.memo, \A n \in Numbers : ~y.work[n].up,
         Line(s, {}), Served(s), Kept(s, {}), Alone(s, {}), Alone(t, {}), NoneStrays(s, t)
  PROVE  Kept(t, {})
<1>1. PICK ds \in SUBSET Numbers : ds = Flying(s)
  BY DEF Flying
<1>2. CloseAs(s, y, ds, "failed") /\ (y.memo = NoRow \/ y.memo = s.memo) /\ y \in States
  BY <1>1 DEF FailedAs, Fit
<1>3. Nameless(s) \cap ds = {}
  <2> SUFFICES ASSUME NEW d \in ds PROVE ~UnderWay(t, d)
    BY DEF NoneStrays
  <2>1. y.update[d].state = "failed" /\ d \in Numbers
    BY <1>2 DEF CloseAs, OverAs
  <2>2. t.update[d].state = "failed"
    BY <2>1, PumpMemo
  <2> QED BY <2>2 DEF UnderWay, Starting
<1>4. Going(s, ds) = {} /\ ds = Going(s, {})
  BY <1>1 DEF Going, Flying
<1>5. SameTrees(s, y)
  BY DEF Tame, SameTrees
<1>6. Settles(s, ds)
  <2>1. CASE InLine(s) = {}
    BY <1>4, <2>1 DEF Settles
  <2>2. CASE InLine(s) # {}
    <3>1. PICK p \in Going(s, {}) : Starting(s, p) \/ UpIn(s, s.update[p].session)
      BY <2>2 DEF Served
    <3>2. p \in Numbers /\ UnderWay(s, p)
      BY <3>1 DEF Going
    <3>3. CASE Starting(s, p)
      <4>1. s.update[p].session = Nil
        BY <3>2, <3>3 DEF Fit, FitRun, Starting
      <4>2. Going(s, {}) = {p}
        BY <3>2, <4>1, AloneStarting
      <4>3. \A e \in InLine(s) : s.update[p].agent = s.update[e].agent
        BY <3>3, <4>2, BehindStarting
      <4> QED BY <1>4, <4>2, <4>3 DEF Settles
    <3>4. CASE ~Starting(s, p)
      <4>1. s.update[p].state = "running" /\ UpIn(s, s.update[p].session)
        BY <3>1, <3>2, <3>4 DEF UnderWay
      <4>2. s.memo.agent # Unknown
        BY <3>2, <4>1, RunningAgent
      <4> QED BY <4>2 DEF Settles
    <3> QED BY <3>3, <3>4
  <2> QED BY <2>1, <2>2
<1>7. Kept(y, {})
  BY <1>2, <1>3, <1>4, <1>5, <1>6, OverKept
<1>8. {} \cap InLine(y) = {} /\ Nameless(y) \cap {} = {}
  OBVIOUS
<1> QED BY <1>7, <1>8, PumpKept

----------------------------------------------------------------------------
(* Directories, of the issue's states.                                     *)
(* Worktrees are only ever removed, which asks less of the others.          *)
LEMMA KeptGone ==
  ASSUME NEW t, Kept(t, {}), gone \subseteq gone'
  PROVE  Kept(t, {})'
<1>1. \A a, b : Is(a, b) => Is(a, b)'
  BY DEF Is
<1>2. ASSUME NEW p, KeptOf(t, p) PROVE KeptOf(t, p)'
  BY <1>1, <1>2 DEF KeptOf, KeptPreparing, KeptCreating
<1>3. ASSUME NEW d, KeptWaiting(t, {}, d) PROVE KeptWaiting(t, {}, d)'
  BY <1>1, <1>3 DEF KeptWaiting, Due
<1>4. ASSUME NEW d, InPlace(t, d) PROVE InPlace(t, d)'
  BY <1>4 DEF InPlace
<1> QED BY <1>2, <1>3, <1>4 DEF Kept

(* Unless a delivery is seen to stray, none does.                           *)
LEMMA StraysIs ==
  ASSUME IssueNext, ~strayed', NEW s, s = Now, NEW t, t = Now'
  PROVE  NoneStrays(s, t)
<1>1. Unnamed = Nameless(Now)
  BY NowParts DEF Unnamed, Nameless
<1>2. \A d \in Unnamed : UnderWay(Now, d)'
  BY DEF IssueNext
<1>3. \A d : UnderWay(Now, d)' <=> UnderWay(Now', d)
  BY DEF UnderWay, Starting
<1> QED BY <1>1, <1>2, <1>3 DEF NoneStrays

(* The row that was there is that of a conversation and its directory.      *)
LEMMA KeptInit ==
  ASSUME IssueInit
  PROVE  IKept
<1>1. PICK s : s = Now
  OBVIOUS
<1>2. PICK row : row = issueLeft.row
  OBVIOUS
<1>3. /\ s.memo = row /\ issueLeft \in IssueScenarios
      /\ s.update = [d \in Numbers |->
                   IF d = Old /\ issueLeft.last # "none"
                   THEN [NoRun EXCEPT !.state = "succeeded", !.agent = issueLeft.last] ELSE NoRun]
      /\ s.work = [n \in Numbers |->
                     IF n = Old THEN [NoWork EXCEPT !.agent = issueLeft.minter, !.tree = row.tree,
                                                    !.id = Old] ELSE NoWork]
  BY <1>1, <1>2, NowParts DEF IssueInit
<1>4. \A d \in Numbers : s.update[d].state \in {"none", "succeeded"} /\ s.update[d].session = Nil
  BY <1>3 DEF NoRun
<1>5. Going(s, {}) = {} /\ InLine(s) = {} /\ \A d \in Numbers : InPlace(s, d)
  BY <1>4 DEF Going, InLine, UnderWay, Starting, InPlace
<1>6. row.session = Nil /\ row.id \in {Nil, Old} /\ (row.there /\ row.agent \notin PocketAgents => row.id = Old)
  <2>1. row.session \in {Nil} /\ row.id \in {Nil, Old}
    BY <1>2, <1>3, IssueAssumption
  <2>2. row.there /\ row.agent \notin PocketAgents => row.id = Old
    BY <1>2, <1>3, IssueAssumption
  <2> QED BY <2>1, <2>2
<1>7. RowOK(s)
  <2>1. s.work[Old].tree = row.tree
    BY <1>3, NumbersAre DEF NoWork
  <2> QED BY <1>3, <1>6, <2>1, NumbersAre DEF RowOK, UpIn
<1> QED BY <1>1, <1>5, <1>7 DEF IKept, Kept

(* A delivery's steps leave directories alone.                             *)
LEMMA UpdateKept ==
  ASSUME IFit, NEW s, s = Now, Alone(s, {}), Line(s, {}), Served(s), Kept(s, {}),
         NEW d \in Numbers, UpdateStep(d), NEW t, t = Now', Alone(t, {}), NoneStrays(s, t)
  PROVE  Kept(t, {})
<1>1. Fit(s)
  BY DEF IFit
<1>2. CASE Prepared(d)
  <2>1. s.update[d].state = "preparing" /\ PreparedAs(s, t, d)
    BY <1>2, PreparedAct
  <2> QED BY <1>1, <2>1, PreparedKept
<1>3. CASE Created(d)
  <2>1. s.update[d].state = "creating" /\ CreatesAs(s, t, d)
    BY <1>3, CreatedAct
  <2> QED BY <1>1, <2>1, CreatedKept
<1>4. CASE StartFails(d)
  <2>1. PICK y \in States : Starting(s, d) /\ ClosedAs(s, y, {d}, "failed") /\ PumpAs(y, t) /\ Fit(y)
    BY <1>4, StartFailsIs
  <2> QED BY <1>1, <2>1, StartFailsKept
<1>5. CASE PocketEnds(d)
  <2>1. PocketEndsAs(s, t, d)
    BY <1>5, PocketEndsIs DEF PocketEndsAs
  <2> QED BY <1>1, <2>1, PocketEndsKept
<1>6. CASE LooksAgain(d)
  <2>1. d \in s.recheck /\ LooksAgainAs(s, t, d)
    BY <1>6, LooksAgainIs
  <2> QED BY <1>1, <2>1, LooksAgainKept
<1> QED BY <1>2, <1>3, <1>4, <1>5, <1>6 DEF UpdateStep

(* So do those of a session.                                               *)
LEMMA WorkKept ==
  ASSUME IFit, Aside, NEW s, s = Now, Alone(s, {}), Line(s, {}), Kept(s, {}),
         NEW n \in Numbers, WorkStep(n), NEW t, t = Now', Alone(t, {}), NoneStrays(s, t)
  PROVE  Kept(t, {})
<1>1. Fit(s) /\ Listening(s, {}) /\ Sure(s, {})
  BY DEF IFit, Aside
<1>2. CASE Announced(n)
  <2>1. s.work[n].up /\ AnnouncedAs(s, t, n)
    BY <1>2, AnnouncedAct
  <2> QED BY <1>1, <2>1, AnnouncedKept
<1>3. CASE TurnOver(n)
  <2>1. s.work[n].up /\ TurnOverAs(s, t, n)
    BY <1>3, TurnOverIs
  <2> QED BY <1>1, <2>1, TurnOverKept
<1>4. CASE ResumeFails(n)
  <2>1. PICK y, u, v, x \in States : FailsTwice(s, y, u, v, x, t, n)
    BY <1>4, ResumeFailsIs
  <2>2. Doom(s, n)
    BY <1>4, DoomedIs DEF ResumeFails
  <2>3. n \in s.work[n].watchers
    BY <1>1, <2>1, <2>2 DEF Sure, FailsTwice
  <2> QED BY <1>1, <2>1, <2>3, ResumeFailsKept
<1>5. CASE SessionExits(n)
  <2>1. PICK y, u \in States :
          /\ s.work[n].up /\ SilentAs(s, y, n, FALSE) /\ PumpAs(y, u) /\ Fit(y) /\ Fit(u)
          /\ t = u \/ FailedAs(u, t, s.work[n].watchers)
    BY <1>5, SessionExitsIs
  <2> QED BY <1>1, <2>1, SessionExitsKept
<1>6. CASE RemovesTree(n) \/ Loses(n)
  <2>1. t = s
    BY <1>6 DEF RemovesTree, Loses, Now
  <2> QED BY <2>1
<1> QED BY <1>2, <1>3, <1>4, <1>5, <1>6 DEF WorkStep

(* Every step does, while no two deliveries run side by side and none has   *)
(* strayed.                                                                 *)
LEMMA PlacesNext ==
  ASSUME IFit, Aside, NEW s, s = Now, Alone(s, {}), Line(s, {}), Served(s), Kept(s, {}), IssueNext,
         NEW t, t = Now', Alone(t, {}), NoneStrays(s, t)
  PROVE  Kept(t, {})
<1>1. Fit(s)
  BY DEF IFit
<1>2. CASE Arrives
  <2>1. PICK d \in Numbers, key \in Trees : ArrivesAs(s, t, d, key)
    BY <1>2, ArrivesIs
  <2> QED BY <1>1, <2>1, ArrivesKept
<1>3. CASE Sweeps
  <2>1. PICK u, v \in States :
           /\ \/ PumpAs(s, u) /\ FailedAs(u, v, Deaf(s))
              \/ FailedAs(s, u, Deaf(s)) /\ PumpAs(u, v)
           /\ PrunedAs(s, v, t) /\ Fit(u) /\ Fit(v)
    BY <1>3, SweepsIs
  <2> QED BY <1>1, <2>1, SweepsKept
<1>4. CASE Restarts
  <2>1. PICK b, y \in States :
           /\ b = s \/ FailedAs(s, b, {d \in Flying(s) : s.update[d].state = "running"})
           /\ CloseAs(s, y, Flying(s), "failed") /\ y.memo = b.memo
           /\ \A n \in Numbers : ~y.work[n].up
           /\ Tame(s, y) /\ PumpAs(y, t) /\ Fit(y)
    BY <1>4, RestartsIs
  <2> QED BY <1>1, <2>1, RestartsKept
<1>5. CASE Reroutes
  <2>1. t = s
    BY <1>5 DEF Reroutes, Now
  <2> QED BY <2>1
<1>6. ASSUME NEW n \in Numbers, UpdateStep(n) PROVE Kept(t, {})
  BY <1>6, UpdateKept
<1>7. ASSUME NEW n \in Numbers, WorkStep(n) PROVE Kept(t, {})
  BY <1>7, WorkKept
<1> QED BY <1>2, <1>3, <1>4, <1>5, <1>6, <1>7 DEF IssueNext

(* IKept is inductive, with the other three.                               *)
LEMMA KeptNext ==
  ASSUME IFit, Aside, ILine, IKept, IssueNext
  PROVE  IKept'
<1>1. beside' = (beside \/ SideBySide') /\ (strayed => strayed')
  BY DEF IssueNext
<1>2. CASE beside' \/ strayed'
  BY <1>2 DEF IKept
<1>3. CASE ~beside' /\ ~strayed'
  <2>1. PICK s : s = Now
    OBVIOUS
  <2>2. PICK t : t = Now'
    OBVIOUS
  <2>3. Alone(s, {}) /\ Orderly(s, cost)
    BY <1>1, <1>3, <2>1 DEF ILine
  <2>4. Line(s, {}) /\ Served(s)
    BY <2>3 DEF Orderly
  <2>5. Kept(s, {})
    BY <1>1, <1>3, <2>1 DEF IKept
  <2>6. Alone(t, {})
    <3>1. ~SideBySide'
      BY <1>1, <1>3
    <3>2. Alone(Now, {})'
      BY <3>1, SideBySideIs
    <3> QED BY <2>2, <3>2
  <2>7. NoneStrays(s, t)
    BY <1>3, <2>1, <2>2, StraysIs
  <2>8. Kept(t, {})
    BY <2>1, <2>2, <2>3, <2>4, <2>5, <2>6, <2>7, PlacesNext
  <2>9. gone \subseteq gone'
    BY Zenon DEF IssueNext, Arrives, Sweeps, Restarts, Reroutes, UpdateStep, WorkStep, Prepared, Created, StartFails,
           PocketEnds, LooksAgain, Announced, TurnOver, ResumeFails, SessionExits, RemovesTree, Loses
  <2>10. Kept(t, {})'
    BY <2>8, <2>9, KeptGone
  <2>11. Kept(Now, {})'
    BY <2>2, <2>10
  <2> QED BY <2>11 DEF IKept
<1> QED BY <1>2, <1>3

(* While no two deliveries run side by side and none has strayed, the row's *)
(* directory is that of its conversation and its session, and what waits or *)
(* starts can rely on it.                                                   *)
THEOREM IssueKept == IssueSpec => [](IFit /\ Aside /\ ILine /\ IKept)
<1>1. IssueInit => IKept
  BY KeptInit
<1>2. IFit /\ Aside /\ ILine /\ IKept /\ [IssueNext]_issueVars => IKept'
  <2> SUFFICES ASSUME IFit, Aside, ILine, IKept, [IssueNext]_issueVars PROVE IKept'
    OBVIOUS
  <2>1. CASE IssueNext
    BY <2>1, KeptNext
  <2>2. CASE UNCHANGED issueVars
    <3>1. Now' = Now /\ UNCHANGED <<beside, strayed, gone>>
      BY <2>2 DEF issueVars, Now
    <3>2. CASE ~beside /\ ~strayed
      <4>1. PICK t : t = Now
        OBVIOUS
      <4>2. Kept(t, {})
        BY <3>2, <4>1 DEF IKept
      <4>3. Kept(t, {})'
        BY <3>1, <4>2, KeptGone
      <4>4. Kept(Now, {})'
        BY <3>1, <4>1, <4>3
      <4> QED BY <4>4 DEF IKept
    <3>3. CASE beside \/ strayed
      BY <3>1, <3>3 DEF IKept
    <3> QED BY <3>2, <3>3
  <2> QED BY <2>1, <2>2
<1> QED BY <1>1, <1>2, IssueInLine, PTL DEF IssueSpec

(* RightConversation: a delivery continues its own agent's conversation, in *)
(* that conversation's tree (issueConversationFor and startRun).            *)
THEOREM IssueRightConversation == IssueSpec => []RightConversation
<1>1. IKept => RightTree
  <2> SUFFICES ASSUME IKept, ~beside, ~strayed, NEW d \in Numbers, update[d].session # Nil
               PROVE  LET w == work[update[d].session] IN
                      /\ w.tree.folder = update[d].folder
                      /\ update[d].key # NoTree => w.tree = update[d].key \/ w.tree.of = d
                                                       \/ update[d].key.of \in gone
                      /\ w.tree = work[w.id].tree
    BY DEF RightTree
  <2>1. InPlace(Now, d)
    BY DEF IKept, Kept
  <2> QED BY <2>1, NowParts DEF InPlace
<1>2. IssueSpec => []OwnConversation
  BY IssueOwnConversation
<1>3. OwnConversation /\ IKept => RightConversation
  BY <1>1 DEF RightConversation
<1> QED BY <1>2, <1>3, IssueKept, PTL
=============================================================================
