-------------------------- MODULE BackgroundProofs --------------------------
(***************************************************************************)
(* Theorems about what the server does in the background of its sessions.  *)
(*                                                                         *)
(* CronScheduler, for any finite set of jobs, any schedules and any number *)
(* of edits, stops and crashes: a job's next run follows its schedule, and *)
(* a due instant is accounted for exactly once.                            *)
(*                                                                         *)
(* RemoteRun, for any number of deliveries and sessions and any amount of  *)
(* trouble: a delivery is settled once, and what its row then says is what *)
(* became of it.                                                           *)
(*                                                                         *)
(* HubHosts and ApprovalSwitch, for any sets of hosts and sessions and any *)
(* scenarios: an enabled host is watched, and by no more loops than the    *)
(* code accounts for; the switch that skips approvals is obeyed, whatever  *)
(* the order of flips, answers and refusals.                               *)
(*                                                                         *)
(* SubagentSupervisor, for any subagents and chats: every tracking is told *)
(* once, and a chat is told of the latest turn.                            *)
(***************************************************************************)
EXTENDS CronScheduler, RemoteRun, HubHosts, ApprovalSwitch, SubagentSupervisor, Integers,
        FiniteSetTheorems, SequenceTheorems, WellFoundedInduction, TLAPS

----------------------------------------------------------------------------
(* The invariant.                                                          *)

Instants == Nat \ {0}
JobRow   == [state : {"unborn", "on", "off", "removed"}, sched : SUBSET Instants, next : Nat]
CronRun  == [job : CronJobs, due : Nat, at : Nat,
             row : {"open", "closed", "skipped", "cleared", "deleted"},
             work : {"none", "starting", "alive", "dead"}]
CutStart == CronJobs \X Nat
Held     == [job : CronJobs, due : Instants, sched : SUBSET Instants]

Formed ==
    /\ cronLeft \in [{"creates", "edits", "manual", "restarts"} -> Nat]
    /\ now \in Nat /\ firing \in Nat /\ ticking \in BOOLEAN
    /\ cronServer \in {"up", "stopping", "down"}
    /\ cronJob \in [CronJobs -> JobRow]
    /\ cronRuns \in Seq(CronRun) /\ line \in Seq(Held)
    /\ cut \in Seq(CutStart)

(* Rows and held rows are of the past, and a pass holds a job once.        *)
OfThePast ==
    /\ \A r \in RunIds : cronRuns[r].due <= now
    /\ \A i \in DOMAIN line : line[i].due <= now
    /\ \A a, b \in DOMAIN line : line[a].job = line[b].job => a = b

(* A row in hand is the row of its job, unless that was changed since.     *)
HandIsTrue ==
    \A i \in DOMAIN line : line[i].job \notin touched =>
        /\ cronJob[line[i].job].state # "off"
        /\ On(line[i].job) => /\ cronJob[line[i].job].sched = line[i].sched
                              /\ cronJob[line[i].job].next = line[i].due

(* The run whose start a pass awaits is of the first row in its hand.      *)
AwaitsTheFirst ==
    /\ line # <<>> => ticking
    /\ cronServer = "down" => ~ticking
    /\ firing # 0 => /\ line # <<>> /\ firing \in RunIds
                     /\ cronRuns[firing].job = Head(line).job
                     /\ cronRuns[firing].due = Head(line).due

(* No row stands for the instant a job waits for, but those of starts that *)
(* were cut short and of the one under way.                                *)
Begun(j, t) == IF firing # 0 /\ Head(line).job = j /\ Head(line).due = t THEN 1 ELSE 0
NotYetCounted(j) ==
    LET t == cronJob[j].next IN
    On(j) /\ t # Never => Cardinality(RowsFor(j, t, cronRuns)) <= CutShort(j, t) + Begun(j, t)

(* What NextFollowsSchedule says of one job.                               *)
Follows(j) ==
    /\ On(j) /\ ~InHand(j) =>
         \/ cronJob[j].next # Never /\ cronJob[j].next <= now
         \/ cronJob[j].next = NextIn(cronJob[j].sched, now)
    /\ cronJob[j].state = "off" => cronJob[j].next = Never

CronInv ==
    /\ Formed /\ OfThePast /\ HandIsTrue /\ AwaitsTheFirst
    /\ NextFollowsSchedule
    /\ \A j \in CronJobs : NotYetCounted(j)

----------------------------------------------------------------------------
(* Data.                                                                   *)

(* A set of numbers that is not empty has a least one.                     *)
LEMMA Smallest ==
    ASSUME NEW T \in SUBSET Nat, T # {}
    PROVE  \E x \in T : \A y \in T : x <= y
  <1>1. IsWellFoundedOn(OpToRel(<, Nat), Nat)
    BY NatLessThanWellFounded
  <1>2. PICK x \in T : \A y \in T : ~ (<<y, x>> \in OpToRel(<, Nat))
    BY <1>1, WFMin
  <1>3. \A y \in T : ~ (y < x)
    BY <1>2 DEF OpToRel
  <1> QED BY <1>3

(* The next instant of a schedule is one of its own, ahead, and the first. *)
LEMMA NextIsAhead ==
    ASSUME NEW s \in SUBSET Instants, NEW t \in Nat
    PROVE  /\ NextIn(s, t) \in Nat
           /\ NextIn(s, t) # Never => /\ NextIn(s, t) \in s /\ NextIn(s, t) > t
                                      /\ \A u \in s : u > t => NextIn(s, t) <= u
           /\ NextIn(s, t) = Never => \A u \in s : u <= t
  <1> DEFINE later == {u \in s : u > t}
  <1>1. CASE later = {}
    BY <1>1 DEF NextIn, Never, Instants
  <1>2. CASE later # {}
    <2>1. later \in SUBSET Nat
      BY DEF Instants
    <2>2. \E x \in later : \A y \in later : x <= y
      BY <1>2, <2>1, Smallest
    <2>3. Min(later) \in later /\ \A y \in later : Min(later) <= y
      BY <2>2 DEF Min
    <2>4. NextIn(s, t) = Min(later)
      BY <1>2 DEF NextIn
    <2> QED BY <2>3, <2>4 DEF Never, Instants
  <1> QED BY <1>1, <1>2

(* One instant later the next one is the same, or it is now.               *)
LEMMA NextAfterAnInstant ==
    ASSUME NEW s \in SUBSET Instants, NEW t \in Nat
    PROVE  \/ NextIn(s, t + 1) = NextIn(s, t)
           \/ NextIn(s, t) # Never /\ NextIn(s, t) <= t + 1
  <1> DEFINE m == NextIn(s, t)
             n == NextIn(s, t + 1)
  <1>1. /\ m \in Nat
        /\ m # Never => m \in s /\ m > t /\ \A u \in s : u > t => m <= u
        /\ m = Never => \A u \in s : u <= t
    BY NextIsAhead
  <1>2. /\ n \in Nat
        /\ n # Never => n \in s /\ n > t + 1 /\ \A u \in s : u > t + 1 => n <= u
        /\ n = Never => \A u \in s : u <= t + 1
    <2>1. t + 1 \in Nat
      OBVIOUS
    <2> HIDE DEF n
    <2> QED BY <2>1, NextIsAhead DEF n
  <1>3. \A u \in s : u \in Nat
    BY DEF Instants
  <1> HIDE DEF m, n
  <1>4. n = m \/ (m # Never /\ m <= t + 1)
    BY <1>1, <1>2, <1>3
  <1> QED BY <1>4 DEF m, n

(* A listing of a finite set names each of its members once.               *)
LEMMA ListsEachOnce ==
    ASSUME NEW S, IsFiniteSet(S), NEW q \in SetToSeqs(S)
    PROVE  /\ q \in Seq(S)
           /\ \A x \in S : \E i \in DOMAIN q : q[i] = x
           /\ \A a, b \in DOMAIN q : q[a] = q[b] => a = b
  <1> DEFINE n == Cardinality(S)
  <1>1. n \in Nat
    BY FS_CardinalityType
  <1>2. q \in [1 .. n -> S] /\ \A a, b \in 1 .. n : a # b => q[a] # q[b]
    BY DEF SetToSeqs
  <1> HIDE DEF n
  <1>3. q \in Seq(S) /\ DOMAIN q = 1 .. n
    BY <1>1, <1>2
  <1>4. q \in Injection(1 .. n, S)
    BY <1>2 DEF Injection, IsInjective
  <1>5. Cardinality(1 .. n) = n
    BY <1>1, FS_Interval
  <1>6. q \in Surjection(1 .. n, S)
    BY <1>4, <1>5, FS_Injection DEF n
  <1>7. \A x \in S : \E i \in 1 .. n : q[i] = x
    BY <1>6 DEF Surjection
  <1> QED BY <1>2, <1>3, <1>7

(* What is left of a list without its first member.                        *)
LEMMA WithoutTheFirst ==
    ASSUME NEW S, NEW q \in Seq(S), q # <<>>
    PROVE  /\ Tail(q) \in Seq(S) /\ 1 \in DOMAIN q /\ q[1] = Head(q)
           /\ \A i \in DOMAIN Tail(q) : /\ i + 1 \in DOMAIN q /\ Tail(q)[i] = q[i + 1]
                                        /\ i \in Nat /\ i + 1 # 1
           /\ \A i \in DOMAIN q : i # 1 => i - 1 \in DOMAIN Tail(q) /\ Tail(q)[i - 1] = q[i]
  <1>1. Len(q) \in Nat /\ Len(q) # 0 /\ DOMAIN q = 1 .. Len(q)
    OBVIOUS
  <1>2. /\ Tail(q) \in Seq(S) /\ DOMAIN Tail(q) = 1 .. Len(q) - 1
        /\ \A i \in 1 .. Len(q) - 1 : Tail(q)[i] = q[i + 1]
    BY <1>1
  <1>3. \A i \in DOMAIN q : i # 1 => i - 1 \in DOMAIN Tail(q) /\ Tail(q)[i - 1] = q[i]
    BY <1>1, <1>2
  <1>4. \A i \in DOMAIN Tail(q) : /\ i + 1 \in DOMAIN q /\ Tail(q)[i] = q[i + 1]
                                 /\ i \in Nat /\ i + 1 # 1
    BY <1>1, <1>2
  <1> QED BY <1>1, <1>2, <1>3, <1>4

(* A list and another one after it.                                        *)
LEMMA OneAfterTheOther ==
    ASSUME NEW p \in Seq(CronRun), NEW q \in Seq(CronRun)
    PROVE  /\ p \o q \in Seq(CronRun) /\ DOMAIN (p \o q) = 1 .. (Len(p) + Len(q))
           /\ \A i \in 1 .. Len(p) : (p \o q)[i] = p[i]
           /\ \A i \in 1 .. Len(q) : (p \o q)[Len(p) + i] = q[i]
  <1>1. Len(p) \in Nat /\ Len(q) \in Nat /\ Len(p \o q) = Len(p) + Len(q) /\ p \o q \in Seq(CronRun)
    OBVIOUS
  <1>2. \A i \in 1 .. Len(p) + Len(q) : (p \o q)[i] = IF i <= Len(p) THEN p[i] ELSE q[i - Len(p)]
    OBVIOUS
  <1>3. ASSUME NEW i \in 1 .. Len(q) PROVE (p \o q)[Len(p) + i] = q[i]
    <2>1. /\ Len(p) + i \in 1 .. Len(p) + Len(q) /\ ~(Len(p) + i <= Len(p))
          /\ (Len(p) + i) - Len(p) = i
      BY <1>1
    <2> QED BY <1>2, <2>1
  <1>4. \A i \in 1 .. Len(p) : i \in 1 .. Len(p) + Len(q) /\ i <= Len(p)
    BY <1>1
  <1> QED BY <1>1, <1>2, <1>3, <1>4

(* The rows for an instant can be counted, and one more is one more.       *)
LEMMA RowsAreCounted ==
    ASSUME NEW runs \in Seq(CronRun), NEW j, NEW t
    PROVE  /\ IsFiniteSet(RowsFor(j, t, runs))
           /\ Cardinality(RowsFor(j, t, runs)) \in Nat
           /\ RowsFor(j, t, runs) # {} => Cardinality(RowsFor(j, t, runs)) >= 1
  <1>1. DOMAIN runs = 1 .. Len(runs) /\ Len(runs) \in Nat
    OBVIOUS
  <1>2. IsFiniteSet(1 .. Len(runs))
    BY <1>1, FS_Interval
  <1>3. RowsFor(j, t, runs) \in SUBSET (1 .. Len(runs))
    BY <1>1 DEF RowsFor
  <1>4. IsFiniteSet(RowsFor(j, t, runs))
    BY <1>2, <1>3, FS_Subset
  <1> QED BY <1>4, FS_CardinalityType, FS_EmptySet

(* One row more: it counts once, for its own job and instant.              *)
LEMMA OneMoreRow ==
    ASSUME NEW runs \in Seq(CronRun), NEW run \in CronRun, NEW j, NEW t
    PROVE  IF run.job = j /\ run.due = t
           THEN Cardinality(RowsFor(j, t, Append(runs, run))) = Cardinality(RowsFor(j, t, runs)) + 1
           ELSE RowsFor(j, t, Append(runs, run)) = RowsFor(j, t, runs)
  <1> DEFINE n == Len(runs) + 1
  <1>1. /\ DOMAIN Append(runs, run) = DOMAIN runs \cup {n} /\ n \notin DOMAIN runs
        /\ \A i \in DOMAIN runs : Append(runs, run)[i] = runs[i]
        /\ Append(runs, run)[n] = run
    OBVIOUS
  <1> HIDE DEF n
  <1>2. CASE run.job = j /\ run.due = t
    <2>1. RowsFor(j, t, Append(runs, run)) = RowsFor(j, t, runs) \cup {n}
      BY <1>1, <1>2 DEF RowsFor
    <2>2. n \notin RowsFor(j, t, runs)
      BY <1>1 DEF RowsFor
    <2>3. IsFiniteSet(RowsFor(j, t, runs))
      BY RowsAreCounted
    <2>4. Cardinality(RowsFor(j, t, runs) \cup {n}) = Cardinality(RowsFor(j, t, runs)) + 1
      BY <2>2, <2>3, FS_AddElement
    <2> QED BY <1>2, <2>1, <2>4
  <1>3. CASE ~(run.job = j /\ run.due = t)
    BY <1>1, <1>3 DEF RowsFor
  <1> QED BY <1>2, <1>3

(* What counts of a row is its job and the instant it stands for.          *)
LEMMA RestatedRows ==
    ASSUME NEW old, NEW new, DOMAIN new = DOMAIN old,
           \A r \in DOMAIN old : new[r].job = old[r].job /\ new[r].due = old[r].due
    PROVE  \A j, t : RowsFor(j, t, new) = RowsFor(j, t, old)
  BY DEF RowsFor

(* The starts that were cut short can be counted too.                      *)
(* Where a start that was cut short is listed.                             *)
CutAt(x, cuts) == {i \in DOMAIN cuts : cuts[i] = x}

(* The starts that were cut short can be counted.                          *)
LEMMA CutsAreFinite ==
    ASSUME NEW cuts \in Seq(CutStart), NEW x
    PROVE  IsFiniteSet(CutAt(x, cuts)) /\ Cardinality(CutAt(x, cuts)) \in Nat
  <1>1. DOMAIN cuts = 1 .. Len(cuts) /\ Len(cuts) \in Nat
    OBVIOUS
  <1>2. IsFiniteSet(1 .. Len(cuts))
    BY <1>1, FS_Interval
  <1>3. CutAt(x, cuts) \in SUBSET (1 .. Len(cuts))
    BY <1>1 DEF CutAt
  <1>4. IsFiniteSet(CutAt(x, cuts))
    BY <1>2, <1>3, FS_Subset
  <1> QED BY <1>4, FS_CardinalityType

(* What CutShort counts.                                                   *)
LEMMA CutsAreCounted ==
    ASSUME Formed, NEW j, NEW t
    PROVE  CutShort(j, t) = Cardinality(CutAt(<<j, t>>, cut)) /\ CutShort(j, t) \in Nat
  <1>1. cut \in Seq(CutStart)
    BY DEF Formed
  <1>2. CutShort(j, t) = Cardinality(CutAt(<<j, t>>, cut))
    BY DEF CutShort, CutAt
  <1> QED BY <1>1, <1>2, CutsAreFinite

(* The rows in hand are rows of jobs that were due.                        *)
LEMMA HandIsFormed ==
    ASSUME Formed, NEW i \in DOMAIN line
    PROVE  /\ line[i] \in Held /\ line[i].job \in CronJobs
           /\ line[i].due \in Nat /\ line[i].due # Never
           /\ line[i].sched \in SUBSET Instants
  <1>1. line[i] \in Held
    BY DEF Formed
  <1> QED BY <1>1 DEF Held, Instants, Never

(* One start more is cut short: it counts once, for its own instant.       *)
LEMMA OneMoreCut ==
    ASSUME NEW cuts \in Seq(CutStart), NEW start \in CutStart, NEW x,
           NEW more, more = Append(cuts, start)
    PROVE  /\ start = x =>
                Cardinality(CutAt(x, more)) = Cardinality(CutAt(x, cuts)) + 1
           /\ start # x => CutAt(x, more) = CutAt(x, cuts)
  <1> DEFINE n == Len(cuts) + 1
  <1>1. /\ DOMAIN more = DOMAIN cuts \cup {n} /\ n \notin DOMAIN cuts
        /\ \A i \in DOMAIN cuts : more[i] = cuts[i]
        /\ more[n] = start
    OBVIOUS
  <1> HIDE DEF n
  <1>2. IsFiniteSet(CutAt(x, cuts)) /\ Cardinality(CutAt(x, cuts)) \in Nat
    BY CutsAreFinite
  <1>3. CASE start = x
    <2>1. CutAt(x, more) = CutAt(x, cuts) \cup {n}
      BY <1>1, <1>3 DEF CutAt
    <2>2. n \notin CutAt(x, cuts)
      BY <1>1 DEF CutAt
    <2>3. Cardinality(CutAt(x, cuts) \cup {n}) = Cardinality(CutAt(x, cuts)) + 1
      BY <1>2, <2>2, FS_AddElement
    <2> QED BY <1>3, <2>1, <2>3
  <1>4. CASE start # x
    BY <1>1, <1>4 DEF CutAt
  <1> QED BY <1>3, <1>4

----------------------------------------------------------------------------
(* The parts of the invariant that a step can leave alone.                 *)

(* The assumptions, as the proofs use them.                                *)
LEMMA SchedulesAreInstants ==
    /\ IsFiniteSet(CronJobs) /\ Never \notin Instants
    /\ \A s \in Schedules : s \in SUBSET Instants
  BY CronAssumption DEF Never, Instants

(* A job that waits for an instant yet to come is counted nowhere.         *)
LEMMA AheadIsNotCounted ==
    ASSUME NEW runs \in Seq(CronRun), NEW j, NEW t \in Nat, NEW clock \in Nat, clock < t,
           \A r \in DOMAIN runs : runs[r].due <= clock
    PROVE  Cardinality(RowsFor(j, t, runs)) = 0
  <1>1. \A r \in DOMAIN runs : runs[r].due \in Nat
    <2>1. \A r \in DOMAIN runs : runs[r] \in CronRun
      OBVIOUS
    <2> QED BY <2>1 DEF CronRun
  <1>2. RowsFor(j, t, runs) = {}
    BY <1>1 DEF RowsFor
  <1> QED BY <1>2, FS_EmptySet

(* A step that restates rows, and what it may do to the pass and the       *)
(* server, keeps the invariant.                                            *)
LEMMA RestatementKeeps ==
    ASSUME CronInv, UNCHANGED <<now, cronJob, line, firing, touched, cut>>,
           cronRuns' \in Seq(CronRun), DOMAIN cronRuns' = DOMAIN cronRuns,
           \A r \in RunIds : /\ cronRuns'[r].job = cronRuns[r].job
                             /\ cronRuns'[r].due = cronRuns[r].due,
           cronLeft' \in [{"creates", "edits", "manual", "restarts"} -> Nat],
           cronServer' \in {"up", "stopping", "down"}, ticking' \in BOOLEAN,
           line # <<>> => ticking', cronServer' = "down" => ~ticking'
    PROVE  CronInv'
  <1> USE DEF CronInv
  <1>1. Formed'
    BY DEF Formed
  <1>2. OfThePast'
    BY DEF OfThePast, RunIds
  <1>3. HandIsTrue'
    BY DEF HandIsTrue, On
  <1>4. AwaitsTheFirst'
    BY DEF AwaitsTheFirst, RunIds
  <1>5. NextFollowsSchedule'
    BY DEF NextFollowsSchedule, On, InHand
  <1>6. \A j \in CronJobs : NotYetCounted(j)'
    <2>1. \A j, t : RowsFor(j, t, cronRuns') = RowsFor(j, t, cronRuns)
      BY RestatedRows DEF RunIds
    <2>2. \A j, t : CutShort(j, t)' = CutShort(j, t) /\ Begun(j, t)' = Begun(j, t)
      BY DEF CutShort, Begun
    <2> QED BY <2>1, <2>2 DEF NotYetCounted, On
  <1> QED BY <1>1, <1>2, <1>3, <1>4, <1>5, <1>6

(* What the runs do, and what clears, closes or deletes their rows.        *)
RunsMove ==
    \/ TickEnds \/ CronStop
    \/ \E r \in RunIds : CronRunStep(r)
    \/ \E j \in CronJobs : ClearRuns(j)

(* What is spent of the budget is gone, and a budget is left.              *)
LEMMA SpentLeaves ==
    ASSUME Formed, NEW what \in {"creates", "edits", "manual", "restarts"}, CronSpend(what)
    PROVE  /\ cronLeft' \in [{"creates", "edits", "manual", "restarts"} -> Nat]
           /\ cronLeft' # cronLeft
  BY DEF Formed, CronSpend

(* The end of a pass, a stop, a run that moves on and rows that are        *)
(* cleared keep the invariant.                                             *)
LEMMA RunsKeep ==
    ASSUME CronInv, RunsMove
    PROVE  CronInv'
  <1> DEFINE Restated(runs) == /\ runs \in Seq(CronRun) /\ DOMAIN runs = DOMAIN cronRuns
                               /\ \A r \in RunIds : /\ runs[r].job = cronRuns[r].job
                                                    /\ runs[r].due = cronRuns[r].due
  <1>1. Formed /\ AwaitsTheFirst /\ cronRuns \in Seq(CronRun) /\ RunIds = 1 .. Len(cronRuns)
        /\ Len(cronRuns) \in Nat /\ \A r \in RunIds : cronRuns[r] \in CronRun
    BY DEF CronInv, Formed, RunIds
  <1>2. ASSUME NEW f, DOMAIN f = RunIds,
               \A r \in RunIds : /\ f[r] \in CronRun
                                 /\ f[r].job = cronRuns[r].job /\ f[r].due = cronRuns[r].due,
               f = [r \in RunIds |-> f[r]]
        PROVE  Restated(f)
    <2>1. f \in [1 .. Len(cronRuns) -> CronRun]
      BY <1>1, <1>2
    <2>2. f \in Seq(CronRun)
      BY <1>1, <2>1
    <2> QED BY <1>1, <1>2, <2>2 DEF RunIds
  <1> HIDE DEF Restated
  <1>3. CASE TickEnds
    <2>1. Restated(cronRuns')
      BY ZenonT(60), <1>1, <1>2, <1>3 DEF TickEnds, CronRun
    <2> QED BY <1>1, <1>3, <2>1, RestatementKeeps DEF TickEnds, Restated, Formed, AwaitsTheFirst
  <1>4. CASE CronStop
    <2>1. Restated(cronRuns')
      BY ZenonT(60), <1>1, <1>2, <1>4 DEF CronStop, CronRun
    <2> QED BY <1>1, <1>4, <2>1, SpentLeaves, RestatementKeeps
            DEF CronStop, Restated, Formed, AwaitsTheFirst
  <1>5. ASSUME NEW r \in RunIds, CronRunStep(r) PROVE CronInv'
    <2>1. UNCHANGED <<now, cronJob, cronServer, line, ticking, firing, cronLeft, touched, cut>>
      BY <1>5 DEF CronRunStep, StartEnds, RunEnds, SessionLost
    <2>2. PICK run \in CronRun : /\ run.job = cronRuns[r].job /\ run.due = cronRuns[r].due
                                 /\ cronRuns' = [cronRuns EXCEPT ![r] = run]
      <3> DEFINE settled == [cronRuns[r] EXCEPT !.work = "dead",
                               !.row = IF cronRuns[r].row = "open" THEN "closed" ELSE cronRuns[r].row]
      <3>1. cronRuns[r] \in CronRun
        BY <1>1
      <3>2. Settle(r, "dead") = [cronRuns EXCEPT ![r] = settled]
        BY <1>1, <3>1 DEF Settle, CronRun
      <3>3. settled \in CronRun /\ settled.job = cronRuns[r].job /\ settled.due = cronRuns[r].due
        BY <3>1 DEF CronRun
      <3>4. \A work \in {"alive", "dead"} :
              LET run == [cronRuns[r] EXCEPT !.work = work]
              IN  run \in CronRun /\ run.job = cronRuns[r].job /\ run.due = cronRuns[r].due
        BY <3>1 DEF CronRun
      <3> HIDE DEF settled
      <3>5. CASE cronRuns' = Settle(r, "dead")
        BY <3>2, <3>3, <3>5
      <3>6. CASE \E work \in {"alive", "dead"} : cronRuns' = [cronRuns EXCEPT ![r].work = work]
        BY <3>4, <3>6
      <3> QED BY <1>5, <3>5, <3>6 DEF CronRunStep, StartEnds, RunEnds, SessionLost
    <2>3. \A i \in RunIds : cronRuns'[i] = IF i = r THEN run ELSE cronRuns[i]
      BY <1>1, <2>2
    <2>4. \A i \in RunIds : /\ cronRuns'[i] \in CronRun
                             /\ cronRuns'[i].job = cronRuns[i].job /\ cronRuns'[i].due = cronRuns[i].due
      BY <1>1, <2>2, <2>3
    <2>5. DOMAIN cronRuns' = RunIds /\ cronRuns' = [i \in RunIds |-> cronRuns'[i]]
      <3>1. cronRuns' = [i \in DOMAIN cronRuns |-> IF i = r THEN run ELSE cronRuns[i]]
        BY <2>2
      <3> QED BY <3>1, Zenon DEF RunIds
    <2>6. Restated(cronRuns')
      BY <1>2, <2>4, <2>5
    <2> QED BY <1>1, <2>1, <2>6, RestatementKeeps DEF Restated, Formed, AwaitsTheFirst
  <1>6. ASSUME NEW j \in CronJobs, ClearRuns(j) PROVE CronInv'
    <2>1. Restated(cronRuns')
      BY ZenonT(60), <1>1, <1>2, <1>6 DEF ClearRuns, CronRun
    <2> QED BY <1>1, <1>6, <2>1, SpentLeaves, RestatementKeeps
            DEF ClearRuns, Restated, Formed, AwaitsTheFirst
  <1> QED BY <1>3, <1>4, <1>5, <1>6 DEF RunsMove

----------------------------------------------------------------------------
(* The jobs' rows.                                                         *)

(* A route writes a job's row and solves its schedule from now on.         *)
LEMMA RouteKeeps ==
    ASSUME CronInv, NEW j \in CronJobs, NEW row \in JobRow,
           cronJob' = [cronJob EXCEPT ![j] = row],
           row.state = "on" => row.next = NextIn(row.sched, now),
           row.state = "off" => row.next = Never,
           touched' = IF InHand(j) THEN touched \cup {j} ELSE touched \ {j},
           cronLeft' \in [{"creates", "edits", "manual", "restarts"} -> Nat],
           UNCHANGED <<now, cronRuns, cronServer, line, ticking, firing, cut>>
    PROVE  CronInv'
  <1>1. Formed /\ OfThePast /\ HandIsTrue /\ AwaitsTheFirst /\ NextFollowsSchedule
        /\ \A k \in CronJobs : NotYetCounted(k)
    BY DEF CronInv
  <1>2. /\ cronJob'[j] = row /\ \A k \in CronJobs \ {j} : cronJob'[k] = cronJob[k]
        /\ cronJob' \in [CronJobs -> JobRow]
    BY <1>1 DEF Formed
  <1>3. Formed'
    BY <1>1, <1>2 DEF Formed
  <1>4. OfThePast' /\ AwaitsTheFirst'
    BY <1>1 DEF OfThePast, AwaitsTheFirst, RunIds
  <1>5. HandIsTrue'
    <2>1. \A i \in DOMAIN line : line[i].job \in CronJobs
      BY <1>1, HandIsFormed
    <2>2. \A i \in DOMAIN line : line[i].job = j => j \in touched'
      BY DEF InHand
    <2>3. \A k : k # j => (k \in touched' <=> k \in touched)
      OBVIOUS
    <2> QED BY <1>1, <1>2, <2>1, <2>2, <2>3 DEF HandIsTrue, On
  <1>6. NextFollowsSchedule'
    <2> SUFFICES ASSUME NEW k \in CronJobs, k \notin touched' PROVE Follows(k)'
      BY DEF NextFollowsSchedule, Follows, On, InHand
    <2>1. CASE k = j
      BY <1>2, <2>1 DEF Follows, On, InHand
    <2>2. CASE k # j
      <3>1. k \notin touched /\ Follows(k)
        BY <1>1, <2>2 DEF NextFollowsSchedule, Follows
      <3> QED BY <1>2, <2>2, <3>1 DEF Follows, On, InHand
    <2> QED BY <2>1, <2>2
  <1>7. ASSUME NEW k \in CronJobs PROVE NotYetCounted(k)'
    <2>1. \A t : /\ CutShort(k, t)' = CutShort(k, t) /\ Begun(k, t)' = Begun(k, t)
                 /\ RowsFor(k, t, cronRuns') = RowsFor(k, t, cronRuns)
      BY DEF CutShort, Begun
    <2>2. CASE k # j
      BY <1>1, <1>2, <2>1, <2>2 DEF NotYetCounted, On
    <2>3. CASE k = j
      <3> SUFFICES ASSUME row.state = "on", row.next # Never
                   PROVE  Cardinality(RowsFor(j, row.next, cronRuns)) <= CutShort(j, row.next) + Begun(j, row.next)
        BY <1>2, <2>1, <2>3 DEF NotYetCounted, On
      <3>1. row.sched \in SUBSET Instants /\ now \in Nat /\ row.next \in Nat
        BY <1>1 DEF JobRow, Formed
      <3>2. now < row.next
        BY <3>1, NextIsAhead
      <3>3. Cardinality(RowsFor(j, row.next, cronRuns)) = 0
        <4>1. cronRuns \in Seq(CronRun) /\ \A r \in DOMAIN cronRuns : cronRuns[r].due <= now
          BY <1>1 DEF Formed, OfThePast, RunIds
        <4> QED BY <3>1, <3>2, <4>1, AheadIsNotCounted
      <3>4. CutShort(j, row.next) \in Nat
        BY <1>1, CutsAreCounted
      <3> QED BY <3>3, <3>4 DEF Begun
    <2> QED BY <2>2, <2>3
  <1> QED BY <1>3, <1>4, <1>5, <1>6, <1>7 DEF CronInv

(* Creating, editing and removing a job.                                   *)
LEMMA EditKeeps ==
    ASSUME CronInv, NEW j \in CronJobs, CreateJob(j) \/ UpdateJob(j) \/ RemoveJob(j)
    PROVE  CronInv' /\ cronLeft' # cronLeft
  <1>1. Formed /\ cronJob[j] \in JobRow
    BY DEF CronInv, Formed
  <1>2. \E what \in {"creates", "edits"} : TouchJob(j, what)
    BY DEF CreateJob, UpdateJob, RemoveJob
  <1>3. /\ touched' = IF InHand(j) THEN touched \cup {j} ELSE touched \ {j}
        /\ UNCHANGED <<now, cronServer, line, ticking, firing, cut>>
        /\ cronLeft' \in [{"creates", "edits", "manual", "restarts"} -> Nat]
        /\ cronLeft' # cronLeft
    BY <1>1, <1>2, SpentLeaves DEF TouchJob
  <1>4. \E row \in JobRow : /\ cronJob' = [cronJob EXCEPT ![j] = row]
                            /\ row.state = "on" => row.next = NextIn(row.sched, now)
                            /\ row.state = "off" => row.next = Never
    <2>1. ASSUME NEW state \in {"on", "off"}, NEW sched \in Schedules,
                 cronJob' = [cronJob EXCEPT ![j] = Scheduled(state, sched)]
          PROVE  <1>4!:
      <3>1. sched \in SUBSET Instants /\ now \in Nat
        BY <1>1, SchedulesAreInstants DEF Formed
      <3>2. NextIn(sched, now) \in Nat
        BY <3>1, NextIsAhead
      <3>3. Scheduled(state, sched) \in JobRow
        BY <3>1, <3>2 DEF Scheduled, JobRow, Never
      <3> QED BY <2>1, <3>3 DEF Scheduled
    <2>2. ASSUME cronJob' = [cronJob EXCEPT ![j].state = "removed"]
          PROVE  <1>4!:
      <3>1. [cronJob[j] EXCEPT !.state = "removed"] \in JobRow
        BY <1>1 DEF JobRow
      <3>2. [cronJob[j] EXCEPT !.state = "removed"].state = "removed"
        BY <1>1 DEF JobRow
      <3> QED BY <2>2, <3>1, <3>2
    <2> QED BY <2>1, <2>2 DEF CreateJob, UpdateJob, RemoveJob
  <1>5. cronRuns' = cronRuns
    BY DEF CreateJob, UpdateJob, RemoveJob
  <1> QED BY <1>3, <1>4, <1>5, RouteKeeps

----------------------------------------------------------------------------
(* The pass.                                                               *)

(* Time goes on by an instant.                                             *)
LEMMA AdvanceKeeps ==
    ASSUME CronInv, Advance
    PROVE  CronInv'
  <1>1. /\ now' = now + 1 /\ now \in Nat
        /\ UNCHANGED <<cronJob, cronRuns, cronServer, line, ticking, firing, cronLeft, touched, cut>>
        /\ Formed /\ OfThePast /\ HandIsTrue /\ AwaitsTheFirst /\ NextFollowsSchedule
        /\ \A k \in CronJobs : NotYetCounted(k)
    BY DEF CronInv, Advance, Formed
  <1>2. Formed'
    BY <1>1 DEF Formed
  <1>3. OfThePast'
    <2>1. /\ \A r \in RunIds : cronRuns[r].due \in Nat
          /\ \A i \in DOMAIN line : line[i].due \in Nat
      <3>1. \A r \in RunIds : cronRuns[r] \in CronRun
        BY <1>1 DEF RunIds, Formed
      <3> QED BY <1>1, <3>1, HandIsFormed DEF CronRun
    <2>2. /\ \A r \in RunIds : cronRuns[r].due <= now + 1
          /\ \A i \in DOMAIN line : line[i].due <= now + 1
      BY <1>1, <2>1 DEF OfThePast
    <2> QED BY <1>1, <2>2 DEF OfThePast, RunIds
  <1>4. HandIsTrue' /\ AwaitsTheFirst'
    BY <1>1 DEF HandIsTrue, AwaitsTheFirst, On, RunIds
  <1>5. NextFollowsSchedule'
    <2> SUFFICES ASSUME NEW j \in CronJobs, j \notin touched PROVE Follows(j)'
      BY <1>1 DEF NextFollowsSchedule, Follows, On, InHand
    <2>1. Follows(j)
      BY <1>1 DEF NextFollowsSchedule, Follows
    <2>2. cronJob[j].sched \in SUBSET Instants /\ cronJob[j].next \in Nat
      <3>1. cronJob[j] \in JobRow
        BY <1>1 DEF Formed
      <3> QED BY <3>1 DEF JobRow
    <2>3. \/ NextIn(cronJob[j].sched, now + 1) = NextIn(cronJob[j].sched, now)
          \/ /\ NextIn(cronJob[j].sched, now) # Never
             /\ NextIn(cronJob[j].sched, now) <= now + 1
      BY <1>1, <2>2, NextAfterAnInstant
    <2>4. cronJob[j].next <= now => cronJob[j].next <= now + 1
      BY <1>1, <2>2
    <2> QED BY <1>1, <2>1, <2>3, <2>4 DEF Follows, On, InHand
  <1>6. \A k \in CronJobs : NotYetCounted(k)'
    BY <1>1 DEF NotYetCounted, On, CutShort, Begun
  <1> QED BY <1>2, <1>3, <1>4, <1>5, <1>6 DEF CronInv

(* A pass starts and reads what is due.                                    *)
LEMMA TickKeeps ==
    ASSUME CronInv, Tick
    PROVE  CronInv'
  <1> DEFINE dueJobs == {j \in CronJobs : Due(j)}
             read == {[job |-> j, due |-> cronJob[j].next, sched |-> cronJob[j].sched] : j \in dueJobs}
  <1>1. /\ ticking' = TRUE /\ touched' = touched \ dueJobs /\ line' \in SetToSeqs(read)
        /\ UNCHANGED <<now, cronJob, cronServer, firing, cronLeft, cut>>
        /\ cronServer = "up" /\ ~ticking
        /\ cronRuns' = [r \in RunIds |-> IF Left(r) THEN [cronRuns[r] EXCEPT !.row = "closed"]
                                                    ELSE cronRuns[r]]
    BY DEF Tick
  <1>2. /\ Formed /\ OfThePast /\ HandIsTrue /\ AwaitsTheFirst /\ NextFollowsSchedule
        /\ \A k \in CronJobs : NotYetCounted(k)
        /\ line = <<>> /\ firing = 0
    BY <1>1 DEF CronInv, AwaitsTheFirst
  <1>3. /\ cronRuns' \in Seq(CronRun) /\ DOMAIN cronRuns' = RunIds
        /\ \A r \in RunIds : cronRuns'[r].job = cronRuns[r].job /\ cronRuns'[r].due = cronRuns[r].due
    <2>1. RunIds = 1 .. Len(cronRuns) /\ Len(cronRuns) \in Nat /\ \A r \in RunIds : cronRuns[r] \in CronRun
      BY <1>2 DEF Formed, RunIds
    <2>2. \A r \in RunIds : /\ cronRuns'[r] \in CronRun
                            /\ cronRuns'[r].job = cronRuns[r].job /\ cronRuns'[r].due = cronRuns[r].due
      BY <1>1, <2>1 DEF CronRun
    <2>3. cronRuns' \in [1 .. Len(cronRuns) -> CronRun]
      BY <1>1, <2>1, <2>2
    <2> QED BY <2>1, <2>2, <2>3
  <1>4. \A j \in CronJobs : cronJob[j] \in JobRow
    BY <1>2 DEF Formed
  <1>5. IsFiniteSet(read)
    <2>1. IsFiniteSet(dueJobs)
      BY SchedulesAreInstants, FS_Subset
    <2> DEFINE f == [j \in dueJobs |-> [job |-> j, due |-> cronJob[j].next, sched |-> cronJob[j].sched]]
    <2>2. f \in Surjection(dueJobs, read)
      BY DEF Surjection
    <2> QED BY <2>1, <2>2, FS_Surjection
  <1>6. \A job \in read :
          /\ job \in Held /\ job.job \in dueJobs /\ job.due <= now
          /\ job.sched = cronJob[job.job].sched /\ job.due = cronJob[job.job].next
    <2> SUFFICES ASSUME NEW j \in dueJobs
                 PROVE  LET job == [job |-> j, due |-> cronJob[j].next, sched |-> cronJob[j].sched]
                        IN  /\ job \in Held /\ job.job \in dueJobs /\ job.due <= now
                            /\ job.sched = cronJob[job.job].sched /\ job.due = cronJob[job.job].next
      OBVIOUS
    <2>1. cronJob[j] \in JobRow /\ cronJob[j].next # Never /\ cronJob[j].next <= now
      BY <1>4 DEF Due
    <2> QED BY <2>1 DEF Held, JobRow, Instants, Never
  <1>7. /\ line' \in Seq(read) /\ \A a, b \in DOMAIN line' : line'[a] = line'[b] => a = b
    BY <1>1, <1>5, ListsEachOnce
  <1>8. \A i \in DOMAIN line' : line'[i] \in read
    BY <1>7
  <1> HIDE DEF read
  <1>9. Formed'
    <2>1. line' \in Seq(Held)
      BY <1>6, <1>7
    <2> QED BY <1>1, <1>2, <1>3, <2>1 DEF Formed
  <1>10. OfThePast'
    <2>1. \A a, b \in DOMAIN line' : line'[a].job = line'[b].job => a = b
      <3>1. ASSUME NEW x \in read, NEW y \in read, x.job = y.job PROVE x = y
        BY <1>6, <3>1 DEF Held
      <3> QED BY <1>7, <1>8, <3>1
    <2>2. \A r \in RunIds : cronRuns'[r].due <= now
      BY <1>2, <1>3 DEF OfThePast
    <2> QED BY <1>1, <1>3, <1>6, <1>8, <2>1, <2>2 DEF OfThePast, RunIds
  <1>11. HandIsTrue'
    BY <1>1, <1>6, <1>8 DEF HandIsTrue, On, Due
  <1>12. AwaitsTheFirst'
    BY <1>1, <1>2 DEF AwaitsTheFirst
  <1>13. NextFollowsSchedule'
    <2> SUFFICES ASSUME NEW j \in CronJobs, j \notin touched' PROVE Follows(j)'
      BY DEF NextFollowsSchedule, Follows, On, InHand
    <2>1. CASE Due(j)
      BY <1>1, <2>1 DEF Follows, Due, On
    <2>2. CASE ~Due(j)
      <3>1. Follows(j) /\ ~InHand(j)
        BY <1>1, <1>2, <2>2 DEF NextFollowsSchedule, Follows, InHand
      <3> QED BY <1>1, <3>1 DEF Follows, On
    <2> QED BY <2>1, <2>2
  <1>14. ASSUME NEW j \in CronJobs PROVE NotYetCounted(j)'
    <2>1. \A t : RowsFor(j, t, cronRuns') = RowsFor(j, t, cronRuns)
      BY <1>3, RestatedRows DEF RunIds
    <2>2. \A t : CutShort(j, t)' = CutShort(j, t) /\ Begun(j, t)' = Begun(j, t)
      BY <1>1, <1>2 DEF CutShort, Begun
    <2> QED BY <1>1, <1>2, <2>1, <2>2 DEF NotYetCounted, On
  <1> QED BY <1>9, <1>10, <1>11, <1>12, <1>13, <1>14 DEF CronInv

(* The job a pass holds first is done with: its schedule is solved anew    *)
(* from the row in hand, or the job is gone.                               *)
LEMMA HeadHandled ==
    ASSUME CronInv, line # <<>>, NEW j, j = Head(line).job,
           line' = Tail(line), firing' = 0,
           WriteNext(j, Head(line).sched) \/ cronJob' = [cronJob EXCEPT ![j].state = "removed"],
           UNCHANGED <<now, cronServer, ticking, cronLeft, touched, cut>>,
           cronRuns' \in Seq(CronRun), \A r \in DOMAIN cronRuns' : cronRuns'[r].due <= now,
           \A k \in CronJobs \ {j} : \A t : RowsFor(k, t, cronRuns') = RowsFor(k, t, cronRuns)
    PROVE  CronInv'
  <1>1. /\ Formed /\ OfThePast /\ HandIsTrue /\ AwaitsTheFirst /\ NextFollowsSchedule
        /\ \A k \in CronJobs : NotYetCounted(k)
    BY DEF CronInv
  <1>2. /\ j \in CronJobs /\ 1 \in DOMAIN line /\ line[1] = Head(line)
        /\ Head(line).sched \in SUBSET Instants /\ now \in Nat
    BY <1>1, HandIsFormed DEF Formed
  <1>3. /\ line' \in Seq(Held)
        /\ \A i \in DOMAIN line' : i + 1 \in DOMAIN line /\ line'[i] = line[i + 1] /\ i \in Nat /\ i + 1 # 1
        /\ \A i \in DOMAIN line : i # 1 => i - 1 \in DOMAIN line' /\ line'[i - 1] = line[i]
    <2>1. line \in Seq(Held)
      BY <1>1 DEF Formed
    <2> QED BY <2>1, WithoutTheFirst
  <1>4. \A i \in DOMAIN line' : line'[i].job \in CronJobs \ {j}
    BY <1>1, <1>2, <1>3, HandIsFormed DEF OfThePast
  <1>5. \A k \in CronJobs \ {j} : InHand(k)' <=> InHand(k)
    <2> TAKE k \in CronJobs \ {j}
    <2>1. ASSUME NEW i \in DOMAIN line, line[i].job = k PROVE InHand(k)'
      <3>1. i # 1
        BY <1>2, <2>1
      <3>2. i - 1 \in DOMAIN line' /\ line'[i - 1].job = k
        BY <1>3, <2>1, <3>1
      <3> QED BY <3>2, Zenon DEF InHand
    <2>2. ASSUME NEW i \in DOMAIN line', line'[i].job = k PROVE InHand(k)
      <3>1. i + 1 \in DOMAIN line /\ line[i + 1].job = k
        BY <1>3, <2>2
      <3> QED BY <3>1, Zenon DEF InHand
    <2> QED BY <2>1, <2>2, Zenon DEF InHand
  <1>6. /\ cronJob' \in [CronJobs -> JobRow]
        /\ \A k \in CronJobs \ {j} : cronJob'[k] = cronJob[k]
        /\ On(j)' => On(j) /\ cronJob'[j].sched = cronJob[j].sched
                           /\ cronJob'[j].next = NextIn(Head(line).sched, now)
        /\ cronJob'[j].state = "off" => cronJob[j].state = "off"
    <2>1. cronJob \in [CronJobs -> JobRow] /\ cronJob[j] \in JobRow
      BY <1>1, <1>2 DEF Formed
    <2>2. NextIn(Head(line).sched, now) \in Nat
      BY <1>2, NextIsAhead
    <2>3. CASE Exists(j) /\ cronJob' = [cronJob EXCEPT ![j].next = NextIn(Head(line).sched, now)]
      BY <2>1, <2>2, <2>3, <1>2 DEF JobRow, On
    <2>4. CASE ~Exists(j) /\ cronJob' = cronJob
      BY <2>1, <2>4, <1>2 DEF Exists, On
    <2>5. CASE cronJob' = [cronJob EXCEPT ![j].state = "removed"]
      BY <2>1, <2>5, <1>2 DEF JobRow, On
    <2> QED BY <2>3, <2>4, <2>5 DEF WriteNext
  <1>7. Formed'
    BY <1>1, <1>3, <1>6 DEF Formed
  <1>8. OfThePast'
    <2>1. \A i \in DOMAIN line' : line'[i].due <= now
      BY <1>1, <1>3 DEF OfThePast
    <2>2. \A a, b \in DOMAIN line' : line'[a].job = line'[b].job => a = b
      <3> SUFFICES ASSUME NEW a \in DOMAIN line', NEW b \in DOMAIN line', line'[a].job = line'[b].job
                   PROVE  a = b
        OBVIOUS
      <3>1. a + 1 = b + 1
        BY <1>1, <1>3 DEF OfThePast
      <3> QED BY <1>3, <3>1
    <2> QED BY <2>1, <2>2 DEF OfThePast, RunIds
  <1>9. HandIsTrue'
    BY <1>1, <1>3, <1>4, <1>6 DEF HandIsTrue, On
  <1>10. AwaitsTheFirst'
    BY <1>1 DEF AwaitsTheFirst
  <1>11. NextFollowsSchedule'
    <2> SUFFICES ASSUME NEW k \in CronJobs, k \notin touched PROVE Follows(k)'
      BY DEF NextFollowsSchedule, Follows, On, InHand
    <2>1. CASE k = j
      <3>1. /\ cronJob[j].state # "off"
            /\ On(j) => cronJob[j].sched = Head(line).sched
        BY <1>1, <1>2, <2>1 DEF HandIsTrue
      <3> QED BY <1>6, <2>1, <3>1 DEF Follows, On
    <2>2. CASE k # j
      <3>1. Follows(k) /\ cronJob'[k] = cronJob[k] /\ (InHand(k)' <=> InHand(k))
        BY <1>1, <1>5, <1>6, <2>2 DEF NextFollowsSchedule, Follows
      <3> QED BY <3>1 DEF Follows, On
    <2> QED BY <2>1, <2>2
  <1>12. ASSUME NEW k \in CronJobs PROVE NotYetCounted(k)'
    <2>1. \A t : CutShort(k, t)' = CutShort(k, t) /\ CutShort(k, t) \in Nat
      <3>1. \A t : CutShort(k, t)' = CutShort(k, t)
        BY DEF CutShort
      <3>2. \A t : CutShort(k, t) \in Nat
        BY <1>1, CutsAreCounted
      <3> QED BY <3>1, <3>2
    <2>2. CASE k = j
      <3> DEFINE t == cronJob'[j].next
      <3> SUFFICES ASSUME On(j)', t # Never
                   PROVE  Cardinality(RowsFor(j, t, cronRuns')) <= CutShort(j, t)
        BY <2>1, <2>2 DEF NotYetCounted, Begun
      <3>1. t \in Nat /\ now < t
        <4>1. t = NextIn(Head(line).sched, now)
          BY <1>6
        <4>2. /\ NextIn(Head(line).sched, now) \in Nat
              /\ NextIn(Head(line).sched, now) # Never => NextIn(Head(line).sched, now) > now
          BY <1>2, NextIsAhead
        <4> QED BY <1>2, <4>1, <4>2
      <3> HIDE DEF t
      <3>2. Cardinality(RowsFor(j, t, cronRuns')) = 0
        BY <1>2, <3>1, AheadIsNotCounted
      <3> QED BY <2>1, <2>2, <3>2
    <2>3. CASE k # j
      <3>1. \A t : Begun(k, t) = 0 /\ Begun(k, t)' = 0
        BY <2>3 DEF Begun
      <3>2. NotYetCounted(k) /\ cronJob'[k] = cronJob[k]
            /\ \A t : RowsFor(k, t, cronRuns') = RowsFor(k, t, cronRuns)
        BY <1>1, <1>6, <2>3
      <3> QED BY <2>1, <3>1, <3>2 DEF NotYetCounted, On
    <2> QED BY <2>2, <2>3
  <1> QED BY <1>7, <1>8, <1>9, <1>10, <1>11, <1>12 DEF CronInv

(* A job deleted meanwhile, a run that is skipped, a start that is over.   *)
LEMMA FireKeeps ==
    ASSUME CronInv, FireGone \/ FireSkipped \/ FireDone
    PROVE  CronInv'
  <1>1. /\ Formed /\ OfThePast /\ AwaitsTheFirst
        /\ cronRuns \in Seq(CronRun) /\ \A r \in DOMAIN cronRuns : cronRuns[r].due <= now
    BY DEF CronInv, Formed, OfThePast, RunIds
  <1>2. line # <<>>
    BY <1>1 DEF FireGone, FireSkipped, FireDone, CanFire, AwaitsTheFirst
  <1>3. 1 \in DOMAIN line /\ line[1] = Head(line) /\ Head(line) \in Held
        /\ Head(line).job \in CronJobs /\ Head(line).due \in Nat /\ Head(line).due <= now
    BY <1>1, <1>2, HandIsFormed DEF Formed, OfThePast
  <1>4. CASE FireGone
    BY <1>1, <1>2, <1>4, HeadHandled DEF FireGone, CanFire
  <1>5. CASE FireDone
    BY <1>1, <1>2, <1>5, HeadHandled DEF FireDone
  <1>6. CASE FireSkipped
    <2> DEFINE run == NewRun(Head(line).job, Head(line).due, "skipped", "none")
    <2>1. run \in CronRun /\ run.job = Head(line).job /\ run.due = Head(line).due
      BY <1>1, <1>3 DEF NewRun, CronRun, Formed
    <2>2. cronRuns' = Append(cronRuns, run)
      BY <1>6 DEF FireSkipped, Insert
    <2> HIDE DEF run
    <2>3. /\ cronRuns' \in Seq(CronRun) /\ \A r \in DOMAIN cronRuns' : cronRuns'[r].due <= now
          /\ \A k \in CronJobs \ {Head(line).job} : \A t : RowsFor(k, t, cronRuns') = RowsFor(k, t, cronRuns)
      <3>1. \A k \in CronJobs \ {Head(line).job} : \A t : RowsFor(k, t, cronRuns') = RowsFor(k, t, cronRuns)
        BY <1>1, <2>1, <2>2, OneMoreRow
      <3>2. /\ DOMAIN cronRuns' = DOMAIN cronRuns \cup {Len(cronRuns) + 1}
            /\ \A r \in DOMAIN cronRuns : cronRuns'[r] = cronRuns[r]
            /\ cronRuns'[Len(cronRuns) + 1] = run
        BY <1>1, <2>2
      <3> QED BY <1>1, <1>3, <2>1, <2>2, <3>1, <3>2
    <2> QED BY <1>2, <1>6, <2>3, HeadHandled DEF FireSkipped, CanFire
  <1> QED BY <1>4, <1>5, <1>6

(* A run is recorded, and what is held of it: the row of a start the pass  *)
(* awaits, or one that stands for no instant.                              *)
LEMMA StartKeeps ==
    ASSUME CronInv, NEW run \in CronRun, cronRuns' = Append(cronRuns, run),
           \/ /\ line # <<>> /\ firing = 0 /\ firing' = Len(cronRuns) + 1
              /\ run.job = Head(line).job /\ run.due = Head(line).due
           \/ firing' = firing /\ run.due = Never,
           cronLeft' \in [{"creates", "edits", "manual", "restarts"} -> Nat],
           UNCHANGED <<now, cronJob, cronServer, line, ticking, touched, cut>>
    PROVE  CronInv'
  <1>1. /\ Formed /\ OfThePast /\ HandIsTrue /\ AwaitsTheFirst /\ NextFollowsSchedule
        /\ \A k \in CronJobs : NotYetCounted(k)
        /\ cronRuns \in Seq(CronRun) /\ Len(cronRuns) \in Nat /\ now \in Nat
    BY DEF CronInv, Formed
  <1>2. /\ cronRuns' \in Seq(CronRun)
        /\ DOMAIN cronRuns' = DOMAIN cronRuns \cup {Len(cronRuns) + 1}
        /\ \A r \in DOMAIN cronRuns : cronRuns'[r] = cronRuns[r]
        /\ cronRuns'[Len(cronRuns) + 1] = run
    BY <1>1
  <1>3. run.due <= now
    <2>1. CASE run.due = Never
      BY <1>1, <2>1 DEF Never
    <2>2. CASE line # <<>> /\ run.due = Head(line).due
      <3>1. line \in Seq(Held)
        BY <1>1 DEF Formed
      <3>2. 1 \in DOMAIN line /\ line[1] = Head(line)
        BY <2>2, <3>1, WithoutTheFirst
      <3> QED BY <1>1, <2>2, <3>2 DEF OfThePast
    <2> QED BY <2>1, <2>2
  <1>4. Formed'
    <2>1. firing' \in Nat
      BY <1>1 DEF Formed
    <2> QED BY <1>1, <1>2, <2>1 DEF Formed
  <1>5. OfThePast' /\ HandIsTrue' /\ NextFollowsSchedule'
    BY <1>1, <1>2, <1>3 DEF OfThePast, HandIsTrue, NextFollowsSchedule, On, InHand, RunIds
  <1>6. AwaitsTheFirst'
    <2>1. firing # 0 => firing' = firing
      BY <1>1
    <2> QED BY <1>1, <1>2, <2>1 DEF AwaitsTheFirst, RunIds
  <1>7. ASSUME NEW k \in CronJobs PROVE NotYetCounted(k)'
    <2> DEFINE t == cronJob[k].next
               n == Cardinality(RowsFor(k, t, cronRuns))
    <2> SUFFICES ASSUME On(k), t # Never
                 PROVE  Cardinality(RowsFor(k, t, cronRuns')) <= CutShort(k, t) + Begun(k, t)'
      BY DEF NotYetCounted, On, CutShort
    <2>1. n <= CutShort(k, t) + Begun(k, t) /\ n \in Nat /\ CutShort(k, t) \in Nat
      BY <1>1, CutsAreCounted, RowsAreCounted DEF NotYetCounted
    <2>2. IF run.job = k /\ run.due = t
          THEN Cardinality(RowsFor(k, t, cronRuns')) = n + 1
          ELSE Cardinality(RowsFor(k, t, cronRuns')) = n
      BY <1>1, OneMoreRow
    <2> HIDE DEF t, n
    <2>3. CASE firing' = firing /\ run.due = Never
      <3>1. Begun(k, t)' = Begun(k, t)
        BY <2>3 DEF Begun, t
      <3> QED BY <2>1, <2>2, <2>3, <3>1
    <2>4. CASE /\ line # <<>> /\ firing = 0 /\ firing' = Len(cronRuns) + 1
               /\ run.job = Head(line).job /\ run.due = Head(line).due
      <3>1. /\ Begun(k, t) = 0
            /\ Begun(k, t)' = IF run.job = k /\ run.due = t THEN 1 ELSE 0
        BY <1>1, <2>4 DEF Begun, t
      <3> QED BY <2>1, <2>2, <3>1
    <2> QED BY <2>3, <2>4
  <1> QED BY <1>4, <1>5, <1>6, <1>7 DEF CronInv

(* The pass starts a run; a person does.                                   *)
LEMMA RunStarts ==
    ASSUME CronInv, FireStart \/ \E j \in CronJobs : RunNow(j)
    PROVE  CronInv'
  <1>1. Formed /\ AwaitsTheFirst /\ now \in Nat
    BY DEF CronInv, Formed
  <1>2. CASE FireStart
    <2> DEFINE run == NewRun(Head(line).job, Head(line).due, "open", "starting")
    <2>1. line # <<>> /\ firing = 0 /\ firing' = Len(cronRuns) + 1 /\ cronRuns' = Append(cronRuns, run)
          /\ UNCHANGED <<now, cronJob, cronServer, line, ticking, cronLeft, touched, cut>>
      BY <1>2 DEF FireStart, CanFire, Insert
    <2>2. Head(line).job \in CronJobs /\ Head(line).due \in Nat
      <3>1. line \in Seq(Held)
        BY <1>1 DEF Formed
      <3>2. 1 \in DOMAIN line /\ line[1] = Head(line)
        BY <2>1, <3>1, WithoutTheFirst
      <3> QED BY <1>1, <3>2, HandIsFormed
    <2>3. run \in CronRun /\ run.job = Head(line).job /\ run.due = Head(line).due
      BY <1>1, <2>2 DEF NewRun, CronRun
    <2>4. cronLeft' \in [{"creates", "edits", "manual", "restarts"} -> Nat]
      BY <1>1, <2>1 DEF Formed
    <2> QED BY <2>1, <2>3, <2>4, StartKeeps
  <1>3. ASSUME NEW j \in CronJobs, RunNow(j) PROVE CronInv'
    <2> DEFINE run == NewRun(j, Never, "open", "starting")
    <2>1. firing' = firing /\ cronRuns' = Append(cronRuns, run)
          /\ UNCHANGED <<now, cronJob, cronServer, line, ticking, touched, cut>>
      BY <1>3 DEF RunNow, Insert
    <2>2. run \in CronRun /\ run.due = Never
      BY <1>1 DEF NewRun, CronRun, Never
    <2>3. cronLeft' \in [{"creates", "edits", "manual", "restarts"} -> Nat]
      BY <1>1, <1>3, SpentLeaves DEF RunNow
    <2> QED BY <2>1, <2>2, <2>3, StartKeeps
  <1> QED BY <1>2, <1>3

----------------------------------------------------------------------------
(* The end of the process, and the next boot.                              *)

(* What is down with the process: the pass, and the start it awaited,      *)
(* which counts as cut short from now on.                                  *)
LEMMA DownKeeps ==
    ASSUME CronInv, CronGoesDown, cronLeft' \in [{"creates", "edits", "manual", "restarts"} -> Nat]
    PROVE  CronInv'
  <1>1. /\ cronServer' = "down" /\ line' = <<>> /\ ticking' = FALSE /\ firing' = 0
        /\ cut' = IF firing = 0 THEN cut ELSE Append(cut, <<Head(line).job, Head(line).due>>)
        /\ cronRuns' = [r \in RunIds |-> IF cronRuns[r].work = "none" THEN cronRuns[r]
                                         ELSE [cronRuns[r] EXCEPT !.work = "dead"]]
        /\ UNCHANGED <<now, cronJob, touched>>
    BY DEF CronGoesDown
  <1>2. /\ Formed /\ OfThePast /\ HandIsTrue /\ AwaitsTheFirst /\ NextFollowsSchedule
        /\ \A k \in CronJobs : NotYetCounted(k)
    BY DEF CronInv
  <1>3. /\ cronRuns' \in Seq(CronRun) /\ DOMAIN cronRuns' = RunIds
        /\ \A r \in RunIds : cronRuns'[r].job = cronRuns[r].job /\ cronRuns'[r].due = cronRuns[r].due
    <2>1. RunIds = 1 .. Len(cronRuns) /\ Len(cronRuns) \in Nat /\ \A r \in RunIds : cronRuns[r] \in CronRun
      BY <1>2 DEF Formed, RunIds
    <2>2. \A r \in RunIds : /\ cronRuns'[r] \in CronRun
                            /\ cronRuns'[r].job = cronRuns[r].job /\ cronRuns'[r].due = cronRuns[r].due
      BY <1>1, <2>1 DEF CronRun
    <2>3. cronRuns' \in [1 .. Len(cronRuns) -> CronRun]
      BY <1>1, <2>1, <2>2
    <2> QED BY <2>1, <2>2, <2>3
  <1>4. firing # 0 => Head(line).job \in CronJobs /\ Head(line).due \in Nat
    <2> SUFFICES ASSUME firing # 0 PROVE Head(line).job \in CronJobs /\ Head(line).due \in Nat
      OBVIOUS
    <2>1. line \in Seq(Held) /\ line # <<>>
      BY <1>2 DEF Formed, AwaitsTheFirst
    <2>2. 1 \in DOMAIN line /\ line[1] = Head(line)
      BY <2>1, WithoutTheFirst
    <2> QED BY <1>2, <2>2, HandIsFormed
  <1>5. Formed'
    <2>1. line' \in Seq(Held)
      BY <1>1
    <2>2. cut' \in Seq(CutStart)
      BY SMTT(40), <1>1, <1>2, <1>4 DEF Formed, CutStart
    <2> QED BY <1>1, <1>2, <1>3, <2>1, <2>2 DEF Formed
  <1>6. OfThePast' /\ HandIsTrue'
    BY <1>1, <1>2, <1>3 DEF OfThePast, HandIsTrue, RunIds
  <1>7. AwaitsTheFirst'
    BY <1>1 DEF AwaitsTheFirst
  <1>8. NextFollowsSchedule'
    <2> SUFFICES ASSUME NEW j \in CronJobs, j \notin touched PROVE Follows(j)'
      BY <1>1 DEF NextFollowsSchedule, Follows, On, InHand
    <2>1. Follows(j)
      BY <1>2 DEF NextFollowsSchedule, Follows
    <2>2. ASSUME On(j), NEW i \in DOMAIN line, line[i].job = j
          PROVE  cronJob[j].next # Never /\ cronJob[j].next <= now
      <3>1. cronJob[j].next = line[i].due
        BY <1>2, <2>2 DEF HandIsTrue
      <3> QED BY <1>2, <3>1, HandIsFormed DEF OfThePast
    <2> QED BY <1>1, <2>1, <2>2 DEF Follows, On, InHand
  <1>9. ASSUME NEW k \in CronJobs PROVE NotYetCounted(k)'
    <2> DEFINE t == cronJob[k].next
    <2>1. Cardinality(CutAt(<<k, t>>, cut')) = Cardinality(CutAt(<<k, t>>, cut)) + Begun(k, t)
      <3>1. cut \in Seq(CutStart) /\ Cardinality(CutAt(<<k, t>>, cut)) \in Nat
        BY <1>2, CutsAreFinite DEF Formed
      <3>2. CASE firing = 0
        BY <1>1, <3>1, <3>2 DEF Begun
      <3>3. CASE firing # 0
        <4> DEFINE start == <<Head(line).job, Head(line).due>>
                   here  == <<k, t>>
        <4>1. start \in CutStart /\ cut' = Append(cut, start)
          BY <1>1, <1>4, <3>3 DEF CutStart
        <4>2. Begun(k, t) = IF start = here THEN 1 ELSE 0
          BY <3>3 DEF Begun
        <4> HIDE DEF start, here
        <4>3. /\ start = here => Cardinality(CutAt(here, cut')) = Cardinality(CutAt(here, cut)) + 1
              /\ start # here => CutAt(here, cut') = CutAt(here, cut)
          BY ZenonT(40), <3>1, <4>1, OneMoreCut
        <4>4. Cardinality(CutAt(here, cut')) = Cardinality(CutAt(here, cut)) + Begun(k, t)
          BY <3>1, <4>2, <4>3 DEF here
        <4> QED BY <4>4 DEF here
      <3> QED BY <3>2, <3>3
    <2>2. CutShort(k, t) = Cardinality(CutAt(<<k, t>>, cut)) /\ CutShort(k, t)' = Cardinality(CutAt(<<k, t>>, cut'))
          /\ CutShort(k, t) \in Nat
      BY <1>1, <1>2, CutsAreCounted DEF CutShort, CutAt
    <2>3. RowsFor(k, t, cronRuns') = RowsFor(k, t, cronRuns)
      BY <1>3, RestatedRows DEF RunIds
    <2>4. Begun(k, t)' = 0 /\ Begun(k, t) \in Nat
      BY <1>1 DEF Begun
    <2>5. NotYetCounted(k)
      BY <1>2
    <2>6. t' = t
      BY <1>1
    <2> QED BY <1>1, <2>1, <2>2, <2>3, <2>4, <2>5 DEF NotYetCounted, On
  <1> QED BY <1>5, <1>6, <1>7, <1>8, <1>9 DEF CronInv

(* The rows a boot leaves: one more for every job that missed its instant  *)
(* by too much, and none for the others.                                   *)
LEMMA BootRows ==
    ASSUME CronInv, CronBoot
    PROVE  /\ cronRuns' \in Seq(CronRun)
           /\ \A r \in DOMAIN cronRuns' : cronRuns'[r].due <= now
           /\ \A k \in CronJobs : ~TooLate(k) =>
                \A t : RowsFor(k, t, cronRuns') = RowsFor(k, t, cronRuns)
           /\ \A k \in CronJobs : TooLate(k) =>
                Cardinality(RowsFor(k, cronJob[k].next, cronRuns'))
                = Cardinality(RowsFor(k, cronJob[k].next, cronRuns)) + 1
  <1> DEFINE late == {j \in CronJobs : TooLate(j)}
             rows == {NewRun(j, cronJob[j].next, "skipped", "none") : j \in late}
             kept == [r \in RunIds |-> IF cronRuns[r].row = "open"
                                       THEN [cronRuns[r] EXCEPT !.row = "closed"] ELSE cronRuns[r]]
  <1>1. PICK skipped \in SetToSeqs(rows) : cronRuns' = kept \o skipped
    BY DEF CronBoot
  <1>2. /\ Formed /\ OfThePast /\ now \in Nat
        /\ cronRuns \in Seq(CronRun) /\ RunIds = 1 .. Len(cronRuns) /\ Len(cronRuns) \in Nat
        /\ \A r \in RunIds : cronRuns[r] \in CronRun
    BY DEF CronInv, Formed, RunIds
  <1>3. /\ kept \in Seq(CronRun) /\ DOMAIN kept = RunIds /\ Len(kept) = Len(cronRuns)
        /\ \A r \in RunIds : kept[r].job = cronRuns[r].job /\ kept[r].due = cronRuns[r].due
    <2>1. \A r \in RunIds : /\ kept[r] \in CronRun
                            /\ kept[r].job = cronRuns[r].job /\ kept[r].due = cronRuns[r].due
      BY <1>2 DEF CronRun
    <2>2. kept \in [1 .. Len(cronRuns) -> CronRun]
      BY <1>2, <2>1
    <2> QED BY <1>2, <2>1, <2>2
  <1>4. \A j \in late : /\ NewRun(j, cronJob[j].next, "skipped", "none") \in CronRun
                        /\ cronJob[j].next <= now
    <2> TAKE j \in late
    <2>1. cronJob[j] \in JobRow /\ cronJob[j].next <= now
      BY <1>2 DEF TooLate, Due, Formed
    <2> QED BY <1>2, <2>1 DEF NewRun, CronRun, JobRow
  <1>5. \A run \in rows : run \in CronRun /\ run.job \in late /\ run.due = cronJob[run.job].next
                          /\ run.due <= now
    BY <1>4 DEF NewRun
  <1>6. IsFiniteSet(rows)
    <2>1. IsFiniteSet(late)
      BY SchedulesAreInstants, FS_Subset
    <2> DEFINE f == [j \in late |-> NewRun(j, cronJob[j].next, "skipped", "none")]
    <2>2. f \in Surjection(late, rows)
      BY DEF Surjection
    <2> QED BY <2>1, <2>2, FS_Surjection
  <1>7. /\ skipped \in Seq(rows) /\ \A x \in rows : \E i \in DOMAIN skipped : skipped[i] = x
        /\ \A a, b \in DOMAIN skipped : skipped[a] = skipped[b] => a = b
    BY <1>1, <1>6, ListsEachOnce
  <1>8. \A j \in late : \E x \in rows : x.job = j
    <2> TAKE j \in late
    <2>1. NewRun(j, cronJob[j].next, "skipped", "none") \in rows
      OBVIOUS
    <2>2. NewRun(j, cronJob[j].next, "skipped", "none").job = j
      BY DEF NewRun
    <2> QED BY <2>1, <2>2, Zenon
  <1>9. \A x, y \in rows : x.job = y.job => x = y
    BY DEF NewRun
  <1> HIDE DEF rows, kept
  <1>10. /\ skipped \in Seq(CronRun) /\ Len(skipped) \in Nat /\ DOMAIN skipped = 1 .. Len(skipped)
         /\ \A i \in DOMAIN skipped : skipped[i] \in rows
    BY <1>5, <1>7
  <1>11. /\ cronRuns' \in Seq(CronRun)
         /\ DOMAIN cronRuns' = 1 .. (Len(cronRuns) + Len(skipped))
         /\ \A r \in RunIds : cronRuns'[r] = kept[r]
         /\ \A i \in DOMAIN skipped : cronRuns'[Len(cronRuns) + i] = skipped[i]
    <2>1. /\ kept \o skipped \in Seq(CronRun)
          /\ DOMAIN (kept \o skipped) = 1 .. (Len(kept) + Len(skipped))
          /\ \A i \in 1 .. Len(kept) : (kept \o skipped)[i] = kept[i]
          /\ \A i \in 1 .. Len(skipped) : (kept \o skipped)[Len(kept) + i] = skipped[i]
      BY <1>3, <1>10, OneAfterTheOther
    <2> QED BY <1>1, <1>2, <1>3, <1>10, <2>1
  <1>12. /\ \A r \in DOMAIN cronRuns' : r \in RunIds \/ \E i \in DOMAIN skipped : r = Len(cronRuns) + i
         /\ RunIds \subseteq DOMAIN cronRuns'
         /\ \A i \in DOMAIN skipped : Len(cronRuns) + i \in DOMAIN cronRuns' \ RunIds
    <2>1. ASSUME NEW r \in DOMAIN cronRuns', r \notin RunIds
          PROVE  r - Len(cronRuns) \in DOMAIN skipped /\ r = Len(cronRuns) + (r - Len(cronRuns))
      BY <1>2, <1>10, <1>11, <2>1
    <2>2. RunIds \subseteq DOMAIN cronRuns'
      BY <1>2, <1>10, <1>11
    <2>3. \A i \in DOMAIN skipped : Len(cronRuns) + i \in DOMAIN cronRuns' \ RunIds
      BY <1>2, <1>10, <1>11
    <2> QED BY <2>1, <2>2, <2>3, Zenon
  <1>13. \A r \in DOMAIN cronRuns' : cronRuns'[r].due <= now
    BY <1>2, <1>3, <1>5, <1>10, <1>11, <1>12 DEF OfThePast
  <1>14. ASSUME NEW k \in CronJobs, ~TooLate(k), NEW t
         PROVE  RowsFor(k, t, cronRuns') = RowsFor(k, t, cronRuns)
    <2>1. \A i \in DOMAIN skipped : cronRuns'[Len(cronRuns) + i].job # k
      BY <1>5, <1>10, <1>11, <1>14
    <2>2. \A r \in RunIds : cronRuns'[r].job = cronRuns[r].job /\ cronRuns'[r].due = cronRuns[r].due
      BY <1>3, <1>11
    <2> QED BY <1>12, <2>1, <2>2 DEF RowsFor, RunIds
  <1>15. ASSUME NEW k \in CronJobs, TooLate(k)
         PROVE  Cardinality(RowsFor(k, cronJob[k].next, cronRuns'))
                = Cardinality(RowsFor(k, cronJob[k].next, cronRuns)) + 1
    <2> DEFINE t == cronJob[k].next
    <2>1. PICK i \in DOMAIN skipped : skipped[i].job = k
      BY <1>7, <1>8, <1>15
    <2>2. skipped[i].due = t
      BY <1>5, <1>10, <2>1
    <2>3. \A a \in DOMAIN skipped : skipped[a].job = k => a = i
      BY <1>7, <1>9, <1>10, <2>1
    <2>4. \A r \in RunIds : cronRuns'[r].job = cronRuns[r].job /\ cronRuns'[r].due = cronRuns[r].due
      BY <1>3, <1>11
    <2> HIDE DEF t
    <2>5. /\ RowsFor(k, t, cronRuns') = RowsFor(k, t, cronRuns) \cup {Len(cronRuns) + i}
          /\ Len(cronRuns) + i \notin RowsFor(k, t, cronRuns)
      BY <1>11, <1>12, <2>1, <2>2, <2>3, <2>4 DEF RowsFor, RunIds
    <2>6. IsFiniteSet(RowsFor(k, t, cronRuns))
      BY <1>2, RowsAreCounted
    <2>7. Cardinality(RowsFor(k, t, cronRuns) \cup {Len(cronRuns) + i})
          = Cardinality(RowsFor(k, t, cronRuns)) + 1
      BY <2>5, <2>6, FS_AddElement
    <2> QED BY <2>5, <2>7 DEF t
  <1> QED BY <1>11, <1>13, <1>14, <1>15

(* The boot keeps it: jobs that waited too long wait for an instant ahead. *)
LEMMA BootKeeps ==
    ASSUME CronInv, CronBoot
    PROVE  CronInv'
  <1>1. /\ cronServer = "down" /\ cronServer' = "up"
        /\ cronJob' = [j \in CronJobs |->
                         IF On(j) /\ (cronJob[j].next = Never \/ TooLate(j))
                         THEN [cronJob[j] EXCEPT !.next = NextIn(cronJob[j].sched, now)]
                         ELSE cronJob[j]]
        /\ touched' = {j \in touched : ~TooLate(j) /\ cronJob[j].next # Never}
        /\ UNCHANGED <<now, line, ticking, firing, cronLeft, cut>>
    BY DEF CronBoot
  <1>2. /\ Formed /\ OfThePast /\ AwaitsTheFirst /\ NextFollowsSchedule
        /\ \A k \in CronJobs : NotYetCounted(k)
        /\ line = <<>> /\ firing = 0 /\ now \in Nat
    BY <1>1 DEF CronInv, AwaitsTheFirst, Formed
  <1>3. ASSUME NEW j \in CronJobs
        PROVE  /\ cronJob[j] \in JobRow /\ cronJob'[j] \in JobRow
               /\ cronJob'[j].state = cronJob[j].state /\ cronJob'[j].sched = cronJob[j].sched
               /\ \/ cronJob'[j].next = cronJob[j].next /\ ~(On(j) /\ (cronJob[j].next = Never \/ TooLate(j)))
                  \/ cronJob'[j].next = NextIn(cronJob[j].sched, now) /\ On(j)
    <2>1. cronJob[j] \in JobRow
      BY <1>2 DEF Formed
    <2>2. NextIn(cronJob[j].sched, now) \in Nat
      <3>1. cronJob[j].sched \in SUBSET Instants
        BY <2>1 DEF JobRow
      <3> QED BY <1>2, <3>1, NextIsAhead
    <2>3. CASE On(j) /\ (cronJob[j].next = Never \/ TooLate(j))
      <3>1. cronJob'[j] = [cronJob[j] EXCEPT !.next = NextIn(cronJob[j].sched, now)]
        BY <1>1, <2>3
      <3> QED BY <2>1, <2>2, <2>3, <3>1 DEF JobRow
    <2>4. CASE ~(On(j) /\ (cronJob[j].next = Never \/ TooLate(j)))
      BY <1>1, <2>1, <2>4
    <2> QED BY <2>3, <2>4
  <1>4. Formed'
    <2>1. cronJob' \in [CronJobs -> JobRow]
      BY <1>1, <1>3
    <2> QED BY <1>1, <1>2, <2>1, BootRows DEF Formed
  <1>5. OfThePast' /\ HandIsTrue' /\ AwaitsTheFirst'
    BY <1>1, <1>2, BootRows DEF OfThePast, HandIsTrue, AwaitsTheFirst, RunIds
  <1>6. NextFollowsSchedule'
    <2> SUFFICES ASSUME NEW j \in CronJobs, j \notin touched' PROVE Follows(j)'
      BY DEF NextFollowsSchedule, Follows, On, InHand
    <2>1. CASE cronJob'[j].next = NextIn(cronJob[j].sched, now) /\ On(j)
      BY <1>1, <1>3, <2>1 DEF Follows, On, InHand
    <2>2. CASE cronJob'[j].next = cronJob[j].next /\ ~(On(j) /\ (cronJob[j].next = Never \/ TooLate(j)))
      <3>1. CASE j \notin touched
        <4>1. Follows(j)
          BY <1>2, <3>1 DEF NextFollowsSchedule, Follows
        <4> QED BY <1>1, <1>3, <2>2, <4>1 DEF Follows, On, InHand
      <3>2. CASE j \in touched
        BY <1>1, <1>3, <2>2, <3>2 DEF Follows, On, InHand, TooLate, Due
      <3> QED BY <3>1, <3>2
    <2> QED BY <1>3, <2>1, <2>2
  <1>7. ASSUME NEW k \in CronJobs PROVE NotYetCounted(k)'
    <2> DEFINE t == cronJob'[k].next
    <2>1. \A u : Begun(k, u)' = 0 /\ Begun(k, u) = 0
      BY <1>1, <1>2 DEF Begun
    <2>2. \A u : CutShort(k, u)' = CutShort(k, u) /\ CutShort(k, u) \in Nat
      <3>1. \A u : CutShort(k, u)' = CutShort(k, u)
        BY <1>1 DEF CutShort
      <3>2. \A u : CutShort(k, u) \in Nat
        BY <1>2, CutsAreCounted
      <3> QED BY <3>1, <3>2
    <2> SUFFICES ASSUME On(k)', t # Never
                 PROVE  Cardinality(RowsFor(k, t, cronRuns')) <= CutShort(k, t)
      BY <2>1, <2>2 DEF NotYetCounted
    <2>3. CASE t = NextIn(cronJob[k].sched, now)
      <3>1. cronJob[k].sched \in SUBSET Instants
        BY <1>3 DEF JobRow
      <3>2. /\ NextIn(cronJob[k].sched, now) \in Nat
            /\ NextIn(cronJob[k].sched, now) # Never => NextIn(cronJob[k].sched, now) > now
        BY <1>2, <3>1, NextIsAhead
      <3>3. t \in Nat /\ now < t
        BY <1>2, <2>3, <3>2
      <3> HIDE DEF t
      <3>4. Cardinality(RowsFor(k, t, cronRuns')) = 0
        BY <1>2, <3>3, BootRows, AheadIsNotCounted
      <3> QED BY <2>2, <3>4
    <2>4. CASE t = cronJob[k].next /\ ~(On(k) /\ (cronJob[k].next = Never \/ TooLate(k)))
      <3>1. On(k) /\ ~TooLate(k)
        BY <1>3, <2>4 DEF On
      <3>2. RowsFor(k, t, cronRuns') = RowsFor(k, t, cronRuns)
        BY <3>1, BootRows
      <3>3. Cardinality(RowsFor(k, t, cronRuns)) <= CutShort(k, t) + 0
        BY <1>2, <2>1, <2>4, <3>1 DEF NotYetCounted
      <3> HIDE DEF t
      <3> QED BY <2>2, <3>2, <3>3
    <2> QED BY <1>3, <2>3, <2>4
  <1> QED BY <1>4, <1>5, <1>6, <1>7 DEF CronInv

----------------------------------------------------------------------------
(* The theorems.                                                           *)

(* The invariant holds when the scheduler starts.                          *)
LEMMA CronStarts == CronInit => CronInv
  <1> SUFFICES ASSUME CronInit PROVE CronInv
    OBVIOUS
  <1>1. PICK scenario \in CronScenarios :
          /\ cronJob = [j \in CronJobs |->
               [state |-> IF scenario.first[j] = {} THEN "unborn" ELSE "on",
                sched |-> scenario.first[j], next |-> NextIn(scenario.first[j], 0)]]
          /\ cronLeft = [what \in {"creates", "edits", "manual", "restarts"} |-> scenario[what]]
    BY DEF CronInit
  <1>2. /\ scenario.first \in [CronJobs -> Schedules \cup {{}}]
        /\ scenario["creates"] \in Nat /\ scenario["edits"] \in Nat
        /\ scenario["manual"] \in Nat /\ scenario["restarts"] \in Nat
    BY CronAssumption
  <1>3. cronLeft \in [{"creates", "edits", "manual", "restarts"} -> Nat]
    BY <1>1, <1>2
  <1>4. ASSUME NEW j \in CronJobs
        PROVE  cronJob[j] \in JobRow /\ cronJob[j].state # "off"
               /\ cronJob[j].next = NextIn(cronJob[j].sched, 0)
    <2>1. scenario.first[j] \in SUBSET Instants
      BY <1>2, SchedulesAreInstants
    <2>2. NextIn(scenario.first[j], 0) \in Nat
      BY <2>1, NextIsAhead
    <2> QED BY <1>1, <2>1, <2>2 DEF JobRow
  <1>5. /\ now = 0 /\ cronRuns = <<>> /\ cronServer = "up" /\ line = <<>> /\ ticking = FALSE
        /\ firing = 0 /\ touched = {} /\ cut = <<>>
    BY DEF CronInit
  <1>6. Formed
    <2>1. cronJob \in [CronJobs -> JobRow]
      BY <1>1, <1>4
    <2>2. cronRuns \in Seq(CronRun) /\ line \in Seq(Held) /\ cut \in Seq(CutStart)
      <3>1. \A S : <<>> \in Seq(S)
        OBVIOUS
      <3> QED BY <1>5, <3>1
    <2> QED BY <1>3, <1>5, <2>1, <2>2 DEF Formed
  <1>7. OfThePast /\ HandIsTrue /\ AwaitsTheFirst
    BY <1>5 DEF OfThePast, HandIsTrue, AwaitsTheFirst, RunIds
  <1>8. NextFollowsSchedule
    BY <1>4, <1>5 DEF NextFollowsSchedule
  <1>9. ASSUME NEW k \in CronJobs PROVE NotYetCounted(k)
    <2> DEFINE t == cronJob[k].next
    <2>1. RowsFor(k, t, cronRuns) = {}
      BY <1>5 DEF RowsFor
    <2>2. CutShort(k, t) \in Nat
      BY <1>6, CutsAreCounted
    <2>3. Begun(k, t) = 0
      BY <1>5 DEF Begun
    <2> QED BY <2>1, <2>2, <2>3, FS_EmptySet DEF NotYetCounted
  <1> QED BY <1>6, <1>7, <1>8, <1>9 DEF CronInv

(* Every step keeps it.                                                    *)
LEMMA CronStep == CronInv /\ [CronNext]_cronVars => CronInv'
  <1> SUFFICES ASSUME CronInv, [CronNext]_cronVars PROVE CronInv'
    OBVIOUS
  <1>1. Formed /\ AwaitsTheFirst
    BY DEF CronInv
  <1>2. CASE CronTickStep
    BY <1>2, TickKeeps, FireKeeps, RunStarts, RunsKeep DEF CronTickStep, RunsMove
  <1>3. ASSUME NEW j \in CronJobs, CronJobStep(j) PROVE CronInv'
    BY <1>3, EditKeeps, RunStarts, RunsKeep DEF CronJobStep, RunsMove
  <1>4. CASE CronCrash \/ CronExit
    <2>1. CronGoesDown /\ cronLeft' \in [{"creates", "edits", "manual", "restarts"} -> Nat]
      BY <1>1, <1>4, SpentLeaves DEF CronCrash, CronExit, Formed
    <2> QED BY <2>1, DownKeeps
  <1>5. CASE UNCHANGED cronVars
    <2>1. UNCHANGED <<now, cronJob, cronRuns, cronServer, line, ticking, firing, cronLeft, touched, cut>>
      BY <1>5 DEF cronVars
    <2> QED BY <1>1, <2>1, RestatementKeeps DEF Formed, AwaitsTheFirst
  <1> QED BY <1>2, <1>3, <1>4, <1>5, AdvanceKeeps, RunsKeep, BootKeeps DEF CronNext, RunsMove

(* The jobs' rows, the rows in hand and the rows of the runs agree.        *)
THEOREM CronInvariant == CronSpec => []CronInv
  <1> QED BY CronStarts, CronStep, PTL DEF CronSpec

(* A job's next run is the next instant of its own schedule or one already *)
(* due, and a paused job has none, unless it was edited under a tick.      *)
THEOREM NextIsOfTheSchedule == CronSpec => []NextFollowsSchedule
  <1>1. CronInv => NextFollowsSchedule
    BY DEF CronInv
  <1> QED BY <1>1, CronInvariant, PTL

(* A due instant is accounted for exactly once.                            *)
Accounted(j) ==
    LET t == cronJob[j].next IN
    (/\ Due(j) /\ cronJob'[j].next # t
     /\ cronJob'[j].state = "on" /\ cronJob'[j].sched = cronJob[j].sched
     /\ cronLeft' = cronLeft
     /\ j \notin touched)
    => Cardinality(RowsFor(j, t, cronRuns')) \in 1 .. 1 + CutShort(j, t)

(* Every step that moves a job's schedule on leaves a row for the instant. *)
LEMMA AccountStep ==
    ASSUME CronInv, [CronNext]_cronVars, NEW j \in CronJobs
    PROVE  Accounted(j)
  <1> DEFINE t == cronJob[j].next
             n == Cardinality(RowsFor(j, t, cronRuns))
  <1> SUFFICES ASSUME Due(j), cronJob'[j].next # t, cronJob'[j].state = "on",
                      cronLeft' = cronLeft, j \notin touched
               PROVE  Cardinality(RowsFor(j, t, cronRuns')) \in 1 .. 1 + CutShort(j, t)
    BY DEF Accounted
  <1>1. /\ Formed /\ OfThePast /\ HandIsTrue /\ AwaitsTheFirst /\ NotYetCounted(j)
        /\ cronRuns \in Seq(CronRun)
    BY DEF CronInv, Formed
  <1>2. CutShort(j, t) \in Nat /\ n \in Nat /\ n <= CutShort(j, t) + Begun(j, t)
    BY <1>1, CutsAreCounted, RowsAreCounted DEF NotYetCounted, Due
  <1>3. CASE FireSkipped \/ FireDone \/ FireGone
    <2> DEFINE job == Head(line)
    <2>1. line # <<>> /\ line \in Seq(Held)
      BY <1>1, <1>3 DEF FireSkipped, FireDone, FireGone, CanFire, AwaitsTheFirst, Formed
    <2>2. 1 \in DOMAIN line /\ line[1] = job
      BY <2>1, WithoutTheFirst
    <2>3. job.job \in CronJobs /\ job.due \in Nat
      BY <1>1, <2>2, HandIsFormed
    <2>4. job.job = j /\ Exists(j)
      <3>1. \A k \in CronJobs : k # job.job => cronJob'[k] = cronJob[k]
        BY <1>1, <1>3 DEF FireSkipped, FireDone, FireGone, WriteNext, Formed
      <3>2. job.job = j
        BY <3>1
      <3>3. Exists(j)
        BY DEF Due, On, Exists
      <3> QED BY <3>2, <3>3
    <2>5. job.due = t
      BY <1>1, <2>2, <2>4 DEF HandIsTrue, Due
    <2>6. CASE FireSkipped
      <3> DEFINE run == NewRun(job.job, job.due, "skipped", "none")
      <3>1. cronRuns' = Append(cronRuns, run) /\ firing = 0
        BY <2>6 DEF FireSkipped, Insert, CanFire
      <3>2. run \in CronRun /\ run.job = j /\ run.due = t
        BY <1>1, <2>3, <2>4, <2>5 DEF NewRun, CronRun, Formed
      <3>3. Cardinality(RowsFor(j, t, cronRuns')) = n + 1
        BY <1>1, <3>1, <3>2, OneMoreRow
      <3>4. Begun(j, t) = 0
        BY <3>1 DEF Begun
      <3> HIDE DEF t, n
      <3> QED BY <1>2, <3>3, <3>4
    <2>7. CASE FireDone
      <3>1. cronRuns' = cronRuns /\ firing # 0
        BY <2>7 DEF FireDone
      <3>2. firing \in RowsFor(j, t, cronRuns)
        BY <1>1, <2>4, <2>5, <3>1 DEF AwaitsTheFirst, RowsFor, RunIds
      <3>3. n >= 1
        BY <1>1, <3>2, RowsAreCounted
      <3>4. Begun(j, t) = 1
        BY <2>4, <2>5, <3>1 DEF Begun
      <3> HIDE DEF t
      <3>5. Cardinality(RowsFor(j, t, cronRuns')) = n
        BY <3>1
      <3> HIDE DEF n
      <3> QED BY <1>2, <3>3, <3>4, <3>5
    <2>8. CASE FireGone
      BY <2>4, <2>8 DEF FireGone
    <2> QED BY <1>3, <2>6, <2>7, <2>8
  <1>4. CASE CronBoot
    <2>1. TooLate(j)
      BY <1>4 DEF CronBoot, Due
    <2>2. Cardinality(RowsFor(j, t, cronRuns')) = n + 1
      BY <1>4, <2>1, BootRows
    <2>3. Begun(j, t) = 0
      BY <1>1, <1>4 DEF CronBoot, AwaitsTheFirst, Begun
    <2> HIDE DEF t, n
    <2> QED BY <1>2, <2>2, <2>3
  <1>5. ASSUME NEW k \in CronJobs, CronJobStep(k), cronJob' # cronJob PROVE FALSE
    <2>1. CreateJob(k) \/ UpdateJob(k) \/ RemoveJob(k)
      BY <1>5 DEF CronJobStep, ClearRuns, RunNow
    <2> QED BY <2>1, EditKeeps
  <1>6. cronJob' # cronJob
    OBVIOUS
  <1>7. CASE UNCHANGED cronVars
    BY <1>6, <1>7 DEF cronVars
  <1>8. CASE CronTickStep
    BY <1>3, <1>6, <1>8 DEF CronTickStep, Tick, FireStart, TickEnds
  <1>9. ASSUME NEW r \in RunIds, CronRunStep(r) PROVE FALSE
    BY <1>6, <1>9 DEF CronRunStep, StartEnds, RunEnds, SessionLost
  <1>10. CASE Advance \/ CronStop \/ CronCrash \/ CronExit
    BY <1>6, <1>10 DEF Advance, CronStop, CronCrash, CronExit, CronGoesDown
  <1> QED BY <1>4, <1>5, <1>6, <1>7, <1>8, <1>9, <1>10 DEF CronNext

(* A due instant is accounted for exactly once: the schedule of a job that *)
(* nobody edits moves on from it with one row for it, a run or a skip, and *)
(* one for each start the process did not survive.                         *)
THEOREM DueIsAccountedOnce == CronSpec => AccountedOnce
  <1>1. CronInv /\ [CronNext]_cronVars => [\A j \in CronJobs : Accounted(j)]_cronVars
    BY AccountStep
  <1>2. CronSpec => [][\A j \in CronJobs : Accounted(j)]_cronVars
    BY <1>1, CronInvariant, PTL DEF CronSpec
  <1> QED BY <1>2 DEF AccountedOnce, Accounted

-----------------------------------------------------------------------------
(* Remote runs.                                                            *)

Row     == [status : {"none", "starting", "running", "succeeded", "failed", "throttled"},
            ref : Refs \cup {None},
            error : {"none", "not_configured", "cap", "refused", "lost", "error", "ended",
                     "gone", "rejected", "incomplete", "restart"}]
Sending == [to : Refs \cup {None}, state : {"none", "sent", "taken", "abandoned", "over"},
            answer : Refs \cup {"none", "gone", "cap", "refused"}]

RowsAreRows ==
    /\ delivery \in [Deliveries -> Row]
    /\ known \in Refs \cup {None}
    /\ request \in [Deliveries -> Sending]
    /\ loop \in [Deliveries -> {"off", "idle", "asking"}]
    /\ reply \in [Deliveries -> {"none", "held", "still_running", "awaiting", "complete",
                                 "error", "ended", "gone"}]

(* Who may settle a row: its dispatch while it is starting and this server *)
(* lives, its loop once it runs.  A row has a ref from then on.            *)
OneInCharge ==
    \A d \in Deliveries :
        /\ Dispatching(d) => delivery[d].status = "starting" /\ host # "down"
        /\ loop[d] # "off" => delivery[d].status = "running"
        /\ delivery[d].status \in {"none", "starting"} => delivery[d].ref = None
        /\ delivery[d].status = "running" => delivery[d].ref # None

ChargeInv == RowsAreRows /\ OneInCharge

(* What a step does to rows that are settled.                              *)
SettledRowsStay == \A d \in Deliveries : Settled(d) => delivery'[d] = delivery[d]

----------------------------------------------------------------------------
LEMMA ChargeStarts == RemoteInit => ChargeInv
  BY RemoteAssumption
  DEF RemoteInit, ChargeInv, RowsAreRows, OneInCharge, Row, Sending, NoRequest, Dispatching

(* Settling a row leaves a row, and the others.                            *)
LEMMA SettledRow ==
    ASSUME RowsAreRows, NEW d \in Deliveries,
           NEW status \in {"succeeded", "failed", "throttled"},
           NEW error \in {"none", "not_configured", "cap", "refused", "lost", "error", "ended",
                          "gone", "rejected", "incomplete", "restart"}
    PROVE  SettledAs(d, status, error) \in [Deliveries -> Row]
  <1>1. delivery[d] \in Row
    BY DEF RowsAreRows
  <1>2. [delivery[d] EXCEPT !.status = status, !.error = error] \in Row
    BY <1>1 DEF Row
  <1>3. SettledAs(d, status, error)
          = [delivery EXCEPT ![d] = [delivery[d] EXCEPT !.status = status, !.error = error]]
    BY DEF RowsAreRows, SettledAs
  <1> QED BY <1>2, <1>3 DEF RowsAreRows

(* The dispatch.                                                           *)
LEMMA DeliverCharge ==
    ASSUME ChargeInv, NEW d \in Deliveries, Deliver(d)
    PROVE  ChargeInv' /\ SettledRowsStay
  <1>1. RowsAreRows'
    <2>1. CASE routing
      <3>1. /\ delivery' = [delivery EXCEPT ![d].status = "starting"]
            /\ request' = [request EXCEPT ![d] = [to |-> known, state |-> "sent", answer |-> "none"]]
            /\ UNCHANGED <<known, loop, reply>>
        BY <2>1 DEF Deliver
      <3>2. delivery[d] \in Row
        BY DEF ChargeInv, RowsAreRows
      <3>3. [delivery[d] EXCEPT !.status = "starting"] \in Row
        BY <3>2 DEF Row
      <3>4. [to |-> known, state |-> "sent", answer |-> "none"] \in Sending
        BY DEF ChargeInv, RowsAreRows, Sending
      <3> QED BY <3>1, <3>3, <3>4 DEF ChargeInv, RowsAreRows
    <2>2. CASE ~routing
      BY <2>2, SettledRow DEF ChargeInv, RowsAreRows, Deliver
    <2> QED BY <2>1, <2>2
  <1>2. OneInCharge'
    BY DEF ChargeInv, RowsAreRows, OneInCharge, Deliver, SettledAs, Row, Sending, Dispatching
  <1>3. SettledRowsStay
    BY DEF ChargeInv, RowsAreRows, SettledRowsStay, Settled, Deliver, SettledAs, Row
  <1> QED BY <1>1, <1>2, <1>3 DEF ChargeInv

(* The answer to a dispatch settles its row or hands it to the wait loop.  *)
LEMMA AnsweredCharge ==
    ASSUME ChargeInv, NEW d \in Deliveries, DispatchAnswered(d)
    PROVE  ChargeInv' /\ SettledRowsStay
  <1>0. None \notin Refs
    BY RemoteAssumption
  <1>1. delivery[d].status = "starting" /\ loop[d] = "off" /\ host # "down"
    BY DEF ChargeInv, OneInCharge, DispatchAnswered, Dispatching, RowsAreRows
  <1>2. RowsAreRows'
    <2>1. delivery[d] \in Row /\ NoRequest \in Sending
          /\ [to |-> None, state |-> "sent", answer |-> "none"] \in Sending
      BY DEF ChargeInv, RowsAreRows, NoRequest, Sending
    <2>2. \A r \in Refs : [delivery[d] EXCEPT !.status = "running", !.ref = r] \in Row
      BY <2>1 DEF Row
    <2>3. \A r \in Refs : [delivery EXCEPT ![d].status = "running", ![d].ref = r] \in [Deliveries -> Row]
      BY <2>2 DEF ChargeInv, RowsAreRows
    <2>4. /\ SettledAs(d, "throttled", "cap") \in [Deliveries -> Row]
          /\ SettledAs(d, "failed", "refused") \in [Deliveries -> Row]
      BY SettledRow DEF ChargeInv
    <2>5. delivery' \in [Deliveries -> Row] /\ known' \in Refs \cup {None}
      <3>1. \/ /\ known' \in Refs
               /\ delivery' = [delivery EXCEPT ![d].status = "running", ![d].ref = known']
            \/ known' = None /\ delivery' = delivery
            \/ /\ known' = known
               /\ \/ delivery' = SettledAs(d, "throttled", "cap")
                  \/ delivery' = SettledAs(d, "failed", "refused")
        BY DEF DispatchAnswered
      <3> QED BY ZenonT(30), <2>3, <2>4, <3>1 DEF ChargeInv, RowsAreRows
    <2>6. request' \in [Deliveries -> Sending]
      BY <2>1 DEF ChargeInv, RowsAreRows, DispatchAnswered
    <2>7. loop' \in [Deliveries -> {"off", "idle", "asking"}] /\ reply' = reply
      BY DEF ChargeInv, RowsAreRows, DispatchAnswered
    <2> QED BY <2>5, <2>6, <2>7 DEF ChargeInv, RowsAreRows
  <1>3. OneInCharge'
    BY <1>0, <1>1 DEF ChargeInv, RowsAreRows, OneInCharge, DispatchAnswered, SettledAs, Row, Sending,
                NoRequest, Dispatching
  <1>4. SettledRowsStay
    BY <1>1 DEF ChargeInv, RowsAreRows, SettledRowsStay, Settled, DispatchAnswered, SettledAs, Row
  <1> QED BY <1>2, <1>3, <1>4 DEF ChargeInv

(* A dispatch that is lost settles the row that nothing else looks after.  *)
LEMMA LostCharge ==
    ASSUME ChargeInv, NEW d \in Deliveries, DispatchLost(d)
    PROVE  ChargeInv' /\ SettledRowsStay
  <1>1. delivery[d].status = "starting" /\ loop[d] = "off"
    BY DEF ChargeInv, OneInCharge, DispatchLost, Dispatching, RowsAreRows
  <1>2. RowsAreRows'
    <2>1. delivery' \in [Deliveries -> Row]
      BY SettledRow DEF ChargeInv, DispatchLost
    <2>2. request' \in [Deliveries -> Sending]
      <3>1. request[d] \in Sending
        BY DEF ChargeInv, RowsAreRows
      <3>2. \A state \in {"abandoned", "over"} : [request[d] EXCEPT !.state = state] \in Sending
        BY <3>1 DEF Sending
      <3> QED BY <3>2 DEF ChargeInv, RowsAreRows, DispatchLost
    <2> QED BY <2>1, <2>2 DEF ChargeInv, RowsAreRows, DispatchLost
  <1>3. OneInCharge'
    BY <1>1 DEF ChargeInv, RowsAreRows, OneInCharge, DispatchLost, SettledAs, Row, Sending,
                Dispatching
  <1>4. SettledRowsStay
    BY <1>1 DEF ChargeInv, RowsAreRows, SettledRowsStay, Settled, DispatchLost, SettledAs, Row
  <1> QED BY <1>2, <1>3, <1>4 DEF ChargeInv

----------------------------------------------------------------------------
(* Steps that touch neither rows nor loops nor this server: what the       *)
(* target makes of a request keeps it sent, taken or over.                 *)
LEMMA TargetCharge ==
    ASSUME ChargeInv, UNCHANGED <<delivery, known, loop, host>>,
           request' \in [Deliveries -> Sending],
           reply' \in [Deliveries -> {"none", "held", "still_running", "awaiting", "complete",
                                      "error", "ended", "gone"}],
           \A d \in Deliveries : Dispatching(d)' => Dispatching(d)
    PROVE  ChargeInv' /\ SettledRowsStay
  <1>1. RowsAreRows'
    BY DEF ChargeInv, RowsAreRows
  <1>2. OneInCharge'
    BY DEF ChargeInv, OneInCharge
  <1>3. SettledRowsStay
    BY DEF SettledRowsStay
  <1> QED BY <1>1, <1>2, <1>3 DEF ChargeInv

(* What the other backend makes of a request leaves the rows alone.        *)
LEMMA TakeCharge ==
    ASSUME ChargeInv, NEW d \in Deliveries, TakeStep(d)
    PROVE  ChargeInv' /\ SettledRowsStay
  <1>1. UNCHANGED <<delivery, known, loop, host, reply>>
    BY DEF TakeStep, TargetAccepts, TargetRefuses
  <1>2. PICK answer \in Refs \cup {"none", "gone", "cap", "refused"} : Answer(d, answer)
    <2>1. CASE TargetAccepts(d)
      BY <2>1 DEF TargetAccepts, Unused, ChargeInv, RowsAreRows, Sending
    <2>2. CASE TargetRefuses(d)
      BY <2>2 DEF TargetRefuses
    <2> QED BY <2>1, <2>2 DEF TakeStep
  <1>3. request[d] \in Sending /\ request[d].state \in {"sent", "abandoned"}
    BY DEF ChargeInv, RowsAreRows, TakeStep, TargetAccepts, TargetRefuses
  <1>4. PICK after \in Sending :
          /\ request' = [request EXCEPT ![d] = after]
          /\ after.state = IF request[d].state = "abandoned" THEN "over" ELSE "taken"
    <2> DEFINE after == [request[d] EXCEPT
                           !.state = IF request[d].state = "abandoned" THEN "over" ELSE "taken",
                           !.answer = answer]
    <2>1. after \in Sending
      BY <1>3 DEF Sending
    <2>2. after.state = IF request[d].state = "abandoned" THEN "over" ELSE "taken"
      BY <1>3 DEF Sending
    <2>3. request' = [request EXCEPT ![d] = after]
      BY <1>2 DEF Answer, ChargeInv, RowsAreRows
    <2> HIDE DEF after
    <2> QED BY <2>1, <2>2, <2>3
  <1>5. request' \in [Deliveries -> Sending]
    BY <1>4 DEF ChargeInv, RowsAreRows
  <1>6. \A e \in Deliveries : Dispatching(e)' => Dispatching(e)
    BY <1>3, <1>4 DEF ChargeInv, RowsAreRows, Dispatching
  <1>7. reply' \in [Deliveries -> {"none", "held", "still_running", "awaiting", "complete",
                                   "error", "ended", "gone"}]
    BY <1>1 DEF ChargeInv, RowsAreRows
  <1> QED BY <1>1, <1>5, <1>6, <1>7, TargetCharge

(* An event on a session: who waits for it hears of it.                    *)
LEMMA SessionCharge ==
    ASSUME ChargeInv, NEW r \in Refs,
           TargetStep(r) \/ Parks(r) \/ SessionEnds(r) \/ PersonPrompts(r)
    PROVE  ChargeInv' /\ SettledRowsStay
  <1>1. UNCHANGED <<delivery, known, request, loop, host>>
    BY DEF TargetStep, QueuedPromptStarts, Approved, TurnEnds, Parks, SessionEnds, PersonPrompts,
           HereUnchanged
  <1>2. reply' = reply \/ \E answer \in {"awaiting", "complete", "error", "ended"} : Hear(r, answer)
    BY DEF TargetStep, QueuedPromptStarts, Approved, TurnEnds, Parks, SessionEnds, PersonPrompts
  <1>3. reply' \in [Deliveries -> {"none", "held", "still_running", "awaiting", "complete",
                                   "error", "ended", "gone"}]
    BY <1>2 DEF ChargeInv, RowsAreRows, Hear
  <1>4. request' \in [Deliveries -> Sending] /\ \A d \in Deliveries : Dispatching(d)' => Dispatching(d)
    BY <1>1 DEF ChargeInv, RowsAreRows, Dispatching
  <1> QED BY <1>1, <1>3, <1>4, TargetCharge

----------------------------------------------------------------------------
(* The wait loop: whatever it does to a row it does to a running one, and  *)
(* it is off when the row is settled.                                      *)
LEMMA LoopGoesOn ==
    ASSUME ChargeInv, NEW d \in Deliveries, loop[d] # "off",
           UNCHANGED <<delivery, known, request, host>>,
           NEW state \in {"idle", "asking"}, loop' = [loop EXCEPT ![d] = state],
           reply' \in [Deliveries -> {"none", "held", "still_running", "awaiting", "complete",
                                      "error", "ended", "gone"}]
    PROVE  ChargeInv' /\ SettledRowsStay
  <1>1. RowsAreRows'
    BY DEF ChargeInv, RowsAreRows
  <1>2. OneInCharge'
    BY DEF ChargeInv, RowsAreRows, OneInCharge, Dispatching
  <1>3. SettledRowsStay
    BY DEF SettledRowsStay
  <1> QED BY <1>1, <1>2, <1>3 DEF ChargeInv

(* A wait loop that has its answer settles an open row, and ends.          *)
LEMMA LoopSettles ==
    ASSUME ChargeInv, NEW d \in Deliveries, loop[d] # "off",
           UNCHANGED <<known, request, host>>, EndLoop(d),
           NEW status \in {"succeeded", "failed"},
           NEW error \in {"none", "not_configured", "error", "ended", "gone", "rejected"},
           delivery' = SettledAs(d, status, error)
    PROVE  ChargeInv' /\ SettledRowsStay
  <1>1. delivery[d].status = "running" /\ ~Dispatching(d) /\ delivery[d] \in Row
    BY DEF ChargeInv, OneInCharge, RowsAreRows
  <1>2. delivery' \in [Deliveries -> Row]
    BY SettledRow DEF ChargeInv
  <1>3. RowsAreRows'
    BY <1>2 DEF ChargeInv, RowsAreRows, EndLoop
  <1>4. \A e \in Deliveries :
          /\ delivery'[e].status = IF e = d THEN status ELSE delivery[e].status
          /\ delivery'[e].ref = delivery[e].ref
          /\ e # d => delivery'[e] = delivery[e]
    BY <1>1 DEF ChargeInv, RowsAreRows, SettledAs, Row
  <1>5. \A e \in Deliveries : loop'[e] = IF e = d THEN "off" ELSE loop[e]
    BY DEF ChargeInv, RowsAreRows, EndLoop
  <1>6. OneInCharge'
    BY <1>1, <1>4, <1>5 DEF ChargeInv, OneInCharge, Dispatching
  <1>7. SettledRowsStay
    BY <1>1, <1>4 DEF SettledRowsStay, Settled
  <1> QED BY <1>3, <1>6, <1>7 DEF ChargeInv

(* Every answer, lost call and refusal a wait loop meets keeps who is in charge.*)
LEMMA WaitCharge ==
    ASSUME ChargeInv, NEW d \in Deliveries, WaitStep(d) \/ AskLost(d) \/ AskRejected(d)
    PROVE  ChargeInv' /\ SettledRowsStay
  <1>1. loop[d] # "off"
    BY DEF WaitStep, Ask, HeldTimesOut, Heard, AskLost, AskRejected
  <1>2. CASE Ask(d)
    <2>1. CASE routing
      <3>1. AtOnce(delivery[d].ref) \in {"held", "awaiting", "complete", "error", "ended", "gone"}
        BY DEF AtOnce
      <3> QED BY <1>1, <1>2, <2>1, <3>1, LoopGoesOn DEF Ask, ChargeInv, RowsAreRows
    <2>2. CASE ~routing
      BY <1>1, <1>2, <2>2, LoopSettles DEF Ask
    <2> QED BY <2>1, <2>2
  <1>3. CASE HeldTimesOut(d)
    <2>1. loop' = [loop EXCEPT ![d] = "asking"]
      BY <1>3 DEF HeldTimesOut, ChargeInv, RowsAreRows
    <2> QED BY <1>1, <1>3, <2>1, LoopGoesOn DEF HeldTimesOut, ChargeInv, RowsAreRows
  <1>4. CASE Heard(d)
    <2>1. CASE reply[d] \in {"still_running", "awaiting"}
      BY <1>1, <1>4, <2>1, LoopGoesOn DEF Heard, ChargeInv, RowsAreRows
    <2>2. CASE reply[d] \notin {"still_running", "awaiting"}
      BY <1>1, <1>4, <2>2, LoopSettles DEF Heard
    <2> QED BY <2>1, <2>2
  <1>5. CASE AskLost(d)
    BY <1>1, <1>5, LoopGoesOn DEF AskLost, ChargeInv, RowsAreRows
  <1>6. CASE AskRejected(d)
    <2>1. CASE rejections[d] + 1 >= MaxRejections
      BY <1>1, <1>6, <2>1, LoopSettles DEF AskRejected
    <2>2. CASE ~(rejections[d] + 1 >= MaxRejections)
      BY <1>1, <1>6, <2>2, LoopGoesOn DEF AskRejected, ChargeInv, RowsAreRows
    <2> QED BY <2>1, <2>2
  <1> QED BY <1>2, <1>3, <1>4, <1>5, <1>6 DEF WaitStep

----------------------------------------------------------------------------
(* The sweep and the boot fail rows that nobody dispatches and take up the *)
(* running ones.                                                           *)
LEMMA ResumeCharge ==
    ASSUME ChargeInv, NEW error \in {"incomplete", "restart"},
           UNCHANGED <<known, request, reply>>, host' = "up",
           NEW orphans \in SUBSET Deliveries,
           \A d \in orphans : Open(d) /\ delivery[d].ref = None /\ ~Dispatching(d),
           delivery' = [d \in Deliveries |->
               IF d \in orphans THEN [delivery[d] EXCEPT !.status = "failed", !.error = error]
                                ELSE delivery[d]],
           loop' = [d \in Deliveries |-> IF Unwatched(d) THEN "idle" ELSE loop[d]]
    PROVE  ChargeInv' /\ SettledRowsStay
  <1>1. ASSUME NEW d \in Deliveries
        PROVE  /\ delivery'[d] \in Row /\ delivery'[d].ref = delivery[d].ref
               /\ delivery'[d].status = IF d \in orphans THEN "failed" ELSE delivery[d].status
               /\ d \notin orphans => delivery'[d] = delivery[d]
    <2>1. delivery[d] \in Row
      BY DEF ChargeInv, RowsAreRows
    <2> QED BY <2>1 DEF Row
  <1>2. RowsAreRows'
    <2>1. delivery' \in [Deliveries -> Row]
      BY <1>1
    <2>2. loop' \in [Deliveries -> {"off", "idle", "asking"}]
      BY DEF ChargeInv, RowsAreRows
    <2> QED BY <2>1, <2>2 DEF ChargeInv, RowsAreRows
  <1>3. \A d \in orphans : delivery[d].status = "starting" /\ loop[d] = "off" /\ ~Dispatching(d)
    BY DEF ChargeInv, RowsAreRows, OneInCharge, Open
  <1>4. \A d \in Deliveries : Unwatched(d) => delivery[d].status = "running" /\ d \notin orphans
    BY DEF ChargeInv, RowsAreRows, OneInCharge, Unwatched, Open
  <1>5. \A d \in Deliveries : Dispatching(d)' = Dispatching(d)
    BY DEF Dispatching
  <1>6. OneInCharge'
    <2> SUFFICES ASSUME NEW d \in Deliveries
                 PROVE  /\ Dispatching(d)' => delivery'[d].status = "starting" /\ host' # "down"
                        /\ loop'[d] # "off" => delivery'[d].status = "running"
                        /\ delivery'[d].status \in {"none", "starting"} => delivery'[d].ref = None
                        /\ delivery'[d].status = "running" => delivery'[d].ref # None
      BY DEF OneInCharge
    <2>1. loop'[d] = IF Unwatched(d) THEN "idle" ELSE loop[d]
      OBVIOUS
    <2>2. CASE d \in orphans
      <3>1. loop'[d] = "off" /\ delivery'[d].status = "failed" /\ ~Dispatching(d)
        BY <1>1, <1>3, <1>4, <2>1, <2>2
      <3> QED BY <1>5, <3>1
    <2>3. CASE d \notin orphans
      <3>1. delivery'[d] = delivery[d]
        BY <1>1, <2>3
      <3> QED BY <1>4, <1>5, <2>1, <3>1 DEF ChargeInv, OneInCharge
    <2> QED BY <2>2, <2>3
  <1>7. SettledRowsStay
    BY <1>1, <1>3 DEF SettledRowsStay, Settled
  <1> QED BY <1>2, <1>6, <1>7 DEF ChargeInv

(* The sweep and the boot fail the rows nothing looks after, and wait for the rest.*)
LEMMA SweepCharge ==
    ASSUME ChargeInv, Sweep \/ Boot
    PROVE  ChargeInv' /\ SettledRowsStay
  <1>1. CASE Sweep
    <2> DEFINE orphans == {d \in Deliveries : Orphan(d)}
    <2>1. /\ orphans \in SUBSET Deliveries
          /\ \A d \in orphans : Open(d) /\ delivery[d].ref = None /\ ~Dispatching(d)
      BY DEF Orphan
    <2>2. delivery' = [d \in Deliveries |->
             IF d \in orphans THEN [delivery[d] EXCEPT !.status = "failed", !.error = "incomplete"]
                              ELSE delivery[d]]
      BY <1>1 DEF Sweep, Resume
    <2>3. /\ loop' = [d \in Deliveries |-> IF Unwatched(d) THEN "idle" ELSE loop[d]]
          /\ UNCHANGED <<known, request, reply>> /\ host' = "up"
      BY <1>1 DEF Sweep, Resume
    <2> HIDE DEF orphans
    <2> QED BY <2>1, <2>2, <2>3, ResumeCharge
  <1>2. CASE Boot
    <2> DEFINE orphans == {d \in Deliveries : Open(d) /\ delivery[d].ref = None}
    <2>1. /\ orphans \in SUBSET Deliveries
          /\ \A d \in orphans : Open(d) /\ delivery[d].ref = None /\ ~Dispatching(d)
      BY <1>2 DEF Boot, ChargeInv, OneInCharge
    <2>2. delivery' = [d \in Deliveries |->
             IF d \in orphans THEN [delivery[d] EXCEPT !.status = "failed", !.error = "restart"]
                              ELSE delivery[d]]
      BY <1>2 DEF Boot
    <2>3. /\ loop' = [d \in Deliveries |-> IF Unwatched(d) THEN "idle" ELSE loop[d]]
          /\ UNCHANGED <<known, request, reply>> /\ host' = "up"
      BY <1>2 DEF Boot
    <2> HIDE DEF orphans
    <2> QED BY <2>1, <2>2, <2>3, ResumeCharge
  <1> QED BY <1>1, <1>2

(* A server that stops drops its loops; one that is gone dispatches no     *)
(* more, whatever the target still does.                                   *)
LEMMA DownCharge ==
    ASSUME ChargeInv, Stop \/ Exits \/ Crashes \/ RoutingChanges
    PROVE  ChargeInv' /\ SettledRowsStay
  <1>1. delivery' = delivery /\ known' = known
    BY DEF Stop, Exits, Crashes, GoesDown, RoutingChanges
  <1>2. SettledRowsStay
    BY <1>1 DEF SettledRowsStay
  <1>3. CASE RoutingChanges
    BY <1>1, <1>2, <1>3 DEF RoutingChanges, ChargeInv, RowsAreRows, OneInCharge, Dispatching
  <1>4. CASE Stop
    <2>1. RowsAreRows'
      BY <1>1, <1>4 DEF Stop, ChargeInv, RowsAreRows
    <2>2. OneInCharge'
      BY <1>1, <1>4 DEF Stop, ChargeInv, OneInCharge, Dispatching
    <2> QED BY <1>2, <2>1, <2>2 DEF ChargeInv
  <1>5. CASE GoesDown
    <2>1. \A d \in Deliveries :
            request'[d] \in Sending /\ request'[d].state \notin {"sent", "taken"}
      <3>1. TAKE d \in Deliveries
      <3>2. request[d] \in Sending
        BY DEF ChargeInv, RowsAreRows
      <3> QED BY <1>5, <3>2 DEF GoesDown, Sending
    <2>2. RowsAreRows'
      BY <1>1, <1>5, <2>1 DEF GoesDown, ChargeInv, RowsAreRows
    <2>3. OneInCharge'
      BY <1>1, <1>5, <2>1 DEF GoesDown, ChargeInv, OneInCharge, Dispatching
    <2> QED BY <1>2, <2>2, <2>3 DEF ChargeInv
  <1> QED BY <1>3, <1>4, <1>5 DEF Exits, Crashes

----------------------------------------------------------------------------
(* Every step keeps the charge of every row, and no settled row changes.   *)
LEMMA ChargeStep ==
    ChargeInv /\ [RemoteNext]_remoteVars => ChargeInv' /\ SettledRowsStay
  <1> SUFFICES ASSUME ChargeInv, [RemoteNext]_remoteVars PROVE ChargeInv' /\ SettledRowsStay
    OBVIOUS
  <1>1. ASSUME NEW d \in Deliveries,
               \/ DispatchStep(d) \/ TakeStep(d) \/ WaitStep(d) \/ AskLost(d) \/ AskRejected(d)
        PROVE  ChargeInv' /\ SettledRowsStay
    BY <1>1, DeliverCharge, AnsweredCharge, LostCharge, TakeCharge, WaitCharge DEF DispatchStep
  <1>2. ASSUME NEW r \in Refs, TargetStep(r) \/ Parks(r) \/ SessionEnds(r) \/ PersonPrompts(r)
        PROVE  ChargeInv' /\ SettledRowsStay
    BY <1>2, SessionCharge
  <1>3. CASE UNCHANGED remoteVars
    BY <1>3 DEF remoteVars, targetVars, ChargeInv, RowsAreRows, OneInCharge, Dispatching,
                SettledRowsStay
  <1> QED BY <1>1, <1>2, <1>3, SweepCharge, DownCharge DEF RemoteNext

(* The inductive invariant: a row is in the charge of its dispatch or of   *)
(* its loop, never of both, and of neither once it is settled.             *)
THEOREM ChargeInvariant == RemoteSpec => []ChargeInv
  BY ChargeStarts, ChargeStep, PTL DEF RemoteSpec

(* A settled delivery never moves again: no late answer, lost call, sweep  *)
(* or boot rewrites its row.                                               *)
THEOREM SettledForGood == RemoteSpec => RemoteSettledOnce
  <1>1. ChargeInv /\ [RemoteNext]_remoteVars
          => [\A d \in Deliveries : Settled(d) => delivery'[d] = delivery[d]]_remoteVars
    BY ChargeStep DEF SettledRowsStay
  <1> QED BY ChargeInvariant, <1>1, PTL DEF RemoteSpec, RemoteSettledOnce
----------------------------------------------------------------------------
(* What a settled row says of the turn.                                    *)

Entries == {"none", "live", "parked", "ended", "gone"}
Session == [state : Entries, busy : BOOLEAN, failed : BOOLEAN,
            agenda : Seq(Deliveries \cup {Person}), queued : BOOLEAN]
Place(r) == 1 .. Len(session[r].agenda)

TargetTypes ==
    /\ session \in [Refs -> Session]
    /\ outcome \in [Deliveries -> {"none", "working", "done", "error", "cut"}]

(* A delivery's turn is on the agenda of one session, once, and then it is *)
(* at work.                                                                *)
AtWorkOnce ==
    /\ \A r \in Refs : \A i \in Place(r) :
         session[r].agenda[i] \in Deliveries => outcome[session[r].agenda[i]] = "working"
    /\ \A r, s \in Refs : \A i \in Place(r), j \in Place(s) :
         /\ session[r].agenda[i] \in Deliveries
         /\ session[r].agenda[i] = session[s].agenda[j]
         => r = s /\ i = j

(* How far a delivery has come: until its dispatch is taken there is no    *)
(* turn, a dispatch ends before its row has a ref, and an open row has no  *)
(* error yet.                                                              *)
Progress(d) ==
    /\ delivery[d].status = "none" => request[d].state = "none" /\ outcome[d] = "none"
    /\ delivery[d].status \in {"none", "starting", "running"} => delivery[d].error = "none"
    /\ delivery[d].status = "starting" /\ host # "down" => Dispatching(d)
    /\ request[d].state \in {"sent", "abandoned"} => outcome[d] = "none"
    /\ request[d].state = "taken" /\ request[d].answer \notin Refs => outcome[d] = "none"
    /\ delivery[d].ref # None => request[d].state = "none"
    /\ delivery[d].error \in {"cap", "refused"} => request[d].state = "none" /\ outcome[d] = "none"
    /\ delivery[d].error # "incomplete"

(* The session an open delivery's turn is in, as far as this server or the *)
(* answer on its way to it knows.                                          *)
TurnIn(d, r) == \/ delivery[d].status = "running" /\ delivery[d].ref = r
                \/ request[d].state = "taken" /\ request[d].answer = r

(* In a session nobody crowded, that turn is all there is: it is with the  *)
(* agent, or in the queue, or it was the last to end there.                *)
AllThereIs(d, r) ==
    \/ session[r].state \in {"ended", "gone"}
    \/ /\ Live(r) /\ session[r].agenda = <<d>> /\ outcome[d] = "working"
       /\ session[r].busy \/ session[r].queued
    \/ /\ Live(r) /\ session[r].agenda = <<>>
       /\ ~session[r].busy /\ ~session[r].queued
       /\ outcome[d] = IF session[r].failed THEN "error" ELSE "done"

(* What a word from the target about session r tells of delivery d.        *)
Tells(word, d, r) ==
    /\ word = "complete" /\ r \notin crowded => outcome[d] = "done"
    /\ word = "error" /\ r \notin crowded => outcome[d] = "error"
    /\ word \in {"ended", "gone"} => session[r].state \in {"ended", "gone"}

(* Whatever the row says came from the target or from this server.         *)
RowTells(d) ==
    delivery[d].ref # None =>
        /\ Tells(delivery[d].error, d, delivery[d].ref)
        /\ delivery[d].status = "succeeded" => Tells("complete", d, delivery[d].ref)
        /\ delivery[d].status = "failed" =>
             delivery[d].error \in {"error", "ended", "gone", "not_configured", "rejected"}

(* So did the word a wait is about to hear.                                *)
WordTells(d) == loop[d] = "asking" => Tells(reply[d], d, delivery[d].ref)

Truth(d) ==
    /\ Progress(d)
    /\ \A r \in Refs : TurnIn(d, r) /\ r \notin crowded => AllThereIs(d, r)
    /\ WordTells(d)
    /\ RowTells(d)

TruthInv == ChargeInv /\ TargetTypes /\ AtWorkOnce /\ \A d \in Deliveries : Truth(d)

(* Nothing has happened at the start.                                      *)
LEMMA TruthStarts == RemoteInit => TruthInv
  <1> USE RemoteAssumption
  <1> SUFFICES ASSUME RemoteInit PROVE TruthInv
    OBVIOUS
  <1>1. ChargeInv
    BY ChargeStarts
  <1>2. TargetTypes
    <2>1. <<>> \in Seq(Deliveries \cup {Person})
      OBVIOUS
    <2>2. [state |-> "none", busy |-> FALSE, failed |-> FALSE, agenda |-> <<>>, queued |-> FALSE]
            \in Session
      BY <2>1 DEF Session, Entries
    <2> QED BY <2>2 DEF RemoteInit, TargetTypes
  <1>3. \A r \in Refs : Place(r) = {}
    BY DEF RemoteInit, Place
  <1>4. AtWorkOnce
    BY <1>3 DEF AtWorkOnce
  <1>5. ASSUME NEW d \in Deliveries PROVE Truth(d)
    <2>1. /\ delivery[d].status = "none" /\ delivery[d].ref = None /\ delivery[d].error = "none"
          /\ request[d].state = "none" /\ outcome[d] = "none" /\ loop[d] = "off"
      BY DEF RemoteInit, NoRequest
    <2> QED BY <2>1 DEF Truth, Progress, TurnIn, WordTells, RowTells
  <1> QED BY <1>1, <1>2, <1>4, <1>5 DEF TruthInv

----------------------------------------------------------------------------
(* A delivery nothing happened to, here or on the target, is as it was; a  *)
(* wait that ends or that is told nothing new does not matter.             *)
LEMMA TruthStays ==
    ASSUME NEW d \in Deliveries, Truth(d), UNCHANGED targetVars,
           delivery'[d] = delivery[d], request'[d] = request[d],
           loop'[d] = "asking" =>
             \/ loop[d] = "asking" /\ reply'[d] = reply[d]
             \/ reply'[d] \notin {"complete", "error", "ended", "gone"},
           host' # "down" => host # "down"
    PROVE  Truth(d)'
  <1>1. UNCHANGED <<session, outcome, crowded>>
    BY DEF targetVars
  <1>2. Progress(d)'
    BY <1>1 DEF Truth, Progress, Dispatching
  <1>3. \A r \in Refs : TurnIn(d, r)' /\ r \notin crowded' => AllThereIs(d, r)'
    BY <1>1 DEF Truth, TurnIn, AllThereIs, Live
  <1>5. WordTells(d)'
    <2>1. CASE loop[d] = "asking" /\ reply'[d] = reply[d]
      BY <1>1, <2>1 DEF Truth, WordTells, Tells
    <2>2. CASE reply'[d] \notin {"complete", "error", "ended", "gone"}
      BY <2>2 DEF WordTells, Tells
    <2>3. CASE loop'[d] # "asking"
      BY <2>3 DEF WordTells
    <2> QED BY <2>1, <2>2, <2>3
  <1>6. RowTells(d)'
    BY <1>1 DEF Truth, RowTells, Tells
  <1> QED BY <1>2, <1>3, <1>5, <1>6 DEF Truth

(* One delivery takes a step of this server.                               *)
LEMMA OneRowTruth ==
    ASSUME TruthInv, ChargeInv', UNCHANGED targetVars, UNCHANGED host,
           NEW d \in Deliveries, Truth(d)',
           \A e \in Deliveries \ {d} :
               /\ delivery'[e] = delivery[e] /\ request'[e] = request[e]
               /\ loop'[e] = loop[e] /\ reply'[e] = reply[e]
    PROVE  TruthInv'
  <1>1. TargetTypes' /\ AtWorkOnce'
    BY DEF TruthInv, targetVars, TargetTypes, AtWorkOnce, Place
  <1>2. ASSUME NEW e \in Deliveries \ {d} PROVE Truth(e)'
    BY <1>2, TruthStays DEF TruthInv
  <1> QED BY <1>1, <1>2 DEF TruthInv

(* The dispatch: nothing is said of a turn before the target has it, and   *)
(* the session it answers with holds that turn.                            *)
LEMMA DispatchTruth ==
    ASSUME TruthInv, ChargeInv', NEW d \in Deliveries, DispatchStep(d)
    PROVE  TruthInv'
  <1> USE RemoteAssumption
  <1>0. /\ Truth(d) /\ Progress(d) /\ delivery[d] \in Row /\ request[d] \in Sending /\ ChargeInv
        /\ delivery \in [Deliveries -> Row] /\ request \in [Deliveries -> Sending]
        /\ loop \in [Deliveries -> {"off", "idle", "asking"}]
    BY DEF TruthInv, Truth, ChargeInv, RowsAreRows
  <1>1. /\ loop[d] = "off" /\ delivery[d].status \in {"none", "starting"}
        /\ delivery[d].ref = None /\ delivery[d].error = "none"
    BY <1>0 DEF DispatchStep, Deliver, DispatchAnswered, DispatchLost, ChargeInv, OneInCharge,
                Dispatching, Progress
  <1>2. UNCHANGED <<session, outcome, crowded>> /\ UNCHANGED targetVars
    BY DEF DispatchStep, Deliver, DispatchAnswered, DispatchLost, targetVars
  <1>3. /\ UNCHANGED <<host, reply>>
        /\ \A e \in Deliveries \ {d} :
             delivery'[e] = delivery[e] /\ request'[e] = request[e] /\ loop'[e] = loop[e]
    BY <1>0 DEF DispatchStep, Deliver, DispatchAnswered, DispatchLost, SettledAs
  <1>4. \/ delivery'[d].ref = None
        \/ delivery'[d].ref \in Refs /\ delivery'[d].status = "running" /\ delivery'[d].error = "none"
    BY <1>0, <1>1 DEF DispatchStep, Deliver, DispatchAnswered, DispatchLost, SettledAs, Row
  <1>5. RowTells(d)'
    BY <1>4 DEF RowTells, Tells
  <1>6. WordTells(d)'
    BY <1>0, <1>1 DEF WordTells, DispatchStep, Deliver, DispatchAnswered, DispatchLost
  <1>7. CASE Deliver(d)
    <2>1. CASE routing
      <3>1. /\ delivery'[d].status = "starting" /\ delivery'[d].ref = None
            /\ delivery'[d].error = "none"
            /\ request'[d].state = "sent" /\ request'[d].answer = "none"
        BY <1>0, <1>1, <1>7, <2>1 DEF Deliver, Row
      <3>2. outcome[d] = "none"
        BY <1>0, <1>7 DEF Deliver, Progress
      <3>3. Progress(d)'
        BY <1>2, <3>1, <3>2 DEF Progress, Dispatching
      <3>4. \A r \in Refs : ~TurnIn(d, r)'
        BY <3>1 DEF TurnIn
      <3> QED BY <1>2, <1>3, <1>5, <1>6, <3>3, <3>4, OneRowTruth DEF Truth
    <2>2. CASE ~routing
      <3>1. /\ delivery'[d].status = "failed" /\ delivery'[d].ref = None
            /\ delivery'[d].error = "not_configured"
            /\ request'[d] = request[d] /\ request[d].state = "none"
        BY <1>0, <1>1, <1>7, <2>2 DEF Deliver, SettledAs, Row, Progress
      <3>2. Progress(d)'
        BY <3>1 DEF Progress
      <3>3. \A r \in Refs : ~TurnIn(d, r)'
        BY <3>1 DEF TurnIn
      <3> QED BY <1>2, <1>3, <1>5, <1>6, <3>2, <3>3, OneRowTruth DEF Truth
    <2> QED BY <2>1, <2>2
  <1>8. CASE DispatchAnswered(d)
    <2>0. request[d].state = "taken"
      BY <1>8 DEF DispatchAnswered
    <2>1. CASE request[d].answer \in Refs
      <3>1. /\ delivery'[d].status = "running" /\ delivery'[d].ref = request[d].answer
            /\ delivery'[d].error = "none" /\ request'[d].state = "none"
        BY <1>0, <1>1, <1>8, <2>1 DEF DispatchAnswered, NoRequest, Row
      <3>2. Progress(d)'
        BY <3>1 DEF Progress
      <3>3. \A r \in Refs : TurnIn(d, r)' => TurnIn(d, r)
        BY <2>0, <3>1 DEF TurnIn
      <3>4. \A r \in Refs : TurnIn(d, r)' /\ r \notin crowded' => AllThereIs(d, r)'
        BY <1>0, <1>2, <3>3 DEF Truth, AllThereIs, Live
      <3> QED BY <1>2, <1>3, <1>5, <1>6, <3>2, <3>4, OneRowTruth DEF Truth
    <2>2. CASE request[d].answer \notin Refs
      <3>1. outcome[d] = "none"
        BY <1>0, <2>0, <2>2 DEF Progress
      <3>2. CASE request[d].answer = "gone"
        <4>1. /\ delivery'[d] = delivery[d] /\ request'[d].state = "sent"
              /\ request'[d].answer = "none"
          BY <1>0, <1>8, <3>2 DEF DispatchAnswered
        <4>2. delivery[d].status = "starting"
          BY <1>0, <2>0 DEF ChargeInv, OneInCharge, Dispatching
        <4>3. Progress(d)'
          BY <1>1, <1>2, <3>1, <4>1, <4>2 DEF Progress, Dispatching
        <4>4. \A r \in Refs : ~TurnIn(d, r)'
          BY <4>1, <4>2 DEF TurnIn
        <4> QED BY <1>2, <1>3, <1>5, <1>6, <4>3, <4>4, OneRowTruth DEF Truth
      <3>3. CASE request[d].answer # "gone"
        <4>1. /\ delivery'[d].status \in {"throttled", "failed"} /\ delivery'[d].ref = None
              /\ delivery'[d].error \in {"cap", "refused"} /\ request'[d].state = "none"
          BY <1>0, <1>1, <1>8, <2>2, <3>3 DEF DispatchAnswered, SettledAs, NoRequest, Row
        <4>2. Progress(d)'
          BY <1>2, <3>1, <4>1 DEF Progress
        <4>3. \A r \in Refs : ~TurnIn(d, r)'
          BY <4>1 DEF TurnIn
        <4> QED BY <1>2, <1>3, <1>5, <1>6, <4>2, <4>3, OneRowTruth DEF Truth
      <3> QED BY <3>2, <3>3
    <2> QED BY <2>1, <2>2
  <1>9. CASE DispatchLost(d)
    <2>1. /\ delivery'[d].status = "failed" /\ delivery'[d].ref = None
          /\ delivery'[d].error = "lost"
      BY <1>0, <1>1, <1>9 DEF DispatchLost, SettledAs, Row
    <2>2. \/ request[d].state = "sent" /\ request'[d].state = "abandoned"
          \/ request'[d].state = "over"
      BY <1>0, <1>9 DEF DispatchLost, Sending
    <2>3. Progress(d)'
      BY <1>0, <1>2, <2>1, <2>2 DEF Progress
    <2>4. \A r \in Refs : ~TurnIn(d, r)'
      BY <2>1, <2>2 DEF TurnIn
    <2> QED BY <1>2, <1>3, <1>5, <1>6, <2>3, <2>4, OneRowTruth DEF Truth
  <1> QED BY <1>7, <1>8, <1>9 DEF DispatchStep

(* What the target says at once of a session is true of the turn in it.    *)
LEMMA AtOnceTells ==
    ASSUME TruthInv, NEW d \in Deliveries, delivery[d].status = "running"
    PROVE  Tells(AtOnce(delivery[d].ref), d, delivery[d].ref)
  <1> DEFINE r == delivery[d].ref
  <1>1. r \in Refs
    BY DEF TruthInv, ChargeInv, RowsAreRows, OneInCharge, Row
  <1>2. r \notin crowded => AllThereIs(d, r)
    BY <1>1 DEF TruthInv, Truth, TurnIn
  <1>3. session[r] \in Session
    BY <1>1 DEF TruthInv, TargetTypes
  <1> HIDE DEF r
  <1>4. CASE session[r].state \in {"ended", "gone"}
    <2>1. AtOnce(r) \in {"ended", "gone"}
      BY <1>4 DEF AtOnce
    <2> QED BY <1>4, <2>1 DEF Tells, r
  <1>5. CASE session[r].state = "parked"
    <2>1. AtOnce(r) = "awaiting"
      BY <1>5 DEF AtOnce
    <2> QED BY <2>1 DEF Tells, r
  <1>6. CASE session[r].state \notin {"ended", "gone", "parked"}
    <2>1. CASE session[r].state = "live" /\ (session[r].queued \/ session[r].busy)
      <3>1. AtOnce(r) = "held"
        BY <2>1 DEF AtOnce
      <3> QED BY <3>1 DEF Tells, r
    <2>2. CASE ~(session[r].state = "live" /\ (session[r].queued \/ session[r].busy))
      <3>1. AtOnce(r) = IF session[r].failed THEN "error" ELSE "complete"
        BY <1>6, <2>2 DEF AtOnce
      <3>2. r \notin crowded => outcome[d] = IF session[r].failed THEN "error" ELSE "done"
        BY <1>2, <1>6, <2>2 DEF AllThereIs, Live
      <3> QED BY <3>1, <3>2 DEF Tells, r
    <2> QED BY <2>1, <2>2
  <1> QED BY <1>4, <1>5, <1>6

(* The wait loop: a row settles on the word it was told, or on this        *)
(* server's own account.                                                   *)
LEMMA WaitTruth ==
    ASSUME TruthInv, ChargeInv', NEW d \in Deliveries, WaitStep(d) \/ AskLost(d) \/ AskRejected(d)
    PROVE  TruthInv'
  <1>0. /\ Truth(d) /\ delivery[d] \in Row /\ ChargeInv
        /\ delivery \in [Deliveries -> Row]
        /\ loop \in [Deliveries -> {"off", "idle", "asking"}]
        /\ reply \in [Deliveries -> {"none", "held", "still_running", "awaiting", "complete",
                                     "error", "ended", "gone"}]
    BY DEF TruthInv, ChargeInv, RowsAreRows
  <1>1. delivery[d].status = "running" /\ delivery[d].ref # None /\ request[d].state = "none"
    BY <1>0 DEF WaitStep, Ask, HeldTimesOut, Heard, AskLost, AskRejected, ChargeInv, OneInCharge,
                Truth, Progress
  <1>2. UNCHANGED <<session, outcome, crowded>> /\ UNCHANGED targetVars
    BY DEF WaitStep, Ask, HeldTimesOut, Heard, AskLost, AskRejected, targetVars
  <1>3. /\ UNCHANGED <<host, request>>
        /\ \A e \in Deliveries \ {d} :
             delivery'[e] = delivery[e] /\ loop'[e] = loop[e] /\ reply'[e] = reply[e]
    BY <1>0 DEF WaitStep, Ask, HeldTimesOut, Heard, AskLost, AskRejected, SettledAs, EndLoop
  <1>4. ASSUME delivery'[d] = delivery[d],
               loop'[d] = "asking" => Tells(reply'[d], d, delivery[d].ref)
        PROVE  TruthInv'
    <2>1. Progress(d)' /\ RowTells(d)'
      BY <1>0, <1>2, <1>3, <1>4 DEF Truth, Progress, RowTells, Tells, Dispatching
    <2>2. \A r \in Refs : TurnIn(d, r)' /\ r \notin crowded' => AllThereIs(d, r)'
      BY <1>0, <1>2, <1>3, <1>4 DEF Truth, TurnIn, AllThereIs, Live
    <2>3. WordTells(d)'
      BY <1>2, <1>4 DEF WordTells, Tells
    <2> QED BY <1>2, <1>3, <2>1, <2>2, <2>3, OneRowTruth DEF Truth
  <1>5. ASSUME EndLoop(d), NEW status \in {"succeeded", "failed"},
               NEW error \in {"none", "not_configured", "error", "ended", "gone", "rejected"},
               delivery' = SettledAs(d, status, error),
               status = "failed" => error # "none",
               Tells(error, d, delivery[d].ref),
               status = "succeeded" => Tells("complete", d, delivery[d].ref)
        PROVE  TruthInv'
    <2>1. /\ delivery'[d].status = status /\ delivery'[d].error = error
          /\ delivery'[d].ref = delivery[d].ref /\ loop'[d] = "off"
      BY <1>0, <1>5 DEF SettledAs, Row, EndLoop
    <2>2. Progress(d)'
      BY <1>1, <1>3, <2>1 DEF Progress
    <2>3. \A r \in Refs : ~TurnIn(d, r)'
      BY <1>1, <1>3, <2>1 DEF TurnIn
    <2>4. WordTells(d)'
      BY <2>1 DEF WordTells
    <2>5. RowTells(d)'
      BY <1>2, <1>5, <2>1 DEF RowTells, Tells
    <2> QED BY <1>2, <1>3, <2>2, <2>3, <2>4, <2>5, OneRowTruth DEF Truth
  <1>6. CASE Ask(d)
    <2>1. CASE routing
      <3>1. reply'[d] = AtOnce(delivery[d].ref) /\ delivery' = delivery
        BY <1>0, <1>6, <2>1 DEF Ask
      <3> QED BY <1>1, <1>4, <3>1, AtOnceTells
    <2>2. CASE ~routing
      <3>1. Tells("not_configured", d, delivery[d].ref)
        BY DEF Tells
      <3> QED BY <1>5, <1>6, <2>2, <3>1 DEF Ask
    <2> QED BY <2>1, <2>2
  <1>7. CASE HeldTimesOut(d)
    <2>1. delivery' = delivery /\ reply'[d] = "still_running"
      BY <1>0, <1>7 DEF HeldTimesOut
    <2> QED BY <1>4, <2>1 DEF Tells
  <1>8. CASE Heard(d)
    <2>1. CASE reply[d] \in {"still_running", "awaiting"}
      <3>1. delivery' = delivery /\ loop'[d] = "idle"
        BY <1>0, <1>8, <2>1 DEF Heard
      <3> QED BY <1>4, <3>1
    <2>2. CASE reply[d] \notin {"still_running", "awaiting"}
      <3>1. Tells(reply[d], d, delivery[d].ref)
        BY <1>0, <1>8 DEF Heard, Truth, WordTells
      <3>2. CASE reply[d] = "complete"
        <4>1. delivery' = SettledAs(d, "succeeded", "none") /\ EndLoop(d)
          BY <1>8, <3>2 DEF Heard
        <4>2. Tells("none", d, delivery[d].ref)
          BY DEF Tells
        <4> QED BY <1>5, <3>1, <3>2, <4>1, <4>2
      <3>3. CASE reply[d] # "complete"
        <4>1. /\ reply[d] \in {"error", "ended", "gone"}
              /\ delivery' = SettledAs(d, "failed", reply[d]) /\ EndLoop(d)
          BY <1>8, <2>2, <3>3 DEF Heard
        <4> QED BY <1>5, <3>1, <4>1
      <3> QED BY <3>2, <3>3
    <2> QED BY <2>1, <2>2
  <1>9. CASE AskLost(d)
    <2>1. delivery' = delivery /\ loop'[d] = "idle"
      BY <1>0, <1>9 DEF AskLost
    <2> QED BY <1>4, <2>1
  <1>10. CASE AskRejected(d)
    <2>1. CASE rejections[d] + 1 >= MaxRejections
      <3>1. Tells("rejected", d, delivery[d].ref)
        BY DEF Tells
      <3> QED BY <1>5, <1>10, <2>1, <3>1 DEF AskRejected
    <2>2. CASE ~(rejections[d] + 1 >= MaxRejections)
      <3>1. delivery' = delivery /\ loop'[d] = "idle"
        BY <1>0, <1>10, <2>2 DEF AskRejected
      <3> QED BY <1>4, <3>1
    <2> QED BY <2>1, <2>2
  <1> QED BY <1>6, <1>7, <1>8, <1>9, <1>10 DEF WaitStep

(* This server stops, or whether it routes changes.                        *)
LEMMA StopTruth ==
    ASSUME TruthInv, ChargeInv', Stop \/ RoutingChanges
    PROVE  TruthInv'
  <1>1. /\ UNCHANGED targetVars /\ UNCHANGED <<session, outcome, crowded>>
        /\ delivery' = delivery /\ request' = request /\ (host' # "down" => host # "down")
    BY DEF Stop, RoutingChanges, targetVars
  <1>2. ASSUME NEW d \in Deliveries PROVE loop'[d] = "off" \/ (loop' = loop /\ reply' = reply)
    <2>1. CASE Stop
      BY <2>1 DEF Stop
    <2>2. CASE RoutingChanges
      BY <2>2 DEF RoutingChanges
    <2> QED BY <2>1, <2>2
  <1>3. \A d \in Deliveries : Truth(d)'
    BY <1>1, <1>2, TruthStays DEF TruthInv
  <1>4. TargetTypes' /\ AtWorkOnce'
    BY <1>1 DEF TruthInv, TargetTypes, AtWorkOnce, Place
  <1> QED BY <1>3, <1>4 DEF TruthInv

(* This server is gone: its dispatches are nobody's.                       *)
LEMMA DownTruth ==
    ASSUME TruthInv, ChargeInv', GoesDown
    PROVE  TruthInv'
  <1>1. /\ UNCHANGED targetVars /\ UNCHANGED <<session, outcome, crowded>>
        /\ delivery' = delivery /\ host' = "down"
        /\ \A d \in Deliveries : loop'[d] = "off"
    BY DEF GoesDown, targetVars
  <1>2. ASSUME NEW d \in Deliveries PROVE Truth(d)'
    <2>1. Truth(d) /\ Progress(d) /\ request[d] \in Sending
      BY DEF TruthInv, Truth, ChargeInv, RowsAreRows
    <2>2. \/ request'[d] = request[d] /\ request[d].state \notin {"sent", "taken"}
          \/ request[d].state = "sent" /\ request'[d].state = "abandoned"
          \/ request[d].state = "taken" /\ request'[d].state = "over"
      BY <2>1 DEF GoesDown, Sending
    <2>3. Progress(d)'
      BY <1>1, <2>1, <2>2 DEF Progress
    <2>4. \A r \in Refs : TurnIn(d, r)' => TurnIn(d, r)
      BY <1>1, <2>2 DEF TurnIn
    <2>5. \A r \in Refs : TurnIn(d, r)' /\ r \notin crowded' => AllThereIs(d, r)'
      BY <1>1, <2>1, <2>4 DEF Truth, AllThereIs, Live
    <2>6. WordTells(d)' /\ RowTells(d)'
      BY <1>1, <2>1 DEF Truth, WordTells, RowTells, Tells
    <2> QED BY <2>3, <2>5, <2>6 DEF Truth
  <1>3. TargetTypes' /\ AtWorkOnce'
    BY <1>1 DEF TruthInv, TargetTypes, AtWorkOnce, Place
  <1> QED BY <1>2, <1>3 DEF TruthInv

(* What the sweep and the boot make of a row and of its loop.              *)
ResumedAs(d, orphans, error) ==
    /\ d \notin orphans => delivery'[d] = delivery[d]
    /\ d \in orphans => /\ delivery'[d].status = "failed" /\ delivery'[d].error = error
                        /\ delivery'[d].ref = delivery[d].ref
    /\ loop'[d] = loop[d] \/ loop'[d] = "idle"

(* Rows the sweep or the boot takes up again stay rows, each resumed as told.*)
LEMMA RowsResumed ==
    ASSUME RowsAreRows, NEW error \in {"incomplete", "restart"},
           NEW orphans \in SUBSET Deliveries,
           delivery' = [d \in Deliveries |->
               IF d \in orphans THEN [delivery[d] EXCEPT !.status = "failed", !.error = error]
                                ELSE delivery[d]],
           loop' = [d \in Deliveries |-> IF Unwatched(d) THEN "idle" ELSE loop[d]]
    PROVE  \A d \in Deliveries : ResumedAs(d, orphans, error)
  <1> SUFFICES ASSUME NEW d \in Deliveries PROVE ResumedAs(d, orphans, error)
    OBVIOUS
  <1>1. delivery[d] \in Row
    BY DEF RowsAreRows
  <1>2. /\ d \notin orphans => delivery'[d] = delivery[d]
        /\ d \in orphans => /\ delivery'[d].status = "failed" /\ delivery'[d].error = error
                            /\ delivery'[d].ref = delivery[d].ref
    BY <1>1 DEF Row
  <1>3. loop'[d] = loop[d] \/ loop'[d] = "idle"
    OBVIOUS
  <1> QED BY <1>2, <1>3 DEF ResumedAs

(* The rows the sweep or the boot fails have no session on record, and the *)
(* sweep finds none.                                                       *)
LEMMA ResumeTruth ==
    ASSUME TruthInv, ChargeInv', UNCHANGED targetVars, UNCHANGED <<request, reply>>, host' = "up",
           NEW orphans \in SUBSET Deliveries, NEW error,
           \A d \in Deliveries : ResumedAs(d, orphans, error),
           \A d \in orphans : Open(d) /\ delivery[d].ref = None,
           \/ orphans = {} /\ host = "up"
           \/ /\ error = "restart" /\ host = "down"
              /\ \A d \in Deliveries : Open(d) /\ delivery[d].ref = None => d \in orphans
    PROVE  TruthInv'
  <1>1. UNCHANGED <<session, outcome, crowded>>
    BY DEF targetVars
  <1>2. ASSUME NEW d \in Deliveries PROVE Truth(d)'
    <2>0. /\ Truth(d) /\ Progress(d) /\ request'[d] = request[d]
          /\ loop[d] # "off" => delivery[d].ref # None
          /\ Dispatching(d) => host # "down"
          /\ delivery[d].status = "starting" => delivery[d].ref = None
      BY DEF TruthInv, Truth, ChargeInv, OneInCharge
    <2>1. CASE d \in orphans
      <3>1. /\ delivery'[d].status = "failed" /\ delivery'[d].ref = None
            /\ delivery'[d].error = "restart" /\ loop'[d] # "asking" /\ ~Dispatching(d)
        BY <2>0, <2>1 DEF ResumedAs
      <3>2. Progress(d)'
        BY <1>1, <2>0, <3>1 DEF Progress
      <3>3. \A r \in Refs : ~TurnIn(d, r)'
        BY <2>0, <3>1 DEF TurnIn, Dispatching
      <3>4. WordTells(d)' /\ RowTells(d)'
        BY <3>1 DEF WordTells, RowTells
      <3> QED BY <3>2, <3>3, <3>4 DEF Truth
    <2>2. CASE d \notin orphans
      <3>1. delivery'[d] = delivery[d] /\ (loop'[d] = "asking" => loop[d] = "asking")
        BY <2>2 DEF ResumedAs
      <3>2. host = "down" => delivery[d].status # "starting"
        BY <2>0, <2>2 DEF Open
      <3>3. Progress(d)'
        BY <1>1, <2>0, <3>1, <3>2 DEF Progress, Dispatching
      <3>4. \A r \in Refs : TurnIn(d, r)' /\ r \notin crowded' => AllThereIs(d, r)'
        BY <1>1, <2>0, <3>1 DEF Truth, TurnIn, AllThereIs, Live
      <3>5. WordTells(d)' /\ RowTells(d)'
        BY <1>1, <2>0, <3>1 DEF Truth, WordTells, RowTells, Tells
      <3> QED BY <3>3, <3>4, <3>5 DEF Truth
    <2> QED BY <2>1, <2>2
  <1>3. TargetTypes' /\ AtWorkOnce'
    BY <1>1 DEF TruthInv, TargetTypes, AtWorkOnce, Place
  <1> QED BY <1>2, <1>3 DEF TruthInv

(* The sweep and the boot.                                                 *)
LEMMA SweepTruth ==
    ASSUME TruthInv, ChargeInv', Sweep \/ Boot
    PROVE  TruthInv'
  <1>0. RowsAreRows
    BY DEF TruthInv, ChargeInv
  <1>1. CASE Sweep
    <2> DEFINE orphans == {d \in Deliveries : Orphan(d)}
    <2>0. \A d \in Deliveries : ~Orphan(d)
      BY <1>1 DEF TruthInv, Truth, Sweep, Orphan, Open, Progress, ChargeInv, OneInCharge
    <2>1. orphans = {} /\ orphans \in SUBSET Deliveries
      BY <2>0
    <2>2. delivery' = [d \in Deliveries |->
             IF d \in orphans THEN [delivery[d] EXCEPT !.status = "failed", !.error = "incomplete"]
                              ELSE delivery[d]]
      BY <1>1 DEF Sweep, Resume
    <2>3. loop' = [d \in Deliveries |-> IF Unwatched(d) THEN "idle" ELSE loop[d]]
      BY <1>1 DEF Sweep, Resume
    <2>4. UNCHANGED targetVars /\ UNCHANGED <<request, reply>> /\ host = "up" /\ host' = "up"
      BY <1>1 DEF Sweep
    <2> HIDE DEF orphans
    <2>5. \A d \in Deliveries : ResumedAs(d, orphans, "incomplete")
      BY <1>0, <2>1, <2>2, <2>3, RowsResumed
    <2> QED BY <2>1, <2>4, <2>5, ResumeTruth
  <1>2. CASE Boot
    <2> DEFINE orphans == {d \in Deliveries : Open(d) /\ delivery[d].ref = None}
    <2>1. /\ orphans \in SUBSET Deliveries
          /\ \A d \in orphans : Open(d) /\ delivery[d].ref = None
          /\ \A d \in Deliveries : Open(d) /\ delivery[d].ref = None => d \in orphans
      OBVIOUS
    <2>2. delivery' = [d \in Deliveries |->
             IF d \in orphans THEN [delivery[d] EXCEPT !.status = "failed", !.error = "restart"]
                              ELSE delivery[d]]
      BY <1>2 DEF Boot
    <2>3. loop' = [d \in Deliveries |-> IF Unwatched(d) THEN "idle" ELSE loop[d]]
      BY <1>2 DEF Boot
    <2>4. UNCHANGED targetVars /\ UNCHANGED <<request, reply>> /\ host = "down" /\ host' = "up"
      BY <1>2 DEF Boot
    <2> HIDE DEF orphans
    <2>5. \A d \in Deliveries : ResumedAs(d, orphans, "restart")
      BY <1>0, <2>1, <2>2, <2>3, RowsResumed
    <2> QED BY <2>1, <2>4, <2>5, ResumeTruth
  <1> QED BY <1>1, <1>2

----------------------------------------------------------------------------
(* The target refuses a dispatch: there is no turn.                        *)
LEMMA RefusedTruth ==
    ASSUME TruthInv, ChargeInv', NEW d \in Deliveries, TargetRefuses(d)
    PROVE  TruthInv'
  <1> USE RemoteAssumption
  <1>1. PICK answer \in {"gone", "cap", "refused"} : Answer(d, answer)
    BY DEF TargetRefuses
  <1>2. /\ request \in [Deliveries -> Sending] /\ request[d] \in Sending /\ Progress(d) /\ Truth(d)
        /\ request[d].state \in {"sent", "abandoned"} /\ outcome[d] = "none"
    BY DEF TruthInv, Truth, Progress, ChargeInv, RowsAreRows, TargetRefuses
  <1>3. /\ UNCHANGED <<session, outcome, crowded>> /\ UNCHANGED targetVars
        /\ UNCHANGED <<delivery, loop, reply, host>>
    BY DEF TargetRefuses, targetVars
  <1>4. \A e \in Deliveries \ {d} : request'[e] = request[e]
    BY <1>1, <1>2 DEF Answer
  <1>5. /\ request'[d].answer = answer
        /\ request'[d].state = IF request[d].state = "abandoned" THEN "over" ELSE "taken"
    BY <1>1, <1>2 DEF Answer, Sending
  <1>6. Progress(d)'
    BY <1>2, <1>3, <1>5 DEF Progress, Dispatching
  <1>7. \A r \in Refs : TurnIn(d, r)' => TurnIn(d, r)
    BY <1>3, <1>5 DEF TurnIn
  <1>8. \A r \in Refs : TurnIn(d, r)' /\ r \notin crowded' => AllThereIs(d, r)'
    BY <1>2, <1>3, <1>7 DEF Truth, AllThereIs, Live
  <1>9. WordTells(d)' /\ RowTells(d)'
    BY <1>2, <1>3 DEF Truth, WordTells, RowTells, Tells
  <1> QED BY <1>3, <1>4, <1>6, <1>8, <1>9, OneRowTruth DEF Truth

(* A prompt reaches session r: in a session nobody crowded it is all there *)
(* is, and no open delivery had its turn there.                            *)
LEMMA PromptFacts ==
    ASSUME TruthInv, NEW r \in Refs, NEW who \in Deliveries \cup {Person}, Prompted(r, who),
           session[r].state \in {"none", "live", "parked"}
    PROVE  /\ session' \in [Refs -> Session]
           /\ \A s \in Refs \ {r} : session'[s] = session[s]
           /\ Live(r)'
           /\ session'[r].agenda = Append(session[r].agenda, who)
           /\ session'[r].busy \/ session'[r].queued
           /\ crowded \subseteq crowded'
           /\ r \notin crowded' =>
                /\ session[r].agenda = <<>>
                /\ \A d \in Deliveries : ~TurnIn(d, r)
  <1>1. session \in [Refs -> Session] /\ session[r] \in Session
    BY DEF TruthInv, TargetTypes
  <1>2. PICK wait \in BOOLEAN :
          session' = [session EXCEPT ![r] =
            [state |-> IF Live(r) THEN session[r].state ELSE "live",
             busy |-> session[r].busy \/ ~wait, failed |-> session[r].failed,
             agenda |-> Append(session[r].agenda, who), queued |-> wait]]
    BY <1>1 DEF Prompted
  <1>3. PICK state \in {"live", "parked"} : state = IF Live(r) THEN session[r].state ELSE "live"
    BY DEF Live
  <1>4. PICK busy \in BOOLEAN : busy = (session[r].busy \/ ~wait)
    OBVIOUS
  <1>5. session[r].failed \in BOOLEAN /\ session[r].agenda \in Seq(Deliveries \cup {Person})
    BY <1>1 DEF Session
  <1>6. PICK agenda \in Seq(Deliveries \cup {Person}) : agenda = Append(session[r].agenda, who)
    <2>1. Append(session[r].agenda, who) \in Seq(Deliveries \cup {Person})
      BY <1>5
    <2> QED BY Zenon, <2>1
  <1>7. session' = [session EXCEPT ![r] =
            [state |-> state, busy |-> busy, failed |-> session[r].failed,
             agenda |-> agenda, queued |-> wait]]
    BY Zenon, <1>2, <1>3, <1>4, <1>6
  <1>8. [state |-> state, busy |-> busy, failed |-> session[r].failed,
         agenda |-> agenda, queued |-> wait] \in Session
    BY <1>5 DEF Session, Entries
  <1>9. session'[r] = [state |-> state, busy |-> busy, failed |-> session[r].failed,
                       agenda |-> agenda, queued |-> wait]
    BY <1>1, <1>7
  <1>10. /\ session' \in [Refs -> Session]
         /\ \A s \in Refs \ {r} : session'[s] = session[s]
    BY <1>1, <1>7, <1>8
  <1>11. Live(r)' /\ session'[r].agenda = Append(session[r].agenda, who)
    BY <1>6, <1>9 DEF Live
  <1>12. session'[r].busy = busy /\ session'[r].queued = wait
    BY <1>9
  <1>13. busy \/ wait
    BY Zenon, <1>4
  <1>14. session'[r].busy \/ session'[r].queued
    BY <1>12, <1>13
  <1>15. crowded \subseteq crowded'
    BY DEF Prompted
  <1>16. ASSUME r \notin crowded'
         PROVE  session[r].agenda = <<>> /\ \A d \in Deliveries : ~TurnIn(d, r)
    <2>1. /\ session[r].agenda = <<>>
          /\ \A d \in Deliveries : ~(Open(d) /\ r \in {delivery[d].ref, request[d].answer})
      BY <1>16 DEF Prompted
    <2>2. \A d \in Deliveries : TurnIn(d, r) => Open(d)
      BY DEF TruthInv, ChargeInv, OneInCharge, TurnIn, Open, Dispatching
    <2> QED BY <2>1, <2>2 DEF TurnIn
  <1> QED BY <1>10, <1>11, <1>14, <1>15, <1>16

(* The agenda of one session grew by one prompt, of nobody else's turn.    *)
LEMMA PromptOnce ==
    ASSUME TruthInv, NEW r \in Refs, NEW who \in Deliveries \cup {Person},
           \A s \in Refs \ {r} : session'[s] = session[s],
           session'[r].agenda = Append(session[r].agenda, who),
           outcome' \in [Deliveries -> {"none", "working", "done", "error", "cut"}],
           \A d \in Deliveries : d # who => outcome'[d] = outcome[d],
           who \in Deliveries => outcome[who] = "none" /\ outcome'[who] = "working"
    PROVE  AtWorkOnce'
  <1>1. session[r].agenda \in Seq(Deliveries \cup {Person})
    BY DEF TruthInv, TargetTypes, Session
  <1>2. PICK n \in Nat : n = Len(session[r].agenda)
    BY <1>1
  <1>3. /\ Place(r) = 1 .. n /\ Place(r)' = 1 .. (n + 1)
        /\ \A i \in 1 .. n : session'[r].agenda[i] = session[r].agenda[i]
        /\ session'[r].agenda[n + 1] = who
    BY <1>1, <1>2 DEF Place
  <1>4. \A s \in Refs \ {r} : Place(s)' = Place(s) /\ session'[s].agenda = session[s].agenda
    BY DEF Place
  <1>5. \A s \in Refs : \A i \in Place(s) : session[s].agenda[i] # who \/ who = Person
    BY DEF TruthInv, AtWorkOnce
  <1>6. \A s \in Refs : \A i \in Place(s)' :
          \/ i \in Place(s) /\ session'[s].agenda[i] = session[s].agenda[i]
          \/ s = r /\ i = n + 1 /\ session'[s].agenda[i] = who
    <2>1. \A i \in 1 .. (n + 1) : i \in 1 .. n \/ i = n + 1
      OBVIOUS
    <2> QED BY Zenon, <1>3, <1>4, <2>1
  <1>7. Person \notin Deliveries
    BY RemoteAssumption
  <1>8. \A s \in Refs : \A i \in Place(s)' :
          session'[s].agenda[i] \in Deliveries => outcome'[session'[s].agenda[i]] = "working"
    BY <1>5, <1>6, <1>7 DEF TruthInv, AtWorkOnce
  <1>9. ASSUME NEW s \in Refs, NEW t \in Refs, NEW i \in Place(s)', NEW j \in Place(t)',
               session'[s].agenda[i] \in Deliveries,
               session'[s].agenda[i] = session'[t].agenda[j]
        PROVE  s = t /\ i = j
    BY <1>5, <1>6, <1>7, <1>9 DEF TruthInv, AtWorkOnce
  <1> QED BY <1>8, <1>9 DEF AtWorkOnce

(* A delivery that is not the one prompted is as it was.                   *)
LEMMA PromptLeaves ==
    ASSUME TruthInv, NEW r \in Refs, NEW e \in Deliveries,
           session[r].state \in {"none", "live", "parked"},
           \A s \in Refs \ {r} : session'[s] = session[s],
           crowded \subseteq crowded', r \notin crowded' => ~TurnIn(e, r),
           UNCHANGED <<delivery, loop, reply, host>>,
           request'[e] = request[e], outcome'[e] = outcome[e]
    PROVE  Truth(e)'
  <1>0. Truth(e) /\ Progress(e) /\ delivery[e] \in Row /\ ChargeInv
    BY DEF TruthInv, Truth, ChargeInv, RowsAreRows
  <1>1. Progress(e)'
    BY <1>0 DEF Progress, Dispatching
  <1>2. ASSUME NEW s \in Refs, TurnIn(e, s)', s \notin crowded' PROVE AllThereIs(e, s)'
    <2>1. TurnIn(e, s) /\ s \notin crowded /\ s # r
      BY <1>2 DEF TurnIn
    <2>2. AllThereIs(e, s) /\ session'[s] = session[s]
      BY <1>0, <2>1 DEF Truth
    <2> QED BY <2>2 DEF AllThereIs, Live
  <1>3. ASSUME NEW word, NEW s \in Refs, Tells(word, e, s) PROVE Tells(word, e, s)'
    <2>1. session[s].state \in {"ended", "gone"} => session'[s].state \in {"ended", "gone"}
      OBVIOUS
    <2> QED BY <1>3, <2>1 DEF Tells
  <1>4. delivery[e].ref # None => delivery[e].ref \in Refs
    BY <1>0 DEF Row
  <1>5. RowTells(e)'
    BY <1>0, <1>3, <1>4 DEF Truth, RowTells
  <1>6. loop[e] = "asking" => delivery[e].ref \in Refs
    BY <1>0, <1>4 DEF ChargeInv, OneInCharge
  <1>7. WordTells(e)'
    BY <1>0, <1>3, <1>6 DEF Truth, WordTells
  <1> QED BY <1>1, <1>2, <1>5, <1>7 DEF Truth

(* Somebody else types into a session of the target.                       *)
LEMMA PersonTruth ==
    ASSUME TruthInv, ChargeInv', NEW r \in Refs, PersonPrompts(r)
    PROVE  TruthInv'
  <1>1. /\ Prompted(r, Person) /\ session[r].state \in {"none", "live", "parked"}
        /\ UNCHANGED <<delivery, loop, reply, host, request, outcome>>
    BY DEF PersonPrompts, HereUnchanged, Live
  <1>2. /\ session' \in [Refs -> Session]
        /\ \A s \in Refs \ {r} : session'[s] = session[s]
        /\ session'[r].agenda = Append(session[r].agenda, Person)
        /\ crowded \subseteq crowded'
        /\ r \notin crowded' => \A d \in Deliveries : ~TurnIn(d, r)
    BY <1>1, PromptFacts
  <1>3. TargetTypes'
    BY <1>1, <1>2 DEF TruthInv, TargetTypes
  <1>4. AtWorkOnce'
    BY <1>1, <1>2, <1>3, PromptOnce, RemoteAssumption DEF TargetTypes
  <1>5. \A e \in Deliveries : Truth(e)'
    BY <1>1, <1>2, PromptLeaves
  <1> QED BY <1>3, <1>4, <1>5 DEF TruthInv

(* The target takes a dispatch, awaited or abandoned.                      *)
LEMMA AcceptedTruth ==
    ASSUME TruthInv, ChargeInv', NEW d \in Deliveries, TargetAccepts(d)
    PROVE  TruthInv'
  <1> USE RemoteAssumption
  <1>0. /\ Truth(d) /\ Progress(d) /\ delivery[d] \in Row /\ ChargeInv
        /\ request \in [Deliveries -> Sending] /\ request[d] \in Sending
        /\ outcome \in [Deliveries -> {"none", "working", "done", "error", "cut"}]
    BY DEF TruthInv, Truth, ChargeInv, RowsAreRows, TargetTypes
  <1>1. PICK r \in Refs : /\ session[r].state \in {"none", "live", "parked"}
                          /\ Prompted(r, d) /\ Answer(d, r)
    <2>1. request[d].to \in Refs \cup {None}
      BY <1>0 DEF Sending
    <2> QED BY <2>1 DEF TargetAccepts, Unused, Live
  <1>2. /\ session' \in [Refs -> Session]
        /\ \A s \in Refs \ {r} : session'[s] = session[s]
        /\ Live(r)'
        /\ session'[r].agenda = Append(session[r].agenda, d)
        /\ session'[r].busy \/ session'[r].queued
        /\ crowded \subseteq crowded'
        /\ r \notin crowded' =>
             session[r].agenda = <<>> /\ \A e \in Deliveries : ~TurnIn(e, r)
    BY <1>1, PromptFacts
  <1>3. /\ UNCHANGED <<delivery, loop, reply, host>>
        /\ request[d].state \in {"sent", "abandoned"}
        /\ outcome' = [outcome EXCEPT ![d] = "working"]
    BY DEF TargetAccepts
  <1>4. outcome[d] = "none" /\ delivery[d].ref = None
    BY <1>0, <1>3 DEF Progress
  <1>5. /\ request'[d].answer = r
        /\ request'[d].state = IF request[d].state = "abandoned" THEN "over" ELSE "taken"
        /\ \A e \in Deliveries \ {d} : request'[e] = request[e]
    BY <1>0, <1>1 DEF Answer, Sending
  <1>6. /\ outcome'[d] = "working"
        /\ \A e \in Deliveries : e # d => outcome'[e] = outcome[e]
        /\ outcome' \in [Deliveries -> {"none", "working", "done", "error", "cut"}]
    BY <1>0, <1>3
  <1>7. TargetTypes'
    BY <1>2, <1>6 DEF TargetTypes
  <1>8. AtWorkOnce'
    BY <1>2, <1>4, <1>6, PromptOnce
  <1>9. Truth(d)'
    <2>1. Progress(d)'
      BY <1>0, <1>3, <1>4, <1>5 DEF Progress, Dispatching
    <2>2. ASSUME NEW s \in Refs, TurnIn(d, s)', s \notin crowded' PROVE AllThereIs(d, s)'
      <3>1. delivery[d].status # "running"
        BY <1>0, <1>4 DEF ChargeInv, OneInCharge
      <3>2. s = r
        BY <1>3, <1>5, <2>2, <3>1 DEF TurnIn
      <3>3. Append(<<>>, d) = <<d>>
        OBVIOUS
      <3>4. session'[r].agenda = <<d>>
        BY <1>2, <2>2, <3>2, <3>3
      <3> QED BY <1>2, <1>6, <3>2, <3>4 DEF AllThereIs
    <2>3. RowTells(d)'
      BY <1>3, <1>4 DEF RowTells
    <2>4. loop[d] # "asking"
      BY <1>0, <1>4 DEF ChargeInv, OneInCharge
    <2>5. WordTells(d)'
      BY <1>3, <2>4 DEF WordTells
    <2> QED BY <2>1, <2>2, <2>3, <2>5 DEF Truth
  <1>10. \A e \in Deliveries \ {d} : Truth(e)'
    BY <1>1, <1>2, <1>3, <1>5, <1>6, PromptLeaves
  <1> QED BY <1>7, <1>8, <1>9, <1>10 DEF TruthInv

----------------------------------------------------------------------------
(* Something happens to session r: it matters to the deliveries at work    *)
(* there and to who waits for them.                                        *)
OnAgenda(e, r) == \E i \in Place(r) : session[r].agenda[i] = e

(* What session r does is told truly to every delivery that is at work there.*)
LEMMA EventTruth ==
    ASSUME TruthInv, ChargeInv', TargetTypes', AtWorkOnce', NEW r \in Refs, Live(r),
           UNCHANGED <<delivery, request, loop, host, crowded>>,
           \A s \in Refs \ {r} : session'[s] = session[s],
           \A e \in Deliveries : outcome'[e] = outcome[e] \/ OnAgenda(e, r),
           \A e \in Deliveries :
               r \notin crowded /\ TurnIn(e, r) /\ AllThereIs(e, r) => AllThereIs(e, r)',
           \A e \in Deliveries : loop[e] = "asking" =>
               \/ reply'[e] = reply[e]
               \/ \A word \in {reply'[e]} : delivery[e].ref = r /\ Tells(word, e, r)'
    PROVE  TruthInv'
  <1>1. ASSUME NEW e \in Deliveries PROVE Truth(e)'
    <2>0. Truth(e) /\ Progress(e) /\ delivery[e] \in Row /\ ChargeInv /\ AtWorkOnce
      BY DEF TruthInv, Truth, ChargeInv, RowsAreRows
    <2>1. outcome'[e] = outcome[e] \/ (outcome[e] = "working" /\ OnAgenda(e, r))
      BY <2>0 DEF AtWorkOnce, OnAgenda
    <2>2. session[r].state \notin {"ended", "gone"}
      BY DEF Live
    <2>3. Progress(e)'
      BY <2>0, <2>1 DEF Progress, Dispatching
    <2>4. ASSUME NEW s \in Refs, TurnIn(e, s)', s \notin crowded' PROVE AllThereIs(e, s)'
      <3>1. TurnIn(e, s) /\ s \notin crowded /\ AllThereIs(e, s)
        BY <2>0, <2>4 DEF Truth, TurnIn
      <3>2. CASE s = r
        BY <3>1, <3>2
      <3>3. CASE s # r
        <4>1. session'[s] = session[s]
          BY <3>3
        <4>2. CASE session[s].state \in {"ended", "gone"}
          BY <4>1, <4>2 DEF AllThereIs
        <4>3. CASE outcome'[e] = outcome[e]
          BY <3>1, <4>1, <4>3 DEF AllThereIs, Live
        <4>4. CASE session[s].state \notin {"ended", "gone"} /\ outcome'[e] # outcome[e]
          <5>1. session[s].agenda = <<e>>
            BY <2>1, <3>1, <4>4 DEF AllThereIs
          <5>2. 1 \in Place(s) /\ session[s].agenda[1] = e
            BY <5>1 DEF Place
          <5>3. PICK i \in Place(r) : session[r].agenda[i] = e
            BY <2>1, <4>4 DEF OnAgenda
          <5> QED BY <2>0, <3>3, <5>2, <5>3 DEF AtWorkOnce
        <4> QED BY <4>2, <4>3, <4>4
      <3> QED BY <3>2, <3>3
    <2>5. ASSUME NEW word, NEW s \in Refs, Tells(word, e, s) PROVE Tells(word, e, s)'
      <3>1. session[s].state \in {"ended", "gone"} => session'[s].state \in {"ended", "gone"}
        BY <2>2
      <3> QED BY <2>1, <2>5, <3>1 DEF Tells
    <2>6. delivery[e].ref # None => delivery[e].ref \in Refs
      BY <2>0 DEF Row
    <2>7. RowTells(e)'
      BY <2>0, <2>5, <2>6 DEF Truth, RowTells
    <2>8. loop[e] = "asking" => delivery[e].ref \in Refs
      BY <2>0, <2>6 DEF ChargeInv, OneInCharge
    <2>9. WordTells(e)'
      <3>1. CASE reply'[e] = reply[e]
        BY <2>0, <2>5, <2>8, <3>1 DEF Truth, WordTells
      <3>2. CASE reply'[e] # reply[e]
        <4> SUFFICES ASSUME loop'[e] = "asking" PROVE Tells(reply[e], e, delivery[e].ref)'
          BY DEF WordTells
        <4>1. loop[e] = "asking"
          OBVIOUS
        <4>2. PICK word : word = reply'[e]
          OBVIOUS
        <4>3. delivery[e].ref = r /\ Tells(word, e, r)'
          BY <3>2, <4>1, <4>2
        <4> QED BY <4>2, <4>3 DEF Tells
      <3> QED BY <3>1, <3>2
    <2> QED BY <2>3, <2>4, <2>7, <2>9 DEF Truth
  <1> QED BY <1>1 DEF TruthInv

(* The queued prompt goes in, an approval is asked for or given: the turn  *)
(* there is the same.                                                      *)
LEMMA GoesOnTruth ==
    ASSUME TruthInv, ChargeInv', NEW r \in Refs, QueuedPromptStarts(r) \/ Parks(r) \/ Approved(r)
    PROVE  TruthInv'
  <1>0. /\ session \in [Refs -> Session] /\ session[r] \in Session
        /\ outcome \in [Deliveries -> {"none", "working", "done", "error", "cut"}]
    BY DEF TruthInv, TargetTypes
  <1>1. UNCHANGED <<delivery, request, loop, host, crowded, outcome>> /\ Live(r)
    BY DEF QueuedPromptStarts, Parks, Approved, HereUnchanged, Live
  <1>2. PICK after \in Session :
          /\ session' = [session EXCEPT ![r] = after]
          /\ after.agenda = session[r].agenda /\ after.state \in {"live", "parked"}
          /\ after.failed = session[r].failed
          /\ \/ after.busy = session[r].busy /\ after.queued = session[r].queued
             \/ session[r].queued /\ after.busy
    <2>1. CASE QueuedPromptStarts(r)
      <3> DEFINE after == [session[r] EXCEPT !.queued = FALSE, !.busy = TRUE]
      <3>1. session' = [session EXCEPT ![r] = after]
        BY <1>0, <2>1 DEF QueuedPromptStarts
      <3>2. /\ after \in Session /\ after.agenda = session[r].agenda /\ after.failed = session[r].failed
            /\ after.state = session[r].state /\ after.busy = TRUE
        BY <1>0 DEF Session
      <3>3. session[r].queued
        BY <2>1 DEF QueuedPromptStarts
      <3> HIDE DEF after
      <3> QED BY <1>1, <3>1, <3>2, <3>3 DEF Live
    <2>2. CASE Parks(r) \/ Approved(r)
      <3>1. PICK state \in {"live", "parked"} : session' = [session EXCEPT ![r].state = state]
        BY <2>2 DEF Parks, Approved
      <3> DEFINE after == [session[r] EXCEPT !.state = state]
      <3>2. session' = [session EXCEPT ![r] = after]
        BY <1>0, <3>1
      <3>3. /\ after \in Session /\ after.agenda = session[r].agenda /\ after.failed = session[r].failed
            /\ after.state = state /\ after.busy = session[r].busy
            /\ after.queued = session[r].queued
        BY <1>0 DEF Session, Entries
      <3> HIDE DEF after
      <3> QED BY <3>2, <3>3
    <2> QED BY <2>1, <2>2
  <1>3. /\ session'[r] = after /\ session' \in [Refs -> Session]
        /\ \A s \in Refs \ {r} : session'[s] = session[s]
    BY <1>0, <1>2
  <1>4. \A s \in Refs : session'[s].agenda = session[s].agenda /\ Place(s)' = Place(s)
    BY <1>2, <1>3 DEF Place
  <1>5. TargetTypes'
    BY <1>0, <1>1, <1>3 DEF TargetTypes
  <1>6. AtWorkOnce'
    BY <1>1, <1>4 DEF TruthInv, AtWorkOnce
  <1>7. ASSUME NEW e \in Deliveries, AllThereIs(e, r) PROVE AllThereIs(e, r)'
    <2>1. Live(r)' /\ session[r].state \notin {"ended", "gone"}
      BY <1>1, <1>2, <1>3 DEF Live
    <2>2. CASE session[r].agenda = <<e>> /\ outcome[e] = "working" /\ (session[r].busy \/ session[r].queued)
      <3>1. after.busy \/ after.queued
        BY <1>2, <2>2
      <3> QED BY <1>1, <1>2, <1>3, <2>1, <2>2, <3>1 DEF AllThereIs
    <2>3. CASE /\ session[r].agenda = <<>> /\ ~session[r].busy /\ ~session[r].queued
               /\ outcome[e] = IF session[r].failed THEN "error" ELSE "done"
      <3>1. ~after.busy /\ ~after.queued
        BY <1>2, <2>3
      <3> QED BY <1>1, <1>2, <1>3, <2>1, <2>3, <3>1 DEF AllThereIs
    <2> QED BY <1>7, <2>1, <2>2, <2>3 DEF AllThereIs
  <1>8. ASSUME NEW e \in Deliveries
        PROVE  reply'[e] = reply[e] \/ (delivery[e].ref = r /\ reply'[e] = "awaiting")
    <2>1. CASE Parks(r)
      BY <2>1 DEF Parks, Hear
    <2>2. CASE ~Parks(r)
      BY <2>2 DEF QueuedPromptStarts, Approved
    <2> QED BY <2>1, <2>2
  <1>9. ASSUME NEW e \in Deliveries
        PROVE  \/ reply'[e] = reply[e]
               \/ \A word \in {reply'[e]} : delivery[e].ref = r /\ Tells(word, e, r)'
    BY <1>8 DEF Tells
  <1> QED BY <1>1, <1>3, <1>5, <1>6, <1>7, <1>9, EventTruth

(* A turn ends: it is nobody else's, and who waits hears how it went.      *)
LEMMA TurnEndsTruth ==
    ASSUME TruthInv, ChargeInv', NEW r \in Refs, TurnEnds(r)
    PROVE  TruthInv'
  <1>0. /\ session \in [Refs -> Session] /\ session[r] \in Session
        /\ outcome \in [Deliveries -> {"none", "working", "done", "error", "cut"}]
        /\ AtWorkOnce /\ session[r].agenda \in Seq(Deliveries \cup {Person})
    BY DEF TruthInv, TargetTypes, Session
  <1>1. /\ UNCHANGED <<delivery, request, loop, host, crowded>> /\ Live(r)
        /\ session[r].agenda # <<>> /\ (session[r].queued => Len(session[r].agenda) > 1)
    BY DEF TurnEnds, HereUnchanged, Live
  <1> DEFINE who == Head(session[r].agenda)
             rest == Tail(session[r].agenda)
  <1>2. PICK failed \in BOOLEAN :
          /\ session' = [session EXCEPT ![r].busy = FALSE, ![r].failed = failed,
                                        ![r].agenda = Tail(@)]
          /\ outcome' = [d \in Deliveries |-> IF d # who THEN outcome[d]
                                              ELSE IF failed THEN "error" ELSE "done"]
          /\ IF session[r].queued THEN UNCHANGED reply
             ELSE Hear(r, IF failed THEN "error" ELSE "complete")
    BY DEF TurnEnds
  <1>3. PICK n \in Nat : /\ Len(session[r].agenda) = n + 1 /\ rest \in Seq(Deliveries \cup {Person})
                         /\ Len(rest) = n /\ \A i \in 1 .. n : rest[i] = session[r].agenda[i + 1]
                         /\ who = session[r].agenda[1]
    <2>1. Len(session[r].agenda) \in Nat \ {0}
      BY <1>0, <1>1
    <2>2. PICK n \in Nat : Len(session[r].agenda) = n + 1
      <3>1. /\ Len(session[r].agenda) - 1 \in Nat
            /\ Len(session[r].agenda) = (Len(session[r].agenda) - 1) + 1
        BY <2>1
      <3> QED BY Zenon, <3>1
    <2>3. rest \in Seq(Deliveries \cup {Person}) /\ Len(rest) = n
      BY <1>0, <1>1, <2>2
    <2>4. \A i \in 1 .. n : rest[i] = session[r].agenda[i + 1]
      BY <1>0, <1>1, <2>2, <2>3
    <2>5. who = session[r].agenda[1]
      BY <1>0, <1>1
    <2> QED BY <2>2, <2>3, <2>4, <2>5
  <1> HIDE DEF who, rest
  <1>4. PICK after \in Session :
          /\ session' = [session EXCEPT ![r] = after]
          /\ after.agenda = rest /\ after.state = session[r].state
          /\ after.failed = failed /\ after.busy = FALSE /\ after.queued = session[r].queued
    <2> DEFINE after == [session[r] EXCEPT !.busy = FALSE, !.failed = failed, !.agenda = rest]
    <2>1. session' = [session EXCEPT ![r] = after]
      BY <1>0, <1>2 DEF rest
    <2>2. /\ after \in Session /\ after.agenda = rest /\ after.state = session[r].state
          /\ after.failed = failed /\ after.busy = FALSE /\ after.queued = session[r].queued
      BY <1>0, <1>3 DEF Session
    <2> HIDE DEF after
    <2> QED BY <2>1, <2>2
  <1>5. /\ session'[r] = after /\ session' \in [Refs -> Session]
        /\ \A s \in Refs \ {r} : session'[s] = session[s]
    BY <1>0, <1>4
  <1>6. /\ \A d \in Deliveries : outcome'[d] = IF d # who THEN outcome[d]
                                               ELSE IF failed THEN "error" ELSE "done"
        /\ outcome' \in [Deliveries -> {"none", "working", "done", "error", "cut"}]
    BY <1>0, <1>2
  <1>7. TargetTypes'
    BY <1>5, <1>6 DEF TargetTypes
  <1>8. \A s \in Refs : \A i \in Place(s)' :
          \/ s # r /\ i \in Place(s) /\ session'[s].agenda[i] = session[s].agenda[i]
          \/ s = r /\ i + 1 \in Place(r) /\ session'[s].agenda[i] = session[r].agenda[i + 1]
    <2>1. \A s \in Refs \ {r} : Place(s)' = Place(s) /\ session'[s].agenda = session[s].agenda
      BY <1>5 DEF Place
    <2>2. /\ Place(r)' = 1 .. n /\ Place(r) = 1 .. (n + 1)
          /\ \A i \in 1 .. n : session'[r].agenda[i] = session[r].agenda[i + 1]
      BY <1>3, <1>4, <1>5 DEF Place
    <2>3. \A i \in 1 .. n : i + 1 \in 1 .. (n + 1)
      OBVIOUS
    <2> QED BY Zenon, <2>1, <2>2, <2>3
  <1>9. 1 \in Place(r) /\ \A i \in Place(r) : i \in Int
    BY <1>3 DEF Place
  <1>10. \A s \in Refs : \A i \in Place(s) : i \in Int
    BY DEF Place
  <1>11. \A s \in Refs : \A i \in Place(s)' : i \in Int /\ i > 0
    BY DEF Place
  <1>12. \A s \in Refs : \A i \in Place(s)' :
           session'[s].agenda[i] \in Deliveries => session'[s].agenda[i] # who
    <2> SUFFICES ASSUME NEW s \in Refs, NEW i \in Place(s)',
                        session'[s].agenda[i] \in Deliveries, session'[s].agenda[i] = who
                 PROVE  FALSE
      OBVIOUS
    <2>1. CASE s # r
      BY <1>0, <1>3, <1>8, <1>9, <2>1 DEF AtWorkOnce
    <2>2. CASE s = r
      <3>1. i + 1 \in Place(r) /\ session[r].agenda[i + 1] = session[r].agenda[1]
        BY <1>3, <1>8, <2>2
      <3>2. i + 1 = 1
        BY <1>0, <1>8, <1>9, <2>2, <3>1 DEF AtWorkOnce
      <3> QED BY <1>11, <3>2
    <2> QED BY <2>1, <2>2
  <1>13. AtWorkOnce'
    <2>1. \A s \in Refs : \A i \in Place(s)' :
            session'[s].agenda[i] \in Deliveries => outcome'[session'[s].agenda[i]] = "working"
      BY <1>0, <1>6, <1>8, <1>12 DEF AtWorkOnce
    <2>2. ASSUME NEW s \in Refs, NEW t \in Refs, NEW i \in Place(s)', NEW j \in Place(t)',
                 session'[s].agenda[i] \in Deliveries,
                 session'[s].agenda[i] = session'[t].agenda[j]
          PROVE  s = t /\ i = j
      <3>1. i \in Int /\ j \in Int
        BY <1>11
      <3>2. CASE s = r /\ t = r
        <4>1. i + 1 = j + 1
          BY <1>0, <1>8, <2>2, <3>2 DEF AtWorkOnce
        <4> QED BY <3>1, <3>2, <4>1
      <3>3. CASE s # r /\ t # r
        BY <1>0, <1>8, <2>2, <3>3 DEF AtWorkOnce
      <3>4. CASE ~(s = r <=> t = r)
        BY <1>0, <1>8, <2>2, <3>4 DEF AtWorkOnce
      <3> QED BY <3>2, <3>3, <3>4
    <2> QED BY <2>1, <2>2 DEF AtWorkOnce
  <1>14. \A e \in Deliveries : outcome'[e] = outcome[e] \/ OnAgenda(e, r)
    BY <1>3, <1>6, <1>9 DEF OnAgenda
  <1>15. ASSUME NEW e \in Deliveries, AllThereIs(e, r)
         PROVE  /\ session[r].agenda = <<e>> /\ e = who /\ n = 0 /\ ~session[r].queued
    <2>1. session[r].agenda = <<e>>
      BY <1>1, <1>15 DEF AllThereIs, Live
    <2>2. Len(<<e>>) = 1 /\ <<e>>[1] = e
      OBVIOUS
    <2> QED BY <1>1, <1>3, <2>1, <2>2
  <1>16. ASSUME NEW e \in Deliveries, AllThereIs(e, r) PROVE AllThereIs(e, r)'
    <2>1. session'[r].agenda = <<>>
      BY <1>3, <1>4, <1>5, <1>15, <1>16
    <2>2. ~session'[r].busy /\ ~session'[r].queued
      BY <1>4, <1>5, <1>15, <1>16
    <2>3. outcome'[e] = IF session'[r].failed THEN "error" ELSE "done"
      BY <1>4, <1>5, <1>6, <1>15, <1>16
    <2>4. Live(r)'
      BY <1>1, <1>4, <1>5 DEF Live
    <2> QED BY <2>1, <2>2, <2>3, <2>4 DEF AllThereIs
  <1>17. ASSUME NEW e \in Deliveries, loop[e] = "asking", reply'[e] # reply[e]
         PROVE  delivery[e].ref = r /\ \A word \in {reply'[e]} : Tells(word, e, r)'
    <2>1. /\ delivery[e].ref = r /\ reply'[e] = IF failed THEN "error" ELSE "complete"
      BY <1>2, <1>17 DEF Hear
    <2>2. TurnIn(e, r)
      BY <1>17, <2>1 DEF TurnIn, TruthInv, ChargeInv, OneInCharge
    <2>3. r \notin crowded => outcome'[e] = IF failed THEN "error" ELSE "done"
      BY <1>6, <1>15, <2>2 DEF TruthInv, Truth
    <2> QED BY <1>1, <2>1, <2>3 DEF Tells
  <1> QED BY <1>1, <1>5, <1>7, <1>13, <1>14, <1>16, <1>17, EventTruth

(* A session ends, with whatever was on its agenda.                        *)
LEMMA SessionEndsTruth ==
    ASSUME TruthInv, ChargeInv', NEW r \in Refs, SessionEnds(r)
    PROVE  TruthInv'
  <1>0. /\ session \in [Refs -> Session] /\ session[r] \in Session
        /\ outcome \in [Deliveries -> {"none", "working", "done", "error", "cut"}]
        /\ AtWorkOnce /\ session[r].agenda \in Seq(Deliveries \cup {Person})
    BY DEF TruthInv, TargetTypes, Session
  <1>1. UNCHANGED <<delivery, request, loop, host, crowded>> /\ Live(r)
    BY DEF SessionEnds, HereUnchanged
  <1>2. PICK state \in {"ended", "gone"} :
          session' = [session EXCEPT ![r].state = state, ![r].busy = FALSE,
                                     ![r].queued = FALSE, ![r].agenda = <<>>]
    BY DEF SessionEnds
  <1>3. PICK after \in Session :
          /\ session' = [session EXCEPT ![r] = after]
          /\ after.agenda = <<>> /\ after.state = state
    <2> DEFINE after == [session[r] EXCEPT !.state = state, !.busy = FALSE,
                                           !.queued = FALSE, !.agenda = <<>>]
    <2>1. session' = [session EXCEPT ![r] = after]
      BY <1>0, <1>2
    <2>2. <<>> \in Seq(Deliveries \cup {Person})
      OBVIOUS
    <2>3. after \in Session /\ after.agenda = <<>> /\ after.state = state
      BY <1>0, <2>2 DEF Session, Entries
    <2> HIDE DEF after
    <2> QED BY <2>1, <2>3
  <1>4. /\ session'[r] = after /\ session' \in [Refs -> Session]
        /\ \A s \in Refs \ {r} : session'[s] = session[s]
    BY <1>0, <1>3
  <1>5. DOMAIN session[r].agenda = Place(r)
    BY <1>0 DEF Place
  <1>6. \A d \in Deliveries : outcome'[d] = IF OnAgenda(d, r) THEN "cut" ELSE outcome[d]
    BY <1>5 DEF SessionEnds, OnAgenda
  <1>7. outcome' \in [Deliveries -> {"none", "working", "done", "error", "cut"}]
    BY <1>0 DEF SessionEnds
  <1>8. TargetTypes'
    BY <1>4, <1>7 DEF TargetTypes
  <1>9. /\ Place(r)' = {}
        /\ \A s \in Refs \ {r} : Place(s)' = Place(s) /\ session'[s].agenda = session[s].agenda
    BY <1>3, <1>4 DEF Place
  <1>10. AtWorkOnce'
    <2>1. ASSUME NEW s \in Refs, NEW i \in Place(s)', session'[s].agenda[i] \in Deliveries
          PROVE  outcome'[session'[s].agenda[i]] = "working"
      <3>1. s # r /\ i \in Place(s) /\ session'[s].agenda[i] = session[s].agenda[i]
        BY <1>9
      <3>2. ~OnAgenda(session[s].agenda[i], r)
        BY <1>0, <2>1, <3>1 DEF AtWorkOnce, OnAgenda
      <3> QED BY <1>0, <1>6, <2>1, <3>1, <3>2 DEF AtWorkOnce
    <2>2. ASSUME NEW s \in Refs, NEW t \in Refs, NEW i \in Place(s)', NEW j \in Place(t)',
                 session'[s].agenda[i] \in Deliveries,
                 session'[s].agenda[i] = session'[t].agenda[j]
          PROVE  s = t /\ i = j
      BY <1>0, <1>9, <2>2 DEF AtWorkOnce
    <2> QED BY <2>1, <2>2 DEF AtWorkOnce
  <1>11. \A e \in Deliveries : AllThereIs(e, r)'
    BY <1>3, <1>4 DEF AllThereIs
  <1>12. ASSUME NEW e \in Deliveries, reply'[e] # reply[e]
         PROVE  delivery[e].ref = r /\ \A word \in {reply'[e]} : Tells(word, e, r)'
    <2>1. delivery[e].ref = r /\ reply'[e] = "ended"
      BY <1>12 DEF SessionEnds, Hear
    <2> QED BY <1>3, <1>4, <2>1 DEF Tells
  <1>13. \A e \in Deliveries : outcome'[e] = outcome[e] \/ OnAgenda(e, r)
    BY <1>6
  <1> QED BY <1>1, <1>4, <1>8, <1>10, <1>11, <1>12, <1>13, EventTruth

----------------------------------------------------------------------------
(* Every step keeps the truth.                                             *)
LEMMA TruthStep ==
    TruthInv /\ [RemoteNext]_remoteVars => TruthInv'
  <1> SUFFICES ASSUME TruthInv, [RemoteNext]_remoteVars PROVE TruthInv'
    OBVIOUS
  <1>1. ChargeInv'
    BY ChargeStep DEF TruthInv
  <1>2. ASSUME NEW d \in Deliveries,
               \/ DispatchStep(d) \/ TakeStep(d) \/ WaitStep(d) \/ AskLost(d) \/ AskRejected(d)
        PROVE  TruthInv'
    BY <1>1, <1>2, DispatchTruth, AcceptedTruth, RefusedTruth, WaitTruth DEF TakeStep
  <1>3. ASSUME NEW r \in Refs, TargetStep(r) \/ Parks(r) \/ SessionEnds(r) \/ PersonPrompts(r)
        PROVE  TruthInv'
    BY <1>1, <1>3, GoesOnTruth, TurnEndsTruth, SessionEndsTruth, PersonTruth DEF TargetStep
  <1>4. CASE UNCHANGED remoteVars
    <2>1. /\ UNCHANGED <<delivery, request, loop, reply, host, session, outcome, crowded>>
          /\ UNCHANGED targetVars
      BY <1>4 DEF remoteVars, targetVars
    <2>2. TargetTypes' /\ AtWorkOnce'
      BY <2>1 DEF TruthInv, TargetTypes, AtWorkOnce, Place
    <2>3. \A d \in Deliveries : Truth(d)'
      BY <2>1, TruthStays DEF TruthInv
    <2> QED BY <1>1, <2>2, <2>3 DEF TruthInv
  <1>5. CASE Stop \/ RoutingChanges \/ Exits \/ Crashes \/ Sweep \/ Boot
    BY <1>1, <1>5, StopTruth, DownTruth, SweepTruth DEF Exits, Crashes
  <1> QED BY <1>2, <1>3, <1>4, <1>5 DEF RemoteNext

(* The inductive invariant: a delivery's turn is on one agenda, once; in a *)
(* session nobody crowded it is all there is; and whatever a row or an     *)
(* answer on its way to it says of that turn is so.                        *)
THEOREM TruthInvariant == RemoteSpec => []TruthInv
  BY TruthStarts, TruthStep, PTL DEF RemoteSpec

(* A delivery is settled by what became of its own turn, unless its        *)
(* session was prompted again before that turn was settled.                *)
THEOREM RemoteTruthHolds == RemoteSpec => []RemoteTruth
  <1>1. TruthInv => RemoteTruth
    <2> SUFFICES ASSUME TruthInv, NEW d \in Deliveries
                 PROVE  /\ delivery[d].ref # None /\ delivery[d].ref \notin crowded =>
                            /\ delivery[d].status = "succeeded" => outcome[d] = "done"
                            /\ delivery[d].error = "error" => outcome[d] = "error"
                            /\ delivery[d].error \in {"ended", "gone"} =>
                                 session[delivery[d].ref].state \in {"ended", "gone"}
                        /\ delivery[d].error \in {"cap", "refused", "incomplete"} =>
                             outcome[d] = "none"
                        /\ delivery[d].status = "failed" /\ delivery[d].ref # None =>
                             delivery[d].error \in {"error", "ended", "gone", "not_configured",
                                                    "rejected"}
      BY DEF RemoteTruth
    <2>1. Progress(d) /\ RowTells(d)
      BY DEF TruthInv, Truth
    <2> QED BY <2>1 DEF Progress, RowTells, Tells
  <1> QED BY TruthInvariant, <1>1, PTL

----------------------------------------------------------------------------
(* The hub's hosts.                                                        *)

Loops(h) == strays[h] + probes[h] + (IF slot[h] = "timer" THEN 1 ELSE 0)

(* The poller: a slot marked over has its probe out; a host in a slot has  *)
(* one loop more than one that is in none, and an enabled host is in one.  *)
PollerShape ==
    /\ slot \in [Hosts -> {"none", "mark", "timer"}]
    /\ strays \in [Hosts -> Nat] /\ probes \in [Hosts -> Nat] /\ crossed \in [Hosts -> Nat]

PollerSound(rows) ==
    /\ PollerShape
    /\ \A h \in Hosts :
          /\ slot[h] = "mark" => probes[h] > 0
          /\ Loops(h) <= crossed[h] + (IF slot[h] = "none" THEN 0 ELSE 1)
          /\ Enabled(rows, h) => slot[h] # "none"

(* The relay: once every request is through, an enabled and bound host is  *)
(* listened to, and a stream that still connects with an older credential  *)
(* is one that was passed over.                                            *)
HeardSettled(h) ==
    /\ ListenedTo(h)
    /\ relay[h].using \notin {0, registry[h].cred} /\ ~relay[h].open => h \in passedOver

Bound(h) == Enabled(registry, h) /\ registry[h].cred # 0

RelaySound ==
    due = 0 /\ binding = 0 => \A h \in Hosts : Bound(h) => HeardSettled(h)


----------------------------------------------------------------------------
(* The poller.                                                             *)

(* A reconcile leaves the poller sound for the rows it was given, whatever *)
(* rows it was sound for.                                                  *)
LEMMA PollerReconcileSound ==
    ASSUME PollerSound(registry), PollerReconciled(registry')
    PROVE  PollerSound(registry)'
  <1>1. PollerShape'
    BY DEF PollerSound, PollerShape, PollerReconciled
  <1>2. ASSUME NEW h \in Hosts
        PROVE  /\ slot'[h] = "mark" => probes'[h] > 0
               /\ Loops(h)' <= crossed'[h] + (IF slot'[h] = "none" THEN 0 ELSE 1)
               /\ Enabled(registry', h) => slot'[h] # "none"
    <2>1. CASE Enabled(registry', h)
      BY <2>1 DEF PollerSound, PollerShape, PollerReconciled, Loops
    <2>2. CASE ~Enabled(registry', h) /\ probes[h] = 0
      BY <2>2 DEF PollerSound, PollerShape, PollerReconciled, Loops
    <2>3. CASE ~Enabled(registry', h) /\ probes[h] # 0
      BY <2>3 DEF PollerSound, PollerShape, PollerReconciled, Loops
    <2> QED BY <2>1, <2>2, <2>3
  <1> QED BY <1>1, <1>2 DEF PollerSound

(* So does a step that leaves the poller and the enabled hosts alone.      *)
LEMMA PollerLeftAlone ==
    ASSUME PollerSound(registry), UNCHANGED pollerVars,
           \A h \in Hosts : Enabled(registry', h) => Enabled(registry, h)
    PROVE  PollerSound(registry)'
  BY DEF PollerSound, PollerShape, pollerVars, Loops

(* A timer in its slot fires.                                              *)
LEMMA TimerFiresSound ==
    ASSUME PollerSound(registry), NEW h \in Hosts, TimerFires(h)
    PROVE  PollerSound(registry)'
  <1>1. PollerShape'
    BY DEF PollerSound, PollerShape, TimerFires, Wake
  <1>2. ASSUME NEW g \in Hosts
        PROVE  /\ slot'[g] = "mark" => probes'[g] > 0
               /\ Loops(g)' <= crossed'[g] + (IF slot'[g] = "none" THEN 0 ELSE 1)
               /\ Enabled(registry', g) => slot'[g] # "none"
    <2>1. CASE g # h
      BY <2>1 DEF PollerSound, PollerShape, TimerFires, Wake, Loops
    <2>2. CASE g = h /\ Enabled(registry, h)
      BY <2>2 DEF PollerSound, PollerShape, TimerFires, Wake, Loops
    <2>3. CASE g = h /\ ~Enabled(registry, h)
      BY <2>3 DEF PollerSound, PollerShape, TimerFires, Wake, Loops
    <2> QED BY <2>1, <2>2, <2>3
  <1> QED BY <1>1, <1>2 DEF PollerSound

(* A timer the poller lost sight of fires; the one in the slot, if any, is *)
(* then lost in its place.                                                 *)
LEMMA StrayFiresSound ==
    ASSUME PollerSound(registry), NEW h \in Hosts, StrayFires(h)
    PROVE  PollerSound(registry)'
  <1>1. strays[h] \in Nat /\ strays[h] > 0
    BY DEF PollerSound, PollerShape, StrayFires
  <1>2. PollerShape'
    BY <1>1 DEF PollerSound, PollerShape, StrayFires, Wake
  <1>3. ASSUME NEW g \in Hosts
        PROVE  /\ slot'[g] = "mark" => probes'[g] > 0
               /\ Loops(g)' <= crossed'[g] + (IF slot'[g] = "none" THEN 0 ELSE 1)
               /\ Enabled(registry', g) => slot'[g] # "none"
    <2>1. CASE g # h
      BY <2>1 DEF PollerSound, PollerShape, StrayFires, Wake, Loops
    <2>2. CASE g = h /\ Enabled(registry, h)
      BY <1>1, <2>2 DEF PollerSound, PollerShape, StrayFires, Wake, Loops
    <2>3. CASE g = h /\ ~Enabled(registry, h)
      BY <1>1, <2>3 DEF PollerSound, PollerShape, StrayFires, Wake, Loops
    <2> QED BY <2>1, <2>2, <2>3
  <1> QED BY <1>2, <1>3 DEF PollerSound

(* A probe is over: its loop goes on as a timer.                           *)
LEMMA ProbeEndsSound ==
    ASSUME PollerSound(registry), NEW h \in Hosts, ProbeEnds(h)
    PROVE  PollerSound(registry)'
  <1>1. probes[h] \in Nat /\ probes[h] > 0
    BY DEF PollerSound, PollerShape, ProbeEnds
  <1>2. PollerShape'
    BY <1>1 DEF PollerSound, PollerShape, ProbeEnds
  <1>3. ASSUME NEW g \in Hosts
        PROVE  /\ slot'[g] = "mark" => probes'[g] > 0
               /\ Loops(g)' <= crossed'[g] + (IF slot'[g] = "none" THEN 0 ELSE 1)
               /\ Enabled(registry', g) => slot'[g] # "none"
    BY <1>1 DEF PollerSound, PollerShape, ProbeEnds, Loops
  <1> QED BY <1>2, <1>3 DEF PollerSound

(* A restart probes each enabled host once.                                *)
LEMMA RestartPollsAnew ==
    ASSUME HubRestarts
    PROVE  PollerSound(registry)'
  BY DEF HubRestarts, PollerSound, PollerShape, Loops, Enabled

----------------------------------------------------------------------------
(* The relay.                                                              *)

Statuses == {"none", "disabled", "unbound", "unsupported", "unauthorized", "reconnecting",
             "connected"}
HostRow(n)    == [there : BOOLEAN, enabled : BOOLEAN, cred : 0 .. n]
Stream(n) == [using : 0 .. n, open : BOOLEAN, waiting : BOOLEAN, status : Statuses,
              answered : 0 .. n]

(* What a type correct state is made of.                                   *)
Shape ==
    /\ minted \in Nat
    /\ registry \in [Hosts -> HostRow(minted)] /\ revoked \subseteq 1 .. minted
    /\ relay \in [Hosts -> Stream(minted)] /\ passedOver \subseteq Hosts
    /\ due \in Nat /\ binding \in Nat

(* The type invariant, cut into the hub's tables and its pollers.          *)
LEMMA TypeIsShape == HubTypeOK <=> Shape /\ PollerShape
  BY DEF HubTypeOK, Shape, PollerShape, HostRow, Stream, Statuses

(* The streams the relay puts in place are streams.                        *)
LEMMA IdleType ==
    ASSUME NEW n \in Nat, NEW s \in Statuses
    PROVE  Idle(s) \in Stream(n)
  BY DEF Idle, Stream

(* A stream that connects anew with a credential is a stream.              *)
LEMMA ConnectingType ==
    ASSUME NEW n \in Nat, NEW r \in Stream(n), NEW c \in 0 .. n
    PROVE  Connecting(r, c) \in Stream(n)
  BY DEF Connecting, Stream

(* What a change of a host makes of its stream is a stream.                *)
LEMMA RelayAfterType ==
    ASSUME Shape, UNCHANGED minted, (registry \in [Hosts -> HostRow(minted)])', NEW h \in Hosts
    PROVE  RelayAfter(registry', h) \in Stream(minted)'
  <1>1. minted' \in Nat /\ relay[h] \in Stream(minted') /\ registry'[h].cred \in 0 .. minted'
    BY DEF Shape, HostRow
  <1>2. Idle("none") \in Stream(minted') /\ Idle("disabled") \in Stream(minted')
        /\ Idle("unbound") \in Stream(minted')
    BY <1>1, IdleType DEF Statuses
  <1>3. Connecting(relay[h], registry'[h].cred) \in Stream(minted')
    BY <1>1, ConnectingType
  <1> QED BY <1>1, <1>2, <1>3 DEF RelayAfter, Enabled

(* Reconciling settles every enabled and bound host.                       *)
LEMMA RelayReconcileSettles ==
    ASSUME Shape, Shape', RelayReconciled(registry')
    PROVE  RelaySound'
  <1>1. SUFFICES ASSUME NEW h \in Hosts, Bound(h)'
                 PROVE  HeardSettled(h)'
    BY DEF RelaySound
  <1>2. relay'[h] = RelayAfter(registry', h) /\ relay[h].using \in Nat
    BY DEF RelayReconciled, Shape, Stream
  <1>3. RelayAfter(registry', h) = IF relay[h].using = 0 /\ ~relay[h].waiting
                                   THEN Connecting(relay[h], registry'[h].cred) ELSE relay[h]
    BY <1>1 DEF RelayAfter, Bound, Enabled
  <1>4. registry'[h].cred \in Nat /\ registry'[h].cred # 0
    BY <1>1 DEF Bound, Shape, HostRow
  <1>5. CASE relay[h].using = 0 /\ ~relay[h].waiting
    <2>1. relay'[h].using = registry'[h].cred
      BY <1>2, <1>3, <1>5 DEF Connecting, Shape, Stream
    <2> QED BY <1>4, <2>1 DEF HeardSettled, ListenedTo
  <1>6. CASE ~(relay[h].using = 0 /\ ~relay[h].waiting)
    <2>1. relay'[h] = relay[h]
      BY <1>2, <1>3, <1>6
    <2>2. (relay[h].using \notin {0, registry'[h].cred} /\ ~relay[h].open) => h \in passedOver'
      BY <2>1 DEF RelayReconciled
    <2> QED BY <1>6, <2>1, <2>2 DEF HeardSettled, ListenedTo
  <1> QED BY <1>5, <1>6

----------------------------------------------------------------------------
(* The whole: the invariant, and that every action preserves it.           *)
HubInv == Shape /\ PollerSound(registry) /\ RelaySound

(* Reconciling the relay with rows that are well formed.                   *)
LEMMA RelayReconcileSound ==
    ASSUME Shape, UNCHANGED minted, (revoked \subseteq 1 .. minted)', (registry \in [Hosts -> HostRow(minted)])',
           due' \in Nat, binding' \in Nat, RelayReconciled(registry')
    PROVE  Shape' /\ RelaySound'
  <1>1. relay' \in [Hosts -> Stream(minted)']
    BY RelayAfterType DEF RelayReconciled
  <1>2. passedOver' \subseteq Hosts
    BY DEF RelayReconciled
  <1>3. Shape'
    BY <1>1, <1>2 DEF Shape
  <1> QED BY <1>3, RelayReconcileSettles

(* The end of a route, over whatever rows it leaves.                       *)
LEMMA RouteEnds ==
    ASSUME HubInv, UNCHANGED minted, (revoked \subseteq 1 .. minted)', (registry \in [Hosts -> HostRow(minted)])',
           binding' \in Nat, Reconciled(registry')
    PROVE  HubInv'
  <1>1. PollerSound(registry)'
    BY PollerReconcileSound DEF HubInv, Reconciled
  <1>2. CASE probes' # probes
    <2>1. due' = due + 1 /\ due' \in Nat /\ due' # 0 /\ UNCHANGED relayVars
      BY <1>2 DEF Reconciled, HubInv, Shape
    <2>2. Shape' /\ RelaySound'
      BY <2>1 DEF HubInv, Shape, RelaySound, relayVars
    <2> QED BY <1>1, <2>2 DEF HubInv
  <1>3. CASE probes' = probes
    <2>1. RelayReconciled(registry') /\ due' \in Nat
      BY <1>3 DEF Reconciled, HubInv, Shape
    <2> QED BY <1>1, <2>1, RelayReconcileSound DEF HubInv
  <1> QED BY <1>2, <1>3

(* A step of one stream that leaves its host settled if it was: the others *)
(* are not touched.                                                        *)
LEMMA StreamStepSound ==
    ASSUME HubInv, NEW h \in Hosts, NEW r \in Stream(minted), StreamStep(h, r),
           due = 0 /\ binding = 0 /\ Bound(h) /\ HeardSettled(h) => HeardSettled(h)'
    PROVE  HubInv'
  <1>1. UNCHANGED <<registry, minted, revoked, due, binding, slot, strays, probes, crossed>>
    BY DEF StreamStep, pollerVars
  <1>2. relay' = [relay EXCEPT ![h] = r] /\ passedOver' \subseteq Hosts
    BY DEF StreamStep, HubInv, Shape
  <1>3. Shape'
    BY <1>1, <1>2 DEF HubInv, Shape
  <1>4. PollerSound(registry)'
    BY <1>1, PollerLeftAlone DEF HubInv, pollerVars
  <1>5. RelaySound'
    <2>1. SUFFICES ASSUME due = 0, binding = 0, NEW g \in Hosts, Bound(g)'
                   PROVE  HeardSettled(g)'
      BY <1>1 DEF RelaySound
    <2>2. Bound(g) /\ HeardSettled(g)
      BY <1>1, <2>1 DEF HubInv, RelaySound, Bound
    <2>3. CASE g = h
      BY <2>1, <2>2, <2>3
    <2>4. CASE g # h
      <3>1. relay'[g] = relay[g] /\ (g \in passedOver' <=> g \in passedOver)
        BY <1>2, <2>4 DEF StreamStep, HubInv, Shape
      <3> QED BY <1>1, <2>2, <3>1 DEF HeardSettled, ListenedTo
    <2> QED BY <2>3, <2>4
  <1> QED BY <1>3, <1>4, <1>5 DEF HubInv

(* A step of the poller: the rest stays.                                   *)
LEMMA PollerStepSound ==
    ASSUME HubInv, NEW h \in Hosts, PollerStep(h)
    PROVE  HubInv'
  <1>1. UNCHANGED <<registry, minted, revoked, due, binding, relay, passedOver>>
    BY DEF PollerStep, TimerFires, StrayFires, ProbeEnds, Wake, relayVars
  <1>2. PollerSound(registry)'
    BY TimerFiresSound, StrayFiresSound, ProbeEndsSound DEF HubInv, PollerStep
  <1>3. Shape'
    BY <1>1 DEF HubInv, Shape
  <1>4. RelaySound'
    BY <1>1 DEF HubInv, RelaySound, Bound, HeardSettled, ListenedTo
  <1> QED BY <1>2, <1>3, <1>4 DEF HubInv

(* The routes.  Binding alone reconciles later, and counts as under way    *)
(* until then.                                                             *)
LEMMA RouteStepSound ==
    ASSUME HubInv, NEW h \in Hosts, RouteStep(h)
    PROVE  HubInv'
  <1> USE DEF HubInv
  <1>1. CASE CreateHost(h)
    <2>1. (registry \in [Hosts -> HostRow(minted)])'
      BY <1>1 DEF CreateHost, Shape, HostRow
    <2> QED BY <1>1, <2>1, RouteEnds DEF CreateHost, Shape
  <1>2. CASE PatchHost(h)
    <2>1. (registry \in [Hosts -> HostRow(minted)])'
      BY <1>2 DEF PatchHost, Shape, HostRow
    <2> QED BY <1>2, <2>1, RouteEnds DEF PatchHost, Shape
  <1>3. CASE RemoveHost(h)
    <2>1. (registry \in [Hosts -> HostRow(minted)])'
      BY <1>3 DEF RemoveHost, Shape, HostRow, Absent
    <2>2. revoked' \subseteq 1 .. minted'
      <3>1. registry[h].cred \in 0 .. minted /\ minted \in Nat
        BY DEF Shape, HostRow
      <3> QED BY <1>3, <3>1 DEF RemoveHost, Shape
    <2> QED BY <1>3, <2>1, <2>2, RouteEnds DEF RemoveHost, Shape
  <1>4. CASE BindHost(h)
    <2>1. minted' = minted + 1 /\ minted' \in Nat /\ binding' = binding + 1 /\ binding' # 0
          /\ UNCHANGED <<revoked, due, slot, strays, probes, crossed, relay, passedOver>>
      BY <1>4 DEF BindHost, Shape, pollerVars, relayVars
    <2>2. registry' \in [Hosts -> HostRow(minted')]
      BY <1>4, <2>1 DEF BindHost, Shape, HostRow
    <2>3. relay' \in [Hosts -> Stream(minted')]
      BY <2>1 DEF Shape, Stream
    <2>4. Shape'
      BY <2>1, <2>2, <2>3 DEF Shape
    <2>5. \A g \in Hosts : Enabled(registry', g) => Enabled(registry, g)
      BY <1>4 DEF BindHost, Enabled, Shape, HostRow
    <2>6. PollerSound(registry)'
      BY <2>1, <2>5, PollerLeftAlone DEF pollerVars
    <2> QED BY <2>1, <2>4, <2>6 DEF RelaySound
  <1> QED BY <1>1, <1>2, <1>3, <1>4 DEF RouteStep

(* The streams.  One that is refused was made with the credential of now,  *)
(* or its host was passed over.                                            *)
LEMMA RelayStepSound ==
    ASSUME HubInv, NEW h \in Hosts, RelayStep(h)
    PROVE  HubInv'
  <1>1. /\ relay[h] \in Stream(minted) /\ minted \in Nat /\ registry[h].cred \in 0 .. minted
        /\ relay \in [Hosts -> Stream(minted)]
    BY DEF HubInv, Shape, HostRow
  <1>2. CASE StreamOpens(h)
    <2> DEFINE r == [relay[h] EXCEPT !.open = TRUE, !.status = "connected"]
    <2>1. r \in Stream(minted) /\ r.using = relay[h].using /\ r.open /\ r.using # 0
      BY <1>1, <1>2 DEF Stream, Statuses, StreamOpens, Answering
    <2>2. StreamStep(h, r) /\ relay'[h] = r
      BY <1>1, <1>2 DEF StreamOpens, StreamStep
    <2>3. HeardSettled(h)'
      BY <2>1, <2>2 DEF HeardSettled, ListenedTo
    <2> QED BY <2>1, <2>2, <2>3, StreamStepSound
  <1>3. CASE StreamRefused(h)
    <2>1. PICK s \in {"unauthorized", "unsupported"} :
             StreamStep(h, [Idle(s) EXCEPT !.answered = relay[h].using])
      BY <1>3 DEF StreamRefused
    <2> DEFINE r == [Idle(s) EXCEPT !.answered = relay[h].using]
    <2>2. r \in Stream(minted)
      <3>1. Idle(s) \in Stream(minted)
        BY <1>1, IdleType DEF Statuses
      <3> QED BY <1>1, <3>1 DEF Stream
    <2>3. relay'[h] = r /\ r.using = 0 /\ r.status = s /\ r.answered = relay[h].using
      BY <1>1, <2>1 DEF StreamStep, Idle
    <2>4. relay[h].using # 0 /\ ~relay[h].open /\ registry'[h] = registry[h]
      BY <1>3, <2>1 DEF StreamRefused, Answering, StreamStep
    <2>5. ASSUME Bound(h), HeardSettled(h)
          PROVE  HeardSettled(h)'
      <3>1. registry[h].cred # 0
        BY <2>5 DEF Bound
      <3>2. relay[h].using = registry[h].cred \/ h \in passedOver
        BY <2>4, <2>5 DEF HeardSettled
      <3>3. passedOver' = passedOver
        BY <2>1, <2>3, <3>1 DEF StreamStep
      <3> QED BY <2>1, <2>3, <2>4, <3>2, <3>3 DEF HeardSettled, ListenedTo
    <2> QED BY <2>1, <2>2, <2>5, StreamStepSound
  <1>4. CASE StreamFails(h)
    <2> DEFINE r == [Idle("reconnecting") EXCEPT !.waiting = TRUE]
    <2>1. r \in Stream(minted) /\ r.waiting /\ r.using = 0
      <3>1. Idle("reconnecting") \in Stream(minted) /\ Idle("reconnecting").using = 0
        BY <1>1, IdleType DEF Statuses, Idle
      <3> QED BY <3>1 DEF Stream
    <2>2. StreamStep(h, r) /\ relay'[h] = r
      BY <1>1, <1>4 DEF StreamFails, StreamStep
    <2>3. HeardSettled(h)'
      BY <2>1, <2>2 DEF HeardSettled, ListenedTo
    <2> QED BY <2>1, <2>2, <2>3, StreamStepSound
  <1>5. CASE Reconnects(h)
    <2> DEFINE idle == [relay[h] EXCEPT !.waiting = FALSE]
    <2> DEFINE r == IF Enabled(registry, h) /\ registry[h].cred # 0
                    THEN Connecting(idle, registry[h].cred) ELSE idle
    <2>1. idle \in Stream(minted)
      BY <1>1 DEF Stream
    <2>2. r \in Stream(minted)
      BY <1>1, <2>1, ConnectingType
    <2>3. StreamStep(h, r) /\ relay'[h] = r
      BY <1>1, <1>5 DEF Reconnects, StreamStep
    <2>4. ASSUME Bound(h)
          PROVE  HeardSettled(h)'
      <3>1. r.using = registry[h].cred /\ registry[h].cred # 0
        BY <2>1, <2>4 DEF Bound, Connecting, Stream
      <3> QED BY <2>3, <3>1 DEF HeardSettled, ListenedTo, StreamStep
    <2> QED BY <2>2, <2>3, <2>4, StreamStepSound
  <1> QED BY <1>2, <1>3, <1>4, <1>5 DEF RelayStep

(* A restart polls and connects whatever the registry wants.               *)
LEMMA RestartSound ==
    ASSUME HubInv, HubRestarts
    PROVE  HubInv'
  <1>1. minted \in Nat /\ registry \in [Hosts -> HostRow(minted)]
    BY DEF HubInv, Shape
  <1>2. ASSUME NEW h \in Hosts
        PROVE  relay'[h] \in Stream(minted) /\ (Bound(h)' => relay'[h].using = registry'[h].cred)
    <2>1. Idle("none") \in Stream(minted) /\ Idle("disabled") \in Stream(minted)
          /\ Idle("unbound") \in Stream(minted) /\ registry[h].cred \in 0 .. minted
      BY <1>1, IdleType DEF Statuses, HostRow
    <2>2. Connecting(Idle("none"), registry[h].cred) \in Stream(minted)
      BY <1>1, <2>1, ConnectingType
    <2>3. Connecting(Idle("none"), registry[h].cred).using = registry[h].cred
      BY <2>1 DEF Connecting, Stream
    <2> QED BY <2>1, <2>2, <2>3 DEF HubRestarts, Bound, Enabled
  <1>3. relay' \in [Hosts -> Stream(minted')]
    BY <1>2 DEF HubRestarts
  <1>4. Shape'
    BY <1>3 DEF HubInv, Shape, HubRestarts
  <1>5. RelaySound'
    BY <1>2 DEF RelaySound, HeardSettled, ListenedTo, Bound
  <1> QED BY <1>4, <1>5, RestartPollsAnew DEF HubInv

(* The hub's tables are well formed and its pollers and streams match them,*)
(* whatever people change while probes and connections are out.            *)
THEOREM HubInvariant == HubSpec => []HubInv
  <1>1. HubInit => HubInv
    <2>1. ASSUME HubInit PROVE Shape
      BY <2>1, IdleType DEF HubInit, Shape, HostRow, Absent, Statuses
    <2>2. ASSUME HubInit PROVE PollerSound(registry)
      BY <2>2 DEF HubInit, PollerSound, PollerShape, Loops, Enabled, Absent
    <2>3. ASSUME HubInit PROVE RelaySound
      BY <2>3 DEF HubInit, RelaySound, Bound, Enabled, Absent
    <2> QED BY <2>1, <2>2, <2>3 DEF HubInv
  <1>2. HubInv /\ [HubNext]_hubVars => HubInv'
    <2> SUFFICES ASSUME HubInv, [HubNext]_hubVars
                 PROVE  HubInv'
      OBVIOUS
    <2>1. CASE \E h \in Hosts : RouteStep(h) \/ PollerStep(h) \/ RelayStep(h)
      BY <2>1, RouteStepSound, PollerStepSound, RelayStepSound
    <2>2. CASE BindReconciles
      <3>1. binding' \in Nat /\ registry' = registry
        BY <2>2 DEF BindReconciles, HubInv, Shape
      <3>2. Reconciled(registry') /\ UNCHANGED <<minted, revoked>>
        BY <2>2, <3>1 DEF BindReconciles
      <3> QED BY <3>1, <3>2, RouteEnds DEF HubInv, Shape
    <2>3. CASE RelayReconciles
      <3>1. due' \in Nat /\ UNCHANGED <<registry, minted, revoked, binding, pollerVars>>
        BY <2>3 DEF RelayReconciles, HubInv, Shape
      <3>2. RelayReconciled(registry')
        BY <2>3, <3>1 DEF RelayReconciles
      <3>3. Shape' /\ RelaySound'
        BY <3>1, <3>2, RelayReconcileSound DEF HubInv, Shape
      <3>4. PollerSound(registry)'
        BY <3>1, PollerLeftAlone DEF HubInv
      <3> QED BY <3>3, <3>4 DEF HubInv
    <2>4. CASE Revoked
      <3>1. UNCHANGED <<registry, minted, due, binding, slot, strays, probes, crossed, relay,
                        passedOver>> /\ revoked' \subseteq 1 .. minted
        BY <2>4 DEF Revoked, pollerVars, relayVars, HubInv, Shape
      <3>2. PollerSound(registry)'
        BY <3>1, PollerLeftAlone DEF HubInv, pollerVars
      <3> QED BY <3>1, <3>2 DEF HubInv, Shape, RelaySound, Bound, HeardSettled, ListenedTo
    <2>5. CASE HubRestarts
      BY <2>5, RestartSound
    <2>6. CASE UNCHANGED hubVars
      BY <2>6 DEF hubVars, HubInv, Shape, PollerSound, PollerShape, Loops, RelaySound, Bound,
                  HeardSettled, ListenedTo
    <2> QED BY <2>1, <2>2, <2>3, <2>4, <2>5, <2>6 DEF HubNext
  <1> QED BY <1>1, <1>2, PTL DEF HubSpec

(* In any sequence of changes to the registry, probes, failures,           *)
(* revocations and restarts, an enabled host has a health loop and, once   *)
(* the requests that changed it are through, a stream, a timer to          *)
(* reconnect it, or a refusal of the credential it has (health.ts          *)
(* reconcile, relay.ts reconcile and connectHost).                         *)
THEOREM HostsAreWatched == HubSpec => []EveryHostIsWatched
  <1>1. HubInv => EveryHostIsWatched
    <2> SUFFICES ASSUME HubInv, NEW h \in Hosts, Enabled(registry, h)
                 PROVE  /\ Polled(h)
                        /\ registry[h].cred # 0 /\ due = 0 /\ binding = 0 => ListenedTo(h)
      BY DEF EveryHostIsWatched
    <2>1. Polled(h)
      BY DEF HubInv, PollerSound, PollerShape, Polled
    <2>2. registry[h].cred # 0 /\ due = 0 /\ binding = 0 => ListenedTo(h)
      BY DEF HubInv, RelaySound, Bound, HeardSettled
    <2> QED BY <2>1, <2>2
  <1> QED BY <1>1, HubInvariant, PTL

(* A host never has more health loops than one and one for each time it    *)
(* left the poller with its probe out (health.ts: the slot is marked       *)
(* before the await).                                                      *)
THEOREM LoopsAreCounted == HubSpec => []OneLoopEach
  <1>1. HubInv => OneLoopEach
    <2> SUFFICES ASSUME HubInv, NEW h \in Hosts
                 PROVE  Loops(h) <= 1 + crossed[h]
      BY DEF OneLoopEach, Loops
    <2>1. crossed[h] \in Nat /\ Loops(h) \in Nat
          /\ Loops(h) <= crossed[h] + (IF slot[h] = "none" THEN 0 ELSE 1)
      BY DEF HubInv, PollerSound, PollerShape, Loops
    <2> HIDE DEF Loops
    <2> QED BY <2>1
  <1> QED BY <1>1, HubInvariant, PTL

(* A host is neither unwatched nor watched twice (health.ts and relay.ts   *)
(* reconcile).                                                             *)
THEOREM HostsAreWatchedOnce == HubSpec => []WatchedOnce
  BY HostsAreWatched, LoopsAreCounted, PTL DEF WatchedOnce

(* The registry, the poller's slots and the relay's streams are well       *)
(* formed.                                                                 *)
THEOREM HubTypeCorrect == HubSpec => []HubTypeOK
  <1>1. HubInv => HubTypeOK
    BY TypeIsShape DEF HubInv, PollerSound
  <1> QED BY <1>1, HubInvariant, PTL
----------------------------------------------------------------------------
(* The switch.                                                             *)

----------------------------------------------------------------------------
(* The invariant, session by session.                                      *)

Approval == [id : Nat, question : BOOLEAN]
Words == {"own", "switch", "overtaken", "nobody", "person"}

SwitchFormed ==
    /\ skipping \in BOOLEAN
    /\ live \in [Sessions -> [there : BOOLEAN, own : BOOLEAN, bypass : BOOLEAN, asks : BOOLEAN]]
    /\ pending \in [Sessions -> SUBSET Approval]
    /\ modeCalls \in [Sessions -> Seq(BOOLEAN)]
    /\ unheeded \subseteq Sessions
    /\ asked \in [Sessions -> Nat]
    /\ allowedBy \in [Sessions -> SUBSET Words]
    /\ \A s \in Served : modeCalls[s] = <<>>

(* The call made last says what the switch says.                           *)
LastWord(s) == modeCalls[s] # <<>> => modeCalls[s][Len(modeCalls[s])] = skipping

(* A session that opted in, or is gone, has nothing parked; the others     *)
(* carry the switch.                                                       *)
OptedIn(s) == live[s].own => pending[s] = {} /\ (s \in Claude => ~live[s].asks)
Carried(s) == /\ live[s].there => live[s].own \/ live[s].bypass = skipping
              /\ ~live[s].there => live[s] = NoSession /\ pending[s] = {} /\ modeCalls[s] = <<>>
              /\ s \in Served /\ live[s].there => live[s].asks
              /\ s \in Served /\ skipping => pending[s] = {}

(* With nothing outstanding, an agent asks exactly when it should, and     *)
(* what it does not ask is not parked.                                     *)
InLine(s) ==
    s \in Claude /\ live[s].there /\ modeCalls[s] = <<>> /\ s \notin unheeded =>
        /\ live[s].asks = ~(skipping \/ live[s].own)
        /\ skipping => Plain(pending[s]) = {}

Kept(s) == LastWord(s) /\ OptedIn(s) /\ Carried(s) /\ InLine(s)

SwitchInv == SwitchFormed /\ NoneAllowedUnasked /\ \A s \in Sessions : Kept(s)

----------------------------------------------------------------------------
(* Sequences of calls: appending one makes it the last, answering the      *)
(* oldest leaves the last unless it was the only one.                      *)
LEMMA AppendedIsLast ==
    ASSUME NEW q \in Seq(BOOLEAN), NEW on \in BOOLEAN
    PROVE  /\ Append(q, on) \in Seq(BOOLEAN)
           /\ Append(q, on) # <<>>
           /\ Append(q, on)[Len(Append(q, on))] = on
OBVIOUS

(* Serving the first of the mode calls leaves the last one the last.       *)
LEMMA TailKeepsLast ==
    ASSUME NEW q \in Seq(BOOLEAN), q # <<>>
    PROVE  /\ Tail(q) \in Seq(BOOLEAN)
           /\ Head(q) \in BOOLEAN
           /\ Tail(q) # <<>> => Tail(q)[Len(Tail(q))] = q[Len(q)]
           /\ Tail(q) = <<>> => Len(q) = 1 /\ Head(q) = q[Len(q)]
           /\ Len(q) > 1 <=> Tail(q) # <<>>
<1>1. Len(q) \in Nat /\ Len(q) >= 1 BY EmptySeq
<1>2. Tail(q) \in Seq(BOOLEAN) /\ Len(Tail(q)) = Len(q) - 1 /\ Head(q) = q[1]
  BY HeadTailProperties
<1>3. \A k \in 1..Len(Tail(q)) : Tail(q)[k] = q[k + 1] BY HeadTailProperties
<1>4. Tail(q) # <<>> => Len(Tail(q)) > 0
  <2>1. Tail(q) # <<>> => Len(Tail(q)) \in Nat \ {0} BY <1>2, EmptySeq
  <2> QED BY <2>1
<1>5. Tail(q) = <<>> => Len(Tail(q)) = 0 BY EmptySeq
<1> QED BY <1>1, <1>2, <1>3, <1>4, <1>5

----------------------------------------------------------------------------
LEMMA SwitchInit == ApprovalInit => SwitchInv
<1> SUFFICES ASSUME ApprovalInit PROVE SwitchInv OBVIOUS
<1>1. SwitchFormed
  <2>1. <<>> \in Seq(BOOLEAN) BY EmptySeq
  <2> QED BY <2>1 DEF ApprovalInit, SwitchFormed, NoSession, Sessions
<1>2. NoneAllowedUnasked BY DEF ApprovalInit, NoneAllowedUnasked
<1>3. \A s \in Sessions : Kept(s)
  BY DEF ApprovalInit, Kept, LastWord, OptedIn, Carried, InLine, NoSession
<1> QED BY <1>1, <1>2, <1>3 DEF SwitchInv

(* A session a step leaves alone keeps what it had.                        *)
LEMMA Untouched ==
    ASSUME NEW s, Kept(s), skipping' = skipping, live'[s] = live[s],
           pending'[s] = pending[s], modeCalls'[s] = modeCalls[s],
           s \in unheeded' <=> s \in unheeded
    PROVE  Kept(s)'
BY DEF Kept, LastWord, OptedIn, Carried, InLine, Plain

(* Every step keeps what the last mode call says in line with the switch.  *)
LEMMA SwitchStep == SwitchInv /\ [ApprovalNext]_approvalVars => SwitchInv'
<1> SUFFICES ASSUME SwitchInv, [ApprovalNext]_approvalVars PROVE SwitchInv' OBVIOUS
<1>0. /\ SwitchFormed /\ NoneAllowedUnasked /\ \A s \in Sessions : Kept(s)
      /\ \A s \in Sessions : s \in Claude <=> s \notin Served
  BY KindsApart DEF SwitchInv, Sessions
<1>1. ASSUME NEW s \in Sessions, OpenSession(s) PROVE SwitchInv'
  <2>1. PICK mine \in BOOLEAN :
          /\ skipping => mine
          /\ live' = [live EXCEPT ![s] =
               [there |-> TRUE, own |-> mine, bypass |-> FALSE, asks |-> s \in Served \/ ~mine]]
    <3>1. PICK opted \in BOOLEAN : live' = [live EXCEPT ![s] =
              [there |-> TRUE, own |-> opted \/ skipping, bypass |-> FALSE,
               asks |-> s \in Served \/ ~(opted \/ skipping)]]
      BY <1>1 DEF OpenSession
    <3> QED BY <1>0, <3>1 DEF SwitchFormed
  <2>2. ~live[s].there /\ UNCHANGED <<skipping, pending, modeCalls, unheeded, asked, allowedBy>>
    BY <1>1 DEF OpenSession
  <2>3. SwitchFormed' BY <1>0, <2>1, <2>2 DEF SwitchFormed
  <2>4. NoneAllowedUnasked' BY <1>0, <2>2 DEF NoneAllowedUnasked
  <2>5. ASSUME NEW u \in Sessions, u # s PROVE Kept(u)'
    BY <1>0, <2>1, <2>2, <2>5, Untouched DEF SwitchFormed
  <2>6. Kept(s)'
    <3>1. live'[s] = [there |-> TRUE, own |-> mine, bypass |-> FALSE, asks |-> s \in Served \/ ~mine]
      BY <1>0, <2>1 DEF SwitchFormed
    <3>2. pending[s] = {} /\ modeCalls[s] = <<>> BY <1>0, <2>2 DEF Kept, Carried
    <3> QED BY <1>0, <2>1, <2>2, <3>1, <3>2
            DEF Kept, LastWord, OptedIn, Carried, InLine, SwitchFormed, Plain
  <2> QED BY <2>3, <2>4, <2>5, <2>6 DEF SwitchInv
<1>2. ASSUME NEW s \in Sessions, SessionOver(s) PROVE SwitchInv'
  <2>1. /\ live' = [live EXCEPT ![s] = NoSession] /\ pending' = [pending EXCEPT ![s] = {}]
        /\ modeCalls' = [modeCalls EXCEPT ![s] = <<>>] /\ unheeded' = unheeded \ {s}
        /\ UNCHANGED <<skipping, asked, allowedBy>>
    BY <1>2 DEF SessionOver
  <2>2. <<>> \in Seq(BOOLEAN) BY EmptySeq
  <2>3. SwitchFormed' BY <1>0, <2>1, <2>2 DEF SwitchFormed, NoSession
  <2>4. NoneAllowedUnasked' BY <1>0, <2>1 DEF NoneAllowedUnasked
  <2>5. ASSUME NEW u \in Sessions, u # s PROVE Kept(u)'
    BY <1>0, <2>1, <2>5, Untouched DEF SwitchFormed
  <2>6. live'[s] = NoSession /\ pending'[s] = {} /\ modeCalls'[s] = <<>>
    BY <1>0, <2>1 DEF SwitchFormed
  <2>7. Kept(s)'
    BY <2>6 DEF Kept, LastWord, OptedIn, Carried, InLine, NoSession
  <2> QED BY <2>3, <2>4, <2>5, <2>7 DEF SwitchInv
<1>3. ASSUME NEW s \in Sessions, ModeSet(s) PROVE SwitchInv'
  <2> DEFINE calls == modeCalls[s]
             on == Head(calls)
  <2>1. /\ calls # <<>>
        /\ live' = [live EXCEPT ![s].asks = ~(on \/ live[s].own)]
        /\ pending' = [pending EXCEPT ![s] = IF on THEN @ \ Plain(@) ELSE @]
        /\ allowedBy' = [allowedBy EXCEPT ![s] = IF on /\ Plain(pending[s]) # {}
                                                 THEN @ \cup {Word(s, calls)} ELSE @]
        /\ modeCalls' = [modeCalls EXCEPT ![s] = Tail(@)]
        /\ unheeded' = unheeded \ {s}
        /\ UNCHANGED <<skipping, asked>>
    BY <1>3 DEF ModeSet
  <2>2. /\ calls \in Seq(BOOLEAN) /\ s \in Claude /\ s \notin Served
        /\ calls[Len(calls)] = skipping
    BY <1>0, <2>1 DEF SwitchFormed, Kept, LastWord
  <2>3. /\ Tail(calls) \in Seq(BOOLEAN) /\ on \in BOOLEAN
        /\ Tail(calls) # <<>> => Tail(calls)[Len(Tail(calls))] = skipping
        /\ Tail(calls) = <<>> => Len(calls) = 1 /\ on = skipping
        /\ Len(calls) > 1 <=> Tail(calls) # <<>>
    BY <2>1, <2>2, TailKeepsLast
  <2> HIDE DEF on
  <2>4. SwitchFormed'
    <3>1. live' \in [Sessions -> [there : BOOLEAN, own : BOOLEAN, bypass : BOOLEAN, asks : BOOLEAN]]
      BY ZenonT(30), <1>0, <2>1, <2>3 DEF SwitchFormed
    <3>2. pending' \in [Sessions -> SUBSET Approval] BY <1>0, <2>1 DEF SwitchFormed
    <3>3. /\ modeCalls' \in [Sessions -> Seq(BOOLEAN)]
          /\ \A u \in Served : modeCalls'[u] = <<>>
      BY <1>0, <2>1, <2>2, <2>3 DEF SwitchFormed, Sessions
    <3>4. Word(s, calls) \in Words BY DEF Word, Words
    <3>5. allowedBy' \in [Sessions -> SUBSET Words]
      BY <1>0, <2>1, <3>4 DEF SwitchFormed
    <3> QED BY <1>0, <2>1, <3>1, <3>2, <3>3, <3>5 DEF SwitchFormed
  <2>5. NoneAllowedUnasked'
    <3>1. on => Word(s, calls) # "nobody"
      BY <2>3 DEF Word
    <3> QED BY <1>0, <2>1, <3>1 DEF NoneAllowedUnasked, SwitchFormed
  <2>6. ASSUME NEW u \in Sessions, u # s PROVE Kept(u)'
    BY <1>0, <2>1, <2>6, Untouched DEF SwitchFormed
  <2>7. /\ live'[s].asks = ~(on \/ live[s].own)
        /\ live'[s].own = live[s].own /\ live'[s].bypass = live[s].bypass
        /\ live'[s].there = live[s].there
        /\ pending'[s] = (IF on THEN pending[s] \ Plain(pending[s]) ELSE pending[s])
        /\ modeCalls'[s] = Tail(calls)
    BY <1>0, <2>1, <2>2 DEF SwitchFormed
  <2>8. live[s].there BY <1>0, <2>1 DEF Kept, Carried
  <2>9. Plain(pending[s] \ Plain(pending[s])) = {} BY DEF Plain
  <2>10. Kept(s)'
    <3>1. LastWord(s)' BY <2>1, <2>3, <2>7 DEF LastWord
    <3>2. OptedIn(s)' BY <1>0, <2>7 DEF Kept, OptedIn
    <3>3. Carried(s)' BY <1>0, <2>1, <2>2, <2>7, <2>8 DEF Kept, Carried
    <3>4. InLine(s)'
      <4>1. SUFFICES ASSUME Tail(calls) = <<>>
                     PROVE  /\ live'[s].asks = ~(skipping \/ live'[s].own)
                            /\ skipping => Plain(pending'[s]) = {}
        BY <2>1, <2>7 DEF InLine, Plain
      <4>2. on = skipping BY <2>3, <4>1
      <4> QED BY <2>7, <2>9, <4>2
    <3> QED BY <3>1, <3>2, <3>3, <3>4 DEF Kept
  <2> QED BY <2>4, <2>5, <2>6, <2>10 DEF SwitchInv
<1>4. ASSUME NEW s \in Sessions, ModeRefused(s) PROVE SwitchInv'
  <2> DEFINE calls == modeCalls[s]
  <2>1. /\ calls # <<>> /\ modeCalls' = [modeCalls EXCEPT ![s] = Tail(@)]
        /\ unheeded' = unheeded \cup {s}
        /\ UNCHANGED <<skipping, live, pending, asked, allowedBy>>
    BY <1>4 DEF ModeRefused
  <2>2. calls \in Seq(BOOLEAN) /\ s \notin Served /\ calls[Len(calls)] = skipping
    BY <1>0, <2>1 DEF SwitchFormed, Kept, LastWord
  <2>3. /\ Tail(calls) \in Seq(BOOLEAN)
        /\ Tail(calls) # <<>> => Tail(calls)[Len(Tail(calls))] = skipping
    BY <2>1, <2>2, TailKeepsLast
  <2>4. SwitchFormed' BY <1>0, <2>1, <2>2, <2>3 DEF SwitchFormed, Sessions
  <2>5. NoneAllowedUnasked' BY <1>0, <2>1 DEF NoneAllowedUnasked
  <2>6. ASSUME NEW u \in Sessions, u # s PROVE Kept(u)'
    BY <1>0, <2>1, <2>6, Untouched DEF SwitchFormed
  <2>7. modeCalls'[s] = Tail(calls) BY <1>0, <2>1 DEF SwitchFormed
  <2>8. Kept(s)'
    <3>1. live[s].there BY <1>0, <2>1 DEF Kept, Carried
    <3> QED BY <1>0, <2>1, <2>2, <2>3, <2>7, <3>1 DEF Kept, LastWord, OptedIn, Carried, InLine
  <2> QED BY <2>4, <2>5, <2>6, <2>8 DEF SwitchInv
<1>5. ASSUME NEW s \in Sessions, ClaudeAsks(s) PROVE SwitchInv'
  <2>1. PICK question \in BOOLEAN :
          /\ s \in Claude /\ live[s].there /\ live[s].asks
          /\ asked' = [asked EXCEPT ![s] = @ + 1]
          /\ pending' = [pending EXCEPT ![s] = @ \cup {[id |-> asked'[s], question |-> question]}]
          /\ UNCHANGED <<skipping, live, modeCalls, unheeded, allowedBy>>
    BY <1>5 DEF ClaudeAsks
  <2>2. asked' \in [Sessions -> Nat] BY <1>0, <2>1 DEF SwitchFormed
  <2>3. [id |-> asked'[s], question |-> question] \in Approval BY <2>2 DEF Approval
  <2>4. SwitchFormed' BY <1>0, <2>1, <2>2, <2>3 DEF SwitchFormed
  <2>5. NoneAllowedUnasked' BY <1>0, <2>1 DEF NoneAllowedUnasked
  <2>6. ASSUME NEW u \in Sessions, u # s PROVE Kept(u)'
    BY <1>0, <2>1, <2>6, Untouched DEF SwitchFormed
  <2>7. Kept(s)'
    BY <1>0, <2>1 DEF Kept, LastWord, OptedIn, Carried, InLine, SwitchFormed
  <2> QED BY <2>4, <2>5, <2>6, <2>7 DEF SwitchInv
<1>6. ASSUME NEW s \in Sessions, ServedAsks(s) PROVE SwitchInv'
  <2> DEFINE p == [id |-> asked'[s], question |-> FALSE]
             w == Word(s, <<>>)
  <2>1. /\ s \in Served /\ live[s].there
        /\ asked' = [asked EXCEPT ![s] = @ + 1]
        /\ UNCHANGED <<skipping, live, modeCalls, unheeded>>
    BY <1>6 DEF ServedAsks
  <2>2. \/ /\ (live[s].own \/ live[s].bypass) /\ pending' = pending
           /\ allowedBy' = [allowedBy EXCEPT ![s] = @ \cup {w}]
        \/ /\ ~live[s].own /\ ~live[s].bypass /\ allowedBy' = allowedBy
           /\ pending' = [pending EXCEPT ![s] = @ \cup {p}]
    BY <1>6 DEF ServedAsks
  <2>3. asked' \in [Sessions -> Nat] BY <1>0, <2>1 DEF SwitchFormed
  <2>4. p \in Approval BY <2>3 DEF Approval
  <2>5. w \in Words BY <1>0 DEF Word, Words, SwitchFormed
  <2>6. live[s].own \/ live[s].bypass => w # "nobody"
    BY <1>0, <2>1 DEF Word, Kept, Carried
  <2> HIDE DEF p, w
  <2>7. CASE /\ (live[s].own \/ live[s].bypass) /\ pending' = pending
             /\ allowedBy' = [allowedBy EXCEPT ![s] = @ \cup {w}]
    <3>1. /\ allowedBy' \in [Sessions -> SUBSET Words]
          /\ \A u \in Sessions : allowedBy'[u] \subseteq allowedBy[u] \cup {w}
      BY <1>0, <2>5, <2>7 DEF SwitchFormed
    <3>2. SwitchFormed' BY <1>0, <2>1, <2>3, <2>7, <3>1 DEF SwitchFormed
    <3>3. NoneAllowedUnasked' BY <1>0, <2>6, <2>7, <3>1 DEF NoneAllowedUnasked
    <3>4. \A u \in Sessions : Kept(u)' BY <1>0, <2>1, <2>7, Untouched
    <3> QED BY <3>2, <3>3, <3>4 DEF SwitchInv
  <2>8. CASE /\ ~live[s].own /\ ~live[s].bypass /\ allowedBy' = allowedBy
             /\ pending' = [pending EXCEPT ![s] = @ \cup {p}]
    <3>1. pending' \in [Sessions -> SUBSET Approval] BY <1>0, <2>4, <2>8 DEF SwitchFormed
    <3>2. SwitchFormed' BY <1>0, <2>1, <2>3, <2>8, <3>1 DEF SwitchFormed
    <3>3. NoneAllowedUnasked' BY <1>0, <2>8 DEF NoneAllowedUnasked
    <3>4. ASSUME NEW u \in Sessions, u # s PROVE Kept(u)'
      BY <1>0, <2>1, <2>8, <3>4, Untouched DEF SwitchFormed
    <3>5. Kept(s)'
      BY <1>0, <2>1, <2>8 DEF Kept, LastWord, OptedIn, Carried, InLine, SwitchFormed
    <3> QED BY <3>2, <3>3, <3>4, <3>5 DEF SwitchInv
  <2> QED BY <2>2, <2>7, <2>8
<1>7. ASSUME NEW s \in Sessions, Answered(s) \/ Withdrawn(s) PROVE SwitchInv'
  <2>1. PICK p \in pending[s] : pending' = [pending EXCEPT ![s] = @ \ {p}]
    BY <1>7 DEF Answered, Withdrawn
  <2>2. /\ UNCHANGED <<skipping, live, modeCalls, unheeded, asked>>
        /\ \/ allowedBy' = allowedBy
           \/ allowedBy' = [allowedBy EXCEPT ![s] = @ \cup {"person"}]
    <3>1. CASE Answered(s)
      <4>1. PICK allow \in BOOLEAN :
              allowedBy' = [allowedBy EXCEPT ![s] = IF allow THEN @ \cup {"person"} ELSE @]
        BY <3>1 DEF Answered
      <4>2. CASE allow BY <3>1, <4>1, <4>2 DEF Answered
      <4>3. CASE ~allow
        <5>1. [allowedBy EXCEPT ![s] = @] = allowedBy BY <1>0 DEF SwitchFormed
        <5> QED BY <3>1, <4>1, <4>3, <5>1 DEF Answered
      <4> QED BY <4>2, <4>3
    <3>2. CASE Withdrawn(s) BY <3>2 DEF Withdrawn
    <3> QED BY <1>7, <3>1, <3>2
  <2>3. SwitchFormed' BY <1>0, <2>1, <2>2 DEF SwitchFormed, Words
  <2>4. NoneAllowedUnasked'
    <3>1. \A u \in Sessions : allowedBy'[u] \subseteq allowedBy[u] \cup {"person"}
      BY <1>0, <2>2 DEF SwitchFormed
    <3> QED BY <1>0, <3>1 DEF NoneAllowedUnasked
  <2>5. ASSUME NEW u \in Sessions, u # s PROVE Kept(u)'
    BY <1>0, <2>1, <2>2, <2>5, Untouched DEF SwitchFormed
  <2>6. Kept(s)'
    <3>1. pending'[s] = pending[s] \ {p} BY <1>0, <2>1 DEF SwitchFormed
    <3>2. Plain(pending'[s]) \subseteq Plain(pending[s]) BY <3>1 DEF Plain
    <3> QED BY <1>0, <2>1, <2>2, <3>1, <3>2 DEF Kept, LastWord, OptedIn, Carried, InLine
  <2> QED BY <2>3, <2>4, <2>5, <2>6 DEF SwitchInv
<1>8. ASSUME NEW on \in BOOLEAN, SetSwitch(on) PROVE SwitchInv'
  <2>1. /\ skipping' = on
        /\ live' = [s \in Sessions |-> IF live[s].there THEN [live[s] EXCEPT !.bypass = on] ELSE live[s]]
        /\ pending' = Drained(on)
        /\ modeCalls' = [s \in Sessions |-> IF s \in Claude /\ live[s].there
                                            THEN Append(modeCalls[s], on) ELSE modeCalls[s]]
        /\ allowedBy' = [s \in Sessions |-> IF pending'[s] = pending[s] THEN allowedBy[s]
                            ELSE allowedBy[s] \cup {IF on THEN "switch" ELSE "nobody"}]
        /\ UNCHANGED <<unheeded, asked>>
    BY <1>8 DEF SetSwitch
  <2>2. ASSUME NEW s \in Sessions
        PROVE  /\ Append(modeCalls[s], on) \in Seq(BOOLEAN)
               /\ Append(modeCalls[s], on) # <<>>
               /\ Append(modeCalls[s], on)[Len(Append(modeCalls[s], on))] = on
    <3>1. modeCalls[s] \in Seq(BOOLEAN) BY <1>0 DEF SwitchFormed
    <3> QED BY <3>1, AppendedIsLast
  <2>3. SwitchFormed'
    <3>1. live' \in [Sessions -> [there : BOOLEAN, own : BOOLEAN, bypass : BOOLEAN, asks : BOOLEAN]]
      BY <1>0, <2>1 DEF SwitchFormed
    <3>2. pending' \in [Sessions -> SUBSET Approval] BY <1>0, <2>1 DEF SwitchFormed, Drained
    <3>3. /\ modeCalls' \in [Sessions -> Seq(BOOLEAN)]
          /\ \A s \in Served : modeCalls'[s] = <<>>
      BY <1>0, <2>1, <2>2 DEF SwitchFormed, Sessions
    <3>4. allowedBy' \in [Sessions -> SUBSET Words] BY <1>0, <2>1 DEF SwitchFormed, Words
    <3> QED BY <1>0, <2>1, <3>1, <3>2, <3>3, <3>4 DEF SwitchFormed
  <2>4. NoneAllowedUnasked'
    <3>1. ~on => \A s \in Sessions : pending'[s] = pending[s] BY <2>1 DEF Drained
    <3> QED BY <1>0, <2>1, <3>1 DEF NoneAllowedUnasked
  <2>5. ASSUME NEW s \in Sessions PROVE Kept(s)'
    <3>1. /\ live'[s].there = live[s].there /\ live'[s].own = live[s].own
          /\ live'[s].asks = live[s].asks
          /\ live[s].there => live'[s].bypass = on
          /\ ~live[s].there => live'[s] = live[s]
          /\ pending'[s] = (IF s \in Served /\ live[s].there /\ on THEN {} ELSE pending[s])
          /\ modeCalls'[s] = (IF s \in Claude /\ live[s].there
                              THEN Append(modeCalls[s], on) ELSE modeCalls[s])
      BY <1>0, <2>1 DEF SwitchFormed, Drained
    <3>2. LastWord(s)' BY <1>0, <2>1, <2>2, <3>1 DEF LastWord, SwitchFormed, Kept, Carried
    <3>3. OptedIn(s)' BY <1>0, <3>1 DEF Kept, OptedIn
    <3>4. Carried(s)' BY <1>0, <2>1, <3>1 DEF Kept, Carried
    <3>5. InLine(s)' BY <2>2, <3>1 DEF InLine
    <3> QED BY <3>2, <3>3, <3>4, <3>5 DEF Kept
  <2> QED BY <2>3, <2>4, <2>5 DEF SwitchInv
<1>9. CASE UNCHANGED approvalVars
  <2>1. /\ SwitchFormed' /\ NoneAllowedUnasked'
    BY <1>0, <1>9 DEF approvalVars, SwitchFormed, NoneAllowedUnasked
  <2>2. \A s \in Sessions : Kept(s)' BY <1>0, <1>9, Untouched DEF approvalVars
  <2> QED BY <2>1, <2>2 DEF SwitchInv
<1> QED BY <1>1, <1>2, <1>3, <1>4, <1>5, <1>6, <1>7, <1>8, <1>9 DEF ApprovalNext, SessionStep

----------------------------------------------------------------------------
(* The theorems.                                                           *)

(* Every call made last is the switch's word, and every session is in one  *)
(* of the ways the switch and its own opt-in leave it.                     *)
THEOREM SwitchInvariant == ApprovalSpec => []SwitchInv
<1> QED BY SwitchInit, SwitchStep, PTL DEF ApprovalSpec

(* Nothing is allowed on nobody's word, and once its agent has answered a  *)
(* session does what the switch says: setGlobalSkipPermissions and the     *)
(* sessions' applyGlobalSkipPermissions.                                   *)
THEOREM SwitchIsObeyed == ApprovalSpec => []SwitchObeyed
<1>1. SwitchInv => SwitchObeyed
  <2> SUFFICES ASSUME SwitchInv PROVE SwitchSettled
    BY DEF SwitchInv, SwitchObeyed
  <2> SUFFICES ASSUME NEW s \in Sessions, live[s].there, modeCalls[s] = <<>>, s \notin unheeded
               PROVE  /\ skipping => Plain(pending[s]) = {}
                      /\ ~skipping /\ ~live[s].own => live[s].asks /\ ~live[s].bypass
    BY DEF SwitchSettled
  <2>1. Kept(s) /\ skipping \in BOOLEAN /\ live[s].bypass \in BOOLEAN
    BY DEF SwitchInv, SwitchFormed
  <2>2. CASE s \in Claude BY <2>1, <2>2 DEF Kept, Carried, InLine
  <2>3. CASE s \in Served BY <2>1, <2>3 DEF Kept, Carried, Plain
  <2> QED BY <2>2, <2>3 DEF Sessions
<1> QED BY <1>1, SwitchInvariant, PTL
----------------------------------------------------------------------------
(* The planner's subagents.                                                 *)

Agent == [state : {"none", "live", "dead", "gone"}, busy : BOOLEAN, paused : BOOLEAN,
          todo : Nat, turns : Nat]

(* What the ledger rests on: trackings are chats', and no summary is being *)
(* read of a turn that has not ended, so that the next one is a new one.   *)
AgentShape ==
    /\ agent \in [Subagents -> Agent]
    /\ parent \in [Subagents -> Chats \cup {NoChat}]
    /\ owed \in [Subagents -> [Chats -> Int]]

NoneFromAhead ==
    /\ IsFiniteSet(reading)
    /\ reading \subseteq [sub : Subagents, to : Chats, turn : Nat]
    /\ \A r \in reading : r.turn <= agent[r.sub].turns

LedgerInv == AgentShape /\ NoneFromAhead /\ ToldOnce

----------------------------------------------------------------------------
(* The summaries of s for a chat among those of a set, and whether a given *)
(* one is of them.                                                         *)
Among(set, s, chat) == {r \in set : r.sub = s /\ r.to = chat}
One(r, s, chat) == IF r.sub = s /\ r.to = chat THEN 1 ELSE 0

(* Such a part of a finite set can be counted.                             *)
LEMMA Counted ==
    ASSUME NEW set, IsFiniteSet(set), NEW s, NEW chat
    PROVE  IsFiniteSet(Among(set, s, chat)) /\ Cardinality(Among(set, s, chat)) \in Nat
  <1>1. Among(set, s, chat) \in SUBSET set
    BY DEF Among
  <1>2. IsFiniteSet(Among(set, s, chat))
    BY <1>1, FS_Subset
  <1> QED BY <1>2, FS_CardinalityType

(* A summary that begins to be read counts for the chat it is meant for    *)
(* and for no other.                                                       *)
LEMMA OneMoreRead ==
    ASSUME NEW set, IsFiniteSet(set), NEW new, new \notin set, NEW s, NEW chat
    PROVE  Cardinality(Among(set \cup {new}, s, chat))
             = Cardinality(Among(set, s, chat)) + One(new, s, chat)
  <1>1. IsFiniteSet(Among(set, s, chat)) /\ Cardinality(Among(set, s, chat)) \in Nat
    BY Counted
  <1>2. CASE new.sub = s /\ new.to = chat
    <2>1. /\ Among(set \cup {new}, s, chat) = Among(set, s, chat) \cup {new}
          /\ new \notin Among(set, s, chat)
      BY <1>2 DEF Among
    <2>2. One(new, s, chat) = 1
      BY <1>2 DEF One
    <2> QED BY <1>1, <2>1, <2>2, FS_AddElement
  <1>3. CASE ~(new.sub = s /\ new.to = chat)
    <2>1. Among(set \cup {new}, s, chat) = Among(set, s, chat)
      BY <1>3 DEF Among
    <2>2. One(new, s, chat) = 0
      BY <1>3 DEF One
    <2> QED BY <1>1, <2>1, <2>2
  <1> QED BY <1>2, <1>3

(* The same backwards, for the summary whose reading is over.              *)
LEMMA OneLessRead ==
    ASSUME NEW set, IsFiniteSet(set), NEW r \in set, NEW s, NEW chat
    PROVE  Cardinality(Among(set \ {r}, s, chat))
             = Cardinality(Among(set, s, chat)) - One(r, s, chat)
  <1> DEFINE rest == set \ {r}
  <1>1. IsFiniteSet(rest) /\ r \notin rest /\ rest \cup {r} = set
    BY FS_RemoveElement
  <1> HIDE DEF rest
  <1>2. Cardinality(Among(set, s, chat)) = Cardinality(Among(rest, s, chat)) + One(r, s, chat)
    <2>1. Cardinality(Among(rest \cup {r}, s, chat))
            = Cardinality(Among(rest, s, chat)) + One(r, s, chat)
      BY <1>1, OneMoreRead
    <2> QED BY <1>1, <2>1, Zenon
  <1>3. Cardinality(Among(rest, s, chat)) \in Nat
    BY <1>1, Counted
  <1>4. One(r, s, chat) \in Nat
    BY DEF One
  <1>5. Cardinality(Among(rest, s, chat)) = Cardinality(Among(set, s, chat)) - One(r, s, chat)
    BY <1>2, <1>3, <1>4
  <1> QED BY <1>5 DEF rest

----------------------------------------------------------------------------
(* What a step may do to the ledger.                                       *)

(* Counts are numbers, and before and after the ledger speaks of Among.    *)
LEMMA LedgerCounts ==
    ASSUME LedgerInv, NEW s \in Subagents, NEW chat \in Chats
    PROVE  /\ owed[s][chat] = Cardinality(Among(reading, s, chat)) + (IF parent[s] = chat THEN 1 ELSE 0)
           /\ Cardinality(Among(reading, s, chat)) \in Nat
  <1>1. IsFiniteSet(reading)
    BY DEF LedgerInv, NoneFromAhead
  <1>2. BeingRead(s, chat) = Among(reading, s, chat)
    BY DEF BeingRead, Among
  <1>3. owed[s][chat] = Cardinality(BeingRead(s, chat)) + (IF parent[s] = chat THEN 1 ELSE 0)
    BY DEF LedgerInv, ToldOnce
  <1> QED BY <1>1, <1>2, <1>3, Counted

(* A step that starts to read nothing: what is left to show of it.         *)
LEMMA QuietStep ==
    ASSUME LedgerInv, AgentShape', reading' = reading,
           \A s \in Subagents : agent'[s].turns = agent[s].turns,
           \A s \in Subagents, chat \in Chats :
               owed'[s][chat] - (IF parent'[s] = chat THEN 1 ELSE 0)
                 = owed[s][chat] - (IF parent[s] = chat THEN 1 ELSE 0)
    PROVE  LedgerInv'
  <1>1. NoneFromAhead'
    BY DEF LedgerInv, NoneFromAhead
  <1>2. ASSUME NEW s \in Subagents, NEW chat \in Chats
        PROVE  owed'[s][chat] = Cardinality(Among(reading, s, chat))
                                + (IF parent'[s] = chat THEN 1 ELSE 0)
    <2>1. owed'[s][chat] \in Int
      BY DEF AgentShape
    <2>2. owed'[s][chat] - (IF parent'[s] = chat THEN 1 ELSE 0)
            = owed[s][chat] - (IF parent[s] = chat THEN 1 ELSE 0)
      OBVIOUS
    <2> QED BY <2>1, <2>2, LedgerCounts
  <1>3. ToldOnce'
    BY <1>2 DEF ToldOnce, BeingRead, Among
  <1> QED BY <1>1, <1>3 DEF LedgerInv

(* A subagent that is prompted keeps the count of its turns.               *)
LEMMA PromptedAgentIsOne ==
    ASSUME AgentShape, NEW s \in Subagents
    PROVE  PromptedAgent(s) \in Agent /\ PromptedAgent(s).turns = agent[s].turns
  <1>1. agent[s] \in Agent
    BY DEF AgentShape
  <1>2. agent[s].todo + 1 \in Nat
    BY <1>1 DEF Agent
  <1> QED BY <1>1, <1>2 DEF PromptedAgent, Agent

(* A tracking that replaces another.                                       *)
LEMMA TrackedByKeeps ==
    ASSUME LedgerInv, NEW s \in Subagents, NEW chat \in Chats,
           TrackedBy(s, chat), agent' = [agent EXCEPT ![s] = PromptedAgent(s)],
           reading' = reading
    PROVE  LedgerInv'
  <1>1. PromptedAgent(s) \in Agent /\ PromptedAgent(s).turns = agent[s].turns
    BY PromptedAgentIsOne DEF LedgerInv
  <1>2. agent' \in [Subagents -> Agent] /\ \A t \in Subagents : agent'[t].turns = agent[t].turns
    BY <1>1 DEF LedgerInv, AgentShape
  <1>3. parent' \in [Subagents -> Chats \cup {NoChat}]
    BY DEF LedgerInv, AgentShape, TrackedBy
  <1>4. /\ owed' \in [Subagents -> [Chats -> Int]]
        /\ \A t \in Subagents, c \in Chats :
             owed'[t][c] = IF t = s THEN owed[t][c] + (IF c = chat THEN 1 ELSE 0)
                                          - (IF c = parent[s] THEN 1 ELSE 0)
                           ELSE owed[t][c]
    BY DEF LedgerInv, AgentShape, TrackedBy
  <1>5. ASSUME NEW t \in Subagents, NEW c \in Chats
        PROVE  owed'[t][c] - (IF parent'[t] = c THEN 1 ELSE 0)
                 = owed[t][c] - (IF parent[t] = c THEN 1 ELSE 0)
    <2>1. owed[t][c] \in Int
      BY DEF LedgerInv, AgentShape
    <2>2. parent'[t] = IF t = s THEN chat ELSE parent[t]
      BY DEF LedgerInv, AgentShape, TrackedBy
    <2> QED BY <1>4, <2>1, <2>2
  <1> QED BY <1>2, <1>3, <1>4, <1>5, QuietStep DEF AgentShape

(* A subagent that ends, or is removed, keeps the count of its turns.      *)
LEMMA EndedAgent ==
    ASSUME AgentShape, NEW s \in Subagents, NEW state \in {"dead", "gone"}
    PROVE  LET after == [agent[s] EXCEPT !.state = state, !.busy = FALSE,
                                         !.paused = FALSE, !.todo = 0]
           IN  after \in Agent /\ after.turns = agent[s].turns
  <1>1. agent[s] \in Agent
    BY DEF AgentShape
  <1> QED BY <1>1 DEF Agent

(* Whoever was tracking is told, and tracks no more.                       *)
LEMMA ToldAndDropped ==
    ASSUME LedgerInv, NEW s \in Subagents,
           parent' = [parent EXCEPT ![s] = NoChat],
           IF Tracked(s) THEN Tell(s, parent[s]) ELSE UNCHANGED owed,
           agent' \in [Subagents -> Agent],
           \A t \in Subagents : agent'[t].turns = agent[t].turns,
           reading' = reading
    PROVE  LedgerInv'
  <1> USE SupervisorAssumption
  <1>1. parent' \in [Subagents -> Chats \cup {NoChat}]
    BY DEF LedgerInv, AgentShape
  <1>2. /\ owed' \in [Subagents -> [Chats -> Int]]
        /\ \A t \in Subagents, c \in Chats :
             owed'[t][c] = IF t = s /\ c = parent[s] THEN owed[t][c] - 1 ELSE owed[t][c]
    <2>1. CASE Tracked(s)
      <3>1. parent[s] \in Chats
        BY <2>1 DEF LedgerInv, AgentShape, Tracked
      <3>2. owed' = [owed EXCEPT ![s][parent[s]] = @ - 1]
        BY <2>1 DEF Tell
      <3> QED BY <3>1, <3>2 DEF LedgerInv, AgentShape
    <2>2. CASE ~Tracked(s)
      BY <2>2 DEF LedgerInv, AgentShape, Tracked
    <2> QED BY <2>1, <2>2
  <1>3. ASSUME NEW t \in Subagents, NEW c \in Chats
        PROVE  owed'[t][c] - (IF parent'[t] = c THEN 1 ELSE 0)
                 = owed[t][c] - (IF parent[t] = c THEN 1 ELSE 0)
    <2>1. owed[t][c] \in Int
      BY DEF LedgerInv, AgentShape
    <2>2. parent'[t] = IF t = s THEN NoChat ELSE parent[t]
      BY DEF LedgerInv, AgentShape
    <2> QED BY <1>2, <2>1, <2>2
  <1> QED BY <1>1, <1>2, <1>3, QuietStep DEF AgentShape

----------------------------------------------------------------------------
(* The actions.                                                            *)

(* Starting and instructing a subagent keep the ledger.                    *)
LEMMA TrackingKeeps ==
    ASSUME LedgerInv, NEW s \in Subagents, NEW chat \in Chats,
           StartSubagent(s, chat) \/ Instruct(s, chat)
    PROVE  LedgerInv'
  BY TrackedByKeeps DEF StartSubagent, Instruct

(* A prompt from a person keeps the ledger.                                *)
LEMMA PersonKeeps ==
    ASSUME LedgerInv, NEW s \in Subagents, PersonInstructs(s)
    PROVE  LedgerInv'
  <1>1. PromptedAgent(s) \in Agent /\ PromptedAgent(s).turns = agent[s].turns
    BY PromptedAgentIsOne DEF LedgerInv
  <1>2. agent' \in [Subagents -> Agent] /\ \A t \in Subagents : agent'[t].turns = agent[t].turns
    BY <1>1 DEF LedgerInv, AgentShape, PersonInstructs
  <1>3. UNCHANGED <<parent, owed, reading>>
    BY DEF PersonInstructs
  <1>4. AgentShape'
    BY <1>2, <1>3 DEF LedgerInv, AgentShape
  <1> QED BY <1>2, <1>3, <1>4, QuietStep

(* Terminating and forgetting a subagent keep the ledger.                  *)
LEMMA EndKeeps ==
    ASSUME LedgerInv, NEW s \in Subagents, Terminate(s) \/ Forget(s)
    PROVE  LedgerInv'
  <1>1. \E state \in {"dead", "gone"} :
          agent' = [agent EXCEPT ![s] = [agent[s] EXCEPT !.state = state, !.busy = FALSE,
                                                         !.paused = FALSE, !.todo = 0]]
    BY DEF LedgerInv, AgentShape, Terminate, Terminated, Forget
  <1>2. agent' \in [Subagents -> Agent] /\ \A t \in Subagents : agent'[t].turns = agent[t].turns
    <2>1. PICK state \in {"dead", "gone"} :
            agent' = [agent EXCEPT ![s] = [agent[s] EXCEPT !.state = state, !.busy = FALSE,
                                                           !.paused = FALSE, !.todo = 0]]
      BY <1>1
    <2> DEFINE after == [agent[s] EXCEPT !.state = state, !.busy = FALSE,
                                         !.paused = FALSE, !.todo = 0]
    <2>2. after \in Agent /\ after.turns = agent[s].turns
      BY EndedAgent DEF LedgerInv
    <2>3. agent' = [agent EXCEPT ![s] = after]
      BY <2>1
    <2> HIDE DEF after
    <2> QED BY <2>2, <2>3 DEF LedgerInv, AgentShape
  <1>3. /\ parent' = [parent EXCEPT ![s] = NoChat]
        /\ IF Tracked(s) THEN Tell(s, parent[s]) ELSE UNCHANGED owed
        /\ reading' = reading
    BY DEF Terminate, Terminated, Forget
  <1> QED BY <1>2, <1>3, ToldAndDropped

(* An agent that ends in silence keeps the ledger.                         *)
LEMMA QuietEndKeeps ==
    ASSUME LedgerInv, NEW s \in Subagents, EndsQuietly(s)
    PROVE  LedgerInv'
  <1>1. agent' = [agent EXCEPT ![s] = [agent[s] EXCEPT !.state = "dead", !.busy = FALSE,
                                                       !.paused = FALSE, !.todo = 0]]
    BY DEF LedgerInv, AgentShape, EndsQuietly
  <1>2. agent' \in [Subagents -> Agent] /\ \A t \in Subagents : agent'[t].turns = agent[t].turns
    BY <1>1, EndedAgent DEF LedgerInv, AgentShape
  <1>3. UNCHANGED <<parent, owed, reading>>
    BY DEF EndsQuietly
  <1>4. AgentShape'
    BY <1>2, <1>3 DEF LedgerInv, AgentShape
  <1> QED BY <1>2, <1>3, <1>4, QuietStep

(* Asking for an approval and getting it keep the ledger.                  *)
LEMMA ApprovalKeeps ==
    ASSUME LedgerInv, NEW s \in Subagents, AsksApproval(s) \/ GetsAnswer(s)
    PROVE  LedgerInv'
  <1>1. \E paused \in BOOLEAN : agent' = [agent EXCEPT ![s].paused = paused]
    BY DEF AsksApproval, GetsAnswer
  <1>2. agent[s] \in Agent
    BY DEF LedgerInv, AgentShape
  <1>3. agent' \in [Subagents -> Agent] /\ \A t \in Subagents : agent'[t].turns = agent[t].turns
    BY <1>1, <1>2 DEF LedgerInv, AgentShape, Agent
  <1>4. UNCHANGED <<parent, owed, reading>>
    BY DEF AsksApproval, GetsAnswer
  <1>5. AgentShape'
    BY <1>3, <1>4 DEF LedgerInv, AgentShape
  <1> QED BY <1>3, <1>4, <1>5, QuietStep

(* A chat is removed: each of its agents is told of and tracked no more,   *)
(* in one step.                                                            *)
LEMMA ChatRemovedKeeps ==
    ASSUME LedgerInv, NEW chat \in Chats, ChatRemoved(chat)
    PROVE  LedgerInv'
  <1> USE SupervisorAssumption
  <1> DEFINE mine == {s \in Coding : owner[s] = chat /\ agent[s].state # "gone"}
  <1>1. mine \subseteq Subagents
    BY DEF Subagents
  <1>2. /\ parent' = [s \in Subagents |-> IF s \in mine THEN NoChat ELSE parent[s]]
        /\ owed' = [s \in Subagents |->
                      IF s \in mine /\ Tracked(s) THEN [owed[s] EXCEPT ![parent[s]] = @ - 1]
                                                  ELSE owed[s]]
        /\ agent' = [s \in Subagents |->
                       IF s \in mine /\ Alive(s)
                       THEN [agent[s] EXCEPT !.state = "dead", !.busy = FALSE,
                                             !.paused = FALSE, !.todo = 0]
                       ELSE agent[s]]
        /\ reading' = reading
    BY DEF ChatRemoved
  <1> HIDE DEF mine
  <1>3. agent' \in [Subagents -> Agent] /\ \A t \in Subagents : agent'[t].turns = agent[t].turns
    <2>1. ASSUME NEW t \in Subagents
          PROVE  agent'[t] \in Agent /\ agent'[t].turns = agent[t].turns
      <3>1. agent[t] \in Agent
        BY DEF LedgerInv, AgentShape
      <3>2. CASE t \in mine /\ Alive(t)
        <4>1. agent'[t] = [agent[t] EXCEPT !.state = "dead", !.busy = FALSE,
                                           !.paused = FALSE, !.todo = 0]
          BY <1>2, <3>2
        <4>2. /\ [agent[t] EXCEPT !.state = "dead", !.busy = FALSE, !.paused = FALSE, !.todo = 0] \in Agent
              /\ [agent[t] EXCEPT !.state = "dead", !.busy = FALSE, !.paused = FALSE, !.todo = 0].turns
                   = agent[t].turns
          BY EndedAgent DEF LedgerInv
        <4> QED BY <4>1, <4>2, Zenon
      <3>3. CASE ~(t \in mine /\ Alive(t))
        BY <1>2, <3>1, <3>3
      <3> QED BY <3>2, <3>3
    <2> QED BY <1>2, <2>1
  <1>4. parent' \in [Subagents -> Chats \cup {NoChat}]
    BY <1>2 DEF LedgerInv, AgentShape
  <1>5. /\ owed' \in [Subagents -> [Chats -> Int]]
        /\ \A t \in Subagents, c \in Chats :
             owed'[t][c] = IF t \in mine /\ c = parent[t] THEN owed[t][c] - 1 ELSE owed[t][c]
    <2>1. ASSUME NEW t \in Subagents
          PROVE  /\ owed'[t] \in [Chats -> Int]
                 /\ \A c \in Chats :
                      owed'[t][c] = IF t \in mine /\ c = parent[t] THEN owed[t][c] - 1
                                                                   ELSE owed[t][c]
      <3>1. owed[t] \in [Chats -> Int] /\ parent[t] \in Chats \cup {NoChat}
        BY DEF LedgerInv, AgentShape
      <3>2. CASE t \in mine /\ Tracked(t)
        <4>1. owed'[t] = [owed[t] EXCEPT ![parent[t]] = @ - 1]
          BY <1>2, <3>2
        <4>2. /\ parent[t] \in Chats
              /\ owed'[t] \in [Chats -> Int]
              /\ \A c \in Chats :
                   owed'[t][c] = IF c = parent[t] THEN owed[t][c] - 1 ELSE owed[t][c]
          BY <3>1, <3>2, <4>1 DEF Tracked
        <4> QED BY <3>2, <4>2
      <3>3. CASE ~(t \in mine /\ Tracked(t))
        <4>1. owed'[t] = owed[t]
          BY <1>2, <3>3
        <4> QED BY <3>1, <3>3, <4>1 DEF Tracked
      <3> QED BY <3>2, <3>3
    <2> QED BY <1>2, <2>1
  <1>6. ASSUME NEW t \in Subagents, NEW c \in Chats
        PROVE  owed'[t][c] - (IF parent'[t] = c THEN 1 ELSE 0)
                 = owed[t][c] - (IF parent[t] = c THEN 1 ELSE 0)
    <2>1. owed[t][c] \in Int
      BY DEF LedgerInv, AgentShape
    <2>2. parent'[t] = IF t \in mine THEN NoChat ELSE parent[t]
      BY <1>2
    <2> QED BY <1>5, <2>1, <2>2
  <1> QED BY <1>2, <1>3, <1>4, <1>5, <1>6, QuietStep DEF AgentShape

(* A turn ends: what was a tracking is now a summary being read, and not   *)
(* one that was being read before.                                         *)
LEMMA TurnKeeps ==
    ASSUME LedgerInv, NEW s \in Subagents, TurnCompletes(s)
    PROVE  LedgerInv'
  <1> USE SupervisorAssumption
  <1> DEFINE new == [sub |-> s, to |-> parent[s], turn |-> agent[s].turns + 1]
  <1>1. agent[s] \in Agent /\ agent[s].todo \in Nat /\ agent[s].todo > 0 /\ agent[s].turns \in Nat
    BY DEF LedgerInv, AgentShape, TurnCompletes, Agent
  <1>2. /\ agent' \in [Subagents -> Agent]
        /\ \A t \in Subagents : agent'[t].turns = IF t = s THEN agent[s].turns + 1 ELSE agent[t].turns
    <2> DEFINE after == [agent[s] EXCEPT !.busy = FALSE, !.todo = agent[s].todo - 1,
                                         !.turns = agent[s].turns + 1]
    <2>1. agent[s].todo - 1 \in Nat /\ agent[s].turns + 1 \in Nat
      BY <1>1
    <2>2. agent' = [agent EXCEPT ![s] = after]
      BY <1>1 DEF TurnCompletes, LedgerInv, AgentShape
    <2>3. after \in Agent /\ after.turns = agent[s].turns + 1
      BY <1>1, <2>1 DEF Agent
    <2> HIDE DEF after
    <2> QED BY <2>2, <2>3 DEF LedgerInv, AgentShape
  <1>3. parent' = [parent EXCEPT ![s] = NoChat] /\ owed' = owed
    BY DEF TurnCompletes
  <1>4. AgentShape'
    BY <1>2, <1>3 DEF LedgerInv, AgentShape
  <1>5. new \notin reading
    BY <1>1 DEF LedgerInv, NoneFromAhead
  <1>6. reading' = IF Tracked(s) THEN reading \cup {new} ELSE reading
    BY DEF TurnCompletes
  <1>7. NoneFromAhead'
    <2>1. Tracked(s) => new \in [sub : Subagents, to : Chats, turn : Nat]
      BY <1>1 DEF LedgerInv, AgentShape, Tracked
    <2>2. IsFiniteSet(reading')
      <3>1. IsFiniteSet(reading)
        BY DEF LedgerInv, NoneFromAhead
      <3>2. IsFiniteSet(reading \cup {new})
        BY <3>1, FS_AddElement
      <3> QED BY <1>6, <3>1, <3>2, Zenon
    <2>3. reading' \subseteq [sub : Subagents, to : Chats, turn : Nat]
      <3>1. reading \subseteq [sub : Subagents, to : Chats, turn : Nat]
        BY DEF LedgerInv, NoneFromAhead
      <3> HIDE DEF new
      <3> QED BY <1>6, <2>1, <3>1
    <2>4. \A r \in reading : r.sub \in Subagents /\ r.turn \in Nat
      BY DEF LedgerInv, NoneFromAhead
    <2>5. \A r \in reading : r.turn <= agent'[r.sub].turns
      BY <1>1, <1>2, <2>4 DEF LedgerInv, NoneFromAhead
    <2>6. new.turn <= agent'[new.sub].turns
      BY <1>1, <1>2
    <2> QED BY <1>6, <2>2, <2>3, <2>5, <2>6 DEF NoneFromAhead
  <1> HIDE DEF new
  <1>8. ASSUME NEW t \in Subagents, NEW c \in Chats
        PROVE  owed'[t][c] = Cardinality(Among(reading', t, c)) + (IF parent'[t] = c THEN 1 ELSE 0)
    <2>1. /\ owed[t][c] = Cardinality(Among(reading, t, c)) + (IF parent[t] = c THEN 1 ELSE 0)
          /\ Cardinality(Among(reading, t, c)) \in Nat
      BY LedgerCounts
    <2>2. parent'[t] = IF t = s THEN NoChat ELSE parent[t]
      BY <1>3 DEF LedgerInv, AgentShape
    <2>3. CASE Tracked(s)
      <3>1. Cardinality(Among(reading \cup {new}, t, c))
              = Cardinality(Among(reading, t, c)) + One(new, t, c)
        BY <1>5, OneMoreRead DEF LedgerInv, NoneFromAhead
      <3>2. Cardinality(Among(reading', t, c)) = Cardinality(Among(reading, t, c)) + One(new, t, c)
        BY <1>6, <2>3, <3>1, Zenon
      <3>3. One(new, t, c) = IF t = s /\ c = parent[s] THEN 1 ELSE 0
        BY DEF One, new
      <3> QED BY <1>3, <2>1, <2>2, <3>2, <3>3
    <2>4. CASE ~Tracked(s)
      <3>1. reading' = reading /\ parent'[t] = parent[t]
        BY <1>6, <2>2, <2>4 DEF Tracked
      <3> QED BY <1>3, <2>1, <3>1
    <2> QED BY <2>3, <2>4
  <1>9. ToldOnce'
    BY <1>8 DEF ToldOnce, BeingRead, Among
  <1> QED BY <1>4, <1>7, <1>9 DEF LedgerInv

(* A summary is in: its chat is told and it is read no more.               *)
LEMMA ReadKeeps ==
    ASSUME LedgerInv, NEW r \in reading, SummaryRead(r)
    PROVE  LedgerInv'
  <1>1. r.sub \in Subagents /\ r.to \in Chats
    BY DEF LedgerInv, NoneFromAhead
  <1>2. /\ reading' = reading \ {r} /\ agent' = agent /\ parent' = parent
        /\ owed' = [owed EXCEPT ![r.sub][r.to] = @ - 1]
    BY DEF SummaryRead, Tell
  <1>3. /\ owed' \in [Subagents -> [Chats -> Int]]
        /\ \A t \in Subagents, c \in Chats :
             owed'[t][c] = IF t = r.sub /\ c = r.to THEN owed[t][c] - 1 ELSE owed[t][c]
    BY <1>1, <1>2 DEF LedgerInv, AgentShape
  <1>4. AgentShape'
    BY <1>2, <1>3 DEF LedgerInv, AgentShape
  <1>5. NoneFromAhead'
    BY <1>2, FS_RemoveElement DEF LedgerInv, NoneFromAhead
  <1>6. ASSUME NEW t \in Subagents, NEW c \in Chats
        PROVE  owed'[t][c] = Cardinality(Among(reading', t, c)) + (IF parent'[t] = c THEN 1 ELSE 0)
    <2>1. /\ owed[t][c] = Cardinality(Among(reading, t, c)) + (IF parent[t] = c THEN 1 ELSE 0)
          /\ Cardinality(Among(reading, t, c)) \in Nat
      BY LedgerCounts
    <2>2. Cardinality(Among(reading \ {r}, t, c)) = Cardinality(Among(reading, t, c)) - One(r, t, c)
      BY OneLessRead DEF LedgerInv, NoneFromAhead
    <2>3. Cardinality(Among(reading', t, c)) = Cardinality(Among(reading, t, c)) - One(r, t, c)
      BY <1>2, <2>2, Zenon
    <2>4. One(r, t, c) = IF t = r.sub /\ c = r.to THEN 1 ELSE 0
      BY DEF One
    <2> QED BY SMTT(30), <1>2, <1>3, <2>1, <2>3, <2>4
  <1>7. ToldOnce'
    BY <1>6 DEF ToldOnce, BeingRead, Among
  <1> QED BY <1>4, <1>5, <1>7 DEF LedgerInv

----------------------------------------------------------------------------
(* Nothing is owed before a chat asks.                                     *)
LEMMA LedgerStarts == SupervisorInit => LedgerInv
  <1> SUFFICES ASSUME SupervisorInit PROVE LedgerInv
    OBVIOUS
  <1> USE SupervisorAssumption
  <1>1. AgentShape
    BY DEF SupervisorInit, AgentShape, Agent
  <1>2. NoneFromAhead
    BY FS_EmptySet DEF SupervisorInit, NoneFromAhead
  <1>3. ASSUME NEW s \in Subagents, NEW chat \in Chats
        PROVE  owed[s][chat] = Cardinality(BeingRead(s, chat)) + (IF parent[s] = chat THEN 1 ELSE 0)
    <2>1. BeingRead(s, chat) = {}
      BY DEF BeingRead, SupervisorInit
    <2>2. owed[s][chat] = 0 /\ parent[s] # chat
      BY DEF SupervisorInit
    <2> QED BY <2>1, <2>2, FS_EmptySet
  <1> QED BY <1>1, <1>2, <1>3 DEF LedgerInv, ToldOnce

(* Every step keeps the ledger.                                            *)
LEMMA LedgerStep == LedgerInv /\ [SupervisorNext]_supervisorVars => LedgerInv'
  <1> SUFFICES ASSUME LedgerInv, [SupervisorNext]_supervisorVars PROVE LedgerInv'
    OBVIOUS
  <1>1. ASSUME NEW s \in Subagents, SubagentStep(s) PROVE LedgerInv'
    BY <1>1, TrackingKeeps, PersonKeeps, EndKeeps, QuietEndKeeps, ApprovalKeeps, TurnKeeps
       DEF SubagentStep
  <1>2. ASSUME NEW chat \in Chats, ChatRemoved(chat) PROVE LedgerInv'
    BY <1>2, ChatRemovedKeeps
  <1>3. ASSUME NEW r \in reading, SummaryRead(r) PROVE LedgerInv'
    BY <1>3, ReadKeeps
  <1>4. CASE UNCHANGED supervisorVars
    BY <1>4 DEF supervisorVars, LedgerInv, AgentShape, NoneFromAhead, ToldOnce, BeingRead
  <1> QED BY <1>1, <1>2, <1>3, <1>4 DEF SupervisorNext

(* The inductive invariant of the ledger: every tracking is a chat's, and  *)
(* the summaries being read are of turns that have ended.                  *)
THEOREM LedgerInvariant == SupervisorSpec => []LedgerInv
  BY LedgerStarts, LedgerStep, PTL DEF SupervisorSpec

(* A chat that asked to hear of a subagent is told exactly once, whatever  *)
(* chats, people and the subagent do meanwhile.                            *)
THEOREM EachIsToldOnce == SupervisorSpec => []ToldOnce
  <1>1. LedgerInv => ToldOnce
    BY DEF LedgerInv
  <1> QED BY LedgerInvariant, <1>1, PTL

----------------------------------------------------------------------------
(* What the cache knows.                                                   *)

Outcome == [status : {"none", "running", "paused", "idle", "done", "exited"}, turn : Nat]

Records == own \in [Subagents -> BOOLEAN] /\ cached \in [Subagents -> Outcome]

(* A subagent that works has something to do, and an outcome that says it  *)
(* does belongs to a tracking or to a summary that is still being read.  A *)
(* pocket agent is not stopped; each kind comes to rest in its own way.    *)
Fits(s) ==
    /\ agent[s].busy => agent[s].todo > 0
    /\ agent[s].paused => agent[s].todo > 0
    /\ Tracked(s) /\ Alive(s) => agent[s].todo > 0
    /\ cached[s].status = "none" => cached[s].turn = 0
    /\ cached[s].status \in {"running", "paused"} => Tracked(s) \/ \E r \in reading : r.sub = s
    /\ s \in Pocket => /\ cached[s].status \notin {"idle", "exited"}
                       /\ agent[s].state # "dead"
                       /\ Tracked(s) => Alive(s)
    /\ s \in Coding => cached[s].status # "done"

(* Unless two summaries were read at a time, the one being read is of the  *)
(* latest turn when that was a tracked one, and so is the one that was.    *)
Latest(s) ==
    s \notin overtaken =>
        /\ \A q, r \in reading : q.sub = s /\ r.sub = s => q = r
        /\ own[s] =>
             /\ \A r \in reading : r.sub = s => r.turn = agent[s].turns
             /\ ~(\E r \in reading : r.sub = s) =>
                  /\ cached[s].status \in {"idle", "done"} => cached[s].turn = agent[s].turns
                  /\ cached[s].status = "exited" => cached[s].turn \in {0, agent[s].turns}

StatusInv == LedgerInv /\ Records /\ \A s \in Subagents : Fits(s) /\ Latest(s)

(* A step that is about one subagent leaves the others as they are.        *)
LEMMA OneMoves ==
    ASSUME StatusInv, NEW s \in Subagents,
           \A t \in Subagents : t # s =>
               /\ agent'[t] = agent[t] /\ parent'[t] = parent[t] /\ cached'[t] = cached[t]
               /\ own'[t] = own[t] /\ (t \in overtaken' <=> t \in overtaken),
           \A r \in reading \cup reading' : r.sub # s => r \in reading /\ r \in reading',
           Fits(s)', Latest(s)'
    PROVE  \A t \in Subagents : Fits(t)' /\ Latest(t)'
  <1> SUFFICES ASSUME NEW t \in Subagents PROVE Fits(t)' /\ Latest(t)'
    OBVIOUS
  <1>1. CASE t = s
    BY <1>1
  <1>2. CASE t # s
    <2>1. /\ agent'[t] = agent[t] /\ parent'[t] = parent[t] /\ cached'[t] = cached[t]
          /\ own'[t] = own[t] /\ (t \in overtaken' <=> t \in overtaken)
      BY <1>2
    <2>2. \A r : r \in reading' /\ r.sub = t <=> r \in reading /\ r.sub = t
      BY <1>2
    <2>3. Fits(t) /\ Latest(t)
      BY DEF StatusInv
    <2>4. Fits(t)'
      BY <2>1, <2>2, <2>3 DEF Fits, Tracked, Alive
    <2>5. Latest(t)'
      BY <2>1, <2>2, <2>3 DEF Latest
    <2> QED BY <2>4, <2>5
  <1> QED BY <1>1, <1>2

(* What a chat or a person does to one: the counts of its turns stay.      *)
LEMMA PromptFits ==
    ASSUME StatusInv, NEW s \in Subagents, NEW chat \in Chats,
           StartSubagent(s, chat) \/ Instruct(s, chat)
    PROVE  Records' /\ \A t \in Subagents : Fits(t)' /\ Latest(t)'
  <1> USE SupervisorAssumption
  <1>0. LedgerInv /\ Records /\ Fits(s) /\ Latest(s) /\ agent[s] \in Agent
    BY DEF StatusInv, LedgerInv, AgentShape
  <1>1. /\ TrackedBy(s, chat) /\ agent' = [agent EXCEPT ![s] = PromptedAgent(s)]
        /\ UNCHANGED <<reading, own, overtaken>>
    BY DEF StartSubagent, Instruct
  <1>2. agent'[s] = PromptedAgent(s) /\ \A t \in Subagents : t # s => agent'[t] = agent[t]
    BY <1>0, <1>1 DEF LedgerInv, AgentShape
  <1>3. /\ agent'[s].state = "live" /\ agent'[s].todo = agent[s].todo + 1
        /\ agent'[s].paused = agent[s].paused /\ agent'[s].turns = agent[s].turns
    BY <1>0, <1>2 DEF PromptedAgent, Agent
  <1>4. agent[s].todo \in Nat
    BY <1>0 DEF Agent
  <1>5. agent'[s].todo > 0
    BY <1>3, <1>4
  <1>6. parent'[s] = chat /\ \A t \in Subagents : t # s => parent'[t] = parent[t]
    BY <1>0, <1>1 DEF LedgerInv, AgentShape, TrackedBy
  <1>7. /\ cached'[s] = [status |-> "running", turn |-> 0]
        /\ \A t \in Subagents : t # s => cached'[t] = cached[t]
        /\ cached' \in [Subagents -> Outcome]
    BY <1>0, <1>1 DEF Records, TrackedBy, Outcome
  <1>8. Tracked(s)' /\ Alive(s)'
    BY <1>3, <1>6 DEF Tracked, Alive
  <1>9. cached'[s].status = "running"
    BY <1>7
  <1>10. Fits(s)'
    BY <1>3, <1>5, <1>8, <1>9 DEF Fits, Alive
  <1>11. Latest(s)'
    BY <1>0, <1>1, <1>3, <1>9 DEF Latest
  <1>12. Records'
    BY <1>0, <1>1, <1>7 DEF Records
  <1> QED BY <1>1, <1>2, <1>6, <1>7, <1>10, <1>11, <1>12, OneMoves

(* After a person's prompt the status of every subagent still fits it.     *)
LEMMA PersonFits ==
    ASSUME StatusInv, NEW s \in Subagents, PersonInstructs(s)
    PROVE  Records' /\ \A t \in Subagents : Fits(t)' /\ Latest(t)'
  <1>0. LedgerInv /\ Records /\ Fits(s) /\ Latest(s) /\ agent[s] \in Agent
    BY DEF StatusInv, LedgerInv, AgentShape
  <1>1. /\ agent' = [agent EXCEPT ![s] = PromptedAgent(s)] /\ Alive(s)
        /\ UNCHANGED <<parent, cached, reading, own, overtaken>>
    BY DEF PersonInstructs
  <1>2. agent'[s] = PromptedAgent(s) /\ \A t \in Subagents : t # s => agent'[t] = agent[t]
    BY <1>0, <1>1 DEF LedgerInv, AgentShape
  <1>3. /\ agent'[s].state = "live" /\ agent'[s].todo = agent[s].todo + 1
        /\ agent'[s].paused = agent[s].paused /\ agent'[s].turns = agent[s].turns
    BY <1>0, <1>2 DEF PromptedAgent, Agent
  <1>4. agent[s].todo \in Nat
    BY <1>0 DEF Agent
  <1>5. agent'[s].todo > 0
    BY <1>3, <1>4
  <1>6. Fits(s)'
    BY <1>0, <1>1, <1>3, <1>5 DEF Fits, Tracked, Alive
  <1>7. Latest(s)'
    BY <1>0, <1>1, <1>3 DEF Latest
  <1>8. Records'
    BY <1>0, <1>1 DEF Records
  <1> QED BY <1>1, <1>2, <1>6, <1>7, <1>8, OneMoves

(* One that ends, however it does, has nothing to do any more.             *)
LEMMA EndFits ==
    ASSUME StatusInv, NEW s \in Subagents, Terminate(s) \/ Forget(s) \/ EndsQuietly(s)
    PROVE  Records' /\ \A t \in Subagents : Fits(t)' /\ Latest(t)'
  <1> USE SupervisorAssumption
  <1>0. LedgerInv /\ Records /\ Fits(s) /\ Latest(s) /\ agent[s] \in Agent
    BY DEF StatusInv, LedgerInv, AgentShape
  <1>1. PICK state \in {"dead", "gone"} :
          /\ agent' = [agent EXCEPT ![s] = [agent[s] EXCEPT !.state = state, !.busy = FALSE,
                                                           !.paused = FALSE, !.todo = 0]]
          /\ state = "dead" => s \in Coding
    BY <1>0 DEF LedgerInv, AgentShape, Terminate, Terminated, Forget, EndsQuietly
  <1>2. /\ agent'[s] = [agent[s] EXCEPT !.state = state, !.busy = FALSE, !.paused = FALSE, !.todo = 0]
        /\ \A t \in Subagents : t # s => agent'[t] = agent[t]
    BY <1>0, <1>1 DEF LedgerInv, AgentShape
  <1>3. /\ agent'[s].state = state /\ agent'[s].turns = agent[s].turns
        /\ agent'[s].busy = FALSE /\ agent'[s].paused = FALSE
    BY <1>0, <1>2 DEF Agent
  <1>4. ~Alive(s)' /\ UNCHANGED <<reading, own, overtaken>>
    BY <1>3 DEF Alive, Terminate, Forget, EndsQuietly
  <1>5. CASE EndsQuietly(s)
    <2>1. UNCHANGED <<parent, cached>> /\ s \in Coding
      BY <1>5 DEF EndsQuietly
    <2>2. Fits(s)'
      BY <1>0, <1>3, <1>4, <2>1 DEF Fits, Tracked
    <2>3. Latest(s)'
      BY <1>0, <1>3, <1>4, <2>1 DEF Latest
    <2>4. Records'
      BY <1>0, <1>4, <2>1 DEF Records
    <2> QED BY <1>2, <1>4, <2>1, <2>2, <2>3, <2>4, OneMoves
  <1>6. CASE Terminate(s) \/ Forget(s)
    <2>1. parent'[s] = NoChat /\ \A t \in Subagents : t # s => parent'[t] = parent[t]
      BY <1>0, <1>6 DEF LedgerInv, AgentShape, Terminate, Terminated, Forget
    <2>2. PICK o \in {[status |-> "exited", turn |-> 0], Nothing} :
            cached' = [cached EXCEPT ![s] = o] /\ (o # Nothing => s \in Coding)
      BY <1>6 DEF Terminate, Terminated, Forget
    <2>3. o \in Outcome /\ o.turn = 0 /\ o.status \in {"exited", "none"}
          /\ (o.status = "exited" => s \in Coding)
      BY <2>2 DEF Nothing, Outcome
    <2>4. /\ cached'[s] = o /\ cached' \in [Subagents -> Outcome]
          /\ \A t \in Subagents : t # s => cached'[t] = cached[t]
      BY <1>0, <2>2, <2>3 DEF Records
    <2>5. ~Tracked(s)'
      BY <2>1 DEF Tracked
    <2>6. Fits(s)'
      BY <1>1, <1>3, <1>4, <2>3, <2>4, <2>5 DEF Fits
    <2>7. Latest(s)'
      BY <1>0, <1>3, <1>4, <2>3, <2>4 DEF Latest
    <2>8. Records'
      BY <1>0, <1>4, <2>4 DEF Records
    <2> QED BY <1>2, <1>4, <2>1, <2>4, <2>6, <2>7, <2>8, OneMoves
  <1> QED BY <1>5, <1>6

(* Around an approval the status of every subagent still fits it.          *)
LEMMA ApprovalFits ==
    ASSUME StatusInv, NEW s \in Subagents, AsksApproval(s) \/ GetsAnswer(s)
    PROVE  Records' /\ \A t \in Subagents : Fits(t)' /\ Latest(t)'
  <1>0. LedgerInv /\ Records /\ Fits(s) /\ Latest(s) /\ agent[s] \in Agent
    BY DEF StatusInv, LedgerInv, AgentShape
  <1>1. PICK paused \in BOOLEAN :
          /\ agent' = [agent EXCEPT ![s].paused = paused]
          /\ paused => agent[s].busy
    BY DEF AsksApproval, GetsAnswer
  <1>2. /\ agent'[s] = [agent[s] EXCEPT !.paused = paused]
        /\ \A t \in Subagents : t # s => agent'[t] = agent[t]
    BY <1>0, <1>1 DEF LedgerInv, AgentShape
  <1>3. /\ agent'[s].state = agent[s].state /\ agent'[s].turns = agent[s].turns
        /\ agent'[s].todo = agent[s].todo /\ agent'[s].busy = agent[s].busy
        /\ agent'[s].paused = paused
    BY <1>0, <1>2 DEF Agent
  <1>4. UNCHANGED <<parent, reading, own, overtaken>>
    BY DEF AsksApproval, GetsAnswer
  <1>5. \/ cached' = cached
        \/ Tracked(s) /\ \E status \in {"running", "paused"} :
             cached' = [cached EXCEPT ![s] = [status |-> status, turn |-> 0]]
    BY DEF AsksApproval, GetsAnswer
  <1>6. /\ cached' \in [Subagents -> Outcome]
        /\ \A t \in Subagents : t # s => cached'[t] = cached[t]
        /\ \/ cached'[s] = cached[s]
           \/ Tracked(s) /\ cached'[s].status \in {"running", "paused"}
    BY <1>0, <1>5 DEF Records, Outcome
  <1>7. Fits(s)'
    BY <1>0, <1>1, <1>3, <1>4, <1>6 DEF Fits, Tracked, Alive
  <1>8. Latest(s)'
    BY <1>0, <1>3, <1>4, <1>6 DEF Latest
  <1>9. Records'
    BY <1>0, <1>4, <1>6 DEF Records
  <1> QED BY <1>2, <1>4, <1>6, <1>7, <1>8, <1>9, OneMoves

(* A turn ends: a tracked one is the latest, and its summary is read now.  *)
LEMMA TurnFits ==
    ASSUME StatusInv, NEW s \in Subagents, TurnCompletes(s)
    PROVE  Records' /\ \A t \in Subagents : Fits(t)' /\ Latest(t)'
  <1> USE SupervisorAssumption
  <1>0. LedgerInv /\ Records /\ Fits(s) /\ Latest(s) /\ agent[s] \in Agent
    BY DEF StatusInv, LedgerInv, AgentShape
  <1> DEFINE new == [sub |-> s, to |-> parent[s], turn |-> agent[s].turns + 1]
  <1>1. agent' = [agent EXCEPT ![s] = [agent[s] EXCEPT !.busy = FALSE, !.todo = agent[s].todo - 1,
                                                       !.turns = agent[s].turns + 1]]
    BY <1>0 DEF TurnCompletes, LedgerInv, AgentShape, Agent
  <1>2. /\ agent'[s] = [agent[s] EXCEPT !.busy = FALSE, !.todo = agent[s].todo - 1,
                                        !.turns = agent[s].turns + 1]
        /\ \A t \in Subagents : t # s => agent'[t] = agent[t]
    BY <1>0, <1>1 DEF LedgerInv, AgentShape
  <1>3. /\ agent'[s].busy = FALSE /\ agent'[s].turns = agent[s].turns + 1
        /\ agent'[s].state = agent[s].state /\ agent'[s].paused = agent[s].paused
    BY <1>0, <1>2 DEF Agent
  <1>4. /\ ~agent[s].paused /\ Alive(s) /\ cached' = cached
        /\ own' = [own EXCEPT ![s] = Tracked(s)]
        /\ parent' = [parent EXCEPT ![s] = NoChat]
    BY DEF TurnCompletes
  <1>5. reading' = IF Tracked(s) THEN reading \cup {new} ELSE reading
    BY DEF TurnCompletes
  <1>6. overtaken' = IF Tracked(s) /\ \E r \in reading : r.sub = s
                     THEN overtaken \cup {s} ELSE overtaken
    BY DEF TurnCompletes
  <1>7. new.sub = s /\ new.turn = agent[s].turns + 1
    OBVIOUS
  <1> HIDE DEF new
  <1>8. \A t \in Subagents : t # s => parent'[t] = parent[t] /\ own'[t] = own[t]
    BY <1>0, <1>4 DEF LedgerInv, AgentShape, Records
  <1>9. parent'[s] = NoChat /\ ~Tracked(s)' /\ (own'[s] <=> Tracked(s))
    <2>1. parent'[s] = NoChat
      BY <1>0, <1>4 DEF LedgerInv, AgentShape
    <2>2. own'[s] = Tracked(s)
      BY <1>0, <1>4 DEF Records
    <2> QED BY <2>1, <2>2 DEF Tracked
  <1>10. own' \in [Subagents -> BOOLEAN]
    <2>1. Tracked(s) \in BOOLEAN
      BY DEF Tracked
    <2> QED BY <1>0, <1>4, <2>1, Zenon DEF Records
  <1>11. \A r \in reading \cup reading' : r.sub # s => r \in reading /\ r \in reading'
    BY <1>5, <1>7
  <1>12. \A t \in Subagents : t # s => (t \in overtaken' <=> t \in overtaken)
    BY <1>6
  <1>13. Fits(s)'
    <2>1. cached'[s] = cached[s]
      BY <1>4
    <2>2. Tracked(s) => \E r \in reading' : r.sub = s
      BY <1>5, <1>7
    <2>3. reading \subseteq reading'
      BY <1>5
    <2>4. cached'[s].status \in {"running", "paused"} => \E r \in reading' : r.sub = s
      BY <1>0, <2>1, <2>2, <2>3 DEF Fits
    <2>5. ~agent'[s].busy /\ ~agent'[s].paused
      BY <1>3, <1>4
    <2> QED BY <1>0, <1>3, <1>9, <2>1, <2>4, <2>5 DEF Fits
  <1>14. Latest(s)'
    <2> SUFFICES ASSUME s \notin overtaken' PROVE Latest(s)'
      BY DEF Latest
    <2>1. CASE Tracked(s)
      <3>1. ~\E r \in reading : r.sub = s
        BY <1>6, <2>1
      <3>2. \A r \in reading' : r.sub = s => r = new
        BY <1>5, <2>1, <3>1
      <3>3. new \in reading'
        BY <1>5, <2>1
      <3> QED BY <1>3, <1>7, <3>2, <3>3 DEF Latest
    <2>2. CASE ~Tracked(s)
      <3>1. reading' = reading /\ overtaken' = overtaken
        BY <1>5, <1>6, <2>2
      <3> QED BY <1>0, <1>9, <2>2, <3>1 DEF Latest
    <2> QED BY <2>1, <2>2
  <1>15. Records'
    BY <1>0, <1>4, <1>10 DEF Records
  <1> QED BY <1>2, <1>4, <1>8, <1>11, <1>12, <1>13, <1>14, <1>15, OneMoves

(* A summary is in: the outcome is the one of its turn.                    *)
LEMMA ReadFits ==
    ASSUME StatusInv, NEW r \in reading, SummaryRead(r)
    PROVE  Records' /\ \A t \in Subagents : Fits(t)' /\ Latest(t)'
  <1> USE SupervisorAssumption
  <1>0. r.sub \in Subagents /\ r.turn \in Nat
    BY DEF StatusInv, LedgerInv, NoneFromAhead
  <1> DEFINE s == r.sub
             o == [status |-> IF r.sub \in Pocket THEN "done"
                              ELSE IF agent[r.sub].state = "dead" THEN "exited" ELSE "idle",
                   turn |-> r.turn]
  <1>1. LedgerInv /\ Records /\ Fits(s) /\ Latest(s)
    BY <1>0 DEF StatusInv
  <1>2. /\ reading' = reading \ {r} /\ cached' = [cached EXCEPT ![s] = o]
        /\ UNCHANGED <<agent, parent, own, overtaken>>
    BY DEF SummaryRead
  <1>3. /\ o \in Outcome /\ o.turn = r.turn /\ o.status \in {"done", "exited", "idle"}
        /\ (o.status = "done" <=> s \in Pocket)
    BY <1>0 DEF Outcome
  <1> HIDE DEF o
  <1>4. /\ cached'[s] = o /\ cached' \in [Subagents -> Outcome]
        /\ \A t \in Subagents : t # s => cached'[t] = cached[t]
    BY <1>0, <1>1, <1>2, <1>3 DEF Records
  <1>5. Fits(s)'
    BY <1>1, <1>2, <1>3, <1>4 DEF Fits, Tracked, Alive
  <1>6. Latest(s)'
    <2> SUFFICES ASSUME s \notin overtaken PROVE Latest(s)'
      BY <1>2 DEF Latest
    <2>1. \A q \in reading : q.sub = s => q = r
      BY <1>1 DEF Latest
    <2>2. ~\E q \in reading' : q.sub = s
      BY <1>2, <2>1
    <2>3. own[s] => r.turn = agent[s].turns
      BY <1>1 DEF Latest
    <2> QED BY <1>2, <1>3, <1>4, <2>2, <2>3 DEF Latest
  <1>7. \A q \in reading \cup reading' : q.sub # s => q \in reading /\ q \in reading'
    BY <1>2
  <1>8. Records'
    BY <1>1, <1>2, <1>4 DEF Records
  <1> HIDE DEF s
  <1>9. s \in Subagents
    BY <1>0 DEF s
  <1> QED BY <1>2, <1>4, <1>5, <1>6, <1>7, <1>8, <1>9, OneMoves

(* A chat is removed with the coding agents it started.                    *)
LEMMA ChatRemovedFits ==
    ASSUME StatusInv, NEW chat \in Chats, ChatRemoved(chat)
    PROVE  Records' /\ \A t \in Subagents : Fits(t)' /\ Latest(t)'
  <1> USE SupervisorAssumption
  <1>0. LedgerInv /\ Records
    BY DEF StatusInv
  <1> DEFINE mine == {s \in Coding : owner[s] = chat /\ agent[s].state # "gone"}
  <1> DEFINE verdict(s) == IF s \notin mine THEN cached[s]
                           ELSE IF Alive(s) THEN [status |-> "exited", turn |-> 0] ELSE Nothing
             after(s) == IF s \in mine /\ Alive(s)
                         THEN [agent[s] EXCEPT !.state = "dead", !.busy = FALSE,
                                               !.paused = FALSE, !.todo = 0]
                         ELSE agent[s]
  <1>a. /\ parent' = [s \in Subagents |-> IF s \in mine THEN NoChat ELSE parent[s]]
        /\ cached' = [s \in Subagents |-> verdict(s)]
        /\ agent' = [s \in Subagents |-> after(s)]
        /\ UNCHANGED <<reading, own, overtaken>>
    BY Zenon DEF ChatRemoved
  <1>2. \A t \in mine : t \in Coding
    OBVIOUS
  <1> HIDE DEF mine, verdict, after
  <1>1. /\ DOMAIN cached' = Subagents /\ UNCHANGED <<reading, own, overtaken>>
        /\ cached' = [t \in Subagents |-> cached'[t]]
        /\ \A t \in Subagents :
             /\ parent'[t] = IF t \in mine THEN NoChat ELSE parent[t]
             /\ cached'[t] = verdict(t) /\ agent'[t] = after(t)
    BY <1>a
  <1>3. ASSUME NEW t \in Subagents
        PROVE  cached'[t] \in Outcome /\ Fits(t)' /\ Latest(t)'
    <2>0. Fits(t) /\ Latest(t) /\ agent[t] \in Agent /\ cached[t] \in Outcome
      BY <1>0 DEF StatusInv, LedgerInv, AgentShape, Records
    <2>1. CASE t \notin mine
      <3>a. cached'[t] = verdict(t) /\ agent'[t] = after(t) /\ parent'[t] = parent[t]
        BY <1>1, <2>1
      <3>b. verdict(t) = cached[t]
        BY <2>1 DEF verdict
      <3>c. after(t) = agent[t]
        BY Zenon, <2>1 DEF after
      <3>1. agent'[t] = agent[t] /\ parent'[t] = parent[t] /\ cached'[t] = cached[t]
        BY <3>a, <3>b, <3>c
      <3>2. Fits(t)'
        BY <1>1, <2>0, <3>1 DEF Fits, Tracked, Alive
      <3>3. Latest(t)'
        BY <1>1, <2>0, <3>1 DEF Latest
      <3> QED BY <2>0, <3>1, <3>2, <3>3
    <2>2. CASE t \in mine
      <3>1. t \in Coding /\ t \notin Pocket
        BY <1>2, <2>2
      <3>2. parent'[t] = NoChat
        BY <1>1, <2>2
      <3>3. cached'[t] \in Outcome /\ cached'[t].turn = 0 /\ cached'[t].status \in {"exited", "none"}
        <4>1. CASE Alive(t)
          <5>1. cached'[t] = [status |-> "exited", turn |-> 0]
            BY <1>1, <2>2, <4>1 DEF verdict
          <5> QED BY <5>1 DEF Outcome
        <4>2. CASE ~Alive(t)
          <5>1. cached'[t] = [status |-> "none", turn |-> 0]
            BY <1>1, <2>2, <4>2 DEF Nothing, verdict
          <5> QED BY <5>1 DEF Outcome
        <4> QED BY <4>1, <4>2
      <3>4. \/ agent'[t] = agent[t]
            \/ agent'[t] = [agent[t] EXCEPT !.state = "dead", !.busy = FALSE, !.paused = FALSE, !.todo = 0]
        <4>1. agent'[t] = after(t)
          BY <1>1
        <4>2. CASE Alive(t)
          BY Zenon, <2>2, <4>1, <4>2 DEF after
        <4>3. CASE ~Alive(t)
          BY Zenon, <4>1, <4>3 DEF after
        <4> QED BY <4>2, <4>3
      <3>5. /\ agent'[t].turns = agent[t].turns
            /\ \/ agent'[t] = agent[t]
               \/ agent'[t].busy = FALSE /\ agent'[t].paused = FALSE
        BY <2>0, <3>4 DEF Agent
      <3>6. ~Tracked(t)'
        BY <3>2 DEF Tracked
      <3>7. Fits(t)'
        BY <2>0, <3>1, <3>3, <3>5, <3>6 DEF Fits
      <3>8. Latest(t)'
        BY <1>1, <2>0, <3>3, <3>5 DEF Latest
      <3> QED BY <3>3, <3>7, <3>8
    <2> QED BY <2>1, <2>2
  <1>4. Records'
    BY <1>0, <1>1, <1>3 DEF Records
  <1> QED BY <1>3, <1>4

(* Nobody has asked and nothing is cached at the start.                    *)
LEMMA StatusStarts == SupervisorInit => StatusInv
  <1> SUFFICES ASSUME SupervisorInit PROVE StatusInv
    OBVIOUS
  <1>1. LedgerInv
    BY LedgerStarts
  <1>2. Records
    BY DEF SupervisorInit, Records, Outcome, Nothing
  <1>3. ASSUME NEW s \in Subagents PROVE Fits(s) /\ Latest(s)
    <2>1. /\ agent[s].busy = FALSE /\ agent[s].paused = FALSE /\ agent[s].state = "none"
          /\ parent[s] = NoChat /\ cached[s].status = "none" /\ cached[s].turn = 0 /\ reading = {}
      BY DEF SupervisorInit, Nothing
    <2> QED BY <2>1 DEF Fits, Latest, Tracked, Alive
  <1> QED BY <1>1, <1>2, <1>3 DEF StatusInv

(* Every step keeps the status of every subagent in line with its agent.   *)
LEMMA StatusStep == StatusInv /\ [SupervisorNext]_supervisorVars => StatusInv'
  <1> SUFFICES ASSUME StatusInv, [SupervisorNext]_supervisorVars PROVE StatusInv'
    OBVIOUS
  <1>1. LedgerInv'
    BY LedgerStep DEF StatusInv
  <1>2. ASSUME NEW s \in Subagents, SubagentStep(s)
        PROVE  Records' /\ \A t \in Subagents : Fits(t)' /\ Latest(t)'
    BY <1>2, PromptFits, PersonFits, EndFits, ApprovalFits, TurnFits DEF SubagentStep
  <1>3. ASSUME NEW chat \in Chats, ChatRemoved(chat)
        PROVE  Records' /\ \A t \in Subagents : Fits(t)' /\ Latest(t)'
    BY <1>3, ChatRemovedFits
  <1>4. ASSUME NEW r \in reading, SummaryRead(r)
        PROVE  Records' /\ \A t \in Subagents : Fits(t)' /\ Latest(t)'
    BY <1>4, ReadFits
  <1>5. CASE UNCHANGED supervisorVars
    <2>1. UNCHANGED <<agent, parent, cached, reading, own, overtaken>>
      BY <1>5 DEF supervisorVars
    <2> QED BY <1>1, <2>1 DEF StatusInv, Records, Fits, Latest, Tracked, Alive
  <1>6. CASE SupervisorNext
    <2>1. Records' /\ \A t \in Subagents : Fits(t)' /\ Latest(t)'
      BY <1>2, <1>3, <1>4, <1>6 DEF SupervisorNext
    <2> QED BY <1>1, <2>1 DEF StatusInv
  <1> QED BY <1>5, <1>6

(* The inductive invariant of the cache.                                   *)
THEOREM StatusInvariant == SupervisorSpec => []StatusInv
  BY StatusStarts, StatusStep, PTL DEF SupervisorSpec

(* Every variable keeps its type, and a subagent at work has work to do    *)
(* (supervisor.ts, planner/tools.ts).                                      *)
THEOREM SupervisorTypes == SupervisorSpec => []SupervisorTypeOK
  <1>1. StatusInv => SupervisorTypeOK
    <2> SUFFICES ASSUME StatusInv PROVE SupervisorTypeOK
      OBVIOUS
    <2>1. ASSUME NEW s \in Subagents
          PROVE  /\ agent[s].state \in {"none", "live", "dead", "gone"}
                 /\ agent[s].busy => agent[s].todo > 0
                 /\ agent[s].paused => agent[s].todo > 0
                 /\ parent[s] \in Chats \cup {NoChat}
                 /\ cached[s].status \in {"none", "running", "paused", "idle", "done", "exited"}
      <3>1. agent[s] \in Agent /\ parent[s] \in Chats \cup {NoChat} /\ cached[s] \in Outcome
        BY DEF StatusInv, LedgerInv, AgentShape, Records
      <3>2. Fits(s)
        BY DEF StatusInv
      <3>3. agent[s].state \in {"none", "live", "dead", "gone"}
        BY <3>1 DEF Agent
      <3>4. cached[s].status \in {"none", "running", "paused", "idle", "done", "exited"}
        BY <3>1 DEF Outcome
      <3> QED BY <3>1, <3>2, <3>3, <3>4 DEF Fits
    <2>2. \A r \in reading : r.sub \in Subagents /\ r.to \in Chats
      BY DEF StatusInv, LedgerInv, NoneFromAhead
    <2> QED BY <2>1, <2>2 DEF SupervisorTypeOK
  <1> QED BY <1>1, StatusInvariant, PTL

(* A chat that asks after a subagent at rest is told of its latest turn by *)
(* a status that agrees with the agent (get_subagent_status), as long as   *)
(* that turn was a tracked one and its summary is in.                      *)
THEOREM StatusIsTold == SupervisorSpec => []StatusIsTrue
  <1>1. StatusInv => StatusIsTrue
    <2> SUFFICES ASSUME StatusInv, NEW s \in Subagents \ overtaken,
                        agent[s].state \in {"live", "dead"}, ~agent[s].busy, agent[s].todo = 0,
                        own[s], ~\E r \in reading : r.sub = s
                 PROVE  /\ StatusOf(s).status = AtRest(s).status
                        /\ \/ StatusOf(s).turn = agent[s].turns
                           \/ cached[s] = [status |-> "exited", turn |-> 0]
      BY DEF StatusIsTrue
    <2>1. /\ Fits(s) /\ Latest(s) /\ agent[s] \in Agent /\ cached[s] \in Outcome
          /\ agent[s].turns \in Nat
      BY DEF StatusInv, LedgerInv, AgentShape, Records, Agent
    <2>2. ~agent[s].paused
      BY <2>1 DEF Fits
    <2>3. /\ cached[s].status \in {"idle", "done"} => cached[s].turn = agent[s].turns
          /\ cached[s].status = "exited" => cached[s].turn \in {0, agent[s].turns}
      BY <2>1 DEF Latest
    <2>4. AtRest(s).turn = agent[s].turns
      BY DEF AtRest
    <2>5. CASE s \in Pocket
      <3>1. Tracked(s) => Alive(s)
        BY <2>1, <2>5 DEF Fits
      <3>2. ~Tracked(s)
        BY <2>1, <3>1 DEF Fits
      <3>3. cached[s].status \notin {"running", "paused", "idle", "exited"}
        BY <2>1, <2>5, <3>2 DEF Fits
      <3>4. cached[s] = Nothing \/ cached[s].status = "done"
        BY <2>1, <3>3 DEF Fits, Outcome, Nothing
      <3>5. StatusOf(s) = IF cached[s] = Nothing THEN AtRest(s) ELSE cached[s]
        BY <2>2, <2>5 DEF StatusOf
      <3>6. AtRest(s).status = "done"
        BY <2>5 DEF AtRest
      <3> QED BY <2>3, <2>4, <3>4, <3>5, <3>6
    <2>6. CASE s \notin Pocket
      <3>1. s \in Coding
        BY <2>6 DEF Subagents
      <3>2. cached[s].status # "done"
        BY <2>1, <3>1 DEF Fits
      <3>3. AtRest(s).status = IF Alive(s) THEN "idle" ELSE "exited"
        BY <2>6 DEF AtRest
      <3>4. StatusOf(s) = IF cached[s].status \in (IF Alive(s) THEN {"idle"} ELSE {"exited", "done"})
                          THEN cached[s] ELSE AtRest(s)
        BY <2>2, <2>6 DEF StatusOf
      <3>5. CASE StatusOf(s) = AtRest(s)
        BY <2>4, <3>5
      <3>6. CASE Alive(s) /\ cached[s].status = "idle" /\ StatusOf(s) = cached[s]
        BY <2>3, <3>3, <3>6
      <3>7. CASE ~Alive(s) /\ cached[s].status = "exited" /\ StatusOf(s) = cached[s]
        <4>1. cached[s].turn = 0 => cached[s] = [status |-> "exited", turn |-> 0]
          BY <2>1, <3>7 DEF Outcome
        <4> QED BY <2>3, <3>3, <3>7, <4>1
      <3> QED BY <3>2, <3>4, <3>5, <3>6, <3>7
    <2> QED BY <2>5, <2>6
  <1> QED BY <1>1, StatusInvariant, PTL
=============================================================================
