------------------------------ MODULE RunQueue ------------------------------
(***************************************************************************)
(* The directory queue, apps/server/src/runs/queue.ts.                      *)
(*                                                                         *)
(* Work that would share one working tree is serialised by a line of        *)
(* waiters per tree.  A tree is held while some live session rooted in it   *)
(* is mid-turn (derived: `busy`) or while a claimed run has not started its *)
(* session yet (`granted`).  Nothing here is a lease and nothing times out. *)
(*                                                                         *)
(* The module is the contract the producers rely on.  What an item does     *)
(* once the queue has called its run() is left open: it may keep the grant  *)
(* while it starts, put a session mid-turn at once, or be over immediately. *)
(* Node runs one synchronous stretch at a time, so a handler together with  *)
(* the pump it ends in is one action.                                       *)
(***************************************************************************)
EXTENDS Integers, SequencesExt

CONSTANTS
    Trees,          \* working trees, the queue's keys (treeRootOf)
    Items,          \* deliveries and prompts; an id is submitted at most once
    TreeOf,         \* the key each item waits for
    MaxPerKey,      \* RunQueueOptions.maxPerKey
    MaxTotal,       \* RunQueueOptions.maxTotal
    NoItem,         \* no grant on a tree
    NoRow,          \* no queued row on disk
    MinStamp,       \* bound: moveToFront stops lowering a stamp here
    MaxRestarts     \* bound: how often the server goes down

ASSUME ItemsFinite == IsFiniteSet(Items)
ASSUME TreeOfType == TreeOf \in [Items -> Trees]
ASSUME NoItemOutside == NoItem \notin Items
ASSUME NoRowOutside == NoRow \notin Int
ASSUME CapsPositive == MaxPerKey \in Nat \ {0} /\ MaxTotal \in Nat \ {0}
ASSUME BoundsType == MinStamp \in Int /\ MaxRestarts \in Nat

VARIABLES
    line,       \* waiting: per tree, the waiters, oldest first
    stamp,      \* QueuedItem.enqueuedAt of the items in memory
    granted,    \* granted: the item holding each tree's unstarted grant
    busy,       \* trees with a session mid-turn (busyTreeRoots)
    claims,     \* runs that were handed their tree and have not given it back
    late,       \* trees that came free in a step that ran no pump
    row,        \* the producer's persisted stamp of a queued item, or NoRow
    submitted,  \* item ids used so far
    clock,      \* Date.now() at the last submission
    up,         \* the server process is running
    restarts    \* how often it went down

memory == <<line, stamp, granted, claims, late>>
disk == <<row, submitted, clock>>
server == <<up, restarts>>
vars == <<memory, busy, disk, server>>

EmptyLine == [t \in Trees |-> <<>>]
NoGrant == [t \in Trees |-> NoItem]

Ascending(s, at) == \A m, n \in DOMAIN s : m < n => at[s[m]] < at[s[n]]

TypeOK ==
    /\ line \in [Trees -> Seq(Items)]
    /\ stamp \in [Items -> Int]
    /\ granted \in [Trees -> Items \cup {NoItem}]
    /\ busy \subseteq Trees
    /\ claims \subseteq Items
    /\ late \subseteq Trees
    /\ row \in [Items -> Int \cup {NoRow}]
    /\ submitted \subseteq Items
    /\ clock \in Nat
    /\ up \in BOOLEAN
    /\ restarts \in 0..MaxRestarts

Init ==
    /\ line = EmptyLine
    /\ stamp = [i \in Items |-> 0]
    /\ granted = NoGrant
    /\ busy = {}
    /\ claims = {}
    /\ late = {}
    /\ row = [i \in Items |-> NoRow]
    /\ submitted = {}
    /\ clock = 0
    /\ up = TRUE
    /\ restarts = 0

-----------------------------------------------------------------------------
(* Occupancy and the pump.                                                  *)

\* Mutant: occupancy read from the grants alone.
HeldByGrantOnly(t) == granted[t] # NoItem

\* holderOf(key) # null: a session is mid-turn there, or a grant is out.
Held(t) == t \in busy \/ granted[t] # NoItem

\* depth(): the waiters of one tree fit its cap, and all of them the total.
Depth == Cardinality(UNION {ToSet(line[t]) : t \in Trees})

Full(t) == Len(line[t]) >= MaxPerKey \/ Depth >= MaxTotal

\* Mutant: the newest waiter first.
Pop(s, k) == [served |-> SubSeq(s, Len(s) - k + 1, Len(s)), rest |-> SubSeq(s, 1, Len(s) - k)]

\* list.shift(), k times.
Shift(s, k) == [served |-> SubSeq(s, 1, k), rest |-> SubSeq(s, k + 1, Len(s))]

\* What run() has done by the time it returns to the pump: it still holds the
\* grant ("holds"), it put a session mid-turn and released ("prompts"), or it
\* is over and released ("settles").  A release inside the pump only sets
\* pumpAgain, so the loop goes on to the next waiter of that tree.
Outcomes == {"holds", "prompts", "settles"}

\* pump() on lines l, grants g, mid-turn trees b, runs c holding their tree and
\* rows r on disk gives l2 .. r2: every free tree gives up the front of its
\* line, and the loop stops at the first item that leaves the tree held or at
\* the line's end.
Pumped(l, g, b, c, r, l2, g2, b2, c2, r2) ==
    LET free == {t \in Trees \ b : g[t] = NoItem /\ l[t] # <<>>}
    IN \E taken \in [free -> 1..MaxPerKey], out \in [free -> Outcomes] :
         LET Ends(o) == {t \in free : out[t] = o}
             Final(t) == Shift(l[t], taken[t]).served[taken[t]]
             Left(i) == \E t \in free : i \in ToSet(Shift(l[t], taken[t]).served)
         IN /\ \A t \in free : taken[t] <= Len(l[t])
            /\ \A t \in Ends("settles") : taken[t] = Len(l[t])
            /\ l2 = [t \in Trees |-> IF t \in free
                                     THEN Shift(l[t], taken[t]).rest
                                     ELSE l[t]]
            /\ g2 = [t \in Trees |-> IF t \in Ends("holds") THEN Final(t) ELSE g[t]]
            /\ b2 = b \cup Ends("prompts")
            /\ c2 = c \cup {Final(t) : t \in Ends("holds")}
            /\ r2 = [i \in Items |-> IF Left(i) THEN NoRow ELSE r[i]]

\* The pump a handler ends in.
Pump(l, g, b, c) ==
    /\ Pumped(l, g, b, c, row, line', granted', busy', claims', row')
    /\ late' = {}

-----------------------------------------------------------------------------
(* A producer asks for its tree.  The check and the claim (or the enqueue)  *)
(* are one synchronous stretch.                                             *)

Submit(i) ==
    /\ up
    /\ i \notin submitted
    /\ submitted' = submitted \cup {i}

\* tryAcquire, granted: the caller now starts its work.
TryAcquire(i) ==
    /\ Submit(i)
    /\ ~Held(TreeOf[i])
    /\ granted' = [granted EXCEPT ![TreeOf[i]] = i]
    /\ claims' = claims \cup {i}
    /\ UNCHANGED <<line, stamp, busy, late, row, clock, server>>

\* tryAcquire refused, then enqueue: the row is written, the item is pushed
\* and the line sorted by stamp.
Enqueue(i) ==
    /\ Submit(i)
    /\ Held(TreeOf[i])
    /\ ~Full(TreeOf[i])
    /\ clock' = clock + 1
    /\ stamp' = [stamp EXCEPT ![i] = clock']
    /\ row' = [row EXCEPT ![i] = clock']
    /\ \E s \in SetToSeqs(ToSet(line[TreeOf[i]]) \cup {i}) :
         /\ Ascending(s, stamp')
         /\ line' = [line EXCEPT ![TreeOf[i]] = s]
    /\ UNCHANGED <<granted, busy, claims, late, server>>

\* tryAcquire refused and enqueue false: a delivery is throttled, a prompt is
\* sent into the held tree rather than dropped.
Refuse(i) ==
    /\ Submit(i)
    /\ Held(TreeOf[i])
    /\ Full(TreeOf[i])
    /\ busy' \in {busy, busy \cup {TreeOf[i]}}
    /\ UNCHANGED <<memory, row, clock, server>>

-----------------------------------------------------------------------------
(* A run hands its tree back.                                               *)

\* Mutant: drop the grant without asking who holds it.
GiveBackWhoever(g, i) == [g EXCEPT ![TreeOf[i]] = NoItem]

\* The grants g once i has dropped the one it holds, if it holds one.
GiveBack(g, i) == [g EXCEPT ![TreeOf[i]] = IF @ = i THEN NoItem ELSE @]

\* started(): the run's session is prompted in the same stretch, so the tree
\* passes from the grant to the session.
Started(i) ==
    /\ up
    /\ i \in claims
    /\ claims' = claims \ {i}
    /\ granted' = GiveBack(granted, i)
    /\ busy' = busy \cup {TreeOf[i]}
    /\ UNCHANGED <<line, stamp, late, disk, server>>

\* started() for a run whose session lives in another tree than the one it
\* queued for.  started() does not pump: the waiters behind it are late.
StartedElsewhere(i) ==
    /\ up
    /\ i \in claims
    /\ claims' = claims \ {i}
    /\ granted' = GiveBack(granted, i)
    /\ late' = late \cup {TreeOf[i]}
    /\ UNCHANGED <<line, stamp, busy, disk, server>>

\* release(): drops the caller's own grant only, and pumps.  Producers may
\* call it late and more than once.
Release(i) ==
    /\ up
    /\ i \in submitted
    /\ Pump(line, GiveBack(granted, i), busy, claims \ {i})
    /\ UNCHANGED <<stamp, submitted, clock, server>>

-----------------------------------------------------------------------------
(* Sessions, which the queue only observes.                                 *)

\* Mutant: the end of a turn is not announced to the queue.
TurnEndsUnheard(t) ==
    /\ up
    /\ t \in busy
    /\ busy' = busy \ {t}
    /\ UNCHANGED <<memory, disk, server>>

\* The last session mid-turn in t ends its turn or dies; onTreeIdle pumps.
TurnEnds(t) ==
    /\ up
    /\ t \in busy
    /\ Pump(line, granted, busy \ {t}, claims)
    /\ UNCHANGED <<stamp, submitted, clock, server>>

\* A turn is over and nobody is told after it is: agy clears busy only once its
\* own queue has drained, behind the last turn_complete, and codex when a
\* turn/start is refused.
TurnEndsQuietly(t) ==
    /\ up
    /\ t \in busy
    /\ busy' = busy \ {t}
    /\ late' = late \cup {t}
    /\ UNCHANGED <<line, stamp, granted, claims, disk, server>>

\* Work that never asks the queue starts a turn in t (a cron run, a planner
\* instruction, a delivery whose directory policy is "allow").
OutsideTurn(t) ==
    /\ up
    /\ t \notin busy
    /\ busy' = busy \cup {t}
    /\ UNCHANGED <<memory, disk, server>>

\* Mutant: the sweep prunes rows but never pumps.
SweepWithoutPump == up /\ UNCHANGED vars

\* The 30 s sweep, the backstop for a tree freed without a pump.
Sweep ==
    /\ up
    /\ Pump(line, granted, busy, claims)
    /\ UNCHANGED <<stamp, submitted, clock, server>>

-----------------------------------------------------------------------------
(* A human edits the line.                                                  *)

\* Mutant: a removed item's row gets the wrong empty value.
DropToNoItem(i) ==
    /\ up
    /\ \E k \in DOMAIN line[TreeOf[i]] :
         /\ line[TreeOf[i]][k] = i
         /\ line' = [line EXCEPT ![TreeOf[i]] = RemoveAt(@, k)]
    /\ row' = [row EXCEPT ![i] = NoItem]
    /\ UNCHANGED <<stamp, granted, claims, late, submitted, clock, server>>

\* findIndex and splice: i leaves its line.
Drop(i) ==
    /\ up
    /\ \E k \in DOMAIN line[TreeOf[i]] :
         /\ line[TreeOf[i]][k] = i
         /\ line' = [line EXCEPT ![TreeOf[i]] = RemoveAt(@, k)]
    /\ row' = [row EXCEPT ![i] = NoRow]
    /\ UNCHANGED <<stamp, granted, claims, late, submitted, clock, server>>

\* cancel(): the producer discards the item's row.
Cancel(i) == Drop(i) /\ UNCHANGED busy

\* forget(): the human sends the prompt now, whoever holds the tree; the
\* session may be gone, and then nothing starts.
Forget(i) == Drop(i) /\ busy' \in {busy, busy \cup {TreeOf[i]}}

\* Mutant: the new order is kept in memory only.
MoveToFrontInMemory(i) ==
    \E k \in DOMAIN line[TreeOf[i]] :
      LET rest == RemoveAt(line[TreeOf[i]], k)
          moved == IF rest = <<>> THEN stamp[i] ELSE stamp[Head(rest)] - 1
      IN /\ up
         /\ line[TreeOf[i]][k] = i
         /\ moved >= MinStamp
         /\ line' = [line EXCEPT ![TreeOf[i]] = <<i>> \o rest]
         /\ stamp' = [stamp EXCEPT ![i] = moved]
         /\ UNCHANGED <<granted, busy, claims, late, disk, server>>

\* moveToFront(): the stamp moves below the new head's, and is persisted.
MoveToFront(i) ==
    \E k \in DOMAIN line[TreeOf[i]] :
      LET rest == RemoveAt(line[TreeOf[i]], k)
          moved == IF rest = <<>> THEN stamp[i] ELSE stamp[Head(rest)] - 1
      IN /\ up
         /\ line[TreeOf[i]][k] = i
         /\ moved >= MinStamp
         /\ line' = [line EXCEPT ![TreeOf[i]] = <<i>> \o rest]
         /\ stamp' = [stamp EXCEPT ![i] = moved]
         /\ row' = [row EXCEPT ![i] = IF @ = NoRow THEN NoRow ELSE moved]
         /\ UNCHANGED <<granted, busy, claims, late, submitted, clock, server>>

\* The delivery list is cleared while an item waits: its row goes, the waiter
\* stays and will be over as soon as it is granted.
LoseRow(i) ==
    /\ up
    /\ row[i] # NoRow
    /\ row' = [row EXCEPT ![i] = NoRow]
    /\ UNCHANGED <<memory, busy, submitted, clock, server>>

-----------------------------------------------------------------------------
(* The process goes down (clear() on a stop, or a crash) and boots again.   *)

GoDown ==
    /\ up
    /\ restarts < MaxRestarts
    /\ up' = FALSE
    /\ restarts' = restarts + 1
    /\ line' = EmptyLine
    /\ granted' = NoGrant
    /\ busy' = {}
    /\ claims' = {}
    /\ late' = {}
    /\ UNCHANGED <<stamp, disk>>

\* init(): adopt the persisted rows, sort every line, pump.
Boot ==
    /\ ~up
    /\ up' = TRUE
    /\ stamp' = [i \in Items |-> IF row[i] = NoRow THEN stamp[i] ELSE row[i]]
    /\ \E l \in [Trees -> UNION {SetToSeqs(S) : S \in SUBSET {i \in Items : row[i] # NoRow}}] :
         /\ \A t \in Trees :
              /\ ToSet(l[t]) = {i \in Items : row[i] # NoRow /\ TreeOf[i] = t}
              /\ Ascending(l[t], row)
         /\ Pump(l, granted, busy, claims)
    /\ UNCHANGED <<submitted, clock, restarts>>

-----------------------------------------------------------------------------
ItemStep(i) ==
    \/ TryAcquire(i)
    \/ Enqueue(i)
    \/ Refuse(i)
    \/ Started(i)
    \/ StartedElsewhere(i)
    \/ Release(i)
    \/ Cancel(i)
    \/ Forget(i)
    \/ MoveToFront(i)
    \/ LoseRow(i)

Next ==
    \/ \E i \in Items : ItemStep(i)
    \/ \E t \in Trees : TurnEnds(t) \/ TurnEndsQuietly(t) \/ OutsideTurn(t)
    \/ Sweep
    \/ GoDown
    \/ Boot

Spec == Init /\ [][Next]_vars

\* Agents finish their turns, a claimed run starts its session or settles, and
\* a server that went down is started again.  The sweep timer fires, and work
\* that never asks the queue does not refill a free tree just before it every
\* time: nothing in the code would stop that.
Fairness ==
    /\ \A t \in Trees : WF_vars(TurnEnds(t) \/ TurnEndsQuietly(t))
    /\ \A i \in Items : WF_vars(i \in claims /\ (Started(i) \/ Release(i)))
    /\ \A t \in Trees : SF_vars(t \in late /\ ~Held(t) /\ Sweep)
    /\ WF_vars(Boot)

FairSpec == Spec /\ Fairness

-----------------------------------------------------------------------------
(* Properties.                                                              *)

\* A waiter stands behind a free tree only where the tree came free without a
\* pump, the window the sweep is there for (queue.ts:21-26, the sweep's comment
\* in webhooks/index.ts:600-603): every other path that frees a tree must pump.
NoStrandedWaiter ==
    \A t \in Trees : up /\ line[t] # <<>> => Held(t) \/ t \in late

\* A run that holds its tree is the one the queue has on record, so no late or
\* repeated release by another run has evicted it (release, queue.ts:216-229).
ClaimIsExclusive ==
    \A i \in claims : granted[TreeOf[i]] = i

\* Conversely no grant outlives the run it was made for: the tree would stay
\* closed with nobody left to open it (started, queue.ts:197-214).
NoOrphanGrant ==
    \A t \in Trees : granted[t] # NoItem => granted[t] \in claims /\ TreeOf[granted[t]] = t

\* Grants and the runs that hold a tree match, in both directions: nobody is
\* evicted by another's late release, and no tree stays closed behind a run
\* that is over (started and release, queue.ts:197-229).
GrantsMatchRuns == ClaimIsExclusive /\ NoOrphanGrant

\* A persisted waiter is in its line under the stamp on disk, and the line is
\* ordered by stamp: a restart adopts the order the humans last saw, moves to
\* the front included (moveToFront, queue.ts:281-288; resolveQueued).
DiskAgreesWithLine ==
    up => /\ \A i \in Items : row[i] # NoRow =>
                i \in ToSet(line[TreeOf[i]]) /\ row[i] = stamp[i]
          /\ \A t \in Trees : Ascending(line[t], stamp)

\* First come, first served: an item granted while an earlier one of its line
\* keeps waiting would have overtaken it.  Only a human's cancel or override
\* takes an item out of the middle.
FirstComeFirstServed ==
    [][\A t \in Trees : \A m, n \in DOMAIN line[t] :
         m < n /\ line[t][m] \in ToSet(line'[t]) => line[t][n] \notin claims']_vars

\* No timeout anywhere (queue.ts:27-31): a tree passes to another run only in a
\* step where the run holding it gave it back or the server went down, and is
\* granted only when no session is mid-turn there.
GrantOnlyFree ==
    [][\A t \in Trees : granted'[t] \notin {granted[t], NoItem} =>
         t \notin busy' /\ granted[t] \notin claims']_vars

\* Both at once: a grant is neither early nor out of turn (pump, queue.ts:292-330).
GrantsInTurn == FirstComeFirstServed /\ GrantOnlyFree

\* Late but never stuck: whatever is queued leaves the queue, across restarts,
\* as long as the runs and turns ahead of it end.
EventuallyLeavesLine ==
    \A i \in Items : row[i] # NoRow ~> row[i] = NoRow
=============================================================================
