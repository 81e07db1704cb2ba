---------------------------- MODULE DirectoryGate ----------------------------
(***************************************************************************)
(* One working tree and everybody who wants to work in it: people prompting *)
(* chats (sessions/prompt-queue.ts), webhook deliveries (webhooks/index.ts), *)
(* work that asks nobody, the sessions themselves and their mid-turn flags  *)
(* (sessions/manager.ts), and the directory queue between them.             *)
(*                                                                         *)
(* RunQueue leaves open what a granted item does; here it is decided by the *)
(* state of its session.  Trees meet in the total cap only, which RunQueue  *)
(* has; so has it the reordering of waiters.  A handler and the pump it     *)
(* ends in are one action.                                                  *)
(***************************************************************************)
EXTENDS Integers, SequencesExt

CONSTANTS
    Sessions,       \* structured sessions in the tree
    Draining,       \* those that stay busy until their own queue is empty (agy)
    Prompts,        \* messages people type, each once
    SessionOf,      \* the chat each is typed into
    Deliveries,     \* webhook deliveries, each once
    MaxPerKey,      \* RunQueueOptions.maxPerKey
    NoItem,         \* no grant on the tree
    NoRow,          \* RunQueue's mark for an item without a row
    Tree,           \* RunQueue's name for the tree
    MaxOutside,     \* bound: turns started without asking
    MaxRestarts     \* bound: how often the server goes down

Items == Prompts \cup Deliveries

ASSUME DrainingType == Draining \subseteq Sessions
ASSUME SessionOfType == SessionOf \in [Prompts -> Sessions]
ASSUME ItemsApart == Prompts \cap Deliveries = {} /\ NoItem \notin Items /\ IsFiniteSet(Items)
ASSUME CapPositive == MaxPerKey \in Nat \ {0}
ASSUME NoRowOutside == NoRow \notin Int
ASSUME BoundsNat == MaxOutside \in Nat /\ MaxRestarts \in Nat

VARIABLES
    sess,       \* sessions: "none", "live", "dead"
    inbox,      \* turns a session has accepted and not finished
    busy,       \* sessions that are mid-turn by isMidTurn
    beside,     \* sessions mid-turn that were put to work in a tree that others held
    line,       \* the waiters, oldest first
    granted,    \* the item holding the tree's grant
    starting,   \* deliveries between their grant and their session
    late,       \* the tree came free in a step that ran no pump
    fate,       \* prompts: "none", "waiting", "sent", "cancelled", "dropped"
    saved,      \* items with a queued row on disk
    at,         \* the stamp of a queued item
    asked,      \* items the queue has been asked about
    clock, up, outside, restarts

work == <<sess, inbox, busy, beside>>
queue == <<line, granted, starting, late>>
disk == <<saved, at, asked, clock>>
vars == <<work, queue, fate, disk, up, outside, restarts>>

TypeOK ==
    /\ sess \in [Sessions -> {"none", "live", "dead"}]
    /\ inbox \in [Sessions -> Nat]
    /\ \A s \in Sessions : inbox[s] > 0 => sess[s] = "live"
    /\ busy \subseteq {s \in Sessions : sess[s] = "live"}
    /\ beside \subseteq Sessions
    /\ line \in Seq(Items)
    /\ granted \in Items \cup {NoItem}
    /\ starting \subseteq Deliveries
    /\ late \in BOOLEAN
    /\ fate \in [Prompts -> {"none", "waiting", "sent", "cancelled", "dropped"}]
    /\ saved \subseteq asked
    /\ at \in [Items -> Nat]
    /\ asked \subseteq Items
    /\ clock \in Nat
    /\ up \in BOOLEAN
    /\ outside \in 0..MaxOutside
    /\ restarts \in 0..MaxRestarts

Init ==
    /\ sess = [s \in Sessions |-> "none"]
    /\ inbox = [s \in Sessions |-> 0]
    /\ busy = {} /\ beside = {}
    /\ line = <<>> /\ granted = NoItem /\ starting = {} /\ late = FALSE
    /\ fate = [p \in Prompts |-> "none"]
    /\ saved = {} /\ at = [i \in Items |-> 0] /\ asked = {} /\ clock = 0
    /\ up = TRUE /\ outside = 0 /\ restarts = 0

Live == {s \in Sessions : sess[s] = "live"}

-----------------------------------------------------------------------------
(* The pump.                                                                *)

\* Held: a session is mid-turn, or a grant is out.
Held(g, b) == b # {} \/ g # NoItem

\* Mutant: the tree stays claimed by a prompt whose chat is gone.
GrantKept(i) == i

\* release(): an item that is over, or has put its session mid-turn, gives up
\* the grant.
Freed(i) == NoItem

\* Items whose run() may be over at once: a prompt whose chat is gone, and any
\* delivery (its webhook or row may be gone, its start may fail).
OverAtOnce(live) == {p \in Prompts : SessionOf[p] \notin live} \cup Deliveries

\* pump() on line l, grant g, starting deliveries c, sessions live of which b
\* are mid-turn with the turns q, and fates f.  It goes through the line until
\* one item holds the tree: a delivery that begins to start (a follow-up goes
\* straight into a live session), or a prompt delivered to its session.
Pump(l, g, c, live, b, q, f) ==
    /\ late' = FALSE
    /\ \/ /\ Held(g, b) \/ l = <<>>
          /\ line' = l /\ granted' = g /\ starting' = c /\ busy' = b /\ inbox' = q
          /\ fate' = f
          /\ UNCHANGED saved
       \/ /\ ~Held(g, b)
          /\ \E k \in DOMAIN l :
               LET taken == {l[n] : n \in 1..k}
                   i == l[k]
               IN /\ {l[n] : n \in 1..(k - 1)} \subseteq OverAtOnce(live)
                  /\ line' = SubSeq(l, k + 1, Len(l))
                  /\ saved' = saved \ taken
                  /\ fate' = [p \in Prompts |->
                                IF p \notin taken THEN f[p]
                                ELSE IF SessionOf[p] \in live THEN "sent" ELSE "dropped"]
                  /\ \/ /\ i \in Deliveries \cap saved
                        /\ granted' = i
                        /\ starting' = c \cup {i}
                        /\ busy' = b /\ inbox' = q
                     \/ \E s \in live :
                          /\ i \in saved
                          /\ i \in Prompts => s = SessionOf[i]
                          /\ granted' = Freed(i) /\ starting' = c
                          /\ busy' = b \cup {s}
                          /\ inbox' = [q EXCEPT ![s] = @ + 1]
                     \/ /\ i \in OverAtOnce(live) /\ k = Len(l)
                        /\ granted' = Freed(i) /\ starting' = c
                        /\ busy' = b /\ inbox' = q

-----------------------------------------------------------------------------
(* Asking for the tree.                                                     *)

Ask(i) ==
    /\ up
    /\ i \notin asked
    /\ asked' = asked \cup {i}

\* enqueue: the row first, then the end of the line.
Park(i) ==
    /\ Len(line) < MaxPerKey
    /\ clock' = clock + 1
    /\ at' = [at EXCEPT ![i] = clock']
    /\ saved' = saved \cup {i}
    /\ line' = Append(line, i)

\* prompt(): s has one more turn to do and is mid-turn.
PutToWork(s) ==
    /\ inbox' = [inbox EXCEPT ![s] = @ + 1]
    /\ busy' = busy \cup {s}

\* The same without regard to the tree, which another session or a grant may
\* have.
PutBeside(s) ==
    /\ PutToWork(s)
    /\ beside' = IF Held(granted, busy \ {s}) THEN beside \cup {s} ELSE beside

\* Mutant: only turns are looked at, not the grant.
BlockedByTurnOnly(s) == busy \ {s} # {}

\* isBlockedByOther: another session is mid-turn, or a grant is out.
Blocked(s) == busy \ {s} # {} \/ granted # NoItem

\* submit() answers { queued: false }: the prompt goes in as usual, behind the
\* session's own turn if it has one.
SendNow(p) ==
    /\ up
    /\ fate[p] = "none"
    /\ SessionOf[p] \in Live
    /\ ~Blocked(SessionOf[p])
    /\ fate' = [fate EXCEPT ![p] = "sent"]
    /\ PutToWork(SessionOf[p])
    /\ UNCHANGED <<sess, beside, queue, disk, up, outside, restarts>>

\* submit() parks it.
QueuePrompt(p) ==
    /\ fate[p] = "none"
    /\ SessionOf[p] \in Live
    /\ Blocked(SessionOf[p])
    /\ Ask(p)
    /\ Park(p)
    /\ fate' = [fate EXCEPT ![p] = "waiting"]
    /\ UNCHANGED <<work, granted, starting, late, up, outside, restarts>>

\* submit() on a full queue sends it rather than drop it.
SendPastFull(p) ==
    /\ fate[p] = "none"
    /\ SessionOf[p] \in Live
    /\ Blocked(SessionOf[p])
    /\ Len(line) >= MaxPerKey
    /\ Ask(p)
    /\ fate' = [fate EXCEPT ![p] = "sent"]
    /\ PutBeside(SessionOf[p])
    /\ UNCHANGED <<sess, queue, saved, at, clock, up, outside, restarts>>

\* dispatch: tryAcquire grants the tree and the start begins.
Acquire(d) ==
    /\ Ask(d)
    /\ ~Held(granted, busy)
    /\ granted' = d
    /\ starting' = starting \cup {d}
    /\ UNCHANGED <<work, line, late, fate, saved, at, clock, up, outside, restarts>>

\* parkDelivery.
QueueDelivery(d) ==
    /\ Held(granted, busy)
    /\ Ask(d)
    /\ Park(d)
    /\ UNCHANGED <<work, granted, starting, late, fate, up, outside, restarts>>

\* parkDelivery on a full queue: throttled.
Throttle(d) ==
    /\ Held(granted, busy)
    /\ Len(line) >= MaxPerKey
    /\ Ask(d)
    /\ UNCHANGED <<work, queue, fate, saved, at, clock, up, outside, restarts>>

-----------------------------------------------------------------------------
(* Starting what was granted.                                               *)

GrantAfter(d) == IF granted = d THEN NoItem ELSE granted

\* Mutant: the grant is not handed over to the session.
StartedKeepingGrant(d, s) ==
    /\ up
    /\ d \in starting
    /\ sess[s] \in {"none", "live"}
    /\ starting' = starting \ {d}
    /\ sess' = [sess EXCEPT ![s] = "live"]
    /\ inbox' = [inbox EXCEPT ![s] = @ + 1]
    /\ busy' = busy \cup {s}
    /\ UNCHANGED <<beside, granted, line, late, fate, disk, up, outside, restarts>>

\* create() resolves with a new session, or a live one of the same issue takes
\* the follow-up: started() and the prompt are one stretch.
Started(d, s) ==
    /\ up
    /\ d \in starting
    /\ sess[s] \in {"none", "live"}
    /\ starting' = starting \ {d}
    /\ granted' = GrantAfter(d)
    /\ sess' = [sess EXCEPT ![s] = "live"]
    /\ inbox' = [inbox EXCEPT ![s] = @ + 1]
    /\ busy' = busy \cup {s}
    /\ UNCHANGED <<beside, line, late, fate, disk, up, outside, restarts>>

\* The start fails: the delivery is settled and its tree released.
StartFails(d) ==
    /\ up
    /\ d \in starting
    /\ Pump(line, GrantAfter(d), starting \ {d}, Live, busy, inbox, fate)
    /\ UNCHANGED <<sess, beside, at, asked, clock, up, outside, restarts>>

\* A person opens a chat in the tree.
OpenChat(s) ==
    /\ up
    /\ sess[s] = "none"
    /\ sess' = [sess EXCEPT ![s] = "live"]
    /\ UNCHANGED <<inbox, busy, beside, queue, fate, disk, up, outside, restarts>>

\* A cron run, a planner instruction, an "allow" delivery.
OutsideTurn(s) ==
    /\ up
    /\ s \in Live
    /\ outside < MaxOutside
    /\ outside' = outside + 1
    /\ PutBeside(s)
    /\ UNCHANGED <<sess, queue, fate, disk, up, restarts>>

-----------------------------------------------------------------------------
(* Sessions.                                                                *)

\* turn_complete: most agents clear busy at each one, whatever else they were
\* given meanwhile; draining ones not yet.
TurnComplete(s) ==
    /\ up
    /\ inbox[s] > 0
    /\ Pump(line, granted, starting, Live, IF s \in Draining THEN busy ELSE busy \ {s},
            [inbox EXCEPT ![s] = @ - 1], fate)
    /\ beside' = beside \cap busy'
    /\ UNCHANGED <<sess, at, asked, clock, up, outside, restarts>>

\* busy is cleared and nobody is told: a draining session has nothing left to
\* do, or another one was refused its turn.
Quieten(s) ==
    /\ up
    /\ s \in busy
    /\ busy' = busy \ {s}
    /\ IF s \in Draining THEN inbox[s] = 0 /\ UNCHANGED inbox
       ELSE inbox[s] > 0 /\ inbox' = [inbox EXCEPT ![s] = @ - 1]
    /\ beside' = beside \cap busy'
    /\ late' = (late \/ busy' = {})
    /\ UNCHANGED <<sess, line, granted, starting, fate, disk, up, outside, restarts>>

\* Mutant: isMidTurn does not ask whether the session still runs.
EndStillBusy(s) ==
    /\ up
    /\ s \in Live
    /\ sess' = [sess EXCEPT ![s] = "dead"]
    /\ Pump(line, granted, starting, Live \ {s}, busy, [inbox EXCEPT ![s] = 0], fate)
    /\ beside' = beside \cap busy'
    /\ UNCHANGED <<at, asked, clock, up, outside, restarts>>

\* exit, or the status change of a kill.
End(s) ==
    /\ up
    /\ s \in Live
    /\ sess' = [sess EXCEPT ![s] = "dead"]
    /\ Pump(line, granted, starting, Live \ {s}, busy \ {s}, [inbox EXCEPT ![s] = 0], fate)
    /\ beside' = beside \cap busy'
    /\ UNCHANGED <<at, asked, clock, up, outside, restarts>>

\* The 30 s sweep.
Sweep ==
    /\ up
    /\ Pump(line, granted, starting, Live, busy, inbox, fate)
    /\ UNCHANGED <<sess, beside, at, asked, clock, up, outside, restarts>>

-----------------------------------------------------------------------------
(* A person decides about a waiter.                                         *)

TakeOut(i) ==
    /\ up
    /\ \E k \in DOMAIN line : line[k] = i /\ line' = RemoveAt(line, k)

\* resolve(cancel) and the cancelling of a queued delivery.
Cancel(i) ==
    /\ TakeOut(i)
    /\ saved' = saved \ {i}
    /\ fate' = [p \in Prompts |-> IF p = i THEN "cancelled" ELSE fate[p]]
    /\ UNCHANGED <<work, granted, starting, late, at, asked, clock, up, outside, restarts>>

\* Mutant: forget() without deleteQueuedPrompt.
ForceKeepingRow(p) ==
    /\ TakeOut(p)
    /\ SessionOf[p] \in Live
    /\ fate' = [fate EXCEPT ![p] = "sent"]
    /\ PutBeside(SessionOf[p])
    /\ UNCHANGED <<sess, granted, starting, late, disk, up, outside, restarts>>

\* resolve(force): out of the queue, off the disk, and sent, if its chat lives.
ForcePrompt(p) ==
    /\ TakeOut(p)
    /\ saved' = saved \ {p}
    /\ IF SessionOf[p] \in Live
       THEN /\ fate' = [fate EXCEPT ![p] = "sent"]
            /\ PutBeside(SessionOf[p])
       ELSE /\ fate' = [fate EXCEPT ![p] = "dropped"]
            /\ UNCHANGED <<inbox, busy, beside>>
    /\ UNCHANGED <<sess, granted, starting, late, at, asked, clock, up, outside, restarts>>

\* The delivery list is cleared; the waiter stays in memory.
ClearRow(d) ==
    /\ up
    /\ d \in saved
    /\ saved' = saved \ {d}
    /\ UNCHANGED <<work, queue, fate, at, asked, clock, up, outside, restarts>>

-----------------------------------------------------------------------------
(* Down and up again.                                                       *)

GoDown ==
    /\ up
    /\ restarts < MaxRestarts
    /\ restarts' = restarts + 1
    /\ up' = FALSE
    /\ sess' = [s \in Sessions |-> IF sess[s] = "none" THEN "none" ELSE "dead"]
    /\ inbox' = [s \in Sessions |-> 0]
    /\ busy' = {} /\ beside' = {}
    /\ line' = <<>> /\ granted' = NoItem /\ starting' = {} /\ late' = FALSE
    /\ UNCHANGED <<fate, disk, outside>>

\* The rows on disk, by stamp.
Adopted == {l \in SetToSeqs(saved) : \A m, n \in DOMAIN l : m < n => at[l[m]] < at[l[n]]}

\* RunQueue.init adopts them and pumps.  Structured sessions are not recovered,
\* so every adopted prompt finds its chat gone.
Boot ==
    /\ ~up
    /\ up' = TRUE
    /\ \E l \in Adopted : Pump(l, granted, starting, Live, busy, inbox, fate)
    /\ UNCHANGED <<sess, beside, at, asked, clock, outside, restarts>>

-----------------------------------------------------------------------------
Next ==
    \/ \E p \in Prompts : SendNow(p) \/ QueuePrompt(p) \/ SendPastFull(p) \/ ForcePrompt(p)
    \/ \E d \in Deliveries : Acquire(d) \/ QueueDelivery(d) \/ Throttle(d) \/ StartFails(d) \/ ClearRow(d)
    \/ \E d \in Deliveries, s \in Sessions : Started(d, s)
    \/ \E i \in Items : Cancel(i)
    \/ \E s \in Sessions : OpenChat(s) \/ OutsideTurn(s) \/ TurnComplete(s) \/ Quieten(s) \/ End(s)
    \/ Sweep
    \/ GoDown
    \/ Boot

Spec == Init /\ [][Next]_vars

\* Agents finish their turns, starts return, the sweep timer fires and a server
\* that went down is started again.
Fairness ==
    /\ \A s \in Sessions : WF_vars(TurnComplete(s)) /\ WF_vars(s \in Draining /\ Quieten(s))
    /\ \A d \in Deliveries : WF_vars(StartFails(d) \/ \E s \in Sessions : Started(d, s))
    /\ SF_vars(late /\ ~Held(granted, busy) /\ Sweep)
    /\ WF_vars(Boot)

FairSpec == Spec /\ Fairness

-----------------------------------------------------------------------------
(* Properties.                                                              *)

\* queue.ts:4-11: no two sessions are mid-turn in one tree, except where one of
\* them was put to work beside the other by a person's override, past a full
\* queue, or by work that never asks.  Prompts, deliveries still starting,
\* follow-ups, kills and restarts together keep to it.
OneBusySession ==
    \A s, o \in busy : s = o \/ s \in beside \/ o \in beside

\* prompt-queue.ts:21-24, never silent: a prompt its client believes to be
\* waiting has its row, and its place in line while the server is up; one that
\* was sent or cancelled has neither, so no restart sends it again.
WaitingIsQueued ==
    \A p \in Prompts :
        /\ fate[p] = "waiting" <=> p \in saved
        /\ up => (p \in saved <=> p \in ToSet(line))

\* A waiting prompt is sent, cancelled or reported gone in the end, whatever is
\* ahead of it in the line and whatever dies there, as long as turns end.
EveryPromptReleased ==
    \A p \in Prompts : fate[p] = "waiting" ~> fate[p] # "waiting"

\* The producers and sessions together keep to the queue's contract: RunQueue,
\* with everything it says of claims, order and late trees.
Contract == INSTANCE RunQueue WITH
    Trees <- {Tree},
    TreeOf <- [i \in Items |-> Tree],
    MaxTotal <- MaxPerKey,
    MinStamp <- 0,
    line <- [t \in {Tree} |-> line],
    stamp <- at,
    granted <- [t \in {Tree} |-> granted],
    busy <- {t \in {Tree} : busy # {}},
    claims <- starting,
    late <- {t \in {Tree} : late},
    row <- [i \in Items |-> IF i \in saved THEN at[i] ELSE NoRow],
    submitted <- asked

KeepsContract == Contract!Spec

\* prompt-queue.ts:25: "The row outlives the process, so a restart re-queues it
\* rather than eating it."
RestartKeepsPrompts ==
    [][~up /\ up' => \A p \in Prompts : fate[p] = "waiting" => fate'[p] # "dropped"]_vars

\* queue.ts:6: "Two agents editing one checkout at the same time corrupt each
\* other": OneBusySession of the turns sessions really have to do.
OneWorkingSession ==
    \A s, o \in Sessions :
        inbox[s] > 0 /\ inbox[o] > 0 => s = o \/ s \in beside \/ o \in beside
=============================================================================
