----------------------------- MODULE RunExecutor -----------------------------
(***************************************************************************)
(* The unattended runs of cron jobs and webhooks, runs/executor.ts: prepare *)
(* a directory, create a session, watch it, prompt it, and record how the   *)
(* run ended in its row, through the sink of the service that started it.   *)
(*                                                                         *)
(* Everything between two awaits is one action.  Preparing covers resolving *)
(* the path and making a worktree, creating the awaited sessions.create().  *)
(* Sessions are modelled by what the executor sees of them: the prompts they *)
(* accepted in order, turn_complete, exit, and a kill that emits neither.   *)
(***************************************************************************)
EXTENDS Integers, SequencesExt

CONSTANTS
    Runs,           \* run ids; each is started at most once
    Sessions,       \* session ids
    NoSession,      \* a run's row without a session
    Human,          \* a prompt that belongs to no run
    Deliveries,     \* the runs that are webhook deliveries; the others are cron's
    Policies,       \* directory policies in use, per webhook and per delivery:
                    \* "queue": a follow-up waits for its tree; "allow": it does not
    MaxHuman,       \* bound: prompts typed by people
    MaxRestarts     \* bound: how often the server goes down

ASSUME RunsFinite == IsFiniteSet(Runs) /\ IsFiniteSet(Sessions)
ASSUME NoneOutside == NoSession \notin Sessions /\ Human \notin Runs
ASSUME DeliveriesType == Deliveries \subseteq Runs
ASSUME PoliciesType == Policies \subseteq {"queue", "allow"}
ASSUME BoundsNat == MaxHuman \in Nat /\ MaxRestarts \in Nat

VARIABLES
    phase,      \* how far start() has come: "none", "preparing", "creating", "over"
    row,        \* the persisted outcome: "none", "open", "succeeded", "failed"
    sessionOf,  \* the persisted session_id
    inFlight,   \* runs abandonAll would settle
    watching,   \* per session, the runs whose listeners are attached to it
    sess,       \* sessions: "none", "live", "dead"
    turns,      \* prompts a session accepted and has not finished, oldest first
    busy,       \* live sessions whose busySince is set
    answered,   \* runs whose own turn completed
    calls,      \* onSettled calls per run, counted up to 2
    server,     \* "up", "stopping", "down"
    humans, restarts

rows == <<phase, row, sessionOf, inFlight, calls>>
agents == <<watching, sess, turns, busy, answered>>
vars == <<rows, agents, server, humans, restarts>>

TypeOK ==
    /\ phase \in [Runs -> {"none", "preparing", "creating", "over"}]
    /\ row \in [Runs -> {"none", "open", "succeeded", "failed"}]
    /\ sessionOf \in [Runs -> Sessions \cup {NoSession}]
    /\ inFlight \subseteq Runs
    /\ watching \in [Sessions -> SUBSET Runs]
    /\ sess \in [Sessions -> {"none", "live", "dead"}]
    /\ turns \in [Sessions -> Seq(Runs \cup {Human})]
    /\ \A s \in Sessions : sess[s] # "live" => turns[s] = <<>>
    /\ busy \subseteq {s \in Sessions : sess[s] = "live"}
    /\ answered \subseteq Runs
    /\ calls \in [Runs -> 0..2]
    /\ server \in {"up", "stopping", "down"}
    /\ humans \in 0..MaxHuman
    /\ restarts \in 0..MaxRestarts

Init ==
    /\ phase = [r \in Runs |-> "none"]
    /\ row = [r \in Runs |-> "none"]
    /\ sessionOf = [r \in Runs |-> NoSession]
    /\ inFlight = {}
    /\ watching = [s \in Sessions |-> {}]
    /\ sess = [s \in Sessions |-> "none"]
    /\ turns = [s \in Sessions |-> <<>>]
    /\ busy = {}
    /\ answered = {}
    /\ calls = [r \in Runs |-> 0]
    /\ server = "up"
    /\ humans = 0
    /\ restarts = 0

-----------------------------------------------------------------------------
(* Settling.                                                                *)

\* The rows once the runs of S have been settled with this outcome.
Closed(S, outcome) == [r \in Runs |-> IF r \in S THEN outcome ELSE row[r]]

\* sink.onSettled for every run of S.
Reported(S) == [r \in Runs |-> IF r \in S /\ calls[r] < 2 THEN calls[r] + 1 ELSE calls[r]]

\* fail(), and the catch around run(): settleNow before any session is watched.
Fail(r) ==
    /\ server # "down"
    /\ phase[r] \in {"preparing", "creating"}
    /\ phase' = [phase EXCEPT ![r] = "over"]
    /\ row' = Closed({r}, "failed")
    /\ calls' = Reported({r})
    /\ inFlight' = inFlight \ {r}
    /\ UNCHANGED <<sessionOf, agents, server, humans, restarts>>

-----------------------------------------------------------------------------
(* start().                                                                 *)

\* The service inserts the row and calls start().
Begin(r) ==
    /\ server = "up"
    /\ phase[r] = "none"
    /\ phase' = [phase EXCEPT ![r] = "preparing"]
    /\ row' = [row EXCEPT ![r] = "open"]
    /\ UNCHANGED <<sessionOf, inFlight, calls, agents, server, humans, restarts>>

\* The directory is resolved and the worktree made.
Prepare(r) ==
    /\ server # "down"
    /\ phase[r] = "preparing"
    /\ phase' = [phase EXCEPT ![r] = "creating"]
    /\ UNCHANGED <<row, sessionOf, inFlight, calls, agents, server, humans, restarts>>

\* Mutant: prompt without watching first.
CreatedUnwatched(r, s) ==
    /\ server # "down"
    /\ phase[r] = "creating"
    /\ sess[s] = "none"
    /\ phase' = [phase EXCEPT ![r] = "over"]
    /\ sessionOf' = [sessionOf EXCEPT ![r] = s]
    /\ sess' = [sess EXCEPT ![s] = "live"]
    /\ turns' = [turns EXCEPT ![s] = <<r>>]
    /\ busy' = busy \cup {s}
    /\ UNCHANGED <<row, calls, inFlight, watching, answered, server, humans, restarts>>

\* create() resolves: onSessionStarted, watch, prompt.
Created(r, s) ==
    /\ server # "down"
    /\ phase[r] = "creating"
    /\ sess[s] = "none"
    /\ phase' = [phase EXCEPT ![r] = "over"]
    /\ sessionOf' = [sessionOf EXCEPT ![r] = s]
    /\ inFlight' = inFlight \cup {r}
    /\ watching' = [watching EXCEPT ![s] = {r}]
    /\ sess' = [sess EXCEPT ![s] = "live"]
    /\ turns' = [turns EXCEPT ![s] = <<r>>]
    /\ busy' = busy \cup {s}
    /\ UNCHANGED <<row, calls, answered, server, humans, restarts>>

\* create() resolves with a session that has already ended: prompt() returns
\* false and the run fails.  Its listeners stay on the dead session.
CreatedDead(r, s) ==
    /\ server # "down"
    /\ phase[r] = "creating"
    /\ sess[s] = "none"
    /\ phase' = [phase EXCEPT ![r] = "over"]
    /\ sessionOf' = [sessionOf EXCEPT ![r] = s]
    /\ watching' = [watching EXCEPT ![s] = {r}]
    /\ sess' = [sess EXCEPT ![s] = "dead"]
    /\ row' = Closed({r}, "failed")
    /\ calls' = Reported({r})
    /\ UNCHANGED <<inFlight, turns, busy, answered, server, humans, restarts>>

-----------------------------------------------------------------------------
(* followUp() and other prompts into a live session.                        *)

\* May a delivery for the conversation of s be prompted now?  The check of the
\* live session and the prompt are one stretch, so the prompt is accepted.
MayFollowUp(r, s) ==
    /\ server = "up"
    /\ r \in Deliveries
    /\ phase[r] = "none"
    /\ sess[s] = "live"

\* Under "queue" nothing else may be mid-turn in the tree of s; sessions other
\* than s are RunQueue's business.
FollowUp(r, s) ==
    /\ MayFollowUp(r, s)
    /\ "allow" \in Policies \/ ("queue" \in Policies /\ s \notin busy)
    /\ phase' = [phase EXCEPT ![r] = "over"]
    /\ row' = [row EXCEPT ![r] = "open"]
    /\ sessionOf' = [sessionOf EXCEPT ![r] = s]
    /\ inFlight' = inFlight \cup {r}
    /\ watching' = [watching EXCEPT ![s] = @ \cup {r}]
    /\ turns' = [turns EXCEPT ![s] = Append(@, r)]
    /\ busy' = busy \cup {s}
    /\ UNCHANGED <<calls, sess, answered, server, humans, restarts>>

\* A person types into the session, mid-turn or not: prompt() takes it.
Prompt(s) ==
    /\ server = "up"
    /\ humans < MaxHuman
    /\ humans' = humans + 1
    /\ sess[s] = "live"
    /\ turns' = [turns EXCEPT ![s] = Append(@, Human)]
    /\ busy' = busy \cup {s}
    /\ UNCHANGED <<rows, watching, sess, answered, server, restarts>>

-----------------------------------------------------------------------------
(* What sessions do.                                                        *)

\* busy once the head of s is over: cleared at every turn_complete (claude,
\* codex), or kept while the session has prompts of its own queued (agy).
StillBusy(s) == {busy \ {s}} \cup (IF Len(turns[s]) > 1 THEN {busy} ELSE {})

\* Mutant: settle() forgets to take its listeners off.
WatchersLeft(s, joining) == [watching EXCEPT ![s] = @ \cup joining]

\* The watchers of s after a turn_complete: those who heard it are settled and
\* leave, those who joined while it was being emitted have not heard it.
WatchersAfter(s, joining) == [watching EXCEPT ![s] = joining]

\* turn_complete on s: every attached listener settles its run.  When the tree
\* comes free by it, the queue may follow up with a waiting run r before the
\* event has reached those listeners.
TurnComplete(s) ==
    /\ server # "down"
    /\ sess[s] = "live"
    /\ turns[s] # <<>>
    /\ \E outcome \in {"succeeded", "failed"}, after \in StillBusy(s),
          joining \in {{}} \cup {{r} : r \in {x \in Runs : MayFollowUp(x, s)}} :
         /\ joining # {} => "queue" \in Policies /\ s \notin after
         /\ row' = [r \in Runs |-> IF r \in joining THEN "open"
                                   ELSE Closed(watching[s], outcome)[r]]
         /\ phase' = [r \in Runs |-> IF r \in joining THEN "over" ELSE phase[r]]
         /\ sessionOf' = [r \in Runs |-> IF r \in joining THEN s ELSE sessionOf[r]]
         /\ inFlight' = (inFlight \ watching[s]) \cup joining
         /\ watching' = WatchersAfter(s, joining)
         /\ turns' = [turns EXCEPT ![s] = Tail(@) \o SetToSeq(joining)]
         /\ busy' = after \cup {x \in {s} : joining # {}}
    /\ calls' = Reported(watching[s])
    /\ answered' = answered \cup ({Head(turns[s])} \ {Human})
    /\ UNCHANGED <<sess, server, humans, restarts>>

\* A turn is over with a notice and no turn_complete: codex refused turn/start,
\* or agy was interrupted between two attempts.
TurnLost(s) ==
    /\ server # "down"
    /\ sess[s] = "live"
    /\ turns[s] # <<>>
    /\ turns' = [turns EXCEPT ![s] = Tail(@)]
    /\ busy' \in StillBusy(s)
    /\ UNCHANGED <<rows, watching, sess, answered, server, humans, restarts>>

\* Mutant: the session ends and its busySince stays set.
ExitStillBusy(s) ==
    /\ server # "down"
    /\ sess[s] = "live"
    /\ sess' = [sess EXCEPT ![s] = "dead"]
    /\ turns' = [turns EXCEPT ![s] = <<>>]
    /\ row' = Closed(watching[s], "failed")
    /\ calls' = Reported(watching[s])
    /\ inFlight' = inFlight \ watching[s]
    /\ watching' = [watching EXCEPT ![s] = {}]
    /\ UNCHANGED <<phase, sessionOf, busy, answered, server, humans, restarts>>

\* The agent process is gone: `exit` settles whoever still listens.
Exit(s) ==
    /\ server # "down"
    /\ sess[s] = "live"
    /\ sess' = [sess EXCEPT ![s] = "dead"]
    /\ turns' = [turns EXCEPT ![s] = <<>>]
    /\ busy' = busy \ {s}
    /\ row' = Closed(watching[s], "failed")
    /\ calls' = Reported(watching[s])
    /\ inFlight' = inFlight \ watching[s]
    /\ watching' = [watching EXCEPT ![s] = {}]
    /\ UNCHANGED <<phase, sessionOf, answered, server, humans, restarts>>

\* terminate(): killed, without an event the executor listens to.
Kill(s) ==
    /\ server # "down"
    /\ sess[s] = "live"
    /\ sess' = [sess EXCEPT ![s] = "dead"]
    /\ turns' = [turns EXCEPT ![s] = <<>>]
    /\ busy' = busy \ {s}
    /\ UNCHANGED <<rows, watching, answered, server, humans, restarts>>

-----------------------------------------------------------------------------
(* The services around the executor.                                        *)

\* Open rows whose session has ended.
Ended == {r \in Runs : row[r] = "open" /\ sessionOf[r] # NoSession /\ sess[sessionOf[r]] = "dead"}

\* Mutant: a sweep that trusts its sessions.
SweepNothing(kind) ==
    /\ server = "up"
    /\ Ended \cap kind # {}
    /\ UNCHANGED vars

\* The webhook sweep and the cron tick, each for its own kind of run, close open
\* rows whose session is gone, behind the executor's back.
Sweep(kind) ==
    /\ server = "up"
    /\ Ended \cap kind # {}
    /\ row' = Closed(Ended \cap kind, "failed")
    /\ UNCHANGED <<phase, sessionOf, inFlight, calls, agents, server, humans, restarts>>

\* stop(): abandonAll settles what is in flight.  The listeners stay, and
\* sessions keep running until their own shutdown.
Stop ==
    /\ server = "up"
    /\ restarts < MaxRestarts
    /\ server' = "stopping"
    /\ row' = Closed(inFlight, "failed")
    /\ calls' = Reported(inFlight)
    /\ inFlight' = {}
    /\ UNCHANGED <<phase, sessionOf, agents, humans, restarts>>

\* The process ends, after a stop or in a crash: no structured session and no
\* run survives it, rows do.
GoDown ==
    /\ server # "down"
    /\ restarts < MaxRestarts
    /\ restarts' = restarts + 1
    /\ server' = "down"
    /\ phase' = [r \in Runs |-> IF phase[r] = "none" THEN "none" ELSE "over"]
    /\ inFlight' = {}
    /\ watching' = [s \in Sessions |-> {}]
    /\ sess' = [s \in Sessions |-> IF sess[s] = "none" THEN "none" ELSE "dead"]
    /\ turns' = [s \in Sessions |-> <<>>]
    /\ busy' = {}
    /\ UNCHANGED <<row, sessionOf, calls, answered, humans>>

\* Mutant: boot leaves rows alone that never got a session.
BootSparingSessionless ==
    /\ server = "down"
    /\ server' = "up"
    /\ row' = [r \in Runs |-> IF row[r] = "open" /\ sessionOf[r] # NoSession THEN "failed" ELSE row[r]]
    /\ UNCHANGED <<phase, sessionOf, inFlight, calls, agents, humans, restarts>>

\* markStaleCronRunsFailed and markStaleWebhookDeliveriesFailed.
Boot ==
    /\ server = "down"
    /\ server' = "up"
    /\ row' = [r \in Runs |-> IF row[r] = "open" THEN "failed" ELSE row[r]]
    /\ UNCHANGED <<phase, sessionOf, inFlight, calls, agents, humans, restarts>>

-----------------------------------------------------------------------------
\* The runs of either service.
Kinds == {Deliveries, Runs \ Deliveries}

Next ==
    \/ \E r \in Runs : Begin(r) \/ Prepare(r) \/ Fail(r)
    \/ \E r \in Runs, s \in Sessions : Created(r, s) \/ CreatedDead(r, s) \/ FollowUp(r, s)
    \/ \E s \in Sessions : Prompt(s) \/ TurnComplete(s) \/ TurnLost(s) \/ Exit(s) \/ Kill(s)
    \/ \E kind \in Kinds : Sweep(kind)
    \/ Stop
    \/ GoDown
    \/ Boot

Spec == Init /\ [][Next]_vars

\* The awaits of start() return one way or the other, the sweep timer fires,
\* and a server that went down is started again.  Nothing is assumed of agents:
\* a turn may last forever.
Fairness ==
    /\ \A r \in Runs : WF_vars(Prepare(r) \/ Fail(r) \/ \E s \in Sessions : Created(r, s))
    /\ \A kind \in Kinds : WF_vars(Sweep(kind))
    /\ WF_vars(server = "stopping" /\ GoDown)
    /\ WF_vars(Boot)

FairSpec == Spec /\ Fairness

-----------------------------------------------------------------------------
(* Properties.                                                              *)

\* executor.ts:213-218: a row left open with nobody to close it would block a
\* skip-policy trigger forever.  While the server is up an open row belongs to
\* a start() under way, to a listener on a live session that abandonAll knows
\* of, or to a dead session the sweep will find.
OpenRowHasAnOwner ==
    \A r \in Runs : server = "up" /\ row[r] = "open" =>
        \/ phase[r] \in {"preparing", "creating"}
        \/ /\ sessionOf[r] # NoSession
           /\ \/ sess[sessionOf[r]] = "dead"
              \/ r \in watching[sessionOf[r]] /\ r \in inFlight

\* executor.ts:86-90: onSettled is called once per run, for as long as the
\* server is not shutting down; and whatever comes later (an exit, the sweep, a
\* stop, the next boot), a succeeded run is not flipped to failed.
SettledOnce ==
    [][\A r \in Runs :
         /\ server = "up" /\ server' = "up" /\ calls'[r] # calls[r] => calls[r] = 0
         /\ row[r] = "succeeded" => row'[r] = "succeeded"]_vars

\* No timeout anywhere, and yet no run hangs without a live session: its start
\* gets on, or its row is closed by start(), the sweep or the next boot.
NoRunHangs ==
    LET Hanging(r) == row[r] = "open" /\ (sessionOf[r] = NoSession \/ sess[sessionOf[r]] = "dead")
    IN \A r \in Runs : Hanging(r) ~> ~Hanging(r)

\* executor.ts:571: "One run is one prompt and one turn": a run recorded as
\* succeeded is one whose own turn completed.
OneRunOneTurn ==
    \A r \in Runs : row[r] = "succeeded" => r \in answered

\* codex-session.ts:517-522: every prompt arms the page's busy indicator and is
\* answered by a turn_complete, "exactly the contract every other agent's local
\* commands already honor".  So an open run in a live session has its turn
\* still to come.
OpenRunHasATurn ==
    \A r \in Runs, s \in Sessions :
        server = "up" /\ row[r] = "open" /\ sessionOf[r] = s /\ sess[s] = "live" =>
            r \in ToSet(turns[s])
=============================================================================
