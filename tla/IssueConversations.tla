-------------------------- MODULE IssueConversations --------------------------
(***************************************************************************)
(* One issue of a webhook in per-issue mode, webhooks/index.ts: which      *)
(* conversation a delivery continues and in which directory, and what the  *)
(* row of webhook_issue_sessions becomes as runs report into it one piece  *)
(* at a time (a directory, a session, the agent's own id) while labels     *)
(* change the agent, sessions end and resumes fail.                        *)
(*                                                                         *)
(* The webhook makes a worktree per conversation (new-branch).  A          *)
(* delivery and the worktree, session, conversation or chat it makes bear  *)
(* one number; number Old came before the first.  A tree is held here by   *)
(* grants and by the issue's own sessions; DirectoryGate has the others.   *)
(***************************************************************************)
EXTENDS Naturals, Sequences, FiniteSets

CONSTANTS CodingAgents, PocketAgents,
          MaxUpdates,       \* bound: deliveries, Old included
          IssueScenarios    \* [plan : what arrives, row, minter, last : what was
                            \*  there before, and how often the rest may happen]

Nil     == 0
Old     == 1
Numbers == 1 .. MaxUpdates
Unknown == "unknown"        \* a row written before agents were recorded
Folders == {"home", "other"}

VARIABLES
    memo,       \* the issue's row
    update,     \* the deliveries
    work,       \* the sessions and chats they made
    clock,      \* arrivals and grants so far
    recheck,    \* failed deliveries whose look at the row waits for the next tick
    routed,     \* the project folder the issue is routed to
    gone,       \* worktrees that were removed
    lost,       \* conversations and chats that are no more
    cost,       \* history: how many deliveries each unusable conversation has failed
                \*  since the server started
    beside,     \* history: two deliveries of the issue ran side by side
    strayed,    \* history: a delivery ended with its directory in the row and its
                \*  conversation's id not, so that an older id or none stands beside it
    issueLeft   \* what is left of the scenario

issueVars == <<memo, update, work, clock, recheck, routed, gone, lost, cost, beside,
               strayed, issueLeft>>

----------------------------------------------------------------------------
Tree(f, n) == [folder |-> f, of |-> n]      \* n = Nil: the project folder itself
NoTree     == Tree("none", Nil)

NoRow  == [there |-> FALSE, agent |-> "none", session |-> Nil, id |-> Nil, chat |-> Nil,
           tree |-> NoTree, born |-> 0]
NoRun  == [state |-> "none", agent |-> "none", gated |-> FALSE, folder |-> "none",
           key |-> NoTree, holds |-> FALSE, received |-> 0, started |-> 0,
           resume |-> Nil, reuse |-> NoTree, tree |-> NoTree,
           session |-> Nil, id |-> Nil, chat |-> Nil]
NoWork == [up |-> FALSE, busy |-> FALSE, agent |-> "none", tree |-> NoTree, id |-> Nil,
           watchers |-> {}]

ASSUME IssueAssumption ==
    /\ MaxUpdates \in Nat /\ MaxUpdates > 0
    /\ CodingAgents \cap PocketAgents = {}
    /\ {"none", Unknown} \cap (CodingAgents \cup PocketAgents) = {}
    /\ IssueScenarios \subseteq
          [plan : Seq([agent : CodingAgents \cup PocketAgents, gated : BOOLEAN]),
           row : [there : BOOLEAN, agent : CodingAgents \cup PocketAgents \cup {"none", Unknown},
                  session : {Nil}, id : {Nil, Old}, chat : {Nil, Old},
                  tree : [folder : Folders \cup {"none"}, of : {Nil, Old}], born : {0}],
           minter : CodingAgents \cup PocketAgents \cup {"none"},
           last : CodingAgents \cup PocketAgents \cup {"none"},
           faults : Nat, endings : Nat, routes : Nat, removals : Nat, losses : Nat,
           prunes : Nat, restarts : Nat]
    /\ \A scenario \in IssueScenarios :
          LET row == scenario.row IN
          /\ Len(scenario.plan) < MaxUpdates
          /\ ~row.there => row = NoRow
          /\ row.there => /\ row.agent \in {scenario.minter, Unknown} \ {"none"}
                          /\ row.agent \notin PocketAgents => row.id = Old

IssuePay(what) == /\ issueLeft[what] > 0
                  /\ issueLeft' = [issueLeft EXCEPT ![what] = @ - 1]

(* A handler does several things to the state one after the other, so each  *)
(* is an operator from a state s to the next, or to the set of those.       *)
Now == [memo |-> memo, update |-> update, work |-> work, clock |-> clock, recheck |-> recheck]

Becomes(s) == /\ memo' = s.memo /\ update' = s.update /\ work' = s.work
              /\ clock' = s.clock /\ recheck' = s.recheck

Upon(states, Step(_)) == {Step(s) : s \in states}

Starting(s, d) == s.update[d].state \in {"preparing", "creating"}
UnderWay(s, d) == Starting(s, d) \/ s.update[d].state = "running"
InLine(s)      == {d \in Numbers : s.update[d].state = "waiting"}
UpIn(s, n)     == n # Nil /\ s.work[n].up
Free(s, t) == /\ \A d \in Numbers : ~(s.update[d].holds /\ s.update[d].key = t)
              /\ \A n \in Numbers : ~(s.work[n].up /\ s.work[n].busy /\ s.work[n].tree = t)

\* readLastRunAgentForIssue: of the deliveries that ran and are over, the latest.
LastAgent(s) ==
    LET ran == {d \in Numbers : s.update[d].state \in {"succeeded", "failed"}} IN
    IF ran = {} THEN "none" ELSE s.update[CHOOSE d \in ran : \A e \in ran : e <= d].agent

\* ownsConversation.
Owns(s, a) == s.memo.there /\ a = IF s.memo.agent = Unknown THEN LastAgent(s) ELSE s.memo.agent

\* Mutant: the row that is there is kept, whoever's it is.
RemembersOver(s, d, what, value) ==
    LET r   == s.update[d]
        row == IF s.memo.there THEN s.memo
               ELSE [NoRow EXCEPT !.there = TRUE, !.tree = Tree(r.folder, Nil), !.born = r.started]
    IN [s EXCEPT !.memo = [row EXCEPT !.agent = r.agent, ![what] = value]]

\* remember(): a piece of delivery d's run is written into the row, after another
\* agent's row was dropped.
Remembers(s, d, what, value) ==
    LET r   == s.update[d]
        row == IF Owns(s, r.agent) THEN s.memo
               ELSE [NoRow EXCEPT !.there = TRUE, !.tree = Tree(r.folder, Nil), !.born = r.started]
    IN [s EXCEPT !.memo = [row EXCEPT !.agent = r.agent, ![what] = value]]

----------------------------------------------------------------------------
(* Starting a delivery: startRun up to its first await.                      *)
FollowsUp(s, d, n) ==
    LET r == [s.update[d] EXCEPT !.state = "running", !.session = n, !.holds = FALSE]
        w == [s.work[n] EXCEPT !.busy = TRUE, !.watchers = @ \cup {d}]
    IN Remembers([s EXCEPT !.update[d] = r, !.work[n] = w], d, "session", n)

Prepares(s, d, m) ==
    [s EXCEPT !.update[d] = [@ EXCEPT !.state = "preparing", !.resume = m.id,
                                      !.reuse = IF m.id = Nil THEN NoTree ELSE m.tree]]

\* startPocketAgent: a chat that is no more is begun anew; one may be refused.
StartsPocket(s, d, m) ==
    LET chat == IF m.chat = Nil \/ m.chat \in lost THEN d ELSE m.chat
        r    == [s.update[d] EXCEPT !.state = "running", !.chat = chat]
        w    == IF chat = d THEN [s.work[d] EXCEPT !.agent = r.agent] ELSE s.work[d]
    IN { Remembers([s EXCEPT !.update[d] = r, !.work[d] = w], d, "chat", chat),
         [s EXCEPT !.update[d].state = "failed"] }

Begins(s, d) ==
    LET a    == s.update[d].agent
        mine == IF Owns(s, a) THEN s.memo ELSE NoRow
        same == mine.tree.folder = s.update[d].folder
    IN
    IF a \in PocketAgents                   THEN StartsPocket(s, d, mine)
    ELSE IF same /\ UpIn(s, mine.session)   THEN {FollowsUp(s, d, mine.session)}
    ELSE {Prepares(s, d, IF same THEN mine ELSE NoRow)}

Started(s, d) == Begins([s EXCEPT !.clock = @ + 1, !.update[d].started = s.clock + 1], d)

\* The queue's pump: an issue has one waiter, which is granted once its tree is free.
Pumped(s) ==
    IF \E d \in InLine(s) : Free(s, s.update[d].key)
    THEN LET d == CHOOSE d \in InLine(s) : TRUE
         IN Started([s EXCEPT !.update[d].holds = TRUE], d)
    ELSE {s}

\* queueKeyFor: the conversation's directory, if it is this delivery's to continue.
KeyFor(s, p) ==
    IF p.gated /\ p.agent \in CodingAgents /\ Owns(s, p.agent) /\ s.memo.tree.folder = routed
    THEN s.memo.tree ELSE NoTree

\* parkDelivery: a second waiter of the issue is merged into the first.
Parked(s, d) ==
    IF InLine(s) = {} THEN [s EXCEPT !.update[d].state = "waiting"]
    ELSE [s EXCEPT !.update = [e \in Numbers |->
              IF e = d THEN [s.update[d] EXCEPT !.state = "skipped"]
              ELSE IF e \in InLine(s)
                   THEN [s.update[e] EXCEPT !.agent = s.update[d].agent,
                                            !.folder = s.update[d].folder]
              ELSE s.update[e]]]

\* dispatch.
Arrives ==
    LET d    == CHOOSE n \in Numbers \ {Old} : /\ update[n].state = "none"
                                               /\ \A k \in 2 .. n - 1 : update[k].state # "none"
        p    == issueLeft.plan[d - 1]
        key  == KeyFor(Now, p)
        came == [Now EXCEPT !.clock = @ + 1,
                            !.update[d] = [NoRun EXCEPT !.agent = p.agent, !.gated = p.gated,
                                             !.folder = routed, !.key = key,
                                             !.received = clock + 1]]
    IN
    /\ \E n \in 2 .. Len(issueLeft.plan) + 1 : update[n].state = "none"
    /\ IF key = NoTree THEN \E s \in Started(came, d) : Becomes(s)
       ELSE IF Free(Now, key)
            THEN \E s \in Started([came EXCEPT !.update[d].holds = TRUE], d) : Becomes(s)
       ELSE Becomes(Parked(came, d))
    /\ UNCHANGED <<routed, gone, lost, cost, issueLeft>>

----------------------------------------------------------------------------
(* What a start goes through (executor.ts).                                  *)
\* The worktree is there: the one to reuse, or a new one, with a new conversation
\* if the one to reuse is gone.
Prepared(d) ==
    LET r    == update[d]
        kept == r.reuse # NoTree /\ r.reuse.of \notin gone
        tree == IF kept THEN r.reuse ELSE Tree(r.folder, d)
        q    == [r EXCEPT !.state = "creating", !.tree = tree, !.resume = IF kept THEN @ ELSE Nil]
    IN
    /\ r.state = "preparing" /\ recheck = {}
    /\ Becomes(Remembers([Now EXCEPT !.update[d] = q], d, "tree", tree))
    /\ UNCHANGED <<routed, gone, lost, cost, issueLeft>>

\* The session is there and prompted.  One that resumes has its id at once, others
\* at once or with their session_started.
Created(d) ==
    LET r     == update[d]
        q     == [r EXCEPT !.state = "running", !.session = d, !.holds = FALSE]
        w     == [up |-> TRUE, busy |-> TRUE, agent |-> r.agent, tree |-> r.tree,
                  watchers |-> {d}, id |-> IF r.resume = Nil THEN d ELSE r.resume]
        begun(id) == Remembers([Now EXCEPT !.update[d] = [q EXCEPT !.id = id], !.work[d] = w],
                               d, "session", d)
    IN
    /\ r.state = "creating" /\ recheck = {}
    /\ \/ Becomes(Remembers(begun(w.id), d, "id", w.id))
       \/ r.resume = Nil /\ Becomes(begun(Nil))
    /\ UNCHANGED <<routed, gone, lost, cost, issueLeft>>

\* session_started: every listener writes the agent's id.
Announced(n) ==
    LET heard == work[n].watchers
        first == CHOOSE d \in heard : \A e \in heard : update[d].started <= update[e].started
    IN
    /\ work[n].up /\ work[n].busy /\ heard # {}
    /\ Becomes(Remembers([Now EXCEPT !.update = [d \in Numbers |->
                             IF d \in heard THEN [update[d] EXCEPT !.id = work[n].id] ELSE update[d]]],
                         first, "id", work[n].id))
    /\ UNCHANGED <<routed, gone, lost, cost, issueLeft>>

----------------------------------------------------------------------------
(* Ends.                                                                     *)
Closed(s, ds, how) ==
    [s EXCEPT !.update = [d \in Numbers |-> IF d \in ds
                             THEN [s.update[d] EXCEPT !.state = how, !.holds = FALSE]
                             ELSE s.update[d]]]

\* A delivery that resumed the conversation in the row.
Resumed(s, d) == /\ s.memo.there /\ s.update[d].id # Nil /\ s.memo.id = s.update[d].id
                 /\ s.memo.born < s.update[d].received

\* Mutant: no second look.
FailedLookingOnce(s0, ds) ==
    LET s   == Closed(s0, ds, "failed")
        hit == {d \in ds : Resumed(s, d)}
    IN IF hit # {} /\ ~UpIn(s, s.memo.session) THEN [s EXCEPT !.memo = NoRow] ELSE s

\* forgetDeadCachedConversation: a failed delivery that resumed the conversation in
\* the row drops the row, unless the session there is up: then it looks once more
\* on the next tick.
Failed(s0, ds) ==
    LET s   == Closed(s0, ds, "failed")
        hit == {d \in ds : Resumed(s, d)}
    IN IF UpIn(s, s.memo.session) THEN [s EXCEPT !.recheck = @ \cup hit]
       ELSE IF hit # {}           THEN [s EXCEPT !.memo = NoRow]
       ELSE s

Settling(s, ds, how) == IF how = "failed" THEN Failed(s, ds) ELSE Closed(s, ds, how)

Quiet(s, n) == [s EXCEPT !.work[n] = [@ EXCEPT !.busy = FALSE, !.watchers = {}]]
Down(s, n)  == [s EXCEPT !.work[n] = [@ EXCEPT !.up = FALSE, !.busy = FALSE, !.watchers = {}]]

Doomed(n) == work[n].id # n /\ (work[n].id \in lost \/ work[work[n].id].agent # work[n].agent)

\* turn_complete: the pump comes before the listeners of the runs.
TurnOver(n) ==
    /\ work[n].up /\ work[n].busy /\ ~Doomed(n)
    /\ \/ /\ \E s \in Pumped(Quiet(Now, n)) : Becomes(Settling(s, work[n].watchers, "succeeded"))
          /\ UNCHANGED issueLeft
       \/ /\ IssuePay("faults")
          /\ \E s \in Pumped(Quiet(Now, n)) : Becomes(Settling(s, work[n].watchers, "failed"))
    /\ UNCHANGED <<routed, gone, lost, cost>>

\* A resume that fails ends its turn and then, in the same stretch, its session,
\* with whatever the pump has let into it.
ResumeFails(n) ==
    /\ work[n].up /\ work[n].busy /\ Doomed(n)
    /\ \E s \in Pumped(Quiet(Now, n)) :
         /\ Becomes(Failed(Down(Failed(s, work[n].watchers), n), s.work[n].watchers))
         /\ cost' = [cost EXCEPT ![work[n].id] =
                        @ + Cardinality(work[n].watchers \cup s.work[n].watchers)]
    /\ UNCHANGED <<routed, gone, lost, issueLeft>>

\* A session ends in a turn or between two, or is killed, of which no run hears.
SessionExits(n) ==
    /\ work[n].up /\ ~Doomed(n) /\ IssuePay("endings")
    /\ \E s \in Pumped(Down(Now, n)) : Becomes(s) \/ Becomes(Failed(s, work[n].watchers))
    /\ UNCHANGED <<routed, gone, lost, cost>>

LooksAgain(d) ==
    /\ d \in recheck
    /\ Becomes([Now EXCEPT !.recheck = @ \ {d},
                           !.memo = IF Resumed(Now, d) /\ ~UpIn(Now, memo.session) THEN NoRow ELSE @])
    /\ UNCHANGED <<routed, gone, lost, cost, issueLeft>>

StartFails(d) ==
    /\ Starting(Now, d) /\ IssuePay("faults")
    /\ \E s \in Pumped(Closed(Now, {d}, "failed")) : Becomes(s)
    /\ UNCHANGED <<routed, gone, lost, cost>>

PocketEnds(d) ==
    /\ update[d].state = "running" /\ update[d].chat # Nil
    /\ \E how \in {"succeeded", "failed"} : Becomes(Closed(Now, {d}, how))
    /\ UNCHANGED <<routed, gone, lost, cost, issueLeft>>

----------------------------------------------------------------------------
(* Time, restarts and people.                                                *)
Unheard == {d \in Numbers : update[d].state = "running" /\ update[d].session # Nil
                            /\ ~work[update[d].session].up}

\* The sweep closes what no listener will, pumps, and drops a row nothing has
\* touched for long.
Sweeps ==
    /\ \/ Unheard # {} /\ UNCHANGED issueLeft
       \/ (\E d \in InLine(Now) : Free(Now, update[d].key)) /\ UNCHANGED issueLeft
       \/ memo.there /\ (\A d \in Numbers : ~UnderWay(Now, d)) /\ IssuePay("prunes")
    /\ \E s \in Upon(Pumped(Now), LAMBDA s : Failed(s, Unheard)) \cup Pumped(Failed(Now, Unheard)) :
         Becomes([s EXCEPT !.memo = IF issueLeft' = issueLeft THEN @ ELSE NoRow])
    /\ UNCHANGED <<routed, gone, lost, cost>>

\* A crash, or a stop that settles what it has in flight.  What is left open is
\* failed by the next boot, which adopts the waiter.
Restarts ==
    LET flying  == {d \in Numbers : UnderWay(Now, d)}
        running == {d \in flying : update[d].state = "running"}
        dark(s) == [s EXCEPT !.work = [n \in Numbers |-> Down(s, n).work[n]], !.recheck = {}]
    IN
    /\ IssuePay("restarts")
    /\ \E before \in {Now, Failed(Now, running)} :
         \E s \in Pumped(Closed(dark(before), flying, "failed")) : Becomes(s)
    /\ cost' = [n \in Numbers |-> 0]
    /\ UNCHANGED <<routed, gone, lost>>

Reroutes ==
    /\ IssuePay("routes")
    /\ \E f \in Folders \ {routed} : routed' = f
    /\ UNCHANGED <<memo, update, work, clock, recheck, gone, lost, cost>>

RemovesTree(n) ==
    /\ n \notin gone /\ (\E k \in Numbers : work[k].tree.of = n) /\ IssuePay("removals")
    /\ gone' = gone \cup {n}
    /\ UNCHANGED <<memo, update, work, clock, recheck, routed, lost, cost>>

\* A transcript disappears, or a chat is deleted.
Loses(n) ==
    /\ n \notin lost /\ work[n].agent # "none"
    /\ \A k \in Numbers : ~(work[k].up /\ work[k].id = n)
    /\ IssuePay("losses")
    /\ lost' = lost \cup {n}
    /\ UNCHANGED <<memo, update, work, clock, recheck, routed, gone, cost>>

----------------------------------------------------------------------------
IssueInit ==
    /\ issueLeft \in IssueScenarios
    /\ memo = issueLeft.row
    /\ update = [d \in Numbers |->
                   IF d = Old /\ issueLeft.last # "none"
                   THEN [NoRun EXCEPT !.state = "succeeded", !.agent = issueLeft.last] ELSE NoRun]
    /\ work = [n \in Numbers |->
                 IF n = Old THEN [NoWork EXCEPT !.agent = issueLeft.minter, !.tree = issueLeft.row.tree,
                                                !.id = Old] ELSE NoWork]
    /\ clock = 0 /\ recheck = {}
    /\ routed = "home" /\ gone = {} /\ lost = {}
    /\ cost = [n \in Numbers |-> 0] /\ beside = FALSE /\ strayed = FALSE

UpdateStep(d) ==
    \/ Prepared(d) \/ Created(d) \/ StartFails(d) \/ PocketEnds(d) \/ LooksAgain(d)
WorkStep(n) ==
    \/ Announced(n) \/ TurnOver(n) \/ ResumeFails(n) \/ SessionExits(n) \/ RemovesTree(n) \/ Loses(n)

\* Two deliveries under way, and not in one session.
SideBySide == \E d, e \in Numbers : /\ d # e /\ UnderWay(Now, d) /\ UnderWay(Now, e)
                                    /\ update[d].session = Nil \/ update[d].session # update[e].session

\* A delivery whose directory is in the row while its conversation's id is not.
Unnamed == {d \in Numbers : /\ UnderWay(Now, d) /\ update[d].tree # NoTree /\ update[d].id = Nil
                            /\ update[d].resume = Nil \/ memo.id # update[d].resume}

IssueNext ==
    /\ \/ Arrives \/ Sweeps \/ Restarts \/ Reroutes
       \/ \E n \in Numbers : UpdateStep(n) \/ WorkStep(n)
    /\ beside'  = (beside \/ SideBySide')
    /\ strayed' = (strayed \/ \E d \in Unnamed : ~UnderWay(Now, d)')

IssueSpec == IssueInit /\ [][IssueNext]_issueVars

----------------------------------------------------------------------------
(* Properties.                                                             *)
(* An issue has one waiter, a tree one grant, and a grant a start; whoever    *)
(* listens to a session runs in it.                                           *)
IssueTypeOK ==
    /\ Cardinality(InLine(Now)) <= 1
    /\ \A d \in Numbers : update[d].holds => update[d].key # NoTree /\ Starting(Now, d)
    /\ \A d, e \in Numbers : update[d].holds /\ update[e].holds /\ d # e => update[d].key # update[e].key
    /\ \A n \in Numbers : /\ work[n].watchers # {} => work[n].up
                          /\ \A d \in work[n].watchers : update[d].state = "running"
                                                         /\ update[d].session = n

(* A delivery continues no other agent's session, conversation or chat (an      *)
(* agent's ids mean nothing to another), however the runs of an issue overlap:  *)
(* each piece a run reports goes into a row of its own agent (index.ts:1762).   *)
(* The conversation of a row without an agent may be attributed to whoever ran  *)
(* last.                                                                        *)
OwnConversation ==
    \A d \in Numbers : \A n \in {update[d].session, update[d].resume, update[d].chat} \ {Nil} :
        \/ work[n].agent = update[d].agent
        \/ n = Old /\ issueLeft.row.agent = Unknown

(* A delivery runs in its project's folder, in the tree it waited for (unless   *)
(* that was removed) or in one of its own, and a conversation that is resumed   *)
(* stays in the tree it was made in (index.ts:1352).  Not so once two runs side *)
(* by side have mixed their pieces in the row, or a delivery has ended between  *)
(* writing its directory and its conversation's id.                             *)
RightTree ==
    ~beside /\ ~strayed =>
        \A d \in Numbers : update[d].session # Nil =>
            LET w == work[update[d].session] IN
            /\ w.tree.folder = update[d].folder
            /\ update[d].key # NoTree => w.tree = update[d].key \/ w.tree.of = d
                                             \/ update[d].key.of \in gone
            /\ w.tree = work[w.id].tree

(* A delivery continues its own agent's conversation, in that conversation's    *)
(* tree (issueConversationFor and startRun, webhooks/index.ts).                 *)
RightConversation == OwnConversation /\ RightTree

(* When its deliveries are over, an issue's row names no conversation that      *)
(* failed one because it cannot be resumed (index.ts:1876): the next would fail *)
(* as well.  A delivery that had taken it up before the row was dropped puts it *)
(* into a new row; the one after it then drops that.                            *)
NoWedge ==
    ~beside /\ recheck = {} /\ (\A d \in Numbers : ~UnderWay(Now, d)) =>
        \A n \in Numbers : cost[n] > 0 /\ memo.id = n =>
            \E d \in Numbers : update[d].resume = n /\ update[d].started = memo.born
=============================================================================
