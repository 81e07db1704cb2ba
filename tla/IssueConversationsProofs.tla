----------------------- MODULE IssueConversationsProofs -----------------------
(***************************************************************************)
(* Theorems about IssueConversations, for any agents, any number of        *)
(* deliveries and any scenarios: what the row, the deliveries and the      *)
(* sessions say of each other always fits, and a delivery continues no     *)
(* other agent's conversation.                                             *)
(*                                                                         *)
(* The handlers work on a record of the state, one step after the other,   *)
(* and so do the proofs: each step of a handler is described once, as a    *)
(* relation of a state s to the next state t (Start, FailedAs, PumpAs...), *)
(* and what it preserves is a lemma about any such two states.  An action  *)
(* is then a chain of these steps.                                         *)
(***************************************************************************)
EXTENDS IssueConversations, FiniteSetTheorems, WellFoundedInduction, TLAPS

\* What the variables may hold.
Agents == CodingAgents \cup PocketAgents
Ids    == Numbers \cup {Nil}
Trees  == [folder : Folders \cup {"none"}, of : Ids]
Stages == {"none", "waiting", "skipped", "preparing", "creating", "running", "succeeded", "failed"}
Rows   == [there : BOOLEAN, agent : Agents \cup {"none", Unknown}, session : Ids, id : Ids,
           chat : Ids, tree : Trees, born : Nat]
Runs   == [state : Stages, agent : Agents \cup {"none"}, gated : BOOLEAN,
           folder : Folders \cup {"none"}, key : Trees, holds : BOOLEAN, received : Nat,
           started : Nat, resume : Ids, reuse : Trees, tree : Trees,
           session : Ids, id : Ids, chat : Ids]
Works  == [up : BOOLEAN, busy : BOOLEAN, agent : Agents \cup {"none"}, tree : Trees, id : Ids,
           watchers : SUBSET Numbers]
States == [memo : Rows, update : [Numbers -> Runs], work : [Numbers -> Works], clock : Nat,
           recheck : SUBSET Numbers]

Ancient(n) == n = Old /\ issueLeft.row.agent = Unknown
Made(s, n) == s.update[n].session = n
\* Agent a may take up n: it is a's, or nobody knows whose it is.
May(s, a, n) == n = Nil \/ s.work[n].agent = a \/ Ancient(n)

FitRow(s) ==
    /\ ~s.memo.there => s.memo = NoRow
    /\ s.memo.there => s.memo.agent \in Agents \cup {Unknown}
    /\ s.memo.agent = Unknown => s.memo = issueLeft.row
    /\ May(s, s.memo.agent, s.memo.session) /\ May(s, s.memo.agent, s.memo.id)
    /\ May(s, s.memo.agent, s.memo.chat)
    /\ s.memo.session # Nil => s.memo.session # Old /\ Made(s, s.memo.session)
    /\ s.memo.born <= s.clock

FitRun(s, d) ==
    LET r == s.update[d] IN
    /\ r.state \in {"none", "waiting", "skipped"} =>
          /\ r.session = Nil /\ r.id = Nil /\ r.chat = Nil /\ r.resume = Nil
          /\ r.reuse = NoTree /\ r.tree = NoTree /\ ~r.holds
    /\ r.state # "none" => r.agent \in Agents
    /\ r.state # "none" /\ d # Old => r.folder \in Folders
    /\ r.state \in {"preparing", "creating"} => r.session = Nil /\ r.id = Nil /\ r.chat = Nil
    /\ r.state = "preparing" => r.tree = NoTree /\ (r.resume = Nil => r.reuse = NoTree)
    /\ r.state = "creating" => r.tree # NoTree
    /\ r.state = "running" => (r.session = Nil <=> r.chat # Nil)
    /\ r.state = "waiting" => r.key # NoTree /\ r.agent \in CodingAgents
    /\ r.holds => r.key # NoTree /\ r.state \in {"preparing", "creating"}
    /\ May(s, r.agent, r.session) /\ May(s, r.agent, r.resume) /\ May(s, r.agent, r.chat)
    /\ r.session # Nil => r.session # Old /\ Made(s, r.session)
    /\ d # Old /\ r.state \in {"none", "waiting", "skipped", "preparing", "creating"} => s.work[d] = NoWork
    /\ d = Old => r.state \in {"none", "succeeded"} /\ r.session = Nil /\ r.resume = Nil /\ r.chat = Nil
    /\ r.received <= s.clock /\ r.started <= s.clock

FitWork(s, n) ==
    LET w == s.work[n]
        r == s.update[n] IN
    /\ n = Old => ~w.up /\ w.id = Old
    /\ Made(s, n) => /\ w.tree = r.tree /\ w.tree # NoTree
                     /\ w.id = IF r.resume = Nil THEN n ELSE r.resume
                     /\ r.resume # Nil => r.id = r.resume
    /\ w.up => Made(s, n)
    /\ w.busy <=> w.watchers # {}
    /\ w.busy => w.up
    /\ \A d \in w.watchers : s.update[d].state = "running" /\ s.update[d].session = n
    /\ w.agent = "none" => n = Old \/ w = NoWork

\* Deliveries are numbered as they arrive.
InOrderOfArrival(s) == \E k \in 1 .. MaxUpdates :
    \A n \in 2 .. MaxUpdates : s.update[n].state = "none" <=> n > k

\* X: the deliveries that the handler is about to settle.
Listening(s, X) == \A d \in Numbers \ X :
    /\ s.update[d].state = "running" /\ s.update[d].session # Nil
    /\ s.work[s.update[d].session].up
    => d \in s.work[s.update[d].session].watchers

Fit(s) ==
    /\ s \in States /\ FitRow(s)
    /\ \A d \in Numbers : FitRun(s, d) /\ FitWork(s, d)
    /\ \A d, e \in Numbers : s.update[d].state = "waiting" /\ s.update[e].state = "waiting" => d = e
    /\ \A d, e \in Numbers : s.update[d].holds /\ s.update[e].holds /\ s.update[d].key = s.update[e].key => d = e
    /\ \A d \in s.recheck : s.update[d].state = "failed"

Wishes    == [agent : Agents, gated : BOOLEAN]
Counters  == {"faults", "endings", "routes", "removals", "losses", "prunes", "restarts"}
Scenarios == [plan : Seq(Wishes),
              row : [there : BOOLEAN, agent : Agents \cup {"none", Unknown},
                     session : {Nil}, id : {Nil, Old}, chat : {Nil, Old},
                     tree : [folder : Folders \cup {"none"}, of : {Nil, Old}], born : {0}],
              minter : Agents \cup {"none"}, last : Agents \cup {"none"},
              faults : Nat, endings : Nat, routes : Nat, removals : Nat, losses : Nat,
              prunes : Nat, restarts : Nat]
LeftOK == /\ issueLeft \in Scenarios /\ Len(issueLeft.plan) < MaxUpdates
          /\ issueLeft.row.there => /\ issueLeft.row.agent # "none"
                                    /\ issueLeft.row.agent \notin PocketAgents => issueLeft.row.id = Old

IFit == Fit(Now) /\ Listening(Now, {}) /\ InOrderOfArrival(Now) /\ routed \in Folders /\ LeftOK
Ended(s) == {d \in Numbers : s.update[d].state \in {"succeeded", "failed"}}

----------------------------------------------------------------------------
(* Numbers and agents.                                                     *)

(* Of some numbered things one has the greatest number, and one the least. *)
LEMMA Least ==
  ASSUME NEW T \in SUBSET Nat, T # {}
  PROVE  \E x \in T : \A y \in T : x <= y
<1>1. IsWellFoundedOn(OpToRel(<, Nat), Nat)
  BY NatLessThanWellFounded
<1>2. PICK x \in T : \A y \in T : ~ (<<y, x>> \in OpToRel(<, Nat))
  BY <1>1, WFMin
<1>3. \A y \in T : ~ (y < x)
  BY <1>2 DEF OpToRel
<1> QED BY <1>3

(* Some deliveries have a latest.                                          *)
LEMMA Greatest ==
  ASSUME NEW T \in SUBSET Numbers, T # {}
  PROVE  \E x \in T : \A y \in T : y <= x
<1> DEFINE M == {MaxUpdates - x : x \in T}
<1>1. \A x \in T : x \in Nat /\ x <= MaxUpdates /\ MaxUpdates \in Nat
  BY IssueAssumption DEF Numbers
<1>2. M \in SUBSET Nat /\ M # {}
  BY <1>1
<1>3. PICK m \in M : \A y \in M : m <= y
  BY <1>2, Least
<1>4. PICK x \in T : m = MaxUpdates - x
  OBVIOUS
<1>5. \A y \in T : MaxUpdates - x <= MaxUpdates - y
  BY <1>3, <1>4
<1>6. \A y \in T : y <= x
  BY <1>1, <1>5
<1> QED BY <1>6

(* Deliveries are numbered from Old on, and Nil is none of them.           *)
LEMMA NumbersAre ==
  /\ Old \in Numbers /\ Numbers \subseteq Nat /\ Nil \notin Numbers /\ Numbers \subseteq Ids
  /\ Nil \in Ids /\ Nil # Old
  /\ \A n \in Ids : n # Nil => n \in Numbers
BY IssueAssumption DEF Numbers, Ids, Nil, Old

(* An agent is a coding agent or a pocket agent, never both, and has a     *)
(* name.                                                                   *)
LEMMA AgentsAre ==
  /\ "none" \notin Agents /\ Unknown \notin Agents
  /\ \A a \in Agents : a \in CodingAgents \/ a \in PocketAgents
  /\ \A a \in CodingAgents : a \notin PocketAgents /\ a \in Agents
  /\ \A a \in PocketAgents : a \notin CodingAgents /\ a \in Agents
  /\ Unknown \notin PocketAgents
BY IssueAssumption DEF Agents, Unknown

(* readLastRunAgentForIssue names the agent of the latest delivery that    *)
(* ended.                                                                  *)
LEMMA LastAgentIs ==
  ASSUME NEW s \in States
  PROVE  \/ Ended(s) = {} /\ LastAgent(s) = "none"
         \/ \E d \in Ended(s) : (\A e \in Ended(s) : e <= d) /\ LastAgent(s) = s.update[d].agent
<1>1. LastAgent(s) = IF Ended(s) = {} THEN "none"
                     ELSE s.update[CHOOSE d \in Ended(s) : \A e \in Ended(s) : e <= d].agent
  BY DEF LastAgent, Ended
<1>2. CASE Ended(s) # {}
  <2>1. \E x \in Ended(s) : \A y \in Ended(s) : y <= x
    BY <1>2, Greatest DEF Ended
  <2>2. PICK d : d = CHOOSE x \in Ended(s) : \A e \in Ended(s) : e <= x
    OBVIOUS
  <2>3. d \in Ended(s) /\ \A e \in Ended(s) : e <= d
    BY <2>1, <2>2
  <2> QED BY <1>1, <1>2, <2>2, <2>3
<1> QED BY <1>1, <1>2

(* It names the same agent while none ends.                                *)
LEMMA LastAgentStays ==
  ASSUME NEW s \in States, NEW t \in States, Ended(s) = Ended(t),
         \A d \in Ended(s) : t.update[d].agent = s.update[d].agent
  PROVE  LastAgent(t) = LastAgent(s)
<1>1. CASE Ended(s) = {}
  BY <1>1, LastAgentIs
<1>2. CASE Ended(s) # {}
  <2>1. PICK d \in Ended(s) : (\A e \in Ended(s) : e <= d) /\ LastAgent(s) = s.update[d].agent
    BY <1>2, LastAgentIs
  <2>2. PICK f \in Ended(t) : (\A e \in Ended(t) : e <= f) /\ LastAgent(t) = t.update[f].agent
    BY <1>2, LastAgentIs
  <2>3. f <= d /\ d <= f /\ f \in Nat /\ d \in Nat
    BY <2>1, <2>2, NumbersAre DEF Ended
  <2> QED BY <2>1, <2>2, <2>3
<1> QED BY <1>1, <1>2

----------------------------------------------------------------------------
(* What the operators of the handlers do, field by field.                  *)

\* Everything of delivery r but state, holds and what a start or an agent reports.
SameWish(r, q) == /\ q.agent = r.agent /\ q.folder = r.folder /\ q.key = r.key
                  /\ q.received = r.received
SameWork(s, t, N) == \A n \in Numbers \ N : t.work[n] = s.work[n]

(* One part of a state is set.                                             *)
LEMMA SetUpdate ==
  ASSUME NEW s \in States, NEW U \in [Numbers -> Runs]
  PROVE  LET t == [s EXCEPT !.update = U] IN
         /\ t \in States /\ t.update = U /\ t.memo = s.memo /\ t.work = s.work
         /\ t.clock = s.clock /\ t.recheck = s.recheck
BY DEF States

(* The sessions are set.                                                   *)
LEMMA SetWork ==
  ASSUME NEW s \in States, NEW W \in [Numbers -> Works]
  PROVE  LET t == [s EXCEPT !.work = W] IN
         /\ t \in States /\ t.work = W /\ t.memo = s.memo /\ t.update = s.update
         /\ t.clock = s.clock /\ t.recheck = s.recheck
BY DEF States

(* The row is set.                                                         *)
LEMMA SetMemo ==
  ASSUME NEW s \in States, NEW m \in Rows
  PROVE  LET t == [s EXCEPT !.memo = m] IN
         /\ t \in States /\ t.memo = m /\ t.update = s.update /\ t.work = s.work
         /\ t.clock = s.clock /\ t.recheck = s.recheck
BY DEF States

(* The clock is set.                                                       *)
LEMMA SetClock ==
  ASSUME NEW s \in States, NEW c \in Nat
  PROVE  LET t == [s EXCEPT !.clock = c] IN
         /\ t \in States /\ t.clock = c /\ t.memo = s.memo /\ t.update = s.update
         /\ t.work = s.work /\ t.recheck = s.recheck
BY DEF States

(* The deliveries that look again are set.                                 *)
LEMMA SetRecheck ==
  ASSUME NEW s \in States, NEW R \in SUBSET Numbers
  PROVE  LET t == [s EXCEPT !.recheck = R] IN
         /\ t \in States /\ t.recheck = R /\ t.memo = s.memo /\ t.update = s.update
         /\ t.work = s.work /\ t.clock = s.clock
BY DEF States

\* t is s with a piece of delivery d in the row.
Noted(s, t, d, what, v) ==
    LET r   == s.update[d]
        own == Owns(s, r.agent) IN
    /\ t \in States /\ t.update = s.update /\ t.work = s.work /\ t.clock = s.clock
    /\ t.recheck = s.recheck
    /\ t.memo.there /\ t.memo.agent = r.agent
    /\ t.memo.session = IF what = "session" THEN v ELSE IF own THEN s.memo.session ELSE Nil
    /\ t.memo.id = IF what = "id" THEN v ELSE IF own THEN s.memo.id ELSE Nil
    /\ t.memo.chat = IF what = "chat" THEN v ELSE IF own THEN s.memo.chat ELSE Nil
    /\ t.memo.tree = IF what = "tree" THEN v ELSE IF own THEN s.memo.tree ELSE Tree(r.folder, Nil)
    /\ t.memo.born = IF own THEN s.memo.born ELSE r.started

(* remember(): the row that there was goes on, if it is the delivery's own. *)
LEMMA RememberIs ==
  ASSUME NEW s \in States, NEW d \in Numbers, s.update[d].agent \in Agents, NEW v,
         NEW what \in {"session", "id", "chat", "tree"},
         IF what = "tree" THEN v \in Trees ELSE v \in Ids,
         NEW t, t = Remembers(s, d, what, v)
  PROVE  Noted(s, t, d, what, v)
<1> DEFINE r == s.update[d]
           row == IF Owns(s, r.agent) THEN s.memo
               ELSE [NoRow EXCEPT !.there = TRUE, !.tree = Tree(r.folder, Nil), !.born = r.started]
           new == [row EXCEPT !.agent = r.agent, ![what] = v]
<1>1. t = [s EXCEPT !.memo = new]
  BY DEF Remembers
<1>2. r \in Runs /\ s.memo \in Rows
  BY DEF States
<1>3. new \in Rows => /\ t \in States /\ t.memo = new /\ t.update = s.update /\ t.work = s.work
                       /\ t.clock = s.clock /\ t.recheck = s.recheck
  <2> HIDE DEF new
  <2> QED BY <1>1, SetMemo
<1>4. Tree(r.folder, Nil) \in Trees
  BY <1>2 DEF Runs, Trees, Tree, Ids
<1>5. CASE Owns(s, r.agent)
  <2>1. row = s.memo
    BY <1>5
  <2>2. s.memo.there
    BY <1>5 DEF Owns
  <2> HIDE DEF row, r
  <2>3. /\ new \in Rows /\ new.there /\ new.agent = r.agent
        /\ new.session = IF what = "session" THEN v ELSE s.memo.session
        /\ new.id = IF what = "id" THEN v ELSE s.memo.id
        /\ new.chat = IF what = "chat" THEN v ELSE s.memo.chat
        /\ new.tree = IF what = "tree" THEN v ELSE s.memo.tree
        /\ new.born = s.memo.born
    BY <1>2, <2>1, <2>2 DEF Rows, r, Runs
  <2> HIDE DEF new
  <2> QED BY <1>3, <2>3, <1>5 DEF r, Noted
<1>6. CASE ~Owns(s, r.agent)
  <2>1. row = [NoRow EXCEPT !.there = TRUE, !.tree = Tree(r.folder, Nil), !.born = r.started]
    BY <1>6
  <2>2. row \in Rows /\ row.there /\ row.session = Nil /\ row.id = Nil /\ row.chat = Nil
        /\ row.tree = Tree(r.folder, Nil) /\ row.born = r.started
    BY <1>2, <1>4, <2>1 DEF Rows, NoRow, Ids, Nil, Runs
  <2> HIDE DEF row, r
  <2>3. /\ new \in Rows /\ new.there /\ new.agent = r.agent
        /\ new.session = IF what = "session" THEN v ELSE Nil
        /\ new.id = IF what = "id" THEN v ELSE Nil
        /\ new.chat = IF what = "chat" THEN v ELSE Nil
        /\ new.tree = IF what = "tree" THEN v ELSE Tree(r.folder, Nil)
        /\ new.born = r.started
    BY <1>2, <2>2 DEF Rows, r, Runs
  <2> HIDE DEF new
  <2> QED BY <1>3, <2>3, <1>6 DEF r, Noted
<1> QED BY <1>5, <1>6
\* What every start of delivery d does, with or without a grant (h).
Begun(s, t, d, h) ==
    /\ t \in States /\ t.clock = s.clock + 1 /\ t.recheck = s.recheck
    /\ \A e \in Numbers \ {d} : t.update[e] = s.update[e]
    /\ SameWish(s.update[d], t.update[d])
    /\ t.update[d].started = s.clock + 1
    /\ t.update[d].id = s.update[d].id /\ t.update[d].tree = s.update[d].tree

MayContinue(s, d) == /\ Owns(s, s.update[d].agent)
                     /\ s.memo.tree.folder = s.update[d].folder

AsFollowUp(s, t, d) ==
    LET n == s.memo.session
        r == s.update[d]
        q == t.update[d] IN
    /\ r.agent \notin PocketAgents /\ MayContinue(s, d) /\ n \in Numbers /\ s.work[n].up
    /\ q.state = "running" /\ q.session = n /\ ~q.holds /\ q.resume = r.resume
    /\ q.reuse = r.reuse /\ q.chat = r.chat
    /\ SameWork(s, t, {n})
    /\ t.work[n].up /\ t.work[n].busy /\ t.work[n].watchers = s.work[n].watchers \cup {d}
    /\ t.work[n].agent = s.work[n].agent /\ t.work[n].tree = s.work[n].tree
    /\ t.work[n].id = s.work[n].id
    /\ t.memo.there /\ t.memo.agent = r.agent /\ t.memo.session = n /\ t.memo.id = s.memo.id
    /\ t.memo.chat = s.memo.chat /\ t.memo.tree = s.memo.tree /\ t.memo.born = s.memo.born

AsNew(s, t, d, h) ==
    LET r == s.update[d]
        q == t.update[d] IN
    /\ r.agent \notin PocketAgents /\ (MayContinue(s, d) => ~UpIn(s, s.memo.session))
    /\ q.state = "preparing" /\ q.session = r.session /\ q.holds = h /\ q.chat = r.chat
    /\ q.resume = IF MayContinue(s, d) THEN s.memo.id ELSE Nil
    /\ q.reuse = IF q.resume = Nil THEN NoTree ELSE s.memo.tree
    /\ t.work = s.work /\ t.memo = s.memo

AsChat(s, t, d) ==
    LET r   == s.update[d]
        q   == t.update[d]
        own == Owns(s, r.agent) IN
    /\ r.agent \in PocketAgents
    /\ q.state = "running" /\ q.session = r.session /\ q.resume = r.resume /\ q.reuse = r.reuse
    /\ q.chat = d \/ (own /\ q.chat = s.memo.chat /\ q.chat \in Numbers)
    /\ SameWork(s, t, {d})
    /\ t.work[d] = IF q.chat = d THEN [s.work[d] EXCEPT !.agent = r.agent] ELSE s.work[d]
    /\ t.memo.there /\ t.memo.agent = r.agent /\ t.memo.chat = q.chat
    /\ t.memo.session = IF own THEN s.memo.session ELSE Nil
    /\ t.memo.id = IF own THEN s.memo.id ELSE Nil
    /\ t.memo.tree = IF own THEN s.memo.tree ELSE Tree(r.folder, Nil)
    /\ t.memo.born = IF own THEN s.memo.born ELSE s.clock + 1

AsRefused(s, t, d) ==
    LET r == s.update[d]
        q == t.update[d] IN
    /\ r.agent \in PocketAgents
    /\ q.state = "failed" /\ q.session = r.session /\ q.resume = r.resume /\ q.reuse = r.reuse
    /\ q.chat = r.chat
    /\ t.work = s.work /\ t.memo = s.memo

Start(s, t, d, h) ==
    /\ Begun(s, t, d, h)
    /\ AsFollowUp(s, t, d) \/ AsNew(s, t, d, h)
       \/ (t.update[d].holds = h /\ (AsChat(s, t, d) \/ AsRefused(s, t, d)))

PreparesAs(s, t, d, m) ==
    LET r == s.update[d]
        q == t.update[d] IN
    /\ t \in States /\ t.memo = s.memo /\ t.work = s.work /\ t.clock = s.clock
    /\ t.recheck = s.recheck
    /\ \A e \in Numbers \ {d} : t.update[e] = s.update[e]
    /\ SameWish(r, q) /\ q.started = r.started /\ q.id = r.id /\ q.tree = r.tree
    /\ q.state = "preparing" /\ q.session = r.session /\ q.holds = r.holds /\ q.chat = r.chat
    /\ q.resume = m.id /\ q.reuse = IF m.id = Nil THEN NoTree ELSE m.tree

(* startRun on a new session.                                              *)
LEMMA PreparesIs ==
  ASSUME NEW s \in States, NEW d \in Numbers, NEW m \in Rows, NEW t, t = Prepares(s, d, m)
  PROVE  PreparesAs(s, t, d, m)
<1> DEFINE r == s.update[d]
           tree == IF m.id = Nil THEN NoTree ELSE m.tree
           new == [r EXCEPT !.state = "preparing", !.resume = m.id, !.reuse = tree]
           U == [s.update EXCEPT ![d] = new]
<1>1. r \in Runs /\ s.update \in [Numbers -> Runs]
  BY DEF States
<1>2. m.id \in Ids /\ tree \in Trees
  BY NumbersAre DEF Rows, NoTree, Tree, Trees
<1>3. t = [s EXCEPT !.update = U]
  BY DEF Prepares
<1> HIDE DEF r, tree
<1>4. /\ new \in Runs /\ SameWish(r, new) /\ new.started = r.started /\ new.id = r.id
      /\ new.tree = r.tree /\ new.state = "preparing" /\ new.session = r.session
      /\ new.holds = r.holds /\ new.chat = r.chat /\ new.resume = m.id /\ new.reuse = tree
  BY <1>1, <1>2 DEF Runs, Stages, SameWish
<1> HIDE DEF new
<1>5. U \in [Numbers -> Runs] /\ U[d] = new /\ \A e \in Numbers \ {d} : U[e] = s.update[e]
  BY <1>1, <1>4
<1> HIDE DEF U
<1>6. /\ t \in States /\ t.update = U /\ t.memo = s.memo /\ t.work = s.work
      /\ t.clock = s.clock /\ t.recheck = s.recheck
  BY <1>3, <1>5, SetUpdate
<1> QED BY <1>4, <1>5, <1>6 DEF r, tree, PreparesAs

FollowsAs(s, t, d, n) ==
    LET r == s.update[d]
        q == t.update[d] IN
    /\ t \in States /\ t.clock = s.clock /\ t.recheck = s.recheck
    /\ \A e \in Numbers \ {d} : t.update[e] = s.update[e]
    /\ SameWish(r, q) /\ q.started = r.started /\ q.id = r.id /\ q.tree = r.tree
    /\ q.state = "running" /\ q.session = n /\ ~q.holds /\ q.resume = r.resume
    /\ q.reuse = r.reuse /\ q.chat = r.chat
    /\ SameWork(s, t, {n})
    /\ t.work[n].up = s.work[n].up /\ t.work[n].busy
    /\ t.work[n].watchers = s.work[n].watchers \cup {d}
    /\ t.work[n].agent = s.work[n].agent /\ t.work[n].tree = s.work[n].tree
    /\ t.work[n].id = s.work[n].id
    /\ t.memo.there /\ t.memo.agent = r.agent /\ t.memo.session = n /\ t.memo.id = s.memo.id
    /\ t.memo.chat = s.memo.chat /\ t.memo.tree = s.memo.tree /\ t.memo.born = s.memo.born

(* startRun on the session that is up.                                     *)
LEMMA FollowsUpIs ==
  ASSUME NEW s \in States, NEW d \in Numbers, NEW n \in Numbers, s.update[d].agent \in Agents,
         s.update[d].state \notin {"succeeded", "failed"}, Owns(s, s.update[d].agent),
         NEW t, t = FollowsUp(s, d, n)
  PROVE  FollowsAs(s, t, d, n)
<1> DEFINE r == s.update[d]
           w == s.work[n]
           new == [r EXCEPT !.state = "running", !.session = n, !.holds = FALSE]
           busy == [w EXCEPT !.busy = TRUE, !.watchers = @ \cup {d}]
           U == [s.update EXCEPT ![d] = new]
           W == [s.work EXCEPT ![n] = busy]
           z == [s EXCEPT !.update = U, !.work = W]
<1>1. r \in Runs /\ s.update \in [Numbers -> Runs] /\ w \in Works /\ s.work \in [Numbers -> Works]
  BY DEF States
<1>2. t = Remembers(z, d, "session", n)
  <2>1. z = [s EXCEPT !.update[d] = new, !.work[n] = busy]
    OBVIOUS
  <2> HIDE DEF z
  <2> QED BY <2>1, Zenon DEF FollowsUp
<1>3. n \in Ids
  BY NumbersAre
<1>4. /\ new \in Runs /\ SameWish(r, new) /\ new.started = r.started /\ new.id = r.id
      /\ new.tree = r.tree /\ new.state = "running" /\ new.session = n
      /\ ~new.holds /\ new.chat = r.chat /\ new.resume = r.resume /\ new.reuse = r.reuse
  <2> HIDE DEF r
  <2> QED BY <1>1, <1>3 DEF Runs, Stages, SameWish
<1>5. /\ busy \in Works /\ busy.up = w.up /\ busy.busy /\ busy.watchers = w.watchers \cup {d}
      /\ busy.agent = w.agent /\ busy.tree = w.tree /\ busy.id = w.id
  <2> HIDE DEF w
  <2> QED BY <1>1 DEF Works
<1> HIDE DEF new, busy
<1>6. U \in [Numbers -> Runs] /\ U[d] = new /\ \A e \in Numbers \ {d} : U[e] = s.update[e]
  BY <1>1, <1>4
<1>7. W \in [Numbers -> Works] /\ W[n] = busy /\ \A e \in Numbers \ {n} : W[e] = s.work[e]
  BY <1>1, <1>5
<1> HIDE DEF U, W
<1>0. z = [s EXCEPT !.update = U, !.work = W]
  OBVIOUS
<1> HIDE DEF z
<1>8. z \in States /\ z.update = U /\ z.work = W /\ z.memo = s.memo /\ z.clock = s.clock /\ z.recheck = s.recheck
  BY <1>0, <1>6, <1>7 DEF States
<1>9. Ended(z) = Ended(s) /\ \A e \in Ended(s) : z.update[e].agent = s.update[e].agent
  BY <1>4, <1>6, <1>8 DEF Ended
<1>10. LastAgent(z) = LastAgent(s)
  BY <1>8, <1>9, LastAgentStays
<1>11. z.update[d].agent = r.agent /\ Owns(z, r.agent)
  BY <1>4, <1>6, <1>8, <1>10 DEF SameWish, Owns
<1>12. Noted(z, t, d, "session", n)
  BY <1>2, <1>3, <1>8, <1>11, RememberIs
<1> QED BY <1>4, <1>5, <1>6, <1>7, <1>8, <1>11, <1>12 DEF SameWork, Noted, FollowsAs

(* startRun: a start follows up, prepares a session, opens a chat or is     *)
(* refused one.                                                             *)
LEMMA StartedIs ==
  ASSUME NEW s \in States, NEW d \in Numbers, NEW h \in BOOLEAN, s.update[d].agent \in Agents,
         s.update[d].folder \in Folders, s.update[d].state \notin {"succeeded", "failed"},
         NEW t \in Started([s EXCEPT !.update[d].holds = h], d)
  PROVE  Start(s, t, d, h)
<1> DEFINE r  == s.update[d]
           a  == r.agent
           r0 == [r EXCEPT !.holds = h]
           r1 == [r0 EXCEPT !.started = s.clock + 1]
           s0 == [s EXCEPT !.update[d].holds = h]
           s1 == [s0 EXCEPT !.clock = @ + 1, !.update[d].started = s0.clock + 1]
           mine == IF Owns(s1, a) THEN s1.memo ELSE NoRow
           same == mine.tree.folder = s1.update[d].folder
<1>0. r \in Runs /\ r0 \in Runs /\ r1 \in Runs /\ s.clock + 1 \in Nat /\ s.update \in [Numbers -> Runs]
  <2>1. r \in Runs /\ s.clock + 1 \in Nat /\ s.update \in [Numbers -> Runs]
    BY DEF States
  <2> HIDE DEF r
  <2>2. r0 \in Runs
    BY <2>1 DEF Runs
  <2>3. r1 \in Runs
    BY <2>1, <2>2 DEF Runs
  <2> QED BY <2>1, <2>2, <2>3
<1>1. /\ s0 \in States /\ s0.memo = s.memo /\ s0.work = s.work /\ s0.clock = s.clock
      /\ s0.recheck = s.recheck /\ s0.update = [s.update EXCEPT ![d] = r0]
  <2> HIDE DEF r0
  <2>1. [s.update EXCEPT ![d] = r0] \in [Numbers -> Runs]
    BY <1>0
  <2>2. s0 = [s EXCEPT !.update = [s.update EXCEPT ![d] = r0]]
    BY DEF r0
  <2> HIDE DEF s0
  <2> QED BY <2>1, <2>2, SetUpdate
<1>2. /\ s1 \in States /\ s1.memo = s.memo /\ s1.work = s.work /\ s1.clock = s.clock + 1
      /\ s1.recheck = s.recheck /\ s1.update = [s.update EXCEPT ![d] = r1]
  <2> DEFINE U == [s.update EXCEPT ![d] = r1]
             s2 == [s0 EXCEPT !.update = U]
  <2>1. U \in [Numbers -> Runs]
    BY <1>0
  <2>2. s0.update[d] = r0 /\ [s0.update EXCEPT ![d] = r1] = U
    BY <1>0, <1>1
  <2>3. s1 = [s0 EXCEPT !.clock = s0.clock + 1, !.update = [s0.update EXCEPT ![d] = [s0.update[d] EXCEPT !.started = s0.clock + 1]]]
    BY Zenon
  <2> HIDE DEF s0, s1, r0
  <2>4. s1 = [s2 EXCEPT !.clock = s.clock + 1]
    BY <2>2, <2>3, <1>1 DEF States
  <2> HIDE DEF U
  <2>5. s2 \in States /\ s2.update = U /\ s2.memo = s0.memo /\ s2.work = s0.work /\ s2.clock = s0.clock /\ s2.recheck = s0.recheck
    BY <2>1, <1>1, SetUpdate
  <2> HIDE DEF s2
  <2> QED BY <2>4, <2>5, <1>0, <1>1, SetClock DEF U
<1>3. s1.update[d] = r1 /\ \A e \in Numbers \ {d} : s1.update[e] = s.update[e]
  BY <1>2, <1>0
<1>4. /\ r1.state = r.state /\ r1.agent = a /\ r1.folder = r.folder /\ r1.key = r.key /\ r1.holds = h
      /\ r1.received = r.received /\ r1.started = s.clock + 1 /\ r1.resume = r.resume
      /\ r1.reuse = r.reuse /\ r1.tree = r.tree /\ r1.session = r.session /\ r1.id = r.id
      /\ r1.chat = r.chat
  BY <1>0 DEF Runs
<1>5. LastAgent(s1) = LastAgent(s)
  <2>1. Ended(s) = Ended(s1)
    <3>1. \A e \in Numbers : s1.update[e].state = s.update[e].state
      BY <1>3, <1>4
    <3> QED BY <3>1 DEF Ended
  <2>2. ASSUME NEW e \in Ended(s) PROVE s1.update[e].agent = s.update[e].agent
    <3>1. e \in Numbers
      BY DEF Ended
    <3>2. CASE e = d
      BY <1>3, <1>4, <3>2
    <3>3. CASE e # d
      BY <1>3, <3>1, <3>3
    <3> QED BY <3>2, <3>3
  <2> QED BY <2>1, <2>2, <1>2, LastAgentStays
<1>6. \A b : Owns(s1, b) <=> Owns(s, b)
  BY <1>2, <1>5 DEF Owns
<1> HIDE DEF r1, r0
<1>7. t \in (IF a \in PocketAgents             THEN StartsPocket(s1, d, mine)
             ELSE IF same /\ UpIn(s1, mine.session) THEN {FollowsUp(s1, d, mine.session)}
             ELSE {Prepares(s1, d, IF same THEN mine ELSE NoRow)})
  <2>1. t \in Begins(s1, d)
    BY Zenon DEF Started
  <2>2. s1.update[d].agent = a
    BY <1>3, <1>4
  <2> HIDE DEF s1, s0
  <2> QED BY <2>1, <2>2, Zenon DEF Begins
<1>8. (same <=> MayContinue(s, d)) /\ (Owns(s, a) => mine = s.memo)
  BY <1>2, <1>3, <1>4, <1>6 DEF MayContinue, NoRow, NoTree, Tree, Folders
<1>9. \A b : Owns(s, b) => s.memo.there
  BY DEF Owns
<1> HIDE DEF s0, s1
<1>10. CASE a \in PocketAgents
  <2>1. t \in StartsPocket(s1, d, mine)
    BY <1>7, <1>10
  <2>2. mine \in Rows /\ (Owns(s, a) => mine = s.memo) /\ (~Owns(s, a) => mine.chat = Nil)
    BY <1>2, <1>6, NumbersAre DEF States, Rows, NoRow, NoTree, Tree, Trees
  <2> HIDE DEF mine, r, a
  <2> DEFINE r2 == s1.update[d]
             chat == IF mine.chat = Nil \/ mine.chat \in lost THEN d ELSE mine.chat
             q == [r2 EXCEPT !.state = "running", !.chat = chat]
             w == IF chat = d THEN [s1.work[d] EXCEPT !.agent = q.agent] ELSE s1.work[d]
             z == [s1 EXCEPT !.update[d] = q, !.work[d] = w]
             y == [s1 EXCEPT !.update[d].state = "failed"]
  <2>3. t = Remembers(z, d, "chat", chat) \/ t = y
    BY <2>1, Zenon DEF StartsPocket
  <2>4. /\ r2 \in Runs /\ r2 = r1 /\ s1.update \in [Numbers -> Runs] /\ s1.work \in [Numbers -> Works]
        /\ s1.work[d] \in Works
    BY <1>2, <1>3 DEF States
  <2>5. chat \in Numbers /\ (chat = d \/ (Owns(s, a) /\ chat = s.memo.chat))
    BY <2>2, NumbersAre DEF Rows
  <2>6. CASE t = y
    <3> DEFINE f == [r2 EXCEPT !.state = "failed"]
               U == [s1.update EXCEPT ![d] = f]
    <3>1. t = [s1 EXCEPT !.update = U]
      BY <2>6
    <3> HIDE DEF y, r2
    <3>2. /\ f \in Runs /\ SameWish(r2, f) /\ f.started = r2.started /\ f.id = r2.id
          /\ f.tree = r2.tree /\ f.state = "failed" /\ f.session = r2.session /\ f.holds = r2.holds
          /\ f.chat = r2.chat /\ f.resume = r2.resume /\ f.reuse = r2.reuse
      BY <2>4 DEF Runs, Stages, SameWish
    <3> HIDE DEF f
    <3>3. U \in [Numbers -> Runs] /\ U[d] = f /\ \A e \in Numbers \ {d} : U[e] = s1.update[e]
      BY <2>4, <3>2
    <3> HIDE DEF U
    <3>4. /\ t \in States /\ t.update = U /\ t.memo = s1.memo /\ t.work = s1.work
          /\ t.clock = s1.clock /\ t.recheck = s1.recheck
      BY <1>2, <3>1, <3>3, SetUpdate
    <3>5. Begun(s, t, d, h) /\ t.update[d].holds = h
      BY <3>2, <3>3, <3>4, <2>4, <1>2, <1>3, <1>4 DEF Begun, SameWish, r, a
    <3>6. AsRefused(s, t, d)
      BY <3>2, <3>3, <3>4, <2>4, <1>2, <1>4, <1>10 DEF AsRefused, r, a
    <3> QED BY <3>5, <3>6 DEF Start
  <2>7. CASE t = Remembers(z, d, "chat", chat)
    <3> HIDE DEF chat
    <3>1. /\ q \in Runs /\ SameWish(r2, q) /\ q.started = r2.started /\ q.id = r2.id
          /\ q.tree = r2.tree /\ q.state = "running" /\ q.session = r2.session /\ q.holds = r2.holds
          /\ q.chat = chat /\ q.resume = r2.resume /\ q.reuse = r2.reuse
      <4> HIDE DEF r2
      <4> QED BY <2>4, <2>5, NumbersAre DEF Runs, Stages, SameWish
    <3>2. q.agent = a
      BY <3>1, <2>4, <1>4 DEF SameWish
    <3>3. w = IF chat = d THEN [s1.work[d] EXCEPT !.agent = a] ELSE s1.work[d]
      BY <3>2
    <3> HIDE DEF q
    <3>4. w \in Works
      BY <2>4, <3>2, <1>10, AgentsAre DEF Works
    <3> HIDE DEF w
    <3> DEFINE U == [s1.update EXCEPT ![d] = q]
               W == [s1.work EXCEPT ![d] = w]
    <3>5. z = [s1 EXCEPT !.update = U, !.work = W]
      OBVIOUS
    <3> HIDE DEF z, r2
    <3>6. U \in [Numbers -> Runs] /\ U[d] = q /\ \A e \in Numbers \ {d} : U[e] = s1.update[e]
      BY <2>4, <3>1
    <3>7. W \in [Numbers -> Works] /\ W[d] = w /\ \A e \in Numbers \ {d} : W[e] = s1.work[e]
      BY <2>4, <3>4
    <3> HIDE DEF U, W
    <3>8. z \in States /\ z.update = U /\ z.work = W /\ z.memo = s1.memo /\ z.clock = s1.clock /\ z.recheck = s1.recheck
      BY <1>2, <3>5, <3>6, <3>7 DEF States
    <3>9. Ended(z) = Ended(s) /\ \A e \in Ended(s) : z.update[e].agent = s.update[e].agent
      BY <3>1, <3>6, <3>8, <1>3, <2>4 DEF Ended, r
    <3>10. LastAgent(z) = LastAgent(s)
      BY <3>8, <3>9, LastAgentStays
    <3>11. z.update[d].agent = a /\ (Owns(z, a) <=> Owns(s, a)) /\ a \in Agents
      BY <3>2, <3>6, <3>8, <3>10, <1>2 DEF Owns, a, r
    <3>12. Noted(z, t, d, "chat", chat)
      BY <2>5, <2>7, <3>8, <3>11, NumbersAre, RememberIs
    <3>13. Begun(s, t, d, h) /\ t.update[d].holds = h
      BY <3>1, <3>6, <3>8, <3>12, <2>4, <1>2, <1>3, <1>4 DEF Begun, SameWish, Noted, r, a
    <3>14. AsChat(s, t, d)
      <4>1. z.update[d].folder = r.folder /\ z.update[d].started = s.clock + 1
        BY <3>1, <3>6, <3>8, <2>4, <1>4 DEF SameWish
      <4>2. /\ t.memo.there /\ t.memo.agent = a /\ t.memo.chat = chat
            /\ t.memo.session = IF Owns(s, a) THEN s.memo.session ELSE Nil
            /\ t.memo.id = IF Owns(s, a) THEN s.memo.id ELSE Nil
            /\ t.memo.tree = IF Owns(s, a) THEN s.memo.tree ELSE Tree(r.folder, Nil)
            /\ t.memo.born = IF Owns(s, a) THEN s.memo.born ELSE s.clock + 1
        BY <4>1, <3>8, <3>11, <3>12, <1>2 DEF Noted
      <4>3. SameWork(s, t, {d}) /\ t.work[d] = w
        BY <3>7, <3>8, <3>12, <1>2 DEF SameWork, Noted
      <4>4. /\ t.update[d].state = "running" /\ t.update[d].session = r.session /\ t.update[d].chat = chat
            /\ t.update[d].resume = r.resume /\ t.update[d].reuse = r.reuse
        BY <3>1, <3>6, <3>8, <3>12, <2>4, <1>4 DEF Noted
      <4> QED BY <4>2, <4>3, <4>4, <3>3, <2>5, <1>2, <1>10 DEF AsChat, r, a
    <3> QED BY <3>13, <3>14 DEF Start
  <2> QED BY <2>3, <2>6, <2>7
<1>11. CASE a \notin PocketAgents /\ same /\ UpIn(s1, mine.session)
  <2>1. MayContinue(s, d) /\ mine = s.memo /\ t = FollowsUp(s1, d, s.memo.session)
    BY <1>7, <1>8, <1>11 DEF MayContinue
  <2>2. s.memo.session \in Numbers /\ s.work[s.memo.session].up
    BY <1>2, <1>11, <2>1, NumbersAre DEF UpIn, States, Rows
  <2>3. Owns(s1, s1.update[d].agent) /\ s1.update[d].agent = a
    BY <1>3, <1>4, <1>6, <2>1 DEF MayContinue
  <2> HIDE DEF same, mine, r, a
  <2>4. s1.update[d].state = s.update[d].state
    BY <1>3, <1>4 DEF r
  <2>5. FollowsAs(s1, t, d, s.memo.session)
    BY <1>2, <2>1, <2>2, <2>3, <2>4, FollowsUpIs DEF a, r
  <2>6. Begun(s, t, d, h)
    <3>1. /\ t \in States /\ t.clock = s1.clock /\ t.recheck = s1.recheck
          /\ \A e \in Numbers \ {d} : t.update[e] = s1.update[e]
          /\ SameWish(s1.update[d], t.update[d])
          /\ t.update[d].started = s1.update[d].started /\ t.update[d].id = s1.update[d].id
          /\ t.update[d].tree = s1.update[d].tree
      BY <2>5 DEF FollowsAs
    <3> QED BY <3>1, <1>2, <1>3, <1>4 DEF Begun, SameWish, r, a
  <2>7. AsFollowUp(s, t, d)
    <3>1. /\ a \notin PocketAgents /\ MayContinue(s, d) /\ t.work[s.memo.session].up
          /\ s.memo.session \in Numbers /\ s.work[s.memo.session].up
      BY <2>1, <2>2, <2>5, <1>2, <1>11 DEF FollowsAs
    <3>2. s1.update[d].resume = r.resume /\ s1.update[d].reuse = r.reuse /\ s1.update[d].chat = r.chat
          /\ s1.update[d].agent = r.agent
      BY <1>3, <1>4 DEF a
    <3>3. SameWork(s, t, {s.memo.session})
      BY <2>5, <1>2 DEF FollowsAs, SameWork
    <3>4. s1.memo = s.memo /\ s1.work = s.work
      BY <1>2
    <3>5. PICK n : n = s.memo.session
      OBVIOUS
    <3>6. /\ t.update[d].state = "running" /\ t.update[d].session = n /\ ~t.update[d].holds
          /\ t.update[d].resume = r.resume /\ t.update[d].reuse = r.reuse
          /\ t.update[d].chat = r.chat
          /\ t.work[n].busy /\ t.work[n].watchers = s.work[n].watchers \cup {d}
          /\ t.work[n].agent = s.work[n].agent /\ t.work[n].tree = s.work[n].tree
          /\ t.work[n].id = s.work[n].id
      BY <2>5, <3>2, <3>4, <3>5 DEF FollowsAs
    <3>7. /\ t.memo.there /\ t.memo.agent = r.agent /\ t.memo.session = n /\ t.memo.id = s.memo.id
          /\ t.memo.chat = s.memo.chat /\ t.memo.tree = s.memo.tree /\ t.memo.born = s.memo.born
      BY <2>5, <3>2, <3>4, <3>5 DEF FollowsAs
    <3> QED BY <3>1, <3>3, <3>5, <3>6, <3>7 DEF AsFollowUp, r, a
  <2> QED BY <2>6, <2>7 DEF Start
<1>12. CASE a \notin PocketAgents /\ ~(same /\ UpIn(s1, mine.session))
  <2> DEFINE m == IF MayContinue(s, d) THEN s.memo ELSE NoRow
  <2>1. t = Prepares(s1, d, m)
    BY <1>7, <1>8, <1>12 DEF MayContinue
  <2>2. m \in Rows
    BY NumbersAre DEF States, Rows, NoRow, NoTree, Tree, Trees
  <2>3. MayContinue(s, d) => ~UpIn(s, s.memo.session)
    BY <1>2, <1>8, <1>12 DEF MayContinue, UpIn
  <2>4. m.id = (IF MayContinue(s, d) THEN s.memo.id ELSE Nil) /\ (m.id # Nil => m.tree = s.memo.tree)
    BY DEF NoRow
  <2> HIDE DEF m, same, mine, r, a
  <2>5. PreparesAs(s1, t, d, m)
    BY <1>2, <2>1, <2>2, PreparesIs
  <2>6. Begun(s, t, d, h)
    BY <2>5, <1>2, <1>3, <1>4 DEF Begun, SameWish, PreparesAs, r, a
  <2>7. AsNew(s, t, d, h)
    BY <2>3, <2>4, <2>5, <1>2, <1>3, <1>4, <1>12 DEF AsNew, PreparesAs, r, a
  <2> QED BY <2>6, <2>7 DEF Start
<1> QED BY <1>10, <1>11, <1>12
----------------------------------------------------------------------------
(* Every step of a handler keeps the state fit.                            *)

\* Sessions and chats do not change hands.
HandsKept(s, t) == \A n \in Numbers : s.work[n].agent # "none" => t.work[n].agent = s.work[n].agent

(* An agent may go on with what it may take up while the sessions stay in  *)
(* the same hands.                                                         *)
LEMMA MayStill ==
  ASSUME NEW s, NEW t, HandsKept(s, t), NEW a, a # "none", NEW n \in Ids, May(s, a, n)
  PROVE  May(t, a, n)
BY NumbersAre DEF HandsKept, May

(* The owner of the row may take up what the row names.                    *)
LEMMA OwnerMay ==
  ASSUME NEW s, Fit(s), NEW a \in Agents, Owns(s, a)
  PROVE  May(s, a, s.memo.session) /\ May(s, a, s.memo.id) /\ May(s, a, s.memo.chat)
<1>1. FitRow(s) /\ s \in States /\ s.memo.there
  BY DEF Fit, Owns
<1>2. CASE s.memo.agent = a
  BY <1>1, <1>2 DEF FitRow
<1>3. CASE s.memo.agent = Unknown
  <2>1. \A n \in Numbers : s.work[n].agent # Unknown
    BY <1>1, AgentsAre DEF States, Works, Unknown
  <2>2. s.memo.session \in Ids /\ s.memo.id \in Ids /\ s.memo.chat \in Ids
    BY <1>1 DEF States, Rows
  <2> QED BY <1>1, <1>3, <2>1, <2>2, NumbersAre DEF FitRow, May
<1> QED BY <1>2, <1>3 DEF Owns

(* No row is fit.                                                           *)
LEMMA RowEmpty ==
  ASSUME NEW t, t.memo = NoRow, t.clock \in Nat
  PROVE  FitRow(t)
<1>1. NoRow.session = Nil /\ NoRow.id = Nil /\ NoRow.chat = Nil /\ NoRow.agent = "none"
      /\ NoRow.there = FALSE /\ NoRow.born = 0
  BY DEF NoRow
<1>2. "none" # Unknown
  BY DEF Unknown
<1>3. \A n : n = Nil => May(t, "none", n)
  BY DEF May
<1>4. 0 <= t.clock
  OBVIOUS
<1> QED BY <1>1, <1>2, <1>3, <1>4 DEF FitRow

(* A row stays fit while what it names stays whose it was and who made it.  *)
LEMMA RowKept ==
  ASSUME NEW s, NEW t, FitRow(s), s \in States, t.memo = s.memo, HandsKept(s, t),
         \A n \in Numbers : Made(s, n) => Made(t, n), t.clock \in Nat, s.clock <= t.clock
  PROVE  FitRow(t)
<1>1. /\ s.memo.session \in Ids /\ s.memo.id \in Ids /\ s.memo.chat \in Ids
      /\ s.memo.born \in Nat /\ s.clock \in Nat
  BY DEF States, Rows
<1>2. s.memo.agent = "none" => ~s.memo.there
  BY AgentsAre DEF FitRow, Unknown
<1>3. CASE s.memo.there
  <2>1. /\ May(t, s.memo.agent, s.memo.session) /\ May(t, s.memo.agent, s.memo.id)
        /\ May(t, s.memo.agent, s.memo.chat)
    BY <1>1, <1>2, <1>3, MayStill DEF FitRow
  <2>2. s.memo.born <= t.clock
    BY <1>1 DEF FitRow
  <2>3. s.memo.session # Nil => s.memo.session # Old /\ Made(t, s.memo.session)
    BY <1>1, NumbersAre DEF FitRow
  <2>4. s.memo.agent \in Agents \cup {Unknown} /\ (s.memo.agent = Unknown => s.memo = issueLeft.row)
    BY <1>3 DEF FitRow
  <2> QED BY <1>3, <2>1, <2>2, <2>3, <2>4 DEF FitRow
<1>4. CASE ~s.memo.there
  <2>1. t.memo = NoRow
    BY <1>4 DEF FitRow
  <2> QED BY <2>1, RowEmpty
<1> QED BY <1>3, <1>4

(* A row of a known agent is fit when what it names is that agent's.        *)
LEMMA RowOwned ==
  ASSUME NEW t, t.memo.there, t.memo.agent \in Agents,
         May(t, t.memo.agent, t.memo.session), May(t, t.memo.agent, t.memo.id),
         May(t, t.memo.agent, t.memo.chat),
         t.memo.session # Nil => t.memo.session # Old /\ Made(t, t.memo.session),
         t.memo.born <= t.clock
  PROVE  FitRow(t)
<1>1. t.memo.agent # Unknown
  BY AgentsAre
<1> QED BY <1>1 DEF FitRow

\* A delivery that may start, granted its tree or not.
Ready(s, d, h) ==
    LET r == s.update[d] IN
    /\ d \in Numbers \ {Old} /\ h \in BOOLEAN /\ r.state \in {"none", "waiting"}
    /\ r.agent \in Agents /\ r.folder \in Folders
    /\ h => /\ r.key # NoTree /\ r.agent \in CodingAgents
            /\ \A e \in Numbers : ~(s.update[e].holds /\ s.update[e].key = r.key)

(* Starting a delivery takes nothing out of the hands of its agent.        *)
LEMMA StartHands ==
  ASSUME NEW s, NEW t, NEW d, NEW h, Fit(s), Ready(s, d, h), Start(s, t, d, h)
  PROVE  HandsKept(s, t)
<1>1. s.work[d] = NoWork
  BY DEF Fit, FitRun, Ready
<1>2. CASE AsFollowUp(s, t, d)
  BY <1>2 DEF AsFollowUp, SameWork, HandsKept
<1>3. CASE AsNew(s, t, d, h)
  BY <1>3 DEF AsNew, HandsKept
<1>4. CASE AsChat(s, t, d)
  BY <1>1, <1>4 DEF AsChat, SameWork, HandsKept, NoWork
<1>5. CASE AsRefused(s, t, d)
  BY <1>5 DEF AsRefused, HandsKept
<1> QED BY <1>2, <1>3, <1>4, <1>5 DEF Start

(* A start leaves a row that fits,                                         *)
LEMMA StartRow ==
  ASSUME NEW s, NEW t, NEW d, NEW h, Fit(s), Ready(s, d, h), Start(s, t, d, h)
  PROVE  FitRow(t)
<1> DEFINE a == s.update[d].agent
<1>1. s \in States /\ t \in States /\ FitRow(s) /\ a \in Agents /\ d \in Numbers
  BY DEF Fit, Ready, Start, Begun
<1>2. HandsKept(s, t)
  BY StartHands
<1>3. s.update[d].session = Nil
  BY DEF Fit, FitRun, Ready
<1>4. t.clock = s.clock + 1 /\ \A e \in Numbers \ {d} : t.update[e] = s.update[e]
  BY DEF Start, Begun
<1>5. \A n \in Numbers : Made(s, n) => Made(t, n)
  BY <1>3, <1>4, NumbersAre DEF Made
<1>6. /\ s.memo.session \in Ids /\ s.memo.id \in Ids /\ s.memo.chat \in Ids
      /\ s.memo.born \in Nat /\ s.clock \in Nat
  BY <1>1 DEF States, Rows
<1>7. Owns(s, a) => /\ s.memo.there
                    /\ May(t, a, s.memo.session) /\ May(t, a, s.memo.id) /\ May(t, a, s.memo.chat)
  <2> HIDE DEF a
  <2> QED BY <1>1, <1>2, <1>6, OwnerMay, MayStill, AgentsAre DEF Owns
<1>8. a # Unknown /\ a # "none"
  BY <1>1, AgentsAre
<1>9. CASE t.memo = s.memo
  BY <1>1, <1>2, <1>4, <1>5, <1>6, <1>9, RowKept
<1>0. s.memo.session # Nil => s.memo.session # Old /\ Made(t, s.memo.session)
  BY <1>1, <1>5, <1>6, NumbersAre DEF FitRow
<1>12. s.memo.born <= t.clock /\ s.clock + 1 <= t.clock
  BY <1>1, <1>4, <1>6 DEF FitRow
<1>10. CASE AsFollowUp(s, t, d)
  <2>1. /\ t.memo.there /\ t.memo.agent = a /\ t.memo.session = s.memo.session /\ t.memo.id = s.memo.id
        /\ t.memo.chat = s.memo.chat /\ t.memo.born = s.memo.born /\ Owns(s, a)
    BY <1>10 DEF AsFollowUp, MayContinue
  <2> HIDE DEF a
  <2> QED BY <2>1, <1>0, <1>1, <1>7, <1>12, RowOwned
<1>11. CASE AsChat(s, t, d)
  <2>1. May(t, a, t.memo.chat)
    <3>1. CASE t.memo.chat = d
      <4>1. t.work[d].agent = a
        <5>1. s.work[d] \in Works
          BY <1>1 DEF States
        <5> QED BY <3>1, <5>1, <1>11 DEF AsChat, Works
      <4> QED BY <3>1, <4>1 DEF May
    <3>2. CASE t.memo.chat # d
      BY <1>7, <1>11, <3>2 DEF AsChat
    <3> QED BY <3>1, <3>2
  <2>2. May(t, a, Nil)
    BY DEF May
  <2>3. /\ t.memo.there /\ t.memo.agent = a
        /\ t.memo.session = IF Owns(s, a) THEN s.memo.session ELSE Nil
        /\ t.memo.id = IF Owns(s, a) THEN s.memo.id ELSE Nil
        /\ t.memo.born = IF Owns(s, a) THEN s.memo.born ELSE s.clock + 1
    BY <1>11 DEF AsChat
  <2> HIDE DEF a
  <2> QED BY <2>1, <2>2, <2>3, <1>0, <1>1, <1>7, <1>12, RowOwned
<1> QED BY <1>9, <1>10, <1>11 DEF Start, AsNew, AsRefused

(* A delivery that nothing happens to stays fit.                            *)
LEMMA RunKept ==
  ASSUME NEW s, NEW t, NEW e \in Numbers, s \in States, FitRun(s, e), t.update[e] = s.update[e],
         HandsKept(s, t), \A n \in Numbers : Made(s, n) => Made(t, n),
         t.clock \in Nat, s.clock <= t.clock,
         e # Old /\ s.update[e].state \in {"none", "waiting", "skipped", "preparing", "creating"}
            => t.work[e] = NoWork
  PROVE  FitRun(t, e)
<1> DEFINE r == s.update[e]
<1>1. /\ r.received \in Nat /\ r.started \in Nat /\ s.clock \in Nat
      /\ r.session \in Ids /\ r.resume \in Ids /\ r.chat \in Ids
  BY DEF States, Runs
<1>2. r.received <= t.clock /\ r.started <= t.clock
  <2>1. r.received <= s.clock /\ r.started <= s.clock
    BY DEF FitRun
  <2> HIDE DEF r
  <2> QED BY <2>1, <1>1
<1>3. May(t, r.agent, r.session) /\ May(t, r.agent, r.resume) /\ May(t, r.agent, r.chat)
  <2>1. CASE r.agent # "none"
    <3>1. May(s, r.agent, r.session) /\ May(s, r.agent, r.resume) /\ May(s, r.agent, r.chat)
      BY DEF FitRun
    <3> HIDE DEF r
    <3> QED BY <3>1, <2>1, <1>1, MayStill
  <2>2. CASE r.agent = "none"
    <3>1. r.session = Nil /\ r.resume = Nil /\ r.chat = Nil
      BY <2>2, AgentsAre DEF FitRun
    <3> QED BY <3>1 DEF May
  <2> QED BY <2>1, <2>2
<1>4. r.session # Nil => r.session # Old /\ Made(t, r.session)
  BY <1>1, NumbersAre DEF FitRun
<1> QED BY <1>2, <1>3, <1>4 DEF FitRun

(* deliveries that fit,                                                    *)
LEMMA StartRun ==
  ASSUME NEW s, NEW t, NEW d, NEW h, Fit(s), Ready(s, d, h), Start(s, t, d, h), NEW e \in Numbers
  PROVE  FitRun(t, e)
<1> DEFINE a == s.update[d].agent
<1>1. s \in States /\ t \in States /\ FitRun(s, e) /\ FitRun(s, d) /\ a \in Agents /\ d \in Numbers /\ d # Old
  BY DEF Fit, Ready, Start, Begun
<1>2. HandsKept(s, t)
  BY StartHands
<1>3. /\ s.update[d].session = Nil /\ s.update[d].id = Nil /\ s.update[d].chat = Nil /\ s.update[d].resume = Nil
      /\ s.update[d].reuse = NoTree /\ s.update[d].tree = NoTree /\ s.work[d] = NoWork
  BY DEF Fit, FitRun, Ready
<1>4. t.clock = s.clock + 1 /\ \A f \in Numbers \ {d} : t.update[f] = s.update[f]
  BY DEF Start, Begun
<1>5. \A n \in Numbers : Made(s, n) => Made(t, n)
  BY <1>3, <1>4, NumbersAre DEF Made
<1>6. /\ s.update[e] \in Runs /\ s.update[d] \in Runs /\ t.update[d] \in Runs /\ s.clock \in Nat
      /\ s.update[e].received \in Nat /\ s.update[e].started \in Nat
      /\ s.update[d].received \in Nat /\ s.update[d].started \in Nat
      /\ s.update[e].session \in Ids /\ s.update[e].resume \in Ids /\ s.update[e].chat \in Ids
  BY <1>1 DEF States, Runs
<1>7. CASE e # d
  <2>1. t.update[e] = s.update[e]
    BY <1>4, <1>7
  <2>5. e # Old /\ s.update[e].state \in {"none", "waiting", "skipped", "preparing", "creating"} => t.work[e] = NoWork
    <3>1. SUFFICES ASSUME e # Old, s.update[e].state \in {"none", "waiting", "skipped", "preparing", "creating"}
                   PROVE  t.work[e] = s.work[e]
      BY <1>1 DEF FitRun
    <3>2. s.update[e].session # e
      BY <1>1, <3>1, NumbersAre DEF FitRun
    <3>3. ~s.work[e].up
      BY <3>2 DEF Fit, FitWork, Made
    <3>4. CASE AsFollowUp(s, t, d)
      BY <3>3, <3>4 DEF AsFollowUp, SameWork
    <3>5. CASE AsNew(s, t, d, h) \/ AsRefused(s, t, d)
      BY <3>5 DEF AsNew, AsRefused
    <3>6. CASE AsChat(s, t, d)
      BY <1>7, <3>6 DEF AsChat, SameWork
    <3> QED BY <3>4, <3>5, <3>6 DEF Start
  <2>6. t.clock \in Nat /\ s.clock <= t.clock
    BY <1>4, <1>6
  <2> QED BY <1>1, <1>2, <1>5, <2>1, <2>5, <2>6, RunKept
<1>8. CASE e = d
  <2>1. /\ t.update[d].received <= t.clock /\ t.update[d].started <= t.clock
        /\ t.update[d].agent = a /\ t.update[d].folder = s.update[d].folder
        /\ t.update[d].key = s.update[d].key /\ t.update[d].id = Nil /\ t.update[d].tree = NoTree
    BY <1>1, <1>3, <1>4, <1>6 DEF Start, Begun, SameWish, FitRun
  <2>2. /\ a \in Agents /\ s.update[d].folder \in Folders
        /\ h => s.update[d].key # NoTree /\ a \in CodingAgents
    BY DEF Ready
  <2>3. May(t, a, Nil)
    BY DEF May
  <2>4. CASE AsFollowUp(s, t, d)
    <3>1. May(t, a, s.memo.session) /\ s.memo.session # Old /\ Made(t, s.memo.session)
      <4>1. Owns(s, a) /\ s.memo.session \in Numbers
        BY <2>4 DEF AsFollowUp, MayContinue
      <4>2. May(s, a, s.memo.session) /\ s.memo.session \in Ids /\ FitRow(s)
        BY <4>1, <1>1, OwnerMay, NumbersAre DEF Fit
      <4> QED BY <4>1, <4>2, <1>1, <1>2, <1>5, MayStill, AgentsAre, NumbersAre DEF FitRow
    <3>2. /\ t.update[d].state = "running" /\ t.update[d].session = s.memo.session
          /\ ~t.update[d].holds /\ t.update[d].resume = Nil /\ t.update[d].reuse = NoTree
          /\ t.update[d].chat = Nil /\ s.memo.session \in Numbers
      BY <1>3, <2>4 DEF AsFollowUp
    <3>3. s.memo.session # Nil
      BY <3>2, NumbersAre
    <3> QED BY <1>1, <1>8, <2>1, <2>2, <2>3, <3>1, <3>2, <3>3 DEF FitRun
  <2>5. CASE AsNew(s, t, d, h)
    <3>1. May(t, a, t.update[d].resume)
      <4>1. CASE MayContinue(s, d)
        <5>1. t.update[d].resume = s.memo.id /\ May(s, a, s.memo.id) /\ s.memo.id \in Ids
          BY <2>5, <4>1, <1>1, OwnerMay DEF AsNew, MayContinue, States, Rows
        <5> QED BY <5>1, <1>1, <1>2, MayStill, AgentsAre
      <4>2. CASE ~MayContinue(s, d)
        BY <2>5, <4>2, <2>3 DEF AsNew
      <4> QED BY <4>1, <4>2
    <3>2. t.work[d] = NoWork
      BY <1>3, <2>5 DEF AsNew
    <3>3. t.update[d].state = "preparing" /\ t.update[d].session = Nil /\ t.update[d].chat = Nil
          /\ (t.update[d].resume = Nil => t.update[d].reuse = NoTree) /\ t.update[d].holds = h
      BY <1>3, <2>5 DEF AsNew
    <3> QED BY <1>1, <1>8, <2>1, <2>2, <2>3, <3>1, <3>2, <3>3 DEF FitRun
  <2>6. CASE a \in PocketAgents /\ t.update[d].holds = h /\ (AsChat(s, t, d) \/ AsRefused(s, t, d))
    <3>1. ~t.update[d].holds
      BY <2>2, <2>6, AgentsAre, <1>6 DEF Runs, Ready
    <3>2. CASE AsChat(s, t, d)
      <4>1. FitRow(t)
        BY StartRow
      <4>2. /\ t.memo.agent = a /\ t.memo.chat = t.update[d].chat /\ t.update[d].state = "running"
            /\ t.update[d].chat \in Numbers /\ t.update[d].session = Nil /\ t.update[d].resume = Nil
        BY <1>1, <1>3, <3>2 DEF AsChat
      <4>3. May(t, a, t.update[d].chat)
        BY <4>1, <4>2 DEF FitRow
      <4> QED BY <1>1, <1>8, <2>1, <2>2, <2>3, <3>1, <4>2, <4>3, NumbersAre DEF FitRun
    <3>3. CASE AsRefused(s, t, d)
      <4>1. /\ t.update[d].state = "failed" /\ t.update[d].session = Nil /\ t.update[d].resume = Nil
            /\ t.update[d].chat = Nil
        BY <1>3, <3>3 DEF AsRefused
      <4> QED BY <1>1, <1>8, <2>1, <2>2, <2>3, <3>1, <4>1 DEF FitRun
    <3> QED BY <2>6, <3>2, <3>3
  <2> QED BY <2>4, <2>5, <2>6 DEF Start, AsChat, AsRefused
<1> QED BY <1>7, <1>8

(* sessions that fit,                                                      *)
LEMMA StartWork ==
  ASSUME NEW s, NEW t, NEW d, NEW h, Fit(s), Ready(s, d, h), Start(s, t, d, h), NEW n \in Numbers
  PROVE  FitWork(t, n)
<1> DEFINE a == s.update[d].agent
<1>1. s \in States /\ t \in States /\ FitWork(s, n) /\ a \in Agents /\ d \in Numbers /\ d # Old
  BY DEF Fit, Ready, Start, Begun
<1>2. /\ s.update[d].session = Nil /\ s.work[d] = NoWork /\ s.update[d].state \in {"none", "waiting"}
      /\ s.update[d].resume = Nil
  BY DEF Fit, FitRun, Ready
<1>3. t.clock = s.clock + 1 /\ \A f \in Numbers \ {d} : t.update[f] = s.update[f]
  BY DEF Start, Begun
<1>4. ~Made(t, d) /\ ~Made(s, d)
  <2>1. ~Made(s, d)
    BY <1>1, <1>2, NumbersAre DEF Made
  <2>2. CASE AsFollowUp(s, t, d)
    <3>1. Made(s, s.memo.session)
      BY <2>2 DEF AsFollowUp, Fit, FitWork
    <3>2. s.memo.session # d
      BY <2>1, <3>1
    <3> QED BY <2>1, <2>2, <3>2 DEF AsFollowUp, Made
  <2>3. CASE AsNew(s, t, d, h) \/ AsChat(s, t, d) \/ AsRefused(s, t, d)
    <3>1. t.update[d].session = s.update[d].session
      BY <2>3 DEF AsNew, AsChat, AsRefused
    <3> QED BY <2>1, <3>1 DEF Made
  <2> QED BY <2>2, <2>3 DEF Start
<1>5. n # d => (Made(t, n) <=> Made(s, n)) /\ t.update[n] = s.update[n]
  BY <1>3 DEF Made
<1>6. \A e \in s.work[n].watchers : e # d /\ t.update[e] = s.update[e] /\ e \in Numbers
  BY <1>1, <1>2, <1>3 DEF FitWork, States, Works
<1>7. CASE t.work[n] = s.work[n]
  <2>1. n = d => ~t.work[n].up
    BY <1>2, <1>7 DEF NoWork
  <2> QED BY <1>1, <1>4, <1>5, <1>6, <1>7, <2>1 DEF FitWork
<1>8. CASE AsFollowUp(s, t, d) /\ n = s.memo.session
  <2>1. /\ t.work[n].up /\ t.work[n].busy /\ t.work[n].watchers = s.work[n].watchers \cup {d}
        /\ t.work[n].agent = s.work[n].agent /\ t.work[n].tree = s.work[n].tree
        /\ t.work[n].id = s.work[n].id /\ t.update[d].state = "running" /\ t.update[d].session = n
        /\ s.work[n].up
    BY <1>8 DEF AsFollowUp
  <2>2. n # d /\ n # Old /\ s.work[n].agent # "none"
    BY <1>1, <1>2, <2>1 DEF NoWork, FitWork
  <2> QED BY <1>1, <1>5, <1>6, <2>1, <2>2 DEF FitWork
<1>9. CASE AsChat(s, t, d) /\ n = d /\ t.update[d].chat = d
  <2>1. t.work[n] = [NoWork EXCEPT !.agent = a]
    BY <1>2, <1>9 DEF AsChat
  <2>2. /\ ~t.work[n].up /\ ~t.work[n].busy /\ t.work[n].watchers = {} /\ t.work[n].agent = a
    BY <2>1 DEF NoWork
  <2> QED BY <1>1, <1>4, <1>9, <2>2, AgentsAre DEF FitWork
<1> QED BY <1>7, <1>8, <1>9 DEF Start, AsFollowUp, AsNew, AsChat, AsRefused, SameWork

(* and so a state that fits.                                               *)
LEMMA StartFit ==
  ASSUME NEW s, NEW t, NEW d, NEW h, Fit(s), Ready(s, d, h), Start(s, t, d, h)
  PROVE  Fit(t)
<1>1. t \in States /\ s \in States /\ d \in Numbers
  BY DEF Start, Begun, Ready, Fit
<1>2. /\ \A f \in Numbers \ {d} : t.update[f] = s.update[f]
      /\ t.update[d].key = s.update[d].key /\ t.recheck = s.recheck
  BY DEF Start, Begun, SameWish
<1>3. t.update[d].state \notin {"none", "waiting"} /\ (t.update[d].holds => h)
  BY DEF Start, AsFollowUp, AsNew, AsChat, AsRefused
<1>4. \A e, f \in Numbers : t.update[e].state = "waiting" /\ t.update[f].state = "waiting" => e = f
  BY <1>2, <1>3 DEF Fit
<1>5. \A e, f \in Numbers : t.update[e].holds /\ t.update[f].holds /\ t.update[e].key = t.update[f].key => e = f
  BY <1>2, <1>3 DEF Fit, Ready
<1>6. \A e \in t.recheck : t.update[e].state = "failed"
  <2>1. d \notin s.recheck /\ s.recheck \subseteq Numbers
    BY DEF Fit, Ready, States
  <2> QED BY <1>2, <2>1 DEF Fit
<1>7. \A e \in Numbers : FitRun(t, e) /\ FitWork(t, e)
  BY StartRun, StartWork
<1>8. FitRow(t)
  BY StartRow
<1> QED BY <1>1, <1>4, <1>5, <1>6, <1>7, <1>8 DEF Fit

(* Whoever is to hear of a session still does after a start.               *)
LEMMA StartListening ==
  ASSUME NEW s, NEW t, NEW d, NEW h, Fit(s), Ready(s, d, h), Start(s, t, d, h),
         NEW X \in SUBSET Numbers, Listening(s, X)
  PROVE  Listening(t, X)
<1> SUFFICES ASSUME NEW e \in Numbers \ X, t.update[e].state = "running", t.update[e].session # Nil,
                    t.work[t.update[e].session].up
             PROVE  e \in t.work[t.update[e].session].watchers
  BY DEF Listening
<1>1. t \in States /\ s \in States /\ d \in Numbers /\ s.update[d].session = Nil /\ s.work[d] = NoWork
  BY DEF Start, Begun, Ready, Fit, FitRun
<1>2. \A f \in Numbers \ {d} : t.update[f] = s.update[f]
  BY DEF Start, Begun
<1>3. t.update[e].session \in Numbers
  BY <1>1, NumbersAre DEF States, Runs
<1>4. CASE e = d
  BY <1>1, <1>4 DEF Start, AsFollowUp, AsNew, AsChat, AsRefused
<1>5. CASE e # d
  <2>1. PICK n \in Numbers : n = t.update[e].session
    BY <1>3
  <2>2. /\ s.update[e].state = "running" /\ s.update[e].session = n /\ t.work[n].up
        /\ s.update[e].session # Nil
    BY <1>2, <1>5, <2>1
  <2>3. s.work[n].up => e \in s.work[n].watchers
    BY <2>2 DEF Listening
  <2>4. s.work[n].up /\ s.work[n].watchers \subseteq t.work[n].watchers
    <3>1. CASE AsFollowUp(s, t, d)
      <4>1. CASE n = s.memo.session
        BY <3>1, <4>1 DEF AsFollowUp
      <4>2. CASE n # s.memo.session
        BY <2>2, <3>1, <4>2 DEF AsFollowUp, SameWork
      <4> QED BY <4>1, <4>2
    <3>2. CASE AsNew(s, t, d, h) \/ AsRefused(s, t, d)
      BY <2>2, <3>2 DEF AsNew, AsRefused
    <3>3. CASE AsChat(s, t, d)
      <4>1. n # d
        <5>1. t.work[d].up = FALSE
          BY <1>1, <3>3 DEF AsChat, NoWork
        <5> QED BY <2>2, <5>1
      <4>2. t.work[n] = s.work[n]
        BY <3>3, <4>1 DEF AsChat, SameWork
      <4> QED BY <2>2, <4>2
    <3> QED BY <3>1, <3>2, <3>3 DEF Start
  <2> QED BY <2>1, <2>3, <2>4
<1> QED BY <1>4, <1>5
----------------------------------------------------------------------------
(* What ends and falls silent.                                             *)

\* Delivery q is r, over.
OverAs(r, q, how) ==
    /\ SameWish(r, q) /\ q.started = r.started /\ q.resume = r.resume /\ q.reuse = r.reuse
    /\ q.tree = r.tree /\ q.session = r.session /\ q.id = r.id /\ q.chat = r.chat
    /\ q.state = how /\ ~q.holds

CloseAs(s, t, ds, how) ==
    /\ \A d \in Numbers \ ds : t.update[d] = s.update[d]
    /\ \A d \in ds : OverAs(s.update[d], t.update[d], how)

ClosedAs(s, t, ds, how) ==
    /\ t \in States /\ t.memo = s.memo /\ t.work = s.work /\ t.clock = s.clock
    /\ t.recheck = s.recheck
    /\ CloseAs(s, t, ds, how)

Hits(s, ds) == {d \in ds : Resumed(s, d)}

FailedAs(s, t, ds) ==
    /\ t \in States /\ t.work = s.work /\ t.clock = s.clock
    /\ CloseAs(s, t, ds, "failed")
    /\ t.memo = IF ~UpIn(s, s.memo.session) /\ Hits(s, ds) # {} THEN NoRow ELSE s.memo
    /\ t.recheck = IF UpIn(s, s.memo.session) THEN s.recheck \cup Hits(s, ds) ELSE s.recheck

\* Session n falls silent, and stays up or not.
SilentAs(s, t, n, up) ==
    /\ t \in States /\ t.memo = s.memo /\ t.update = s.update /\ t.clock = s.clock
    /\ t.recheck = s.recheck /\ SameWork(s, t, {n})
    /\ t.work[n].up = up /\ ~t.work[n].busy /\ t.work[n].watchers = {}
    /\ t.work[n].agent = s.work[n].agent /\ t.work[n].tree = s.work[n].tree
    /\ t.work[n].id = s.work[n].id

(* A settled delivery keeps everything but its state and its grant.         *)
LEMMA ClosedIs ==
  ASSUME NEW s \in States, NEW ds \in SUBSET Numbers, NEW how \in {"succeeded", "failed"},
         NEW t, t = Closed(s, ds, how)
  PROVE  ClosedAs(s, t, ds, how)
<1> DEFINE over(d) == [s.update[d] EXCEPT !.state = how, !.holds = FALSE]
           U == [d \in Numbers |-> IF d \in ds THEN over(d) ELSE s.update[d]]
<1>1. s.update \in [Numbers -> Runs]
  BY DEF States
<1>2. \A d \in Numbers : over(d) \in Runs /\ OverAs(s.update[d], over(d), how)
  <2> SUFFICES ASSUME NEW d \in Numbers
               PROVE  over(d) \in Runs /\ OverAs(s.update[d], over(d), how)
    OBVIOUS
  <2> DEFINE r == s.update[d]
  <2>1. r \in Runs
    BY <1>1
  <2> HIDE DEF r
  <2>2. [r EXCEPT !.state = how, !.holds = FALSE] \in Runs
    BY <2>1 DEF Runs, Stages
  <2>3. OverAs(r, [r EXCEPT !.state = how, !.holds = FALSE], how)
    BY <2>1 DEF Runs, OverAs, SameWish
  <2> QED BY <2>2, <2>3 DEF r
<1>3. t = [s EXCEPT !.update = U]
  BY DEF Closed
<1> HIDE DEF over
<1>4. U \in [Numbers -> Runs] /\ (\A d \in ds : U[d] = over(d)) /\ \A d \in Numbers \ ds : U[d] = s.update[d]
  BY <1>1, <1>2
<1> HIDE DEF U
<1>5. /\ t \in States /\ t.update = U /\ t.memo = s.memo /\ t.work = s.work
      /\ t.clock = s.clock /\ t.recheck = s.recheck
  BY <1>3, <1>4, SetUpdate
<1> QED BY <1>2, <1>4, <1>5 DEF ClosedAs, CloseAs

(* forgetDeadCachedConversation: those that resumed what is in the row drop *)
(* the row, or are noted for a second look.                                 *)
LEMMA FailedIs ==
  ASSUME NEW s \in States, NEW ds \in SUBSET Numbers, NEW t, t = Failed(s, ds)
  PROVE  FailedAs(s, t, ds)
<1> DEFINE c == Closed(s, ds, "failed")
           hit == {d \in ds : Resumed(c, d)}
<1>1. ClosedAs(s, c, ds, "failed")
  BY ClosedIs
<1>2. t = IF UpIn(c, c.memo.session) THEN [c EXCEPT !.recheck = @ \cup hit]
          ELSE IF hit # {} THEN [c EXCEPT !.memo = NoRow] ELSE c
  BY DEF Failed
<1> HIDE DEF c
<1>3. hit = Hits(s, ds)
  <2>1. \A d \in ds : c.update[d].id = s.update[d].id /\ c.update[d].received = s.update[d].received
    BY <1>1 DEF ClosedAs, CloseAs, OverAs, SameWish
  <2>2. c.memo = s.memo
    BY <1>1 DEF ClosedAs
  <2>3. \A d \in ds : Resumed(c, d) <=> Resumed(s, d)
    BY <2>1, <2>2 DEF Resumed
  <2> QED BY <2>3 DEF Hits
<1>4. UpIn(c, c.memo.session) <=> UpIn(s, s.memo.session)
  BY <1>1 DEF ClosedAs, UpIn
<1>5. Hits(s, ds) \subseteq Numbers /\ s.recheck \subseteq Numbers
  BY DEF Hits, States
<1> HIDE DEF hit
<1>6. CASE UpIn(s, s.memo.session)
  <2>1. t = [c EXCEPT !.recheck = s.recheck \cup Hits(s, ds)]
    BY <1>1, <1>2, <1>3, <1>4, <1>6 DEF ClosedAs
  <2>2. /\ t \in States /\ t.recheck = s.recheck \cup Hits(s, ds) /\ t.memo = c.memo
        /\ t.update = c.update /\ t.work = c.work /\ t.clock = c.clock
    BY <1>1, <1>5, <2>1, SetRecheck DEF ClosedAs
  <2> QED BY <1>1, <1>6, <2>2 DEF ClosedAs, CloseAs, FailedAs
<1>7. CASE ~UpIn(s, s.memo.session) /\ Hits(s, ds) # {}
  <2>1. t = [c EXCEPT !.memo = NoRow] /\ NoRow \in Rows
    BY <1>2, <1>3, <1>4, <1>7, NumbersAre DEF NoRow, Rows, NoTree, Tree, Trees
  <2>2. /\ t \in States /\ t.memo = NoRow /\ t.recheck = c.recheck
        /\ t.update = c.update /\ t.work = c.work /\ t.clock = c.clock
    BY <1>1, <2>1, SetMemo DEF ClosedAs
  <2> QED BY <1>1, <1>7, <2>2 DEF ClosedAs, CloseAs, FailedAs
<1>8. CASE ~UpIn(s, s.memo.session) /\ Hits(s, ds) = {}
  BY <1>1, <1>2, <1>3, <1>4, <1>8 DEF ClosedAs, CloseAs, FailedAs
<1> QED BY <1>6, <1>7, <1>8

(* A turn that is over leaves its session up and without listeners.         *)
LEMMA QuietIs ==
  ASSUME NEW s \in States, NEW n \in Numbers, NEW t, t = Quiet(s, n)
  PROVE  SilentAs(s, t, n, s.work[n].up)
<1> DEFINE w == s.work[n]
           new == [w EXCEPT !.busy = FALSE, !.watchers = {}]
           W == [s.work EXCEPT ![n] = new]
<1>1. w \in Works /\ s.work \in [Numbers -> Works]
  BY DEF States
<1>2. t = [s EXCEPT !.work = W]
  BY DEF Quiet
<1>3. /\ new \in Works /\ new.up = w.up /\ ~new.busy /\ new.watchers = {} /\ new.agent = w.agent
      /\ new.tree = w.tree /\ new.id = w.id
  <2> HIDE DEF w
  <2> QED BY <1>1 DEF Works
<1> HIDE DEF new
<1>4. W \in [Numbers -> Works] /\ W[n] = new /\ \A e \in Numbers \ {n} : W[e] = s.work[e]
  BY <1>1, <1>3
<1> HIDE DEF W
<1>5. /\ t \in States /\ t.work = W /\ t.memo = s.memo /\ t.update = s.update
      /\ t.clock = s.clock /\ t.recheck = s.recheck
  BY <1>2, <1>4, SetWork
<1> QED BY <1>3, <1>4, <1>5 DEF SilentAs, SameWork

(* A session that is over has no listeners either.                          *)
LEMMA DownIs ==
  ASSUME NEW s \in States, NEW n \in Numbers, NEW t, t = Down(s, n)
  PROVE  SilentAs(s, t, n, FALSE)
<1> DEFINE w == s.work[n]
           new == [w EXCEPT !.up = FALSE, !.busy = FALSE, !.watchers = {}]
           W == [s.work EXCEPT ![n] = new]
<1>1. w \in Works /\ s.work \in [Numbers -> Works]
  BY DEF States
<1>2. t = [s EXCEPT !.work = W]
  BY DEF Down
<1>3. /\ new \in Works /\ new.up = FALSE /\ ~new.busy /\ new.watchers = {} /\ new.agent = w.agent
      /\ new.tree = w.tree /\ new.id = w.id
  <2> HIDE DEF w
  <2> QED BY <1>1 DEF Works
<1> HIDE DEF new
<1>4. W \in [Numbers -> Works] /\ W[n] = new /\ \A e \in Numbers \ {n} : W[e] = s.work[e]
  BY <1>1, <1>3
<1> HIDE DEF W
<1>5. /\ t \in States /\ t.work = W /\ t.memo = s.memo /\ t.update = s.update
      /\ t.clock = s.clock /\ t.recheck = s.recheck
  BY <1>2, <1>4, SetWork
<1> QED BY <1>3, <1>4, <1>5 DEF SilentAs, SameWork

\* t is s with some deliveries over, some sessions silent and perhaps no row.
Tame(s, t) ==
    /\ t \in States /\ t.clock = s.clock /\ (t.memo = s.memo \/ t.memo = NoRow)
    /\ \A d \in Numbers : \/ t.update[d] = s.update[d]
                          \/ /\ s.update[d].state \in {"preparing", "creating", "running", "failed"}
                             /\ \E how \in {"succeeded", "failed"} : OverAs(s.update[d], t.update[d], how)
    /\ \A n \in Numbers :
          /\ t.work[n].agent = s.work[n].agent /\ t.work[n].tree = s.work[n].tree
          /\ t.work[n].id = s.work[n].id
          /\ \/ t.work[n] = s.work[n]
             \/ /\ ~t.work[n].busy /\ t.work[n].watchers = {}
                /\ t.work[n].up => s.work[n].up
          /\ \A d \in t.work[n].watchers : t.update[d] = s.update[d]
    /\ \A d \in t.recheck : t.update[d].state = "failed"

(* No work at all: nothing up, nobody's, nowhere.                           *)
LEMMA NoWorkIs ==
  ASSUME NEW w \in Works, ~w.up, ~w.busy, w.watchers = {}, w.agent = "none", w.tree = NoTree, w.id = Nil
  PROVE  w = NoWork
<1>1. w.up = FALSE /\ w.busy = FALSE
  BY DEF Works
<1>2. w = [up |-> w.up, busy |-> w.busy, agent |-> w.agent, tree |-> w.tree, id |-> w.id,
           watchers |-> w.watchers]
  BY DEF Works
<1> QED BY <1>1, <1>2 DEF NoWork

(* Ends leave a state fit.                                                  *)
LEMMA TameFit ==
  ASSUME NEW s, NEW t, Fit(s), Tame(s, t)
  PROVE  Fit(t)
<1>1. s \in States /\ t \in States /\ t.clock = s.clock /\ s.clock \in Nat /\ t.clock \in Nat /\ s.clock <= t.clock
  BY DEF Fit, Tame, States
<1>2. HandsKept(s, t)
  BY DEF Tame, HandsKept
<1>3. \A n \in Numbers : t.update[n].session = s.update[n].session /\ t.update[n].resume = s.update[n].resume
                         /\ t.update[n].tree = s.update[n].tree /\ t.update[n].id = s.update[n].id
                         /\ t.update[n].key = s.update[n].key
  BY DEF Tame, OverAs, SameWish
<1>4. \A n \in Numbers : Made(t, n) <=> Made(s, n)
  BY <1>3 DEF Made
<1>5. FitRow(t)
  <2>1. CASE t.memo = s.memo
    BY <1>1, <1>2, <1>4, <2>1, RowKept DEF Fit
  <2>2. CASE t.memo = NoRow
    BY <1>1, <2>2, RowEmpty
  <2> QED BY <2>1, <2>2 DEF Tame
<1>6. \A d \in Numbers : t.update[d].state \in {"none", "waiting", "skipped", "preparing", "creating"}
                            => t.update[d] = s.update[d]
  BY DEF Tame, OverAs
<1>7. ASSUME NEW d \in Numbers
      PROVE  FitRun(t, d) /\ FitWork(t, d)
  <2>1. FitRun(s, d) /\ FitWork(s, d)
    BY DEF Fit
  <2>2. d # Old /\ s.update[d].state \in {"none", "waiting", "skipped", "preparing", "creating"} => t.work[d] = NoWork
    <3>1. SUFFICES ASSUME d # Old, s.update[d].state \in {"none", "waiting", "skipped", "preparing", "creating"}
                   PROVE  t.work[d] = NoWork
      OBVIOUS
    <3>2. s.work[d] = NoWork
      BY <2>1, <3>1 DEF FitRun
    <3>3. t.work[d] \in Works
      BY <1>1 DEF States
    <3>4. /\ t.work[d].agent = "none" /\ t.work[d].tree = NoTree /\ t.work[d].id = Nil
          /\ t.work[d] = NoWork \/ (~t.work[d].busy /\ t.work[d].watchers = {} /\ ~t.work[d].up)
      BY <3>2 DEF Tame, NoWork
    <3> QED BY <3>3, <3>4, NoWorkIs
  <2>3. FitRun(t, d)
    <3>1. CASE t.update[d] = s.update[d]
      BY <1>1, <1>2, <1>4, <2>1, <2>2, <3>1, RunKept
    <3>2. CASE t.update[d] # s.update[d]
      <4>1. PICK how \in {"succeeded", "failed"} : OverAs(s.update[d], t.update[d], how)
        BY <3>2 DEF Tame
      <4>2. /\ s.update[d].received \in Nat /\ s.update[d].started \in Nat /\ s.update[d].session \in Ids
            /\ s.update[d].resume \in Ids /\ s.update[d].chat \in Ids
        BY <1>1 DEF States, Runs
      <4>3. s.update[d].state \in {"preparing", "creating", "running", "failed"}
        BY <3>2 DEF Tame
      <4>4. s.update[d].agent \in Agents /\ (d # Old => s.update[d].folder \in Folders)
        BY <2>1, <4>3 DEF FitRun
      <4>5. /\ May(t, s.update[d].agent, s.update[d].session) /\ May(t, s.update[d].agent, s.update[d].resume)
            /\ May(t, s.update[d].agent, s.update[d].chat)
        <5>1. /\ May(s, s.update[d].agent, s.update[d].session) /\ May(s, s.update[d].agent, s.update[d].resume)
              /\ May(s, s.update[d].agent, s.update[d].chat) /\ s.update[d].agent # "none"
          BY <2>1, <4>4, AgentsAre DEF FitRun
        <5> QED BY <1>2, <4>2, <5>1, MayStill
      <4>6. s.update[d].session # Nil => s.update[d].session # Old /\ Made(t, s.update[d].session)
        BY <1>4, <2>1, <4>2, NumbersAre DEF FitRun
      <4>7. d # Old
        BY <2>1, <4>3 DEF FitRun
      <4>8. s.update[d].received <= t.clock /\ s.update[d].started <= t.clock
        BY <1>1, <2>1 DEF FitRun
      <4> QED BY <4>1, <4>4, <4>5, <4>6, <4>7, <4>8 DEF FitRun, OverAs, SameWish
    <3> QED BY <3>1, <3>2
  <2>4. FitWork(t, d)
    <3>1. CASE t.work[d] = s.work[d]
      <4>1. \A e \in t.work[d].watchers : t.update[e] = s.update[e]
        BY DEF Tame
      <4> QED BY <1>3, <1>4, <2>1, <3>1, <4>1 DEF FitWork
    <3>2. CASE t.work[d] # s.work[d]
      <4>1. /\ ~t.work[d].busy /\ t.work[d].watchers = {} /\ (t.work[d].up => s.work[d].up)
            /\ t.work[d].agent = s.work[d].agent /\ t.work[d].tree = s.work[d].tree
            /\ t.work[d].id = s.work[d].id
        BY <3>2 DEF Tame
      <4>2. s.work[d] = NoWork => t.work[d] = NoWork
        <5>1. ASSUME s.work[d] = NoWork PROVE t.work[d] = NoWork
          <6>1. t.work[d] \in Works
            BY <1>1 DEF States
          <6>2. ~t.work[d].up /\ t.work[d].agent = "none" /\ t.work[d].tree = NoTree /\ t.work[d].id = Nil
            BY <4>1, <5>1 DEF NoWork
          <6> QED BY <4>1, <6>1, <6>2, NoWorkIs
        <5> QED BY <5>1
      <4> QED BY <1>3, <1>4, <2>1, <4>1, <4>2 DEF FitWork
    <3> QED BY <3>1, <3>2
  <2> QED BY <2>3, <2>4
<1>8. \A d \in Numbers : t.update[d].holds => s.update[d].holds
  BY DEF Tame, OverAs
<1>9. \A d, e \in Numbers : t.update[d].state = "waiting" /\ t.update[e].state = "waiting" => d = e
  BY <1>6 DEF Fit
<1>10. \A d, e \in Numbers : t.update[d].holds /\ t.update[e].holds /\ t.update[d].key = t.update[e].key => d = e
  BY <1>3, <1>8 DEF Fit
<1>11. \A d \in t.recheck : t.update[d].state = "failed"
  BY DEF Tame
<1> QED BY <1>1, <1>5, <1>7, <1>9, <1>10, <1>11 DEF Fit
----------------------------------------------------------------------------
(* What a start goes through.                                              *)

Keeps(r)  == r.reuse # NoTree /\ r.reuse.of \notin gone
TreeOf(r, d) == IF Keeps(r) THEN r.reuse ELSE Tree(r.folder, d)

\* Delivery d's worktree is there, and so is its place in the row.
PreparedAs(s, t, d) ==
    LET r   == s.update[d]
        q   == t.update[d]
        own == Owns(s, r.agent) IN
    /\ t \in States /\ t.work = s.work /\ t.clock = s.clock /\ t.recheck = s.recheck
    /\ \A e \in Numbers \ {d} : t.update[e] = s.update[e]
    /\ SameWish(r, q) /\ q.started = r.started /\ q.reuse = r.reuse /\ q.holds = r.holds
    /\ q.session = r.session /\ q.id = r.id /\ q.chat = r.chat
    /\ q.state = "creating" /\ q.tree = TreeOf(r, d)
    /\ q.resume = IF Keeps(r) THEN r.resume ELSE Nil
    /\ t.memo.there /\ t.memo.agent = r.agent /\ t.memo.tree = q.tree
    /\ t.memo.session = IF own THEN s.memo.session ELSE Nil
    /\ t.memo.id = IF own THEN s.memo.id ELSE Nil
    /\ t.memo.chat = IF own THEN s.memo.chat ELSE Nil
    /\ t.memo.born = IF own THEN s.memo.born ELSE r.started

\* What Prepared(d) makes of s.
NowPrepared(s, d) ==
    LET q == [s.update[d] EXCEPT !.state = "creating", !.tree = TreeOf(s.update[d], d),
                                 !.resume = IF Keeps(s.update[d]) THEN @ ELSE Nil]
    IN Remembers([s EXCEPT !.update[d] = q], d, "tree", TreeOf(s.update[d], d))

(* Prepared: the directory that is to be reused, unless it is gone.         *)
LEMMA PreparedIs ==
  ASSUME NEW s, NEW d \in Numbers, Fit(s), s.update[d].state = "preparing",
         NEW t, t = NowPrepared(s, d)
  PROVE  PreparedAs(s, t, d)
<1> DEFINE r == s.update[d]
           a == r.agent
           tree == TreeOf(r, d)
           q == [r EXCEPT !.state = "creating", !.tree = tree, !.resume = IF Keeps(r) THEN r.resume ELSE Nil]
           U == [s.update EXCEPT ![d] = q]
           z == [s EXCEPT !.update = U]
<1>1. /\ r \in Runs /\ s.update \in [Numbers -> Runs] /\ s \in States /\ FitRun(s, d)
      /\ s.clock \in Nat /\ s.clock <= s.clock
  BY DEF Fit, States
<1>2. r.state = "preparing" /\ a \in Agents /\ d # Old /\ r.folder \in Folders
  BY <1>1 DEF FitRun
<1>3. tree \in Trees /\ tree # NoTree
  <2>1. r.reuse \in Trees /\ r.folder \in Folders \cup {"none"} /\ d \in Ids
    BY <1>1, NumbersAre DEF Runs
  <2> HIDE DEF r
  <2>2. Tree(r.folder, d) \in Trees
    BY <2>1 DEF Trees, Tree
  <2>3. Tree(r.folder, d) # NoTree
    BY <1>2 DEF Tree, NoTree, Folders
  <2> QED BY <2>1, <2>2, <2>3 DEF TreeOf, Keeps
<1>5. t = Remembers(z, d, "tree", tree)
  BY Zenon DEF NowPrepared
<1> HIDE DEF tree, r
<1>6. /\ q \in Runs /\ SameWish(r, q) /\ q.started = r.started /\ q.reuse = r.reuse /\ q.holds = r.holds
      /\ q.session = r.session /\ q.id = r.id /\ q.chat = r.chat /\ q.state = "creating" /\ q.tree = tree
      /\ q.resume = IF Keeps(r) THEN r.resume ELSE Nil
  BY <1>1, <1>3, NumbersAre DEF Runs, Stages, SameWish
<1> HIDE DEF q
<1>7. U \in [Numbers -> Runs] /\ U[d] = q /\ \A e \in Numbers \ {d} : U[e] = s.update[e]
  BY <1>1, <1>6
<1>0. z = [s EXCEPT !.update = U]
  OBVIOUS
<1> HIDE DEF U, z
<1>8. /\ z \in States /\ z.update = U /\ z.memo = s.memo /\ z.work = s.work
      /\ z.clock = s.clock /\ z.recheck = s.recheck
  BY <1>0, <1>1, <1>7, SetUpdate
<1>9. LastAgent(z) = LastAgent(s)
  <2>1. Ended(z) = Ended(s) /\ \A e \in Ended(s) : z.update[e].agent = s.update[e].agent
    BY <1>2, <1>6, <1>7, <1>8 DEF Ended, r
  <2> QED BY <1>1, <1>8, <2>1, LastAgentStays
<1>10. z.update[d].agent = a /\ (Owns(z, a) <=> Owns(s, a))
  BY <1>6, <1>7, <1>8, <1>9 DEF SameWish, Owns
<1>11. Noted(z, t, d, "tree", tree)
  BY <1>2, <1>3, <1>5, <1>8, <1>10, RememberIs
<1>12. PreparedAs(s, t, d)
  BY <1>6, <1>7, <1>8, <1>10, <1>11 DEF Noted, PreparedAs, r, tree, SameWish
<1> QED BY <1>12

(* A delivery whose directory is there leaves a state that fits.           *)
LEMMA PreparedFit ==
  ASSUME NEW s, NEW t, NEW d \in Numbers, Fit(s), s.update[d].state = "preparing", PreparedAs(s, t, d)
  PROVE  Fit(t)
<1> DEFINE a == s.update[d].agent
<1>1. /\ s.update[d] \in Runs /\ s \in States /\ t \in States /\ FitRun(s, d) /\ FitRow(s)
      /\ s.clock \in Nat /\ t.clock \in Nat /\ s.clock <= t.clock /\ t.clock = s.clock
  BY DEF Fit, States, PreparedAs
<1>2. a \in Agents /\ d # Old /\ s.update[d].folder \in Folders /\ s.update[d].session = Nil
      /\ s.update[d].id = Nil /\ s.update[d].chat = Nil /\ s.update[d].started <= s.clock
      /\ s.update[d].received <= s.clock /\ s.work[d] = NoWork
  BY <1>1 DEF FitRun
<1>3. /\ t.work = s.work /\ t.recheck = s.recheck
      /\ \A e \in Numbers \ {d} : t.update[e] = s.update[e] /\ FitRun(s, e)
      /\ t.update[d].state = "creating" /\ t.update[d].session = Nil
      /\ t.update[d].holds = s.update[d].holds /\ t.update[d].key = s.update[d].key
  BY <1>2 DEF PreparedAs, SameWish, Fit
<1>4. \A n \in Numbers : Made(t, n) <=> Made(s, n)
  BY <1>2, <1>3 DEF Made
<1>5. HandsKept(s, t)
  BY <1>3 DEF HandsKept
<1>6. FitRow(t)
  <2>1. Owns(s, a) => May(t, a, s.memo.session) /\ May(t, a, s.memo.id) /\ May(t, a, s.memo.chat)
    BY <1>2, <1>3, OwnerMay DEF May
  <2>2. May(t, a, Nil)
    BY DEF May
  <2>3. /\ t.memo.there /\ t.memo.agent = a
        /\ t.memo.session = IF Owns(s, a) THEN s.memo.session ELSE Nil
        /\ t.memo.id = IF Owns(s, a) THEN s.memo.id ELSE Nil
        /\ t.memo.chat = IF Owns(s, a) THEN s.memo.chat ELSE Nil
        /\ t.memo.born = IF Owns(s, a) THEN s.memo.born ELSE s.update[d].started
    BY DEF PreparedAs
  <2>4. s.memo.session # Nil => s.memo.session # Old /\ Made(t, s.memo.session)
    BY <1>1, <1>4, NumbersAre DEF FitRow, States, Rows
  <2>5. s.memo.born <= t.clock
    BY <1>1 DEF FitRow
  <2> HIDE DEF a
  <2> QED BY <2>1, <2>2, <2>3, <2>4, <2>5, <1>1, <1>2, RowOwned
<1>7. ASSUME NEW e \in Numbers PROVE FitRun(t, e)
  <2>1. CASE e # d
    <3>1. e # Old /\ s.update[e].state \in {"none", "waiting", "skipped", "preparing", "creating"} => t.work[e] = NoWork
      BY <1>3, <2>1 DEF FitRun
    <3> QED BY <1>1, <1>3, <1>4, <1>5, <2>1, <3>1, RunKept
  <2>2. CASE e = d
    <3>1. t.update[d].tree # NoTree
      BY <1>2 DEF PreparedAs, TreeOf, Keeps, Tree, NoTree, Folders
    <3>2. May(t, a, t.update[d].resume) /\ May(t, a, Nil)
      <4>1. May(t, a, Nil)
        BY DEF May
      <4>2. May(t, a, s.update[d].resume)
        BY <1>1, <1>3 DEF FitRun, May
      <4> QED BY <4>1, <4>2 DEF PreparedAs
    <3>3. /\ t.update[d].agent = a /\ t.update[d].folder \in Folders /\ t.update[d].id = Nil
          /\ t.update[d].chat = Nil /\ t.update[d].received <= t.clock /\ t.update[d].started <= t.clock
          /\ (t.update[d].holds => t.update[d].key # NoTree)
      BY <1>1, <1>2 DEF PreparedAs, SameWish, FitRun
    <3> QED BY <1>2, <1>3, <2>2, <3>1, <3>2, <3>3 DEF FitRun
  <2> QED BY <2>1, <2>2
<1>8. ASSUME NEW n \in Numbers PROVE FitWork(t, n)
  <2>1. t.work[n] = s.work[n] /\ FitWork(s, n)
    BY <1>3 DEF Fit
  <2>2. d \notin s.work[n].watchers /\ s.work[n].watchers \subseteq Numbers
    BY <1>1, <2>1 DEF FitWork, States, Works
  <2>3. ~Made(s, d)
    BY <1>2, NumbersAre DEF Made
  <2> QED BY <1>3, <1>4, <2>1, <2>2, <2>3 DEF FitWork
<1>9. \A e, f \in Numbers : t.update[e].state = "waiting" /\ t.update[f].state = "waiting" => e = f
  BY <1>3 DEF Fit
<1>10. \A e, f \in Numbers : t.update[e].holds /\ t.update[f].holds /\ t.update[e].key = t.update[f].key => e = f
  BY <1>3 DEF Fit
<1>11. \A e \in t.recheck : t.update[e].state = "failed"
  <2>1. d \notin s.recheck /\ s.recheck \subseteq Numbers
    BY <1>1 DEF Fit, States
  <2> QED BY <1>3, <2>1 DEF Fit
<1> QED BY <1>1, <1>6, <1>7, <1>8, <1>9, <1>10, <1>11 DEF Fit
\* Delivery d's session is there; id is what its run has of the conversation so far.
CreatedAs(s, t, d, id) ==
    LET r   == s.update[d]
        q   == t.update[d]
        w   == t.work[d]
        own == Owns(s, r.agent) IN
    /\ t \in States /\ t.clock = s.clock /\ t.recheck = s.recheck
    /\ \A e \in Numbers \ {d} : t.update[e] = s.update[e]
    /\ SameWork(s, t, {d})
    /\ SameWish(r, q) /\ q.started = r.started /\ q.reuse = r.reuse /\ ~q.holds
    /\ q.session = d /\ q.id = id /\ q.chat = r.chat /\ q.resume = r.resume /\ q.tree = r.tree
    /\ q.state = "running"
    /\ w.up /\ w.busy /\ w.watchers = {d} /\ w.agent = r.agent /\ w.tree = r.tree
    /\ w.id = IF r.resume = Nil THEN d ELSE r.resume
    /\ t.memo.there /\ t.memo.agent = r.agent /\ t.memo.session = d
    /\ t.memo.tree = IF own THEN s.memo.tree ELSE Tree(r.folder, Nil)
    /\ t.memo.id = IF id # Nil THEN id ELSE IF own THEN s.memo.id ELSE Nil
    /\ t.memo.chat = IF own THEN s.memo.chat ELSE Nil
    /\ t.memo.born = IF own THEN s.memo.born ELSE r.started

WorkOf(s, d) ==
    LET r == s.update[d] IN
    [up |-> TRUE, busy |-> TRUE, agent |-> r.agent, tree |-> r.tree,
     watchers |-> {d}, id |-> IF r.resume = Nil THEN d ELSE r.resume]

\* What Created(d) makes of s, first of all.
NowCreated(s, d, id) ==
    LET r == s.update[d]
        q == [r EXCEPT !.state = "running", !.session = d, !.holds = FALSE]
    IN Remembers([s EXCEPT !.update[d] = [q EXCEPT !.id = id], !.work[d] = WorkOf(s, d)],
                 d, "session", d)

(* Created: the session and, with it or later, the conversation's id.       *)
LEMMA CreatedIs ==
  ASSUME NEW s, NEW d \in Numbers, Fit(s), s.update[d].state = "creating",
         NEW id \in Ids,
         NEW b, b = NowCreated(s, d, id),
         NEW t, t = IF id = Nil THEN b ELSE Remembers(b, d, "id", id)
  PROVE  CreatedAs(s, t, d, id)
<1> DEFINE r == s.update[d]
           a == r.agent
           q0 == [r EXCEPT !.state = "running", !.session = d, !.holds = FALSE]
           q == [q0 EXCEPT !.id = id]
           w == WorkOf(s, d)
           U == [s.update EXCEPT ![d] = q]
           W == [s.work EXCEPT ![d] = w]
           z == [s EXCEPT !.update = U, !.work = W]
<1>1. /\ r \in Runs /\ s.update \in [Numbers -> Runs] /\ s.work \in [Numbers -> Works]
      /\ s \in States /\ FitRun(s, d) /\ d \in Ids
  BY NumbersAre DEF Fit, States
<1>2. r.state = "creating" /\ a \in Agents
  BY <1>1 DEF FitRun
<1>3. b = Remembers(z, d, "session", d)
  <2>1. z = [s EXCEPT !.update[d] = q, !.work[d] = w]
    OBVIOUS
  <2> HIDE DEF z, w
  <2>2. b = Remembers([s EXCEPT !.update[d] = q, !.work[d] = WorkOf(s, d)], d, "session", d)
    BY Zenon DEF NowCreated
  <2> QED BY <2>1, <2>2, Zenon DEF w
<1>4. w \in Works
  <2>1. r.tree \in Trees /\ r.resume \in Ids /\ a \in Agents \cup {"none"}
    BY <1>1 DEF Runs
  <2> HIDE DEF r
  <2> QED BY <1>1, <2>1, NumbersAre DEF Works, WorkOf, r
<1>5. /\ w.up /\ w.busy /\ w.watchers = {d} /\ w.agent = a /\ w.tree = r.tree
      /\ w.id = IF r.resume = Nil THEN d ELSE r.resume
  BY DEF WorkOf
<1> HIDE DEF w, r
<1>6. /\ q \in Runs /\ SameWish(r, q) /\ q.started = r.started /\ q.reuse = r.reuse /\ ~q.holds
      /\ q.session = d /\ q.id = id /\ q.chat = r.chat /\ q.state = "running" /\ q.tree = r.tree
      /\ q.resume = r.resume
  <2>1. /\ q0 \in Runs /\ SameWish(r, q0) /\ q0.started = r.started /\ q0.reuse = r.reuse /\ ~q0.holds
        /\ q0.session = d /\ q0.chat = r.chat /\ q0.state = "running" /\ q0.tree = r.tree
        /\ q0.resume = r.resume
    BY <1>1 DEF Runs, Stages, SameWish
  <2> HIDE DEF q0
  <2> QED BY <2>1 DEF Runs, SameWish
<1> HIDE DEF q
<1>7. U \in [Numbers -> Runs] /\ U[d] = q /\ \A e \in Numbers \ {d} : U[e] = s.update[e]
  BY <1>1, <1>6
<1>8. W \in [Numbers -> Works] /\ W[d] = w /\ \A e \in Numbers \ {d} : W[e] = s.work[e]
  BY <1>1, <1>4
<1>0. z = [s EXCEPT !.update = U, !.work = W]
  OBVIOUS
<1> HIDE DEF U, W, z
<1>9. z \in States /\ z.update = U /\ z.work = W /\ z.memo = s.memo /\ z.clock = s.clock /\ z.recheck = s.recheck
  BY <1>0, <1>1, <1>7, <1>8 DEF States
<1>10. LastAgent(z) = LastAgent(s)
  <2>1. Ended(z) = Ended(s) /\ \A e \in Ended(s) : z.update[e].agent = s.update[e].agent
    BY <1>2, <1>6, <1>7, <1>9 DEF Ended, r
  <2> QED BY <1>1, <1>9, <2>1, LastAgentStays
<1>11. z.update[d].agent = a /\ (Owns(z, a) <=> Owns(s, a))
  BY <1>6, <1>7, <1>9, <1>10 DEF SameWish, Owns
<1>12. Noted(z, b, d, "session", d)
  BY <1>1, <1>2, <1>3, <1>9, <1>11, RememberIs
<1>13. /\ b \in States /\ b.update = U /\ b.work = W /\ b.clock = s.clock /\ b.recheck = s.recheck
       /\ b.memo.there /\ b.memo.agent = a /\ b.memo.session = d
       /\ b.memo.tree = IF Owns(s, a) THEN s.memo.tree ELSE Tree(r.folder, Nil)
       /\ b.memo.id = IF Owns(s, a) THEN s.memo.id ELSE Nil
       /\ b.memo.chat = IF Owns(s, a) THEN s.memo.chat ELSE Nil
       /\ b.memo.born = IF Owns(s, a) THEN s.memo.born ELSE r.started
  BY <1>6, <1>7, <1>9, <1>11, <1>12 DEF Noted, SameWish
<1>14. /\ t \in States /\ t.update = U /\ t.work = W /\ t.clock = s.clock /\ t.recheck = s.recheck
       /\ t.memo.there /\ t.memo.agent = a /\ t.memo.session = d
       /\ t.memo.tree = IF Owns(s, a) THEN s.memo.tree ELSE Tree(r.folder, Nil)
       /\ t.memo.id = IF id # Nil THEN id ELSE IF Owns(s, a) THEN s.memo.id ELSE Nil
       /\ t.memo.chat = IF Owns(s, a) THEN s.memo.chat ELSE Nil
       /\ t.memo.born = IF Owns(s, a) THEN s.memo.born ELSE r.started
  <2>1. CASE id = Nil
    BY <1>13, <2>1
  <2>2. CASE id # Nil
    <3>1. b.update[d].agent = a /\ a # Unknown
      BY <1>2, <1>7, <1>9, <1>11, <1>13, AgentsAre
    <3>2. Owns(b, a)
      BY <1>13, <3>1 DEF Owns
    <3>3. Noted(b, t, d, "id", id)
      BY <1>2, <1>13, <2>2, <3>1, RememberIs
    <3> QED BY <1>13, <2>2, <3>1, <3>2, <3>3 DEF Noted
  <2> QED BY <2>1, <2>2
<1> QED BY <1>5, <1>6, <1>7, <1>8, <1>14 DEF CreatedAs, r, SameWork

(* So does one whose session is there,                                     *)
LEMMA CreatedFit ==
  ASSUME NEW s, NEW t, NEW d \in Numbers, NEW id, Fit(s), s.update[d].state = "creating",
         CreatedAs(s, t, d, id), id = Nil \/ id = t.work[d].id, s.update[d].resume # Nil => id # Nil
  PROVE  Fit(t)
<1> DEFINE a == s.update[d].agent
           r == s.update[d]
<1>1. /\ r \in Runs /\ s \in States /\ t \in States /\ FitRun(s, d) /\ FitRow(s)
      /\ s.clock \in Nat /\ t.clock \in Nat /\ s.clock <= t.clock /\ t.clock = s.clock
  BY DEF Fit, States, CreatedAs
<1>2. a \in Agents /\ d # Old /\ r.folder \in Folders /\ r.session = Nil
      /\ r.id = Nil /\ r.chat = Nil /\ r.started <= s.clock /\ r.tree # NoTree
      /\ r.received <= s.clock /\ s.work[d] = NoWork
  BY <1>1 DEF FitRun
<1>3. /\ t.recheck = s.recheck
      /\ \A e \in Numbers \ {d} : t.update[e] = s.update[e] /\ t.work[e] = s.work[e] /\ FitRun(s, e)
      /\ t.update[d].state = "running" /\ t.update[d].session = d /\ t.update[d].resume = r.resume
      /\ ~t.update[d].holds /\ t.update[d].key = r.key /\ t.work[d].agent = a
  BY <1>2 DEF CreatedAs, SameWish, SameWork, Fit
<1>4. Made(t, d) /\ ~Made(s, d) /\ \A n \in Numbers \ {d} : Made(t, n) <=> Made(s, n)
  BY <1>2, <1>3, NumbersAre DEF Made
<1>5. HandsKept(s, t)
  BY <1>2, <1>3 DEF HandsKept, NoWork
<1>0. May(t, a, d) /\ May(t, a, Nil)
  BY <1>3 DEF May
<1>13. May(t, a, r.resume) /\ a # "none"
  BY <1>1, <1>2, <1>5, AgentsAre, MayStill DEF FitRun, Runs
<1>6. FitRow(t)
  <2>0. s.memo.session \in Ids /\ s.memo.id \in Ids /\ s.memo.chat \in Ids
    BY <1>1 DEF States, Rows
  <2>1. Owns(s, a) => May(t, a, s.memo.id) /\ May(t, a, s.memo.chat)
    <3> HIDE DEF a
    <3> QED BY <1>2, <1>5, <1>13, <2>0, OwnerMay, MayStill
  <2>2. May(t, a, id)
    <3>1. t.work[d].id = IF r.resume = Nil THEN d ELSE r.resume
      BY DEF CreatedAs
    <3> QED BY <1>0, <1>13, <3>1
  <2>3. /\ t.memo.there /\ t.memo.agent = a /\ t.memo.session = d
        /\ t.memo.id = IF id # Nil THEN id ELSE IF Owns(s, a) THEN s.memo.id ELSE Nil
        /\ t.memo.chat = IF Owns(s, a) THEN s.memo.chat ELSE Nil
        /\ t.memo.born = IF Owns(s, a) THEN s.memo.born ELSE r.started
    BY DEF CreatedAs
  <2>5. s.memo.born <= t.clock
    BY <1>1 DEF FitRow
  <2> HIDE DEF a
  <2> QED BY <2>1, <2>2, <2>3, <2>5, <1>0, <1>1, <1>2, <1>4, RowOwned
<1>7. ASSUME NEW e \in Numbers PROVE FitRun(t, e)
  <2>1. CASE e # d
    <3>1. e # Old /\ s.update[e].state \in {"none", "waiting", "skipped", "preparing", "creating"} => t.work[e] = NoWork
      BY <1>3, <2>1 DEF FitRun
    <3>2. \A n \in Numbers : Made(s, n) => Made(t, n)
      BY <1>4
    <3>3. FitRun(s, e) /\ t.update[e] = s.update[e]
      BY <1>3, <2>1
    <3> HIDE DEF a, r
    <3> QED BY <1>1, <1>5, <3>1, <3>2, <3>3, RunKept
  <2>2. CASE e = d
    <3>3. /\ t.update[d].agent = a /\ t.update[d].folder \in Folders
          /\ t.update[d].chat = Nil /\ t.update[d].received <= t.clock /\ t.update[d].started <= t.clock
      BY <1>1, <1>2 DEF CreatedAs, SameWish
    <3> QED BY <1>2, <1>3, <2>2, <3>3, <1>0, <1>4, <1>13, NumbersAre DEF FitRun
  <2> QED BY <2>1, <2>2
<1>8. ASSUME NEW n \in Numbers PROVE FitWork(t, n)
  <2>0. FitWork(s, n)
    BY DEF Fit
  <2>1. CASE n # d
    <3>1. t.work[n] = s.work[n] /\ t.update[n] = s.update[n]
      BY <1>3, <2>1
    <3>2. d \notin s.work[n].watchers /\ s.work[n].watchers \subseteq Numbers
      BY <1>1, <2>0 DEF FitWork, States, Works
    <3>3. Made(t, n) <=> Made(s, n)
      BY <1>4, <2>1
    <3> HIDE DEF r, a
    <3> QED BY <1>3, <2>0, <3>1, <3>2, <3>3 DEF FitWork
  <2>2. CASE n = d
    <3>1. /\ t.work[d].up /\ t.work[d].busy /\ t.work[d].watchers = {d} /\ t.work[d].agent = a
          /\ t.work[d].tree = r.tree /\ t.work[d].id = IF r.resume = Nil THEN d ELSE r.resume
          /\ t.update[d].tree = r.tree /\ t.update[d].id = id
      BY DEF CreatedAs
    <3> QED BY <1>2, <1>3, <1>4, <2>2, <3>1, AgentsAre DEF FitWork
  <2> QED BY <2>1, <2>2
<1>9. \A e, f \in Numbers : t.update[e].state = "waiting" /\ t.update[f].state = "waiting" => e = f
  BY <1>3 DEF Fit
<1>10. \A e, f \in Numbers : t.update[e].holds /\ t.update[f].holds /\ t.update[e].key = t.update[f].key => e = f
  BY <1>3 DEF Fit
<1>11. \A e \in t.recheck : t.update[e].state = "failed"
  <2>1. d \notin s.recheck /\ s.recheck \subseteq Numbers
    BY <1>1 DEF Fit, States
  <2> QED BY <1>3, <2>1 DEF Fit
<1> QED BY <1>1, <1>6, <1>7, <1>8, <1>9, <1>10, <1>11 DEF Fit
\* What Announced(n) makes of s.
NowAnnounced(s, n) ==
    LET heard == s.work[n].watchers
        first == CHOOSE d \in heard : \A e \in heard : s.update[d].started <= s.update[e].started
    IN Remembers([s EXCEPT !.update = [d \in Numbers |->
                      IF d \in heard THEN [s.update[d] EXCEPT !.id = s.work[n].id] ELSE s.update[d]]],
                 first, "id", s.work[n].id)

\* Delivery q is r, with its conversation's id.
HeardAs(r, q, id) ==
    /\ SameWish(r, q) /\ q.started = r.started /\ q.resume = r.resume /\ q.reuse = r.reuse
    /\ q.tree = r.tree /\ q.session = r.session /\ q.chat = r.chat /\ q.state = r.state
    /\ q.holds = r.holds /\ q.id = id

AnnouncedAs(s, t, n) ==
    LET heard == s.work[n].watchers IN
    /\ t \in States /\ t.work = s.work /\ t.clock = s.clock /\ t.recheck = s.recheck
    /\ \A d \in Numbers \ heard : t.update[d] = s.update[d]
    /\ \A d \in heard : HeardAs(s.update[d], t.update[d], s.work[n].id)
    /\ \E f \in heard :
          LET a == s.update[f].agent IN
          /\ \A e \in heard : s.update[f].started <= s.update[e].started
          /\ t.memo.there /\ t.memo.agent = a /\ t.memo.id = s.work[n].id
          /\ t.memo.session = IF Owns(s, a) THEN s.memo.session ELSE Nil
          /\ t.memo.chat = IF Owns(s, a) THEN s.memo.chat ELSE Nil
          /\ t.memo.tree = IF Owns(s, a) THEN s.memo.tree ELSE Tree(s.update[f].folder, Nil)
          /\ t.memo.born = IF Owns(s, a) THEN s.memo.born ELSE s.update[f].started

(* session_started: the first of the listeners writes the row.              *)
LEMMA AnnouncedIs ==
  ASSUME NEW s, NEW n \in Numbers, Fit(s), s.work[n].watchers # {},
         NEW t, t = NowAnnounced(s, n)
  PROVE  AnnouncedAs(s, t, n)
<1> DEFINE heard == s.work[n].watchers
           id == s.work[n].id
           first == CHOOSE d \in heard : \A e \in heard : s.update[d].started <= s.update[e].started
           told(d) == [s.update[d] EXCEPT !.id = id]
           U == [d \in Numbers |-> IF d \in heard THEN told(d) ELSE s.update[d]]
           z == [s EXCEPT !.update = U]
<1>1. /\ s \in States /\ s.update \in [Numbers -> Runs] /\ heard \subseteq Numbers /\ id \in Ids
      /\ FitWork(s, n)
  BY DEF Fit, States, Works
<1>2. \A d \in heard : s.update[d].started \in Nat /\ s.update[d].state = "running" /\ FitRun(s, d)
  BY <1>1 DEF Fit, FitWork, Runs
<1>3. first \in heard /\ \A e \in heard : s.update[first].started <= s.update[e].started
  <2> DEFINE T == {s.update[d].started : d \in heard}
  <2>1. T \in SUBSET Nat /\ T # {}
    BY <1>2
  <2>2. PICK x \in T : \A y \in T : x <= y
    BY <2>1, Least
  <2>3. PICK d \in heard : x = s.update[d].started
    BY <2>2
  <2>4. \E d1 \in heard : \A e \in heard : s.update[d1].started <= s.update[e].started
    BY <2>2, <2>3
  <2> HIDE DEF heard
  <2> QED BY <2>4
<1>4. s.update[first].agent \in Agents
  BY <1>2, <1>3 DEF FitRun
<1>5. t = Remembers(z, first, "id", id)
  BY Zenon DEF NowAnnounced
<1> HIDE DEF first
<1>6. \A d \in heard : told(d) \in Runs /\ HeardAs(s.update[d], told(d), id)
  <2> SUFFICES ASSUME NEW d \in heard
               PROVE  told(d) \in Runs /\ HeardAs(s.update[d], told(d), id)
    OBVIOUS
  <2> DEFINE r == s.update[d]
  <2>1. r \in Runs
    BY <1>1
  <2> HIDE DEF r, id
  <2>2. [r EXCEPT !.id = id] \in Runs /\ HeardAs(r, [r EXCEPT !.id = id], id)
    BY <1>1, <2>1 DEF Runs, HeardAs, SameWish
  <2> QED BY <2>2 DEF r
<1> HIDE DEF told, heard, id
<1>7. U \in [Numbers -> Runs] /\ (\A d \in heard : U[d] = told(d)) /\ \A d \in Numbers \ heard : U[d] = s.update[d]
  BY <1>1, <1>6
<1>0. z = [s EXCEPT !.update = U]
  OBVIOUS
<1> HIDE DEF U, z
<1>8. /\ z \in States /\ z.update = U /\ z.memo = s.memo /\ z.work = s.work
      /\ z.clock = s.clock /\ z.recheck = s.recheck
  BY <1>0, <1>1, <1>7, SetUpdate
<1>9. LastAgent(z) = LastAgent(s)
  <2>1. Ended(z) = Ended(s) /\ \A e \in Ended(s) : z.update[e].agent = s.update[e].agent
    BY <1>1, <1>6, <1>7, <1>8 DEF Ended, HeardAs, SameWish
  <2> QED BY <1>1, <1>8, <2>1, LastAgentStays
<1>10. HeardAs(s.update[first], z.update[first], id) /\ first \in Numbers
  BY <1>1, <1>3, <1>6, <1>7, <1>8
<1>11. /\ z.update[first].agent = s.update[first].agent /\ z.update[first].folder = s.update[first].folder
       /\ z.update[first].started = s.update[first].started
       /\ (Owns(z, s.update[first].agent) <=> Owns(s, s.update[first].agent))
  BY <1>8, <1>9, <1>10 DEF HeardAs, SameWish, Owns
<1>12. Noted(z, t, first, "id", id)
  BY <1>1, <1>4, <1>5, <1>8, <1>10, <1>11, RememberIs
<1>13. /\ t \in States /\ t.update = U /\ t.work = s.work /\ t.clock = s.clock /\ t.recheck = s.recheck
  BY <1>8, <1>12 DEF Noted
<1>14. LET a == s.update[first].agent IN
          /\ t.memo.there /\ t.memo.agent = a /\ t.memo.id = id
          /\ t.memo.session = IF Owns(s, a) THEN s.memo.session ELSE Nil
          /\ t.memo.chat = IF Owns(s, a) THEN s.memo.chat ELSE Nil
          /\ t.memo.tree = IF Owns(s, a) THEN s.memo.tree ELSE Tree(s.update[first].folder, Nil)
          /\ t.memo.born = IF Owns(s, a) THEN s.memo.born ELSE s.update[first].started
  BY <1>8, <1>11, <1>12 DEF Noted
<1> QED BY <1>3, <1>6, <1>7, <1>13, <1>14 DEF AnnouncedAs, heard, id

(* and a session that announces the agent's id.                            *)
LEMMA AnnouncedFit ==
  ASSUME NEW s, NEW t, NEW n \in Numbers, Fit(s), s.work[n].up, AnnouncedAs(s, t, n)
  PROVE  Fit(t)
<1> DEFINE heard == s.work[n].watchers
           id == s.work[n].id
<1>1. /\ s \in States /\ t \in States /\ FitRow(s) /\ FitWork(s, n) /\ heard \subseteq Numbers /\ id \in Ids
      /\ s.clock \in Nat /\ t.clock \in Nat /\ s.clock <= t.clock /\ t.clock = s.clock
      /\ t.work = s.work /\ t.recheck = s.recheck
  BY DEF Fit, States, AnnouncedAs, Works
<1>2. \A d \in heard : s.update[d].state = "running" /\ s.update[d].session = n
  BY <1>1 DEF FitWork
<1>3. \A d \in Numbers : /\ t.update[d].session = s.update[d].session /\ t.update[d].state = s.update[d].state
                         /\ t.update[d].holds = s.update[d].holds /\ t.update[d].key = s.update[d].key
                         /\ t.update[d].resume = s.update[d].resume /\ t.update[d].tree = s.update[d].tree
                         /\ (d \notin heard => t.update[d] = s.update[d])
                         /\ (d \in heard => t.update[d].id = id)
  BY DEF AnnouncedAs, HeardAs, SameWish
<1>4. \A m \in Numbers : Made(t, m) <=> Made(s, m)
  BY <1>3 DEF Made
<1>5. HandsKept(s, t) /\ \A a, m : May(t, a, m) <=> May(s, a, m)
  BY <1>1 DEF HandsKept, May
<1>6. FitRow(t)
  <2>1. PICK f \in heard :
          LET a == s.update[f].agent IN
          /\ t.memo.there /\ t.memo.agent = a /\ t.memo.id = id
          /\ t.memo.session = IF Owns(s, a) THEN s.memo.session ELSE Nil
          /\ t.memo.chat = IF Owns(s, a) THEN s.memo.chat ELSE Nil
          /\ t.memo.born = IF Owns(s, a) THEN s.memo.born ELSE s.update[f].started
    BY DEF AnnouncedAs
  <2> DEFINE a == s.update[f].agent
  <2>2. FitRun(s, f) /\ s.update[f].state = "running" /\ a \in Agents /\ f \in Numbers
    BY <1>1, <1>2 DEF Fit, FitRun
  <2>3. May(s, a, id)
    <3>1. Made(s, n) /\ (n = Old => ~s.work[n].up)
      BY <1>1 DEF FitWork
    <3>2. s.update[f].session = n /\ May(s, a, n)
      BY <1>2, <2>2 DEF FitRun
    <3>3. FitRun(s, n)
      BY DEF Fit
    <3>4. n # Old /\ n # Nil
      BY <3>1, NumbersAre
    <3>5. s.work[n].agent = a
      BY <3>2, <3>4 DEF May, Ancient
    <3>6. May(s, s.update[n].agent, s.update[n].session) /\ s.update[n].session = n /\ May(s, s.update[n].agent, s.update[n].resume)
      BY <3>1, <3>3 DEF FitRun, Made
    <3>7. s.update[n].agent = a
      BY <3>4, <3>5, <3>6 DEF May, Ancient
    <3>8. id = IF s.update[n].resume = Nil THEN n ELSE s.update[n].resume
      BY <1>1, <3>1 DEF FitWork
    <3> QED BY <3>2, <3>6, <3>7, <3>8
  <2>4. Owns(s, a) => May(s, a, s.memo.session) /\ May(s, a, s.memo.chat)
    BY <2>2, OwnerMay
  <2>5. s.memo.session # Nil => s.memo.session # Old /\ Made(t, s.memo.session)
    BY <1>1, <1>4, NumbersAre DEF FitRow, States, Rows
  <2>6. s.memo.born <= t.clock /\ s.update[f].started <= t.clock
    BY <1>1, <2>2 DEF FitRow, FitRun
  <2>7. May(s, a, Nil)
    BY DEF May
  <2> HIDE DEF a
  <2> QED BY <1>5, <2>1, <2>2, <2>3, <2>4, <2>5, <2>6, <2>7, RowOwned DEF a
<1>7. ASSUME NEW e \in Numbers PROVE FitRun(t, e)
  <2>0. FitRun(s, e)
    BY DEF Fit
  <2>1. CASE e \notin heard
    <3>1. e # Old /\ s.update[e].state \in {"none", "waiting", "skipped", "preparing", "creating"} => t.work[e] = NoWork
      BY <1>1, <2>0 DEF FitRun
    <3> QED BY <1>1, <1>3, <1>4, <1>5, <2>0, <2>1, <3>1, RunKept
  <2>2. CASE e \in heard
    <3>1. HeardAs(s.update[e], t.update[e], id)
      BY <2>2 DEF AnnouncedAs
    <3>2. s.update[e].session \in Ids
      BY <1>1 DEF States, Runs
    <3> QED BY <1>1, <1>2, <1>4, <1>5, <2>0, <2>2, <3>1, <3>2, NumbersAre DEF FitRun, HeardAs, SameWish
  <2> QED BY <2>1, <2>2
<1>8. ASSUME NEW m \in Numbers PROVE FitWork(t, m)
  <2>1. FitWork(s, m) /\ t.work[m] = s.work[m] /\ s.work[m].watchers \subseteq Numbers
    BY <1>1 DEF Fit, States, Works
  <2>2. m \in heard /\ Made(s, m) => m = n
    BY <1>2 DEF Made
  <2>3. Made(s, m) /\ s.update[m].resume # Nil => t.update[m].id = s.update[m].resume
    BY <1>3, <2>1, <2>2 DEF FitWork
  <2> QED BY <1>3, <1>4, <2>1, <2>3 DEF FitWork
<1>9. \A e, f \in Numbers : t.update[e].state = "waiting" /\ t.update[f].state = "waiting" => e = f
  BY <1>3 DEF Fit
<1>10. \A e, f \in Numbers : t.update[e].holds /\ t.update[f].holds /\ t.update[e].key = t.update[f].key => e = f
  BY <1>3 DEF Fit
<1>11. \A e \in t.recheck : t.update[e].state = "failed"
  BY <1>1, <1>3 DEF Fit, States
<1> QED BY <1>1, <1>6, <1>7, <1>8, <1>9, <1>10, <1>11 DEF Fit
----------------------------------------------------------------------------
(* Deliveries that arrive, wait and get their grant.                       *)

NewRun(s, p, f, key) == [NoRun EXCEPT !.agent = p.agent, !.gated = p.gated, !.folder = f,
                                      !.key = key, !.received = s.clock + 1]

\* What Arrives makes of s, first of all.
NowArrived(s, d, p, f, key) ==
    [s EXCEPT !.clock = @ + 1, !.update[d] = NewRun(s, p, f, key)]

ArrivedAs(s, t, d, p, f, key) ==
    LET q == t.update[d] IN
    /\ t \in States /\ t.memo = s.memo /\ t.work = s.work /\ t.recheck = s.recheck
    /\ t.clock = s.clock + 1
    /\ \A e \in Numbers \ {d} : t.update[e] = s.update[e]
    /\ q.state = "none" /\ q.agent = p.agent /\ q.folder = f /\ q.key = key /\ ~q.holds
    /\ q.received = s.clock + 1 /\ q.started = 0 /\ q.resume = Nil /\ q.reuse = NoTree
    /\ q.tree = NoTree /\ q.session = Nil /\ q.id = Nil /\ q.chat = Nil

(* What dispatch notes of a delivery before it starts or parks it.         *)
LEMMA ArrivedIs ==
  ASSUME NEW s \in States, NEW d \in Numbers, NEW p \in [agent : Agents, gated : BOOLEAN],
         NEW f \in Folders, NEW key \in Trees,
         NEW t, t = NowArrived(s, d, p, f, key)
  PROVE  ArrivedAs(s, t, d, p, f, key) /\ t = [t EXCEPT !.update[d].holds = FALSE]
<1> DEFINE q == NewRun(s, p, f, key)
           U == [s.update EXCEPT ![d] = q]
           y == [s EXCEPT !.update = U]
<1>1. s.clock \in Nat /\ s.clock + 1 \in Nat /\ s.update \in [Numbers -> Runs]
  BY DEF States
<1>2. t = [y EXCEPT !.clock = s.clock + 1]
  <2> HIDE DEF q
  <2> QED BY DEF NowArrived, States, q
<1>3. /\ q \in Runs /\ q.state = "none" /\ q.agent = p.agent /\ q.folder = f /\ q.key = key
      /\ q.holds = FALSE
      /\ q.received = s.clock + 1 /\ q.started = 0 /\ q.resume = Nil /\ q.reuse = NoTree
      /\ q.tree = NoTree /\ q.session = Nil /\ q.id = Nil /\ q.chat = Nil
  <2>1. p.agent \in Agents /\ p.gated \in BOOLEAN /\ NoTree \in Trees /\ Nil \in Ids
    BY NumbersAre DEF NoTree, Tree, Trees
  <2> QED BY <1>1, <2>1 DEF Runs, Stages, NoRun, NewRun
<1> HIDE DEF q
<1>4. U \in [Numbers -> Runs] /\ U[d] = q /\ \A e \in Numbers \ {d} : U[e] = s.update[e]
  BY <1>1, <1>3
<1>0. y = [s EXCEPT !.update = U]
  OBVIOUS
<1> HIDE DEF U, y
<1>5. /\ y \in States /\ y.update = U /\ y.memo = s.memo /\ y.work = s.work /\ y.clock = s.clock
      /\ y.recheck = s.recheck
  BY <1>0, <1>4, SetUpdate
<1>6. /\ t \in States /\ t.update = U /\ t.memo = s.memo /\ t.work = s.work /\ t.clock = s.clock + 1
      /\ t.recheck = s.recheck
  BY <1>1, <1>2, <1>5, SetClock
<1>7. ArrivedAs(s, t, d, p, f, key)
  BY <1>3, <1>4, <1>6 DEF ArrivedAs
<1>8. t = [t EXCEPT !.update[d].holds = FALSE]
  <2>1. t.update[d] = [t.update[d] EXCEPT !.holds = FALSE]
    BY <1>3, <1>4, <1>6 DEF Runs
  <2> DEFINE T == [t.update EXCEPT ![d] = [t.update[d] EXCEPT !.holds = FALSE]]
  <2>2. t.update = T
    BY <1>4, <1>6, <2>1
  <2>3. [t EXCEPT !.update[d].holds = FALSE] = [t EXCEPT !.update = T]
    OBVIOUS
  <2> HIDE DEF T
  <2>4. t = [t EXCEPT !.update = T]
    BY <1>6, <2>2 DEF States
  <2> QED BY <2>3, <2>4
<1> QED BY <1>7, <1>8

(* A new delivery has done nothing yet.                                     *)
LEMMA ArrivedFit ==
  ASSUME NEW s, NEW t, NEW d \in Numbers \ {Old}, NEW p, NEW f, NEW key, Fit(s),
         s.update[d].state = "none", ArrivedAs(s, t, d, p, f, key)
  PROVE  Fit(t)
<1>1. /\ s \in States /\ t \in States /\ FitRun(s, d) /\ FitRow(s)
      /\ s.clock \in Nat /\ t.clock \in Nat /\ s.clock <= t.clock /\ t.clock = s.clock + 1
      /\ t.work = s.work /\ t.recheck = s.recheck /\ t.memo = s.memo
  BY DEF Fit, States, ArrivedAs
<1>2. s.update[d].session = Nil /\ s.work[d] = NoWork
  BY <1>1 DEF FitRun
<1>3. \A e \in Numbers \ {d} : t.update[e] = s.update[e] /\ FitRun(s, e)
  BY DEF ArrivedAs, Fit
<1>4. t.update[d].session = Nil /\ ~t.update[d].holds /\ t.update[d].state = "none"
  BY DEF ArrivedAs
<1>5. (\A n \in Numbers : Made(t, n) <=> Made(s, n)) /\ ~Made(s, d)
  BY <1>2, <1>3, <1>4, NumbersAre DEF Made
<1>6. HandsKept(s, t)
  BY <1>1 DEF HandsKept
<1>7. FitRow(t)
  BY <1>1, <1>5, <1>6, RowKept
<1>8. ASSUME NEW e \in Numbers PROVE FitRun(t, e)
  <2>1. CASE e # d
    <3>1. e # Old /\ s.update[e].state \in {"none", "waiting", "skipped", "preparing", "creating"} => t.work[e] = NoWork
      BY <1>1, <1>3, <2>1 DEF FitRun
    <3> QED BY <1>1, <1>3, <1>5, <1>6, <2>1, <3>1, RunKept
  <2>2. CASE e = d
    <3>1. /\ t.update[d].resume = Nil /\ t.update[d].reuse = NoTree /\ t.update[d].tree = NoTree
          /\ t.update[d].id = Nil /\ t.update[d].chat = Nil
      BY DEF ArrivedAs
    <3>2. t.update[d].received <= t.clock /\ t.update[d].started <= t.clock
      BY <1>1 DEF ArrivedAs
    <3>3. May(t, t.update[d].agent, Nil) /\ d # Old
      BY DEF May
    <3> QED BY <1>1, <1>2, <1>4, <2>2, <3>1, <3>2, <3>3 DEF FitRun
  <2> QED BY <2>1, <2>2
<1>9. ASSUME NEW n \in Numbers PROVE FitWork(t, n)
  <2>1. t.work[n] = s.work[n] /\ FitWork(s, n)
    BY <1>1 DEF Fit
  <2>2. d \notin s.work[n].watchers /\ s.work[n].watchers \subseteq Numbers
    BY <1>1, <2>1 DEF FitWork, States, Works
  <2> QED BY <1>3, <1>5, <2>1, <2>2 DEF FitWork
<1>10. \A e, g \in Numbers : t.update[e].state = "waiting" /\ t.update[g].state = "waiting" => e = g
  BY <1>3, <1>4 DEF Fit
<1>11. \A e, g \in Numbers : t.update[e].holds /\ t.update[g].holds /\ t.update[e].key = t.update[g].key => e = g
  BY <1>3, <1>4 DEF Fit
<1>12. \A e \in t.recheck : t.update[e].state = "failed"
  <2>1. d \notin s.recheck /\ s.recheck \subseteq Numbers
    BY <1>1 DEF Fit, States
  <2> QED BY <1>1, <1>3, <2>1 DEF Fit
<1> QED BY <1>1, <1>7, <1>8, <1>9, <1>10, <1>11, <1>12 DEF Fit

\* Delivery d waits, or is merged into the one that does.
Waits(r, q, state, agent, folder) ==
    /\ q.state = state /\ q.agent = agent /\ q.folder = folder /\ q.key = r.key /\ q.holds = r.holds
    /\ q.received = r.received /\ q.started = r.started /\ q.resume = r.resume /\ q.reuse = r.reuse
    /\ q.tree = r.tree /\ q.session = r.session /\ q.id = r.id /\ q.chat = r.chat

ParkedAs(s, t, d) ==
    LET r == s.update[d] IN
    /\ t \in States /\ t.memo = s.memo /\ t.work = s.work /\ t.recheck = s.recheck
    /\ t.clock = s.clock
    /\ \A e \in Numbers \ ({d} \cup InLine(s)) : t.update[e] = s.update[e]
    /\ Waits(r, t.update[d], IF InLine(s) = {} THEN "waiting" ELSE "skipped", r.agent, r.folder)
    /\ \A e \in InLine(s) : Waits(s.update[e], t.update[e], "waiting", r.agent, r.folder)

(* parkDelivery.                                                            *)
LEMMA ParkedIs ==
  ASSUME NEW s \in States, NEW d \in Numbers, s.update[d].state = "none", NEW t, t = Parked(s, d)
  PROVE  ParkedAs(s, t, d)
<1> DEFINE r == s.update[d]
           first == [r EXCEPT !.state = "waiting"]
           second == [r EXCEPT !.state = "skipped"]
           joined(e) == [s.update[e] EXCEPT !.agent = r.agent, !.folder = r.folder]
<1>1. s.update \in [Numbers -> Runs] /\ r \in Runs
  BY DEF States
<1>2. /\ first \in Runs /\ Waits(r, first, "waiting", r.agent, r.folder)
      /\ second \in Runs /\ Waits(r, second, "skipped", r.agent, r.folder)
  <2> HIDE DEF r
  <2> QED BY <1>1 DEF Runs, Stages, Waits
<1>3. \A e \in InLine(s) : e \in Numbers /\ e # d /\ joined(e) \in Runs /\ Waits(s.update[e], joined(e), "waiting", r.agent, r.folder)
  <2> SUFFICES ASSUME NEW e \in InLine(s)
               PROVE  e \in Numbers /\ e # d /\ joined(e) \in Runs /\ Waits(s.update[e], joined(e), "waiting", r.agent, r.folder)
    OBVIOUS
  <2> DEFINE v == s.update[e]
  <2>1. v \in Runs /\ v.state = "waiting" /\ e \in Numbers /\ e # d
    BY <1>1 DEF InLine
  <2> HIDE DEF v, r
  <2>2. [v EXCEPT !.agent = r.agent, !.folder = r.folder] \in Runs
        /\ Waits(v, [v EXCEPT !.agent = r.agent, !.folder = r.folder], "waiting", r.agent, r.folder)
    BY <1>1, <2>1 DEF Runs, Waits
  <2> QED BY <2>1, <2>2 DEF v
<1>4. CASE InLine(s) = {}
  <2> DEFINE U == [s.update EXCEPT ![d] = first]
  <2>1. t = [s EXCEPT !.update = U]
    BY <1>4 DEF Parked
  <2> HIDE DEF first
  <2>2. U \in [Numbers -> Runs] /\ U[d] = first /\ \A e \in Numbers \ {d} : U[e] = s.update[e]
    BY <1>1, <1>2
  <2> HIDE DEF U
  <2>3. /\ t \in States /\ t.update = U /\ t.memo = s.memo /\ t.work = s.work /\ t.clock = s.clock
        /\ t.recheck = s.recheck
    BY <2>1, <2>2, SetUpdate
  <2> QED BY <1>2, <1>4, <2>2, <2>3 DEF ParkedAs
<1>5. CASE InLine(s) # {}
  <2> DEFINE U == [e \in Numbers |-> IF e = d THEN second ELSE IF e \in InLine(s) THEN joined(e) ELSE s.update[e]]
  <2>1. t = [s EXCEPT !.update = U]
    BY <1>5 DEF Parked
  <2> HIDE DEF second, joined
  <2>2. /\ U \in [Numbers -> Runs] /\ U[d] = second /\ \A e \in InLine(s) : U[e] = joined(e)
        /\ \A e \in Numbers \ ({d} \cup InLine(s)) : U[e] = s.update[e]
    BY <1>1, <1>2, <1>3
  <2> HIDE DEF U
  <2>3. /\ t \in States /\ t.update = U /\ t.memo = s.memo /\ t.work = s.work /\ t.clock = s.clock
        /\ t.recheck = s.recheck
    BY <2>1, <2>2, SetUpdate
  <2> QED BY <1>2, <1>3, <1>5, <2>2, <2>3 DEF ParkedAs
<1> QED BY <1>4, <1>5

(* A delivery that is parked leaves a state that fits.                     *)
LEMMA ParkedFit ==
  ASSUME NEW s, NEW t, NEW d \in Numbers \ {Old}, Fit(s), s.update[d].state = "none", ~s.update[d].holds,
         s.update[d].agent \in CodingAgents, s.update[d].folder \in Folders, s.update[d].key # NoTree,
         ParkedAs(s, t, d)
  PROVE  Fit(t)
<1> DEFINE a == s.update[d].agent
<1>1. /\ s \in States /\ t \in States /\ FitRun(s, d) /\ FitRow(s) /\ a \in Agents
      /\ s.clock \in Nat /\ t.clock \in Nat /\ s.clock <= t.clock /\ t.clock = s.clock
      /\ t.work = s.work /\ t.recheck = s.recheck /\ t.memo = s.memo
  BY AgentsAre DEF Fit, States, ParkedAs
<1>2. \A e \in InLine(s) : e \in Numbers /\ e # d /\ s.update[e].state = "waiting" /\ FitRun(s, e)
  BY DEF InLine, Fit
<1>3. /\ \A e \in Numbers \ ({d} \cup InLine(s)) : t.update[e] = s.update[e] /\ FitRun(s, e)
      /\ \A e \in {d} \cup InLine(s) : /\ t.update[e].session = Nil /\ s.update[e].session = Nil
                                       /\ ~t.update[e].holds
                                       /\ t.update[e].agent = a /\ t.update[e].folder = s.update[d].folder
                                       /\ t.update[e].key # NoTree
                                       /\ t.update[e].id = Nil /\ t.update[e].chat = Nil /\ t.update[e].resume = Nil
                                       /\ t.update[e].reuse = NoTree /\ t.update[e].tree = NoTree
                                       /\ t.update[e].received <= t.clock /\ t.update[e].started <= t.clock
                                       /\ t.update[e].state \in {"waiting", "skipped"}
                                       /\ e \in Numbers /\ e # Old /\ s.work[e] = NoWork
  <2>1. \A e \in Numbers \ ({d} \cup InLine(s)) : t.update[e] = s.update[e] /\ FitRun(s, e)
    BY DEF ParkedAs, Fit
  <2>2. ASSUME NEW e \in {d} \cup InLine(s)
        PROVE  /\ t.update[e].session = Nil /\ s.update[e].session = Nil
               /\ ~t.update[e].holds
               /\ t.update[e].agent = a /\ t.update[e].folder = s.update[d].folder
               /\ t.update[e].key # NoTree
               /\ t.update[e].id = Nil /\ t.update[e].chat = Nil /\ t.update[e].resume = Nil
               /\ t.update[e].reuse = NoTree /\ t.update[e].tree = NoTree
               /\ t.update[e].received <= t.clock /\ t.update[e].started <= t.clock
               /\ t.update[e].state \in {"waiting", "skipped"}
               /\ e \in Numbers /\ e # Old /\ s.work[e] = NoWork
    <3>1. e \in Numbers /\ FitRun(s, e) /\ s.update[e].state \in {"none", "waiting"} /\ e # Old
      BY <1>1, <1>2 DEF FitRun
    <3>2. \E state \in {"waiting", "skipped"} :
             Waits(s.update[e], t.update[e], state, a, s.update[d].folder)
      BY DEF ParkedAs
    <3>3. /\ s.update[e].session = Nil /\ s.update[e].id = Nil /\ s.update[e].chat = Nil
          /\ s.update[e].resume = Nil /\ s.update[e].reuse = NoTree /\ s.update[e].tree = NoTree
          /\ ~s.update[e].holds /\ s.work[e] = NoWork
          /\ s.update[e].received <= s.clock /\ s.update[e].started <= s.clock
      BY <3>1 DEF FitRun
    <3>4. s.update[e].key # NoTree
      BY <3>1 DEF FitRun, InLine
    <3> HIDE DEF a
    <3> QED BY <1>1, <3>1, <3>2, <3>3, <3>4 DEF Waits
  <2> QED BY <2>1, <2>2
<1>4. \A n \in Numbers : Made(t, n) <=> Made(s, n)
  BY <1>3 DEF Made
<1>5. \A n \in {d} \cup InLine(s) : ~Made(s, n)
  BY <1>3, NumbersAre DEF Made
<1>6. HandsKept(s, t)
  BY <1>1 DEF HandsKept
<1>7. FitRow(t)
  BY <1>1, <1>4, <1>6, RowKept
<1>8. ASSUME NEW e \in Numbers PROVE FitRun(t, e)
  <2>1. CASE e \notin {d} \cup InLine(s)
    <3>1. e # Old /\ s.update[e].state \in {"none", "waiting", "skipped", "preparing", "creating"} => t.work[e] = NoWork
      BY <1>1, <1>3, <2>1 DEF FitRun
    <3> QED BY <1>1, <1>3, <1>4, <1>6, <2>1, <3>1, RunKept
  <2>2. CASE e \in {d} \cup InLine(s)
    <3>1. May(t, a, Nil)
      BY DEF May
    <3>2. /\ t.update[e].session = Nil /\ t.update[e].chat = Nil /\ t.update[e].resume = Nil
          /\ t.update[e].id = Nil /\ t.update[e].reuse = NoTree /\ t.update[e].tree = NoTree
          /\ ~t.update[e].holds /\ t.update[e].key # NoTree /\ t.update[e].agent = a
          /\ t.update[e].folder \in Folders /\ t.update[e].state \in {"waiting", "skipped"}
          /\ t.update[e].received <= t.clock /\ t.update[e].started <= t.clock
          /\ e # Old /\ t.work[e] = NoWork
      BY <1>1, <1>3, <2>2
    <3> QED BY <1>1, <3>1, <3>2 DEF FitRun
  <2> QED BY <2>1, <2>2
<1>9. ASSUME NEW n \in Numbers PROVE FitWork(t, n)
  <2>1. t.work[n] = s.work[n] /\ FitWork(s, n)
    BY <1>1 DEF Fit
  <2>2. d \notin s.work[n].watchers /\ s.work[n].watchers \cap InLine(s) = {} /\ s.work[n].watchers \subseteq Numbers
    BY <1>1, <1>2, <2>1 DEF FitWork, States, Works
  <2> QED BY <1>3, <1>4, <1>5, <2>1, <2>2 DEF FitWork
<1>10. \A e, f \in Numbers : t.update[e].state = "waiting" /\ t.update[f].state = "waiting" => e = f
  <2>1. CASE InLine(s) = {}
    <3>1. \A e \in Numbers \ {d} : t.update[e].state # "waiting"
      BY <1>3, <2>1 DEF InLine
    <3> QED BY <3>1
  <2>2. CASE InLine(s) # {}
    <3>1. t.update[d].state = "skipped"
      BY <2>2 DEF ParkedAs, Waits
    <3>2. \A e \in Numbers : t.update[e].state = "waiting" => s.update[e].state = "waiting"
      BY <1>2, <1>3, <3>1
    <3> QED BY <3>2 DEF Fit
  <2> QED BY <2>1, <2>2
<1>11. \A e, f \in Numbers : t.update[e].holds /\ t.update[f].holds /\ t.update[e].key = t.update[f].key => e = f
  BY <1>3 DEF Fit
<1>12. \A e \in t.recheck : t.update[e].state = "failed"
  <2>1. d \notin s.recheck /\ s.recheck \cap InLine(s) = {} /\ s.recheck \subseteq Numbers
    BY <1>1, <1>2 DEF Fit, States
  <2> QED BY <1>1, <1>3, <2>1 DEF Fit
<1> QED BY <1>1, <1>7, <1>8, <1>9, <1>10, <1>11, <1>12 DEF Fit
----------------------------------------------------------------------------
(* The pump.                                                               *)

PumpAs(s, t) ==
    \/ t = s /\ \A d \in InLine(s) : ~Free(s, s.update[d].key)
    \/ \E d \in InLine(s) : /\ Free(s, s.update[d].key) /\ Ready(s, d, TRUE)
                            /\ Start(s, t, d, TRUE)

(* The one waiter starts when its tree is free.                             *)
LEMMA PumpIs ==
  ASSUME NEW s, Fit(s), NEW t \in Pumped(s)
  PROVE  PumpAs(s, t)
<1> DEFINE d == CHOOSE d \in InLine(s) : TRUE
<1>1. s \in States /\ InLine(s) \subseteq Numbers
  BY DEF Fit, InLine
<1>2. CASE \E e \in InLine(s) : Free(s, s.update[e].key)
  <2>1. t \in Started([s EXCEPT !.update[d].holds = TRUE], d)
    BY <1>2, Zenon DEF Pumped
  <2>2. d \in InLine(s)
    BY <1>2
  <2> HIDE DEF d
  <2>3. \A e \in InLine(s) : e = d
    BY <2>2 DEF Fit, InLine
  <2>4. Free(s, s.update[d].key)
    BY <1>2, <2>3
  <2>5. FitRun(s, d) /\ s.update[d].state = "waiting"
    BY <2>2 DEF Fit, InLine
  <2>6. Ready(s, d, TRUE)
    BY <1>1, <2>2, <2>4, <2>5, AgentsAre DEF FitRun, Ready, Free
  <2>7. Start(s, t, d, TRUE)
    BY <1>1, <2>1, <2>6, StartedIs DEF Ready
  <2> QED BY <2>2, <2>4, <2>6, <2>7 DEF PumpAs
<1>3. CASE \A e \in InLine(s) : ~Free(s, s.update[e].key)
  <2>1. t = s
    BY <1>3 DEF Pumped
  <2> QED BY <1>3, <2>1 DEF PumpAs
<1> QED BY <1>2, <1>3

\* As many deliveries have come in t as in s.
SameArrivals(s, t) == \A n \in Numbers : t.update[n].state = "none" <=> s.update[n].state = "none"

(* So does the pump, and it takes nobody off a session.                    *)
LEMMA PumpFit ==
  ASSUME NEW s, NEW t, Fit(s), PumpAs(s, t)
  PROVE  /\ Fit(t) /\ SameArrivals(s, t)
         /\ \A X \in SUBSET Numbers : Listening(s, X) => Listening(t, X)
<1>1. CASE t = s
  BY <1>1 DEF SameArrivals
<1>2. CASE \E d \in InLine(s) : Ready(s, d, TRUE) /\ Start(s, t, d, TRUE)
  <2>1. PICK d \in InLine(s) : Ready(s, d, TRUE) /\ Start(s, t, d, TRUE)
    BY <1>2
  <2>2. Fit(t)
    BY <2>1, StartFit
  <2>3. \A X \in SUBSET Numbers : Listening(s, X) => Listening(t, X)
    BY <2>1, StartListening
  <2>4. SameArrivals(s, t)
    <3>1. d \in Numbers /\ s.update[d].state = "waiting"
      BY DEF InLine
    <3>2. t.update[d].state # "none"
      BY <2>1 DEF Start, AsFollowUp, AsNew, AsChat, AsRefused
    <3>3. \A e \in Numbers \ {d} : t.update[e] = s.update[e]
      BY <2>1 DEF Start, Begun
    <3> QED BY <3>1, <3>2, <3>3 DEF SameArrivals
  <2> QED BY <2>2, <2>3, <2>4
<1> QED BY <1>1, <1>2 DEF PumpAs

(* Ends make no delivery that has not come.                                 *)
LEMMA TameArrivals ==
  ASSUME NEW s, NEW t, Tame(s, t)
  PROVE  SameArrivals(s, t)
BY DEF Tame, OverAs, SameArrivals

(* Those that run in a session that is up still listen to it.               *)
LEMMA TameListening ==
  ASSUME NEW s, NEW t, s \in States, Tame(s, t), NEW X \in SUBSET Numbers, NEW Y \in SUBSET Numbers,
         Listening(s, X),
         \A d \in X \ Y : t.update[d].state # "running",
         \A n \in Numbers : t.work[n] = s.work[n] \/ s.work[n].watchers \subseteq Y
  PROVE  Listening(t, Y)
<1> SUFFICES ASSUME NEW d \in Numbers \ Y, t.update[d].state = "running", t.update[d].session # Nil,
                    t.work[t.update[d].session].up
             PROVE  d \in t.work[t.update[d].session].watchers
  BY DEF Listening
<1>1. t.update[d] = s.update[d] \/ (t.update[d].state \in {"succeeded", "failed"})
  BY DEF Tame, OverAs
<1>2. t.update[d] = s.update[d] /\ d \notin X
  BY <1>1
<1>3. s.update[d].session \in Numbers
  BY <1>2, NumbersAre DEF States, Runs
<1>4. s.work[s.update[d].session].up
  BY <1>2, <1>3 DEF Tame
<1>5. d \in s.work[s.update[d].session].watchers
  BY <1>2, <1>4 DEF Listening
<1> QED BY <1>2, <1>3, <1>5

----------------------------------------------------------------------------
(* The handlers' operators are tame.                                       *)

(* A session that falls silent.                                             *)
LEMMA SilentTame ==
  ASSUME NEW s, NEW t, NEW n \in Numbers, NEW up, Fit(s), SilentAs(s, t, n, up), up => s.work[n].up
  PROVE  Tame(s, t)
<1>1. \A m \in Numbers \ {n} : t.work[m] = s.work[m]
  BY DEF SilentAs, SameWork
<1> QED BY <1>1 DEF SilentAs, Fit, Tame

\* Deliveries that may be settled: nobody listens to a session for them.
MaySettle(s, ds) ==
    /\ ds \subseteq Numbers
    /\ \A d \in ds : s.update[d].state \in {"preparing", "creating", "running"}
    /\ \A n \in Numbers : s.work[n].watchers \cap ds = {}

(* Deliveries that end.                                                     *)
LEMMA ClosedTame ==
  ASSUME NEW s, NEW t, NEW ds, NEW how \in {"succeeded", "failed"}, Fit(s), MaySettle(s, ds),
         ClosedAs(s, t, ds, how)
  PROVE  Tame(s, t)
<1>1. s \in States /\ ds \subseteq Numbers /\ \A d \in s.recheck : s.update[d].state = "failed"
  BY DEF Fit, MaySettle
<1>2. \A n \in Numbers : s.work[n].watchers \subseteq Numbers
  BY <1>1 DEF States, Works
<1>3. \A d \in Numbers \ ds : t.update[d] = s.update[d]
  BY DEF ClosedAs, CloseAs
<1>4. \A d \in ds : OverAs(s.update[d], t.update[d], how)
                    /\ s.update[d].state \in {"preparing", "creating", "running", "failed"}
  BY DEF ClosedAs, CloseAs, MaySettle
<1>5. \A n \in Numbers : \A d \in t.work[n].watchers : t.update[d] = s.update[d]
  BY <1>2, <1>3 DEF ClosedAs, MaySettle
<1>6. \A d \in t.recheck : t.update[d].state = "failed"
  <2>1. t.recheck = s.recheck /\ s.recheck \subseteq Numbers \ ds
    BY <1>1 DEF ClosedAs, MaySettle, States
  <2> QED BY <1>1, <1>3, <2>1
<1> QED BY <1>1, <1>3, <1>4, <1>5, <1>6 DEF Tame, ClosedAs

(* Deliveries that fail change nothing else that has to fit.               *)
LEMMA FailedTame ==
  ASSUME NEW s, NEW t, NEW ds, Fit(s), MaySettle(s, ds), FailedAs(s, t, ds)
  PROVE  Tame(s, t)
<1>1. s \in States /\ ds \subseteq Numbers /\ \A d \in s.recheck : s.update[d].state = "failed"
  BY DEF Fit, MaySettle
<1>2. \A n \in Numbers : s.work[n].watchers \subseteq Numbers
  BY <1>1 DEF States, Works
<1>3. \A d \in Numbers \ ds : t.update[d] = s.update[d]
  BY DEF FailedAs, CloseAs
<1>4. \A d \in ds : OverAs(s.update[d], t.update[d], "failed")
                    /\ s.update[d].state \in {"preparing", "creating", "running", "failed"}
  BY DEF FailedAs, CloseAs, MaySettle
<1>5. \A n \in Numbers : \A d \in t.work[n].watchers : t.update[d] = s.update[d]
  BY <1>2, <1>3 DEF FailedAs, MaySettle
<1>6. \A d \in t.recheck : t.update[d].state = "failed"
  <2>1. t.recheck \subseteq s.recheck \cup ds
    BY DEF FailedAs, Hits
  <2>2. s.recheck \subseteq Numbers \ ds
    BY <1>1 DEF MaySettle, States
  <2>3. \A d \in ds : t.update[d].state = "failed"
    BY <1>4 DEF OverAs
  <2> QED BY <1>1, <1>3, <2>1, <2>2, <2>3
<1>7. t.memo = s.memo \/ t.memo = NoRow
  BY DEF FailedAs
<1> QED BY <1>1, <1>3, <1>4, <1>5, <1>6, <1>7 DEF Tame, FailedAs

(* A dropped row.                                                           *)
LEMMA DropTame ==
  ASSUME NEW s, NEW t, Fit(s), t \in States, t.memo = s.memo \/ t.memo = NoRow, t.update = s.update,
         t.work = s.work, t.clock = s.clock, t.recheck \subseteq s.recheck
  PROVE  Tame(s, t)
BY DEF Fit, Tame

\* What a restart makes of b.
NowDark(b, flying) ==
    Closed([b EXCEPT !.work = [n \in Numbers |-> Down(b, n).work[n]], !.recheck = {}], flying, "failed")

(* Everything stops.                                                        *)
LEMMA DarkTame ==
  ASSUME NEW s, NEW b, NEW t, NEW flying, Fit(s),
         flying = {d \in Numbers : UnderWay(s, d)},
         b = s \/ FailedAs(s, b, {d \in flying : s.update[d].state = "running"}),
         t = NowDark(b, flying)
  PROVE  /\ Tame(s, t) /\ t.recheck = {} /\ CloseAs(s, t, flying, "failed")
         /\ t.memo = b.memo /\ \A n \in Numbers : ~t.work[n].up /\ t.work[n].watchers = {}
<1> DEFINE W == [n \in Numbers |-> Down(b, n).work[n]]
           y == [b EXCEPT !.work = W]
           D == [b EXCEPT !.work = [n \in Numbers |-> Down(b, n).work[n]], !.recheck = {}]
           running == {d \in flying : s.update[d].state = "running"}
<1>1. s \in States /\ b \in States /\ b.clock = s.clock /\ b.work = s.work
  BY DEF Fit, FailedAs
<1>2. CloseAs(s, b, running, "failed") \/ b.update = s.update
  BY DEF FailedAs
<1>3. \A n \in Numbers : SilentAs(b, Down(b, n), n, FALSE)
  BY <1>1, DownIs
<1>4. W \in [Numbers -> Works] /\ \A n \in Numbers : W[n] = Down(b, n).work[n]
  BY <1>3 DEF SilentAs, States
<1>5. \A n \in Numbers : /\ ~W[n].up /\ ~W[n].busy /\ W[n].watchers = {} /\ W[n].agent = s.work[n].agent
                         /\ W[n].tree = s.work[n].tree /\ W[n].id = s.work[n].id
  <2> SUFFICES ASSUME NEW n \in Numbers
               PROVE  /\ ~W[n].up /\ ~W[n].busy /\ W[n].watchers = {} /\ W[n].agent = s.work[n].agent
                      /\ W[n].tree = s.work[n].tree /\ W[n].id = s.work[n].id
    OBVIOUS
  <2>1. W[n] = Down(b, n).work[n] /\ SilentAs(b, Down(b, n), n, FALSE)
    BY <1>3, <1>4
  <2> HIDE DEF W
  <2> QED BY <1>1, <2>1 DEF SilentAs
<1>0. D = [y EXCEPT !.recheck = {}] /\ y = [b EXCEPT !.work = W]
  BY <1>1 DEF States
<1>6. t = Closed(D, flying, "failed")
  BY DEF NowDark
<1> HIDE DEF W, D, y
<1>7. /\ y \in States /\ y.work = W /\ y.memo = b.memo /\ y.update = b.update /\ y.clock = b.clock
      /\ y.recheck = b.recheck
  BY <1>0, <1>1, <1>4, SetWork
<1>8. /\ D \in States /\ D.work = W /\ D.memo = b.memo /\ D.update = b.update /\ D.clock = b.clock
      /\ D.recheck = {}
  BY <1>0, <1>7, SetRecheck
<1>9. ClosedAs(D, t, flying, "failed")
  BY <1>6, <1>8, ClosedIs
<1>10. CloseAs(s, t, flying, "failed")
  <2>1. running \subseteq flying /\ flying \subseteq Numbers
    OBVIOUS
  <2> HIDE DEF running
  <2>2. \A d \in Numbers \ flying : t.update[d] = s.update[d]
    <3>1. \A d \in Numbers \ flying : t.update[d] = b.update[d]
      BY <1>8, <1>9 DEF ClosedAs, CloseAs
    <3>2. \A d \in Numbers \ flying : b.update[d] = s.update[d]
      BY <1>2, <2>1, Zenon DEF CloseAs
    <3> QED BY <3>1, <3>2
  <2>3. ASSUME NEW d \in flying PROVE OverAs(s.update[d], t.update[d], "failed")
    <3>1. OverAs(b.update[d], t.update[d], "failed")
      BY <1>8, <1>9 DEF ClosedAs, CloseAs
    <3>2. b.update[d] = s.update[d] \/ OverAs(s.update[d], b.update[d], "failed")
      BY <1>2, <2>1 DEF CloseAs
    <3> QED BY <3>1, <3>2 DEF OverAs, SameWish
  <2> QED BY <2>2, <2>3 DEF CloseAs
<1>11. /\ t \in States /\ t.clock = s.clock /\ t.recheck = {} /\ t.memo = b.memo /\ t.work = W
  BY <1>1, <1>8, <1>9 DEF ClosedAs
<1>12. b.memo = s.memo \/ b.memo = NoRow
  BY DEF FailedAs
<1>13. \A d \in flying : s.update[d].state \in {"preparing", "creating", "running", "failed"}
  BY DEF UnderWay, Starting
<1>14. \A d \in Numbers : \/ t.update[d] = s.update[d]
                          \/ /\ s.update[d].state \in {"preparing", "creating", "running", "failed"}
                             /\ OverAs(s.update[d], t.update[d], "failed")
  BY <1>10, <1>13 DEF CloseAs
<1>15. Tame(s, t)
  BY <1>5, <1>11, <1>12, <1>14 DEF Tame
<1> QED BY <1>5, <1>10, <1>11, <1>15
----------------------------------------------------------------------------
(* The actions, as relations between the states before and after.          *)

(* The parts of the state.                                                 *)
LEMMA NowParts ==
  /\ Now.memo = memo /\ Now.update = update /\ Now.work = work /\ Now.clock = clock
  /\ Now.recheck = recheck
BY DEF Now

(* What the state becomes.                                                 *)
LEMMA BecomesIs ==
  ASSUME NEW s \in States, Becomes(s)
  PROVE  Now' = s
<1>1. s = [memo |-> s.memo, update |-> s.update, work |-> s.work, clock |-> s.clock, recheck |-> s.recheck]
  BY DEF States
<1> QED BY <1>1 DEF Now, Becomes

(* What is left of a scenario is a scenario, of the same row.              *)
LEMMA LeftStays ==
  ASSUME LeftOK, issueLeft' = issueLeft \/ \E what \in Counters : IssuePay(what)
  PROVE  LeftOK' /\ issueLeft'.row = issueLeft.row
<1>1. CASE issueLeft' = issueLeft
  BY <1>1 DEF LeftOK
<1>2. CASE \E what \in Counters : IssuePay(what)
  <2>1. PICK what \in Counters : IssuePay(what)
    BY <1>2
  <2>2. issueLeft[what] \in Nat /\ issueLeft[what] > 0 /\ issueLeft' = [issueLeft EXCEPT ![what] = issueLeft[what] - 1]
    BY <2>1 DEF LeftOK, Scenarios, Counters, IssuePay
  <2>3. issueLeft[what] - 1 \in Nat
    BY <2>2
  <2>4. issueLeft' \in Scenarios /\ issueLeft'.row = issueLeft.row /\ issueLeft'.plan = issueLeft.plan
    BY <2>2, <2>3 DEF LeftOK, Scenarios, Counters
  <2> QED BY <2>4 DEF LeftOK
<1> QED BY <1>1, <1>2

(* What is fit depends on nothing but the state and the row there was at first. *)
LEMMA FitStays ==
  ASSUME NEW s, Fit(s), issueLeft'.row = issueLeft.row
  PROVE  Fit(s)'
<1>1. \A a, n : May(s, a, n)' <=> May(s, a, n)
  BY DEF May, Ancient
<1>2. FitRow(s)'
  <2>1. FitRow(s)
    BY DEF Fit
  <2> QED BY <1>1, <2>1 DEF FitRow
<1>3. ASSUME NEW d \in Numbers PROVE FitRun(s, d)'
  <2>1. FitRun(s, d)
    BY DEF Fit
  <2> QED BY <1>1, <2>1 DEF FitRun
<1> QED BY <1>2, <1>3 DEF Fit

(* A step into a fit state leaves the invariant true.                       *)
LEMMA FitStep ==
  ASSUME IFit, NEW t, Now' = t, Fit(t), Listening(t, {}), SameArrivals(Now, t), routed' \in Folders,
         issueLeft' = issueLeft \/ \E what \in Counters : IssuePay(what)
  PROVE  IFit'
<1>1. LeftOK' /\ issueLeft'.row = issueLeft.row
  BY LeftStays DEF IFit
<1>2. Fit(t)'
  BY <1>1, FitStays
<1>3. InOrderOfArrival(t)
  <2>1. PICK k \in 1 .. MaxUpdates : \A n \in 2 .. MaxUpdates : Now.update[n].state = "none" <=> n > k
    BY DEF IFit, InOrderOfArrival
  <2>2. \A n \in 2 .. MaxUpdates : n \in Numbers
    BY IssueAssumption DEF Numbers
  <2>3. \A n \in 2 .. MaxUpdates : t.update[n].state = "none" <=> n > k
    BY <2>1, <2>2 DEF SameArrivals
  <2> QED BY <2>3 DEF InOrderOfArrival
<1>4. Fit(Now)' /\ Listening(Now, {})' /\ InOrderOfArrival(Now)'
  BY <1>2, <1>3
<1> QED BY <1>1, <1>4 DEF IFit
ArrivesAs(s, t, d, key) ==
    \E p \in Wishes, f \in Folders, came \in States :
        /\ s.update[d].state = "none" /\ \A n \in 2 .. MaxUpdates : s.update[n].state = "none" <=> n >= d
        /\ key = KeyFor(s, p) /\ f = routed
        /\ ArrivedAs(s, came, d, p, f, key) /\ Fit(came)
        /\ \/ key = NoTree /\ Ready(came, d, FALSE) /\ Start(came, t, d, FALSE)
           \/ key # NoTree /\ Free(s, key) /\ Ready(came, d, TRUE) /\ Start(came, t, d, TRUE)
           \/ key # NoTree /\ ~Free(s, key) /\ p.agent \in CodingAgents /\ ParkedAs(came, t, d)

(* dispatch: the new delivery starts, takes its tree and starts, or waits.  *)
LEMMA ArrivesIs ==
  ASSUME IFit, Arrives
  PROVE  \E d \in Numbers \ {Old}, key \in Trees : ArrivesAs(Now, Now', d, key)
<1> DEFINE d == CHOOSE n \in Numbers \ {Old} : /\ update[n].state = "none"
                                               /\ \A k \in 2 .. n - 1 : update[k].state # "none"
           p    == issueLeft.plan[d - 1]
           key  == KeyFor(Now, p)
           came == [Now EXCEPT !.clock = @ + 1,
                        !.update[d] = [NoRun EXCEPT !.agent = p.agent, !.gated = p.gated,
                                         !.folder = routed, !.key = key,
                                         !.received = clock + 1]]
<1>1. Fit(Now) /\ Now \in States /\ routed \in Folders /\ LeftOK /\ InOrderOfArrival(Now) /\ Now.clock = clock
      /\ Now.update = update
  BY NowParts DEF IFit, Fit
<1>2. /\ \E n \in 2 .. Len(issueLeft.plan) + 1 : update[n].state = "none"
      /\ IF key = NoTree THEN \E s \in Started(came, d) : Becomes(s)
         ELSE IF Free(Now, key)
              THEN \E s \in Started([came EXCEPT !.update[d].holds = TRUE], d) : Becomes(s)
         ELSE Becomes(Parked(came, d))
  BY DEF Arrives
<1>3. /\ d \in Numbers \ {Old} /\ update[d].state = "none" /\ d - 1 \in 1 .. Len(issueLeft.plan)
      /\ \A n \in 2 .. MaxUpdates : update[n].state = "none" <=> n >= d
  <2>1. PICK k \in 1 .. MaxUpdates : \A n \in 2 .. MaxUpdates : update[n].state = "none" <=> n > k
    BY <1>1 DEF InOrderOfArrival
  <2>2. PICK n \in 2 .. Len(issueLeft.plan) + 1 : update[n].state = "none"
    BY <1>2
  <2>3. Len(issueLeft.plan) \in Nat /\ Len(issueLeft.plan) < MaxUpdates /\ MaxUpdates \in Nat
    BY <1>1, IssueAssumption DEF LeftOK, Scenarios
  <2>4. n > k /\ n \in 2 .. MaxUpdates /\ k + 1 \in 2 .. MaxUpdates
    BY <2>1, <2>2, <2>3
  <2>5. k + 1 \in Numbers \ {Old} /\ update[k + 1].state = "none"
        /\ \A j \in 2 .. (k + 1) - 1 : update[j].state # "none"
    BY <2>1, <2>3, <2>4 DEF Numbers, Old
  <2>6. d \in Numbers \ {Old} /\ update[d].state = "none" /\ \A j \in 2 .. d - 1 : update[j].state # "none"
    <3>1. \E m \in Numbers \ {Old} : /\ update[m].state = "none"
                                     /\ \A j \in 2 .. m - 1 : update[j].state # "none"
      BY <2>5
    <3> QED BY <3>1
  <2> HIDE DEF d
  <2>7. d \in 2 .. MaxUpdates
    BY <2>6 DEF Numbers, Old
  <2>8. d = k + 1
    BY <2>1, <2>5, <2>6, <2>7
  <2> QED BY <2>1, <2>2, <2>3, <2>4, <2>6, <2>8
<1> HIDE DEF d
<1>4. p \in Wishes
  BY <1>1, <1>3 DEF LeftOK, Scenarios
<1>5. p.agent \in Agents
  BY <1>4 DEF Wishes
<1>6. key \in Trees /\ (key # NoTree => p.agent \in CodingAgents)
  BY <1>1, NumbersAre DEF KeyFor, States, Rows, NoTree, Tree, Trees
<1>7. came = NowArrived(Now, d, p, routed, key)
  BY <1>1 DEF NowArrived, NewRun
<1> HIDE DEF p, key, came
<1>8. ArrivedAs(Now, came, d, p, routed, key) /\ came = [came EXCEPT !.update[d].holds = FALSE]
  BY <1>1, <1>3, <1>4, <1>6, <1>7, ArrivedIs DEF Wishes
<1>9. Fit(came) /\ came \in States
  <2>1. Now.update[d].state = "none" /\ d \in Numbers \ {Old} /\ Fit(Now)
    BY <1>1, <1>3
  <2>2. ArrivedAs(Now, came, d, p, routed, key)
    BY <1>8
  <2>3. came \in States
    BY <2>2 DEF ArrivedAs
  <2> QED BY <2>1, <2>2, <2>3, ArrivedFit
<1>10. /\ came.update[d].agent = p.agent /\ came.update[d].folder = routed /\ came.update[d].state = "none"
       /\ came.update[d].key = key /\ ~came.update[d].holds
       /\ \A e \in Numbers \ {d} : came.update[e] = update[e]
  BY <1>1, <1>8 DEF ArrivedAs
<1>11. key = KeyFor(Now, p)
  BY DEF key
<1>12. CASE key = NoTree
  <2>1. PICK s \in Started(came, d) : Becomes(s)
    BY <1>2, <1>12
  <2>2. s \in Started([came EXCEPT !.update[d].holds = FALSE], d)
    BY <1>8, <2>1
  <2>3. Ready(came, d, FALSE)
    BY <1>1, <1>3, <1>5, <1>10 DEF Ready
  <2>4. Start(came, s, d, FALSE)
    BY <1>1, <1>3, <1>5, <1>9, <1>10, <2>2, StartedIs
  <2>5. Now' = s
    BY <2>1, <2>4, BecomesIs DEF Start, Begun
  <2>6. ArrivesAs(Now, Now', d, key)
    BY <1>1, <1>3, <1>4, <1>8, <1>9, <1>11, <1>12, <2>3, <2>4, <2>5 DEF ArrivesAs
  <2> QED BY <1>3, <1>6, <2>6
<1>13. CASE key # NoTree /\ Free(Now, key)
  <2>1. PICK s \in Started([came EXCEPT !.update[d].holds = TRUE], d) : Becomes(s)
    BY <1>2, <1>13
  <2>2. \A e \in Numbers : ~(came.update[e].holds /\ came.update[e].key = key)
    BY <1>1, <1>10, <1>13 DEF Free
  <2>3. Ready(came, d, TRUE)
    BY <1>1, <1>3, <1>5, <1>6, <1>10, <1>13, <2>2 DEF Ready
  <2>4. Start(came, s, d, TRUE)
    BY <1>1, <1>3, <1>5, <1>9, <1>10, <2>1, StartedIs
  <2>5. Now' = s
    BY <2>1, <2>4, BecomesIs DEF Start, Begun
  <2>6. ArrivesAs(Now, Now', d, key)
    BY <1>1, <1>3, <1>4, <1>8, <1>9, <1>11, <1>13, <2>3, <2>4, <2>5 DEF ArrivesAs
  <2> QED BY <1>3, <1>6, <2>6
<1>14. CASE key # NoTree /\ ~Free(Now, key)
  <2>1. Becomes(Parked(came, d))
    BY <1>2, <1>14
  <2>2. ParkedAs(came, Parked(came, d), d)
    BY <1>3, <1>9, <1>10, ParkedIs
  <2>3. Now' = Parked(came, d)
    BY <2>1, <2>2, BecomesIs DEF ParkedAs
  <2>4. ArrivesAs(Now, Now', d, key)
    BY <1>1, <1>3, <1>4, <1>6, <1>8, <1>9, <1>11, <1>14, <2>2, <2>3 DEF ArrivesAs
  <2> QED BY <1>3, <1>6, <2>4
<1> QED BY <1>12, <1>13, <1>14

(* dispatch keeps the state fit.                                           *)
LEMMA ArrivesFit ==
  ASSUME IFit, Arrives
  PROVE  IFit'
<1>1. PICK d \in Numbers \ {Old}, key \in Trees : ArrivesAs(Now, Now', d, key)
  BY ArrivesIs
<1>2. PICK p \in Wishes, f \in Folders, came \in States :
        /\ Now.update[d].state = "none" /\ \A n \in 2 .. MaxUpdates : Now.update[n].state = "none" <=> n >= d
        /\ f = routed
        /\ ArrivedAs(Now, came, d, p, f, key) /\ Fit(came)
        /\ \/ key = NoTree /\ Ready(came, d, FALSE) /\ Start(came, Now', d, FALSE)
           \/ key # NoTree /\ Free(Now, key) /\ Ready(came, d, TRUE) /\ Start(came, Now', d, TRUE)
           \/ key # NoTree /\ ~Free(Now, key) /\ p.agent \in CodingAgents /\ ParkedAs(came, Now', d)
  BY <1>1 DEF ArrivesAs
<1>3. PICK t : t = Now'
  OBVIOUS
<1>4. Listening(came, {})
  <2>1. Listening(Now, {})
    BY DEF IFit
  <2>2. came.work = Now.work /\ came.update[d].state = "none" /\ \A e \in Numbers \ {d} : came.update[e] = Now.update[e]
    BY <1>2 DEF ArrivedAs
  <2> QED BY <2>1, <2>2 DEF Listening
<1>5. came.update[d].state = "none" /\ came.update[d].agent = p.agent /\ came.update[d].folder = f
      /\ came.update[d].key = key /\ ~came.update[d].holds
      /\ \A e \in Numbers \ {d} : came.update[e] = Now.update[e]
  BY <1>2 DEF ArrivedAs
<1>6. /\ Fit(t) /\ Listening(t, {}) /\ t.update[d].state # "none"
      /\ \A e \in Numbers \ {d} : t.update[e].state = "none" <=> Now.update[e].state = "none"
  <2>1. CASE \E h \in BOOLEAN : Ready(came, d, h) /\ Start(came, t, d, h)
    <3>1. PICK h \in BOOLEAN : Ready(came, d, h) /\ Start(came, t, d, h)
      BY <2>1
    <3>2. Fit(t)
      BY <1>2, <3>1, StartFit
    <3>3. Listening(t, {})
      BY <1>2, <1>4, <3>1, StartListening
    <3>4. t.update[d].state # "none"
      BY <3>1 DEF Start, AsFollowUp, AsNew, AsChat, AsRefused
    <3>5. \A e \in Numbers \ {d} : t.update[e] = Now.update[e]
      BY <1>5, <3>1 DEF Start, Begun
    <3> QED BY <3>2, <3>3, <3>4, <3>5
  <2>2. CASE key # NoTree /\ p.agent \in CodingAgents /\ ParkedAs(came, t, d)
    <3>1. Fit(t)
      BY <1>2, <1>5, <2>2, ParkedFit
    <3>2. \A e \in InLine(came) \cup {d} : t.update[e].state \in {"waiting", "skipped"} /\ (e # d => came.update[e].state = "waiting")
      BY <2>2 DEF ParkedAs, Waits, InLine
    <3>3. \A e \in Numbers \ (InLine(came) \cup {d}) : t.update[e] = came.update[e]
      BY <2>2 DEF ParkedAs
    <3>4. t.work = came.work
      BY <2>2 DEF ParkedAs
    <3>5. Listening(t, {})
      <4>1. \A e \in Numbers : t.update[e].state = "running" => t.update[e] = came.update[e]
        BY <3>2, <3>3
      <4> QED BY <1>4, <3>4, <4>1 DEF Listening
    <3> QED BY <1>5, <3>1, <3>2, <3>3, <3>5
  <2> QED BY <1>2, <1>3, <2>1, <2>2
<1>7. issueLeft' = issueLeft /\ routed' = routed
  BY DEF Arrives
<1>8. LeftOK' /\ Fit(t)'
  BY <1>6, <1>7, LeftStays, FitStays DEF IFit
<1>9. InOrderOfArrival(t)
  <2>0. MaxUpdates \in Nat /\ d \in 2 .. MaxUpdates /\ \A n \in 2 .. MaxUpdates : n \in Numbers
    BY IssueAssumption DEF Numbers, Old
  <2>1. \A n \in 2 .. MaxUpdates : t.update[n].state = "none" <=> n > d
    <3> TAKE n \in 2 .. MaxUpdates
    <3>1. Now.update[n].state = "none" <=> n >= d
      BY <1>2
    <3>2. CASE n = d
      BY <1>6, <3>2, <2>0
    <3>3. CASE n # d
      <4>1. t.update[n].state = "none" <=> Now.update[n].state = "none"
        BY <1>6, <2>0, <3>3
      <4> QED BY <2>0, <3>1, <3>3, <4>1
    <3> QED BY <3>2, <3>3
  <2>2. d \in 1 .. MaxUpdates
    BY <2>0
  <2> QED BY <2>1, <2>2 DEF InOrderOfArrival
<1>10. Fit(Now)' /\ Listening(Now, {})' /\ InOrderOfArrival(Now)'
  BY <1>3, <1>6, <1>8, <1>9
<1> QED BY <1>7, <1>8, <1>10 DEF IFit
(* Prepared is the step of PreparedAs.                                     *)
LEMMA PreparedAct ==
  ASSUME IFit, NEW d \in Numbers, Prepared(d)
  PROVE  Now.update[d].state = "preparing" /\ Now.recheck = {} /\ PreparedAs(Now, Now', d)
<1> DEFINE r    == update[d]
           kept == r.reuse # NoTree /\ r.reuse.of \notin gone
           tree == IF kept THEN r.reuse ELSE Tree(r.folder, d)
           q    == [r EXCEPT !.state = "creating", !.tree = tree, !.resume = IF kept THEN @ ELSE Nil]
           s    == Remembers([Now EXCEPT !.update[d] = q], d, "tree", tree)
<1>1. Fit(Now)
  BY DEF IFit
<1>2. r.state = "preparing" /\ recheck = {} /\ Becomes(s)
  BY DEF Prepared
<1>3. s = NowPrepared(Now, d)
  BY NowParts DEF NowPrepared, TreeOf, Keeps
<1> HIDE DEF s
<1>4. Now.update[d].state = "preparing" /\ Now.recheck = {}
  BY <1>2, NowParts
<1>5. PreparedAs(Now, s, d)
  BY <1>1, <1>3, <1>4, PreparedIs
<1>6. s \in States
  BY <1>5 DEF PreparedAs
<1>7. Now' = s
  BY <1>2, <1>6, BecomesIs
<1> QED BY <1>4, <1>5, <1>7

(* Prepared keeps the state fit.                                           *)
LEMMA PreparedActFit ==
  ASSUME IFit, NEW d \in Numbers, Prepared(d)
  PROVE  IFit'
<1>1. Fit(Now) /\ Listening(Now, {}) /\ routed \in Folders
  BY DEF IFit
<1>2. Now.update[d].state = "preparing" /\ PreparedAs(Now, Now', d)
  BY PreparedAct
<1>3. PICK t : t = Now'
  OBVIOUS
<1>4. Fit(t)
  BY <1>1, <1>2, <1>3, PreparedFit
<1>5. /\ t.work = Now.work /\ t.update[d].state = "creating"
      /\ \A e \in Numbers \ {d} : t.update[e] = Now.update[e]
  BY <1>2, <1>3 DEF PreparedAs
<1>6. Listening(t, {}) /\ SameArrivals(Now, t)
  BY <1>1, <1>2, <1>5 DEF Listening, SameArrivals
<1>7. issueLeft' = issueLeft /\ routed' = routed
  BY DEF Prepared
<1> QED BY <1>1, <1>3, <1>4, <1>6, <1>7, FitStep

\* id: what is reported of the conversation at once.
CreatesAs(s, t, d) ==
    \E id \in Ids : /\ CreatedAs(s, t, d, id) /\ (id = Nil \/ id = t.work[d].id)
                    /\ s.update[d].resume # Nil => id # Nil

(* Created is the step of CreatesAs.                                       *)
LEMMA CreatedAct ==
  ASSUME IFit, NEW d \in Numbers, Created(d)
  PROVE  Now.update[d].state = "creating" /\ Now.recheck = {} /\ CreatesAs(Now, Now', d)
<1> DEFINE r == update[d]
           w == WorkOf(Now, d)
<1>1. Fit(Now) /\ Now.update = update /\ Now \in States
  BY NowParts DEF IFit, Fit
<1>2. /\ r.state = "creating" /\ recheck = {}
      /\ \/ Becomes(Remembers(NowCreated(Now, d, w.id), d, "id", w.id))
         \/ r.resume = Nil /\ Becomes(NowCreated(Now, d, Nil))
  <2>1. w = [up |-> TRUE, busy |-> TRUE, agent |-> r.agent, tree |-> r.tree,
             watchers |-> {d}, id |-> IF r.resume = Nil THEN d ELSE r.resume]
    BY <1>1 DEF WorkOf
  <2> HIDE DEF w
  <2>2. \A id : NowCreated(Now, d, id) =
                  Remembers([Now EXCEPT !.update[d] = [[r EXCEPT !.state = "running", !.session = d, !.holds = FALSE]
                                                         EXCEPT !.id = id], !.work[d] = w],
                            d, "session", d)
    BY <1>1 DEF NowCreated, w
  <2>3. r.state = "creating" /\ recheck = {}
    BY DEF Created
  <2> QED BY <2>1, <2>2, <2>3 DEF Created
<1>3. Now.update[d].state = "creating" /\ Now.recheck = {} /\ Now.update[d].resume = r.resume
  BY <1>1, <1>2, NowParts
<1>4. w.id = (IF r.resume = Nil THEN d ELSE r.resume) /\ w.id \in Ids /\ w.id # Nil
  <2>1. r.resume \in Ids
    BY <1>1 DEF States, Runs
  <2> QED BY <1>1, <2>1, NumbersAre DEF WorkOf
<1> HIDE DEF w, r
<1>5. CASE Becomes(Remembers(NowCreated(Now, d, w.id), d, "id", w.id))
  <2>1. PICK s : s = Remembers(NowCreated(Now, d, w.id), d, "id", w.id)
    OBVIOUS
  <2>2. s = IF w.id = Nil THEN NowCreated(Now, d, w.id) ELSE Remembers(NowCreated(Now, d, w.id), d, "id", w.id)
    BY <2>1, <1>4
  <2>3. CreatedAs(Now, s, d, w.id)
    BY <1>1, <1>3, <1>4, <2>2, CreatedIs
  <2>4. s \in States /\ s.work[d].id = w.id
    BY <1>3, <1>4, <2>3 DEF CreatedAs
  <2>5. Now' = s
    BY <1>5, <2>1, <2>4, BecomesIs
  <2> QED BY <1>3, <1>4, <2>3, <2>4, <2>5 DEF CreatesAs
<1>6. CASE r.resume = Nil /\ Becomes(NowCreated(Now, d, Nil))
  <2>1. PICK s : s = NowCreated(Now, d, Nil)
    OBVIOUS
  <2>2. Nil \in Ids
    BY NumbersAre
  <2>3. CreatedAs(Now, s, d, Nil)
    BY <1>1, <1>3, <2>1, <2>2, CreatedIs
  <2>4. s \in States
    BY <2>3 DEF CreatedAs
  <2>5. Now' = s
    BY <1>6, <2>1, <2>4, BecomesIs
  <2> QED BY <1>3, <1>6, <2>2, <2>3, <2>5 DEF CreatesAs
<1> QED BY <1>2, <1>3, <1>5, <1>6

(* Created keeps the state fit.                                            *)
LEMMA CreatedActFit ==
  ASSUME IFit, NEW d \in Numbers, Created(d)
  PROVE  IFit'
<1>1. Fit(Now) /\ Listening(Now, {}) /\ routed \in Folders
  BY DEF IFit
<1>2. Now.update[d].state = "creating" /\ CreatesAs(Now, Now', d)
  BY CreatedAct
<1>3. PICK t : t = Now'
  OBVIOUS
<1>4. PICK id \in Ids : /\ CreatedAs(Now, t, d, id) /\ (id = Nil \/ id = t.work[d].id)
                        /\ Now.update[d].resume # Nil => id # Nil
  BY <1>2, <1>3 DEF CreatesAs
<1>5. Fit(t)
  BY <1>1, <1>2, <1>4, CreatedFit
<1>6. /\ t.update[d].state = "running" /\ t.update[d].session = d /\ t.work[d].watchers = {d}
      /\ \A e \in Numbers \ {d} : t.update[e] = Now.update[e] /\ t.work[e] = Now.work[e]
  BY <1>4 DEF CreatedAs, SameWork
<1>7. ~Now.work[d].up
  <2>1. FitRun(Now, d) /\ Now.update[d].state = "creating"
    BY <1>1, <1>2 DEF Fit
  <2>2. Now.work[d] = NoWork
    BY <2>1 DEF FitRun
  <2> QED BY <2>2 DEF NoWork
<1>8. \A e \in Numbers : t.update[e].session = Nil \/ t.update[e].session \in Numbers
  BY <1>5, NumbersAre DEF Fit, States, Runs
<1>9. Listening(t, {})
  <2> SUFFICES ASSUME NEW e \in Numbers, t.update[e].state = "running", t.update[e].session # Nil,
                      t.work[t.update[e].session].up
               PROVE  e \in t.work[t.update[e].session].watchers
    BY DEF Listening
  <2>1. CASE e = d
    BY <1>6, <2>1
  <2>2. CASE e # d /\ t.update[e].session # d
    BY <1>1, <1>6, <1>8, <2>2 DEF Listening
  <2>3. CASE e # d /\ t.update[e].session = d
    <3>1. Now.update[e].session = d /\ Now.update[e].state = "running"
      BY <1>6, <2>3
    <3>2. FitRun(Now, e)
      BY <1>1 DEF Fit
    <3>3. Made(Now, d)
      BY <3>1, <3>2, NumbersAre DEF FitRun
    <3>4. Now.update[d].session = Nil
      BY <1>1, <1>2 DEF Fit, FitRun
    <3> QED BY <3>3, <3>4, NumbersAre DEF Made
  <2> QED BY <2>1, <2>2, <2>3
<1>10. SameArrivals(Now, t)
  BY <1>2, <1>6 DEF SameArrivals
<1>11. issueLeft' = issueLeft /\ routed' = routed
  BY DEF Created
<1> QED BY <1>1, <1>3, <1>5, <1>9, <1>10, <1>11, FitStep

(* Announced is the step of AnnouncedAs.                                   *)
LEMMA AnnouncedAct ==
  ASSUME IFit, NEW n \in Numbers, Announced(n)
  PROVE  Now.work[n].up /\ Now.work[n].watchers # {} /\ AnnouncedAs(Now, Now', n)
<1> DEFINE heard == work[n].watchers
           first == CHOOSE d \in heard : \A e \in heard : update[d].started <= update[e].started
           s == Remembers([Now EXCEPT !.update = [d \in Numbers |->
                             IF d \in heard THEN [update[d] EXCEPT !.id = work[n].id] ELSE update[d]]],
                         first, "id", work[n].id)
<1>1. Fit(Now)
  BY DEF IFit
<1>2. work[n].up /\ heard # {} /\ Becomes(s)
  BY DEF Announced
<1>3. s = NowAnnounced(Now, n)
  BY NowParts DEF NowAnnounced
<1> HIDE DEF s
<1>4. Now.work[n].up /\ Now.work[n].watchers # {}
  BY <1>2, NowParts
<1>5. AnnouncedAs(Now, s, n)
  BY <1>1, <1>3, <1>4, AnnouncedIs
<1>6. Now' = s
  BY <1>2, <1>5, BecomesIs DEF AnnouncedAs
<1> QED BY <1>4, <1>5, <1>6

(* Announced keeps the state fit.                                          *)
LEMMA AnnouncedActFit ==
  ASSUME IFit, NEW n \in Numbers, Announced(n)
  PROVE  IFit'
<1>1. Fit(Now) /\ Listening(Now, {}) /\ routed \in Folders
  BY DEF IFit
<1>2. Now.work[n].up /\ AnnouncedAs(Now, Now', n)
  BY AnnouncedAct
<1>3. PICK t : t = Now'
  OBVIOUS
<1>4. Fit(t)
  BY <1>1, <1>2, <1>3, AnnouncedFit
<1>5. t.work = Now.work /\ \A d \in Numbers : /\ t.update[d].state = Now.update[d].state
                                              /\ t.update[d].session = Now.update[d].session
  BY <1>2, <1>3 DEF AnnouncedAs, HeardAs
<1>6. Listening(t, {}) /\ SameArrivals(Now, t)
  BY <1>1, <1>5 DEF Listening, SameArrivals
<1>7. issueLeft' = issueLeft /\ routed' = routed
  BY DEF Announced
<1> QED BY <1>1, <1>3, <1>4, <1>6, <1>7, FitStep
----------------------------------------------------------------------------
(* The ends.                                                               *)

TurnOverAs(s, t, n) ==
    \E y, u \in States :
        /\ SilentAs(s, y, n, TRUE) /\ PumpAs(y, u)
        /\ ClosedAs(u, t, s.work[n].watchers, "succeeded") \/ FailedAs(u, t, s.work[n].watchers)

(* turn_complete.                                                           *)
LEMMA TurnOverIs ==
  ASSUME IFit, NEW n \in Numbers, TurnOver(n)
  PROVE  Now.work[n].up /\ TurnOverAs(Now, Now', n)
<1>1. Fit(Now) /\ Now \in States /\ work = Now.work
  BY NowParts DEF IFit, Fit
<1>2. PICK y : y = Quiet(Now, n)
  OBVIOUS
<1>3. Now.work[n].up /\ Now.work[n].watchers \subseteq Numbers
  BY <1>1 DEF TurnOver, States, Works
<1>4. SilentAs(Now, y, n, TRUE)
  <2>1. SilentAs(Now, y, n, Now.work[n].up)
    BY <1>1, <1>2, QuietIs
  <2>2. Now.work[n].up = TRUE
    BY <1>1, <1>3 DEF States, Works
  <2> QED BY <2>1, <2>2
<1>5. Fit(y) /\ y \in States
  <2>1. Tame(Now, y)
    BY <1>1, <1>3, <1>4, SilentTame
  <2> QED BY <1>1, <2>1, TameFit DEF Tame
<1>6. PICK u \in Pumped(y), how \in {"succeeded", "failed"} : Becomes(Settling(u, work[n].watchers, how))
  BY <1>2 DEF TurnOver
<1>7. PumpAs(y, u) /\ u \in States
  <2>1. PumpAs(y, u)
    BY <1>5, PumpIs
  <2> QED BY <1>5, <2>1, PumpFit DEF Fit
<1>8. CASE how = "succeeded"
  <2>1. PICK t : t = Closed(u, work[n].watchers, "succeeded")
    OBVIOUS
  <2>2. Becomes(t)
    BY <1>6, <1>8, <2>1 DEF Settling
  <2>3. ClosedAs(u, t, Now.work[n].watchers, "succeeded")
    BY <1>1, <1>3, <1>7, <2>1, ClosedIs
  <2>4. Now' = t
    BY <2>2, <2>3, BecomesIs DEF ClosedAs
  <2> QED BY <1>3, <1>4, <1>5, <1>7, <2>3, <2>4 DEF TurnOverAs
<1>9. CASE how = "failed"
  <2>1. PICK t : t = Failed(u, work[n].watchers)
    OBVIOUS
  <2>2. Becomes(t)
    BY <1>6, <1>9, <2>1 DEF Settling
  <2>3. FailedAs(u, t, Now.work[n].watchers)
    BY <1>1, <1>3, <1>7, <2>1, FailedIs
  <2>4. Now' = t
    BY <2>2, <2>3, BecomesIs DEF FailedAs
  <2> QED BY <1>3, <1>4, <1>5, <1>7, <2>3, <2>4 DEF TurnOverAs
<1> QED BY <1>8, <1>9

(* Nobody listens any more to the session that fell silent for those who did, *)
(* whatever the pump has started.                                            *)
LEMMA WatchersSettle ==
  ASSUME NEW s, NEW y, NEW u, NEW n \in Numbers, NEW up, Fit(s), SilentAs(s, y, n, up), Fit(y), PumpAs(y, u)
  PROVE  MaySettle(u, s.work[n].watchers)
<1> DEFINE W == s.work[n].watchers
<1>1. s \in States /\ FitWork(s, n) /\ W \subseteq Numbers /\ y.update = s.update
  BY DEF Fit, States, Works, SilentAs
<1>2. \A d \in W : s.update[d].state = "running" /\ s.update[d].session = n
  BY <1>1 DEF FitWork
<1>3. \A d \in W : u.update[d] = s.update[d]
  <2>1. CASE u = y
    BY <1>1, <2>1
  <2>2. CASE u # y
    <3>1. PICK d \in InLine(y) : Start(y, u, d, TRUE)
      BY <2>2 DEF PumpAs
    <3>2. d \notin W
      BY <1>1, <1>2 DEF InLine
    <3> QED BY <1>1, <3>1, <3>2 DEF Start, Begun
  <2> QED BY <2>1, <2>2
<1>4. ASSUME NEW m \in Numbers PROVE u.work[m].watchers \cap W = {}
  <2>0. Fit(u)
    BY PumpFit
  <2>1. u.work[m].watchers \subseteq Numbers /\ y.work[m].watchers \subseteq Numbers /\ Fit(u) /\ y \in States
    BY <2>0 DEF Fit, States, Works
  <2>2. y.work[m].watchers \cap W = {}
    <3>1. y.work[n].watchers = {}
      BY DEF SilentAs
    <3>2. CASE m # n
      <4>1. FitWork(y, m)
        BY DEF Fit
      <4> QED BY <1>1, <1>2, <3>2, <4>1 DEF FitWork
    <3> QED BY <3>1, <3>2
  <2>3. CASE u = y
    BY <2>2, <2>3
  <2>4. CASE u # y
    <3>1. PICK d \in InLine(y) : Start(y, u, d, TRUE) /\ Ready(y, d, TRUE)
      BY <2>4 DEF PumpAs
    <3>2. d \notin W /\ d \in Numbers
      BY <1>1, <1>2 DEF InLine
    <3>3. u.work[m].watchers \subseteq y.work[m].watchers \cup {d}
      <4>1. y.work[d] = NoWork /\ y.work[d] \in Works
        BY <2>1, <3>2 DEF Ready, Fit, States, FitRun, InLine
      <4>2. CASE AsFollowUp(y, u, d)
        BY <4>2 DEF AsFollowUp, SameWork
      <4>3. CASE AsChat(y, u, d)
        <5>1. u.work[d].watchers = y.work[d].watchers
          BY <4>1, <4>3 DEF AsChat, Works
        <5> QED BY <4>3, <5>1 DEF AsChat, SameWork
      <4>4. CASE AsNew(y, u, d, TRUE) \/ AsRefused(y, u, d)
        BY <4>4 DEF AsNew, AsRefused
      <4> QED BY <3>1, <4>2, <4>3, <4>4 DEF Start
    <3> QED BY <2>2, <3>2, <3>3
  <2> QED BY <2>3, <2>4
<1> QED BY <1>1, <1>2, <1>3, <1>4 DEF MaySettle

(* The end of a turn keeps the state fit.                                  *)
LEMMA TurnOverFit ==
  ASSUME IFit, NEW n \in Numbers, TurnOver(n)
  PROVE  IFit'
<1>1. Fit(Now) /\ Listening(Now, {}) /\ routed \in Folders /\ Now \in States
  BY DEF IFit, Fit
<1>2. Now.work[n].up /\ TurnOverAs(Now, Now', n)
  BY TurnOverIs
<1> DEFINE W == Now.work[n].watchers
<1>3. PICK t : t = Now'
  OBVIOUS
<1>4. PICK y, u \in States :
        /\ SilentAs(Now, y, n, TRUE) /\ PumpAs(y, u)
        /\ ClosedAs(u, t, W, "succeeded") \/ FailedAs(u, t, W)
  BY <1>2, <1>3 DEF TurnOverAs
<1>5. W \subseteq Numbers /\ FitWork(Now, n)
  BY <1>1 DEF Fit, States, Works
<1>6. Tame(Now, y) /\ Fit(y) /\ SameArrivals(Now, y)
  BY <1>1, <1>2, <1>4, SilentTame, TameFit, TameArrivals
<1>7. Listening(y, W)
  <2>1. \A m \in Numbers : y.work[m] = Now.work[m] \/ Now.work[m].watchers \subseteq W
    BY <1>4 DEF SilentAs, SameWork
  <2> QED BY <1>1, <1>5, <1>6, <2>1, TameListening
<1>8. Fit(u) /\ SameArrivals(y, u) /\ Listening(u, W)
  BY <1>4, <1>5, <1>6, <1>7, PumpFit
<1>9. MaySettle(u, W)
  BY <1>1, <1>4, <1>6, WatchersSettle
<1>10. Tame(u, t)
  BY <1>4, <1>8, <1>9, ClosedTame, FailedTame
<1>11. Fit(t) /\ SameArrivals(u, t)
  BY <1>8, <1>10, TameFit, TameArrivals
<1>12. \A d \in W : t.update[d].state # "running"
  BY <1>4 DEF ClosedAs, FailedAs, CloseAs, OverAs
<1>13. t.work = u.work
  BY <1>4 DEF ClosedAs, FailedAs
<1>14. Listening(t, {})
  BY <1>4, <1>5, <1>8, <1>10, <1>12, <1>13, TameListening
<1>15. SameArrivals(Now, t)
  BY <1>6, <1>8, <1>11 DEF SameArrivals
<1>16. routed' = routed /\ (issueLeft' = issueLeft \/ \E what \in Counters : IssuePay(what))
  BY DEF TurnOver, Counters
<1> QED BY <1>1, <1>3, <1>11, <1>14, <1>15, <1>16, FitStep

(* A resume that fails: y is s with session n at rest, u after the pump, v  *)
(* with the turn's deliveries failed, x with n down, t with those that the  *)
(* pump let into n failed.                                                  *)
FailsTwice(s, y, u, v, x, t, n) ==
    /\ s.work[n].up
    /\ SilentAs(s, y, n, TRUE) /\ PumpAs(y, u) /\ FailedAs(u, v, s.work[n].watchers)
    /\ SilentAs(v, x, n, FALSE) /\ FailedAs(x, t, u.work[n].watchers)
    /\ Fit(y) /\ Fit(u) /\ Fit(v) /\ Fit(x)

(* ResumeFails is those steps.                                             *)
LEMMA ResumeFailsIs ==
  ASSUME IFit, NEW n \in Numbers, ResumeFails(n)
  PROVE  \E y, u, v, x \in States :
           /\ FailsTwice(Now, y, u, v, x, Now', n) /\ Fit(Now')
           /\ SameArrivals(Now, Now') /\ Listening(Now', {})
           /\ cost' = [cost EXCEPT ![Now.work[n].id] =
                         @ + Cardinality(Now.work[n].watchers \cup u.work[n].watchers)]
<1> DEFINE W == Now.work[n].watchers
<1>1. Fit(Now) /\ Listening(Now, {}) /\ Now \in States /\ work = Now.work
  BY NowParts DEF IFit, Fit
<1>2. PICK y : y = Quiet(Now, n)
  OBVIOUS
<1>3. Now.work[n].up /\ W \subseteq Numbers
  BY <1>1 DEF ResumeFails, States, Works
<1>4. SilentAs(Now, y, n, TRUE)
  <2>1. SilentAs(Now, y, n, Now.work[n].up)
    BY <1>1, <1>2, QuietIs
  <2>2. Now.work[n].up = TRUE
    BY <1>1, <1>3 DEF States, Works
  <2> QED BY <2>1, <2>2
<1>5. Tame(Now, y) /\ Fit(y) /\ y \in States /\ SameArrivals(Now, y)
  <2>1. Tame(Now, y)
    BY <1>1, <1>3, <1>4, SilentTame
  <2> QED BY <1>1, <2>1, TameFit, TameArrivals DEF Tame
<1>6. PICK u \in Pumped(y) :
         /\ Becomes(Failed(Down(Failed(u, work[n].watchers), n), u.work[n].watchers))
         /\ cost' = [cost EXCEPT ![work[n].id] = @ + Cardinality(work[n].watchers \cup u.work[n].watchers)]
  BY <1>2, Zenon DEF ResumeFails
<1> DEFINE V == u.work[n].watchers
<1>7. PumpAs(y, u) /\ Fit(u) /\ u \in States /\ SameArrivals(y, u)
  <2>1. PumpAs(y, u)
    BY <1>5, PumpIs
  <2> QED BY <1>5, <2>1, PumpFit DEF Fit
<1>8. PICK v : v = Failed(u, W)
  OBVIOUS
<1>9. FailedAs(u, v, W) /\ v \in States
  <2>1. FailedAs(u, v, W)
    BY <1>3, <1>7, <1>8, FailedIs
  <2> QED BY <2>1 DEF FailedAs
<1>10. Tame(u, v) /\ Fit(v) /\ SameArrivals(u, v)
  <2>1. MaySettle(u, W)
    BY <1>1, <1>4, <1>5, <1>7, WatchersSettle
  <2>2. Tame(u, v)
    BY <1>7, <1>9, <2>1, FailedTame
  <2> QED BY <1>7, <2>2, TameFit, TameArrivals
<1>11. PICK x : x = Down(v, n)
  OBVIOUS
<1>12. SilentAs(v, x, n, FALSE) /\ x \in States
  <2>1. SilentAs(v, x, n, FALSE)
    BY <1>9, <1>11, DownIs
  <2> QED BY <2>1 DEF SilentAs
<1>13. Tame(v, x) /\ Fit(x) /\ SameArrivals(v, x)
  <2>1. Tame(v, x)
    BY <1>10, <1>12, SilentTame
  <2> QED BY <1>10, <2>1, TameFit, TameArrivals
<1>14. PICK t : t = Failed(x, V)
  OBVIOUS
<1>15. V \subseteq Numbers /\ FitWork(u, n) /\ v.work = u.work
  BY <1>7, <1>9 DEF Fit, States, Works, FailedAs
<1>16. FailedAs(x, t, V) /\ t \in States
  <2>1. FailedAs(x, t, V)
    BY <1>12, <1>14, <1>15, FailedIs
  <2> QED BY <2>1 DEF FailedAs
<1>17. MaySettle(x, V)
  <2>1. \A d \in V : u.update[d].state = "running" /\ u.update[d].session = n
    BY <1>15 DEF FitWork
  <2>2. \A d \in V : v.update[d].state = "running" /\ v.update[d].session = n
    <3>1. FitWork(v, n) /\ v.work[n].watchers = V
      BY <1>10, <1>15 DEF Fit
    <3> QED BY <3>1 DEF FitWork
  <2>3. \A m \in Numbers : x.work[m].watchers \cap V = {}
    <3> SUFFICES ASSUME NEW m \in Numbers PROVE x.work[m].watchers \cap V = {}
      OBVIOUS
    <3>1. CASE m = n
      BY <1>12, <3>1 DEF SilentAs
    <3>2. CASE m # n
      <4>1. x.work[m] = v.work[m] /\ FitWork(v, m)
        BY <1>10, <1>12, <3>2 DEF SilentAs, SameWork, Fit
      <4> QED BY <2>2, <3>2, <4>1 DEF FitWork
    <3> QED BY <3>1, <3>2
  <2>4. x.update = v.update
    BY <1>12 DEF SilentAs
  <2> QED BY <1>15, <2>2, <2>3, <2>4 DEF MaySettle
<1>18. Tame(x, t) /\ Fit(t) /\ SameArrivals(x, t)
  <2>1. Tame(x, t)
    BY <1>13, <1>16, <1>17, FailedTame
  <2> QED BY <1>13, <2>1, TameFit, TameArrivals
<1>19. Now' = t
  <2>1. Becomes(t)
    BY <1>1, <1>6, <1>8, <1>11, <1>14
  <2> QED BY <2>1, <1>16, BecomesIs
<1>20. SameArrivals(Now, t)
  BY <1>5, <1>7, <1>10, <1>13, <1>18 DEF SameArrivals
<1>21. Listening(t, {})
  <2>1. \A m \in Numbers : y.work[m] = Now.work[m] \/ Now.work[m].watchers \subseteq W
    BY <1>4 DEF SilentAs, SameWork
  <2>2. Listening(y, W)
    BY <1>1, <1>3, <1>5, <2>1, TameListening
  <2>3. Listening(u, W)
    BY <1>3, <1>5, <1>7, <2>2, PumpFit
  <2>4. \A d \in W : v.update[d].state # "running"
    BY <1>9 DEF FailedAs, CloseAs, OverAs
  <2>5. Listening(v, {})
    BY <1>3, <1>7, <1>10, <1>15, <2>3, <2>4, TameListening
  <2>6. \A m \in Numbers : x.work[m] = v.work[m] \/ v.work[m].watchers \subseteq V
    BY <1>12, <1>15 DEF SilentAs, SameWork
  <2>7. Listening(x, V)
    BY <1>9, <1>13, <1>15, <2>5, <2>6, TameListening
  <2>8. (\A d \in V : t.update[d].state # "running") /\ t.work = x.work
    BY <1>16 DEF FailedAs, CloseAs, OverAs
  <2> QED BY <1>12, <1>15, <1>18, <2>7, <2>8, TameListening
<1>22. FailsTwice(Now, y, u, v, x, t, n)
  BY <1>3, <1>4, <1>5, <1>7, <1>9, <1>10, <1>12, <1>13, <1>16 DEF FailsTwice
<1> QED BY <1>1, <1>5, <1>6, <1>7, <1>9, <1>12, <1>18, <1>19, <1>20, <1>21, <1>22

(* A resume that fails keeps the state fit.                                *)
LEMMA ResumeFailsFit ==
  ASSUME IFit, NEW n \in Numbers, ResumeFails(n)
  PROVE  IFit'
<1>1. Fit(Now') /\ SameArrivals(Now, Now') /\ Listening(Now', {})
  BY ResumeFailsIs
<1>2. PICK t : t = Now'
  OBVIOUS
<1>3. routed' = routed /\ issueLeft' = issueLeft /\ routed \in Folders
  BY DEF ResumeFails, IFit
<1> QED BY <1>1, <1>2, <1>3, FitStep
(* A session ends.                                                          *)
LEMMA SessionExitsIs ==
  ASSUME IFit, NEW n \in Numbers, SessionExits(n)
  PROVE  \E y, u \in States :
           /\ Now.work[n].up /\ SilentAs(Now, y, n, FALSE) /\ PumpAs(y, u)
           /\ Now' = u \/ FailedAs(u, Now', Now.work[n].watchers)
           /\ Fit(y) /\ Fit(u) /\ Fit(Now')
           /\ SameArrivals(Now, Now') /\ Listening(Now', {})
<1> DEFINE W == Now.work[n].watchers
<1>1. Fit(Now) /\ Listening(Now, {}) /\ Now \in States /\ work = Now.work
  BY NowParts DEF IFit, Fit
<1>2. PICK y : y = Down(Now, n)
  OBVIOUS
<1>3. Now.work[n].up /\ W \subseteq Numbers
  BY <1>1 DEF SessionExits, States, Works
<1>4. SilentAs(Now, y, n, FALSE)
  BY <1>1, <1>2, DownIs
<1>5. Tame(Now, y) /\ Fit(y) /\ y \in States /\ SameArrivals(Now, y)
  <2>1. Tame(Now, y)
    BY <1>1, <1>4, SilentTame
  <2> QED BY <1>1, <2>1, TameFit, TameArrivals DEF Tame
<1>6. PICK u \in Pumped(y) : Becomes(u) \/ Becomes(Failed(u, work[n].watchers))
  BY <1>2, Zenon DEF SessionExits
<1>7. PumpAs(y, u) /\ Fit(u) /\ u \in States /\ SameArrivals(y, u)
  <2>1. PumpAs(y, u)
    BY <1>5, PumpIs
  <2> QED BY <1>5, <2>1, PumpFit DEF Fit
<1>8. Listening(y, {})
  <2>1. \A m \in Numbers : y.work[m] = Now.work[m] \/ Now.work[m].watchers \subseteq W
    BY <1>4 DEF SilentAs, SameWork
  <2>2. Listening(y, W)
    BY <1>1, <1>3, <1>5, <2>1, TameListening
  <2>3. FitWork(Now, n)
    BY <1>1 DEF Fit
  <2>4. \A d \in W : y.update[d].session = n /\ ~y.work[n].up
    BY <1>4, <2>3 DEF SilentAs, FitWork
  <2> QED BY <2>2, <2>4 DEF Listening
<1>9. Listening(u, {})
  BY <1>5, <1>7, <1>8, PumpFit
<1>10. CASE Becomes(u)
  <2>1. Now' = u
    BY <1>7, <1>10, BecomesIs
  <2>2. SameArrivals(Now, u)
    BY <1>5, <1>7 DEF SameArrivals
  <2> QED BY <1>3, <1>4, <1>5, <1>7, <1>9, <2>1, <2>2
<1>11. CASE Becomes(Failed(u, work[n].watchers))
  <2>1. PICK t : t = Failed(u, W)
    OBVIOUS
  <2>2. FailedAs(u, t, W)
    BY <1>3, <1>7, <2>1, FailedIs
  <2>3. t \in States /\ t.work = u.work
    BY <2>2 DEF FailedAs
  <2>4. Now' = t
    <3>1. Becomes(t)
      BY <1>1, <1>11, <2>1
    <3> QED BY <2>3, <3>1, BecomesIs
  <2>5. MaySettle(u, W)
    BY <1>1, <1>4, <1>5, <1>7, WatchersSettle
  <2>6. Tame(u, t) /\ Fit(t) /\ SameArrivals(u, t)
    <3>1. Tame(u, t)
      BY <1>7, <2>2, <2>5, FailedTame
    <3> QED BY <1>7, <3>1, TameFit, TameArrivals
  <2>7. Listening(t, {})
    BY <1>7, <1>9, <2>3, <2>6, TameListening
  <2>8. SameArrivals(Now, t)
    BY <1>5, <1>7, <2>6 DEF SameArrivals
  <2> QED BY <1>3, <1>4, <1>5, <1>7, <2>2, <2>4, <2>6, <2>7, <2>8
<1> QED BY <1>6, <1>10, <1>11

(* The end of a session keeps the state fit.                               *)
LEMMA SessionExitsFit ==
  ASSUME IFit, NEW n \in Numbers, SessionExits(n)
  PROVE  IFit'
<1>1. Fit(Now') /\ SameArrivals(Now, Now') /\ Listening(Now', {})
  BY SessionExitsIs
<1>2. PICK t : t = Now'
  OBVIOUS
<1>3. routed' = routed /\ (issueLeft' = issueLeft \/ \E what \in Counters : IssuePay(what)) /\ routed \in Folders
  BY DEF SessionExits, Counters, IFit
<1> QED BY <1>1, <1>2, <1>3, FitStep

LooksAgainAs(s, t, d) ==
    /\ t \in States /\ t.update = s.update /\ t.work = s.work /\ t.clock = s.clock
    /\ t.recheck = s.recheck \ {d}
    /\ t.memo = IF Resumed(s, d) /\ ~UpIn(s, s.memo.session) THEN NoRow ELSE s.memo

(* The second look.                                                         *)
LEMMA LooksAgainIs ==
  ASSUME IFit, NEW d \in Numbers, LooksAgain(d)
  PROVE  d \in Now.recheck /\ LooksAgainAs(Now, Now', d)
<1> DEFINE m == IF Resumed(Now, d) /\ ~UpIn(Now, memo.session) THEN NoRow ELSE Now.memo
           y == [Now EXCEPT !.recheck = Now.recheck \ {d}]
           s == [Now EXCEPT !.recheck = @ \ {d},
                            !.memo = IF Resumed(Now, d) /\ ~UpIn(Now, memo.session) THEN NoRow ELSE @]
<1>1. Now \in States /\ Now.recheck \subseteq Numbers /\ Now.memo = memo /\ Now.recheck = recheck
  BY NowParts DEF IFit, Fit, States
<1>2. m \in Rows
  BY <1>1, NumbersAre DEF States, Rows, NoRow, NoTree, Tree, Trees
<1>3. d \in recheck /\ Becomes(s)
  BY DEF LooksAgain
<1>4. s = [y EXCEPT !.memo = m]
  <2> HIDE DEF m
  <2>1. s = [Now EXCEPT !.recheck = Now.recheck \ {d}, !.memo = m]
    BY DEF m
  <2> QED BY <1>1, <2>1 DEF States
<1>0. y = [Now EXCEPT !.recheck = Now.recheck \ {d}]
  OBVIOUS
<1> HIDE DEF s, m, y
<1>5. /\ y \in States /\ y.recheck = Now.recheck \ {d} /\ y.memo = Now.memo
      /\ y.update = Now.update /\ y.work = Now.work /\ y.clock = Now.clock
  BY <1>0, <1>1, SetRecheck
<1>6. /\ s \in States /\ s.memo = m /\ s.recheck = y.recheck
      /\ s.update = y.update /\ s.work = y.work /\ s.clock = y.clock
  BY <1>2, <1>4, <1>5, SetMemo
<1>7. Now' = s
  BY <1>3, <1>6, BecomesIs
<1>8. m = IF Resumed(Now, d) /\ ~UpIn(Now, Now.memo.session) THEN NoRow ELSE Now.memo
  BY <1>1 DEF m
<1> QED BY <1>1, <1>3, <1>5, <1>6, <1>7, <1>8 DEF LooksAgainAs

(* The second look keeps the state fit.                                    *)
LEMMA LooksAgainFit ==
  ASSUME IFit, NEW d \in Numbers, LooksAgain(d)
  PROVE  IFit'
<1>1. LooksAgainAs(Now, Now', d) /\ Fit(Now) /\ Listening(Now, {}) /\ routed \in Folders
  BY LooksAgainIs DEF IFit
<1>2. PICK t : t = Now'
  OBVIOUS
<1>3. t.update = Now.update /\ t.work = Now.work /\ Tame(Now, t)
  BY <1>1, <1>2, DropTame DEF LooksAgainAs
<1>4. Fit(t) /\ SameArrivals(Now, t)
  BY <1>1, <1>3, TameFit, TameArrivals
<1>5. Listening(t, {})
  BY <1>1, <1>3 DEF Listening
<1>6. routed' = routed /\ issueLeft' = issueLeft
  BY DEF LooksAgain
<1> QED BY <1>1, <1>2, <1>4, <1>5, <1>6, FitStep

(* A start that fails.                                                      *)
LEMMA StartFailsIs ==
  ASSUME IFit, NEW d \in Numbers, StartFails(d)
  PROVE  \E y \in States :
           /\ Starting(Now, d) /\ ClosedAs(Now, y, {d}, "failed") /\ PumpAs(y, Now')
           /\ Fit(y) /\ Fit(Now') /\ SameArrivals(Now, Now') /\ Listening(y, {}) /\ Listening(Now', {})
<1>1. Fit(Now) /\ Listening(Now, {}) /\ Now \in States
  BY DEF IFit, Fit
<1>2. PICK y : y = Closed(Now, {d}, "failed")
  OBVIOUS
<1>3. Starting(Now, d)
  BY DEF StartFails
<1>4. ClosedAs(Now, y, {d}, "failed")
  BY <1>1, <1>2, ClosedIs
<1>5. y \in States /\ y.work = Now.work /\ y.update[d].state # "running"
  BY <1>4 DEF ClosedAs, CloseAs, OverAs
<1>6. MaySettle(Now, {d})
  <2>1. \A m \in Numbers : d \notin Now.work[m].watchers
    BY <1>1, <1>3 DEF Fit, FitWork, Starting
  <2> QED BY <1>3, <2>1 DEF MaySettle, Starting
<1>7. Tame(Now, y) /\ Fit(y) /\ SameArrivals(Now, y) /\ Listening(y, {})
  <2>1. Tame(Now, y)
    BY <1>1, <1>4, <1>6, ClosedTame
  <2> QED BY <1>1, <1>5, <2>1, TameFit, TameArrivals, TameListening
<1>8. PICK t \in Pumped(y) : Becomes(t)
  BY <1>2, Zenon DEF StartFails
<1>9. PumpAs(y, t)
  BY <1>7, <1>8, PumpIs
<1>10. Fit(t) /\ SameArrivals(y, t) /\ Listening(t, {}) /\ t \in States
  BY <1>7, <1>9, PumpFit DEF Fit
<1>11. Now' = t
  BY <1>8, <1>10, BecomesIs
<1>12. SameArrivals(Now, t)
  BY <1>7, <1>10 DEF SameArrivals
<1> QED BY <1>3, <1>4, <1>5, <1>7, <1>9, <1>10, <1>11, <1>12

(* A start that fails keeps the state fit.                                 *)
LEMMA StartFailsFit ==
  ASSUME IFit, NEW d \in Numbers, StartFails(d)
  PROVE  IFit'
<1>1. Fit(Now') /\ SameArrivals(Now, Now') /\ Listening(Now', {})
  BY StartFailsIs
<1>2. PICK t : t = Now'
  OBVIOUS
<1>3. routed' = routed /\ (issueLeft' = issueLeft \/ \E what \in Counters : IssuePay(what)) /\ routed \in Folders
  BY DEF StartFails, Counters, IFit
<1> QED BY <1>1, <1>2, <1>3, FitStep

(* A chat's turn ends.                                                      *)
LEMMA PocketEndsIs ==
  ASSUME IFit, NEW d \in Numbers, PocketEnds(d)
  PROVE  \E how \in {"succeeded", "failed"} :
           /\ Now.update[d].state = "running" /\ Now.update[d].chat # Nil /\ Now.update[d].session = Nil
           /\ ClosedAs(Now, Now', {d}, how) /\ Tame(Now, Now')
<1>1. Fit(Now) /\ Now \in States /\ Now.update = update
  BY NowParts DEF IFit, Fit
<1>2. PICK how \in {"succeeded", "failed"} : Becomes(Closed(Now, {d}, how))
  BY DEF PocketEnds
<1>3. Now.update[d].state = "running" /\ Now.update[d].chat # Nil
  BY <1>1 DEF PocketEnds
<1>4. Now.update[d].session = Nil
  BY <1>1, <1>3 DEF Fit, FitRun
<1>5. PICK t : t = Closed(Now, {d}, how)
  OBVIOUS
<1>6. ClosedAs(Now, t, {d}, how)
  BY <1>1, <1>5, ClosedIs
<1>7. Now' = t
  BY <1>2, <1>5, <1>6, BecomesIs DEF ClosedAs
<1>8. MaySettle(Now, {d})
  <2>1. \A m \in Numbers : d \notin Now.work[m].watchers
    BY <1>1, <1>4, NumbersAre DEF Fit, FitWork
  <2> QED BY <1>3, <2>1 DEF MaySettle
<1> QED BY <1>1, <1>3, <1>4, <1>6, <1>7, <1>8, ClosedTame

(* The end of a chat keeps the state fit.                                  *)
LEMMA PocketEndsFit ==
  ASSUME IFit, NEW d \in Numbers, PocketEnds(d)
  PROVE  IFit'
<1>1. PICK how \in {"succeeded", "failed"} : ClosedAs(Now, Now', {d}, how) /\ Tame(Now, Now')
  BY PocketEndsIs
<1>2. PICK t : t = Now'
  OBVIOUS
<1>3. Fit(Now) /\ Listening(Now, {}) /\ Now \in States /\ routed \in Folders
  BY DEF IFit, Fit
<1>4. t.work = Now.work /\ Tame(Now, t)
  BY <1>1, <1>2 DEF ClosedAs
<1>5. Fit(t) /\ SameArrivals(Now, t) /\ Listening(t, {})
  BY <1>3, <1>4, TameFit, TameArrivals, TameListening
<1>6. routed' = routed /\ issueLeft' = issueLeft
  BY DEF PocketEnds
<1> QED BY <1>2, <1>3, <1>5, <1>6, FitStep
----------------------------------------------------------------------------
(* The sweep, restarts, and what people do.                                *)

\* Those that run in a session that is no more.
Deaf(s) == {d \in Numbers : s.update[d].state = "running" /\ s.update[d].session # Nil
                            /\ ~s.work[s.update[d].session].up}

\* t is v, perhaps without the row.
PrunedAs(s, v, t) ==
    /\ t \in States /\ t.update = v.update /\ t.work = v.work /\ t.clock = v.clock
    /\ t.recheck = v.recheck
    /\ t.memo = v.memo \/ (t.memo = NoRow /\ s.memo.there /\ \A d \in Numbers : ~UnderWay(s, d))

(* The deaf may be settled, before the pump or after it.                    *)
LEMMA DeafSettle ==
  ASSUME NEW s, NEW u, Fit(s), u = s \/ PumpAs(s, u)
  PROVE  MaySettle(u, Deaf(s)) /\ \A d \in Deaf(s) : u.update[d] = s.update[d]
<1>1. s \in States /\ Fit(u) /\ u \in States
  BY PumpFit DEF Fit
<1>2. \A d \in Deaf(s) : u.update[d] = s.update[d] /\ d \in Numbers
  <2>1. CASE u = s
    BY <2>1 DEF Deaf
  <2>2. CASE u # s
    <3>1. PICK d \in InLine(s) : Start(s, u, d, TRUE)
      BY <2>2 DEF PumpAs
    <3>2. d \notin Deaf(s)
      BY DEF InLine, Deaf
    <3> QED BY <3>1, <3>2 DEF Start, Begun, Deaf
  <2> QED BY <2>1, <2>2
<1>3. \A m \in Numbers : u.work[m].up => s.work[m].up
  <2>1. CASE u = s
    BY <2>1
  <2>2. CASE u # s
    <3>1. PICK d \in InLine(s) : Start(s, u, d, TRUE)
      BY <2>2 DEF PumpAs
    <3>2. d \in Numbers /\ s.work[d] \in Works
      BY <1>1 DEF InLine, States
    <3>3. CASE AsFollowUp(s, u, d)
      BY <3>3 DEF AsFollowUp, SameWork
    <3>4. CASE AsNew(s, u, d, TRUE) \/ AsRefused(s, u, d)
      BY <3>4 DEF AsNew, AsRefused
    <3>5. CASE AsChat(s, u, d)
      <4>1. u.work[d].up = s.work[d].up
        BY <3>2, <3>5 DEF AsChat, Works
      <4> QED BY <3>5, <4>1 DEF AsChat, SameWork
    <3> QED BY <3>1, <3>3, <3>4, <3>5 DEF Start
  <2> QED BY <2>1, <2>2
<1>4. ASSUME NEW m \in Numbers, NEW d \in Deaf(s), d \in u.work[m].watchers PROVE FALSE
  <2>1. FitWork(u, m)
    BY <1>1 DEF Fit
  <2>2. u.work[m].up /\ u.update[d].session = m
    BY <1>4, <2>1 DEF FitWork
  <2> QED BY <1>2, <1>3, <2>2 DEF Deaf
<1> QED BY <1>2, <1>4 DEF MaySettle, Deaf

(* The sweep pumps and settles, in either order, and may then drop the     *)
(* row.                                                                    *)
LEMMA SweepsIs ==
  ASSUME IFit, Sweeps
  PROVE  \E u, v \in States :
           /\ \/ PumpAs(Now, u) /\ FailedAs(u, v, Deaf(Now))
              \/ FailedAs(Now, u, Deaf(Now)) /\ PumpAs(u, v)
           /\ PrunedAs(Now, v, Now') /\ Fit(u) /\ Fit(v) /\ Fit(Now')
           /\ SameArrivals(Now, Now') /\ Listening(Now', {})
<1>1. Fit(Now) /\ Listening(Now, {}) /\ Now \in States /\ Now.update = update /\ Now.memo = memo /\ Now.work = work
  BY NowParts DEF IFit, Fit
<1>2. Unheard = Deaf(Now)
  BY <1>1 DEF Unheard, Deaf
<1> DEFINE after(s) == [s EXCEPT !.memo = IF issueLeft' = issueLeft THEN s.memo ELSE NoRow]
<1>3. PICK v \in Upon(Pumped(Now), LAMBDA s : Failed(s, Unheard)) \cup Pumped(Failed(Now, Unheard)) :
         Becomes(after(v))
  BY DEF Sweeps
<1>4. MaySettle(Now, Deaf(Now)) /\ Deaf(Now) \subseteq Numbers
  BY <1>1, DeafSettle DEF MaySettle
<1>5. \E u \in States :
         /\ \/ PumpAs(Now, u) /\ FailedAs(u, v, Deaf(Now))
            \/ FailedAs(Now, u, Deaf(Now)) /\ PumpAs(u, v)
         /\ Fit(u) /\ Fit(v) /\ SameArrivals(Now, v) /\ Listening(v, {})
  <2>1. CASE v \in Upon(Pumped(Now), LAMBDA s : Failed(s, Unheard))
    <3>1. PICK u \in Pumped(Now) : v = Failed(u, Unheard)
      BY <2>1 DEF Upon
    <3>2. PumpAs(Now, u)
      BY <1>1, PumpIs
    <3>3. Fit(u) /\ SameArrivals(Now, u) /\ Listening(u, {}) /\ u \in States
      BY <1>1, <3>2, PumpFit DEF Fit
    <3>4. FailedAs(u, v, Deaf(Now))
      BY <1>2, <1>4, <3>1, <3>3, FailedIs
    <3>5. MaySettle(u, Deaf(Now))
      BY <1>1, <3>2, DeafSettle
    <3>6. Tame(u, v)
      BY <3>3, <3>4, <3>5, FailedTame
    <3>7. v.work = u.work
      BY <3>4 DEF FailedAs
    <3>8. Fit(v) /\ SameArrivals(u, v) /\ Listening(v, {})
      BY <3>3, <3>6, <3>7, TameFit, TameArrivals, TameListening
    <3>9. SameArrivals(Now, v)
      BY <3>3, <3>8 DEF SameArrivals
    <3> QED BY <3>2, <3>3, <3>4, <3>8, <3>9
  <2>2. CASE v \in Pumped(Failed(Now, Unheard))
    <3>1. PICK u : u = Failed(Now, Unheard)
      OBVIOUS
    <3>2. FailedAs(Now, u, Deaf(Now))
      BY <1>1, <1>2, <1>4, <3>1, FailedIs
    <3>3. Tame(Now, u)
      BY <1>1, <1>4, <3>2, FailedTame
    <3>4. u.work = Now.work /\ u \in States
      BY <3>2 DEF FailedAs
    <3>5. Fit(u) /\ SameArrivals(Now, u) /\ Listening(u, {})
      BY <1>1, <3>3, <3>4, TameFit, TameArrivals, TameListening
    <3>6. v \in Pumped(u)
      BY <2>2, <3>1
    <3>7. PumpAs(u, v)
      BY <3>5, <3>6, PumpIs
    <3>8. Fit(v) /\ SameArrivals(u, v) /\ Listening(v, {})
      BY <3>5, <3>7, PumpFit
    <3>9. SameArrivals(Now, v)
      BY <3>5, <3>8 DEF SameArrivals
    <3> QED BY <3>2, <3>4, <3>5, <3>7, <3>8, <3>9
  <2> QED BY <1>3, <2>1, <2>2
<1>6. v \in States /\ v.memo \in Rows /\ NoRow \in Rows
  BY <1>5, NumbersAre DEF Fit, States, NoRow, Rows, NoTree, Tree, Trees
<1> DEFINE m == IF issueLeft' = issueLeft THEN v.memo ELSE NoRow
<1>7. PICK t : t = [v EXCEPT !.memo = m]
  OBVIOUS
<1>8. m \in Rows
  BY <1>6
<1>9. \/ Now.memo.there /\ \A d \in Numbers : ~UnderWay(Now, d)
      \/ issueLeft' = issueLeft
  BY <1>1 DEF Sweeps
<1>10. Becomes(t)
  BY <1>3, <1>7
<1>11. /\ t \in States /\ t.memo = m /\ t.update = v.update /\ t.work = v.work /\ t.clock = v.clock
       /\ t.recheck = v.recheck
  <2> HIDE DEF m
  <2> QED BY <1>6, <1>7, <1>8, SetMemo
<1>12. PrunedAs(Now, v, t)
  BY <1>9, <1>11 DEF PrunedAs
<1>13. Now' = t
  BY <1>10, <1>11, BecomesIs
<1>14. Fit(t) /\ SameArrivals(Now, t) /\ Listening(t, {})
  <2>1. Fit(v) /\ Listening(v, {}) /\ SameArrivals(Now, v)
    BY <1>5
  <2>2. Tame(v, t)
    BY <1>11, <2>1, DropTame
  <2> QED BY <1>11, <2>1, <2>2, TameFit DEF SameArrivals, Listening
<1> QED BY <1>5, <1>6, <1>12, <1>13, <1>14

(* The sweep keeps the state fit.                                          *)
LEMMA SweepsFit ==
  ASSUME IFit, Sweeps
  PROVE  IFit'
<1>1. Fit(Now') /\ SameArrivals(Now, Now') /\ Listening(Now', {})
  BY SweepsIs
<1>2. PICK t : t = Now'
  OBVIOUS
<1>3. routed' = routed /\ (issueLeft' = issueLeft \/ \E what \in Counters : IssuePay(what)) /\ routed \in Folders
  BY DEF Sweeps, Counters, IFit
<1> QED BY <1>1, <1>2, <1>3, FitStep

Flying(s) == {d \in Numbers : UnderWay(s, d)}

(* A crash or a stop, and the boot after it.                                *)
LEMMA RestartsIs ==
  ASSUME IFit, Restarts
  PROVE  \E b, y \in States :
           /\ b = Now \/ FailedAs(Now, b, {d \in Flying(Now) : Now.update[d].state = "running"})
           /\ y.recheck = {} /\ CloseAs(Now, y, Flying(Now), "failed") /\ y.memo = b.memo
           /\ \A n \in Numbers : ~y.work[n].up
           /\ Tame(Now, y) /\ PumpAs(y, Now')
           /\ Fit(y) /\ Fit(Now') /\ SameArrivals(Now, Now') /\ Listening(Now', {})
<1> DEFINE F == {d \in Numbers : UnderWay(Now, d)}
           R == {d \in F : update[d].state = "running"}
           dark(s) == [s EXCEPT !.work = [n \in Numbers |-> Down(s, n).work[n]], !.recheck = {}]
<1>1. Fit(Now) /\ Now \in States /\ Now.update = update
  BY NowParts DEF IFit, Fit
<1>2. PICK b \in {Now, Failed(Now, R)} : \E s \in Pumped(Closed(dark(b), F, "failed")) : Becomes(s)
  BY Zenon DEF Restarts
<1>3. PICK y : y = NowDark(b, F)
  OBVIOUS
<1>4. PICK t \in Pumped(y) : Becomes(t)
  BY <1>2, <1>3 DEF NowDark
<1>5. F = Flying(Now) /\ R = {d \in Flying(Now) : Now.update[d].state = "running"} /\ R \subseteq Numbers
  BY <1>1 DEF Flying
<1> HIDE DEF F, R
<1>6. b = Now \/ FailedAs(Now, b, R)
  BY <1>1, <1>2, <1>5, FailedIs
<1>7. b \in States
  BY <1>1, <1>6 DEF FailedAs
<1>8. /\ Tame(Now, y) /\ y.recheck = {} /\ CloseAs(Now, y, F, "failed")
      /\ y.memo = b.memo /\ \A n \in Numbers : ~y.work[n].up /\ y.work[n].watchers = {}
  <2>1. Flying(Now) = {d \in Numbers : UnderWay(Now, d)}
    BY DEF Flying
  <2> QED BY <1>1, <1>3, <1>5, <1>6, <2>1, DarkTame
<1>9. Fit(y) /\ SameArrivals(Now, y) /\ y \in States
  BY <1>1, <1>8, TameFit, TameArrivals DEF Tame
<1>10. Listening(y, {})
  <2>1. \A d \in Numbers : y.update[d].session = Nil \/ y.update[d].session \in Numbers
    BY <1>9, NumbersAre DEF States, Runs
  <2> QED BY <1>8, <2>1 DEF Listening
<1>11. PumpAs(y, t)
  BY <1>4, <1>9, PumpIs
<1>12. Fit(t) /\ SameArrivals(y, t) /\ Listening(t, {}) /\ t \in States
  BY <1>9, <1>10, <1>11, PumpFit DEF Fit
<1>13. Now' = t
  BY <1>4, <1>12, BecomesIs
<1>14. SameArrivals(Now, t)
  BY <1>9, <1>12 DEF SameArrivals
<1> QED BY <1>5, <1>6, <1>7, <1>8, <1>9, <1>11, <1>12, <1>13, <1>14

(* A restart keeps the state fit.                                          *)
LEMMA RestartsFit ==
  ASSUME IFit, Restarts
  PROVE  IFit'
<1>1. Fit(Now') /\ SameArrivals(Now, Now') /\ Listening(Now', {})
  BY RestartsIs
<1>2. PICK t : t = Now'
  OBVIOUS
<1>3. routed' = routed /\ (issueLeft' = issueLeft \/ \E what \in Counters : IssuePay(what)) /\ routed \in Folders
  BY DEF Restarts, Counters, IFit
<1> QED BY <1>1, <1>2, <1>3, FitStep

(* What happens outside the runs leaves them alone.                         *)
LEMMA OutsideFit ==
  ASSUME IFit, UNCHANGED <<memo, update, work, clock, recheck>>, routed' \in Folders,
         issueLeft' = issueLeft \/ \E what \in Counters : IssuePay(what)
  PROVE  IFit'
<1>1. Now' = Now
  BY DEF Now
<1>2. PICK t : t = Now'
  OBVIOUS
<1>3. Fit(t) /\ Listening(t, {}) /\ SameArrivals(Now, t)
  BY <1>1, <1>2 DEF IFit, SameArrivals
<1> QED BY <1>2, <1>3, FitStep

(* The invariant holds at first.                                            *)
LEMMA FitInit ==
  ASSUME IssueInit
  PROVE  IFit
<1> DEFINE row == issueLeft.row
           old == [NoRun EXCEPT !.state = "succeeded", !.agent = issueLeft.last]
           was == [NoWork EXCEPT !.agent = issueLeft.minter, !.tree = row.tree, !.id = Old]
<1>1. issueLeft \in IssueScenarios /\ issueLeft \in Scenarios
  <2>1. IssueScenarios \subseteq Scenarios
    BY IssueAssumption DEF Scenarios, Agents, Wishes
  <2> QED BY <2>1 DEF IssueInit
<1>2. /\ Len(issueLeft.plan) < MaxUpdates /\ (~row.there => row = NoRow)
      /\ (row.there => /\ row.agent \in {issueLeft.minter, Unknown} \ {"none"}
                       /\ row.agent \notin PocketAgents => row.id = Old)
  BY <1>1, IssueAssumption
<1>3. /\ row.agent \in Agents \cup {"none", Unknown} /\ row.session = Nil /\ row.id \in {Nil, Old}
      /\ row.chat \in {Nil, Old} /\ row.tree \in [folder : Folders \cup {"none"}, of : {Nil, Old}]
      /\ row.born = 0 /\ issueLeft.minter \in Agents \cup {"none"} /\ issueLeft.last \in Agents \cup {"none"}
      /\ row.there \in BOOLEAN
  BY <1>1 DEF Scenarios
<1>4. row.tree \in Trees /\ NoTree \in Trees
  BY <1>3, NumbersAre DEF Trees, NoTree, Tree
<1>5. row \in Rows
  <2>1. row \in [there : BOOLEAN, agent : Agents \cup {"none", Unknown},
                 session : {Nil}, id : {Nil, Old}, chat : {Nil, Old},
                 tree : [folder : Folders \cup {"none"}, of : {Nil, Old}], born : {0}]
    BY <1>1 DEF Scenarios
  <2> HIDE DEF row
  <2> QED BY <1>3, <1>4, <2>1, NumbersAre DEF Rows
<1>6. Now.memo = row /\ Now.clock = 0 /\ Now.recheck = {} /\ Now.update = update /\ Now.work = work
      /\ routed = "home"
  BY NowParts DEF IssueInit
<1> HIDE DEF row
<1>7. NoRun \in Runs /\ NoWork \in Works
  BY <1>4, NumbersAre DEF Runs, Works, NoRun, NoWork, Stages
<1>8. old \in Runs /\ was \in Works
  BY <1>3, <1>4, <1>7, NumbersAre DEF Runs, Works, Stages
<1>9. /\ \A d \in Numbers : update[d] = IF d = Old /\ issueLeft.last # "none" THEN old ELSE NoRun
      /\ \A n \in Numbers : work[n] = IF n = Old THEN was ELSE NoWork
      /\ update \in [Numbers -> Runs] /\ work \in [Numbers -> Works]
  BY <1>7, <1>8 DEF IssueInit, row
<1>10. Now \in States
  <2>1. memo = row /\ clock = 0 /\ recheck = {}
    BY DEF IssueInit, row
  <2> QED BY <1>5, <1>9, <2>1 DEF Now, States
<1>11. /\ old.state = "succeeded" /\ old.agent = issueLeft.last /\ old.session = Nil /\ old.id = Nil
       /\ old.chat = Nil /\ old.resume = Nil /\ ~old.holds /\ old.received = 0 /\ old.started = 0
       /\ NoRun.state = "none" /\ NoRun.session = Nil /\ NoRun.id = Nil /\ NoRun.chat = Nil
       /\ NoRun.resume = Nil /\ NoRun.reuse = NoTree /\ NoRun.tree = NoTree /\ ~NoRun.holds
       /\ NoRun.received = 0 /\ NoRun.started = 0
       /\ was.agent = issueLeft.minter /\ ~was.up /\ was.id = Old /\ was.watchers = {} /\ ~was.busy
       /\ ~NoWork.up /\ NoWork.watchers = {} /\ ~NoWork.busy
  BY DEF NoRun, NoWork
<1> HIDE DEF old, was
<1>12. \A d \in Numbers : /\ update[d].state \in {"none", "succeeded"} /\ update[d].session = Nil
                          /\ update[d].id = Nil /\ update[d].chat = Nil /\ update[d].resume = Nil
                          /\ ~update[d].holds /\ update[d].received = 0 /\ update[d].started = 0
                          /\ ~work[d].up /\ work[d].watchers = {} /\ ~work[d].busy
                          /\ (d # Old => update[d] = NoRun /\ work[d] = NoWork)
  BY <1>9, <1>11
<1>13. \A n : n \in {Nil, Old} => May(Now, row.agent, n) \/ ~row.there
  BY <1>2, <1>6, <1>9, <1>11, NumbersAre DEF May, Ancient, row
<1>14. FitRow(Now)
  <2>1. CASE ~row.there
    BY <1>2, <1>6, <2>1, RowEmpty
  <2>2. CASE row.there
    <3>1. row.agent \in Agents \cup {Unknown}
      BY <1>2, <1>3, <2>2
    <3> QED BY <1>3, <1>6, <1>13, <2>2, <3>1, NumbersAre DEF FitRow, row
  <2> QED BY <2>1, <2>2
<1>15. ASSUME NEW d \in Numbers PROVE FitRun(Now, d) /\ FitWork(Now, d)
  <2>1. \A a : May(Now, a, Nil)
    BY DEF May
  <2>2. FitRun(Now, d)
    <3>1. CASE d = Old
      <4>1. update[Old].state # "none" => update[Old] = old /\ issueLeft.last # "none"
        BY <1>9, <1>11, <3>1
      <4>2. update[Old].state = "none" => update[Old] = NoRun
        BY <1>9, <1>11, <3>1
      <4> QED BY <1>3, <1>6, <1>11, <1>12, <2>1, <3>1, <4>1, <4>2 DEF FitRun
    <3>2. CASE d # Old
      BY <1>6, <1>11, <1>12, <2>1, <3>2 DEF FitRun
    <3> QED BY <3>1, <3>2
  <2>3. FitWork(Now, d)
    <3>1. ~Made(Now, d)
      BY <1>6, <1>12, NumbersAre DEF Made
    <3> QED BY <1>6, <1>9, <1>11, <1>12, <3>1 DEF FitWork
  <2> QED BY <2>2, <2>3
<1>16. Fit(Now)
  BY <1>6, <1>10, <1>12, <1>14, <1>15 DEF Fit
<1>17. Listening(Now, {})
  BY <1>6, <1>12 DEF Listening
<1>18. InOrderOfArrival(Now)
  <2>1. MaxUpdates \in Nat /\ MaxUpdates > 0
    BY IssueAssumption
  <2>2. \A n \in 2 .. MaxUpdates : n \in Numbers /\ n # Old
    BY <2>1 DEF Numbers, Old
  <2>3. \A n \in 2 .. MaxUpdates : Now.update[n].state = "none" <=> n > 1
    BY <1>6, <1>11, <1>12, <2>1, <2>2
  <2> QED BY <2>1, <2>3 DEF InOrderOfArrival
<1>19. LeftOK
  BY <1>1, <1>2 DEF LeftOK, row
<1> QED BY <1>6, <1>16, <1>17, <1>18, <1>19 DEF IFit, Folders

(* Every step keeps the state fit.                                          *)
LEMMA FitNext ==
  ASSUME IFit, IssueNext
  PROVE  IFit'
<1>1. CASE Arrives
  BY <1>1, ArrivesFit
<1>2. CASE Sweeps
  BY <1>2, SweepsFit
<1>3. CASE Restarts
  BY <1>3, RestartsFit
<1>4. CASE Reroutes
  <2>1. UNCHANGED <<memo, update, work, clock, recheck>> /\ routed' \in Folders /\ IssuePay("routes")
    BY <1>4 DEF Reroutes
  <2>2. \E what \in Counters : IssuePay(what)
    BY <2>1 DEF Counters
  <2> QED BY <2>1, <2>2, OutsideFit
<1>5. ASSUME NEW n \in Numbers, UpdateStep(n) PROVE IFit'
  BY <1>5, PreparedActFit, CreatedActFit, StartFailsFit, PocketEndsFit, LooksAgainFit DEF UpdateStep
<1>6. ASSUME NEW n \in Numbers, WorkStep(n) PROVE IFit'
  <2>1. CASE RemovesTree(n)
    <3>1. UNCHANGED <<memo, update, work, clock, recheck>> /\ routed' = routed /\ IssuePay("removals")
      BY <2>1 DEF RemovesTree
    <3>2. \E what \in Counters : IssuePay(what)
      BY <3>1 DEF Counters
    <3>3. routed' \in Folders
      BY <3>1 DEF IFit
    <3> QED BY <3>1, <3>2, <3>3, OutsideFit
  <2>2. CASE Loses(n)
    <3>1. UNCHANGED <<memo, update, work, clock, recheck>> /\ routed' = routed /\ IssuePay("losses")
      BY <2>2 DEF Loses
    <3>2. \E what \in Counters : IssuePay(what)
      BY <3>1 DEF Counters
    <3>3. routed' \in Folders
      BY <3>1 DEF IFit
    <3> QED BY <3>1, <3>2, <3>3, OutsideFit
  <2> QED BY <1>6, <2>1, <2>2, AnnouncedActFit, TurnOverFit, ResumeFailsFit, SessionExitsFit DEF WorkStep
<1> QED BY <1>1, <1>2, <1>3, <1>4, <1>5, <1>6 DEF IssueNext

(* Every state fits: the row, the deliveries and the sessions agree on     *)
(* whose each conversation is and on who listens to what, deliveries have  *)
(* come in order and one of them waits at most.                            *)
THEOREM IssueFits == IssueSpec => []IFit
<1>1. IssueInit => IFit
  BY FitInit
<1>2. IFit /\ [IssueNext]_issueVars => IFit'
  <2> SUFFICES ASSUME IFit, [IssueNext]_issueVars PROVE IFit'
    OBVIOUS
  <2>1. CASE IssueNext
    BY <2>1, FitNext
  <2>2. CASE UNCHANGED issueVars
    <3>1. UNCHANGED <<memo, update, work, clock, recheck>> /\ routed' = routed /\ issueLeft' = issueLeft
      BY <2>2 DEF issueVars
    <3>2. routed' \in Folders
      BY <3>1 DEF IFit
    <3> QED BY <3>1, <3>2, OutsideFit
  <2> QED BY <2>1, <2>2
<1> QED BY <1>1, <1>2, PTL DEF IssueSpec

----------------------------------------------------------------------------
(* What follows of the properties of IssueConversations.                   *)

(* IssueTypeOK: an issue has one waiter, a tree one grant, and whoever listens *)
(* to a session runs in it (parkDelivery and the queue's grants).            *)
THEOREM IssueTypes == IssueSpec => []IssueTypeOK
<1>1. IFit => IssueTypeOK
  <2> SUFFICES ASSUME IFit PROVE IssueTypeOK
    OBVIOUS
  <2>1. Fit(Now) /\ Now \in States /\ Now.update = update /\ Now.work = work
    BY NowParts DEF IFit, Fit
  <2>2. Cardinality(InLine(Now)) <= 1
    <3>1. CASE InLine(Now) = {}
      BY <3>1, FS_EmptySet
    <3>2. CASE InLine(Now) # {}
      <4>1. PICK d \in InLine(Now) : TRUE
        BY <3>2
      <4>2. InLine(Now) = {d}
        BY <2>1, <4>1 DEF Fit, InLine
      <4> QED BY <4>2, FS_Singleton
    <3> QED BY <3>1, <3>2
  <2>3. \A d \in Numbers : update[d].holds => update[d].key # NoTree /\ Starting(Now, d)
    BY <2>1 DEF Fit, FitRun, Starting
  <2>4. \A d, e \in Numbers : update[d].holds /\ update[e].holds /\ d # e => update[d].key # update[e].key
    BY <2>1 DEF Fit
  <2>5. \A n \in Numbers : /\ work[n].watchers # {} => work[n].up
                           /\ \A d \in work[n].watchers : update[d].state = "running"
                                                          /\ update[d].session = n
    BY <2>1 DEF Fit, FitWork
  <2> QED BY <2>2, <2>3, <2>4, <2>5 DEF IssueTypeOK
<1> QED BY <1>1, IssueFits, PTL

(* OwnConversation: a delivery continues no other agent's session,         *)
(* conversation or chat (remember, startRun and startPocketAgent).           *)
THEOREM IssueOwnConversation == IssueSpec => []OwnConversation
<1>1. IFit => OwnConversation
  <2> SUFFICES ASSUME IFit, NEW d \in Numbers, NEW n \in {update[d].session, update[d].resume, update[d].chat} \ {Nil}
               PROVE  work[n].agent = update[d].agent \/ (n = Old /\ issueLeft.row.agent = Unknown)
    BY DEF OwnConversation
  <2>1. FitRun(Now, d) /\ Now.update = update /\ Now.work = work
    BY NowParts DEF IFit, Fit
  <2> QED BY <2>1 DEF FitRun, May, Ancient
<1> QED BY <1>1, IssueFits, PTL
=============================================================================
