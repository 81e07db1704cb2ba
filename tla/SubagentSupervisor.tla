------------------------- MODULE SubagentSupervisor -------------------------
(***************************************************************************)
(* The supervisor of apps/server/src/planner/supervisor.ts: which Pocket   *)
(* Agent chat is told of which subagent's end, and the cached outcome that *)
(* get_subagent_status (planner/tools.ts and planner/chats.ts) answers     *)
(* with.  Coding agents are sessions heard of through the session manager, *)
(* one listener for all; pocket agents are chats with an observer each,    *)
(* which remembers the parent it was made for.                             *)
(*                                                                         *)
(* A summary is read across an await, with the tracking already dropped:   *)
(* meanwhile the subagent may be instructed, terminated or forgotten.      *)
(* Summaries are numbered by the turn they come from.                      *)
(***************************************************************************)
EXTENDS Naturals, FiniteSets

CONSTANTS Coding, Pocket,       \* the subagents, of two kinds
          Chats,                \* the chats that start and instruct them
          NoChat,
          SubagentScenarios     \* how much may happen

ASSUME SupervisorAssumption == NoChat \notin Chats /\ Coding \cap Pocket = {}

Subagents == Coding \cup Pocket

VARIABLES
    agent,      \* the subagents: [state, busy, paused, todo, turns]
    owner,      \* the chat that started each
    parent,     \* codingParents and pocketParents
    cached,     \* outcomes: [status, turn]
    reading,    \* summaries being read: [sub, to, status, turn]
    owed,       \* history: trackings not told yet and not replaced, by subagent and chat
    own,        \* history: the last turn of the subagent to end was a tracked one
    overtaken,  \* history: subagents with two summaries being read at a time
    allowance   \* what is left of the scenario's budget

supervisorVars == <<agent, owner, parent, cached, reading, owed, own, overtaken, allowance>>

----------------------------------------------------------------------------
Pay(what) == /\ allowance[what] > 0
             /\ allowance' = [allowance EXCEPT ![what] = @ - 1]

Nothing    == [status |-> "none", turn |-> 0]
Tracked(s) == parent[s] # NoChat
Alive(s)   == agent[s].state = "live"

(* enqueueMailbox: the chat is told; PlannerChat models what becomes of it.*)
Tell(s, chat) == owed' = [owed EXCEPT ![s][chat] = @ - 1]

(* trackCodingSubagent, trackPocketSubagent: a tracking replaces another.  *)
TrackedBy(s, chat) ==
    /\ parent' = [parent EXCEPT ![s] = chat]
    /\ cached' = [cached EXCEPT ![s] = [status |-> "running", turn |-> 0]]
    /\ owed' = [owed EXCEPT ![s] = [c \in Chats |->
                   @[c] + (IF c = chat THEN 1 ELSE 0) - (IF c = parent[s] THEN 1 ELSE 0)]]

(* A prompt goes in; an agent that is mid-turn keeps it for afterwards.    *)
PromptedAgent(s) == [agent[s] EXCEPT !.state = "live", !.busy = TRUE, !.todo = @ + 1]

SupervisorInit ==
    /\ agent = [s \in Subagents |-> [state |-> "none", busy |-> FALSE, paused |-> FALSE,
                                     todo |-> 0, turns |-> 0]]
    /\ owner = [s \in Subagents |-> NoChat]
    /\ parent = [s \in Subagents |-> NoChat]
    /\ cached = [s \in Subagents |-> Nothing]
    /\ reading = {}
    /\ owed = [s \in Subagents |-> [c \in Chats |-> 0]]
    /\ own = [s \in Subagents |-> TRUE]
    /\ overtaken = {}
    /\ allowance \in SubagentScenarios

----------------------------------------------------------------------------
(* What the chats and people do.                                           *)

(* start_subagent_session: tracked first, then given its task.             *)
StartSubagent(s, chat) ==
    /\ agent[s].state = "none"
    /\ TrackedBy(s, chat)
    /\ agent' = [agent EXCEPT ![s] = PromptedAgent(s)]
    /\ owner' = [owner EXCEPT ![s] = chat]
    /\ UNCHANGED <<reading, own, overtaken, allowance>>

(* send_instruction: any chat may instruct any running coding session.     *)
Instruct(s, chat) ==
    /\ s \in Coding /\ Alive(s)
    /\ Pay("prompts")
    /\ TrackedBy(s, chat)
    /\ agent' = [agent EXCEPT ![s] = PromptedAgent(s)]
    /\ UNCHANGED <<owner, reading, own, overtaken>>

(* A person types into the subagent's session or chat.                     *)
PersonInstructs(s) ==
    /\ Alive(s) /\ (s \in Pocket => ~agent[s].busy)
    /\ Pay("prompts")
    /\ agent' = [agent EXCEPT ![s] = PromptedAgent(s)]
    /\ UNCHANGED <<owner, parent, cached, reading, owed, own, overtaken>>

(* A session is stopped: the tracking chat is told without a summary.      *)
Terminated(s) ==
    /\ parent' = [parent EXCEPT ![s] = NoChat]
    /\ cached' = [cached EXCEPT ![s] = [status |-> "exited", turn |-> 0]]
    /\ agent' = [agent EXCEPT ![s] = [@ EXCEPT !.state = "dead", !.busy = FALSE,
                                               !.paused = FALSE, !.todo = 0]]
    /\ IF Tracked(s) THEN Tell(s, parent[s]) ELSE UNCHANGED owed

Terminate(s) ==
    /\ s \in Coding /\ Alive(s)
    /\ Pay("endings")
    /\ Terminated(s)
    /\ UNCHANGED <<owner, reading, own, overtaken>>

(* It ends by itself, without an error and without completing its turn:    *)
(* no listener of the supervisor hears of that.                            *)
EndsQuietly(s) ==
    /\ s \in Coding /\ Alive(s)
    /\ Pay("endings")
    /\ agent' = [agent EXCEPT ![s] = [@ EXCEPT !.state = "dead", !.busy = FALSE,
                                               !.paused = FALSE, !.todo = 0]]
    /\ UNCHANGED <<owner, parent, cached, reading, owed, own, overtaken>>

(* Its record is removed, a session's once it has ended.                   *)
Forget(s) ==
    /\ agent[s].state = (IF s \in Coding THEN "dead" ELSE "live")
    /\ Pay("removals")
    /\ agent' = [agent EXCEPT ![s] = [@ EXCEPT !.state = "gone", !.busy = FALSE,
                                               !.paused = FALSE, !.todo = 0]]
    /\ parent' = [parent EXCEPT ![s] = NoChat]
    /\ cached' = [cached EXCEPT ![s] = Nothing]
    /\ IF Tracked(s) THEN Tell(s, parent[s]) ELSE UNCHANGED owed
    /\ UNCHANGED <<owner, reading, own, overtaken>>

(* A chat is removed: the coding agents it started are forgotten, then     *)
(* stopped.  Told is whoever tracked them last, which may be another chat. *)
ChatRemoved(chat) ==
    /\ Pay("removals")
    /\ LET mine == {s \in Coding : owner[s] = chat /\ agent[s].state # "gone"} IN
       /\ mine # {}
       /\ parent' = [s \in Subagents |-> IF s \in mine THEN NoChat ELSE parent[s]]
       /\ owed' = [s \in Subagents |->
                     IF s \in mine /\ Tracked(s) THEN [owed[s] EXCEPT ![parent[s]] = @ - 1]
                                                 ELSE owed[s]]
       /\ cached' = [s \in Subagents |->
                       IF s \notin mine THEN cached[s]
                       ELSE IF Alive(s) THEN [status |-> "exited", turn |-> 0] ELSE Nothing]
       /\ agent' = [s \in Subagents |->
                      IF s \in mine /\ Alive(s)
                      THEN [agent[s] EXCEPT !.state = "dead", !.busy = FALSE,
                                            !.paused = FALSE, !.todo = 0]
                      ELSE agent[s]]
       /\ owner' = [s \in Subagents |-> IF s \in mine THEN NoChat ELSE owner[s]]
    /\ UNCHANGED <<reading, own, overtaken>>

----------------------------------------------------------------------------
(* What the subagents do.                                                  *)

(* An approval is asked for, and answered.                                 *)
AsksApproval(s) ==
    /\ Alive(s) /\ agent[s].busy /\ ~agent[s].paused
    /\ Pay("approvals")
    /\ agent' = [agent EXCEPT ![s].paused = TRUE]
    /\ cached' = IF Tracked(s) THEN [cached EXCEPT ![s] = [status |-> "paused", turn |-> 0]]
                               ELSE cached
    /\ UNCHANGED <<owner, parent, reading, owed, own, overtaken>>

GetsAnswer(s) ==
    /\ Alive(s) /\ agent[s].paused
    /\ agent' = [agent EXCEPT ![s].paused = FALSE]
    /\ cached' = IF Tracked(s) /\ cached[s].status = "paused"
                 THEN [cached EXCEPT ![s] = [status |-> "running", turn |-> 0]] ELSE cached
    /\ UNCHANGED <<owner, parent, reading, owed, own, overtaken, allowance>>

(* Mutant: the tracking is still there when the turn is over.              *)
TurnCompletesTracked(s) ==
    /\ Alive(s) /\ agent[s].todo > 0 /\ ~agent[s].paused
    /\ agent' = [agent EXCEPT ![s].busy = FALSE, ![s].todo = @ - 1, ![s].turns = @ + 1]
    /\ reading' = IF Tracked(s)
                  THEN reading \cup {[sub |-> s, to |-> parent[s], turn |-> agent[s].turns + 1]}
                  ELSE reading
    /\ own' = [own EXCEPT ![s] = Tracked(s)]
    /\ overtaken' = IF Tracked(s) /\ \E r \in reading : r.sub = s
                    THEN overtaken \cup {s} ELSE overtaken
    /\ UNCHANGED <<owner, parent, cached, owed, allowance>>

(* A turn completes.  The tracking is dropped before anything is awaited;  *)
(* what the agent said so far is what its summary will say.                *)
TurnCompletes(s) ==
    /\ Alive(s) /\ agent[s].todo > 0 /\ ~agent[s].paused
    /\ agent' = [agent EXCEPT ![s].busy = FALSE, ![s].todo = @ - 1, ![s].turns = @ + 1]
    /\ parent' = [parent EXCEPT ![s] = NoChat]
    /\ reading' = IF Tracked(s)
                  THEN reading \cup {[sub |-> s, to |-> parent[s], turn |-> agent[s].turns + 1]}
                  ELSE reading
    /\ own' = [own EXCEPT ![s] = Tracked(s)]
    /\ overtaken' = IF Tracked(s) /\ \E r \in reading : r.sub = s
                    THEN overtaken \cup {s} ELSE overtaken
    /\ UNCHANGED <<owner, cached, owed, allowance>>

(* The summary is there: the outcome is set over whatever it is by now,    *)
(* and the chat that was tracking is told.                                 *)
SummaryRead(r) ==
    /\ reading' = reading \ {r}
    /\ cached' = [cached EXCEPT ![r.sub] =
         [status |-> IF r.sub \in Pocket THEN "done"
                     ELSE IF agent[r.sub].state = "dead" THEN "exited" ELSE "idle",
          turn |-> r.turn]]
    /\ Tell(r.sub, r.to)
    /\ UNCHANGED <<agent, owner, parent, own, overtaken, allowance>>

SubagentStep(s) ==
    \/ \E chat \in Chats : StartSubagent(s, chat) \/ Instruct(s, chat)
    \/ PersonInstructs(s) \/ Terminate(s) \/ EndsQuietly(s) \/ Forget(s)
    \/ AsksApproval(s) \/ GetsAnswer(s) \/ TurnCompletes(s)

SupervisorNext ==
    \/ \E s \in Subagents : SubagentStep(s)
    \/ \E chat \in Chats : ChatRemoved(chat)
    \/ \E r \in reading : SummaryRead(r)

SupervisorSpec == SupervisorInit /\ [][SupervisorNext]_supervisorVars

----------------------------------------------------------------------------
(* get_subagent_status, as a chat would be answered now.  The agent itself *)
(* is asked first; the cache gives the summary of one that is at rest, and *)
(* without a cached one the transcript is read.                            *)

AtRest(s) == [status |-> IF s \in Pocket THEN "done"
                         ELSE IF Alive(s) THEN "idle" ELSE "exited",
              turn |-> agent[s].turns]

(* Mutant: the cache is asked before the agent.                            *)
StatusOfCacheFirst(s) ==
    IF agent[s].state = "gone" THEN [status |-> "gone", turn |-> 0]
    ELSE IF cached[s] # Nothing THEN cached[s] ELSE AtRest(s)

StatusOf(s) ==
    IF agent[s].state = "gone" THEN [status |-> "gone", turn |-> 0]
    ELSE IF agent[s].paused THEN [status |-> "paused", turn |-> 0]
    ELSE IF agent[s].busy THEN [status |-> "running", turn |-> 0]
    ELSE IF s \in Pocket THEN IF cached[s] = Nothing THEN AtRest(s) ELSE cached[s]
    ELSE IF /\ cached[s].status \in (IF Alive(s) THEN {"idle"} ELSE {"exited", "done"})
         THEN cached[s] ELSE AtRest(s)

----------------------------------------------------------------------------
(* Properties.                                                             *)

SupervisorTypeOK ==
    /\ \A s \in Subagents :
         /\ agent[s].state \in {"none", "live", "dead", "gone"}
         /\ agent[s].busy => agent[s].todo > 0
         /\ agent[s].paused => agent[s].todo > 0
         /\ parent[s] \in Chats \cup {NoChat}
         /\ cached[s].status \in {"none", "running", "paused", "idle", "done", "exited"}
    /\ \A r \in reading : r.sub \in Subagents /\ r.to \in Chats

(* Each time a chat asks to hear of a subagent it is told once: as long as *)
(* it has not been, it is tracking or its summary is being read - through  *)
(* other chats' instructions, people's turns, approvals, terminations and  *)
(* removals in between.  Only a newer tracking takes its place.            *)
BeingRead(s, chat) == {r \in reading : r.sub = s /\ r.to = chat}

ToldOnce ==
    \A s \in Subagents, chat \in Chats :
        owed[s][chat] = Cardinality(BeingRead(s, chat)) + (IF parent[s] = chat THEN 1 ELSE 0)

(* A chat that asks after a subagent at rest is told of its latest turn,   *)
(* by a status that agrees with the agent.  The cache is only that good    *)
(* when the latest turn was a tracked one, its summary is in, and no two   *)
(* summaries were being read at a time (they may come in in either order). *)
StatusIsTrue ==
    \A s \in Subagents \ overtaken :
        (/\ agent[s].state \in {"live", "dead"} /\ ~agent[s].busy /\ agent[s].todo = 0
         /\ own[s] /\ ~\E r \in reading : r.sub = s)
        => /\ StatusOf(s).status = AtRest(s).status
           /\ StatusOf(s).turn = agent[s].turns \/ cached[s] = [status |-> "exited", turn |-> 0]
=============================================================================
