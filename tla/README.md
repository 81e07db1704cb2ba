# PocketAgent: TLA+ models and proofs

PocketAgent (`src/`) is a self-hosted remote control for terminal coding
agents. A Fastify server owns the agents' processes and an SQLite file, a web
client attaches over a WebSocket, a Hub fronts several servers. This directory
models the parts of it in which several actors meet: who may work in a
directory and when, how an unattended run is recorded here and on another host,
which conversation an issue's deliveries continue, when a job is due, how a
session's output reaches a page, what a Pocket Agent chat does with what is
sent to it, how Telegram reaches one and is answered, and who watches a Hub's
hosts. TLC checks the models on small instances; TLAPS proves the main safety
properties of seven of them for every instance.

Paths below are relative to `src/apps/server/src/` unless they begin with
`web` (`src/apps/web/src/`) or `hub` (`src/apps/hub/src/`).

## 1. Inventory

Node runs one synchronous stretch at a time. What makes this system hard is
everything between two awaits: event listeners that call each other
synchronously, handlers that await in the middle, agents that answer whenever
they like, clients that come and go, and a process that is restarted while
SQLite rows describe work it was doing.

| Component | State | Operations | Meets |
|---|---|---|---|
| Directory queue, `runs/queue.ts` | waiters and grant per working tree | tryAcquire, enqueue, started, release, cancel, forget, moveToFront, pump, init, clear | producers register a store and give each item a `run()`; sessions are asked for `busyTreeRoots` and announce an idle tree |
| Prompt queue, `sessions/prompt-queue.ts` | `session_prompt_queue` rows | submit, deliver, resolve | queue, sessions, WebSocket |
| Run executor, `runs/executor.ts` | runs in flight, listeners | start, followUp, watch, settle, abandonAll | cron and webhooks through a sink; sessions |
| Webhooks, `webhooks/index.ts` | deliveries, issue conversations, held keys | dispatch, parkDelivery, runQueued, startRun, sweep, stop | queue, executor, remote runs |
| Cron, `cron/index.ts` | jobs and runs | tick, fire, reconcile, retention | executor, planner |
| Remote runs, `runs/remote.ts` | wait loops, a ref per row | start, watch, forget, stopAll | Hub |
| Sessions, `sessions/*.ts` | status, mid-turn flag, inbox, pending approvals | create, prompt, interrupt, resolve, terminate, recover | everyone |
| Stream: buffers, `terminal/*-buffer.ts` | a bounded, numbered window | append, replayAfter | WebSocket route |
| Stream: route, `ws/index.ts` | attachments per socket | attach, prompt, send | buffers, prompt queue |
| Stream: client, `web/api/ws-client.ts`, pages | lastSeq, epoch, what is shown | connect, attach, replay, reconnect | route |
| Database, `db/index.ts` | the rows | boot passes that close open runs | all |
| Planner chats, `planner/chats.ts` | transcript, queued prompts, mailbox, parked approvals, live mode | sendMessage, queuePrompt, interrupt, resolve, clearHistory, drainNext, live calls | its tools, the supervisor, the executor |
| Planner supervisor, `planner/supervisor.ts` | who asked to hear of which subagent, cached outcomes | track, handle a turn's end, read a summary, forget | sessions, chats |
| Telegram, `telegram/*.ts` | a poll loop per bot, its offset, albums, a relay per paired chat | reconcile, poll, handle an update, forward an event | Telegram, planner chats |
| Approvals, `sessions/*-session.ts` | pending approvals, the switch that skips them, the agent's mode | requestPermission, resolvePermission, setGlobalSkipPermissions | manager, agents, people |
| Hub registry, `hub/registry/*.ts`, `hub/push/relay.ts` | hosts, credentials, probe timers, push streams | routes, reconcile, tick, connectHost | servers |
| Hub proxy, fleet, MCP, `hub/*` | little | proxy, fleet reads | servers |
| The rest | see `PROJECT.json` "components" | | |

What makes each correct, in a sentence:

- **Directory queue and its producers.** One agent at a time in a working
  tree; whoever waits is served in the order people see, is served in the end,
  is neither lost nor run twice, also over a restart; a failing producer does
  not block the tree.
- **Run executor.** Each run's row is closed once, by what happened to it, and
  never stays open with nobody left to close it.
- **Session stream.** A page shows what the session wrote, in order, once,
  with no hole it does not know of.
- **Issue conversations.** A delivery continues its own agent's conversation,
  in that conversation's directory, and an issue never keeps a conversation that
  fails every delivery.
- **Cron.** A job's next run follows its schedule; a due time leaves one row.
- **Remote runs.** A delivery is settled once, in the end, by what its own turn
  on the target came to.
- **Planner chats.** What was accepted is kept, in order, and taken up; a stop
  stops; a call and its result stay together.
- **Telegram.** Each message reaches the chat, once, and what the chat says to it
  goes back.
- **Supervisor.** A chat is told once of what it asked to hear, and truthfully.
- **Hub.** An enabled host has one health loop and a stream, or a reason for none.
- **Approvals.** Nothing is allowed on nobody's word, and the switch holds.

`PROJECT.json` lists under "hazards" every place where this is hard to test,
each at its line, with the properties that cover it or why none does yet.

## 2. Modules

| Module | What it is |
|---|---|
| `RunQueue` | the directory queue as the contract its producers rely on |
| `DirectoryGate` | prompts, deliveries, sessions and the queue in one tree; implements `RunQueue` |
| `RunExecutor` | unattended runs, the sessions they watch, the services that close rows |
| `IssueConversations` | one issue of a webhook: its row, deliveries, sessions and worktrees |
| `CronScheduler` | jobs, runs, the tick and what happens under it |
| `RemoteRun` | deliveries run on another host: dispatch, wait loops, the target |
| `SessionStream` | buffer, WebSocket route, client and page for one session |
| `LiveView` | what a terminal page promises; implemented by `SessionStream` |
| `PlannerChat` | one Pocket Agent chat |
| `TelegramBridge` | one bot's poll loops and the relay of the chat paired through it |
| `SubagentSupervisor` | which chat is told of which subagent's end |
| `ApprovalSwitch` | parked approvals and the switch that skips them |
| `HubHosts` | health loops, push streams and the routes that change them |
| `RunQueueProofs` | theorems about `RunQueue`: state invariants, action properties |
| `DirectoryGateProofs` | theorems about `DirectoryGate`, and that it implements `RunQueue` |
| `SessionStreamProofs` | theorems about `SessionStream`, and that it implements `LiveView` |
| `RunExecutorProofs` | theorems about `RunExecutor` |
| `IssueConversationsProofs` | theorems about `IssueConversations`: what always fits, whose a conversation is |
| `IssueRowProofs` | theorems about the row of an issue while its deliveries follow one another |
| `PlannerProofs` | theorems about `PlannerChat` and `TelegramBridge` |
| `BackgroundProofs` | theorems about `CronScheduler`, `RemoteRun`, `HubHosts`, `ApprovalSwitch` and `SubagentSupervisor` |
| `MC*` | constants and scenarios for TLC; `MCPlanner` and `MCBackground` run several modules side by side |

One action is one synchronous stretch of the code: a handler with the pump it
ends in, the check of a tree together with its claim, the snapshot of a buffer
together with the subscription. An operator written just before another and
marked "Mutant" is that operator with a plausible bug. It is used by no
specification; putting it in the place of the definition after it makes the
property it is listed with in `PROJECT.json` fail, which shows the property
looks at that code.

### RunQueue

`line`, `stamp`, `granted` are the maps of `RunQueueService`; `busy` is the
derived set of trees with a session mid-turn; `claims` are the runs that were
handed their tree and have not given it back; `row` is the producer's persisted
stamp. `TryAcquire`, `Enqueue`, `Refuse`, `Started`, `Release`, `Cancel`,
`Forget`, `MoveToFront`, `Boot` are the functions of the same names. `Pumped`
describes the loop of `pump()` as a relation: every free tree gives up a prefix
of its line, of which all but the last item were over at once (their release
inside the pump only sets `pumpAgain`), and the last holds the tree or the
line is empty. What a granted item does is left open, so the module says what
the queue guarantees whatever producers do with it.

`late` records the trees that came free in a step that ran no pump. There are
two such steps in the code: an agent that clears its flag after its last
`turn_complete` (`TurnEndsQuietly`), and `started()` for a run whose session
is in another tree than the one it queued for (`StartedElsewhere`).

### DirectoryGate

The open choices of `RunQueue` are decided by sessions here. `inbox` counts the
turns a session has accepted and not finished, `busy` is what `isMidTurn`
says of it; they differ, which is the point. `Blocked` is `isBlockedByOther`:
a prompt waits for other sessions and for grants, not for its own session.
`fate` is what the client was told of a prompt. `beside` marks sessions put to
work in a tree that others hold: a person's override, a prompt past a full
queue, work that never asks. `Draining` sessions keep their flag until their
own queue is empty (agy); the others clear it at each `turn_complete`.

A delivery that continues a live conversation is prompted in the same stretch
as its grant or, in this model, also a step later (`Started` on a live
session); the second is more than the code does, and allows more interleavings.
The merge of a queued delivery of the same issue in `parkDelivery` changes its
text and not the queue, and is left out here (`IssueConversations` has it).
Reordering and several trees are in `RunQueue` only.

### RunExecutor

`phase` is how far `start()` has come between its awaits, `row` the persisted
outcome, `watching` the listeners on each session, `inFlight` what `abandonAll`
would settle. Sessions are seen as the executor sees them: prompts accepted in
order, `turn_complete`, `exit`, a kill that emits neither. When a turn's end
frees the tree the queue may start a follow-up inside that very event, before
the older listeners have heard it; `TurnComplete` has that case (`joining`).
Runs of the planner are not in this module (`IssueConversations` has their
chats), remote runs are `RemoteRun`.

### SessionStream and LiveView

`first..last` is the window of the buffer, `wire` the frames on their way,
`lastSeq` and `clientEpoch` the client's, `shown` what the page shows as pairs
of epoch and number. `EmitAndDeliver` is a `turn_complete` whose pump delivers
a prompt parked for the same session: `user_prompt` n+1 goes out before
`turn_complete` n. A terminal survives a restart under a new epoch
(`RestartRecovered`), a structured session does not (`RestartEnded`).
`LiveView` says what a terminal page promises with no connection in it: the
screen is an unbroken piece of one stream, it grows in place, and it is
replaced only when the stream started again or what comes next is gone. It is
checked for terminals; for structured sessions it does not hold (section 5).

### IssueConversations

One issue of a webhook in per-issue mode whose runs get a worktree each. `memo`
is the row of `webhook_issue_sessions`; a run writes it one piece at a time, its
directory (`Prepared`), its session and the agent's id (`Created`, `Announced`),
each through `Remembers`, which drops the row of another agent first. `Arrives`
is `dispatch`: the key (`KeyFor`), the admission, the merge into a waiter
(`Parked`) or the start (`Started`: a follow-up into a live session, a resume, a
fresh start or a Pocket Agent's chat). A handler does several of these in one
stretch, so each is an operator from a record of the state to the next, and the
actions compose them in the code's order: the pump of a turn's end before the
settlement of the runs that listened, the settlement of a failed resume before
its session is down (`ResumeFails`), the look at the row a tick later
(`LooksAgain`). A tree is held by grants and by the issue's own sessions only;
`DirectoryGate` has the others.

A delivery and whatever it makes, worktree, session, conversation, bear one
number, which is how the properties tell whose a piece is. `beside` and `strayed`
record the two situations in which the code mixes pieces (section 5).

### CronScheduler

`cronJob` and `cronRuns` are the rows; `line` are the due rows a tick read and
still holds, of which the first is fired (`FireGone`, `FireSkipped`, `FireStart`)
and its start awaited (`firing`) while people edit, pause, remove and run jobs
by hand. `Advance` moves the clock at any time, also while a start hangs.
`CronStop` with a tick in flight lets that tick go on until the process exits,
`CronCrash` does not; `CronBoot` closes open runs, catches up within `Grace` and
writes the next runs. A schedule is a set of instants. A job's edits reach a
tick's row only through the database, which is the hazard.

### RemoteRun

`delivery` are the rows, `request` the dispatch of each as the network has it
(sent, taken by the target, answered, abandoned after 90 s), `loop` and `reply`
the wait loop and what the target has made of the wait in flight. `session`,
`outcome` are the target's: its queue of prompts, its turns, approvals and ends.
All deliveries concern one subject, so a later one continues the conversation
of an earlier one, also while that still works. `Stop` and `GoesDown` leave rows
alone and the loops off; `Boot` closes what has no ref and watches the rest.

### PlannerChat

One chat, since every map of the service is keyed by it. `mem` is what the
process holds: the turn with its stage between awaits, the queue drain, parked
approvals, the mailbox and the mail a wake holds, timers, live mode with its
chain of calls. `rows` is the durable queue. Functions that end in `drainNext()`
are operators from one memory to the next, so that every "the chat just went
idle" path goes through the same definition or visibly does not. An answered
approval goes on in two stages, one on each side of the write of
`permission_resolved`: `ResolveParked` lets the decision be written, `RunApproved`
runs the tool behind it without asking whether the turn was stopped meanwhile, and
`CallDone` writes its result; a denial or a handoff has its result in `AnswerDone`. `log` is
history: what was written, withdrawn, told, and the gaps the code has, which
the properties name as exceptions.

### TelegramBridge

`botRow` is the bot's row, `poll` the loops with the offset and the rest of the
batch each holds, `current` the one in the `active` map: a disabled bot's loop is
aborted and finishes its batch, beside the loop of the bot enabled again
(`Reconcile`). `cloud` is Telegram: `PollServed` lets go of what lies below the
offset and answers with the rest; a call may fail before or after it was served.
`hand` are handlers between two awaits: a loop's own, which holds the loop up, and
an album's, which its timer started. `Enters` is `handleMessage` from the moment it
asks whether the chat is busy. `convo` is the chat with what the bridge can tell of
it, `relaying` says that the bridge observes it, and `Drains` is `drainNext`: the
queue first, and only then whoever waits for the chat to be idle, which ends the
relay. Other people's turns are `OthersStart` and `OthersApprove`; how a turn works
inside is `PlannerChat`'s. `tale` is history: how often an update was handled, what
came between, which answers nobody forwarded.

### SubagentSupervisor

`parent` is who is to hear of a subagent, `cached` the outcome that
`get_subagent_status` prefers, `reading` the summaries being read across an
await, with the tracking already dropped. Summaries are numbered by the turn they
come from. `owed` counts trackings not told yet.

### HubHosts

`slot` is the one timer per host that the poller remembers, `strays` the timers
it lost sight of, `probes` the probes out. `relay` is the push stream of each
host with the credential it uses; credentials are numbered. A route changes the
registry and reconciles the poller in one stretch and the relay in a later one
(`due`), a binding reconciles later still (`binding`).

### ApprovalSwitch

A Claude session has its mode in the agent, so telling it is a call answered
later and in order (`modeCalls`, `ModeSet`, `ModeRefused`); Codex and OpenCode
sessions have a flag of the server's. `allowedBy` records on whose word each
approval was allowed.

### MCPlanner and MCBackground

`PlannerChat` and `TelegramBridge` meet in a few facts about a chat, which the
second has for itself (`Drains` and `ChatBusy` are the code both translate).
`CronScheduler`, `RemoteRun`, `SubagentSupervisor`, `HubHosts`, `ApprovalSwitch`
and `IssueConversations` share no state. The runs `planner` and `background` let
each behaviour follow one module (`focus`) and leave the others in their initial
state, so that a run costs the sum of the state spaces and not the product.

## 3. What the passing runs check

| Run | Instance | Question |
|---|---|---|
| `queue` | 3 items, 2 trees, caps of 2, 1 restart | is the queue's contract kept |
| `gate` | 2 chats with a prompt each, one of them draining, 1 delivery, 2 ungated turns, 1 restart | do producers and sessions keep to it |
| `executor` | 3 runs (2 deliveries), 2 sessions, 1 prompt by a person, both policies, 1 restart | are rows closed, once |
| `stream` | both transports, a buffer of 2 frames, 4 items per epoch, 2 epochs, 2 losses | does output reach the page |
| `planner` | 14 scenarios of one chat; 2 calls a batch, 2 rounds, a queue of 2, 1 retry; Telegram: 2 loops, 1 album of 2, a queue of 2, 7 scenarios | is what was accepted kept and taken up |
| `background` | cron: 3 jobs, 3 instants, 9 scenarios; remote: 2 deliveries, 2 sessions, 10 scenarios; supervisor: 2 subagents, 2 chats; Hub: 2 hosts, 5 scenarios; approvals: 2 sessions, 3 scenarios; issues: 3 deliveries, 12 scenarios | is each service's word kept |

**queue.** `NoStrandedWaiter`: a waiter stands behind a free tree only if the
tree is `late`. `GrantsMatchRuns`: runs and grants match in both directions,
against late and repeated releases. `DiskAgreesWithLine`: a restart adopts the
order people last saw. `GrantsInTurn`: no waiter is overtaken, and a tree passes
on only when it was given back and is free. `EventuallyLeavesLine`.

**gate.** `OneBusySession`: two sessions mid-turn in a tree only if one was put
there knowingly. `WaitingIsQueued`: what the client believes to be waiting has
its row and its place, and what was sent has neither. `EveryPromptReleased`.
`KeepsContract`: every behaviour is one of `RunQueue`.

**executor.** `OpenRowHasAnOwner`: an open run has a start under way, a listener
or a sweep that will close it. `SettledOnce`: while the server is up a run is
reported once and a success stands. `NoRunHangs`: a run whose session is gone is
closed in the end.

**stream.** `InOrder`, `Promise` (the refinement of `LiveView`), `ReachesScreen`.

**planner.** `TranscriptSound`: an accepted message is queued, written or
withdrawn, in the order sent (`MessagesKept`), and no prompt comes between a
call and its result (`PairsKept`). `MailboxSound`: a subagent's mail survives
failing wakes and is told once (`MailConserved`), and there is one follow-up
timer (`OneCheckBack`). `UpdatesKept` (Telegram): an update is let go of only
when it was handled, and handled again only for a reason. `RepliesHeard`
(Telegram): what answers a message from Telegram is relayed, and an idle chat is
not. `NoLostWake`: no step leaves the chat idle with something waiting.
`StoppedMeansStopped`: a stopped turn begins no request, no tool and no approval,
but the tool whose approval was being written, and parks only behind a browser
that was being opened. `OneModel`: Gemini's tools and the planner's model are
not at work together. `WaitingGetsOut`: what waits is taken up. Each names the
gaps of section 5 as exceptions and nothing else. `PlannerTypeOK` has the type
invariants of both modules.

**background.** `NextFollowsSchedule` and `AccountedOnce` (cron): a job's next run
is its own schedule's, and a due instant leaves one row. `RemoteTruth`,
`RemoteSettledOnce`, `RemoteSettles` (remote runs): by its own turn, once, and in
the end. `ToldOnce` and `StatusIsTrue` (supervisor). `WatchedOnce` (Hub): an
enabled host has one health loop and a stream, a timer or a refusal.
`SwitchObeyed` (approvals). `RightConversation` (issues): a delivery continues no
other agent's session, conversation or chat, and runs in the tree it waited for,
of its own project, or in a new one. `NoWedge` (issues): when all is quiet the row
names no conversation that has failed a delivery because it cannot be resumed.

### Bounds, and why they are enough

- Three items in two trees: an item waits behind a holder and before another,
  while the second tree shows what one pump does to several. A cap of 2 in both
  senses is reached by a line, and by both lines together.
- Two chats are the least number for "another session"; a draining and a
  non-draining one cover both ways a turn ends; the delivery opens the window
  between a grant and a session.
- Three runs in two sessions: two in one session and one beside it, or one that
  follows up while another settles.
- A buffer of two frames with four items is evicted, overrun by a gap and
  filled to the backpressure limit; two epochs and two losses give a reconnect
  into each of a live, a restarted and an ended session.
- Telegram: two loops are one aborted in the middle of its batch and one started
  since; a third would repeat the second. An album of two is complete, partial, or
  filled twice with the same part. Four messages fill a queue of two behind a turn.
- Scenarios (`Scenarios`, `TelegramScenarios`, `CronScenarios`,
  `RemoteScenarios`, `HubScenarios`, `IssueScenarios`, ...) say how often each
  kind of outside event may happen in one behaviour: not all of everything,
  which is out of reach, but the combinations that can meet, for instance queued
  messages with a cancel and a stop, or a lost conversation with a crash. Within
  a scenario every order is explored.
- Cron: three instants give a due one, one missed beyond `Grace = 1` and one
  after. Two jobs are due together, so that one is edited while the other's
  start is awaited.
- Remote runs: two deliveries to two possible sessions are a follow-up into a
  busy, an idle and a vanished conversation.
- Issues: three deliveries are one at work, one that waits or merges, and one of
  another agent that takes the row; or one that loses a conversation, one let in
  before the row is dropped, and one to see that it was. `MaxUpdates` counts them
  and the conversation that was there before.
- `MaxRestarts`, `MaxHuman`, `MaxOutside`, `MaxLosses`, `MaxSeq`, `MaxEpoch`,
  `MinStamp`, `Horizon` bound counters that the code does not bound; they are in
  guards and no property mentions them. `onSettled` calls are counted up to two,
  which is what "not once" needs.

`CHECK_DEADLOCK FALSE` in the executor's, the stream's, the planner's and the
background's configurations: there the system may really stop, when every run is
over, a session has ended and its page is up to date, a chat is idle, or a
scenario is used up. The queue and the gate never stop, because the sweep is
always possible, and deadlock is checked.

### Fairness

- Turns end, an awaited start returns one way or the other (weak). Without it
  nobody behind a turn can be promised anything; the code has no timeouts, on
  purpose (`runs/queue.ts:27-31`). The executor's run assumes nothing of turns:
  a run may be open for ever in a live session.
- The sweep timer fires. In the queue and the gate this is strong fairness of
  the sweep while a tree is free and late: weak fairness is not enough, since
  ungated work may take a free tree before each firing, and then the waiters
  starve. That is the assumption under which `EventuallyLeavesLine` and
  `EveryPromptReleased` hold, and it is about the operator's cron jobs more than
  about the code.
- A server that went down is started again (weak).
- In the stream: the client reconnects as long as it takes, the server's loop
  turns, frames on a socket that stays up arrive (weak). Losses are bounded, so
  in the end a connection stays up.
- In the planner: what a turn, the writing of a dismissed call or live mode
  awaits comes (weak), retry timers fire (weak). Nothing is assumed of people.
- In remote runs: calls are answered or time out, the target's turns end and its
  approvals are answered there, the sweep fires, a stopping process exits and is
  started again (weak).
- None for the other services: their properties are safety.

## 4. What is proved

All theorems are for every value of the constants, from the assumptions named in
the modules, which say what the code fixes: finitely many items and cron jobs, a
tree for each item, marks outside the ranges they mark, kinds and identifiers
that do not overlap, positive caps, budgets that are numbers. TLC evaluates each
assumption on the runs' constants.

**RunQueueProofs.** `TypeCorrect`: `Spec => []TypeOK`. `NeverStranded`: `Spec =>
[]NoStrandedWaiter`. `NeverEvicted`: `Spec => []GrantsMatchRuns`. `Invariant`: `Spec
=> []IInv`, on which they rest.

None of the safety properties is inductive alone. `IInv` adds `OwnLine` (an item
waits in the line of its own tree) and `DownIsEmpty` (a server that is down has
no line, grant or claim), and takes the others together: that a pump leaves no
claim without its grant needs that the trees it grants carried no grant and
hence, by `ClaimIsExclusive`, no claim; that it grants each item its own tree
needs `OwnLine`. The pump is dealt with once: lemmas say what any step that ends
in `Pumped` does to types, lines, claims and grants, given what holds of the
state it is called on, and each handler that ends in a pump only has to say what
it calls it on. `Invariant` is then one step per action.

`GrantedWhenFree`: `Spec => GrantOnlyFree`. `ServedInOrder`: `Spec =>
FirstComeFirstServed`. `GrantedInTurn`: both, the property of the run.
`OrderInvariant`: `Spec => []OInv`, on which they rest.

`IInv` is not enough for them: it allows an item to stand twice in its line, or
to wait while its run holds the tree, and a pump could then grant again the very
run that is being released, or grant the second copy of an item past a waiter
between the two. `OInv` adds `OnePlace` (an item waits once, or holds its tree,
never both) and `KnownIsSubmitted`, which keeps `OnePlace` when an item arrives:
nothing that waits, runs or has a row was not submitted before. Again the pump is
dealt with once: `PumpedTakes` says that it takes a front of each line and grants
at most the last item of it, and `PumpedOrder` draws from that, with lines that
hold nothing twice, that the items it leaves and those it grants are apart and
that nothing granted stood behind something left. The rest is which of a
sequence's items survive `RemoveAt`, a move to the front and a boot's
arrangement, and one step per action.

`DiskAgrees`: `Spec => []DiskAgreesWithLine`, inductive together with `OInv`: a
front taken off, an item taken out and an item put first with the smallest stamp
leave a line in the order of its stamps.

**DirectoryGateProofs.** `OneAgentPerTree`: `Spec => []OneBusySession`, from
`GateInvariant`. The invariant adds `OneStarting` (only the delivery that has the
grant is starting) and `GrantIsAlone` (a session mid-turn while a grant is out was
put there beside it): without the second, the session a granted delivery creates
might be the tree's second.

`GateTypes`: `Spec => []TypeOK`. `PromptsQueued`: `Spec => []WaitingIsQueued`. Both
from `LineInvariant`: the line holds nothing twice, stands in the order of its
stamps and within its cap, everything in it was asked for (`LineInOrder`); the
rows on disk are those of the prompts that wait, they wait in the line while the
server is up, and fit it when it is down (`RowsMatchLine`); a server that is down
has no line (`DownIsEmpty`). The cap matters: a boot may refuse nobody, so the
rows that survive must be no more than the line can take.

`GateKeepsContract`: `Spec => KeepsContract`, where `KeepsContract` is the
specification of `RunQueue` for the one tree, under the mapping in
`DirectoryGate`. The initial state maps to an initial one, and each action to a
step of the queue or a stutter: a prompt or delivery that comes in to
`TryAcquire` or `Enqueue`, an end of turn to `Goes`, a release or a pump, and so
on, with `LineInv` giving what the contract's guards ask. `GateServesInTurn`
carries the queue's own theorems over the mapping.

**SessionStreamProofs.** `StreamTypes`: `Spec => []TypeOK`. `StreamInOrder`: `Spec
=> []InOrder`. `StreamKeepsPromise`: `Spec => Promise`, the refinement of
`LiveView`. All from `StreamInvariant`. `InOrder` is not inductive: it needs to
know what is on the wire. `StreamInv` says that the answer to an attach is the
first frame of its socket and starts where the client stands or says what it
left out (`Answer`, `WireHolds`); that the client is never ahead of the server
within an epoch (`ClientKnows`); that a subscribed socket has been answered, with
the epoch the client takes over when it reads the answer (`SocketKnows`); and,
for a terminal, that the items on an open socket go on from the answer or from
`lastSeq` one by one up to the latest (`Gapless`). The last is what makes a
terminal's screen an unbroken piece of output, and is false of a structured
session, where a `turn_complete` is overtaken by what is emitted inside it: the
promise is stated for terminals, and the run `nested_emit` shows the rest.

**RunExecutorProofs.** `RowsHaveOwners`: `Spec => []OpenRowHasAnOwner`.
`RunsSettleOnce`: `Spec => SettledOnce`. `RunInvariant`: `Spec => [](RunInv /\
Quiet)`. `RunInv` adds `Untold` (a run without a session has no listener and
nothing was reported of it), `Listening` (a listener is on the session of its own
run, which has not succeeded) and `Unsettled` (who listens on a live session has
not been told yet); `Quiet` says a server that is down starts nothing, which the
boot pass needs. `RunTypeCorrect`: `Spec => []TypeOK`.

**BackgroundProofs, triggered runs.** For `RemoteRun`: `SettledForGood`: `RemoteSpec => RemoteSettledOnce`.
`ChargeInvariant`: a row is in the charge of its dispatch while it is starting,
of its wait loop once it runs and has a ref, and of nobody afterwards
(`OneInCharge`); a late answer finds nobody in charge and writes nothing.

`RemoteTruthHolds`: `RemoteSpec => []RemoteTruth`, from `TruthInvariant`. What a row
says is right because of what happened at the other end of two calls, so the
invariant follows a delivery's turn from the request to the answer: it stands on
one agenda, once (`AtWorkOnce`); its request, its row and its outcome are at the
same stage (`Progress`); in a session nobody crowded it is all there is, so the
turn that ends is its own (`AllThereIs`); and what a wait is about to hear, and
what the row says already, the target did (`WordTells`, `RowTells`).

For `CronScheduler`: `NextIsOfTheSchedule`: `CronSpec => []NextFollowsSchedule`. `DueIsAccountedOnce`: `CronSpec => AccountedOnce`. Both from
`CronInvariant`. That a due instant leaves exactly one row is an action property
about the step that moves a job on; `CronInv` says of every state before it that
the rows for the instant a job waits for are at most the starts of it that were
cut short and the one under way (`NotYetCounted`). It needs that a row in hand is
its job's row, unless that was edited (`HandIsTrue`), that a pass holds each job
once and only instants that have come (`OfThePast`), and that the start awaited
is of the first row in hand (`AwaitsTheFirst`). An instant never comes twice: the
next of a schedule is after now, and all rows are of the past. The one induction
this needs, that a set of numbers has a least, is the library's well-founded
minimum.

**BackgroundProofs, services.** For `HubHosts`: `HostsAreWatched`, `LoopsAreCounted`, and both as
`HostsAreWatchedOnce`: `HubSpec => []WatchedOnce`. `HubTypeCorrect`: `HubSpec =>
[]HubTypeOK`. `HubInvariant`: the poller's loops are at most the crossings and
the slot, and an enabled host has a slot (`PollerSound`); once the requests that
change the registry are through, a bound host is listened to, and a stream that
connects with an older credential is one that was passed over (`RelaySound`).

For `ApprovalSwitch`: `SwitchIsObeyed`: `ApprovalSpec => []SwitchObeyed`.
`SwitchInvariant`: the call made last says what the switch says (`LastWord`), so
that what holds when the agent has answered it is about the switch as it is now;
a session that opted in or is gone has nothing parked, the others carry the
switch.

For `SubagentSupervisor`: `EachIsToldOnce`: `SupervisorSpec => []ToldOnce`.
`LedgerInvariant` adds that the summaries being read are finitely many and none
is of a turn yet to end, so that the one a turn's end adds is a new element and
counts one. `SupervisorTypes`: `SupervisorSpec => []SupervisorTypeOK`.
`StatusIsTold`: `SupervisorSpec => []StatusIsTrue`, from `StatusInvariant`: a status
in the cache fits the agent's kind and what it has to do (`Fits`), and unless two
summaries were read at a time, the one being read, or the one read last, is of
the latest turn when that turn was a tracked one (`Latest`).

**PlannerProofs, Telegram.** `TelegramTypes`: `TelegramSpec => []TelegramTypeOK`.
`UpdatesAreKept`: `TelegramSpec => []UpdatesKept`. `RepliesAreHeard`: `TelegramSpec
=> []RepliesHeard`. All rest on `BridgeInvariant`, that a loop holds consecutive
updates from its offset on, of which an answered one starts no later than what
Telegram still holds, and that handlers, chat and history fit each other
(`WellFormed`).

That an update is handled no more often than the interruptions account for is a
matter of counting. For each update the proof counts what may still hand it to
the chat: the loops that have it in their batch or are to be given it, or, while
no loop is active, the one that will be started (`Chances`), and the places where
it waits, in the album or with a handler (`Occur`). `TokensAre` says that times
handled, chances and places together are at most one and the interruptions:
serving a call or finishing a batch gives no new chance, handling an update turns
a chance into a place or a time, and only a restart or an abort, which the
history notes, adds one. An update no loop has seen has all its chances ahead,
which is why an abort before its arrival costs nothing (`UnseenIs`). That nothing
is lost is the other half (`KeptIs`): what lies below Telegram's floor, below the
saved offset or behind a loop was handled, waits, or is on record as given up.
`RelayKept` says of the relay that while it is off nothing the chat still owes
Telegram is unexcused.

**PlannerProofs, chats.** `ChatTypes`: `Spec => []TypeOK`. `TranscriptHolds`: `Spec =>
[]TranscriptSound`. `MailboxHolds`: `Spec => []MailboxSound`. All from
`ChatInvariantHolds`. The invariant, `Holds`, is said of a queue, a memory and a
history rather than of the variables, because nearly every step ends in
`DrainNext`, and what is drained is a memory no variable ever holds:
`DrainNextDoes` says once that draining begins nothing, a turn for the queue or
one for the mail, and leaves nothing waiting, and each action then only has to
show `Holds` of what it drains.

`MessagesKept` is not inductive by itself: a turn delivers from a list of rows it
read earlier, so the invariant says that this list increases and, of the rows
still queued, has every one older than any it has (`Snapshot`), and that a row
being written is the oldest. `PairsKept` needs to know who still owes a result
(`Pending`): while a call of a batch does, the last prompt is older than the
batch, unless a race was noted. It holds across approvals because no turn is
driven while a batch is parked and at most one is (`OneDriver`), so an approval
never takes up a batch beside a turn. For `MailConserved` the mail a wake was
built from is untold exactly until its prompt is written.

`NothingLeftWaiting`: `Spec => NoLostWake`. `StopsHold`: `Spec =>
StoppedMeansStopped`, with the approved tool and the browser as its two exceptions,
each of which TLC reaches. `OneModelHolds`: `Spec => OneModel`. The three are proved of a
step at once (`Orderly`), one lemma for each way a step can leave the chat: a turn
goes on, it ends and the chat is drained, a chat is drained, or nothing begins.

**IssueConversationsProofs.** `IssueOwnConversation`: `IssueSpec =>
[]OwnConversation`. `IssueTypes`: `IssueSpec => []IssueTypeOK`. Both from
`IssueFits`. `OwnConversation` speaks of deliveries; that it stays true needs to
know whose the pieces in the row are, and what the agent has that listens
(`FitRow`, `FitRun`, `FitWork`): what is in the row is of the row's agent, a row
without an agent is the one the issue began with, a session has the directory of
the delivery that made it and the conversation that one resumed, and a session is
busy exactly while somebody listens to it. A handler runs several steps on a
record of the state, some of which hold intermediate states no variable does (a
session that is quiet while its runs are still open), so `Listening` says who has
to be listening but for the runs the handler is about to settle. The assumption
`IssueAssumption` says what an issue may begin with: a row of the agent that made
its conversation or of none, and fewer wishes than numbers.

**IssueRowProofs.** `IssueNoWedge`: `IssueSpec => []NoWedge`, from `IssueInLine`.
`NoWedge` is about the moment when all is quiet; whether it holds then was
decided while the last delivery failed. `Line` follows a delivery through its
stages: while it prepares, a row is older than its arrival; once it has written
its directory, the row is its agent's and either older than its arrival or its
own; while its session lives, the row names that session. `Dead` says of each
conversation that has failed a delivery and stands in the row that the delivery
which put it there is of the row's age, or that a look at the row is due which
will drop it. Both hold while no two deliveries ran side by side (`ILine`); what
the lost conversations and the sessions resumed into them are is beside that
(`Aside`).

`IssueRightConversation`: `IssueSpec => []RightConversation`, from
`IssueOwnConversation` and `IssueKept`. That a conversation is resumed where it was
made rests on the row: its directory is that of its conversation and of its session
(`RowOK`). A run writes its directory first and the conversation's id later, so this
holds but for the time in which a delivery has done the one and not the other
(`Nameless`), and a delivery that ends then leaves the row mixed, which is what
`strayed` notes and the property excepts. `Kept` adds what each delivery takes from
the row: one that prepares reuses the directory of the conversation it resumes; one
that creates has its directory in the row; one that runs shares its session's with
it; and one that waits for a directory finds that directory and its own agent in the
row when its turn comes (`Due`), although the row may be dropped and begun anew
meanwhile by the delivery ahead of it, because that one is of the same agent and
waits for the same directory. The row's owner is the delicate part: a row without an
agent belongs to whoever ran last, so the end of a delivery may change it
(`Settles`), and a Pocket Agent's refused chat may claim one (`Known`). Worktrees
are only ever removed, which excuses more (`KeptGone`).

Only model-checked: the type invariants `PlannerTypeOK` and `BackgroundTypeOK`,
which only join those of modules run side by side; and every liveness property.
Liveness and refinement under fairness are out of the prover's reach, as is
anything that needs ENABLED.

## 5. Where the code and its documentation disagree

Each is a run that TLC ends with a counterexample (`PROJECT.json`, "findings"):

| Run | Property | What happens |
|---|---|---|
| `prompt_restart` | `RestartKeepsPrompts` | `prompt-queue.ts:25` says a waiting prompt is re-queued by a restart "rather than eating it". The row is, and its chat is not recovered, so the prompt is discarded and reported cancelled. |
| `two_agents` | `OneWorkingSession` | A session given a second prompt mid-turn is no longer mid-turn after its first `turn_complete`; the next waiter is let into the tree beside it (`queue.ts:6`). |
| `nested_emit` | `NothingSkipped` | The prompt delivered inside a `turn_complete` overtakes it; the client drops the `turn_complete` as a duplicate for good (`ws-client.ts:167`). |
| `gap_replay` | `KeptUnlessTruncated` | The agent page rebuilds from the gap of a resumed connection and forgets what it showed (`ws-client.ts:105`). |
| `shared_turn` | `OneRunOneTurn` | "One run is one prompt and one turn" (`executor.ts:571`), but any turn of the session closes the run. |
| `run_without_turn` | `OpenRunHasATurn` | codex answers a refused prompt with a notice and no `turn_complete` (`codex-session.ts:448`, against `:517`); the run stays open while the session lives. |

`two_agents` is why `OneBusySession` speaks of the flag: it is what the queue
can see, and with respect to it the gate is correct. `nested_emit` and
`gap_replay` are why `Promise` is stated of terminals.

The rest of this section are gaps the models have as the code has them, and that
the properties name as exceptions. They are not runs of their own.

**Run executor.** `executor.ts:87` says `onSettled` is called once per run. During
a shutdown `abandonAll` settles without taking the listeners off, and a
`turn_complete` in the awaits that follow settles again. `SettledOnce` is stated
for a server that is not shutting down.

**Issue conversations** (`webhooks/index.ts` unless said otherwise).
- Two deliveries of an issue with no directory on record take no key, start side
  by side and make a worktree each; the row then mixes the tree of one with the
  session and id of the other (`beside`).
- After the project mapping changed, a fresh start writes its directory into the
  row, which still names the old project's live session; a delivery that arrives
  before the new session exists follows up into the old one, against 1460-1463. It
  stays so if the new session is never created. Likewise a recreated worktree
  starts a fresh conversation, and until that has announced its id the row names
  the old id beside the new directory; a first start that fails after its
  worktree leaves a directory and no id. The same happens to a resume whose row
  was dropped while it prepared: it writes its directory into a new row, and if
  it ends before its id, the next delivery waits for the old tree, finds the row
  without a conversation and works in another one (`strayed`).
- A row without an agent is attributed to whoever ran last; a delivery of another
  agent that fails before it has a directory changes that answer, and the agent's
  next delivery resumes a foreign id. The failed resume drops the row.
- A chat that is refused at once is also a run of its agent: it changes whose a
  row without an agent is, for the deliveries that already wait for its tree.
- A late `session_started` of an abandoned agent's run takes the row back, with
  the project folder where its worktree was.
- When a resume fails, the pump on its `turn_complete` comes before the session's
  status changes: the waiter is followed up into the dying session and fails too.
  A conversation that is gone costs two deliveries, and a third that arrives
  before the look on the next tick may put it into a new row, which its own
  failure does not drop because the row is younger than the delivery; the one
  after that does (`NoWedge` states this).

**Planner chats** (`planner/chats.ts`).
- A live tool call that ends after live mode does not drain (4271-4275, against
  1423-1430 and 4092-4093), nor does clearing the history (`NoLostWake`).
- While `interrupt` writes a dismissed call's result the chat is not busy, and a
  new prompt may come between the two; a live transcript accepted earlier may be
  written into a typed turn (`log.raced`).
- A queued message is appended and its row deleted after another await: a cancel
  in between reports success although the message is written, a crash delivers it
  twice (`log.between`).
- A wake that throws after it wrote its prompt tells its mail again (`log.torn`),
  and can bring an old follow-up back beside a new one.
- A live call accepted before it waits behind another runs while a typed turn
  has started (`OneModel`).
- A stop while a browser is opened still parks the turn (2923-2944), and one while
  `permission_resolved` is written still starts the approved tool, with a signal
  that is already aborted (3107-3119, `RunApproved`): the two exceptions of
  `StoppedMeansStopped`. An approved live call takes the same path; it belongs to
  no turn, its two waits are one step (`answering`), and no property is about
  stopping it.
- Clearing drops parked approvals without telling who waits for the chat to be
  idle, and leaves the follow-up timer.

**Telegram** (`telegram/poller.ts`, `telegram/bridge.ts`).
- The offset is saved after a batch (`poller.ts:128`), so a restart, or a bot
  disabled and enabled in the middle, has its updates handled again; an aborted
  loop finishes its batch and may put an older offset back over a newer one, and
  the next loop asks from there. What Telegram let go of does not come again.
- The parts of an album wait in memory, with their updates confirmed: a restart
  drops them, and a second loop may fill the album with parts it has. A tap whose
  acknowledgement fails is logged and lost.
- After a restart, a failed turn or a stalled queue the answer goes to the chat
  and not to Telegram (`tale.excused`). The turn that mail wakes is not relayed,
  since the relay ends first (1632-1633 of `planner/chats.ts`); nobody on Telegram
  asked for it.

**Cron** (`cron/index.ts`).
- An edit, a pause or a removal while a tick holds the job's row is overwritten
  by the tick's `writeNextRun` (305-307, 476; `touched`).
- A crash or a stop between a run's row and `writeNextRun` fires the instant again
  at the next boot (`cut`). A stop lets a tick in flight go on (192-193).
- Clearing a job's runs removes open rows too, after which a `skip` job overlaps.
  Retention removes the chats of open or parked runs (396-406 against 414-423). A
  continuation missed beyond the grace is scheduled a year later. A start that
  hangs holds up the jobs behind it.

**Remote runs.** A dispatch that is lost or times out is recorded as failed
although the target may be at work. A session prompted again before its earlier
turn was settled settles both by whichever turn ends (`crowded`). `forget` has no
caller.

**Supervisor.** An agent that ends quietly tells nobody. An instruction given in
the middle of a turn is reported done by that turn's end. After a turn nobody
tracks, the cached outcome is of an older one (`own`); two summaries read at a
time may come in in either order (`overtaken`). A chat that is deleted loses what
is being read for it.

**Hub.** A host disabled or removed with its probe out has one more loop when it
is enabled again (`crossed`). A host bound anew while its stream connects is
passed over, and the old credential's refusal is then final (`passedOver`). A
removed host that waits to reconnect leaves its status behind. An open stream keeps
its address and credential.

**Approvals.** Turning the switch off while turning it on still awaits the agent
allows what is parked (`structured-session.ts:696-715`; "overtaken"). An agent
that refuses the mode keeps asking, or keeps not asking, with a notice only; it
may refuse because `allowDangerouslySkipPermissions` is passed for opted-in sessions
only (294-295). What codex and opencode were told to accept for the session, or
always, stays with them after the switch is off (681-682 says otherwise). A
session created under the switch keeps its own opt-in.

## 6. What is not modelled

Prompt texts, agents' protocols and their normalisation, webhook verification
and routing, models and model providers, context building and memory, files,
documents and sheets, voice, browser, authentication and presentation:
data or external I/O with little protocol of its own. They are most of the
repository's lines.

Left out of what is modelled: several trees and reordering in `DirectoryGate`
(`RunQueue`, which it implements, has them); planner runs in `RunExecutor`, whose
chats are in `IssueConversations`; worktree modes other than a new branch, and
remote deliveries, in `IssueConversations`; solving a schedule, the cap of runs
kept per job and the removal of expired sessions and worktrees in
`CronScheduler`; backoff times in `RemoteRun`; removing and forking chats, wake
budgets, failures to append, and the microtasks between a generator's end and
its consumer in `PlannerChat`; commands, undo, pairing, formatting, limits of
downloads, the order in which two sends arrive and a bot removed or given a new
token in `TelegramBridge`; what a probe finds, addresses, the default host and
scoped tokens in `HubHosts`; replies to an agent that fail in `ApprovalSwitch`.

## 7. Plan

Done: the modules of section 2 and the proofs of section 4.

Left, in order:

1. `IssueConversations` composed with `RunQueue` for several issues in one shared
   tree (`current-branch`), and with `RemoteRun` for issues routed to other hosts.
2. Doc workspaces: versions and locks of documents edited by people and agents.
3. Attachments: retention against references that are still staged.
