------------------------------ MODULE PlannerChat ------------------------------
(***************************************************************************)
(* One chat of the Pocket Agent, planner/chats.ts: typed turns, the durable *)
(* prompt queue, the subagent mailbox that wakes the chat, approvals and    *)
(* browser handoffs that park a turn, Gemini Live, stop, clear and restart. *)
(*                                                                         *)
(* Every map of the service is keyed by the chat, so one chat is modelled.  *)
(* What the process holds in memory is the record mem and is lost by a      *)
(* restart; rows is the planner_queued_prompts table.  Code between two     *)
(* awaits is one action, and functions that end in drainNext() are          *)
(* operators from one memory to the next.  The few microtasks between a     *)
(* generator's finally and the code that drained it are not told apart.     *)
(***************************************************************************)
EXTENDS Integers, SequencesExt

CONSTANTS
    MaxCalls,       \* bound: tool calls in one batch of the model
    MaxRounds,      \* settings.maxToolIterations
    QueueCap,       \* MAX_QUEUED_PROMPTS_PER_CHAT
    MaxRetries,     \* MAX_DRAIN_RETRIES
    Scenarios       \* bound: how often people, timers and faults may act; see Acts

\* What happens to a chat from outside, each counted down in budget.
Acts == {"typed", "queued", "cancels", "mails", "checks", "parks", "helps", "stops",
         "clears", "compacts", "lives", "idles", "faults", "toggles", "restarts"}

ASSUME SizesNat == {MaxCalls, MaxRounds, QueueCap, MaxRetries} \subseteq Nat
ASSUME ScenariosType == Scenarios \subseteq [Acts -> Nat]

VARIABLES
    rows,       \* queued prompts on disk, oldest first: numbers in the order accepted
    mem,        \* the service's memory of this chat
    configured, \* an endpoint and a model are set
    log,        \* history: what was written and what was given up
    budget      \* what may still happen

vars == <<rows, mem, configured, log, budget>>

\* The elements of a sequence that are in S, in their order: the n-th of them is
\* the one with n of them up to it.
Those(s, S) ==
    LET at == {i \in DOMAIN s : s[i] \in S} IN
    [n \in 1 .. Cardinality(at) |-> s[CHOOSE i \in at : Cardinality(at \cap 1 .. i) = n]]

-----------------------------------------------------------------------------
(* The memory.                                                              *)

Timer == 0      \* a check_back_in notification in the mailbox; other mail is 1, 2, ...

\* A generator driving the chat: where it stands, what it is for, the calls of
\* the batch without a result, the round, the queue rows it read, whether it
\* delivered one, whether its signal was aborted and whether check_back_in ran.
NoTurn == [stage |-> "none", origin |-> "none", calls |-> 0, round |-> 0,
           snapshot |-> <<>>, got |-> FALSE, aborted |-> FALSE, last |-> FALSE]

Fresh == [
    turn |-> NoTurn,
    controller |-> "none",  \* whose AbortController is on record: "turn" or "live"
    parked |-> <<>>,        \* pendingTurns: batches and calls waiting for a person
    dismiss |-> "none",     \* how far interrupt() is with a dismissed approval
    draining |-> FALSE,     \* queueDrainInProgress
    stalled |-> FALSE,      \* stalledQueues
    mailbox |-> <<>>,
    held |-> <<>>,          \* the mail the running wake turn was built from
    attempts |-> 0,         \* drainRetryAttempts, counted up to MaxRetries + 1
    retry |-> FALSE,        \* a drain retry timer is set
    gaveUp |-> FALSE,       \* the last failed wake had no retry left, which is logged
    alarm |-> FALSE,        \* a check_back_in timer is set
    listener |-> FALSE,     \* a whenIdle callback is registered
    setup |-> FALSE,        \* liveSetup() is reading the transcript
    liveOn |-> FALSE,       \* liveSessions has the chat, within its TTL
    expiry |-> FALSE,       \* the live expiry timer is set
    chain |-> <<>>,         \* serializeLive: "tools" and "record", the head running
    answering |-> FALSE]    \* an approved live call is running

Waits == {"loop", "help", "live"}

LiveTools(m) == m.chain # <<>> /\ Head(m.chain) = "tools"
Driven(m) == m.turn.stage # "none"

\* Mutant: a chat that waits for an approval is not busy.
BusyDrivenOnly(m) == Driven(m) \/ LiveTools(m) \/ m.answering

\* isBusy(): active turns and live work, or something parked.
Busy(m) == Driven(m) \/ LiveTools(m) \/ m.answering \/ m.parked # <<>>

\* busyWithPlannerLoop(): live work and live approvals do not count, queued prompts do.
PlannerBusy(q, m) ==
    Driven(m) \/ q # <<>> \/ \E i \in DOMAIN m.parked : m.parked[i].kind # "live"

\* hasDeliverableQueue().
Deliverable(q, m) == q # <<>> /\ ~m.stalled

\* sendMessage() up to its first await; a turn that is not the queue's own
\* clears the stall.
Started(m, origin, stage, snapshot) ==
    [m EXCEPT !.turn = [NoTurn EXCEPT !.origin = origin, !.stage = stage, !.snapshot = snapshot],
              !.controller = "turn",
              !.stalled = @ /\ origin = "queue"]

\* Mutant: the restored mail replaces what arrived meanwhile.
WakeFailedOver(m, mail) ==
    [m EXCEPT !.mailbox = mail,
              !.attempts = IF @ > MaxRetries THEN @ ELSE @ + 1,
              !.retry = @ \/ m.attempts < MaxRetries,
              !.gaveUp = m.attempts >= MaxRetries]

\* A wake turn that threw: its mail goes back in front, and a retry is timed.
WakeFailed(m, mail) ==
    [m EXCEPT !.mailbox = mail \o @,
              !.attempts = IF @ > MaxRetries THEN @ ELSE @ + 1,
              !.retry = @ \/ m.attempts < MaxRetries,
              !.gaveUp = m.attempts >= MaxRetries]

\* drainMailbox().  Without an endpoint the wake throws at once, having cleared
\* the stall, and draining the queue in between sets it again.
DrainMailbox(q, m) ==
    LET n == [m EXCEPT !.retry = FALSE] IN
    CASE Busy(n) \/ Deliverable(q, n) \/ n.draining \/ n.liveOn \/ n.mailbox = <<>> -> n
      [] OTHER ->
           LET taken == [n EXCEPT !.mailbox = <<>>, !.held = n.mailbox] IN
           IF configured THEN Started(taken, "wake", "prompt", <<>>)
           ELSE WakeFailed([taken EXCEPT !.held = <<>>, !.stalled = q # <<>>], n.mailbox)

\* drainNext(): a person's queued message first, as a turn of its own, then
\* whoever waits for the chat to be idle and the mailbox.
DrainNext(q, m) ==
    CASE Busy(m) \/ m.draining -> m
      [] ~Busy(m) /\ ~m.draining /\ Deliverable(q, m) /\ ~m.liveOn ->
           IF configured THEN [Started(m, "queue", "deliver", q) EXCEPT !.draining = TRUE]
           ELSE DrainMailbox(q, [m EXCEPT !.stalled = TRUE, !.listener = FALSE])
      [] OTHER -> DrainMailbox(q, [m EXCEPT !.listener = FALSE])

Over(m) == [m EXCEPT !.turn = NoTurn, !.controller = "none", !.held = <<>>,
                     !.draining = @ /\ m.turn.origin # "queue"]

\* The finally of the driving generator, and what its drainer does next.
Ended(q, m) ==
    LET n == DrainNext(q, Over(m)) IN
    IF m.turn.origin = "wake" THEN [n EXCEPT !.attempts = 0] ELSE n

\* The same when it threw: the queue stalls, a wake's mail is restored.
Threw(q, m) ==
    CASE m.turn.origin = "queue" -> DrainNext(q, [Over(m) EXCEPT !.stalled = @ \/ q # <<>>])
      [] m.turn.origin = "wake" -> WakeFailed(DrainNext(q, Over(m)), m.held)
      [] OTHER -> DrainNext(q, Over(m))

\* Something waits in a chat that nobody drives and no timer will wake.
Stuck(q, m) ==
    /\ ~Busy(m) /\ m.dismiss = "none" /\ ~m.liveOn /\ ~m.expiry
    /\ \/ Deliverable(q, m)
       \/ m.listener
       \/ m.mailbox # <<>> /\ ~m.retry /\ ~m.gaveUp

\* clearTimersForChat().
TimersCleared(m) ==
    [m EXCEPT !.alarm = FALSE, !.mailbox = Those(@, Range(@) \ {Timer})]

Spend(act) == budget[act] > 0 /\ budget' = [budget EXCEPT ![act] = @ - 1]

-----------------------------------------------------------------------------
(* What is written and given up.                                            *)

NoLog == [
    sent |-> 0,         \* queued prompts accepted, numbered 1..sent
    said |-> <<>>,      \* those written to the transcript, in order
    withdrawn |-> {},   \* those cancelled or cleared
    between |-> {},     \* those withdrawn, or kept over a crash, after being
                        \* written and before their row was deleted
    mailed |-> 0,       \* mail accepted, numbered 1..mailed
    told |-> <<>>,      \* mail that reached the transcript in a wake prompt
    dropped |-> {},     \* mail a clear or a restart gave up
    torn |-> {},        \* mail of a wake turn that threw
    crossed |-> FALSE,  \* a user prompt follows the last batch of calls
    split |-> FALSE,    \* a result was written behind such a prompt
    raced |-> FALSE,    \* a prompt was written while interrupt() had a result to
                        \* write, or a live transcript while a turn was under way
    left |-> FALSE]     \* a live call ended last and left something waiting

\* A user_prompt, the batch's tool_use events, and a tool_result are appended.
Prompted(l) == [l EXCEPT !.crossed = TRUE, !.raced = @ \/ mem.dismiss = "result"]
Asked(l) == [l EXCEPT !.crossed = FALSE]
Answered(l) == [l EXCEPT !.split = @ \/ l.crossed]

Writing == IF mem.turn.stage = "erase" THEN {Head(mem.turn.snapshot)} ELSE {}

-----------------------------------------------------------------------------
(* The turn.  driveLoop() and processToolCalls() as a walk over stages:      *)
(*   prompt   the user_prompt is being appended                             *)
(*   deliver  deliverQueuedPrompts() chooses the next row                   *)
(*   erase    that row is written and its deletion is due                   *)
(*   model    the request to the model is out                               *)
(*   tools    the next call of the batch is looked at                       *)
(*   running  a tool runs                                                   *)
(*   opening  the shared browser is being opened for a person               *)
(*   deciding an approval is being written, its call is yet to run          *)
(*   answer   a denied or handed-off call gets its result                   *)
(*   compact  /compact is summarizing                                       *)

T == mem.turn

\* driveLoop() is entered: a stopped turn is over, another asks the model.
Drive(q, m) == IF m.turn.aborted THEN Ended(q, m) ELSE [m EXCEPT !.turn.stage = "model"]

\* The prompt is on disk; a wake's carries the mail it was built from.
PromptWritten ==
    /\ T.stage = "prompt"
    /\ mem' = Drive(rows, mem)
    /\ log' = [Prompted(log) EXCEPT !.told = @ \o Those(mem.held, Range(mem.held) \ {Timer})]
    /\ UNCHANGED <<rows, configured, budget>>

\* Those of the rows read at the start that are still queued.
StillQueued == Those(T.snapshot, Range(rows))

\* Mutant: a row cancelled or cleared meanwhile is written all the same.
DeliverBlindly ==
    /\ T.stage = "deliver"
    /\ T.snapshot # <<>>
    /\ mem' = [mem EXCEPT !.turn.stage = "erase"]
    /\ log' = [Prompted(log) EXCEPT !.said = Append(@, Head(T.snapshot))]
    /\ UNCHANGED <<rows, configured, budget>>

\* Write the next row that is still queued as a user_prompt.
Deliver ==
    /\ T.stage = "deliver"
    /\ StillQueued # <<>>
    /\ mem' = [mem EXCEPT !.turn.stage = "erase", !.turn.snapshot = StillQueued]
    /\ log' = [Prompted(log) EXCEPT !.said = Append(@, Head(StillQueued))]
    /\ UNCHANGED <<rows, configured, budget>>

\* The append is over and the row goes.
Erase ==
    /\ T.stage = "erase"
    /\ rows' = Those(rows, Range(rows) \ {Head(T.snapshot)})
    /\ mem' = [mem EXCEPT !.turn.stage = "deliver", !.turn.snapshot = Tail(@), !.turn.got = TRUE]
    /\ UNCHANGED <<configured, log, budget>>

\* No row is left.  A queue turn that found every row cancelled asks nobody.
Delivered ==
    /\ T.stage = "deliver"
    /\ StillQueued = <<>>
    /\ mem' = IF T.got THEN Drive(rows, mem) ELSE Ended(rows, mem)
    /\ UNCHANGED <<rows, configured, log, budget>>

\* The model answers in text, or the turn was stopped while it did.
ModelAnswers ==
    /\ T.stage = "model"
    /\ mem' = Ended(rows, mem)
    /\ UNCHANGED <<rows, configured, log, budget>>

\* It fails, is cut off, or has no rounds left: the turn ends in an error and
\* takes the chat's timers with it, also when it is stopped while that is said.
ModelFails ==
    /\ T.stage = "model"
    /\ mem' = Ended(rows, TimersCleared(mem))
    /\ UNCHANGED <<rows, configured, log, budget>>

\* It asks for k calls.
ModelAsks(k) ==
    /\ T.stage = "model"
    /\ ~T.aborted
    /\ T.round < MaxRounds
    /\ mem' = [mem EXCEPT !.turn.stage = "tools", !.turn.calls = k, !.turn.round = @ + 1,
                          !.turn.got = TRUE]
    /\ log' = Asked(log)
    /\ UNCHANGED <<rows, configured, budget>>

\* It asks for calls but is cut off: each gets an error for a result, none runs.
ModelCutOff ==
    /\ T.stage = "model"
    /\ ~T.aborted
    /\ T.round < MaxRounds
    /\ mem' = [mem EXCEPT !.turn.stage = "deliver", !.turn.snapshot = rows,
                          !.turn.round = @ + 1, !.turn.got = TRUE]
    /\ log' = Answered(Asked(log))
    /\ UNCHANGED <<rows, configured, budget>>

\* The top of processToolCalls' loop: a call left, and nobody pressed stop.
AtCall == T.stage = "tools" /\ T.calls > 0 /\ ~T.aborted

\* A call is refused: denied, unavailable, or behind a check_back_in.
RefuseCall ==
    /\ AtCall
    /\ mem' = [mem EXCEPT !.turn.calls = @ - 1]
    /\ log' = Answered(log)
    /\ UNCHANGED <<rows, configured, budget>>

\* Mutant: the loop goes on after a stop.
StartCallRegardless ==
    /\ T.stage = "tools" /\ T.calls > 0
    /\ ~T.last
    /\ mem' = [mem EXCEPT !.turn.stage = "running"]
    /\ UNCHANGED <<rows, configured, log, budget>>

\* A call runs; so does the rest of a batch of parallel-safe reads, as one.
StartCall ==
    /\ AtCall
    /\ ~T.last
    /\ \E group \in {1, T.calls} :
         mem' = [mem EXCEPT !.turn.stage = "running", !.turn.calls = @ - group + 1]
    /\ UNCHANGED <<rows, configured, log, budget>>

CallDone ==
    /\ T.stage = "running"
    /\ mem' = [mem EXCEPT !.turn.stage = "tools", !.turn.calls = @ - 1]
    /\ log' = Answered(log)
    /\ UNCHANGED <<rows, configured, budget>>

\* Mutant: check_back_in leaves an older timer's notification in the mailbox.
CheckBackInKeepsOld ==
    /\ AtCall
    /\ ~T.last
    /\ Spend("checks")
    /\ mem' = [mem EXCEPT !.alarm = TRUE, !.turn.last = TRUE, !.turn.calls = @ - 1]
    /\ log' = Answered(log)
    /\ UNCHANGED <<rows, configured>>

\* check_back_in replaces the chat's timer and makes this the last batch.
CheckBackIn ==
    /\ AtCall
    /\ ~T.last
    /\ Spend("checks")
    /\ mem' = [TimersCleared(mem) EXCEPT !.alarm = TRUE, !.turn.last = TRUE, !.turn.calls = @ - 1]
    /\ log' = Answered(log)
    /\ UNCHANGED <<rows, configured>>

Parking(kind) == [kind |-> kind, calls |-> T.calls, round |-> T.round]

\* A call needs a person's approval: the batch is parked and the generator ends.
ParkForApproval ==
    /\ AtCall
    /\ ~T.last
    /\ Spend("parks")
    /\ mem' = Ended(rows, [mem EXCEPT !.parked = Append(@, Parking("loop"))])
    /\ UNCHANGED <<rows, configured, log>>

\* request_browser_help opens the shared browser first.
OpenBrowser ==
    /\ AtCall
    /\ ~T.last
    /\ Spend("helps")
    /\ mem' = [mem EXCEPT !.turn.stage = "opening"]
    /\ UNCHANGED <<rows, configured, log>>

\* It is open: the turn is parked, also when it was stopped meanwhile.
ParkForHelp ==
    /\ T.stage = "opening"
    /\ mem' = Ended(rows, [mem EXCEPT !.parked = Append(@, Parking("help"))])
    /\ UNCHANGED <<rows, configured, log, budget>>

\* It did not start: the call gets an error and the batch goes on.
BrowserFails ==
    /\ T.stage = "opening"
    /\ mem' = [mem EXCEPT !.turn.stage = "tools", !.turn.calls = @ - 1]
    /\ log' = Answered(log)
    /\ UNCHANGED <<rows, configured, budget>>

\* The batch is over, or the turn was stopped.  After a check_back_in the turn
\* ends; otherwise queued messages go in, behind the last result.
BatchOver ==
    /\ T.stage = "tools"
    /\ T.calls = 0 \/ T.aborted
    /\ mem' = IF T.aborted \/ T.last THEN Ended(rows, mem)
              ELSE [mem EXCEPT !.turn.stage = "deliver", !.turn.snapshot = rows]
    /\ UNCHANGED <<rows, configured, log, budget>>

\* permission_resolved is written and the approved call runs.  The signal is not
\* looked at: a stop that came during the write does not keep it from running.
RunApproved ==
    /\ T.stage = "deciding"
    /\ mem' = [mem EXCEPT !.turn.stage = "running"]
    /\ UNCHANGED <<rows, configured, log, budget>>

\* A refusal, or a person's Done or Cancel, is written with the call's result.
AnswerDone ==
    /\ T.stage = "answer"
    /\ mem' = [mem EXCEPT !.turn.stage = "tools", !.turn.calls = @ - 1]
    /\ log' = Answered(log)
    /\ UNCHANGED <<rows, configured, budget>>

CompactDone ==
    /\ T.stage = "compact"
    /\ mem' = Ended(rows, mem)
    /\ UNCHANGED <<rows, configured, log, budget>>

\* An append or a database write fails and the generator throws.
TurnThrows ==
    /\ T.stage \in {"prompt", "deliver", "model", "running", "deciding", "answer"}
    /\ Spend("faults")
    /\ mem' = Threw(rows, mem)
    /\ log' = [log EXCEPT !.torn = @ \cup IF T.origin = "wake" THEN Range(mem.held) ELSE {}]
    /\ UNCHANGED <<rows, configured>>

TurnStep ==
    \/ PromptWritten
    \/ Deliver
    \/ Erase
    \/ Delivered
    \/ ModelAnswers
    \/ ModelFails
    \/ \E k \in 1..MaxCalls : ModelAsks(k)
    \/ ModelCutOff
    \/ RefuseCall
    \/ StartCall
    \/ CallDone
    \/ CheckBackIn
    \/ ParkForApproval
    \/ OpenBrowser
    \/ ParkForHelp
    \/ BrowserFails
    \/ BatchOver
    \/ RunApproved
    \/ AnswerDone
    \/ CompactDone

-----------------------------------------------------------------------------
(* People.                                                                  *)

\* sendMessage(): refused while the chat is busy.  Without an endpoint it
\* throws, having cleared the stall, and the finally drains.
SendMessage ==
    /\ Spend("typed")
    /\ ~Busy(mem)
    /\ mem' = IF configured THEN Started(mem, "user", "prompt", <<>>)
              ELSE DrainNext(rows, [mem EXCEPT !.stalled = FALSE])
    /\ UNCHANGED <<rows, configured, log>>

\* Mutant: one message more than the cap.
QueueOneMore ==
    /\ Spend("queued")
    /\ ~mem.liveOn
    /\ Len(rows) <= QueueCap
    /\ rows' = Append(rows, log.sent + 1)
    /\ mem' = DrainNext(rows', [mem EXCEPT !.stalled = FALSE])
    /\ log' = [log EXCEPT !.sent = @ + 1]
    /\ UNCHANGED configured

\* queuePrompt(): refused in live mode and at the cap.
QueuePrompt ==
    /\ Spend("queued")
    /\ ~mem.liveOn
    /\ Len(rows) < QueueCap
    /\ rows' = Append(rows, log.sent + 1)
    /\ mem' = DrainNext(rows', [mem EXCEPT !.stalled = FALSE])
    /\ log' = [log EXCEPT !.sent = @ + 1]
    /\ UNCHANGED configured

\* cancelQueuedPrompt().
CancelQueuedPrompt(r) ==
    /\ r \in Range(rows)
    /\ Spend("cancels")
    /\ rows' = Those(rows, Range(rows) \ {r})
    /\ mem' = DrainNext(rows', [mem EXCEPT !.stalled = @ /\ rows' # <<>>])
    /\ log' = [log EXCEPT !.withdrawn = @ \cup {r}, !.between = @ \cup (Writing \cap {r})]
    /\ UNCHANGED configured

\* whenIdle(): Telegram keeps relaying a chat until it is idle.
WhenIdle ==
    /\ Spend("idles")
    /\ Busy(mem)
    /\ mem' = [mem EXCEPT !.listener = TRUE]
    /\ UNCHANGED <<rows, configured, log>>

\* compact(): refused while the chat is busy, and without a model.
Compact ==
    /\ Spend("compacts")
    /\ ~Busy(mem)
    /\ configured
    /\ mem' = [Started(mem, "compact", "compact", <<>>) EXCEPT !.stalled = mem.stalled]
    /\ UNCHANGED <<rows, configured, log>>

\* resolveApproval() and resolveBrowserHelp(): the parked batch is driven again,
\* to run its call if that was allowed and the tool is still enabled.
ResolveParked(i, allowed) ==
    /\ i \in DOMAIN mem.parked
    /\ mem.parked[i].kind # "live"
    /\ allowed => mem.parked[i].kind = "loop"
    /\ mem' = [mem EXCEPT
                 !.parked = RemoveAt(@, i),
                 !.controller = "turn",
                 !.turn = [NoTurn EXCEPT !.stage = IF allowed THEN "deciding" ELSE "answer",
                                         !.origin = "resumed", !.got = TRUE,
                                         !.calls = mem.parked[i].calls,
                                         !.round = mem.parked[i].round]]
    /\ UNCHANGED <<rows, configured, log, budget>>

\* interrupt(), up to its first await: the running turn is aborted, and the
\* oldest parked entry is dismissed.
Dismissal(m) ==
    IF m.parked = <<>> THEN [m EXCEPT !.dismiss = "none"]
    ELSE [m EXCEPT !.parked = Tail(@),
                   !.dismiss = IF Head(m.parked).kind = "live" THEN "live" ELSE "result"]

Interrupt ==
    /\ mem.dismiss = "none"
    /\ mem.controller # "none" \/ mem.parked # <<>>
    /\ Spend("stops")
    /\ mem' = [Dismissal(mem) EXCEPT
                 !.controller = "none",
                 !.turn.aborted = @ \/ mem.controller = "turn"]
    /\ UNCHANGED <<rows, configured, log>>

\* The dismissed call's result is appended ...
DismissalAnswered ==
    /\ mem.dismiss \in {"result", "live"}
    /\ mem' = [mem EXCEPT !.dismiss = "complete"]
    /\ log' = IF mem.dismiss = "result"
              THEN [log EXCEPT !.split = @ \/ log.crossed \/ log.raced] ELSE log
    /\ UNCHANGED <<rows, configured, budget>>

\* Mutant: the dismissal ends without draining.
DismissalOverQuietly ==
    /\ mem.dismiss = "complete"
    /\ mem' = Dismissal(mem)
    /\ UNCHANGED <<rows, configured, log, budget>>

\* ... then turn_complete.  The chat is drained, and the loop goes on to what
\* is parked by now, whichever turn parked it.
DismissalOver ==
    /\ mem.dismiss = "complete"
    /\ mem' = Dismissal(DrainNext(rows, mem))
    /\ UNCHANGED <<rows, configured, log, budget>>

\* clearHistory() up to the deletion of the transcript: queue, approvals and
\* mailbox go, the running turn is aborted.  Nothing is drained and no
\* check_back_in timer is cleared.
ClearHistory ==
    /\ Spend("clears")
    /\ rows' = <<>>
    /\ mem' = [mem EXCEPT !.stalled = FALSE, !.parked = <<>>, !.mailbox = <<>>,
                          !.controller = "none",
                          !.turn.aborted = @ \/ mem.controller = "turn"]
    /\ log' = [log EXCEPT !.withdrawn = @ \cup Range(rows),
                          !.between = @ \cup (Writing \cap Range(rows)),
                          !.dropped = @ \cup (Range(mem.mailbox) \ {Timer})]
    /\ UNCHANGED configured

-----------------------------------------------------------------------------
(* Mail, timers and the server.                                             *)

Mailed(m, x) ==
    LET n == [m EXCEPT !.mailbox = Append(@, x)] IN
    IF Busy(n) \/ n.liveOn THEN n ELSE DrainNext(rows, n)

\* enqueueMailbox(): a subagent finished.
EnqueueMailbox ==
    /\ Spend("mails")
    /\ mem' = Mailed(mem, log.mailed + 1)
    /\ log' = [log EXCEPT !.mailed = @ + 1]
    /\ UNCHANGED <<rows, configured>>

\* The check_back_in timer fires; a busy chat drops it.
AlarmFires ==
    /\ mem.alarm
    /\ mem' = LET n == [mem EXCEPT !.alarm = FALSE] IN IF Busy(n) THEN n ELSE Mailed(n, Timer)
    /\ UNCHANGED <<rows, configured, log, budget>>

\* Mutant: the timer only clears itself.
RetryForgets ==
    /\ mem.retry
    /\ mem' = [mem EXCEPT !.retry = FALSE]
    /\ UNCHANGED <<rows, configured, log, budget>>

\* The drain retry timer fires.
RetryFires ==
    /\ mem.retry
    /\ mem' = LET n == [mem EXCEPT !.retry = FALSE] IN IF Busy(n) THEN n ELSE DrainMailbox(rows, n)
    /\ UNCHANGED <<rows, configured, log, budget>>

\* Settings: the endpoint is removed or set.
Configure ==
    /\ Spend("toggles")
    /\ configured' = ~configured
    /\ UNCHANGED <<rows, mem, log>>

\* The process goes and comes back: resumeQueuedPrompts().
Restart ==
    /\ Spend("restarts")
    /\ mem' = IF rows = <<>> THEN Fresh ELSE DrainNext(rows, Fresh)
    /\ log' = [log EXCEPT !.between = @ \cup (Writing \cap Range(rows)),
                          !.dropped = @ \cup (Range(mem.mailbox \o mem.held) \ {Timer})]
    /\ UNCHANGED <<rows, configured>>

-----------------------------------------------------------------------------
(* Gemini Live: another model drives the chat, and its calls and transcript *)
(* are written one after the other.                                         *)

Touched(m) == [m EXCEPT !.liveOn = TRUE, !.expiry = TRUE]

\* liveSetup() checks, reads the transcript, and only then marks the chat live.
LiveSetup ==
    /\ ~mem.setup
    /\ ~PlannerBusy(rows, mem)
    /\ Spend("lives")
    /\ mem' = [mem EXCEPT !.setup = TRUE]
    /\ UNCHANGED <<rows, configured, log>>

LiveReady ==
    /\ mem.setup
    /\ mem' = [Touched(mem) EXCEPT !.setup = FALSE]
    /\ UNCHANGED <<rows, configured, log, budget>>

\* Mutant: live calls do not ask whether the planner's model has the chat.
LiveAcceptUnchecked(work) ==
    /\ Spend("lives")
    /\ mem' = [Touched(mem) EXCEPT !.chain = Append(@, work)]
    /\ UNCHANGED <<rows, configured, log>>

\* runLiveToolCalls() and recordLiveTranscript(): checked when they arrive,
\* done in their turn.
LiveAccept(work) ==
    /\ ~PlannerBusy(rows, mem)
    /\ Spend("lives")
    /\ mem' = [Touched(mem) EXCEPT !.chain = Append(@, work)]
    /\ UNCHANGED <<rows, configured, log>>

\* The head of the line is done; a call may be left waiting for an approval.
\* The chat is not drained, even if live mode has ended.
LiveDone(parks) ==
    /\ mem.chain # <<>>
    /\ parks => Head(mem.chain) = "tools"
    /\ mem' = [mem EXCEPT !.chain = Tail(@),
                          !.parked = IF parks THEN Append(@, [kind |-> "live", calls |-> 1, round |-> 0])
                                     ELSE @]
    /\ log' = IF Head(mem.chain) = "record"
              THEN [Prompted(log) EXCEPT !.raced = @ \/ PlannerBusy(<<>>, mem)]
              ELSE [log EXCEPT !.left = @ \/ Stuck(rows, mem')]
    /\ UNCHANGED <<rows, configured, budget>>

\* resolveApproval() of a live call.
ResolveLive(i) ==
    /\ i \in DOMAIN mem.parked
    /\ mem.parked[i].kind = "live"
    /\ ~mem.answering
    /\ mem' = [mem EXCEPT !.parked = RemoveAt(@, i), !.answering = TRUE, !.controller = "live"]
    /\ UNCHANGED <<rows, configured, log, budget>>

LiveAnswered ==
    /\ mem.answering
    /\ mem' = DrainNext(rows, [mem EXCEPT !.answering = FALSE, !.controller = "none"])
    /\ UNCHANGED <<rows, configured, log, budget>>

\* LIVE_ACTIVITY_TTL_MS passes without activity.
LiveLapses ==
    /\ mem.liveOn
    /\ mem' = [mem EXCEPT !.liveOn = FALSE]
    /\ UNCHANGED <<rows, configured, log, budget>>

LiveOff == [mem EXCEPT !.liveOn = FALSE, !.expiry = FALSE]

\* The timer set a second later drains the chat.
ExpiryFires ==
    /\ mem.expiry
    /\ ~mem.liveOn
    /\ mem' = DrainNext(rows, LiveOff)
    /\ UNCHANGED <<rows, configured, log, budget>>

\* endLive().
EndLive ==
    /\ mem.liveOn
    /\ mem' = DrainNext(rows, LiveOff)
    /\ UNCHANGED <<rows, configured, log, budget>>

LiveStep ==
    \/ LiveReady
    \/ \E parks \in BOOLEAN : LiveDone(parks)
    \/ LiveAnswered

People ==
    \/ SendMessage
    \/ QueuePrompt
    \/ \E r \in Range(rows) : CancelQueuedPrompt(r)
    \/ WhenIdle
    \/ Compact
    \/ \E i \in DOMAIN mem.parked, allowed \in BOOLEAN : ResolveParked(i, allowed)
    \/ \E i \in DOMAIN mem.parked : ResolveLive(i)
    \/ Interrupt
    \/ ClearHistory
    \/ LiveSetup
    \/ \E work \in {"tools", "record"} : LiveAccept(work)
    \/ LiveLapses
    \/ EndLive

Init ==
    /\ rows = <<>>
    /\ mem = Fresh
    /\ configured = TRUE
    /\ log = NoLog
    /\ budget \in Scenarios

Next ==
    \/ TurnStep
    \/ DismissalAnswered
    \/ DismissalOver
    \/ LiveStep
    \/ TurnThrows
    \/ People
    \/ EnqueueMailbox
    \/ AlarmFires
    \/ RetryFires
    \/ ExpiryFires
    \/ Configure
    \/ Restart

Spec == Init /\ [][Next]_vars

\* A turn is driven to its end: requests to the model time out when idle, tools
\* are taken to return, and files to be written; a retry timer fires.  People,
\* other timers and faults owe nothing.
ChatFairness ==
    /\ WF_vars(TurnStep)
    /\ WF_vars(DismissalAnswered \/ DismissalOver)
    /\ WF_vars(LiveStep)
    /\ WF_vars(RetryFires)

FairSpec == Spec /\ ChatFairness

-----------------------------------------------------------------------------
(* Properties.                                                              *)

Parks == [kind : Waits, calls : Nat, round : 0..MaxRounds]

TypeOK ==
    /\ rows \in Seq(1..log.sent)
    /\ Len(rows) <= QueueCap
    /\ mem.turn.stage \in {"none", "prompt", "deliver", "erase", "model", "tools", "running",
                           "opening", "deciding", "answer", "compact"}
    /\ mem.turn.origin \in {"none", "user", "queue", "wake", "resumed", "compact"}
    /\ mem.turn.calls \in 0..MaxCalls /\ mem.turn.round \in 0..MaxRounds
    /\ mem.controller \in {"none", "turn", "live"}
    /\ mem.parked \in Seq(Parks)
    /\ mem.dismiss \in {"none", "result", "live", "complete"}
    /\ mem.attempts \in 0..MaxRetries + 1
    /\ mem.chain \in Seq({"tools", "record"})
    /\ mem.draining => mem.turn.origin = "queue"
    /\ configured \in BOOLEAN
    /\ budget \in [Acts -> Nat]

\* Whatever ends a turn, a parked approval or live mode, and whatever arrives in
\* a chat that is idle by then, leaves no queued message, no subagent's mail and
\* no idle callback behind with nothing to take it up (drainNext as "the single
\* entry point every 'the chat just went idle' path calls").  Two paths do not
\* drain: clearing the history, and a live tool call that outlasts live mode.
NoLostWake ==
    [][Stuck(rows', mem') =>
         Stuck(rows, mem) \/ budget'["clears"] < budget["clears"] \/ log'.left]_vars

\* Every accepted message is still queued, was written, or was withdrawn; they
\* are written in the order sent, and a second time only after a crash between
\* the append and the deletion of the row.  A withdrawn one is in the transcript
\* only if it was withdrawn in that gap.
MessagesKept ==
    /\ 1..log.sent = Range(log.said) \cup Range(rows) \cup log.withdrawn
    /\ LET all == log.said \o rows IN
         \A i, j \in DOMAIN all :
           i < j => all[i] < all[j] \/ (all[i] = all[j] /\ all[i] \in log.between \cup Writing)
    /\ log.withdrawn \cap Range(log.said) \subseteq log.between
    /\ log.withdrawn \cap Range(rows) = {}

\* No user prompt comes between a call and its result, wherever messages are
\* queued, approvals answered and turns steered: providers reject that.  It
\* does when a new turn starts while interrupt() still has the dismissed
\* call's result to write, or a live transcript accepted earlier is written
\* into a turn.
PairsKept == log.split => log.raced

\* No subagent's mail is lost while the server is up, short of clearing the
\* chat, however wakes fail and are retried; it is told once unless the wake
\* that told it threw, and never both waits and is being told.
MailConserved ==
    LET waiting == (Range(mem.mailbox) \cup Range(mem.held)) \ {Timer} IN
    /\ 1..log.mailed = waiting \cup Range(log.told) \cup log.dropped
    /\ \A i, j \in DOMAIN log.told : i # j /\ log.told[i] = log.told[j] => log.told[i] \in log.torn
    /\ Range(mem.mailbox) \cap Range(log.told) \subseteq log.torn
    /\ Range(mem.mailbox) \cap Range(mem.held) \subseteq {Timer}

\* A chat has one check_back_in outstanding, set or in its mailbox: a turn that
\* sets a new one replaces the old.  A wake that throws can bring an old one back.
OneCheckBack ==
    log.torn = {} =>
      Len(Those(mem.mailbox, {Timer})) + (IF mem.alarm THEN 1 ELSE 0) <= 1

\* The transcript and the queue hold every message as it was sent, and a form the
\* providers accept, whatever is queued, cancelled, parked and steered meanwhile.
TranscriptSound == MessagesKept /\ PairsKept

\* The mailbox holds, and tells, what it was given, and of timers the last one set.
MailboxSound == MailConserved /\ OneCheckBack

\* After a stop the turn begins nothing: no call to the model, no tool, no
\* approval.  But an approved tool whose permission_resolved was being written
\* still runs (executeTool is called behind that write without a look at the
\* signal), and a browser being opened for a person still parks the turn.
StoppedMeansStopped ==
    [][T.aborted =>
         /\ mem'.turn.stage \in {"model", "running", "opening", "deciding", "answer"} =>
              \/ mem'.turn.stage = T.stage
              \/ ~mem'.turn.aborted
              \/ T.stage = "deciding" /\ mem'.turn.stage = "running"
         /\ Len(mem'.parked) > Len(mem.parked) => T.stage = "opening" \/ mem'.chain # mem.chain]_vars

\* Gemini's tools and the planner's model are not both at work in one chat,
\* except for a live call that was accepted earlier and waited behind another.
TwoModels(m) == PlannerBusy(<<>>, m) /\ LiveTools(m)
OneModel == [][TwoModels(mem') => TwoModels(mem) \/ Len(mem.chain) > 1]_vars

\* What waits gets out.  A queued message's row goes, unless the chat waits for
\* a person, is live, could not deliver it, or was left behind by a live call; a
\* subagent's mail is taken up by a wake turn, unless the chat waits for a person
\* or is live, or the wakes have run out of retries.
WaitingGetsOut ==
    LET elsewhere == mem.parked # <<>> \/ mem.liveOn \/ mem.expiry \/ log.left IN
    /\ rows # <<>> ~> rows = <<>> \/ mem.stalled \/ elsewhere
    /\ mem.mailbox # <<>> ~> mem.mailbox = <<>> \/ mem.gaveUp \/ elsewhere

=============================================================================
