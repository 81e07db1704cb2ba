------------------------------ MODULE MCPlanner ------------------------------
(* PlannerChat and TelegramBridge under several small scenarios, each a       *)
(* choice of what may happen and how often.  TelegramBridge has the part of   *)
(* the chat it needs, so each behaviour follows one of the two.               *)
EXTENDS PlannerChat, TelegramBridge

\* Those is what JavaScript's filter is.
ASSUME ThoseSelects ==
    \A s \in UNION {[1 .. n -> 0 .. 2] : n \in 0 .. 4}, S \in SUBSET (0 .. 2) :
        Those(s, S) = SelectSeq(s, LAMBDA x : x \in S)

VARIABLE focus      \* "chat" or "telegram"

plannerVars == <<focus, vars, telegramVars>>

With(counts) == [a \in Acts |-> IF a \in DOMAIN counts THEN counts[a] ELSE 0]

MCScenarios == {
    With(<<>>),
    \* steering: messages queued into turns with approvals, cancelled, and a stop
    With([typed |-> 1, queued |-> 2, cancels |-> 1, parks |-> 1, stops |-> 1, idles |-> 1]),
    With([typed |-> 1, queued |-> 3]),
    \* a second turn while a dismissal is being written, and a cleared history
    With([typed |-> 2, queued |-> 1, parks |-> 2, stops |-> 1, clears |-> 1]),
    \* browser handoffs, stopped or cleared while the browser opens
    With([typed |-> 1, queued |-> 1, helps |-> 2, stops |-> 2, clears |-> 1]),
    \* subagents' mail beside queued messages, with faults and the endpoint gone
    With([typed |-> 1, queued |-> 1, mails |-> 2, faults |-> 2, toggles |-> 1]),
    With([queued |-> 1, mails |-> 1, toggles |-> 3]),
    \* crashes, among cancelled and cleared messages
    With([typed |-> 1, queued |-> 2, mails |-> 1, clears |-> 1, restarts |-> 1]),
    With([queued |-> 2, cancels |-> 1, mails |-> 1, restarts |-> 2]),
    \* check_back_in, with live mode or a missing endpoint holding its mail back
    With([typed |-> 2, checks |-> 3, lives |-> 1]),
    With([typed |-> 1, checks |-> 2, lives |-> 1, toggles |-> 2]),
    \* live mode: calls, transcripts and approvals, typed and queued messages, mail
    With([typed |-> 1, parks |-> 1, lives |-> 3]),
    With([typed |-> 1, queued |-> 1, parks |-> 1, lives |-> 2]),
    With([queued |-> 1, mails |-> 1, stops |-> 1, lives |-> 2]),
    \* /compact
    With([queued |-> 1, mails |-> 1, compacts |-> 1, idles |-> 1, stops |-> 1, toggles |-> 1])
    }

NoTelegram == [plan |-> <<>>, parks |-> 0, throws |-> 0, others |-> 0, toggles |-> 0, restarts |-> 0]
Talk       == [NoTelegram EXCEPT !.plan = <<"text", "text">>]

MCTelegramScenarios == {
    NoTelegram,
    \* loops that overlap, and a restart that finds an offset put back
    [Talk EXCEPT !.toggles = 2, !.restarts = 1],
    \* a turn that throws between messages, with somebody else's turns about
    [Talk EXCEPT !.plan = <<"text", "text", "text">>, !.throws = 1, !.others = 1],
    [Talk EXCEPT !.plan = <<"text", "file">>, !.throws = 1, !.restarts = 1],
    \* the queue is full
    [Talk EXCEPT !.plan = <<"text", "text", "text", "text">>, !.parks = 1],
    \* an approval is tapped, or given elsewhere
    [Talk EXCEPT !.plan = <<"text", "file", "tap">>, !.parks = 1, !.others = 1],
    \* albums
    [Talk EXCEPT !.plan = <<"part", "part">>, !.toggles = 2],
    [Talk EXCEPT !.plan = <<"part", "text">>, !.parks = 1, !.restarts = 1] }

PlannerInit ==
    /\ Init
    /\ TelegramInit
    /\ \/ focus = "chat" /\ telegramLeft = NoTelegram
       \/ focus = "telegram" /\ telegramLeft # NoTelegram /\ budget = With(<<>>)

PlannerNext ==
    /\ UNCHANGED focus
    /\ \/ focus = "chat" /\ Next /\ UNCHANGED telegramVars
       \/ focus = "telegram" /\ TelegramNext /\ UNCHANGED vars

PlannerSpec == PlannerInit /\ [][PlannerNext]_plannerVars /\ ChatFairness

\* The states of the chat and of the bridge are well formed: queue and stages within
\* their bounds, one active loop, a handler that awaits a turn is the turn's.
PlannerTypeOK == TypeOK /\ TelegramTypeOK
=============================================================================
