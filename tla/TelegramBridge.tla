---------------------------- MODULE TelegramBridge ----------------------------
(***************************************************************************)
(* One Telegram bot and the one chat paired through it, telegram/poller.ts *)
(* and telegram/bridge.ts: long-poll loops that come and go as the bot is  *)
(* disabled and enabled, updates handled one after the other, albums       *)
(* collected on a timer, messages that start a turn or are queued behind   *)
(* one, and the relay that carries the chat's answers back.                *)
(*                                                                         *)
(* Updates are numbered as Telegram numbers them.  The chat is what the    *)
(* bridge sees of planner/chats.ts: whether it is busy, its queue, and     *)
(* when it is idle; PlannerChat has the rest.  Commands, removing the      *)
(* pairing and Gemini Live are left out.                                   *)
(***************************************************************************)
EXTENDS Naturals, SequencesExt, FiniteSetsExt

CONSTANTS
    PollSlots,          \* bound: loops that exist at a time
    AlbumSlots,         \* bound: albums being downloaded at a time
    AlbumParts,         \* MAX_ALBUM_PARTS
    ChatQueueCap,       \* MAX_QUEUED_PROMPTS_PER_CHAT
    TelegramScenarios   \* [plan : the kinds of the updates sent, and how often the
                        \*  rest may happen]


VARIABLES
    cloud,      \* Telegram: updates sent so far, and the lowest it still holds
    botRow,     \* the row of telegram_bots: enabled, polling_offset
    poll,       \* the loops
    current,    \* the loop in the active map, or Off
    hand,       \* handlers at work: a loop's own, or an album's
    album,      \* the parts collected so far, the timer set
    convo,      \* the chat
    relaying,   \* the bridge observes the chat, until it is idle
    tale,       \* history; see NoTale
    telegramLeft

telegramVars == <<cloud, botRow, poll, current, hand, album, convo, relaying, tale, telegramLeft>>

Off      == 0
Handlers == PollSlots \cup AlbumSlots
Kinds    == {"text", "file", "part", "tap"}     \* part: of one album; tap: a button
Sent     == 1 .. cloud.sent
KindOf(u) == telegramLeft.plan[u]

ASSUME TelegramAssumption ==
    /\ PollSlots \cup AlbumSlots \subseteq Nat \ {Off} /\ PollSlots \cap AlbumSlots = {}
    /\ IsFiniteSet(PollSlots) /\ IsFiniteSet(AlbumSlots)
    /\ TelegramScenarios \subseteq
           [plan : Seq(Kinds), parks : Nat, throws : Nat, others : Nat, toggles : Nat, restarts : Nat]

NoPoll == [state |-> "none", aborted |-> FALSE, offset |-> 0, batch |-> <<>>]
NoHand   == [stage |-> "none", parts |-> <<>>]
QuietChat  == [turn |-> "none",     \* "begin" until its first event, then "on"
           by |-> Off,          \* the handler that awaits that event
           asked |-> {},        \* messages from Telegram the turn has still to answer
           queue |-> {},        \* those queued, on disk
           parked |-> FALSE,    \* it waits for an approval
           draining |-> FALSE, stalled |-> FALSE]
NoTale == [taken |-> [u \in 1 .. Len(telegramLeft.plan) |-> 0],   \* times handed to the chat, or refused
           shaken |-> [u \in 1 .. Len(telegramLeft.plan) |-> 0],  \* restarts and disablings between
                                \* its arrival in a loop and Telegram's letting go of it
           seen |-> {},         \* in a loop's batch at some time
           dropped |-> {},      \* album parts that a restart or a full album gave up,
                                \* taps that could not be acknowledged
           unheard |-> {},      \* answered, or asking for approval, with no relay
           excused |-> {}]      \* in the chat at a restart, a failed turn or a stall

TelegramPay(what) == /\ telegramLeft[what] > 0
                     /\ telegramLeft' = [telegramLeft EXCEPT ![what] = @ - 1]

Counted(t, parts) ==
    [t EXCEPT !.taken = [u \in DOMAIN @ |-> @[u] + Cardinality({i \in DOMAIN parts : parts[i] = u})]]
Shaken(t) == [t EXCEPT !.shaken = [u \in DOMAIN @ |->
                  IF u \in t.seen /\ u >= cloud.floor THEN @[u] + 1 ELSE @[u]]]

----------------------------------------------------------------------------
(* The chat, as planner/chats.ts has it.                                     *)
ChatBusy(c) == c.turn # "none" \/ c.parked

QueueDue(c) == c.queue # {} /\ ~c.stalled

\* What the chat and the relay become: drainNext takes up the queue, or tells
\* those who wait for the chat to be idle.
ChatNow(c, on) == [chat |-> c, relaying |-> on]

\* Mutant: whoever waits for the chat hears of every turn's end.
DrainsAfterSettling(c, on) ==
    CASE ChatBusy(c) \/ c.draining -> ChatNow(c, on)
      [] ~ChatBusy(c) /\ ~c.draining /\ QueueDue(c) ->
           ChatNow([c EXCEPT !.draining = TRUE, !.turn = "begin"], FALSE)
      [] OTHER -> ChatNow(c, FALSE)

Drains(c, on) ==
    CASE ChatBusy(c) \/ c.draining -> ChatNow(c, on)
      [] ~ChatBusy(c) /\ ~c.draining /\ QueueDue(c) ->
           ChatNow([c EXCEPT !.draining = TRUE, !.turn = "begin"], on)
      [] OTHER -> ChatNow(c, FALSE)

\* The turn is over; of a queue turn, also its drain.
EndedTurn(c) == [c EXCEPT !.turn = "none", !.by = Off, !.asked = {}, !.draining = FALSE]

ChatBecomes(s) == convo' = s.chat /\ relaying' = s.relaying

\* handleMessage() from isBusy() on: a turn of its own, the queue, or a refusal.
Enters(h, parts) ==
    LET m == Min(ToSet(parts)) IN
    /\ tale' = Counted(tale, parts)
    /\ \/ /\ ~ChatBusy(convo)
          /\ ChatBecomes(ChatNow([convo EXCEPT !.turn = "begin", !.by = h, !.asked = {m},
                                               !.stalled = FALSE], TRUE))
          /\ hand' = [hand EXCEPT ![h] = [stage |-> "begin", parts |-> parts]]
       \/ /\ ChatBusy(convo)
          /\ Cardinality(convo.queue) < ChatQueueCap
          /\ ChatBecomes(ChatNow([convo EXCEPT !.queue = @ \cup {m}, !.stalled = FALSE], TRUE))
          /\ hand' = [hand EXCEPT ![h] = [stage |-> "reply", parts |-> parts]]
       \/ /\ ChatBusy(convo)
          /\ Cardinality(convo.queue) >= ChatQueueCap
          /\ hand' = [hand EXCEPT ![h] = [stage |-> "reply", parts |-> parts]]
          /\ UNCHANGED <<convo, relaying>>

\* The user's prompt is in the transcript, or the queue's are.
TurnBegins ==
    /\ convo.turn = "begin"
    /\ convo' = [convo EXCEPT !.turn = "on", !.by = Off,
                              !.asked = IF convo.draining THEN convo.queue ELSE @,
                              !.queue = IF convo.draining THEN {} ELSE @]
    /\ hand' = IF convo.by = Off THEN hand ELSE [hand EXCEPT ![convo.by] = NoHand]
    /\ UNCHANGED <<cloud, botRow, poll, current, album, relaying, tale, telegramLeft>>

\* Messages queued meanwhile go into the turn.
TurnTakes ==
    /\ convo.turn = "on"
    /\ convo.queue # {}
    /\ convo' = [convo EXCEPT !.asked = @ \cup convo.queue, !.queue = {}]
    /\ UNCHANGED <<cloud, botRow, poll, current, hand, album, relaying, tale, telegramLeft>>

\* It says something: forwardEvent() has it if the relay is on.
Says == [tale EXCEPT !.unheard = @ \cup IF relaying THEN {} ELSE convo.asked]

TurnAnswers ==
    /\ convo.turn = "on"
    /\ tale' = Says
    /\ ChatBecomes(Drains(EndedTurn(convo), relaying))
    /\ UNCHANGED <<cloud, botRow, poll, current, hand, album, telegramLeft>>

TurnParks ==
    /\ convo.turn = "on"
    /\ TelegramPay("parks")
    /\ tale' = Says
    /\ convo' = [convo EXCEPT !.turn = "none", !.parked = TRUE, !.draining = FALSE]
    /\ UNCHANGED <<cloud, botRow, poll, current, hand, album, relaying>>

\* The turn throws.  A queue turn leaves the queue stalled; a handler that waits
\* for its first event ends the relay of an idle chat and says so.
AnswerThrows ==
    /\ convo.turn \in {"begin", "on"}
    /\ TelegramPay("throws")
    /\ LET stalls == convo.draining /\ convo.queue # {}
           s == Drains([EndedTurn(convo) EXCEPT !.stalled = @ \/ stalls], relaying) IN
       /\ tale' = [tale EXCEPT !.excused = @ \cup convo.asked
                                             \cup IF stalls THEN convo.queue ELSE {}]
       /\ ChatBecomes(ChatNow(s.chat, s.relaying /\ (convo.by # Off => ChatBusy(s.chat))))
       /\ hand' = IF convo.by = Off THEN hand ELSE [hand EXCEPT ![convo.by].stage = "reply"]
    /\ UNCHANGED <<cloud, botRow, poll, current, album>>

\* Somebody else's turn: the page, a webhook, a schedule, a wake.
OthersStart ==
    /\ ~ChatBusy(convo)
    /\ TelegramPay("others")
    /\ convo' = [convo EXCEPT !.turn = "begin", !.stalled = FALSE]
    /\ UNCHANGED <<cloud, botRow, poll, current, hand, album, relaying, tale>>

OthersApprove ==
    /\ convo.parked
    /\ TelegramPay("others")
    /\ convo' = [convo EXCEPT !.turn = "begin", !.parked = FALSE]
    /\ UNCHANGED <<cloud, botRow, poll, current, hand, album, relaying, tale>>

----------------------------------------------------------------------------
(* Handlers.                                                                 *)

\* bufferAlbum(): a part joins the album unless it is full.
Buffers(u) ==
    IF Len(album) < AlbumParts
    THEN album' = Append(album, u) /\ UNCHANGED tale
    ELSE tale' = [tale EXCEPT !.dropped = @ \cup {u}] /\ UNCHANGED album

\* The loop takes the next update of its batch.
HandleUpdate(l) ==
    /\ poll[l].state = "handling"
    /\ hand[l] = NoHand
    /\ poll[l].batch # <<>>
    /\ LET u == Head(poll[l].batch) IN
       /\ poll' = [poll EXCEPT ![l].batch = Tail(@), ![l].offset = u + 1]
       /\ \/ /\ KindOf(u) = "text"
             /\ Enters(l, <<u>>)
             /\ UNCHANGED album
          \/ /\ KindOf(u) = "part"
             /\ Buffers(u)
             /\ UNCHANGED <<hand, convo, relaying>>
          \/ /\ KindOf(u) \in {"file", "tap"}
             /\ hand' = [hand EXCEPT ![l] = [stage |-> KindOf(u), parts |-> <<u>>]]
             /\ UNCHANGED <<album, convo, relaying, tale>>
    /\ UNCHANGED <<cloud, botRow, current, telegramLeft>>

\* The album's timer runs out.
AlbumDue(h) ==
    /\ album # <<>>
    /\ hand[h] = NoHand
    /\ hand' = [hand EXCEPT ![h] = [stage |-> "file", parts |-> album]]
    /\ album' = <<>>
    /\ UNCHANGED <<cloud, botRow, poll, current, convo, relaying, tale, telegramLeft>>

\* receiveMedia() has the files, and isBusy() is asked only now.
FilesReceived(h) ==
    /\ hand[h].stage = "file"
    /\ Enters(h, hand[h].parts)
    /\ UNCHANGED <<cloud, botRow, poll, current, album, telegramLeft>>

\* It cannot have them, and says so.
FilesRefused(h) ==
    /\ hand[h].stage = "file"
    /\ tale' = Counted(tale, hand[h].parts)
    /\ hand' = [hand EXCEPT ![h].stage = "reply"]
    /\ UNCHANGED <<cloud, botRow, poll, current, album, convo, relaying, telegramLeft>>

\* handleCallbackQuery() after its answer to Telegram: the parked turn goes on;
\* if there is none, the relay of an idle chat ends.
Tapped(h) ==
    /\ hand[h].stage = "tap"
    /\ tale' = Counted(tale, hand[h].parts)
    /\ \/ /\ convo.parked
          /\ ChatBecomes(ChatNow([convo EXCEPT !.turn = "begin", !.by = h, !.parked = FALSE], TRUE))
          /\ hand' = [hand EXCEPT ![h].stage = "begin"]
       \/ /\ ~convo.parked
          /\ ChatBecomes(ChatNow(convo, ChatBusy(convo)))
          /\ hand' = [hand EXCEPT ![h].stage = "reply"]
    /\ UNCHANGED <<cloud, botRow, poll, current, album, telegramLeft>>

\* Its answer to Telegram failed, which is logged: the tap is lost.
TapFails(h) ==
    /\ hand[h].stage = "tap"
    /\ hand' = [hand EXCEPT ![h] = NoHand]
    /\ tale' = [tale EXCEPT !.dropped = @ \cup ToSet(hand[h].parts)]
    /\ UNCHANGED <<cloud, botRow, poll, current, album, convo, relaying, telegramLeft>>

\* A sendMessage to Telegram is over, or failed and is logged.
Replied(h) ==
    /\ hand[h].stage = "reply"
    /\ hand' = [hand EXCEPT ![h] = NoHand]
    /\ UNCHANGED <<cloud, botRow, poll, current, album, convo, relaying, tale, telegramLeft>>

----------------------------------------------------------------------------
(* Polling.                                                                  *)

\* Telegram gets an update for the bot.
UpdateArrives ==
    /\ cloud.sent < Len(telegramLeft.plan)
    /\ cloud' = [cloud EXCEPT !.sent = @ + 1]
    /\ UNCHANGED <<botRow, poll, current, hand, album, convo, relaying, tale, telegramLeft>>

\* getUpdates reaches Telegram, which lets go of what lies below the offset and
\* answers with the rest.
PollServed(l) ==
    /\ poll[l].state = "asking"
    /\ cloud' = [cloud EXCEPT !.floor = IF poll[l].offset > @ THEN poll[l].offset ELSE @]
    /\ poll' = [poll EXCEPT ![l].state = "answered",
                            ![l].batch = [i \in 1 .. cloud.sent + 1 - cloud'.floor |->
                                              cloud'.floor + i - 1]]
    /\ UNCHANGED <<botRow, current, hand, album, convo, relaying, tale, telegramLeft>>

\* Mutant: the offset is saved as soon as the updates are there.
PollAnswersEarly(l) ==
    /\ poll[l].state = "answered"
    /\ poll' = [poll EXCEPT ![l] =
                    IF @.aborted THEN NoPoll
                    ELSE [@ EXCEPT !.state = IF poll[l].batch = <<>> THEN "asking" ELSE "handling"]]
    /\ botRow' = [botRow EXCEPT !.offset = IF poll[l].aborted \/ poll[l].batch = <<>> THEN @
                                           ELSE cloud.sent + 1]
    /\ tale' = [tale EXCEPT !.seen = @ \cup IF poll[l].aborted THEN {}
                                            ELSE ToSet(poll[l].batch)]
    /\ UNCHANGED <<cloud, current, hand, album, convo, relaying, telegramLeft>>

\* The answer arrives; an aborted loop does not look at it.
PollAnswers(l) ==
    /\ poll[l].state = "answered"
    /\ poll' = [poll EXCEPT ![l] =
                    IF @.aborted THEN NoPoll
                    ELSE [@ EXCEPT !.state = IF poll[l].batch = <<>> THEN "asking" ELSE "handling"]]
    /\ tale' = [tale EXCEPT !.seen = @ \cup IF poll[l].aborted THEN {}
                                            ELSE ToSet(poll[l].batch)]
    /\ UNCHANGED <<cloud, botRow, current, hand, album, convo, relaying, telegramLeft>>

\* The call fails or is aborted, before or after Telegram served it.
PollFails(l) ==
    /\ poll[l].state \in {"asking", "answered"}
    /\ poll' = [poll EXCEPT ![l] = IF @.aborted THEN NoPoll
                                   ELSE [@ EXCEPT !.state = "asking", !.batch = <<>>]]
    /\ UNCHANGED <<cloud, botRow, current, hand, album, convo, relaying, tale, telegramLeft>>

\* The batch is handled and its offset saved, by an aborted loop too.
BatchDone(l) ==
    /\ poll[l].state = "handling"
    /\ hand[l] = NoHand
    /\ poll[l].batch = <<>>
    /\ botRow' = [botRow EXCEPT !.offset = poll[l].offset]
    /\ poll' = [poll EXCEPT ![l] = IF @.aborted THEN NoPoll ELSE [@ EXCEPT !.state = "asking"]]
    /\ UNCHANGED <<cloud, current, hand, album, convo, relaying, tale, telegramLeft>>

\* reconcile(): the loop of a disabled bot is aborted, an enabled one's started.
Reconcile ==
    /\ \/ /\ ~botRow.enabled /\ current # Off
          /\ poll' = [poll EXCEPT ![current].aborted = TRUE]
          /\ current' = Off
          /\ tale' = Shaken(tale)
       \/ /\ botRow.enabled /\ current = Off
          /\ \E l \in PollSlots : poll[l] = NoPoll
          /\ LET l == Min({l \in PollSlots : poll[l] = NoPoll}) IN
               /\ poll' = [poll EXCEPT ![l] = [NoPoll EXCEPT !.state = "asking",
                                                             !.offset = botRow.offset]]
               /\ current' = l
          /\ UNCHANGED tale
    /\ UNCHANGED <<cloud, botRow, hand, album, convo, relaying, telegramLeft>>

BotToggled ==
    /\ TelegramPay("toggles")
    /\ botRow' = [botRow EXCEPT !.enabled = ~@]
    /\ UNCHANGED <<cloud, poll, current, hand, album, convo, relaying, tale>>

\* The server stops, in whatever way, and starts: an album is dropped, a parked
\* turn is gone, what was queued is delivered by resumeQueuedPrompts().
TelegramRestart ==
    /\ TelegramPay("restarts")
    /\ poll' = [l \in PollSlots |-> NoPoll]
    /\ current' = Off
    /\ hand' = [h \in Handlers |-> NoHand]
    /\ album' = <<>>
    /\ ChatBecomes(Drains([QuietChat EXCEPT !.queue = convo.queue], FALSE))
    /\ LET gone == ToSet(album) \cup UNION {ToSet(hand[h].parts) :
                              h \in {a \in AlbumSlots : hand[a].stage = "file"}} IN
       tale' = [Shaken(tale) EXCEPT !.dropped = @ \cup gone,
                                    !.excused = @ \cup convo.asked \cup convo.queue]
    /\ UNCHANGED <<cloud, botRow>>

----------------------------------------------------------------------------
TelegramInit ==
    /\ telegramLeft \in TelegramScenarios
    /\ cloud = [sent |-> 0, floor |-> 1]
    /\ botRow = [enabled |-> TRUE, offset |-> 1]
    /\ poll = [l \in PollSlots |-> NoPoll]
    /\ current = Off
    /\ hand = [h \in Handlers |-> NoHand]
    /\ album = <<>>
    /\ convo = QuietChat
    /\ relaying = FALSE
    /\ tale = NoTale

TelegramNext ==
    \/ UpdateArrives \/ BotToggled \/ Reconcile \/ TelegramRestart
    \/ \E l \in PollSlots : PollServed(l) \/ PollAnswers(l) \/ PollFails(l) \/ HandleUpdate(l) \/ BatchDone(l)
    \/ \E h \in AlbumSlots : AlbumDue(h)
    \/ \E h \in Handlers : FilesReceived(h) \/ FilesRefused(h) \/ Tapped(h) \/ TapFails(h)
                         \/ Replied(h)
    \/ TurnBegins \/ TurnTakes \/ TurnAnswers \/ TurnParks \/ AnswerThrows
    \/ OthersStart \/ OthersApprove

TelegramSpec == TelegramInit /\ [][TelegramNext]_telegramVars

----------------------------------------------------------------------------
\* Loops and handlers belong together: the active loop runs and is not aborted, every
\* other one is on its way out, and a handler that awaits a turn is the turn's.
TelegramTypeOK ==
    /\ cloud.sent \in 0 .. Len(telegramLeft.plan) /\ cloud.floor \in 1 .. cloud.sent + 1
    /\ botRow.offset \in 1 .. cloud.sent + 1
    /\ \A l \in PollSlots :
         /\ poll[l].state \in {"none", "asking", "answered", "handling"}
         /\ (l = current) = (poll[l].state # "none" /\ ~poll[l].aborted)
         /\ hand[l] # NoHand => poll[l].state = "handling"
    /\ \A h \in Handlers : (hand[h].stage = "begin") = (convo.turn = "begin" /\ convo.by = h)
    /\ convo.draining => convo.turn # "none"

\* Telegram forgets an update only after it was handed to the chat, refused with
\* an answer, or collected into an album, whatever loops start, stop and overlap,
\* and wherever the server restarts; only album parts can be given up, at a restart
\* or when a second loop has filled the album with the same ones, and a tap whose
\* acknowledgement fails.  And an update is handled once, and once more for every
\* restart or disabling of the bot that came between its arrival and Telegram's
\* letting go of it.
UpdatesKept ==
    LET inHand == ToSet(album) \cup UNION {ToSet(hand[h].parts) : h \in Handlers}
    IN /\ \A u \in 1 .. cloud.floor - 1 : tale.taken[u] > 0 \/ u \in inHand \cup tale.dropped
       /\ \A u \in tale.dropped : KindOf(u) \in {"part", "tap"}
       /\ \A u \in Sent : tale.taken[u] <= 1 + tale.shaken[u]

\* What the chat says to a message from Telegram reaches Telegram, whoever's turn
\* answers it and however often the turn is parked, steered or followed by a queue
\* turn ("a relay tied to one turn would never forward that reply"); short of a
\* restart, a turn that throws and a stalled queue.  And an idle chat is not
\* relayed, so that nothing said to others goes out to the pairing.
RepliesHeard ==
    /\ tale.unheard \subseteq tale.excused
    /\ relaying => ChatBusy(convo)
=============================================================================
