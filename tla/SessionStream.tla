---------------------------- MODULE SessionStream ----------------------------
(***************************************************************************)
(* One session's output from the process that writes it to a page that      *)
(* shows it: the bounded sequence-numbered buffer (terminal/output-buffer.ts *)
(* and terminal/event-buffer.ts), the WebSocket route that replays and       *)
(* subscribes (ws/index.ts), the reconnecting client (web api/ws-client.ts)  *)
(* and what the terminal and agent pages do with what it hands them.         *)
(*                                                                         *)
(* A behaviour fixes one transport.  A terminal session survives a server   *)
(* restart under a new epoch; a structured one ends with the process.  One   *)
(* page is enough: attachments share nothing but the session they read.      *)
(***************************************************************************)
EXTENDS Integers, SequencesExt

CONSTANTS
    Transports,     \* transports considered, of "terminal" and "structured"
    MaxBuffered,    \* MAX_BUFFERED_BYTES, in frames on the wire
    MaxSeq,         \* bound: items a stream carries in one epoch
    MaxEpoch,       \* bound: epochs of the session
    MaxLosses       \* bound: connections lost and pages reloaded

ASSUME TransportsType == Transports \subseteq {"terminal", "structured"}
ASSUME LimitsType == MaxBuffered \in Nat \ {0} /\ MaxSeq \in Nat /\ MaxEpoch \in Nat \ {0} /\ MaxLosses \in Nat

VARIABLES
    transport,      \* session.transport
    alive,          \* the server knows the session
    epoch, first, last,         \* session.epoch and the buffer's window
    link,           \* the socket: "down", "up", or "closing" for backpressure
    request,        \* the attach message on its way to the server, or <<>>
    subscribed,     \* the server forwards live items to this socket
    wire,           \* frames on their way to the client
    clientEpoch,    \* TerminalConnection.epoch, 0 for null
    lastSeq,        \* TerminalConnection.lastSeq
    shown,          \* <<epoch, seq>> of what the page shows, first to last
    losses

session == <<transport, alive, epoch, first, last>>
socket == <<link, request, subscribed, wire>>
client == <<clientEpoch, lastSeq, shown>>
vars == <<session, socket, client, losses>>

Frames ==
    [kind : {"attached"}, epoch : 1..MaxEpoch, lo : Nat, to : Nat, truncated : BOOLEAN]
        \cup [kind : {"item"}, seq : Nat \ {0}]

TypeOK ==
    /\ transport \in Transports
    /\ alive \in BOOLEAN
    /\ epoch \in 1..MaxEpoch
    /\ last \in 0..MaxSeq
    /\ first \in 1..(last + 1)
    /\ link \in {"down", "up", "closing"}
    /\ request = <<>> \/ request \in (0..MaxSeq) \X (0..MaxEpoch)
    /\ subscribed \in BOOLEAN
    /\ wire \in Seq(Frames)
    /\ clientEpoch \in 0..MaxEpoch
    /\ lastSeq \in 0..MaxSeq
    /\ shown \in Seq((1..MaxEpoch) \X (1..MaxSeq))
    /\ losses \in 0..MaxLosses

Init ==
    /\ transport \in Transports
    /\ alive = TRUE
    /\ epoch = 1 /\ first = 1 /\ last = 0
    /\ link = "down" /\ request = <<>> /\ subscribed = FALSE /\ wire = <<>>
    /\ clientEpoch = 0 /\ lastSeq = 0 /\ shown = <<>>
    /\ losses = 0

-----------------------------------------------------------------------------
(* The server.                                                              *)

Item(n) == [kind |-> "item", seq |-> n]

\* Mutant: over the limit the frame is dropped and the socket stays open.
SendDropping(at, frame) ==
    IF at.link = "up" /\ Len(at.wire) < MaxBuffered
    THEN [at EXCEPT !.wire = Append(at.wire, frame)]
    ELSE at

\* send(): nothing on a closing socket; over the limit the socket is closed
\* instead of written to.
Send(at, frame) ==
    IF at.link # "up" THEN at
    ELSE IF Len(at.wire) >= MaxBuffered THEN [at EXCEPT !.link = "closing"]
    ELSE [at EXCEPT !.wire = Append(at.wire, frame)]

\* The socket as it is.
Here == [link |-> link, wire |-> wire]

\* The live listener of this socket has done this to it, if it listens.
Forward(out) ==
    IF subscribed THEN link' = out.link /\ wire' = out.wire
    ELSE UNCHANGED <<link, wire>>

\* append: the newest k items are numbered, and as many of the oldest go as
\* their sizes demand, never the newest one.
Store(k) ==
    /\ last + k <= MaxSeq
    /\ last' = last + k
    /\ first' \in first..last'

\* A flush of terminal output, or one agent event.
Emit ==
    /\ alive
    /\ Store(1)
    /\ Forward(Send(Here, Item(last + 1)))
    /\ UNCHANGED <<transport, alive, epoch, request, subscribed, client, losses>>

\* A turn_complete that lets a prompt parked for this same session through.
\* The manager's listener comes first: it frees the tree, the pump delivers
\* the prompt, and the user_prompt reaches every listener before the
\* turn_complete that is still being emitted does.
EmitAndDeliver ==
    /\ transport = "structured"
    /\ alive
    /\ Store(2)
    /\ Forward(Send(Send(Here, Item(last + 2)), Item(last + 1)))
    /\ UNCHANGED <<transport, alive, epoch, request, subscribed, client, losses>>

\* Mutant: a replay that starts one item early.
ReplayFromBefore(after) ==
    IF after >= last
    THEN [lo |-> last + 1, to |-> last, truncated |-> FALSE]
    ELSE [lo |-> IF after < first THEN first - 1 ELSE after, to |-> last,
          truncated |-> after + 1 < first]

\* replayAfter(afterSeq): the items lo..to, and whether the next one is gone.
ReplayAfter(after) ==
    IF after >= last
    THEN [lo |-> last + 1, to |-> last, truncated |-> FALSE]
    ELSE [lo |-> IF after + 1 < first THEN first ELSE after + 1, to |-> last,
          truncated |-> after + 1 < first]

\* Mutant: a resume is honoured whatever epoch it came from.
EpochMatchesAlways(e) == TRUE

\* epoch === undefined || epoch === session.epoch
EpochMatches(e) == e = 0 \/ e = epoch

\* attachTo: snapshot, subscribe, answer, in one synchronous stretch.  A
\* session the process does not know is answered with an error.
HandleAttach ==
    /\ link = "up"
    /\ request # <<>>
    /\ request' = <<>>
    /\ LET matches == EpochMatches(request[2])
           replay == ReplayAfter(IF matches THEN request[1] ELSE 0)
           answer == [kind |-> "attached", epoch |-> epoch, lo |-> replay.lo, to |-> replay.to,
                      truncated |-> replay.truncated \/ (~matches /\ request[1] > 0)]
           out == IF alive THEN Send(Here, answer) ELSE Here
       IN /\ link' = out.link
          /\ wire' = out.wire
    /\ subscribed' = alive
    /\ UNCHANGED <<session, client, losses>>

-----------------------------------------------------------------------------
(* The client.                                                              *)

\* connect, onopen and sendAttach: the attach carries lastSeq and its epoch.
Connect ==
    /\ link = "down"
    /\ link' = "up"
    /\ request' = <<lastSeq, clientEpoch>>
    /\ UNCHANGED <<subscribed, wire, session, client, losses>>

\* Mutant: every frame is rendered.
FreshAlways(n) == TRUE

\* message.seq <= this.lastSeq is a duplicate.
Fresh(n) == n > lastSeq

Entries(lo, hi) == [i \in 1..(hi - lo + 1) |-> <<epoch, lo + i - 1>>]

\* onReplay of the terminal page clears for a truncated replay and writes;
\* onAgentReplay of the agent page rebuilds from what it is given.
Replayed(f) ==
    IF f.lo > f.to /\ ~f.truncated THEN shown
    ELSE IF transport = "structured" \/ f.truncated THEN Entries(f.lo, f.to)
    ELSE shown \o Entries(f.lo, f.to)

\* Mutant: a changed epoch leaves lastSeq as it was.
TakeAttachedKeepingSeq(f) ==
    /\ clientEpoch' = f.epoch
    /\ shown' = Replayed(f)
    /\ lastSeq' = IF f.to > lastSeq THEN f.to ELSE lastSeq

\* The attached frame: a new epoch starts lastSeq from zero.
TakeAttached(f) ==
    LET kept == IF f.epoch # clientEpoch THEN 0 ELSE lastSeq
    IN /\ clientEpoch' = f.epoch
       /\ shown' = Replayed(f)
       /\ lastSeq' = IF f.to > kept THEN f.to ELSE kept

\* A live frame.
TakeItem(n) ==
    /\ UNCHANGED clientEpoch
    /\ lastSeq' = IF Fresh(n) THEN n ELSE lastSeq
    /\ shown' = IF Fresh(n) THEN Append(shown, <<epoch, n>>) ELSE shown

Deliver ==
    /\ wire # <<>>
    /\ wire' = Tail(wire)
    /\ \/ Head(wire).kind = "attached" /\ TakeAttached(Head(wire))
       \/ Head(wire).kind = "item" /\ TakeItem(Head(wire).seq)
    /\ UNCHANGED <<link, request, subscribed, session, losses>>

-----------------------------------------------------------------------------
(* What goes wrong.                                                         *)

\* The socket is gone, with everything on it, and the server notices.
Disconnected ==
    /\ link' = "down"
    /\ request' = <<>>
    /\ subscribed' = FALSE
    /\ wire' = <<>>

\* The close frame of a backpressure close comes after the data before it.
Closed ==
    /\ link = "closing"
    /\ wire = <<>>
    /\ Disconnected
    /\ UNCHANGED <<session, client, losses>>

Lose ==
    /\ losses < MaxLosses
    /\ losses' = losses + 1
    /\ link # "down"
    /\ Disconnected
    /\ UNCHANGED <<session, client>>

\* The page is reloaded: a new TerminalConnection that remembers nothing.
Reload ==
    /\ losses < MaxLosses
    /\ losses' = losses + 1
    /\ Disconnected
    /\ clientEpoch' = 0
    /\ lastSeq' = 0
    /\ shown' = <<>>
    /\ UNCHANGED session

\* The server restarts and re-adopts the terminal before it listens again:
\* a new PtySession, so a new epoch and an empty buffer.
RestartRecovered ==
    /\ transport = "terminal"
    /\ alive
    /\ epoch < MaxEpoch
    /\ epoch' = epoch + 1
    /\ first' = 1
    /\ last' = 0
    /\ Disconnected
    /\ UNCHANGED <<transport, alive, client, losses>>

\* The server restarts and does not know the session any more.
RestartEnded ==
    /\ alive
    /\ alive' = FALSE
    /\ Disconnected
    /\ UNCHANGED <<transport, epoch, first, last, client, losses>>

Next ==
    \/ Emit \/ EmitAndDeliver \/ HandleAttach
    \/ Connect \/ Deliver
    \/ Closed \/ Lose \/ Reload \/ RestartRecovered \/ RestartEnded

Spec == Init /\ [][Next]_vars

\* The client reconnects for as long as it takes, the server's event loop
\* turns, and frames of a socket that stays up arrive.
Fairness ==
    /\ WF_vars(Connect)
    /\ WF_vars(HandleAttach)
    /\ WF_vars(Deliver)
    /\ WF_vars(Closed)

FairSpec == Spec /\ Fairness

-----------------------------------------------------------------------------
(* Properties.                                                              *)

\* The screen never mixes two epochs and never shows an item twice or out of
\* order, and lastSeq is at or past all of it: attachTo, handleMessage.
InOrder ==
    /\ \A i \in DOMAIN shown : shown[i][1] = clientEpoch /\ shown[i][2] <= lastSeq
    /\ \A i, j \in DOMAIN shown : i < j => shown[i][2] < shown[j][2]

Terminal(x, otherwise) == IF transport = "terminal" THEN x ELSE otherwise

\* A terminal's screen is an unbroken piece of one stream and is replaced only
\* when it has to be, whatever is lost, evicted, closed for backpressure or
\* restarted on the way: the promise of LiveView.
View == INSTANCE LiveView WITH
    epoch <- Terminal(epoch, 1),
    last <- Terminal(last, 0),
    oldest <- Terminal(first, 1),
    seen <- Terminal(clientEpoch, 0),
    view <- Terminal([i \in DOMAIN shown |-> shown[i][2]], <<>>)

Promise == View!Spec

\* Everything the session emits is, in the end, at or before the last thing the
\* page shows, unless the session ends or starts over first.
ReachesScreen ==
    \A e \in 1..MaxEpoch, n \in 1..MaxSeq :
        (alive /\ epoch = e /\ last >= n)
            ~> (~alive \/ epoch # e
                \/ (shown # <<>> /\ Last(shown)[1] = e /\ Last(shown)[2] >= n))

\* web api/ws-client.ts:167: "every output frame the client renders advances
\* it, and every attach sends it back as afterSeq, so the server replays
\* exactly the gap": what a page shows has no hole and ends at lastSeq.
NothingSkipped ==
    \A i \in DOMAIN shown : shown[i][2] = lastSeq - Len(shown) + i

\* web api/ws-client.ts:105: a replay that is not truncated continues what is
\* there ("truncated means older events were evicted, so the caller should
\* reset its transcript before applying").  Only a truncated replay or a
\* reload may take something off the page.
KeptUnlessTruncated ==
    [][\/ IsPrefix(shown, shown')
       \/ wire # <<>> /\ Head(wire).kind = "attached" /\ Head(wire).truncated
       \/ clientEpoch' = 0]_vars
=============================================================================
