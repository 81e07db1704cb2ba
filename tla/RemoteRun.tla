----------------------------- MODULE RemoteRun -----------------------------
(***************************************************************************)
(* Deliveries that run on another host: startRemoteRun and the sweep of    *)
(* apps/server/src/webhooks/index.ts, the dispatch and the wait loop of    *)
(* runs/remote.ts, and the answers wait gives on the target                *)
(* (mcp-server/work.ts).  Everything between the two is a call that may be *)
(* lost: the request, or its answer after the target acted on it.          *)
(*                                                                         *)
(* All deliveries are about one subject, so that a later one is the next   *)
(* turn of the conversation an earlier one started.                        *)
(***************************************************************************)
EXTENDS Naturals, Sequences, FiniteSets

CONSTANTS Deliveries,
          Refs,             \* sessions the target may start
          None,             \* no ref
          MaxRejections,    \* consecutive 401s before a run is given up
          RemoteScenarios   \* how much of each kind of trouble may happen

Person == "person"      \* whoever else types into a session of the target

(* Ids are told from what is not one.                                      *)
ASSUME RemoteAssumption ==
    /\ None \notin Refs
    /\ Refs \cap {"none", "gone", "cap", "refused"} = {}
    /\ Person \notin Deliveries

VARIABLES
    delivery,   \* the rows: [status, ref, error]
    known,      \* the conversation on record for the subject, a ref or None
    request,    \* the dispatch of each delivery: [to, state, answer]
    loop,       \* the wait loops: "off", "idle" (asleep) or "asking"
    reply,      \* what the target has made of the wait in flight
    rejections, \* consecutive 401s
    host,       \* "up", "stopping", "down": this server
    routing,    \* webhook routing is set up here
    session,    \* the target's sessions: [state, busy, failed, agenda, queued]
    outcome,    \* what became of each delivery's turn on the target
    troubles,   \* what is left of the scenario's budget
    crowded     \* history: sessions prompted while an earlier turn was open

remoteVars == <<delivery, known, request, loop, reply, rejections, host, routing,
                session, outcome, troubles, crowded>>
targetVars == <<session, outcome, crowded>>

----------------------------------------------------------------------------
Open(d)    == delivery[d].status \in {"starting", "running"}
Settled(d) == delivery[d].status \in {"succeeded", "failed", "throttled"}
Live(r)    == session[r].state \in {"live", "parked"}
Unused     == {r \in Refs : session[r].state = "none"}
NoRequest  == [to |-> None, state |-> "none", answer |-> "none"]
(* deliveries mid-dispatch: the set the sweep consults *)
Dispatching(d) == request[d].state \in {"sent", "taken"}

Suffer(what) == /\ troubles[what] > 0
                /\ troubles' = [troubles EXCEPT ![what] = @ - 1]

(* settleDelivery: whatever the row said, it now says this.                *)
SettledAs(d, status, error) ==
    [delivery EXCEPT ![d].status = status, ![d].error = error]
EndLoop(d) == /\ loop' = [loop EXCEPT ![d] = "off"]
              /\ reply' = [reply EXCEPT ![d] = "none"]
              /\ rejections' = [rejections EXCEPT ![d] = 0]

RemoteInit ==
    /\ delivery = [d \in Deliveries |-> [status |-> "none", ref |-> None, error |-> "none"]]
    /\ known = None
    /\ request = [d \in Deliveries |-> NoRequest]
    /\ loop = [d \in Deliveries |-> "off"]
    /\ reply = [d \in Deliveries |-> "none"]
    /\ rejections = [d \in Deliveries |-> 0]
    /\ host = "up" /\ routing = TRUE
    /\ session = [r \in Refs |-> [state |-> "none", busy |-> FALSE, failed |-> FALSE,
                                  agenda |-> <<>>, queued |-> FALSE]]
    /\ outcome = [d \in Deliveries |-> "none"]
    /\ troubles \in RemoteScenarios
    /\ crowded = {}

----------------------------------------------------------------------------
(* The dispatch.                                                           *)

(* startRemoteRun: refused here while routing is off; else the next turn   *)
(* of the known conversation, or a fresh run.                              *)
Deliver(d) ==
    /\ host = "up" /\ delivery[d].status = "none"
    /\ IF routing
       THEN /\ delivery' = [delivery EXCEPT ![d].status = "starting"]
            /\ request' = [request EXCEPT ![d] = [to |-> known, state |-> "sent", answer |-> "none"]]
       ELSE /\ delivery' = SettledAs(d, "failed", "not_configured")
            /\ UNCHANGED request
    /\ UNCHANGED <<known, loop, reply, rejections, host, routing, troubles, targetVars>>

(* A prompt reaches a session of the target: at work at once, or parked    *)
(* in that host's prompt queue while its tree is busy.                     *)
Prompted(r, who) ==
    /\ \E wait \in BOOLEAN :
         session' = [session EXCEPT ![r] =
             [state |-> IF Live(r) THEN @.state ELSE "live", busy |-> @.busy \/ ~wait, failed |-> @.failed,
              agenda |-> Append(@.agenda, who), queued |-> wait]]
    /\ crowded' = IF \/ session[r].agenda # <<>>
                     \/ \E d \in Deliveries : Open(d) /\ r \in {delivery[d].ref, request[d].answer}
                  THEN crowded \cup {r} ELSE crowded

Answer(d, answer) ==
    request' = [request EXCEPT ![d].state = IF @ = "abandoned" THEN "over" ELSE "taken",
                               ![d].answer = answer]

(* The target takes the dispatch, even one its sender gave up on: into the *)
(* live session, into a new one that resumes an ended one, or afresh.      *)
TargetAccepts(d) ==
    /\ request[d].state \in {"sent", "abandoned"}
    /\ LET to == request[d].to IN
       /\ to # None => session[to].state # "gone"
       /\ \E r \in IF to # None /\ Live(to) THEN {to} ELSE Unused :
            /\ ~session[r].queued
            /\ Prompted(r, d)
            /\ Answer(d, r)
    /\ outcome' = [outcome EXCEPT ![d] = "working"]
    /\ UNCHANGED <<delivery, known, loop, reply, rejections, host, routing, troubles>>

(* It refuses: at a cap, for a session it no longer has, for good.         *)
TargetRefuses(d) ==
    /\ request[d].state \in {"sent", "abandoned"}
    /\ LET to == request[d].to IN
       IF to # None /\ session[to].state = "gone"
       THEN Answer(d, "gone") /\ UNCHANGED troubles
       ELSE \E answer \in {"cap", "refused"} : Suffer("refusals") /\ Answer(d, answer)
    /\ UNCHANGED <<delivery, known, loop, reply, rejections, host, routing, targetVars>>

(* The answer arrives.  A started run is on record before its loop begins; *)
(* a conversation that is gone is forgotten and the run started afresh.    *)
DispatchAnswered(d) ==
    /\ host # "down" /\ request[d].state = "taken"
    /\ LET answer == request[d].answer IN
       \/ /\ answer \in Refs
          /\ delivery' = [delivery EXCEPT ![d].status = "running", ![d].ref = answer]
          /\ known' = answer
          /\ loop' = [loop EXCEPT ![d] = IF host = "up" THEN "idle" ELSE "off"]
          /\ request' = [request EXCEPT ![d] = NoRequest]
       \/ /\ answer = "gone"
          /\ known' = None
          /\ request' = [request EXCEPT ![d] = [to |-> None, state |-> "sent", answer |-> "none"]]
          /\ UNCHANGED <<delivery, loop>>
       \/ /\ answer \in {"cap", "refused"}
          /\ delivery' = SettledAs(d, IF answer = "cap" THEN "throttled" ELSE "failed", answer)
          /\ request' = [request EXCEPT ![d] = NoRequest]
          /\ UNCHANGED <<known, loop>>
    /\ UNCHANGED <<reply, rejections, host, routing, troubles, targetVars>>

(* The call fails in transit or times out, before or after the target took *)
(* it: a failure either way, and nobody watches what the target may do.    *)
DispatchLost(d) ==
    /\ host # "down" /\ Dispatching(d)
    /\ Suffer("losses")
    /\ delivery' = SettledAs(d, "failed", "lost")
    /\ request' = [request EXCEPT ![d].state = IF @ = "sent" THEN "abandoned" ELSE "over"]
    /\ UNCHANGED <<known, loop, reply, rejections, host, routing, targetVars>>

----------------------------------------------------------------------------
(* The wait loop.                                                          *)

(* Mutant: a prompt in the target's queue is no reason to wait.            *)
AtOnceIgnoringQueue(r) ==
    CASE session[r].state = "gone"  -> "gone"
      [] session[r].state = "ended" -> "ended"
      [] session[r].state = "parked" -> "awaiting"
      [] session[r].state = "live" /\ session[r].busy -> "held"
      [] OTHER -> IF session[r].failed THEN "error" ELSE "complete"

(* What waitForTurn says at once; "held" when it listens for an event.     *)
AtOnce(r) ==
    CASE session[r].state = "gone"  -> "gone"
      [] session[r].state = "ended" -> "ended"
      [] session[r].state = "parked" -> "awaiting"
      [] session[r].state = "live" /\ (session[r].queued \/ session[r].busy) -> "held"
      [] OTHER -> IF session[r].failed THEN "error" ELSE "complete"

Ask(d) ==
    /\ host = "up" /\ loop[d] = "idle"
    /\ IF routing
       THEN /\ loop' = [loop EXCEPT ![d] = "asking"]
            /\ reply' = [reply EXCEPT ![d] = AtOnce(delivery[d].ref)]
            /\ UNCHANGED <<delivery, rejections>>
       ELSE delivery' = SettledAs(d, "failed", "not_configured") /\ EndLoop(d)
    /\ UNCHANGED <<known, request, host, routing, troubles, targetVars>>

(* The second is over: still running, or still in the target's queue.      *)
HeldTimesOut(d) ==
    /\ loop[d] = "asking" /\ reply[d] = "held"
    /\ reply' = [reply EXCEPT ![d] = "still_running"]
    /\ UNCHANGED <<delivery, known, request, loop, rejections, host, routing, troubles, targetVars>>

(* The answer arrives: only what the target says of the turn settles it.   *)
Heard(d) ==
    /\ loop[d] = "asking" /\ reply[d] \notin {"none", "held"}
    /\ \/ /\ reply[d] \in {"still_running", "awaiting"}
          /\ loop' = [loop EXCEPT ![d] = "idle"]
          /\ reply' = [reply EXCEPT ![d] = "none"]
          /\ rejections' = [rejections EXCEPT ![d] = 0]
          /\ UNCHANGED delivery
       \/ /\ reply[d] \in {"complete", "error", "ended", "gone"}
          /\ delivery' = IF reply[d] = "complete" THEN SettledAs(d, "succeeded", "none")
                                                  ELSE SettledAs(d, "failed", reply[d])
          /\ EndLoop(d)
    /\ UNCHANGED <<known, request, host, routing, troubles, targetVars>>

(* Unreachable: ask again later.                                           *)
AskLost(d) ==
    /\ loop[d] = "asking"
    /\ Suffer("losses")
    /\ loop' = [loop EXCEPT ![d] = "idle"]
    /\ reply' = [reply EXCEPT ![d] = "none"]
    /\ rejections' = [rejections EXCEPT ![d] = 0]
    /\ UNCHANGED <<delivery, known, request, host, routing, targetVars>>

(* The Hub rejects the token; MaxRejections times in a row end the run.    *)
AskRejected(d) ==
    /\ loop[d] = "asking"
    /\ Suffer("rejections")
    /\ IF rejections[d] + 1 >= MaxRejections
       THEN delivery' = SettledAs(d, "failed", "rejected") /\ EndLoop(d)
       ELSE /\ rejections' = [rejections EXCEPT ![d] = @ + 1]
            /\ loop' = [loop EXCEPT ![d] = "idle"]
            /\ reply' = [reply EXCEPT ![d] = "none"]
            /\ UNCHANGED delivery
    /\ UNCHANGED <<known, request, host, routing, targetVars>>

----------------------------------------------------------------------------
(* The target.                                                             *)

(* Waits in flight on r hear of an event there.                            *)
Hear(r, answer) ==
    reply' = [d \in Deliveries |-> IF reply[d] = "held" /\ delivery[d].ref = r
                                   THEN answer ELSE reply[d]]
HereUnchanged == UNCHANGED <<delivery, known, request, loop, rejections, host, routing>>

(* The tree is free and the queued prompt goes in.                         *)
QueuedPromptStarts(r) ==
    /\ Live(r) /\ session[r].queued
    /\ session' = [session EXCEPT ![r].queued = FALSE, ![r].busy = TRUE]
    /\ HereUnchanged /\ UNCHANGED <<reply, outcome, troubles, crowded>>

Parks(r) ==
    /\ session[r].state = "live" /\ session[r].busy
    /\ Suffer("approvals")
    /\ session' = [session EXCEPT ![r].state = "parked"]
    /\ Hear(r, "awaiting")
    /\ HereUnchanged /\ UNCHANGED <<outcome, crowded>>

Approved(r) ==
    /\ session[r].state = "parked"
    /\ session' = [session EXCEPT ![r].state = "live"]
    /\ HereUnchanged /\ UNCHANGED <<reply, outcome, troubles, crowded>>

(* A turn ends: the session is no longer mid-turn, even with another       *)
(* prompt already with the agent.  A wait hears it, unless a prompt of the *)
(* session still waits in the target's queue.                              *)
TurnEnds(r) ==
    /\ session[r].state = "live" /\ session[r].agenda # <<>>
    /\ session[r].queued => Len(session[r].agenda) > 1
    /\ \E failed \in IF troubles.errors > 0 THEN BOOLEAN ELSE {FALSE} :
         /\ troubles' = [troubles EXCEPT !.errors = @ - (IF failed THEN 1 ELSE 0)]
         /\ session' = [session EXCEPT ![r].busy = FALSE, ![r].failed = failed,
                                       ![r].agenda = Tail(@)]
         /\ outcome' = [d \in Deliveries |-> IF d # Head(session[r].agenda) THEN outcome[d]
                                             ELSE IF failed THEN "error" ELSE "done"]
         /\ IF session[r].queued THEN UNCHANGED reply
            ELSE Hear(r, IF failed THEN "error" ELSE "complete")
    /\ HereUnchanged /\ UNCHANGED crowded

(* The session ends, or a person of that host removes it.                  *)
SessionEnds(r) ==
    /\ Live(r)
    /\ Suffer("endings")
    /\ \E state \in {"ended", "gone"} :
         session' = [session EXCEPT ![r].state = state, ![r].busy = FALSE,
                                    ![r].queued = FALSE, ![r].agenda = <<>>]
    /\ outcome' = [d \in Deliveries |->
                     IF \E i \in DOMAIN session[r].agenda : session[r].agenda[i] = d
                     THEN "cut" ELSE outcome[d]]
    /\ Hear(r, "ended")
    /\ HereUnchanged /\ UNCHANGED crowded

PersonPrompts(r) ==
    /\ Live(r) /\ ~session[r].queued
    /\ Suffer("people")
    /\ Prompted(r, Person)
    /\ HereUnchanged /\ UNCHANGED <<reply, outcome>>

----------------------------------------------------------------------------
(* Routing, stop and restart here.                                         *)

RoutingChanges ==
    /\ Suffer("routing")
    /\ routing' = ~routing
    /\ UNCHANGED <<delivery, known, request, loop, reply, rejections, host, targetVars>>

(* Mutants: the sweep does not ask who is dispatching; it, and the boot,   *)
(* take up only what had not begun to run.                                 *)
OrphanDispatching(d) == Open(d) /\ delivery[d].ref = None
UnwatchedStarting(d) == delivery[d].status = "starting" /\ delivery[d].ref # None /\ loop[d] = "off"

(* resumeRemoteRun, over every open row.                                   *)
Orphan(d)    == Open(d) /\ delivery[d].ref = None /\ ~Dispatching(d)
Unwatched(d) == Open(d) /\ delivery[d].ref # None /\ loop[d] = "off"

Resume ==
    /\ delivery' = [d \in Deliveries |->
           IF Orphan(d) THEN [delivery[d] EXCEPT !.status = "failed", !.error = "incomplete"]
                        ELSE delivery[d]]
    /\ loop' = [d \in Deliveries |-> IF Unwatched(d) THEN "idle" ELSE loop[d]]

(* The sweep finds nothing to take up as long as every open row is in the  *)
(* charge of its dispatch or its loop.                                     *)
Sweep ==
    /\ host = "up"
    /\ Resume
    /\ UNCHANGED <<known, request, reply, rejections, host, routing, troubles, targetVars>>

(* Mutant: the loops are not aborted.                                      *)
StopLeavingLoops ==
    /\ host = "up"
    /\ Suffer("restarts")
    /\ host' = "stopping"
    /\ UNCHANGED <<delivery, known, request, loop, reply, rejections, routing, targetVars>>

(* stopAll: every loop is dropped and nothing is settled.                  *)
Stop ==
    /\ host = "up"
    /\ Suffer("restarts")
    /\ host' = "stopping"
    /\ loop' = [d \in Deliveries |-> "off"]
    /\ reply' = [d \in Deliveries |-> "none"]
    /\ rejections' = [d \in Deliveries |-> 0]
    /\ UNCHANGED <<delivery, known, request, routing, targetVars>>

GoesDown ==
    /\ host' = "down"
    /\ loop' = [d \in Deliveries |-> "off"]
    /\ reply' = [d \in Deliveries |-> "none"]
    /\ rejections' = [d \in Deliveries |-> 0]
    /\ request' = [d \in Deliveries |->
           IF request[d].state = "sent" THEN [request[d] EXCEPT !.state = "abandoned"]
           ELSE IF request[d].state = "taken" THEN [request[d] EXCEPT !.state = "over"]
           ELSE request[d]]
    /\ UNCHANGED <<delivery, known, routing, targetVars>>

Exits   == host = "stopping" /\ GoesDown /\ UNCHANGED troubles
Crashes == host = "up" /\ Suffer("restarts") /\ GoesDown

(* init: a row still mid-dispatch died with the old server; one with a ref *)
(* is waited for again.                                                    *)
Boot ==
    /\ host = "down"
    /\ host' = "up"
    /\ delivery' = [d \in Deliveries |->
           IF Open(d) /\ delivery[d].ref = None
           THEN [delivery[d] EXCEPT !.status = "failed", !.error = "restart"]
           ELSE delivery[d]]
    /\ loop' = [d \in Deliveries |-> IF Unwatched(d) THEN "idle" ELSE loop[d]]
    /\ UNCHANGED <<known, request, reply, rejections, routing, troubles, targetVars>>

DispatchStep(d) == Deliver(d) \/ DispatchAnswered(d) \/ DispatchLost(d)
TakeStep(d)     == TargetAccepts(d) \/ TargetRefuses(d)
WaitStep(d)     == Ask(d) \/ HeldTimesOut(d) \/ Heard(d)
TargetStep(r)   == QueuedPromptStarts(r) \/ Approved(r) \/ TurnEnds(r)

RemoteNext ==
    \/ \E d \in Deliveries : \/ DispatchStep(d) \/ TakeStep(d) \/ WaitStep(d)
                             \/ AskLost(d) \/ AskRejected(d)
    \/ \E r \in Refs : TargetStep(r) \/ Parks(r) \/ SessionEnds(r) \/ PersonPrompts(r)
    \/ RoutingChanges \/ Sweep \/ Stop \/ Exits \/ Crashes \/ Boot

(* Calls are answered, or lost only so often; turns end and approvals are  *)
(* answered on the target; the sweep runs; a server that stops is started. *)
RemoteFairness ==
    /\ \A d \in Deliveries :
         /\ WF_remoteVars(TakeStep(d)) /\ WF_remoteVars(DispatchAnswered(d))
         /\ WF_remoteVars(Ask(d)) /\ WF_remoteVars(HeldTimesOut(d)) /\ WF_remoteVars(Heard(d))
    /\ \A r \in Refs : WF_remoteVars(TargetStep(r))
    /\ WF_remoteVars(Sweep) /\ WF_remoteVars(Exits) /\ WF_remoteVars(Boot)

RemoteSpec == RemoteInit /\ [][RemoteNext]_remoteVars /\ RemoteFairness

----------------------------------------------------------------------------
(* Properties.                                                             *)

RemoteTypeOK ==
    /\ \A d \in Deliveries :
         /\ delivery[d].status \in {"none", "starting", "running", "succeeded", "failed", "throttled"}
         /\ delivery[d].ref \in Refs \cup {None}
         /\ request[d].state \in {"none", "sent", "taken", "abandoned", "over"}
         /\ loop[d] \in {"off", "idle", "asking"}
         /\ (reply[d] = "none") = (loop[d] # "asking")
         /\ rejections[d] \in 0 .. MaxRejections - 1
         /\ loop[d] # "off" => host = "up" /\ delivery[d].status = "running"
    /\ known \in Refs \cup {None}
    /\ host \in {"up", "stopping", "down"} /\ routing \in BOOLEAN

(* A delivery is settled by what became of its own turn: it succeeded only *)
(* if the turn did, it is told failed by the target only if the turn       *)
(* failed or its session ended, and one that was refused left no turn      *)
(* behind.  Losing the Hub never fails a run that is under way, a restart  *)
(* neither.  The exception is a session prompted again before its earlier  *)
(* turn was settled: wait reports whichever turn ends.                     *)
RemoteTruth ==
    \A d \in Deliveries :
        LET row == delivery[d] IN
        /\ row.ref # None /\ row.ref \notin crowded =>
             /\ row.status = "succeeded" => outcome[d] = "done"
             /\ row.error = "error" => outcome[d] = "error"
             /\ row.error \in {"ended", "gone"} => session[row.ref].state \in {"ended", "gone"}
        /\ row.error \in {"cap", "refused", "incomplete"} => outcome[d] = "none"
        /\ row.status = "failed" /\ row.ref # None =>
             row.error \in {"error", "ended", "gone", "not_configured", "rejected"}

(* A delivery is settled once, and its row never moves again: no late      *)
(* answer, sweep or boot reopens or rewrites it.                           *)
RemoteSettledOnce ==
    [][\A d \in Deliveries : Settled(d) => delivery'[d] = delivery[d]]_remoteVars

(* Every delivery that was started is settled in the end, through lost     *)
(* calls, approvals left hanging, a stop or a crash here.                  *)
RemoteSettles == \A d \in Deliveries : Open(d) ~> Settled(d)
=============================================================================
