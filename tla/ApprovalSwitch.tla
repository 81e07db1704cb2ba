--------------------------- MODULE ApprovalSwitch ---------------------------
(***************************************************************************)
(* The operator's switch that skips approvals, and the approvals parked in *)
(* the structured sessions it reaches: SessionManager.                     *)
(* setGlobalSkipPermissions and what applyGlobalSkipPermissions,           *)
(* requestPermission and resolvePermission do in structured-session.ts,    *)
(* codex-session.ts and opencode-session.ts.                               *)
(*                                                                         *)
(* A Claude session has its mode in the agent, and is told of the switch   *)
(* by a call it answers later, in order; a Codex or OpenCode session has   *)
(* it in a flag of the server's, which answers for the person.             *)
(***************************************************************************)
EXTENDS Naturals, Sequences

CONSTANTS Claude,         \* sessions whose agent keeps the mode
          Served,         \* sessions of a shared server: codex, opencode
          ApprovalScenarios

ASSUME KindsApart == Claude \cap Served = {}

VARIABLES
    skipping,   \* globalSkipPermissions, persisted as it is set
    live,       \* [there, own, bypass, asks]: own opt-in, _globalBypass, agent's mode
    pending,    \* the approvals waiting for a person, [id, question]
    modeCalls,  \* setPermissionMode calls the agent has not answered, oldest first
    unheeded,   \* sessions whose agent refused the last such call
    asked,      \* how many approvals each session asked for
    allowedBy,  \* history: on whose word approvals were allowed
    peopleLeft  \* what is left of the scenario's budget

approvalVars == <<skipping, live, pending, modeCalls, unheeded, asked, allowedBy, peopleLeft>>

----------------------------------------------------------------------------
Sessions == Claude \cup Served
Does(what) == /\ peopleLeft[what] > 0
              /\ peopleLeft' = [peopleLeft EXCEPT ![what] = @ - 1]

NoSession == [there |-> FALSE, own |-> FALSE, bypass |-> FALSE, asks |-> FALSE]
Plain(set) == {p \in set : ~p.question}

(* On whose word an approval is allowed that no person answered.           *)
Word(s, calls) == IF live[s].own THEN "own"
                  ELSE IF skipping THEN "switch"
                  ELSE IF Len(calls) > 1 THEN "overtaken" ELSE "nobody"

ApprovalInit ==
    /\ skipping = FALSE
    /\ live = [s \in Sessions |-> NoSession]
    /\ pending = [s \in Sessions |-> {}]
    /\ modeCalls = [s \in Sessions |-> <<>>]
    /\ unheeded = {}
    /\ asked = [s \in Sessions |-> 0]
    /\ allowedBy = [s \in Sessions |-> {}]
    /\ peopleLeft \in ApprovalScenarios

----------------------------------------------------------------------------
(* create: the switch counts as an opt-in of the sessions made under it,   *)
(* in the step that puts them among the live ones.                         *)
OpenSession(s) ==
    /\ ~live[s].there
    /\ Does("creates")
    /\ \E opted \in BOOLEAN :
         LET own == opted \/ skipping IN
         live' = [live EXCEPT ![s] =
            [there |-> TRUE, own |-> own, bypass |-> FALSE, asks |-> s \in Served \/ ~own]]
    /\ UNCHANGED <<skipping, pending, modeCalls, unheeded, asked, allowedBy>>

(* Mutant: a session of a server drains whichever way the switch went.     *)
DrainedEither(on) == [s \in Sessions |-> IF s \in Served /\ live[s].there THEN {} ELSE pending[s]]

(* What is still parked when the sessions of a server have been told.      *)
Drained(on) == [s \in Sessions |-> IF s \in Served /\ live[s].there /\ on THEN {} ELSE pending[s]]

(* setGlobalSkipPermissions: persisted, then every live session is told.   *)
SetSwitch(on) ==
    /\ Does("flips")
    /\ skipping' = on
    /\ live' = [s \in Sessions |-> IF live[s].there
                                  THEN [live[s] EXCEPT !.bypass = on] ELSE live[s]]
    /\ pending' = Drained(on)
    /\ modeCalls' = [s \in Sessions |-> IF s \in Claude /\ live[s].there
                                    THEN Append(modeCalls[s], on) ELSE modeCalls[s]]
    /\ allowedBy' = [s \in Sessions |-> IF pending'[s] = pending[s] THEN allowedBy[s]
                                    ELSE allowedBy[s] \cup {IF on THEN "switch" ELSE "nobody"}]
    /\ UNCHANGED <<unheeded, asked>>

(* The agent has taken the mode on: what is parked is allowed if the call  *)
(* was to skip, except a question, which only a person can answer.         *)
ModeSet(s) ==
    /\ modeCalls[s] # <<>>
    /\ LET on == Head(modeCalls[s])
           drains == on /\ Plain(pending[s]) # {} IN
       /\ live' = [live EXCEPT ![s].asks = ~(on \/ live[s].own)]
       /\ pending' = [pending EXCEPT ![s] = IF on THEN @ \ Plain(@) ELSE @]
       /\ allowedBy' = [allowedBy EXCEPT ![s] =
                            IF drains THEN @ \cup {Word(s, modeCalls[s])} ELSE @]
    /\ modeCalls' = [modeCalls EXCEPT ![s] = Tail(@)]
    /\ unheeded' = unheeded \ {s}
    /\ UNCHANGED <<skipping, asked, peopleLeft>>

(* The agent refuses the mode: a notice says so, nothing is drained.       *)
ModeRefused(s) ==
    /\ modeCalls[s] # <<>>
    /\ Does("refusals")
    /\ modeCalls' = [modeCalls EXCEPT ![s] = Tail(@)]
    /\ unheeded' = unheeded \cup {s}
    /\ UNCHANGED <<skipping, live, pending, asked, allowedBy>>

----------------------------------------------------------------------------
(* The agent asks for consent.                                             *)

(* requestPermission: parked until a person answers, without a timeout.    *)
ClaudeAsks(s) ==
    /\ s \in Claude /\ live[s].there /\ live[s].asks
    /\ Does("asks")
    /\ asked' = [asked EXCEPT ![s] = @ + 1]
    /\ \E question \in BOOLEAN :
         pending' = [pending EXCEPT ![s] = @ \cup {[id |-> asked'[s], question |-> question]}]
    /\ UNCHANGED <<skipping, live, modeCalls, unheeded, allowedBy>>

(* handlePermissionRequest: the server answers for the person, or parks.   *)
ServedAsks(s) ==
    /\ s \in Served /\ live[s].there
    /\ Does("asks")
    /\ asked' = [asked EXCEPT ![s] = @ + 1]
    /\ IF live[s].own \/ live[s].bypass
       THEN /\ allowedBy' = [allowedBy EXCEPT ![s] = @ \cup {Word(s, <<>>)}]
            /\ UNCHANGED pending
       ELSE /\ pending' = [pending EXCEPT ![s] = @ \cup {[id |-> asked'[s], question |-> FALSE]}]
            /\ UNCHANGED allowedBy
    /\ UNCHANGED <<skipping, live, modeCalls, unheeded>>

(* resolvePermission, by one of the people at the session; an approval     *)
(* that is no longer parked is theirs no more.                             *)
Answered(s) ==
    /\ \E p \in pending[s], allow \in BOOLEAN :
         /\ pending' = [pending EXCEPT ![s] = @ \ {p}]
         /\ allowedBy' = [allowedBy EXCEPT ![s] = IF allow THEN @ \cup {"person"} ELSE @]
    /\ UNCHANGED <<skipping, live, modeCalls, unheeded, asked, peopleLeft>>

(* The agent withdraws what it asked for, as an interrupt makes it do.     *)
Withdrawn(s) ==
    /\ s \in Claude
    /\ \E p \in pending[s] : pending' = [pending EXCEPT ![s] = @ \ {p}]
    /\ UNCHANGED <<skipping, live, modeCalls, unheeded, asked, allowedBy, peopleLeft>>

(* The session ends: what is parked is denied, or dropped with its server. *)
SessionOver(s) ==
    /\ live[s].there
    /\ Does("endings")
    /\ live' = [live EXCEPT ![s] = NoSession]
    /\ pending' = [pending EXCEPT ![s] = {}]
    /\ modeCalls' = [modeCalls EXCEPT ![s] = <<>>]
    /\ unheeded' = unheeded \ {s}
    /\ UNCHANGED <<skipping, asked, allowedBy>>

SessionStep(s) == \/ OpenSession(s) \/ SessionOver(s) \/ ModeSet(s) \/ ModeRefused(s)
                  \/ ClaudeAsks(s) \/ ServedAsks(s) \/ Answered(s) \/ Withdrawn(s)

ApprovalNext == \/ \E s \in Sessions : SessionStep(s)
                \/ \E on \in BOOLEAN : SetSwitch(on)

ApprovalSpec == ApprovalInit /\ [][ApprovalNext]_approvalVars

----------------------------------------------------------------------------
(* Properties.                                                             *)

ApprovalTypeOK ==
    /\ skipping \in BOOLEAN
    /\ live \in [Sessions -> [there : BOOLEAN, own : BOOLEAN, bypass : BOOLEAN, asks : BOOLEAN]]
    /\ \A s \in Sessions : \A p \in pending[s] : p.id \in 1 .. asked[s] /\ live[s].there
    /\ \A s \in Served : modeCalls[s] = <<>>
    /\ unheeded \subseteq Claude

(* An approval is allowed on somebody's word ("an unanswered approval must *)
(* never silently become an allow"): a person's, the session's own opt-in, *)
(* or the switch's.  The exception is the code's: an approval parked while *)
(* turning the switch on still awaits the agent is allowed even if the     *)
(* switch has been turned off since.                                       *)
NoneAllowedUnasked == \A s \in Sessions : "nobody" \notin allowedBy[s]

(* Once every session has answered, the switch is as good as its word.  On *)
(* it leaves nothing waiting but questions; off, the agents of sessions    *)
(* that did not opt in ask again.  Not so where the agent refused the mode. *)
SwitchSettled ==
    \A s \in Sessions :
        live[s].there /\ modeCalls[s] = <<>> /\ s \notin unheeded =>
            /\ skipping => Plain(pending[s]) = {}
            /\ ~skipping /\ ~live[s].own => live[s].asks /\ ~live[s].bypass

(* The switch is obeyed, in both directions, and by nobody in its name.    *)
SwitchObeyed == NoneAllowedUnasked /\ SwitchSettled
=============================================================================
