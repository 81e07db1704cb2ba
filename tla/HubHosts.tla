------------------------------ MODULE HubHosts ------------------------------
(***************************************************************************)
(* The hosts a Hub watches: the health loops of apps/hub/src/registry/     *)
(* health.ts, the push streams of push/relay.ts, and the routes of         *)
(* routes/hosts.ts that change the registry and then reconcile both.       *)
(*                                                                         *)
(* A loop is a timer or a probe under way, and the poller remembers one    *)
(* timer a host: a loop it lost sight of goes on by itself.  Credentials   *)
(* are numbered in the order they were minted.                             *)
(***************************************************************************)
EXTENDS Naturals, FiniteSets

CONSTANTS Hosts,
          HubScenarios      \* how often people and faults may act

VARIABLES
    registry,   \* its rows: [there, enabled, cred], cred 0 while unbound
    minted,     \* how many credentials were minted
    revoked,    \* those their backends no longer accept
    slot,       \* the poller's timers: "none", "mark" (of a tick under way), "timer"
    strays,     \* timers that will fire and are not in a slot
    probes,     \* probes under way
    relay,      \* the push streams: [using, open, waiting, status, answered]
    due,        \* requests between the poller's reconcile and the relay's
    binding,    \* requests between registry.bind and the poller's reconcile
    crossed,    \* history: how often a host left the poller with its probe out
    passedOver, \* history: hosts rebound while connecting with an older credential
    hubLeft     \* what is left of the scenario's budget

hubVars == <<registry, minted, revoked, slot, strays, probes, relay, due, binding,
             crossed, passedOver, hubLeft>>
pollerVars == <<slot, strays, probes, crossed>>
relayVars  == <<relay, passedOver>>

----------------------------------------------------------------------------
HubPay(what) == /\ hubLeft[what] > 0
                /\ hubLeft' = [hubLeft EXCEPT ![what] = @ - 1]

Enabled(rows, h) == rows[h].there /\ rows[h].enabled
Absent  == [there |-> FALSE, enabled |-> FALSE, cred |-> 0]
Idle(s) == [using |-> 0, open |-> FALSE, waiting |-> FALSE, status |-> s, answered |-> 0]
Connecting(r, cred) == [r EXCEPT !.using = cred, !.open = FALSE]

(* Mutant: a slot is marked only when its probe is over.                   *)
PollerReconciledUnmarked(rows) ==
    /\ slot' = [h \in Hosts |-> IF Enabled(rows, h) THEN slot[h] ELSE "none"]
    /\ probes' = [h \in Hosts |-> IF Enabled(rows, h) /\ slot[h] = "none" THEN probes[h] + 1
                                                                       ELSE probes[h]]
    /\ crossed' = [h \in Hosts |-> IF ~Enabled(rows, h) /\ slot[h] # "none" /\ probes[h] > 0
                                   THEN crossed[h] + 1 ELSE crossed[h]]
    /\ UNCHANGED strays

(* HealthPoller.reconcile: slots of hosts no longer wanted are cleared, a  *)
(* wanted host without one is probed, its slot marked before the await.    *)
PollerReconciled(rows) ==
    /\ slot' = [h \in Hosts |-> IF ~Enabled(rows, h) THEN "none"
                                ELSE IF slot[h] = "none" THEN "mark" ELSE slot[h]]
    /\ probes' = [h \in Hosts |-> IF Enabled(rows, h) /\ slot[h] = "none" THEN probes[h] + 1
                                                                       ELSE probes[h]]
    /\ crossed' = [h \in Hosts |-> IF ~Enabled(rows, h) /\ slot[h] # "none" /\ probes[h] > 0
                                   THEN crossed[h] + 1 ELSE crossed[h]]
    /\ UNCHANGED strays

(* PushNotificationRelay.reconcile.  A host that was removed is looked for *)
(* among the open streams only; one that has a stream, whatever credential *)
(* it was made with, or a timer, is left alone.                            *)
RelayAfter(rows, h) ==
    LET r == relay[h] IN
    CASE ~rows[h].there -> IF r.using # 0 THEN Idle("none") ELSE r
      [] rows[h].there /\ ~rows[h].enabled -> Idle("disabled")
      [] Enabled(rows, h) /\ rows[h].cred = 0 -> Idle("unbound")
      [] OTHER -> IF r.using = 0 /\ ~r.waiting THEN Connecting(r, rows[h].cred) ELSE r

RelayReconciled(rows) ==
    /\ relay' = [h \in Hosts |-> RelayAfter(rows, h)]
    /\ passedOver' = {h \in Hosts :
           \/ /\ relay[h].using \notin {0, rows[h].cred}
              /\ ~relay[h].open /\ relay'[h].using = relay[h].using
           \/ h \in passedOver /\ relay'[h].using # rows[h].cred}

(* The end of each route: the poller first, which awaits the probes it     *)
(* starts; then, at some later time, the relay.                            *)
Reconciled(rows) ==
    /\ PollerReconciled(rows)
    /\ IF probes' # probes THEN due' = due + 1 /\ UNCHANGED relayVars
                           ELSE RelayReconciled(rows) /\ UNCHANGED due

HubInit ==
    /\ registry = [h \in Hosts |-> Absent]
    /\ minted = 0 /\ revoked = {}
    /\ slot = [h \in Hosts |-> "none"]
    /\ strays = [h \in Hosts |-> 0] /\ probes = [h \in Hosts |-> 0]
    /\ relay = [h \in Hosts |-> Idle("none")]
    /\ due = 0 /\ binding = 0
    /\ crossed = [h \in Hosts |-> 0] /\ passedOver = {}
    /\ hubLeft \in HubScenarios

----------------------------------------------------------------------------
(* The routes.                                                             *)

CreateHost(h) ==
    /\ ~registry[h].there
    /\ HubPay("creates")
    /\ registry' = [registry EXCEPT ![h] = [there |-> TRUE, enabled |-> TRUE, cred |-> 0]]
    /\ Reconciled(registry')
    /\ UNCHANGED <<minted, revoked, binding>>

(* PATCH: whatever is changed, both are reconciled.                        *)
PatchHost(h) ==
    /\ registry[h].there
    /\ HubPay("patches")
    /\ \E on \in BOOLEAN : registry' = [registry EXCEPT ![h].enabled = on]
    /\ Reconciled(registry')
    /\ UNCHANGED <<minted, revoked, binding>>

(* bind: the new credential is stored; the fleet is told before the        *)
(* request reconciles.                                                     *)
BindHost(h) ==
    /\ registry[h].there
    /\ HubPay("binds")
    /\ minted' = minted + 1
    /\ registry' = [registry EXCEPT ![h].cred = minted']
    /\ binding' = binding + 1
    /\ UNCHANGED <<revoked, due, pollerVars, relayVars>>

BindReconciles ==
    /\ binding > 0
    /\ binding' = binding - 1
    /\ Reconciled(registry)
    /\ UNCHANGED <<registry, minted, revoked, hubLeft>>

(* delete: the credential is revoked if the backend can be reached.        *)
RemoveHost(h) ==
    /\ registry[h].there
    /\ HubPay("removals")
    /\ revoked' \in {revoked, revoked \cup ({registry[h].cred} \ {0})}
    /\ registry' = [registry EXCEPT ![h] = Absent]
    /\ Reconciled(registry')
    /\ UNCHANGED <<minted, binding>>

RelayReconciles ==
    /\ due > 0
    /\ due' = due - 1
    /\ RelayReconciled(registry)
    /\ UNCHANGED <<registry, minted, revoked, binding, hubLeft, pollerVars>>

----------------------------------------------------------------------------
(* The loops.                                                              *)

(* A timer fires: the tick marks the slot over whatever is in it, and      *)
(* leaves again if the host is not wanted.                                 *)
Wake(h) ==
    /\ slot' = [slot EXCEPT ![h] = IF Enabled(registry, h) THEN "mark" ELSE "none"]
    /\ probes' = [probes EXCEPT ![h] = @ + (IF Enabled(registry, h) THEN 1 ELSE 0)]
    /\ UNCHANGED <<registry, minted, revoked, due, binding, crossed, hubLeft, relayVars>>

TimerFires(h) == slot[h] = "timer" /\ Wake(h) /\ UNCHANGED strays

StrayFires(h) ==
    /\ strays[h] > 0
    /\ strays' = [strays EXCEPT ![h] = @ - 1 + (IF slot[h] = "timer" THEN 1 ELSE 0)]
    /\ Wake(h)

(* The probe is over and the next one scheduled, whatever became of the    *)
(* host meanwhile and whatever timer its slot has by now.                  *)
ProbeEnds(h) ==
    /\ probes[h] > 0
    /\ probes' = [probes EXCEPT ![h] = @ - 1]
    /\ strays' = [strays EXCEPT ![h] = @ + (IF slot[h] = "timer" THEN 1 ELSE 0)]
    /\ slot' = [slot EXCEPT ![h] = "timer"]
    /\ UNCHANGED <<registry, minted, revoked, due, binding, crossed, hubLeft, relayVars>>

----------------------------------------------------------------------------
(* The streams.                                                            *)

StreamStep(h, r) ==
    /\ relay' = [relay EXCEPT ![h] = r]
    /\ passedOver' = IF r.using = registry[h].cred THEN passedOver \ {h} ELSE passedOver
    /\ UNCHANGED <<registry, minted, revoked, due, binding, pollerVars>>

Answering(h) == relay[h].using # 0 /\ ~relay[h].open

StreamOpens(h) ==
    /\ Answering(h) /\ relay[h].using \notin revoked
    /\ StreamStep(h, [relay[h] EXCEPT !.open = TRUE, !.status = "connected"])
    /\ UNCHANGED hubLeft

(* The credential is rejected, or the build is too old: nothing more until *)
(* the next reconcile.                                                     *)
StreamRefused(h) ==
    /\ Answering(h)
    /\ \/ /\ relay[h].using \in revoked
          /\ StreamStep(h, [Idle("unauthorized") EXCEPT !.answered = relay[h].using])
          /\ UNCHANGED hubLeft
       \/ /\ HubPay("faults")
          /\ StreamStep(h, [Idle("unsupported") EXCEPT !.answered = relay[h].using])

(* Mutant: no timer is set.                                                *)
StreamFailsForGood(h) ==
    /\ relay[h].using # 0
    /\ HubPay("faults")
    /\ StreamStep(h, Idle("reconnecting"))

(* The connection fails, or a stream ends.                                 *)
StreamFails(h) ==
    /\ relay[h].using # 0
    /\ HubPay("faults")
    /\ StreamStep(h, [Idle("reconnecting") EXCEPT !.waiting = TRUE])

Reconnects(h) ==
    /\ relay[h].waiting
    /\ LET r == [relay[h] EXCEPT !.waiting = FALSE] IN
       StreamStep(h, IF Enabled(registry, h) /\ registry[h].cred # 0
                     THEN Connecting(r, registry[h].cred) ELSE r)
    /\ UNCHANGED hubLeft

(* People of a backend revoke the Hub's credential there: open streams     *)
(* live on.                                                                *)
Revoked ==
    /\ HubPay("revocations")
    /\ \E c \in 1 .. minted : revoked' = revoked \cup {c}
    /\ UNCHANGED <<registry, minted, due, binding, pollerVars, relayVars>>

(* The Hub is started again: nothing but the registry is left.             *)
HubRestarts ==
    /\ HubPay("restarts")
    /\ due' = 0 /\ binding' = 0
    /\ slot' = [h \in Hosts |-> IF Enabled(registry, h) THEN "mark" ELSE "none"]
    /\ probes' = [h \in Hosts |-> IF Enabled(registry, h) THEN 1 ELSE 0]
    /\ strays' = [h \in Hosts |-> 0]
    /\ crossed' = [h \in Hosts |-> 0] /\ passedOver' = {}
    /\ relay' = [h \in Hosts |->
                   IF ~registry[h].there THEN Idle("none")
                   ELSE IF ~registry[h].enabled THEN Idle("disabled")
                   ELSE IF registry[h].cred = 0 THEN Idle("unbound")
                   ELSE Connecting(Idle("none"), registry[h].cred)]
    /\ UNCHANGED <<registry, minted, revoked>>

RouteStep(h)  == CreateHost(h) \/ PatchHost(h) \/ BindHost(h) \/ RemoveHost(h)
PollerStep(h) == TimerFires(h) \/ StrayFires(h) \/ ProbeEnds(h)
RelayStep(h)  == StreamOpens(h) \/ StreamRefused(h) \/ StreamFails(h) \/ Reconnects(h)

HubNext ==
    \/ \E h \in Hosts : RouteStep(h) \/ PollerStep(h) \/ RelayStep(h)
    \/ BindReconciles \/ RelayReconciles \/ Revoked \/ HubRestarts

HubSpec == HubInit /\ [][HubNext]_hubVars

----------------------------------------------------------------------------
(* Properties.                                                             *)

HubTypeOK ==
    /\ registry \in [Hosts -> [there : BOOLEAN, enabled : BOOLEAN, cred : 0 .. minted]]
    /\ minted \in Nat /\ revoked \subseteq 1 .. minted
    /\ slot \in [Hosts -> {"none", "mark", "timer"}]
    /\ strays \in [Hosts -> Nat] /\ probes \in [Hosts -> Nat]
    /\ relay \in [Hosts -> [using : 0 .. minted, open : BOOLEAN, waiting : BOOLEAN,
                            status : {"none", "disabled", "unbound", "unsupported",
                                      "unauthorized", "reconnecting", "connected"},
                            answered : 0 .. minted]]
    /\ due \in Nat /\ binding \in Nat
    /\ crossed \in [Hosts -> Nat] /\ passedOver \subseteq Hosts

(* Every enabled host is watched: it has a health loop, and if it is bound *)
(* a push stream, a timer to reconnect it, or its backend's refusal of the *)
(* credential it has now - through patches, rebinding, revocations,        *)
(* removals and failures in any order.  The exception is the code's: a     *)
(* host bound anew while its stream still connects with the old credential *)
(* is passed over, and the refusal of the old one is then final.           *)
Polled(h) == slot[h] = "timer" \/ (slot[h] = "mark" /\ probes[h] > 0)
ListenedTo(h) ==
    \/ relay[h].using # 0 \/ relay[h].waiting
    \/ /\ relay[h].status \in {"unauthorized", "unsupported"}
       /\ relay[h].answered = registry[h].cred \/ h \in passedOver

EveryHostIsWatched ==
    \A h \in Hosts : Enabled(registry, h) =>
        /\ Polled(h)
        /\ registry[h].cred # 0 /\ due = 0 /\ binding = 0 => ListenedTo(h)

(* A host has one health loop ("mark the slot before awaiting, so a        *)
(* concurrent reconcile does not start a second loop"), and one more for   *)
(* each time it was disabled or removed while its probe was out: the probe *)
(* schedules the next one all the same.                                    *)
OneLoopEach ==
    \A h \in Hosts :
        strays[h] + probes[h] + (IF slot[h] = "timer" THEN 1 ELSE 0) <= 1 + crossed[h]

(* Neither unwatched nor watched twice: reconcile (health.ts and relay.ts) *)
(* starts what is missing and only that.                                  *)
WatchedOnce == EveryHostIsWatched /\ OneLoopEach
=============================================================================
