----------------------------- MODULE MCBackground -----------------------------
(* The services that work in the background, side by side: they share no      *)
(* state, so each behaviour follows one of them and leaves the others in      *)
(* their initial state.                                                       *)
EXTENDS CronScheduler, RemoteRun, SubagentSupervisor, HubHosts, ApprovalSwitch,
        IssueConversations, TLC

CONSTANTS j1, j2, j3     \* skips, skips and runs once, may overlap

VARIABLE focus      \* "cron", "remote", "supervisor", "hub", "approvals" or
                    \*  "issues"

backgroundVars == <<focus, cronVars, remoteVars, supervisorVars, hubVars, approvalVars,
                    issueVars>>

----------------------------------------------------------------------------
(* Scenarios.                                                                 *)
MCSchedules == {{1, 3}, {1, 2}, {2}}

First(jobs) == [j \in {j1, j2, j3} |-> IF j \in DOMAIN jobs THEN jobs[j] ELSE {}]
NoJobs == First(<<>>)
Both   == First(j1 :> {1, 3} @@ j2 :> {1, 2})
OnlyJ1 == First(j1 :> {1, 3})
OnlyJ2 == First(j2 :> {1, 2})
OnlyJ3 == First(j3 :> {1, 2})

CronCase(first, creates, edits, manual, restarts) ==
    [first |-> first, creates |-> creates, edits |-> edits,
     manual |-> manual, restarts |-> restarts]
NoCron == CronCase(NoJobs, 0, 0, 0, 0)

MCCronScenarios == {
    NoCron,
    CronCase(Both, 0, 1, 0, 0),   CronCase(Both, 0, 0, 0, 1),
    CronCase(OnlyJ1, 0, 2, 0, 0), CronCase(OnlyJ1, 0, 0, 1, 1),
    CronCase(OnlyJ1, 0, 1, 0, 1), CronCase(NoJobs, 1, 0, 0, 0),
    CronCase(OnlyJ2, 0, 0, 1, 1), CronCase(OnlyJ3, 0, 0, 1, 1) }

NoTrouble ==
    [refusals |-> 0, losses |-> 0, rejections |-> 0, approvals |-> 0, errors |-> 0,
     endings |-> 0, people |-> 0, routing |-> 0, restarts |-> 0]

MCRemoteScenarios == {
    NoTrouble,
    [NoTrouble EXCEPT !.losses = 1, !.restarts = 1],
    [NoTrouble EXCEPT !.people = 1, !.errors = 1],
    [NoTrouble EXCEPT !.approvals = 1, !.restarts = 1],
    [NoTrouble EXCEPT !.endings = 2],
    [NoTrouble EXCEPT !.routing = 2],
    [NoTrouble EXCEPT !.refusals = 1, !.losses = 1],
    [NoTrouble EXCEPT !.rejections = 2],
    [NoTrouble EXCEPT !.errors = 1, !.losses = 1],
    [NoTrouble EXCEPT !.restarts = 2] }

MCSubagentScenarios ==
    {[prompts |-> 2, endings |-> 1, removals |-> 1, approvals |-> 1]}

NoHub == [creates |-> 0, patches |-> 0, binds |-> 0, removals |-> 0, faults |-> 0,
          revocations |-> 0, restarts |-> 0]

MCHubScenarios == {
    NoHub,
    [NoHub EXCEPT !.creates = 1, !.patches = 3, !.binds = 1, !.restarts = 1],
    [NoHub EXCEPT !.creates = 2, !.binds = 2, !.removals = 1, !.faults = 1],
    [NoHub EXCEPT !.creates = 1, !.binds = 2, !.removals = 1, !.revocations = 1, !.faults = 1],
    [NoHub EXCEPT !.creates = 1, !.binds = 2, !.patches = 1, !.revocations = 1, !.faults = 2] }

NoPeople == [creates |-> 0, flips |-> 0, refusals |-> 0, asks |-> 0, endings |-> 0]

MCApprovalScenarios == {
    NoPeople,
    [creates |-> 2, flips |-> 3, refusals |-> 0, asks |-> 2, endings |-> 0],
    [creates |-> 2, flips |-> 2, refusals |-> 1, asks |-> 1, endings |-> 1] }

Upd(a) == [agent |-> a, gated |-> TRUE]
Skp(a) == [agent |-> a, gated |-> FALSE]      \* labelled skip-queue
Calm   == [plan |-> <<>>, row |-> NoRow, minter |-> "none", last |-> "none",
           faults |-> 0, endings |-> 0, routes |-> 0, removals |-> 0, losses |-> 0,
           prunes |-> 0, restarts |-> 0]
\* The issue's conversation was agent a's; its row names agent w.
Past(w) == [Calm EXCEPT !.minter = "a", !.last = "a",
              !.row = [NoRow EXCEPT !.there = TRUE, !.agent = w, !.tree = Tree("home", Old),
                                    !.id = Old]]
AAA == <<Upd("a"), Upd("a"), Upd("a")>>

MCIssueScenarios == {
    Calm,
    [Calm EXCEPT !.plan = <<Upd("a"), Upd("a"), Upd("b")>>, !.faults = 1],
    [Calm EXCEPT !.plan = <<Upd("a"), Skp("a"), Upd("b")>>, !.endings = 1],
    [Calm EXCEPT !.plan = <<Upd("a"), Upd("k"), Upd("a")>>, !.losses = 1],
    [Calm EXCEPT !.plan = <<Upd("a"), Upd("k"), Upd("k")>>, !.losses = 1, !.prunes = 1],
    [Calm EXCEPT !.plan = <<Upd("a"), Upd("a")>>, !.routes = 1, !.faults = 1, !.endings = 1],
    [Past("a") EXCEPT !.plan = AAA, !.losses = 1, !.endings = 1, !.restarts = 1],
    [Past("a") EXCEPT !.plan = AAA, !.losses = 1, !.faults = 1],
    [Past("a") EXCEPT !.plan = AAA, !.removals = 1, !.endings = 1],
    [Past("a") EXCEPT !.plan = AAA, !.removals = 1, !.faults = 1, !.restarts = 1],
    [Past("a") EXCEPT !.plan = <<Upd("a"), Upd("b"), Upd("a")>>, !.losses = 1],
    [Past(Unknown) EXCEPT !.plan = <<Upd("b"), Upd("a")>>, !.faults = 1, !.losses = 1] }

----------------------------------------------------------------------------
BackgroundInit ==
    /\ CronInit /\ RemoteInit /\ SupervisorInit /\ HubInit /\ ApprovalInit /\ IssueInit
    /\ focus \in {"cron", "remote", "supervisor", "hub", "approvals", "issues"}
    /\ focus # "cron" => /\ \A j \in CronJobs : cronJob[j].state = "unborn"
                         /\ cronLeft["creates"] = 0
    /\ focus # "remote" => troubles = NoTrouble
    /\ focus # "hub" => hubLeft = NoHub
    /\ focus # "approvals" => peopleLeft = NoPeople
    /\ focus # "issues" => issueLeft = Calm

BackgroundNext ==
    /\ UNCHANGED focus
    /\ \/ /\ focus = "cron" /\ CronNext
          /\ UNCHANGED <<remoteVars, supervisorVars, hubVars, approvalVars, issueVars>>
       \/ /\ focus = "remote" /\ RemoteNext
          /\ UNCHANGED <<cronVars, supervisorVars, hubVars, approvalVars, issueVars>>
       \/ /\ focus = "supervisor" /\ SupervisorNext
          /\ UNCHANGED <<cronVars, remoteVars, hubVars, approvalVars, issueVars>>
       \/ /\ focus = "hub" /\ HubNext
          /\ UNCHANGED <<cronVars, remoteVars, supervisorVars, approvalVars, issueVars>>
       \/ /\ focus = "approvals" /\ ApprovalNext
          /\ UNCHANGED <<cronVars, remoteVars, supervisorVars, hubVars, issueVars>>
       \/ /\ focus = "issues" /\ IssueNext
          /\ UNCHANGED <<cronVars, remoteVars, supervisorVars, hubVars, approvalVars>>

BackgroundSpec == BackgroundInit /\ [][BackgroundNext]_backgroundVars /\ RemoteFairness

(* The services' states are well formed: rows, loops and replies belong       *)
(* together, a tick holds rows only while it runs, a paused agent has a turn  *)
(* to go on with.                                                             *)
BackgroundTypeOK == /\ CronTypeOK /\ RemoteTypeOK /\ SupervisorTypeOK /\ HubTypeOK
                    /\ ApprovalTypeOK /\ IssueTypeOK
=============================================================================
