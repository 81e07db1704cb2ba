CONSTANTS
  j1 = j1
  j2 = j2
  j3 = j3
  CronJobs = {j1, j2, j3}
  SkipJobs = {j1, j2}
  OnceJobs = {j2}
  Schedules <- MCSchedules
  Horizon = 3
  Grace = 1
  Retention = 1
  CronScenarios <- MCCronScenarios
  Deliveries = {d1, d2}
  Refs = {r1, r2}
  None = None
  MaxRejections = 2
  RemoteScenarios <- MCRemoteScenarios
  Coding = {c}
  Pocket = {k}
  Chats = {p1, p2}
  NoChat = NoChat
  SubagentScenarios <- MCSubagentScenarios
  Hosts = {h1, h2}
  HubScenarios <- MCHubScenarios
  Claude = {a}
  Served = {o}
  ApprovalScenarios <- MCApprovalScenarios
  CodingAgents = {"a", "b"}
  PocketAgents = {"k"}
  MaxUpdates = 4
  IssueScenarios <- MCIssueScenarios
SPECIFICATION BackgroundSpec
INVARIANTS BackgroundTypeOK NextFollowsSchedule RemoteTruth ToldOnce StatusIsTrue WatchedOnce SwitchObeyed RightConversation NoWedge
PROPERTIES AccountedOnce RemoteSettledOnce RemoteSettles
CHECK_DEADLOCK FALSE
