SPECIFICATION PlannerSpec
CONSTANTS
    MaxCalls = 2
    MaxRounds = 2
    QueueCap = 2
    MaxRetries = 1
    Scenarios <- MCScenarios
    PollSlots = {1, 2}
    AlbumSlots = {3}
    AlbumParts = 2
    ChatQueueCap = 2
    TelegramScenarios <- MCTelegramScenarios
INVARIANTS
    PlannerTypeOK
    TranscriptSound
    MailboxSound
    UpdatesKept
    RepliesHeard
PROPERTIES
    NoLostWake
    StoppedMeansStopped
    OneModel
    WaitingGetsOut
CHECK_DEADLOCK FALSE
