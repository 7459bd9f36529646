SPECIFICATION FairSpec
CONSTANTS
    Tasks = {hooked, plain}
    Hooked = {hooked}
    Templated = {hooked}
    MaxAttempt = 2
    MaxSends = 2
    MaxFaults = 3
    None = None
INVARIANTS
    TypeOK
    AtMostOneSend
    SubmissionNeverForgotten
    ResourcesAreJournaled
    DeletedOnlyAfterStored
    CheckpointHasCapture
    EvaluatorBehindCandidate
    OneConversationOfRecord
PROPERTIES
    JournalOutlivesAttempt
    LedgerSpec
    KeepsContract
    BatchGetsThrough
