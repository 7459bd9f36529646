SPECIFICATION Spec
CONSTANTS
    Tasks = {t1, t2}
    Runners = {r1, r2}
    Specs = {s1, s2}
    Contexts = {x1}
    Convs = {c1, c2}
    Captures = {p1, p2, bad}
    BadCaptures = {bad}
    Errors = {e1, e2}
    MaxAttempt = 2
    None = None
SYMMETRY Symmetry
INVARIANTS
    TypeOK
    RowsExclude
    AckedCompletionIsFinal
    AttemptHasOneOwner
    EarlierAttemptsFailed
    ConversationIsAcknowledged
PROPERTIES
    LedgerSpec
