SPECIFICATION Spec
CONSTANTS
    Tasks = {hooked, plain}
    Hooked = {hooked}
    Templated = {hooked}
    MaxAttempt = 2
    MaxSends = 2
    MaxFaults = 2
    None = None
INVARIANT RunningHasJournal
