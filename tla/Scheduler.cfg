CONSTANTS
    NChannels = 2
    Configured = {2}
    Senders = {s1, s2}
    MaxAttempts = 2
    SummaryThreshold = 1
    SummaryMaxEvents = 2
    MaxChanges = 2
    MaxCrashes = 1
    MaxUnclear = 1
    Devices = {d1}
    Hooks = {h1}
    Tickers = {t1}
    Rebuilders = {r1}
    Requests = {q1}
    Rounds = 1
    MaxPushes = 1
    MaxAborts = 1
    None = None
SPECIFICATION MCFairSpec
INVARIANTS
    ClaimsExclusive
    DuplicatesExplained
PROPERTIES
    DeliversAtLeastOnce
    MessagesSettled
    PushesRecorded
    RequestsAnswered
