CONSTANTS
    Devices = {d1}
    Hooks = {}
    Changes = {c1}
    Tickers = {t1}
    Rebuilders = {r1}
    Requests = {q1}
    Syncers = {s1}
    Rounds = 2
    MaxPushes = 1
    MaxSyncs = 2
    MaxAborts = 1
    BuildWaitExpires = FALSE
    ReadsMayFail = FALSE
    None = None
SPECIFICATION Spec
SYMMETRY Symmetry
INVARIANTS
    ServedFresh
    PushNotForgotten
    StoredBoardOwed
    ChangeAckCovered
