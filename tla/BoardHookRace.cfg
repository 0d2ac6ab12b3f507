CONSTANTS
    Devices = {}
    Hooks = {h1, h2}
    Changes = {}
    Tickers = {t1}
    Rebuilders = {r1, r2}
    Requests = {}
    Syncers = {}
    Rounds = 1
    MaxPushes = 0
    MaxSyncs = 0
    MaxAborts = 0
    BuildWaitExpires = FALSE
    ReadsMayFail = FALSE
    None = None
SPECIFICATION Spec
SYMMETRY Symmetry
INVARIANT HookNotForgotten
