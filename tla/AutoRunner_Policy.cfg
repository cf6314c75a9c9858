SPECIFICATION Spec
CONSTANTS
    r1 = r1
    r2 = r2
    r3 = r3
    r4 = r4
    r5 = r5
    p1 = p1
    p2 = p2
    Process <- MCProcess
    ProcessOf <- MCProcessOf
    Pid <- MCPid
    Runner <- MCAll
    Crews <- MCPairs
    Cached <- MCCached
    Refresh <- MCOnlyThird
    Offline <- MCOnlyFourth
    Ledger <- MCLedger
    Lag = 1
    Accepts <- MCAccepts
    Key <- MCKey
    Needs <- MCNeeds
    Again <- MCAgain
    Earlier <- MCEarlier
    Panics <- MCPanics
    MaxTries = 1
    Sequences = 1
    MaxCrashes = 0
INVARIANTS
    TypeOK
    CacheReplayed
    ReturnsCurrent
