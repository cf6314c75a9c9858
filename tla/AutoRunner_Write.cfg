SPECIFICATION Spec
CONSTANTS
    r1 = r1
    r2 = r2
    r3 = r3
    r4 = r4
    r5 = r5
    p1 = p1
    p2 = p2
    Process <- MCProcess
    ProcessOf <- MCProcessOf
    Pid <- MCPid
    Runner <- MCApart
    Crews <- MCOneCrew
    Cached <- MCApart
    Refresh <- MCApart
    Offline <- MCNobody
    Ledger <- MCOneLedger
    Lag = 0
    Accepts <- MCAccepted
    Key <- MCOneKey
    Needs <- MCSameKey
    Again <- MCSameKey
    Earlier <- MCNothing
    Panics <- MCNever
    MaxTries = 2
    Sequences = 2
    MaxCrashes = 1
INVARIANTS
    CacheWhole
    WriteSurvives
    WritersApart
