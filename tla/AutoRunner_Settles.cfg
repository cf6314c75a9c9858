SPECIFICATION FairSpec
CONSTANTS
    r1 = r1
    r2 = r2
    r3 = r3
    r4 = r4
    r5 = r5
    p1 = p1
    p2 = p2
    Process <- MCProcess
    ProcessOf <- MCProcessOf
    Pid <- MCPid
    Runner <- MCTwo
    Crews <- MCOneCrew
    Cached <- MCTwo
    Refresh <- MCNobody
    Offline <- MCNobody
    Ledger <- MCSettling
    Lag = 0
    Accepts <- MCAccepted
    Key <- MCKey
    Needs <- MCOwnKey
    Again <- MCOwnKey
    Earlier <- MCNothing
    Panics <- MCNever
    MaxTries = 1
    Sequences = 1
    MaxCrashes = 0
PROPERTY
    CacheSettles
