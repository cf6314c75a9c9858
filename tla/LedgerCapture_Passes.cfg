SPECIFICATION FairSpec
CONSTANTS
    Key <- MCKey
    ConfigKey = "config"
    Data <- MCData
    Ledger <- MCLedger
    LedgerAt <- MCHistory
    ProtocolAt <- MCProtocol
    Sound <- MCSound
    Accepted <- MCAccepted
    Lag = 1
    BatchSize = 2
    MaxAttempts = 2
    MaxRounds = 2
    MaxClosureRounds = 2
    Inventories <- MCInventories
    Prog <- MCProg
    Starts <- MCStarts
    Op <- MCOp
    At <- MCAt
    Marks <- MCMarks
    Goto <- MCGoto
INVARIANTS
    TypeOK
    CaptureCoherent
    DecidedOnOneLedger
    SealedExecutable
    ReplayReproduces
    ReplayFailsClosed
PROPERTIES
    CaptureDescends
    CaptureIsAtomic
    CaptureReturns
CHECK_DEADLOCK FALSE
