SPECIFICATION Spec
CONSTANTS
    k1 = k1
    k2 = k2
    ConfigKey = ConfigKey
    Key <- MCKey
    Data <- MCData
    Histories = 3
    Ledger <- MCLedger
    LedgerAt <- MCLedgerAt
    ProtocolAt <- MCProtocolAt
    Accepted = {2}
    Lag = 1
    BatchSize = 2
    MaxAttempts = 2
    Inventories <- MCInventories
INVARIANTS
    TypeOK
    ReadsOneLedger
    AnswersOfTheCall
