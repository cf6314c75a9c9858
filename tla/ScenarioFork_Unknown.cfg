SPECIFICATION Spec
CONSTANTS
    Key <- MCKey
    Value <- MCValue
    Absent = Absent
    Shape <- MCShape
    Contract <- MCContract
    NoContract = "none"
    Owner <- MCOwner
    InstanceKey <- MCInstanceKey
    CodeKey <- MCCodeKey
    NonceKey <- MCNonceKey
    Call <- MCCall
    Mode <- MCMode
    Tree <- MCTree
    Expected <- MCExpected
    Candidate <- MCCandidate
    Address <- MCAddress
    Code <- MCCode
    Run <- MCRun
    Construct <- MCConstruct
    Network <- MCNetwork
    Captures <- MCCaptures
    Serving <- MCServing
    Label <- MCLabel
    AccountKey <- MCAccountKey
    Holder <- MCHolder
    NoLabel = "none"
    Amount = {0, 1, 2}
    MinBalance = 2
    MaxBalance <- MCMaxBalance
    NewAccount <- MCNewAccount
    Balance <- MCBalance
    WithBalance <- MCWithBalance
    WasmEntry <- MCWasmEntry
    IsToken <- MCIsToken
    WithWasm <- MCWithWasm
    RolledBack <- MCRolledBack
INVARIANT UnknownsReported
CHECK_DEADLOCK FALSE
