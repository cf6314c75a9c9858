SPECIFICATION Spec
CONSTANTS
    Key <- MCKey
    Value <- MCValue
    Absent = "none"
    Shape <- MCShape
    Contract <- MCContract
    NoContract = "none"
    Owner <- MCOwner
    InstanceKey <- MCInstanceKey
    CodeKey <- MCCodeKey
    NonceKey <- MCNonceKey
    Call <- MCCall
    Mode <- MCMode
    Tree <- MCTree
    Expected <- MCExpected
    Candidate <- MCCandidate
    Address <- MCAddress
    Code <- MCCode
    Run <- MCRun
    Construct <- MCConstruct
    Network <- MCNetwork
    Captured <- MCCaptured
    Id = 1
    OtherId = 2
    MaxEvidence = 2
    MaxHeld = 2
INVARIANTS
    TypeOK
    Agreement
    CoverageJustified
    LocalsInstalled
    EvidenceChains
PROPERTIES
    NoncesAreSigned
    ImplementsIdeal
