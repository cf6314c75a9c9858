SPECIFICATION Spec
CONSTANTS
    Key <- MCKey
    Archival <- MCArchival
    Kind <- MCKind
    NoTtl = NoTtl
    RootKey <- MCRootKey
    Supported = 1
    MaxRounds = 2
    MaxWord = 7
    NoHash = NoHash
    Nobody = Nobody
    Captured <- MCCaptured
    MaxDamage = 2
    Damaged <- MCDamaged
INVARIANTS
    HeldIsCapture
    Reloads
    DamageRefused
CHECK_DEADLOCK FALSE
