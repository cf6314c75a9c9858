SPECIFICATION Spec
CONSTANTS
    Fork = {f, g}
    Fixture <- MCFixture
    Supported = 2
    Oldest = 1
    Data = {0, 1}
    NoFork = NoFork
    MaxEnvs = 3
    MaxAddresses = 1
    MaxCheckpoints = 1
INVARIANTS
    TypeOK
    AddressesFresh
PROPERTIES
    ImplementsPrivate
SYMMETRY Symmetry
CHECK_DEADLOCK FALSE
