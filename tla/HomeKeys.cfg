CONSTANTS
    owner = owner
    stranger = stranger
    None = None
    Users = {owner, stranger}
    Homes = {h1}
    Owner <- MCOwner
    KeyIds = {k1, k2, k3}
    Materials = {k1, k2, k3}
    IdOf <- MCIdOf
    Codes = {p1}
    Calls = {c1, c2}
    MaxActive = 2
    MaxRetained = 2
    Attempts = 3
    CodeLifetime = 1
    TokenLifetime = 1
    MaxClock = 2
    MaxLostAcks = 1
SPECIFICATION Spec
SYMMETRY Symmetry
INVARIANTS
    RegistryReconciles
    IndexMirrorsRegistry
    OneKeyPerCode
    GrantPredatesRevocation
PROPERTIES
    ActiveKeyOnlyRevoked
    HandedSecretNeverRevived
