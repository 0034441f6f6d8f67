CONSTANTS
    owner = owner
    d1 = d1
    d2 = d2
    Users = {owner}
    Homes = {home}
    None = None
    Challenges = {k1, k2}
    Destinations = {d1, d2}
    Grants = {g1, g2, g3}
    Registered <- NoneRegistered
    Calls = {c1, c2}
    Offered = {"challenge", "complete", "delete", "grant", "revoke", "push"}
    MaxActiveChallenges = 1
    MaxActiveDestinations = 2
    MaxRetainedGrants = 2
    ChallengeLifetime = 1
    GrantLifetime = 1
    Attempts = 2
    MaxClock = 2
    MaxLostAcks = 1
SPECIFICATION Spec
SYMMETRY Symmetry
INVARIANTS
    TypeOK
    RegistriesReconcile
    CompletionsTakeEffectOnce
    DeadGrantsStaySilent
PROPERTIES
    CompactionSparesUsable
