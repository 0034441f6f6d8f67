CONSTANTS
    home = home
    good = good
    upload1 = upload1
    upload2 = upload2
    token2 = token2
    None = None
    Homes = {home}
    Digests = {good}
    Publishers = {agent}
    HomeOf <- MCHomeOf
    Authorized = {agent}
    Inputs = {first, second}
    DigestOf <- MCDigestOf
    Uploads = {upload1, upload2}
    Tokens = {token1, token2, token3}
    UploadOf <- MCUploadOf
    Calls = {c1, c2}
    Attempts = 2
    Suspects = {good}
    Lifetime = 1
    MaxGeneration = 2
    MaxClock = 2
    MaxLostAcks = 1
SPECIFICATION Spec
SYMMETRY Symmetry
VIEW View
INVARIANTS
    SingleDelivery
    FinalizedMatchesRelease
    PointerServes
PROPERTIES
    ImplementsInterface
