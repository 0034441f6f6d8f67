CONSTANTS
    home = home
    good = good
    upload1 = upload1
    upload2 = upload2
    token2 = token2
    None = None
    Homes = {home}
    Digests = {good}
    Publishers = {agent}
    HomeOf <- MCHomeOf
    Authorized = {agent}
    Inputs = {first}
    DigestOf <- MCDigestOf
    Uploads = {upload1}
    Tokens = {token1}
    UploadOf <- MCUploadOf
    Calls = {c1, c2}
    Attempts = 2
    Suspects = {}
    Lifetime = 2
    MaxGeneration = 0
    MaxClock = 2
    MaxLostAcks = 0
SPECIFICATION Spec
SYMMETRY Symmetry
INVARIANTS
    UploadsStayReadable
