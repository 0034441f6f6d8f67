CONSTANTS
    Home = home
    Digests = {d1, d2, d3}
    Bindings = {b}
    None = None
    Attempts = {a1, a2}
    Denied = {d3}
    MaxGeneration = 2
SPECIFICATION Spec
SYMMETRY Symmetry
INVARIANTS
    NeverBelowKnownGood
    OnlyVerifiedRuns
    RefusedOnlyIfOvertaken
PROPERTIES
    ImplementsAdoptedRelease
