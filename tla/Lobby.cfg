SPECIFICATION Spec
CONSTANTS
    Connections = {c1, c2, c3}
    k1 = k1
    k2 = k2
    h1 = h1
    h2 = h2
    Keys = {k1, k2}
    Heroes = {h1, h2}
    DummyHero = h1
    DefaultHero = h2
    None = None
    Options <- MCOptions
    PickTime = 1
    PenaltyTime = 1
    TacticalTime = 1
    UnjoinedAfter = 2
    MaxLobbyDrain = 1
    MaxLag = 1
INVARIANTS RosterSound StartsRightly
PROPERTY PickStands
SYMMETRY Symmetry
CHECK_DEADLOCK FALSE
