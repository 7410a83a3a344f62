CONSTANTS
    r1 = r1
    r2 = r2
    d1 = d1
    Parts = {"fights", "market", "stock", "builds", "pack", "hands", "forge", "errands"}
    Radiant = {r1, r2}
    Dire = {d1}
    Creeps = {"rc"}
    CreepSide <- MCCreepSide
    Window = 0
    LossShare = 2
    StartGold = 0
    MaxHand = 1
    Wait = 1
    AegisDelay = 1
    DeathLimit = 0
    Map2 = FALSE
    Aegis = {}
    Reused = FALSE
    LastTick = 2
    MaxBlows = 1
    MaxFalls = 2
    Byte = 2
    Grace = 1
    MuteTicks = 1
    Inv = 1
    Pack = 1
    Kinds = {"tango", "branch"}
    Hold = 2
    StashSlots = 2
    MaxLots = 3
    MaxCalls = 2
    MaxDowned = 1
    MaxRuns = 1
    MaxMarks = 1
SYMMETRY Twins
SPECIFICATION SuiteSpec
INVARIANT Accounts
PROPERTIES CreditsStand BooksKept GraceKept GoodsKept
CHECK_DEADLOCK FALSE
