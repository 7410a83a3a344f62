CONSTANTS
    r1 = r1
    r2 = r2
    d1 = d1
    Parts = {"names", "aims", "duel", "casts"}
    Abilities = {"raze", "grip", "rot", "feast"}
    Scroll = "scroll"
    Point <- MCPoint
    Dur <- MCDur
    Back <- MCBack
    Immediate = {"feast"}
    Ignores = {"rot"}
    Keeps = {"grip"}
    Own = {"rot"}
    Aimed = {2}
    MaxQueued = 2
    MaxOrders = 3
    Sells = FALSE
    Deaths = 1
    Slots = 3
    Founding = 2
    Count = 1
    Kept = 1
    Sweep = 2
    Delay = 0
    Orders = {0, 1, 2}
    MaxGen = 2
    MaxTick = 4
    MaxNames = 3
    Radiant = {r1, r2}
    Dire = {d1}
    Creeps = {"rc"}
    CreepSide <- MCCreepSide
    Window = 0
    LossShare = 2
    StartGold = 0
    MaxHand = 1
    Wait = 1
    AegisDelay = 1
    DeathLimit = 2
    Map2 = TRUE
    Aegis = {d1}
    Reused = TRUE
    LastTick = 2
    MaxBlows = 0
    MaxFalls = 3
SPECIFICATION SuiteSpec
INVARIANT ChannelsTold
PROPERTIES OrdersKept NamesAgree TiesDrawn
CHECK_DEADLOCK FALSE
