CONSTANTS
    Nil = Nil
    Parts = {"inbound", "lists", "errands", "casts", "link", "lua"}
    Peers = {"p", "q"}
    MaxQueued = 3
    MaxPerPeer = 2
    MaxFrames = 3
SPECIFICATION SuiteSpec
INVARIANT BudgetHolds
PROPERTIES ConnectionsEnd ErrandsEnd BodyFreed LinkSettles WorkersEnd
CHECK_DEADLOCK FALSE
