CONSTANTS
    Sources = {"a", "b"}
    NoSource = "nosource"
    Site <- MCSite
    MaxPerSource = 2
    MaxPerSite = 3
    MaxPending = 1
    MaxConnections = 3
    ShareDivisor = 1
    MaxWatchers = 1
    MaxPerSeat = 1
    Numbers = 1
    Seats = {1}
    None = None
    Peers = {"a", "nosource"}
    Messages = {"player", "watcher"}
    MaxIds = 4
    Attempts = 2
    MaxUnsent = 2
    Partial = FALSE
    MaxOrders = 3
    Cuts = 2
    MaxLate = 2
    Permits = 2
    MaxTeams = 2
    LastTick = 3
    Options <- MCOptions
    Nil = Nil
    CloseMargin = 4
    Reserve = 8
    Sizes = {1, 2}
    Block = 1
    EndBytes = 1
    MaxRecords = 14
    Games <- MCGames
    Spectators = {"w", "x"}
    SeatTalkers = {"s"}
    Spacing = 1
    Burst = 2
    PerTick = 2
    Width = 3
    LineSpacing = 2
    Lines = 2
    AllSpacing = 1
    AllLines = 2
    Unspoken = Unspoken
    MaxTime = 3
    MaxMessages = 5
    MaxLines = 4
    Players = {1, 2}
    Viewers = {3, 4}
    Side <- MCSide
    Eyes <- MCEyes
    Behind = {4}
    Delay = 2
    SeatChat = "all"
    ViewersTalk = TRUE
    ReplayTeam = TRUE
    Unset = Unset
    MaxFeedTick = 3
    MaxSaid = 3
    Parts = {"hellos", "flood", "messages", "lines", "feed", "replay", "link",
             "ledger", "lua"}
SPECIFICATION SuiteSpec
INVARIANTS RoomBounded FeedInOrder LinkSound LedgerTrue
PROPERTIES FloodSparesOthers RatesHold ReplayWhole TurnsMatch
CHECK_DEADLOCK FALSE
