SPECIFICATION Spec
CONSTANTS
    Ticks = {1, 2, 3, 4}
    QueueLimit = 2
    UrgentLimit = 1
    MaxSkippedTicks = 1
    None = None
    MaxEntries = 4
    MaxUrgent = 1
    MaxPings = 1
INVARIANT OutboxSound
PROPERTIES FeedRefined EventsArrive PartingEnds
CHECK_DEADLOCK FALSE
