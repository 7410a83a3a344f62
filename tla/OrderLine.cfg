SPECIFICATION Spec
CONSTANTS
    Seats = {s1}
    Units = {u1}
    NoBody = NoBody
    Connections = {c1}
    Base <- MCBase
    Jitter <- MCJitter
    MaxOrderDelay = 2
    MaxOrdersPerTick = 2
    None = None
    LastGiveTick = 2
    MaxArrivals = 4
    ViewLeads = {2}
INVARIANT LineSound
PROPERTIES AnswersRight EveryOrderLeaves
CHECK_DEADLOCK FALSE
