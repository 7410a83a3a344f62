SPECIFICATION Spec
CONSTANTS
    Seats = {0, 1}
    TeamOf <- MCTeamOf
    c1 = c1
    c2 = c2
    k1 = k1
    k2 = k2
    Connections = {c1, c2, c3}
    Keys = {k1, k2}
    None = None
    Matches <- MCPatient
    MaxQueue = 2
PROPERTY NewcomersHeard
CHECK_DEADLOCK FALSE
