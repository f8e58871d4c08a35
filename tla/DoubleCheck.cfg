CONSTANTS
    p1 = p1
    p2 = p2
    Proc = {p1, p2}
    NoProc = NoProc
    May <- Everything
    MaxGen = 2
    MaxCrashes = 0
    MaxFaults = 0
SPECIFICATION Spec
PROPERTIES OnlyOperatorsLeaveActive
\* Every process may be idle with no command left to start.
CHECK_DEADLOCK FALSE
