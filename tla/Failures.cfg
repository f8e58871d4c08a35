CONSTANTS
    p1 = p1
    p2 = p2
    Proc = {p1, p2}
    NoProc = NoProc
    May <- OneChecker
    MaxGen = 2
    MaxCrashes = 1
    MaxFaults = 1
SPECIFICATION Spec
INVARIANTS RecordHeld CancelNeverDropsSource RestageNeverConflicts
PROPERTIES EnteredOnce
\* Every process may be idle with no command left to start.
CHECK_DEADLOCK FALSE
