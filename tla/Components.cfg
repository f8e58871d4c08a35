CONSTANTS
    MaxGen = 2
    MaxRuns = 4
    MaxCrashes = 2
    Stable = {2}
    MaxDays = 4
    Tolerance = 1
    Rival = {a, b}
    Self = self
    MaxRows = 2
    Corr <- Correlations
    Threshold = 2
    DataDays = 3
    DataTicks = 3
    Row = {1, 2, 3}
    Factor = {f1}
    Driver = {d1, d2}
    NoOne = NoOne
    MaxDay = 2
    MaxCode = 2
    MaxKills = 1
    Client = {c1, c2}
    NoClient = NoClient
    MaxUpdates = 3
    MaxDeaths = 1
    Entry = {e1, e2}
    MaxAttempts = 3
    MaxSetups = 1
SPECIFICATION CSpec
INVARIANTS HalvesMatch JudgedOnThisRun ModuleExists ComplianceIsByValidDays RejectionStandsOnRead CorrelationBeatsAlike NoFutureDay StoreIsSerial SwitchIsWhole OneSetupSuffices
PROPERTIES StableNotRejected CheckpointDiscriminates BatchEnds OkIsWhole
\* The bounds on checks, days, updates and attempts end every behaviour.
CHECK_DEADLOCK FALSE
