CONSTANTS
    MaxGen = 2
    MaxRuns = 2
    MaxCrashes = 0
    Stable = {1}
SPECIFICATION Spec
INVARIANTS CheckpointIsSound
\* The bounds on checks and submissions end every behaviour.
CHECK_DEADLOCK FALSE
