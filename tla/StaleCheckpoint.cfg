CONSTANTS
    Factor = {f1}
    Moving = {f1}
    MaxGid = 1
    MaxCode = 2
SPECIFICATION Spec
INVARIANTS ResumesOwnCode
