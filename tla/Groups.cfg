CONSTANTS
    Factor = {f1, f2}
    Moving = {f1}
    MaxGid = 2
    MaxCode = 2
SPECIFICATION Spec
INVARIANTS TypeOK GroupSelfContained OneGroup OneHome Converged NoneForgotten FreshLegs FreshSingles
PROPERTIES GroupFrozen
