CONSTANTS
    Factor = {f1}
    Driver = {d1, d2}
    NoOne = NoOne
    MaxDay = 2
    MaxCode = 2
    MaxKills = 1
SPECIFICATION PSpec
PROPERTIES RunsConverge
