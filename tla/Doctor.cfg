CONSTANTS
    p1 = p1
    Proc = {p1}
    NoProc = NoProc
    DoctorId = DoctorId
    PackId = PackId
    May <- Producers
    MaxGen = 1
    MaxCrashes = 1
    MaxFaults = 0
SPECIFICATION DSpec
INVARIANTS SweepRepairs RmReferralIsSafe
PROPERTIES DoctorSparesLive
