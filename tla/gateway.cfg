SPECIFICATION FairSpec
CONSTANTS
    r1 = r1
    r2 = r2
    r3 = r3
    rider = rider
    driver = driver
    admin = admin
    nobody = nobody
    ride = ride
    trip = trip
    key1 = key1
    Requests = {r1, r2, r3}
    Callers = {rider, driver, admin, nobody}
    RoleOf <- MCRoleOf
    Mixes <- MCMixes
    Absent = Absent
    Servers = {s1}
    InternalAuth = TRUE
    NoKey = NoKey
    RetryMax = 1
    MaxBreaks = 2
    Keys <- MCKeys
    Limit <- MCLimit
    Window <- MCWindow
    Plain <- MCPlain
    MaxTime = 2
    MaxFaults = 1
INVARIANTS
    EffectsBounded
    AnswersTrue
    AlarmNeedsLoss
PROPERTIES
    WindowHolds
    RejectsOnlyBusy
    Answered
CHECK_DEADLOCK FALSE
