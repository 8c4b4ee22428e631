SPECIFICATION FairSpec
CONSTANTS
    r1 = r1
    r2 = r2
    k1 = k1
    MaxPayments = 1
    Request = {r1}
    Clerk = {}
    Methods = {"CREDIT_CARD"}
    HasProfile = TRUE
    AdminStatus = {}
    Tracked = {}
    MaxCalls = 1
    Crashes = FALSE
PROPERTY ChargedIsSettled
CHECK_DEADLOCK FALSE
