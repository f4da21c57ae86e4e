SPECIFICATION FairSpec
CONSTANTS
    j1 = j1
    j2 = j2
    j3 = j3
    j4 = j4
    u1 = u1
    k1 = k1
    k2 = k2
    e1 = e1
    p1 = p1
    p2 = p2
    None = None
    Jobs = {j1, j3}
    Users = {u1}
    ApiKeys = {k1, k2}
    Idem = {e1}
    Processes = {p1}
    Overlap = FALSE
    PageSize = 1
    MaxUnfinished = 2
    MaxFaults = 2
    UserOf <- MCUserOf
    ApiKeyOf <- MCApiKeyOf
    IdemOf <- MCIdemOf
    Hold <- MCHold
    Cost <- MCCost
    Items <- MCOneItem
    Balance <- MCBalance
CHECK_DEADLOCK FALSE
PROPERTIES HoldNotStranded
