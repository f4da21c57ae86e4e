\* Two requests of one user that has one slot, two accounts with one slot
\* each, fail-over, one administrator change, stop and lost instance.
SPECIFICATION Spec
CONSTANTS
    p1 = p1  p2 = p2  p3 = p3  u1 = u1  a1 = a1  a2 = a2  k1 = k1
    None = None
    Requests = {p1, p2}
    Users = {u1}
    Accounts = {a1, a2}
    Keys = {k1}
    UserOf <- MCOneUser
    KeyOf <- MCKeyOf
    UserLimit <- MCUserLimit
    AccountLimit <- MCAccountLimit
    Limits = {0, 2}
    UserQueue = 1
    AccountQueue = 1
    TotalQueue = 1
    MaxAttempts = 2
    MaxChanges = 1
SYMMETRY AllSymmetry
INVARIANTS SlotAccounting LimitRespected NoLostWakeup QueueAccounting
CHECK_DEADLOCK FALSE
