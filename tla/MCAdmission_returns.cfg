\* Two requests of one user with two slots, later one; one account with one
\* slot, so that a request may wait for the account while it holds a user slot;
\* admission may stop while one request is with the upstream, for ever perhaps.
SPECIFICATION WaitSpec
CONSTANTS
    p1 = p1  p2 = p2  p3 = p3  u1 = u1  a1 = a1  a2 = a2  k1 = k1
    None = None
    Requests = {p1, p2}
    Users = {u1}
    Accounts = {a1}
    Keys = {k1}
    UserOf <- MCOneUser
    KeyOf <- MCKeyOf
    UserLimit <- MCPairLimit
    AccountLimit <- MCAccountLimit
    Limits = {1}
    UserQueue = 1
    AccountQueue = 1
    TotalQueue = 2
    MaxAttempts = 1
    MaxChanges = 1
PROPERTIES StopDrains EveryRequestReturns
CHECK_DEADLOCK FALSE
