\* A durable task and an ordinary request, one recovery worker and three
\* adjustments of the user's balance, two with one key and one without; two faults.
SPECIFICATION LedgerSpec
CONSTANTS
    r1 = r1  r2 = r2  u1 = u1  u2 = u2
    c1 = c1  c2 = c2  c3 = c3  k1 = k1  k2 = k2
    None = None
    Requests = {r1, r2}
    Users = {u1}
    Durable = {r2}
    Workers = {w1}
    Calls = {c1, c2, c3}
    Keys = {k1}
    UserOf <- MCUserOf
    Debit <- MCDebit
    Touches <- MCTouches
    KeyOf <- MCKeyOf
    AdjUser <- MCAdjUser
    Operation <- MCOperation
    Amount <- MCAmount
    MaxFaults = 2
INVARIANTS Conservation
PROPERTIES ImplementsLedger EventuallyCharged
CHECK_DEADLOCK FALSE
