\* Two requests, one of them a durable task, two recovery workers that may
\* overlap, two faults; no administrators.
SPECIFICATION Spec
CONSTANTS
    r1 = r1  r2 = r2  u1 = u1  u2 = u2
    c1 = c1  c2 = c2  c3 = c3  k1 = k1  k2 = k2
    None = None
    Requests = {r1, r2}
    Users = {u1}
    Durable = {r2}
    Workers = {w1, w2}
    Calls = {}
    Keys = {}
    UserOf <- MCUserOf
    Debit <- MCDebit
    Touches <- MCTouches
    KeyOf <- MCKeyOf
    AdjUser <- MCAdjUser
    Operation <- MCOperation
    Amount <- MCAmount
    MaxFaults = 2
SYMMETRY WorkerSymmetry
INVARIANTS ExactlyOnce SuccessIsCharged Recoverable
CHECK_DEADLOCK FALSE
