SPECIFICATION Spec
CONSTANTS
    u1 = u1  u2 = u2
    c1 = c1  c2 = c2  c3 = c3
    b1 = b1  b2 = b2
    r1 = r1  r2 = r2  r3 = r3  r4 = r4
    NoCode = NoCode  NoBook = NoBook  NoUser = NoUser  Past = Past  NoView = NoView
    Users = {u1}
    Codes = {c1, c2}
    Books = {b1}
    BookOf <- TwoCodes
    Book <- OneDefault
    LockDuration = 1
    Kind <- TwoAssigns
    Requests = {r1, r2}
    PreAssigned = {}
    NumericIds = {}
    Faults = {}
    MaxTime = 2
CHECK_DEADLOCK FALSE
INVARIANT UserLimit
