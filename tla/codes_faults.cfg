SPECIFICATION Spec
CONSTANTS
    r1 = r1  r2 = r2  r3 = r3  r4 = r4
    h1 = h1  h2 = h2  h3 = h3
    w1 = w1  w2 = w2
    c1 = c1  c2 = c2  c3 = c3  c4 = c4
    b1 = b1  b2 = b2
    NoBook = NoBook  NoJob = NoJob
    Codes = {c1, c2, c3}
    Books = {b1, b2}
    InitialBooks = {b1}
    Requests = {r1, r2, r3}
    Jobs = {r1, r2, r3}
    Handlers = {h1, h2}
    Workers = {w1}
    WorkerOf <- OneWorker
    MaxTag = 2
    MaxLosses = 2
    Kind <- Creates
    Pool <- OnePool
    Closed = {}
    Quantities = {1, 2}
    Unit = 1
    MaxSync = 1
    BatchSize = 1
    Faults = {"mongo", "crash"}
SYMMETRY SameCodes
CHECK_DEADLOCK FALSE
INVARIANTS TypeOK JobIsKept AllOrNothing TotalCodesAgree
