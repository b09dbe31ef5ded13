SPECIFICATION Spec
CONSTANTS
    u1 = u1  admin = admin
    s1 = s1  s2 = s2
    p1 = p1  p2 = p2  p3 = p3
    d1 = d1
    Users = {u1, admin}
    Seeded = {admin}
    Sessions = {s1, s2}
    Passwords = {p1, p2, p3}
    Acceptable = {p1, p2, p3}
    FirstPassword = p1
    Codes = {d1}
    None = None
    LockAfter = 2
    KeptPasswords = 1
    MaxCount <- Tries
    MaxCalls = 1
INVARIANTS TypeOK
PROPERTIES ImplementsLedger GuessingLocks LockHolds
