SPECIFICATION AccessSpec
CONSTANTS
    u1 = u1  admin = admin
    s1 = s1  s2 = s2
    c1 = c1
    p1 = p1  p2 = p2
    Users = {u1, admin}
    Admins = {admin}
    Seeded = {u1, admin}
    Sessions = {s1, s2}
    Clients = {c1}
    Passwords = {p1, p2}
    Acceptable = {p1}
    FirstPassword = p1
    Codes = {}
    None = None
    LockAfter = 1
    KeptPasswords = 1
    MaxCount <- Tries
    MaxCalls = 0
    Secret = "secret"
    Issuer = "api"
    Audience = {"web", "mobile"}
    RoleAudience <- Audiences
    ExpiresIn = 1
    Foreign = Foreign
INVARIANTS AccessTypeOK JwtsAreAccepted
PROPERTIES HandlersFollowLogins LockEndsAccess
