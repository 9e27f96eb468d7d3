CONSTANTS
    Users = {u1}
    Holders = {u1}
    NoUser = NoUser
    Username = username
    Email = email
    Sessions = {s1, s2}
    Roles = {user, read_only}
    Passwords = {p1, p2}
    NoData = NoData
    CustomRoles = {c1}
    Permissions = {permission}
    Handlers = {h1, h2}
    Threshold = 1
    MaxChanges = 2
    MaxFaults = 1
SYMMETRY Symmetry
SPECIFICATION MCSpec
INVARIANTS
    TypeOK
    OldSessionsDie
    SessionsAreFound
    CacheIsCurrent
    GuessesAreBounded
