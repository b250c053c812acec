\* Installations and logins, each in parts, which are in the module.
SPECIFICATION AccessSpec
CONSTANTS
    Users = {u1}
    Installations = {i1, i2}
    Repos = {r1, r2}
    Hooks = {h1}
    Syncs = {y1, y2}
    NoUser = NoUser
    MaxChanges = 3
    MaxFailures = 1
    Callbacks = {c1, c2}
    Requests = {q1}
    States = {s1, s2}
    Accounts = {a1, a2}
    Logins = {l1, l2, l3}
    NoState = NoState
    NoAccount = NoAccount
    NoLogin = NoLogin
    StateTTL = 1
    SessionTTL = 1
    MaxTime = 2
    MaxSessions = 2
    MaxPerformed = 1
    MaxRenames = 2
    MaxFailed = 1
    i2 = i2
    r2 = r2
    y2 = y2
    a2 = a2
INVARIANTS
    TypeOK
    HandledDeliveriesAgree
    SyncedAccessIsGitHubs
    LoginsAreSound
\* Changes, times and failures are bounded.
CHECK_DEADLOCK FALSE
