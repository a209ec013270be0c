SPECIFICATION MCSpec
CONSTANTS
    Users = {u1, u2}
    Founder = u1
    Guest = u2
    Procs = {p1}
    Requests = {r1}
    Sockets = {k1}
    EmailLimit = 1
    LoginIpLimit = 1
    RegisterLimit = 1
    MaxSessions = 2
    MaxInvitations = 1
    ListingFails = FALSE
    Scenarios = {"sockets"}
    Processes = {p1}
    Machines = {m1}
    Orgs = {o1}
    Conns = {c1}
    None = None
    FirstOrg = o1
    FirstConn = c1
    FirstProc = p1
    MaxChanges = 0
    MaxFaults = 0
INVARIANTS
    SocketsAreCurrent
CHECK_DEADLOCK FALSE
