SPECIFICATION MCSpec
CONSTANTS
    Users = {u1, u2, u3}
    Founder = u1
    Guest = u2
    Procs = {p1, p2}
    Requests = {r1, r2}
    Sockets = {k1}
    EmailLimit = 1
    LoginIpLimit = 2
    RegisterLimit = 1
    MaxSessions = 3
    MaxInvitations = 2
    ListingFails = TRUE
    Scenarios = {"signin", "invite", "sockets", "register", "cut", "presence"}
    Processes = {p1, p2}
    Machines = {m1}
    Orgs = {o1, o2}
    Conns = {c1, c2}
    None = None
    FirstOrg = o1
    FirstConn = c1
    FirstProc = p1
    MaxChanges = 3
    MaxFaults = 1
INVARIANTS
    IInv
    AttemptsAreBounded
    LoggedOutUnlessMissed
    SocketsFollowMemberships
    GatewayIInv
PROPERTIES
    AbsentGoesOffline
    PresentComesOnline
CHECK_DEADLOCK FALSE
