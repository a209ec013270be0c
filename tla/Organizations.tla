--------------------------- MODULE Organizations ---------------------------
(***************************************************************************)
(* Accounts, memberships, invitations and browser sessions:                *)
(* identity-store.js together with the HTTP and upgrade handlers of the    *)
(* control API that call it.  The tables are shared by the API processes;  *)
(* each process keeps its own map of client sockets.                       *)
(*                                                                         *)
(* A handler is a request with a program counter: one action per awaited   *)
(* SQL statement or transaction, and one for code that runs after the      *)
(* answer came back and touches this process's sockets.  `register`        *)
(* creates the user and an organization of that user, so an organization   *)
(* is named here by the user who founded it.                               *)
(***************************************************************************)
EXTENDS Naturals, Sequences, FiniteSets, FiniteSetsExt

CONSTANTS
    Users,            \* e-mail addresses, and the organizations they found
    Procs,            \* API processes
    Requests,         \* request slots: how many handlers run at once
    Sockets,          \* client WebSockets
    EmailLimit,       \* login attempts per e-mail address and window
    LoginIpLimit,     \* login attempts per client address and window
    RegisterLimit,    \* registrations per client address and window
    MaxSessions,      \* bound: sessions ever created
    MaxInvitations    \* bound: invitations ever created

ASSUME OrganizationsAssumption ==
    /\ EmailLimit \in Nat \ {0} /\ LoginIpLimit \in Nat \ {0} /\ RegisterLimit \in Nat \ {0}
    /\ MaxSessions \in Nat /\ MaxInvitations \in Nat
    /\ IsFiniteSet(Requests)

VARIABLES
    member,        \* member[o][u]: the role of u in o, or "none"
    accounts,      \* users that registered
    invitations,   \* the invitation table, in order of creation
    sessions,      \* the session table, in order of creation
    attempts,      \* attempts counted per rate-limit key in its window
    counted,       \* history: handlers under way that this window counted
    hashed,        \* history: passwords that handlers it counted went on to hash
    request,       \* request[r]: the handler in slot r
    socket         \* socket[k]: the client socket k and what its process holds

vars == <<member, accounts, invitations, sessions, attempts, counted, hashed, request, socket>>

\* "register" and "login" stand for one client address under each prefix.
Keys == Users \cup {"register", "login"}
Limit(k) == CASE k = "register" -> RegisterLimit [] k = "login" -> LoginIpLimit [] OTHER -> EmailLimit
Roles == {"owner", "admin", "member", "viewer"}

Grantable == Roles \ {"owner"}

\* The rows of two tables, what a process holds of a client socket, and the
\* handlers: their operation, their next step, what they have read.
InvitationRows ==
    [org : Users, email : Users, role : Grantable, by : Users,
     expired : BOOLEAN, accepted : Nat, uses : Nat]
SessionRows == [user : Users, revoked : BOOLEAN, expired : BOOLEAN]
ClientSockets ==
    [state : {"open"}, proc : Procs, user : Users, session : Nat, missed : BOOLEAN, orgs : SUBSET Users,
     resync : {"no", "asked", "listed", "rows"}, listed : SUBSET Users, behind : SUBSET Users]
SignInHandlers == [op : {"register", "login"}, step : {"ip", "email", "write"}, user : Users]
InviteHandlers ==
    [op : {"invite"}, step : {"existing", "insert"}, user : Users, org : Users, email : Users,
     role : Grantable]
AcceptHandlers ==
    [op : {"accept"}, step : {"lock", "write", "list"}, proc : Procs, user : Users, invitation : Nat]
AssignHandlers == [op : {"accept"}, step : {"assign"}, proc : Procs, user : Users, orgs : SUBSET Users]
UpgradeHandlers ==
    [op : {"upgrade"}, step : {"list", "open"}, proc : Procs, user : Users, session : Nat,
     socket : Sockets, orgs : SUBSET Users]
LogoutHandlers == [op : {"logout"}, step : {"revoke", "close"}, proc : Procs, session : Nat]
Handlers ==
    SignInHandlers \cup InviteHandlers \cup AcceptHandlers \cup AssignHandlers
      \cup UpgradeHandlers \cup LogoutHandlers

Idle == [op |-> "idle"]
Free == [state |-> "free"]

Init ==
    /\ member = [o \in Users |-> [u \in Users |-> "none"]]
    /\ accounts = {}
    /\ invitations = <<>>
    /\ sessions = <<>>
    /\ attempts = [k \in Keys |-> 0]
    /\ counted = [k \in Keys |-> {}]
    /\ hashed = [k \in Keys |-> 0]
    /\ request = [r \in Requests |-> Idle]
    /\ socket = [k \in Sockets |-> Free]

OrgsOf(u) == {o \in Users : member[o][u] # "none"}
Live(s) == ~sessions[s].revoked /\ ~sessions[s].expired
Pending(op, step) == {r \in Requests : request[r] # Idle /\ request[r].op = op /\ request[r].step = step}

Receives(r, record) == request[r] = Idle /\ request' = [request EXCEPT ![r] = record]
Goto(r, step) == request' = [request EXCEPT ![r].step = step]
Answer(r) == request' = [request EXCEPT ![r] = Idle]

tables == <<member, accounts, invitations, sessions>>
limiter == <<attempts, counted, hashed>>

(***************************************************************************)
(* Rate limits, registration and login.                                    *)
(***************************************************************************)
\* One upsert counts the attempt; a count above the limit refuses it.
Allowed(k) == attempts[k] + 1 <= Limit(k)

\* Bound: counts above the limit are one value, they all refuse.
Consume(k) == attempts' = [attempts EXCEPT ![k] = Min({@ + 1, Limit(k) + 1})]

\* The handler goes on with the window's count, or is refused.
GoesOn(r, k, step) ==
    /\ Goto(r, step)
    /\ counted' = [counted EXCEPT ![k] = @ \cup {r}]

Forgotten(r) == [k \in Keys |-> counted[k] \ {r}]

Refused(r) == Answer(r) /\ counted' = Forgotten(r)

\* The handler hashes the password it was given, and answers.
Hashes(r) ==
    /\ hashed' = [k \in Keys |-> IF r \in counted[k] THEN hashed[k] + 1 ELSE hashed[k]]
    /\ counted' = Forgotten(r)
    /\ Answer(r)

\* The first attempt after the window starts a new one, which has counted
\* none of the handlers under way.
WindowPasses(k) ==
    /\ attempts[k] > 0
    /\ attempts' = [attempts EXCEPT ![k] = 0]
    /\ counted' = [counted EXCEPT ![k] = {}]
    /\ hashed' = [hashed EXCEPT ![k] = 0]
    /\ UNCHANGED <<tables, request, socket>>

SignIns == {r \in Requests : request[r].op \in {"register", "login"}}

StartSignIn(r, op, u) ==
    /\ Len(sessions) + Cardinality(SignIns) < MaxSessions
    /\ Receives(r, [op |-> op, step |-> "ip", user |-> u])
    /\ UNCHANGED <<tables, limiter, socket>>

\* The client address, under the prefix of the operation.
CountIp(r) ==
    /\ r \in SignIns /\ request[r].step = "ip"
    /\ LET op == request[r].op IN
       /\ Consume(op)
       /\ IF Allowed(op) THEN GoesOn(r, op, IF op = "login" THEN "email" ELSE "write") ELSE Refused(r)
    /\ UNCHANGED <<tables, hashed, socket>>

\* Variant: the answer of the second counter is not looked at.
CountEmailGoesOn(r) ==
    /\ r \in Pending("login", "email")
    /\ Consume(request[r].user)
    /\ GoesOn(r, request[r].user, "write")
    /\ UNCHANGED <<tables, hashed, socket>>

CountEmail(r) ==
    /\ r \in Pending("login", "email")
    /\ LET u == request[r].user IN
       /\ Consume(u)
       /\ IF Allowed(u) THEN GoesOn(r, u, "write") ELSE Refused(r)
    /\ UNCHANGED <<tables, hashed, socket>>

NewSession(u) == [user |-> u, revoked |-> FALSE, expired |-> FALSE]

\* One transaction: user, organization, owner membership and first session;
\* the unique e-mail refuses a second account.
Register(r) ==
    /\ r \in Pending("register", "write")
    /\ LET u == request[r].user IN
       IF u \in accounts
       THEN UNCHANGED tables
       ELSE /\ accounts' = accounts \cup {u}
            /\ member' = [member EXCEPT ![u][u] = "owner"]
            /\ sessions' = Append(sessions, NewSession(u))
            /\ UNCHANGED invitations
    /\ Hashes(r)
    /\ UNCHANGED <<attempts, socket>>

\* The password is right or wrong; a right one inserts a session.
Login(r, right) ==
    /\ r \in Pending("login", "write")
    /\ sessions' = IF right /\ request[r].user \in accounts
                   THEN Append(sessions, NewSession(request[r].user)) ELSE sessions
    /\ Hashes(r)
    /\ UNCHANGED <<member, accounts, invitations, attempts, socket>>

Expire(s) ==
    /\ s \in DOMAIN sessions /\ ~sessions[s].expired
    /\ sessions' = [sessions EXCEPT ![s].expired = TRUE]
    /\ UNCHANGED <<member, accounts, invitations, limiter, request, socket>>

(***************************************************************************)
(* Invitations.                                                            *)
(***************************************************************************)
\* The inviter's role is read and checked; a refusal ends the request.
MayInvite(inviter, role) ==
    inviter = "owner" \/ (inviter = "admin" /\ role \in {"member", "viewer"})

Invites == {r \in Requests : request[r].op = "invite"}

StartInvite(r, s, o, email, role) ==
    /\ s \in DOMAIN sessions /\ Live(s)
    /\ Len(invitations) + Cardinality(Invites) < MaxInvitations
    /\ MayInvite(member[o][sessions[s].user], role)
    /\ Receives(r, [op |-> "invite", step |-> "existing", user |-> sessions[s].user,
                    org |-> o, email |-> email, role |-> role])
    /\ UNCHANGED <<tables, limiter, socket>>

\* The address must not belong to a member yet.
CheckInvitee(r) ==
    /\ r \in Pending("invite", "existing")
    /\ IF member[request[r].org][request[r].email] = "none" THEN Goto(r, "insert") ELSE Answer(r)
    /\ UNCHANGED <<tables, limiter, socket>>

InsertInvitation(r) ==
    /\ r \in Pending("invite", "insert")
    /\ invitations' = Append(invitations,
         [org |-> request[r].org, email |-> request[r].email, role |-> request[r].role,
          by |-> request[r].user, expired |-> FALSE, accepted |-> 0, uses |-> 0])
    /\ Answer(r)
    /\ UNCHANGED <<member, accounts, sessions, limiter, socket>>

ExpireInvitation(i) ==
    /\ i \in DOMAIN invitations /\ ~invitations[i].expired
    /\ invitations' = [invitations EXCEPT ![i].expired = TRUE]
    /\ UNCHANGED <<member, accounts, sessions, limiter, request, socket>>

StartAccept(r, p, s, i) ==
    /\ s \in DOMAIN sessions /\ Live(s) /\ i \in DOMAIN invitations
    /\ Receives(r, [op |-> "accept", step |-> "lock", proc |-> p,
                    user |-> sessions[s].user, invitation |-> i])
    /\ UNCHANGED <<tables, limiter, socket>>

Locked(i) == \E r \in Pending("accept", "write") : request[r].invitation = i

\* SELECT ... FOR UPDATE waits for the row, then reads it as committed.
LockInvitation(r) ==
    /\ r \in Pending("accept", "lock")
    /\ LET i == request[r].invitation  inv == invitations[i] IN
       /\ ~Locked(i)
       /\ IF inv.accepted = 0 /\ ~inv.expired /\ inv.email = request[r].user
          THEN Goto(r, "write") ELSE Answer(r)
    /\ UNCHANGED <<tables, limiter, socket>>

\* Variant: the conflict updates the role.
JoinedAgain(old, role) == role

\* INSERT ... ON CONFLICT DO NOTHING keeps a role that is already there.
Joined(old, role) == IF old = "none" THEN role ELSE old

AcceptedSoFar == Cardinality({i \in DOMAIN invitations : invitations[i].accepted > 0})

IsOpen(k) == socket[k].state = "open"

\* Sockets outside S are left alone; `behind` is history: organizations of the
\* user that a socket in S will not be told of.
FallBehind(S, o) ==
    socket' = [k \in Sockets |-> IF k \in S THEN [socket[k] EXCEPT !.behind = @ \cup ({o} \ socket[k].orgs)]
                                 ELSE socket[k]]

\* Membership and acceptance are committed together; only this process will
\* tell the user's sockets.
CommitAcceptance(r) ==
    /\ r \in Pending("accept", "write")
    /\ LET i == request[r].invitation  inv == invitations[i] IN
       /\ member' = [member EXCEPT ![inv.org][request[r].user] = Joined(@, inv.role)]
       /\ invitations' = [invitations EXCEPT ![i].accepted = IF @ = 0 THEN AcceptedSoFar + 1 ELSE @,
                                             ![i].uses = @ + 1]
       /\ FallBehind({k \in Sockets : IsOpen(k) /\ socket[k].user = request[r].user
                                       /\ socket[k].proc # request[r].proc}, inv.org)
    /\ Goto(r, "list")
    /\ UNCHANGED <<accounts, sessions, limiter>>

\* A query of the transaction fails: everything is rolled back.
RollBack(r) ==
    /\ r \in Pending("accept", "write")
    /\ Answer(r)
    /\ UNCHANGED <<tables, limiter, socket>>

ListAfterAcceptance(r) ==
    /\ r \in Pending("accept", "list")
    /\ request' = [request EXCEPT ![r] = [op |-> "accept", step |-> "assign", proc |-> @.proc,
                                          user |-> @.user, orgs |-> OrgsOf(@.user)]]
    /\ UNCHANGED <<tables, limiter, socket>>

\* The sockets of this user on this process learn the new organizations.
Refreshed(k, p, u) == IsOpen(k) /\ socket[k].proc = p /\ socket[k].user = u

\* A list replaces what the socket carries, a longer one too.
Carrying(k, list) ==
    [socket[k] EXCEPT !.orgs = list, !.behind = (@ \cup socket[k].orgs) \ list]

AssignOrgs(r) ==
    /\ r \in Pending("accept", "assign")
    /\ socket' = [k \in Sockets |-> IF Refreshed(k, request[r].proc, request[r].user)
                                    THEN Carrying(k, request[r].orgs) ELSE socket[k]]
    /\ Answer(r)
    /\ UNCHANGED <<tables, limiter>>

\* The membership is committed, but its listing throws: the request fails.
ListFails(r) ==
    /\ r \in Pending("accept", "list")
    /\ FallBehind({k \in Sockets : Refreshed(k, request[r].proc, request[r].user)},
                  invitations[request[r].invitation].org)
    /\ Answer(r)
    /\ UNCHANGED <<tables, limiter>>

(***************************************************************************)
(* Client sockets and logout.                                              *)
(***************************************************************************)
\* The upgrade has verified the cookie.
StartUpgrade(r, p, s, k) ==
    /\ s \in DOMAIN sessions /\ Live(s) /\ socket[k] = Free
    /\ \A q \in Requests : request[q] # Idle /\ request[q].op = "upgrade" => request[q].socket # k
    /\ Receives(r, [op |-> "upgrade", step |-> "list", proc |-> p, user |-> sessions[s].user,
                    session |-> s, socket |-> k, orgs |-> {}])
    /\ UNCHANGED <<tables, limiter, socket>>

ListForSocket(r) ==
    /\ r \in Pending("upgrade", "list")
    /\ request' = [request EXCEPT ![r].step = "open", ![r].orgs = OrgsOf(request[r].user)]
    /\ UNCHANGED <<tables, limiter, socket>>

\* The socket enters the map and its first snapshot or replay begins; nothing
\* looks at the session again.
OpenSocket(r) ==
    /\ r \in Pending("upgrade", "open")
    /\ LET q == request[r] IN
       socket' = [socket EXCEPT ![q.socket] =
                    [state |-> "open", proc |-> q.proc, user |-> q.user, session |-> q.session,
                     missed |-> sessions[q.session].revoked
                                  /\ ~\E x \in Pending("logout", "close") :
                                        request[x].session = q.session /\ request[x].proc = q.proc,
                     orgs |-> q.orgs, resync |-> "asked", listed |-> {}, behind |-> {}]]
    /\ Answer(r)
    /\ UNCHANGED <<tables, limiter>>

\* A gap in the events: every socket of the process not at it yet is resynced.
ResyncClients(p) ==
    /\ \E k \in Sockets : IsOpen(k) /\ socket[k].proc = p /\ socket[k].resync = "no"
    /\ socket' = [k \in Sockets |-> IF IsOpen(k) /\ socket[k].proc = p /\ socket[k].resync = "no"
                                    THEN [socket[k] EXCEPT !.resync = "asked"] ELSE socket[k]]
    /\ UNCHANGED <<tables, limiter, request>>

\* Snapshot and replay list the memberships ...
ListForResync(k) ==
    /\ IsOpen(k) /\ socket[k].resync = "asked"
    /\ socket' = [socket EXCEPT ![k].resync = "listed", ![k].listed = OrgsOf(socket[k].user)]
    /\ UNCHANGED <<tables, limiter, request>>

\* Variant: they go on with the list of the upgrade.
NotRelisted(k) == [socket[k] EXCEPT !.listed = {}]

Relisted(k) == [Carrying(k, socket[k].listed) EXCEPT !.listed = {}]

\* ... and assign the list when the answer is there.  A replay is done with
\* it, a snapshot goes on to read the rows.
AssignResync(k, next) ==
    /\ IsOpen(k) /\ socket[k].resync = "listed"
    /\ socket' = [socket EXCEPT ![k] = [Relisted(k) EXCEPT !.resync = next]]
    /\ UNCHANGED <<tables, limiter, request>>

FinishResync(k) ==
    /\ IsOpen(k) /\ socket[k].resync = "rows"
    /\ socket' = [socket EXCEPT ![k].resync = "no"]
    /\ UNCHANGED <<tables, limiter, request>>

StartLogout(r, p, s) ==
    /\ s \in DOMAIN sessions /\ Live(s)
    /\ Receives(r, [op |-> "logout", step |-> "revoke", proc |-> p, session |-> s])
    /\ UNCHANGED <<tables, limiter, socket>>

\* The row is revoked for every process; sockets elsewhere are out of reach.
RevokeSession(r) ==
    /\ r \in Pending("logout", "revoke")
    /\ LET q == request[r] IN
       /\ sessions' = [sessions EXCEPT ![q.session].revoked = TRUE]
       /\ socket' = [k \in Sockets |-> IF IsOpen(k) /\ socket[k].session = q.session
                                          /\ socket[k].proc # q.proc
                                       THEN [socket[k] EXCEPT !.missed = TRUE] ELSE socket[k]]
    /\ Goto(r, "close")
    /\ UNCHANGED <<member, accounts, invitations, limiter>>

\* Variant: logout leaves the sockets to the expiry timer.
EndedNever(k, s, p) == FALSE

Ended(k, s, p) == IsOpen(k) /\ socket[k].session = s /\ socket[k].proc = p

CloseSockets(r) ==
    /\ r \in Pending("logout", "close")
    /\ socket' = [k \in Sockets |-> IF Ended(k, request[r].session, request[r].proc)
                                    THEN Free ELSE socket[k]]
    /\ Answer(r)
    /\ UNCHANGED <<tables, limiter>>

Overdue(k) == IsOpen(k) /\ sessions[socket[k].session].expired

\* The timer set when the socket was accepted.
SessionTimer(k) ==
    /\ Overdue(k)
    /\ socket' = [socket EXCEPT ![k] = Free]
    /\ UNCHANGED <<tables, limiter, request>>

\* The browser goes, or a query of its resync fails and the process closes it.
Disconnect(k) ==
    /\ IsOpen(k)
    /\ socket' = [socket EXCEPT ![k] = Free]
    /\ UNCHANGED <<tables, limiter, request>>

-----------------------------------------------------------------------------
Receive(r) ==
    \/ \E u \in Users, op \in {"register", "login"} : StartSignIn(r, op, u)
    \/ \E s \in DOMAIN sessions :
         \/ \E o, email \in Users, role \in Grantable : StartInvite(r, s, o, email, role)
         \/ \E p \in Procs : \/ \E i \in DOMAIN invitations : StartAccept(r, p, s, i)
                             \/ \E k \in Sockets : StartUpgrade(r, p, s, k)
                             \/ StartLogout(r, p, s)

Continue(r) ==
    \/ CountIp(r) \/ CountEmail(r) \/ Register(r)
    \/ \E right \in BOOLEAN : Login(r, right)
    \/ CheckInvitee(r) \/ InsertInvitation(r)
    \/ LockInvitation(r) \/ CommitAcceptance(r) \/ ListAfterAcceptance(r) \/ AssignOrgs(r)
    \/ ListForSocket(r) \/ OpenSocket(r)
    \/ RevokeSession(r) \/ CloseSockets(r)

Environment ==
    \/ \E k \in Keys : WindowPasses(k)
    \/ \E s \in DOMAIN sessions : Expire(s)
    \/ \E i \in DOMAIN invitations : ExpireInvitation(i)
    \/ \E r \in Requests : RollBack(r) \/ ListFails(r)
    \/ \E k \in Sockets : Disconnect(k)
    \/ \E p \in Procs : ResyncClients(p)

Serve(k) ==
    \/ ListForResync(k) \/ FinishResync(k) \/ SessionTimer(k)
    \/ \E next \in {"rows", "no"} : AssignResync(k, next)

Next ==
    \/ \E r \in Requests : Receive(r) \/ Continue(r)
    \/ \E k \in Sockets : Serve(k)
    \/ Environment

Spec == Init /\ [][Next]_vars

-----------------------------------------------------------------------------
(***************************************************************************)
(* What must hold.                                                         *)
(***************************************************************************)
\* Every variable keeps its shape; owners, sessions and counters stay in range.
TypeOK ==
    /\ member \in [Users -> [Users -> Roles \cup {"none"}]]
    /\ accounts \subseteq Users
    /\ invitations \in Seq(InvitationRows)
    /\ \A i \in DOMAIN invitations : invitations[i].accepted <= Len(invitations)
    /\ Len(invitations) + Cardinality(Invites) <= MaxInvitations
    /\ sessions \in Seq(SessionRows)
    /\ \A s \in DOMAIN sessions : sessions[s].user \in accounts
    /\ Len(sessions) + Cardinality(SignIns) <= MaxSessions
    /\ attempts \in [Keys -> Nat] /\ \A k \in Keys : attempts[k] <= Limit(k) + 1
    /\ counted \in [Keys -> SUBSET Requests] /\ hashed \in [Keys -> Nat]
    /\ request \in [Requests -> Handlers \cup {Idle}]
    /\ socket \in [Sockets -> ClientSockets \cup {Free}]
    /\ \A k \in Sockets : IsOpen(k) => socket[k].session \in DOMAIN sessions

Accepted(o, u) ==
    {i \in DOMAIN invitations : /\ invitations[i].org = o /\ invitations[i].email = u
                                /\ invitations[i].accepted > 0}

\* Nobody is in an organization by any other way than founding it or
\* accepting an invitation to his own address, and the chain of invitations
\* never hands out a role its sender may not give: owners invite any role,
\* administrators members and viewers, and there is one owner.
MembershipsAreGranted ==
    \A o, u \in Users :
      /\ member[o][u] = "owner" => o = u /\ u \in accounts
      /\ member[o][u] # "none" /\ u # o =>
           \E i \in Accepted(o, u) :
             /\ invitations[i].role = member[o][u]
             /\ \/ invitations[i].by = o
                \/ /\ member[o][invitations[i].by] = "admin"
                   /\ member[o][u] \in {"member", "viewer"}

\* When several invitations of one person are outstanding (two inviters
\* passed the membership check before either was accepted), the one accepted
\* first decides the role and later ones do not change it.
FirstAcceptanceWins ==
    \A o, u \in Users :
      \A i \in Accepted(o, u) :
        (u # o /\ \A j \in Accepted(o, u) : invitations[i].accepted <= invitations[j].accepted)
          => member[o][u] = invitations[i].role

\* Concurrent requests with the same token: at most one is committed.
InvitationCountsOnce ==
    \A i \in DOMAIN invitations : invitations[i].uses <= 1

\* All of these together.
Inv == /\ TypeOK /\ MembershipsAreGranted
       /\ FirstAcceptanceWins /\ InvitationCountsOnce

\* However many handlers run at once, those a window has counted, for an
\* e-mail address, for the logins or for the registrations of a client
\* address, never hash more passwords than its limit: a handler that is
\* refused by either counter gets no further.
AttemptsAreBounded ==
    \A k \in Keys : hashed[k] <= Limit(k)

\* After a logout no client socket of that session stays open, except one
\* held by another process or one whose upgrade was under way.
LoggedOutUnlessMissed ==
    \A k \in Sockets :
      (IsOpen(k) /\ sessions[socket[k].session].revoked /\ ~socket[k].missed) =>
        \E r \in Pending("logout", "close") :
          request[r].session = socket[k].session /\ request[r].proc = socket[k].proc

\* The organization o is on its way to the socket: in a list a resync or an
\* acceptance on its process has read or is about to read.
Coming(k, o) ==
    \/ socket[k].resync = "asked"
    \/ socket[k].resync = "listed" /\ o \in socket[k].listed
    \/ \E r \in Pending("accept", "list") :
         /\ request[r].proc = socket[k].proc /\ request[r].user = socket[k].user
         /\ invitations[request[r].invitation].org = o
    \/ \E r \in Pending("accept", "assign") :
         /\ request[r].proc = socket[k].proc /\ request[r].user = socket[k].user
         /\ o \in request[r].orgs

\* Events are filtered by the organizations a socket carries.  They are always
\* organizations of the user who opened it, and he misses none, however
\* upgrade, acceptances and resyncs interleave, that is not on its way; except
\* one accepted through another process, one whose listing failed, and one
\* that an older list has overwritten.
SocketsFollowMemberships ==
    \A k \in Sockets :
      IsOpen(k) =>
        /\ socket[k].orgs \subseteq OrgsOf(socket[k].user)
        /\ \A o \in OrgsOf(socket[k].user) \ socket[k].orgs : o \in socket[k].behind \/ Coming(k, o)

\* ADR-007 has every event filtered against the current memberships of the
\* connected user: a socket that nothing is on its way to carries them all.
SocketsAreCurrent ==
    \A k \in Sockets :
      IsOpen(k) => \A o \in OrgsOf(socket[k].user) : o \in socket[k].orgs \/ Coming(k, o)

(* What they need to be inductive: what a handler has read still holds     *)
(* when it goes on.                                                        *)
\* Who invites may invite: the founder, or an administrator, who stays one.
MayStillInvite(o, by, role) == by = o \/ (member[o][by] = "admin" /\ role \in {"member", "viewer"})

InvitersMayInvite ==
    /\ \A i \in DOMAIN invitations : MayStillInvite(invitations[i].org, invitations[i].by, invitations[i].role)
    /\ \A r \in Invites : MayStillInvite(request[r].org, request[r].user, request[r].role)

\* The row lock: a handler that found the invitation unused is alone with it,
\* and uses and acceptance are counted together.
WritersAreAlone ==
    /\ \A r \in Pending("accept", "write") :
         /\ invitations[request[r].invitation].accepted = 0
         /\ invitations[request[r].invitation].email = request[r].user
    /\ \A r, q \in Pending("accept", "write") : request[r].invitation = request[q].invitation => r = q
    /\ \A i \in DOMAIN invitations :
         /\ invitations[i].uses = (IF invitations[i].accepted > 0 THEN 1 ELSE 0)
         /\ invitations[i].accepted <= AcceptedSoFar

\* A window has counted and hashed no more than it let through.
CountsAreKept ==
    \A k \in Keys :
      /\ hashed[k] + Cardinality(counted[k]) <= attempts[k]
      /\ hashed[k] + Cardinality(counted[k]) <= Limit(k)

\* Handlers refer to rows that exist, and list organizations of their user.
HandlersHaveRead ==
    \A r \in Requests :
      /\ request[r].op = "accept" /\ request[r].step # "assign" =>
           request[r].invitation \in DOMAIN invitations
      /\ request[r].op \in {"upgrade", "logout"} => request[r].session \in DOMAIN sessions
      /\ request[r].op = "upgrade" => request[r].user \in accounts
      /\ request[r].op = "upgrade" \/ (request[r].op = "accept" /\ request[r].step = "assign") =>
           request[r].orgs \subseteq OrgsOf(request[r].user)

\* Sockets belong to accounts, and have listed organizations of their user.
SocketsHaveRead ==
    \A k \in Sockets :
      IsOpen(k) => socket[k].user \in accounts /\ socket[k].listed \subseteq OrgsOf(socket[k].user)

IInv == /\ Inv /\ LoggedOutUnlessMissed /\ SocketsFollowMemberships
        /\ InvitersMayInvite /\ WritersAreAlone /\ CountsAreKept
        /\ HandlersHaveRead /\ SocketsHaveRead

=============================================================================
