---------------------------- MODULE IdentityProofs ----------------------------
(***************************************************************************)
(* What TLAPS proves of the identity of machines and of people.  First     *)
(* module MachineGateway: credentials and daemon connections, for any      *)
(* number of processes, machines, organizations, connections, changes of   *)
(* credentials and faults.  Then module Organizations: accounts,           *)
(* memberships, invitations and sessions, for any number of users,         *)
(* processes, handlers and sockets, and any limits.                        *)
(***************************************************************************)
EXTENDS MachineGateway, Organizations, FiniteSetTheorems, TLAPS

USE BoundsAssumption, NoneAssumption

-----------------------------------------------------------------------------
(* Connections, and steps that leave them what they are.                   *)

\* A connection that is used is a whole record, and only such a one is.
LEMMA UsedOrFree ==
  ASSUME GatewayTypeOK, NEW c \in Conns
  PROVE  /\ Used(c) <=> conn[c] \in Connections
         /\ ~Used(c) <=> conn[c] = Unused
<1>1. Unused.phase = "free" /\ Unused \notin Connections
  BY DEF Unused, Connections
<1>2. \A r \in Connections : r.phase # "free"
  BY DEF Connections
<1>3. conn[c] \in Connections \cup {Unused}
  BY DEF GatewayTypeOK
<1> QED BY <1>1, <1>2, <1>3 DEF Used

\* One connection is replaced by another record.
LEMMA OneUpdate ==
  ASSUME GatewayTypeOK, NEW c \in Conns, NEW r \in Connections \cup {Unused}, conn' = [conn EXCEPT ![c] = r]
  PROVE  /\ conn' \in [Conns -> Connections \cup {Unused}]
         /\ conn'[c] = r
         /\ \A d \in Conns \ {c} : conn'[d] = conn[d]
BY DEF GatewayTypeOK

\* Updates of one field keep a connection a connection.
LEMMA Fields ==
  ASSUME NEW r \in Connections
  PROVE  /\ [r EXCEPT !.phase = "closing"] \in Connections
         /\ [r EXCEPT !.phase = "gone"] \in Connections
         /\ \A h \in Hellos : [r EXCEPT !.hello = h] \in Connections
         /\ \A b \in BOOLEAN : /\ [r EXCEPT !.upserting = b] \in Connections
                               /\ [r EXCEPT !.touching = b] \in Connections
                               /\ [r EXCEPT !.missed = b] \in Connections
         /\ Closing(r) \in Connections
<1>1. [r EXCEPT !.phase = "closing"] \in Connections /\ [r EXCEPT !.phase = "gone"] \in Connections
  BY DEF Connections
<1>2. \A h \in Hellos : [r EXCEPT !.hello = h] \in Connections
  BY DEF Connections
<1>3. \A b \in BOOLEAN : [r EXCEPT !.upserting = b] \in Connections
  BY DEF Connections
<1>4. \A b \in BOOLEAN : [r EXCEPT !.touching = b] \in Connections
  BY DEF Connections
<1>5. \A b \in BOOLEAN : [r EXCEPT !.missed = b] \in Connections
  BY DEF Connections
<1> QED BY <1>1, <1>2, <1>3, <1>4, <1>5 DEF Closing

\* q is r, save that it may be closing, that its handlers may have done
\* something other than let it in, and that it may have been missed.
Same(r, q) ==
  /\ q.proc = r.proc /\ q.machine = r.machine /\ q.secret = r.secret /\ q.late = r.late
  /\ (q.phase = r.phase \/ (r.phase = "open" /\ q.phase = "closing"))
  /\ (q.hello = r.hello \/ (r.hello \notin {"granted", "registered"} /\ q.hello \notin {"granted", "registered"}))
  /\ (q.upserting => r.upserting)
  /\ (r.missed => q.missed)

LEMMA SameUpdates ==
  ASSUME NEW r \in Connections
  PROVE  /\ Same(r, r) /\ Same(r, Closing(r))
         /\ Same(r, [r EXCEPT !.missed = TRUE])
         /\ Same(r, [r EXCEPT !.upserting = FALSE])
         /\ \A b \in BOOLEAN : Same(r, [r EXCEPT !.touching = b])
         /\ \A h \in Hellos : /\ r.hello \notin {"granted", "registered"} /\ h \notin {"granted", "registered"}
                              => Same(r, [r EXCEPT !.hello = h])
         /\ r.phase = "open" => Same(r, [r EXCEPT !.phase = "closing"])
<1>1. Same(r, r) /\ Same(r, Closing(r))
  BY DEF Same, Closing, Connections
<1>2. Same(r, [r EXCEPT !.missed = TRUE]) /\ Same(r, [r EXCEPT !.upserting = FALSE])
  BY DEF Same, Connections
<1>3. \A b \in BOOLEAN : Same(r, [r EXCEPT !.touching = b])
  BY DEF Same, Connections
<1>4. \A h \in Hellos : /\ r.hello \notin {"granted", "registered"} /\ h \notin {"granted", "registered"}
                        => Same(r, [r EXCEPT !.hello = h])
  BY DEF Same, Connections
<1>5. r.phase = "open" => Same(r, [r EXCEPT !.phase = "closing"])
  BY DEF Same, Connections
<1> QED BY <1>1, <1>2, <1>3, <1>4, <1>5

LEMMA SameTwice ==
  ASSUME NEW r, NEW q, NEW t, Same(r, q), Same(q, t)
  PROVE  Same(r, t)
BY DEF Same

LEMMA ClosingKeeps ==
  ASSUME NEW r \in Connections
  PROVE  /\ Closing(r).hello = r.hello /\ Closing(r).proc = r.proc /\ Closing(r).machine = r.machine
         /\ Closing(r).phase # "open"
<1>1. CASE r.phase = "open"
  <2>1. Closing(r) = [r EXCEPT !.phase = "closing"]
    BY <1>1 DEF Closing
  <2> QED BY <2>1 DEF Connections
<1>2. CASE r.phase # "open"
  BY <1>2 DEF Closing
<1> QED BY <1>1, <1>2

\* What a step may do to a connection that it is not about.
Quiet(d) == conn'[d] = conn[d] \/ (Used(d) /\ conn'[d] \in Connections /\ Same(conn[d], conn'[d]))

\* A step on one connection that leaves it what it is.
LEMMA OneQuiet ==
  ASSUME GatewayTypeOK, NEW c \in Conns, Used(c), NEW r \in Connections, Same(conn[c], r),
         conn' = [conn EXCEPT ![c] = r]
  PROVE  conn' \in [Conns -> Connections \cup {Unused}] /\ \A d \in Conns : Quiet(d)
BY OneUpdate DEF Quiet

\* The steps that leave every connection what it is.
LEMMA QuietSteps ==
  ASSUME GatewayTypeOK,
         \/ \E o \in Orgs, m \in Machines : CreateCredential(o, m)
         \/ \E o \in Orgs, m \in Machines, p \in Processes : RotateCredential(p, o, m) \/ RevokeCredential(p, o, m)
         \/ \E p \in Processes, m \in Machines : CloseRevoked(p, m) \/ WriteOffline(p, m) \/ OfflineFails(p, m)
         \/ \E c \in Conns : \/ Refuse(c) \/ EarlyFrame(c) \/ AuthTimeout(c)
                             \/ WriteOnline(c) \/ Heartbeat(c) \/ WriteTouch(c) \/ StatementFails(c)
         \/ \E m \in Machines : Age(m)
         \/ Sweep
         \/ UNCHANGED gatewayVars
  PROVE  conn' \in [Conns -> Connections \cup {Unused}] /\ \A d \in Conns : Quiet(d)
<1> DEFINE Goal == conn' \in [Conns -> Connections \cup {Unused}] /\ \A d \in Conns : Quiet(d)
<1>a. conn \in [Conns -> Connections \cup {Unused}]
  BY DEF GatewayTypeOK
<1>b. ASSUME conn' = conn
      PROVE  Goal
  BY <1>a, <1>b DEF Quiet
<1>1. CASE \E o \in Orgs, m \in Machines : CreateCredential(o, m)
  BY <1>1, <1>b DEF CreateCredential
<1>2. ASSUME NEW cs \in SUBSET Conns, Overlooked(cs), \A c \in cs : Used(c)
      PROVE  Goal
  <2>1. ASSUME NEW d \in Conns
        PROVE  conn'[d] \in Connections \cup {Unused} /\ Quiet(d)
    <3>1. conn'[d] = conn[d] \/ (d \in cs /\ conn'[d] = [conn[d] EXCEPT !.missed = TRUE])
      BY <1>2 DEF Overlooked
    <3> QED BY <1>2, <1>a, <3>1, UsedOrFree, Fields, SameUpdates DEF Quiet
  <2> QED BY <1>2, <2>1 DEF Overlooked
<1>3. ASSUME NEW o \in Orgs, NEW m \in Machines, NEW p \in Processes,
             RotateCredential(p, o, m) \/ RevokeCredential(p, o, m)
      PROVE  Goal
  <2>1. OutOfReach(p, m) \in SUBSET Conns /\ \A c \in OutOfReach(p, m) : Used(c)
    BY DEF OutOfReach, Known
  <2>2. Overlooked(OutOfReach(p, m))
    BY <1>3 DEF RotateCredential, RevokeCredential
  <2> QED BY <1>2, <2>1, <2>2
<1>4. ASSUME NEW p \in Processes, NEW m \in Machines, CloseRevoked(p, m)
      PROVE  Goal
  <2>1. ASSUME NEW d \in Conns
        PROVE  conn'[d] \in Connections \cup {Unused} /\ Quiet(d)
    <3>1. \/ conn'[d] = conn[d]
          \/ conn'[d] = Closing(conn[d])
          \/ Used(d) /\ conn'[d] = [conn[d] EXCEPT !.missed = TRUE]
      BY <1>4 DEF CloseRevoked, Known
    <3>2. ~Used(d) => Closing(conn[d]) = conn[d]
      BY UsedOrFree DEF Closing, Unused
    <3> QED BY <1>a, <3>1, <3>2, UsedOrFree, Fields, SameUpdates DEF Quiet
  <2> QED BY <1>4, <2>1 DEF CloseRevoked
<1>5. CASE \E p \in Processes, m \in Machines : WriteOffline(p, m) \/ OfflineFails(p, m)
  BY <1>5, <1>b DEF WriteOffline, OfflineFails
<1>6. ASSUME NEW c \in Conns, Refuse(c)
      PROVE  Goal
  <2> DEFINE q == Closing(conn[c])
  <2>1. Used(c) /\ conn[c] \in Connections /\ conn[c].hello = "refused"
    BY <1>6, UsedOrFree DEF Refuse
  <2>2. q \in Connections /\ Same(conn[c], q) /\ q.hello = "refused"
    BY <2>1, Fields, SameUpdates, ClosingKeeps
  <2> HIDE DEF q
  <2>3. [q EXCEPT !.hello = "over"] \in Connections /\ Same(q, [q EXCEPT !.hello = "over"])
    BY <2>2, Fields, SameUpdates DEF Hellos
  <2>4. Same(conn[c], [q EXCEPT !.hello = "over"])
    BY <2>2, <2>3, SameTwice
  <2> QED BY <1>6, <2>1, <2>3, <2>4, OneQuiet DEF Refuse, q
<1>7. ASSUME NEW c \in Conns, EarlyFrame(c) \/ AuthTimeout(c)
      PROVE  Goal
  <2>1. Used(c) /\ conn[c] \in Connections /\ conn[c].phase = "open"
    BY <1>7, UsedOrFree DEF EarlyFrame, AuthTimeout, IsLive, Used
  <2>2. conn' = [conn EXCEPT ![c] = [conn[c] EXCEPT !.phase = "closing"]]
    BY <1>7, <1>a DEF EarlyFrame, AuthTimeout, Set
  <2> QED BY <2>1, <2>2, Fields, SameUpdates, OneQuiet
<1>8. ASSUME NEW c \in Conns, WriteOnline(c) \/ Heartbeat(c) \/ WriteTouch(c)
      PROVE  Goal
  <2>1. Used(c) /\ conn[c] \in Connections
    BY <1>8, UsedOrFree DEF WriteOnline, Heartbeat, WriteTouch, IsLive, Used
  <2>2. \/ conn' = [conn EXCEPT ![c] = [conn[c] EXCEPT !.upserting = FALSE]]
        \/ \E b \in BOOLEAN : conn' = [conn EXCEPT ![c] = [conn[c] EXCEPT !.touching = b]]
    BY <1>8, <1>a DEF WriteOnline, Heartbeat, WriteTouch, Set
  <2> QED BY <2>1, <2>2, Fields, SameUpdates, OneQuiet
<1>9. ASSUME NEW c \in Conns, StatementFails(c)
      PROVE  Goal
  <2>1. Used(c) /\ conn[c] \in Connections
    BY <1>9, UsedOrFree DEF StatementFails
  <2>2. \/ conn[c].hello = "asked" /\ conn' = [conn EXCEPT ![c] = [conn[c] EXCEPT !.hello = "failed"]]
        \/ conn' = [conn EXCEPT ![c] = [conn[c] EXCEPT !.upserting = FALSE]]
        \/ conn' = [conn EXCEPT ![c] = [conn[c] EXCEPT !.touching = FALSE]]
    BY <1>9, <1>a DEF StatementFails, Set
  <2>3. CASE conn[c].hello = "asked" /\ conn' = [conn EXCEPT ![c] = [conn[c] EXCEPT !.hello = "failed"]]
    BY <2>1, <2>3, Fields, SameUpdates, OneQuiet DEF Hellos
  <2>4. CASE conn' = [conn EXCEPT ![c] = [conn[c] EXCEPT !.upserting = FALSE]]
    BY <2>1, <2>4, Fields, SameUpdates, OneQuiet
  <2>5. CASE conn' = [conn EXCEPT ![c] = [conn[c] EXCEPT !.touching = FALSE]]
    BY <2>1, <2>5, Fields, SameUpdates, OneQuiet
  <2> QED BY <2>2, <2>3, <2>4, <2>5
<1>10. CASE (\E m \in Machines : Age(m)) \/ Sweep \/ UNCHANGED gatewayVars
  BY <1>10, <1>b DEF Age, Sweep, gatewayVars
<1> QED BY <1>1, <1>3, <1>4, <1>5, <1>6, <1>7, <1>8, <1>9, <1>10

\* What a quiet step does to what the invariants ask of a connection.
LEMMA QuietConn ==
  ASSUME NEW d \in Conns, Quiet(d)
  PROVE  /\ Used(d)' => /\ Used(d) /\ conn'[d].proc = conn[d].proc /\ conn'[d].machine = conn[d].machine
                        /\ conn'[d].secret = conn[d].secret
         /\ IsLive(d)' => IsLive(d)
         /\ Registered(d)' <=> Registered(d)
         /\ Known(d)' <=> Known(d)
         /\ Used(d)' /\ conn'[d].phase = "gone" => conn[d].phase = "gone"
<1>1. CASE conn'[d] = conn[d]
  BY <1>1 DEF Used, IsLive, Registered, Known
<1>2. CASE Used(d) /\ conn'[d] \in Connections /\ Same(conn[d], conn'[d])
  <2>1. Used(d)'
    BY <1>2 DEF Used, Connections
  <2> QED BY <1>2, <2>1 DEF Same, Used, IsLive, Registered, Known
<1> QED BY <1>1, <1>2 DEF Quiet

\* Quiet steps keep the map true, when they leave it alone,
LEMMA QuietMap ==
  ASSUME GatewayTypeOK, LiveIsRouted, GhostsOvertookHello, \A d \in Conns : Quiet(d), UNCHANGED daemonSockets
  PROVE  LiveIsRouted' /\ GhostsOvertookHello'
<1>1. LiveIsRouted'
  BY QuietConn DEF LiveIsRouted, Registered
<1>2. GhostsOvertookHello'
  <2> SUFFICES ASSUME NEW p \in Processes, NEW m \in Machines, daemonSockets[p][m] # None
               PROVE  LET c == daemonSockets[p][m] IN
                        /\ Registered(c)' /\ conn'[c].proc = p /\ conn'[c].machine = m
                        /\ conn'[c].phase = "gone" => conn'[c].late
    BY DEF GhostsOvertookHello
  <2> DEFINE c == daemonSockets[p][m]
  <2>1. c \in Conns
    BY DEF GatewayTypeOK
  <2>2. /\ Registered(c) /\ conn[c].proc = p /\ conn[c].machine = m
        /\ conn[c].phase = "gone" => conn[c].late
    BY DEF GhostsOvertookHello
  <2>3. Registered(c)' /\ conn'[c].proc = p /\ conn'[c].machine = m
    BY <2>1, <2>2, QuietConn DEF Registered
  <2>4. conn'[c].late = conn[c].late
    BY <2>1 DEF Quiet, Same
  <2>5. conn'[c].phase = "gone" => conn[c].phase = "gone"
    BY <2>1, <2>3, QuietConn DEF Registered
  <2> QED BY <2>2, <2>3, <2>4, <2>5
<1> QED BY <1>1, <1>2

\* leave who is known with a credential, when no credential goes,
LEMMA QuietKnown ==
  ASSUME KnownHasCredential, \A d \in Conns : Quiet(d),
         \A d \in Conns : Known(d) /\ credential[conn[d].machine] # None => credential'[conn[d].machine] # None
  PROVE  KnownHasCredential'
<1> SUFFICES ASSUME NEW d \in Conns
             PROVE  /\ Known(d)' => credential'[conn'[d].machine] # None
                    /\ Used(d)' /\ conn'[d].upserting => Registered(d)'
  BY DEF KnownHasCredential
<1>1. Known(d)' => Known(d) /\ conn'[d].machine = conn[d].machine
  BY QuietConn DEF Known
<1>2. Used(d)' /\ conn'[d].upserting => Used(d) /\ conn[d].upserting
  BY QuietConn DEF Quiet, Same
<1> QED BY <1>1, <1>2, QuietConn DEF KnownHasCredential

\* and leave who is stale cut, when no credential changes and no cut is done.
LEMMA QuietStale ==
  ASSUME StaleIsCut, \A d \in Conns : Quiet(d), UNCHANGED credential, cuts \subseteq cuts'
  PROVE  StaleIsCut'
<1> SUFFICES ASSUME NEW d \in Conns, IsLive(d)', Known(d)', Stale(d)', ~conn'[d].missed
             PROVE  <<conn'[d].proc, conn'[d].machine>> \in cuts'
  BY DEF StaleIsCut
<1>1. /\ IsLive(d) /\ Known(d) /\ conn'[d].proc = conn[d].proc /\ conn'[d].machine = conn[d].machine
      /\ conn'[d].secret = conn[d].secret
  BY QuietConn DEF Known
<1>2. Stale(d)
  BY <1>1 DEF Stale
<1>3. ~conn[d].missed
  BY DEF Quiet, Same
<1> QED BY <1>1, <1>2, <1>3 DEF StaleIsCut

-----------------------------------------------------------------------------
(* The steps that change what a connection is.                             *)

\* Authenticate lets in who shows the present secret.
LEMMA AuthenticateStep ==
  ASSUME GatewayIInv, NEW c \in Conns, Authenticate(c)
  PROVE  /\ conn' \in [Conns -> Connections \cup {Unused}]
         /\ LiveIsRouted' /\ GhostsOvertookHello' /\ KnownHasCredential' /\ StaleIsCut'
<1> DEFINE h == IF Valid(conn[c].machine, conn[c].secret) THEN "granted" ELSE "refused"
           r == [conn[c] EXCEPT !.hello = h]
<1> USE DEF GatewayIInv, GatewayInv
<1>1. Used(c) /\ conn[c] \in Connections /\ conn[c].hello = "asked" /\ h \in Hellos
  BY UsedOrFree DEF Authenticate, Hellos
<1>2. r \in Connections /\ conn' = [conn EXCEPT ![c] = r]
  BY <1>1, Fields DEF Authenticate, Set, GatewayTypeOK
<1>3. /\ conn' \in [Conns -> Connections \cup {Unused}]
      /\ conn'[c] = r
      /\ \A d \in Conns \ {c} : conn'[d] = conn[d]
  BY <1>2, OneUpdate
<1>4. /\ r.hello = h /\ r.proc = conn[c].proc /\ r.machine = conn[c].machine
      /\ r.secret = conn[c].secret /\ r.upserting = conn[c].upserting
  BY <1>1 DEF Connections
<1> HIDE DEF r
<1>5. ~Registered(c) /\ ~Registered(c)'
  BY <1>1, <1>3, <1>4 DEF Registered
<1>6. LiveIsRouted'
  BY <1>3, <1>5 DEF LiveIsRouted, IsLive, Registered, Used, Authenticate
<1>7. GhostsOvertookHello'
  <2>1. \A p \in Processes, m \in Machines : daemonSockets[p][m] # None => daemonSockets[p][m] \in Conns \ {c}
    BY <1>5 DEF GhostsOvertookHello, GatewayTypeOK
  <2> QED BY <1>3, <2>1 DEF GhostsOvertookHello, Registered, Used, Authenticate
<1>8. KnownHasCredential'
  <2>1. Known(c)' => credential'[conn'[c].machine] # None
    BY <1>3, <1>4 DEF Known, Valid, Authenticate
  <2>2. ~conn'[c].upserting
    BY <1>1, <1>3, <1>4, <1>5 DEF KnownHasCredential
  <2> QED BY <1>3, <2>1, <2>2 DEF KnownHasCredential, Known, Used, Registered, Authenticate
<1>9. StaleIsCut'
  <2>1. Known(c)' => ~Stale(c)'
    BY <1>3, <1>4 DEF Known, Valid, Stale, Authenticate
  <2> QED BY <1>3, <2>1 DEF StaleIsCut, IsLive, Known, Used, Stale, Authenticate
<1> QED BY <1>3, <1>6, <1>7, <1>8, <1>9

\* Connect starts a connection that is not known yet, Forget ends one that
\* the map does not hold.
LEMMA ConnectForgetStep ==
  ASSUME GatewayIInv, NEW c \in Conns,
         \/ \E p \in Processes, m \in Machines : \E secret \in Secrets(m) : Connect(c, p, m, secret)
         \/ Forget(c)
  PROVE  /\ conn' \in [Conns -> Connections \cup {Unused}]
         /\ LiveIsRouted' /\ GhostsOvertookHello' /\ KnownHasCredential' /\ StaleIsCut'
<1> USE DEF GatewayIInv, GatewayInv
<1>1. PICK r \in Connections \cup {Unused} :
        /\ conn' = [conn EXCEPT ![c] = r]
        /\ r = Unused \/ (r.hello = "asked" /\ ~r.upserting)
  <2>1. ASSUME NEW p \in Processes, NEW m \in Machines, NEW secret \in Secrets(m), Connect(c, p, m, secret)
        PROVE  \E r \in Connections \cup {Unused} :
                 /\ conn' = [conn EXCEPT ![c] = r]
                 /\ r = Unused \/ (r.hello = "asked" /\ ~r.upserting)
    <3> DEFINE r == [phase |-> "open", proc |-> p, machine |-> m, hello |-> "asked", secret |-> secret,
                     upserting |-> FALSE, touching |-> FALSE, late |-> FALSE, missed |-> FALSE]
    <3>1. secret \in Nat
      BY <2>1 DEF Secrets, GatewayTypeOK, Credentials
    <3>2. r \in Connections /\ r.hello = "asked" /\ ~r.upserting
      BY <3>1 DEF Connections, Hellos
    <3>3. conn' = [conn EXCEPT ![c] = r]
      BY <2>1 DEF Connect
    <3> QED BY <3>2, <3>3
  <2>2. CASE Forget(c)
    BY <2>2 DEF Forget
  <2> QED BY <2>1, <2>2
<1>2. /\ conn' \in [Conns -> Connections \cup {Unused}]
      /\ conn'[c] = r
      /\ \A d \in Conns \ {c} : conn'[d] = conn[d]
  BY <1>1, OneUpdate
<1>3. UNCHANGED <<credential, daemonSockets, cuts>>
  BY DEF Connect, Forget
<1>4. ~Known(c)' /\ ~Registered(c)' /\ (Used(c)' => ~conn'[c].upserting)
  BY <1>1, <1>2 DEF Known, Registered, Used, Unused
<1>5. \A p \in Processes, m \in Machines : daemonSockets[p][m] # c
  <2>1. CASE Forget(c)
    BY <2>1 DEF Forget
  <2>2. CASE conn[c] = Unused
    <3>1. ~Registered(c)
      BY <2>2 DEF Registered, Used, Unused
    <3> QED BY <3>1 DEF GhostsOvertookHello
  <2> QED BY <2>1, <2>2 DEF Connect
<1>6. LiveIsRouted'
  BY <1>2, <1>3, <1>4 DEF LiveIsRouted, IsLive, Registered, Used
<1>7. GhostsOvertookHello'
  <2>1. \A p \in Processes, m \in Machines : daemonSockets[p][m] # None => daemonSockets[p][m] \in Conns \ {c}
    BY <1>5 DEF GatewayTypeOK
  <2> QED BY <1>2, <1>3, <2>1 DEF GhostsOvertookHello, Registered, Used
<1>8. KnownHasCredential'
  BY <1>2, <1>3, <1>4 DEF KnownHasCredential, Known, Used, Registered
<1>9. StaleIsCut'
  BY <1>2, <1>3, <1>4 DEF StaleIsCut, IsLive, Known, Used, Stale
<1> QED BY <1>2, <1>6, <1>7, <1>8, <1>9

\* RegisterDaemon takes the place of the connection that was in the map, and closes
\* it.
LEMMA RegisterStep ==
  ASSUME GatewayIInv, NEW c \in Conns, RegisterDaemon(c)
  PROVE  /\ conn' \in [Conns -> Connections \cup {Unused}]
         /\ daemonSockets' \in [Processes -> [Machines -> Conns \cup {None}]]
         /\ LiveIsRouted' /\ GhostsOvertookHello' /\ KnownHasCredential' /\ StaleIsCut'
<1> DEFINE p == conn[c].proc
           m == conn[c].machine
           r == [conn[c] EXCEPT !.hello = "registered", !.upserting = TRUE,
                                !.late = conn[c].phase = "gone"]
<1> USE DEF GatewayIInv, GatewayInv
<1>1. /\ Used(c) /\ conn[c] \in Connections /\ conn[c].hello = "granted"
      /\ p \in Processes /\ m \in Machines
  BY UsedOrFree DEF RegisterDaemon, Connections
<1>2. /\ r \in Connections /\ r.hello = "registered" /\ r.proc = p /\ r.machine = m
      /\ r.phase = conn[c].phase /\ r.secret = conn[c].secret /\ r.missed = conn[c].missed
      /\ r.phase = "gone" => r.late
  BY <1>1 DEF Connections, Hellos
<1>3. /\ conn'[c] = r
      /\ \A d \in Conns \ {c} :
           conn'[d] = IF d \in Replaced(c, p, m) THEN Closing(conn[d]) ELSE conn[d]
      /\ conn' \in [Conns -> {conn'[d] : d \in Conns}]
  BY DEF RegisterDaemon
<1>4. daemonSockets' = [daemonSockets EXCEPT ![p][m] = c] /\ UNCHANGED <<credential, cuts>>
  BY DEF RegisterDaemon
<1> HIDE DEF r, p, m
<1>5. \A d \in Conns \ {c} : Quiet(d) /\ conn'[d] \in Connections \cup {Unused}
  <2> SUFFICES ASSUME NEW d \in Conns \ {c}
               PROVE  Quiet(d) /\ conn'[d] \in Connections \cup {Unused}
    OBVIOUS
  <2>1. ~Used(d) => Closing(conn[d]) = conn[d]
    BY UsedOrFree DEF Closing, Unused
  <2>2. conn[d] \in Connections \cup {Unused}
    BY DEF GatewayTypeOK
  <2> QED BY <1>3, <2>1, <2>2, UsedOrFree, Fields, SameUpdates DEF Quiet
<1>6. conn' \in [Conns -> Connections \cup {Unused}]
  BY <1>2, <1>3, <1>5
<1>7. /\ daemonSockets' \in [Processes -> [Machines -> Conns \cup {None}]]
      /\ daemonSockets'[p][m] = c
      /\ \A i \in Processes, n \in Machines :
           (i # p \/ n # m) => daemonSockets'[i][n] = daemonSockets[i][n]
  BY <1>1, <1>4 DEF GatewayTypeOK
<1>8. Known(c) /\ ~Registered(c)
  BY <1>1 DEF Known, Registered
<1>9. LiveIsRouted'
  <2> SUFFICES ASSUME NEW d \in Conns \ {c}, IsLive(d)', Registered(d)'
               PROVE  daemonSockets'[conn'[d].proc][conn'[d].machine] = d
    BY <1>2, <1>3, <1>7 DEF LiveIsRouted
  <2>1. /\ IsLive(d) /\ Registered(d) /\ conn'[d].proc = conn[d].proc
        /\ conn'[d].machine = conn[d].machine
    BY <1>5, QuietConn DEF Registered
  <2>2. daemonSockets[conn[d].proc][conn[d].machine] = d
    BY <2>1 DEF LiveIsRouted
  <2>3. conn[d] \in Connections
    BY <2>1, UsedOrFree DEF Registered
  <2>4. d \notin Replaced(c, p, m)
    BY <1>3, <2>3, ClosingKeeps DEF IsLive
  <2>5. conn[d].proc # p \/ conn[d].machine # m
    BY <2>2, <2>4 DEF Replaced
  <2>6. conn[d].proc \in Processes /\ conn[d].machine \in Machines
    BY <2>3 DEF Connections
  <2> QED BY <1>7, <2>1, <2>2, <2>5, <2>6
<1>10. GhostsOvertookHello'
  <2>1. ASSUME NEW i \in Processes, NEW n \in Machines, NEW d \in Conns, d = daemonSockets'[i][n]
        PROVE  /\ Registered(d)' /\ conn'[d].proc = i /\ conn'[d].machine = n
               /\ conn'[d].phase = "gone" => conn'[d].late
    <3>1. CASE i = p /\ n = m
      <4>1. d = c
        BY <1>7, <2>1, <3>1
      <4> QED BY <1>2, <1>3, <3>1, <4>1 DEF Registered, Used, Connections
    <3>2. CASE i # p \/ n # m
      <4>1. daemonSockets[i][n] = d /\ d # None
        BY <1>7, <2>1, <3>2
      <4>2. /\ Registered(d) /\ conn[d].proc = i /\ conn[d].machine = n
            /\ conn[d].phase = "gone" => conn[d].late
        BY <4>1 DEF GhostsOvertookHello
      <4>3. d \in Conns \ {c}
        BY <1>8, <4>2
      <4>4. Registered(d)' /\ conn'[d].proc = i /\ conn'[d].machine = n
        BY <1>5, <4>2, <4>3, QuietConn DEF Registered
      <4>5. conn'[d].late = conn[d].late
        BY <1>5, <4>3 DEF Quiet, Same
      <4>6. conn'[d].phase = "gone" => conn[d].phase = "gone"
        BY <1>5, <4>3, <4>4, QuietConn DEF Registered
      <4> QED BY <4>2, <4>4, <4>5, <4>6
    <3> QED BY <3>1, <3>2
  <2>2. \A i \in Processes, n \in Machines : daemonSockets'[i][n] # None => daemonSockets'[i][n] \in Conns
    BY <1>7
  <2> QED BY <2>1, <2>2 DEF GhostsOvertookHello
<1>11. KnownHasCredential'
  <2> SUFFICES ASSUME NEW d \in Conns
               PROVE  /\ Known(d)' => credential[conn'[d].machine] # None
                      /\ Used(d)' /\ conn'[d].upserting => Registered(d)'
    BY <1>4 DEF KnownHasCredential
  <2>1. CASE d = c
    <3>1. Registered(c)'
      BY <1>2, <1>3 DEF Registered, Used, Connections
    <3> QED BY <1>2, <1>3, <1>8, <2>1, <3>1 DEF KnownHasCredential, m
  <2>2. CASE d # c
    <3>1. Known(d)' => Known(d) /\ conn'[d].machine = conn[d].machine
      BY <1>5, <2>2, QuietConn DEF Known
    <3>2. Used(d)' /\ conn'[d].upserting => Used(d) /\ conn[d].upserting
      BY <1>5, <2>2, QuietConn DEF Quiet, Same
    <3> QED BY <1>5, <2>2, <3>1, <3>2, QuietConn DEF KnownHasCredential
  <2> QED BY <2>1, <2>2
<1>12. StaleIsCut'
  <2> SUFFICES ASSUME NEW d \in Conns, IsLive(d)', Known(d)', Stale(d)', ~conn'[d].missed
               PROVE  <<conn'[d].proc, conn'[d].machine>> \in cuts
    BY <1>4 DEF StaleIsCut
  <2>1. /\ IsLive(d) /\ Known(d) /\ conn'[d].proc = conn[d].proc /\ conn'[d].machine = conn[d].machine
        /\ conn'[d].secret = conn[d].secret
    <3>1. CASE d = c
      BY <1>2, <1>3, <1>8, <3>1 DEF IsLive, p, m
    <3>2. CASE d # c
      BY <1>5, <3>2, QuietConn DEF Known
    <3> QED BY <3>1, <3>2
  <2>2. Stale(d)
    BY <1>4, <2>1 DEF Stale
  <2>3. ~conn[d].missed
    BY <1>2, <1>3, <1>5 DEF Quiet, Same
  <2> QED BY <2>1, <2>2, <2>3 DEF StaleIsCut
<1> QED BY <1>6, <1>7, <1>9, <1>10, <1>11, <1>12

\* A close event takes its own connection out of the map, and no other.
LEMMA CloseEventStep ==
  ASSUME GatewayIInv, NEW c \in Conns, CloseEvent(c)
  PROVE  /\ conn' \in [Conns -> Connections \cup {Unused}]
         /\ daemonSockets' \in [Processes -> [Machines -> Conns \cup {None}]]
         /\ LiveIsRouted' /\ GhostsOvertookHello' /\ KnownHasCredential' /\ StaleIsCut'
<1> DEFINE p == conn[c].proc
           m == conn[c].machine
           r == [conn[c] EXCEPT !.phase = "gone"]
<1> USE DEF GatewayIInv, GatewayInv
<1>1. Used(c) /\ conn[c] \in Connections /\ p \in Processes /\ m \in Machines
  BY UsedOrFree DEF CloseEvent, Connections
<1>2. /\ r \in Connections /\ r.hello = conn[c].hello /\ r.machine = m
      /\ r.upserting = conn[c].upserting /\ r.phase = "gone"
  BY <1>1 DEF Connections
<1>3. conn' = [conn EXCEPT ![c] = r]
  BY <1>1 DEF CloseEvent, Set, GatewayTypeOK
<1> HIDE DEF r, p, m
<1>4. /\ conn' \in [Conns -> Connections \cup {Unused}]
      /\ conn'[c] = r
      /\ \A d \in Conns \ {c} : conn'[d] = conn[d]
  BY <1>2, <1>3, OneUpdate
<1>5. /\ daemonSockets' = IF StillMine(c) THEN [daemonSockets EXCEPT ![p][m] = None] ELSE daemonSockets
      /\ UNCHANGED <<credential, cuts>>
  BY DEF CloseEvent, p, m
<1>6. /\ daemonSockets' \in [Processes -> [Machines -> Conns \cup {None}]]
      /\ \A i \in Processes, n \in Machines :
           daemonSockets'[i][n] # daemonSockets[i][n] => i = p /\ n = m /\ StillMine(c)
      /\ StillMine(c) => daemonSockets'[p][m] = None /\ daemonSockets[p][m] = c
  BY <1>1, <1>5 DEF GatewayTypeOK, StillMine, p, m
<1>7. \A i \in Processes, n \in Machines : daemonSockets[i][n] = c => i = p /\ n = m /\ StillMine(c)
  BY DEF GhostsOvertookHello, StillMine, p, m
<1>8. LiveIsRouted'
  <2> SUFFICES ASSUME NEW d \in Conns, IsLive(d)', Registered(d)'
               PROVE  daemonSockets'[conn'[d].proc][conn'[d].machine] = d
    BY DEF LiveIsRouted
  <2>1. d # c /\ conn'[d] = conn[d]
    BY <1>2, <1>4 DEF IsLive
  <2>2. IsLive(d) /\ Registered(d) /\ conn[d].proc \in Processes /\ conn[d].machine \in Machines
    BY <2>1, UsedOrFree DEF IsLive, Registered, Used, Connections
  <2>3. daemonSockets[conn[d].proc][conn[d].machine] = d
    BY <2>2 DEF LiveIsRouted
  <2> QED BY <1>6, <2>1, <2>2, <2>3
<1>9. GhostsOvertookHello'
  <2>1. ASSUME NEW i \in Processes, NEW n \in Machines, NEW d \in Conns, d = daemonSockets'[i][n]
        PROVE  /\ Registered(d)' /\ conn'[d].proc = i /\ conn'[d].machine = n
               /\ conn'[d].phase = "gone" => conn'[d].late
    <3>1. daemonSockets[i][n] = d /\ d # None
      BY <1>6, <2>1
    <3>2. d # c
      BY <1>6, <1>7, <2>1, <3>1
    <3>3. /\ Registered(d) /\ conn[d].proc = i /\ conn[d].machine = n
          /\ conn[d].phase = "gone" => conn[d].late
      BY <3>1 DEF GhostsOvertookHello
    <3> QED BY <1>4, <3>2, <3>3 DEF Registered, Used
  <2>2. \A i \in Processes, n \in Machines : daemonSockets'[i][n] # None => daemonSockets'[i][n] \in Conns
    BY <1>6
  <2> QED BY <2>1, <2>2 DEF GhostsOvertookHello
<1>10. KnownHasCredential'
  <2> SUFFICES ASSUME NEW d \in Conns
               PROVE  /\ Known(d)' => credential[conn'[d].machine] # None
                      /\ Used(d)' /\ conn'[d].upserting => Registered(d)'
    BY <1>5 DEF KnownHasCredential
  <2>1. /\ conn'[d].machine = conn[d].machine /\ conn'[d].hello = conn[d].hello
        /\ conn'[d].upserting = conn[d].upserting
        /\ Used(d)' <=> Used(d)
    <3>1. CASE d = c
      BY <1>1, <1>2, <1>4, <3>1 DEF m, Used
    <3>2. CASE d # c
      BY <1>4, <3>2 DEF Used
    <3> QED BY <3>1, <3>2
  <2> QED BY <2>1 DEF KnownHasCredential, Known, Registered
<1>11. StaleIsCut'
  <2> SUFFICES ASSUME NEW d \in Conns, IsLive(d)', Known(d)', Stale(d)', ~conn'[d].missed
               PROVE  <<conn'[d].proc, conn'[d].machine>> \in cuts
    BY <1>5 DEF StaleIsCut
  <2>1. conn'[d] = conn[d]
    BY <1>2, <1>4 DEF IsLive
  <2> QED BY <1>5, <2>1 DEF StaleIsCut, IsLive, Known, Used, Stale
<1> QED BY <1>4, <1>6, <1>8, <1>9, <1>10, <1>11

\* A crash takes the connections of a process with their map and their cuts.
LEMMA CrashStep ==
  ASSUME GatewayIInv, NEW p \in Processes, Crash(p)
  PROVE  /\ conn' \in [Conns -> Connections \cup {Unused}]
         /\ daemonSockets' \in [Processes -> [Machines -> Conns \cup {None}]]
         /\ LiveIsRouted' /\ GhostsOvertookHello' /\ KnownHasCredential' /\ StaleIsCut'
<1> USE DEF GatewayIInv, GatewayInv
<1>1. /\ conn' \in [Conns -> Connections \cup {Unused}]
      /\ \A d \in Conns : conn'[d] = IF Used(d) /\ conn[d].proc = p THEN Unused ELSE conn[d]
  BY DEF Crash, GatewayTypeOK
<1>2. /\ daemonSockets' \in [Processes -> [Machines -> Conns \cup {None}]]
      /\ \A m \in Machines : daemonSockets'[p][m] = None
      /\ \A i \in Processes \ {p} : daemonSockets'[i] = daemonSockets[i]
      /\ UNCHANGED credential /\ cuts' = {x \in cuts : x[1] # p}
  BY DEF Crash, GatewayTypeOK
<1>3. \A d \in Conns : Used(d)' => conn'[d] = conn[d] /\ Used(d) /\ conn[d].proc # p
  BY <1>1 DEF Used, Unused
<1>4. LiveIsRouted'
  <2> SUFFICES ASSUME NEW d \in Conns, IsLive(d)', Registered(d)'
               PROVE  daemonSockets'[conn'[d].proc][conn'[d].machine] = d
    BY DEF LiveIsRouted
  <2>1. conn'[d] = conn[d] /\ conn[d].proc \in Processes \ {p} /\ IsLive(d) /\ Registered(d)
    BY <1>3, UsedOrFree DEF IsLive, Registered, Connections
  <2> QED BY <1>2, <2>1 DEF LiveIsRouted
<1>5. GhostsOvertookHello'
  <2>1. ASSUME NEW i \in Processes, NEW n \in Machines, NEW d \in Conns, d = daemonSockets'[i][n]
        PROVE  /\ Registered(d)' /\ conn'[d].proc = i /\ conn'[d].machine = n
               /\ conn'[d].phase = "gone" => conn'[d].late
    <3>1. i # p /\ daemonSockets[i][n] = d /\ d # None
      BY <1>2, <2>1
    <3>2. /\ Registered(d) /\ conn[d].proc = i /\ conn[d].machine = n
          /\ conn[d].phase = "gone" => conn[d].late
      BY <3>1 DEF GhostsOvertookHello
    <3> QED BY <1>1, <3>1, <3>2 DEF Registered, Used
  <2>2. \A i \in Processes, n \in Machines : daemonSockets'[i][n] # None => daemonSockets'[i][n] \in Conns
    BY <1>2
  <2> QED BY <2>1, <2>2 DEF GhostsOvertookHello
<1>6. KnownHasCredential'
  BY <1>2, <1>3 DEF KnownHasCredential, Known, Registered
<1>7. StaleIsCut'
  <2> SUFFICES ASSUME NEW d \in Conns, IsLive(d)', Known(d)', Stale(d)', ~conn'[d].missed
               PROVE  <<conn'[d].proc, conn'[d].machine>> \in cuts'
    BY DEF StaleIsCut
  <2>1. conn'[d] = conn[d] /\ conn[d].proc # p /\ IsLive(d) /\ Known(d) /\ Stale(d)
    BY <1>2, <1>3 DEF IsLive, Known, Stale
  <2> QED BY <1>2, <2>1 DEF StaleIsCut
<1> QED BY <1>1, <1>2, <1>4, <1>5, <1>6, <1>7

\* A rotation or revocation: what it makes stale is cut here, and missed on
\* other processes.
LEMMA ChangeStep ==
  ASSUME GatewayIInv, NEW o \in Orgs, NEW m \in Machines, NEW p \in Processes,
         RotateCredential(p, o, m) \/ RevokeCredential(p, o, m)
  PROVE  LiveIsRouted' /\ GhostsOvertookHello' /\ KnownHasCredential' /\ StaleIsCut'
<1> USE DEF GatewayIInv, GatewayInv
<1>1. \A d \in Conns : Quiet(d)
  BY QuietSteps
<1>2. /\ \E r : credential' = [credential EXCEPT ![m] = r] /\ r \in Credentials
      /\ cuts' = cuts \cup {<<p, m>>} /\ UNCHANGED daemonSockets
      /\ Overlooked(OutOfReach(p, m))
  <2>1. credential[m] \in Credentials /\ changes' \in 1..MaxChanges
    BY DEF RotateCredential, RevokeCredential, Owned, Changed, GatewayTypeOK
  <2>2. /\ [credential[m] EXCEPT !.secret = changes'] \in Credentials
        /\ [credential[m] EXCEPT !.revoked = TRUE] \in Credentials
    BY <2>1 DEF Credentials
  <2>3. \/ credential' = [credential EXCEPT ![m] = [credential[m] EXCEPT !.secret = changes']]
        \/ credential' = [credential EXCEPT ![m] = [credential[m] EXCEPT !.revoked = TRUE]]
    BY DEF RotateCredential, RevokeCredential
  <2> QED BY <2>2, <2>3 DEF RotateCredential, RevokeCredential
<1>3. LiveIsRouted' /\ GhostsOvertookHello'
  BY <1>1, <1>2, QuietMap
<1>4. /\ credential'[m] # None
      /\ \A n \in Machines \ {m} : credential'[n] = credential[n]
  BY <1>2 DEF GatewayTypeOK
<1>5. \A d \in Conns : Known(d) => conn[d].machine \in Machines /\ conn[d].proc \in Processes
  BY UsedOrFree DEF Known, Connections
<1>6. KnownHasCredential'
  BY <1>1, <1>4, <1>5, QuietKnown
<1>7. StaleIsCut'
  <2> SUFFICES ASSUME NEW d \in Conns, IsLive(d)', Known(d)', Stale(d)', ~conn'[d].missed
               PROVE  <<conn'[d].proc, conn'[d].machine>> \in cuts'
    BY DEF StaleIsCut
  <2>1. /\ IsLive(d) /\ Known(d) /\ conn'[d].proc = conn[d].proc /\ conn'[d].machine = conn[d].machine
        /\ conn'[d].secret = conn[d].secret
    BY <1>1, QuietConn DEF Known
  <2>2. CASE conn[d].machine = m
    <3>1. d \notin OutOfReach(p, m)
      <4> SUFFICES ASSUME d \in OutOfReach(p, m) PROVE FALSE
        OBVIOUS
      <4>1. conn[d] \in Connections
        BY <2>1, UsedOrFree DEF Known
      <4>2. conn'[d] = [conn[d] EXCEPT !.missed = TRUE]
        BY <1>2 DEF Overlooked
      <4> QED BY <4>1, <4>2 DEF Connections
    <3> QED BY <1>2, <2>1, <2>2, <3>1 DEF OutOfReach
  <2>3. CASE conn[d].machine # m
    <3>1. Stale(d)
      BY <1>4, <1>5, <2>1, <2>3 DEF Stale
    <3>2. ~conn[d].missed
      BY <1>1 DEF Quiet, Same
    <3> QED BY <1>2, <2>1, <3>1, <3>2 DEF StaleIsCut
  <2> QED BY <2>2, <2>3
<1> QED BY <1>3, <1>6, <1>7

\* The close after a change reaches the connection in the map, and misses
\* who is between verification and map.
LEMMA CloseRevokedStep ==
  ASSUME GatewayIInv, NEW m \in Machines, NEW p \in Processes, CloseRevoked(p, m)
  PROVE  StaleIsCut'
<1> USE DEF GatewayIInv, GatewayInv
<1>1. \A d \in Conns : Quiet(d)
  BY QuietSteps
<1> SUFFICES ASSUME NEW d \in Conns, IsLive(d)', Known(d)', Stale(d)', ~conn'[d].missed
             PROVE  <<conn'[d].proc, conn'[d].machine>> \in cuts'
  BY DEF StaleIsCut
<1>2. /\ IsLive(d) /\ Known(d) /\ conn'[d].proc = conn[d].proc /\ conn'[d].machine = conn[d].machine
      /\ conn'[d].secret = conn[d].secret
  BY <1>1, QuietConn DEF Known
<1>3. Stale(d) /\ ~conn[d].missed
  <2>1. Stale(d)
    BY <1>2 DEF Stale, CloseRevoked
  <2>2. ~conn[d].missed
    BY <1>1 DEF Quiet, Same
  <2> QED BY <2>1, <2>2
<1>4. <<conn[d].proc, conn[d].machine>> \in cuts
  BY <1>2, <1>3 DEF StaleIsCut
<1>5. conn[d] \in Connections
  BY <1>2, UsedOrFree DEF Known
<1>6. d \notin Cut(p, m)
  <2> SUFFICES ASSUME d \in Cut(p, m) PROVE FALSE
    OBVIOUS
  <2>1. conn'[d] = Closing(conn[d])
    BY DEF CloseRevoked
  <2> QED BY <1>5, <2>1, ClosingKeeps DEF IsLive
<1>7. ~(~Registered(d) /\ conn[d].machine = m)
  <2> SUFFICES ASSUME ~Registered(d), conn[d].machine = m PROVE FALSE
    OBVIOUS
  <2>1. conn'[d] = [conn[d] EXCEPT !.missed = TRUE]
    BY <1>2, <1>6 DEF CloseRevoked
  <2> QED BY <1>5, <2>1 DEF Connections
<1>8. conn[d].machine = m => conn[d].proc # p
  BY <1>2, <1>6, <1>7 DEF LiveIsRouted, Cut
<1> QED BY <1>2, <1>4, <1>8 DEF CloseRevoked

-----------------------------------------------------------------------------
(* Types, and rows.                                                        *)

\* Which steps change which variable.
LEMMA Frames ==
  ASSUME GatewayTypeOK, [GatewayNext]_gatewayVars
  PROVE  /\ \/ UNCHANGED credential
            \/ \E o \in Orgs, m \in Machines : CreateCredential(o, m)
            \/ \E o \in Orgs, m \in Machines, p \in Processes : RotateCredential(p, o, m) \/ RevokeCredential(p, o, m)
         /\ \/ UNCHANGED row
            \/ \E c \in Conns : WriteOnline(c) \/ WriteTouch(c)
            \/ \E p \in Processes, m \in Machines : WriteOffline(p, m)
            \/ \E m \in Machines : Age(m)
            \/ Sweep
         /\ \/ UNCHANGED daemonSockets
            \/ \E c \in Conns : RegisterDaemon(c) \/ CloseEvent(c)
            \/ \E p \in Processes : Crash(p)
         /\ offline' \subseteq Processes \X Machines /\ cuts' \subseteq Processes \X Machines
         /\ changes' \in 0..MaxChanges /\ faults' \in 0..MaxFaults
<1> USE DEF GatewayTypeOK
<1> DEFINE Counts == changes' \in 0..MaxChanges /\ faults' \in 0..MaxFaults
           Pairs == offline' \subseteq Processes \X Machines /\ cuts' \subseteq Processes \X Machines
<1>1. ASSUME NEW o \in Orgs, NEW m \in Machines, CreateCredential(o, m)
      PROVE  UNCHANGED <<row, daemonSockets>> /\ Counts /\ Pairs
  BY <1>1 DEF CreateCredential, Changed
<1>2. ASSUME NEW o \in Orgs, NEW m \in Machines, NEW p \in Processes,
             RotateCredential(p, o, m) \/ RevokeCredential(p, o, m)
      PROVE  UNCHANGED <<row, daemonSockets>> /\ Counts /\ Pairs
  <2>1. UNCHANGED <<row, daemonSockets, offline, faults>> /\ Changed /\ cuts' = cuts \cup {<<p, m>>}
    BY <1>2 DEF RotateCredential, RevokeCredential
  <2> QED BY <2>1 DEF Changed
<1>3. ASSUME NEW p \in Processes, NEW m \in Machines, CloseRevoked(p, m)
      PROVE  UNCHANGED <<credential, row, daemonSockets>> /\ Counts /\ Pairs
  BY <1>3 DEF CloseRevoked
<1>4. ASSUME NEW p \in Processes, NEW m \in Machines, WriteOffline(p, m)
      PROVE  UNCHANGED <<credential, daemonSockets>> /\ Counts /\ Pairs
  BY <1>4 DEF WriteOffline
<1>5. ASSUME NEW p \in Processes, NEW m \in Machines, OfflineFails(p, m)
      PROVE  UNCHANGED <<credential, row, daemonSockets>> /\ Counts /\ Pairs
  BY <1>5 DEF OfflineFails, Fault
<1>6. ASSUME NEW p \in Processes, NEW m \in Machines, NEW c \in Conns, NEW secret \in Secrets(m),
             Connect(c, p, m, secret)
      PROVE  UNCHANGED <<credential, row, daemonSockets>> /\ Counts /\ Pairs
  BY <1>6 DEF Connect
<1>7. ASSUME NEW c \in Conns, \/ Authenticate(c) \/ Refuse(c) \/ EarlyFrame(c) \/ AuthTimeout(c)
                              \/ Heartbeat(c) \/ Forget(c)
      PROVE  UNCHANGED <<credential, row, daemonSockets>> /\ Counts /\ Pairs
  <2>1. UNCHANGED <<credential, row, daemonSockets, offline, cuts, changes, faults>>
    BY <1>7 DEF Authenticate, Refuse, EarlyFrame, AuthTimeout, Heartbeat, Forget
  <2> QED BY <2>1
<1>8. ASSUME NEW c \in Conns, RegisterDaemon(c)
      PROVE  UNCHANGED <<credential, row>> /\ Counts /\ Pairs
  BY <1>8 DEF RegisterDaemon
<1>9. ASSUME NEW c \in Conns, WriteOnline(c) \/ WriteTouch(c)
      PROVE  UNCHANGED <<credential, daemonSockets>> /\ Counts /\ Pairs
  <2>1. UNCHANGED <<credential, daemonSockets, offline, cuts, changes, faults>>
    BY <1>9 DEF WriteOnline, WriteTouch
  <2> QED BY <2>1
<1>10. ASSUME NEW c \in Conns, CloseEvent(c)
       PROVE  UNCHANGED <<credential, row>> /\ Counts /\ Pairs
  <2>1. conn[c].proc \in Processes /\ conn[c].machine \in Machines
    BY <1>10, UsedOrFree DEF CloseEvent, Connections
  <2> QED BY <1>10, <2>1 DEF CloseEvent
<1>11. ASSUME NEW c \in Conns, StatementFails(c)
       PROVE  UNCHANGED <<credential, row, daemonSockets>> /\ Counts /\ Pairs
  BY <1>11 DEF StatementFails, Fault
<1>12. CASE (\E m \in Machines : Age(m)) \/ Sweep
  <2>1. UNCHANGED <<credential, daemonSockets>> /\ Counts /\ Pairs
    BY <1>12 DEF Age, Sweep
  <2> QED BY <1>12, <2>1
<1>13. ASSUME NEW p \in Processes, Crash(p)
       PROVE  UNCHANGED <<credential, row>> /\ Counts /\ Pairs
  BY <1>13 DEF Crash, Fault
<1>14. CASE UNCHANGED gatewayVars
  BY <1>14 DEF gatewayVars
<1> HIDE DEF Counts, Pairs
<1> QED
  <2>1. Counts /\ Pairs
    BY <1>1, <1>2, <1>3, <1>4, <1>5, <1>6, <1>7, <1>8, <1>9, <1>10, <1>11, <1>12, <1>13, <1>14
       DEF GatewayNext, Counts, Pairs, gatewayVars
  <2>2. \/ UNCHANGED credential
        \/ \E o \in Orgs, m \in Machines : CreateCredential(o, m)
        \/ \E o \in Orgs, m \in Machines, p \in Processes : RotateCredential(p, o, m) \/ RevokeCredential(p, o, m)
    BY <1>3, <1>4, <1>5, <1>6, <1>7, <1>8, <1>9, <1>10, <1>11, <1>13, <1>14 DEF GatewayNext, gatewayVars, Age, Sweep
  <2>3. \/ UNCHANGED row
        \/ \E c \in Conns : WriteOnline(c) \/ WriteTouch(c)
        \/ \E p \in Processes, m \in Machines : WriteOffline(p, m)
        \/ \E m \in Machines : Age(m)
        \/ Sweep
    BY <1>1, <1>2, <1>3, <1>5, <1>6, <1>7, <1>8, <1>10, <1>11, <1>13, <1>14 DEF GatewayNext, gatewayVars
  <2>4. \/ UNCHANGED daemonSockets
        \/ \E c \in Conns : RegisterDaemon(c) \/ CloseEvent(c)
        \/ \E p \in Processes : Crash(p)
    BY <1>1, <1>2, <1>3, <1>4, <1>5, <1>6, <1>7, <1>9, <1>11, <1>14 DEF GatewayNext, gatewayVars, Age, Sweep
  <2> QED BY <2>1, <2>2, <2>3, <2>4 DEF Counts, Pairs

\* A credential keeps its machine and its organization.
LEMMA CredentialStep ==
  ASSUME GatewayTypeOK, [GatewayNext]_gatewayVars
  PROVE  /\ credential' \in [Machines -> Credentials \cup {None}]
         /\ \A m \in Machines : credential[m] # None =>
              credential'[m] # None /\ credential'[m].org = credential[m].org
<1> USE DEF GatewayTypeOK
<1>1. CASE UNCHANGED credential
  BY <1>1
<1>2. ASSUME NEW o \in Orgs, NEW m \in Machines, CreateCredential(o, m)
      PROVE  /\ credential' \in [Machines -> Credentials \cup {None}]
             /\ \A n \in Machines : credential[n] # None =>
                  credential'[n] # None /\ credential'[n].org = credential[n].org
  <2>1. changes' \in 1..MaxChanges
    BY <1>2 DEF CreateCredential, Changed
  <2>2. [org |-> o, secret |-> changes', revoked |-> FALSE] \in Credentials
    BY <2>1 DEF Credentials
  <2> QED BY <1>2, <2>2 DEF CreateCredential, FreeId
<1>3. ASSUME NEW o \in Orgs, NEW m \in Machines, NEW p \in Processes,
             RotateCredential(p, o, m) \/ RevokeCredential(p, o, m)
      PROVE  /\ credential' \in [Machines -> Credentials \cup {None}]
             /\ \A n \in Machines : credential[n] # None =>
                  credential'[n] # None /\ credential'[n].org = credential[n].org
  <2>1. credential[m] \in Credentials /\ changes' \in 1..MaxChanges
    BY <1>3 DEF RotateCredential, RevokeCredential, Owned, Changed
  <2>2. PICK r \in Credentials : credential' = [credential EXCEPT ![m] = r] /\ r.org = credential[m].org
    <3>1. /\ [credential[m] EXCEPT !.secret = changes'] \in Credentials
          /\ [credential[m] EXCEPT !.secret = changes'].org = credential[m].org
      BY <2>1 DEF Credentials
    <3>2. /\ [credential[m] EXCEPT !.revoked = TRUE] \in Credentials
          /\ [credential[m] EXCEPT !.revoked = TRUE].org = credential[m].org
      BY <2>1 DEF Credentials
    <3>3. \/ credential' = [credential EXCEPT ![m] = [credential[m] EXCEPT !.secret = changes']]
          \/ credential' = [credential EXCEPT ![m] = [credential[m] EXCEPT !.revoked = TRUE]]
      BY <1>3 DEF RotateCredential, RevokeCredential
    <3> QED BY <3>1, <3>2, <3>3
  <2> QED BY <2>1, <2>2
<1> QED BY <1>1, <1>2, <1>3, Frames

\* A row that exists keeps its organization; one that is made has that of
\* the credential.
LEMMA MachineRowStep ==
  ASSUME GatewayIInv, [GatewayNext]_gatewayVars
  PROVE  /\ row' \in [Machines -> MachineRows \cup {None}]
         /\ RowBelongsToCredential'
<1> USE DEF GatewayIInv, GatewayInv, GatewayTypeOK
<1>a. ASSUME row' \in [Machines -> MachineRows \cup {None}],
             \A m \in Machines : row'[m] # None =>
               \/ row[m] # None /\ row'[m].org = row[m].org
               \/ credential[m] # None /\ row'[m].org = credential[m].org
      PROVE  RowBelongsToCredential'
  BY <1>a, CredentialStep DEF RowBelongsToCredential
<1>b. ASSUME NEW m \in Machines, NEW online \in BOOLEAN, Touched(m, online)
      PROVE  /\ row' \in [Machines -> MachineRows \cup {None}]
             /\ \A n \in Machines : row'[n] # None => row[n] # None /\ row'[n].org = row[n].org
  <2>1. CASE row[m] = None
    BY <1>b, <2>1 DEF Touched
  <2>2. CASE row[m] # None
    <3> DEFINE r == [row[m] EXCEPT !.online = online, !.fresh = TRUE]
    <3>1. r \in MachineRows /\ r.org = row[m].org
      BY <2>2 DEF MachineRows
    <3>2. row' = [row EXCEPT ![m] = r]
      BY <1>b, <2>2 DEF Touched
    <3> QED BY <2>2, <3>1, <3>2
  <2> QED BY <2>1, <2>2
<1>1. CASE UNCHANGED row
  BY <1>1, <1>a
<1>2. ASSUME NEW c \in Conns, WriteOnline(c)
      PROVE  /\ row' \in [Machines -> MachineRows \cup {None}]
             /\ RowBelongsToCredential'
  <2> DEFINE m == conn[c].machine
             r == [org |-> credential[m].org, online |-> TRUE, fresh |-> TRUE]
  <2>1. Known(c) /\ m \in Machines
    BY <1>2, UsedOrFree DEF WriteOnline, KnownHasCredential, Registered, Known, Connections
  <2>2. credential[m] # None /\ credential[m].org \in Orgs
    BY <2>1 DEF KnownHasCredential, Credentials
  <2>3. r \in MachineRows /\ r.org = credential[m].org
    BY <2>2 DEF MachineRows
  <2>4. row' = row \/ row' = [row EXCEPT ![m] = r]
    BY <1>2 DEF WriteOnline
  <2> HIDE DEF m, r
  <2>5. row' \in [Machines -> MachineRows \cup {None}]
    BY <2>1, <2>3, <2>4
  <2>6. \A n \in Machines : row'[n] # None =>
          \/ row[n] # None /\ row'[n].org = row[n].org
          \/ credential[n] # None /\ row'[n].org = credential[n].org
    BY <2>1, <2>2, <2>3, <2>4
  <2> QED BY <1>a, <2>5, <2>6
<1>3. ASSUME NEW c \in Conns, WriteTouch(c)
      PROVE  /\ row' \in [Machines -> MachineRows \cup {None}]
             /\ RowBelongsToCredential'
  <2>1. conn[c].machine \in Machines /\ Touched(conn[c].machine, TRUE)
    BY <1>3, UsedOrFree DEF WriteTouch, Connections
  <2> QED BY <1>a, <1>b, <2>1
<1>4. ASSUME NEW p \in Processes, NEW m \in Machines, WriteOffline(p, m)
      PROVE  /\ row' \in [Machines -> MachineRows \cup {None}]
             /\ RowBelongsToCredential'
  BY <1>4, <1>a, <1>b DEF WriteOffline
<1>5. ASSUME NEW m \in Machines, Age(m)
      PROVE  /\ row' \in [Machines -> MachineRows \cup {None}]
             /\ RowBelongsToCredential'
  <2> DEFINE r == [row[m] EXCEPT !.fresh = FALSE]
  <2>1. r \in MachineRows /\ r.org = row[m].org
    BY <1>5 DEF Age, MachineRows
  <2>2. row' = [row EXCEPT ![m] = r] /\ row[m] # None
    BY <1>5 DEF Age
  <2> HIDE DEF r
  <2> QED BY <1>a, <2>1, <2>2
<1>6. CASE Sweep
  <2>1. \A m \in Machines : Swept(m) =>
          /\ [row[m] EXCEPT !.online = FALSE] \in MachineRows
          /\ [row[m] EXCEPT !.online = FALSE].org = row[m].org
    BY DEF Swept, MachineRows
  <2> QED BY <1>6, <1>a, <2>1 DEF Sweep, Swept
<1> QED BY <1>1, <1>2, <1>3, <1>4, <1>5, <1>6, Frames

\* The parts that are not consequences of others.
Parts == /\ GatewayTypeOK /\ LiveIsRouted /\ GhostsOvertookHello /\ RowBelongsToCredential
         /\ KnownHasCredential /\ StaleIsCut

LEMMA PartsStep == GatewayIInv /\ [GatewayNext]_gatewayVars => Parts'
<1> SUFFICES ASSUME GatewayIInv, [GatewayNext]_gatewayVars PROVE Parts'
  OBVIOUS
<1> USE DEF GatewayIInv, GatewayInv
<1>1. /\ conn' \in [Conns -> Connections \cup {Unused}]
      /\ daemonSockets' \in [Processes -> [Machines -> Conns \cup {None}]]
      /\ LiveIsRouted' /\ GhostsOvertookHello' /\ KnownHasCredential' /\ StaleIsCut'
  <2> DEFINE Goal == /\ conn' \in [Conns -> Connections \cup {Unused}]
                     /\ daemonSockets' \in [Processes -> [Machines -> Conns \cup {None}]]
                     /\ LiveIsRouted' /\ GhostsOvertookHello' /\ KnownHasCredential' /\ StaleIsCut'
  <2>a. UNCHANGED daemonSockets => daemonSockets' \in [Processes -> [Machines -> Conns \cup {None}]]
    BY DEF GatewayTypeOK
  <2>1. CASE \/ \E p \in Processes, m \in Machines : WriteOffline(p, m) \/ OfflineFails(p, m)
             \/ \E c \in Conns : \/ Refuse(c) \/ EarlyFrame(c) \/ AuthTimeout(c)
                                 \/ WriteOnline(c) \/ Heartbeat(c) \/ WriteTouch(c) \/ StatementFails(c)
             \/ \E m \in Machines : Age(m)
             \/ Sweep
             \/ UNCHANGED gatewayVars
    <3>1. conn' \in [Conns -> Connections \cup {Unused}] /\ \A d \in Conns : Quiet(d)
      BY <2>1, QuietSteps
    <3>2. UNCHANGED <<credential, cuts, daemonSockets>>
      BY <2>1 DEF WriteOffline, OfflineFails, Refuse, EarlyFrame, AuthTimeout, WriteOnline, Heartbeat,
         WriteTouch, StatementFails, Age, Sweep, gatewayVars
    <3> QED BY <2>a, <3>1, <3>2, QuietMap, QuietKnown, QuietStale
  <2>2. ASSUME NEW o \in Orgs, NEW m \in Machines, CreateCredential(o, m)
        PROVE  Goal
    <3>1. /\ conn' \in [Conns -> Connections \cup {Unused}] /\ \A d \in Conns : Quiet(d)
          /\ UNCHANGED <<conn, cuts, daemonSockets>>
      BY <2>2, QuietSteps DEF CreateCredential
    <3>2. \A d \in Conns : Known(d) => conn[d].machine \in Machines \ {m}
      BY <2>2, UsedOrFree DEF CreateCredential, FreeId, KnownHasCredential, Known, Connections
    <3>3. \A n \in Machines \ {m} : credential'[n] = credential[n]
      BY <2>2 DEF CreateCredential, GatewayTypeOK
    <3>4. StaleIsCut'
      BY <3>1, <3>2, <3>3 DEF StaleIsCut, IsLive, Known, Used, Stale
    <3> QED BY <2>a, <3>1, <3>2, <3>3, <3>4, QuietMap, QuietKnown
  <2>3. ASSUME NEW o \in Orgs, NEW m \in Machines, NEW p \in Processes,
               RotateCredential(p, o, m) \/ RevokeCredential(p, o, m)
        PROVE  Goal
    BY <2>3, <2>a, QuietSteps, ChangeStep DEF RotateCredential, RevokeCredential
  <2>4. ASSUME NEW p \in Processes, NEW m \in Machines, CloseRevoked(p, m)
        PROVE  Goal
    <3>1. /\ conn' \in [Conns -> Connections \cup {Unused}] /\ \A d \in Conns : Quiet(d)
          /\ UNCHANGED <<credential, daemonSockets>>
      BY <2>4, QuietSteps DEF CloseRevoked
    <3> QED BY <2>4, <2>a, <3>1, QuietMap, QuietKnown, CloseRevokedStep
  <2>5. ASSUME NEW c \in Conns, \/ Authenticate(c) \/ Forget(c)
               \/ \E p \in Processes, m \in Machines : \E secret \in Secrets(m) : Connect(c, p, m, secret)
        PROVE  Goal
    <3>1. UNCHANGED daemonSockets
      BY <2>5 DEF Authenticate, Forget, Connect
    <3> QED BY <2>5, <2>a, <3>1, AuthenticateStep, ConnectForgetStep
  <2>6. ASSUME NEW c \in Conns, RegisterDaemon(c) \/ CloseEvent(c)
        PROVE  Goal
    BY <2>6, RegisterStep, CloseEventStep
  <2>7. ASSUME NEW p \in Processes, Crash(p)
        PROVE  Goal
    BY <2>7, CrashStep
  <2> QED BY <2>1, <2>2, <2>3, <2>4, <2>5, <2>6, <2>7 DEF GatewayNext
<1>2. GatewayTypeOK'
  BY <1>1, Frames, CredentialStep, MachineRowStep DEF GatewayTypeOK
<1> QED BY <1>1, <1>2, MachineRowStep DEF Parts

-----------------------------------------------------------------------------
(* The theorems.                                                           *)

\* Whatever the order of hellos, close events, changes of credentials,
\* timers and crashes: the map holds the open connections, a row belongs to
\* the organization of its credential, and a connection outlives the change
\* of its credential only where the close could not reach it.
THEOREM GatewayInvariance == GatewaySpec => []GatewayIInv
<1>1. GatewayInit => Parts
  <2> SUFFICES ASSUME GatewayInit PROVE Parts
    OBVIOUS
  <2> USE DEF GatewayInit
  <2>1. GatewayTypeOK
    BY DEF GatewayTypeOK
  <2>2. \A c \in Conns : ~Used(c)
    BY DEF Used, Unused
  <2> QED BY <2>1, <2>2 DEF Parts, LiveIsRouted, GhostsOvertookHello, RowBelongsToCredential,
             KnownHasCredential, StaleIsCut, IsLive, Used, Registered, Known
<1>2. Parts => GatewayIInv
  BY DEF Parts, GatewayIInv, GatewayInv, RevokedUnlessMissed, StaleIsCut, Registered, Known
<1>3. GatewayIInv => Parts
  BY DEF Parts, GatewayIInv, GatewayInv
<1> QED BY <1>1, <1>2, <1>3, PartsStep, PTL DEF GatewaySpec

\* A connection that is open and registered is the one its process routes to.
THEOREM CommandsReachTheOpenConnection == GatewaySpec => []LiveIsRouted
<1>1. GatewayIInv => LiveIsRouted
  BY DEF GatewayIInv, GatewayInv
<1> QED BY <1>1, GatewayInvariance, PTL

\* A machine's row stays with the organization of its credential.
THEOREM RowsFollowCredentials == GatewaySpec => []RowBelongsToCredential
<1>1. GatewayIInv => RowBelongsToCredential
  BY DEF GatewayIInv, GatewayInv
<1> QED BY <1>1, GatewayInvariance, PTL

\* After its credential has changed a connection lives on only where the
\* change could not cut it.
THEOREM ChangesCutConnections == GatewaySpec => []RevokedUnlessMissed
<1>1. GatewayIInv => RevokedUnlessMissed
  BY DEF GatewayIInv, GatewayInv
<1> QED BY <1>1, GatewayInvariance, PTL

-----------------------------------------------------------------------------
USE OrganizationsAssumption

-----------------------------------------------------------------------------
(* Handlers and their slots.                                               *)

Slots == Handlers \cup {Idle}

\* The operation and the step tell what a handler carries.
LEMMA Shapes ==
  ASSUME NEW q \in Slots
  PROVE  /\ q.op = "idle" <=> q = Idle
         /\ q # Idle <=> q \in Handlers
         /\ q.op \in {"register", "login"} <=> q \in SignInHandlers
         /\ q.op = "invite" <=> q \in InviteHandlers
         /\ q.op = "accept" /\ q.step # "assign" => q \in AcceptHandlers
         /\ q \in AcceptHandlers => q.op = "accept" /\ q.step # "assign"
         /\ q.op = "accept" /\ q.step = "assign" => q \in AssignHandlers
         /\ q \in AssignHandlers => q.op = "accept" /\ q.step = "assign"
         /\ q.op = "upgrade" <=> q \in UpgradeHandlers
         /\ q.op = "logout" <=> q \in LogoutHandlers
<1>1. Idle.op = "idle"
  BY DEF Idle
<1>2. /\ \A x \in SignInHandlers : x.op \in {"register", "login"}
      /\ \A x \in InviteHandlers : x.op = "invite"
      /\ \A x \in AcceptHandlers : x.op = "accept" /\ x.step # "assign"
      /\ \A x \in AssignHandlers : x.op = "accept" /\ x.step = "assign"
      /\ \A x \in UpgradeHandlers : x.op = "upgrade"
      /\ \A x \in LogoutHandlers : x.op = "logout"
  BY DEF SignInHandlers, InviteHandlers, AcceptHandlers, AssignHandlers, UpgradeHandlers, LogoutHandlers
<1> QED BY <1>1, <1>2 DEF Slots, Handlers

\* The slots that wait at a step.
LEMMA PendingIs ==
  ASSUME TypeOK, NEW op, op # "idle", NEW step, NEW r
  PROVE  r \in Pending(op, step) <=> r \in Requests /\ request[r].op = op /\ request[r].step = step
BY Shapes DEF Pending, TypeOK, Slots

\* One slot changes.
LEMMA OneSlot ==
  ASSUME TypeOK, NEW r \in Requests, NEW q \in Slots, request' = [request EXCEPT ![r] = q]
  PROVE  /\ request' \in [Requests -> Slots] /\ request'[r] = q
         /\ \A x \in Requests \ {r} : request'[x] = request[x]
BY DEF TypeOK, Slots

\* Going to another step keeps what the handler carries.
LEMMA Steps ==
  /\ \A x \in SignInHandlers : \A s \in {"ip", "email", "write"} :
       /\ [x EXCEPT !.step = s] \in SignInHandlers /\ [x EXCEPT !.step = s].user = x.user
       /\ [x EXCEPT !.step = s].op = x.op /\ [x EXCEPT !.step = s].step = s
  /\ \A x \in InviteHandlers : \A s \in {"existing", "insert"} :
       /\ [x EXCEPT !.step = s] \in InviteHandlers /\ [x EXCEPT !.step = s].user = x.user
       /\ [x EXCEPT !.step = s].org = x.org /\ [x EXCEPT !.step = s].role = x.role
       /\ [x EXCEPT !.step = s].email = x.email /\ [x EXCEPT !.step = s].step = s
  /\ \A x \in AcceptHandlers : \A s \in {"lock", "write", "list"} :
       /\ [x EXCEPT !.step = s] \in AcceptHandlers /\ [x EXCEPT !.step = s].user = x.user
       /\ [x EXCEPT !.step = s].invitation = x.invitation /\ [x EXCEPT !.step = s].step = s
       /\ [x EXCEPT !.step = s].proc = x.proc
  /\ \A x \in LogoutHandlers : \A s \in {"revoke", "close"} :
       /\ [x EXCEPT !.step = s] \in LogoutHandlers /\ [x EXCEPT !.step = s].session = x.session
       /\ [x EXCEPT !.step = s].proc = x.proc /\ [x EXCEPT !.step = s].step = s
<1>1. \A x \in SignInHandlers : \A s \in {"ip", "email", "write"} :
       /\ [x EXCEPT !.step = s] \in SignInHandlers /\ [x EXCEPT !.step = s].user = x.user
       /\ [x EXCEPT !.step = s].op = x.op /\ [x EXCEPT !.step = s].step = s
  BY DEF SignInHandlers
<1>2. \A x \in InviteHandlers : \A s \in {"existing", "insert"} :
       /\ [x EXCEPT !.step = s] \in InviteHandlers /\ [x EXCEPT !.step = s].user = x.user
       /\ [x EXCEPT !.step = s].org = x.org /\ [x EXCEPT !.step = s].role = x.role
       /\ [x EXCEPT !.step = s].email = x.email /\ [x EXCEPT !.step = s].step = s
  BY DEF InviteHandlers
<1>3. \A x \in AcceptHandlers : \A s \in {"lock", "write", "list"} :
       /\ [x EXCEPT !.step = s] \in AcceptHandlers /\ [x EXCEPT !.step = s].user = x.user
       /\ [x EXCEPT !.step = s].invitation = x.invitation /\ [x EXCEPT !.step = s].step = s
       /\ [x EXCEPT !.step = s].proc = x.proc
  BY DEF AcceptHandlers
<1>4. \A x \in LogoutHandlers : \A s \in {"revoke", "close"} :
       /\ [x EXCEPT !.step = s] \in LogoutHandlers /\ [x EXCEPT !.step = s].session = x.session
       /\ [x EXCEPT !.step = s].proc = x.proc /\ [x EXCEPT !.step = s].step = s
  BY DEF LogoutHandlers
<1> QED BY <1>1, <1>2, <1>3, <1>4

-----------------------------------------------------------------------------
(* Rate limits.                                                            *)

LEMMA MinOfTwo ==
  ASSUME NEW a \in Nat, NEW b \in Nat
  PROVE  Min({a, b}) \in {a, b} /\ Min({a, b}) <= a /\ Min({a, b}) <= b
<1>1. \E x \in {a, b} : \A y \in {a, b} : x <= y
  OBVIOUS
<1> QED BY <1>1 DEF Min

\* Sets of handlers are finite: how many they are.
LEMMA HowMany ==
  ASSUME NEW S \in SUBSET Requests, NEW r \in Requests
  PROVE  /\ Cardinality(S) \in Nat
         /\ Cardinality(S \ {r}) \in Nat /\ Cardinality(S \ {r}) <= Cardinality(S)
         /\ r \in S => Cardinality(S \ {r}) + 1 = Cardinality(S)
         /\ Cardinality(S \cup {r}) \in Nat /\ Cardinality(S \cup {r}) <= Cardinality(S) + 1
<1>1. IsFiniteSet(S) /\ S \ {r} \subseteq S
  BY FS_Subset
<1>2. IsFiniteSet(S \ {r}) /\ IsFiniteSet(S \cup {r}) /\ Cardinality(S \ {r}) <= Cardinality(S)
  BY <1>1, FS_Subset, FS_AddElement
<1>3. Cardinality(S) \in Nat /\ Cardinality(S \ {r}) \in Nat /\ Cardinality(S \cup {r}) \in Nat
  BY <1>1, <1>2, FS_CardinalityType
<1>4. CASE r \in S
  <2>1. Cardinality(S \cup {r}) = Cardinality(S)
    <3>1. S \cup {r} = S
      BY <1>4
    <3> QED BY <3>1, Zenon
  <2>2. Cardinality(S \ {r}) = Cardinality(S) - 1
    BY <1>1, <1>4, FS_RemoveElement
  <2> QED BY <1>2, <1>3, <2>1, <2>2
<1>5. CASE r \notin S
  <2>1. Cardinality(S \cup {r}) = Cardinality(S) + 1
    BY <1>1, <1>5, FS_AddElement
  <2> QED BY <1>2, <1>3, <1>5, <2>1
<1> QED BY <1>4, <1>5

Limited == /\ attempts \in [Keys -> Nat] /\ \A k \in Keys : attempts[k] <= Limit(k) + 1
           /\ counted \in [Keys -> SUBSET Requests] /\ hashed \in [Keys -> Nat]
           /\ CountsAreKept

LEMMA LimitIsNat == \A k \in Keys : Limit(k) \in Nat /\ Limit(k)' = Limit(k)
BY DEF Limit

\* What is kept for one key.
LEMMA KeyKept ==
  ASSUME Limited, NEW k \in Keys, NEW r \in Requests
  PROVE  /\ attempts[k] \in Nat /\ hashed[k] \in Nat /\ Limit(k) \in Nat
         /\ counted[k] \in SUBSET Requests /\ Cardinality(counted[k]) \in Nat
         /\ attempts[k] <= Limit(k) + 1
         /\ hashed[k] + Cardinality(counted[k]) <= attempts[k]
         /\ hashed[k] + Cardinality(counted[k]) <= Limit(k)
BY LimitIsNat, HowMany DEF Limited, CountsAreKept

\* Counting an attempt counts the handler that goes on within the limit.
LEMMA ConsumeStep ==
  ASSUME Limited, NEW r \in Requests, NEW k \in Keys, NEW step, Consume(k), UNCHANGED hashed,
         IF Allowed(k) THEN GoesOn(r, k, step) ELSE Refused(r)
  PROVE  Limited'
<1> DEFINE a == attempts[k]
           b == Min({a + 1, Limit(k) + 1})
<1>1. a \in Nat /\ Limit(k) \in Nat /\ a <= Limit(k) + 1
  BY KeyKept
<1>2. b \in {a + 1, Limit(k) + 1} /\ b <= a + 1 /\ b <= Limit(k) + 1
  BY <1>1, MinOfTwo
<1>3. b \in Nat /\ a <= b /\ (a + 1 <= Limit(k) => b = a + 1)
  BY <1>1, <1>2
<1>4. attempts' = [attempts EXCEPT ![k] = b]
  BY DEF Consume
<1> HIDE DEF b
<1>5. attempts' \in [Keys -> Nat] /\ attempts'[k] = b /\ \A j \in Keys \ {k} : attempts'[j] = attempts[j]
  BY <1>3, <1>4 DEF Limited
<1>6. CASE Allowed(k)
  <2>1. counted' = [counted EXCEPT ![k] = counted[k] \cup {r}]
    BY <1>6 DEF GoesOn
  <2>2. /\ counted' \in [Keys -> SUBSET Requests] /\ counted'[k] = counted[k] \cup {r}
        /\ \A j \in Keys \ {k} : counted'[j] = counted[j]
    BY <2>1 DEF Limited
  <2>3. b = a + 1 /\ a + 1 <= Limit(k)
    BY <1>3, <1>6 DEF Allowed
  <2>4. ASSUME NEW j \in Keys
        PROVE  /\ attempts'[j] <= Limit(j)' + 1
               /\ hashed'[j] + Cardinality(counted'[j]) <= attempts'[j]
               /\ hashed'[j] + Cardinality(counted'[j]) <= Limit(j)'
    <3>1. CASE j # k
      BY <1>5, <2>2, <3>1, KeyKept, LimitIsNat
    <3>2. CASE j = k
      <4>1. Cardinality(counted'[k]) \in Nat /\ Cardinality(counted'[k]) <= Cardinality(counted[k]) + 1
        BY <2>2, KeyKept, HowMany
      <4> QED BY <1>1, <1>5, <2>3, <3>2, <4>1, KeyKept, LimitIsNat
    <3> QED BY <3>1, <3>2
  <2> QED BY <1>5, <2>2, <2>4 DEF Limited, CountsAreKept
<1>7. CASE ~Allowed(k)
  <2>1. counted' = [j \in Keys |-> counted[j] \ {r}]
    BY <1>7 DEF Refused, Forgotten
  <2>2. counted' \in [Keys -> SUBSET Requests]
    BY <2>1 DEF Limited
  <2>3. ASSUME NEW j \in Keys
        PROVE  /\ attempts'[j] <= Limit(j)' + 1
               /\ hashed'[j] + Cardinality(counted'[j]) <= attempts'[j]
               /\ hashed'[j] + Cardinality(counted'[j]) <= Limit(j)'
    <3>1. Cardinality(counted'[j]) \in Nat /\ Cardinality(counted'[j]) <= Cardinality(counted[j])
      BY <2>1, KeyKept, HowMany
    <3>2. attempts[j] <= attempts'[j] /\ attempts'[j] \in Nat /\ attempts'[j] <= Limit(j) + 1
      BY <1>2, <1>3, <1>5, KeyKept
    <3> QED BY <3>1, <3>2, KeyKept, LimitIsNat
  <2> QED BY <1>5, <2>2, <2>3 DEF Limited, CountsAreKept
<1> QED BY <1>6, <1>7

\* A handler the window has counted hashes at most one password.
LEMMA HashStep ==
  ASSUME Limited, NEW r \in Requests, Hashes(r), UNCHANGED attempts
  PROVE  Limited'
<1>1. /\ hashed' = [k \in Keys |-> IF r \in counted[k] THEN hashed[k] + 1 ELSE hashed[k]]
      /\ counted' = [k \in Keys |-> counted[k] \ {r}]
  BY DEF Hashes, Forgotten
<1>2. hashed' \in [Keys -> Nat] /\ counted' \in [Keys -> SUBSET Requests]
  BY <1>1 DEF Limited
<1>3. ASSUME NEW k \in Keys
      PROVE  /\ attempts'[k] <= Limit(k)' + 1
             /\ hashed'[k] + Cardinality(counted'[k]) <= attempts'[k]
             /\ hashed'[k] + Cardinality(counted'[k]) <= Limit(k)'
  <2>1. /\ Cardinality(counted'[k]) \in Nat /\ Cardinality(counted'[k]) <= Cardinality(counted[k])
        /\ r \in counted[k] => Cardinality(counted'[k]) + 1 = Cardinality(counted[k])
    BY <1>1, KeyKept, HowMany
  <2>2. hashed'[k] = IF r \in counted[k] THEN hashed[k] + 1 ELSE hashed[k]
    BY <1>1
  <2> QED BY <2>1, <2>2, KeyKept, LimitIsNat
<1> QED BY <1>2, <1>3 DEF Limited, CountsAreKept

\* A new window has counted no handler and seen no password.
LEMMA WindowStep ==
  ASSUME Limited, NEW k \in Keys, WindowPasses(k)
  PROVE  Limited'
<1>1. /\ attempts' \in [Keys -> Nat] /\ counted' \in [Keys -> SUBSET Requests] /\ hashed' \in [Keys -> Nat]
      /\ attempts'[k] = 0 /\ counted'[k] = {} /\ hashed'[k] = 0
      /\ \A j \in Keys \ {k} : attempts'[j] = attempts[j] /\ counted'[j] = counted[j] /\ hashed'[j] = hashed[j]
  BY DEF WindowPasses, Limited
<1>2. Cardinality({}) = 0
  BY FS_EmptySet
<1>3. ASSUME NEW j \in Keys
      PROVE  /\ attempts'[j] <= Limit(j)' + 1
             /\ hashed'[j] + Cardinality(counted'[j]) <= attempts'[j]
             /\ hashed'[j] + Cardinality(counted'[j]) <= Limit(j)'
  <2>1. CASE j = k
    BY <1>1, <1>2, <2>1, LimitIsNat
  <2>2. CASE j # k
    <3>1. attempts'[j] = attempts[j] /\ counted'[j] = counted[j] /\ hashed'[j] = hashed[j]
      BY <1>1, <2>2
    <3> QED BY <3>1, LimitIsNat DEF Limited, CountsAreKept
  <2> QED BY <2>1, <2>2
<1> QED BY <1>1, <1>3 DEF Limited, CountsAreKept

LEMMA LimitedStep ==
  ASSUME IInv, [Next]_vars
  PROVE  Limited'
<1>a. Limited
  BY DEF IInv, Inv, TypeOK, Limited
<1>b. ASSUME UNCHANGED limiter PROVE Limited'
  BY <1>a, <1>b, LimitIsNat DEF limiter, Limited, CountsAreKept
<1>1. ASSUME NEW r \in Requests, CountIp(r) PROVE Limited'
  <2>1. request[r].op \in Keys
    BY <1>1 DEF CountIp, SignIns, Keys
  <2> QED BY <1>1, <1>a, <2>1, ConsumeStep DEF CountIp
<1>2. ASSUME NEW r \in Requests, CountEmail(r) PROVE Limited'
  <2>1. request[r] \in SignInHandlers
    <3>1. TypeOK /\ request[r] \in Slots
      BY DEF IInv, Inv, TypeOK, Slots
    <3>2. request[r].op = "login"
      BY <1>2, <3>1, PendingIs DEF CountEmail
    <3> QED BY <3>1, <3>2, Shapes
  <2>2. request[r].user \in Keys
    BY <2>1 DEF SignInHandlers, Keys
  <2> QED BY <1>2, <1>a, <2>2, ConsumeStep DEF CountEmail
<1>3. ASSUME NEW k \in Keys, WindowPasses(k) PROVE Limited'
  BY <1>3, <1>a, WindowStep
<1>4. ASSUME NEW r \in Requests, Receive(r) PROVE UNCHANGED limiter
  BY <1>4 DEF Receive, StartSignIn, StartInvite, StartAccept, StartUpgrade, StartLogout
<1>5. ASSUME NEW r \in Requests,
             \/ CheckInvitee(r) \/ InsertInvitation(r)
             \/ LockInvitation(r) \/ CommitAcceptance(r) \/ ListAfterAcceptance(r) \/ AssignOrgs(r)
             \/ ListForSocket(r) \/ OpenSocket(r)
             \/ RevokeSession(r) \/ CloseSockets(r) \/ RollBack(r) \/ ListFails(r)
      PROVE  UNCHANGED limiter
  BY <1>5 DEF CheckInvitee, InsertInvitation, LockInvitation, CommitAcceptance,
     ListAfterAcceptance, AssignOrgs, ListForSocket, OpenSocket, RevokeSession, CloseSockets, RollBack, ListFails
<1>6. ASSUME NEW r \in Requests, Register(r) \/ \E right \in BOOLEAN : Login(r, right) PROVE Limited'
  BY <1>6, <1>a, HashStep DEF Register, Login
<1>7. CASE \/ \E s \in DOMAIN sessions : Expire(s)
           \/ \E i \in DOMAIN invitations : ExpireInvitation(i)
           \/ \E k \in Sockets : Disconnect(k) \/ Serve(k)
           \/ \E p \in Procs : ResyncClients(p)
           \/ UNCHANGED vars
  BY <1>7, <1>b DEF Expire, ExpireInvitation, Disconnect, Serve, SessionTimer, ListForResync, AssignResync,
     FinishResync, ResyncClients, vars, limiter
<1> QED BY <1>b, <1>1, <1>2, <1>3, <1>4, <1>5, <1>6, <1>7 DEF Next, Continue, Environment

-----------------------------------------------------------------------------
(* Which actions write which variable.                                     *)

LEMMA Writers ==
  ASSUME [Next]_vars
  PROVE  /\ \/ UNCHANGED <<member, accounts>>
            \/ \E r \in Requests : Register(r) \/ CommitAcceptance(r)
         /\ \/ UNCHANGED invitations
            \/ \E r \in Requests : InsertInvitation(r) \/ CommitAcceptance(r)
            \/ \E i \in DOMAIN invitations : ExpireInvitation(i)
         /\ \/ UNCHANGED sessions
            \/ \E r \in Requests : Register(r) \/ (\E right \in BOOLEAN : Login(r, right)) \/ RevokeSession(r)
            \/ \E s \in DOMAIN sessions : Expire(s)
         /\ \/ UNCHANGED socket
            \/ \E r \in Requests : \/ AssignOrgs(r) \/ OpenSocket(r) \/ RevokeSession(r) \/ CloseSockets(r)
                                  \/ CommitAcceptance(r) \/ ListFails(r)
            \/ \E k \in Sockets : Serve(k) \/ Disconnect(k)
            \/ \E p \in Procs : ResyncClients(p)
<1>1. ASSUME NEW r \in Requests, Receive(r) PROVE UNCHANGED <<tables, socket>>
  BY <1>1 DEF Receive, StartSignIn, StartInvite, StartAccept, StartUpgrade, StartLogout
<1>2. ASSUME NEW r \in Requests,
             \/ CountIp(r) \/ CountEmail(r) \/ CheckInvitee(r) \/ LockInvitation(r)
             \/ ListAfterAcceptance(r) \/ ListForSocket(r) \/ RollBack(r)
      PROVE  UNCHANGED <<tables, socket>>
  BY <1>2 DEF CountIp, CountEmail, CheckInvitee, LockInvitation, ListAfterAcceptance, ListForSocket, RollBack
<1>3. ASSUME NEW r \in Requests, Register(r) PROVE UNCHANGED <<invitations, socket>>
  BY <1>3 DEF Register, tables
<1>4. ASSUME NEW r \in Requests, \E right \in BOOLEAN : Login(r, right)
      PROVE  UNCHANGED <<member, accounts, invitations, socket>>
  BY <1>4 DEF Login
<1>5. ASSUME NEW r \in Requests, InsertInvitation(r)
      PROVE  UNCHANGED <<member, accounts, sessions, socket>>
  BY <1>5 DEF InsertInvitation
<1>6. ASSUME NEW r \in Requests, CommitAcceptance(r) PROVE UNCHANGED sessions
  BY <1>6 DEF CommitAcceptance
<1>7. ASSUME NEW r \in Requests, AssignOrgs(r) \/ OpenSocket(r) \/ CloseSockets(r) \/ ListFails(r)
      PROVE  UNCHANGED tables
  BY <1>7 DEF AssignOrgs, OpenSocket, CloseSockets, ListFails
<1>8. ASSUME NEW r \in Requests, RevokeSession(r) PROVE UNCHANGED <<member, accounts, invitations>>
  BY <1>8 DEF RevokeSession
<1>9. ASSUME \/ \E k \in Sockets : Serve(k) \/ Disconnect(k)
             \/ \E p \in Procs : ResyncClients(p)
      PROVE  UNCHANGED tables
  BY <1>9 DEF Serve, ListForResync, AssignResync, FinishResync, SessionTimer, Disconnect, ResyncClients
<1>10. ASSUME NEW k \in Keys, WindowPasses(k) PROVE UNCHANGED <<tables, socket>>
  BY <1>10 DEF WindowPasses
<1>11. ASSUME NEW s \in DOMAIN sessions, Expire(s) PROVE UNCHANGED <<member, accounts, invitations, socket>>
  BY <1>11 DEF Expire
<1>12. ASSUME NEW i \in DOMAIN invitations, ExpireInvitation(i)
       PROVE  UNCHANGED <<member, accounts, sessions, socket>>
  BY <1>12 DEF ExpireInvitation
<1>13. UNCHANGED tables => UNCHANGED <<member, accounts, invitations, sessions>>
  BY DEF tables
<1>14. UNCHANGED vars => UNCHANGED <<tables, socket>>
  BY DEF vars, tables
<1>15. ASSUME NEW r \in Requests, Continue(r)
       PROVE  \/ CountIp(r) \/ CountEmail(r) \/ CheckInvitee(r) \/ LockInvitation(r)
              \/ ListAfterAcceptance(r) \/ ListForSocket(r)
              \/ Register(r) \/ (\E right \in BOOLEAN : Login(r, right)) \/ InsertInvitation(r)
              \/ CommitAcceptance(r) \/ AssignOrgs(r) \/ OpenSocket(r) \/ CloseSockets(r) \/ RevokeSession(r)
  BY <1>15 DEF Continue
<1>16. CASE \E r \in Requests : Receive(r)
  BY <1>16, <1>1, <1>13
<1>17. CASE \E r \in Requests : Continue(r)
  BY <1>17, <1>2, <1>3, <1>4, <1>5, <1>6, <1>7, <1>8, <1>13, <1>15
<1>18. CASE Environment
  BY <1>18, <1>2, <1>7, <1>9, <1>10, <1>11, <1>12, <1>13 DEF Environment
<1>19. CASE UNCHANGED vars \/ \E k \in Sockets : Serve(k)
  BY <1>19, <1>9, <1>13, <1>14
<1> QED BY <1>16, <1>17, <1>18, <1>19 DEF Next

-----------------------------------------------------------------------------
(* The tables only grow.                                                   *)

\* The conjuncts of the invariant that speak of the variables' shapes.
LEMMA Types ==
  ASSUME TypeOK
  PROVE  /\ request \in [Requests -> Slots]
         /\ \A i \in DOMAIN invitations : invitations[i] \in InvitationRows
         /\ \A s \in DOMAIN sessions : sessions[s] \in SessionRows
         /\ DOMAIN invitations = 1 .. Len(invitations) /\ Len(invitations) \in Nat
         /\ DOMAIN sessions = 1 .. Len(sessions) /\ Len(sessions) \in Nat
BY DEF TypeOK, Slots

\* The handlers that write the tables.
LEMMA WhoWrites ==
  ASSUME IInv, NEW r \in Requests
  PROVE  /\ Register(r) => request[r] \in SignInHandlers /\ request[r].user \in Users
         /\ (\E right \in BOOLEAN : Login(r, right)) => request[r] \in SignInHandlers /\ request[r].user \in Users
         /\ InsertInvitation(r) => request[r] \in InviteHandlers
         /\ CommitAcceptance(r) =>
              /\ request[r] \in AcceptHandlers /\ request[r].step = "write"
              /\ request[r].user \in Users /\ request[r].invitation \in DOMAIN invitations
              /\ invitations[request[r].invitation].email = request[r].user
              /\ invitations[request[r].invitation].accepted = 0
         /\ RevokeSession(r) => /\ request[r] \in LogoutHandlers /\ request[r].step = "revoke"
                                /\ request[r].session \in DOMAIN sessions
<1>1. TypeOK /\ request[r] \in Slots
  BY Types DEF IInv, Inv
<1>2. Register(r) \/ (\E right \in BOOLEAN : Login(r, right)) => request[r].op \in {"register", "login"}
  BY <1>1, PendingIs DEF Register, Login
<1>3. InsertInvitation(r) => request[r].op = "invite"
  BY <1>1, PendingIs DEF InsertInvitation
<1>4. CommitAcceptance(r) => request[r].op = "accept" /\ request[r].step = "write" /\ r \in Pending("accept", "write")
  BY <1>1, PendingIs DEF CommitAcceptance
<1>5. RevokeSession(r) => request[r].op = "logout" /\ request[r].step = "revoke"
  BY <1>1, PendingIs DEF RevokeSession
<1>6. \A x \in SignInHandlers \cup AcceptHandlers : x.user \in Users
  BY DEF SignInHandlers, AcceptHandlers
<1> QED BY <1>1, <1>2, <1>3, <1>4, <1>5, <1>6, Shapes DEF IInv, HandlersHaveRead, WritersAreAlone

\* Nobody leaves an organization, and only a founder's own role may change.
MembersStay ==
  /\ member' \in [Users -> [Users -> Roles \cup {"none"}]]
  /\ accounts \subseteq accounts' /\ accounts' \subseteq Users
  /\ \A o, u \in Users : /\ member[o][u] # "none" => member'[o][u] # "none"
                         /\ member[o][u] # "none" /\ u # o => member'[o][u] = member[o][u]

LEMMA MemberStep ==
  ASSUME IInv, [Next]_vars
  PROVE  MembersStay
<1>1. TypeOK
  BY DEF IInv, Inv
<1>2. CASE UNCHANGED <<member, accounts>>
  BY <1>1, <1>2 DEF MembersStay, TypeOK
<1>3. ASSUME NEW r \in Requests, Register(r) PROVE MembersStay
  <2> DEFINE u == request[r].user
  <2>1. u \in Users
    BY <1>3, WhoWrites
  <2>2. CASE u \in accounts
    BY <1>1, <1>3, <2>2 DEF Register, tables, MembersStay, TypeOK
  <2>3. CASE u \notin accounts
    <3>1. accounts' = accounts \cup {u} /\ member' = [member EXCEPT ![u][u] = "owner"]
      BY <1>3, <2>3 DEF Register
    <3> HIDE DEF u
    <3> QED BY <1>1, <2>1, <3>1 DEF MembersStay, TypeOK, Roles
  <2> QED BY <2>2, <2>3
<1>4. ASSUME NEW r \in Requests, CommitAcceptance(r) PROVE MembersStay
  <2> DEFINE u == request[r].user  inv == invitations[request[r].invitation]
             o == inv.org  new == Joined(member[o][u], inv.role)
  <2>1. u \in Users /\ inv \in InvitationRows
    BY <1>1, <1>4, WhoWrites, Types
  <2>2. o \in Users /\ inv.role \in Roles
    BY <2>1 DEF InvitationRows, Grantable
  <2>3. /\ member[o][u] \in Roles \cup {"none"} /\ new \in Roles \cup {"none"}
        /\ member[o][u] # "none" => new = member[o][u]
    BY <1>1, <2>1, <2>2 DEF TypeOK, Joined
  <2>4. member' = [member EXCEPT ![o][u] = new] /\ accounts' = accounts
    BY <1>4 DEF CommitAcceptance
  <2> HIDE DEF u, inv, o, new
  <2> QED BY <1>1, <2>1, <2>2, <2>3, <2>4 DEF MembersStay, TypeOK
<1> QED BY <1>2, <1>3, <1>4, Writers

\* What an invitation says stays, and its counters move with acceptances only.
Unchanging(i) == /\ i \in DOMAIN invitations'
                 /\ invitations'[i].org = invitations[i].org /\ invitations'[i].email = invitations[i].email
                 /\ invitations'[i].role = invitations[i].role /\ invitations'[i].by = invitations[i].by

Uncounted(i) == invitations'[i].accepted = invitations[i].accepted /\ invitations'[i].uses = invitations[i].uses

Inserted(r) ==
  /\ InsertInvitation(r) /\ Len(invitations') = Len(invitations) + 1
  /\ \A i \in DOMAIN invitations : Uncounted(i)
  /\ LET new == invitations'[Len(invitations')] IN
       /\ new.org = request[r].org /\ new.email = request[r].email /\ new.role = request[r].role
       /\ new.by = request[r].user /\ new.accepted = 0 /\ new.uses = 0

Committed(r) ==
  /\ CommitAcceptance(r) /\ Len(invitations') = Len(invitations)
  /\ LET i == request[r].invitation IN
       /\ invitations'[i].accepted = AcceptedSoFar + 1 /\ invitations'[i].uses = invitations[i].uses + 1
       /\ \A j \in DOMAIN invitations \ {i} : Uncounted(j)

Recounted == /\ Len(invitations') = Len(invitations)
             /\ \A i \in DOMAIN invitations : Uncounted(i)

RowsStay ==
  /\ invitations' \in Seq(InvitationRows)
  /\ \A i \in DOMAIN invitations : Unchanging(i)
  /\ Recounted \/ \E r \in Requests : Inserted(r) \/ Committed(r)

LEMMA CountsAreFinite ==
  ASSUME TypeOK, NEW S \in SUBSET (DOMAIN invitations)
  PROVE  IsFiniteSet(S) /\ Cardinality(S) \in Nat /\ Cardinality(S) <= Len(invitations)
<1>1. DOMAIN invitations = 1 .. Len(invitations) /\ Len(invitations) \in Nat
  BY Types
<1>2. IsFiniteSet(1 .. Len(invitations)) /\ Cardinality(1 .. Len(invitations)) = Len(invitations)
  BY <1>1, FS_Interval
<1> QED BY <1>1, <1>2, FS_Subset, FS_CardinalityType

LEMMA AcceptedRow ==
  ASSUME NEW x \in InvitationRows, NEW n \in Nat
  PROVE  LET y == [x EXCEPT !.accepted = n, !.uses = @ + 1] IN
           /\ y \in InvitationRows /\ y.org = x.org /\ y.email = x.email /\ y.role = x.role
           /\ y.by = x.by /\ y.accepted = n /\ y.uses = x.uses + 1
<1> DEFINE z == [x EXCEPT !.accepted = n]
           m == x.uses + 1
           y == [z EXCEPT !.uses = m]
<1>1. /\ z \in InvitationRows /\ z.org = x.org /\ z.email = x.email /\ z.role = x.role
      /\ z.by = x.by /\ z.accepted = n /\ m \in Nat
  BY DEF InvitationRows
<1>2. y = [x EXCEPT !.accepted = n, !.uses = @ + 1]
  OBVIOUS
<1> HIDE DEF z, m
<1>3. /\ y \in InvitationRows /\ y.org = z.org /\ y.email = z.email /\ y.role = z.role
      /\ y.by = z.by /\ y.accepted = z.accepted /\ y.uses = m
  BY <1>1 DEF InvitationRows
<1> HIDE DEF y
<1> QED BY <1>1, <1>2, <1>3 DEF m

LEMMA RowStep ==
  ASSUME IInv, [Next]_vars
  PROVE  RowsStay
<1>1. TypeOK /\ invitations \in Seq(InvitationRows)
  BY DEF IInv, Inv, TypeOK
<1>2. DOMAIN invitations = 1 .. Len(invitations) /\ Len(invitations) \in Nat
      /\ \A i \in DOMAIN invitations : invitations[i] \in InvitationRows
  BY <1>1, Types
<1>3. CASE UNCHANGED invitations
  BY <1>1, <1>2, <1>3 DEF RowsStay, Recounted, Unchanging, Uncounted
<1>4. ASSUME NEW r \in Requests, InsertInvitation(r) PROVE RowsStay
  <2> DEFINE q == request[r]
             new == [org |-> q.org, email |-> q.email, role |-> q.role, by |-> q.user,
                     expired |-> FALSE, accepted |-> 0, uses |-> 0]
  <2>1. q \in InviteHandlers
    BY <1>4, WhoWrites
  <2>2. new \in InvitationRows
    BY <2>1 DEF InviteHandlers, InvitationRows
  <2>3. invitations' = Append(invitations, new)
    BY <1>4 DEF InsertInvitation
  <2>4. /\ new.org = q.org /\ new.email = q.email /\ new.role = q.role
        /\ new.by = q.user /\ new.accepted = 0 /\ new.uses = 0
    OBVIOUS
  <2> HIDE DEF new
  <2>5. /\ invitations' \in Seq(InvitationRows) /\ Len(invitations') = Len(invitations) + 1
        /\ invitations'[Len(invitations')] = new
        /\ \A i \in DOMAIN invitations : i \in DOMAIN invitations' /\ invitations'[i] = invitations[i]
    BY <1>1, <1>2, <2>2, <2>3
  <2>6. Inserted(r)
    BY <1>4, <2>4, <2>5 DEF Inserted, Uncounted
  <2> QED BY <2>5, <2>6 DEF RowsStay, Unchanging
<1>5. ASSUME NEW r \in Requests, CommitAcceptance(r) PROVE RowsStay
  <2> DEFINE i == request[r].invitation  inv == invitations[i]
  <2>1. i \in DOMAIN invitations /\ inv.accepted = 0
    BY <1>5, WhoWrites
  <2>2. AcceptedSoFar \in Nat
    BY <1>1, CountsAreFinite DEF AcceptedSoFar
  <2> DEFINE new == [inv EXCEPT !.accepted = AcceptedSoFar + 1, !.uses = @ + 1]
  <2>3. inv \in InvitationRows
    BY <1>2, <2>1
  <2>4. /\ new \in InvitationRows /\ new.org = inv.org /\ new.email = inv.email /\ new.role = inv.role
        /\ new.by = inv.by /\ new.accepted = AcceptedSoFar + 1 /\ new.uses = inv.uses + 1
    <3>1. AcceptedSoFar + 1 \in Nat
      BY <2>2
    <3> QED BY <2>3, <3>1, AcceptedRow
  <2>5. invitations' = [invitations EXCEPT ![i] = new]
    BY <1>1, <1>5, <2>1, <2>3 DEF CommitAcceptance, InvitationRows
  <2> HIDE DEF new, i, inv
  <2>6. /\ invitations' \in Seq(InvitationRows) /\ Len(invitations') = Len(invitations)
        /\ DOMAIN invitations' = DOMAIN invitations
        /\ invitations'[i] = new /\ \A j \in DOMAIN invitations \ {i} : invitations'[j] = invitations[j]
    BY <1>1, <1>2, <2>1, <2>4, <2>5
  <2>7. Committed(r)
    BY <1>5, <2>4, <2>6 DEF Committed, Uncounted, i, inv
  <2>8. \A j \in DOMAIN invitations : Unchanging(j)
    BY <2>4, <2>6 DEF Unchanging, inv
  <2> QED BY <2>6, <2>7, <2>8 DEF RowsStay
<1>6. ASSUME NEW i \in DOMAIN invitations, ExpireInvitation(i) PROVE RowsStay
  <2> DEFINE new == [invitations[i] EXCEPT !.expired = TRUE]
  <2>1. /\ new \in InvitationRows /\ new.org = invitations[i].org /\ new.email = invitations[i].email
        /\ new.role = invitations[i].role /\ new.by = invitations[i].by
        /\ new.accepted = invitations[i].accepted /\ new.uses = invitations[i].uses
    BY <1>2 DEF InvitationRows
  <2>2. invitations' = [invitations EXCEPT ![i] = new]
    BY <1>6 DEF ExpireInvitation
  <2> HIDE DEF new
  <2>3. /\ invitations' \in Seq(InvitationRows) /\ Len(invitations') = Len(invitations)
        /\ DOMAIN invitations' = DOMAIN invitations
        /\ invitations'[i] = new /\ \A j \in DOMAIN invitations \ {i} : invitations'[j] = invitations[j]
    BY <1>1, <1>2, <2>1, <2>2
  <2> QED BY <2>1, <2>3 DEF RowsStay, Recounted, Unchanging, Uncounted
<1> QED BY <1>3, <1>4, <1>5, <1>6, Writers

\* Sessions keep their user, and a revoked one stays revoked.
SessionsStay ==
  /\ sessions' \in Seq(SessionRows)
  /\ \A s \in DOMAIN sessions : s \in DOMAIN sessions' /\ sessions'[s].user = sessions[s].user
  /\ \A s \in DOMAIN sessions' : sessions'[s].user \in accounts'
  /\ \/ Len(sessions') = Len(sessions)
     \/ \E r \in Requests : /\ Register(r) \/ (\E right \in BOOLEAN : Login(r, right))
                            /\ Len(sessions') = Len(sessions) + 1

\* Only RevokeSession revokes, and only its own session.
RevokedStay ==
  \A s \in DOMAIN sessions :
    \/ sessions'[s].revoked = sessions[s].revoked
    \/ \E r \in Requests : RevokeSession(r) /\ request[r].session = s

LEMMA SessionStep ==
  ASSUME IInv, [Next]_vars
  PROVE  SessionsStay /\ RevokedStay
<1>1. /\ sessions \in Seq(SessionRows) /\ accounts \subseteq accounts'
      /\ \A s \in DOMAIN sessions : sessions[s].user \in accounts
  BY MemberStep DEF IInv, Inv, TypeOK, MembersStay
<1>2. DOMAIN sessions = 1 .. Len(sessions) /\ Len(sessions) \in Nat
      /\ \A s \in DOMAIN sessions : sessions[s] \in SessionRows
  BY <1>1
<1>3. CASE UNCHANGED sessions
  BY <1>1, <1>2, <1>3 DEF SessionsStay, RevokedStay
<1>4. ASSUME NEW r \in Requests, Register(r) \/ \E right \in BOOLEAN : Login(r, right)
      PROVE  SessionsStay /\ RevokedStay
  <2> DEFINE u == request[r].user  new == NewSession(u)
  <2>1. u \in Users
    BY <1>4, WhoWrites
  <2>2. new \in SessionRows /\ new.user = u
    BY <2>1 DEF SessionRows, NewSession
  <2>3. sessions' = sessions \/ (sessions' = Append(sessions, new) /\ u \in accounts')
    BY <1>4 DEF Register, Login, tables
  <2> HIDE DEF u, new
  <2>4. CASE sessions' = sessions
    BY <1>3, <2>4
  <2>5. CASE sessions' = Append(sessions, new) /\ u \in accounts'
    <3>1. /\ sessions' \in Seq(SessionRows) /\ Len(sessions') = Len(sessions) + 1
          /\ DOMAIN sessions' = DOMAIN sessions \cup {Len(sessions')}
          /\ sessions'[Len(sessions')] = new
          /\ \A s \in DOMAIN sessions : s \in DOMAIN sessions' /\ sessions'[s] = sessions[s]
      BY <1>1, <1>2, <2>2, <2>5
    <3> QED BY <1>1, <1>4, <2>2, <2>5, <3>1 DEF SessionsStay, RevokedStay
  <2> QED BY <2>3, <2>4, <2>5
<1>5. ASSUME NEW i \in DOMAIN sessions, NEW after \in SessionRows, sessions' = [sessions EXCEPT ![i] = after],
             after.user = sessions[i].user,
             \/ after.revoked = sessions[i].revoked
             \/ \E r \in Requests : RevokeSession(r) /\ request[r].session = i
      PROVE  SessionsStay /\ RevokedStay
  <2>1. /\ sessions' \in Seq(SessionRows) /\ Len(sessions') = Len(sessions)
        /\ DOMAIN sessions' = DOMAIN sessions
        /\ sessions'[i] = after /\ \A j \in DOMAIN sessions \ {i} : sessions'[j] = sessions[j]
    BY <1>1, <1>2, <1>5
  <2> QED BY <1>1, <1>5, <2>1 DEF SessionsStay, RevokedStay
<1>6. ASSUME NEW r \in Requests, RevokeSession(r) PROVE SessionsStay /\ RevokedStay
  <2> DEFINE i == request[r].session  after == [sessions[i] EXCEPT !.revoked = TRUE]
  <2>1. i \in DOMAIN sessions
    BY <1>6, WhoWrites
  <2>2. after \in SessionRows /\ after.user = sessions[i].user
    BY <1>2, <2>1 DEF SessionRows
  <2>3. sessions' = [sessions EXCEPT ![i] = after]
    BY <1>6 DEF RevokeSession
  <2> HIDE DEF after
  <2> QED BY <1>5, <1>6, <2>1, <2>2, <2>3
<1>7. ASSUME NEW i \in DOMAIN sessions, Expire(i) PROVE SessionsStay /\ RevokedStay
  <2> DEFINE after == [sessions[i] EXCEPT !.expired = TRUE]
  <2>2. after \in SessionRows /\ after.user = sessions[i].user /\ after.revoked = sessions[i].revoked
    BY <1>2 DEF SessionRows
  <2>3. sessions' = [sessions EXCEPT ![i] = after]
    BY <1>7 DEF Expire
  <2> HIDE DEF after
  <2> QED BY <1>5, <2>2, <2>3
<1> QED BY <1>3, <1>4, <1>6, <1>7, Writers

-----------------------------------------------------------------------------
(* How a slot moves.                                                       *)

\* A free slot receives y.
Enters(r, y) ==
  /\ request[r] = Idle
  /\ \/ y \in SignInHandlers /\ \E op \in {"register", "login"}, u \in Users : StartSignIn(r, op, u)
     \/ /\ y \in InviteHandlers /\ MayStillInvite(y.org, y.user, y.role)
        /\ Len(invitations) + Cardinality(Invites) < MaxInvitations /\ UNCHANGED invitations
     \/ y \in AcceptHandlers /\ y.step = "lock" /\ y.invitation \in DOMAIN invitations
     \/ y \in UpgradeHandlers /\ y.session \in DOMAIN sessions /\ y.orgs = {} /\ y.user \in accounts
     \/ y \in LogoutHandlers /\ y.step = "revoke" /\ y.session \in DOMAIN sessions

\* The handler in the slot goes on as y.
Advances(r, y) ==
  \/ request[r] \in SignInHandlers /\ y \in SignInHandlers
  \/ /\ request[r] \in InviteHandlers /\ y \in InviteHandlers
     /\ y.org = request[r].org /\ y.user = request[r].user /\ y.role = request[r].role
  \/ /\ request[r] \in AcceptHandlers /\ y \in AcceptHandlers
     /\ request[r].step = "lock" /\ y.step = "write"
     /\ y.invitation = request[r].invitation /\ ~Locked(y.invitation)
     /\ invitations[y.invitation].accepted = 0 /\ invitations[y.invitation].email = y.user
  \/ /\ request[r] \in AcceptHandlers /\ y \in AcceptHandlers
     /\ request[r].step = "write" /\ y.step = "list"
     /\ y.invitation = request[r].invitation
  \/ /\ request[r] \in AcceptHandlers /\ y \in AssignHandlers
     /\ y.user = request[r].user /\ y.proc = request[r].proc /\ y.orgs = OrgsOf(y.user)
  \/ /\ request[r] \in UpgradeHandlers /\ y \in UpgradeHandlers /\ y.user = request[r].user
     /\ y.session = request[r].session /\ y.orgs = OrgsOf(y.user)
  \/ /\ request[r] \in LogoutHandlers /\ y \in LogoutHandlers /\ RevokeSession(r)
     /\ y.step = "close" /\ y.session = request[r].session /\ y.proc = request[r].proc

Answers(r, y) ==
  /\ y = Idle
  /\ request[r].op = "logout" => CloseSockets(r)
  /\ request[r].op = "accept" /\ request[r].step = "list" => ListFails(r)
  /\ request[r].op = "accept" /\ request[r].step = "assign" => AssignOrgs(r)

Moves(r, y) == /\ request' = [request EXCEPT ![r] = y]
               /\ Enters(r, y) \/ Advances(r, y) \/ Answers(r, y)

LEMMA EnterStep ==
  ASSUME IInv, NEW r \in Requests, Receive(r)
  PROVE  \E y \in Slots : Moves(r, y)
<1>1. /\ \A s \in DOMAIN sessions : sessions[s] \in SessionRows /\ sessions[s].user \in accounts
      /\ \A x \in SessionRows : x.user \in Users
      /\ DOMAIN sessions \subseteq Nat /\ DOMAIN invitations \subseteq Nat
  BY Types DEF SessionRows, IInv, Inv, TypeOK
<1>2. Handlers \subseteq Slots
  BY DEF Slots
<1>3. ASSUME NEW op \in {"register", "login"}, NEW u \in Users, StartSignIn(r, op, u)
      PROVE  \E y \in Slots : Moves(r, y)
  <2> DEFINE y == [op |-> op, step |-> "ip", user |-> u]
  <2>1. y \in SignInHandlers
    BY DEF SignInHandlers
  <2>2. request' = [request EXCEPT ![r] = y] /\ request[r] = Idle
    BY <1>3 DEF StartSignIn, Receives
  <2> HIDE DEF y
  <2> QED BY <1>2, <1>3, <2>1, <2>2 DEF Moves, Enters, Handlers
<1>4. ASSUME NEW s \in DOMAIN sessions, NEW o \in Users, NEW email \in Users, NEW role \in Grantable,
             StartInvite(r, s, o, email, role)
      PROVE  \E y \in Slots : Moves(r, y)
  <2> DEFINE by == sessions[s].user
             y == [op |-> "invite", step |-> "existing", user |-> by, org |-> o, email |-> email, role |-> role]
  <2>1. by \in Users
    BY <1>1
  <2>2. y \in InviteHandlers /\ y.org = o /\ y.user = by /\ y.role = role
    BY <2>1 DEF InviteHandlers
  <2>3. /\ request' = [request EXCEPT ![r] = y] /\ request[r] = Idle /\ MayInvite(member[o][by], role)
        /\ Len(invitations) + Cardinality(Invites) < MaxInvitations /\ UNCHANGED invitations
    BY <1>4 DEF StartInvite, Receives, tables
  <2>4. MayStillInvite(o, by, role)
    BY <2>1, <2>3 DEF MayInvite, MayStillInvite, IInv, Inv, MembershipsAreGranted
  <2> HIDE DEF y, by
  <2> QED BY <1>2, <2>2, <2>3, <2>4 DEF Moves, Enters, Handlers
<1>5. ASSUME NEW s \in DOMAIN sessions, NEW p \in Procs, NEW i \in DOMAIN invitations, StartAccept(r, p, s, i)
      PROVE  \E y \in Slots : Moves(r, y)
  <2> DEFINE y == [op |-> "accept", step |-> "lock", proc |-> p, user |-> sessions[s].user, invitation |-> i]
  <2>1. y \in AcceptHandlers /\ y.step = "lock" /\ y.invitation = i
    BY <1>1 DEF AcceptHandlers
  <2>2. request' = [request EXCEPT ![r] = y] /\ request[r] = Idle
    BY <1>5 DEF StartAccept, Receives
  <2> HIDE DEF y
  <2> QED BY <1>2, <2>1, <2>2 DEF Moves, Enters, Handlers
<1>6. ASSUME NEW s \in DOMAIN sessions, NEW p \in Procs, NEW k \in Sockets, StartUpgrade(r, p, s, k)
      PROVE  \E y \in Slots : Moves(r, y)
  <2> DEFINE y == [op |-> "upgrade", step |-> "list", proc |-> p, user |-> sessions[s].user,
                   session |-> s, socket |-> k, orgs |-> {}]
  <2>1. y \in UpgradeHandlers /\ y.session = s /\ y.orgs = {} /\ y.user \in accounts
    BY <1>1 DEF UpgradeHandlers
  <2>2. request' = [request EXCEPT ![r] = y] /\ request[r] = Idle
    BY <1>6 DEF StartUpgrade, Receives
  <2> HIDE DEF y
  <2> QED BY <1>2, <2>1, <2>2 DEF Moves, Enters, Handlers
<1>7. ASSUME NEW s \in DOMAIN sessions, NEW p \in Procs, StartLogout(r, p, s)
      PROVE  \E y \in Slots : Moves(r, y)
  <2> DEFINE y == [op |-> "logout", step |-> "revoke", proc |-> p, session |-> s]
  <2>1. y \in LogoutHandlers /\ y.step = "revoke" /\ y.session = s
    BY <1>1 DEF LogoutHandlers
  <2>2. request' = [request EXCEPT ![r] = y] /\ request[r] = Idle
    BY <1>7 DEF StartLogout, Receives
  <2> HIDE DEF y
  <2> QED BY <1>2, <2>1, <2>2 DEF Moves, Enters, Handlers
<1> QED BY <1>3, <1>4, <1>5, <1>6, <1>7 DEF Receive

LEMMA AnswerStep ==
  ASSUME NEW r \in Requests, Answer(r), request[r].op # "logout" \/ CloseSockets(r),
         \/ request[r].op # "accept" \/ request[r].step \in {"lock", "write"}
         \/ request[r].step = "list" /\ ListFails(r)
         \/ request[r].step = "assign" /\ AssignOrgs(r)
  PROVE  Moves(r, Idle)
BY DEF Moves, Answers, Answer

LEMMA AdvanceStep ==
  ASSUME IInv, NEW r \in Requests, Continue(r) \/ RollBack(r) \/ ListFails(r)
  PROVE  \E y \in Slots : Moves(r, y)
<1> DEFINE x == request[r]
<1>1. TypeOK /\ x \in Slots /\ Idle \in Slots /\ Handlers \subseteq Slots
  BY Types DEF IInv, Inv, Slots
<1>2. ASSUME Answer(r), x.op # "logout" \/ CloseSockets(r),
             \/ x.op # "accept" \/ x.step \in {"lock", "write"}
             \/ x.step = "list" /\ ListFails(r)
             \/ x.step = "assign" /\ AssignOrgs(r)
      PROVE  \E y \in Slots : Moves(r, y)
  BY <1>1, <1>2, AnswerStep
<1>3. ASSUME NEW s, Goto(r, s) PROVE request' = [request EXCEPT ![r] = [x EXCEPT !.step = s]]
  BY <1>3 DEF Goto
<1>4. CASE CountIp(r) \/ CountEmail(r)
  <2>1. x \in SignInHandlers /\ x.op \in {"register", "login"}
    BY <1>1, <1>4, PendingIs, Shapes DEF CountIp, CountEmail, SignIns
  <2>2. Answer(r) \/ \E s \in {"email", "write"} : Goto(r, s)
    BY <1>4 DEF CountIp, CountEmail, GoesOn, Refused
  <2>3. ASSUME NEW s \in {"email", "write"}, Goto(r, s) PROVE \E y \in Slots : Moves(r, y)
    <3>1. [x EXCEPT !.step = s] \in SignInHandlers
      BY <2>1, <2>3, Steps
    <3> HIDE DEF x
    <3> QED BY <1>1, <1>3, <2>1, <2>3, <3>1 DEF Moves, Advances, Handlers, x
  <2> QED BY <1>2, <2>1, <2>2, <2>3
<1>5. CASE Register(r) \/ (\E right \in BOOLEAN : Login(r, right)) \/ InsertInvitation(r) \/ RollBack(r)
           \/ AssignOrgs(r) \/ OpenSocket(r) \/ ListFails(r)
  <2>1. Answer(r)
    BY <1>5 DEF Register, Login, Hashes, InsertInvitation, RollBack, AssignOrgs, OpenSocket, ListFails
  <2>2. \/ x.op \in {"register", "login", "invite", "upgrade"}
        \/ x.op = "accept" /\ x.step = "write"
        \/ x.op = "accept" /\ x.step = "list" /\ ListFails(r)
        \/ x.op = "accept" /\ x.step = "assign" /\ AssignOrgs(r)
    BY <1>1, <1>5, PendingIs DEF Register, Login, InsertInvitation, RollBack, AssignOrgs, OpenSocket, ListFails
  <2> QED BY <1>2, <2>1, <2>2
<1>6. CASE CheckInvitee(r)
  <2>1. x \in InviteHandlers /\ x.op = "invite"
    BY <1>1, <1>6, PendingIs, Shapes DEF CheckInvitee
  <2>2. Answer(r) \/ Goto(r, "insert")
    BY <1>6 DEF CheckInvitee
  <2>3. CASE Goto(r, "insert")
    <3> DEFINE y == [x EXCEPT !.step = "insert"]
    <3>1. y \in InviteHandlers /\ y.org = x.org /\ y.user = x.user /\ y.role = x.role
      BY <2>1, Steps
    <3>2. request' = [request EXCEPT ![r] = y]
      BY <1>3, <2>3
    <3> HIDE DEF y
    <3> QED BY <1>1, <2>1, <3>1, <3>2 DEF Moves, Advances, Handlers
  <2> QED BY <1>2, <2>1, <2>2, <2>3
<1>7. CASE LockInvitation(r)
  <2>1. x \in AcceptHandlers /\ x.op = "accept" /\ x.step = "lock"
    BY <1>1, <1>7, PendingIs, Shapes DEF LockInvitation
  <2>2. \/ Answer(r)
        \/ /\ Goto(r, "write") /\ ~Locked(x.invitation)
           /\ invitations[x.invitation].accepted = 0 /\ invitations[x.invitation].email = x.user
    BY <1>7 DEF LockInvitation
  <2>3. CASE /\ Goto(r, "write") /\ ~Locked(x.invitation)
             /\ invitations[x.invitation].accepted = 0 /\ invitations[x.invitation].email = x.user
    <3> DEFINE y == [x EXCEPT !.step = "write"]
    <3>1. y \in AcceptHandlers /\ y.user = x.user /\ y.invitation = x.invitation /\ y.step = "write"
      BY <2>1, Steps
    <3>2. request' = [request EXCEPT ![r] = y]
      BY <1>3, <2>3
    <3> HIDE DEF y
    <3> QED BY <1>1, <2>1, <2>3, <3>1, <3>2 DEF Moves, Advances, Handlers
  <2> QED BY <1>2, <2>1, <2>2, <2>3
<1>8. CASE CommitAcceptance(r)
  <2> DEFINE y == [x EXCEPT !.step = "list"]
  <2>1. x \in AcceptHandlers /\ x.step = "write"
    BY <1>8, WhoWrites
  <2>2. y \in AcceptHandlers /\ y.invitation = x.invitation /\ y.step = "list"
    BY <2>1, Steps
  <2>3. request' = [request EXCEPT ![r] = y]
    BY <1>3, <1>8 DEF CommitAcceptance
  <2> HIDE DEF y
  <2> QED BY <1>1, <2>1, <2>2, <2>3 DEF Moves, Advances, Handlers
<1>9. CASE ListAfterAcceptance(r)
  <2> DEFINE y == [op |-> "accept", step |-> "assign", proc |-> x.proc, user |-> x.user, orgs |-> OrgsOf(x.user)]
  <2>1. x \in AcceptHandlers
    BY <1>1, <1>9, PendingIs, Shapes DEF ListAfterAcceptance
  <2>2. y \in AssignHandlers /\ y.user = x.user /\ y.proc = x.proc /\ y.orgs = OrgsOf(y.user)
    BY <2>1 DEF AcceptHandlers, AssignHandlers, OrgsOf
  <2>3. request' = [request EXCEPT ![r] = y]
    BY <1>9 DEF ListAfterAcceptance
  <2> HIDE DEF y
  <2> QED BY <1>1, <2>1, <2>2, <2>3 DEF Moves, Advances, Handlers
<1>10. CASE ListForSocket(r)
  <2> DEFINE z == [x EXCEPT !.step = "open"]  y == [z EXCEPT !.orgs = OrgsOf(x.user)]
  <2>1. x \in UpgradeHandlers
    BY <1>1, <1>10, PendingIs, Shapes DEF ListForSocket
  <2>2. z \in UpgradeHandlers /\ z.session = x.session /\ z.user = x.user
    BY <2>1 DEF UpgradeHandlers
  <2>3. request' = [request EXCEPT ![r] = y]
    BY <1>1, <1>10, <2>1 DEF ListForSocket, UpgradeHandlers
  <2> HIDE DEF z
  <2>4. y \in UpgradeHandlers /\ y.session = x.session /\ y.orgs = OrgsOf(x.user) /\ y.user = x.user
    BY <2>2 DEF UpgradeHandlers, OrgsOf
  <2> HIDE DEF y
  <2> QED BY <1>1, <2>1, <2>3, <2>4 DEF Moves, Advances, Handlers
<1>11. CASE RevokeSession(r)
  <2> DEFINE y == [x EXCEPT !.step = "close"]
  <2>1. x \in LogoutHandlers
    BY <1>11, WhoWrites
  <2>2. y \in LogoutHandlers /\ y.session = x.session /\ y.proc = x.proc /\ y.step = "close"
    BY <2>1, Steps
  <2>3. request' = [request EXCEPT ![r] = y]
    BY <1>3, <1>11 DEF RevokeSession
  <2> HIDE DEF y
  <2> QED BY <1>1, <1>11, <2>1, <2>2, <2>3 DEF Moves, Advances, Handlers
<1>12. CASE CloseSockets(r)
  <2>1. Answer(r) /\ x.op = "logout"
    BY <1>1, <1>12, PendingIs DEF CloseSockets
  <2> QED BY <1>2, <1>12, <2>1
<1> QED BY <1>4, <1>5, <1>6, <1>7, <1>8, <1>9, <1>10, <1>11, <1>12 DEF Continue

LEMMA RequestStep ==
  ASSUME IInv, [Next]_vars
  PROVE  UNCHANGED request \/ \E r \in Requests : \E y \in Slots : Moves(r, y)
<1>1. TypeOK
  BY DEF IInv, Inv
<1>2. CASE \/ \E k \in Keys : WindowPasses(k)
           \/ \E s \in DOMAIN sessions : Expire(s)
           \/ \E i \in DOMAIN invitations : ExpireInvitation(i)
           \/ \E k \in Sockets : Disconnect(k) \/ Serve(k)
           \/ \E p \in Procs : ResyncClients(p)
           \/ UNCHANGED vars
  BY <1>2 DEF WindowPasses, Expire, ExpireInvitation, Disconnect, Serve, SessionTimer, ListForResync,
     AssignResync, FinishResync, ResyncClients, vars
<1> QED BY <1>1, <1>2, EnterStep, AdvanceStep DEF Next, Environment

\* The slots stay well-formed, and handlers still refer to rows that exist.
LEMMA HandlerStep ==
  ASSUME IInv, [Next]_vars
  PROVE  request' \in [Requests -> Slots] /\ HandlersHaveRead'
<1>1. TypeOK /\ request \in [Requests -> Slots] /\ HandlersHaveRead
  BY Types DEF IInv, Inv
<1>2. MembersStay /\ DOMAIN invitations \subseteq DOMAIN invitations' /\ DOMAIN sessions \subseteq DOMAIN sessions'
  BY MemberStep, RowStep, SessionStep DEF RowsStay, Unchanging, SessionsStay
<1>3. \A u \in Users : OrgsOf(u) \subseteq OrgsOf(u)'
  BY <1>2 DEF MembersStay, OrgsOf
<1>4. \A x \in UpgradeHandlers \cup AssignHandlers : x.user \in Users
  BY DEF UpgradeHandlers, AssignHandlers
<1> DEFINE Reads(y) ==
             /\ y.op = "accept" /\ y.step # "assign" => y.invitation \in DOMAIN invitations
             /\ y.op \in {"upgrade", "logout"} => y.session \in DOMAIN sessions
             /\ y.op = "upgrade" => y.user \in accounts
             /\ y.op = "upgrade" \/ (y.op = "accept" /\ y.step = "assign") => y.orgs \subseteq OrgsOf(y.user)
<1>5. \A r \in Requests : Reads(request[r])
  BY <1>1 DEF HandlersHaveRead
<1>6. ASSUME NEW r \in Requests, NEW y \in Slots, Moves(r, y) PROVE Reads(y)
  <2>1. request[r] \in Slots
    BY <1>1
  <2>2. CASE Enters(r, y)
    BY <2>2, Shapes DEF Enters
  <2>3. CASE Advances(r, y)
    <3>1. /\ request[r] \in AcceptHandlers => request[r].invitation \in DOMAIN invitations
          /\ request[r] \in UpgradeHandlers \cup LogoutHandlers => request[r].session \in DOMAIN sessions
          /\ request[r] \in UpgradeHandlers => request[r].user \in accounts
      BY <1>5, <2>1, Shapes
    <3>2. CASE y \in SignInHandlers \cup InviteHandlers
      BY <3>2, Shapes
    <3>3. CASE y \in AcceptHandlers
      <4>1. y.invitation \in DOMAIN invitations /\ y.op = "accept" /\ y.step # "assign"
        BY <2>3, <3>1, <3>3, Shapes DEF Advances
      <4> QED BY <4>1
    <3>4. CASE y \in AssignHandlers
      <4>1. y.orgs = OrgsOf(y.user) /\ y.op = "accept" /\ y.step = "assign"
        BY <2>3, <3>4, Shapes DEF Advances
      <4> QED BY <4>1
    <3>5. CASE y \in UpgradeHandlers
      <4>1. y.orgs = OrgsOf(y.user) /\ y.session \in DOMAIN sessions /\ y.op = "upgrade" /\ y.user \in accounts
        BY <2>3, <3>1, <3>5, Shapes DEF Advances
      <4> QED BY <4>1
    <3>6. CASE y \in LogoutHandlers
      <4>1. y.session \in DOMAIN sessions /\ y.op = "logout"
        BY <2>3, <3>1, <3>6, Shapes DEF Advances
      <4> QED BY <4>1
    <3> QED BY <2>3, <3>2, <3>3, <3>4, <3>5, <3>6 DEF Advances
  <2>4. CASE Answers(r, y)
    BY <2>4 DEF Answers, Idle
  <2> QED BY <1>6, <2>2, <2>3, <2>4 DEF Moves
<1>7. request' \in [Requests -> Slots] /\ \A x \in Requests : Reads(request'[x])
  <2>1. CASE UNCHANGED request
    BY <1>1, <1>5, <2>1
  <2>2. ASSUME NEW r \in Requests, NEW y \in Slots, Moves(r, y)
        PROVE  request' \in [Requests -> Slots] /\ \A x \in Requests : Reads(request'[x])
    <3>1. Reads(y)
      BY <1>6, <2>2
    <3>2. /\ request' \in [Requests -> Slots] /\ request'[r] = y
          /\ \A x \in Requests \ {r} : request'[x] = request[x]
      BY <1>1, <2>2, OneSlot DEF Moves
    <3> HIDE DEF Reads
    <3> QED BY <1>5, <3>1, <3>2
  <2> QED BY <2>1, <2>2, RequestStep
<1>8. ASSUME NEW x \in Requests PROVE
         /\ request'[x].op = "accept" /\ request'[x].step # "assign" => request'[x].invitation \in DOMAIN invitations'
         /\ request'[x].op \in {"upgrade", "logout"} => request'[x].session \in DOMAIN sessions'
         /\ request'[x].op = "upgrade" => request'[x].user \in accounts'
         /\ request'[x].op = "upgrade" \/ (request'[x].op = "accept" /\ request'[x].step = "assign") =>
              request'[x].orgs \subseteq {o \in Users : member'[o][request'[x].user] # "none"}
  <2> DEFINE y == request'[x]
  <2>1. y \in Slots /\ Reads(y)
    BY <1>7
  <2>2. y.op = "upgrade" \/ (y.op = "accept" /\ y.step = "assign") => y.user \in Users
    BY <1>4, <2>1, Shapes
  <2> HIDE DEF y
  <2>3. y.op = "upgrade" \/ (y.op = "accept" /\ y.step = "assign") =>
              y.orgs \subseteq {o \in Users : member'[o][y.user] # "none"}
    BY <1>2, <2>1, <2>2 DEF OrgsOf, MembersStay
  <2> QED BY <1>2, <2>1, <2>3 DEF y, MembersStay
<1> QED BY <1>7, <1>8 DEF HandlersHaveRead, OrgsOf

-----------------------------------------------------------------------------
(* Handlers and rows together stay within the bounds.                      *)

LEMMA CountStep ==
  ASSUME IInv, [Next]_vars
  PROVE  /\ Len(invitations') + Cardinality(Invites') <= MaxInvitations
         /\ Len(sessions') + Cardinality(SignIns') <= MaxSessions
<1>1. /\ TypeOK /\ request \in [Requests -> Slots] /\ request' \in [Requests -> Slots]
      /\ Len(invitations) \in Nat /\ Len(sessions) \in Nat
      /\ Len(invitations) + Cardinality(Invites) <= MaxInvitations
      /\ Len(sessions) + Cardinality(SignIns) <= MaxSessions
  BY Types, HandlerStep DEF IInv, Inv, TypeOK
<1>2. /\ Invites = {r \in Requests : request[r] \in InviteHandlers}
      /\ Invites' = {r \in Requests : request'[r] \in InviteHandlers}
      /\ SignIns = {r \in Requests : request[r] \in SignInHandlers}
      /\ SignIns' = {r \in Requests : request'[r] \in SignInHandlers}
  BY <1>1, Shapes DEF Invites, SignIns
<1>3. IsFiniteSet(Invites) /\ IsFiniteSet(SignIns)
  BY <1>2, FS_Subset
<1>4. Cardinality(Invites) \in Nat /\ Cardinality(SignIns) \in Nat
  BY <1>3, FS_CardinalityType
<1>5. ~ Idle \in InviteHandlers /\ ~ Idle \in SignInHandlers
      /\ \A x \in SignInHandlers : ~ x \in InviteHandlers
  BY DEF Idle, InviteHandlers, SignInHandlers
<1>6. ASSUME NEW S \in SUBSET Requests, NEW T \in SUBSET S PROVE Cardinality(T) <= Cardinality(S)
  BY FS_Subset
<1>7. ASSUME NEW S \in SUBSET Requests, NEW x \in S
      PROVE  Cardinality(S \ {x}) = Cardinality(S) - 1
  BY FS_Subset, FS_RemoveElement
<1>8. ASSUME NEW S \in SUBSET Requests, NEW x \in Requests \ S
      PROVE  Cardinality(S \cup {x}) = Cardinality(S) + 1
  BY FS_Subset, FS_AddElement
<1>9. Len(invitations') + Cardinality(Invites') <= MaxInvitations
  <2>1. ASSUME NEW r \in Requests, Inserted(r) PROVE Len(invitations') + Cardinality(Invites') <= MaxInvitations
    <3>1. r \in Invites /\ Answer(r) /\ Len(invitations') = Len(invitations) + 1
      BY <1>2, <2>1, WhoWrites DEF Inserted, InsertInvitation
    <3>2. Invites' = Invites \ {r}
      BY <1>1, <1>2, <1>5, <3>1 DEF Answer
    <3>3. Cardinality(Invites') = Cardinality(Invites) - 1
      BY <1>2, <1>7, <3>1, <3>2
    <3> QED BY <1>1, <1>4, <3>1, <3>3
  <2>2. CASE Len(invitations') = Len(invitations)
    <3>1. CASE Invites' \subseteq Invites
      <4>1. Cardinality(Invites') <= Cardinality(Invites)
        BY <1>2, <1>6, <3>1
      <4>2. Cardinality(Invites') \in Nat
        BY <1>3, <3>1, FS_Subset, FS_CardinalityType
      <4> QED BY <1>1, <1>4, <2>2, <4>1, <4>2
    <3>2. ASSUME NEW r \in Requests, NEW y \in Slots, Moves(r, y), ~ Invites' \subseteq Invites
          PROVE  Len(invitations') + Cardinality(Invites') <= MaxInvitations
      <4>1. /\ request'[r] = y /\ \A x \in Requests \ {r} : request'[x] = request[x]
        BY <1>1, <3>2, OneSlot DEF Moves
      <4>2. r \notin Invites /\ y \in InviteHandlers
        BY <1>2, <3>2, <4>1
      <4>3. Enters(r, y)
        BY <1>2, <1>5, <3>2, <4>2, Shapes DEF Moves, Advances, Answers
      <4>4. Invites' = Invites \cup {r}
        BY <1>2, <4>1, <4>2
      <4>5. Len(invitations) + Cardinality(Invites) < MaxInvitations
        BY <1>5, <4>2, <4>3, Shapes DEF Enters
      <4>6. Cardinality(Invites') = Cardinality(Invites) + 1
        BY <1>2, <1>8, <4>2, <4>4
      <4> QED BY <1>1, <1>4, <2>2, <4>5, <4>6
    <3>3. CASE UNCHANGED request
      BY <1>2, <3>1, <3>3
    <3> QED BY <3>1, <3>2, <3>3, RequestStep
  <2>3. \/ Len(invitations') = Len(invitations) \/ \E r \in Requests : Inserted(r)
    BY RowStep DEF RowsStay, Recounted, Committed
  <2> QED BY <2>1, <2>2, <2>3
<1>10. Len(sessions') + Cardinality(SignIns') <= MaxSessions
  <2>1. ASSUME NEW r \in Requests, Register(r) \/ (\E right \in BOOLEAN : Login(r, right)),
               Len(sessions') = Len(sessions) + 1
        PROVE  Len(sessions') + Cardinality(SignIns') <= MaxSessions
    <3>1. r \in SignIns /\ Answer(r)
      BY <1>2, <2>1, WhoWrites DEF Register, Login, Hashes
    <3>2. SignIns' = SignIns \ {r}
      BY <1>1, <1>2, <1>5, <3>1 DEF Answer
    <3>3. Cardinality(SignIns') = Cardinality(SignIns) - 1
      BY <1>2, <1>7, <3>1, <3>2
    <3> QED BY <1>1, <1>4, <2>1, <3>3
  <2>2. CASE Len(sessions') = Len(sessions)
    <3>1. CASE SignIns' \subseteq SignIns
      <4>1. Cardinality(SignIns') <= Cardinality(SignIns)
        BY <1>2, <1>6, <3>1
      <4>2. Cardinality(SignIns') \in Nat
        BY <1>3, <3>1, FS_Subset, FS_CardinalityType
      <4> QED BY <1>1, <1>4, <2>2, <4>1, <4>2
    <3>2. ASSUME NEW r \in Requests, NEW y \in Slots, Moves(r, y), ~ SignIns' \subseteq SignIns
          PROVE  Len(sessions') + Cardinality(SignIns') <= MaxSessions
      <4>1. /\ request'[r] = y /\ \A x \in Requests \ {r} : request'[x] = request[x]
        BY <1>1, <3>2, OneSlot DEF Moves
      <4>2. r \notin SignIns /\ y \in SignInHandlers
        BY <1>2, <3>2, <4>1
      <4>3. Enters(r, y)
        BY <1>2, <1>5, <3>2, <4>2, Shapes DEF Moves, Advances, Answers
      <4>4. SignIns' = SignIns \cup {r}
        BY <1>2, <4>1, <4>2
      <4>5. Len(sessions) + Cardinality(SignIns) < MaxSessions
        BY <1>5, <4>2, <4>3, Shapes DEF Enters, StartSignIn
      <4>6. Cardinality(SignIns') = Cardinality(SignIns) + 1
        BY <1>2, <1>8, <4>2, <4>4
      <4> QED BY <1>1, <1>4, <2>2, <4>5, <4>6
    <3>3. CASE UNCHANGED request
      BY <1>2, <3>1, <3>3
    <3> QED BY <3>1, <3>2, <3>3, RequestStep
  <2> QED BY <2>1, <2>2, SessionStep DEF SessionsStay
<1> QED BY <1>9, <1>10

-----------------------------------------------------------------------------
(* The row lock.                                                           *)

LEMMA CommitCounts ==
  ASSUME IInv, [Next]_vars
  PROVE  /\ AcceptedSoFar \in Nat /\ AcceptedSoFar <= Len(invitations)
         /\ Recounted \/ (\E r \in Requests : Inserted(r)) => AcceptedSoFar' = AcceptedSoFar
         /\ \A r \in Requests : Committed(r) =>
              /\ AcceptedSoFar' = AcceptedSoFar + 1 /\ AcceptedSoFar' <= Len(invitations')
              /\ request[r].invitation \in DOMAIN invitations
              /\ invitations[request[r].invitation].accepted = 0
<1> DEFINE S == {i \in DOMAIN invitations : invitations[i].accepted > 0}
           T == {i \in DOMAIN invitations' : invitations'[i].accepted > 0}
<1>1. /\ TypeOK /\ invitations \in Seq(InvitationRows) /\ invitations' \in Seq(InvitationRows)
      /\ Len(invitations) \in Nat /\ DOMAIN invitations = 1 .. Len(invitations)
      /\ DOMAIN invitations' = 1 .. Len(invitations')
  BY RowStep DEF IInv, Inv, TypeOK, RowsStay
<1>2. AcceptedSoFar = Cardinality(S) /\ AcceptedSoFar' = Cardinality(T)
  BY DEF AcceptedSoFar
<1>3. S \subseteq DOMAIN invitations
  OBVIOUS
<1>4. IsFiniteSet(S) /\ Cardinality(S) \in Nat /\ Cardinality(S) <= Len(invitations)
  BY <1>1, <1>3, CountsAreFinite
<1>5. ASSUME Recounted PROVE T = S
  BY <1>1, <1>5 DEF Recounted, Uncounted
<1>6. ASSUME NEW r \in Requests, Inserted(r) PROVE T = S
  <2>1. Len(invitations') = Len(invitations) + 1 /\ invitations'[Len(invitations')].accepted = 0
        /\ \A i \in DOMAIN invitations : invitations'[i].accepted = invitations[i].accepted
    BY <1>6 DEF Inserted, Uncounted
  <2>2. DOMAIN invitations' = DOMAIN invitations \cup {Len(invitations')}
    BY <1>1, <2>1
  <2> QED BY <2>1, <2>2
<1>7. ASSUME NEW r \in Requests, Committed(r)
      PROVE  /\ Cardinality(T) = Cardinality(S) + 1 /\ Cardinality(T) <= Len(invitations')
             /\ request[r].invitation \in DOMAIN invitations
             /\ invitations[request[r].invitation].accepted = 0
  <2> DEFINE i == request[r].invitation
  <2>1. i \in DOMAIN invitations /\ invitations[i].accepted = 0
    BY <1>7, WhoWrites DEF Committed
  <2>2. /\ Len(invitations') = Len(invitations) /\ invitations'[i].accepted = Cardinality(S) + 1
        /\ \A j \in DOMAIN invitations \ {i} : invitations'[j].accepted = invitations[j].accepted
    BY <1>2, <1>7 DEF Committed, Uncounted
  <2> HIDE DEF i
  <2>3. DOMAIN invitations' = DOMAIN invitations /\ Cardinality(S) + 1 > 0
    BY <1>1, <1>4, <2>2
  <2>4. T = S \cup {i} /\ i \notin S
    BY <2>1, <2>2, <2>3
  <2>5. S \cup {i} \subseteq DOMAIN invitations
    BY <2>1
  <2>6. Cardinality(S \cup {i}) = Cardinality(S) + 1
    BY <1>4, <2>4, FS_AddElement
  <2>7. Cardinality(S \cup {i}) <= Len(invitations)
    BY <1>1, <2>5, CountsAreFinite
  <2> QED BY <2>1, <2>2, <2>4, <2>6, <2>7 DEF i
<1> HIDE DEF S, T
<1> QED BY <1>2, <1>4, <1>5, <1>6, <1>7

\* A handler that holds the row holds one that nobody has accepted.
LEMMA WriterStep ==
  ASSUME IInv, [Next]_vars, NEW x \in Pending("accept", "write")'
  PROVE  /\ x \in Requests /\ request'[x].invitation \in DOMAIN invitations
         /\ invitations[request'[x].invitation].accepted = 0
         /\ invitations[request'[x].invitation].email = request'[x].user
         /\ \/ x \in Pending("accept", "write") /\ request'[x] = request[x]
            \/ ~Locked(request'[x].invitation)
         /\ \A q \in Pending("accept", "write") : CommitAcceptance(q) => request[q].invitation # request'[x].invitation
<1> DEFINE W == Pending("accept", "write")
<1>1. /\ TypeOK /\ WritersAreAlone /\ HandlersHaveRead
      /\ request \in [Requests -> Slots] /\ request' \in [Requests -> Slots]
  BY Types, HandlerStep DEF IInv, Inv
<1>2. x \in Requests /\ request'[x].op = "accept" /\ request'[x].step = "write"
  BY DEF Pending
<1>3. request'[x].invitation \in DOMAIN invitations' /\ request'[x] \in AcceptHandlers
  BY <1>1, <1>2, HandlerStep, Shapes DEF HandlersHaveRead
<1>4. ASSUME NEW q \in W, CommitAcceptance(q) PROVE request'[q].step = "list"
  <2>1. q \in Requests /\ Goto(q, "list") /\ request[q] \in AcceptHandlers
    BY <1>1, <1>4, WhoWrites DEF CommitAcceptance, Pending
  <2> QED BY <1>1, <2>1, Steps DEF Goto
<1>5. CASE x \in W /\ request'[x] = request[x]
  <2>1. /\ invitations[request'[x].invitation].accepted = 0
        /\ invitations[request'[x].invitation].email = request'[x].user
        /\ request'[x].invitation \in DOMAIN invitations
    BY <1>1, <1>2, <1>5 DEF WritersAreAlone, HandlersHaveRead
  <2>2. ASSUME NEW q \in W, CommitAcceptance(q) PROVE request[q].invitation # request'[x].invitation
    <3>1. q # x
      BY <1>2, <1>4, <2>2
    <3> QED BY <1>1, <1>5, <2>2, <3>1 DEF WritersAreAlone
  <2> QED BY <1>2, <1>5, <2>1, <2>2
<1>6. ASSUME NEW r \in Requests, NEW y \in Slots, Moves(r, y), ~(x \in W /\ request'[x] = request[x])
      PROVE  /\ request'[x].invitation \in DOMAIN invitations
             /\ ~Locked(request'[x].invitation)
             /\ invitations[request'[x].invitation].accepted = 0
             /\ invitations[request'[x].invitation].email = request'[x].user
  <2>1. request'[r] = y /\ \A z \in Requests \ {r} : request'[z] = request[z]
    BY <1>1, <1>6, OneSlot DEF Moves
  <2>2. r = x
    BY <1>1, <1>2, <1>6, <2>1, PendingIs
  <2>3. y \in AcceptHandlers /\ y.step = "write"
    BY <1>2, <1>3, <2>1, <2>2
  <2>4. Advances(r, y)
    BY <1>6, <2>3, Shapes DEF Moves, Enters, Answers
  <2>5. /\ request[r] \in AcceptHandlers
        /\ y.invitation = request[r].invitation /\ ~Locked(y.invitation)
        /\ invitations[y.invitation].accepted = 0 /\ invitations[y.invitation].email = y.user
    BY <2>3, <2>4, Shapes DEF Advances
  <2>6. y.invitation \in DOMAIN invitations
    BY <1>1, <2>5, Shapes DEF HandlersHaveRead
  <2> QED BY <2>1, <2>2, <2>5, <2>6
<1>7. CASE UNCHANGED request
  BY <1>2, <1>5, <1>7 DEF Pending
<1>8. ASSUME ~Locked(request'[x].invitation), NEW q \in W PROVE request[q].invitation # request'[x].invitation
  BY <1>8 DEF Locked
<1> HIDE DEF W
<1>9. CASE x \in W /\ request'[x] = request[x]
  BY <1>5, <1>9
<1>10. CASE ~(x \in W /\ request'[x] = request[x])
  <2>1. /\ request'[x].invitation \in DOMAIN invitations
        /\ ~Locked(request'[x].invitation)
        /\ invitations[request'[x].invitation].accepted = 0
        /\ invitations[request'[x].invitation].email = request'[x].user
    BY <1>6, <1>7, <1>10, RequestStep DEF Pending, W
  <2> QED BY <1>2, <1>8, <2>1 DEF W
<1> QED BY <1>9, <1>10

\* Acceptances are numbered, each invitation is used with its acceptance.
LEMMA CounterStep ==
  ASSUME IInv, [Next]_vars
  PROVE  \A i \in DOMAIN invitations' :
           /\ invitations'[i].uses = (IF invitations'[i].accepted > 0 THEN 1 ELSE 0)
           /\ invitations'[i].accepted <= AcceptedSoFar' /\ invitations'[i].accepted <= Len(invitations')
<1>1. /\ invitations \in Seq(InvitationRows) /\ invitations' \in Seq(InvitationRows)
      /\ \A i \in DOMAIN invitations : invitations[i].accepted \in Nat
      /\ AcceptedSoFar \in Nat /\ AcceptedSoFar <= Len(invitations)
      /\ \A i \in DOMAIN invitations :
           /\ invitations[i].uses = (IF invitations[i].accepted > 0 THEN 1 ELSE 0)
           /\ invitations[i].accepted <= AcceptedSoFar
  <2>1. invitations \in Seq(InvitationRows) /\ invitations' \in Seq(InvitationRows) /\ WritersAreAlone
    BY RowStep DEF IInv, Inv, TypeOK, RowsStay
  <2>2. \A i \in DOMAIN invitations : invitations[i].accepted \in Nat
    <3>1. \A i \in DOMAIN invitations : invitations[i] \in InvitationRows
      BY Types DEF IInv, Inv
    <3> QED BY <3>1 DEF InvitationRows
  <2> QED BY <2>1, <2>2, CommitCounts DEF WritersAreAlone
<1>2. CASE Recounted
  <2>1. /\ DOMAIN invitations' = DOMAIN invitations /\ Len(invitations') = Len(invitations)
        /\ AcceptedSoFar' = AcceptedSoFar
    BY <1>1, <1>2, CommitCounts DEF Recounted
  <2> QED BY <1>1, <1>2, <2>1 DEF Recounted, Uncounted
<1>3. ASSUME NEW r \in Requests, Inserted(r), NEW i \in DOMAIN invitations'
      PROVE  /\ invitations'[i].uses = (IF invitations'[i].accepted > 0 THEN 1 ELSE 0)
             /\ invitations'[i].accepted <= AcceptedSoFar' /\ invitations'[i].accepted <= Len(invitations')
  <2>1. AcceptedSoFar' = AcceptedSoFar /\ Len(invitations') = Len(invitations) + 1
    BY <1>3, CommitCounts DEF Inserted
  <2>2. i \in DOMAIN invitations \/ i = Len(invitations')
    BY <1>1, <2>1
  <2>3. CASE i \in DOMAIN invitations
    <3>1. Uncounted(i)
      BY <1>3, <2>3 DEF Inserted
    <3>2. invitations[i].accepted \in Nat /\ invitations[i].accepted <= AcceptedSoFar
      BY <1>1, <2>3
    <3> QED BY <1>1, <2>1, <2>3, <3>1, <3>2 DEF Uncounted
  <2>4. CASE i = Len(invitations')
    <3>1. invitations'[i].uses = 0 /\ invitations'[i].accepted = 0
      BY <1>3, <2>4 DEF Inserted
    <3> QED BY <1>1, <2>1, <3>1
  <2> QED BY <2>2, <2>3, <2>4
<1>4. ASSUME NEW r \in Requests, Committed(r), NEW i \in DOMAIN invitations'
      PROVE  /\ invitations'[i].uses = (IF invitations'[i].accepted > 0 THEN 1 ELSE 0)
             /\ invitations'[i].accepted <= AcceptedSoFar' /\ invitations'[i].accepted <= Len(invitations')
  <2> DEFINE c == request[r].invitation
  <2>1. /\ AcceptedSoFar' = AcceptedSoFar + 1 /\ AcceptedSoFar' <= Len(invitations')
        /\ c \in DOMAIN invitations /\ invitations[c].accepted = 0
    BY <1>4, CommitCounts
  <2>2. /\ Len(invitations') = Len(invitations) /\ invitations'[c].accepted = AcceptedSoFar + 1
        /\ invitations'[c].uses = invitations[c].uses + 1
        /\ \A j \in DOMAIN invitations \ {c} : Uncounted(j)
    BY <1>4 DEF Committed
  <2>3. DOMAIN invitations' = DOMAIN invitations
    BY <1>1, <2>2
  <2> HIDE DEF c
  <2>4. CASE i = c
    <3>1. invitations[c].uses = 0
      BY <1>1, <2>1
    <3> QED BY <1>1, <2>1, <2>2, <2>4, <3>1
  <2>5. CASE i # c
    <3>1. Uncounted(i) /\ i \in DOMAIN invitations
      BY <1>4, <2>2, <2>3, <2>5
    <3>2. invitations[i].accepted \in Nat /\ invitations[i].accepted <= AcceptedSoFar
      BY <1>1, <3>1
    <3> QED BY <1>1, <2>1, <2>2, <3>1, <3>2 DEF Uncounted
  <2> QED BY <2>4, <2>5
<1> QED BY <1>2, <1>3, <1>4, RowStep DEF RowsStay

LEMMA AloneStep ==
  ASSUME IInv, [Next]_vars
  PROVE  WritersAreAlone'
<1> DEFINE W == Pending("accept", "write")
<1>1. ASSUME NEW x \in W'
      PROVE  /\ invitations'[request'[x].invitation].accepted = 0
             /\ invitations'[request'[x].invitation].email = request'[x].user
  <2> DEFINE i == request'[x].invitation
  <2>1. /\ i \in DOMAIN invitations /\ invitations[i].accepted = 0
        /\ invitations[i].email = request'[x].user
        /\ \A q \in W : CommitAcceptance(q) => request[q].invitation # i
    BY <1>1, WriterStep
  <2>2. invitations'[i].email = request'[x].user
    BY <2>1, RowStep DEF RowsStay, Unchanging
  <2>3. ASSUME NEW r \in Requests, Committed(r) PROVE Uncounted(i)
    <3>1. r \in W /\ CommitAcceptance(r)
      BY <2>3 DEF Committed, CommitAcceptance
    <3> QED BY <2>1, <2>3, <3>1 DEF Committed
  <2>4. Uncounted(i)
    BY <2>1, <2>3, RowStep DEF RowsStay, Recounted, Inserted
  <2> QED BY <2>1, <2>2, <2>4 DEF Uncounted
<1>2. ASSUME NEW x \in W', NEW z \in W', request'[x].invitation = request'[z].invitation
      PROVE  x = z
  <2> DEFINE Old(u) == u \in W /\ request'[u] = request[u]
  <2>1. Old(x) \/ ~Locked(request'[x].invitation)
    BY <1>2, WriterStep
  <2>2. Old(z) \/ ~Locked(request'[z].invitation)
    BY <1>2, WriterStep
  <2>3. CASE Old(x) /\ Old(z)
    BY <1>2, <2>3 DEF IInv, WritersAreAlone
  <2>4. CASE Old(x) /\ ~Old(z)
    BY <1>2, <2>2, <2>4 DEF Locked
  <2>5. CASE ~Old(x) /\ Old(z)
    BY <1>2, <2>1, <2>5 DEF Locked
  <2>6. CASE ~Old(x) /\ ~Old(z)
    <3>1. x \in Requests /\ z \in Requests /\ request \in [Requests -> Slots] /\ request' \in [Requests -> Slots] /\ TypeOK
      BY <1>2, WriterStep, HandlerStep, Types DEF IInv, Inv
    <3>2. /\ request'[x].op = "accept" /\ request'[x].step = "write"
          /\ request'[z].op = "accept" /\ request'[z].step = "write"
      BY <1>2 DEF Pending
    <3>3. ASSUME NEW u \in Requests, request'[u] = request[u], request'[u].op = "accept", request'[u].step = "write"
          PROVE  Old(u)
      BY <3>1, <3>3, PendingIs
    <3>4. request'[x] # request[x] /\ request'[z] # request[z]
      BY <2>6, <3>1, <3>2, <3>3
    <3>5. ASSUME NEW r \in Requests, NEW y \in Slots, Moves(r, y) PROVE x = r /\ z = r
      BY <3>1, <3>4, <3>5, OneSlot DEF Moves
    <3> QED BY <3>4, <3>5, RequestStep
  <2> QED BY <2>3, <2>4, <2>5, <2>6
<1> QED BY <1>1, <1>2, CounterStep DEF WritersAreAlone

-----------------------------------------------------------------------------
(* Who is a member, and with which role.                                   *)

\* A role changes by founding or by the first acceptance.
LEMMA NewMembers ==
  ASSUME IInv, [Next]_vars, NEW o \in Users, NEW v \in Users, member'[o][v] # member[o][v]
  PROVE  \/ o = v /\ v \in accounts'
         \/ /\ member[o][v] = "none"
            /\ \E i \in DOMAIN invitations :
                 /\ invitations[i].org = o /\ invitations[i].email = v /\ invitations'[i].accepted > 0
                 /\ member'[o][v] = invitations[i].role
<1>1. TypeOK
  BY DEF IInv, Inv
<1>2. ASSUME NEW r \in Requests, Register(r) PROVE o = v /\ v \in accounts'
  <2> DEFINE u == request[r].user
  <2>1. u \in Users
    BY <1>2, WhoWrites
  <2>2. accounts' = accounts \cup {u} /\ member' = [member EXCEPT ![u][u] = "owner"]
    BY <1>2 DEF Register, tables
  <2> HIDE DEF u
  <2> QED BY <1>1, <2>1, <2>2 DEF TypeOK
<1>3. ASSUME NEW r \in Requests, CommitAcceptance(r)
      PROVE  /\ member[o][v] = "none"
             /\ \E i \in DOMAIN invitations :
                 /\ invitations[i].org = o /\ invitations[i].email = v /\ invitations'[i].accepted > 0
                 /\ member'[o][v] = invitations[i].role
  <2> DEFINE u == request[r].user  i == request[r].invitation  inv == invitations[i]
             g == inv.org  new == Joined(member[g][u], inv.role)
  <2>1. u \in Users /\ i \in DOMAIN invitations /\ inv.email = u /\ inv \in InvitationRows /\ inv.accepted = 0
    BY <1>1, <1>3, WhoWrites, Types
  <2>2. g \in Users
    BY <2>1 DEF InvitationRows
  <2>3. member' = [member EXCEPT ![g][u] = new]
    BY <1>3 DEF CommitAcceptance
  <2>4. invitations'[i].accepted > 0
    <3>1. invitations' = [invitations EXCEPT ![i].accepted = IF @ = 0 THEN AcceptedSoFar + 1 ELSE @, ![i].uses = @ + 1]
      BY <1>3 DEF CommitAcceptance
    <3>2. AcceptedSoFar \in Nat
      BY CommitCounts
    <3>3. AcceptedSoFar + 1 \in Nat /\ AcceptedSoFar + 1 > 0
      BY <3>2
    <3> DEFINE x == [inv EXCEPT !.accepted = AcceptedSoFar + 1, !.uses = @ + 1]
    <3>4. x.accepted = AcceptedSoFar + 1
      BY <2>1, <3>3, AcceptedRow
    <3>5. invitations' = [invitations EXCEPT ![i] = x]
      BY <1>1, <2>1, <3>1 DEF TypeOK, InvitationRows
    <3> HIDE DEF x, i
    <3> QED BY <1>1, <2>1, <3>3, <3>4, <3>5 DEF TypeOK
  <2> HIDE DEF u, g, new
  <2>5. g = o /\ u = v /\ member'[o][v] = new
    BY <1>1, <2>1, <2>2, <2>3 DEF TypeOK
  <2>6. new # member[g][u] => new = inv.role /\ member[g][u] = "none"
    BY DEF new, Joined
  <2> QED BY <2>1, <2>4, <2>5, <2>6 DEF g
<1> QED BY <1>2, <1>3, Writers

\* Acceptances are kept.
LEMMA AcceptedStay ==
  ASSUME IInv, [Next]_vars
  PROVE  \A i \in DOMAIN invitations : invitations[i].accepted > 0 =>
           i \in DOMAIN invitations' /\ invitations'[i].accepted = invitations[i].accepted
<1>1. ASSUME NEW i \in DOMAIN invitations, invitations[i].accepted > 0, NEW r \in Requests, Committed(r)
      PROVE  Uncounted(i)
  <2>1. invitations[request[r].invitation].accepted = 0
    BY <1>1, CommitCounts
  <2>2. i # request[r].invitation
    BY <1>1, <2>1
  <2> QED BY <1>1, <2>2 DEF Committed
<1> QED BY <1>1, RowStep DEF RowsStay, Unchanging, Recounted, Inserted, Uncounted

LEMMA InviterStep ==
  ASSUME IInv, [Next]_vars
  PROVE  InvitersMayInvite'
<1> DEFINE Still(o, by, role) == by = o \/ (member'[o][by] = "admin" /\ role \in {"member", "viewer"})
<1>1. /\ TypeOK /\ MembersStay /\ InvitersMayInvite
      /\ request \in [Requests -> Slots] /\ request' \in [Requests -> Slots]
      /\ invitations' \in Seq(InvitationRows) /\ DOMAIN invitations' = 1 .. Len(invitations')
  BY Types, MemberStep, HandlerStep, RowStep DEF IInv, Inv, RowsStay
<1>2. ASSUME NEW o \in Users, NEW by \in Users, NEW role, MayStillInvite(o, by, role) PROVE Still(o, by, role)
  BY <1>1, <1>2 DEF MayStillInvite, MembersStay
<1>3. ASSUME NEW y \in InviteHandlers, MayStillInvite(y.org, y.user, y.role) PROVE Still(y.org, y.user, y.role)
  <2>1. y.org \in Users /\ y.user \in Users
    BY DEF InviteHandlers
  <2> HIDE DEF Still
  <2> QED BY <1>2, <1>3, <2>1
<1>4. ASSUME NEW r \in Requests, request[r] \in InviteHandlers
      PROVE  MayStillInvite(request[r].org, request[r].user, request[r].role)
  <2>1. r \in Invites
    BY <1>1, <1>4, Shapes DEF Invites
  <2> QED BY <1>1, <2>1 DEF InvitersMayInvite
<1>5. ASSUME NEW i \in DOMAIN invitations'
      PROVE  Still(invitations'[i].org, invitations'[i].by, invitations'[i].role)
  <2>1. CASE i \in DOMAIN invitations
    <3>1. MayStillInvite(invitations[i].org, invitations[i].by, invitations[i].role)
      BY <1>1, <2>1 DEF InvitersMayInvite
    <3>2. invitations[i] \in InvitationRows
      BY <1>1, <2>1, Types
    <3>3. invitations[i].org \in Users /\ invitations[i].by \in Users
      BY <3>2 DEF InvitationRows
    <3>4. Still(invitations[i].org, invitations[i].by, invitations[i].role)
      BY <1>2, <3>1, <3>3
    <3> QED BY <2>1, <3>4, RowStep DEF RowsStay, Unchanging
  <2>2. CASE i \notin DOMAIN invitations
    <3>1. PICK r \in Requests : Inserted(r)
      <4>1. \E r \in Requests : Inserted(r)
        BY <1>1, <2>2, Types, RowStep DEF RowsStay, Recounted, Committed
      <4> QED BY <4>1
    <3>2. request[r] \in InviteHandlers
      BY <3>1, WhoWrites DEF Inserted
    <3>3. i = Len(invitations')
      BY <1>1, <2>2, <3>1, Types DEF Inserted
    <3>4. /\ invitations'[i].org = request[r].org /\ invitations'[i].by = request[r].user
          /\ invitations'[i].role = request[r].role
      BY <3>1, <3>3 DEF Inserted
    <3>5. Still(request[r].org, request[r].user, request[r].role)
      BY <1>3, <1>4, <3>2
    <3> QED BY <3>4, <3>5
  <2> QED BY <2>1, <2>2
<1>6. ASSUME NEW x \in Requests, request'[x].op = "invite"
      PROVE  Still(request'[x].org, request'[x].user, request'[x].role)
  <2>1. request'[x] \in InviteHandlers
    BY <1>1, <1>6, Shapes
  <2>2. CASE request'[x] = request[x]
    BY <1>3, <1>4, <2>1, <2>2
  <2>3. ASSUME NEW r \in Requests, NEW y \in Slots, Moves(r, y), request'[x] # request[x]
        PROVE  MayStillInvite(y.org, y.user, y.role) /\ y \in InviteHandlers /\ request'[x] = y
    <3>1. r = x /\ request'[x] = y
      BY <1>1, <2>3, OneSlot DEF Moves
    <3>2. CASE Enters(r, y)
      BY <2>1, <3>1, <3>2, Shapes DEF Enters
    <3>3. CASE Advances(r, y)
      <4>1. request[r] \in InviteHandlers /\ y.org = request[r].org /\ y.user = request[r].user /\ y.role = request[r].role
        BY <2>1, <3>1, <3>3, Shapes DEF Advances
      <4> QED BY <1>4, <2>1, <3>1, <4>1
    <3> QED BY <1>6, <2>3, <3>1, <3>2, <3>3 DEF Moves, Answers, Idle
  <2>4. CASE request'[x] # request[x]
    <3>1. PICK r \in Requests, y \in Slots : Moves(r, y)
      BY <2>4, RequestStep
    <3>2. MayStillInvite(y.org, y.user, y.role) /\ y \in InviteHandlers /\ request'[x] = y
      BY <2>3, <2>4, <3>1
    <3> QED BY <1>3, <3>2
  <2> QED BY <2>2, <2>4
<1> QED BY <1>5, <1>6 DEF InvitersMayInvite, Invites, MayStillInvite

LEMMA GrantStep ==
  ASSUME IInv, [Next]_vars
  PROVE  MembershipsAreGranted'
<1>1. TypeOK /\ MembersStay /\ RowsStay /\ MembershipsAreGranted /\ InvitersMayInvite /\ InvitersMayInvite'
  BY MemberStep, RowStep, InviterStep DEF IInv, Inv
<1>2. \A i \in DOMAIN invitations : invitations[i] \in InvitationRows
  BY <1>1, Types
<1>3. ASSUME NEW o \in Users, NEW v \in Users, member'[o][v] = "owner" PROVE o = v /\ v \in accounts'
  <2>1. CASE member'[o][v] = member[o][v]
    BY <1>1, <1>3, <2>1 DEF MembershipsAreGranted, MembersStay
  <2>2. CASE member'[o][v] # member[o][v]
    <3>1. \A i \in DOMAIN invitations : invitations[i].role # "owner"
      BY <1>2 DEF InvitationRows, Grantable
    <3> QED BY <1>3, <2>2, <3>1, NewMembers
  <2> QED BY <2>1, <2>2
<1>4. ASSUME NEW o \in Users, NEW v \in Users, member'[o][v] # "none", v # o
      PROVE  \E i \in Accepted(o, v)' :
               /\ invitations'[i].role = member'[o][v]
               /\ \/ invitations'[i].by = o
                  \/ member'[o][invitations'[i].by] = "admin" /\ member'[o][v] \in {"member", "viewer"}
  <2>1. CASE member'[o][v] = member[o][v]
    <3>1. PICK i \in Accepted(o, v) :
             /\ invitations[i].role = member[o][v]
             /\ \/ invitations[i].by = o
                \/ member[o][invitations[i].by] = "admin" /\ member[o][v] \in {"member", "viewer"}
      BY <1>1, <1>4, <2>1 DEF MembershipsAreGranted
    <3>2. i \in DOMAIN invitations /\ i \in Accepted(o, v)' /\ Unchanging(i)
      BY <1>1, <3>1, AcceptedStay DEF Accepted, RowsStay, Unchanging
    <3>3. invitations[i].by \in Users
      BY <1>2, <3>2 DEF InvitationRows
    <3>4. \/ invitations[i].by = o
          \/ member'[o][invitations[i].by] = "admin" /\ member[o][v] \in {"member", "viewer"}
      BY <1>1, <3>1, <3>3 DEF MembersStay
    <3> QED BY <2>1, <3>1, <3>2, <3>4 DEF Unchanging
  <2>2. CASE member'[o][v] # member[o][v]
    <3>1. PICK i \in DOMAIN invitations :
                 /\ invitations[i].org = o /\ invitations[i].email = v /\ invitations'[i].accepted > 0
                 /\ member'[o][v] = invitations[i].role
      BY <1>4, <2>2, NewMembers
    <3>2. Unchanging(i)
      BY <1>1, <3>1 DEF RowsStay
    <3>3. i \in Accepted(o, v)'
      BY <3>1, <3>2 DEF Accepted, Unchanging
    <3>4. \/ invitations'[i].by = o
          \/ member'[o][invitations'[i].by] = "admin" /\ member'[o][v] \in {"member", "viewer"}
      BY <1>1, <3>1, <3>2 DEF InvitersMayInvite, MayStillInvite, Unchanging
    <3> QED BY <3>1, <3>2, <3>3, <3>4 DEF Unchanging
  <2> QED BY <2>1, <2>2
<1> QED BY <1>3, <1>4 DEF MembershipsAreGranted

LEMMA FirstStep ==
  ASSUME IInv, [Next]_vars
  PROVE  FirstAcceptanceWins'
<1>1. TypeOK /\ MembersStay /\ RowsStay /\ MembershipsAreGranted /\ FirstAcceptanceWins
  BY MemberStep, RowStep DEF IInv, Inv
<1>2. /\ \A i \in DOMAIN invitations : invitations[i] \in InvitationRows /\ invitations[i].accepted \in Nat
      /\ \A i \in DOMAIN invitations : invitations[i].accepted <= AcceptedSoFar
  <2>1. \A i \in DOMAIN invitations : invitations[i] \in InvitationRows
    BY <1>1, Types
  <2> QED BY <2>1 DEF InvitationRows, IInv, WritersAreAlone
<1>3. SUFFICES ASSUME NEW o \in Users, NEW v \in Users, NEW i \in Accepted(o, v)', v # o,
                      \A j \in Accepted(o, v)' : invitations'[i].accepted <= invitations'[j].accepted
               PROVE  member'[o][v] = invitations'[i].role
  BY DEF FirstAcceptanceWins
<1>4. ASSUME NEW j \in Accepted(o, v)
      PROVE  j \in Accepted(o, v)' /\ invitations'[j].accepted = invitations[j].accepted
  BY <1>1, AcceptedStay DEF Accepted, RowsStay, Unchanging
<1>5. CASE i \in Accepted(o, v)
  <2>1. \A j \in Accepted(o, v) : invitations[i].accepted <= invitations[j].accepted
    BY <1>3, <1>4, <1>5
  <2>2. member[o][v] = invitations[i].role
    BY <1>1, <1>3, <1>5, <2>1 DEF FirstAcceptanceWins
  <2>3. i \in DOMAIN invitations /\ invitations[i].role # "none" /\ Unchanging(i)
    BY <1>1, <1>2, <1>5 DEF InvitationRows, Grantable, Roles, Accepted, RowsStay
  <2> QED BY <1>1, <1>3, <2>2, <2>3 DEF MembersStay, Unchanging
<1>6. CASE i \notin Accepted(o, v)
  <2>1. PICK r \in Requests : Committed(r) /\ i = request[r].invitation
    <3>1. \E r \in Requests : Committed(r) /\ i = request[r].invitation
      <4>1. i \in DOMAIN invitations' /\ invitations'[i].accepted > 0
        BY <1>3 DEF Accepted
      <4>2. CASE i \in DOMAIN invitations
        <5>1. ~Uncounted(i)
          BY <1>1, <1>3, <1>6, <4>2 DEF Accepted, RowsStay, Unchanging, Uncounted
        <5> QED BY <1>1, <4>2, <5>1 DEF RowsStay, Recounted, Inserted, Committed
      <4>3. CASE i \notin DOMAIN invitations
        <5>1. invitations' \in Seq(InvitationRows) /\ DOMAIN invitations = 1 .. Len(invitations) /\ Len(invitations) \in Nat
          BY <1>1, Types DEF RowsStay
        <5>2. ASSUME NEW q \in Requests, Inserted(q) PROVE FALSE
          <6>1. Len(invitations') = Len(invitations) + 1 /\ invitations'[Len(invitations')].accepted = 0
            BY <5>2 DEF Inserted
          <6>2. i = Len(invitations')
            BY <4>1, <4>3, <5>1, <6>1
          <6> QED BY <4>1, <6>1, <6>2
        <5>3. Len(invitations') # Len(invitations)
          BY <4>1, <4>3, <5>1
        <5> QED BY <1>1, <5>2, <5>3 DEF RowsStay, Recounted, Committed
      <4> QED BY <4>2, <4>3
    <3> QED BY <3>1
  <2>2. /\ i \in DOMAIN invitations /\ invitations[i].accepted = 0
        /\ invitations'[i].accepted = AcceptedSoFar + 1 /\ AcceptedSoFar \in Nat
    BY <2>1, CommitCounts DEF Committed
  <2>3. invitations[i].org = o /\ invitations[i].email = v
    BY <1>1, <1>3, <2>2 DEF Accepted, RowsStay, Unchanging
  <2>4. Accepted(o, v) = {}
    <3>1. SUFFICES ASSUME NEW j \in Accepted(o, v) PROVE FALSE
      OBVIOUS
    <3>2. invitations[j].accepted \in Nat /\ invitations[j].accepted <= AcceptedSoFar
      BY <1>2, <3>1 DEF Accepted
    <3>3. invitations'[i].accepted <= invitations[j].accepted
      BY <1>3, <1>4
    <3> QED BY <2>2, <3>2, <3>3
  <2>5. member[o][v] = "none"
    BY <1>1, <1>3, <2>4 DEF MembershipsAreGranted
  <2>6. member'[o][v] = invitations[i].role
    <3>1. request[r].user = v
      BY <2>1, <2>3, WhoWrites DEF Committed
    <3>2. member' = [member EXCEPT ![o][v] = Joined(@, invitations[i].role)]
      BY <2>1, <2>3, <3>1 DEF Committed, CommitAcceptance
    <3> QED BY <1>1, <2>5, <3>2 DEF TypeOK, Joined
  <2> QED BY <1>1, <2>2, <2>6 DEF RowsStay, Unchanging
<1> QED BY <1>5, <1>6

-----------------------------------------------------------------------------
(* Client sockets and logout.                                              *)

\* The organization is on its way to the socket by a resync.
FromResync(k, o) ==
  socket[k].resync = "asked" \/ (socket[k].resync = "listed" /\ o \in socket[k].listed)

\* The socket carries another list: an acceptance's, or its resync's.
Learns(k) ==
  /\ \/ socket'[k].orgs = socket[k].listed
     \/ \E r \in Requests : AssignOrgs(r) /\ request[r].user = socket[k].user /\ socket'[k].orgs = request[r].orgs
  /\ (socket[k].behind \cup socket[k].orgs) \ socket'[k].orgs \subseteq socket'[k].behind

\* A socket that stays open: its process, user and session stay, a missed
\* logout stays missed, an organization a resync brings is brought or stays on
\* its way, and one that the socket is behind with stays so or is learnt.
StaysOpen(k) ==
  /\ IsOpen(k)
  /\ socket'[k].proc = socket[k].proc /\ socket'[k].user = socket[k].user
  /\ socket'[k].session = socket[k].session
  /\ socket[k].missed => socket'[k].missed
  /\ socket'[k].listed \in {socket[k].listed, {}, OrgsOf(socket[k].user)}
  /\ \A o \in OrgsOf(socket[k].user) : FromResync(k, o) => FromResync(k, o)' \/ o \in socket'[k].orgs
  /\ \/ socket'[k].orgs = socket[k].orgs /\ socket[k].behind \subseteq socket'[k].behind
     \/ Learns(k)

\* A socket that an upgrade opens.
Opens(k, r) ==
  /\ OpenSocket(r) /\ request[r] \in UpgradeHandlers
  /\ socket'[k].proc = request[r].proc /\ socket'[k].user = request[r].user
  /\ socket'[k].session = request[r].session /\ socket'[k].orgs = request[r].orgs
  /\ socket'[k].resync = "asked" /\ socket'[k].listed = {}
  /\ \/ socket'[k].missed \/ ~sessions[request[r].session].revoked
     \/ \E x \in Pending("logout", "close") :
          request[x].session = request[r].session /\ request[x].proc = request[r].proc

LEMMA OpenOrFree ==
  ASSUME NEW x \in ClientSockets \cup {Free}
  PROVE  x.state = "open" <=> x \in ClientSockets
BY DEF ClientSockets, Free

\* A socket that nothing writes.
LEMMA SameSocket ==
  ASSUME NEW k \in Sockets, socket'[k] = socket[k], IsOpen(k)
  PROVE  StaysOpen(k)
BY DEF StaysOpen, FromResync

\* A socket that learns the list L of an acceptance or of its resync.
LEMMA CarryingStep ==
  ASSUME NEW k \in Sockets, socket[k] \in ClientSockets, NEW L \in SUBSET Users
  PROVE  LET y == Carrying(k, L) IN
         /\ y \in ClientSockets /\ y.proc = socket[k].proc /\ y.user = socket[k].user
         /\ y.session = socket[k].session /\ y.missed = socket[k].missed
         /\ y.orgs = L /\ y.behind = (socket[k].behind \cup socket[k].orgs) \ L
         /\ y.resync = socket[k].resync /\ y.listed = socket[k].listed
BY DEF Carrying, ClientSockets

LEMMA BehindStep ==
  ASSUME NEW k \in Sockets, socket[k] \in ClientSockets, NEW B \in SUBSET Users,
         socket'[k] = [socket[k] EXCEPT !.behind = @ \cup B]
  PROVE  socket'[k] \in ClientSockets /\ StaysOpen(k) /\ socket'[k].orgs = socket[k].orgs /\ B \subseteq socket'[k].behind
<1>1. /\ socket'[k] \in ClientSockets /\ socket'[k].proc = socket[k].proc /\ socket'[k].user = socket[k].user
      /\ socket'[k].session = socket[k].session /\ socket'[k].missed = socket[k].missed
      /\ socket'[k].orgs = socket[k].orgs /\ socket'[k].behind = socket[k].behind \cup B
      /\ socket'[k].resync = socket[k].resync /\ socket'[k].listed = socket[k].listed
  BY DEF ClientSockets
<1>2. IsOpen(k)
  BY DEF IsOpen, ClientSockets
<1> QED BY <1>1, <1>2 DEF StaysOpen, FromResync

LEMMA SocketStep ==
  ASSUME IInv, [Next]_vars
  PROVE  /\ socket' \in [Sockets -> ClientSockets \cup {Free}]
         /\ \A k \in Sockets : IsOpen(k)' => StaysOpen(k) \/ \E r \in Requests : Opens(k, r)
<1> DEFINE Goal == /\ socket' \in [Sockets -> ClientSockets \cup {Free}]
                   /\ \A k \in Sockets : socket'[k].state = "open" =>
                        StaysOpen(k) \/ \E r \in Requests : Opens(k, r)
           Step(k) == /\ socket'[k] \in ClientSockets \cup {Free}
                      /\ socket'[k].state = "open" => StaysOpen(k)
<1>1. /\ TypeOK /\ HandlersHaveRead /\ request \in [Requests -> Slots]
      /\ socket \in [Sockets -> ClientSockets \cup {Free}]
  BY Types DEF IInv, Inv, TypeOK
<1>a. ASSUME NEW k \in Sockets, socket'[k] = socket[k] PROVE Step(k)
  BY <1>1, <1>a, SameSocket DEF IsOpen
<1>b. ASSUME NEW k \in Sockets, socket'[k] = Free PROVE Step(k)
  BY <1>b DEF Free
<1>c. ASSUME NEW k \in Sockets, IsOpen(k) PROVE socket[k] \in ClientSockets
  BY <1>1, <1>c, OpenOrFree DEF IsOpen
<1>d. ASSUME \A k \in Sockets : Step(k), socket' = [k \in Sockets |-> socket'[k]] PROVE Goal
  BY <1>d
<1>e. ASSUME NEW k \in Sockets, NEW y, socket' = [socket EXCEPT ![k] = y], Step(k) PROVE Goal
  <2>1. \A j \in Sockets \ {k} : socket'[j] = socket[j]
    BY <1>1, <1>e
  <2>2. socket' = [j \in Sockets |-> socket'[j]]
    BY <1>1, <1>e
  <2> HIDE DEF Goal, Step
  <2> QED BY <1>a, <1>d, <1>e, <2>1, <2>2
<1> HIDE DEF Goal, Step
<1>2. ASSUME UNCHANGED socket PROVE Goal
  <2>1. socket' = [k \in Sockets |-> socket'[k]]
    BY <1>1, <1>2
  <2> QED BY <1>2, <1>a, <1>d, <2>1
<1>3. ASSUME NEW k \in Sockets, socket' = [socket EXCEPT ![k] = Free] PROVE Goal
  BY <1>1, <1>3, <1>b, <1>e
<1>4. ASSUME NEW r \in Requests, AssignOrgs(r) PROVE Goal
  <2>1. request[r] \in AssignHandlers
    BY <1>1, <1>4, PendingIs, Shapes DEF AssignOrgs
  <2>2. request[r].orgs \subseteq Users
    BY <2>1 DEF AssignHandlers
  <2>3. ASSUME NEW k \in Sockets PROVE Step(k)
    <3>1. socket'[k] = IF Refreshed(k, request[r].proc, request[r].user)
                       THEN Carrying(k, request[r].orgs) ELSE socket[k]
      BY <1>4 DEF AssignOrgs
    <3>2. CASE Refreshed(k, request[r].proc, request[r].user)
      <4>1. socket[k] \in ClientSockets /\ socket[k].user = request[r].user /\ IsOpen(k)
        BY <1>c, <3>2 DEF Refreshed
      <4>2. /\ socket'[k] \in ClientSockets /\ socket'[k].proc = socket[k].proc
            /\ socket'[k].user = socket[k].user /\ socket'[k].session = socket[k].session
            /\ socket'[k].missed = socket[k].missed /\ socket'[k].orgs = request[r].orgs
            /\ socket'[k].behind = (socket[k].behind \cup socket[k].orgs) \ request[r].orgs
            /\ socket'[k].resync = socket[k].resync /\ socket'[k].listed = socket[k].listed
        BY <2>2, <3>1, <3>2, <4>1, CarryingStep
      <4>3. Learns(k)
        BY <1>4, <4>1, <4>2 DEF Learns
      <4> QED BY <4>1, <4>2, <4>3 DEF StaysOpen, FromResync, Step
    <3>3. CASE ~Refreshed(k, request[r].proc, request[r].user)
      BY <1>a, <3>1, <3>3
    <3> QED BY <3>2, <3>3
  <2>4. socket' = [k \in Sockets |-> socket'[k]]
    BY <1>4 DEF AssignOrgs
  <2> QED BY <1>d, <2>3, <2>4
<1>5. ASSUME NEW r \in Requests, OpenSocket(r) PROVE Goal
  <2> DEFINE q == request[r]
             closing == \E x \in Pending("logout", "close") : request[x].session = q.session /\ request[x].proc = q.proc
             missed == sessions[q.session].revoked /\ ~closing
             new == [state |-> "open", proc |-> q.proc, user |-> q.user, session |-> q.session,
                     missed |-> missed, orgs |-> q.orgs, resync |-> "asked", listed |-> {}, behind |-> {}]
  <2>1. q \in UpgradeHandlers /\ q.op = "upgrade"
    BY <1>1, <1>5, PendingIs, Shapes DEF OpenSocket
  <2>2. q.session \in DOMAIN sessions
    BY <1>1, <2>1 DEF HandlersHaveRead
  <2>3. missed \in BOOLEAN
    OBVIOUS
  <2>4. socket' = [socket EXCEPT ![q.socket] = new]
    BY <1>5 DEF OpenSocket
  <2>5. /\ new.proc = q.proc /\ new.user = q.user /\ new.session = q.session
        /\ new.orgs = q.orgs /\ new.missed = missed /\ new.resync = "asked" /\ new.listed = {}
    OBVIOUS
  <2>6. missed \/ ~sessions[q.session].revoked \/ closing
    OBVIOUS
  <2> HIDE DEF missed, closing
  <2>7. new \in ClientSockets /\ q.socket \in Sockets
    BY <2>1, <2>3 DEF UpgradeHandlers, ClientSockets
  <2> HIDE DEF new
  <2>8. /\ socket' \in [Sockets -> ClientSockets \cup {Free}]
        /\ socket'[q.socket] = new /\ \A k \in Sockets \ {q.socket} : socket'[k] = socket[k]
    BY <1>1, <2>4, <2>7
  <2>9. Opens(q.socket, r)
    BY <1>5, <2>1, <2>5, <2>6, <2>8 DEF Opens, closing
  <2>10. \A k \in Sockets \ {q.socket} : Step(k)
    BY <1>a, <2>8
  <2> QED BY <2>8, <2>9, <2>10 DEF Goal, Step
<1>6. ASSUME NEW r \in Requests, RevokeSession(r) PROVE Goal
  <2>1. ASSUME NEW k \in Sockets PROVE Step(k)
    <3>1. socket'[k] = socket[k] \/ (IsOpen(k) /\ socket'[k] = [socket[k] EXCEPT !.missed = TRUE])
      BY <1>6 DEF RevokeSession
    <3>2. CASE IsOpen(k) /\ socket'[k] = [socket[k] EXCEPT !.missed = TRUE]
      <4>1. socket[k] \in ClientSockets
        BY <1>c, <3>2
      <4>2. /\ socket'[k] \in ClientSockets /\ socket'[k].proc = socket[k].proc
            /\ socket'[k].user = socket[k].user /\ socket'[k].session = socket[k].session
            /\ socket'[k].orgs = socket[k].orgs /\ socket'[k].behind = socket[k].behind
            /\ socket'[k].resync = socket[k].resync /\ socket'[k].listed = socket[k].listed
        BY <3>2, <4>1 DEF ClientSockets
      <4>3. socket'[k].missed
        BY <3>2, <4>1 DEF ClientSockets
      <4> QED BY <3>2, <4>2, <4>3 DEF StaysOpen, FromResync, Step
    <3> QED BY <1>a, <3>1, <3>2
  <2>2. socket' = [k \in Sockets |-> socket'[k]]
    BY <1>6 DEF RevokeSession
  <2> QED BY <1>d, <2>1, <2>2
<1>7. ASSUME NEW r \in Requests, CloseSockets(r) PROVE Goal
  <2>1. socket' = [k \in Sockets |-> IF Ended(k, request[r].session, request[r].proc) THEN Free ELSE socket[k]]
    BY <1>7 DEF CloseSockets
  <2>2. \A k \in Sockets : socket'[k] = Free \/ socket'[k] = socket[k]
    BY <2>1
  <2>3. socket' = [k \in Sockets |-> socket'[k]]
    BY <2>1
  <2> QED BY <1>a, <1>b, <1>d, <2>2, <2>3
<1>8. ASSUME NEW S, NEW o \in Users, S \subseteq {k \in Sockets : IsOpen(k)}, FallBehind(S, o) PROVE Goal
  <2>1. ASSUME NEW k \in Sockets PROVE Step(k)
    <3>1. CASE k \in S
      <4>1. socket[k] \in ClientSockets
        BY <1>c, <1>8, <3>1
      <4>2. socket'[k] = [socket[k] EXCEPT !.behind = @ \cup ({o} \ socket[k].orgs)]
        BY <1>8, <3>1 DEF FallBehind
      <4>3. {o} \ socket[k].orgs \in SUBSET Users
        OBVIOUS
      <4>4. socket'[k] \in ClientSockets /\ StaysOpen(k)
        BY <4>1, <4>2, <4>3, BehindStep
      <4> QED BY <4>4 DEF Step
    <3>2. CASE k \notin S
      BY <1>8, <1>a, <3>2 DEF FallBehind
    <3> QED BY <3>1, <3>2
  <2>2. socket' = [k \in Sockets |-> socket'[k]]
    BY <1>8 DEF FallBehind
  <2> QED BY <1>d, <2>1, <2>2
<1>9. ASSUME NEW r \in Requests, CommitAcceptance(r) \/ ListFails(r) PROVE Goal
  <2> DEFINE i == request[r].invitation
  <2>1. request[r].op = "accept" /\ request[r].step # "assign"
    BY <1>1, <1>9, PendingIs DEF CommitAcceptance, ListFails
  <2>2. i \in DOMAIN invitations
    BY <1>1, <2>1 DEF HandlersHaveRead
  <2>3. invitations[i].org \in Users
    BY <1>1, <2>2, Types DEF InvitationRows
  <2>4. CASE CommitAcceptance(r)
    BY <1>8, <2>3, <2>4 DEF CommitAcceptance
  <2>5. CASE ListFails(r)
    BY <1>8, <2>3, <2>5 DEF ListFails, Refreshed
  <2> QED BY <1>9, <2>4, <2>5
<1>10. ASSUME NEW k \in Sockets, ListForResync(k) PROVE Goal
  <2> DEFINE L == OrgsOf(socket[k].user)
             y == [socket[k] EXCEPT !.resync = "listed", !.listed = L]
  <2>1. socket[k] \in ClientSockets /\ IsOpen(k) /\ L \in SUBSET Users
    BY <1>c, <1>10 DEF ListForResync, OrgsOf
  <2>2. socket' = [socket EXCEPT ![k] = y]
    BY <1>1, <1>10 DEF ListForResync
  <2>3. socket'[k] = y
    BY <1>1, <2>2
  <2> HIDE DEF L
  <2>4. /\ y \in ClientSockets /\ y.proc = socket[k].proc /\ y.user = socket[k].user
        /\ y.session = socket[k].session /\ y.missed = socket[k].missed
        /\ y.orgs = socket[k].orgs /\ y.behind = socket[k].behind /\ y.resync = "listed" /\ y.listed = L
    BY <2>1 DEF ClientSockets
  <2> HIDE DEF y
  <2>5. StaysOpen(k)
    BY <2>1, <2>3, <2>4 DEF StaysOpen, FromResync, L
  <2> QED BY <1>e, <2>2, <2>3, <2>4, <2>5 DEF Step
<1>11. ASSUME NEW k \in Sockets, NEW next \in {"rows", "no"}, AssignResync(k, next) PROVE Goal
  <2> DEFINE x == Carrying(k, socket[k].listed)
             y == [x EXCEPT !.listed = {}, !.resync = next]
  <2>1. socket[k] \in ClientSockets /\ IsOpen(k) /\ socket[k].resync = "listed"
    BY <1>c, <1>11 DEF AssignResync
  <2>2. socket[k].listed \in SUBSET Users
    BY <2>1 DEF ClientSockets
  <2>3. /\ x \in ClientSockets /\ x.proc = socket[k].proc /\ x.user = socket[k].user
        /\ x.session = socket[k].session /\ x.missed = socket[k].missed
        /\ x.orgs = socket[k].listed /\ x.behind = (socket[k].behind \cup socket[k].orgs) \ socket[k].listed
    BY <2>1, <2>2, CarryingStep
  <2>4. [Relisted(k) EXCEPT !.resync = next] = [[x EXCEPT !.listed = {}] EXCEPT !.resync = next]
    BY DEF Relisted
  <2> HIDE DEF x
  <2>5. y = [[x EXCEPT !.listed = {}] EXCEPT !.resync = next]
    BY <2>3 DEF ClientSockets
  <2>6. socket' = [socket EXCEPT ![k] = y]
    BY <1>11, <2>4, <2>5 DEF AssignResync
  <2>7. socket'[k] = y
    BY <1>1, <2>6
  <2>8. /\ y \in ClientSockets /\ y.proc = x.proc /\ y.user = x.user
        /\ y.session = x.session /\ y.missed = x.missed /\ y.orgs = x.orgs /\ y.behind = x.behind /\ y.listed = {}
    BY <2>3 DEF ClientSockets
  <2> HIDE DEF y
  <2>9. Learns(k)
    BY <2>3, <2>7, <2>8 DEF Learns
  <2>10. StaysOpen(k)
    BY <2>1, <2>3, <2>7, <2>8, <2>9 DEF StaysOpen, FromResync
  <2> QED BY <1>e, <2>6, <2>7, <2>8, <2>10 DEF Step
<1>12. ASSUME NEW k \in Sockets, NEW next \in {"asked", "no"}, IsOpen(k), socket[k].resync \in {"rows", "no"},
              socket'[k] = [socket[k] EXCEPT !.resync = next]
       PROVE  Step(k)
  <2>1. socket[k] \in ClientSockets
    BY <1>c, <1>12
  <2>2. /\ socket'[k] \in ClientSockets /\ socket'[k].proc = socket[k].proc /\ socket'[k].user = socket[k].user
        /\ socket'[k].session = socket[k].session /\ socket'[k].missed = socket[k].missed
        /\ socket'[k].orgs = socket[k].orgs /\ socket'[k].behind = socket[k].behind
        /\ socket'[k].listed = socket[k].listed
    BY <1>12, <2>1 DEF ClientSockets
  <2> QED BY <1>12, <2>2 DEF StaysOpen, FromResync, Step
<1>13. ASSUME NEW k \in Sockets, FinishResync(k) PROVE Goal
  <2>1. socket' = [socket EXCEPT ![k] = [socket[k] EXCEPT !.resync = "no"]]
    BY <1>13 DEF FinishResync
  <2>2. Step(k)
    BY <1>1, <1>12, <1>13, <2>1 DEF FinishResync
  <2> QED BY <1>e, <2>1, <2>2
<1>14. ASSUME NEW p \in Procs, ResyncClients(p) PROVE Goal
  <2>1. ASSUME NEW k \in Sockets PROVE Step(k)
    <3>1. \/ socket'[k] = socket[k]
          \/ IsOpen(k) /\ socket[k].resync = "no" /\ socket'[k] = [socket[k] EXCEPT !.resync = "asked"]
      BY <1>14 DEF ResyncClients
    <3> QED BY <1>a, <1>12, <3>1
  <2>2. socket' = [k \in Sockets |-> socket'[k]]
    BY <1>14 DEF ResyncClients
  <2> QED BY <1>d, <2>1, <2>2
<1>15. ASSUME NEW k \in Sockets, Serve(k) \/ Disconnect(k) PROVE Goal
  BY <1>3, <1>10, <1>11, <1>13, <1>15 DEF Serve, SessionTimer, Disconnect
<1>16. Goal
  BY <1>2, <1>4, <1>5, <1>6, <1>7, <1>9, <1>14, <1>15, Writers
<1> QED BY <1>16 DEF Goal, IsOpen

\* A logout that has revoked goes on to close.
LEMMA ClosersStay ==
  ASSUME IInv, [Next]_vars, NEW x \in Pending("logout", "close")
  PROVE  \/ CloseSockets(x)
         \/ x \in Pending("logout", "close")' /\ request'[x] = request[x]
<1>1. TypeOK /\ request \in [Requests -> Slots] /\ request' \in [Requests -> Slots]
  BY Types, HandlerStep DEF IInv, Inv
<1>2. x \in Requests /\ request[x].op = "logout" /\ request[x].step = "close" /\ request[x] # Idle
  BY DEF Pending
<1>3. CASE request'[x] = request[x]
  BY <1>2, <1>3 DEF Pending
<1>4. ASSUME NEW r \in Requests, NEW y \in Slots, Moves(r, y), request'[x] # request[x] PROVE CloseSockets(x)
  <2>1. r = x
    BY <1>1, <1>2, <1>4, OneSlot DEF Moves
  <2>2. request[x] \in LogoutHandlers
    BY <1>1, <1>2, Shapes
  <2>3. ~RevokeSession(x)
    BY <1>2, <2>1, WhoWrites
  <2>4. CASE Enters(r, y)
    BY <1>2, <2>1, <2>4 DEF Enters
  <2>5. CASE Advances(r, y)
    <3>1. /\ request[r] \notin SignInHandlers /\ request[r] \notin InviteHandlers
          /\ request[r] \notin AcceptHandlers /\ request[r] \notin UpgradeHandlers
      BY <1>1, <1>2, <2>1, Shapes
    <3> QED BY <2>1, <2>3, <2>5, <3>1 DEF Advances
  <2> QED BY <1>2, <1>4, <2>1, <2>4, <2>5 DEF Moves, Answers
<1> QED BY <1>3, <1>4, RequestStep

LEMMA LogoutStep ==
  ASSUME IInv, [Next]_vars
  PROVE  LoggedOutUnlessMissed'
<1> DEFINE C == Pending("logout", "close")
<1>1. TypeOK /\ LoggedOutUnlessMissed /\ request \in [Requests -> Slots] /\ RevokedStay /\ HandlersHaveRead
  BY Types, SessionStep DEF IInv, Inv
<1>2. SUFFICES ASSUME NEW k \in Sockets, IsOpen(k)', sessions'[socket'[k].session].revoked, ~socket'[k].missed
               PROVE  \E r \in C' : /\ request'[r].session = socket'[k].session
                                    /\ request'[r].proc = socket'[k].proc
  BY DEF LoggedOutUnlessMissed
<1>3. CASE StaysOpen(k)
  <2> DEFINE s == socket[k].session
  <2>1. /\ IsOpen(k) /\ s \in DOMAIN sessions /\ ~socket[k].missed
        /\ socket'[k].session = s /\ socket'[k].proc = socket[k].proc
    BY <1>1, <1>2, <1>3 DEF StaysOpen, TypeOK
  <2>2. CASE sessions'[s].revoked = sessions[s].revoked
    <3>1. PICK x \in C : request[x].session = s /\ request[x].proc = socket[k].proc
      BY <1>1, <1>2, <2>1, <2>2 DEF LoggedOutUnlessMissed
    <3>2. ~CloseSockets(x)
      <4>1. CloseSockets(x) => socket'[k] = Free
        BY <2>1, <3>1 DEF CloseSockets, Ended
      <4> QED BY <1>2, <4>1 DEF IsOpen, Free
    <3>3. x \in C' /\ request'[x] = request[x]
      BY <3>2, ClosersStay
    <3> QED BY <2>1, <3>1, <3>3
  <2>3. ASSUME NEW r \in Requests, RevokeSession(r), request[r].session = s
        PROVE  \E x \in C' : request'[x].session = socket'[k].session /\ request'[x].proc = socket'[k].proc
    <3>1. request[r] \in LogoutHandlers
      BY <2>3, WhoWrites
    <3>2. request[r].proc = socket[k].proc
      <4>1. socket[k] \in ClientSockets
        BY <1>1, <2>1, OpenOrFree DEF TypeOK, IsOpen
      <4>2. request[r].proc # socket[k].proc => socket'[k] = [socket[k] EXCEPT !.missed = TRUE]
        BY <2>1, <2>3 DEF RevokeSession
      <4>3. request[r].proc # socket[k].proc => socket'[k].missed
        BY <4>1, <4>2 DEF ClientSockets
      <4> QED BY <1>2, <4>3
    <3>3. request' = [request EXCEPT ![r] = [request[r] EXCEPT !.step = "close"]]
      BY <2>3 DEF RevokeSession, Goto
    <3>4. /\ request'[r] \in LogoutHandlers /\ request'[r].session = s /\ request'[r].step = "close"
          /\ request'[r].proc = request[r].proc
      BY <1>1, <2>3, <3>1, <3>3, Steps
    <3>5. r \in C'
      BY <3>4 DEF Pending, LogoutHandlers, Idle
    <3> QED BY <2>1, <3>2, <3>4, <3>5
  <2> QED BY <1>1, <2>1, <2>2, <2>3 DEF RevokedStay
<1>4. ASSUME NEW r \in Requests, Opens(k, r)
      PROVE  \E x \in C' : request'[x].session = socket'[k].session /\ request'[x].proc = socket'[k].proc
  <2>1. sessions' = sessions /\ Answer(r) /\ request[r].op = "upgrade"
    BY <1>1, <1>4, Shapes DEF Opens, OpenSocket, tables, UpgradeHandlers
  <2>2. PICK x \in C : request[x].session = request[r].session /\ request[x].proc = request[r].proc
    BY <1>2, <1>4, <2>1 DEF Opens
  <2>3. x # r /\ x \in Requests
    BY <2>1 DEF Pending
  <2>4. request'[x] = request[x]
    BY <1>1, <2>1, <2>3 DEF Answer
  <2>5. x \in C'
    BY <2>4 DEF Pending
  <2> QED BY <1>4, <2>2, <2>4, <2>5 DEF Opens
<1> QED BY <1>2, <1>3, <1>4, SocketStep

\* An acceptance that has committed goes on to list, and then to assign.
LEMMA AcceptorsStay ==
  ASSUME IInv, [Next]_vars, NEW x \in Requests, request[x].op = "accept"
  PROVE  /\ request[x].step = "list" =>
              \/ request'[x] = request[x] /\ request'[x].step = "list"
              \/ ListFails(x)
              \/ /\ request'[x].op = "accept" /\ request'[x].step = "assign"
                 /\ request'[x].user = request[x].user /\ request'[x].proc = request[x].proc
                 /\ request'[x].orgs = OrgsOf(request[x].user)
         /\ request[x].step = "assign" => request'[x] = request[x] \/ AssignOrgs(x)
<1>1. TypeOK /\ request \in [Requests -> Slots] /\ request[x] # Idle
  BY Types DEF IInv, Inv, Idle
<1>2. CASE request'[x] = request[x]
  BY <1>2
<1>3. ASSUME NEW r \in Requests, NEW y \in Slots, Moves(r, y), request'[x] # request[x], request[x].step = "list"
      PROVE  \/ ListFails(x)
             \/ /\ request'[x].op = "accept" /\ request'[x].step = "assign"
                /\ request'[x].user = request[x].user /\ request'[x].proc = request[x].proc
                /\ request'[x].orgs = OrgsOf(request[x].user)
  <2>1. r = x /\ request'[x] = y
    BY <1>1, <1>3, OneSlot DEF Moves
  <2>2. request[x] \in AcceptHandlers
    BY <1>1, <1>3, Shapes
  <2>3. CASE Advances(r, y)
    <3>1. /\ request[r] \notin SignInHandlers /\ request[r] \notin InviteHandlers
          /\ request[r] \notin LogoutHandlers /\ request[r] \notin UpgradeHandlers
      BY <1>1, <2>1, Shapes
    <3>2. /\ y \in AssignHandlers /\ y.user = request[r].user /\ y.proc = request[r].proc
          /\ y.orgs = OrgsOf(y.user)
      BY <1>3, <2>1, <2>3, <3>1 DEF Advances
    <3> QED BY <2>1, <3>2, Shapes
  <2> QED BY <1>1, <1>3, <2>1, <2>3 DEF Moves, Enters, Answers
<1>4. ASSUME NEW r \in Requests, NEW y \in Slots, Moves(r, y), request'[x] # request[x], request[x].step = "assign"
      PROVE  AssignOrgs(x)
  <2>1. r = x /\ request'[x] = y
    BY <1>1, <1>4, OneSlot DEF Moves
  <2>2. /\ request[r] \notin SignInHandlers /\ request[r] \notin InviteHandlers /\ request[r] \notin AcceptHandlers
        /\ request[r] \notin LogoutHandlers /\ request[r] \notin UpgradeHandlers
    BY <1>1, <1>4, <2>1, Shapes
  <2> QED BY <1>1, <1>4, <2>1, <2>2 DEF Moves, Enters, Advances, Answers
<1> QED BY <1>2, <1>3, <1>4, RequestStep

\* Who becomes a member has just registered, or accepts.
LEMMA NewlyJoined ==
  ASSUME IInv, [Next]_vars, NEW o \in Users, NEW u \in Users, member[o][u] = "none", member'[o][u] # "none"
  PROVE  \/ u \notin accounts
         \/ \E r \in Requests : /\ CommitAcceptance(r) /\ request[r].user = u
                                /\ invitations[request[r].invitation].org = o
<1>1. TypeOK
  BY DEF IInv, Inv
<1>2. ASSUME NEW r \in Requests, Register(r) PROVE u \notin accounts
  <2> DEFINE v == request[r].user
  <2>1. v \in Users
    BY <1>2, WhoWrites
  <2>2. v \notin accounts /\ member' = [member EXCEPT ![v][v] = "owner"]
    BY <1>2 DEF Register, tables
  <2> HIDE DEF v
  <2> QED BY <1>1, <2>1, <2>2 DEF TypeOK
<1>3. ASSUME NEW r \in Requests, CommitAcceptance(r)
      PROVE  request[r].user = u /\ invitations[request[r].invitation].org = o
  <2> DEFINE v == request[r].user  inv == invitations[request[r].invitation]  g == inv.org
             new == Joined(member[g][v], inv.role)
  <2>1. v \in Users /\ inv \in InvitationRows
    BY <1>1, <1>3, WhoWrites, Types
  <2>2. g \in Users
    BY <2>1 DEF InvitationRows
  <2>3. member' = [member EXCEPT ![g][v] = new]
    BY <1>3 DEF CommitAcceptance
  <2> HIDE DEF v, g, new
  <2>4. g = o /\ v = u
    BY <1>1, <2>1, <2>2, <2>3 DEF TypeOK
  <2> QED BY <2>4 DEF v, g
<1> QED BY <1>2, <1>3, Writers

\* What a socket carries and has listed are organizations of its user.
LEMMA ReadStep ==
  ASSUME IInv, [Next]_vars
  PROVE  SocketsHaveRead' /\ \A k \in Sockets : IsOpen(k)' => socket'[k].orgs \subseteq OrgsOf(socket[k].user)'
<1>1. /\ TypeOK /\ SocketsFollowMemberships /\ SocketsHaveRead /\ MembersStay /\ HandlersHaveRead
      /\ request \in [Requests -> Slots]
  BY Types, MemberStep DEF IInv, Inv
<1>2. \A u \in Users : OrgsOf(u) \subseteq OrgsOf(u)'
  BY <1>1 DEF MembersStay, OrgsOf
<1>3. ASSUME NEW k \in Sockets, IsOpen(k)', StaysOpen(k)
      PROVE  /\ socket'[k].user \in accounts' /\ socket'[k].user \in Users
             /\ socket'[k].orgs \subseteq OrgsOf(socket[k].user) /\ socket'[k].listed \subseteq OrgsOf(socket[k].user)
  <2>1. IsOpen(k) /\ socket[k] \in ClientSockets /\ socket'[k].user = socket[k].user
    BY <1>1, <1>3, OpenOrFree DEF StaysOpen, TypeOK, IsOpen
  <2>2. /\ socket[k].user \in Users /\ socket[k].user \in accounts
        /\ socket[k].orgs \subseteq OrgsOf(socket[k].user) /\ socket[k].listed \subseteq OrgsOf(socket[k].user)
    BY <1>1, <2>1 DEF ClientSockets, SocketsHaveRead, SocketsFollowMemberships
  <2>3. ASSUME NEW r \in Requests, AssignOrgs(r), request[r].user = socket[k].user
        PROVE  request[r].orgs \subseteq OrgsOf(socket[k].user)
    <3>1. request[r].op = "accept" /\ request[r].step = "assign"
      BY <1>1, <2>3, PendingIs DEF AssignOrgs
    <3> QED BY <1>1, <2>3, <3>1 DEF HandlersHaveRead
  <2>4. socket'[k].orgs \subseteq OrgsOf(socket[k].user)
    BY <1>3, <2>2, <2>3 DEF StaysOpen, Learns
  <2>5. socket'[k].listed \subseteq OrgsOf(socket[k].user)
    BY <1>3, <2>2 DEF StaysOpen
  <2> QED BY <1>1, <2>1, <2>2, <2>4, <2>5 DEF MembersStay
<1>4. ASSUME NEW k \in Sockets, NEW r \in Requests, Opens(k, r)
      PROVE  /\ socket'[k].user \in accounts' /\ socket'[k].user \in Users
             /\ socket'[k].orgs \subseteq OrgsOf(socket'[k].user) /\ socket'[k].listed = {}
  <2>1. request[r].op = "upgrade" /\ request[r].user \in Users
    BY <1>4 DEF Opens, UpgradeHandlers
  <2>2. request[r].orgs \subseteq OrgsOf(request[r].user) /\ request[r].user \in accounts
    BY <1>1, <2>1 DEF HandlersHaveRead
  <2> QED BY <1>1, <1>4, <2>1, <2>2 DEF Opens, MembersStay
<1>5. ASSUME NEW k \in Sockets, IsOpen(k)'
      PROVE  /\ socket'[k].user \in accounts'
             /\ socket'[k].orgs \subseteq OrgsOf(socket[k].user)'
             /\ socket'[k].listed \subseteq OrgsOf(socket[k].user)'
  <2> DEFINE u == socket'[k].user
  <2>1. /\ u \in accounts' /\ u \in Users
        /\ socket'[k].orgs \subseteq OrgsOf(u) /\ socket'[k].listed \subseteq OrgsOf(u)
    BY <1>3, <1>4, <1>5, SocketStep DEF StaysOpen
  <2> HIDE DEF u
  <2>2. OrgsOf(u) \subseteq {o \in Users : member'[o][u] # "none"}
    BY <1>2, <2>1 DEF OrgsOf
  <2> QED BY <2>1, <2>2 DEF u, OrgsOf
<1> QED BY <1>5 DEF SocketsHaveRead, IsOpen, OrgsOf

\* A handler that is about to list or to assign o for the socket's user, on
\* the socket's process.
FromList(k, o, r) ==
  /\ r \in Requests /\ request[r].op = "accept" /\ request[r].step = "list"
  /\ request[r].proc = socket[k].proc /\ request[r].user = socket[k].user
  /\ invitations[request[r].invitation].org = o

FromAssign(k, o, r) ==
  /\ r \in Requests /\ request[r].op = "accept" /\ request[r].step = "assign"
  /\ request[r].proc = socket[k].proc /\ request[r].user = socket[k].user
  /\ o \in request[r].orgs

LEMMA ComingIs ==
  ASSUME NEW k, NEW o
  PROVE  Coming(k, o) <=> FromResync(k, o) \/ \E r : FromList(k, o, r) \/ FromAssign(k, o, r)
<1>1. \A r \in Requests : request[r].op = "accept" => request[r] # Idle
  BY DEF Idle
<1> QED BY <1>1 DEF Coming, FromResync, FromList, FromAssign, Pending

LEMMA ComingNext ==
  ASSUME NEW k, NEW o
  PROVE  /\ FromResync(k, o)' => Coming(k, o)'
         /\ \A r : FromList(k, o, r)' \/ FromAssign(k, o, r)' => Coming(k, o)'
<1>1. \A r \in Requests : request'[r].op = "accept" => request'[r] # Idle
  BY DEF Idle
<1> QED BY <1>1 DEF Coming, FromResync, FromList, FromAssign, Pending

\* A member stays told, behind, or about to be told.
LEMMA StillFollows ==
  ASSUME IInv, [Next]_vars, NEW k \in Sockets, IsOpen(k)', StaysOpen(k),
         NEW o \in OrgsOf(socket[k].user), o \notin socket'[k].orgs
  PROVE  o \in socket'[k].behind \/ Coming(k, o)'
<1>1. /\ TypeOK /\ HandlersHaveRead /\ SocketsFollowMemberships /\ IsOpen(k)
      /\ request' \in [Requests -> Slots]
  BY HandlerStep DEF IInv, Inv, StaysOpen
<1>2. socket[k] \in ClientSockets /\ socket'[k].proc = socket[k].proc /\ socket'[k].user = socket[k].user
  BY <1>1, OpenOrFree DEF TypeOK, IsOpen, StaysOpen
<1>3. CASE o \in socket[k].orgs \cup socket[k].behind
  BY <1>3 DEF StaysOpen, Learns
<1>4. CASE FromResync(k, o)
  <2>1. FromResync(k, o)'
    BY <1>4 DEF StaysOpen
  <2> QED BY <2>1, ComingNext
<1>5. ASSUME NEW r, FromList(k, o, r), o \notin socket[k].orgs PROVE o \in socket'[k].behind \/ Coming(k, o)'
  <2> DEFINE i == request[r].invitation
  <2>1. r \in Requests /\ request[r].op = "accept" /\ request[r].step = "list" /\ i \in DOMAIN invitations
    BY <1>1, <1>5 DEF FromList, HandlersHaveRead
  <2>2. CASE request'[r] = request[r]
    <3>1. invitations'[i].org = o
      BY <1>5, <2>1, RowStep DEF RowsStay, Unchanging, FromList
    <3>2. FromList(k, o, r)'
      BY <1>2, <1>5, <2>1, <2>2, <3>1 DEF FromList
    <3> QED BY <3>2, ComingNext
  <2>3. CASE ListFails(r)
    <3>1. Refreshed(k, request[r].proc, request[r].user)
      BY <1>1, <1>5 DEF FromList, Refreshed
    <3>2. socket'[k] = [socket[k] EXCEPT !.behind = @ \cup ({o} \ socket[k].orgs)]
      BY <1>5, <2>3, <3>1 DEF ListFails, FallBehind, FromList
    <3> QED BY <1>2, <1>5, <3>2, BehindStep
  <2>4. CASE /\ request'[r].op = "accept" /\ request'[r].step = "assign"
             /\ request'[r].user = request[r].user /\ request'[r].proc = request[r].proc
             /\ request'[r].orgs = OrgsOf(request[r].user)
    <3>1. FromAssign(k, o, r)'
      BY <1>2, <1>5, <2>1, <2>4 DEF FromList, FromAssign
    <3> QED BY <3>1, ComingNext
  <2> QED BY <2>1, <2>2, <2>3, <2>4, AcceptorsStay
<1>6. ASSUME NEW r, FromAssign(k, o, r) PROVE Coming(k, o)'
  <2>1. r \in Requests /\ request[r].op = "accept" /\ request[r].step = "assign"
    BY <1>6 DEF FromAssign
  <2>2. CASE request'[r] = request[r]
    <3>1. FromAssign(k, o, r)'
      BY <1>2, <1>6, <2>1, <2>2 DEF FromAssign
    <3> QED BY <3>1, ComingNext
  <2>3. CASE AssignOrgs(r)
    <3>1. Refreshed(k, request[r].proc, request[r].user)
      BY <1>1, <1>6 DEF FromAssign, Refreshed
    <3>2. socket'[k] = Carrying(k, request[r].orgs)
      BY <2>3, <3>1 DEF AssignOrgs
    <3>3. request[r] \in AssignHandlers
      BY <1>1, <2>1, Types, Shapes
    <3>4. socket'[k].orgs = request[r].orgs
      BY <1>2, <3>2, <3>3, CarryingStep DEF AssignHandlers
    <3> QED BY <1>6, <3>4 DEF FromAssign
  <2> QED BY <2>1, <2>2, <2>3, AcceptorsStay
<1>7. CASE o \notin socket[k].orgs /\ Coming(k, o)
  BY <1>4, <1>5, <1>6, <1>7, ComingIs
<1> QED BY <1>1, <1>3, <1>7 DEF SocketsFollowMemberships

LEMMA FollowStep ==
  ASSUME IInv, [Next]_vars
  PROVE  SocketsFollowMemberships'
<1>1. /\ TypeOK /\ SocketsHaveRead /\ SocketsFollowMemberships /\ HandlersHaveRead
      /\ request \in [Requests -> Slots] /\ request' \in [Requests -> Slots]
  BY Types, HandlerStep DEF IInv, Inv
<1>2. SUFFICES ASSUME NEW k \in Sockets, IsOpen(k)', NEW o \in Users, member'[o][socket'[k].user] # "none",
                      o \notin socket'[k].orgs
               PROVE  o \in socket'[k].behind \/ Coming(k, o)'
  BY ReadStep DEF SocketsFollowMemberships, OrgsOf
<1>3. ASSUME NEW r \in Requests, Opens(k, r) PROVE Coming(k, o)'
  BY <1>3 DEF Opens, Coming
<1>4. CASE StaysOpen(k)
  <2> DEFINE u == socket[k].user
  <2>1. /\ IsOpen(k) /\ socket[k] \in ClientSockets /\ socket'[k].user = u /\ u \in Users /\ u \in accounts
        /\ socket'[k].proc = socket[k].proc /\ socket[k].orgs \subseteq OrgsOf(u)
    <3>1. IsOpen(k) /\ socket[k] \in ClientSockets /\ socket'[k].user = u /\ socket'[k].proc = socket[k].proc
      BY <1>1, <1>4, OpenOrFree DEF StaysOpen, TypeOK, IsOpen
    <3> QED BY <1>1, <3>1 DEF ClientSockets, SocketsHaveRead, SocketsFollowMemberships
  <2>2. CASE member[o][u] # "none"
    <3>1. o \in OrgsOf(u)
      BY <2>2 DEF OrgsOf
    <3> QED BY <1>2, <1>4, <3>1, StillFollows
  <2>3. ASSUME NEW r \in Requests, CommitAcceptance(r), request[r].user = u,
               invitations[request[r].invitation].org = o, member[o][u] = "none"
        PROVE  o \in socket'[k].behind \/ Coming(k, o)'
    <3> DEFINE i == request[r].invitation
    <3>1. request[r] \in AcceptHandlers /\ i \in DOMAIN invitations
      BY <2>3, WhoWrites
    <3>2. o \notin socket[k].orgs
      BY <2>1, <2>3 DEF OrgsOf
    <3>3. CASE request[r].proc # socket[k].proc
      <4>1. socket'[k] = [socket[k] EXCEPT !.behind = @ \cup ({o} \ socket[k].orgs)]
        BY <2>1, <2>3, <3>3 DEF CommitAcceptance, FallBehind
      <4> QED BY <2>1, <3>2, <4>1, BehindStep
    <3>4. CASE request[r].proc = socket[k].proc
      <4>1. request' = [request EXCEPT ![r] = [request[r] EXCEPT !.step = "list"]]
        BY <2>3 DEF CommitAcceptance, Goto
      <4>2. request'[r] = [request[r] EXCEPT !.step = "list"]
        BY <1>1, <4>1
      <4>3. /\ request'[r] \in AcceptHandlers /\ request'[r].user = u /\ request'[r].invitation = i
            /\ request'[r].proc = socket[k].proc /\ request'[r].step = "list"
        <5>1. /\ [request[r] EXCEPT !.step = "list"] \in AcceptHandlers
              /\ [request[r] EXCEPT !.step = "list"].user = request[r].user
              /\ [request[r] EXCEPT !.step = "list"].invitation = i
              /\ [request[r] EXCEPT !.step = "list"].step = "list"
              /\ [request[r] EXCEPT !.step = "list"].proc = request[r].proc
          BY <3>1, Steps
        <5> QED BY <2>3, <3>4, <4>2, <5>1
      <4>4. invitations'[i].org = o
        BY <2>3, <3>1, RowStep DEF RowsStay, Unchanging
      <4>5. FromList(k, o, r)'
        BY <1>1, <2>1, <4>3, <4>4, Shapes DEF FromList
      <4> QED BY <4>5, ComingNext
    <3> QED BY <3>3, <3>4
  <2>4. CASE member[o][u] = "none"
    <3>1. PICK r \in Requests : /\ CommitAcceptance(r) /\ request[r].user = u
                                /\ invitations[request[r].invitation].org = o
      BY <1>2, <2>1, <2>4, NewlyJoined
    <3> QED BY <2>3, <2>4, <3>1
  <2> QED BY <2>2, <2>4
<1> QED BY <1>2, <1>3, <1>4, SocketStep

-----------------------------------------------------------------------------
(* Together.                                                               *)

LEMMA TypeStep ==
  ASSUME IInv, [Next]_vars
  PROVE  TypeOK'
<1>1. TypeOK
  BY DEF IInv, Inv
<1>2. /\ member' \in [Users -> [Users -> Roles \cup {"none"}]] /\ accounts' \subseteq Users
      /\ invitations' \in Seq(InvitationRows)
      /\ sessions' \in Seq(SessionRows) /\ \A s \in DOMAIN sessions' : sessions'[s].user \in accounts'
  BY MemberStep, RowStep, SessionStep DEF MembersStay, RowsStay, SessionsStay
<1>3. \A i \in DOMAIN invitations' : invitations'[i].accepted <= Len(invitations')
  BY CounterStep
<1>4. request' \in [Requests -> Handlers \cup {Idle}]
  BY HandlerStep DEF Slots
<1>5. socket' \in [Sockets -> ClientSockets \cup {Free}]
  BY SocketStep
<1>6. ASSUME NEW k \in Sockets, IsOpen(k)' PROVE socket'[k].session \in DOMAIN sessions'
  <2>1. DOMAIN sessions \subseteq DOMAIN sessions'
    BY SessionStep DEF SessionsStay
  <2>2. CASE StaysOpen(k)
    BY <1>1, <2>1, <2>2 DEF StaysOpen, TypeOK
  <2>3. ASSUME NEW r \in Requests, Opens(k, r) PROVE socket'[k].session \in DOMAIN sessions'
    <3>1. request[r].op = "upgrade"
      BY <2>3 DEF Opens, UpgradeHandlers
    <3> QED BY <2>1, <2>3, <3>1 DEF Opens, IInv, HandlersHaveRead
  <2> QED BY <1>6, <2>2, <2>3, SocketStep
<1> QED BY <1>2, <1>3, <1>4, <1>5, <1>6, CountStep, LimitedStep DEF TypeOK, Limited

LEMMA InitIInv ==
  ASSUME Init
  PROVE  IInv
<1>1. \A r \in Requests : request[r] = Idle
  BY DEF Init
<1>2. \A k \in Sockets : socket[k] = Free /\ ~IsOpen(k)
  BY DEF Init, Free, IsOpen
<1>3. invitations = <<>> /\ sessions = <<>> /\ DOMAIN invitations = {} /\ DOMAIN sessions = {}
      /\ Len(invitations) = 0 /\ Len(sessions) = 0
  BY DEF Init
<1>4. /\ Invites = {} /\ SignIns = {} /\ Cardinality({}) = 0
      /\ \A op, step : Pending(op, step) = {}
  BY <1>1, FS_EmptySet DEF Invites, SignIns, Pending, Idle
<1>5. /\ \A k \in Keys : Limit(k) \in Nat /\ attempts[k] = 0 /\ hashed[k] = 0 /\ counted[k] = {}
      /\ attempts \in [Keys -> Nat] /\ hashed \in [Keys -> Nat] /\ counted \in [Keys -> SUBSET Requests]
  BY LimitIsNat DEF Init
<1>6. CountsAreKept
  BY <1>4, <1>5 DEF CountsAreKept
<1>7. TypeOK
  <2>1. /\ Len(invitations) + Cardinality(Invites) <= MaxInvitations
        /\ Len(sessions) + Cardinality(SignIns) <= MaxSessions
    BY <1>3, <1>4
  <2>2. \A k \in Keys : attempts[k] <= Limit(k) + 1
    BY <1>5
  <2>3. member \in [Users -> [Users -> Roles \cup {"none"}]] /\ accounts \subseteq Users
    BY DEF Init
  <2>4. request \in [Requests -> Handlers \cup {Idle}] /\ socket \in [Sockets -> ClientSockets \cup {Free}]
    BY DEF Init
  <2>5. invitations \in Seq(InvitationRows) /\ sessions \in Seq(SessionRows)
    BY <1>3
  <2> QED BY <1>2, <1>3, <1>5, <2>1, <2>2, <2>3, <2>4, <2>5 DEF TypeOK
<1>8. MembershipsAreGranted
  BY DEF Init, MembershipsAreGranted
<1>9. FirstAcceptanceWins /\ InvitationCountsOnce
  BY <1>3 DEF FirstAcceptanceWins, InvitationCountsOnce, Accepted
<1>10. LoggedOutUnlessMissed /\ SocketsFollowMemberships /\ SocketsHaveRead
  BY <1>2 DEF LoggedOutUnlessMissed, SocketsFollowMemberships, SocketsHaveRead
<1>11. InvitersMayInvite /\ WritersAreAlone
  BY <1>3, <1>4 DEF InvitersMayInvite, WritersAreAlone
<1>12. HandlersHaveRead
  BY <1>1 DEF HandlersHaveRead, Idle
<1> QED BY <1>6, <1>7, <1>8, <1>9, <1>10, <1>11, <1>12 DEF IInv, Inv

LEMMA StepIInv ==
  ASSUME IInv, [Next]_vars
  PROVE  IInv'
<1>1. InvitationCountsOnce'
  <2>1. \A i \in DOMAIN invitations' : invitations'[i].uses \in {0, 1}
    BY CounterStep
  <2> QED BY <2>1 DEF InvitationCountsOnce
<1>2. CountsAreKept'
  BY LimitedStep DEF Limited
<1> QED BY <1>1, <1>2, TypeStep, GrantStep, FirstStep, LogoutStep, FollowStep, ReadStep, InviterStep, AloneStep,
    HandlerStep
    DEF IInv, Inv

\* The tables and the handlers agree in every reachable state: memberships are
\* granted by founders and administrators, the first acceptance decides the
\* role, a token counts once, and what a handler has read still holds when it
\* writes.
THEOREM OrganizationsInvariance == Spec => []IInv
<1>1. IInv /\ UNCHANGED vars => IInv'
  BY StepIInv
<1>2. IInv /\ Next => IInv'
  BY StepIInv
<1> QED BY InitIInv, <1>1, <1>2, PTL DEF Spec

\* However many handlers run at once, those a window of the rate limiter has
\* counted never hash more passwords than its limit.
THEOREM LimiterHolds == Spec => []AttemptsAreBounded
<1>1. IInv => AttemptsAreBounded
  <2>1. SUFFICES ASSUME IInv, NEW k \in Keys PROVE hashed[k] <= Limit(k)
    BY DEF AttemptsAreBounded
  <2>2. hashed[k] \in Nat /\ Limit(k) \in Nat /\ IsFiniteSet(counted[k])
    BY <2>1, LimitIsNat, FS_Subset DEF IInv, Inv, TypeOK
  <2>3. Cardinality(counted[k]) \in Nat
    BY <2>2, FS_CardinalityType
  <2> QED BY <2>1, <2>2, <2>3 DEF IInv, CountsAreKept
<1> QED BY <1>1, OrganizationsInvariance, PTL

\* After a logout a socket of that session stays open only where the logout
\* could not reach it.
THEOREM LogoutCloses == Spec => []LoggedOutUnlessMissed
<1>1. IInv => LoggedOutUnlessMissed
  BY DEF IInv
<1> QED BY <1>1, OrganizationsInvariance, PTL

\* A client socket carries organizations of its user only, and he misses none
\* that is not on its way, was not accepted elsewhere, did not fail to be
\* listed and was not overwritten by an older list.
THEOREM SocketsFollow == Spec => []SocketsFollowMemberships
<1>1. IInv => SocketsFollowMemberships
  BY DEF IInv
<1> QED BY <1>1, OrganizationsInvariance, PTL

\* Nobody holds a role that was not granted by whoever may grant it.
THEOREM RolesAreGranted == Spec => []MembershipsAreGranted
<1>1. IInv => MembershipsAreGranted
  BY DEF IInv, Inv
<1> QED BY <1>1, OrganizationsInvariance, PTL

\* Of several accepted invitations of one person, the first decides the role.
THEOREM RolesAreDecidedOnce == Spec => []FirstAcceptanceWins
<1>1. IInv => FirstAcceptanceWins
  BY DEF IInv, Inv
<1> QED BY <1>1, OrganizationsInvariance, PTL

\* Concurrent requests with one token: at most one is committed.
THEOREM TokensCountOnce == Spec => []InvitationCountsOnce
<1>1. IInv => InvitationCountsOnce
  BY DEF IInv, Inv
<1> QED BY <1>1, OrganizationsInvariance, PTL

=============================================================================
