--------------------------- MODULE MachineGateway ---------------------------
(***************************************************************************)
(* Machine credentials, daemon connections and machine presence: the       *)
(* credential half of identity-store.js, the daemon half of the upgrade    *)
(* handler in index.js, the machine rows of store.js and the timer that    *)
(* marks stale machines offline.                                           *)
(*                                                                         *)
(* Every frame of a daemon is handled by an async function of its own, so  *)
(* a frame, a close event and an administrator's request interleave at     *)
(* every await.  A connection is `open`, `closing` once the server called  *)
(* close() (its `closed` flag is set and its frames are ignored), and      *)
(* `gone` once its close event ran.                                        *)
(***************************************************************************)
EXTENDS Naturals, FiniteSets

CONSTANTS
    Processes,     \* API processes
    Machines,      \* machine ids
    Orgs,          \* organizations (an administrator of each sends requests)
    None,          \* no row, no connection
    Conns,         \* identities of daemon connections, used again and again
    MaxChanges,    \* bound: credentials created, rotated or revoked
    MaxFaults      \* bound: failed statements and process crashes

VARIABLES
    credential,    \* the row of a machine id, or None
    row,           \* agent_work_os_machines_v1: [org, status, fresh] or None
    conn,          \* conn[c]: a daemon connection and its handlers
    daemonSockets, \* daemonSockets[p][m]: the connection p routes m to, or None
    offline,       \* <<p, m>> with a markMachineOffline statement under way
    cuts,          \* <<p, m>> whose revoked or rotated connection p will close
    changes,       \* credential changes so far
    faults         \* faults so far

gatewayVars == <<credential, row, conn, daemonSockets, offline, cuts, changes, faults>>

ASSUME BoundsAssumption == MaxChanges \in Nat /\ MaxFaults \in Nat

\* The rows of the two tables, and a connection with its handlers.
Credentials == [org : Orgs, secret : 1..MaxChanges, revoked : BOOLEAN]
MachineRows == [org : Orgs, online : BOOLEAN, fresh : BOOLEAN]
Hellos == {"asked", "granted", "refused", "registered", "failed", "over"}
Connections ==
    [phase : {"open", "closing", "gone"}, proc : Processes, machine : Machines, hello : Hellos,
     secret : Nat, upserting : BOOLEAN, touching : BOOLEAN, late : BOOLEAN, missed : BOOLEAN]
Unused == [phase |-> "free"]

ASSUME NoneAssumption == None \notin Conns \cup Credentials \cup MachineRows

GatewayInit ==
    /\ credential = [m \in Machines |-> None]
    /\ row = [m \in Machines |-> None]
    /\ conn = [c \in Conns |-> Unused]
    /\ daemonSockets = [p \in Processes |-> [m \in Machines |-> None]]
    /\ offline = {} /\ cuts = {}
    /\ changes = 0 /\ faults = 0

Used(c) == conn[c].phase # "free"
IsLive(c) == conn[c].phase = "open"
Registered(c) == Used(c) /\ conn[c].hello = "registered"
Known(c) == Used(c) /\ conn[c].hello \in {"granted", "registered"}

Set(c, field, value) == conn' = [conn EXCEPT ![c][field] = value]
Closing(record) == IF record.phase = "open" THEN [record EXCEPT !.phase = "closing"] ELSE record

(***************************************************************************)
(* Credentials.  The role of the administrator is checked by the first     *)
(* statement of each request (module Organizations); the second is below.  *)
(***************************************************************************)
\* A machine id is registered once, whichever organization was first.
FreeId(m) == credential[m] = None

Changed == changes < MaxChanges /\ changes' = changes + 1

CreateCredential(o, m) ==
    /\ Changed
    /\ FreeId(m)
    /\ credential' = [credential EXCEPT ![m] = [org |-> o, secret |-> changes', revoked |-> FALSE]]
    /\ UNCHANGED <<row, conn, daemonSockets, offline, cuts, faults>>

\* The connections of m that the process p which changes the credential will
\* not find in its map: they keep running (history).
OutOfReach(p, m) ==
    {c \in Conns : Known(c) /\ conn[c].machine = m /\ conn[c].proc # p}
Overlooked(cs) == conn' = [c \in Conns |-> IF c \in cs THEN [conn[c] EXCEPT !.missed = TRUE] ELSE conn[c]]

Owned(o, m) == credential[m] # None /\ credential[m].org = o /\ ~credential[m].revoked

RotateCredential(p, o, m) ==
    /\ Owned(o, m) /\ Changed
    /\ credential' = [credential EXCEPT ![m].secret = changes']
    /\ cuts' = cuts \cup {<<p, m>>}
    /\ Overlooked(OutOfReach(p, m))
    /\ UNCHANGED <<row, daemonSockets, offline, faults>>

RevokeCredential(p, o, m) ==
    /\ Owned(o, m) /\ Changed
    /\ credential' = [credential EXCEPT ![m].revoked = TRUE]
    /\ cuts' = cuts \cup {<<p, m>>}
    /\ Overlooked(OutOfReach(p, m))
    /\ UNCHANGED <<row, daemonSockets, offline, faults>>

\* daemonSockets.get(machineId)?.close(1008, ...)
Cut(p, m) == {c \in Conns : daemonSockets[p][m] = c}

\* Connections of m here that have passed authenticateMachine and have not
\* reached the map yet are not closed (history).
CloseRevoked(p, m) ==
    /\ <<p, m>> \in cuts
    /\ cuts' = cuts \ {<<p, m>>}
    /\ conn' = [c \in Conns |->
         IF c \in Cut(p, m) THEN Closing(conn[c])
         ELSE IF Known(c) /\ ~Registered(c) /\ conn[c].machine = m
              THEN [conn[c] EXCEPT !.missed = TRUE] ELSE conn[c]]
    /\ UNCHANGED <<credential, row, daemonSockets, offline, changes, faults>>

Stale(c) ==
    LET cred == credential[conn[c].machine] IN cred.revoked \/ cred.secret # conn[c].secret

(***************************************************************************)
(* A connection says hello.                                                *)
(***************************************************************************)
\* The daemon of m connects to p and sends daemon.hello at once, with the
\* secret it was configured with: the present one, or another one (0).
Secrets(m) == {0} \cup (IF credential[m] = None THEN {} ELSE {credential[m].secret})

Connect(c, p, m, secret) ==
    /\ conn[c] = Unused
    /\ conn' = [conn EXCEPT ![c] =
         [phase |-> "open", proc |-> p, machine |-> m, hello |-> "asked", secret |-> secret,
          upserting |-> FALSE, touching |-> FALSE, late |-> FALSE, missed |-> FALSE]]
    /\ UNCHANGED <<credential, row, daemonSockets, offline, cuts, changes, faults>>

Valid(m, secret) ==
    credential[m] # None /\ ~credential[m].revoked /\ credential[m].secret = secret

\* authenticateMachine: one UPDATE ... RETURNING.
Authenticate(c) ==
    /\ Used(c) /\ conn[c].hello = "asked"
    /\ Set(c, "hello", IF Valid(conn[c].machine, conn[c].secret) THEN "granted" ELSE "refused")
    /\ UNCHANGED <<credential, row, daemonSockets, offline, cuts, changes, faults>>

Refuse(c) ==
    /\ Used(c) /\ conn[c].hello = "refused"
    /\ conn' = [conn EXCEPT ![c] = [Closing(@) EXCEPT !.hello = "over"]]
    /\ UNCHANGED <<credential, row, daemonSockets, offline, cuts, changes, faults>>

\* Another frame is handled while the hello is being verified: `machineId`
\* is not set yet, and the connection is closed.
EarlyFrame(c) ==
    /\ IsLive(c) /\ conn[c].hello \in {"asked", "granted", "refused"}
    /\ Set(c, "phase", "closing")
    /\ UNCHANGED <<credential, row, daemonSockets, offline, cuts, changes, faults>>

\* The timer is cleared when the answer to a good hello is handled.
TimerIsSet(c) == conn[c].hello \in {"asked", "granted", "refused", "failed"}

\* The five seconds for authentication are over.
AuthTimeout(c) ==
    /\ IsLive(c) /\ TimerIsSet(c)
    /\ Set(c, "phase", "closing")
    /\ UNCHANGED <<credential, row, daemonSockets, offline, cuts, changes, faults>>

Replaced(c, p, m) == {d \in Conns \ {c} : daemonSockets[p][m] = d}

\* The hello goes on after its await without looking at `closed` again: it
\* closes the connection that was there, takes its place in the map, and
\* sends the upsert.
RegisterDaemon(c) ==
    /\ Used(c) /\ conn[c].hello = "granted"
    /\ LET p == conn[c].proc  m == conn[c].machine IN
       /\ conn' = [d \in Conns |->
            IF d = c THEN [conn[c] EXCEPT !.hello = "registered", !.upserting = TRUE,
                                          !.late = conn[c].phase = "gone"]
            ELSE IF d \in Replaced(c, p, m) THEN Closing(conn[d]) ELSE conn[d]]
       /\ daemonSockets' = [daemonSockets EXCEPT ![p][m] = c]
    /\ UNCHANGED <<credential, row, offline, cuts, changes, faults>>

\* The upsert keeps the organization of a row that exists; another one throws.
WriteOnline(c) ==
    /\ Used(c) /\ conn[c].upserting
    /\ Set(c, "upserting", FALSE)
    /\ LET m == conn[c].machine  org == credential[m].org IN
       row' = IF row[m] = None \/ row[m].org = org
              THEN [row EXCEPT ![m] = [org |-> org, online |-> TRUE, fresh |-> TRUE]] ELSE row
    /\ UNCHANGED <<credential, daemonSockets, offline, cuts, changes, faults>>

\* Variant: a heartbeat refreshes the row and leaves its status.
TouchedKeeping(m, online) ==
    row' = IF row[m] = None THEN row
           ELSE [row EXCEPT ![m].online = @ /\ online, ![m].fresh = TRUE]

Touched(m, online) ==
    row' = IF row[m] = None THEN row
           ELSE [row EXCEPT ![m].online = online, ![m].fresh = TRUE]

Heartbeat(c) ==
    /\ IsLive(c) /\ Registered(c) /\ ~conn[c].touching
    /\ Set(c, "touching", TRUE)
    /\ UNCHANGED <<credential, row, daemonSockets, offline, cuts, changes, faults>>

WriteTouch(c) ==
    /\ Used(c) /\ conn[c].touching
    /\ Set(c, "touching", FALSE)
    /\ Touched(conn[c].machine, TRUE)
    /\ UNCHANGED <<credential, daemonSockets, offline, cuts, changes, faults>>

(***************************************************************************)
(* A connection ends, and presence.                                        *)
(***************************************************************************)
\* Variant: the handler does not ask whether it is still the one in the map.
StillMineAlways(c) == Registered(c)

StillMine(c) == Registered(c) /\ daemonSockets[conn[c].proc][conn[c].machine] = c

\* The close event: the network, the daemon, or the end of a close we began.
CloseEvent(c) ==
    /\ Used(c) /\ conn[c].phase # "gone"
    /\ Set(c, "phase", "gone")
    /\ LET p == conn[c].proc  m == conn[c].machine IN
       IF StillMine(c)
       THEN /\ daemonSockets' = [daemonSockets EXCEPT ![p][m] = None]
            /\ offline' = offline \cup {<<p, m>>}
       ELSE UNCHANGED <<daemonSockets, offline>>
    /\ UNCHANGED <<credential, row, cuts, changes, faults>>

WriteOffline(p, m) ==
    /\ <<p, m>> \in offline
    /\ offline' = offline \ {<<p, m>>}
    /\ Touched(m, FALSE)
    /\ UNCHANGED <<credential, conn, daemonSockets, cuts, changes, faults>>

\* 45 seconds without a write to the row.
Age(m) ==
    /\ row[m] # None /\ row[m].fresh
    /\ row' = [row EXCEPT ![m].fresh = FALSE]
    /\ UNCHANGED <<credential, conn, daemonSockets, offline, cuts, changes, faults>>

\* Variant: the sweep leaves machines that this process has a socket for.
SweptUnlessRouted(m) ==
    row[m] # None /\ row[m].online /\ ~row[m].fresh /\ \A p \in Processes : daemonSockets[p][m] = None

Swept(m) == row[m] # None /\ row[m].online /\ ~row[m].fresh

\* markStaleMachines, on the timer of any process.
Sweep ==
    /\ \E m \in Machines : Swept(m)
    /\ row' = [m \in Machines |-> IF Swept(m) THEN [row[m] EXCEPT !.online = FALSE] ELSE row[m]]
    /\ UNCHANGED <<credential, conn, daemonSockets, offline, cuts, changes, faults>>

(***************************************************************************)
(* Faults, and the end of a connection's handlers.                         *)
(***************************************************************************)
Fault == faults < MaxFaults /\ faults' = faults + 1

\* A statement of a daemon's handler fails; the catch only warns.
StatementFails(c) ==
    /\ Used(c) /\ Fault
    /\ \/ conn[c].hello = "asked" /\ Set(c, "hello", "failed")
       \/ conn[c].upserting /\ Set(c, "upserting", FALSE)
       \/ conn[c].touching /\ Set(c, "touching", FALSE)
    /\ UNCHANGED <<credential, row, daemonSockets, offline, cuts, changes>>

OfflineFails(p, m) ==
    /\ <<p, m>> \in offline /\ Fault
    /\ offline' = offline \ {<<p, m>>}
    /\ UNCHANGED <<credential, row, conn, daemonSockets, cuts, changes>>

\* A process dies: connections, map and continuations go without a handler.
Crash(p) ==
    /\ Fault
    /\ conn' = [c \in Conns |-> IF Used(c) /\ conn[c].proc = p THEN Unused ELSE conn[c]]
    /\ daemonSockets' = [daemonSockets EXCEPT ![p] = [m \in Machines |-> None]]
    /\ offline' = {x \in offline : x[1] # p}
    /\ cuts' = {x \in cuts : x[1] # p}
    /\ UNCHANGED <<credential, row, changes>>

\* Nothing refers to the connection any more.
Forget(c) ==
    /\ Used(c) /\ conn[c].phase = "gone"
    /\ conn[c].hello \in {"registered", "over", "failed"}
    /\ ~conn[c].upserting /\ ~conn[c].touching
    /\ \A p \in Processes, m \in Machines : daemonSockets[p][m] # c
    /\ conn' = [conn EXCEPT ![c] = Unused]
    /\ UNCHANGED <<credential, row, daemonSockets, offline, cuts, changes, faults>>

-----------------------------------------------------------------------------
GatewayNext ==
    \/ \E o \in Orgs, m \in Machines :
         CreateCredential(o, m) \/ \E p \in Processes : RotateCredential(p, o, m) \/ RevokeCredential(p, o, m)
    \/ \E p \in Processes, m \in Machines :
         \/ CloseRevoked(p, m) \/ WriteOffline(p, m) \/ OfflineFails(p, m)
         \/ \E c \in Conns, secret \in Secrets(m) : Connect(c, p, m, secret)
    \/ \E c \in Conns :
         \/ Authenticate(c) \/ Refuse(c) \/ EarlyFrame(c) \/ AuthTimeout(c) \/ RegisterDaemon(c)
         \/ WriteOnline(c) \/ Heartbeat(c) \/ WriteTouch(c)
         \/ CloseEvent(c) \/ StatementFails(c) \/ Forget(c)
    \/ \E m \in Machines : Age(m)
    \/ Sweep
    \/ \E p \in Processes : Crash(p)

GatewaySpec == GatewayInit /\ [][GatewayNext]_gatewayVars

\* Statements are answered, timers fire, connected daemons send heartbeats.
\* A network that closes a connection is not assumed, except after close().
Fairness ==
    /\ \A c \in Conns :
         /\ WF_gatewayVars(Authenticate(c)) /\ WF_gatewayVars(Refuse(c)) /\ WF_gatewayVars(AuthTimeout(c))
         /\ WF_gatewayVars(RegisterDaemon(c)) /\ WF_gatewayVars(WriteOnline(c))
         /\ WF_gatewayVars(Heartbeat(c)) /\ WF_gatewayVars(WriteTouch(c))
    /\ \A p \in Processes, m \in Machines : WF_gatewayVars(WriteOffline(p, m))
    /\ \A m \in Machines : WF_gatewayVars(Age(m))
    /\ WF_gatewayVars(Sweep)

FairSpec == GatewaySpec /\ Fairness

-----------------------------------------------------------------------------
(***************************************************************************)
(* What must hold.                                                         *)
(***************************************************************************)
\* Every variable keeps its shape.
GatewayTypeOK ==
    /\ credential \in [Machines -> Credentials \cup {None}]
    /\ row \in [Machines -> MachineRows \cup {None}]
    /\ conn \in [Conns -> Connections \cup {Unused}]
    /\ daemonSockets \in [Processes -> [Machines -> Conns \cup {None}]]
    /\ offline \subseteq Processes \X Machines /\ cuts \subseteq Processes \X Machines
    /\ changes \in 0..MaxChanges /\ faults \in 0..MaxFaults

\* An open, registered connection is the one its process routes commands to;
\* so a machine has at most one such connection per process, and the close
\* event of a replaced connection never unregisters its successor.
LiveIsRouted ==
    \A c \in Conns :
      (IsLive(c) /\ Registered(c)) => daemonSockets[conn[c].proc][conn[c].machine] = c

\* The map holds a connection whose close event has run only when that event
\* overtook the verification of its hello.
GhostsOvertookHello ==
    \A p \in Processes, m \in Machines :
      LET c == daemonSockets[p][m] IN
        c # None => /\ Registered(c) /\ conn[c].proc = p /\ conn[c].machine = m
                    /\ conn[c].phase = "gone" => conn[c].late

\* Across revocations and new credentials a machine row stays with the
\* organization that owns the machine's credential.
RowBelongsToCredential ==
    \A m \in Machines : row[m] # None => credential[m] # None /\ row[m].org = credential[m].org

\* Once the request that rotated or revoked a credential is done, an open
\* connection that used the old one is on another process, or its hello was
\* between verification and registration: nothing else survives.
RevokedUnlessMissed ==
    \A c \in Conns :
      (IsLive(c) /\ Registered(c) /\ Stale(c) /\ ~conn[c].missed) =>
        <<conn[c].proc, conn[c].machine>> \in cuts

\* All of these together.
GatewayInv == /\ GatewayTypeOK /\ LiveIsRouted /\ GhostsOvertookHello
              /\ RowBelongsToCredential /\ RevokedUnlessMissed

(* What they need to be inductive.                                         *)
\* Who is let in has a credential row, and only who is registered upserts.
KnownHasCredential ==
    \A c \in Conns :
      /\ Known(c) => credential[conn[c].machine] # None
      /\ Used(c) /\ conn[c].upserting => Registered(c)

\* RevokedUnlessMissed from the answer to the hello on, and not only once the
\* connection is in the map.
StaleIsCut ==
    \A c \in Conns :
      IsLive(c) /\ Known(c) /\ Stale(c) /\ ~conn[c].missed =>
        <<conn[c].proc, conn[c].machine>> \in cuts

GatewayIInv == GatewayInv /\ KnownHasCredential /\ StaleIsCut

\* A machine without an open connection is shown offline in the end, also
\* after a crash, a lost write or a hello that outlived its connection.
AbsentGoesOffline ==
    \A m \in Machines :
      (\A c \in Conns : ~(IsLive(c) /\ conn[c].machine = m)) ~>
        \/ row[m] = None \/ ~row[m].online
        \/ \E c \in Conns : IsLive(c) /\ conn[c].machine = m

\* A machine that stays connected is shown online again and again, however
\* the writes of an older connection and of the sweep are ordered.
PresentComesOnline ==
    \A c \in Conns, m \in Machines :
      (IsLive(c) /\ Registered(c) /\ conn[c].machine = m /\ row[m] # None) ~>
        ((row[m] # None => row[m].online) \/ ~(IsLive(c) /\ Registered(c)))

=============================================================================
