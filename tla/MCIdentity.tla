----------------------------- MODULE MCIdentity -----------------------------
(* Who may connect, one scenario at a time; the other component rests.     *)
(* Organizations.  "signin": signing in from nothing.  "invite":           *)
(* invitations among registered users into one organization.  "sockets":   *)
(* an invitation is accepted while sockets open and resync and sessions    *)
(* end; invitations expire in the second only, the guest's sessions in the *)
(* third.                                                                  *)
(* MachineGateway.  "register": credentials come and go while one daemon   *)
(* connects.  "cut": a credential changes once more while two connections  *)
(* meet it; each is used once, and there are no heartbeats and no stale    *)
(* rows, so fairness leaves this one to the safety properties.             *)
(* "presence": the credential stays, statements fail, processes crash.     *)
(* The first daemon connection is always made to the first process.        *)
EXTENDS MachineGateway, Organizations, SequencesExt

CONSTANTS
    Scenarios,                     \* those a run explores
    Founder, Guest,                \* of the organization others are invited to
    ListingFails,                  \* whether the list after an acceptance may
    FirstOrg, FirstConn, FirstProc
VARIABLE scenario

mcvars == <<vars, gatewayVars, scenario>>

Ops ==
    [signin  |-> {"register", "login"},
     invite  |-> {"invite", "accept"},
     sockets |-> {"accept", "upgrade", "logout"}]

Invited == [org |-> Founder, email |-> Guest, role |-> "admin", by |-> Founder,
            expired |-> FALSE, accepted |-> 0, uses |-> 0]

OrganizationsInit ==
    /\ accounts = IF scenario \in {"invite", "sockets"} THEN Users ELSE {}
    /\ member = [o \in Users |-> [u \in Users |->
                    IF o = u /\ u \in accounts THEN "owner" ELSE "none"]]
    /\ sessions = CASE scenario = "invite" -> SetToSeq({NewSession(u) : u \in Users})
                    [] scenario = "sockets" -> <<NewSession(Founder), NewSession(Guest)>>
                    [] OTHER -> <<>>
    /\ invitations = IF scenario = "sockets" THEN <<Invited>> ELSE <<>>
    /\ attempts = [k \in Keys |-> 0]
    /\ counted = [k \in Keys |-> {}] /\ hashed = [k \in Keys |-> 0]
    /\ request = [r \in Requests |-> Idle]
    /\ socket = [k \in Sockets |-> Free]

GatewayScenarioInit ==
    /\ credential = [m \in Machines |-> IF scenario \in {"cut", "presence"}
                       THEN [org |-> FirstOrg, secret |-> 1, revoked |-> FALSE] ELSE None]
    /\ row = [m \in Machines |-> None]
    /\ conn = [c \in Conns |-> Unused]
    /\ daemonSockets = [p \in Processes |-> [m \in Machines |-> None]]
    /\ offline = {} /\ cuts = {}
    /\ changes = CASE scenario = "cut" -> MaxChanges - 1
                   [] scenario = "presence" -> MaxChanges
                   [] OTHER -> 0
    /\ faults = IF scenario = "presence" THEN 0 ELSE MaxFaults

MCInit == scenario \in Scenarios /\ OrganizationsInit /\ GatewayScenarioInit

InScope(q) ==
    /\ q.op \in Ops[scenario] \cup {"idle"}
    /\ q.op \in {"register", "login"} => q.user = Guest
    /\ q.op = "invite" => q.org = Founder /\ q.role # "viewer"

OrganizationsNext ==
    /\ scenario \in DOMAIN Ops
    /\ Next
    /\ \A r \in Requests : InScope(request'[r]) /\ (ListFails(r) => ListingFails)
    /\ \A s \in DOMAIN sessions : sessions'[s].expired => scenario = "sockets" /\ sessions[s].user = Guest
    /\ \A i \in DOMAIN invitations : invitations'[i].expired => scenario = "invite"
    /\ UNCHANGED gatewayVars

GatewayScenarioNext ==
    /\ scenario \in {"register", "cut", "presence"}
    /\ GatewayNext
    /\ conn'[FirstConn] # Unused => conn'[FirstConn].proc = FirstProc
    /\ scenario = "register" => \A c \in Conns \ {FirstConn} : conn'[c] = Unused
    /\ scenario = "cut" =>
         /\ \A m \in Machines : row[m] # None => row'[m].fresh
         /\ \A c \in Conns : /\ conn'[c] # Unused => ~conn'[c].touching /\ conn'[c].secret # 0
                             /\ conn'[c] = Unused => conn[c] = Unused
    /\ UNCHANGED vars

MCNext == (OrganizationsNext \/ GatewayScenarioNext) /\ UNCHANGED scenario

MCSpec == MCInit /\ [][MCNext]_mcvars /\ Fairness
=============================================================================
