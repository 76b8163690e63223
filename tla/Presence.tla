------------------------------ MODULE Presence ------------------------------
(***************************************************************************)
(* Who is online: the sockets of the WebSocket gateways, the handlers they *)
(* run at a connection and at a disconnection, and the keys they keep in   *)
(* Redis.  A handler is a process, one step per call of Redis; several     *)
(* instances of the application share the keys, and each clears them all   *)
(* when it starts.                                                         *)
(*                                                                         *)
(* Redis drops a key 300 seconds after it was last given a time to live.   *)
(* refreshPresence, which would give it again, is called from nowhere, so  *)
(* a key may lapse while the sockets it lists stay open.  The sets are     *)
(* given theirs by a call of its own after the one that adds to them: a    *)
(* handler that ends between the two leaves a set that never lapses.       *)
(*                                                                         *)
(* A socket keeps the user it connected as (re-authentication, which       *)
(* leaves the keys alone, is left out).                                    *)
(***************************************************************************)
EXTENDS Integers, FiniteSets, Steps

CONSTANTS
    Accounts,       \* the users
    AdminAccounts,      \* those of them who are administrators
    Sockets,     \* the connections clients open, one after the other or at once
    Instances,   \* the processes of the application
    MaxStarts,   \* bound: the starts of instances
    MaxFailures  \* bound: the handlers that fail

ASSUME AdminsAssumption == AdminAccounts \subseteq Accounts
ASSUME BoundsAssumption == MaxStarts \in Nat /\ MaxFailures \in Nat

VARIABLES
    up,          \* the instances that accept connections
    boot,        \* where each starting instance stands, and the keys it found
    starts,      \* how many starts there were,
    failures,    \* and how many handlers failed
    socket,      \* each socket: "new", "open" or "closed", its user and instance
    conn,        \* where handleConnection stands for each socket
    disc,        \* where handleDisconnect stands for each socket
    (* Redis *)
    keys,        \* the sockets with a key presence:socket:{socketId}
    members,     \* presence:user:{userId}
    admins,      \* presence:admins
    timed,       \* the users whose set has a time to live,
    adminsTimed, \* and whether presence:admins has
    (* observations of the run, read by no action *)
    told,        \* the last event about each user: is the user online?
    crossed,     \* the users with a connection and a disconnection at one time
    ghosts,      \* the sockets closed before handleConnection was through
    lost,        \* the users some of whose keys were cleared, or not written
    lapsed,      \* the users some of whose keys lapsed
    halfway      \* those whose set a handler left without a time to live

presenceKeys == <<keys, members, admins, timed, adminsTimed>>
instances == <<up, boot, starts, failures>>
presenceObserved == <<told, crossed, ghosts, lost, lapsed, halfway>>
presenceVars == <<instances, socket, conn, disc, presenceKeys, presenceObserved>>

PresenceInit ==
    /\ up = {} /\ starts = 0 /\ failures = 0
    /\ boot = [i \in Instances |-> Idle]
    /\ socket = [s \in Sockets |-> [state |-> "new"]]
    /\ conn = [s \in Sockets |-> Idle]
    /\ disc = [s \in Sockets |-> Idle]
    /\ keys = {} /\ members = [u \in Accounts |-> {}] /\ admins = {}
    /\ timed = {} /\ adminsTimed = FALSE
    /\ told = [u \in Accounts |-> FALSE]
    /\ crossed = {} /\ ghosts = {} /\ lost = {} /\ lapsed = {} /\ halfway = {}

Open(u) == {s \in Sockets : socket[s].state = "open" /\ socket[s].user = u}
Running(handler, s) == handler[s].pc \notin {"idle", "done"}
SocketsOf(u) == {s \in Sockets : socket[s].state # "new" /\ socket[s].user = u}

-----------------------------------------------------------------------------
(* handleConnection                                                        *)

ConnAt(s, p) == conn[s].pc = p
ConnGoes(s, state) == conn' = [conn EXCEPT ![s] = state]
User(s) == socket[s].user

Connect(s, u, i) ==
    /\ socket[s].state = "new"
    /\ i \in up
    /\ socket' = [socket EXCEPT ![s] = [state |-> "open", user |-> u, at |-> i]]
    /\ ConnGoes(s, [pc |-> "auth"])
    /\ crossed' = crossed \cup {v \in {u} : \E t \in SocketsOf(u) : Running(disc, t)}
    /\ UNCHANGED <<instances, disc, presenceKeys, told, ghosts, lost, lapsed, halfway>>

(* The socket is closed, by its client or by the gateway; the handler of   *)
(* its disconnection starts whatever that of its connection is doing.      *)
Closes(s) ==
    /\ socket' = [socket EXCEPT ![s].state = "closed"]
    /\ disc' = [disc EXCEPT ![s] = [pc |-> "get"]]

(* authenticateSocket                                                      *)
Authenticate(s) ==
    /\ ConnAt(s, "auth")
    /\ \/ /\ ConnGoes(s, [pc |-> "card"])
          /\ UNCHANGED <<socket, disc>>
       \/ /\ ConnGoes(s, Done)
          /\ IF socket[s].state = "open" THEN Closes(s) ELSE UNCHANGED <<socket, disc>>
    /\ UNCHANGED <<instances, presenceKeys, presenceObserved>>

(* userConnected: is this the first socket of the user? ...                *)
CountSockets(s) ==
    /\ ConnAt(s, "card")
    /\ ConnGoes(s, [pc |-> "key", wasOffline |-> members[User(s)] = {}])
    /\ UNCHANGED <<instances, socket, disc, presenceKeys, presenceObserved>>

SetSocketKey(s) ==
    /\ ConnAt(s, "key")
    /\ keys' = keys \cup {s}
    /\ ConnGoes(s, [conn[s] EXCEPT !.pc = "add"])
    /\ UNCHANGED <<instances, socket, disc, members, admins, timed, adminsTimed, presenceObserved>>

(* ... its set, which keeps the time to live it has, or has none yet ...   *)
AddSocket(s) ==
    /\ ConnAt(s, "add")
    /\ members' = [members EXCEPT ![User(s)] = @ \cup {s}]
    /\ ConnGoes(s, [conn[s] EXCEPT !.pc = "ttl"])
    /\ UNCHANGED <<instances, socket, disc, keys, admins, timed, adminsTimed, presenceObserved>>

(* ... (a key that is gone is given no time to live) ...                   *)
SetTtl(s) ==
    /\ ConnAt(s, "ttl")
    /\ timed' = timed \cup {u \in {User(s)} : members[u] # {}}
    /\ halfway' = halfway \ {User(s)}
    /\ ConnGoes(s, [conn[s] EXCEPT !.pc = IF User(s) \in AdminAccounts THEN "admin" ELSE "tell"])
    /\ UNCHANGED <<instances, socket, disc, keys, members, admins, adminsTimed>>
    /\ UNCHANGED <<told, crossed, ghosts, lost, lapsed>>

AddAdmin(s) ==
    /\ ConnAt(s, "admin")
    /\ admins' = admins \cup {User(s)}
    /\ ConnGoes(s, [conn[s] EXCEPT !.pc = "adminTtl"])
    /\ UNCHANGED <<instances, socket, disc, keys, members, timed, adminsTimed, presenceObserved>>

SetAdminsTtl(s) ==
    /\ ConnAt(s, "adminTtl")
    /\ adminsTimed' = (admins # {})
    /\ ConnGoes(s, [conn[s] EXCEPT !.pc = "tell"])
    /\ UNCHANGED <<instances, socket, disc, keys, members, admins, timed, presenceObserved>>

(* ... and the event, to everyone of an administrator, to the              *)
(* administrators of anyone else.                                          *)
TellOnline(s) ==
    /\ ConnAt(s, "tell")
    /\ told' = [told EXCEPT ![User(s)] = @ \/ conn[s].wasOffline]
    /\ ConnGoes(s, Done)
    /\ UNCHANGED <<instances, socket, disc, presenceKeys, crossed, ghosts, lost, lapsed, halfway>>

-----------------------------------------------------------------------------
(* handleDisconnect                                                        *)

DiscAt(s, p) == disc[s].pc = p
DiscGoes(s, state) == disc' = [disc EXCEPT ![s] = state]

Disconnect(s) ==
    /\ socket[s].state = "open"
    /\ Closes(s)
    /\ crossed' = crossed \cup {v \in {User(s)} : \E t \in SocketsOf(v) : Running(conn, t)}
    /\ ghosts' = ghosts \cup {t \in {s} : Running(conn, t)}
    /\ UNCHANGED <<instances, conn, presenceKeys, told, lost, lapsed, halfway>>

(* userDisconnected: whose socket was this? ...                            *)
FindSocket(s) ==
    /\ DiscAt(s, "get")
    /\ DiscGoes(s, IF s \in keys THEN [pc |-> "rem"] ELSE Done)
    /\ UNCHANGED <<instances, socket, conn, presenceKeys, presenceObserved>>

(* Mutant: the rest of the handler is left to the time to live.            *)
RemoveSocketNot(s) ==
    /\ DiscAt(s, "rem")
    /\ DiscGoes(s, [pc |-> "del"])
    /\ UNCHANGED <<instances, socket, conn, presenceKeys, presenceObserved>>

RemoveSocket(s) ==
    /\ DiscAt(s, "rem")
    /\ members' = [members EXCEPT ![User(s)] = @ \ {s}]
    /\ timed' = {u \in timed : members'[u] # {}}
    /\ DiscGoes(s, [pc |-> "del"])
    /\ UNCHANGED <<instances, socket, conn, keys, admins, adminsTimed, presenceObserved>>

DeleteSocketKey(s) ==
    /\ DiscAt(s, "del")
    /\ keys' = keys \ {s}
    /\ DiscGoes(s, [pc |-> "left"])
    /\ UNCHANGED <<instances, socket, conn, members, admins, timed, adminsTimed, presenceObserved>>

(* Mutant: a user is offline when a socket of his is.                      *)
CountLeftNot(s) ==
    /\ DiscAt(s, "left")
    /\ DiscGoes(s, [pc |-> IF User(s) \in AdminAccounts THEN "admin" ELSE "tell", nowOffline |-> TRUE])
    /\ UNCHANGED <<instances, socket, conn, presenceKeys, presenceObserved>>

(* ... has he others? ...                                                  *)
CountLeft(s) ==
    /\ DiscAt(s, "left")
    /\ LET nowOffline == members[User(s)] = {}
       IN  DiscGoes(s, [pc |-> IF User(s) \in AdminAccounts /\ nowOffline THEN "admin" ELSE "tell",
                        nowOffline |-> nowOffline])
    /\ UNCHANGED <<instances, socket, conn, presenceKeys, presenceObserved>>

RemoveAdmin(s) ==
    /\ DiscAt(s, "admin")
    /\ admins' = admins \ {User(s)}
    /\ adminsTimed' = (adminsTimed /\ admins' # {})
    /\ DiscGoes(s, [disc[s] EXCEPT !.pc = "tell"])
    /\ UNCHANGED <<instances, socket, conn, keys, members, timed, presenceObserved>>

TellOffline(s) ==
    /\ DiscAt(s, "tell")
    /\ told' = [told EXCEPT ![User(s)] = @ /\ ~disc[s].nowOffline]
    /\ DiscGoes(s, Done)
    /\ UNCHANGED <<instances, socket, conn, presenceKeys, crossed, ghosts, lost, lapsed, halfway>>

-----------------------------------------------------------------------------
(* Faults, time to live, starts                                            *)

(* The users whose set a handler of theirs, one of those of ss, has not    *)
(* given its time to live.                                                 *)
Untimed(ss) == {User(s) : s \in {t \in ss : ConnAt(t, "ttl")}} \ timed

(* A call of Redis fails: the handler ends there.                          *)
HandlerFails(s) ==
    /\ \/ /\ Running(conn, s) /\ ~ConnAt(s, "tell")
          /\ ConnGoes(s, Done) /\ UNCHANGED disc
          /\ halfway' = halfway \cup Untimed({s})
       \/ /\ Running(disc, s) /\ ~DiscAt(s, "tell")
          /\ DiscGoes(s, Done) /\ UNCHANGED <<conn, halfway>>
    /\ failures < MaxFailures /\ failures' = failures + 1
    /\ lost' = lost \cup {User(s)}
    /\ UNCHANGED <<up, boot, starts, socket, presenceKeys, told, crossed, ghosts, lapsed>>

KeyLapses(s) ==
    /\ s \in keys
    /\ keys' = keys \ {s}
    /\ lapsed' = lapsed \cup {User(s)}
    /\ UNCHANGED <<instances, socket, conn, disc, members, admins, timed, adminsTimed>>
    /\ UNCHANGED <<told, crossed, ghosts, lost, halfway>>

UserLapsesNever(u) == FALSE                       \* mutant: no time to live is set

UserLapses(u) ==
    /\ u \in timed
    /\ members' = [members EXCEPT ![u] = {}]
    /\ timed' = timed \ {u}
    /\ lapsed' = lapsed \cup {u}
    /\ UNCHANGED <<instances, socket, conn, disc, keys, admins, adminsTimed>>
    /\ UNCHANGED <<told, crossed, ghosts, lost, halfway>>

AdminsLapse ==
    /\ adminsTimed
    /\ admins' = {} /\ adminsTimed' = FALSE
    /\ lapsed' = lapsed \cup admins
    /\ UNCHANGED <<instances, socket, conn, disc, keys, members, timed>>
    /\ UNCHANGED <<told, crossed, ghosts, lost, halfway>>

(* An instance stops: its sockets are closed, its handlers never end.      *)
Stop(i) ==
    /\ i \in up
    /\ up' = up \ {i}
    /\ LET here == {s \in Sockets : socket[s].state # "new" /\ socket[s].at = i}
       IN  /\ socket' = [s \in Sockets |->
                 IF s \in here THEN [socket[s] EXCEPT !.state = "closed"] ELSE socket[s]]
           /\ conn' = [s \in Sockets |-> IF s \in here THEN Done ELSE conn[s]]
           /\ disc' = [s \in Sockets |-> IF s \in here THEN Done ELSE disc[s]]
           /\ lost' = lost \cup {User(s) : s \in {t \in here :
                 socket[t].state = "open" \/ Running(conn, t) \/ Running(disc, t)}}
           /\ halfway' = halfway \cup Untimed(here)
    /\ UNCHANGED <<boot, starts, failures, presenceKeys, told, crossed, ghosts, lapsed>>

(* clearAllPresenceData, before the instance accepts connections: the keys *)
(* of the sockets, those of the users ...                                  *)
Start(i) ==
    /\ i \notin up
    /\ boot[i] = Idle
    /\ starts < MaxStarts
    /\ starts' = starts + 1
    /\ boot' = [boot EXCEPT ![i] = [pc |-> "users", keys |-> keys]]
    /\ UNCHANGED <<up, failures, socket, conn, disc, presenceKeys, presenceObserved>>

ListUsers(i) ==
    /\ boot[i].pc = "users"
    /\ boot' = [boot EXCEPT ![i] = [pc |-> "del", keys |-> boot[i].keys,
                                    users |-> {u \in Accounts : members[u] # {}}]]
    /\ UNCHANGED <<up, starts, failures, socket, conn, disc, presenceKeys, presenceObserved>>

(* ... are deleted, unless that fails.                                     *)
DeleteAll(i) ==
    /\ boot[i].pc = "del"
    /\ keys' = keys \ boot[i].keys
    /\ members' = [u \in Accounts |-> IF u \in boot[i].users THEN {} ELSE members[u]]
    /\ timed' = timed \ boot[i].users
    /\ admins' = {} /\ adminsTimed' = FALSE
    /\ lost' = lost \cup admins \cup boot[i].users \cup {User(s) : s \in boot[i].keys}
    /\ up' = up \cup {i}
    /\ boot' = [boot EXCEPT ![i] = Idle]
    /\ UNCHANGED <<starts, failures, socket, conn, disc, told, crossed, ghosts, lapsed, halfway>>

ClearFails(i) ==
    /\ boot[i] # Idle
    /\ up' = up \cup {i}
    /\ boot' = [boot EXCEPT ![i] = Idle]
    /\ UNCHANGED <<starts, failures, socket, conn, disc, presenceKeys, presenceObserved>>

-----------------------------------------------------------------------------

Connection(s) ==
    \/ Authenticate(s) \/ CountSockets(s) \/ SetSocketKey(s)
    \/ AddSocket(s) \/ SetTtl(s) \/ AddAdmin(s) \/ SetAdminsTtl(s) \/ TellOnline(s)

Disconnection(s) ==
    \/ FindSocket(s) \/ RemoveSocket(s) \/ DeleteSocketKey(s)
    \/ CountLeft(s) \/ RemoveAdmin(s) \/ TellOffline(s)

Starting(i) == Start(i) \/ ListUsers(i) \/ DeleteAll(i) \/ ClearFails(i)

PresenceNext ==
    \/ \E s \in Sockets :
          \/ \E u \in Accounts, i \in Instances : Connect(s, u, i)
          \/ Connection(s) \/ Disconnect(s) \/ Disconnection(s)
          \/ HandlerFails(s) \/ KeyLapses(s)
    \/ \E u \in Accounts : UserLapses(u)
    \/ AdminsLapse
    \/ \E i \in Instances : Stop(i) \/ Starting(i)

(* A handler whose process runs goes on; Redis keeps the time to live of   *)
(* a set that has one.                                                     *)
PresenceFairness ==
    /\ \A s \in Sockets :
          WF_presenceVars(Connection(s)) /\ WF_presenceVars(Disconnection(s))
    /\ \A u \in Accounts : WF_presenceVars(UserLapses(u))

PresenceSpec == PresenceInit /\ [][PresenceNext]_presenceVars /\ PresenceFairness

-----------------------------------------------------------------------------
(* Properties                                                              *)

PresenceTypeOK ==
    /\ up \in SUBSET Instances
    /\ boot \in [Instances -> {Idle} \cup [pc: {"users"}, keys: SUBSET Sockets]
                    \cup [pc: {"del"}, keys: SUBSET Sockets, users: SUBSET Accounts]]
    /\ starts \in 0 .. MaxStarts /\ failures \in 0 .. MaxFailures
    /\ socket \in [Sockets -> [state: {"new"}]
                    \cup [state: {"open", "closed"}, user: Accounts, at: Instances]]
    /\ conn \in [Sockets -> [pc: {"idle", "done", "auth", "card"}]
                    \cup [pc: {"key", "add", "ttl", "admin", "adminTtl", "tell"}, wasOffline: BOOLEAN]]
    /\ disc \in [Sockets -> [pc: {"idle", "done", "get", "rem", "del", "left"}]
                    \cup [pc: {"admin", "tell"}, nowOffline: BOOLEAN]]
    /\ keys \in SUBSET Sockets
    /\ members \in [Accounts -> SUBSET Sockets]
    /\ admins \in SUBSET AdminAccounts
    /\ timed \in SUBSET Accounts /\ adminsTimed \in BOOLEAN
    /\ told \in [Accounts -> BOOLEAN]
    /\ crossed \in SUBSET Accounts /\ ghosts \in SUBSET Sockets
    /\ lost \in SUBSET Accounts /\ lapsed \in SUBSET Accounts
    /\ halfway \in SUBSET Accounts

(* getOnlineUserIds and isAnyAdminOnline, what a client who asks is told.  *)
OnlineUserIds(us) == {u \in us : members[u] # {}}
IsAnyAdminOnline == admins # {}

(* No handler of u is at work.                                             *)
Settled(u) == \A s \in SocketsOf(u) : ~Running(conn, s) /\ ~Running(disc, s)

(* The set of a user lists the sockets he has open, and beside them at     *)
(* most those that were closed while handleConnection was registering      *)
(* them: whatever the order in which the handlers of several sockets ran.  *)
MembersExact ==
    \A u \in Accounts \ (lost \cup lapsed) : Settled(u) =>
        /\ Open(u) \subseteq members[u]
        /\ members[u] \subseteq Open(u) \cup ghosts

(* What clients were told last of a user, and what isAnyAdminOnline        *)
(* answers, is right once the handlers are through, for users none of      *)
(* whose disconnections ran beside one of their connections.               *)
EventsRight ==
    \A u \in Accounts \ (lost \cup lapsed \cup crossed) : Settled(u) =>
        /\ told[u] <=> Open(u) # {}
        /\ u \in AdminAccounts => (u \in admins <=> Open(u) # {})

(* When nobody has a socket any more nobody is online in the end, whatever *)
(* lapsed, overlapped or was cleared, but the users whose last handler to  *)
(* add to their set ended, by a failure or with its instance, before it    *)
(* gave the set its time to live.                                          *)
GhostsExpire ==
    <>[](\A u \in Accounts : Open(u) = {} /\ Settled(u)) => <>[](OnlineUserIds(Accounts \ halfway) = {})

(* "All keys have TTL as safety net for ungraceful shutdowns": no set      *)
(* that a handler of its users is not at work on is without one.           *)
KeysHaveTtl ==
    /\ \A u \in Accounts : Settled(u) /\ members[u] # {} => u \in timed
    /\ (\A u \in AdminAccounts : Settled(u)) /\ admins # {} => adminsTimed

(* "Keeps presence data alive for connected sockets": an open socket whose *)
(* handlers are through, without a fault, keeps its user online.           *)
ConnectedIsOnline ==
    \A u \in Accounts \ lost :
        Settled(u) /\ Open(u) # {} => OnlineUserIds({u}) = {u}
=============================================================================
