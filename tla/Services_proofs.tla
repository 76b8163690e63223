-------------------------- MODULE Services_proofs --------------------------
(***************************************************************************)
(* What the services that run beside the links promise, for any sets of    *)
(* users, sockets, instances, advisories and requests: the sets that       *)
(* Presence keeps in Redis, and the dismissals of Advisories; and that     *)
(* what MCServices explores are behaviours of each of its five parts.      *)
(***************************************************************************)
EXTENDS MCServices, Chat_proofs, LinkCatalogue_proofs, ScanPipeline_proofs, FiniteSetTheorems, TLAPS

-----------------------------------------------------------------------------
(***************************************************************************)
(* PRESENCE                                                                *)
(***************************************************************************)

(* Type correctness                                                        *)

BootRow == {Idle} \cup [pc: {"users"}, keys: SUBSET Sockets]
              \cup [pc: {"del"}, keys: SUBSET Sockets, users: SUBSET Accounts]
SocketRow == [state: {"new"}] \cup [state: {"open", "closed"}, user: Accounts, at: Instances]
ConnRow == [pc: {"idle", "done", "auth", "card"}]
              \cup [pc: {"key", "add", "ttl", "admin", "adminTtl", "tell"}, wasOffline: BOOLEAN]
DiscRow == [pc: {"idle", "done", "get", "rem", "del", "left"}]
              \cup [pc: {"admin", "tell"}, nowOffline: BOOLEAN]

New(s) == socket[s].state = "new"

(* A handler has not begun before the socket is opened, and the keys that  *)
(* are stored, or that a starting instance found, are of opened sockets.   *)
Begun ==
    /\ \A s \in Sockets : New(s) => conn[s].pc = "idle" /\ disc[s].pc = "idle" /\ s \notin keys
    /\ \A s \in Sockets : conn[s].pc = "admin" => User(s) \in AdminAccounts
    /\ \A i \in Instances : boot[i] # Idle => \A s \in boot[i].keys : ~New(s)

PresenceTyped == PresenceTypeOK /\ Begun

LEMMA SocketTypes ==
    ASSUME PresenceTypeOK, NEW s \in Sockets
    PROVE  /\ socket[s] \in SocketRow /\ conn[s] \in ConnRow /\ disc[s] \in DiscRow
           /\ ~New(s) => /\ socket[s] \in [state: {"open", "closed"}, user: Accounts, at: Instances]
                         /\ User(s) \in Accounts
                         /\ \A x \in {"open", "closed"} : [socket[s] EXCEPT !.state = x] \in
                                [state: {"open", "closed"}, user: Accounts, at: Instances]
           /\ conn[s].pc \in {"idle", "done", "auth", "card", "key", "add", "ttl", "admin", "adminTtl", "tell"}
           /\ disc[s].pc \in {"idle", "done", "get", "rem", "del", "left", "admin", "tell"}
           /\ conn[s].pc \in {"key", "add", "ttl", "admin", "adminTtl", "tell"} =>
                 /\ conn[s].wasOffline \in BOOLEAN
                 /\ \A p \in {"key", "add", "ttl", "admin", "adminTtl", "tell"} : [conn[s] EXCEPT !.pc = p] \in ConnRow
           /\ disc[s].pc \in {"admin", "tell"} =>
                 /\ disc[s].nowOffline \in BOOLEAN
                 /\ [disc[s] EXCEPT !.pc = "tell"] \in DiscRow
           /\ {Idle, Done} \cup [pc: {"auth", "card"}] \subseteq ConnRow
           /\ {Idle, Done} \cup [pc: {"get", "rem", "del", "left"}] \subseteq DiscRow
<1>1. socket[s] \in SocketRow /\ conn[s] \in ConnRow /\ disc[s] \in DiscRow
    BY DEF PresenceTypeOK, SocketRow, ConnRow, DiscRow
<1>2. ~New(s) => socket[s] \in [state: {"open", "closed"}, user: Accounts, at: Instances]
    BY <1>1 DEF SocketRow, New
<1>3. \A r \in [state: {"open", "closed"}, user: Accounts, at: Instances] :
         /\ r.user \in Accounts
         /\ \A x \in {"open", "closed"} : [r EXCEPT !.state = x] \in
                [state: {"open", "closed"}, user: Accounts, at: Instances]
    OBVIOUS
<1>4. ~New(s) => /\ User(s) \in Accounts
                 /\ \A x \in {"open", "closed"} : [socket[s] EXCEPT !.state = x] \in
                        [state: {"open", "closed"}, user: Accounts, at: Instances]
    BY <1>2, <1>3 DEF User
<1>5. \A r \in ConnRow :
         /\ r.pc \in {"idle", "done", "auth", "card", "key", "add", "ttl", "admin", "adminTtl", "tell"}
         /\ r.pc \in {"key", "add", "ttl", "admin", "adminTtl", "tell"} =>
                 /\ r.wasOffline \in BOOLEAN
                 /\ \A p \in {"key", "add", "ttl", "admin", "adminTtl", "tell"} : [r EXCEPT !.pc = p] \in ConnRow
    BY DEF ConnRow
<1>6. \A r \in DiscRow :
         /\ r.pc \in {"idle", "done", "get", "rem", "del", "left", "admin", "tell"}
         /\ r.pc \in {"admin", "tell"} =>
                 /\ r.nowOffline \in BOOLEAN
                 /\ [r EXCEPT !.pc = "tell"] \in DiscRow
    BY DEF DiscRow
<1>7. /\ {Idle, Done} \cup [pc: {"auth", "card"}] \subseteq ConnRow
      /\ {Idle, Done} \cup [pc: {"get", "rem", "del", "left"}] \subseteq DiscRow
    BY DEF ConnRow, DiscRow, Idle, Done
<1>8. QED
    BY <1>1, <1>2, <1>4, <1>5, <1>6, <1>7

(* To close a socket changes nothing but its state, and where the handler  *)
(* of its disconnection stands.                                            *)
LEMMA Closing ==
    ASSUME PresenceTypeOK, NEW s \in Sockets, ~New(s), Closes(s)
    PROVE  /\ socket' \in [Sockets -> SocketRow] /\ disc' \in [Sockets -> DiscRow]
           /\ socket'[s].state = "closed" /\ disc'[s].pc = "get"
           /\ \A t \in Sockets : User(t)' = User(t) /\ (New(t)' <=> New(t))
           /\ \A t \in Sockets \ {s} : socket'[t] = socket[t] /\ disc'[t] = disc[t]
<1>1. socket \in [Sockets -> SocketRow] /\ disc \in [Sockets -> DiscRow]
    BY DEF PresenceTypeOK, SocketRow, DiscRow
<1>2. PICK r \in [state: {"open", "closed"}, user: Accounts, at: Instances] : socket[s] = r
    BY SocketTypes
<1>3. /\ [r EXCEPT !.state = "closed"] \in SocketRow
      /\ [r EXCEPT !.state = "closed"].state = "closed"
      /\ [r EXCEPT !.state = "closed"].user = r.user
    BY DEF SocketRow
<1>4. socket' = [socket EXCEPT ![s] = [r EXCEPT !.state = "closed"]]
    BY <1>2 DEF Closes
<1>5. socket' \in [Sockets -> SocketRow]
    BY <1>1, <1>3, <1>4
<1>6. /\ socket'[s].state = "closed" /\ socket'[s].user = socket[s].user
      /\ \A t \in Sockets \ {s} : socket'[t] = socket[t]
    BY <1>1, <1>2, <1>3, <1>4
<1>7. \A t \in Sockets : User(t)' = User(t) /\ (New(t)' <=> New(t))
    <2>1. User(s)' = User(s) /\ ~New(s)'
        BY <1>6 DEF User, New
    <2>2. QED
        BY <2>1, <1>6 DEF User, New
<1>8. /\ disc' \in [Sockets -> DiscRow] /\ disc'[s].pc = "get"
      /\ \A t \in Sockets \ {s} : disc'[t] = disc[t]
    BY <1>1 DEF Closes, DiscRow
<1>9. QED
    BY <1>5, <1>6, <1>7, <1>8

LEMMA BegunKept ==
    ASSUME Begun, UNCHANGED boot,
           \A t \in Sockets : New(t)' =>
               /\ New(t) /\ conn'[t].pc = conn[t].pc /\ disc'[t].pc = disc[t].pc
               /\ t \in keys' => t \in keys,
           \A t \in Sockets : conn'[t].pc = "admin" => conn[t].pc = "admin" /\ User(t)' = User(t),
           \A i \in Instances : boot[i] # Idle => boot[i].keys \subseteq Sockets
    PROVE  Begun'
<1>1. \A i \in Instances : boot'[i] # Idle => \A s \in boot'[i].keys : ~New(s)'
    BY DEF Begun
<1>2. QED
    BY <1>1 DEF Begun

(* Every variable keeps its type.                                          *)
LEMMA PresenceTypedInit == PresenceInit => PresenceTyped
<1> SUFFICES ASSUME PresenceInit PROVE PresenceTypeOK /\ Begun
    BY DEF PresenceTyped
<1>1. adminsTimed \in BOOLEAN
    BY Zenon DEF PresenceInit
<1>2. PresenceTypeOK
    BY <1>1, BoundsAssumption DEF PresenceInit, PresenceTypeOK, Idle
<1>3. Begun
    BY DEF PresenceInit, Begun, New, Idle
<1>4. QED
    BY <1>2, <1>3

LEMMA PresenceTypedStep ==
    PresenceTyped /\ [PresenceNext]_presenceVars => PresenceTyped'
<1> SUFFICES ASSUME PresenceTyped, [PresenceNext]_presenceVars PROVE PresenceTyped'
    OBVIOUS
<1> DEFINE Handled == PresenceTypeOK' /\ Begun'
<1> USE DEF PresenceTyped
<1>a. /\ socket \in [Sockets -> SocketRow] /\ conn \in [Sockets -> ConnRow]
      /\ disc \in [Sockets -> DiscRow] /\ boot \in [Instances -> BootRow]
    BY DEF PresenceTypeOK, SocketRow, ConnRow, DiscRow, BootRow
<1>b. \A i \in Instances : boot[i] # Idle => boot[i].keys \subseteq Sockets
    BY <1>a DEF BootRow
<1>1. ASSUME NEW s \in Sockets, NEW u \in Accounts, NEW i \in Instances, Connect(s, u, i)
      PROVE  Handled
    <2>1. socket' \in [Sockets -> SocketRow]
        BY <1>1, <1>a DEF Connect, SocketRow
    <2>2. conn' \in [Sockets -> ConnRow]
        BY <1>1, <1>a DEF Connect, ConnGoes, ConnRow
    <2>3. crossed' \in SUBSET Accounts
        BY <1>1 DEF Connect, PresenceTypeOK
    <2>4. PresenceTypeOK'
        BY <1>1, <2>1, <2>2, <2>3 DEF Connect, PresenceTypeOK, instances, presenceKeys, SocketRow, ConnRow
    <2>5. \A t \in Sockets : New(t)' => New(t) /\ t # s
        BY <1>1, <1>a DEF Connect, New
    <2>8. \A t \in Sockets \ {s} : conn'[t] = conn[t] /\ User(t)' = User(t)
        BY <1>1, <1>a DEF Connect, ConnGoes, User
    <2>9. conn'[s].pc = "auth"
        BY <1>1, <1>a DEF Connect, ConnGoes
    <2>6. Begun'
        BY <1>1, <1>b, <2>5, <2>8, <2>9, BegunKept DEF Connect, instances, presenceKeys
    <2>7. QED
        BY <2>4, <2>6
<1>2. ASSUME NEW s \in Sockets, Connection(s) PROVE Handled
    <2>1. CASE Authenticate(s)
        <3>1. ~New(s)
            BY <2>1 DEF Authenticate, ConnAt, Begun
        <3>2. socket' \in [Sockets -> SocketRow] /\ disc' \in [Sockets -> DiscRow]
            BY <2>1, <3>1, <1>a, Closing DEF Authenticate
        <3>3. conn' \in [Sockets -> ConnRow]
            BY <2>1, <1>a DEF Authenticate, ConnGoes, ConnRow, Done
        <3>4. PresenceTypeOK'
            BY <2>1, <3>2, <3>3 DEF Authenticate, PresenceTypeOK, instances, presenceKeys, presenceObserved,
                  SocketRow, ConnRow, DiscRow
        <3>5. \A t \in Sockets : /\ User(t)' = User(t) /\ (New(t)' <=> New(t))
                                 /\ t # s => conn'[t] = conn[t] /\ disc'[t] = disc[t]
            BY <2>1, <1>a, <3>1, Closing DEF Authenticate, ConnGoes, New, User
        <3>8. conn'[s].pc # "admin"
            BY <2>1, <1>a DEF Authenticate, ConnGoes, Done
        <3>6. Begun'
            BY <2>1, <1>b, <3>1, <3>5, <3>8, BegunKept DEF Authenticate, instances, presenceKeys
        <3>7. QED
            BY <3>4, <3>6
    <2>2. CASE ~Authenticate(s)
        <3>1. ~New(s) /\ User(s) \in Accounts
            BY <1>2, <2>2, SocketTypes DEF Connection, CountSockets, SetSocketKey, AddSocket, SetTtl, AddAdmin,
                  SetAdminsTtl, TellOnline, ConnAt, Begun
        <3>2. PICK state \in ConnRow : ConnGoes(s, state)
            <4>1. CASE CountSockets(s)
                BY <4>1 DEF CountSockets, ConnRow
            <4>2. CASE SetSocketKey(s) \/ AddSocket(s) \/ SetTtl(s) \/ AddAdmin(s) \/ SetAdminsTtl(s)
                BY <4>2, SocketTypes DEF SetSocketKey, AddSocket, SetTtl, AddAdmin, SetAdminsTtl, ConnAt
            <4>3. CASE TellOnline(s)
                BY <4>3 DEF TellOnline, ConnRow, Done
            <4>4. QED
                BY <1>2, <2>2, <4>1, <4>2, <4>3 DEF Connection
        <3>3. conn' \in [Sockets -> ConnRow]
            BY <3>2, <1>a DEF ConnGoes
        <3>4. /\ keys' \in SUBSET Sockets /\ members' \in [Accounts -> SUBSET Sockets]
              /\ admins' \in SUBSET AdminAccounts /\ told' \in [Accounts -> BOOLEAN]
              /\ keys' \subseteq keys \cup {s}
              /\ timed' \in SUBSET Accounts /\ adminsTimed' \in BOOLEAN /\ halfway' \in SUBSET Accounts
            <4>1. CASE TellOnline(s)
                <5>1. PICK b \in BOOLEAN : b = (told[User(s)] \/ conn[s].wasOffline)
                    OBVIOUS
                <5>2. told' = [told EXCEPT ![User(s)] = b]
                    BY <4>1, <5>1 DEF TellOnline
                <5>3. told' \in [Accounts -> BOOLEAN]
                    BY <5>2 DEF PresenceTypeOK
                <5>4. QED
                    BY <4>1, <5>3 DEF TellOnline, PresenceTypeOK, presenceKeys
            <4>2. CASE AddAdmin(s)
                <5>1. User(s) \in AdminAccounts
                    BY <4>2 DEF AddAdmin, ConnAt, Begun
                <5>2. QED
                    BY <4>2, <5>1 DEF AddAdmin, PresenceTypeOK, presenceObserved
            <4>3. CASE CountSockets(s) \/ SetSocketKey(s) \/ AddSocket(s)
                BY <4>3, <3>1 DEF CountSockets, SetSocketKey, AddSocket, PresenceTypeOK, presenceKeys,
                      presenceObserved
            <4>4. CASE SetTtl(s) \/ SetAdminsTtl(s)
                BY <4>4, <3>1 DEF SetTtl, SetAdminsTtl, PresenceTypeOK, presenceObserved
            <4>5. QED
                BY <1>2, <2>2, <4>1, <4>2, <4>3, <4>4 DEF Connection
        <3>5. UNCHANGED <<instances, socket, disc, crossed, ghosts, lost, lapsed>>
            BY <1>2, <2>2 DEF Connection, CountSockets, SetSocketKey, AddSocket, SetTtl, AddAdmin, SetAdminsTtl, TellOnline,
                  presenceObserved
        <3>6. PresenceTypeOK'
            BY <3>3, <3>4, <3>5 DEF PresenceTypeOK, instances, ConnRow
        <3>7. state.pc = "admin" => User(s) \in AdminAccounts
            <4>1. conn'[s] = state
                BY <3>2, <1>a DEF ConnGoes
            <4>2. CASE CountSockets(s) \/ TellOnline(s)
                BY <4>1, <4>2, <1>a DEF CountSockets, TellOnline, ConnGoes, Done
            <4>3. CASE SetSocketKey(s) \/ AddSocket(s) \/ AddAdmin(s) \/ SetAdminsTtl(s)
                BY <4>1, <4>3, <1>a DEF SetSocketKey, AddSocket, AddAdmin, SetAdminsTtl, ConnAt, ConnGoes, ConnRow
            <4>4. CASE SetTtl(s)
                BY <4>1, <4>4, <1>a DEF SetTtl, ConnAt, ConnGoes, ConnRow
            <4>5. QED
                BY <1>2, <2>2, <4>2, <4>3, <4>4 DEF Connection
        <3>9. Begun'
            BY <3>1, <3>2, <3>4, <3>5, <3>7, <1>a DEF ConnGoes, Begun, instances, New, User
        <3>8. QED
            BY <3>6, <3>9
    <2>3. QED
        BY <2>1, <2>2
<1>3. ASSUME NEW s \in Sockets, Disconnect(s) \/ Disconnection(s) PROVE Handled
    <2>1. CASE Disconnect(s)
        <3>1. ~New(s) /\ User(s) \in Accounts
            BY <2>1, SocketTypes DEF Disconnect, New
        <3>2. socket' \in [Sockets -> SocketRow] /\ disc' \in [Sockets -> DiscRow]
            BY <2>1, <3>1, Closing DEF Disconnect
        <3>3. crossed' \in SUBSET Accounts /\ ghosts' \in SUBSET Sockets
            BY <2>1, <3>1 DEF Disconnect, PresenceTypeOK
        <3>4. PresenceTypeOK'
            BY <2>1, <3>2, <3>3 DEF Disconnect, PresenceTypeOK, instances, presenceKeys, SocketRow, DiscRow
        <3>5. \A t \in Sockets : /\ User(t)' = User(t) /\ (New(t)' <=> New(t))
                                 /\ t # s => disc'[t] = disc[t]
            BY <2>1, <3>1, Closing DEF Disconnect
        <3>6. Begun'
            BY <2>1, <1>b, <3>1, <3>5, BegunKept DEF Disconnect, instances, presenceKeys
        <3>7. QED
            BY <3>4, <3>6
    <2>2. CASE Disconnection(s)
        <3>1. ~New(s) /\ User(s) \in Accounts
            BY <2>2, SocketTypes DEF Disconnection, FindSocket, RemoveSocket, DeleteSocketKey, CountLeft,
                  RemoveAdmin, TellOffline, DiscAt, Begun
        <3>2. PICK state \in DiscRow : DiscGoes(s, state)
            <4>1. CASE FindSocket(s) \/ RemoveSocket(s) \/ DeleteSocketKey(s)
                BY <4>1 DEF FindSocket, RemoveSocket, DeleteSocketKey, DiscRow, Done
            <4>2. CASE CountLeft(s)
                BY <4>2 DEF CountLeft, DiscRow
            <4>3. CASE RemoveAdmin(s)
                BY <4>3, SocketTypes DEF RemoveAdmin, DiscAt
            <4>4. CASE TellOffline(s)
                BY <4>4 DEF TellOffline, DiscRow, Done
            <4>5. QED
                BY <2>2, <4>1, <4>2, <4>3, <4>4 DEF Disconnection
        <3>3. disc' \in [Sockets -> DiscRow]
            BY <3>2, <1>a DEF DiscGoes
        <3>4. /\ keys' \in SUBSET Sockets /\ members' \in [Accounts -> SUBSET Sockets]
              /\ admins' \in SUBSET AdminAccounts /\ told' \in [Accounts -> BOOLEAN]
              /\ keys' \subseteq keys
              /\ timed' \in SUBSET Accounts /\ adminsTimed' \in BOOLEAN /\ halfway' \in SUBSET Accounts
            <4>1. CASE TellOffline(s)
                <5>1. PICK b \in BOOLEAN : b = (told[User(s)] /\ ~disc[s].nowOffline)
                    OBVIOUS
                <5>2. told' = [told EXCEPT ![User(s)] = b]
                    BY <4>1, <5>1 DEF TellOffline
                <5>3. told' \in [Accounts -> BOOLEAN]
                    BY <5>2 DEF PresenceTypeOK
                <5>4. QED
                    BY <4>1, <5>3 DEF TellOffline, PresenceTypeOK, presenceKeys
            <4>2. CASE RemoveAdmin(s)
                <5>1. PICK b \in BOOLEAN : b = (adminsTimed /\ admins' # {})
                    OBVIOUS
                <5>2. adminsTimed' = b
                    BY Zenon, <4>2, <5>1 DEF RemoveAdmin
                <5>3. adminsTimed' \in BOOLEAN
                    BY Zenon, <5>2
                <5>4. QED
                    BY <4>2, <5>3 DEF RemoveAdmin, PresenceTypeOK, presenceObserved
            <4>3. CASE ~TellOffline(s) /\ ~RemoveAdmin(s)
                BY <2>2, <4>3, <3>1 DEF Disconnection, FindSocket, RemoveSocket, DeleteSocketKey, CountLeft,
                      PresenceTypeOK, presenceKeys, presenceObserved
            <4>4. QED
                BY <4>1, <4>2, <4>3
        <3>5. UNCHANGED <<instances, socket, conn, crossed, ghosts, lost, lapsed>>
            BY <2>2 DEF Disconnection, FindSocket, RemoveSocket, DeleteSocketKey, CountLeft,
                  RemoveAdmin, TellOffline, presenceObserved
        <3>6. PresenceTypeOK'
            BY <3>3, <3>4, <3>5 DEF PresenceTypeOK, instances, DiscRow
        <3>7. Begun'
            BY <3>1, <3>2, <3>4, <3>5, <1>a DEF DiscGoes, Begun, instances, New, User
        <3>8. QED
            BY <3>6, <3>7
    <2>3. QED
        BY <1>3, <2>1, <2>2
<1>4. ASSUME NEW s \in Sockets, HandlerFails(s) PROVE Handled
    <2>1. ~New(s) /\ User(s) \in Accounts
        BY <1>4, SocketTypes DEF HandlerFails, Running, Begun
    <2>2. conn' \in [Sockets -> ConnRow] /\ disc' \in [Sockets -> DiscRow]
        BY <1>4, <1>a DEF HandlerFails, ConnGoes, DiscGoes, ConnRow, DiscRow, Done
    <2>3. failures' \in 0 .. MaxFailures /\ halfway' \in SUBSET Accounts
        BY <1>4, <2>1, BoundsAssumption DEF HandlerFails, PresenceTypeOK, Untimed
    <2>4. PresenceTypeOK'
        BY <1>4, <2>1, <2>2, <2>3 DEF HandlerFails, PresenceTypeOK, presenceKeys, ConnRow, DiscRow
    <2>5. Begun'
        BY <1>4, <2>1, <1>a DEF HandlerFails, ConnGoes, DiscGoes, Done, Begun, New, presenceKeys, User
    <2>6. QED
        BY <2>4, <2>5
<1>5. ASSUME NEW s \in Sockets, KeyLapses(s) PROVE Handled
    <2>1. ~New(s) /\ User(s) \in Accounts
        BY <1>5, SocketTypes DEF KeyLapses, Begun
    <2>2. PresenceTypeOK'
        BY <1>5, <2>1 DEF KeyLapses, PresenceTypeOK, instances
    <2>3. Begun'
        BY <1>5, <1>a DEF KeyLapses, Begun, New, instances, User
    <2>4. QED
        BY <2>2, <2>3
<1>6. ASSUME (\E u \in Accounts : UserLapses(u)) \/ AdminsLapse PROVE Handled
    <2>1. PresenceTypeOK'
        BY <1>6, AdminsAssumption DEF UserLapses, AdminsLapse, PresenceTypeOK, instances
    <2>2. Begun'
        BY <1>6, <1>a DEF UserLapses, AdminsLapse, Begun, New, instances, User
    <2>3. QED
        BY <2>1, <2>2
<1>7. ASSUME NEW i \in Instances, Stop(i) PROVE Handled
    <2> DEFINE here == {s \in Sockets : socket[s].state # "new" /\ socket[s].at = i}
    <2>1. \A s \in here : ~New(s) /\ User(s) \in Accounts
        BY SocketTypes DEF New
    <2>2. socket' \in [Sockets -> SocketRow]
        <3>1. \A s \in here : [socket[s] EXCEPT !.state = "closed"] \in SocketRow
            BY <2>1, SocketTypes DEF SocketRow
        <3>2. QED
            BY <1>7, <1>a, <3>1 DEF Stop
    <2>3. conn' \in [Sockets -> ConnRow] /\ disc' \in [Sockets -> DiscRow]
        BY <1>7, <1>a DEF Stop, ConnRow, DiscRow, Done
    <2>4. lost' \in SUBSET Accounts /\ halfway' \in SUBSET Accounts
        BY <1>7, <2>1 DEF Stop, PresenceTypeOK, Untimed
    <2>5. PresenceTypeOK'
        BY <1>7, <2>2, <2>3, <2>4 DEF Stop, PresenceTypeOK, presenceKeys, SocketRow, ConnRow, DiscRow
    <2>6. ASSUME NEW s \in Sockets
          PROVE  /\ New(s)' => New(s) /\ conn'[s] = conn[s] /\ disc'[s] = disc[s]
                 /\ conn'[s].pc = "admin" => conn[s].pc = "admin" /\ User(s)' = User(s)
        <3>1. CASE s \in here
            <4>1. socket'[s] = [socket[s] EXCEPT !.state = "closed"] /\ conn'[s] = Done
                BY <1>7, <3>1 DEF Stop
            <4>2. ~New(s)'
                BY <4>1, <2>1, <3>1, SocketTypes DEF New
            <4>3. QED
                BY <4>1, <4>2 DEF Done
        <3>2. CASE s \notin here
            <4>1. socket'[s] = socket[s] /\ conn'[s] = conn[s] /\ disc'[s] = disc[s]
                BY <1>7, <3>2 DEF Stop
            <4>2. QED
                BY <4>1 DEF New, User
        <3>3. QED
            BY <3>1, <3>2
    <2>7. Begun'
        BY <1>7, <1>b, <2>6, BegunKept DEF Stop, presenceKeys
    <2>8. QED
        BY <2>5, <2>7
<1>8. ASSUME NEW i \in Instances, Starting(i) PROVE Handled
    <2>1. CASE Start(i) \/ ListUsers(i) \/ ClearFails(i)
        <3>1. boot' \in [Instances -> BootRow]
            BY <2>1, <1>a DEF Start, ListUsers, ClearFails, BootRow, PresenceTypeOK, Idle
        <3>2. PresenceTypeOK'
            BY <2>1, <3>1, BoundsAssumption DEF Start, ListUsers, ClearFails, PresenceTypeOK, presenceKeys,
                  presenceObserved, BootRow
        <3>3. \A j \in Instances : boot'[j] # Idle => \A s \in boot'[j].keys : ~New(s)
            BY <2>1, <1>a DEF Start, ListUsers, ClearFails, Begun, PresenceTypeOK, Idle, BootRow
        <3>4. Begun'
            BY <2>1, <3>3 DEF Start, ListUsers, ClearFails, Begun, New, User, presenceKeys
        <3>5. QED
            BY <3>2, <3>4
    <2>2. CASE DeleteAll(i)
        <3>1. boot[i] \in [pc: {"del"}, keys: SUBSET Sockets, users: SUBSET Accounts] /\ boot[i] # Idle
            BY <2>2, <1>a DEF DeleteAll, BootRow, Idle
        <3>2. \A s \in boot[i].keys : s \in Sockets /\ User(s) \in Accounts
            BY <3>1, SocketTypes DEF Begun
        <3>3. boot' \in [Instances -> BootRow]
            BY <2>2, <1>a DEF DeleteAll, BootRow
        <3>7. adminsTimed' \in BOOLEAN
            BY Zenon, <2>2 DEF DeleteAll
        <3>8. /\ members' \in [Accounts -> SUBSET Sockets] /\ lost' \in SUBSET Accounts
              /\ keys' \in SUBSET Sockets /\ timed' \in SUBSET Accounts /\ up' \in SUBSET Instances
            BY <2>2, <3>1, <3>2, AdminsAssumption DEF DeleteAll, PresenceTypeOK
        <3>4. PresenceTypeOK'
            BY <2>2, <3>3, <3>7, <3>8 DEF DeleteAll, PresenceTypeOK, BootRow
        <3>5. Begun'
            BY <2>2, <1>a DEF DeleteAll, Begun, New, User
        <3>6. QED
            BY <3>4, <3>5
    <2>3. QED
        BY <1>8, <2>1, <2>2 DEF Starting
<1>9. CASE UNCHANGED presenceVars
    BY <1>9 DEF presenceVars, instances, presenceKeys, presenceObserved, PresenceTypeOK, Begun, New, User
<1> HIDE DEF Handled
<1>10. Handled => PresenceTyped'
    BY DEF Handled
<1>11. QED
    BY <1>1, <1>2, <1>3, <1>4, <1>5, <1>6, <1>7, <1>8, <1>9, <1>10 DEF PresenceNext

THEOREM PresenceTypeCorrect == PresenceSpec => []PresenceTypeOK
<1>1. PresenceSpec => []PresenceTyped
    BY PresenceTypedInit, PresenceTypedStep, PTL DEF PresenceSpec
<1>2. PresenceTyped => PresenceTypeOK
    BY DEF PresenceTyped
<1>3. QED
    BY <1>1, <1>2, PTL

-----------------------------------------------------------------------------
(* What the sets hold                                                      *)

ConnIn(s, pcs) == conn[s].pc \in pcs
DiscIn(s, pcs) == disc[s].pc \in pcs

(* Where a socket stands: its key is written after its handler has been at *)
(* "key", its user's set after "add", by this handler alone; a handler of  *)
(* a closed socket that still runs, or ran when it was closed, is of a     *)
(* ghost, whose user has crossed.                                          *)
Stands(s) ==
    /\ socket[s].state = "open" => disc[s].pc = "idle"
    /\ ConnIn(s, {"idle"}) => New(s)
    /\ ConnIn(s, {"auth", "card", "key"}) => s \notin keys
    /\ ConnIn(s, {"idle", "auth", "card", "key", "add"}) => \A u \in Accounts : s \notin members[u]
    /\ \A u \in Accounts : s \in members[u] => User(s) = u
    /\ ~New(s) /\ socket[s].state = "closed" /\ Running(conn, s) => s \in ghosts
    /\ s \in ghosts => ~New(s) /\ User(s) \in crossed

(* What is stored of a socket whose user's keys were neither cleared nor   *)
(* lapsed: all of it once it was written, and of a closed one nothing but  *)
(* what handleDisconnect is going to remove.                               *)
Faithful(s) ==
    ~New(s) /\ User(s) \notin lost \cup lapsed =>
        /\ socket[s].state = "open" /\ ConnIn(s, {"add", "ttl", "admin", "adminTtl", "tell", "done"}) => s \in keys
        /\ socket[s].state = "open" /\ ConnIn(s, {"ttl", "admin", "adminTtl", "tell", "done"}) => s \in members[User(s)]
        /\ socket[s].state = "closed" /\ s \notin ghosts /\ s \in members[User(s)] =>
               \/ DiscIn(s, {"get"}) /\ s \in keys
               \/ DiscIn(s, {"rem"})

MembersInv == \A s \in Sockets : Stands(s) /\ Faithful(s)

(* The handler of a disconnection that finds, or has found, the key of its *)
(* socket.                                                                 *)
Leaving(s) == DiscIn(s, {"rem", "del", "left", "admin", "tell"}) \/ (DiscIn(s, {"get"}) /\ s \in keys)

Undisturbed(u) == u \notin lost \cup lapsed \cup crossed

(* Of a user undisturbed and not crossed, connections and disconnections   *)
(* run in turn; what was told of him is right, or somebody is about to set *)
(* it right: who found the set empty before he put the first socket in,    *)
(* who took the last one out.                                              *)
Turns(u) ==
    \A s, t \in SocketsOf(u) : ~(Running(conn, s) /\ Leaving(t))

Told(u) ==
    /\ \A s \in SocketsOf(u) : ConnIn(s, {"key", "add"}) /\ ~conn[s].wasOffline => members[u] # {}
    /\ \A s \in SocketsOf(u) : DiscIn(s, {"admin", "tell"}) /\ disc[s].nowOffline => members[u] = {}
    /\ told[u] /\ members[u] = {} => \E s \in SocketsOf(u) :
            DiscIn(s, {"del", "left"}) \/ (DiscIn(s, {"admin", "tell"}) /\ disc[s].nowOffline)
    /\ ~told[u] /\ members[u] # {} => \E s \in SocketsOf(u) :
            ConnIn(s, {"ttl", "admin", "adminTtl", "tell"}) /\ conn[s].wasOffline

Listed(u) ==
    /\ \A s \in SocketsOf(u) : DiscIn(s, {"admin"}) => disc[s].nowOffline
    /\ u \in AdminAccounts /\ u \in admins /\ members[u] = {} => \E s \in SocketsOf(u) :
            DiscIn(s, {"del", "left", "admin"})
    /\ u \in AdminAccounts /\ u \notin admins /\ members[u] # {} => \E s \in SocketsOf(u) :
            ConnIn(s, {"ttl", "admin"})

EventsInv == \A u \in Accounts : Undisturbed(u) => Turns(u) /\ Told(u) /\ Listed(u)

LEMMA MembersInvInit == PresenceInit => MembersInv
BY DEF PresenceInit, MembersInv, Stands, Faithful, New, ConnIn, DiscIn, User, Idle, Running

(* The steps of handleConnection.                                          *)
LEMMA ConnectionKeeps ==
    ASSUME PresenceTyped, PresenceTyped', MembersInv, NEW s \in Sockets, Connection(s), NEW t \in Sockets
    PROVE  Stands(t)' /\ Faithful(t)'
<1>a. /\ conn \in [Sockets -> ConnRow] /\ disc \in [Sockets -> DiscRow]
      /\ members \in [Accounts -> SUBSET Sockets]
    BY DEF PresenceTyped, PresenceTypeOK, ConnRow, DiscRow
<1>b. Stands(s) /\ Faithful(s) /\ Stands(t) /\ Faithful(t)
    BY DEF MembersInv
<1>c. ~New(s) /\ User(s) \in Accounts
    BY SocketTypes DEF Connection, Authenticate, CountSockets, SetSocketKey, AddSocket, SetTtl, AddAdmin, SetAdminsTtl,
       TellOnline, ConnAt, PresenceTyped, Begun
<1>d. /\ conn[s].pc \in {"auth", "card", "key", "add", "ttl", "admin", "adminTtl", "tell"}
      /\ Running(conn, s)
    BY DEF Connection, Authenticate, CountSockets, SetSocketKey, AddSocket, SetTtl, AddAdmin, SetAdminsTtl, TellOnline, ConnAt, Running
<1>1. CASE Authenticate(s)
    <2>1. /\ conn'[s].pc \in {"card", "done"} /\ \A v \in Sockets \ {s} : conn'[v] = conn[v]
          /\ \A v \in Sockets : User(v)' = User(v) /\ (New(v)' <=> New(v))
          /\ \A v \in Sockets \ {s} : socket'[v] = socket[v] /\ disc'[v] = disc[v]
          /\ UNCHANGED <<keys, members, crossed, ghosts, lost, lapsed>>
          /\ conn[s].pc = "auth"
          /\ \/ socket'[s] = socket[s] /\ disc'[s] = disc[s] /\ conn'[s].pc = "card"
             \/ socket'[s].state = "closed" /\ conn'[s].pc = "done"
        BY <1>1, <1>a, <1>c, Closing DEF Authenticate, ConnAt, ConnGoes, presenceKeys, presenceObserved, User,
           New, Done, PresenceTyped, PresenceTypeOK
    <2>2. CASE t = s
        BY <2>1, <2>2, <1>b, <1>c, <1>d DEF Stands, Faithful, ConnIn, DiscIn, Running
    <2>3. CASE t # s
        BY <2>1, <2>3, <1>b, <1>c DEF Stands, Faithful, ConnIn, DiscIn, Running
    <2>4. QED
        BY <2>2, <2>3
<1>2. CASE ~Authenticate(s)
    <2>1. /\ \A v \in Sockets \ {s} : conn'[v] = conn[v]
          /\ \A v \in Sockets : User(v)' = User(v) /\ (New(v)' <=> New(v))
          /\ UNCHANGED <<socket, disc, crossed, ghosts, lost, lapsed>>
        BY <1>2, <1>a DEF Connection, CountSockets, SetSocketKey, AddSocket, SetTtl, AddAdmin, SetAdminsTtl, TellOnline, ConnGoes,
           presenceObserved, User, New
    <2>2. CASE CountSockets(s) \/ SetTtl(s) \/ AddAdmin(s) \/ SetAdminsTtl(s) \/ TellOnline(s)
        <3>1. /\ UNCHANGED <<keys, members>>
              /\ \/ conn[s].pc = "card" /\ conn'[s].pc = "key"
                 \/ /\ conn[s].pc \in {"ttl", "admin", "adminTtl", "tell"}
                    /\ conn'[s].pc \in {"admin", "adminTtl", "tell", "done"}
            <4>1. CASE CountSockets(s) \/ SetTtl(s) \/ TellOnline(s)
                BY <4>1, <1>a, SocketTypes DEF CountSockets, SetTtl, TellOnline, ConnAt, ConnGoes, presenceKeys,
                   Done, PresenceTyped, ConnRow
            <4>2. CASE AddAdmin(s) \/ SetAdminsTtl(s)
                BY <4>2, <1>a, SocketTypes DEF AddAdmin, SetAdminsTtl, ConnAt, ConnGoes, PresenceTyped, ConnRow
            <4>3. QED
                BY <2>2, <4>1, <4>2
        <3>2. QED
            BY <2>1, <3>1, <1>b, <1>c DEF Stands, Faithful, ConnIn, DiscIn, Running
    <2>3. CASE SetSocketKey(s)
        <3>1. conn[s].pc = "key" /\ conn'[s].pc = "add" /\ keys' = keys \cup {s} /\ UNCHANGED members
            BY <2>3, <1>a, SocketTypes DEF SetSocketKey, ConnAt, ConnGoes, PresenceTyped, ConnRow
        <3>2. QED
            BY <2>1, <3>1, <1>b, <1>c DEF Stands, Faithful, ConnIn, DiscIn, Running
    <2>4. CASE AddSocket(s)
        <3>1. /\ conn[s].pc = "add" /\ conn'[s].pc = "ttl" /\ UNCHANGED keys
              /\ members' = [members EXCEPT ![User(s)] = members[User(s)] \cup {s}]
            BY <2>4, <1>a, SocketTypes DEF AddSocket, ConnAt, ConnGoes, PresenceTyped, ConnRow
        <3>2. /\ \A u \in Accounts, v \in Sockets : v \in members'[u] <=> v \in members[u] \/ (v = s /\ u = User(s))
            BY <3>1, <1>a, <1>c
        <3>3. ~New(t) => User(t) \in Accounts
            BY SocketTypes DEF PresenceTyped
        <3>4. CASE t = s
            BY <2>1, <3>1, <3>2, <3>4, <1>b, <1>c DEF Stands, Faithful, ConnIn, DiscIn, Running
        <3>5. CASE t # s
            BY <2>1, <3>1, <3>2, <3>3, <3>5, <1>b, <1>c DEF Stands, Faithful, ConnIn, DiscIn, Running
        <3>6. QED
            BY <3>4, <3>5
    <2>5. QED
        BY <1>2, <2>2, <2>3, <2>4 DEF Connection
<1>3. QED
    BY <1>1, <1>2

(* The socket is opened, or closed by its client.                          *)
LEMMA SocketKeeps ==
    ASSUME PresenceTyped, PresenceTyped', MembersInv, NEW s \in Sockets, NEW t \in Sockets,
           (\E u \in Accounts, i \in Instances : Connect(s, u, i)) \/ Disconnect(s)
    PROVE  Stands(t)' /\ Faithful(t)'
<1>a. /\ conn \in [Sockets -> ConnRow] /\ disc \in [Sockets -> DiscRow]
      /\ socket \in [Sockets -> SocketRow] /\ crossed \in SUBSET Accounts
    BY DEF PresenceTyped, PresenceTypeOK, ConnRow, DiscRow, SocketRow
<1>b. Stands(s) /\ Faithful(s) /\ Stands(t) /\ Faithful(t)
    BY DEF MembersInv
<1>1. ASSUME NEW u \in Accounts, NEW i \in Instances, Connect(s, u, i)
      PROVE  Stands(t)' /\ Faithful(t)'
    <2>1. /\ New(s) /\ conn[s].pc = "idle" /\ disc[s].pc = "idle" /\ s \notin keys
          /\ ~New(s)' /\ socket'[s].state = "open" /\ User(s)' = u /\ conn'[s].pc = "auth"
          /\ \A v \in Sockets \ {s} : conn'[v] = conn[v] /\ socket'[v] = socket[v]
          /\ UNCHANGED <<disc, keys, members, ghosts, lost, lapsed>> /\ crossed \subseteq crossed'
        BY <1>1, <1>a DEF Connect, ConnGoes, New, User, presenceKeys, PresenceTyped, Begun
    <2>2. CASE t = s
        BY <2>1, <2>2, <1>b DEF Stands, Faithful, ConnIn, DiscIn, Running
    <2>3. CASE t # s
        BY <2>1, <2>3, <1>b DEF Stands, Faithful, ConnIn, DiscIn, Running, New, User
    <2>4. QED
        BY <2>2, <2>3
<1>2. ASSUME Disconnect(s) PROVE Stands(t)' /\ Faithful(t)'
    <2>1. ~New(s) /\ socket[s].state = "open" /\ User(s) \in Accounts
        BY <1>2, SocketTypes DEF Disconnect, New, PresenceTyped
    <2>2. /\ socket'[s].state = "closed" /\ disc'[s].pc = "get"
          /\ \A v \in Sockets : User(v)' = User(v) /\ (New(v)' <=> New(v))
          /\ \A v \in Sockets \ {s} : socket'[v] = socket[v] /\ disc'[v] = disc[v]
        BY <1>2, <2>1, Closing DEF Disconnect, PresenceTyped
    <2>3. /\ UNCHANGED <<conn, keys, members, lost, lapsed>> /\ crossed \subseteq crossed'
          /\ ghosts \subseteq ghosts' /\ ghosts' \subseteq ghosts \cup {s}
          /\ s \in ghosts' <=> s \in ghosts \/ Running(conn, s)
          /\ Running(conn, s) => User(s) \in crossed'
        BY <1>2, <2>1 DEF Disconnect, presenceKeys, SocketsOf, New, User
    <2>4. conn[s].pc \in {"auth", "card", "key", "add", "ttl", "admin", "adminTtl", "tell", "done"}
        BY <2>1, <1>b, SocketTypes DEF Stands, ConnIn, PresenceTyped
    <2>5. CASE t = s
        <3>1. Stands(t)'
            BY <2>1, <2>2, <2>3, <2>5, <1>b DEF Stands, ConnIn, DiscIn, Running
        <3>2. Faithful(t)'
            BY <2>1, <2>2, <2>3, <2>4, <2>5, <1>b DEF Stands, Faithful, ConnIn, DiscIn, Running
        <3>3. QED
            BY <3>1, <3>2
    <2>6. CASE t # s
        BY <2>1, <2>2, <2>3, <2>6, <1>b DEF Stands, Faithful, ConnIn, DiscIn, Running
    <2>7. QED
        BY <2>5, <2>6
<1>3. QED
    BY <1>1, <1>2

(* The steps of handleDisconnect.                                          *)
LEMMA DisconnectionKeeps ==
    ASSUME PresenceTyped, PresenceTyped', MembersInv, NEW s \in Sockets, Disconnection(s), NEW t \in Sockets
    PROVE  Stands(t)' /\ Faithful(t)'
<1>a. /\ disc \in [Sockets -> DiscRow] /\ members \in [Accounts -> SUBSET Sockets]
    BY DEF PresenceTyped, PresenceTypeOK, DiscRow
<1>b. Stands(s) /\ Faithful(s) /\ Stands(t) /\ Faithful(t)
    BY DEF MembersInv
<1>c. /\ ~New(s) /\ User(s) \in Accounts /\ socket[s].state = "closed"
    BY <1>b, SocketTypes DEF Disconnection, FindSocket, RemoveSocket, DeleteSocketKey, CountLeft,
       RemoveAdmin, TellOffline, DiscAt, PresenceTyped, Begun, Stands, New
<1>d. /\ \A v \in Sockets \ {s} : disc'[v] = disc[v]
      /\ \A v \in Sockets : User(v)' = User(v) /\ (New(v)' <=> New(v))
      /\ UNCHANGED <<socket, conn, crossed, ghosts, lost, lapsed>>
    BY <1>a DEF Disconnection, FindSocket, RemoveSocket, DeleteSocketKey, CountLeft, RemoveAdmin, TellOffline,
       DiscGoes, presenceObserved, User, New
<1>1. CASE FindSocket(s)
    <2>1. disc[s].pc = "get" /\ (s \in keys => disc'[s].pc = "rem") /\ UNCHANGED <<keys, members>>
        BY <1>1, <1>a DEF FindSocket, DiscAt, DiscGoes, presenceKeys
    <2>2. QED
        BY <2>1, <1>b, <1>c, <1>d DEF Stands, Faithful, ConnIn, DiscIn, Running
<1>2. CASE RemoveSocket(s)
    <2>1. /\ disc[s].pc = "rem" /\ UNCHANGED keys
          /\ members' = [members EXCEPT ![User(s)] = members[User(s)] \ {s}]
        BY <1>2 DEF RemoveSocket, DiscAt
    <2>2. \A u \in Accounts, v \in Sockets : v \in members'[u] <=> v \in members[u] /\ (v = s => u # User(s))
        BY <2>1, <1>a, <1>c
    <2>3. ~New(t) => User(t) \in Accounts
        BY SocketTypes DEF PresenceTyped
    <2>4. QED
        BY <2>1, <2>2, <2>3, <1>b, <1>c, <1>d DEF Stands, Faithful, ConnIn, DiscIn, Running
<1>3. CASE DeleteSocketKey(s)
    <2>1. disc[s].pc = "del" /\ keys' = keys \ {s} /\ UNCHANGED members
        BY <1>3 DEF DeleteSocketKey, DiscAt
    <2>2. QED
        BY <2>1, <1>b, <1>c, <1>d DEF Stands, Faithful, ConnIn, DiscIn, Running
<1>4. CASE CountLeft(s) \/ RemoveAdmin(s) \/ TellOffline(s)
    <2>1. disc[s].pc \in {"left", "admin", "tell"} /\ UNCHANGED <<keys, members>>
        BY <1>4 DEF CountLeft, RemoveAdmin, TellOffline, DiscAt, presenceKeys
    <2>2. QED
        BY <2>1, <1>b, <1>c, <1>d DEF Stands, Faithful, ConnIn, DiscIn, Running
<1>5. QED
    BY <1>1, <1>2, <1>3, <1>4 DEF Disconnection

(* Faults, times to live and starts touch no user but those they record.   *)
LEMMA FaultKeeps ==
    ASSUME PresenceTyped, PresenceTyped', MembersInv, NEW t \in Sockets,
           \/ \E s \in Sockets : HandlerFails(s) \/ KeyLapses(s)
           \/ \E u \in Accounts : UserLapses(u)
           \/ AdminsLapse
           \/ \E i \in Instances : Stop(i) \/ Starting(i)
    PROVE  Stands(t)' /\ Faithful(t)'
<1>a. /\ conn \in [Sockets -> ConnRow] /\ disc \in [Sockets -> DiscRow]
      /\ socket \in [Sockets -> SocketRow] /\ boot \in [Instances -> BootRow]
      /\ members \in [Accounts -> SUBSET Sockets]
    BY DEF PresenceTyped, PresenceTypeOK, ConnRow, DiscRow, SocketRow, BootRow
<1>b. Stands(t) /\ Faithful(t) /\ (~New(t) => User(t) \in Accounts)
    BY SocketTypes DEF MembersInv, PresenceTyped
<1>1. ASSUME NEW s \in Sockets, HandlerFails(s) PROVE Stands(t)' /\ Faithful(t)'
    <2>1. /\ UNCHANGED <<socket, keys, members, crossed, ghosts, lapsed>>
          /\ lost' = lost \cup {User(s)} /\ User(t)' = User(t) /\ (New(t)' <=> New(t))
          /\ t # s => conn'[t] = conn[t] /\ disc'[t] = disc[t]
        BY <1>1, <1>a DEF HandlerFails, ConnGoes, DiscGoes, presenceKeys, User, New
    <2>2. CASE t = s
        <3>1. ~New(s)
            BY <1>1 DEF HandlerFails, Running, PresenceTyped, Begun
        <3>2. \/ conn'[s].pc = "done" /\ disc'[s] = disc[s] /\ Running(conn, s)
              \/ conn'[s] = conn[s] /\ disc'[s].pc = "done" /\ Running(disc, s)
            BY <1>1, <1>a DEF HandlerFails, ConnGoes, DiscGoes, Done
        <3>3. QED
            BY <2>1, <2>2, <3>1, <3>2, <1>b DEF Stands, Faithful, ConnIn, DiscIn, Running
    <2>3. CASE t # s
        BY <2>1, <2>3, <1>b DEF Stands, Faithful, ConnIn, DiscIn, Running
    <2>4. QED
        BY <2>2, <2>3
<1>2. ASSUME NEW s \in Sockets, KeyLapses(s) PROVE Stands(t)' /\ Faithful(t)'
    <2>1. /\ UNCHANGED <<socket, conn, disc, members, crossed, ghosts, lost>>
          /\ keys' = keys \ {s} /\ lapsed' = lapsed \cup {User(s)}
          /\ User(t)' = User(t) /\ (New(t)' <=> New(t))
        BY <1>2 DEF KeyLapses, User, New
    <2>2. QED
        BY <2>1, <1>b DEF Stands, Faithful, ConnIn, DiscIn, Running
<1>3. ASSUME NEW u \in Accounts, UserLapses(u) PROVE Stands(t)' /\ Faithful(t)'
    <2>1. /\ UNCHANGED <<socket, conn, disc, keys, crossed, ghosts, lost>>
          /\ members' = [members EXCEPT ![u] = {}] /\ lapsed' = lapsed \cup {u}
          /\ User(t)' = User(t) /\ (New(t)' <=> New(t))
        BY <1>3 DEF UserLapses, User, New
    <2>2. /\ \A v \in Accounts : members'[v] \subseteq members[v]
          /\ \A v \in Accounts \ {u} : members'[v] = members[v]
        BY <2>1, <1>a
    <2>3. QED
        BY <2>1, <2>2, <1>b DEF Stands, Faithful, ConnIn, DiscIn, Running
<1>4. ASSUME \/ AdminsLapse
             \/ \E i \in Instances : Start(i) \/ ListUsers(i) \/ ClearFails(i)
      PROVE  Stands(t)' /\ Faithful(t)'
    <2>1. /\ UNCHANGED <<socket, conn, disc, keys, members, crossed, ghosts, lost>>
          /\ lapsed \subseteq lapsed' /\ User(t)' = User(t) /\ (New(t)' <=> New(t))
        BY <1>4 DEF AdminsLapse, Start, ListUsers, ClearFails, presenceKeys, presenceObserved, User, New
    <2>2. QED
        BY <2>1, <1>b DEF Stands, Faithful, ConnIn, DiscIn, Running
<1>5. ASSUME NEW i \in Instances, Stop(i) PROVE Stands(t)' /\ Faithful(t)'
    <2> DEFINE here == {s \in Sockets : socket[s].state # "new" /\ socket[s].at = i}
    <2>1. /\ UNCHANGED <<keys, members, crossed, ghosts, lapsed>> /\ lost \subseteq lost'
          /\ t \in here /\ (socket[t].state = "open" \/ Running(conn, t) \/ Running(disc, t))
                => User(t) \in lost'
        BY <1>5 DEF Stop, presenceKeys
    <2>2. CASE t \in here
        <3>1. /\ socket'[t] = [socket[t] EXCEPT !.state = "closed"]
              /\ conn'[t].pc = "done" /\ disc'[t].pc = "done" /\ ~New(t)
            BY <1>5, <2>2 DEF Stop, Done, New
        <3>2. PICK r \in [state: {"open", "closed"}, user: Accounts, at: Instances] : socket[t] = r
            BY <3>1, SocketTypes DEF PresenceTyped
        <3>3. [r EXCEPT !.state = "closed"].state = "closed" /\ [r EXCEPT !.state = "closed"].user = r.user
            OBVIOUS
        <3>4. User(t)' = User(t) /\ ~New(t)' /\ socket'[t].state = "closed"
            BY <3>1, <3>2, <3>3 DEF User, New
        <3>5. Stands(t)'
            BY <2>1, <3>1, <3>4, <1>b DEF Stands, ConnIn, DiscIn, Running
        <3>6. socket[t].state \in {"open", "closed"}
            BY <3>2
        <3>7. Faithful(t)'
            BY <2>1, <2>2, <3>1, <3>4, <3>6, <1>b DEF Faithful, ConnIn, DiscIn, Running
        <3>8. QED
            BY <3>5, <3>7
    <2>3. CASE t \notin here
        <3>1. socket'[t] = socket[t] /\ conn'[t] = conn[t] /\ disc'[t] = disc[t]
            BY <1>5, <2>3 DEF Stop
        <3>2. User(t)' = User(t) /\ (New(t)' <=> New(t))
            BY <3>1 DEF User, New
        <3>3. QED
            BY <2>1, <3>1, <3>2, <1>b DEF Stands, Faithful, ConnIn, DiscIn, Running
    <2>4. QED
        BY <2>2, <2>3
<1>6. ASSUME NEW i \in Instances, DeleteAll(i) PROVE Stands(t)' /\ Faithful(t)'
    <2>1. /\ UNCHANGED <<socket, conn, disc, crossed, ghosts, lapsed>> /\ lost \subseteq lost'
          /\ keys' = keys \ boot[i].keys
          /\ members' = [u \in Accounts |-> IF u \in boot[i].users THEN {} ELSE members[u]]
          /\ boot[i].users \subseteq lost' /\ \A s \in boot[i].keys : User(s) \in lost'
          /\ User(t)' = User(t) /\ (New(t)' <=> New(t))
        BY <1>6 DEF DeleteAll, User, New
    <2>2. \A v \in Accounts : members'[v] \subseteq members[v] /\ (v \notin lost' => members'[v] = members[v])
        BY <2>1
    <2>3. t \in keys' => t \in keys
        BY <2>1
    <2>4. User(t) \notin lost' => (t \in keys' <=> t \in keys)
        BY <2>1
    <2>5. Stands(t)'
        BY <2>1, <2>2, <2>3, <1>b DEF Stands, ConnIn, DiscIn, Running
    <2>6. Faithful(t)'
        BY <2>1, <2>2, <2>4, <1>b DEF Faithful, ConnIn, DiscIn, Running
    <2>7. QED
        BY <2>5, <2>6
<1>7. QED
    BY <1>1, <1>2, <1>3, <1>4, <1>5, <1>6 DEF Starting

LEMMA MembersInvStep ==
    PresenceTyped /\ PresenceTyped' /\ MembersInv /\ [PresenceNext]_presenceVars => MembersInv'
<1> SUFFICES ASSUME PresenceTyped, PresenceTyped', MembersInv, [PresenceNext]_presenceVars, NEW t \in Sockets
             PROVE  Stands(t)' /\ Faithful(t)'
    BY DEF MembersInv
<1> DEFINE Goal == Stands(t)' /\ Faithful(t)'
<1>1. ASSUME NEW s \in Sockets, Connection(s) PROVE Goal
    BY <1>1, ConnectionKeeps
<1>2. ASSUME NEW s \in Sockets, (\E u \in Accounts, i \in Instances : Connect(s, u, i)) \/ Disconnect(s)
      PROVE  Goal
    BY <1>2, SocketKeeps
<1>3. ASSUME NEW s \in Sockets, Disconnection(s) PROVE Goal
    BY <1>3, DisconnectionKeeps
<1>4. ASSUME \/ \E s \in Sockets : HandlerFails(s) \/ KeyLapses(s)
             \/ \E u \in Accounts : UserLapses(u)
             \/ AdminsLapse
             \/ \E i \in Instances : Stop(i) \/ Starting(i)
      PROVE  Goal
    BY <1>4, FaultKeeps
<1>5. ASSUME UNCHANGED presenceVars PROVE Goal
    BY <1>5 DEF presenceVars, instances, presenceKeys, presenceObserved, MembersInv, Stands, Faithful, New,
       User, ConnIn, DiscIn, Running
<1> HIDE DEF Goal
<1>6. Goal
    BY Zenon, <1>1, <1>2, <1>3, <1>4, <1>5 DEF PresenceNext
<1>7. QED
    BY <1>6 DEF Goal

LEMMA MembersInvExact == PresenceTyped /\ MembersInv => MembersExact
<1> SUFFICES ASSUME PresenceTyped, MembersInv, NEW u \in Accounts \ (lost \cup lapsed), Settled(u)
             PROVE  /\ Open(u) \subseteq members[u] /\ members[u] \subseteq Open(u) \cup ghosts
    BY DEF MembersExact
<1>1. ASSUME NEW s \in Open(u) PROVE s \in members[u]
    <2>1. s \in Sockets /\ User(s) = u /\ socket[s].state = "open" /\ ~New(s) /\ s \in SocketsOf(u)
        BY DEF Open, User, New, SocketsOf
    <2>2. Stands(s) /\ Faithful(s) /\ ~Running(conn, s)
        BY <2>1 DEF MembersInv, Settled
    <2>3. ConnIn(s, {"done"})
        BY <2>1, <2>2, SocketTypes DEF Stands, Running, ConnIn, PresenceTyped
    <2>4. QED
        BY <2>1, <2>2, <2>3 DEF Faithful, ConnIn
<1>2. ASSUME NEW s \in members[u], s \notin ghosts PROVE s \in Open(u)
    <2>1. s \in Sockets /\ Stands(s) /\ Faithful(s)
        BY DEF MembersInv, PresenceTyped, PresenceTypeOK
    <2>2. User(s) = u /\ ~New(s)
        BY <2>1 DEF Stands, PresenceTyped, Begun, ConnIn
    <2>3. ~Running(disc, s)
        BY <2>1, <2>2 DEF Settled, SocketsOf, User, New
    <2>4. socket[s].state # "closed"
        BY <1>2, <2>1, <2>2, <2>3 DEF Faithful, DiscIn, Running
    <2>5. socket[s].state = "open"
        BY <2>1, <2>2, <2>4, SocketTypes DEF PresenceTyped
    <2>6. QED
        BY <2>1, <2>2, <2>5 DEF Open, User
<1>3. QED
    BY <1>1, <1>2

(* Whatever the order in which the handlers of several sockets ran, the    *)
(* set of a user whose keys were neither cleared nor lapsed lists the      *)
(* sockets he has open, and no other but ghosts (MembersExact).            *)
THEOREM MembersAreExact == PresenceSpec => []MembersExact
<1>2. PresenceTyped /\ MembersInv /\ [PresenceNext]_presenceVars => PresenceTyped' /\ MembersInv'
    BY PresenceTypedStep, MembersInvStep
<1>3. PresenceSpec => [](PresenceTyped /\ MembersInv)
    BY <1>2, PresenceTypedInit, MembersInvInit, PTL DEF PresenceSpec
<1>4. QED
    BY MembersInvExact, <1>3, PTL

-----------------------------------------------------------------------------
(* What was told                                                           *)

LEMMA EventsInvInit == PresenceInit => EventsInv
BY DEF PresenceInit, EventsInv, Turns, Told, Listed, SocketsOf

OneTurn(u) == Turns(u) /\ Told(u) /\ Listed(u)

(* The steps of sockets of others change nothing for a user.               *)
LEMMA Apart ==
    ASSUME NEW u \in Accounts, OneTurn(u), SocketsOf(u)' = SocketsOf(u),
           \A t \in SocketsOf(u) : conn'[t] = conn[t] /\ disc'[t] = disc[t] /\ (t \in keys' <=> t \in keys),
           members'[u] = members[u], told'[u] = told[u],
           u \in AdminAccounts => (u \in admins' <=> u \in admins)
    PROVE  OneTurn(u)'
BY DEF OneTurn, Turns, Told, Listed, Running, Leaving, ConnIn, DiscIn

(* The handler of a connection of a user who has not crossed runs for an   *)
(* open socket, that of a disconnection for a closed one.                  *)
LEMMA InTurn ==
    ASSUME PresenceTyped, MembersInv, NEW u \in Accounts, Undisturbed(u), NEW s \in SocketsOf(u)
    PROVE  /\ s \in Sockets /\ ~New(s) /\ User(s) = u /\ s \notin ghosts
           /\ Running(conn, s) => socket[s].state = "open" /\ disc[s].pc = "idle"
           /\ ConnIn(s, {"ttl", "admin", "adminTtl", "tell"}) => s \in members[u]
<1>1. s \in Sockets /\ ~New(s) /\ User(s) = u
    BY DEF SocketsOf, New, User
<1>2. Stands(s) /\ Faithful(s)
    BY <1>1 DEF MembersInv
<1>3. s \notin ghosts
    BY <1>1, <1>2 DEF Stands, Undisturbed
<1>4. Running(conn, s) => socket[s].state = "open" /\ disc[s].pc = "idle"
    BY <1>1, <1>2, <1>3, SocketTypes DEF Stands, PresenceTyped, New
<1>5. ConnIn(s, {"ttl", "admin", "adminTtl", "tell"}) => s \in members[u]
    BY <1>1, <1>2, <1>4 DEF Faithful, Undisturbed, ConnIn, Running
<1>6. QED
    BY <1>1, <1>3, <1>4, <1>5

LEMMA CountedFields ==
    /\ \A p, b, r : r = [pc |-> p, wasOffline |-> b] => r.pc = p /\ r.wasOffline = b
    /\ \A p, b, r : r = [pc |-> p, nowOffline |-> b] => r.pc = p /\ r.nowOffline = b
OBVIOUS

LEMMA ConnectionTold ==
    ASSUME PresenceTyped, PresenceTyped', MembersInv, NEW s \in Sockets, Connection(s),
           NEW u \in Accounts, Undisturbed(u), OneTurn(u)
    PROVE  OneTurn(u)'
<1>a. /\ conn \in [Sockets -> ConnRow] /\ disc \in [Sockets -> DiscRow]
      /\ members \in [Accounts -> SUBSET Sockets] /\ told \in [Accounts -> BOOLEAN]
    BY DEF PresenceTyped, PresenceTypeOK, ConnRow, DiscRow
<1>b. /\ ~New(s) /\ User(s) \in Accounts /\ Running(conn, s) /\ s \in SocketsOf(User(s))
    BY SocketTypes DEF Connection, Authenticate, CountSockets, SetSocketKey, AddSocket, SetTtl, AddAdmin, SetAdminsTtl,
       TellOnline, ConnAt, PresenceTyped, Begun, SocketsOf, User, New, Running
<1>c. /\ SocketsOf(u)' = SocketsOf(u)
      /\ \A v \in Sockets \ {s} : conn'[v] = conn[v] /\ disc'[v] = disc[v] /\ (v \in keys' <=> v \in keys)
    <2>1. CASE Authenticate(s)
        BY <2>1, <1>a, <1>b, Closing DEF Authenticate, ConnGoes, SocketsOf, User, New, presenceKeys, PresenceTyped
    <2>2. CASE ~Authenticate(s)
        BY <2>2, <1>a DEF Connection, CountSockets, SetSocketKey, AddSocket, SetTtl, AddAdmin, SetAdminsTtl, TellOnline, ConnGoes,
           presenceKeys, SocketsOf
    <2>3. QED
        BY <2>1, <2>2
<1>1. CASE u # User(s)
    <2>1. s \notin SocketsOf(u)
        BY <1>1 DEF SocketsOf, User
    <2>2. /\ members'[u] = members[u] /\ told'[u] = told[u]
          /\ u \in AdminAccounts => (u \in admins' <=> u \in admins)
        BY <1>1, <1>a, <1>b DEF Connection, Authenticate, CountSockets, SetSocketKey, AddSocket, SetTtl, AddAdmin, SetAdminsTtl,
           TellOnline, presenceKeys, presenceObserved
    <2>3. SocketsOf(u) \subseteq Sockets
        BY DEF SocketsOf
    <2>4. QED
        BY <1>c, <2>1, <2>2, <2>3, Apart
<1>2. CASE u = User(s)
    <2>a. PICK P \in SUBSET Sockets : P = SocketsOf(u) /\ s \in P
        BY <1>2, <1>b DEF SocketsOf
    <2>b. P = SocketsOf(u)'
        BY <1>c, <2>a
    <2>c. /\ socket[s].state = "open" /\ disc[s].pc = "idle"
          /\ ConnIn(s, {"ttl", "admin", "adminTtl", "tell"}) => s \in members[u]
        BY <1>2, <1>b, InTurn
    <2>1. CASE Authenticate(s)
        <3>1. /\ conn[s].pc = "auth" /\ conn'[s].pc \in {"card", "done"} /\ disc'[s].pc \in {"idle", "get"}
              /\ UNCHANGED <<keys, members, admins, told>> /\ s \notin keys
            BY <2>1, <1>a, <1>b, <2>c, Closing DEF Authenticate, ConnAt, ConnGoes, Done, presenceKeys,
               presenceObserved, PresenceTyped, MembersInv, Stands, ConnIn
        <3>2. QED
            BY <3>1, <1>c, <2>a, <2>b, <2>c DEF OneTurn, Turns, Told, Listed, Running, Leaving, ConnIn, DiscIn
    <2>2. CASE CountSockets(s)
        <3>0. PICK b : b = (members[u] = {})
            OBVIOUS
        <3>1. /\ conn[s].pc = "card" /\ conn'[s] = [pc |-> "key", wasOffline |-> b]
              /\ UNCHANGED <<keys, members, admins, told, disc>>
            BY <2>2, <1>2, <1>a, <3>0 DEF CountSockets, ConnAt, ConnGoes, presenceKeys, presenceObserved
        <3>4. conn'[s].pc = "key" /\ conn'[s].wasOffline = b
            BY <3>1, CountedFields
        <3>2. ~conn'[s].wasOffline => members[u] # {}
            BY <3>0, <3>4
        <3>3. QED
            BY <3>1, <3>2, <3>4, <1>c, <2>a, <2>b, <2>c DEF OneTurn, Turns, Told, Listed, Running, Leaving, ConnIn, DiscIn
    <2>3. CASE SetSocketKey(s)
        <3>1. /\ conn[s].pc = "key" /\ conn'[s].pc = "add" /\ conn'[s].wasOffline = conn[s].wasOffline
              /\ UNCHANGED <<members, admins, told, disc>>
            BY <2>3, <1>a, SocketTypes DEF SetSocketKey, ConnAt, ConnGoes, presenceObserved, PresenceTyped, ConnRow
        <3>2. QED
            BY <3>1, <1>c, <2>a, <2>b, <2>c DEF OneTurn, Turns, Told, Listed, Running, Leaving, ConnIn, DiscIn
    <2>8. CASE SetTtl(s)
        <3>1. /\ conn[s].pc = "ttl" /\ conn'[s].wasOffline = conn[s].wasOffline
              /\ conn'[s].pc = IF u \in AdminAccounts THEN "admin" ELSE "tell"
              /\ UNCHANGED <<keys, members, admins, told, disc>>
            BY <2>8, <1>2, <1>a, SocketTypes DEF SetTtl, ConnAt, ConnGoes, PresenceTyped, ConnRow
        <3>2. QED
            BY <3>1, <1>c, <2>a, <2>b, <2>c DEF OneTurn, Turns, Told, Listed, Running, Leaving, ConnIn, DiscIn
    <2>9. CASE SetAdminsTtl(s)
        <3>1. /\ conn[s].pc = "adminTtl" /\ conn'[s].wasOffline = conn[s].wasOffline /\ conn'[s].pc = "tell"
              /\ UNCHANGED <<keys, members, admins, told, disc>>
            BY <2>9, <1>2, <1>a, SocketTypes DEF SetAdminsTtl, ConnAt, ConnGoes, presenceObserved, PresenceTyped,
               ConnRow
        <3>2. QED
            BY <3>1, <1>c, <2>a, <2>b, <2>c DEF OneTurn, Turns, Told, Listed, Running, Leaving, ConnIn, DiscIn
    <2>4. CASE AddSocket(s)
        <3>1. /\ conn[s].pc = "add" /\ conn'[s].wasOffline = conn[s].wasOffline
              /\ conn'[s].pc = "ttl"
              /\ UNCHANGED <<keys, admins, told, disc>>
            BY <2>4, <1>2, <1>a, SocketTypes DEF AddSocket, ConnAt, ConnGoes, presenceObserved, PresenceTyped, ConnRow
        <3>2. members'[u] # {}
            BY <2>4, <1>2, <1>a DEF AddSocket
        <3>3. QED
            BY <3>1, <3>2, <1>c, <2>a, <2>b, <2>c DEF OneTurn, Turns, Told, Listed, Running, Leaving, ConnIn, DiscIn
    <2>5. CASE AddAdmin(s)
        <3>1. /\ conn[s].pc = "admin" /\ conn'[s].wasOffline = conn[s].wasOffline /\ conn'[s].pc = "adminTtl"
              /\ UNCHANGED <<keys, members, told, disc>> /\ u \in admins'
            BY <2>5, <1>2, <1>a, SocketTypes DEF AddAdmin, ConnAt, ConnGoes, presenceObserved, PresenceTyped, ConnRow
        <3>2. members[u] # {}
            BY <3>1, <2>c DEF ConnIn
        <3>3. QED
            BY <3>1, <3>2, <1>c, <2>a, <2>b, <2>c DEF OneTurn, Turns, Told, Listed, Running, Leaving, ConnIn, DiscIn
    <2>6. CASE TellOnline(s)
        <3>1. /\ conn[s].pc = "tell" /\ conn'[s].pc = "done"
              /\ UNCHANGED <<keys, members, admins, disc>> /\ (told'[u] <=> told[u] \/ conn[s].wasOffline)
            BY <2>6, <1>2, <1>a DEF TellOnline, ConnAt, ConnGoes, presenceKeys, Done
        <3>2. members[u] # {}
            BY <3>1, <2>c DEF ConnIn
        <3>3. QED
            BY <3>1, <3>2, <1>c, <2>a, <2>b, <2>c DEF OneTurn, Turns, Told, Listed, Running, Leaving, ConnIn, DiscIn
    <2>7. QED
        BY <2>1, <2>2, <2>3, <2>4, <2>5, <2>6, <2>8, <2>9 DEF Connection
<1>3. QED
    BY <1>1, <1>2

LEMMA DisconnectionTold ==
    ASSUME PresenceTyped, PresenceTyped', MembersInv, NEW s \in Sockets, Disconnection(s),
           NEW u \in Accounts, Undisturbed(u), OneTurn(u)
    PROVE  OneTurn(u)'
<1>a. /\ disc \in [Sockets -> DiscRow] /\ members \in [Accounts -> SUBSET Sockets]
      /\ told \in [Accounts -> BOOLEAN]
    BY DEF PresenceTyped, PresenceTypeOK, DiscRow
<1>b. /\ ~New(s) /\ User(s) \in Accounts /\ s \in SocketsOf(User(s))
    BY SocketTypes DEF Disconnection, FindSocket, RemoveSocket, DeleteSocketKey, CountLeft, RemoveAdmin,
       TellOffline, DiscAt, PresenceTyped, Begun, SocketsOf, User, New
<1>c. /\ SocketsOf(u)' = SocketsOf(u) /\ UNCHANGED conn
      /\ \A v \in Sockets \ {s} : disc'[v] = disc[v] /\ (v \in keys' <=> v \in keys)
    BY <1>a DEF Disconnection, FindSocket, RemoveSocket, DeleteSocketKey, CountLeft, RemoveAdmin, TellOffline,
       DiscGoes, presenceKeys, SocketsOf
<1>1. CASE u # User(s)
    <2>1. s \notin SocketsOf(u)
        BY <1>1 DEF SocketsOf, User
    <2>2. /\ members'[u] = members[u] /\ told'[u] = told[u]
          /\ u \in AdminAccounts => (u \in admins' <=> u \in admins)
        BY <1>1, <1>a, <1>b DEF Disconnection, FindSocket, RemoveSocket, DeleteSocketKey, CountLeft,
           RemoveAdmin, TellOffline, presenceKeys, presenceObserved
    <2>3. SocketsOf(u) \subseteq Sockets
        BY DEF SocketsOf
    <2>4. QED
        BY <1>c, <2>1, <2>2, <2>3, Apart
<1>2. CASE u = User(s)
    <2>a. PICK P \in SUBSET Sockets : P = SocketsOf(u) /\ s \in P
        BY <1>2, <1>b DEF SocketsOf
    <2>b. P = SocketsOf(u)'
        BY <1>c, <2>a
    <2>1. CASE FindSocket(s)
        <3>1. /\ disc[s].pc = "get" /\ disc'[s].pc \in {"rem", "done"} /\ (disc'[s].pc = "rem" => s \in keys)
              /\ UNCHANGED <<keys, members, admins, told>>
            BY <2>1, <1>a DEF FindSocket, DiscAt, DiscGoes, Done, presenceKeys, presenceObserved
        <3>2. QED
            BY <3>1, <1>c, <2>a, <2>b DEF OneTurn, Turns, Told, Listed, Running, Leaving, ConnIn, DiscIn
    <2>2. CASE RemoveSocket(s)
        <3>1. /\ disc[s].pc = "rem" /\ disc'[s].pc = "del" /\ UNCHANGED <<keys, admins, told>>
              /\ members'[u] \subseteq members[u]
            BY <2>2, <1>2, <1>a DEF RemoveSocket, DiscAt, DiscGoes, presenceObserved
        <3>2. \A t \in P : ~Running(conn, t)
            BY <3>1, <2>a DEF OneTurn, Turns, Leaving, DiscIn
        <3>3. QED
            BY <3>1, <3>2, <1>c, <2>a, <2>b DEF OneTurn, Turns, Told, Listed, Running, Leaving, ConnIn, DiscIn
    <2>3. CASE DeleteSocketKey(s)
        <3>1. /\ disc[s].pc = "del" /\ disc'[s].pc = "left" /\ UNCHANGED <<members, admins, told>>
            BY <2>3, <1>a DEF DeleteSocketKey, DiscAt, DiscGoes, presenceObserved
        <3>2. QED
            BY <3>1, <1>c, <2>a, <2>b DEF OneTurn, Turns, Told, Listed, Running, Leaving, ConnIn, DiscIn
    <2>4. CASE CountLeft(s)
        <3>1. PICK b : b = (members[u] = {})
            OBVIOUS
        <3>2. /\ disc[s].pc = "left" /\ UNCHANGED <<keys, members, admins, told>>
              /\ disc'[s] = [pc |-> IF u \in AdminAccounts /\ b THEN "admin" ELSE "tell", nowOffline |-> b]
            BY <2>4, <1>2, <1>a, <3>1 DEF CountLeft, DiscAt, DiscGoes, presenceKeys, presenceObserved
        <3>7. /\ disc'[s].pc = IF u \in AdminAccounts /\ b THEN "admin" ELSE "tell"
              /\ disc'[s].nowOffline = b
            <4>1. PICK p \in {"admin", "tell"} : p = IF u \in AdminAccounts /\ b THEN "admin" ELSE "tell"
                OBVIOUS
            <4>2. disc'[s] = [pc |-> p, nowOffline |-> b]
                BY <3>2, <4>1
            <4>3. disc'[s].pc = p /\ disc'[s].nowOffline = b
                BY <4>2, CountedFields
            <4>4. QED
                BY <4>1, <4>3
        <3>3. /\ disc'[s].pc = IF u \in AdminAccounts /\ b THEN "admin" ELSE "tell"
              /\ disc'[s].nowOffline <=> members[u] = {}
            BY <3>1, <3>7
        <3>4. disc'[s].pc = "admin" <=> u \in AdminAccounts /\ members[u] = {}
            BY <3>1, <3>3
        <3>5. disc'[s].pc \in {"admin", "tell"}
            BY <3>3
        <3>6. QED
            BY <3>2, <3>3, <3>4, <3>5, <1>c, <2>a, <2>b DEF OneTurn, Turns, Told, Listed, Running, Leaving,
               ConnIn, DiscIn
    <2>5. CASE RemoveAdmin(s)
        <3>1. /\ disc[s].pc = "admin" /\ disc'[s].nowOffline = disc[s].nowOffline /\ disc'[s].pc = "tell"
              /\ UNCHANGED <<keys, members, told>> /\ u \notin admins'
            BY <2>5, <1>2, <1>a, SocketTypes DEF RemoveAdmin, DiscAt, DiscGoes, presenceObserved, PresenceTyped, DiscRow
        <3>2. members[u] = {}
            BY <3>1, <2>a DEF OneTurn, Told, Listed, DiscIn
        <3>3. QED
            BY <3>1, <3>2, <1>c, <2>a, <2>b DEF OneTurn, Turns, Told, Listed, Running, Leaving, ConnIn, DiscIn
    <2>6. CASE TellOffline(s)
        <3>1. /\ disc[s].pc = "tell" /\ disc'[s].pc = "done"
              /\ UNCHANGED <<keys, members, admins>> /\ (told'[u] <=> told[u] /\ ~disc[s].nowOffline)
            BY <2>6, <1>2, <1>a DEF TellOffline, DiscAt, DiscGoes, presenceKeys, Done
        <3>2. disc[s].nowOffline => members[u] = {}
            BY <3>1, <2>a DEF OneTurn, Told, DiscIn
        <3>3. QED
            BY <3>1, <3>2, <1>c, <2>a, <2>b DEF OneTurn, Turns, Told, Listed, Running, Leaving, ConnIn, DiscIn
    <2>7. QED
        BY <2>1, <2>2, <2>3, <2>4, <2>5, <2>6 DEF Disconnection
<1>3. QED
    BY <1>1, <1>2

LEMMA SocketTold ==
    ASSUME PresenceTyped, PresenceTyped', MembersInv, NEW s \in Sockets,
           (\E v \in Accounts, i \in Instances : Connect(s, v, i)) \/ Disconnect(s),
           NEW u \in Accounts, Undisturbed(u), Undisturbed(u)', OneTurn(u)
    PROVE  OneTurn(u)'
<1>a. /\ conn \in [Sockets -> ConnRow] /\ socket \in [Sockets -> SocketRow]
    BY DEF PresenceTyped, PresenceTypeOK, ConnRow, SocketRow
<1>1. ASSUME NEW v \in Accounts, NEW i \in Instances, Connect(s, v, i) PROVE OneTurn(u)'
    <2>1. /\ New(s) /\ disc[s].pc = "idle" /\ conn'[s].pc = "auth" /\ s \notin SocketsOf(u)
          /\ \A t \in Sockets \ {s} : conn'[t] = conn[t]
          /\ SocketsOf(u)' = SocketsOf(u) \cup {t \in {s} : v = u}
          /\ UNCHANGED <<disc, keys, members, admins, told>>
        BY <1>1, <1>a DEF Connect, ConnGoes, New, presenceKeys, PresenceTyped, Begun, SocketsOf
    <2>2. CASE u # v
        BY <2>1, <2>2, Apart DEF SocketsOf
    <2>3. CASE u = v
        <3>1. \A t \in SocketsOf(u) : ~Running(disc, t)
            BY <1>1, <2>3 DEF Connect, Undisturbed
        <3>2. \A t \in SocketsOf(u) : ~Leaving(t)
            BY <3>1 DEF Running, Leaving, DiscIn
        <3>3. PICK P \in SUBSET Sockets : P = SocketsOf(u) /\ s \notin P
            BY <2>1 DEF SocketsOf
        <3>4. SocketsOf(u)' = P \cup {s}
            BY <2>1, <2>3, <3>3
        <3>5. QED
            BY <2>1, <3>2, <3>3, <3>4 DEF OneTurn, Turns, Told, Listed, Running, Leaving, ConnIn, DiscIn
    <2>4. QED
        BY <2>2, <2>3
<1>2. ASSUME Disconnect(s) PROVE OneTurn(u)'
    <2>1. ~New(s) /\ socket[s].state = "open"
        BY <1>2 DEF Disconnect, New
    <2>2. disc[s].pc = "idle"
        BY <2>1 DEF MembersInv, Stands
    <2>3. /\ disc'[s].pc = "get" /\ \A t \in Sockets \ {s} : disc'[t] = disc[t]
          /\ SocketsOf(u)' = SocketsOf(u) /\ UNCHANGED <<conn, keys, members, admins, told>>
        BY <1>2, <2>1, Closing DEF Disconnect, SocketsOf, User, New, presenceKeys, PresenceTyped
    <2>4. CASE u # User(s)
        BY <2>3, <2>4, Apart DEF SocketsOf, User
    <2>5. CASE u = User(s)
        <3>1. \A t \in SocketsOf(u) : ~Running(conn, t)
            BY <1>2, <2>5 DEF Disconnect, Undisturbed
        <3>2. PICK P \in SUBSET Sockets : P = SocketsOf(u) /\ P = SocketsOf(u)'
            BY <2>3 DEF SocketsOf
        <3>3. QED
            BY <2>2, <2>3, <3>1, <3>2 DEF OneTurn, Turns, Told, Listed, Running, Leaving, ConnIn, DiscIn
    <2>6. QED
        BY <2>4, <2>5
<1>3. QED
    BY <1>1, <1>2

LEMMA FaultTold ==
    ASSUME PresenceTyped, PresenceTyped', MembersInv,
           \/ \E s \in Sockets : HandlerFails(s) \/ KeyLapses(s)
           \/ \E v \in Accounts : UserLapses(v)
           \/ AdminsLapse
           \/ \E i \in Instances : Stop(i) \/ Starting(i),
           NEW u \in Accounts, Undisturbed(u), Undisturbed(u)', OneTurn(u)
    PROVE  OneTurn(u)'
<1>a. /\ conn \in [Sockets -> ConnRow] /\ disc \in [Sockets -> DiscRow]
      /\ socket \in [Sockets -> SocketRow] /\ members \in [Accounts -> SUBSET Sockets]
    BY DEF PresenceTyped, PresenceTypeOK, ConnRow, DiscRow, SocketRow
<1>1. ASSUME NEW s \in Sockets, HandlerFails(s) \/ KeyLapses(s) PROVE OneTurn(u)'
    <2>1. /\ u # User(s) /\ UNCHANGED <<socket, members, told, admins>>
          /\ \A t \in Sockets \ {s} : conn'[t] = conn[t] /\ disc'[t] = disc[t] /\ (t \in keys' <=> t \in keys)
        BY <1>1, <1>a DEF HandlerFails, KeyLapses, ConnGoes, DiscGoes, presenceKeys, Undisturbed
    <2>2. SocketsOf(u)' = SocketsOf(u) /\ s \notin SocketsOf(u)
        BY <2>1 DEF SocketsOf, User
    <2>3. QED
        BY <2>1, <2>2, Apart DEF SocketsOf
<1>2. ASSUME NEW v \in Accounts, UserLapses(v) PROVE OneTurn(u)'
    <2>1. /\ u # v /\ UNCHANGED <<socket, conn, disc, keys, told, admins>> /\ members'[u] = members[u]
        BY <1>2, <1>a DEF UserLapses, Undisturbed
    <2>2. QED
        BY <2>1, Apart DEF SocketsOf
<1>3. ASSUME AdminsLapse \/ \E i \in Instances : Start(i) \/ ListUsers(i) \/ ClearFails(i)
      PROVE  OneTurn(u)'
    <2>1. /\ UNCHANGED <<socket, conn, disc, keys, members, told>> /\ (u \in admins' <=> u \in admins)
        BY <1>3 DEF AdminsLapse, Start, ListUsers, ClearFails, presenceKeys, presenceObserved, Undisturbed
    <2>2. QED
        BY <2>1, Apart DEF SocketsOf
<1>4. ASSUME NEW i \in Instances, Stop(i) PROVE OneTurn(u)'
    <2> DEFINE here == {s \in Sockets : socket[s].state # "new" /\ socket[s].at = i}
    <2>1. /\ UNCHANGED <<keys, members, admins, told>>
          /\ \A t \in here : /\ User(t) = u => ~Running(conn, t) /\ ~Running(disc, t)
                             /\ conn'[t] = Done /\ disc'[t] = Done
          /\ \A t \in Sockets \ here : socket'[t] = socket[t] /\ conn'[t] = conn[t] /\ disc'[t] = disc[t]
        BY <1>4 DEF Stop, presenceKeys, Undisturbed
    <2>2. ASSUME NEW t \in Sockets PROVE User(t)' = User(t) /\ (New(t)' <=> New(t))
        <3>1. CASE t \in here
            <4>1. /\ socket'[t] = [socket[t] EXCEPT !.state = "closed"] /\ ~New(t)
                BY <1>4, <3>1 DEF Stop, New
            <4>2. PICK r \in [state: {"open", "closed"}, user: Accounts, at: Instances] : socket[t] = r
                BY <4>1, SocketTypes DEF PresenceTyped
            <4>3. [r EXCEPT !.state = "closed"].state = "closed" /\ [r EXCEPT !.state = "closed"].user = r.user
                OBVIOUS
            <4>4. QED
                BY <4>1, <4>2, <4>3 DEF User, New
        <3>2. CASE t \notin here
            BY <2>1, <3>2 DEF User, New
        <3>3. QED
            BY <3>1, <3>2
    <2>3. PICK P \in SUBSET Sockets : P = SocketsOf(u) /\ P = SocketsOf(u)'
        BY <2>2 DEF SocketsOf, New, User
    <2>4. \A t \in P : \/ conn'[t] = conn[t] /\ disc'[t] = disc[t]
                       \/ /\ conn'[t].pc = "done" /\ disc'[t].pc = "done"
                          /\ ~Running(conn, t) /\ ~Running(disc, t)
        BY <2>1, <2>3 DEF SocketsOf, User, Done
    <2>5. QED
        BY <2>1, <2>3, <2>4 DEF OneTurn, Turns, Told, Listed, Running, Leaving, ConnIn, DiscIn
<1>5. ASSUME NEW i \in Instances, DeleteAll(i) PROVE OneTurn(u)'
    <2>1. /\ UNCHANGED <<socket, conn, disc, told>>
          /\ u \notin boot[i].users /\ u \notin admins /\ admins' = {}
          /\ \A t \in SocketsOf(u) : t \in keys' <=> t \in keys
          /\ members'[u] = members[u]
        BY <1>5, <1>a DEF DeleteAll, Undisturbed, SocketsOf, User
    <2>2. QED
        BY <2>1, Apart DEF SocketsOf
<1>6. QED
    BY <1>1, <1>2, <1>3, <1>4, <1>5 DEF Starting

LEMMA EventsInvStep ==
    /\ PresenceTyped /\ PresenceTyped' /\ MembersInv /\ EventsInv /\ [PresenceNext]_presenceVars
    => EventsInv'
<1> SUFFICES ASSUME PresenceTyped, PresenceTyped', MembersInv, EventsInv, [PresenceNext]_presenceVars,
                    NEW u \in Accounts, Undisturbed(u)'
             PROVE  OneTurn(u)'
    BY DEF EventsInv, OneTurn
<1> DEFINE Goal == OneTurn(u)'
<1>a. Undisturbed(u)
    <2> DEFINE Recorded == lost \subseteq lost' /\ lapsed \subseteq lapsed' /\ crossed \subseteq crossed'
    <2>1. ASSUME NEW s \in Sockets,
                 \/ \E v \in Accounts, i \in Instances : Connect(s, v, i)
                 \/ Connection(s) \/ Disconnect(s)
          PROVE  Recorded
        BY <2>1 DEF Connect, Connection, Authenticate, CountSockets, SetSocketKey, AddSocket, SetTtl, AddAdmin,
           SetAdminsTtl, TellOnline, Disconnect, presenceObserved
    <2>2. ASSUME NEW s \in Sockets, Disconnection(s) \/ HandlerFails(s) \/ KeyLapses(s) PROVE Recorded
        BY <2>2 DEF Disconnection, FindSocket, RemoveSocket, DeleteSocketKey, CountLeft, RemoveAdmin,
           TellOffline, HandlerFails, KeyLapses, presenceObserved
    <2>3. ASSUME (\E v \in Accounts : UserLapses(v)) \/ AdminsLapse PROVE Recorded
        BY <2>3 DEF UserLapses, AdminsLapse
    <2>4. ASSUME NEW i \in Instances, Stop(i) \/ Starting(i) PROVE Recorded
        BY <2>4 DEF Stop, Starting, Start, ListUsers, DeleteAll, ClearFails, presenceObserved
    <2>5. ASSUME UNCHANGED presenceVars PROVE Recorded
        BY <2>5 DEF presenceVars, presenceObserved
    <2> HIDE DEF Recorded
    <2>6. Recorded
        BY Zenon, <2>1, <2>2, <2>3, <2>4, <2>5 DEF PresenceNext
    <2>7. QED
        BY <2>6 DEF Recorded, Undisturbed
<1>b. OneTurn(u)
    BY <1>a DEF EventsInv, OneTurn
<1>1. ASSUME NEW s \in Sockets, Connection(s) PROVE Goal
    BY <1>1, <1>a, <1>b, ConnectionTold
<1>2. ASSUME NEW s \in Sockets, (\E v \in Accounts, i \in Instances : Connect(s, v, i)) \/ Disconnect(s)
      PROVE  Goal
    BY <1>2, <1>a, <1>b, SocketTold
<1>3. ASSUME NEW s \in Sockets, Disconnection(s) PROVE Goal
    BY <1>3, <1>a, <1>b, DisconnectionTold
<1>4. ASSUME \/ \E s \in Sockets : HandlerFails(s) \/ KeyLapses(s)
             \/ \E v \in Accounts : UserLapses(v)
             \/ AdminsLapse
             \/ \E i \in Instances : Stop(i) \/ Starting(i)
      PROVE  Goal
    BY <1>4, <1>a, <1>b, FaultTold
<1>5. ASSUME UNCHANGED presenceVars PROVE Goal
    BY <1>5, <1>b, Apart DEF presenceVars, instances, presenceKeys, presenceObserved, SocketsOf
<1> HIDE DEF Goal
<1>6. Goal
    BY Zenon, <1>1, <1>2, <1>3, <1>4, <1>5 DEF PresenceNext
<1>7. QED
    BY <1>6 DEF Goal

(* What clients were told last of a user, and what isAnyAdminOnline        *)
(* answers, is right once the handlers are through, for a user none of     *)
(* whose connections and disconnections overlapped (EventsRight).          *)
THEOREM EventsAreRight == PresenceSpec => []EventsRight
<1>1. PresenceTyped /\ MembersInv /\ EventsInv => EventsRight
    <2> SUFFICES ASSUME PresenceTyped, MembersInv, EventsInv,
                        NEW u \in Accounts \ (lost \cup lapsed \cup crossed), Settled(u)
                 PROVE  /\ told[u] <=> Open(u) # {}
                        /\ u \in AdminAccounts => (u \in admins <=> Open(u) # {})
        BY DEF EventsRight
    <2>1. Undisturbed(u) /\ Told(u) /\ Listed(u)
        BY DEF EventsInv, Undisturbed
    <2>2. \A s \in SocketsOf(u) : s \notin ghosts
        BY <2>1, InTurn
    <2>3. members[u] = Open(u)
        <3>1. MembersExact
            BY MembersInvExact
        <3>2. \A s \in members[u] : s \in SocketsOf(u)
            <4>1. \A s \in members[u] : s \in Sockets /\ Stands(s)
                BY DEF MembersInv, PresenceTyped, PresenceTypeOK
            <4>2. QED
                BY <4>1 DEF Stands, SocketsOf, PresenceTyped, Begun, ConnIn, New, User
        <3>3. QED
            BY <3>1, <3>2, <2>2 DEF MembersExact
    <2>4. \A s \in SocketsOf(u) : ~Running(conn, s) /\ ~Running(disc, s)
        BY DEF Settled
    <2>5. told[u] <=> members[u] # {}
        BY <2>1, <2>4 DEF Told, Running, ConnIn, DiscIn
    <2>6. u \in AdminAccounts => (u \in admins <=> members[u] # {})
        BY <2>1, <2>4 DEF Listed, Running, ConnIn, DiscIn
    <2>7. QED
        BY <2>3, <2>5, <2>6
<1>2. PresenceTyped /\ MembersInv /\ EventsInv /\ [PresenceNext]_presenceVars =>
          PresenceTyped' /\ MembersInv' /\ EventsInv'
    BY PresenceTypedStep, MembersInvStep, EventsInvStep
<1>3. PresenceSpec => [](PresenceTyped /\ MembersInv /\ EventsInv)
    BY <1>2, PresenceTypedInit, MembersInvInit, EventsInvInit, PTL DEF PresenceSpec
<1>4. QED
    BY <1>1, <1>3, PTL

-----------------------------------------------------------------------------
(* Times to live                                                           *)

GivesTtl(u) == \E s \in Sockets : ~New(s) /\ User(s) = u /\ ConnAt(s, "ttl")

(* A set without a time to live is about to be given one, or was left so   *)
(* by a handler that ended.                                                *)
UntimedIsHalfway == \A u \in Accounts : members[u] # {} => u \in timed \cup halfway \/ GivesTtl(u)

LEMMA UntimedInvStep ==
    PresenceTyped /\ UntimedIsHalfway /\ [PresenceNext]_presenceVars => UntimedIsHalfway'
<1> SUFFICES ASSUME PresenceTyped, UntimedIsHalfway, [PresenceNext]_presenceVars,
                    NEW u \in Accounts, members'[u] # {}
             PROVE  u \in timed' \cup halfway' \/ GivesTtl(u)'
    BY DEF UntimedIsHalfway
<1> DEFINE Goal == u \in timed' \cup halfway' \/ GivesTtl(u)'
<1>a. /\ conn \in [Sockets -> ConnRow] /\ disc \in [Sockets -> DiscRow]
      /\ socket \in [Sockets -> SocketRow] /\ members \in [Accounts -> SUBSET Sockets]
      /\ timed \in SUBSET Accounts /\ halfway \in SUBSET Accounts
    BY DEF PresenceTyped, PresenceTypeOK, ConnRow, DiscRow, SocketRow
<1>b. members[u] # {} => u \in timed \cup halfway \/ GivesTtl(u)
    BY DEF UntimedIsHalfway
<1>c. \A s \in Sockets : ConnAt(s, "ttl") => ~New(s)
    BY DEF PresenceTyped, Begun, ConnAt
(* A handler at its expire goes on to it, where nothing else is changed.   *)
<1>1. ASSUME members'[u] # {} /\ u \in timed => u \in timed',
             members'[u] # {} => members[u] # {},
             halfway \subseteq halfway',
             \A s \in Sockets : ConnAt(s, "ttl") /\ ~New(s) /\ User(s) = u =>
                  u \in timed' \cup halfway' \/ (conn'[s] = conn[s] /\ ~New(s)' /\ User(s)' = u)
      PROVE  Goal
    BY <1>1, <1>b DEF GivesTtl, ConnAt
<1>2. ASSUME NEW s \in Sockets, NEW v \in Accounts, NEW i \in Instances, Connect(s, v, i) PROVE Goal
    <2>1. /\ UNCHANGED <<members, timed, halfway>> /\ New(s)
          /\ \A t \in Sockets \ {s} : conn'[t] = conn[t] /\ socket'[t] = socket[t]
        BY <1>2, <1>a DEF Connect, ConnGoes, presenceKeys, New
    <2>2. QED
        BY <1>1, <1>c, <2>1 DEF New, User
<1>3. ASSUME NEW s \in Sockets, Connection(s) PROVE Goal
    <2>1. CASE Authenticate(s)
        <3>1. ~New(s) /\ conn[s].pc = "auth"
            BY <2>1 DEF Authenticate, ConnAt, PresenceTyped, Begun
        <3>2. /\ UNCHANGED <<members, timed, halfway>>
              /\ \A t \in Sockets \ {s} : conn'[t] = conn[t]
              /\ \A t \in Sockets : User(t)' = User(t) /\ (New(t)' <=> New(t))
            BY <2>1, <3>1, <1>a, Closing DEF Authenticate, ConnGoes, presenceKeys, presenceObserved, User, New,
               PresenceTyped
        <3>3. QED
            BY <1>1, <3>1, <3>2 DEF ConnAt
    <2>2. CASE AddSocket(s)
        <3>1. /\ UNCHANGED <<timed, halfway, socket>> /\ \A t \in Sockets \ {s} : conn'[t] = conn[t]
              /\ conn[s].pc = "add" /\ ~New(s)
              /\ \A v \in Accounts \ {User(s)} : members'[v] = members[v]
            BY <2>2, <1>a DEF AddSocket, ConnAt, ConnGoes, presenceObserved, PresenceTyped, Begun
        <3>5. conn'[s].pc = "ttl"
            BY <2>2, <1>a, SocketTypes DEF AddSocket, ConnAt, ConnGoes, PresenceTyped, ConnRow
        <3>2. CASE u = User(s)
            BY <3>1, <3>2, <3>5 DEF GivesTtl, ConnAt, New, User
        <3>3. CASE u # User(s)
            BY <1>1, <3>1, <3>3 DEF ConnAt, New, User
        <3>4. QED
            BY <3>2, <3>3
    <2>3. CASE SetTtl(s)
        <3>1. /\ UNCHANGED <<members, socket>> /\ \A t \in Sockets \ {s} : conn'[t] = conn[t]
              /\ timed \subseteq timed' /\ halfway' = halfway \ {User(s)}
              /\ u = User(s) /\ members[u] # {} => u \in timed'
            BY <2>3, <1>a DEF SetTtl, ConnGoes
        <3>2. CASE u = User(s)
            BY <3>1, <3>2
        <3>3. CASE u # User(s)
            BY <3>1, <3>3, <1>b DEF GivesTtl, ConnAt, New, User
        <3>4. QED
            BY <3>2, <3>3
    <2>4. CASE ~Authenticate(s) /\ ~AddSocket(s) /\ ~SetTtl(s)
        <3>1. /\ UNCHANGED <<members, timed, halfway, socket>> /\ \A t \in Sockets \ {s} : conn'[t] = conn[t]
              /\ conn[s].pc # "ttl"
            BY <1>3, <2>4, <1>a DEF Connection, CountSockets, SetSocketKey, AddAdmin, SetAdminsTtl, TellOnline,
               ConnAt, ConnGoes, presenceKeys, presenceObserved
        <3>2. QED
            BY <1>1, <3>1 DEF ConnAt, New, User
    <2>5. QED
        BY <2>1, <2>2, <2>3, <2>4
<1>4. ASSUME NEW s \in Sockets, Disconnect(s) PROVE Goal
    <2>1. ~New(s)
        BY <1>4 DEF Disconnect, New
    <2>2. /\ UNCHANGED <<conn, members, timed, halfway>>
          /\ \A t \in Sockets : User(t)' = User(t) /\ (New(t)' <=> New(t))
        BY <1>4, <2>1, Closing DEF Disconnect, presenceKeys, PresenceTyped
    <2>3. QED
        BY <1>1, <2>2
<1>5. ASSUME NEW s \in Sockets, Disconnection(s) PROVE Goal
    <2>1. /\ UNCHANGED <<conn, socket, halfway>>
          /\ members'[u] \subseteq members[u]
          /\ members'[u] # {} /\ u \in timed => u \in timed'
        BY <1>5, <1>a DEF Disconnection, FindSocket, RemoveSocket, DeleteSocketKey, CountLeft, RemoveAdmin,
           TellOffline, presenceKeys, presenceObserved
    <2>2. QED
        BY <1>1, <2>1 DEF New, User
<1>6. ASSUME NEW s \in Sockets, HandlerFails(s) PROVE Goal
    <2>1. /\ UNCHANGED <<members, timed, socket>> /\ halfway \subseteq halfway'
          /\ \A t \in Sockets \ {s} : conn'[t] = conn[t]
          /\ conn'[s] = conn[s] \/ (ConnAt(s, "ttl") => User(s) \in timed' \cup halfway')
        BY <1>6, <1>a DEF HandlerFails, ConnGoes, presenceKeys, Untimed
    <2>2. QED
        BY <1>1, <2>1 DEF New, User
<1>7. ASSUME (\E s \in Sockets : KeyLapses(s)) \/ AdminsLapse PROVE Goal
    BY <1>1, <1>7 DEF KeyLapses, AdminsLapse, New, User
<1>8. ASSUME NEW v \in Accounts, UserLapses(v) PROVE Goal
    <2>1. /\ UNCHANGED <<conn, socket, halfway>> /\ u # v
          /\ members'[u] = members[u] /\ (u \in timed => u \in timed')
        BY <1>8, <1>a DEF UserLapses
    <2>2. QED
        BY <1>1, <2>1 DEF New, User
<1>9. ASSUME NEW i \in Instances, Stop(i) PROVE Goal
    <2> DEFINE here == {s \in Sockets : socket[s].state # "new" /\ socket[s].at = i}
    <2>1. UNCHANGED <<members, timed>> /\ halfway \subseteq halfway'
        BY <1>9 DEF Stop, presenceKeys
    <2>2. \A t \in here : ConnAt(t, "ttl") => User(t) \in timed' \cup halfway'
        BY <1>9, <2>1 DEF Stop, Untimed
    <2>3. \A t \in Sockets \ here : conn'[t] = conn[t] /\ socket'[t] = socket[t]
        BY <1>9 DEF Stop
    <2> HIDE DEF here
    <2>4. QED
        BY <1>1, <2>1, <2>2, <2>3 DEF New, User
<1>10. ASSUME NEW i \in Instances, Starting(i) PROVE Goal
    <2>1. /\ UNCHANGED <<conn, socket, halfway>>
          /\ members'[u] = members[u] /\ (u \in timed => u \in timed')
        BY <1>10 DEF Starting, Start, ListUsers, DeleteAll, ClearFails, presenceKeys, presenceObserved
    <2>2. QED
        BY <1>1, <2>1 DEF New, User
<1>11. ASSUME UNCHANGED presenceVars PROVE Goal
    BY <1>1, <1>11 DEF presenceVars, presenceKeys, presenceObserved, New, User
<1> HIDE DEF Goal
<1>12. Goal
    BY Zenon, <1>2, <1>3, <1>4, <1>5, <1>6, <1>7, <1>8, <1>9, <1>10, <1>11 DEF PresenceNext
<1>13. QED
    BY <1>12 DEF Goal

(* The set of a user whose handlers are through has a time to live, unless *)
(* the last of them that added to it, or one before, ended between the two *)
(* calls that add the socket and set the time: what GhostsExpire excuses   *)
(* has no other cause.                                                     *)
THEOREM OnlyHalfwayLasts ==
    PresenceSpec => [](\A u \in Accounts : Settled(u) => members[u] = {} \/ u \in timed \cup halfway)
<1>1. PresenceInit => UntimedIsHalfway
    BY DEF PresenceInit, UntimedIsHalfway
<1>2. PresenceTyped /\ UntimedIsHalfway /\ [PresenceNext]_presenceVars => PresenceTyped' /\ UntimedIsHalfway'
    BY PresenceTypedStep, UntimedInvStep
<1>3. UntimedIsHalfway => \A u \in Accounts : Settled(u) => members[u] = {} \/ u \in timed \cup halfway
    BY DEF UntimedIsHalfway, GivesTtl, Settled, SocketsOf, Running, ConnAt, New, User
<1>4. QED
    BY <1>1, <1>2, <1>3, PresenceTypedInit, PTL DEF PresenceSpec

-----------------------------------------------------------------------------
(***************************************************************************)
(* ADVISORIES                                                              *)
(***************************************************************************)

(* Type correctness                                                        *)

CachedList == {NoList} \cup [cached: {TRUE}, list: SUBSET Notices]

(* A request that goes on keeps the types of them all; what its record     *)
(* holds is known from where it stands.                                    *)
LEMMA CallTypes ==
    ASSUME call \in [Calls -> CallState], NEW k \in Calls
    PROVE  /\ \A state \in CallState : CallGoes(k, state) => call' \in [Calls -> CallState]
           /\ \A p \in {"update", "publish", "archive", "remove"} :
                 CallAt(k, p) => call[k].advisory \in Notices
           /\ CallAt(k, "query") => call[k].by \in Readers
           /\ CallAt(k, "cache") =>
                 /\ call[k].by \in Readers /\ call[k].list \subseteq Notices
                 /\ [call[k] EXCEPT !.pc = "answered"] \in CallState
           /\ CallAt(k, "dismiss") =>
                 /\ call[k].by \in Readers /\ call[k].advisory \in Notices
                 /\ [call[k] EXCEPT !.pc = "forget"] \in CallState
           /\ CallAt(k, "forget") => call[k].by \in Readers /\ call[k].advisory \in Notices
<1>1. call[k] \in CallState
    OBVIOUS
<1>2. \A state \in CallState : CallGoes(k, state) => call' \in [Calls -> CallState]
    BY DEF CallGoes
<1>3. \A p \in {"update", "publish", "archive", "remove"} :
          CallAt(k, p) => call[k].advisory \in Notices
    BY <1>1 DEF CallAt, CallState, Idle
<1>4. CallAt(k, "query") => call[k].by \in Readers
    BY <1>1 DEF CallAt, CallState, Idle
<1>5. CallAt(k, "cache") =>
          /\ call[k].by \in Readers /\ call[k].list \subseteq Notices
          /\ [call[k] EXCEPT !.pc = "answered"] \in CallState
    BY <1>1 DEF CallAt, CallState, Idle
<1>6. CallAt(k, "dismiss") =>
          /\ call[k].by \in Readers /\ call[k].advisory \in Notices
          /\ [call[k] EXCEPT !.pc = "forget"] \in CallState
    BY <1>1 DEF CallAt, CallState, Idle
<1>7. CallAt(k, "forget") => call[k].by \in Readers /\ call[k].advisory \in Notices
    BY <1>1 DEF CallAt, CallState, Idle
<1>8. QED
    BY <1>2, <1>3, <1>4, <1>5, <1>6, <1>7

(* What is stored has the columns of a row.                                *)
LEMMA AdvisoryColumns ==
    ASSUME advisory \in [Notices -> AdvisoryRow], NEW a \in Notices, Stored(a)
    PROVE  advisory[a] \in [status: {"DRAFT", "PUBLISHED", "ARCHIVED"},
                            expiry: {"never", "ahead", "past"}, published: BOOLEAN]
<1>1. advisory[a] \in AdvisoryRow
    OBVIOUS
<1>2. QED
    BY <1>1 DEF Stored, AdvisoryRow, NoAdvisory

(* Active lists advisories, none of them dismissed.                        *)
LEMMA ActiveIsOpen ==
    ASSUME NEW u \in Readers
    PROVE  Active(u) \subseteq Notices /\ \A a \in Active(u) : <<u, a>> \notin dismissals
BY DEF Active

LEMMA ListTypes ==
    ASSUME NEW list \in CachedList, list.cached
    PROVE  list.list \subseteq Notices
<1>1. list # NoList
    <2>1. ~NoList.cached
        BY DEF NoList
    <2>2. QED
        BY Zenon, <2>1
<1>2. list \in [cached: {TRUE}, list: SUBSET Notices]
    BY <1>1 DEF CachedList
<1>3. QED
    BY <1>2

(* Every variable keeps its type.                                          *)
THEOREM AdvisoryTypeCorrect == AdvisorySpec => []AdvisoryTypeOK
<1>1. AdvisoryInit => AdvisoryTypeOK
    BY DEF AdvisoryInit, AdvisoryTypeOK, AdvisoryRow, NoAdvisory, NoList, CallState
<1>2. AdvisoryTypeOK /\ [AdvisoryNext]_advisoryVars => AdvisoryTypeOK'
    <2> SUFFICES ASSUME AdvisoryTypeOK, [AdvisoryNext]_advisoryVars PROVE AdvisoryTypeOK'
        OBVIOUS
    <2> USE DEF AdvisoryTypeOK
    <2>1. ASSUME NEW a \in Notices, CreateAdvisory(a) PROVE AdvisoryTypeOK'
        <3>1. PICK expiry \in {"never", "ahead"} : advisory' = [advisory EXCEPT ![a] =
                    [status |-> "DRAFT", expiry |-> expiry, published |-> FALSE]]
            BY <2>1 DEF CreateAdvisory
        <3>2. [status |-> "DRAFT", expiry |-> expiry, published |-> FALSE] \in AdvisoryRow
            BY DEF AdvisoryRow
        <3>3. advisory' \in [Notices -> AdvisoryRow]
            BY <3>1, <3>2
        <3>4. QED
            BY <2>1, <3>3 DEF CreateAdvisory
    <2>2. ASSUME NEW a \in Notices, Expire(a) PROVE AdvisoryTypeOK'
        <3>1. [advisory[a] EXCEPT !.expiry = "past"] \in AdvisoryRow
            BY <2>2, AdvisoryColumns DEF Expire, AdvisoryRow
        <3>2. QED
            BY <2>2, <3>1 DEF Expire
    <2>3. ASSUME NEW k \in Calls, NEW a \in Notices,
                 NEW op \in {"update", "publish", "archive", "remove"}, FindAdvisory(k, op, a)
          PROVE  AdvisoryTypeOK'
        <3>1. [pc |-> op, advisory |-> a] \in CallState
            BY DEF CallState
        <3>2. QED
            BY <2>3, <3>1, CallTypes DEF FindAdvisory
    <2>4. ASSUME NEW k \in Calls, UpdateAdvisory(k) \/ Publish(k) \/ Archive(k)
          PROVE  AdvisoryTypeOK'
        <3> DEFINE a == call[k].advisory
        <3>1. a \in Notices /\ Stored(a)
            BY <2>4, CallTypes DEF UpdateAdvisory, Publish, Archive
        <3>2. /\ \A e \in {"never", "ahead", "past"} :
                    [advisory[a] EXCEPT !.expiry = e] \in AdvisoryRow
              /\ [advisory[a] EXCEPT !.status = "PUBLISHED", !.published = TRUE] \in AdvisoryRow
              /\ [advisory[a] EXCEPT !.status = "ARCHIVED"] \in AdvisoryRow
            BY <3>1, AdvisoryColumns DEF AdvisoryRow
        <3>3. advisory' \in [Notices -> AdvisoryRow]
            BY <2>4, <3>1, <3>2 DEF UpdateAdvisory, Publish, Archive
        <3>4. call' \in [Calls -> CallState]
            BY <2>4, CallTypes DEF UpdateAdvisory, Publish, Archive, CallState
        <3>5. QED
            BY <2>4, <3>3, <3>4 DEF UpdateAdvisory, Publish, Archive
    <2>5. ASSUME NEW k \in Calls, DeleteAdvisory(k) PROVE AdvisoryTypeOK'
        <3>1. call' \in [Calls -> CallState]
            BY <2>5, CallTypes DEF DeleteAdvisory, CallState
        <3>2. QED
            BY <2>5, <3>1 DEF DeleteAdvisory, AdvisoryRow
    <2>6. ASSUME NEW k \in Calls, NEW u \in Readers, GetActive(k, u) PROVE AdvisoryTypeOK'
        <3>1. lists[u].cached => lists[u].list \subseteq Notices
            BY ListTypes DEF CachedList
        <3>2. /\ [pc |-> "query", by |-> u] \in CallState
              /\ lists[u].cached =>
                    [pc |-> "answered", by |-> u, list |-> lists[u].list] \in CallState
            BY <3>1 DEF CallState
        <3>3. QED
            BY <2>6, <3>2, CallTypes DEF GetActive
    <2>7. ASSUME NEW k \in Calls, NEW u \in Readers, NEW a \in Notices, FindToDismiss(k, u, a)
          PROVE  AdvisoryTypeOK'
        <3>1. [pc |-> "dismiss", by |-> u, advisory |-> a] \in CallState
            BY DEF CallState
        <3>2. QED
            BY <2>7, <3>1, CallTypes DEF FindToDismiss
    <2>8. ASSUME NEW k \in Calls, QueryActive(k) PROVE AdvisoryTypeOK'
        <3>1. [pc |-> "cache", by |-> call[k].by, list |-> Active(call[k].by)] \in CallState
            BY <2>8, CallTypes, ActiveIsOpen DEF QueryActive, CallState
        <3>2. QED
            BY <2>8, <3>1, CallTypes DEF QueryActive
    <2>9. ASSUME NEW k \in Calls, CacheList(k) PROVE AdvisoryTypeOK'
        <3>1. call' \in [Calls -> CallState]
            BY <2>9, CallTypes DEF CacheList
        <3>2. call[k].by \in Readers /\ call[k].list \subseteq Notices
            BY <2>9, CallTypes DEF CacheList
        <3>3. QED
            BY <2>9, <3>1, <3>2 DEF CacheList
    <2>10. ASSUME NEW k \in Calls, Answered(k) \/ CallFails(k) PROVE AdvisoryTypeOK'
        BY <2>10, CallTypes DEF Answered, CallFails, CallState
    <2>11. ASSUME NEW k \in Calls, Dismiss(k) PROVE AdvisoryTypeOK'
        <3>1. call' \in [Calls -> CallState]
            BY <2>11, CallTypes DEF Dismiss
        <3>2. <<call[k].by, call[k].advisory>> \in Readers \X Notices
            BY <2>11, CallTypes DEF Dismiss
        <3>3. QED
            BY <2>11, <3>1, <3>2 DEF Dismiss
    <2>12. ASSUME NEW k \in Calls, Forget(k) PROVE AdvisoryTypeOK'
        <3>1. call' \in [Calls -> CallState]
            BY <2>12, CallTypes DEF Forget, CallState
        <3>2. QED
            BY <2>12, <3>1 DEF Forget
    <2>13. ASSUME NEW u \in Readers, Lapse(u) PROVE AdvisoryTypeOK'
        BY <2>13 DEF Lapse
    <2>14. CASE UNCHANGED advisoryVars
        BY <2>14 DEF advisoryVars
    <2>15. QED
        BY <2>1, <2>2, <2>3, <2>4, <2>5, <2>6, <2>7, <2>8, <2>9, <2>10, <2>11, <2>12, <2>13, <2>14
           DEF AdvisoryNext, Administer, Use
<1>3. QED
    BY <1>1, <1>2, PTL DEF AdvisorySpec

-----------------------------------------------------------------------------
(* Dismissals                                                              *)

(* No list about to be cached has an advisory dismissed before it was read:*)
(* from the row of the dismissal on, not only from its answer.             *)
NoneCached ==
    \A u \in Readers, a \in Notices : <<u, a>> \in dismissals \ late => ~BeingCached(u, a)

NoneListed ==
    \A u \in Readers, a \in Notices :
        <<u, a>> \in dismissed \ late /\ lists[u].cached => a \notin lists[u].list

Hidden == NoneCached /\ NoneListed

(* A step that adds no list to those about to be cached.                   *)
LEMMA NoNewList ==
    ASSUME call \in [Calls -> CallState], NEW k \in Calls, NEW state, state.pc # "cache",
           CallGoes(k, state)
    PROVE  \A u \in Readers, a \in Notices : BeingCached(u, a)' => BeingCached(u, a)
BY DEF CallGoes, BeingCached, CallAt

(* NoneCached needs only that.                                             *)
LEMMA StillNoneCached ==
    ASSUME NoneCached, dismissals' \ late' \subseteq dismissals \ late,
           \A u \in Readers, a \in Notices : BeingCached(u, a)' => BeingCached(u, a)
    PROVE  NoneCached'
BY DEF NoneCached

LEMMA StillNoneListed ==
    ASSUME NoneListed, dismissed' \ late' \subseteq dismissed \ late, UNCHANGED lists
    PROVE  NoneListed'
BY DEF NoneListed

(* A dismissal that was answered lasts, however lists are read and cached  *)
(* by requests that overlap it, but for those in late.                     *)
THEOREM DismissalLasts == AdvisorySpec => []DismissedStaysHidden
<1>1. AdvisoryInit => Hidden
    BY DEF AdvisoryInit, Hidden, NoneCached, NoneListed
<1>2. AdvisoryTypeOK /\ Hidden /\ [AdvisoryNext]_advisoryVars => Hidden'
    <2> SUFFICES ASSUME AdvisoryTypeOK, Hidden, [AdvisoryNext]_advisoryVars PROVE Hidden'
        OBVIOUS
    <2>0. call \in [Calls -> CallState] /\ NoneCached /\ NoneListed
        BY DEF AdvisoryTypeOK, Hidden
    <2>1. ASSUME UNCHANGED <<dismissals, lists, call, dismissed, late>> PROVE Hidden'
        BY <2>1 DEF Hidden, NoneCached, NoneListed, BeingCached, CallAt
    <2>2. ASSUME NEW k \in Calls, NEW state, state.pc # "cache", CallGoes(k, state),
                 UNCHANGED <<dismissals, lists, dismissed, late>>
          PROVE  Hidden'
        BY <2>0, <2>2, NoNewList, StillNoneCached, StillNoneListed DEF Hidden
    <2>3. ASSUME NEW k \in Calls, DeleteAdvisory(k) PROVE Hidden'
        <3>1. /\ dismissals' \ late' \subseteq dismissals \ late
              /\ dismissed' \ late' \subseteq dismissed \ late
            BY <2>3 DEF DeleteAdvisory
        <3>2. CallGoes(k, Idle) /\ Idle.pc # "cache" /\ UNCHANGED lists
            BY <2>3 DEF DeleteAdvisory, Idle
        <3>3. QED
            BY <2>0, <3>1, <3>2, NoNewList, StillNoneCached, StillNoneListed DEF Hidden
    <2>4. ASSUME NEW k \in Calls, QueryActive(k) PROVE Hidden'
        <3>1. \A u \in Readers, a \in Notices :
                  BeingCached(u, a)' => BeingCached(u, a) \/ <<u, a>> \notin dismissals
            BY <2>0, <2>4, CallTypes, ActiveIsOpen DEF QueryActive, CallGoes, BeingCached, CallAt
        <3>2. NoneCached'
            BY <2>0, <2>4, <3>1 DEF NoneCached, QueryActive
        <3>3. QED
            BY <2>0, <2>4, <3>2, StillNoneListed DEF Hidden, QueryActive
    <2>5. ASSUME NEW k \in Calls, CacheList(k) PROVE Hidden'
        <3>1. NoneCached'
            <4>1. CallGoes(k, [call[k] EXCEPT !.pc = "answered"])
                BY <2>5 DEF CacheList
            <4>2. [call[k] EXCEPT !.pc = "answered"].pc # "cache"
                BY <2>0, <2>5, CallTypes DEF CacheList, CallState, CallAt, Idle
            <4>3. QED
                BY <2>0, <2>5, <4>1, <4>2, NoNewList, StillNoneCached DEF CacheList
        <3>2. NoneListed'
            <4>1. call[k].by \in Readers /\ call[k].list \subseteq Notices
                BY <2>0, <2>5, CallTypes DEF CacheList
            <4>2. \A a \in Notices : a \in call[k].list => BeingCached(call[k].by, a)
                BY <2>5 DEF CacheList, BeingCached
            <4>3. dismissed \subseteq dismissals
                BY DEF AdvisoryTypeOK
            <4>4. lists \in [Readers -> CachedList]
                BY DEF AdvisoryTypeOK, CachedList
            <4>5. QED
                BY <2>0, <2>5, <4>1, <4>2, <4>3, <4>4 DEF NoneCached, NoneListed, CacheList
        <3>3. QED
            BY <3>1, <3>2 DEF Hidden
    <2>6. ASSUME NEW k \in Calls, Dismiss(k) PROVE Hidden'
        <3> DEFINE pair == <<call[k].by, call[k].advisory>>
        <3>1. /\ dismissals' = dismissals \cup {pair} /\ UNCHANGED <<lists, dismissed>>
              /\ late' = late \cup {p \in {pair} : p \notin dismissals /\ BeingCached(p[1], p[2])}
            BY <2>6 DEF Dismiss
        <3>2. \A u \in Readers, a \in Notices : BeingCached(u, a)' => BeingCached(u, a)
            <4>1. CallGoes(k, [call[k] EXCEPT !.pc = "forget"])
                BY <2>6 DEF Dismiss
            <4>2. [call[k] EXCEPT !.pc = "forget"].pc # "cache"
                BY <2>0, <2>6, CallTypes DEF Dismiss, CallState, CallAt, Idle
            <4>3. QED
                BY <2>0, <4>1, <4>2, NoNewList
        <3>3. NoneCached'
            <4> SUFFICES ASSUME NEW u \in Readers, NEW a \in Notices,
                                <<u, a>> \in dismissals', <<u, a>> \notin late', BeingCached(u, a)
                         PROVE  FALSE
                BY <3>2 DEF NoneCached
            <4>1. CASE <<u, a>> \in dismissals
                BY <2>0, <3>1, <4>1 DEF NoneCached
            <4>2. CASE <<u, a>> \notin dismissals
                <5>1. pair = <<u, a>>
                    BY <3>1, <4>2
                <5>2. QED
                    BY <3>1, <4>2, <5>1
            <4>3. QED
                BY <4>1, <4>2
        <3>4. NoneListed'
            BY <2>0, <3>1, StillNoneListed
        <3>5. QED
            BY <3>3, <3>4 DEF Hidden
    <2>7. ASSUME NEW k \in Calls, Forget(k) PROVE Hidden'
        <3>1. NoneCached'
            BY <2>0, <2>7, NoNewList, StillNoneCached DEF Forget, Idle
        <3>2. NoneListed'
            <4>1. call[k].by \in Readers
                BY <2>0, <2>7, CallTypes DEF Forget
            <4>2. lists' = [lists EXCEPT ![call[k].by] = NoList] /\ UNCHANGED late
                BY <2>7 DEF Forget
            <4>3. lists \in [Readers -> CachedList]
                BY DEF AdvisoryTypeOK, CachedList
            <4>4. \A u \in Readers, a \in Notices :
                      <<u, a>> \in dismissed' => u = call[k].by \/ <<u, a>> \in dismissed
                BY <2>7 DEF Forget
            <4>5. QED
                BY <2>0, <4>1, <4>2, <4>3, <4>4 DEF NoneListed, NoList
        <3>3. QED
            BY <3>1, <3>2 DEF Hidden
    <2>8. ASSUME NEW u \in Readers, Lapse(u) PROVE Hidden'
        <3>1. lists \in [Readers -> CachedList]
            BY DEF AdvisoryTypeOK, CachedList
        <3>2. NoneListed'
            BY <2>0, <2>8, <3>1 DEF NoneListed, Lapse, NoList
        <3>3. NoneCached'
            BY <2>0, <2>8 DEF NoneCached, BeingCached, CallAt, Lapse
        <3>4. QED
            BY <3>2, <3>3 DEF Hidden
    <2>9. ASSUME NEW k \in Calls, Administer(k) PROVE Hidden'
        BY <2>2, <2>3, <2>9
           DEF Administer, FindAdvisory, UpdateAdvisory, Publish, Archive, Idle
    <2>10. ASSUME NEW k \in Calls, Use(k) PROVE Hidden'
        BY <2>2, <2>4, <2>5, <2>6, <2>7, <2>10
           DEF Use, GetActive, FindToDismiss, Answered, CallFails, Idle
    <2>11. QED
        BY <2>1, <2>8, <2>9, <2>10 DEF AdvisoryNext, CreateAdvisory, Expire, advisoryVars
<1>3. AdvisoryTypeOK /\ Hidden => DismissedStaysHidden
    BY DEF AdvisoryTypeOK, Hidden, NoneCached, NoneListed, DismissedStaysHidden
<1>4. QED
    BY <1>1, <1>2, <1>3, AdvisoryTypeCorrect, PTL DEF AdvisorySpec

-----------------------------------------------------------------------------
(***************************************************************************)
(* WHAT IS MODEL-CHECKED                                                   *)
(***************************************************************************)

(* What MCServices explores are behaviours of each of the five.            *)
LEMMA ServicesImplement ==
    Spec => PresenceSpec /\ ChatSpec /\ AdvisorySpec /\ CatalogueSpec /\ ScanSpec
<1>1. Init => PresenceInit /\ ChatInit /\ AdvisoryInit /\ CatalogueInit /\ ScanInit
    BY DEF Init
<1>2. ChatStep => ChatNext
    BY DEF ChatStep, ChatNext, Mark
<1>3. CatalogueStep => CatalogueNext
    <2>1. Upgrade => CatalogueNext
        BY DEF Upgrade, CatalogueNext
    <2>2. ASSUME NEW k \in Tasks, NEW o \in Owners, NEW n \in Naming, ByPro(k, o, n)
          PROVE  CatalogueNext
        BY <2>2 DEF ByPro, Naming, CatalogueNext
    <2>3. ASSUME NEW k \in Tasks, NEW o \in Owners, BeginCreate(k, o, NoName, {})
          PROVE  CatalogueNext
        BY <2>3 DEF CatalogueNext
    <2>4. ASSUME NEW k \in Tasks,
                 \/ Create(k) \/ Rename(k) \/ Reopen(k) \/ Retag(k) \/ ChangeLink(k)
                 \/ MakeQr(k) \/ TaskFails(k) \/ \E a \in Addresses : BeginGuest(k, a)
          PROVE  CatalogueNext
        BY <2>4 DEF CatalogueNext
    <2>5. ASSUME NEW l \in Links, ArchiveLink(l) \/ UnarchiveLink(l) \/ DeleteLink(l)
          PROVE  CatalogueNext
        BY <2>5 DEF CatalogueNext
    <2>6. DayPasses \/ HandleTags => CatalogueNext
        BY DEF CatalogueNext
    <2>7. QED
        BY <2>1, <2>2, <2>3, <2>4, <2>5, <2>6 DEF CatalogueStep
<1>4. PresenceStep => PresenceNext
    BY PTL DEF PresenceStep
<1>5. ScanStep => ScanNext
    BY PTL DEF ScanStep
<1>6. [Next]_vars => /\ [PresenceNext]_presenceVars /\ [ChatNext]_chatVars
                     /\ [AdvisoryNext]_advisoryVars /\ [CatalogueNext]_catalogueVars
                     /\ [ScanNext]_scanVars
    BY <1>2, <1>3, <1>4, <1>5 DEF Next, vars
<1>7. QED
    BY <1>1, <1>6, PTL
       DEF Spec, PresenceSpec, ChatSpec, AdvisorySpec, CatalogueSpec, ScanSpec

(* Every variable of their composition keeps its type.                     *)
THEOREM ServicesTypeCorrect == Spec => []ServicesTypeOK
<1>1. PresenceTypeOK /\ ChatTypeOK /\ AdvisoryTypeOK /\ CatalogueTypeOK /\ ScanTypeOK
          => ServicesTypeOK
    BY DEF ServicesTypeOK
<1>2. QED
    BY <1>1, ServicesImplement, PresenceTypeCorrect, ChatTypeCorrect, AdvisoryTypeCorrect,
       CatalogueIsTidy, ScanTypeCorrect, PTL
=============================================================================
