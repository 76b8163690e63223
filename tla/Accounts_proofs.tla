--------------------------- MODULE Accounts_proofs --------------------------
(***************************************************************************)
(* What the accounts of users promise.  Of Billing, for any requests and   *)
(* webhooks that overlap as they may, and for events in any order: no more *)
(* customers than requests, the tier and the subscription Stripe bills     *)
(* for, tables that agree, and one welcome for a payment.  Of Mailing, for *)
(* any users, requests and handlers: one welcome for an account, and no    *)
(* mail to a user who wants none.                                          *)
(***************************************************************************)
EXTENDS MCAccounts, SequenceTheorems, FiniteSetTheorems, TLAPS

-----------------------------------------------------------------------------
(***************************************************************************)
(* BILLING                                                                 *)
(***************************************************************************)

(* Type correctness                                                        *)

LEMMA ObjectTypes ==
    ASSUME NEW o \in Object
    PROVE  /\ \A state \in {"active", "past_due", "canceled", "expired"} :
                 /\ [o EXCEPT !.state = state] \in Object
                 /\ [o EXCEPT !.state = state].state = state
                 /\ [o EXCEPT !.state = state].customer = o.customer
           /\ [o EXCEPT !.cancelAtPeriodEnd = TRUE] \in Object
           /\ [o EXCEPT !.cancelAtPeriodEnd = TRUE].customer = o.customer
           /\ [o EXCEPT !.cancelAtPeriodEnd = TRUE].state = o.state
           /\ \A k \in Customers :
                 /\ [o EXCEPT !.state = "offered", !.customer = k] \in Object
                 /\ [o EXCEPT !.state = "offered", !.customer = k].customer = k
                 /\ [o EXCEPT !.state = "offered", !.customer = k].state = "offered"
BY DEF Object, Live

(* The events sent so far stay, and those added tell of s as it now is.    *)
LEMMA SendTypes ==
    ASSUME events \in Seq(EventRow), unanswered \in SUBSET DOMAIN events,
           stripe \in [Subscriptions -> Object],
           NEW types \in Seq({"completed", "upsert", "deleted"}),
           NEW s \in Subscriptions, NEW o \in Object, Send(types, s, o)
    PROVE  /\ events' \in Seq(EventRow) /\ unanswered' \in SUBSET DOMAIN events'
           /\ stripe' \in [Subscriptions -> Object]
           /\ stripe'[s] = o /\ \A r \in Subscriptions \ {s} : stripe'[r] = stripe[r]
           /\ DOMAIN events \subseteq DOMAIN events'
           /\ \A i \in DOMAIN events : events'[i] = events[i]
           /\ \A i \in DOMAIN events' \ DOMAIN events :
                 events'[i].id = s /\ events'[i].object = o
<1> DEFINE new == [i \in 1 .. Len(types) |-> [type |-> types[i], id |-> s, object |-> o]]
<1>1. new \in Seq(EventRow) /\ Len(new) = Len(types)
    <2>1. \A i \in 1 .. Len(types) : [type |-> types[i], id |-> s, object |-> o] \in EventRow
        BY DEF EventRow
    <2>2. QED
        BY <2>1
<1>2. \A i \in 1 .. Len(types) : new[i].id = s /\ new[i].object = o
    OBVIOUS
<1>3. events' = events \o new /\ stripe' = [stripe EXCEPT ![s] = o]
      /\ unanswered' = unanswered \cup (Len(events) + 1 .. Len(events) + Len(types))
    BY DEF Send
<1> HIDE DEF new
<1>4. /\ events' \in Seq(EventRow) /\ Len(events') = Len(events) + Len(new)
      /\ \A i \in 1 .. Len(events') :
            events'[i] = IF i <= Len(events) THEN events[i] ELSE new[i - Len(events)]
    <2>1. /\ events \o new \in Seq(EventRow) /\ Len(events \o new) = Len(events) + Len(new)
          /\ \A i \in 1 .. Len(events) + Len(new) :
                (events \o new)[i] = IF i <= Len(events) THEN events[i] ELSE new[i - Len(events)]
        BY <1>1, ConcatProperties, Zenon
    <2>2. QED
        BY <1>3, <2>1, Zenon
<1>5. DOMAIN events' = 1 .. Len(events) + Len(types) /\ DOMAIN events = 1 .. Len(events)
    BY <1>1, <1>4
<1>6. \A i \in DOMAIN events' \ DOMAIN events : i - Len(events) \in 1 .. Len(types)
    BY <1>1, <1>5
<1>7. QED
    BY <1>1, <1>2, <1>3, <1>4, <1>5, <1>6

LEMMA CallerTypes ==
    ASSUME caller \in [Callers -> CallerState], NEW c \in Callers
    PROVE  /\ \A state \in CallerState : CallerGoes(c, state) =>
                 /\ caller' \in [Callers -> CallerState]
                 /\ caller'[c] = state /\ \A d \in Callers \ {c} : caller'[d] = caller[d]
           /\ CallerAt(c, "create") \/ CallerAt(c, "free") => caller[c].op \in Ops
           /\ CallerAt(c, "save") \/ CallerAt(c, "session") => caller[c].id \in Customers
           /\ CallerAt(c, "cancel") \/ CallerAt(c, "cancelNow") => caller[c].id \in Subscriptions
           /\ CallerAt(c, "idle") => caller[c] = Idle
BY DEF CallerGoes, CallerAt, CallerState, Idle

LEMMA HookTypes ==
    ASSUME hook \in [Hooks -> HookState(DOMAIN events)], NEW w \in Hooks
    PROVE  /\ \A state \in HookState(DOMAIN events) : HookGoes(w, state) =>
                 /\ hook' \in [Hooks -> HookState(DOMAIN events)]
                 /\ hook'[w] = state /\ \A v \in Hooks \ {w} : hook'[v] = hook[v]
           /\ hook[w] # Idle => /\ hook[w].event \in DOMAIN events /\ hook[w].object \in Object
                                /\ hook[w].upgrade \in BOOLEAN
           /\ \A p \in {"retrieve", "find", "upsert", "sync", "answer"} :
                 HookAt(w, p) => hook[w] # Idle
           /\ HookAt(w, "idle") => hook[w] = Idle
<1>1. hook[w] \in HookState(DOMAIN events)
    OBVIOUS
<1>2. \A state \in HookState(DOMAIN events) : HookGoes(w, state) =>
                 /\ hook' \in [Hooks -> HookState(DOMAIN events)]
                 /\ hook'[w] = state /\ \A v \in Hooks \ {w} : hook'[v] = hook[v]
    BY DEF HookGoes
<1>3. hook[w] # Idle => hook[w] \in [pc: {"retrieve", "find", "upsert", "sync", "answer"},
                       event: DOMAIN events, object: Object, upgrade: BOOLEAN]
    BY <1>1 DEF HookState
<1>4. hook[w] # Idle => /\ hook[w].event \in DOMAIN events /\ hook[w].object \in Object
                        /\ hook[w].upgrade \in BOOLEAN /\ hook[w].pc # "idle"
    BY <1>3
<1>5. \A p \in {"retrieve", "find", "upsert", "sync", "answer"} : HookAt(w, p) => hook[w] # Idle
    BY DEF HookAt, Idle
<1>6. HookAt(w, "idle") => hook[w] = Idle
    BY <1>4 DEF HookAt
<1>7. QED
    BY <1>2, <1>4, <1>5, <1>6

(* A webhook that goes on with its event.                                  *)
LEMMA HookContinues ==
    ASSUME hook \in [Hooks -> HookState(DOMAIN events)], NEW w \in Hooks, hook[w] # Idle,
           NEW p \in {"find", "upsert", "sync", "answer"}, NEW o \in Object, NEW b \in BOOLEAN,
           Continues(w, p, o, b)
    PROVE  /\ hook' \in [Hooks -> HookState(DOMAIN events)]
           /\ hook'[w].pc = p /\ hook'[w].event = hook[w].event /\ hook'[w].object = o
           /\ \A v \in Hooks \ {w} : hook'[v] = hook[v]
<1> DEFINE h == [pc |-> p, event |-> hook[w].event, object |-> o, upgrade |-> b]
<1>1. h \in HookState(DOMAIN events)
    BY HookTypes DEF HookState
<1>2. h.pc = p /\ h.event = hook[w].event /\ h.object = o /\ HookGoes(w, h)
    BY DEF Continues
<1> HIDE DEF h
<1>3. QED
    BY <1>1, <1>2, HookTypes

(* An event is sent while the webhooks stay as they are.                   *)
LEMMA SendKeepsTypes ==
    ASSUME TypeOK, NEW types \in Seq({"completed", "upsert", "deleted"}),
           NEW s \in Subscriptions, NEW o \in Object, Send(types, s, o), UNCHANGED hook
    PROVE  /\ hook' \in [Hooks -> HookState(DOMAIN events)']
           /\ events' \in Seq(EventRow) /\ unanswered' \in SUBSET DOMAIN events'
           /\ stripe' \in [Subscriptions -> Object] /\ latest \in {0} \cup DOMAIN events'
<1>1. /\ events' \in Seq(EventRow) /\ unanswered' \in SUBSET DOMAIN events'
      /\ stripe' \in [Subscriptions -> Object] /\ DOMAIN events \subseteq DOMAIN events'
    BY SendTypes DEF TypeOK
<1>2. HookState(DOMAIN events) \subseteq HookState(DOMAIN events)'
    BY <1>1 DEF HookState
<1>3. QED
    BY <1>1, <1>2 DEF TypeOK

LEMMA ThenTypes ==
    ASSUME NEW op \in Ops, NEW row \in Row
    PROVE  /\ Then(op, row) \in CallerState
           /\ Then(op, row).pc \in {"idle", "customer", "session", "cancel"}
           /\ Then(op, row).pc = "customer" => row.customer = Null
BY DEF Then, CallerState, Row, Idle

(* The row a webhook writes keeps the customer of the object it was given. *)
LEMMA ColumnsTypes ==
    ASSUME NEW type, NEW s \in Subscriptions, NEW o \in Object
    PROVE  /\ Columns(type, s, o) \in Row
           /\ Columns(type, s, o).customer = o.customer
           /\ Columns(type, s, o).stripeSub \in {Null, s}
<1>1. MapStatus(o.state) \in {"ACTIVE", "PAST_DUE", "CANCELLED"}
    BY DEF MapStatus
<1>2. o.customer \in Customers \cup {Null} /\ o.cancelAtPeriodEnd \in BOOLEAN
    BY DEF Object
<1>3. QED
    BY <1>1, <1>2 DEF Columns, Row, Tiers

(* What the event of a webhook at work tells.                              *)
LEMMA EventTypes ==
    ASSUME TypeOK, NEW w \in Hooks, hook[w] # Idle
    PROVE  /\ hook[w].event \in DOMAIN events /\ hook[w].object \in Object
           /\ Event(w) = events[hook[w].event] /\ Event(w).id \in Subscriptions
           /\ stripe[Event(w).id] \in Object
<1>1. hook[w].event \in DOMAIN events /\ hook[w].object \in Object
    BY HookTypes DEF TypeOK
<1>2. \A i \in DOMAIN events : events[i] \in EventRow
    BY DEF TypeOK
<1>3. events[hook[w].event] \in EventRow
    BY <1>1, <1>2, Zenon
<1>4. events[hook[w].event].id \in Subscriptions
    BY <1>3 DEF EventRow
<1>5. QED
    BY <1>1, <1>4 DEF TypeOK, Event

(* Every variable keeps its type.                                          *)
THEOREM BillingTypeCorrect == Spec => []TypeOK
<1>1. Init => TypeOK
    <2> SUFFICES ASSUME Init PROVE TypeOK
        OBVIOUS
    <2>1. Fresh \in Row /\ "FREE" \in Tiers /\ Idle \in CallerState
          /\ Idle \in HookState(DOMAIN events)
        BY DEF Fresh, Row, Tiers, CallerState, HookState
    <2>2. [state |-> "none", customer |-> Null, cancelAtPeriodEnd |-> FALSE] \in Object
        BY DEF Object
    <2>3. caller \in [Callers -> CallerState] /\ hook \in [Hooks -> HookState(DOMAIN events)]
        BY <2>1 DEF Init
    <2>4. stripe \in [Subscriptions -> Object] /\ sub \in Row /\ userType \in Tiers
        BY <2>1, <2>2 DEF Init
    <2>5. events \in Seq(EventRow) /\ unanswered \in SUBSET DOMAIN events
        BY DEF Init
    <2>6. QED
        BY <2>3, <2>4, <2>5 DEF Init, TypeOK
<1>2. TypeOK /\ [Next]_vars => TypeOK'
    <2> SUFFICES ASSUME TypeOK, [Next]_vars PROVE TypeOK'
        OBVIOUS
    <2> USE DEF database, external, observed, courses
    <2>1. ASSUME NEW s \in Subscriptions, Stripe(s) PROVE TypeOK'
        <3>1. \E types \in Seq({"completed", "upsert", "deleted"}),
                 state \in {"active", "past_due", "canceled", "expired"} :
                   Becomes(s, types, state) /\ paid' \in {paid, paid + 1}
            <4>1. /\ <<"completed", "upsert">> \in Seq({"completed", "upsert", "deleted"})
                  /\ <<"upsert">> \in Seq({"completed", "upsert", "deleted"})
                  /\ <<"deleted">> \in Seq({"completed", "upsert", "deleted"})
                  /\ <<>> \in Seq({"completed", "upsert", "deleted"})
                OBVIOUS
            <4>2. QED
                BY <2>1, <4>1
                   DEF Stripe, Pay, ChargeFails, ChargeSucceeds, PeriodEnds, SessionExpires
        <3>2. PICK types \in Seq({"completed", "upsert", "deleted"}),
                   state \in {"active", "past_due", "canceled", "expired"} :
                      Becomes(s, types, state) /\ paid' \in {paid, paid + 1}
            BY <3>1
        <3>3. PICK o \in Object : o = [stripe[s] EXCEPT !.state = state]
            BY ObjectTypes DEF TypeOK
        <3>4. Send(types, s, o)
            BY <3>2, <3>3 DEF Becomes
        <3>5. QED
            BY <3>2, <3>4, SendKeepsTypes DEF TypeOK, Becomes
    <2>2. ASSUME NEW c \in Callers, NEW op \in Ops, FindSubscription(c, op) PROVE TypeOK'
        <3>1. PICK state \in CallerState : CallerGoes(c, state)
            <4>1. [pc |-> "create", op |-> op] \in CallerState
                BY DEF CallerState
            <4>2. QED
                BY <2>2, <4>1, ThenTypes DEF FindSubscription, TypeOK
        <3>2. QED
            BY <2>2, <3>1, CallerTypes DEF FindSubscription, TypeOK
    <2>3. ASSUME NEW c \in Callers, CreateSubscription(c) PROVE TypeOK'
        <3>1. [pc |-> "free", op |-> caller[c].op] \in CallerState
            BY <2>3, CallerTypes DEF CreateSubscription, TypeOK, CallerState
        <3>2. Fresh \in Row
            BY DEF Fresh, Row, Tiers
        <3>3. QED
            BY <2>3, <3>1, <3>2, CallerTypes DEF CreateSubscription, TypeOK
    <2>4. ASSUME NEW c \in Callers, SyncFree(c) PROVE TypeOK'
        <3>1. Then(caller[c].op, Fresh) \in CallerState
            BY <2>4, CallerTypes, ThenTypes DEF SyncFree, TypeOK, Fresh, Row, Tiers
        <3>2. QED
            <4>1. caller' \in [Callers -> CallerState] /\ userType' \in Tiers
                BY <2>4, <3>1, CallerTypes DEF SyncFree, TypeOK, Tiers
            <4>2. freed' \in BOOLEAN
                BY <2>4, Zenon DEF SyncFree
            <4>3. QED
                BY <2>4, <4>1, <4>2 DEF SyncFree, TypeOK
    <2>5. ASSUME NEW c \in Callers, CreateCustomer(c) PROVE TypeOK'
        <3>1. \A k \in Customers : [pc |-> "save", id |-> k] \in CallerState
            BY DEF CallerState
        <3>2. QED
            BY <2>5, <3>1, CallerTypes DEF CreateCustomer, TypeOK
    <2>6. ASSUME NEW c \in Callers, SaveCustomer(c) PROVE TypeOK'
        <3>1. caller[c].id \in Customers
            BY <2>6, CallerTypes DEF SaveCustomer, TypeOK
        <3>2. [pc |-> "session", id |-> caller[c].id] \in CallerState
            BY <3>1 DEF CallerState
        <3>3. [sub EXCEPT !.customer = caller[c].id] \in Row
            BY <3>1 DEF TypeOK, Row
        <3>4. saved' \in SUBSET Customers
            BY <2>6, <3>1 DEF SaveCustomer, TypeOK
        <3>5. QED
            BY <2>6, <3>2, <3>3, <3>4, CallerTypes DEF SaveCustomer, TypeOK
    <2>7. ASSUME NEW c \in Callers, CreateSession(c) PROVE TypeOK'
        <3>1. PICK s \in Subscriptions :
                 /\ stripe[s].state = "none"
                 /\ stripe' = [stripe EXCEPT ![s].state = "offered", ![s].customer = caller[c].id]
            BY <2>7 DEF CreateSession
        <3>2. caller[c].id \in Customers
            BY <2>7, CallerTypes DEF CreateSession, TypeOK
        <3>3. [stripe[s] EXCEPT !.state = "offered", !.customer = caller[c].id] \in Object
            BY <3>2, ObjectTypes DEF TypeOK
        <3>4. stripe' \in [Subscriptions -> Object]
            BY <3>1, <3>3 DEF TypeOK
        <3>5. doubled' \in BOOLEAN
            BY <2>7, Zenon DEF CreateSession
        <3>6. caller' \in [Callers -> CallerState]
            BY <2>7, CallerTypes DEF CreateSession, CallerEnds, CallerState, TypeOK
        <3>7. QED
            BY <2>7, <3>4, <3>5, <3>6 DEF CreateSession, TypeOK
    <2>8. ASSUME NEW c \in Callers, CancelSubscription(c) \/ CancelImmediately(c) PROVE TypeOK'
        <3>1. caller[c].id \in Subscriptions
            BY <2>8, CallerTypes DEF CancelSubscription, CancelImmediately, TypeOK
        <3>2. PICK o \in Object, types \in Seq({"completed", "upsert", "deleted"}) :
                 Send(types, caller[c].id, o)
            <4>1. /\ <<"upsert">> \in Seq({"completed", "upsert", "deleted"})
                  /\ <<"deleted">> \in Seq({"completed", "upsert", "deleted"})
                OBVIOUS
            <4>2. stripe[caller[c].id] \in Object
                BY <3>1 DEF TypeOK
            <4>3. /\ [stripe[caller[c].id] EXCEPT !.cancelAtPeriodEnd = TRUE] \in Object
                  /\ [stripe[caller[c].id] EXCEPT !.state = "canceled"] \in Object
                BY <4>2, ObjectTypes
            <4>4. QED
                BY <2>8, <4>1, <4>3, Zenon DEF CancelSubscription, CancelImmediately
        <3>3. PICK state \in CallerState : CallerGoes(c, state)
            <4>1. Idle \in CallerState /\ [pc |-> "remove"] \in CallerState
                BY DEF CallerState
            <4>2. QED
                BY <2>8, <4>1 DEF CancelSubscription, CancelImmediately, CallerEnds
        <3>4. /\ UNCHANGED <<database, hook, created, observed>>
            BY <2>8 DEF CancelSubscription, CancelImmediately
        <3>5. QED
            BY <3>1, <3>2, <3>3, <3>4, SendKeepsTypes, CallerTypes DEF TypeOK
    <2>9. ASSUME NEW c \in Callers,
                 FindUserToDelete(c) \/ CancelRefused(c) \/ DeleteUser(c) \/ CallerFails(c)
          PROVE  TypeOK'
        <3>1. PICK state \in CallerState : CallerGoes(c, state)
            <4>1. Idle \in CallerState /\ [pc |-> "remove"] \in CallerState
                  /\ \A s \in Subscriptions : [pc |-> "cancelNow", id |-> s] \in CallerState
                BY DEF CallerState
            <4>2. sub.stripeSub # Null => sub.stripeSub \in Subscriptions
                BY DEF TypeOK, Row
            <4>3. QED
                BY <2>9, <4>1, <4>2
                   DEF FindUserToDelete, CancelRefused, DeleteUser, CallerFails, CallerEnds
        <3>2. account' \in {account, "gone"} /\ UNCHANGED <<sub, userType, hook, external, observed>>
            BY <2>9 DEF FindUserToDelete, CancelRefused, DeleteUser, CallerFails
        <3>3. QED
            BY <3>1, <3>2, CallerTypes DEF TypeOK
    <2>10. ASSUME NEW tier \in AdminTiers, ChangeTier(tier) PROVE TypeOK'
        <3>1. tier \in Tiers
            BY TiersAssumption
        <3>2. [sub EXCEPT !.tier = tier, !.status = "ACTIVE"] \in Row
            BY <3>1 DEF TypeOK, Row
        <3>3. granted' \in SUBSET Tiers
            BY <2>10, <3>1 DEF ChangeTier, TypeOK
        <3>4. overlapped' \in BOOLEAN
            BY <2>10, Zenon DEF ChangeTier
        <3>5. QED
            BY <2>10, <3>1, <3>2, <3>3, <3>4 DEF ChangeTier, TypeOK
    <2>11. ASSUME NEW w \in Hooks, NEW i \in unanswered, Receive(w, i) PROVE TypeOK'
        <3>1. events[i] \in EventRow /\ i \in DOMAIN events
            BY DEF TypeOK
        <3>2. PICK state \in HookState(DOMAIN events) : HookGoes(w, state)
            <4>1. \A p \in {"retrieve", "find"} :
                    [pc |-> p, event |-> i, object |-> events[i].object, upgrade |-> FALSE]
                        \in HookState(DOMAIN events)
                BY <3>1 DEF EventRow, HookState
            <4>2. QED
                BY <2>11, <4>1 DEF Receive
        <3>3. QED
            BY <2>11, <3>2, HookTypes DEF Receive, TypeOK
    <2>12. ASSUME NEW w \in Hooks, Retrieve(w) PROVE TypeOK'
        <3>1. hook[w] # Idle /\ hook[w].event \in DOMAIN events
            BY <2>12, HookTypes DEF Retrieve, TypeOK
        <3>2. stripe[Event(w).id] \in Object
            BY <3>1, EventTypes
        <3>3. hook' \in [Hooks -> HookState(DOMAIN events)]
            BY <2>12, <3>1, <3>2, HookContinues DEF Retrieve, TypeOK
        <3>4. QED
            BY <2>12, <3>3 DEF Retrieve, TypeOK
    <2>13. ASSUME NEW w \in Hooks, FindLocal(w) PROVE TypeOK'
        <3>1. hook[w] # Idle
            BY <2>13, HookTypes DEF FindLocal, TypeOK
        <3>2. Upgrades(w) \in BOOLEAN
            BY DEF Upgrades
        <3>3. PICK b \in BOOLEAN : b = Upgrades(w)
            BY <3>2, Zenon
        <3>4. PICK o \in Object : o = hook[w].object
            BY <3>1, EventTypes
        <3>5. Continues(w, "upsert", o, b) \/ HookGoes(w, Idle)
            BY <2>13, <3>3, <3>4, Zenon DEF FindLocal, Answer
        <3>6. hook' \in [Hooks -> HookState(DOMAIN events)]
            BY <3>1, <3>5, HookTypes, HookContinues DEF TypeOK, HookState
        <3>7. unanswered' \in SUBSET DOMAIN events
            BY <2>13 DEF FindLocal, Answer, TypeOK
        <3>8. overlapped' \in BOOLEAN
            BY <2>13, Zenon DEF FindLocal, TypeOK
        <3>9. QED
            BY <2>13, <3>6, <3>7, <3>8 DEF FindLocal, TypeOK
    <2>14. ASSUME NEW w \in Hooks, UpsertSubscription(w) \/ SyncUserType(w) PROVE TypeOK'
        <3>1. hook[w] # Idle
            BY <2>14, HookTypes DEF UpsertSubscription, SyncUserType, TypeOK
        <3>2. hook[w].object \in Object /\ Event(w).id \in Subscriptions
            BY <3>1, EventTypes
        <3>3. Columns(Event(w).type, Event(w).id, hook[w].object) \in Row
            BY <3>2, ColumnsTypes
        <3>4. PICK b \in BOOLEAN : b = hook[w].upgrade
            BY <3>1, HookTypes, Zenon DEF TypeOK
        <3>5. Continues(w, "sync", hook[w].object, b) \/ Continues(w, "answer", hook[w].object, b)
            BY <2>14, <3>4, Zenon DEF UpsertSubscription, SyncUserType
        <3>6. hook' \in [Hooks -> HookState(DOMAIN events)]
            BY <3>1, <3>2, <3>5, HookContinues DEF TypeOK
        <3>7. sub' \in Row /\ userType' \in Tiers /\ account' \in {"user", "subscribed", "gone"}
            BY <2>14, <3>3 DEF UpsertSubscription, SyncUserType, TypeOK, Row
        <3>8. latest' \in {0} \cup DOMAIN events
            BY <2>14, <3>1, HookTypes DEF UpsertSubscription, SyncUserType, TypeOK
        <3>9. stale' \in BOOLEAN
            BY <2>14, Zenon DEF UpsertSubscription, SyncUserType, TypeOK
        <3>10. QED
            BY <2>14, <3>6, <3>7, <3>8, <3>9 DEF UpsertSubscription, SyncUserType, TypeOK
    <2>15. ASSUME NEW w \in Hooks, MailAndAnswer(w) \/ HookFails(w) PROVE TypeOK'
        <3>1. HookGoes(w, Idle)
            BY <2>15 DEF MailAndAnswer, Answer, HookFails
        <3>2. hook' \in [Hooks -> HookState(DOMAIN events)]
            BY <3>1, HookTypes DEF TypeOK, HookState
        <3>3. unanswered' \in SUBSET DOMAIN events /\ welcomes' \in Nat
            BY <2>15 DEF MailAndAnswer, Answer, HookFails, TypeOK
        <3>4. UNCHANGED <<database, caller, created, stripe, events, granted, courses, paid>>
            BY <2>15 DEF MailAndAnswer, HookFails
        <3>5. QED
            BY <3>2, <3>3, <3>4 DEF TypeOK
    <2>16. CASE UNCHANGED vars
        BY <2>16 DEF vars, TypeOK
    <2>17. QED
        BY <2>1, <2>2, <2>3, <2>4, <2>5, <2>6, <2>7, <2>8, <2>9, <2>10, <2>11, <2>12, <2>13,
           <2>14, <2>15, <2>16 DEF Next, Call, Webhook
<1>3. QED
    BY <1>1, <1>2, PTL DEF Spec

-----------------------------------------------------------------------------
(* What Stripe tells                                                       *)

(* Stripe tells of s, which becomes o, by events of the types.             *)
Tell(s, types, o) ==
    /\ Send(types, s, o) /\ o.customer = stripe[s].customer
    /\ \/ /\ stripe[s].state = "offered" /\ types = <<"completed", "upsert">>
          /\ o.state = "active" /\ paid' = paid + 1
       \/ /\ stripe[s].state = "offered" /\ types = <<>>
          /\ o.state = "expired" /\ paid' = paid
       \/ /\ stripe[s].state \in Live /\ types = <<"upsert">>
          /\ o.state \in Live /\ paid' = paid
       \/ /\ stripe[s].state \in Live /\ types = <<"deleted">>
          /\ o.state = "canceled" /\ paid' = paid

Types == {"completed", "upsert", "deleted"}

Telling ==
    /\ \E s \in Subscriptions, types \in Seq(Types), o \in Object : Tell(s, types, o)
    /\ UNCHANGED <<database, hook, created, granted, courses, welcomes>>
    /\ \A c \in Callers : caller'[c] = caller[c] \/ caller'[c].pc \in {"idle", "remove"}

LEMMA StripeTells ==
    ASSUME TypeOK, NEW s \in Subscriptions, Stripe(s)
    PROVE  Telling
<1>1. /\ <<"completed", "upsert">> \in Seq(Types) /\ <<"upsert">> \in Seq(Types)
      /\ <<"deleted">> \in Seq(Types) /\ <<>> \in Seq(Types)
    BY DEF Types
<1>2. PICK types \in Seq(Types), state \in {"active", "past_due", "canceled", "expired"} :
         /\ Becomes(s, types, state)
         /\ \/ /\ stripe[s].state = "offered" /\ types = <<"completed", "upsert">>
               /\ state = "active" /\ paid' = paid + 1
            \/ stripe[s].state = "offered" /\ types = <<>> /\ state = "expired" /\ paid' = paid
            \/ stripe[s].state \in Live /\ types = <<"upsert">> /\ state \in Live /\ paid' = paid
            \/ /\ stripe[s].state \in Live /\ types = <<"deleted">>
               /\ state = "canceled" /\ paid' = paid
    BY <1>1 DEF Stripe, Pay, ChargeFails, ChargeSucceeds, PeriodEnds, SessionExpires, Live
<1>3. PICK o \in Object : /\ o = [stripe[s] EXCEPT !.state = state]
                          /\ o.state = state /\ o.customer = stripe[s].customer
    <2>1. stripe[s] \in Object
        BY DEF TypeOK
    <2>2. /\ [stripe[s] EXCEPT !.state = state] \in Object
          /\ [stripe[s] EXCEPT !.state = state].state = state
          /\ [stripe[s] EXCEPT !.state = state].customer = stripe[s].customer
        BY <2>1, ObjectTypes
    <2>3. QED
        BY <2>2, Zenon
<1>4. Tell(s, types, o)
    BY <1>2, <1>3 DEF Becomes, Tell
<1>5. UNCHANGED <<database, caller, hook, created, granted, courses, welcomes>>
    BY <1>2 DEF Becomes
<1>6. QED
    BY <1>4, <1>5 DEF Telling

LEMMA CallerTells ==
    ASSUME TypeOK, NEW c \in Callers, CancelSubscription(c) \/ CancelImmediately(c)
    PROVE  Telling
<1>1. <<"upsert">> \in Seq(Types) /\ <<"deleted">> \in Seq(Types)
    BY DEF Types
<1>2. PICK s \in Subscriptions : s = caller[c].id
    BY CallerTypes DEF CancelSubscription, CancelImmediately, TypeOK
<1>3. stripe[s] \in Object
    BY DEF TypeOK
<1>4. PICK o \in Object, types \in Seq(Types) :
         /\ Send(types, s, o) /\ stripe[s].state \in Live /\ o.customer = stripe[s].customer
         /\ \/ types = <<"upsert">> /\ o.state = stripe[s].state
            \/ types = <<"deleted">> /\ o.state = "canceled"
    <2>1. CASE CancelSubscription(c)
        <3>1. PICK o \in Object : /\ o = [stripe[s] EXCEPT !.cancelAtPeriodEnd = TRUE]
                                  /\ o.state = stripe[s].state /\ o.customer = stripe[s].customer
            <4>1. /\ [stripe[s] EXCEPT !.cancelAtPeriodEnd = TRUE] \in Object
                  /\ [stripe[s] EXCEPT !.cancelAtPeriodEnd = TRUE].state = stripe[s].state
                  /\ [stripe[s] EXCEPT !.cancelAtPeriodEnd = TRUE].customer = stripe[s].customer
                BY <1>3, ObjectTypes
            <4>2. QED
                BY <4>1, Zenon
        <3>2. QED
            BY <1>1, <1>2, <2>1, <3>1, Zenon DEF CancelSubscription
    <2>2. CASE CancelImmediately(c)
        <3>1. PICK o \in Object : /\ o = [stripe[s] EXCEPT !.state = "canceled"]
                                  /\ o.state = "canceled" /\ o.customer = stripe[s].customer
            <4>1. /\ [stripe[s] EXCEPT !.state = "canceled"] \in Object
                  /\ [stripe[s] EXCEPT !.state = "canceled"].state = "canceled"
                  /\ [stripe[s] EXCEPT !.state = "canceled"].customer = stripe[s].customer
                BY <1>3, ObjectTypes
            <4>2. QED
                BY <4>1, Zenon
        <3>2. QED
            BY <1>1, <1>2, <2>2, <3>1, Zenon DEF CancelImmediately
    <2>3. QED
        BY <2>1, <2>2
<1>5. UNCHANGED <<database, hook, created, observed>>
    BY DEF CancelSubscription, CancelImmediately
<1>6. Tell(s, types, o)
    BY <1>4, <1>5 DEF Tell, observed
<1>7. \A d \in Callers : caller'[d] = caller[d] \/ caller'[d].pc \in {"idle", "remove"}
    <2>1. PICK state \in CallerState : CallerGoes(c, state) /\ state.pc \in {"idle", "remove"}
        <3>1. Idle \in CallerState /\ [pc |-> "remove"] \in CallerState
            BY DEF CallerState
        <3>2. QED
            BY <3>1 DEF CancelSubscription, CancelImmediately, CallerEnds, Idle
    <2>2. QED
        BY <2>1, CallerTypes DEF TypeOK
<1>8. QED
    BY <1>5, <1>6, <1>7 DEF Telling, observed

(* The events that are sent.                                               *)
LEMMA TellSays ==
    ASSUME TypeOK, NEW s \in Subscriptions, NEW types \in Seq(Types), NEW o \in Object,
           Tell(s, types, o)
    PROVE  /\ DOMAIN events = 1 .. Len(events) /\ DOMAIN events' = 1 .. Len(events')
           /\ Len(events) \in Nat /\ Len(events') \in Nat /\ Len(events) <= Len(events')
           /\ \A i \in DOMAIN events : events'[i] = events[i]
           /\ \A i \in DOMAIN events' \ DOMAIN events :
                 /\ events'[i].id = s /\ events'[i].object = o
                 /\ events'[i].type = "deleted" <=> types = <<"deleted">>
           /\ unanswered' = unanswered \cup (DOMAIN events' \ DOMAIN events)
           /\ types = <<"deleted">> => Len(events') = Len(events) + 1
           /\ types = <<>> <=> events' = events
           /\ types = <<>> <=> Len(events') = Len(events)
           /\ stripe'[s] = o /\ \A r \in Subscriptions \ {s} : stripe'[r] = stripe[r]
<1> DEFINE new == [i \in 1 .. Len(types) |-> [type |-> types[i], id |-> s, object |-> o]]
<1>1. new \in Seq(EventRow) /\ Len(new) = Len(types) /\ Len(types) \in Nat
    <2>1. \A i \in 1 .. Len(types) : [type |-> types[i], id |-> s, object |-> o] \in EventRow
        BY DEF EventRow, Types
    <2>2. QED
        BY <2>1
<1>2. \A i \in 1 .. Len(types) : new[i].id = s /\ new[i].object = o /\ new[i].type = types[i]
    OBVIOUS
<1>3. events' = events \o new /\ stripe' = [stripe EXCEPT ![s] = o]
      /\ unanswered' = unanswered \cup (Len(events) + 1 .. Len(events) + Len(types))
    BY DEF Tell, Send
<1> HIDE DEF new
<1>4. /\ events' \in Seq(EventRow) /\ Len(events') = Len(events) + Len(new)
      /\ \A i \in 1 .. Len(events') :
            events'[i] = IF i <= Len(events) THEN events[i] ELSE new[i - Len(events)]
    <2>1. events \in Seq(EventRow)
        BY DEF TypeOK
    <2>2. /\ events \o new \in Seq(EventRow) /\ Len(events \o new) = Len(events) + Len(new)
          /\ \A i \in 1 .. Len(events) + Len(new) :
                (events \o new)[i] = IF i <= Len(events) THEN events[i] ELSE new[i - Len(events)]
        BY <1>1, <2>1, ConcatProperties, Zenon
    <2>3. QED
        BY <1>3, <2>2, Zenon
<1>5. /\ DOMAIN events = 1 .. Len(events) /\ DOMAIN events' = 1 .. Len(events')
      /\ Len(events) \in Nat /\ Len(events') \in Nat
    BY <1>4 DEF TypeOK
<1>6. \A i \in DOMAIN events' \ DOMAIN events : i - Len(events) \in 1 .. Len(types)
    BY <1>1, <1>4, <1>5
<1>7. \/ types = <<"completed", "upsert">> \/ types = <<"upsert">>
      \/ types = <<"deleted">> \/ types = <<>>
    BY DEF Tell
<1>8. \A i \in 1 .. Len(types) : types[i] = "deleted" <=> types = <<"deleted">>
    BY <1>7
<1>9. /\ types = <<"deleted">> => Len(types) = 1
      /\ types = <<>> <=> Len(types) = 0
    BY <1>7
<1>10. DOMAIN events' \ DOMAIN events = Len(events) + 1 .. Len(events) + Len(types)
    BY <1>1, <1>4, <1>5
<1>11. types = <<>> => events' = events
    <2>1. ASSUME types = <<>> PROVE events' = events
        <3>1. Len(events') = Len(events)
            BY <1>1, <1>4, <1>5, <1>9, <2>1
        <3>2. \A i \in 1 .. Len(events) : events'[i] = events[i]
            BY <1>4, <3>1
        <3>3. events \in Seq(EventRow) /\ events' \in Seq(EventRow)
            BY <1>4 DEF TypeOK
        <3>4. QED
            BY <3>1, <3>2, <3>3, SeqEqual, Zenon
    <2>2. QED
        BY <2>1
<1>12. \A i \in DOMAIN events : events'[i] = events[i]
    BY <1>1, <1>4, <1>5
<1>13. \A i \in DOMAIN events' \ DOMAIN events :
          /\ events'[i].id = s /\ events'[i].object = o
          /\ events'[i].type = "deleted" <=> types = <<"deleted">>
    BY <1>2, <1>4, <1>5, <1>6, <1>8
<1>14. stripe'[s] = o /\ \A r \in Subscriptions \ {s} : stripe'[r] = stripe[r]
    BY <1>3 DEF TypeOK
<1>15. /\ Len(events) <= Len(events')
       /\ types = <<"deleted">> => Len(events') = Len(events) + 1
       /\ types = <<>> <=> Len(events') = Len(events)
    <2>1. PICK n \in Nat : n = Len(types)
        BY <1>1
    <2>2. Len(events') = Len(events) + n
        BY <1>1, <1>4, <2>1
    <2>3. (types = <<"deleted">> => n = 1) /\ (types = <<>> <=> n = 0)
        BY <1>9, <2>1, Zenon
    <2>4. /\ Len(events) <= Len(events')
          /\ n = 1 => Len(events') = Len(events) + 1
          /\ n = 0 <=> Len(events') = Len(events)
        <3>1. PICK a \in Nat, b \in Nat : a = Len(events) /\ b = Len(events')
            BY <1>5
        <3>2. b = a + n
            BY <2>2, <3>1
        <3>3. a <= b /\ (n = 1 => b = a + 1) /\ (n = 0 <=> b = a)
            BY <3>2
        <3>4. QED
            BY <3>1, <3>3
    <2>5. QED
        BY <2>3, <2>4, Zenon
<1>16. QED
    BY <1>3, <1>5, <1>10, <1>11, <1>12, <1>13, <1>14, <1>15

(* What is known of the events that were sent.                             *)
LEMMA EventIds ==
    ASSUME TypeOK
    PROVE  /\ \A i \in DOMAIN events : events[i].id \in Subscriptions /\ i \in Nat
           /\ unanswered \subseteq DOMAIN events
           /\ DOMAIN events = 1 .. Len(events) /\ Len(events) \in Nat
<1>1. \A i \in DOMAIN events : events[i] \in EventRow
    BY DEF TypeOK
<1>2. DOMAIN events = 1 .. Len(events) /\ Len(events) \in Nat
    BY DEF TypeOK
<1>3. QED
    BY <1>1, <1>2 DEF TypeOK, EventRow

-----------------------------------------------------------------------------
(* What requests do                                                        *)

Open == {s \in Subscriptions : stripe[s].state \in Live \cup {"offered"}}

Opens ==
    /\ \E s \in Subscriptions :
          /\ stripe[s].state = "none" /\ stripe'[s].state = "offered"
          /\ \A r \in Subscriptions \ {s} : stripe'[r] = stripe[r]
    /\ ~doubled' => ~doubled /\ Open = {}

(* A request that sends no event leaves the two tables as they are, makes  *)
(* the row, or makes the user FREE.                                        *)
Calls ==
    /\ UNCHANGED <<hook, events, unanswered, granted, paid, welcomes>>
    /\ UNCHANGED <<latest, stale, overlapped>> /\ saved \subseteq saved'
    /\ UNCHANGED <<stripe, doubled>> \/ Opens
    /\ \/ /\ account' \in {account, "gone"} /\ UNCHANGED <<userType, freed>>
          /\ sub'.tier = sub.tier /\ sub'.stripeSub = sub.stripeSub
       \/ /\ account = "user" /\ account' = "subscribed" /\ UNCHANGED <<userType, freed>>
          /\ sub' = Fresh
       \/ /\ UNCHANGED <<account, sub>> /\ userType' = "FREE"
          /\ ~freed' => ~freed /\ sub.tier = "FREE"

LEMMA CallKinds ==
    ASSUME TypeOK, NEW c \in Callers, Call(c)
    PROVE  Telling \/ Calls
<1> USE DEF database, external, observed, courses
<1>1. ASSUME CreateSession(c) PROVE Calls
    <2>1. PICK s \in Subscriptions :
             /\ stripe[s].state = "none"
             /\ stripe' = [stripe EXCEPT ![s].state = "offered", ![s].customer = caller[c].id]
        BY <1>1 DEF CreateSession
    <2>2. stripe[s] \in Object /\ stripe \in [Subscriptions -> Object]
        BY DEF TypeOK
    <2>3. stripe'[s].state = "offered" /\ \A r \in Subscriptions \ {s} : stripe'[r] = stripe[r]
        BY <2>1, <2>2 DEF Object
    <2>4. ~doubled' => ~doubled /\ Open = {}
        <3>1. doubled' = (doubled \/ \E r \in Subscriptions : stripe[r].state \in Live \cup {"offered"})
            BY <1>1, Zenon DEF CreateSession
        <3>2. doubled \in BOOLEAN
            BY DEF TypeOK
        <3>3. QED
            BY <3>1, <3>2, Zenon DEF Open
    <2>5. Opens
        BY <2>1, <2>3, <2>4 DEF Opens
    <2>6. QED
        BY <1>1, <2>5 DEF Calls, CreateSession
<1>2. ASSUME CancelSubscription(c) \/ CancelImmediately(c) PROVE Telling
    BY <1>2, CallerTells
<1>3. ASSUME SyncFree(c) PROVE Calls
    <2>1. ~freed' => ~freed /\ sub.tier = "FREE"
        BY <1>3, Zenon DEF SyncFree
    <2>2. QED
        BY <1>3, <2>1 DEF Calls, SyncFree
<1>4. ASSUME SaveCustomer(c) PROVE Calls
    <2>1. sub'.tier = sub.tier /\ sub'.stripeSub = sub.stripeSub
        BY <1>4 DEF SaveCustomer, TypeOK, Row
    <2>2. QED
        BY <1>4, <2>1 DEF Calls, SaveCustomer
<1>5. ASSUME CreateSubscription(c) PROVE Calls
    BY <1>5 DEF Calls, CreateSubscription
<1>6. ASSUME \/ \E op \in Ops : FindSubscription(c, op)
             \/ CreateCustomer(c) \/ FindUserToDelete(c) \/ CancelRefused(c) \/ DeleteUser(c)
             \/ CallerFails(c)
      PROVE  Calls
    BY <1>6 DEF Calls, FindSubscription, CreateCustomer, FindUserToDelete, CancelRefused,
                DeleteUser, CallerFails
<1>7. QED
    BY <1>1, <1>2, <1>3, <1>4, <1>5, <1>6 DEF Call

-----------------------------------------------------------------------------
(* What webhooks do                                                        *)

Others(w) == \A v \in Hooks \ {w} : hook'[v] = hook[v]
Elsewhere == <<caller, created, stripe, events>>

(* Before it has found the row ...                                         *)
Rests(w) ==
    /\ Others(w) /\ UNCHANGED <<database, external, caller, observed>>
    /\ \/ hook'[w] = Idle
       \/ /\ hook'[w].pc \in {"retrieve", "find"}
          /\ \E i \in DOMAIN events : hook'[w].object \in {events[i].object, stripe[events[i].id]}

(* ... or where it finds none, a webhook writes nothing.                   *)
Drops(w) ==
    /\ Others(w) /\ UNCHANGED <<database, Elsewhere, observed>>
    /\ hook[w] # Idle /\ hook'[w] = Idle
    /\ unanswered' \in {unanswered, unanswered \ {hook[w].event}}
    /\ account = "subscribed" => sub.customer # hook[w].object.customer

(* It goes on from one step to the next with what it knows.                *)
Proceeds(w, p, q) ==
    /\ Others(w) /\ UNCHANGED <<Elsewhere, unanswered, granted, paid, welcomes, doubled, saved, freed>>
    /\ HookAt(w, p) /\ hook[w] # Idle /\ hook'[w] # Idle /\ hook'[w].pc = q
    /\ hook'[w].event = hook[w].event /\ hook'[w].object = hook[w].object

Finds(w) ==
    /\ Proceeds(w, "find", "upsert") /\ UNCHANGED <<database, latest, stale>>
    /\ account = "subscribed"
    /\ hook'[w].upgrade <=> Upgrades(w)
    /\ ~overlapped' => ~overlapped /\ Writers = {} /\ hook[w].event \in unanswered

Writes(w) ==
    /\ Proceeds(w, "upsert", "sync") /\ UNCHANGED <<userType, overlapped>>
    /\ hook'[w].upgrade <=> hook[w].upgrade
    /\ account # "gone" /\ account' = "subscribed"
    /\ sub'.tier = TierOf(hook[w].event) /\ sub'.customer = hook[w].object.customer
    /\ sub'.stripeSub = IF Event(w).type = "deleted" THEN Null ELSE Event(w).id
    /\ latest' = IF hook[w].event > latest THEN hook[w].event ELSE latest
    /\ ~stale' => ~stale /\ (hook[w].event < latest => ~SaysOtherwise(hook[w].event, latest))

Syncs(w) ==
    /\ Proceeds(w, "sync", "answer") /\ UNCHANGED <<account, sub, latest, stale, overlapped>>
    /\ hook'[w].upgrade <=> hook[w].upgrade
    /\ userType' = TierOf(hook[w].event)

Mails(w) ==
    /\ Others(w) /\ UNCHANGED <<database, Elsewhere, granted, courses, paid>>
    /\ HookAt(w, "answer") /\ hook[w] # Idle /\ hook'[w] = Idle
    /\ unanswered' \in {unanswered, unanswered \ {hook[w].event}}
    /\ welcomes' = welcomes \/ (hook[w].upgrade /\ welcomes' = welcomes + 1)

LEMMA HookGoesOn ==
    ASSUME TypeOK, NEW w \in Hooks, hook[w] # Idle,
           NEW p \in {"find", "upsert", "sync", "answer"}, NEW o \in Object, NEW b \in BOOLEAN,
           Continues(w, p, o, b)
    PROVE  /\ hook'[w] # Idle /\ hook'[w].pc = p /\ hook'[w].event = hook[w].event
           /\ hook'[w].object = o /\ (hook'[w].upgrade <=> b) /\ Others(w)
<1>1. PICK h : h = [pc |-> p, event |-> hook[w].event, object |-> o, upgrade |-> b]
    OBVIOUS
<1>2. h.pc = p /\ h.event = hook[w].event /\ h.object = o /\ h # Idle
    BY <1>1 DEF Idle
<1>3. h.upgrade = b
    BY <1>1
<1>4. HookGoes(w, h)
    BY <1>1, Zenon DEF Continues
<1>5. hook' = [hook EXCEPT ![w] = h] /\ hook \in [Hooks -> HookState(DOMAIN events)]
    BY <1>4 DEF HookGoes, TypeOK
<1>6. hook'[w] = h /\ \A v \in Hooks \ {w} : hook'[v] = hook[v]
    BY <1>5
<1>7. hook'[w].upgrade <=> b
    BY <1>3, <1>6, Zenon
<1>8. QED
    BY <1>2, <1>6, <1>7 DEF Others

LEMMA HookEnds ==
    ASSUME TypeOK, NEW w \in Hooks, HookGoes(w, Idle)
    PROVE  hook'[w] = Idle /\ Others(w)
BY DEF HookGoes, TypeOK, Others

LEMMA HookKinds ==
    ASSUME TypeOK, NEW w \in Hooks, Webhook(w)
    PROVE  Rests(w) \/ Drops(w) \/ Finds(w) \/ Writes(w) \/ Syncs(w) \/ Mails(w)
<1> USE DEF database, external, observed, courses
<1>0. \A i \in DOMAIN events : events[i] \in EventRow
    BY DEF TypeOK
<1>1. ASSUME NEW i \in unanswered, Receive(w, i) PROVE Rests(w)
    <2> DEFINE Starts(p) == [pc |-> p, event |-> i, object |-> events[i].object, upgrade |-> FALSE]
    <2>0. PICK p \in {"retrieve", "find"} : HookGoes(w, Starts(p))
        BY <1>1, Zenon DEF Receive
    <2>1. PICK h : h = Starts(p) /\ HookGoes(w, h)
        BY <2>0
    <2>2. h.pc = p /\ h.object = events[i].object
        BY <2>1
    <2>3. hook'[w] = h /\ Others(w)
        BY <2>1 DEF HookGoes, TypeOK, Others
    <2>4. UNCHANGED <<database, external, caller, observed>>
        BY <1>1 DEF Receive
    <2>5. i \in DOMAIN events
        BY DEF TypeOK
    <2>6. QED
        BY <2>2, <2>3, <2>4, <2>5 DEF Rests
<1>2. ASSUME Retrieve(w) PROVE Rests(w)
    <2>1. hook[w] # Idle /\ UNCHANGED <<database, external, caller, observed>>
        BY <1>2, HookTypes DEF Retrieve, TypeOK
    <2>2. PICK o \in Object : o = stripe[Event(w).id] /\ Continues(w, "find", o, FALSE)
        BY <1>2, <2>1, EventTypes DEF Retrieve
    <2>3. hook'[w].pc = "find" /\ hook'[w].object = o /\ Others(w)
        BY <2>1, <2>2, HookGoesOn
    <2>4. hook[w].event \in DOMAIN events /\ o = stripe[events[hook[w].event].id]
        BY <2>1, <2>2, EventTypes DEF Event
    <2>5. QED
        BY <2>1, <2>3, <2>4 DEF Rests
<1>3. ASSUME HookFails(w) PROVE Rests(w)
    BY <1>3, HookEnds DEF HookFails, Rests
<1>4. ASSUME FindLocal(w) PROVE Drops(w) \/ Finds(w)
    <2>1. /\ hook[w] # Idle /\ HookAt(w, "find")
          /\ UNCHANGED <<database, Elsewhere, granted, paid, welcomes>>
          /\ UNCHANGED <<doubled, saved, latest, stale, freed>>
        BY <1>4, HookTypes DEF FindLocal, Elsewhere, TypeOK
    <2>2. PICK o \in Object : o = hook[w].object
        BY <2>1, EventTypes
    <2>3. PICK b \in BOOLEAN : b = Upgrades(w)
        <3>1. Upgrades(w) \in BOOLEAN
            BY DEF Upgrades
        <3>2. QED
            BY <3>1, Zenon
    <2>4. CASE account = "subscribed" /\ sub.customer = hook[w].object.customer
        <3>1. /\ Continues(w, "upsert", o, b) /\ UNCHANGED unanswered
              /\ overlapped' = (overlapped \/ Writers # {} \/ hook[w].event \notin unanswered)
            BY <1>4, <2>2, <2>3, <2>4, Zenon DEF FindLocal
        <3>2. /\ hook'[w] # Idle /\ hook'[w].pc = "upsert" /\ hook'[w].event = hook[w].event
              /\ hook'[w].object = hook[w].object /\ Others(w)
            BY <2>1, <2>2, <3>1, HookGoesOn
        <3>3. hook'[w].upgrade <=> Upgrades(w)
            <4>1. hook'[w].upgrade <=> b
                BY <2>1, <3>1, HookGoesOn
            <4>2. QED
                BY <2>3, <4>1, Zenon
        <3>4. ~overlapped' => ~overlapped /\ Writers = {} /\ hook[w].event \in unanswered
            BY <3>1, Zenon
        <3>5. Proceeds(w, "find", "upsert")
            BY <2>1, <3>1, <3>2 DEF Proceeds
        <3>6. Finds(w)
            BY <2>1, <2>4, <3>3, <3>4, <3>5 DEF Finds
        <3>7. QED
            BY <3>6
    <2>5. CASE ~(account = "subscribed" /\ sub.customer = hook[w].object.customer)
        <3>1. /\ HookGoes(w, Idle) /\ unanswered' \in {unanswered, unanswered \ {hook[w].event}}
              /\ UNCHANGED overlapped
            BY <1>4, <2>5, Zenon DEF FindLocal, Answer
        <3>2. hook'[w] = Idle /\ Others(w)
            BY <3>1, HookEnds
        <3>3. Drops(w)
            BY <2>1, <2>5, <3>1, <3>2 DEF Drops
        <3>4. QED
            BY <3>3
    <2>6. QED
        BY <2>4, <2>5
<1>5. ASSUME UpsertSubscription(w) PROVE Writes(w)
    <2>1. /\ hook[w] # Idle /\ HookAt(w, "upsert") /\ UNCHANGED <<userType, Elsewhere, unanswered>>
          /\ UNCHANGED <<granted, paid, welcomes, doubled, saved, overlapped, freed>>
          /\ account # "gone" /\ account' = "subscribed"
        BY <1>5, HookTypes DEF UpsertSubscription, Elsewhere, TypeOK
    <2>2. PICK o \in Object : o = hook[w].object
        BY <2>1, EventTypes
    <2>3. PICK b \in BOOLEAN : b = hook[w].upgrade
        BY <2>1, HookTypes, Zenon DEF TypeOK
    <2>4. Continues(w, "sync", o, b)
        BY <1>5, <2>2, <2>3, Zenon DEF UpsertSubscription
    <2>5. /\ hook'[w] # Idle /\ hook'[w].pc = "sync" /\ hook'[w].event = hook[w].event
          /\ hook'[w].object = hook[w].object /\ Others(w)
        BY <2>1, <2>2, <2>4, HookGoesOn
    <2>6. hook'[w].upgrade <=> hook[w].upgrade
        <3>1. hook'[w].upgrade <=> b
            BY <2>1, <2>4, HookGoesOn
        <3>2. QED
            BY <2>3, <3>1, Zenon
    <2>7. /\ sub'.tier = TierOf(hook[w].event) /\ sub'.customer = hook[w].object.customer
          /\ sub'.stripeSub = IF Event(w).type = "deleted" THEN Null ELSE Event(w).id
        BY <1>5 DEF UpsertSubscription, Columns, TierOf, Event
    <2>8. latest' = IF hook[w].event > latest THEN hook[w].event ELSE latest
        BY <1>5, Zenon DEF UpsertSubscription
    <2>9. ~stale' => ~stale /\ (hook[w].event < latest => ~SaysOtherwise(hook[w].event, latest))
        BY <1>5, Zenon DEF UpsertSubscription
    <2>10. Proceeds(w, "upsert", "sync")
        BY <2>1, <2>5 DEF Proceeds
    <2>11. QED
        BY <2>1, <2>6, <2>7, <2>8, <2>9, <2>10 DEF Writes
<1>6. ASSUME SyncUserType(w) PROVE Syncs(w)
    <2>1. /\ hook[w] # Idle /\ HookAt(w, "sync")
          /\ UNCHANGED <<account, sub, Elsewhere, unanswered, observed>>
        BY <1>6, HookTypes DEF SyncUserType, Elsewhere, TypeOK
    <2>2. PICK o \in Object : o = hook[w].object
        BY <2>1, EventTypes
    <2>3. PICK b \in BOOLEAN : b = hook[w].upgrade
        BY <2>1, HookTypes, Zenon DEF TypeOK
    <2>4. Continues(w, "answer", o, b)
        BY <1>6, <2>2, <2>3, Zenon DEF SyncUserType
    <2>5. /\ hook'[w] # Idle /\ hook'[w].pc = "answer" /\ hook'[w].event = hook[w].event
          /\ hook'[w].object = hook[w].object /\ Others(w)
        BY <2>1, <2>2, <2>4, HookGoesOn
    <2>6. hook'[w].upgrade <=> hook[w].upgrade
        <3>1. hook'[w].upgrade <=> b
            BY <2>1, <2>4, HookGoesOn
        <3>2. QED
            BY <2>3, <3>1, Zenon
    <2>7. userType' = TierOf(hook[w].event)
        BY <1>6 DEF SyncUserType, Columns, TierOf, Event
    <2>8. Proceeds(w, "sync", "answer")
        BY <2>1, <2>5 DEF Proceeds
    <2>9. QED
        BY <2>1, <2>6, <2>7, <2>8 DEF Syncs
<1>7. ASSUME MailAndAnswer(w) PROVE Mails(w)
    <2>1. /\ hook[w] # Idle /\ HookAt(w, "answer")
          /\ UNCHANGED <<database, Elsewhere, granted, courses, paid>>
          /\ HookGoes(w, Idle) /\ unanswered' \in {unanswered, unanswered \ {hook[w].event}}
        BY <1>7, HookTypes DEF MailAndAnswer, Answer, Elsewhere, TypeOK
    <2>2. hook'[w] = Idle /\ Others(w)
        BY <2>1, HookEnds
    <2>3. welcomes' = welcomes \/ (hook[w].upgrade /\ welcomes' = welcomes + 1)
        <3>1. welcomes' \in {welcomes, welcomes + (IF hook[w].upgrade THEN 1 ELSE 0)}
            BY <1>7 DEF MailAndAnswer
        <3>2. CASE hook[w].upgrade
            BY <3>1, <3>2
        <3>3. CASE ~hook[w].upgrade
            BY <3>1, <3>3 DEF TypeOK
        <3>4. QED
            BY <3>2, <3>3
    <2>4. QED
        BY <2>1, <2>2, <2>3 DEF Mails
<1>8. QED
    BY <1>1, <1>2, <1>3, <1>4, <1>5, <1>6, <1>7 DEF Webhook

(* A step either tells, or opens a session, or leaves Stripe as it is.     *)
LEMMA StripeSide ==
    ASSUME TypeOK, [Next]_vars
    PROVE  Telling \/ (UNCHANGED <<events, paid>> /\ (UNCHANGED <<stripe, doubled>> \/ Opens))
<1> USE DEF database, external, observed, courses
<1>1. ASSUME NEW c \in Callers, Call(c)
      PROVE  Telling \/ (UNCHANGED <<events, paid>> /\ (UNCHANGED <<stripe, doubled>> \/ Opens))
    BY <1>1, CallKinds DEF Calls
<1>2. ASSUME NEW w \in Hooks, Webhook(w) PROVE UNCHANGED <<events, paid, stripe, doubled>>
    BY <1>2 DEF Webhook, Receive, Retrieve, FindLocal, UpsertSubscription, SyncUserType,
                MailAndAnswer, HookFails
<1>3. ASSUME NEW tier \in AdminTiers, ChangeTier(tier) PROVE UNCHANGED <<events, paid, stripe, doubled>>
    BY <1>3 DEF ChangeTier
<1>4. CASE UNCHANGED vars
    BY <1>4 DEF vars
<1>5. QED
    BY <1>1, <1>2, <1>3, <1>4, StripeTells DEF Next

-----------------------------------------------------------------------------
(* What Stripe has told                                                    *)

Bought == {s \in Subscriptions : stripe[s].state \in Live \cup {"canceled"}}
Paid == IsFiniteSet(Bought) /\ Cardinality(Bought) = paid
Deleted(i) == events[i].type = "deleted"

(* An event tells of a subscription that was paid for, and the end of it   *)
(* is the last event about it.                                             *)
Told ==
    /\ \A i \in DOMAIN events :
          /\ events[i].id \in Bought
          /\ Deleted(i) => stripe[events[i].id].state = "canceled"
    /\ \A i, j \in DOMAIN events : Deleted(i) /\ events[i].id = events[j].id => j <= i

(* Unless a session was opened beside another, the last event names the    *)
(* subscription that lives.                                                *)
Alone == ~doubled => \A r, s \in Open : r = s
LastTells ==
    ~doubled => \A s \in Subscriptions :
        stripe[s].state \in Live <=>
            Len(events) > 0 /\ ~Deleted(Len(events)) /\ events[Len(events)].id = s

Billed == Told /\ Paid /\ Alone /\ LastTells

LEMMA OpensBilled ==
    ASSUME TypeOK, Billed, UNCHANGED <<events, paid>>, UNCHANGED <<stripe, doubled>> \/ Opens
    PROVE  Billed'
<1>1. CASE UNCHANGED <<stripe, doubled>>
    BY <1>1 DEF Billed, Told, Paid, Bought, Alone, Open, LastTells, Deleted
<1>2. CASE Opens
    <2>1. PICK s \in Subscriptions :
             /\ stripe[s].state = "none" /\ stripe'[s].state = "offered"
             /\ \A r \in Subscriptions \ {s} : stripe'[r] = stripe[r]
        BY <1>2 DEF Opens
    <2>2. ~doubled' => ~doubled /\ Open = {}
        BY <1>2 DEF Opens
    <2>3. /\ Bought' = Bought /\ s \notin Bought
          /\ \A r \in Subscriptions : stripe'[r].state \in Live <=> stripe[r].state \in Live
        BY <2>1 DEF Bought, Live
    <2>4. Paid'
        BY <2>3 DEF Billed, Paid
    <2>5. Told'
        BY <2>1, <2>3 DEF Billed, Told, Deleted, Bought
    <2>6. Alone'
        BY <2>1, <2>2 DEF Alone, Open
    <2>7. LastTells'
        BY <2>2, <2>3 DEF Billed, LastTells, Deleted
    <2>8. QED
        BY <2>4, <2>5, <2>6, <2>7 DEF Billed
<1>3. QED
    BY <1>1, <1>2

LEMMA TellBilled ==
    ASSUME TypeOK, Billed, Telling
    PROVE  Billed'
<1>1. PICK s \in Subscriptions, types \in Seq(Types), o \in Object : Tell(s, types, o)
    BY DEF Telling
<1>2. PICK m \in Nat, n \in Nat :
         /\ m = Len(events) /\ n = Len(events') /\ m <= n
         /\ DOMAIN events = 1 .. m /\ DOMAIN events' = 1 .. n
         /\ types = <<"deleted">> => n = m + 1
         /\ types = <<>> <=> n = m
    BY <1>1, TellSays
<1>3. /\ stripe'[s] = o /\ \A r \in Subscriptions \ {s} : stripe'[r] = stripe[r]
      /\ \A i \in 1 .. m : events'[i] = events[i]
      /\ \A i \in (1 .. n) \ (1 .. m) :
            /\ events'[i].id = s
            /\ events'[i].type = "deleted" <=> types = <<"deleted">>
    BY <1>1, <1>2, TellSays
<1>4. doubled' = doubled
    BY DEF Telling, courses
<1>5. s \in Open /\ stripe[s].state # "canceled"
    BY <1>1 DEF Tell, Open, Live
<1>6. Paid' /\ Bought \subseteq Bought' /\ (types # <<>> => s \in Bought')
    <2>1. CASE stripe[s].state = "offered" /\ o.state = "active" /\ paid' = paid + 1
        <3>1. s \notin Bought /\ Bought' = Bought \cup {s}
            BY <1>3, <2>1 DEF Bought, Live
        <3>2. IsFiniteSet(Bought') /\ Cardinality(Bought') = Cardinality(Bought) + 1
            BY <3>1, FS_AddElement DEF Billed, Paid
        <3>3. QED
            BY <2>1, <3>1, <3>2 DEF Billed, Paid
    <2>2. CASE stripe[s].state = "offered" /\ types = <<>> /\ o.state = "expired" /\ paid' = paid
        <3>1. Bought' = Bought
            BY <1>3, <2>2 DEF Bought, Live
        <3>2. QED
            BY <2>2, <3>1 DEF Billed, Paid
    <2>3. CASE stripe[s].state \in Live /\ o.state \in Live \cup {"canceled"} /\ paid' = paid
        <3>1. Bought' = Bought /\ s \in Bought
            BY <1>3, <2>3 DEF Bought, Live
        <3>2. QED
            BY <2>3, <3>1 DEF Billed, Paid
    <2>4. QED
        BY <1>1, <2>1, <2>2, <2>3 DEF Tell
<1>7. types = <<"deleted">> => o.state = "canceled"
    BY <1>1 DEF Tell
<1>8. Told'
    <2>1. ASSUME NEW i \in 1 .. n
          PROVE  events'[i].id \in Bought' /\ (Deleted(i)' => stripe'[events'[i].id].state = "canceled")
        <3>1. CASE i \in 1 .. m
            <4>1. events[i].id \in Bought /\ (Deleted(i) => stripe[events[i].id].state = "canceled")
                BY <1>2, <3>1 DEF Billed, Told
            <4>2. QED
                BY <1>3, <1>5, <1>6, <3>1, <4>1 DEF Deleted, Bought
        <3>2. CASE i \notin 1 .. m
            <4>1. types # <<>>
                BY <1>2, <3>2
            <4>2. QED
                BY <1>3, <1>6, <1>7, <3>2, <4>1 DEF Deleted
        <3>3. QED
            BY <3>1, <3>2
    <2>2. ASSUME NEW i \in 1 .. n, NEW j \in 1 .. n, Deleted(i)', events'[i].id = events'[j].id
          PROVE  j <= i
        <3>1. CASE i \in 1 .. m
            <4>1. Deleted(i) /\ events'[i].id = events[i].id /\ stripe[events[i].id].state = "canceled"
                BY <1>2, <1>3, <2>2, <3>1 DEF Deleted, Billed, Told
            <4>2. j \in 1 .. m
                BY <1>3, <1>5, <2>2, <4>1
            <4>3. QED
                BY <1>2, <1>3, <2>2, <3>1, <4>1, <4>2 DEF Billed, Told
        <3>2. CASE i \notin 1 .. m
            <4>1. n = m + 1
                BY <1>2, <1>3, <2>2, <3>2 DEF Deleted
            <4>2. QED
                BY <1>2, <3>2, <4>1
        <3>3. QED
            BY <3>1, <3>2
    <2>3. QED
        BY <1>2, <2>1, <2>2 DEF Told
<1>9. Alone'
    BY <1>3, <1>4, <1>5 DEF Billed, Alone, Open
<1>10. LastTells'
    <2> SUFFICES ASSUME ~doubled, NEW r \in Subscriptions
                 PROVE  stripe'[r].state \in Live <=> n > 0 /\ ~Deleted(n)' /\ events'[n].id = r
        BY <1>2, <1>4 DEF LastTells, Deleted
    <2>1. r # s => stripe[r].state \notin Live /\ stripe'[r].state \notin Live
        BY <1>3, <1>5 DEF Billed, Alone, Open
    <2>2. CASE types = <<>>
        <3>1. stripe[s].state \notin Live /\ stripe'[s].state \notin Live /\ n = m
            BY <1>1, <1>2, <1>3, <2>2 DEF Tell, Live
        <3>2. ~(m > 0 /\ ~Deleted(m) /\ events[m].id = r)
            BY <1>2, <2>1, <3>1 DEF Billed, LastTells
        <3>3. QED
            BY <1>3, <2>1, <3>1, <3>2 DEF Deleted
    <2>3. CASE types # <<>>
        <3>1. n > 0 /\ n \in (1 .. n) \ (1 .. m)
            BY <1>2, <2>3
        <3>2. events'[n].id = s /\ (Deleted(n)' <=> types = <<"deleted">>)
            BY <1>3, <3>1 DEF Deleted
        <3>3. stripe'[s].state \in Live <=> types # <<"deleted">>
            BY <1>1, <1>3, <2>3 DEF Tell, Live
        <3>4. QED
            BY <2>1, <3>1, <3>2, <3>3
    <2>4. QED
        BY <2>2, <2>3
<1>11. QED
    BY <1>6, <1>8, <1>9, <1>10 DEF Billed

LEMMA BilledAlways == Spec => []Billed
<1>1. Init => Billed
    <2> SUFFICES ASSUME Init PROVE Billed
        OBVIOUS
    <2>1. Bought = {} /\ Open = {} /\ DOMAIN events = {} /\ Len(events) = 0
        BY DEF Init, Bought, Open, Live
    <2>2. IsFiniteSet({}) /\ Cardinality({}) = 0
        BY FS_EmptySet
    <2>3. Paid
        BY <2>1, <2>2 DEF Paid, Init
    <2>4. Told /\ Alone /\ LastTells
        BY <2>1 DEF Told, Alone, LastTells, Init, Live
    <2>5. QED
        BY <2>3, <2>4 DEF Billed
<1>2. TypeOK /\ Billed /\ [Next]_vars => Billed'
    BY StripeSide, OpensBilled, TellBilled
<1>3. QED
    BY <1>1, <1>2, BillingTypeCorrect, PTL DEF Spec

-----------------------------------------------------------------------------
(* The customers                                                           *)

(* Nothing tells of a customer that was not saved in the row, and a row    *)
(* with a customer is not made again.                                      *)
Saving ==
    /\ account = "user" => saved = {} /\ userType = "FREE" /\ latest = 0
    /\ sub.customer = Null <=> saved = {}
    /\ sub.customer # Null => sub.customer \in saved
    /\ \A c \in Callers : CallerAt(c, "session") => caller[c].id \in saved
    /\ \A s \in Subscriptions : stripe[s].state # "none" => stripe[s].customer \in saved
    /\ \A i \in DOMAIN events :
          stripe[events[i].id].state # "none" /\ events[i].object.customer \in saved
    /\ \A w \in Hooks : hook[w] # Idle => hook[w].object.customer \in saved

(* What a webhook holds, and the events behind it.                         *)
LEMMA HookSaves ==
    ASSUME Saving, NEW w \in Hooks, Others(w), UNCHANGED <<caller, stripe, events, saved>>,
           hook'[w] # Idle => hook'[w].object.customer \in saved,
           account' = "user" => account = "user" /\ UNCHANGED <<userType, latest>>,
           sub'.customer = sub.customer \/ sub'.customer \in saved \ {Null}
    PROVE  Saving'
BY DEF Saving, Others, CallerAt

LEMMA CallerSaves ==
    ASSUME TypeOK, Saving, NEW c \in Callers, NEW state \in CallerState, CallerGoes(c, state),
           saved \subseteq saved', UNCHANGED <<hook, events, latest>>,
           state.pc = "session" => state.id \in saved',
           account' = "user" => account = "user" /\ saved' = saved,
           account' = "user" => userType' \in {userType, "FREE"},
           sub'.customer = Null <=> saved' = {},
           sub'.customer # Null => sub'.customer \in saved',
           \A s \in Subscriptions :
              /\ stripe'[s].state # "none" => stripe'[s].customer \in saved'
              /\ stripe[s].state # "none" => stripe'[s] = stripe[s]
    PROVE  Saving'
<1>1. caller'[c] = state /\ \A d \in Callers \ {c} : caller'[d] = caller[d]
    BY CallerTypes DEF TypeOK
<1>2. \A d \in Callers : CallerAt(d, "session")' => caller'[d].id \in saved'
    BY <1>1 DEF Saving, CallerAt
<1>3. \A i \in DOMAIN events :
          stripe'[events[i].id].state # "none" /\ events[i].object.customer \in saved'
    BY EventIds DEF Saving
<1>4. QED
    BY <1>2, <1>3 DEF Saving

LEMMA TellSaves ==
    ASSUME TypeOK, Saving, Telling
    PROVE  Saving'
<1>1. PICK s \in Subscriptions, types \in Seq(Types), o \in Object : Tell(s, types, o)
    BY DEF Telling
<1>2. /\ stripe'[s] = o /\ \A r \in Subscriptions \ {s} : stripe'[r] = stripe[r]
      /\ \A i \in DOMAIN events : events'[i] = events[i]
      /\ \A i \in DOMAIN events' \ DOMAIN events : events'[i].id = s /\ events'[i].object = o
    BY <1>1, TellSays
<1>3. stripe[s].state # "none" /\ o.state # "none" /\ o.customer = stripe[s].customer
    BY <1>1 DEF Tell, Live
<1>4. UNCHANGED <<account, sub, userType, hook, saved, latest>>
    BY DEF Telling, database, courses
<1>5. \A c \in Callers : CallerAt(c, "session")' => caller'[c] = caller[c]
    BY DEF Telling, CallerAt
<1>6. \A i \in DOMAIN events' :
          stripe'[events'[i].id].state # "none" /\ events'[i].object.customer \in saved
    <2>1. ASSUME NEW i \in DOMAIN events
          PROVE  stripe'[events'[i].id].state # "none" /\ events'[i].object.customer \in saved
        BY <1>2, <1>3, EventIds DEF Saving
    <2>2. ASSUME NEW i \in DOMAIN events' \ DOMAIN events
          PROVE  stripe'[events'[i].id].state # "none" /\ events'[i].object.customer \in saved
        BY <1>2, <1>3 DEF Saving
    <2>3. QED
        BY <2>1, <2>2
<1>7. QED
    BY <1>2, <1>3, <1>4, <1>5, <1>6 DEF Saving, CallerAt

LEMMA CallSaves ==
    ASSUME TypeOK, Saving, NEW c \in Callers, Call(c)
    PROVE  Saving'
<1> USE DEF database, external, observed, courses
<1>0. sub \in Row /\ Null \notin Customers /\ saved \subseteq Customers
    BY IdsAssumption DEF TypeOK
<1>1. ASSUME CancelSubscription(c) \/ CancelImmediately(c) PROVE Saving'
    BY <1>1, CallerTells, TellSaves
<1>2. ASSUME CreateSession(c) PROVE Saving'
    <2>1. PICK k \in Customers : k = caller[c].id
        BY <1>2, CallerTypes DEF CreateSession, TypeOK
    <2>2. PICK s \in Subscriptions :
             /\ stripe[s].state = "none"
             /\ stripe' = [stripe EXCEPT ![s].state = "offered", ![s].customer = k]
        BY <1>2, <2>1 DEF CreateSession
    <2>3. stripe'[s].customer = k /\ \A r \in Subscriptions \ {s} : stripe'[r] = stripe[r]
        <3>1. stripe[s] \in Object /\ stripe \in [Subscriptions -> Object]
            BY DEF TypeOK
        <3>2. QED
            BY <2>2, <3>1 DEF Object
    <2>4. k \in saved
        BY <1>2, <2>1 DEF CreateSession, Saving
    <2>5. Idle \in CallerState /\ CallerGoes(c, Idle) /\ Idle.pc # "session"
        BY <1>2 DEF CreateSession, CallerEnds, CallerState, Idle
    <2>6. UNCHANGED <<account, sub, userType, hook, events, saved, latest>>
        BY <1>2 DEF CreateSession
    <2>7. \A r \in Subscriptions :
              /\ stripe'[r].state # "none" => stripe'[r].customer \in saved'
              /\ stripe[r].state # "none" => stripe'[r] = stripe[r]
        <3>1. stripe[s].state = "none"
            BY <2>2
        <3>2. QED
            BY <2>3, <2>4, <2>6, <3>1 DEF Saving
    <2>8. QED
        BY <2>5, <2>6, <2>7, CallerSaves DEF Saving
<1>3. ASSUME NEW op \in Ops, FindSubscription(c, op) PROVE Saving'
    <2>1. UNCHANGED <<account, sub, userType, hook, stripe, events, saved, latest>>
        BY <1>3 DEF FindSubscription
    <2>2. PICK state \in CallerState : CallerGoes(c, state) /\ (state.pc = "session" => state.id \in saved)
        <3>1. [pc |-> "create", op |-> op] \in CallerState
            BY DEF CallerState
        <3>2. Then(op, sub) \in CallerState
            BY <1>0, ThenTypes
        <3>3. Then(op, sub).pc = "session" => Then(op, sub).id = sub.customer /\ sub.customer # Null
            BY DEF Then, Idle
        <3>4. QED
            BY <1>3, <3>1, <3>2, <3>3 DEF FindSubscription, Saving
    <2>3. QED
        BY <2>1, <2>2, CallerSaves DEF Saving
<1>4. ASSUME CreateSubscription(c) PROVE Saving'
    <2>1. [pc |-> "free", op |-> caller[c].op] \in CallerState
        BY <1>4, CallerTypes DEF CreateSubscription, TypeOK, CallerState
    <2>2. saved = {} /\ sub'.customer = Null /\ account' # "user"
        BY <1>4 DEF CreateSubscription, Saving, Fresh
    <2>3. UNCHANGED <<userType, hook, stripe, events, saved, latest>>
        BY <1>4 DEF CreateSubscription
    <2>4. QED
        BY <1>4, <2>1, <2>2, <2>3, CallerSaves DEF CreateSubscription, Saving
<1>5. ASSUME SyncFree(c) PROVE Saving'
    <2>1. UNCHANGED <<account, sub, hook, stripe, events, saved, latest>> /\ userType' = "FREE"
        BY <1>5 DEF SyncFree
    <2>2. Then(caller[c].op, Fresh) \in CallerState
        BY <1>5, CallerTypes, ThenTypes DEF SyncFree, TypeOK, Fresh, Row, Tiers
    <2>3. Then(caller[c].op, Fresh).pc # "session"
        BY DEF Then, Fresh, Idle
    <2>4. QED
        BY <1>5, <2>1, <2>2, <2>3, CallerSaves DEF SyncFree, Saving
<1>6. ASSUME CreateCustomer(c) PROVE Saving'
    <2>1. UNCHANGED <<account, sub, userType, hook, stripe, events, saved, latest>>
        BY <1>6 DEF CreateCustomer
    <2>2. PICK state \in CallerState : CallerGoes(c, state) /\ state.pc = "save"
        <3>1. \A k \in Customers : [pc |-> "save", id |-> k] \in CallerState
            BY DEF CallerState
        <3>2. QED
            BY <1>6, <3>1 DEF CreateCustomer
    <2>3. QED
        BY <2>1, <2>2, CallerSaves DEF Saving
<1>7. ASSUME SaveCustomer(c) PROVE Saving'
    <2>1. PICK k \in Customers : k = caller[c].id
        BY <1>7, CallerTypes DEF SaveCustomer, TypeOK
    <2>2. /\ sub' = [sub EXCEPT !.customer = k] /\ account' = "subscribed" /\ saved' = saved \cup {k}
          /\ UNCHANGED <<hook, stripe, events, latest>>
          /\ CallerGoes(c, [pc |-> "session", id |-> k])
        BY <1>7, <2>1 DEF SaveCustomer
    <2>3. sub'.customer = k /\ k # Null
        BY <1>0, <2>2 DEF Row
    <2>4. [pc |-> "session", id |-> k] \in CallerState
        BY DEF CallerState
    <2>5. QED
        BY <2>2, <2>3, <2>4, CallerSaves DEF Saving
<1>8. ASSUME FindUserToDelete(c) \/ CancelRefused(c) \/ DeleteUser(c) \/ CallerFails(c)
      PROVE  Saving'
    <2>1. PICK state \in CallerState : CallerGoes(c, state) /\ state.pc # "session"
        <3>1. Idle \in CallerState /\ [pc |-> "remove"] \in CallerState
              /\ \A s \in Subscriptions : [pc |-> "cancelNow", id |-> s] \in CallerState
            BY DEF CallerState
        <3>2. sub.stripeSub # Null => sub.stripeSub \in Subscriptions
            BY <1>0 DEF Row
        <3>3. QED
            BY <1>8, <3>1, <3>2
               DEF FindUserToDelete, CancelRefused, DeleteUser, CallerFails, CallerEnds, Idle
    <2>2. /\ account' \in {account, "gone"}
          /\ UNCHANGED <<sub, userType, hook, stripe, events, saved, latest>>
        BY <1>8 DEF FindUserToDelete, CancelRefused, DeleteUser, CallerFails
    <2>3. QED
        BY <2>1, <2>2, CallerSaves DEF Saving
<1>9. QED
    BY <1>1, <1>2, <1>3, <1>4, <1>5, <1>6, <1>7, <1>8 DEF Call

LEMMA WebhookSaves ==
    ASSUME TypeOK, Saving, NEW w \in Hooks, Webhook(w)
    PROVE  Saving'
<1> USE DEF database, external, observed, courses, Elsewhere
<1>0. Null \notin Customers /\ saved \subseteq Customers
    BY IdsAssumption DEF TypeOK
<1>1. CASE Rests(w)
    <2>1. hook'[w] # Idle => hook'[w].object.customer \in saved
        BY <1>1, EventIds DEF Rests, Saving
    <2>2. QED
        BY <1>1, <2>1, HookSaves DEF Rests
<1>2. CASE Drops(w) \/ Mails(w)
    BY <1>2, HookSaves DEF Drops, Mails
<1>3. CASE Finds(w) \/ Syncs(w)
    <2>1. hook'[w].object.customer \in saved
        BY <1>3 DEF Finds, Syncs, Proceeds, Saving
    <2>2. account # "user"
        BY <1>3, <2>1 DEF Finds, Syncs, Saving
    <2>3. QED
        BY <1>3, <2>1, <2>2, HookSaves DEF Finds, Syncs, Proceeds
<1>4. CASE Writes(w)
    <2>1. hook'[w].object.customer \in saved /\ sub'.customer \in saved
        BY <1>4 DEF Writes, Proceeds, Saving
    <2>2. QED
        BY <1>0, <1>4, <2>1, HookSaves DEF Writes, Proceeds
<1>5. QED
    BY <1>1, <1>2, <1>3, <1>4, HookKinds

LEMMA SavingAlways == Spec => []Saving
<1>1. Init => Saving
    BY DEF Init, Saving, Fresh, CallerAt, Idle
<1>2. TypeOK /\ Saving /\ [Next]_vars => Saving'
    <2> SUFFICES ASSUME TypeOK, Saving, [Next]_vars PROVE Saving'
        OBVIOUS
    <2>1. ASSUME NEW tier \in AdminTiers, ChangeTier(tier) PROVE Saving'
        <3>1. sub'.customer = sub.customer
            BY <2>1 DEF ChangeTier, TypeOK, Row
        <3>2. account' # "user" /\ UNCHANGED <<caller, hook, stripe, events, saved>>
            BY <2>1 DEF ChangeTier, external
        <3>3. QED
            BY <3>1, <3>2 DEF Saving, CallerAt
    <2>2. CASE UNCHANGED vars
        BY <2>2 DEF vars, database, external, observed, courses, Saving, CallerAt
    <2>3. ASSUME NEW s \in Subscriptions, Stripe(s) PROVE Saving'
        BY <2>3, StripeTells, TellSaves
    <2>4. QED
        BY <2>1, <2>2, <2>3, CallSaves, WebhookSaves DEF Next
<1>3. QED
    BY <1>1, <1>2, BillingTypeCorrect, PTL DEF Spec

(* The requests that may yet make a customer.                              *)
Making == {c \in Callers : caller[c].pc \in {"create", "free", "customer", "save"}}

Few ==
    /\ IsFiniteSet(saved)
    /\ saved # {} => Cardinality(saved) + Cardinality(Making) <= Cardinality(Callers)

LEMMA FewerMake ==
    ASSUME IsFiniteSet(Callers), Few, saved' = saved, saved # {} => Making' \subseteq Making
    PROVE  Few'
<1>1. CASE saved = {}
    BY <1>1 DEF Few
<1>2. CASE saved # {}
    <2>1. Making \subseteq Callers
        BY DEF Making
    <2>2. IsFiniteSet(Making) /\ IsFiniteSet(Making') /\ Cardinality(Making') <= Cardinality(Making)
        BY <1>2, <2>1, FS_Subset
    <2>3. /\ Cardinality(saved) \in Nat /\ Cardinality(Making) \in Nat
          /\ Cardinality(Making') \in Nat /\ Cardinality(Callers) \in Nat
        BY <2>2, FS_CardinalityType DEF Few
    <2>4. QED
        BY <1>2, <2>2, <2>3 DEF Few
<1>3. QED
    BY <1>1, <1>2

LEMMA OneSaves ==
    ASSUME IsFiniteSet(Callers), Few, NEW c \in Making, NEW k, saved' = saved \cup {k},
           Making' = Making \ {c}
    PROVE  Few'
<1>1. Making \subseteq Callers
    BY DEF Making
<1>2. IsFiniteSet(Making) /\ Cardinality(Making) <= Cardinality(Callers)
    BY <1>1, FS_Subset
<1>3. IsFiniteSet(Making') /\ Cardinality(Making') = Cardinality(Making) - 1
    BY <1>2, FS_RemoveElement
<1>4. /\ IsFiniteSet(saved') /\ Cardinality(saved') <= Cardinality(saved) + 1
      /\ Cardinality(saved) \in Nat
    <2>1. IsFiniteSet(saved) /\ Cardinality(saved) \in Nat
        BY FS_CardinalityType DEF Few
    <2>2. /\ IsFiniteSet(saved \cup {k})
          /\ \/ Cardinality(saved \cup {k}) = Cardinality(saved)
             \/ Cardinality(saved \cup {k}) = Cardinality(saved) + 1
        BY <2>1, FS_AddElement, Zenon
    <2>3. QED
        BY <2>1, <2>2
<1>5. saved = {} => Cardinality(saved) = 0
    BY FS_EmptySet
<1>6. /\ Cardinality(Making) \in Nat /\ Cardinality(Callers) \in Nat
      /\ Cardinality(Making') \in Nat /\ Cardinality(saved') \in Nat
    BY <1>2, <1>3, <1>4, FS_CardinalityType
<1>7. QED
    BY <1>2, <1>3, <1>4, <1>5, <1>6 DEF Few

LEMMA CallFew ==
    ASSUME IsFiniteSet(Callers), TypeOK, Saving, Few, NEW c \in Callers, Call(c)
    PROVE  Few'
<1> USE DEF database, external, observed, courses
<1>0. sub \in Row
    BY DEF TypeOK
<1>1. ASSUME NEW state \in CallerState, CallerGoes(c, state), saved' = saved,
             c \in Making \/ saved = {} \/ state.pc \notin {"create", "free", "customer", "save"}
      PROVE  Few'
    <2>1. caller'[c] = state /\ \A d \in Callers \ {c} : caller'[d] = caller[d]
        BY <1>1, CallerTypes DEF TypeOK
    <2>2. saved # {} => Making' \subseteq Making
        BY <1>1, <2>1 DEF Making
    <2>3. QED
        BY <1>1, <2>2, FewerMake
<1>2. ASSUME NEW op \in Ops, FindSubscription(c, op) PROVE Few'
    <2>1. [pc |-> "create", op |-> op] \in CallerState /\ Then(op, sub) \in CallerState
        BY <1>0, ThenTypes DEF CallerState
    <2>2. Then(op, sub).pc \in {"idle", "session", "cancel"} \/ sub.customer = Null
        BY <1>0, ThenTypes
    <2>3. account = "user" \/ sub.customer = Null => saved = {}
        BY DEF Saving
    <2>4. PICK state \in CallerState :
             /\ CallerGoes(c, state)
             /\ saved = {} \/ state.pc \notin {"create", "free", "customer", "save"}
        BY <1>2, <2>1, <2>2, <2>3 DEF FindSubscription
    <2>5. saved' = saved
        BY <1>2 DEF FindSubscription
    <2>6. QED
        BY <1>1, <2>4, <2>5
<1>3. ASSUME SaveCustomer(c) PROVE Few'
    <2>1. PICK k \in Customers : k = caller[c].id
        BY <1>3, CallerTypes DEF SaveCustomer, TypeOK
    <2>2. saved' = saved \cup {k} /\ CallerGoes(c, [pc |-> "session", id |-> k])
        BY <1>3, <2>1 DEF SaveCustomer
    <2>3. [pc |-> "session", id |-> k] \in CallerState
        BY DEF CallerState
    <2>4. caller'[c].pc = "session" /\ \A d \in Callers \ {c} : caller'[d] = caller[d]
        BY <2>2, <2>3, CallerTypes DEF TypeOK
    <2>5. c \in Making /\ Making' = Making \ {c}
        BY <1>3, <2>4 DEF SaveCustomer, CallerAt, Making
    <2>6. QED
        BY <2>2, <2>5, OneSaves
<1>4. ASSUME CreateSubscription(c) \/ SyncFree(c) \/ CreateCustomer(c) PROVE Few'
    <2>1. c \in Making /\ saved' = saved
        BY <1>4 DEF CreateSubscription, SyncFree, CreateCustomer, CallerAt, Making
    <2>2. PICK state \in CallerState : CallerGoes(c, state)
        <3>1. CallerAt(c, "create") => [pc |-> "free", op |-> caller[c].op] \in CallerState
            BY CallerTypes DEF TypeOK, CallerState
        <3>2. CallerAt(c, "free") => Then(caller[c].op, Fresh) \in CallerState
            BY CallerTypes, ThenTypes DEF TypeOK, Fresh, Row, Tiers
        <3>3. \A k \in Customers : [pc |-> "save", id |-> k] \in CallerState
            BY DEF CallerState
        <3>4. QED
            BY <1>4, <3>1, <3>2, <3>3 DEF CreateSubscription, SyncFree, CreateCustomer
    <2>3. QED
        BY <1>1, <2>1, <2>2
<1>5. ASSUME \/ CreateSession(c) \/ CancelSubscription(c) \/ CancelImmediately(c)
             \/ FindUserToDelete(c) \/ CancelRefused(c) \/ DeleteUser(c) \/ CallerFails(c)
      PROVE  Few'
    <2>1. saved' = saved
        BY <1>5 DEF CreateSession, CancelSubscription, CancelImmediately, FindUserToDelete,
                    CancelRefused, DeleteUser, CallerFails
    <2>2. PICK state \in CallerState :
             CallerGoes(c, state) /\ state.pc \in {"idle", "remove", "cancelNow"}
        <3>1. Idle \in CallerState /\ [pc |-> "remove"] \in CallerState
              /\ \A s \in Subscriptions : [pc |-> "cancelNow", id |-> s] \in CallerState
            BY DEF CallerState
        <3>2. sub.stripeSub # Null => sub.stripeSub \in Subscriptions
            BY <1>0 DEF Row
        <3>3. QED
            BY <1>5, <3>1, <3>2
               DEF CreateSession, CancelSubscription, CancelImmediately, FindUserToDelete,
                   CancelRefused, DeleteUser, CallerFails, CallerEnds, Idle
    <2>3. QED
        BY <1>1, <2>1, <2>2
<1>6. QED
    BY <1>2, <1>3, <1>4, <1>5 DEF Call

(* However requests overlap, fail and cancel, and whatever Stripe sends,   *)
(* the row has seen no more customers than requests can be served at one   *)
(* time: a first customer is looked for and saved in two calls.            *)
THEOREM CustomersAreBounded ==
    ASSUME IsFiniteSet(Callers)
    PROVE  Spec => []CustomersBounded
<1> USE DEF database, external, observed, courses
<1>1. Init => Few
    BY FS_EmptySet DEF Init, Few
<1>2. TypeOK /\ Saving /\ Few /\ [Next]_vars => Few'
    <2> SUFFICES ASSUME TypeOK, Saving, Few, [Next]_vars PROVE Few'
        OBVIOUS
    <2>1. ASSUME NEW s \in Subscriptions, Stripe(s) PROVE Few'
        <3>1. /\ saved' = saved
              /\ \A c \in Callers : caller'[c] = caller[c] \/ caller'[c].pc \in {"idle", "remove"}
            BY <2>1, StripeTells DEF Telling
        <3>2. Making' \subseteq Making
            BY <3>1 DEF Making
        <3>3. QED
            BY <3>1, <3>2, FewerMake
    <2>2. ASSUME NEW w \in Hooks, Webhook(w) PROVE Few'
        <3>1. UNCHANGED <<saved, caller>>
            BY <2>2 DEF Webhook, Receive, Retrieve, FindLocal, UpsertSubscription, SyncUserType,
                        MailAndAnswer, HookFails
        <3>2. QED
            BY <3>1 DEF Few, Making
    <2>3. CASE UNCHANGED vars \/ \E tier \in AdminTiers : ChangeTier(tier)
        BY <2>3 DEF vars, ChangeTier, Few, Making
    <2>4. QED
        BY <2>1, <2>2, <2>3, CallFew DEF Next
<1>3. Few => CustomersBounded
    <2> SUFFICES ASSUME Few PROVE Cardinality(saved) <= Cardinality(Callers)
        BY DEF CustomersBounded
    <2>1. Making \subseteq Callers
        BY DEF Making
    <2>2. IsFiniteSet(Making)
        BY <2>1, FS_Subset
    <2>3. /\ Cardinality(saved) \in Nat /\ Cardinality(Making) \in Nat
          /\ Cardinality(Callers) \in Nat /\ (saved = {} => Cardinality(saved) = 0)
        BY <2>2, FS_CardinalityType, FS_EmptySet DEF Few
    <2>4. QED
        BY <2>3 DEF Few
<1>4. QED
    BY <1>1, <1>2, <1>3, BillingTypeCorrect, SavingAlways, PTL DEF Spec

-----------------------------------------------------------------------------
(* The row                                                                 *)

(* Unless something stale was written, the row says what the latest event  *)
(* written says, ...                                                       *)
SaysPro == latest > 0 /\ ~Deleted(latest)
RowTells ==
    ~stale =>
        /\ SaysPro => sub.stripeSub = events[latest].id /\ ("FREE" \notin granted => sub.tier = "PRO")
        /\ ~SaysPro => sub.stripeSub = Null /\ (granted = {} => sub.tier = "FREE")

(* ... and for one customer an event is answered once it, or a later one,  *)
(* is written.                                                             *)
Applied ==
    /\ ~Replaced /\ account = "subscribed" => \A i \in DOMAIN events \ unanswered : i <= latest
    /\ \A w \in Hooks : HookAt(w, "sync") \/ HookAt(w, "answer") => hook[w].event <= latest

Follows == RowTells /\ Applied

(* A step that leaves the row and what is answered alone.                  *)
LEMMA FollowsStays ==
    ASSUME Follows, UNCHANGED <<events, unanswered, latest, stale, granted>>,
           sub'.tier = sub.tier, sub'.stripeSub = sub.stripeSub, saved \subseteq saved',
           account' = "subscribed" => account = "subscribed",
           \A w \in Hooks : HookAt(w, "sync")' \/ HookAt(w, "answer")' =>
              (HookAt(w, "sync") \/ HookAt(w, "answer")) /\ hook'[w].event = hook[w].event
    PROVE  Follows'
<1>1. RowTells'
    BY DEF Follows, RowTells, SaysPro, Deleted
<1>2. Applied'
    BY DEF Follows, Applied, Replaced
<1>3. QED
    BY <1>1, <1>2 DEF Follows

LEMMA TellFollows ==
    ASSUME TypeOK, Follows, Telling
    PROVE  Follows'
<1>1. PICK s \in Subscriptions, types \in Seq(Types), o \in Object : Tell(s, types, o)
    BY DEF Telling
<1>2. /\ \A i \in DOMAIN events : events'[i] = events[i]
      /\ unanswered' = unanswered \cup (DOMAIN events' \ DOMAIN events)
    BY <1>1, TellSays
<1>3. UNCHANGED <<account, sub, hook, granted, saved, latest, stale>>
    BY DEF Telling, database, courses
<1>4. RowTells'
    <2>1. latest > 0 => latest \in DOMAIN events
        BY DEF TypeOK
    <2>2. (SaysPro' <=> SaysPro) /\ (SaysPro => events'[latest] = events[latest])
        BY <1>2, <1>3, <2>1 DEF SaysPro, Deleted
    <2>3. QED
        BY <1>3, <2>2 DEF Follows, RowTells
<1>5. Applied'
    <2>1. DOMAIN events' \ unanswered' \subseteq DOMAIN events \ unanswered
        BY <1>2
    <2>2. QED
        BY <1>3, <2>1 DEF Follows, Applied, Replaced, HookAt
<1>6. QED
    BY <1>4, <1>5 DEF Follows

LEMMA CallFollows ==
    ASSUME TypeOK, Saving, Follows, Calls
    PROVE  Follows'
<1>1. UNCHANGED <<hook, events, unanswered, latest, stale, granted>> /\ saved \subseteq saved'
    BY DEF Calls
<1>2. CASE account' \in {account, "gone"} /\ sub'.tier = sub.tier /\ sub'.stripeSub = sub.stripeSub
    BY <1>1, <1>2, FollowsStays DEF HookAt
<1>3. CASE account = "user" /\ account' = "subscribed" /\ sub' = Fresh
    <2>1. latest = 0 /\ DOMAIN events = {}
        BY <1>3 DEF Saving
    <2>2. RowTells'
        BY <1>1, <1>3, <2>1 DEF RowTells, SaysPro, Fresh
    <2>3. Applied'
        BY <1>1, <2>1 DEF Follows, Applied, HookAt
    <2>4. QED
        BY <2>2, <2>3 DEF Follows
<1>4. QED
    BY <1>2, <1>3 DEF Calls

LEMMA TierFollows ==
    ASSUME TypeOK, Saving, Follows, NEW tier \in AdminTiers, ChangeTier(tier)
    PROVE  Follows'
<1>1. /\ UNCHANGED <<hook, events, unanswered, latest, stale, saved>>
      /\ granted' = granted \cup {tier} /\ account # "gone"
    BY DEF ChangeTier, external
<1>2. sub'.tier = tier /\ sub'.stripeSub = sub.stripeSub /\ tier \in {"FREE", "PRO"}
    BY TiersAssumption DEF ChangeTier, TypeOK, Row, Tiers
<1>3. RowTells'
    BY <1>1, <1>2 DEF Follows, RowTells, SaysPro, Deleted
<1>4. Applied'
    <2>1. account = "user" => DOMAIN events = {}
        BY DEF Saving
    <2>2. account \in {"user", "subscribed"}
        BY <1>1 DEF TypeOK
    <2>3. QED
        BY <1>1, <2>1, <2>2 DEF Follows, Applied, Replaced, HookAt
<1>5. QED
    BY <1>3, <1>4 DEF Follows

(* With one customer a webhook finds the row, unless the user is gone.     *)
LEMMA OneCustomerFound ==
    ASSUME Saving, NEW w \in Hooks, hook[w] # Idle, ~Replaced
    PROVE  sub.customer = hook[w].object.customer
BY DEF Saving, Replaced

LEMMA WriteFollows ==
    ASSUME TypeOK, Saving, Follows, NEW w \in Hooks, Writes(w)
    PROVE  Follows'
<1>1. PICK i \in DOMAIN events : i = hook[w].event
    BY HookTypes DEF Writes, Proceeds, TypeOK
<1>2. /\ UNCHANGED <<events, unanswered, granted, saved>> /\ Others(w)
      /\ hook'[w].event = i /\ hook[w] # Idle
    BY <1>1 DEF Writes, Proceeds, Elsewhere
<1>3. /\ sub'.tier = TierOf(i) /\ sub'.stripeSub = IF Deleted(i) THEN Null ELSE events[i].id
      /\ latest' = IF i > latest THEN i ELSE latest
      /\ ~stale' => ~stale /\ (i < latest => ~SaysOtherwise(i, latest))
    BY <1>1 DEF Writes, Event, Deleted
<1>4. i \in Nat /\ i > 0 /\ latest \in Nat
    BY EventIds DEF TypeOK
<1>5. RowTells'
    <2> SUFFICES ASSUME ~stale' PROVE /\ (latest' > 0 /\ ~Deleted(latest')) <=> ~Deleted(i)
                                      /\ ~Deleted(i) => events[latest'].id = events[i].id
        BY <1>2, <1>3 DEF RowTells, SaysPro, Deleted, TierOf
    <2>1. CASE i < latest
        <3>1. TierOf(i) = TierOf(latest) /\ events[i].id = events[latest].id /\ latest' = latest
            BY <1>3, <1>4, <2>1 DEF SaysOtherwise
        <3>2. Deleted(i) <=> Deleted(latest)
            BY <3>1 DEF TierOf, Deleted
        <3>3. QED
            BY <1>4, <2>1, <3>1, <3>2
    <2>2. CASE ~(i < latest)
        <3>1. latest' = i
            BY <1>3, <1>4, <2>2
        <3>2. QED
            BY <1>4, <3>1
    <2>3. QED
        BY <2>1, <2>2
<1>6. Applied'
    <2>1. latest' \in Nat /\ latest <= latest' /\ i <= latest'
        BY <1>3, <1>4
    <2>2. account = "subscribed" \/ DOMAIN events \ unanswered = {}
        <3>1. account # "user" /\ account # "gone"
            BY <1>2 DEF Saving, Writes
        <3>2. QED
            BY <3>1 DEF TypeOK
    <2>3. \A j \in DOMAIN events : j \in Nat
        BY EventIds
    <2>4. ~Replaced' => \A j \in DOMAIN events' \ unanswered' : j <= latest'
        BY <1>2, <1>4, <2>1, <2>2, <2>3 DEF Follows, Applied, Replaced
    <2>5. ASSUME NEW v \in Hooks, HookAt(v, "sync")' \/ HookAt(v, "answer")'
          PROVE  hook'[v].event <= latest'
        <3>1. CASE v = w
            BY <1>2, <2>1, <3>1
        <3>2. CASE v # w
            <4>1. hook'[v] = hook[v] /\ hook[v].event <= latest
                BY <1>2, <2>5, <3>2 DEF Others, HookAt, Follows, Applied
            <4>2. hook[v].event \in DOMAIN events
                BY <2>5, <4>1, HookTypes DEF HookAt, TypeOK
            <4>3. QED
                BY <1>4, <2>1, <2>3, <4>1, <4>2
        <3>3. QED
            BY <3>1, <3>2
    <2>6. QED
        BY <2>4, <2>5 DEF Applied
<1>7. QED
    BY <1>5, <1>6 DEF Follows

LEMMA WebhookFollows ==
    ASSUME TypeOK, Saving, Follows, NEW w \in Hooks, Webhook(w)
    PROVE  Follows'
<1> USE DEF database, external, observed, courses, Elsewhere
<1>1. CASE Rests(w)
    BY <1>1, FollowsStays DEF Rests, Others, HookAt, Idle
<1>2. CASE Finds(w) \/ Syncs(w)
    <2>1. /\ UNCHANGED <<account, sub, events, unanswered, latest, stale, granted, saved>> /\ Others(w)
          /\ \/ hook'[w].pc = "upsert"
             \/ HookAt(w, "sync") /\ hook'[w].event = hook[w].event
        BY <1>2 DEF Finds, Syncs, Proceeds
    <2>2. QED
        BY <2>1, FollowsStays DEF Others, HookAt
<1>3. CASE Drops(w) \/ Mails(w)
    <2>1. /\ UNCHANGED <<database, Elsewhere, granted, courses>> /\ Others(w)
          /\ hook[w] # Idle /\ hook'[w] = Idle
          /\ unanswered' \in {unanswered, unanswered \ {hook[w].event}}
          /\ (account = "subscribed" => sub.customer # hook[w].object.customer) \/ HookAt(w, "answer")
        BY <1>3 DEF Drops, Mails
    <2>2. RowTells'
        BY <2>1 DEF Follows, RowTells, SaysPro, Deleted
    <2>3. ASSUME ~Replaced, account = "subscribed", NEW i \in DOMAIN events \ unanswered'
          PROVE  i <= latest
        <3>1. HookAt(w, "answer")
            BY <2>1, <2>3, OneCustomerFound
        <3>2. hook[w].event <= latest
            BY <3>1 DEF Follows, Applied
        <3>3. QED
            BY <2>1, <2>3, <3>2 DEF Follows, Applied
    <2>4. \A v \in Hooks : HookAt(v, "sync")' \/ HookAt(v, "answer")' => hook'[v].event <= latest'
        BY <2>1 DEF Others, HookAt, Idle, Follows, Applied
    <2>5. Applied'
        BY <2>1, <2>3, <2>4 DEF Applied, Replaced
    <2>6. QED
        BY <2>2, <2>5 DEF Follows
<1>4. CASE Writes(w)
    BY <1>4, WriteFollows
<1>5. QED
    BY <1>1, <1>2, <1>3, <1>4, HookKinds

LEMMA FollowsAlways == Spec => []Follows
<1>1. Init => Follows
    BY DEF Init, Follows, RowTells, SaysPro, Applied, Fresh, HookAt, Idle
<1>2. TypeOK /\ Saving /\ Follows /\ [Next]_vars => Follows'
    <2> SUFFICES ASSUME TypeOK, Saving, Follows, [Next]_vars PROVE Follows'
        OBVIOUS
    <2>1. ASSUME NEW c \in Callers, Call(c) PROVE Follows'
        BY <2>1, CallKinds, TellFollows, CallFollows
    <2>2. ASSUME NEW s \in Subscriptions, Stripe(s) PROVE Follows'
        BY <2>2, StripeTells, TellFollows
    <2>3. CASE UNCHANGED vars
        BY <2>3, FollowsStays DEF vars, database, external, observed, courses, HookAt
    <2>4. QED
        BY <2>1, <2>2, <2>3, TierFollows, WebhookFollows DEF Next
<1>3. QED
    BY <1>1, <1>2, BillingTypeCorrect, SavingAlways, PTL DEF Spec

(* When all is settled the latest event written is the last one sent.      *)
LEMMA LastIsWritten ==
    ASSUME TypeOK, Follows, Settled, account = "subscribed", ~Replaced
    PROVE  latest = Len(events)
<1>1. \A i \in DOMAIN events : i <= latest
    BY DEF Follows, Applied, Settled
<1>2. PICK n \in Nat : n = Len(events) /\ DOMAIN events = 1 .. n
    BY EventIds
<1>3. latest \in {0} \cup 1 .. n /\ \A i \in 1 .. n : i <= latest
    BY <1>1, <1>2 DEF TypeOK
<1>4. latest = n
    BY <1>3
<1>5. QED
    BY <1>2, <1>4

(* Whatever overlaps, fails, is lost, repeated or reordered: once all is   *)
(* settled the tier is what Stripe bills for, unless something stale was   *)
(* written last, a session was opened beside another, or a second customer *)
(* was saved.                                                              *)
THEOREM TierIsBilled == Spec => []TierFollowsStripe
<1>1. TypeOK /\ Billed /\ Follows => TierFollowsStripe
    <2> SUFFICES ASSUME TypeOK, Billed, Follows, Settled, account = "subscribed", granted = {},
                        ~doubled, ~stale, ~Replaced
                 PROVE  sub.tier = "PRO" <=> Subscribed
        BY DEF TierFollowsStripe
    <2>1. latest = Len(events)
        BY LastIsWritten
    <2>2. SaysPro <=> sub.tier = "PRO"
        BY DEF Follows, RowTells
    <2>3. SaysPro => events[Len(events)].id \in Subscriptions
        BY <2>1, EventIds DEF SaysPro
    <2>4. SaysPro <=> Subscribed
        BY <2>1, <2>3 DEF Billed, LastTells, SaysPro, Subscribed
    <2>5. QED
        BY <2>2, <2>4
<1>2. QED
    BY <1>1, BillingTypeCorrect, BilledAlways, FollowsAlways, PTL

(* And who is billed can cancel.                                           *)
THEOREM CancelReaches == Spec => []BilledCanCancel
<1>1. TypeOK /\ Billed /\ Follows => BilledCanCancel
    <2> SUFFICES ASSUME TypeOK, Billed, Follows, Settled, account = "subscribed",
                        ~doubled, ~stale, ~Replaced, Subscribed
                 PROVE  sub.stripeSub # Null /\ stripe[sub.stripeSub].state \in Live
        BY DEF BilledCanCancel
    <2>1. latest = Len(events)
        BY LastIsWritten
    <2>2. PICK s \in Subscriptions : stripe[s].state \in Live
        BY DEF Subscribed
    <2>3. SaysPro /\ events[latest].id = s
        BY <2>1, <2>2 DEF Billed, LastTells, SaysPro
    <2>4. sub.stripeSub = s
        BY <2>3 DEF Follows, RowTells
    <2>5. QED
        BY <2>2, <2>4, IdsAssumption
<1>2. QED
    BY <1>1, BillingTypeCorrect, BilledAlways, FollowsAlways, PTL

-----------------------------------------------------------------------------
(* The two tables                                                          *)

(* Unless webhooks overlapped, one at most is to write the row, for an     *)
(* event Stripe would send again, ...                                      *)
OneWriter ==
    ~overlapped =>
        /\ \A v, w \in Writers : v = w
        /\ ~Replaced /\ account = "subscribed" => \A w \in Writers : hook[w].event \in unanswered

(* ... and the tables match, unless there is an event to send again.       *)
Agreeing ==
    ~overlapped /\ ~Replaced /\ account = "subscribed" =>
        /\ \A w \in Hooks :
              /\ HookAt(w, "sync") => sub.tier = TierOf(hook[w].event)
              /\ HookAt(w, "answer") => Matched
        /\ ~Matched => unanswered # {}

InStep == OneWriter /\ Agreeing

LEMMA TellInStep ==
    ASSUME TypeOK, InStep, Telling
    PROVE  InStep'
<1>1. PICK s \in Subscriptions, types \in Seq(Types), o \in Object : Tell(s, types, o)
    BY DEF Telling
<1>2. (\A i \in DOMAIN events : events'[i] = events[i]) /\ unanswered \subseteq unanswered'
    BY <1>1, TellSays
<1>3. UNCHANGED <<account, sub, userType, hook, saved, overlapped, freed>>
    BY DEF Telling, database, courses
<1>4. \A w \in Hooks : HookAt(w, "sync") => hook[w].event \in DOMAIN events
    BY HookTypes DEF TypeOK
<1>5. OneWriter'
    BY <1>2, <1>3 DEF InStep, OneWriter, Writers, Replaced
<1>6. Agreeing'
    BY <1>2, <1>3, <1>4 DEF InStep, Agreeing, HookAt, TierOf, Replaced, Matched
<1>7. QED
    BY <1>5, <1>6 DEF InStep

LEMMA CallInStep ==
    ASSUME TypeOK, Saving, InStep, Calls
    PROVE  InStep'
<1>1. UNCHANGED <<hook, events, unanswered, overlapped>> /\ (Replaced => Replaced')
    BY DEF Calls, Replaced
<1>2. account' = "subscribed" /\ account # "subscribed" => account = "user" /\ sub' = Fresh
    BY DEF Calls
<1>3. account = "user" => userType = "FREE" /\ \A w \in Hooks : hook[w] = Idle
    BY DEF Saving
<1>4. OneWriter'
    BY <1>1, <1>2, <1>3 DEF InStep, OneWriter, Writers, Idle
<1>5. Agreeing'
    <2>1. CASE account = "user" /\ sub' = Fresh /\ userType' = userType
        BY <1>1, <1>3, <2>1 DEF Agreeing, Fresh, HookAt, Idle, Matched
    <2>2. CASE /\ account' \in {account, "gone"} /\ UNCHANGED <<userType, freed>>
               /\ sub'.tier = sub.tier
        BY <1>1, <2>2 DEF InStep, Agreeing, HookAt, TierOf, Matched
    <2>3. CASE UNCHANGED <<account, sub>> /\ userType' = "FREE" /\ (~freed' => ~freed /\ sub.tier = "FREE")
        BY <1>1, <2>3 DEF InStep, Agreeing, HookAt, TierOf, Matched
    <2>4. QED
        BY <2>1, <2>2, <2>3 DEF Calls
<1>6. QED
    BY <1>4, <1>5 DEF InStep

LEMMA TierInStep ==
    ASSUME TypeOK, InStep, NEW tier \in AdminTiers, ChangeTier(tier)
    PROVE  InStep'
<1>1. UNCHANGED <<hook, events, unanswered>> /\ userType' = tier
    BY DEF ChangeTier, external
<1>2. sub'.tier = tier
    BY DEF ChangeTier, TypeOK, Row
<1>3. ~overlapped' => Writers = {}
    BY Zenon DEF ChangeTier
<1>4. OneWriter'
    BY <1>1, <1>3 DEF OneWriter, Writers
<1>5. Agreeing'
    BY <1>1, <1>2, <1>3 DEF Agreeing, Writers, HookAt, Matched
<1>6. QED
    BY <1>4, <1>5 DEF InStep

(* A webhook that writes nothing in a step, and is no writer after it.     *)
LEMMA LeavesInStep ==
    ASSUME InStep, NEW w \in Hooks, Others(w), UNCHANGED <<database, events, saved, overlapped, freed>>,
           hook'[w].pc \notin {"upsert", "sync", "answer"},
           \/ unanswered' = unanswered
           \/ Replaced \/ account # "subscribed"
           \/ unanswered' = unanswered \ {hook[w].event} /\ HookAt(w, "answer")
    PROVE  InStep'
<1> USE DEF database
<1>1. /\ Writers' \subseteq Writers \ {w}
      /\ \A v \in Hooks : HookAt(v, "sync")' \/ HookAt(v, "answer")' => v # w /\ hook'[v] = hook[v]
    BY DEF Writers, Others, HookAt
<1>2. \A v \in Writers' : hook'[v] = hook[v]
    BY <1>1 DEF Writers, Others
<1>3. HookAt(w, "answer") => w \in Writers
    BY DEF HookAt, Writers
<1>4. OneWriter'
    BY <1>1, <1>2, <1>3 DEF InStep, OneWriter, Replaced
<1>5. Agreeing'
    BY <1>1 DEF InStep, Agreeing, HookAt, TierOf, Replaced, Matched
<1>6. QED
    BY <1>4, <1>5 DEF InStep

LEMMA WebhookInStep ==
    ASSUME TypeOK, Saving, InStep, NEW w \in Hooks, Webhook(w)
    PROVE  InStep'
<1> USE DEF database, external, observed, courses, Elsewhere
<1>1. CASE Rests(w)
    BY <1>1, LeavesInStep DEF Rests, Idle
<1>2. CASE Drops(w)
    BY <1>2, LeavesInStep, OneCustomerFound DEF Drops, Idle
<1>3. CASE Mails(w)
    BY <1>3, LeavesInStep DEF Mails, Idle
<1>4. CASE Finds(w)
    <2>1. /\ UNCHANGED <<database, events, unanswered, saved, freed>> /\ Others(w)
          /\ hook'[w].pc = "upsert" /\ hook'[w].event = hook[w].event
          /\ ~overlapped' => ~overlapped /\ Writers = {} /\ hook[w].event \in unanswered
        BY <1>4 DEF Finds, Proceeds
    <2>2. Writers = {} => Writers' \subseteq {w}
        BY <2>1 DEF Writers, Others
    <2>3. OneWriter'
        BY <2>1, <2>2 DEF OneWriter
    <2>4. \A v \in Hooks : HookAt(v, "sync")' \/ HookAt(v, "answer")' => v \in Writers
        BY <2>1 DEF Writers, Others, HookAt
    <2>5. Agreeing'
        BY <2>1, <2>4 DEF InStep, Agreeing, Replaced, Matched
    <2>6. QED
        BY <2>3, <2>5 DEF InStep
<1>5. CASE Writes(w)
    <2>1. /\ UNCHANGED <<events, unanswered, saved, overlapped, freed>> /\ Others(w)
          /\ HookAt(w, "upsert") /\ hook'[w].pc = "sync" /\ hook'[w].event = hook[w].event
          /\ sub'.tier = TierOf(hook[w].event) /\ account = "subscribed"
        <3>1. account # "gone" /\ hook[w] # Idle
            BY <1>5 DEF Writes, Proceeds
        <3>2. account = "subscribed"
            BY <3>1 DEF Saving, TypeOK
        <3>3. QED
            BY <1>5, <3>2 DEF Writes, Proceeds
    <2>2. Writers' = Writers /\ w \in Writers /\ \A v \in Hooks : hook'[v].event = hook[v].event
        BY <2>1 DEF Writers, Others, HookAt
    <2>3. OneWriter'
        BY <2>1, <2>2 DEF InStep, OneWriter, Replaced
    <2>4. ~overlapped => \A v \in Hooks : HookAt(v, "sync")' \/ HookAt(v, "answer")' => v = w
        BY <2>2 DEF InStep, OneWriter, HookAt, Writers
    <2>5. ~overlapped /\ ~Replaced => unanswered # {}
        BY <2>1, <2>2 DEF InStep, OneWriter
    <2>6. Agreeing'
        BY <2>1, <2>4, <2>5 DEF Agreeing, Replaced, HookAt, TierOf, Matched
    <2>7. QED
        BY <2>3, <2>6 DEF InStep
<1>6. CASE Syncs(w)
    <2>1. /\ UNCHANGED <<account, sub, events, unanswered, saved, overlapped, freed>> /\ Others(w)
          /\ HookAt(w, "sync") /\ hook'[w].pc = "answer" /\ hook'[w].event = hook[w].event
          /\ userType' = TierOf(hook[w].event)
        BY <1>6 DEF Syncs, Proceeds
    <2>2. Writers' = Writers /\ w \in Writers /\ \A v \in Hooks : hook'[v].event = hook[v].event
        BY <2>1 DEF Writers, Others, HookAt
    <2>3. OneWriter'
        BY <2>1, <2>2 DEF InStep, OneWriter, Replaced
    <2>4. ~overlapped => \A v \in Hooks : HookAt(v, "sync")' \/ HookAt(v, "answer")' => v = w
        BY <2>2 DEF InStep, OneWriter, HookAt, Writers
    <2>5. Agreeing'
        BY <2>1, <2>4 DEF InStep, Agreeing, Replaced, HookAt, Matched
    <2>6. QED
        BY <2>3, <2>5 DEF InStep
<1>7. QED
    BY <1>1, <1>2, <1>3, <1>4, <1>5, <1>6, HookKinds

LEMMA InStepAlways == Spec => []InStep
<1>1. Init => InStep
    BY DEF Init, InStep, OneWriter, Agreeing, Writers, HookAt, Idle, Matched, Fresh
<1>2. TypeOK /\ Saving /\ InStep /\ [Next]_vars => InStep'
    <2> SUFFICES ASSUME TypeOK, Saving, InStep, [Next]_vars PROVE InStep'
        OBVIOUS
    <2>1. ASSUME NEW c \in Callers, Call(c) PROVE InStep'
        BY <2>1, CallKinds, TellInStep, CallInStep
    <2>2. ASSUME NEW s \in Subscriptions, Stripe(s) PROVE InStep'
        BY <2>2, StripeTells, TellInStep
    <2>3. CASE UNCHANGED vars
        BY <2>3 DEF vars, database, external, observed, courses, InStep, OneWriter, Agreeing,
                    Writers, Replaced, HookAt, TierOf, Matched
    <2>4. QED
        BY <2>1, <2>2, <2>3, TierInStep, WebhookInStep DEF Next
<1>3. QED
    BY <1>1, <1>2, BillingTypeCorrect, SavingAlways, PTL DEF Spec

(* For any requests, webhooks and events, in any order, with any failure   *)
(* between the two writes: the tables agree once all is settled, unless    *)
(* webhooks were to write the row at one time or a second customer came    *)
(* between; a late SyncFree parts them by leaving FREE, and not otherwise. *)
THEOREM TablesAgree == Spec => []TypesAgree
<1>1. InStep => TypesAgree
    BY DEF InStep, Agreeing, TypesAgree, Settled
<1>2. QED
    BY <1>1, InStepAlways, PTL

-----------------------------------------------------------------------------
(* The welcome                                                             *)

(* What was written to the row tells of subscriptions that ended, and of   *)
(* the one the latest event is about.                                      *)
Ended == {s \in Subscriptions : \E i \in DOMAIN events : i <= latest /\ Deleted(i) /\ events[i].id = s}
Newest == {s \in Subscriptions : latest > 0 /\ events[latest].id = s}
Counted == Ended \cup Newest

(* There is a welcome for each of them at most, and a webhook that is to   *)
(* send one has written of a subscription that none was sent for.          *)
Welcoming ==
    ~stale /\ ~overlapped /\ "FREE" \notin granted =>
        /\ welcomes <= Cardinality(Counted)
        /\ \A w \in Writers : hook[w].upgrade =>
              /\ ~Deleted(hook[w].event)
              /\ HookAt(w, "upsert") => sub.tier = "FREE"
              /\ ~HookAt(w, "upsert") => welcomes < Cardinality(Counted)

(* All of them were paid for.                                              *)
Countable ==
    /\ IsFiniteSet(Ended) /\ Cardinality(Ended) \in Nat
    /\ IsFiniteSet(Counted) /\ Cardinality(Counted) \in Nat /\ Cardinality(Counted) <= paid

LEMMA CountedPaid == TypeOK /\ Billed => Countable
<1> SUFFICES ASSUME TypeOK, Billed PROVE Countable
    OBVIOUS
<1>1. latest > 0 => latest \in DOMAIN events
    BY DEF TypeOK
<1>2. Counted \subseteq Bought /\ Ended \subseteq Counted
    BY <1>1 DEF Counted, Ended, Newest, Billed, Told
<1>3. IsFiniteSet(Counted) /\ Cardinality(Counted) <= paid
    BY <1>2, FS_Subset DEF Billed, Paid
<1>4. IsFiniteSet(Ended)
    BY <1>2, <1>3, FS_Subset
<1>5. QED
    BY <1>3, <1>4, FS_CardinalityType DEF Countable

(* Events that are sent change nothing in it.                              *)
LEMMA CountedStays ==
    ASSUME TypeOK, UNCHANGED latest, DOMAIN events \subseteq DOMAIN events',
           DOMAIN events' = 1 .. Len(events'), \A i \in DOMAIN events : events'[i] = events[i]
    PROVE  Counted' = Counted
<1>1. latest \in Nat /\ latest \in {0} \cup DOMAIN events
    BY EventIds DEF TypeOK
<1>2. \A i \in DOMAIN events' : i <= latest => i \in DOMAIN events
    BY <1>1, EventIds
<1>3. Ended' = Ended
    BY <1>2 DEF Ended, Deleted
<1>4. Newest' = Newest
    BY <1>1 DEF Newest
<1>5. QED
    BY <1>3, <1>4 DEF Counted

LEMMA WelcomingStays ==
    ASSUME TypeOK, Welcoming, Counted' = Counted, welcomes' = welcomes,
           ~stale' => ~stale, ~overlapped' => ~overlapped, granted \subseteq granted',
           \A i \in DOMAIN events : events'[i] = events[i],
           ~overlapped' => \A w \in Writers' :
              w \in Writers /\ hook'[w] = hook[w] /\ sub'.tier = sub.tier
    PROVE  Welcoming'
<1>1. \A w \in Writers : hook[w].event \in DOMAIN events
    BY HookTypes DEF Writers, TypeOK, Idle
<1>2. QED
    BY <1>1 DEF Welcoming, HookAt, Deleted

LEMMA TellWelcoming ==
    ASSUME TypeOK, Welcoming, Telling
    PROVE  Welcoming'
<1>1. PICK s \in Subscriptions, types \in Seq(Types), o \in Object : Tell(s, types, o)
    BY DEF Telling
<1>2. /\ DOMAIN events \subseteq DOMAIN events' /\ DOMAIN events' = 1 .. Len(events')
      /\ \A i \in DOMAIN events : events'[i] = events[i]
    BY <1>1, TellSays
<1>3. UNCHANGED <<sub, hook, latest, stale, overlapped, granted, welcomes>>
    BY DEF Telling, database, courses
<1>4. Counted' = Counted
    BY <1>2, <1>3, CountedStays
<1>5. QED
    BY <1>2, <1>3, <1>4, WelcomingStays DEF Writers

LEMMA CallWelcoming ==
    ASSUME TypeOK, Saving, Welcoming, Calls
    PROVE  Welcoming'
<1>1. UNCHANGED <<hook, events, latest, stale, overlapped, granted, welcomes>>
    BY DEF Calls
<1>2. Counted' = Counted
    BY <1>1 DEF Counted, Ended, Newest, Deleted
<1>3. Writers' = Writers /\ (Writers # {} => sub'.tier = sub.tier)
    <2>1. account = "user" => \A w \in Hooks : hook[w] = Idle
        BY DEF Saving
    <2>2. QED
        BY <1>1, <2>1 DEF Calls, Writers, Idle
<1>4. QED
    BY <1>1, <1>2, <1>3, WelcomingStays

LEMMA TierWelcoming ==
    ASSUME TypeOK, Welcoming, NEW tier \in AdminTiers, ChangeTier(tier)
    PROVE  Welcoming'
<1>1. UNCHANGED <<hook, events, latest, stale, welcomes>> /\ granted \subseteq granted'
    BY DEF ChangeTier, external
<1>2. ~overlapped' => ~overlapped /\ Writers = {}
    BY Zenon DEF ChangeTier
<1>3. Counted' = Counted /\ Writers' = Writers
    BY <1>1 DEF Counted, Ended, Newest, Deleted, Writers
<1>4. QED
    BY <1>1, <1>2, <1>3, WelcomingStays

(* An event that is written tells of no fewer subscriptions, and of one    *)
(* more if it makes who was FREE PRO: it is not about one that ended, and  *)
(* no other is the newest.                                                 *)
LEMMA WriteCounts ==
    ASSUME TypeOK, Billed, Billed', TypeOK', Follows, NEW w \in Hooks, Writes(w), ~stale'
    PROVE  /\ Cardinality(Counted) <= Cardinality(Counted')
           /\ "FREE" \notin granted /\ sub.tier = "FREE" /\ ~Deleted(hook[w].event) =>
                 Cardinality(Counted) < Cardinality(Counted')
<1>0. Countable'
    BY CountedPaid, PTL
<1>1. PICK i \in DOMAIN events : i = hook[w].event
    BY HookTypes DEF Writes, Proceeds, TypeOK
<1>2. /\ events' = events /\ latest' = IF i > latest THEN i ELSE latest
      /\ ~stale /\ (i < latest => ~SaysOtherwise(i, latest))
    BY <1>1 DEF Writes, Proceeds, Elsewhere
<1>3. i \in Nat /\ i > 0 /\ latest \in Nat /\ events[i].id \in Subscriptions
    BY EventIds DEF TypeOK
<1>4. SaysPro /\ "FREE" \notin granted => sub.tier = "PRO"
    BY <1>2 DEF Follows, RowTells
<1>5. PICK a \in Nat, b \in Nat, e \in Nat :
         a = Cardinality(Counted) /\ b = Cardinality(Counted') /\ e = Cardinality(Ended)
    <2>1. Cardinality(Counted) \in Nat /\ Cardinality(Ended) \in Nat
        BY CountedPaid DEF Countable
    <2>2. Cardinality(Counted') \in Nat
        BY <1>0 DEF Countable
    <2>3. QED
        BY <2>1, <2>2
<1>6. IsFiniteSet(Counted) /\ IsFiniteSet(Ended)
    BY CountedPaid DEF Countable
<1>7. IsFiniteSet(Counted')
    BY <1>0 DEF Countable
<1>8. CASE i <= latest
    <2>1. Counted' = Counted
        <3>1. latest' = latest
            BY <1>2, <1>3, <1>8
        <3>2. QED
            BY <1>2, <3>1 DEF Counted, Ended, Newest, Deleted
    <2>2. ~Deleted(i) => SaysPro
        <3>1. CASE i < latest
            BY <1>2, <1>3, <3>1 DEF SaysOtherwise, TierOf, Deleted, SaysPro
        <3>2. CASE i = latest
            BY <1>3, <3>2 DEF SaysPro
        <3>3. QED
            BY <1>3, <1>8, <3>1, <3>2
    <2>3. b = a
        BY <1>5, <2>1
    <2>4. QED
        BY <1>1, <1>4, <1>5, <2>2, <2>3
<1>9. CASE i > latest
    <2>1. PICK d \in Subscriptions : d = events[i].id
        BY <1>3
    <2>2. latest' = i
        BY <1>2, <1>3, <1>9
    <2>3. Ended \subseteq Ended'
        <3>1. \A j \in DOMAIN events : j \in Nat
            BY EventIds
        <3>2. \A j \in DOMAIN events : j <= latest => j <= i
            BY <1>3, <1>9, <3>1
        <3>3. QED
            BY <1>2, <2>2, <3>2 DEF Ended, Deleted
    <2>4. Ended \cup {d} \subseteq Counted'
        BY <1>2, <1>3, <2>1, <2>2, <2>3 DEF Counted, Newest
    <2>5. d \notin Ended
        <3>1. SUFFICES ASSUME NEW j \in DOMAIN events, j <= latest, Deleted(j), events[j].id = d
                       PROVE  FALSE
            BY DEF Ended
        <3>2. i <= j
            BY <2>1, <3>1 DEF Billed, Told
        <3>3. j \in Nat
            BY EventIds
        <3>4. QED
            BY <1>3, <1>9, <3>1, <3>2, <3>3
    <2>6. e + 1 <= b
        <3>1. Cardinality(Ended \cup {d}) = e + 1
            BY <1>5, <1>6, <2>5, FS_AddElement
        <3>2. Cardinality(Ended \cup {d}) <= Cardinality(Counted')
            BY <1>7, <2>4, FS_Subset
        <3>3. QED
            BY <1>5, <3>1, <3>2
    <2>7. CASE SaysPro
        <3>1. PICK n \in Subscriptions : n = events[latest].id
            BY <2>7, EventIds DEF SaysPro, TypeOK
        <3>2. Counted = Ended \cup {n}
            BY <2>7, <3>1 DEF Counted, Newest, SaysPro
        <3>3. Cardinality(Ended \cup {n}) = e \/ Cardinality(Ended \cup {n}) = e + 1
            BY <1>5, <1>6, FS_AddElement
        <3>4. a = e \/ a = e + 1
            BY <1>5, <3>2, <3>3
        <3>5. a <= b
            BY <2>6, <3>4
        <3>6. QED
            BY <1>4, <1>5, <2>7, <3>5
    <2>8. CASE ~SaysPro
        <3>1. Newest \subseteq Ended
            <4>1. latest > 0 => latest \in DOMAIN events /\ Deleted(latest)
                BY <2>8 DEF SaysPro, TypeOK
            <4>2. QED
                BY <1>3, <4>1 DEF Newest, Ended
        <3>2. Counted = Ended
            BY <3>1 DEF Counted
        <3>3. a < b
            BY <1>5, <2>6, <3>2
        <3>4. QED
            BY <1>5, <3>3
    <2>9. QED
        BY <2>7, <2>8
<1>10. QED
    BY <1>3, <1>8, <1>9

LEMMA WriteWelcoming ==
    ASSUME TypeOK, TypeOK', Billed, Billed', Follows, InStep, Welcoming, NEW w \in Hooks, Writes(w)
    PROVE  Welcoming'
<1> SUFFICES ASSUME ~stale', ~overlapped', "FREE" \notin granted'
             PROVE  /\ welcomes' <= Cardinality(Counted')
                    /\ \A v \in Writers' : hook'[v].upgrade =>
                          /\ ~Deleted(hook[v].event)'
                          /\ HookAt(v, "upsert")' => sub'.tier = "FREE"
                          /\ ~HookAt(v, "upsert")' => welcomes' < Cardinality(Counted')
    BY DEF Welcoming
<1>0. Countable'
    BY CountedPaid, PTL
<1>1. /\ UNCHANGED <<events, granted, welcomes, overlapped>> /\ Others(w) /\ ~stale
      /\ HookAt(w, "upsert") /\ hook'[w].pc = "sync" /\ hook'[w].event = hook[w].event
      /\ hook'[w].upgrade <=> hook[w].upgrade
    BY DEF Writes, Proceeds, Elsewhere
<1>2. Writers' = Writers /\ w \in Writers /\ \A v \in Writers : v = w
    BY <1>1 DEF Writers, Others, InStep, OneWriter, HookAt
<1>3. PICK a \in Nat, b \in Nat, n \in Nat :
         a = Cardinality(Counted) /\ b = Cardinality(Counted') /\ n = welcomes
    <2>1. Cardinality(Counted) \in Nat
        BY CountedPaid DEF Countable
    <2>2. Cardinality(Counted') \in Nat
        BY <1>0 DEF Countable
    <2>3. QED
        BY <2>1, <2>2 DEF TypeOK
<1>4. n <= a /\ (hook[w].upgrade => ~Deleted(hook[w].event) /\ sub.tier = "FREE")
    BY <1>1, <1>2, <1>3 DEF Welcoming
<1>5. a <= b /\ (sub.tier = "FREE" /\ ~Deleted(hook[w].event) => a < b)
    BY <1>1, <1>3, WriteCounts
<1>6. n <= b /\ (hook[w].upgrade => n < b)
    BY <1>4, <1>5
<1>7. Deleted(hook[w].event)' <=> Deleted(hook[w].event)
    BY <1>1 DEF Deleted
<1>8. QED
    BY <1>1, <1>2, <1>3, <1>4, <1>6, <1>7 DEF HookAt

(* A webhook that writes nothing and is no writer after the step.          *)
LEMMA LeavesWelcoming ==
    ASSUME TypeOK, Welcoming, NEW w \in Hooks, Others(w),
           UNCHANGED <<database, events, granted, latest, stale, overlapped, welcomes>>,
           hook'[w].pc \notin {"upsert", "sync", "answer"}
    PROVE  Welcoming'
<1>1. Counted' = Counted
    BY DEF Counted, Ended, Newest, Deleted
<1>2. \A v \in Writers' : v \in Writers /\ hook'[v] = hook[v]
    BY DEF Writers, Others
<1>3. QED
    BY <1>1, <1>2, WelcomingStays DEF database

LEMMA WebhookWelcoming ==
    ASSUME TypeOK, TypeOK', Billed, Billed', Follows, InStep, Welcoming, NEW w \in Hooks, Webhook(w)
    PROVE  Welcoming'
<1> USE DEF database, external, observed, courses, Elsewhere
<1>0. UNCHANGED <<events, latest>> => Counted' = Counted
    BY DEF Counted, Ended, Newest, Deleted
<1>1. CASE Rests(w)
    BY <1>1, LeavesWelcoming DEF Rests, Idle
<1>2. CASE Drops(w)
    BY <1>2, LeavesWelcoming DEF Drops, Idle
<1>3. CASE Writes(w)
    BY <1>3, WriteWelcoming
<1>4. CASE Finds(w)
    <2>1. /\ UNCHANGED <<sub, events, latest, stale, granted, welcomes>> /\ Others(w)
          /\ hook'[w].pc = "upsert" /\ hook'[w].event = hook[w].event
          /\ hook'[w].upgrade <=> Upgrades(w)
          /\ ~overlapped' => ~overlapped /\ Writers = {}
        BY <1>4 DEF Finds, Proceeds
    <2>2. Writers = {} => Writers' = {w}
        BY <2>1 DEF Writers, Others
    <2>3. Upgrades(w) => ~Deleted(hook[w].event) /\ sub.tier = "FREE"
        BY DEF Upgrades, Event, Deleted, TypeOK, Row, Tiers
    <2>4. Counted' = Counted /\ (Deleted(hook[w].event)' <=> Deleted(hook[w].event))
        BY <1>0, <2>1 DEF Deleted
    <2>5. QED
        BY <2>1, <2>2, <2>3, <2>4 DEF Welcoming, HookAt
<1>5. CASE Syncs(w)
    <2>1. /\ UNCHANGED <<sub, events, latest, stale, overlapped, granted, welcomes>> /\ Others(w)
          /\ HookAt(w, "sync") /\ hook'[w].pc = "answer" /\ hook'[w].event = hook[w].event
          /\ hook'[w].upgrade <=> hook[w].upgrade
        BY <1>5 DEF Syncs, Proceeds
    <2>2. /\ w \in Writers /\ Writers' = Writers
          /\ \A v \in Writers' : (hook'[v].upgrade <=> hook[v].upgrade) /\ hook'[v].event = hook[v].event
          /\ \A v \in Writers' : HookAt(v, "upsert")' <=> HookAt(v, "upsert")
        BY <2>1 DEF Writers, Others, HookAt
    <2>3. Counted' = Counted /\ \A i : Deleted(i)' <=> Deleted(i)
        BY <1>0, <2>1 DEF Deleted
    <2>4. \A v \in Writers' : Deleted(hook[v].event)' <=> Deleted(hook[v].event)
        BY <2>1, <2>2 DEF Deleted
    <2>5. QED
        BY <2>1, <2>2, <2>3, <2>4 DEF Welcoming
<1>6. CASE Mails(w)
    <2>1. /\ UNCHANGED <<sub, events, latest, stale, overlapped, granted>> /\ Others(w)
          /\ HookAt(w, "answer") /\ hook'[w] = Idle
          /\ welcomes' = welcomes \/ (hook[w].upgrade /\ welcomes' = welcomes + 1)
        BY <1>6 DEF Mails
    <2>2. w \in Writers /\ w \notin Writers' /\ Writers' \subseteq Writers
        BY <2>1 DEF Writers, Others, HookAt, Idle
    <2>3. ~overlapped => Writers' = {}
        BY <2>2 DEF InStep, OneWriter
    <2>4. Counted' = Counted
        BY <1>0, <2>1
    <2>5. PICK a, n, m : /\ a \in Nat /\ n \in Nat
                         /\ a = Cardinality(Counted) /\ n = welcomes /\ m = welcomes'
        BY CountedPaid DEF Countable, TypeOK
    <2>6. ~stale /\ ~overlapped /\ "FREE" \notin granted => n <= a /\ (hook[w].upgrade => n < a)
        BY <2>1, <2>2, <2>5 DEF Welcoming, HookAt
    <2>7. m = n \/ (hook[w].upgrade /\ m = n + 1)
        BY <2>1, <2>5
    <2>8. ~stale /\ ~overlapped /\ "FREE" \notin granted => m <= a
        BY <2>5, <2>6, <2>7
    <2>9. QED
        BY <2>1, <2>3, <2>4, <2>5, <2>8 DEF Welcoming
<1>7. QED
    BY <1>1, <1>2, <1>3, <1>4, <1>5, <1>6, HookKinds

LEMMA WelcomingAlways == Spec => []Welcoming
<1>1. Init => Welcoming
    <2> SUFFICES ASSUME Init PROVE Welcoming
        OBVIOUS
    <2>1. Counted = {}
        BY DEF Init, Counted, Ended, Newest
    <2>2. Cardinality(Counted) = 0
        BY <2>1, FS_EmptySet
    <2>3. welcomes = 0 /\ Writers = {}
        BY DEF Init, Writers, Idle
    <2>4. QED
        BY <2>2, <2>3 DEF Welcoming
<1>2. TypeOK /\ TypeOK' /\ Billed /\ Billed' /\ Saving /\ Follows /\ InStep /\ Welcoming /\ [Next]_vars
         => Welcoming'
    <2> SUFFICES ASSUME TypeOK, TypeOK', Billed, Billed', Saving, Follows, InStep, Welcoming,
                        [Next]_vars
                 PROVE  Welcoming'
        OBVIOUS
    <2>1. ASSUME NEW c \in Callers, Call(c) PROVE Welcoming'
        BY <2>1, CallKinds, TellWelcoming, CallWelcoming
    <2>2. ASSUME NEW s \in Subscriptions, Stripe(s) PROVE Welcoming'
        BY <2>2, StripeTells, TellWelcoming
    <2>3. CASE UNCHANGED vars
        BY <2>3 DEF vars, database, external, observed, courses, Welcoming, Counted, Ended, Newest,
                    Writers, HookAt, Deleted
    <2>4. QED
        BY <2>1, <2>2, <2>3, TierWelcoming, WebhookWelcoming DEF Next
<1>3. QED
    BY <1>1, <1>2, BillingTypeCorrect, BilledAlways, SavingAlways, FollowsAlways, InStepAlways,
       PTL DEF Spec

(* For any requests, webhooks and events, repeated, reordered or lost, and *)
(* whatever tiers the administrator gives but FREE: a payment is welcomed  *)
(* once at most, unless webhooks were to write the row at one time or      *)
(* something stale was written.                                            *)
THEOREM OneWelcomeEach == Spec => []WelcomedOnce
<1>1. TypeOK /\ Billed /\ Welcoming => WelcomedOnce
    <2> SUFFICES ASSUME TypeOK, Billed, ~stale, ~overlapped, "FREE" \notin granted, Welcoming
                 PROVE  welcomes <= paid
        BY DEF WelcomedOnce
    <2>1. PICK a \in Nat, n \in Nat, p \in Nat :
             a = Cardinality(Counted) /\ n = welcomes /\ p = paid /\ a <= p
        BY CountedPaid DEF Countable, TypeOK
    <2>2. n <= a
        BY <2>1 DEF Welcoming
    <2>3. QED
        BY <2>1, <2>2
<1>2. QED
    BY <1>1, BillingTypeCorrect, BilledAlways, WelcomingAlways, PTL

-----------------------------------------------------------------------------
(***************************************************************************)
(* MAILING                                                                 *)
(***************************************************************************)

(* Type correctness                                                        *)

(* A request that goes on keeps the types of them all; what its record     *)
(* holds is known from where it stands.                                    *)
LEMMA LoginTypes ==
    ASSUME login \in [Logins -> LoginState], NEW k \in Logins
    PROVE  /\ \A state \in LoginState : LoginGoes(k, state) => login' \in [Logins -> LoginState]
           /\ \A p \in {"find", "create", "welcome"} : LoginAt(k, p) =>
                 /\ login[k].by \in Persons
                 /\ [login[k] EXCEPT !.pc = "create"] \in LoginState
                 /\ [login[k] EXCEPT !.pc = "welcome"] \in LoginState
<1>1. login[k] \in LoginState
    OBVIOUS
<1>2. \A state \in LoginState : LoginGoes(k, state) => login' \in [Logins -> LoginState]
    BY DEF LoginGoes
<1>3. ASSUME NEW p \in {"find", "create", "welcome"}, LoginAt(k, p)
      PROVE  login[k] \in [pc: {"find", "create", "welcome"}, by: Persons]
    BY <1>1, <1>3 DEF LoginAt, LoginState, Idle
<1>4. ASSUME NEW p \in {"find", "create", "welcome"}, LoginAt(k, p)
      PROVE  /\ login[k].by \in Persons
             /\ [login[k] EXCEPT !.pc = "create"] \in LoginState
             /\ [login[k] EXCEPT !.pc = "welcome"] \in LoginState
    BY <1>3, <1>4 DEF LoginState
<1>5. QED
    BY <1>2, <1>4

LEMMA SenderTypes ==
    ASSUME sender \in [Senders -> SenderState], NEW s \in Senders
    PROVE  /\ \A state \in SenderState : SenderGoes(s, state) => sender' \in [Senders -> SenderState]
           /\ ~SenderAt(s, "idle") =>
                 /\ sender[s] \in [pc: {"check", "send", "sent"}, mail: MailRow]
                 /\ sender[s].mail \in MailRow
                 /\ sender[s].mail.to \in Persons /\ sender[s].mail.id \in 0 .. MaxMails
                 /\ [sender[s] EXCEPT !.pc = "send"] \in SenderState
                 /\ [sender[s] EXCEPT !.pc = "sent"] \in SenderState
<1>1. sender[s] \in SenderState
    OBVIOUS
<1>2. \A state \in SenderState : SenderGoes(s, state) => sender' \in [Senders -> SenderState]
    BY DEF SenderGoes
<1>3. ASSUME ~SenderAt(s, "idle")
      PROVE  sender[s] \in [pc: {"check", "send", "sent"}, mail: MailRow]
    BY <1>1, <1>3 DEF SenderAt, SenderState, Idle
<1>4. ASSUME ~SenderAt(s, "idle")
      PROVE  /\ sender[s].mail \in MailRow
             /\ [sender[s] EXCEPT !.pc = "send"] \in SenderState
             /\ [sender[s] EXCEPT !.pc = "sent"] \in SenderState
    BY <1>3, <1>4 DEF SenderState
<1>5. \A m \in MailRow : m.to \in Persons /\ m.id \in 0 .. MaxMails
    BY DEF MailRow
<1>6. QED
    BY <1>2, <1>3, <1>4, <1>5

LEMMA ProfileTypes ==
    ASSUME profile \in [Persons -> Profile], NEW p \in Persons, HasAccount(p)
    PROVE  profile[p] \in [state: {"live"}, notify: BOOLEAN, blocked: BOOLEAN]
<1>1. profile[p] \in Profile
    OBVIOUS
<1>2. QED
    BY <1>1 DEF HasAccount, Profile

LEMMA PublishTypes ==
    ASSUME mails \subseteq MailRow, published \in 0 .. MaxMails, NEW p \in Persons, Publishes(p)
    PROVE  mails' \subseteq MailRow /\ published' \in 0 .. MaxMails
<1>1. published \in 0 .. MaxMails /\ published + 1 \in 0 .. MaxMails
    BY MailsAssumption DEF Publishes
<1>2. [id |-> published, to |-> p] \in MailRow
    BY <1>1 DEF MailRow
<1>3. QED
    BY <1>1, <1>2 DEF Publishes

(* Every variable keeps its type.                                          *)
THEOREM MailTypeCorrect == MailSpec => []MailTypeOK
<1>1. MailInit => MailTypeOK
    BY MailsAssumption
       DEF MailInit, MailTypeOK, Profile, LoginState, SenderState
<1>2. MailTypeOK /\ [MailNext]_mailVars => MailTypeOK'
    <2> SUFFICES ASSUME MailTypeOK, [MailNext]_mailVars PROVE MailTypeOK'
        OBVIOUS
    <2> USE DEF MailTypeOK, mailQueue, mailObserved
    <2>1. ASSUME NEW k \in Logins, NEW p \in Persons, Admit(k, p) PROVE MailTypeOK'
        <3>1. [pc |-> "find", by |-> p] \in LoginState
            BY DEF LoginState
        <3>2. QED
            BY <2>1, <3>1, LoginTypes DEF Admit
    <2>2. ASSUME NEW k \in Logins, FindUser(k) PROVE MailTypeOK'
        <3>1. login' \in [Logins -> LoginState]
            BY <2>2, LoginTypes DEF FindUser, LoginState
        <3>2. QED
            BY <2>2, <3>1 DEF FindUser
    <2>3. ASSUME NEW k \in Logins, CreateUser(k) PROVE MailTypeOK'
        <3> DEFINE p == login[k].by
        <3>1. p \in Persons /\ login' \in [Logins -> LoginState]
            BY <2>3, LoginTypes DEF CreateUser
        <3>2. creations' \in 0 .. MaxCreations
            BY <2>3, MailsAssumption DEF CreateUser
        <3>3. [state |-> "live", notify |-> TRUE, blocked |-> FALSE] \in Profile
            BY DEF Profile
        <3>4. profile' \in [Persons -> Profile]
            BY <2>3, <3>1, <3>3 DEF CreateUser
        <3>5. greetings' \in [Persons -> Int]
            BY <2>3, <3>1 DEF CreateUser
        <3>6. QED
            BY <2>3, <3>1, <3>2, <3>4, <3>5 DEF CreateUser
    <2>4. ASSUME NEW k \in Logins, SendWelcomeEmail(k) PROVE MailTypeOK'
        <3>1. login[k].by \in Persons /\ login' \in [Logins -> LoginState]
            BY <2>4, LoginTypes DEF SendWelcomeEmail, LoginState
        <3>2. mails' \subseteq MailRow /\ published' \in 0 .. MaxMails
            BY <2>4, <3>1, PublishTypes DEF SendWelcomeEmail
        <3>3. QED
            BY <2>4, <3>1, <3>2 DEF SendWelcomeEmail
    <2>5. ASSUME NEW k \in Logins, LoginFails(k) PROVE MailTypeOK'
        BY <2>5, LoginTypes DEF LoginFails, LoginState
    <2>6. ASSUME NEW p \in Persons, NEW yes \in BOOLEAN, UpdatePreferences(p, yes)
          PROVE  MailTypeOK'
        <3>1. [profile[p] EXCEPT !.notify = yes] \in Profile
            BY <2>6, ProfileTypes DEF UpdatePreferences, Profile
        <3>2. profile' \in [Persons -> Profile]
            BY <2>6, <3>1 DEF UpdatePreferences
        <3>3. turned' \subseteq 0 .. MaxMails
            BY <2>6, SenderTypes DEF UpdatePreferences, Checked, SenderAt
        <3>4. QED
            BY <2>6, <3>2, <3>3 DEF UpdatePreferences
    <2>7. ASSUME NEW p \in Persons, NEW yes \in BOOLEAN, BlockUser(p, yes) PROVE MailTypeOK'
        <3>1. [profile[p] EXCEPT !.blocked = yes] \in Profile
            BY <2>7, ProfileTypes DEF BlockUser, Profile
        <3>2. QED
            BY <2>7, <3>1 DEF BlockUser
    <2>8. ASSUME NEW p \in Persons, DeleteAccount(p) PROVE MailTypeOK'
        BY <2>8 DEF DeleteAccount, Profile
    <2>9. ASSUME NEW p \in Persons, PublishSendEmail(p) PROVE MailTypeOK'
        BY <2>9, PublishTypes DEF PublishSendEmail
    <2>10. ASSUME NEW s \in Senders, NEW mail \in mails, HandleSendEmail(s, mail) PROVE MailTypeOK'
        <3>1. [pc |-> "check", mail |-> mail] \in SenderState
            BY DEF SenderState
        <3>2. QED
            BY <2>10, <3>1, SenderTypes DEF HandleSendEmail
    <2>11. ASSUME NEW s \in Senders, CheckOptOut(s) \/ Acknowledge(s) PROVE MailTypeOK'
        <3>1. sender' \in [Senders -> SenderState]
            BY <2>11, SenderTypes DEF CheckOptOut, Acknowledge, SenderAt, SenderState
        <3>2. QED
            BY <2>11, <3>1 DEF CheckOptOut, Acknowledge
    <2>12. ASSUME NEW s \in Senders, SendMail(s) PROVE MailTypeOK'
        <3>1. sender[s].mail.id \in 0 .. MaxMails /\ sender' \in [Senders -> SenderState]
            BY <2>12, SenderTypes DEF SendMail, SenderAt
        <3>2. QED
            BY <2>12, <3>1 DEF SendMail
    <2>13. ASSUME NEW s \in Senders, Requeue(s) PROVE MailTypeOK'
        <3>1. sender[s].mail \in MailRow /\ sender' \in [Senders -> SenderState]
            BY <2>13, SenderTypes DEF Requeue, SenderState
        <3>2. QED
            BY <2>13, <3>1 DEF Requeue
    <2>14. ASSUME NEW mail \in mails, ExpireMail(mail) PROVE MailTypeOK'
        BY <2>14 DEF ExpireMail
    <2>15. CASE UNCHANGED mailVars
        BY <2>15 DEF mailVars
    <2>16. QED
        BY <2>1, <2>2, <2>3, <2>4, <2>5, <2>6, <2>7, <2>8, <2>9, <2>10, <2>11, <2>12, <2>13, <2>14,
           <2>15
           DEF MailNext, Account, Deliver
<1>3. QED
    BY <1>1, <1>2, PTL DEF MailSpec

-----------------------------------------------------------------------------
(* Welcome mails                                                           *)

(* The requests that have created an account of p and not welcomed it yet. *)
Welcomes(p) == {k \in Logins : LoginAt(k, "welcome") /\ login[k].by = p}

(* A user's welcome mails, sent and still owed, are as many as his         *)
(* accounts at most.                                                       *)
Balanced == \A p \in Persons : greetings[p] + Cardinality(Welcomes(p)) <= 0

LEMMA WelcomesFinite ==
    ASSUME IsFiniteSet(Logins), NEW p
    PROVE  IsFiniteSet(Welcomes(p)) /\ Cardinality(Welcomes(p)) \in Nat
BY FS_Subset, FS_CardinalityType DEF Welcomes

(* Who is owed no more than before, with the same greetings, is balanced.  *)
LEMMA StillBalanced ==
    ASSUME IsFiniteSet(Logins), MailTypeOK, Balanced, UNCHANGED greetings,
           \A p \in Persons : Welcomes(p)' \subseteq Welcomes(p)
    PROVE  Balanced'
<1> SUFFICES ASSUME NEW p \in Persons PROVE greetings'[p] + Cardinality(Welcomes(p)') <= 0
    BY DEF Balanced
<1>1. Cardinality(Welcomes(p)') <= Cardinality(Welcomes(p)) /\ Cardinality(Welcomes(p)') \in Nat
    BY WelcomesFinite, FS_Subset, FS_CardinalityType
<1>2. greetings[p] + Cardinality(Welcomes(p)) <= 0 /\ greetings[p] \in Int
    BY DEF Balanced, MailTypeOK
<1>3. QED
    BY <1>1, <1>2, WelcomesFinite

(* A request that goes on to another step than the welcome.                *)
LEMMA WelcomesShrink ==
    ASSUME MailTypeOK, NEW k \in Logins, NEW state, state.pc # "welcome", LoginGoes(k, state)
    PROVE  \A p \in Persons : Welcomes(p)' = Welcomes(p) \ {k}
BY DEF MailTypeOK, LoginGoes, Welcomes, LoginAt

(* Every account is welcomed once at most, however many first requests of  *)
(* a user overlap and however often the user is deleted and comes back.    *)
THEOREM OneWelcomePerAccount ==
    ASSUME IsFiniteSet(Logins)
    PROVE  MailSpec => []WelcomedPerAccount
<1>1. MailInit => Balanced
    <2> SUFFICES ASSUME MailInit, NEW p \in Persons PROVE greetings[p] + Cardinality(Welcomes(p)) <= 0
        BY DEF Balanced
    <2>1. Welcomes(p) = {}
        BY DEF MailInit, Welcomes, LoginAt, Idle
    <2>2. QED
        BY <2>1, FS_EmptySet DEF MailInit
<1>2. MailTypeOK /\ Balanced /\ [MailNext]_mailVars => Balanced'
    <2> SUFFICES ASSUME MailTypeOK, Balanced, [MailNext]_mailVars PROVE Balanced'
        OBVIOUS
    <2> USE DEF mailQueue, mailObserved
    <2>1. ASSUME UNCHANGED <<login, greetings>> PROVE Balanced'
        <3>1. \A p \in Persons : Welcomes(p)' \subseteq Welcomes(p)
            BY <2>1 DEF Welcomes, LoginAt
        <3>2. QED
            BY <2>1, <3>1, StillBalanced
    <2>2. ASSUME NEW k \in Logins, NEW state, state.pc # "welcome", LoginGoes(k, state),
                 UNCHANGED greetings
          PROVE  Balanced'
        BY <2>2, WelcomesShrink, StillBalanced
    <2>3. ASSUME NEW k \in Logins, FindUser(k) PROVE Balanced'
        <3>1. /\ Idle.pc # "welcome"
              /\ [login[k] EXCEPT !.pc = "create"].pc # "welcome"
            BY <2>3, LoginTypes DEF FindUser, MailTypeOK, LoginState, LoginAt, Idle
        <3>2. QED
            BY <2>2, <2>3, <3>1 DEF FindUser
    <2>4. ASSUME NEW k \in Logins, CreateUser(k) PROVE Balanced'
        <3>0. PICK q \in Persons : login[k].by = q
            BY <2>4, LoginTypes DEF CreateUser, MailTypeOK
        <3>1. /\ greetings \in [Persons -> Int]
              /\ greetings' = [greetings EXCEPT ![q] = @ - 1]
            BY <2>4, <3>0 DEF CreateUser, MailTypeOK
        <3>2. /\ Welcomes(q)' \subseteq Welcomes(q) \cup {k}
              /\ \A p \in Persons \ {q} : Welcomes(p)' \subseteq Welcomes(p)
            <4>1. login \in [Logins -> LoginState] /\ login[k] \in [pc: {"create"}, by: Persons]
                BY <2>4 DEF CreateUser, MailTypeOK, LoginAt, LoginState, Idle
            <4>2. login' = [login EXCEPT ![k] = [login[k] EXCEPT !.pc = "welcome"]]
                BY <2>4 DEF CreateUser, LoginGoes
            <4>3. login'[k].by = q /\ \A j \in Logins \ {k} : login'[j] = login[j]
                BY <3>0, <4>1, <4>2
            <4>4. QED
                BY <4>3 DEF Welcomes, LoginAt
        <3> SUFFICES ASSUME NEW p \in Persons PROVE greetings'[p] + Cardinality(Welcomes(p)') <= 0
            BY DEF Balanced
        <3>3. greetings[p] + Cardinality(Welcomes(p)) <= 0 /\ Cardinality(Welcomes(p)) \in Nat
            BY WelcomesFinite DEF Balanced
        <3>4. CASE p = q
            <4>1. /\ IsFiniteSet(Welcomes(q) \cup {k})
                  /\ Cardinality(Welcomes(q) \cup {k}) <= Cardinality(Welcomes(q)) + 1
                <5>1. IsFiniteSet(Welcomes(q)) /\ Cardinality(Welcomes(q)) \in Nat
                    BY WelcomesFinite
                <5>2. /\ IsFiniteSet(Welcomes(q) \cup {k})
                      /\ \/ Cardinality(Welcomes(q) \cup {k}) = Cardinality(Welcomes(q))
                         \/ Cardinality(Welcomes(q) \cup {k}) = Cardinality(Welcomes(q)) + 1
                    BY <5>1, FS_AddElement
                <5>3. QED
                    BY <5>1, <5>2
            <4>2. /\ Cardinality(Welcomes(q)') <= Cardinality(Welcomes(q) \cup {k})
                  /\ Cardinality(Welcomes(q)') \in Nat
                BY <3>2, <4>1, FS_Subset, FS_CardinalityType
            <4>3. Cardinality(Welcomes(q) \cup {k}) \in Nat
                BY <4>1, FS_CardinalityType
            <4>4. QED
                BY <3>1, <3>3, <3>4, <4>1, <4>2, <4>3
        <3>5. CASE p # q
            <4>1. Cardinality(Welcomes(p)') <= Cardinality(Welcomes(p)) /\ Cardinality(Welcomes(p)') \in Nat
                BY <3>2, <3>5, WelcomesFinite, FS_Subset, FS_CardinalityType
            <4>2. QED
                BY <3>1, <3>3, <3>5, <4>1
        <3>6. QED
            BY <3>4, <3>5
    <2>5. ASSUME NEW k \in Logins, SendWelcomeEmail(k) PROVE Balanced'
        <3>0. PICK q \in Persons : login[k].by = q
            BY <2>5, LoginTypes DEF SendWelcomeEmail, MailTypeOK
        <3>1. /\ greetings \in [Persons -> Int]
              /\ greetings' = [greetings EXCEPT ![q] = @ + 1]
            BY <2>5, <3>0 DEF SendWelcomeEmail, MailTypeOK
        <3>2. k \in Welcomes(q) /\ \A p \in Persons : Welcomes(p)' = Welcomes(p) \ {k}
            BY <2>5, <3>0, WelcomesShrink DEF SendWelcomeEmail, Welcomes, Idle
        <3> SUFFICES ASSUME NEW p \in Persons PROVE greetings'[p] + Cardinality(Welcomes(p)') <= 0
            BY DEF Balanced
        <3>3. greetings[p] + Cardinality(Welcomes(p)) <= 0 /\ Cardinality(Welcomes(p)) \in Nat
            BY WelcomesFinite DEF Balanced
        <3>4. CASE p = q
            <4>1. Cardinality(Welcomes(q)') = Cardinality(Welcomes(q)) - 1
                BY <3>2, WelcomesFinite, FS_RemoveElement
            <4>2. QED
                BY <3>1, <3>3, <3>4, <4>1
        <3>5. CASE p # q
            <4>1. k \notin Welcomes(p)
                BY <3>0, <3>5 DEF Welcomes
            <4>2. Welcomes(p)' = Welcomes(p)
                BY <3>2, <4>1
            <4>3. QED
                BY <3>1, <3>3, <3>5, <4>2
        <3>6. QED
            BY <3>4, <3>5
    <2>6. ASSUME NEW k \in Logins, Account(k) PROVE Balanced'
        BY <2>2, <2>3, <2>4, <2>5, <2>6 DEF Account, Admit, LoginFails, Idle
    <2>7. ASSUME NEW p \in Persons, NEW yes \in BOOLEAN,
                 UpdatePreferences(p, yes) \/ BlockUser(p, yes)
          PROVE  Balanced'
        BY <2>1, <2>7 DEF UpdatePreferences, BlockUser
    <2>8. ASSUME NEW p \in Persons, DeleteAccount(p) \/ PublishSendEmail(p) PROVE Balanced'
        BY <2>1, <2>8 DEF DeleteAccount, PublishSendEmail
    <2>9. ASSUME NEW s \in Senders, Deliver(s) PROVE Balanced'
        BY <2>1, <2>9 DEF Deliver, HandleSendEmail, CheckOptOut, SendMail, Acknowledge, Requeue
    <2>10. ASSUME NEW mail \in mails, ExpireMail(mail) PROVE Balanced'
        BY <2>1, <2>10 DEF ExpireMail
    <2>11. CASE UNCHANGED mailVars
        BY <2>1, <2>11 DEF mailVars
    <2>12. QED
        BY <2>6, <2>7, <2>8, <2>9, <2>10, <2>11 DEF MailNext
<1>3. MailTypeOK /\ Balanced => WelcomedPerAccount
    <2> SUFFICES ASSUME MailTypeOK, Balanced, NEW p \in Persons PROVE greetings[p] <= 0
        BY DEF WelcomedPerAccount
    <2>1. QED
        BY WelcomesFinite DEF Balanced, MailTypeOK
<1>4. QED
    BY <1>1, <1>2, <1>3, MailTypeCorrect, PTL DEF MailSpec

-----------------------------------------------------------------------------
(* Opting out                                                              *)

(* A mail that passed the check, of a user who does not want mails, was    *)
(* past it already when he said so.                                        *)
CheckedBefore ==
    \A s \in Senders :
        SenderAt(s, "send") /\ HasAccount(sender[s].mail.to) /\ ~profile[sender[s].mail.to].notify
            => sender[s].mail.id \in turned

(* A mail is handed over against the wish of its user only when he changed *)
(* it between the check and the sending, however mails are repeated.       *)
THEOREM OptOutIsRespected == MailSpec => []OptOutRespected
<1> DEFINE Inv == CheckedBefore /\ OptOutRespected
<1>1. MailInit => Inv
    BY DEF MailInit, CheckedBefore, OptOutRespected, SenderAt, Idle
<1>2. MailTypeOK /\ Inv /\ [MailNext]_mailVars => Inv'
    <2> SUFFICES ASSUME MailTypeOK, CheckedBefore, OptOutRespected, [MailNext]_mailVars PROVE Inv'
        OBVIOUS
    <2> USE DEF mailQueue, mailObserved
    <2>0. profile \in [Persons -> Profile] /\ sender \in [Senders -> SenderState]
        BY DEF MailTypeOK
    <2>1. ASSUME UNCHANGED <<profile, sender, refused, turned>> PROVE Inv'
        BY <2>1 DEF CheckedBefore, OptOutRespected, SenderAt, HasAccount
    <2>2. ASSUME NEW p \in Persons, UNCHANGED <<sender, refused, turned>>,
                 \/ profile' = [profile EXCEPT ![p] = NoAccount]
                 \/ profile' = [profile EXCEPT ![p] =
                       [state |-> "live", notify |-> TRUE, blocked |-> FALSE]]
                 \/ \E yes \in BOOLEAN :
                       HasAccount(p) /\ profile' = [profile EXCEPT ![p].blocked = yes]
          PROVE  Inv'
        <3>1. ASSUME NEW q \in Persons, HasAccount(q)', ~profile'[q].notify
              PROVE  HasAccount(q) /\ ~profile[q].notify
            BY <2>0, <2>2, <3>1, ProfileTypes DEF HasAccount
        <3>2. CheckedBefore'
            BY <2>0, <2>2, <3>1, SenderTypes DEF CheckedBefore, SenderAt
        <3>3. QED
            BY <2>2, <3>2 DEF OptOutRespected
    <2>3. ASSUME NEW p \in Persons, NEW yes \in BOOLEAN, UpdatePreferences(p, yes) PROVE Inv'
        <3>1. /\ profile' = [profile EXCEPT ![p].notify = yes] /\ UNCHANGED <<sender, refused>>
              /\ turned' = turned \cup
                    {sender[s].mail.id : s \in {t \in Senders : Checked(t, p) /\ ~yes}}
            BY <2>3 DEF UpdatePreferences
        <3>2. CheckedBefore'
            <4> SUFFICES ASSUME NEW s \in Senders, SenderAt(s, "send")',
                                profile'[sender'[s].mail.to] # NoAccount,
                                ~profile'[sender'[s].mail.to].notify
                         PROVE  sender'[s].mail.id \in turned'
                BY DEF CheckedBefore, HasAccount
            <4>1. SenderAt(s, "send") /\ sender'[s] = sender[s] /\ sender[s].mail.to \in Persons
                BY <2>0, <3>1, SenderTypes DEF SenderAt
            <4>2. CASE sender[s].mail.to = p
                <5>1. ~yes
                    BY <2>0, <2>3, <3>1, <4>1, <4>2, ProfileTypes DEF UpdatePreferences
                <5>2. Checked(s, p)
                    BY <4>1, <4>2 DEF Checked, SenderAt
                <5>3. QED
                    BY <3>1, <4>1, <5>1, <5>2
            <4>3. CASE sender[s].mail.to # p
                BY <2>0, <3>1, <4>1, <4>3 DEF CheckedBefore, HasAccount
            <4>4. QED
                BY <4>2, <4>3
        <3>3. QED
            BY <3>1, <3>2 DEF OptOutRespected
    <2>4. ASSUME NEW s \in Senders, NEW state, state.pc # "send", SenderGoes(s, state),
                 UNCHANGED <<profile, refused, turned>>
          PROVE  Inv'
        BY <2>0, <2>4 DEF CheckedBefore, OptOutRespected, SenderGoes, SenderAt, HasAccount
    <2>5. ASSUME NEW s \in Senders, CheckOptOut(s) PROVE Inv'
        <3> DEFINE p == sender[s].mail.to
        <3>1. CASE HasAccount(p) /\ profile[p].notify
            <4>1. sender' = [sender EXCEPT ![s] = [sender[s] EXCEPT !.pc = "send"]]
                  /\ UNCHANGED <<profile, refused, turned>>
                BY <2>5, <3>1 DEF CheckOptOut, SenderGoes
            <4>2. sender'[s].mail = sender[s].mail /\ \A t \in Senders \ {s} : sender'[t] = sender[t]
                BY <2>0, <2>5, <4>1, SenderTypes DEF CheckOptOut, SenderAt
            <4>3. CheckedBefore'
                BY <3>1, <4>1, <4>2 DEF CheckedBefore, SenderAt, HasAccount
            <4>4. QED
                BY <4>1, <4>3 DEF OptOutRespected
        <3>2. CASE ~(HasAccount(p) /\ profile[p].notify)
            BY <2>4, <2>5, <3>2 DEF CheckOptOut, Idle
        <3>3. QED
            BY <3>1, <3>2
    <2>6. ASSUME NEW s \in Senders, SendMail(s) PROVE Inv'
        <3> DEFINE mail == sender[s].mail
        <3>1. /\ SenderAt(s, "send") /\ UNCHANGED <<profile, turned>>
              /\ SenderGoes(s, [sender[s] EXCEPT !.pc = "sent"])
              /\ refused' = refused \cup
                    {i \in {mail.id} : HasAccount(mail.to) /\ ~profile[mail.to].notify}
            BY <2>6 DEF SendMail
        <3>2. OptOutRespected'
            BY <3>1 DEF CheckedBefore, OptOutRespected
        <3>3. [sender[s] EXCEPT !.pc = "sent"].pc # "send"
            BY <2>0, <3>1, SenderTypes DEF SenderAt
        <3>4. CheckedBefore'
            BY <2>0, <3>1, <3>3 DEF CheckedBefore, SenderGoes, SenderAt, HasAccount
        <3>5. QED
            BY <3>2, <3>4
    <2>7. ASSUME NEW s \in Senders, Deliver(s) PROVE Inv'
        BY <2>4, <2>5, <2>6, <2>7 DEF Deliver, HandleSendEmail, Acknowledge, Requeue, Idle
    <2>8. ASSUME NEW k \in Logins, Account(k) PROVE Inv'
        <3>1. ASSUME CreateUser(k) PROVE Inv'
            <4>1. login[k].by \in Persons
                BY <3>1, LoginTypes DEF CreateUser, MailTypeOK
            <4>2. QED
                BY <2>2, <3>1, <4>1 DEF CreateUser
        <3>2. QED
            BY <2>1, <2>8, <3>1 DEF Account, Admit, FindUser, SendWelcomeEmail, LoginFails
    <2>9. ASSUME NEW p \in Persons, NEW yes \in BOOLEAN, BlockUser(p, yes) PROVE Inv'
        BY <2>2, <2>9 DEF BlockUser
    <2>10. ASSUME NEW p \in Persons, DeleteAccount(p) \/ PublishSendEmail(p) PROVE Inv'
        BY <2>1, <2>2, <2>10 DEF DeleteAccount, PublishSendEmail
    <2>11. ASSUME NEW mail \in mails, ExpireMail(mail) PROVE Inv'
        BY <2>1, <2>11 DEF ExpireMail
    <2>12. CASE UNCHANGED mailVars
        BY <2>1, <2>12 DEF mailVars
    <2>13. QED
        BY <2>3, <2>7, <2>8, <2>9, <2>10, <2>11, <2>12 DEF MailNext
<1>3. QED
    BY <1>1, <1>2, MailTypeCorrect, PTL DEF MailSpec

-----------------------------------------------------------------------------
(***************************************************************************)
(* WHAT IS MODEL-CHECKED                                                   *)
(***************************************************************************)

(* What MCAccounts explores are behaviours of Billing and of Mailing.      *)
LEMMA AccountsImplement == AccountsSpec => Spec /\ MailSpec
<1>1. AccountsInit => Init /\ MailInit
    BY DEF AccountsInit
<1>2. [AccountsNext]_<<vars, mailVars, part>> => [Next]_vars /\ [MailNext]_mailVars
    BY DEF AccountsNext, BillingStep
<1>3. QED
    BY <1>1, <1>2, PTL DEF AccountsSpec, Spec, MailSpec

(* Every variable of their composition keeps its type.                     *)
THEOREM AccountsTypeCorrect == AccountsSpec => []AccountsTypeOK
<1>1. TypeOK /\ MailTypeOK => AccountsTypeOK
    BY DEF AccountsTypeOK
<1>2. QED
    BY <1>1, AccountsImplement, BillingTypeCorrect, MailTypeCorrect, PTL
=============================================================================
