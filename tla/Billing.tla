------------------------------- MODULE Billing -------------------------------
(***************************************************************************)
(* The plan of one user: the Subscription row and User.userType of the     *)
(* database, the customers, checkout sessions and subscriptions of Stripe, *)
(* and the webhook events that carry the second to the first.              *)
(*                                                                         *)
(* A request (GET /me, checkout, cancel, the administrator's deletion of   *)
(* the user) and a webhook are processes of the main application, one step *)
(* per call of the database or of Stripe; a step that fails, or a process  *)
(* that stops, leaves what was done and nothing more.  Stripe sends an     *)
(* event with the subscription as it was then, and again until a webhook   *)
(* has answered it, several at one time and in any order.                  *)
(*                                                                         *)
(* There is one price, that of PRO.  Users without an account and the      *)
(* texts of the emails are left out.                                       *)
(***************************************************************************)
EXTENDS Integers, Sequences, FiniteSets, Steps

CONSTANTS
    Callers,        \* the requests the application can serve at one time
    Hooks,          \* the webhooks it can serve at one time
    Customers,      \* the customers Stripe can create
    Subscriptions,  \* the checkout sessions, and the subscriptions they become
    Ops,            \* what is requested: "me", "checkout", "cancel", "delete"
    AdminTiers,     \* the tiers the administrator can give
    MaxEvents       \* bound: the events Stripe sends

Null == "null"
Tiers == {"FREE", "PRO"}
Live == {"active", "past_due"}

ASSUME IdsAssumption == Null \notin Customers \cup Subscriptions
ASSUME OpsAssumption == Ops \subseteq {"me", "checkout", "cancel", "delete"}
ASSUME TiersAssumption == AdminTiers \subseteq Tiers
ASSUME EventsAssumption == MaxEvents \in Nat

VARIABLES
    account,     \* "user", "subscribed" once the Subscription row is there, "gone"
    sub,         \* the columns of the Subscription row
    userType,    \* User.userType
    caller,      \* where each request stands
    hook,        \* where each webhook stands
    (* Stripe *)
    created,     \* the customers
    stripe,      \* the sessions and subscriptions
    events,      \* every event sent
    unanswered,  \* the indices of those Stripe sends again
    (* observations of the run, read by no action *)
    granted,     \* the tiers the administrator has given
    doubled,     \* a session was opened beside another one or a subscription
    saved,       \* the customers that were saved in the row
    latest,      \* the latest event written to the row, by its index
    stale,       \* an event was written after a later one that says otherwise
    overlapped,  \* a webhook found the row while another was to write it, or for an
                 \* event answered since; or changeTier came while one was to
    freed,       \* SyncFree ran when the row had another tier already
    paid,        \* checkouts paid
    welcomes     \* emails "Welcome to Minifi PRO" published

database == <<account, sub, userType>>
external == <<created, stripe, events, unanswered>>
courses == <<doubled, saved, latest, stale, overlapped, freed>>
observed == <<granted, courses, paid, welcomes>>
vars == <<database, caller, hook, external, observed>>

Fresh == [tier |-> "FREE", status |-> "ACTIVE", customer |-> Null,
          stripeSub |-> Null, cancelAtPeriodEnd |-> FALSE]

Init ==
    /\ account = "user" /\ sub = Fresh /\ userType = "FREE"
    /\ caller = [c \in Callers |-> Idle]
    /\ hook = [w \in Hooks |-> Idle]
    /\ created = {}
    /\ stripe = [s \in Subscriptions |->
                    [state |-> "none", customer |-> Null, cancelAtPeriodEnd |-> FALSE]]
    /\ events = <<>> /\ unanswered = {}
    /\ granted = {} /\ doubled = FALSE /\ saved = {} /\ latest = 0
    /\ stale = FALSE /\ overlapped = FALSE /\ freed = FALSE
    /\ paid = 0 /\ welcomes = 0

-----------------------------------------------------------------------------
(* Stripe                                                                  *)

(* The events types, about subscription s as it now is.                    *)
Send(types, s, object) ==
    /\ Len(events) + Len(types) <= MaxEvents
    /\ stripe' = [stripe EXCEPT ![s] = object]
    /\ events' = events \o
          [i \in 1 .. Len(types) |-> [type |-> types[i], id |-> s, object |-> object]]
    /\ unanswered' = unanswered \cup (Len(events) + 1 .. Len(events) + Len(types))

Becomes(s, types, state) ==
    /\ Send(types, s, [stripe[s] EXCEPT !.state = state])
    /\ UNCHANGED <<database, caller, hook, created, granted, courses, welcomes>>

Pay(s) ==
    /\ stripe[s].state = "offered"
    /\ Becomes(s, <<"completed", "upsert">>, "active")
    /\ paid' = paid + 1

ChargeFails(s) ==
    /\ stripe[s].state = "active"
    /\ Becomes(s, <<"upsert">>, "past_due") /\ UNCHANGED paid

ChargeSucceeds(s) ==
    /\ stripe[s].state = "past_due"
    /\ Becomes(s, <<"upsert">>, "active") /\ UNCHANGED paid

PeriodEnds(s) ==
    /\ stripe[s].state = "past_due" \/ (stripe[s].state = "active" /\ stripe[s].cancelAtPeriodEnd)
    /\ Becomes(s, <<"deleted">>, "canceled") /\ UNCHANGED paid

SessionExpires(s) ==
    /\ stripe[s].state = "offered"
    /\ Becomes(s, <<>>, "expired") /\ UNCHANGED paid

-----------------------------------------------------------------------------
(* Requests                                                                *)

CallerGoes(c, state) == caller' = [caller EXCEPT ![c] = state]
CallerEnds(c) == CallerGoes(c, Idle)
CallerAt(c, p) == caller[c].pc = p

ThenNewCustomer(op, row) ==                 \* mutant: every checkout makes one
    CASE op = "checkout" -> [pc |-> "customer"]
      [] op = "cancel" /\ row.stripeSub # Null -> [pc |-> "cancel", id |-> row.stripeSub]
      [] OTHER -> Idle

(* What a request does with the Subscription row it has got.               *)
Then(op, row) ==
    CASE op = "checkout" /\ row.customer = Null -> [pc |-> "customer"]
      [] op = "checkout" /\ row.customer # Null -> [pc |-> "session", id |-> row.customer]
      [] op = "cancel" /\ row.stripeSub # Null -> [pc |-> "cancel", id |-> row.stripeSub]
      [] OTHER -> Idle

(* getOrCreateSubscription finds the row, or that there is none.           *)
FindSubscription(c, op) ==
    /\ CallerAt(c, "idle")
    /\ account # "gone"
    /\ CallerGoes(c, IF account = "user" THEN [pc |-> "create", op |-> op] ELSE Then(op, sub))
    /\ UNCHANGED <<database, hook, external, observed>>

(* A second creation breaks the unique index.                              *)
CreateSubscription(c) ==
    /\ CallerAt(c, "create")
    /\ account = "user"
    /\ account' = "subscribed" /\ sub' = Fresh
    /\ CallerGoes(c, [pc |-> "free", op |-> caller[c].op])
    /\ UNCHANGED <<userType, hook, external, observed>>

SyncFree(c) ==
    /\ CallerAt(c, "free")
    /\ account # "gone"
    /\ userType' = "FREE"
    /\ CallerGoes(c, Then(caller[c].op, Fresh))
    /\ freed' = (freed \/ sub.tier # "FREE")
    /\ UNCHANGED <<account, sub, hook, external, granted, paid, welcomes>>
    /\ UNCHANGED <<doubled, saved, latest, stale, overlapped>>

CreateCustomer(c) ==
    /\ CallerAt(c, "customer")
    /\ \E k \in Customers \ created :
          /\ created' = created \cup {k}
          /\ CallerGoes(c, [pc |-> "save", id |-> k])
    /\ UNCHANGED <<database, hook, stripe, events, unanswered, observed>>

SaveCustomer(c) ==
    /\ CallerAt(c, "save")
    /\ account = "subscribed"
    /\ sub' = [sub EXCEPT !.customer = caller[c].id]
    /\ CallerGoes(c, [pc |-> "session", id |-> caller[c].id])
    /\ saved' = saved \cup {caller[c].id}
    /\ UNCHANGED <<account, userType, hook, external, granted, paid, welcomes>>
    /\ UNCHANGED <<doubled, latest, stale, overlapped, freed>>

CreateSession(c) ==
    /\ CallerAt(c, "session")
    /\ \E s \in Subscriptions :
          /\ stripe[s].state = "none"
          /\ stripe' = [stripe EXCEPT ![s].state = "offered", ![s].customer = caller[c].id]
    /\ CallerEnds(c)
    /\ doubled' = (doubled \/ \E s \in Subscriptions : stripe[s].state \in Live \cup {"offered"})
    /\ UNCHANGED <<database, hook, created, events, unanswered, granted, paid, welcomes>>
    /\ UNCHANGED <<saved, latest, stale, overlapped, freed>>

(* The user keeps PRO until the period ends.                               *)
CancelSubscription(c) ==
    /\ CallerAt(c, "cancel")
    /\ LET s == caller[c].id
       IN  /\ stripe[s].state \in Live
           /\ Send(<<"upsert">>, s, [stripe[s] EXCEPT !.cancelAtPeriodEnd = TRUE])
    /\ CallerEnds(c)
    /\ UNCHANGED <<database, hook, created, observed>>

(* deleteUser looks for a subscription to cancel ...                       *)
FindUserToDelete(c) ==
    /\ "delete" \in Ops
    /\ CallerAt(c, "idle")
    /\ account # "gone"
    /\ CallerGoes(c, IF account = "subscribed" /\ sub.stripeSub # Null /\ sub.status = "ACTIVE"
                     THEN [pc |-> "cancelNow", id |-> sub.stripeSub] ELSE [pc |-> "remove"])
    /\ UNCHANGED <<database, hook, external, observed>>

CancelImmediately(c) ==
    /\ CallerAt(c, "cancelNow")
    /\ LET s == caller[c].id
       IN  /\ stripe[s].state \in Live
           /\ Send(<<"deleted">>, s, [stripe[s] EXCEPT !.state = "canceled"])
    /\ CallerGoes(c, [pc |-> "remove"])
    /\ UNCHANGED <<database, hook, created, observed>>

(* ... goes on when that fails ...                                         *)
CancelRefused(c) ==
    /\ CallerAt(c, "cancelNow")
    /\ CallerGoes(c, [pc |-> "remove"])
    /\ UNCHANGED <<database, hook, external, observed>>

(* ... and deletes the user, and with it the Subscription row.             *)
DeleteUser(c) ==
    /\ CallerAt(c, "remove")
    /\ account # "gone"
    /\ account' = "gone"
    /\ CallerEnds(c)
    /\ UNCHANGED <<sub, userType, hook, external, observed>>

(* A call fails, or the application stops.                                 *)
CallerFails(c) ==
    /\ ~CallerAt(c, "idle")
    /\ CallerEnds(c)
    /\ UNCHANGED <<database, hook, external, observed>>

-----------------------------------------------------------------------------
(* Webhooks                                                                *)

HookGoes(w, state) == hook' = [hook EXCEPT ![w] = state]
HookAt(w, p) == hook[w].pc = p
Writers == {w \in Hooks : hook[w].pc \in {"upsert", "sync", "answer"}}
Continues(w, p, object, upgrade) ==
    HookGoes(w, [pc |-> p, event |-> hook[w].event, object |-> object, upgrade |-> upgrade])

(* mapStripeStatus                                                         *)
MapStatus(state) ==
    CASE state = "active" -> "ACTIVE" [] state = "past_due" -> "PAST_DUE" [] OTHER -> "CANCELLED"

Receive(w, i) ==
    /\ HookAt(w, "idle")
    /\ i \in unanswered
    /\ LET e == events[i]
       IN  HookGoes(w, [pc |-> IF e.type = "completed" THEN "retrieve" ELSE "find",
                        event |-> i, object |-> e.object, upgrade |-> FALSE])
    /\ UNCHANGED <<database, caller, external, observed>>

Event(w) == events[hook[w].event]

(* handleCheckoutCompleted fetches the subscription as it now is.          *)
Retrieve(w) ==
    /\ HookAt(w, "retrieve")
    /\ Continues(w, "find", stripe[Event(w).id], FALSE)
    /\ UNCHANGED <<database, caller, external, observed>>

(* The answer ends Stripe's attempts, unless it is lost.                   *)
Answer(w) ==
    /\ HookGoes(w, Idle)
    /\ unanswered' \in {unanswered, unanswered \ {hook[w].event}}

(* Mutant: the event alone decides of the email.                           *)
UpgradeByEvent(w) == Event(w).type # "deleted"

Upgrades(w) == Event(w).type # "deleted" /\ sub.tier # "PRO"

(* The row is found by its customer; without one the event is dropped.     *)
FindLocal(w) ==
    /\ HookAt(w, "find")
    /\ IF account = "subscribed" /\ sub.customer = hook[w].object.customer
       THEN /\ Continues(w, "upsert", hook[w].object, Upgrades(w))
            /\ UNCHANGED unanswered
            /\ overlapped' = (overlapped \/ Writers # {} \/ hook[w].event \notin unanswered)
       ELSE Answer(w) /\ UNCHANGED overlapped
    /\ UNCHANGED <<database, caller, created, stripe, events, granted, paid, welcomes>>
    /\ UNCHANGED <<doubled, saved, latest, stale, freed>>

(* Mutants: the status of Stripe is stored as it is; the subscription is   *)
(* stored while it is active only.                                         *)
ColumnsUnmapped(type, s, object) ==
    [tier |-> IF type = "deleted" THEN "FREE" ELSE "PRO", status |-> object.state,
     customer |-> object.customer, stripeSub |-> IF type = "deleted" THEN Null ELSE s,
     cancelAtPeriodEnd |-> object.cancelAtPeriodEnd]
ColumnsActive(type, s, object) ==
    [tier |-> IF type = "deleted" THEN "FREE" ELSE "PRO", status |-> MapStatus(object.state),
     customer |-> object.customer, stripeSub |-> IF object.state = "active" THEN s ELSE Null,
     cancelAtPeriodEnd |-> object.cancelAtPeriodEnd]

(* What handleSubscriptionUpsert and handleSubscriptionDeleted write.      *)
Columns(type, s, object) ==
    IF type = "deleted"
    THEN [tier |-> "FREE", status |-> "CANCELLED", customer |-> object.customer,
          stripeSub |-> Null, cancelAtPeriodEnd |-> FALSE]
    ELSE [tier |-> "PRO", status |-> MapStatus(object.state), customer |-> object.customer,
          stripeSub |-> s, cancelAtPeriodEnd |-> object.cancelAtPeriodEnd]

(* What an event says of the plan.                                         *)
TierOf(i) == IF events[i].type = "deleted" THEN "FREE" ELSE "PRO"
SaysOtherwise(i, j) == TierOf(i) # TierOf(j) \/ events[i].id # events[j].id

UpsertSubscription(w) ==
    /\ HookAt(w, "upsert")
    /\ account # "gone"
    /\ account' = "subscribed"
    /\ sub' = Columns(Event(w).type, Event(w).id, hook[w].object)
    /\ Continues(w, "sync", hook[w].object, hook[w].upgrade)
    /\ LET i == hook[w].event
       IN  /\ latest' = IF i > latest THEN i ELSE latest
           /\ stale' = (stale \/ (i < latest /\ SaysOtherwise(i, latest)))
    /\ UNCHANGED <<userType, caller, external, granted, paid, welcomes>>
    /\ UNCHANGED <<doubled, saved, overlapped, freed>>

SyncUserTypeOfUpgrade(w) ==                                       \* mutant
    /\ HookAt(w, "sync")
    /\ account # "gone"
    /\ userType' = IF hook[w].upgrade THEN "PRO" ELSE userType
    /\ Continues(w, "answer", hook[w].object, hook[w].upgrade)
    /\ UNCHANGED <<account, sub, caller, external, observed>>

SyncUserType(w) ==
    /\ HookAt(w, "sync")
    /\ account # "gone"
    /\ userType' = Columns(Event(w).type, Event(w).id, hook[w].object).tier
    /\ Continues(w, "answer", hook[w].object, hook[w].upgrade)
    /\ UNCHANGED <<account, sub, caller, external, observed>>

(* The email is published, if the user wants any, and the event answered.  *)
MailAndAnswer(w) ==
    /\ HookAt(w, "answer")
    /\ Answer(w)
    /\ welcomes' \in {welcomes, welcomes + (IF hook[w].upgrade THEN 1 ELSE 0)}
    /\ UNCHANGED <<database, caller, created, stripe, events, granted, courses, paid>>

HookFailsSilently(w) ==                  \* mutant: the error is swallowed
    /\ ~HookAt(w, "idle")
    /\ Answer(w)
    /\ UNCHANGED <<database, caller, created, stripe, events, observed>>

(* A call fails (neither the handlers nor the controller catches what it   *)
(* throws) or the application stops: Stripe will send again.               *)
HookFails(w) ==
    /\ ~HookAt(w, "idle")
    /\ HookGoes(w, Idle)
    /\ UNCHANGED <<database, caller, external, observed>>

(* The administrator's changeTier writes both tables in one transaction.   *)
ChangeTier(tier) ==
    /\ account # "gone"
    /\ account' = "subscribed"
    /\ sub' = [sub EXCEPT !.tier = tier, !.status = "ACTIVE"]
    /\ userType' = tier
    /\ granted' = granted \cup {tier}
    /\ overlapped' = (overlapped \/ Writers # {})
    /\ UNCHANGED <<caller, hook, external, paid, welcomes>>
    /\ UNCHANGED <<doubled, saved, latest, stale, freed>>

-----------------------------------------------------------------------------

Call(c) ==
    \/ \E op \in Ops \ {"delete"} : FindSubscription(c, op)
    \/ CreateSubscription(c) \/ SyncFree(c)
    \/ CreateCustomer(c) \/ SaveCustomer(c) \/ CreateSession(c)
    \/ CancelSubscription(c)
    \/ FindUserToDelete(c) \/ CancelImmediately(c) \/ CancelRefused(c) \/ DeleteUser(c)
    \/ CallerFails(c)

Webhook(w) ==
    \/ \E i \in unanswered : Receive(w, i)
    \/ Retrieve(w) \/ FindLocal(w) \/ UpsertSubscription(w) \/ SyncUserType(w)
    \/ MailAndAnswer(w) \/ HookFails(w)

Stripe(s) ==
    Pay(s) \/ ChargeFails(s) \/ ChargeSucceeds(s) \/ PeriodEnds(s) \/ SessionExpires(s)

Next ==
    \/ \E c \in Callers : Call(c)
    \/ \E w \in Hooks : Webhook(w)
    \/ \E s \in Subscriptions : Stripe(s)
    \/ \E tier \in AdminTiers : ChangeTier(tier)

Spec == Init /\ [][Next]_vars

-----------------------------------------------------------------------------
(* Properties                                                              *)

Object == [state: Live \cup {"none", "offered", "expired", "canceled"},
           customer: Customers \cup {Null}, cancelAtPeriodEnd: BOOLEAN]
Row == [tier: Tiers, status: {"ACTIVE", "PAST_DUE", "CANCELLED"},
        customer: Customers \cup {Null}, stripeSub: Subscriptions \cup {Null},
        cancelAtPeriodEnd: BOOLEAN]
EventRow == [type: {"completed", "upsert", "deleted"}, id: Subscriptions, object: Object]
CallerState ==
    {Idle} \cup [pc: {"create", "free"}, op: Ops] \cup [pc: {"customer", "remove"}]
    \cup [pc: {"save", "session"}, id: Customers]
    \cup [pc: {"cancel", "cancelNow"}, id: Subscriptions]
HookState(sent) ==
    {Idle} \cup [pc: {"retrieve", "find", "upsert", "sync", "answer"},
                 event: sent, object: Object, upgrade: BOOLEAN]

TypeOK ==
    /\ account \in {"user", "subscribed", "gone"} /\ sub \in Row /\ userType \in Tiers
    /\ caller \in [Callers -> CallerState]
    /\ hook \in [Hooks -> HookState(DOMAIN events)]
    /\ created \in SUBSET Customers
    /\ stripe \in [Subscriptions -> Object]
    /\ events \in Seq(EventRow)
    /\ unanswered \in SUBSET DOMAIN events
    /\ granted \in SUBSET Tiers /\ paid \in Nat /\ welcomes \in Nat
    /\ saved \in SUBSET Customers /\ latest \in {0} \cup DOMAIN events
    /\ doubled \in BOOLEAN /\ stale \in BOOLEAN /\ overlapped \in BOOLEAN /\ freed \in BOOLEAN

(* Nothing is under way: no request, no webhook, no event to send again.   *)
Settled ==
    /\ unanswered = {}
    /\ \A c \in Callers : CallerAt(c, "idle")
    /\ \A w \in Hooks : HookAt(w, "idle")

Subscribed == \E s \in Subscriptions : stripe[s].state \in Live
Replaced == \E j, k \in saved : j # k

(* When the webhooks have caught up the tier is what Stripe bills for,     *)
(* whatever calls failed, were repeated or came together, unless an older  *)
(* event was written over a newer one that says otherwise, two checkouts   *)
(* were open at one time, or the customer was replaced.                    *)
TierFollowsStripe ==
    Settled /\ account = "subscribed" /\ granted = {} /\ ~doubled /\ ~stale /\ ~Replaced
        => (sub.tier = "PRO" <=> Subscribed)

(* The two tables, written by two calls, agree again once the webhooks     *)
(* have caught up, whatever failed between the calls and in whatever order *)
(* events came: only webhooks that write at one time or another customer   *)
(* leave them apart, or a SyncFree that comes late, and that to FREE.      *)
Matched == userType = sub.tier \/ (freed /\ userType = "FREE")
TypesAgree == Settled /\ account = "subscribed" /\ ~overlapped /\ ~Replaced => Matched

(* Who is billed can cancel: the row names a subscription that lives.      *)
BilledCanCancel ==
    Settled /\ account = "subscribed" /\ ~doubled /\ ~stale /\ ~Replaced /\ Subscribed =>
        sub.stripeSub # Null /\ stripe[sub.stripeSub].state \in Live

(* Each payment is reported by two events, each possibly sent again, and   *)
(* is welcomed by one email at most, as long as one webhook writes at a    *)
(* time and nothing stale.                                                 *)
WelcomedOnce == ~stale /\ ~overlapped /\ "FREE" \notin granted => welcomes <= paid

(* A checkout makes a customer when it finds none: the row has seen no     *)
(* more customers, through cancellations and new checkouts, than requests  *)
(* can overlap.                                                            *)
CustomersBounded == Cardinality(saved) <= Cardinality(Callers)

(* syncUserType "keeps the User model's userType in sync with subscription *)
(* changes".                                                               *)
UserTypeInSync ==
    Settled /\ account = "subscribed" /\ granted = {} => userType = sub.tier

(* "checkout.session.completed: User finished checkout -> upgrade to PRO"  *)
(* and "user keeps PRO access until then": who is billed has PRO.          *)
BilledIsPro ==
    Settled /\ account = "subscribed" /\ granted = {} /\ Subscribed => sub.tier = "PRO"

(* "customer.subscription.deleted when period actually ends (we downgrade  *)
(* to FREE)": who is no longer billed is FREE.                             *)
EndedIsFree ==
    Settled /\ account = "subscribed" /\ granted = {} /\ ~Subscribed => sub.tier = "FREE"
=============================================================================
