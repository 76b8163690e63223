------------------------------ MODULE MCAccounts ------------------------------
(***************************************************************************)
(* Small instances of Billing and Mailing for TLC.  They share nothing; a  *)
(* behaviour is about the one or the other: the product of both says no    *)
(* more, and is out of TLC's reach.  Nor can all that meets in Billing     *)
(* meet in one instance of it: a behaviour is about all of its steps, one  *)
(* request and one event after the other; about requests that overlap; or  *)
(* about webhooks that do, in any order.                                   *)
(***************************************************************************)
EXTENDS MCBilling, Mailing, TLC

CONSTANTS k1, k2, s1    \* the first customers and the first subscription

VARIABLE part

BillingParts == {"lifetime", "requests", "webhooks"}

AccountsInit == Init /\ MailInit /\ part \in BillingParts \cup {"mails"}

OneRequest == Cardinality({c \in Callers : ~CallerAt(c, "idle")}) <= 1

(* Customers are alike, and so are subscriptions: the first comes first.   *)
FirstFirst ==
    /\ created \in {{}, {k1}, {k1, k2}, Customers}
    /\ stripe[s1].state = "none" => \A s \in Subscriptions : stripe[s].state = "none"

Lifetime ==
    /\ OneRequest /\ InOrder
    /\ created \subseteq {k1, k2} /\ (k2 \in created => Len(events) <= 2)
    /\ granted # {} => Cardinality(granted) = 1 /\ Len(events) <= 3
Requests ==
    /\ InOrder
    /\ account # "gone" /\ granted = {} /\ Len(events) <= 3
    /\ Len(events) = 3 => \A s \in Subscriptions \ {s1} : stripe[s].state = "none"
    /\ created = Customers => events = <<>>
Webhooks ==
    /\ OneRequest /\ (events # <<>> => \A c \in Callers : caller[c].pc \in {"idle", "cancel"})
    /\ account # "gone" /\ granted = {}
    /\ Len(events) <= 4 /\ Cardinality(unanswered) <= 2
    /\ created \subseteq {k1} /\ \A s \in Subscriptions \ {s1} : stripe[s].state = "none"

BillingStep ==
    /\ Next /\ FirstFirst' /\ welcomes' <= paid' + 1
    /\ \/ part = "lifetime" /\ Lifetime'
       \/ part = "requests" /\ Requests'
       \/ part = "webhooks" /\ Webhooks'

AccountsNext ==
    \/ part \in BillingParts /\ BillingStep /\ UNCHANGED <<mailVars, part>>
    \/ part = "mails" /\ MailNext /\ UNCHANGED <<vars, part>>

AccountsSpec == AccountsInit /\ [][AccountsNext]_<<vars, mailVars, part>>

(* Requests are alike, and so are webhooks.                                *)
Symmetric == Permutations(Callers) \cup Permutations(Hooks)

AccountsTypeOK == TypeOK /\ MailTypeOK
=============================================================================
