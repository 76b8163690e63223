----------------------------- MODULE Advisories -----------------------------
(***************************************************************************)
(* The advisories administrators publish, the dismissals of the users, and *)
(* the list of active advisories that is cached for each user.             *)
(*                                                                         *)
(* A request is a process with one step per call of the database or of the *)
(* cache.  Time is what has passed: whether an advisory's expiresAt has,   *)
(* and whether a cached list's five minutes have, which may be at any      *)
(* time.  The lists are kept as sets: their order, the texts and the pages *)
(* of the administrators' list are left out.                               *)
(***************************************************************************)
EXTENDS FiniteSets, Steps

CONSTANTS
    Readers,    \* the users who look at advisories
    Notices,    \* bound: the advisories created
    Calls       \* the requests the application can serve at one time

VARIABLES
    advisory,   \* the rows of Advisory: "none" before creation, "gone" after deletion
    dismissals, \* the rows of UserAdvisoryDismissal: <<user, advisory>>
    lists,      \* the cached list of each user
    call,       \* where each request stands
    (* observations of the run, read by no action *)
    dismissed,  \* the dismissals that were answered
    late        \* <<user, advisory>> in a list read before the dismissal, and not yet cached

advisoryVars == <<advisory, dismissals, lists, call, dismissed, late>>

NoList == [cached |-> FALSE]
NoAdvisory == [status |-> "none"]

AdvisoryInit ==
    /\ advisory = [a \in Notices |-> NoAdvisory]
    /\ dismissals = {}
    /\ lists = [u \in Readers |-> NoList]
    /\ call = [k \in Calls |-> Idle]
    /\ dismissed = {} /\ late = {}

Stored(a) == advisory[a].status \notin {"none", "gone"}
CallAt(k, p) == call[k].pc = p
CallGoes(k, state) == call' = [call EXCEPT ![k] = state]

-----------------------------------------------------------------------------
(* Administrators                                                          *)

(* The columns of a new advisory; its expiresAt, if any, is in the future. *)
CreateAdvisory(a) ==
    /\ advisory[a].status = "none"
    /\ \E expiry \in {"never", "ahead"} :
          advisory' = [advisory EXCEPT ![a] = [status |-> "DRAFT", expiry |-> expiry,
                                               published |-> FALSE]]
    /\ UNCHANGED <<dismissals, lists, call, dismissed, late>>

(* update, publish, archive and delete find the advisory first: publish    *)
(* must not find it PUBLISHED.                                             *)
FindAdvisory(k, op, a) ==
    /\ CallAt(k, "idle")
    /\ Stored(a)
    /\ op = "publish" => advisory[a].status # "PUBLISHED"
    /\ CallGoes(k, [pc |-> op, advisory |-> a])
    /\ UNCHANGED <<advisory, dismissals, lists, dismissed, late>>

(* The new expiresAt was in the future when it was checked.                *)
UpdateAdvisory(k) ==
    /\ CallAt(k, "update")
    /\ LET a == call[k].advisory
       IN  /\ Stored(a)
           /\ \E expiry \in {"never", "ahead", "past"} :
                 advisory' = [advisory EXCEPT ![a].expiry = expiry]
    /\ CallGoes(k, Idle)
    /\ UNCHANGED <<dismissals, lists, dismissed, late>>

Publish(k) ==
    /\ CallAt(k, "publish")
    /\ LET a == call[k].advisory
       IN  /\ Stored(a)
           /\ advisory' = [advisory EXCEPT ![a].status = "PUBLISHED", ![a].published = TRUE]
    /\ CallGoes(k, Idle)
    /\ UNCHANGED <<dismissals, lists, dismissed, late>>

Archive(k) ==
    /\ CallAt(k, "archive")
    /\ LET a == call[k].advisory
       IN  /\ Stored(a)
           /\ advisory' = [advisory EXCEPT ![a].status = "ARCHIVED"]
    /\ CallGoes(k, Idle)
    /\ UNCHANGED <<dismissals, lists, dismissed, late>>

(* The dismissals of an advisory are deleted with it.                      *)
DeleteAdvisory(k) ==
    /\ CallAt(k, "remove")
    /\ LET a == call[k].advisory
       IN  /\ Stored(a)
           /\ advisory' = [advisory EXCEPT ![a] = [status |-> "gone"]]
           /\ dismissals' = dismissals \ (Readers \X {a})
           /\ dismissed' = dismissed \ (Readers \X {a})
           /\ late' = late \ (Readers \X {a})
    /\ CallGoes(k, Idle)
    /\ UNCHANGED lists

Expire(a) ==
    /\ Stored(a) /\ advisory[a].expiry = "ahead"
    /\ advisory' = [advisory EXCEPT ![a].expiry = "past"]
    /\ UNCHANGED <<dismissals, lists, call, dismissed, late>>

-----------------------------------------------------------------------------
(* Users                                                                   *)

(* getActiveForUser answers with the cached list if there is one, be it    *)
(* empty ...                                                               *)
GetActive(k, u) ==
    /\ CallAt(k, "idle")
    /\ CallGoes(k, IF lists[u].cached THEN [pc |-> "answered", by |-> u, list |-> lists[u].list]
                                      ELSE [pc |-> "query", by |-> u])
    /\ UNCHANGED <<advisory, dismissals, lists, dismissed, late>>

Published(a) == advisory[a].status = "PUBLISHED" /\ advisory[a].published

Active(u) == {a \in Notices : Stored(a) /\ Published(a) /\ advisory[a].expiry # "past"
                              /\ <<u, a>> \notin dismissals}

(* ... or reads it, and then caches it for five minutes.                   *)
QueryActive(k) ==
    /\ CallAt(k, "query")
    /\ CallGoes(k, [pc |-> "cache", by |-> call[k].by, list |-> Active(call[k].by)])
    /\ UNCHANGED <<advisory, dismissals, lists, dismissed, late>>

CacheList(k) ==
    /\ CallAt(k, "cache")
    /\ lists' = [lists EXCEPT ![call[k].by] = [cached |-> TRUE, list |-> call[k].list]]
    /\ CallGoes(k, [call[k] EXCEPT !.pc = "answered"])
    /\ UNCHANGED <<advisory, dismissals, dismissed, late>>

Answered(k) ==
    /\ CallAt(k, "answered")
    /\ CallGoes(k, Idle)
    /\ UNCHANGED <<advisory, dismissals, lists, dismissed, late>>

Lapse(u) ==
    /\ lists[u].cached
    /\ lists' = [lists EXCEPT ![u] = NoList]
    /\ UNCHANGED <<advisory, dismissals, call, dismissed, late>>

(* dismiss finds the advisory, ...                                         *)
FindToDismiss(k, u, a) ==
    /\ CallAt(k, "idle")
    /\ Stored(a)
    /\ CallGoes(k, [pc |-> "dismiss", by |-> u, advisory |-> a])
    /\ UNCHANGED <<advisory, dismissals, lists, dismissed, late>>

(* The lists read before now, and cached later, still have the advisory.   *)
BeingCached(u, a) ==
    \E q \in Calls : CallAt(q, "cache") /\ call[q].by = u /\ a \in call[q].list

(* ... stores the dismissal, if there is none, ...                         *)
Dismiss(k) ==
    /\ CallAt(k, "dismiss")
    /\ LET pair == <<call[k].by, call[k].advisory>>
       IN  /\ Stored(pair[2])
           /\ dismissals' = dismissals \cup {pair}
           /\ late' = late \cup {p \in {pair} : p \notin dismissals /\ BeingCached(p[1], p[2])}
    /\ CallGoes(k, [call[k] EXCEPT !.pc = "forget"])
    /\ UNCHANGED <<advisory, lists, dismissed>>

ForgetNot(k) ==                                   \* mutant: the list is kept
    /\ CallAt(k, "forget")
    /\ dismissed' = dismissed \cup {p \in {<<call[k].by, call[k].advisory>>} : p \in dismissals}
    /\ CallGoes(k, Idle)
    /\ UNCHANGED <<advisory, dismissals, lists, late>>

(* ... and deletes the cached list.                                        *)
Forget(k) ==
    /\ CallAt(k, "forget")
    /\ lists' = [lists EXCEPT ![call[k].by] = NoList]
    /\ dismissed' = dismissed \cup {p \in {<<call[k].by, call[k].advisory>>} : p \in dismissals}
    /\ CallGoes(k, Idle)
    /\ UNCHANGED <<advisory, dismissals, late>>

(* A call of the database or the cache fails, and with it the request.     *)
CallFails(k) ==
    /\ ~CallAt(k, "idle")
    /\ CallGoes(k, Idle)
    /\ UNCHANGED <<advisory, dismissals, lists, dismissed, late>>

-----------------------------------------------------------------------------

Administer(k) ==
    \/ \E a \in Notices, op \in {"update", "publish", "archive", "remove"} :
          FindAdvisory(k, op, a)
    \/ UpdateAdvisory(k) \/ Publish(k) \/ Archive(k) \/ DeleteAdvisory(k)

Use(k) ==
    \/ \E u \in Readers : GetActive(k, u) \/ \E a \in Notices : FindToDismiss(k, u, a)
    \/ QueryActive(k) \/ CacheList(k) \/ Answered(k)
    \/ Dismiss(k) \/ Forget(k) \/ CallFails(k)

AdvisoryNext ==
    \/ \E a \in Notices : CreateAdvisory(a) \/ Expire(a)
    \/ \E k \in Calls : Administer(k) \/ Use(k)
    \/ \E u \in Readers : Lapse(u)

AdvisorySpec == AdvisoryInit /\ [][AdvisoryNext]_advisoryVars

-----------------------------------------------------------------------------
(* Properties                                                              *)

AdvisoryRow == {NoAdvisory, [status |-> "gone"]} \cup
       [status: {"DRAFT", "PUBLISHED", "ARCHIVED"}, expiry: {"never", "ahead", "past"},
        published: BOOLEAN]

CallState ==
    {Idle}
    \cup [pc: {"update", "publish", "archive", "remove"}, advisory: Notices]
    \cup [pc: {"query"}, by: Readers]
    \cup [pc: {"cache", "answered"}, by: Readers, list: SUBSET Notices]
    \cup [pc: {"dismiss", "forget"}, by: Readers, advisory: Notices]

AdvisoryTypeOK ==
    /\ advisory \in [Notices -> AdvisoryRow]
    /\ dismissals \in SUBSET (Readers \X Notices)
    /\ lists \in [Readers -> {NoList} \cup [cached: {TRUE}, list: SUBSET Notices]]
    /\ call \in [Calls -> CallState]
    /\ dismissed \in SUBSET dismissals /\ late \in SUBSET dismissals

(* "Invalidate user's cache so dismissed advisory disappears immediately": *)
(* once a dismissal is answered no list is cached, or about to be, that    *)
(* has the advisory, whatever is published, withdrawn and published again; *)
(* but for the lists that were read before the dismissal and were waiting  *)
(* to be cached.                                                           *)
DismissedStaysHidden ==
    \A u \in Readers, a \in Notices : <<u, a>> \in dismissed \ late =>
        /\ lists[u].cached => a \notin lists[u].list
        /\ ~BeingCached(u, a)
=============================================================================
