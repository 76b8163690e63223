---------------------------- MODULE ClickTracking ----------------------------
(***************************************************************************)
(* The counters behind the statistics of one link.  A visit that is let    *)
(* through runs trackClickAsync: incrementClickCount, then trackLinkClick, *)
(* which looks for an earlier LinkAnalytics row of the same visitor,       *)
(* inserts its own, and increments uniqueClickCount when it found none.    *)
(* Every database call is a step of its own and may fail; the failure is   *)
(* logged and ends the procedure it happens in.                            *)
(*                                                                         *)
(* A row is its visitor and its isUnique flag; browser, place and campaign *)
(* are left out.  One-time links, whose row is gone before it is tracked,  *)
(* are in LinkLifecycle.                                                   *)
(***************************************************************************)
EXTENDS Integers, FiniteSets, Steps

CONSTANTS
    Requests,     \* the visits the main application can serve at one time
    Visitors,     \* the visitor ids, a hash of address and user agent
    MaxVisits     \* bound: the visits of the link

ASSUME SetsAssumption == IsFiniteSet(Requests) /\ IsFiniteSet(Visitors)
ASSUME VisitsAssumption == MaxVisits \in Nat

VARIABLES
    live,         \* the link is there
    clicks,       \* its clickCount
    uniqueClicks, \* its uniqueClickCount
    first,        \* how many rows of each visitor have isUnique
    again,        \* how many have not
    req,          \* where each visit stands
    (* observations of the run, read by no action *)
    visits,       \* visits that came to be tracked
    uncounted,    \* of these, those whose increment of clickCount failed
    untracked,    \* those that ended without a row
    unclaimed,    \* rows with isUnique whose increment was lost
    overlapped    \* visitors two of whose visits looked before either inserted

counters == <<clicks, uniqueClicks>>
rows == <<first, again>>
observed == <<visits, uncounted, untracked, unclaimed, overlapped>>
vars == <<live, counters, rows, req, observed>>

Steps == {"count", "find", "look", "insert", "claim"}
ReqState ==
    {Idle} \cup [pc: Steps, visitor: Visitors, isUnique: BOOLEAN]

At(r, p) == req[r].pc = p
Goto(r, p) == req' = [req EXCEPT ![r] = [@ EXCEPT !.pc = p]]
Leave(r) == req' = [req EXCEPT ![r] = Idle]
Busy(p) == {r \in Requests : At(r, p)}

Init ==
    /\ live = TRUE
    /\ clicks = 0 /\ uniqueClicks = 0
    /\ first = [v \in Visitors |-> 0] /\ again = [v \in Visitors |-> 0]
    /\ req = [r \in Requests |-> Idle]
    /\ visits = 0 /\ uncounted = 0 /\ untracked = 0 /\ unclaimed = 0
    /\ overlapped = {}

(* trackClickAsync, once resolveShortCode has let the visit through.       *)
TrackClick(r, v) ==
    /\ At(r, "idle")
    /\ live
    /\ visits < MaxVisits
    /\ req' = [req EXCEPT ![r] = [pc |-> "count", visitor |-> v, isUnique |-> FALSE]]
    /\ visits' = visits + 1
    /\ UNCHANGED <<live, counters, rows, uncounted, untracked, unclaimed, overlapped>>

(* A link that is gone is not counted; a failed call is logged.            *)
IncrementClickCount(r) ==
    /\ At(r, "count")
    /\ \/ live /\ clicks' = clicks + 1 /\ UNCHANGED uncounted
       \/ uncounted' = uncounted + 1 /\ UNCHANGED clicks
    /\ Goto(r, "find")
    /\ UNCHANGED <<live, uniqueClicks, rows, visits, untracked, unclaimed, overlapped>>

FindLink(r) ==
    /\ At(r, "find")
    /\ live
    /\ Goto(r, "look")
    /\ UNCHANGED <<live, counters, rows, observed>>

(* Mutants: the query asks for the visitor's repeated rows only; the click *)
(* count of the link stands in for the query.                              *)
SeenAgain(v) == again[v] > 0
SeenByCount(v) == clicks > 1

Seen(v) == first[v] + again[v] > 0

(* The visit has looked for a row of its visitor and has not yet inserted. *)
Looking(r) == At(r, "insert")

LookForVisit(r) ==
    /\ At(r, "look")
    /\ LET v == req[r].visitor
       IN  /\ req' = [req EXCEPT ![r].pc = "insert", ![r].isUnique = ~Seen(v)]
           /\ overlapped' = overlapped \cup
                 {w \in {v} : \E q \in Requests : Looking(q) /\ req[q].visitor = v}
    /\ UNCHANGED <<live, counters, rows, visits, uncounted, untracked, unclaimed>>

Row(v, isUnique) ==
    /\ first' = [first EXCEPT ![v] = @ + (IF isUnique THEN 1 ELSE 0)]
    /\ again' = [again EXCEPT ![v] = @ + (IF isUnique THEN 0 ELSE 1)]

(* Mutant: "if (isUnique)" is forgotten.                                   *)
InsertVisitAndClaim(r) ==
    /\ At(r, "insert")
    /\ live
    /\ Row(req[r].visitor, req[r].isUnique)
    /\ Goto(r, "claim")
    /\ UNCHANGED <<live, counters, observed>>

(* The foreign key refuses a row of a deleted link.                        *)
InsertVisit(r) ==
    /\ At(r, "insert")
    /\ live
    /\ Row(req[r].visitor, req[r].isUnique)
    /\ IF req[r].isUnique THEN Goto(r, "claim") ELSE Leave(r)
    /\ UNCHANGED <<live, counters, observed>>

(* The row is inserted but the reply is lost.                              *)
InsertUnanswered(r) ==
    /\ At(r, "insert")
    /\ live
    /\ Row(req[r].visitor, req[r].isUnique)
    /\ Leave(r)
    /\ unclaimed' = unclaimed + (IF req[r].isUnique THEN 1 ELSE 0)
    /\ UNCHANGED <<live, counters, visits, uncounted, untracked, overlapped>>

ClaimUnique(r) ==
    /\ At(r, "claim")
    /\ live
    /\ uniqueClicks' = uniqueClicks + 1
    /\ Leave(r)
    /\ UNCHANGED <<live, clicks, rows, observed>>

(* The catch of trackLinkClick: a call failed, or the link is gone.        *)
TrackFails(r) ==
    /\ req[r].pc \in {"find", "look", "insert", "claim"}
    /\ Leave(r)
    /\ IF At(r, "claim")
       THEN unclaimed' = unclaimed + 1 /\ UNCHANGED untracked
       ELSE untracked' = untracked + 1 /\ UNCHANGED unclaimed
    /\ UNCHANGED <<live, counters, rows, visits, uncounted, overlapped>>

(* The rows are deleted with the link they belong to.                      *)
DeleteLink ==
    /\ live
    /\ live' = FALSE
    /\ UNCHANGED <<counters, rows, req, observed>>

(* The main application stops and starts: what it was doing is forgotten.  *)
Restart ==
    /\ req' = [r \in Requests |-> Idle]
    /\ uncounted' = uncounted + Cardinality(Busy("count"))
    /\ untracked' = untracked + Cardinality(Busy("count") \cup Busy("find")
                                            \cup Busy("look") \cup Busy("insert"))
    /\ unclaimed' = unclaimed + Cardinality(Busy("claim"))
    /\ UNCHANGED <<live, counters, rows, visits, overlapped>>

Next ==
    \/ \E r \in Requests :
          \/ \E v \in Visitors : TrackClick(r, v)
          \/ IncrementClickCount(r) \/ FindLink(r) \/ LookForVisit(r)
          \/ InsertVisit(r) \/ InsertUnanswered(r)
          \/ ClaimUnique(r) \/ TrackFails(r)
    \/ DeleteLink
    \/ Restart

Spec == Init /\ [][Next]_vars

-----------------------------------------------------------------------------
(* Properties                                                              *)

TypeOK ==
    /\ live \in BOOLEAN
    /\ clicks \in Nat /\ uniqueClicks \in Nat
    /\ first \in [Visitors -> Nat] /\ again \in [Visitors -> Nat]
    /\ req \in [Requests -> ReqState]
    /\ visits \in Nat /\ uncounted \in Nat /\ untracked \in Nat /\ unclaimed \in Nat
    /\ overlapped \in SUBSET Visitors

(* The rows, numbered for each visitor, and how many they are.             *)
Numbered(f) == UNION {{v} \X (1 .. f[v]) : v \in Visitors}
Total(f) == Cardinality(Numbered(f))

(* The three statistics a dashboard shows (clickCount, uniqueClickCount    *)
(* and the LinkAnalytics rows) differ only by the visits in progress and   *)
(* by the database calls that failed: no interleaving loses or repeats an  *)
(* increment or a row.                                                     *)
StatisticsAgree ==
    /\ visits = clicks + uncounted + Cardinality(Busy("count"))
    /\ visits = Total(first) + Total(again) + untracked
                + Cardinality(Busy("count")) + Cardinality(Busy("find"))
                + Cardinality(Busy("look")) + Cardinality(Busy("insert"))
    /\ Total(first) = uniqueClicks + unclaimed + Cardinality(Busy("claim"))

(* A visitor who has a row has one with isUnique: counting the unique rows *)
(* misses nobody, whatever visits failed.                                  *)
NobodyMissed == \A v \in Visitors : again[v] > 0 => first[v] > 0

(* isUnique is "true for first visit from this visitor", and for no other  *)
(* visit unless two visits of that visitor overlapped: the look and the    *)
(* insertion are two calls.                                                *)
UniqueUnlessOverlapped == \A v \in Visitors : first[v] > 1 => v \in overlapped

(* Even then a visitor is counted at most once per visit the application   *)
(* serves at one time, however often the visitor comes back.               *)
DuplicatesBounded == \A v \in Visitors : first[v] <= Cardinality(Requests)
=============================================================================
