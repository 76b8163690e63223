------------------------------ MODULE VisitGate ------------------------------
(***************************************************************************)
(* What a short link promises about the visits it lets through, with no    *)
(* word about statuses, dates, crons or edits.                             *)
(*                                                                         *)
(* A visit is admitted only while the gate is open and, when the link has  *)
(* always carried a click limit, only while fewer clicks than its largest  *)
(* limit are counted.  An admitted visit owes one answer: it is counted,   *)
(* served uncounted, or lost.  The gate may open and close at any time.    *)
(* LinkLifecycle implements this specification.                            *)
(***************************************************************************)
EXTENDS Integers, FiniteSets

CONSTANT Visitors       \* the visits that can be in progress at one time

VARIABLES
    open,     \* may a visit be admitted now
    inside,   \* the visits admitted and not yet answered
    used,     \* the clicks counted
    capped,   \* the link has carried a click limit at every moment so far
    cap,      \* the largest click limit it has carried
    late      \* the visits answered since the gate last closed

gateVars == <<open, inside, used, capped, cap, late>>

TypeOK ==
    /\ open \in BOOLEAN
    /\ inside \in SUBSET Visitors
    /\ used \in Nat
    /\ capped \in BOOLEAN
    /\ cap \in Nat
    /\ late \in Nat

Init ==
    /\ open = FALSE
    /\ inside = {}
    /\ used = 0
    /\ capped = TRUE
    /\ cap = 0
    /\ late = 0

(* One more answer, counted as late when the gate is closed.               *)
Answered == late' = IF open THEN 0 ELSE late + 1

Admit(v) ==
    /\ open
    /\ capped => used < cap
    /\ inside' = inside \cup {v}
    /\ UNCHANGED <<open, used, capped, cap, late>>

Count(v) ==
    /\ v \in inside
    /\ inside' = inside \ {v}
    /\ used' = used + 1
    /\ Answered
    /\ UNCHANGED <<open, capped, cap>>

ServeUncounted(v) ==
    /\ v \in inside
    /\ inside' = inside \ {v}
    /\ Answered
    /\ UNCHANGED <<open, used, capped, cap>>

(* The answer that uses the link up: the gate closes with it.              *)
Consume(v) ==
    /\ v \in inside
    /\ inside' = inside \ {v}
    /\ open' = FALSE
    /\ Answered
    /\ UNCHANGED <<used, capped, cap>>

(* Visits end without an answer.                                           *)
Abandon ==
    /\ inside' \in SUBSET inside
    /\ UNCHANGED <<open, used, capped, cap, late>>

(* The gate opens or closes, the limit changes.                            *)
Adjust ==
    /\ open' \in BOOLEAN
    /\ cap' \in Nat /\ cap' >= cap
    /\ capped' \in {capped, FALSE}
    /\ late' = IF open' \/ open THEN 0 ELSE late
    /\ UNCHANGED <<inside, used>>

Next ==
    \/ \E v \in Visitors : Admit(v) \/ Count(v) \/ ServeUncounted(v) \/ Consume(v)
    \/ Abandon
    \/ Adjust

Spec == Init /\ [][Next]_gateVars

-----------------------------------------------------------------------------

(* After the gate closes at most the visits already inside are answered.   *)
Drains == ~open => late + Cardinality(inside) <= Cardinality(Visitors)

(* A link that always had a click limit is overrun by less than the number *)
(* of visits that can be in progress at one time.                          *)
Bounded == capped => used + Cardinality(inside) <= cap + Cardinality(Visitors) - 1
=============================================================================
