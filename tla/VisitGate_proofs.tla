--------------------------- MODULE VisitGate_proofs ---------------------------
(***************************************************************************)
(* The promises of VisitGate, for every finite set of visitors, which is   *)
(* a hypothesis of each theorem that counts them.                          *)
(***************************************************************************)
EXTENDS VisitGate, FiniteSetTheorems, TLAPS

(* The sets of visits in progress are finite, have natural cardinalities,  *)
(* and lose one when a visit is answered.                                  *)
LEMMA VisitCount ==
    ASSUME IsFiniteSet(Visitors), Visitors # {},
           NEW S, NEW T, S \subseteq Visitors, T \subseteq S
    PROVE  /\ Cardinality(S) \in Nat /\ Cardinality(T) \in Nat
           /\ Cardinality(Visitors) \in Nat \ {0}
           /\ Cardinality(S) <= Cardinality(Visitors)
           /\ Cardinality(T) <= Cardinality(S)
           /\ \A v \in S : Cardinality(S \ {v}) = Cardinality(S) - 1
<1>1. IsFiniteSet(S) /\ IsFiniteSet(T)
    BY FS_Subset
<1>2. /\ Cardinality(S) <= Cardinality(Visitors)
      /\ Cardinality(T) <= Cardinality(S)
    BY <1>1, FS_Subset
<1>3. /\ Cardinality(S) \in Nat /\ Cardinality(T) \in Nat
      /\ Cardinality(Visitors) \in Nat
    BY <1>1, FS_CardinalityType
<1>4. Cardinality(Visitors) # 0
    BY FS_EmptySet
<1>5. \A v \in S : Cardinality(S \ {v}) = Cardinality(S) - 1
    BY <1>1, FS_RemoveElement
<1>6. QED
    BY <1>2, <1>3, <1>4, <1>5

(* Every variable keeps its type.                                          *)
THEOREM GateTypeCorrect == Spec => []TypeOK
<1>1. Init => TypeOK
    <2>1. Init => open \in BOOLEAN /\ capped \in BOOLEAN
        BY Zenon DEF Init
    <2>2. Init => inside \in SUBSET Visitors /\ used \in Nat /\ cap \in Nat /\ late \in Nat
        BY SMT DEF Init
    <2>3. QED
        BY <2>1, <2>2 DEF TypeOK
<1>2. TypeOK /\ [Next]_gateVars => TypeOK'
    <2> SUFFICES ASSUME TypeOK, [Next]_gateVars PROVE TypeOK'
        OBVIOUS
    <2>1. open' \in BOOLEAN /\ capped' \in BOOLEAN
        BY Zenon DEF TypeOK, Next, gateVars, Admit, Count, ServeUncounted, Consume,
           Abandon, Adjust
    <2>2. inside' \in SUBSET Visitors
        BY DEF TypeOK, Next, gateVars, Admit, Count, ServeUncounted, Consume,
           Abandon, Adjust
    <2>3. used' \in Nat /\ cap' \in Nat /\ late' \in Nat
        <3>1. /\ used' \in {used, used + 1}
              /\ cap' = cap \/ cap' \in Nat
              /\ late' \in {late, late + 1, 0}
            BY Zenon DEF Next, gateVars, Admit, Count, ServeUncounted, Consume,
               Abandon, Adjust, Answered
        <3>2. used \in Nat /\ cap \in Nat /\ late \in Nat
            BY Zenon DEF TypeOK
        <3>3. QED
            BY <3>1, <3>2
    <2>4. QED
        BY <2>1, <2>2, <2>3 DEF TypeOK
<1>3. QED
    BY <1>1, <1>2, PTL DEF Spec

(* After the gate closes at most the visits already inside are answered:   *)
(* each answer after the closing takes one visit out, and none comes in.   *)
THEOREM GateDrains ==
    ASSUME IsFiniteSet(Visitors), Visitors # {}
    PROVE  Spec => []Drains
<1>1. Init => Drains
    <2>1. Init => late = 0 /\ inside = {}
        BY DEF Init
    <2>2. Cardinality({}) = 0
        BY FS_EmptySet
    <2>3. Cardinality(Visitors) \in Nat
        BY FS_CardinalityType
    <2>4. QED
        BY <2>1, <2>2, <2>3 DEF Drains
<1>2. TypeOK /\ Drains /\ [Next]_gateVars => Drains'
    <2> SUFFICES ASSUME TypeOK, Drains, [Next]_gateVars, ~open'
                 PROVE  (late + Cardinality(inside) <= Cardinality(Visitors))'
        BY DEF Drains
    <2>1. /\ Cardinality(inside) \in Nat
          /\ Cardinality(Visitors) \in Nat \ {0}
          /\ Cardinality(inside) <= Cardinality(Visitors)
          /\ \A v \in inside : Cardinality(inside \ {v}) = Cardinality(inside) - 1
        BY VisitCount DEF TypeOK
    <2>2. ASSUME NEW v \in Visitors, Admit(v) PROVE FALSE
        BY <2>2 DEF Admit
    <2>3. CASE \E v \in inside : inside' = inside \ {v} /\ Answered
                                 /\ (open' = open \/ open' = FALSE)
        BY <2>1, <2>3 DEF Answered, Drains, TypeOK
    <2>4. CASE Abandon
        <3>1. inside' \subseteq inside /\ late' = late /\ ~open
            BY <2>4 DEF Abandon
        <3>2. Cardinality(inside') \in Nat /\ Cardinality(inside') <= Cardinality(inside)
            BY <3>1, VisitCount DEF TypeOK
        <3>3. QED
            BY <2>1, <3>1, <3>2 DEF Drains, TypeOK
    <2>5. CASE Adjust
        BY <2>1, <2>5 DEF Adjust, Drains, TypeOK
    <2>6. CASE UNCHANGED gateVars
        BY <2>6 DEF gateVars, Drains
    <2>7. QED
        BY <2>2, <2>3, <2>4, <2>5, <2>6
        DEF Next, Count, ServeUncounted, Consume
<1>3. QED
    BY <1>1, <1>2, GateTypeCorrect, PTL DEF Spec

(* A capped gate is overrun by less than the number of visitors: a visit   *)
(* comes in below the cap, and an answer moves it from inside to used.     *)
THEOREM GateBounded ==
    ASSUME IsFiniteSet(Visitors), Visitors # {}
    PROVE  Spec => []Bounded
<1>1. Init => Bounded
    <2>1. Init => used = 0 /\ cap = 0 /\ inside = {}
        BY DEF Init
    <2>2. Cardinality({}) = 0
        BY FS_EmptySet
    <2>3. Cardinality(Visitors) \in Nat \ {0}
        BY VisitCount
    <2>4. QED
        BY <2>1, <2>2, <2>3 DEF Bounded
<1>2. TypeOK /\ Bounded /\ [Next]_gateVars => Bounded'
    <2> SUFFICES ASSUME TypeOK, Bounded, [Next]_gateVars, capped'
                 PROVE  (used + Cardinality(inside) <= cap + Cardinality(Visitors) - 1)'
        BY DEF Bounded
    <2>1. /\ Cardinality(inside) \in Nat
          /\ Cardinality(Visitors) \in Nat \ {0}
          /\ \A v \in inside : Cardinality(inside \ {v}) = Cardinality(inside) - 1
        BY VisitCount DEF TypeOK
    <2>2. ASSUME NEW v \in Visitors, Admit(v)
          PROVE  (used + Cardinality(inside) <= cap + Cardinality(Visitors) - 1)'
        <3>1. inside' \subseteq Visitors /\ used' = used /\ cap' = cap /\ used < cap
            BY <2>2 DEF Admit, TypeOK
        <3>2. Cardinality(inside') \in Nat /\ Cardinality(inside') <= Cardinality(Visitors)
            BY <3>1, VisitCount
        <3>3. QED
            BY <2>1, <3>1, <3>2 DEF TypeOK
    <2>3. ASSUME NEW v \in Visitors, Count(v)
          PROVE  (used + Cardinality(inside) <= cap + Cardinality(Visitors) - 1)'
        <3>1. /\ v \in inside /\ inside' = inside \ {v}
              /\ used' = used + 1 /\ cap' = cap /\ capped
            BY Zenon, <2>3 DEF Count
        <3>2. QED
            BY <2>1, <3>1 DEF Bounded, TypeOK
    <2>4. ASSUME NEW v \in Visitors, ServeUncounted(v) \/ Consume(v)
          PROVE  (used + Cardinality(inside) <= cap + Cardinality(Visitors) - 1)'
        <3>1. /\ v \in inside /\ inside' = inside \ {v}
              /\ used' = used /\ cap' = cap /\ capped
            BY Zenon, <2>4 DEF ServeUncounted, Consume
        <3>2. QED
            BY <2>1, <3>1 DEF Bounded, TypeOK
    <2>5. CASE Abandon
        <3>1. inside' \subseteq inside /\ used' = used /\ cap' = cap /\ capped
            BY <2>5 DEF Abandon
        <3>2. Cardinality(inside') \in Nat /\ Cardinality(inside') <= Cardinality(inside)
            BY <3>1, VisitCount DEF TypeOK
        <3>3. QED
            BY <2>1, <3>1, <3>2 DEF Bounded, TypeOK
    <2>6. CASE Adjust
        <3>1. inside' = inside /\ used' = used /\ cap' \in Nat /\ cap' >= cap /\ capped
            BY Zenon, <2>6 DEF Adjust
        <3>2. QED
            BY <2>1, <3>1 DEF Bounded, TypeOK
    <2>7. CASE UNCHANGED gateVars
        BY <2>7 DEF gateVars, Bounded
    <2>8. QED
        BY <2>2, <2>3, <2>4, <2>5, <2>6, <2>7 DEF Next
<1>3. QED
    BY <1>1, <1>2, GateTypeCorrect, PTL DEF Spec
=============================================================================
