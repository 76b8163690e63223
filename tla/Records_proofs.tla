-------------------------- MODULE Records_proofs ---------------------------
(***************************************************************************)
(* What the records of the links promise, for any finite sets of requests, *)
(* visitors, links and holders and any ages: the clicks that ClickTracking *)
(* counts, the reports of Analytics, the links that Retention deletes and  *)
(* the reports it sends; and that what MCLinkRecords explores are          *)
(* behaviours of these three.                                              *)
(***************************************************************************)
EXTENDS MCLinkRecords, FiniteSetTheorems, TLAPS

-----------------------------------------------------------------------------
(***************************************************************************)
(* CLICK TRACKING                                                          *)
(***************************************************************************)

(* Type correctness                                                        *)

LEMMA MoveTypes ==
    ASSUME req \in [Requests -> ReqState], NEW r \in Requests
    PROVE  /\ Leave(r) => req' \in [Requests -> ReqState]
           /\ \A p, q \in Steps : At(r, p) /\ Goto(r, q) => req' \in [Requests -> ReqState]
           /\ \A p \in Steps : At(r, p) =>
                 /\ req[r] \in [pc: Steps, visitor: Visitors, isUnique: BOOLEAN]
                 /\ req[r].visitor \in Visitors
                 /\ req[r].isUnique \in BOOLEAN
<1>1. Leave(r) => req' \in [Requests -> ReqState]
    BY DEF Leave, ReqState
<1>2. ASSUME NEW p \in Steps, At(r, p)
      PROVE  req[r] \in [pc: Steps, visitor: Visitors, isUnique: BOOLEAN]
    BY <1>2 DEF At, ReqState, Idle, Steps
<1>3. ASSUME NEW p \in Steps, NEW q \in Steps, At(r, p), Goto(r, q)
      PROVE  req' \in [Requests -> ReqState]
    <2>1. [req[r] EXCEPT !.pc = q] \in ReqState
        BY <1>2, <1>3 DEF ReqState
    <2>2. QED
        BY <1>3, <2>1 DEF Goto
<1>4. QED
    BY <1>1, <1>2, <1>3

(* What the steps that insert a row do to the rows.                        *)
LEMMA RowTypes ==
    ASSUME first \in [Visitors -> Nat], again \in [Visitors -> Nat],
           NEW v \in Visitors, NEW u \in BOOLEAN, Row(v, u)
    PROVE  /\ first' \in [Visitors -> Nat] /\ again' \in [Visitors -> Nat]
           /\ first'[v] = IF u THEN first[v] + 1 ELSE first[v]
           /\ again'[v] = IF u THEN again[v] ELSE again[v] + 1
           /\ \A w \in Visitors \ {v} : first'[w] = first[w] /\ again'[w] = again[w]
BY DEF Row

(* The insertion, with or without its reply.                               *)
Inserts(r) ==
    /\ At(r, "insert") /\ live
    /\ Row(req[r].visitor, req[r].isUnique)
    /\ UNCHANGED overlapped
    /\ (req[r].isUnique /\ Goto(r, "claim")) \/ Leave(r)

(* Every variable keeps its type.                                          *)
THEOREM TrackingTypeCorrect == Spec => []TypeOK
<1>1. Init => TypeOK
    <2> SUFFICES ASSUME Init PROVE TypeOK
        OBVIOUS
    <2>1. req \in [Requests -> ReqState]
        BY DEF Init, ReqState
    <2>2. live \in BOOLEAN
        BY Zenon DEF Init
    <2>3. QED
        BY <2>1, <2>2 DEF Init, TypeOK
<1>2. TypeOK /\ [Next]_vars => TypeOK'
    <2> SUFFICES ASSUME TypeOK, [Next]_vars PROVE TypeOK'
        OBVIOUS
    <2> USE DEF TypeOK
    <2>1. ASSUME NEW r \in Requests, NEW v \in Visitors, TrackClick(r, v) PROVE TypeOK'
        <3>1. req' \in [Requests -> ReqState]
            BY <2>1 DEF TrackClick, ReqState, Steps
        <3>2. QED
            BY <2>1, <3>1 DEF TrackClick, counters, rows
    <2>2. ASSUME NEW r \in Requests, IncrementClickCount(r) PROVE TypeOK'
        <3>1. req' \in [Requests -> ReqState]
            BY <2>2, MoveTypes DEF IncrementClickCount, Steps
        <3>2. QED
            BY <2>2, <3>1 DEF IncrementClickCount, rows
    <2>3. ASSUME NEW r \in Requests, FindLink(r) PROVE TypeOK'
        <3>1. req' \in [Requests -> ReqState]
            BY <2>3, MoveTypes DEF FindLink, Steps
        <3>2. QED
            BY <2>3, <3>1 DEF FindLink, counters, rows, observed
    <2>4. ASSUME NEW r \in Requests, LookForVisit(r) PROVE TypeOK'
        <3>1. req[r] \in [pc: Steps, visitor: Visitors, isUnique: BOOLEAN]
            BY <2>4, MoveTypes DEF LookForVisit, Steps
        <3>2. req' \in [Requests -> ReqState]
            BY <2>4, <3>1 DEF LookForVisit, ReqState, Steps
        <3>3. overlapped' \in SUBSET Visitors
            BY <2>4, <3>1 DEF LookForVisit
        <3>4. QED
            BY <2>4, <3>2, <3>3 DEF LookForVisit, counters, rows
    <2>5. ASSUME NEW r \in Requests, InsertVisit(r) \/ InsertUnanswered(r) PROVE TypeOK'
        <3>1. req[r].visitor \in Visitors /\ req[r].isUnique \in BOOLEAN
            BY <2>5, MoveTypes DEF InsertVisit, InsertUnanswered, Steps
        <3>2. req' \in [Requests -> ReqState]
            BY <2>5, MoveTypes DEF InsertVisit, InsertUnanswered, Steps
        <3>3. first' \in [Visitors -> Nat] /\ again' \in [Visitors -> Nat]
            BY <2>5, <3>1, RowTypes DEF InsertVisit, InsertUnanswered
        <3>4. QED
            BY <2>5, <3>2, <3>3 DEF InsertVisit, InsertUnanswered, counters, observed
    <2>6. ASSUME NEW r \in Requests, ClaimUnique(r) \/ TrackFails(r) PROVE TypeOK'
        <3>1. req' \in [Requests -> ReqState]
            BY <2>6, MoveTypes DEF ClaimUnique, TrackFails
        <3>2. QED
            BY <2>6, <3>1 DEF ClaimUnique, TrackFails, counters, rows, observed
    <2>7. CASE DeleteLink
        BY <2>7 DEF DeleteLink, counters, rows, observed
    <2>8. CASE Restart
        <3>1. \A S \in SUBSET Requests : Cardinality(S) \in Nat
            BY SetsAssumption, FS_Subset, FS_CardinalityType
        <3>2. /\ Cardinality(Busy("count")) \in Nat /\ Cardinality(Busy("claim")) \in Nat
              /\ Cardinality(Busy("count") \cup Busy("find")
                             \cup Busy("look") \cup Busy("insert")) \in Nat
            BY <3>1 DEF Busy
        <3>3. QED
            BY <2>8, <3>2 DEF Restart, ReqState, counters, rows
    <2>9. CASE UNCHANGED vars
        BY <2>9 DEF vars, counters, rows, observed
    <2>10. QED
        BY <2>1, <2>2, <2>3, <2>4, <2>5, <2>6, <2>7, <2>8, <2>9 DEF Next
<1>3. QED
    BY <1>1, <1>2, PTL DEF Spec

-----------------------------------------------------------------------------
(* Unique visitors                                                         *)

(* The visits of v that found no row and have not inserted theirs yet.     *)
Hopeful(v) == {r \in Requests : At(r, "insert") /\ req[r].visitor = v /\ req[r].isUnique}

(* The inductive invariant.  A visitor seen by a visit in progress has a   *)
(* unique row; the visits that will insert one more are bounded, and there *)
(* are two of them, or one after a first row, only if they overlapped.     *)
Unique ==
    /\ NobodyMissed
    /\ \A r \in Requests : At(r, "insert") /\ ~req[r].isUnique => first[req[r].visitor] > 0
    /\ \A v \in Visitors :
          /\ first[v] + Cardinality(Hopeful(v)) <= Cardinality(Requests)
          /\ first[v] > 1 => v \in overlapped
          /\ first[v] > 0 /\ Hopeful(v) # {} => v \in overlapped
          /\ \A q, r \in Hopeful(v) : q # r => v \in overlapped

LEMMA HopefulCount ==
    ASSUME NEW v
    PROVE  /\ IsFiniteSet(Hopeful(v)) /\ Cardinality(Hopeful(v)) \in Nat
           /\ Cardinality(Requests) \in Nat
           /\ \A S \in SUBSET Hopeful(v) :
                 Cardinality(S) \in Nat /\ Cardinality(S) <= Cardinality(Hopeful(v))
           /\ \A r \in Hopeful(v) :
                 Cardinality(Hopeful(v) \ {r}) = Cardinality(Hopeful(v)) - 1
<1>1. Hopeful(v) \subseteq Requests
    BY DEF Hopeful
<1>2. IsFiniteSet(Hopeful(v))
    BY <1>1, SetsAssumption, FS_Subset
<1>3. QED
    BY <1>2, SetsAssumption, FS_Subset, FS_CardinalityType, FS_RemoveElement

(* A step that neither inserts nor adds a hopeful visit.                   *)
LEMMA UniqueKept ==
    ASSUME TypeOK, Unique, UNCHANGED <<first, again, overlapped>>,
           \A r \in Requests : At(r, "insert")' => At(r, "insert") /\ req'[r] = req[r]
    PROVE  Unique'
<1>1. ASSUME NEW v \in Visitors
      PROVE  /\ Hopeful(v)' \subseteq Hopeful(v)
             /\ Cardinality(Hopeful(v)') <= Cardinality(Hopeful(v))
             /\ Cardinality(Hopeful(v)') \in Nat
    <2>1. Hopeful(v)' \subseteq Hopeful(v)
        BY DEF Hopeful
    <2>2. QED
        BY <2>1, HopefulCount
<1>2. \A v \in Visitors :
          first'[v] + Cardinality(Hopeful(v)') <= Cardinality(Requests)
    <2> TAKE v \in Visitors
    <2>1. first[v] \in Nat /\ first[v] + Cardinality(Hopeful(v)) <= Cardinality(Requests)
        BY DEF TypeOK, Unique
    <2>2. QED
        BY <1>1, <2>1, HopefulCount
<1>3. QED
    BY <1>1, <1>2 DEF Unique, NobodyMissed

LEMMA LookStep ==
    ASSUME TypeOK, TypeOK', Unique, NEW r \in Requests, LookForVisit(r)
    PROVE  Unique'
<1> DEFINE v == req[r].visitor
<1>1. req[r] \in [pc: Steps, visitor: Visitors, isUnique: BOOLEAN] /\ v \in Visitors
    BY MoveTypes DEF LookForVisit, TypeOK, Steps
<1>2. /\ req'[r].pc = "insert" /\ req'[r].visitor = v /\ req'[r].isUnique = ~Seen(v)
      /\ \A q \in Requests \ {r} : req'[q] = req[q]
      /\ ~At(r, "insert") /\ first' = first /\ again' = again
      /\ overlapped \subseteq overlapped'
    BY <1>1 DEF LookForVisit, At, TypeOK, rows
<1>3. \A w \in Visitors : w # v => Hopeful(w)' = Hopeful(w)
    BY <1>2 DEF Hopeful, At
<1>4. CASE Seen(v)
    <2>2. first[v] > 0
        <3>1. first[v] \in Nat /\ again[v] \in Nat /\ (again[v] > 0 => first[v] > 0)
            BY <1>1 DEF TypeOK, Unique, NobodyMissed
        <3>2. QED
            BY <1>4, <3>1 DEF Seen
    <2>3. \A q \in Requests : At(q, "insert")' /\ ~req'[q].isUnique => first'[req'[q].visitor] > 0
        BY <1>2, <2>2 DEF Unique, At
    <2>4. \A w \in Visitors : Hopeful(w)' = Hopeful(w)
        BY <1>2, <1>4 DEF Hopeful, At
    <2>5. QED
        BY <1>2, <2>3, <2>4 DEF Unique, NobodyMissed
<1>5. CASE ~Seen(v)
    <2>1. \A w \in Visitors : w = v => Hopeful(w)' = Hopeful(w) \cup {r}
        BY <1>2, <1>5 DEF Hopeful, At
    <2>2. first[v] = 0
        BY <1>1, <1>5 DEF Seen, TypeOK
    <2>3. Hopeful(v) # {} => v \in overlapped'
        BY <1>1 DEF Hopeful, Looking, LookForVisit
    <2>4. \A q \in Requests : At(q, "insert")' /\ ~req'[q].isUnique => first'[req'[q].visitor] > 0
        BY <1>2, <1>5 DEF Unique, At
    <2>5. /\ Cardinality(Hopeful(v) \cup {r}) <= Cardinality(Requests)
          /\ Cardinality(Hopeful(v) \cup {r}) \in Nat
        <3>1. Hopeful(v) \cup {r} \subseteq Requests
            BY DEF Hopeful
        <3>2. QED
            BY <3>1, SetsAssumption, FS_Subset, FS_CardinalityType
    <2>6. ASSUME NEW w \in Visitors
          PROVE  (/\ first[w] + Cardinality(Hopeful(w)) <= Cardinality(Requests)
                  /\ first[w] > 1 => w \in overlapped
                  /\ first[w] > 0 /\ Hopeful(w) # {} => w \in overlapped
                  /\ \A p, q \in Hopeful(w) : p # q => w \in overlapped)'
        <3>1. CASE w = v
            <4>1. Hopeful(w)' = Hopeful(v) \cup {r} /\ first'[w] = 0
                BY <1>2, <2>1, <2>2, <3>1
            <4>2. first'[w] + Cardinality(Hopeful(w)') <= Cardinality(Requests)
                BY <2>5, <4>1
            <4>3. \A p, q \in Hopeful(w)' : p # q => w \in overlapped'
                BY <2>3, <3>1, <4>1
            <4>4. QED
                BY <4>1, <4>2, <4>3
        <3>2. CASE w # v
            BY <1>2, <1>3, <3>2 DEF Unique
        <3>3. QED
            BY <3>1, <3>2
    <2>7. QED
        BY <1>2, <2>4, <2>6 DEF Unique, NobodyMissed
<1>6. QED
    BY <1>4, <1>5

LEMMA InsertStep ==
    ASSUME TypeOK, TypeOK', Unique, NEW r \in Requests, Inserts(r)
    PROVE  Unique'
<1> DEFINE v == req[r].visitor
<1>1. v \in Visitors /\ req[r].isUnique \in BOOLEAN
    BY MoveTypes DEF Inserts, TypeOK, Steps
<1>2. /\ first'[v] = IF req[r].isUnique THEN first[v] + 1 ELSE first[v]
      /\ again'[v] = IF req[r].isUnique THEN again[v] ELSE again[v] + 1
      /\ \A w \in Visitors \ {v} : first'[w] = first[w] /\ again'[w] = again[w]
    BY <1>1, RowTypes DEF Inserts, TypeOK
<1>3. /\ ~At(r, "insert")' /\ \A q \in Requests \ {r} : req'[q] = req[q]
      /\ overlapped' = overlapped
    BY MoveTypes DEF Steps, Inserts, Goto, Leave, At, TypeOK, Idle
<1>4. \A w \in Visitors : Hopeful(w)' = Hopeful(w) \ {r}
    BY <1>3 DEF Hopeful, At
<1>5. /\ \A w \in Visitors \ {v} : r \notin Hopeful(w)
      /\ r \in Hopeful(v) <=> req[r].isUnique
    BY DEF Hopeful, Inserts
<1>6. \A w \in Visitors : first[w] \in Nat /\ first'[w] \in Nat /\ again[w] \in Nat
    BY DEF TypeOK
<1>7. first'[v] > 0 /\ \A w \in Visitors : first'[w] >= first[w]
    <2>1. ~req[r].isUnique => first[v] > 0
        BY DEF Inserts, Unique
    <2>2. QED
        BY <1>1, <1>2, <1>6, <2>1
<1>8. NobodyMissed'
    BY <1>1, <1>2, <1>6, <1>7 DEF Unique, NobodyMissed
<1>9. ASSUME NEW q \in Requests, At(q, "insert")', ~req'[q].isUnique
      PROVE  first'[req'[q].visitor] > 0
    <2>1. q # r /\ req'[q] = req[q] /\ At(q, "insert")
        BY <1>3, <1>9 DEF At
    <2>2. req[q].visitor \in Visitors
        BY <2>1, MoveTypes DEF TypeOK, Steps
    <2>3. first[req[q].visitor] > 0
        BY <1>9, <2>1 DEF Unique
    <2>4. QED
        BY <1>6, <1>7, <2>1, <2>2, <2>3
<1>10. ASSUME NEW w \in Visitors
       PROVE  first'[w] + Cardinality(Hopeful(w)') <= Cardinality(Requests)
    <2>1. first[w] + Cardinality(Hopeful(w)) <= Cardinality(Requests)
        BY DEF Unique
    <2>2. CASE r \in Hopeful(w)
        <3>1. first'[w] = first[w] + 1
            BY <1>1, <1>2, <1>5, <2>2
        <3>2. Cardinality(Hopeful(w)') = Cardinality(Hopeful(w)) - 1
            BY <1>4, <2>2, HopefulCount
        <3>3. QED
            BY <1>6, <2>1, <3>1, <3>2, HopefulCount
    <2>3. CASE r \notin Hopeful(w)
        <3>1. first'[w] = first[w]
            BY <1>1, <1>2, <1>5, <2>3
        <3>2. Hopeful(w)' = Hopeful(w)
            BY <1>4, <2>3
        <3>3. QED
            BY <2>1, <3>1, <3>2
    <2>4. QED
        BY <2>2, <2>3
<1>11. ASSUME NEW w \in Visitors
       PROVE  (/\ first[w] > 1 => w \in overlapped
               /\ first[w] > 0 /\ Hopeful(w) # {} => w \in overlapped
               /\ \A p, q \in Hopeful(w) : p # q => w \in overlapped)'
    <2>1. /\ first[w] > 1 => w \in overlapped
          /\ first[w] > 0 /\ Hopeful(w) # {} => w \in overlapped
          /\ \A p, q \in Hopeful(w) : p # q => w \in overlapped
        BY DEF Unique
    <2>2. CASE r \in Hopeful(w)
        <3>1. first'[w] = first[w] + 1
            BY <1>1, <1>2, <1>5, <2>2
        <3>2. first[w] > 0 => w \in overlapped
            BY <2>1, <2>2
        <3>3. Hopeful(w)' # {} => w \in overlapped
            BY <1>4, <2>1, <2>2
        <3>4. QED
            BY <1>3, <1>4, <1>6, <2>1, <3>1, <3>2, <3>3
    <2>3. CASE r \notin Hopeful(w)
        <3>1. first'[w] = first[w]
            BY <1>1, <1>2, <1>5, <2>3
        <3>2. Hopeful(w)' = Hopeful(w)
            BY <1>4, <2>3
        <3>3. QED
            BY <1>3, <2>1, <3>1, <3>2
    <2>4. QED
        BY <2>2, <2>3
<1>12. QED
    BY <1>8, <1>9, <1>10, <1>11 DEF Unique

LEMMA UniqueHolds == Spec => []Unique
<1>1. Init => Unique
    <2> SUFFICES ASSUME Init PROVE Unique
        OBVIOUS
    <2>1. \A v \in Visitors : first[v] = 0 /\ again[v] = 0 /\ Hopeful(v) = {}
        BY DEF Init, Hopeful, At, Idle
    <2>2. Cardinality({}) = 0 /\ Cardinality(Requests) \in Nat
        BY SetsAssumption, FS_EmptySet, FS_CardinalityType
    <2>3. \A r \in Requests : ~At(r, "insert")
        BY DEF Init, At, Idle
    <2>4. QED
        BY <2>1, <2>2, <2>3 DEF Unique, NobodyMissed
<1>2. TypeOK /\ TypeOK' /\ Unique /\ [Next]_vars => Unique'
    <2> SUFFICES ASSUME TypeOK, TypeOK', Unique, [Next]_vars PROVE Unique'
        OBVIOUS
    <2>1. ASSUME NEW r \in Requests, LookForVisit(r) PROVE Unique'
        BY <2>1, LookStep
    <2>2. ASSUME NEW r \in Requests, InsertVisit(r) \/ InsertUnanswered(r) PROVE Unique'
        <3>1. Inserts(r)
            BY <2>2, MoveTypes DEF Inserts, InsertVisit, InsertUnanswered, observed
        <3>2. QED
            BY <3>1, InsertStep
    <2>3. ASSUME NEW r \in Requests,
                 \/ \E v \in Visitors : TrackClick(r, v)
                 \/ IncrementClickCount(r) \/ FindLink(r) \/ ClaimUnique(r) \/ TrackFails(r)
          PROVE  Unique'
        <3>1. ~At(r, "insert")' /\ \A q \in Requests \ {r} : req'[q] = req[q]
            BY <2>3, MoveTypes
            DEF Steps, TrackClick, IncrementClickCount, FindLink, ClaimUnique, TrackFails,
               Goto, Leave, At, TypeOK, Idle
        <3>2. UNCHANGED <<first, again, overlapped>>
            BY <2>3 DEF TrackClick, IncrementClickCount, FindLink, ClaimUnique, TrackFails,
               rows, observed
        <3>3. QED
            BY <3>1, <3>2, UniqueKept DEF At
    <2>4. CASE DeleteLink \/ Restart \/ UNCHANGED vars
        <3>1. UNCHANGED <<first, again, overlapped>>
            BY <2>4 DEF DeleteLink, Restart, vars, rows, observed
        <3>2. req' = req \/ req' = [r \in Requests |-> Idle]
            BY <2>4 DEF DeleteLink, Restart, vars
        <3>3. QED
            BY <3>1, <3>2, UniqueKept DEF At, Idle
    <2>5. QED
        BY <2>1, <2>2, <2>3, <2>4 DEF Next
<1>3. QED
    BY <1>1, <1>2, TrackingTypeCorrect, PTL DEF Spec

(* Counting the unique rows of a link misses no visitor.                   *)
THEOREM NoVisitorMissed == Spec => []NobodyMissed
BY UniqueHolds, PTL DEF Unique

(* A visitor is counted twice only if two of its visits overlapped.        *)
THEOREM OnlyOverlapsRepeat == Spec => []UniqueUnlessOverlapped
<1>1. Unique => UniqueUnlessOverlapped
    BY DEF Unique, UniqueUnlessOverlapped
<1>2. QED
    BY <1>1, UniqueHolds, PTL

(* However often a visitor comes back, its unique rows stay bounded.       *)
THEOREM RepeatsBounded == Spec => []DuplicatesBounded
<1>1. TypeOK /\ Unique => DuplicatesBounded
    <2> SUFFICES ASSUME TypeOK, Unique, NEW v \in Visitors
                 PROVE  first[v] <= Cardinality(Requests)
        BY DEF DuplicatesBounded
    <2>1. first[v] \in Nat /\ first[v] + Cardinality(Hopeful(v)) <= Cardinality(Requests)
        BY DEF TypeOK, Unique
    <2>2. QED
        BY <2>1, HopefulCount
<1>2. QED
    BY <1>1, UniqueHolds, TrackingTypeCorrect, PTL

-----------------------------------------------------------------------------
(* The statistics of the link                                              *)

(* One more row of v.                                                      *)
LEMMA TotalGrows ==
    ASSUME NEW f \in [Visitors -> Nat], NEW v \in Visitors, IsFiniteSet(Numbered(f))
    PROVE  /\ IsFiniteSet(Numbered([f EXCEPT ![v] = @ + 1]))
           /\ Total([f EXCEPT ![v] = @ + 1]) = Total(f) + 1
           /\ Total(f) \in Nat
<1>1. PICK g \in [Visitors -> Nat] : g = [f EXCEPT ![v] = @ + 1]
    <2>1. [f EXCEPT ![v] = @ + 1] \in [Visitors -> Nat]
        OBVIOUS
    <2> QED
        BY <2>1, Zenon
<1>2. ASSUME NEW w \in Visitors, NEW i
      PROVE  i \in 1 .. g[w] <=> i \in 1 .. f[w] \/ (w = v /\ i = f[v] + 1)
    BY <1>1
<1>3. \A h, x : x \in Numbered(h) <=> \E w \in Visitors : \E i \in 1 .. h[w] : x = <<w, i>>
    BY DEF Numbered
<1>4. Numbered(g) = Numbered(f) \cup {<<v, f[v] + 1>>}
    <2>1. ASSUME NEW x \in Numbered(g) PROVE x \in Numbered(f) \cup {<<v, f[v] + 1>>}
        <3>1. PICK w \in Visitors : \E i \in 1 .. g[w] : x = <<w, i>>
            BY <1>3
        <3>2. PICK i \in 1 .. g[w] : x = <<w, i>>
            BY <3>1
        <3>3. i \in 1 .. f[w] \/ (w = v /\ i = f[v] + 1)
            BY <1>2
        <3> QED
            BY <1>3, <3>2, <3>3, Zenon
    <2>2. ASSUME NEW x \in Numbered(f) PROVE x \in Numbered(g)
        <3>1. PICK w \in Visitors : \E i \in 1 .. f[w] : x = <<w, i>>
            BY <1>3
        <3> QED
            BY <1>2, <1>3, <3>1, Zenon
    <2>3. <<v, f[v] + 1>> \in Numbered(g)
        BY <1>2, <1>3, Zenon
    <2> QED
        BY <2>1, <2>2, <2>3
<1>5. <<v, f[v] + 1>> \notin Numbered(f)
    <2> SUFFICES ASSUME NEW w \in Visitors, NEW i \in 1 .. f[w], <<v, f[v] + 1>> = <<w, i>>
                 PROVE  FALSE
        BY <1>3
    <2> QED
        OBVIOUS
<1>6. /\ IsFiniteSet(Numbered(g)) /\ Cardinality(Numbered(f)) \in Nat
      /\ Cardinality(Numbered(g)) = Cardinality(Numbered(f)) + 1
    BY <1>4, <1>5, FS_AddElement, FS_CardinalityType
<1> QED
    BY <1>1, <1>6, Zenon DEF Total

Here(p, state) == IF state.pc = p THEN 1 ELSE 0

(* Who stands where, after a step of one visit.                            *)
LEMMA BusyMoves ==
    ASSUME NEW r \in Requests, \A q \in Requests \ {r} : req'[q] = req[q]
    PROVE  \A p : /\ Cardinality(Busy(p)) \in Nat
                  /\ Cardinality(Busy(p)') \in Nat
                  /\ Cardinality(Busy(p)') = Cardinality(Busy(p)) - Here(p, req[r]) + Here(p, req'[r])
<1> TAKE p
<1>1. PICK B : B = Busy(p)
    OBVIOUS
<1>2. PICK C : C = Busy(p)'
    OBVIOUS
<1>3. IsFiniteSet(B) /\ IsFiniteSet(C)
    BY <1>1, <1>2, SetsAssumption, FS_Subset DEF Busy
<1>4. /\ r \in B <=> req[r].pc = p
      /\ r \in C <=> req'[r].pc = p
    BY <1>1, <1>2 DEF Busy, At
<1>5. B \ {r} = C \ {r}
    BY <1>1, <1>2 DEF Busy, At
<1>6. /\ Cardinality(B \ {r}) = Cardinality(B) - Here(p, req[r])
      /\ Cardinality(C \ {r}) = Cardinality(C) - Here(p, req'[r])
      /\ Cardinality(B) \in Nat /\ Cardinality(C) \in Nat
    BY <1>3, <1>4, FS_RemoveElement, FS_CardinalityType DEF Here
<1>7. Here(p, req[r]) \in Nat /\ Here(p, req'[r]) \in Nat
    BY DEF Here
<1> QED
    BY <1>1, <1>2, <1>5, <1>6, <1>7

(* The inductive invariant: the statistics agree, and there are finitely   *)
(* many rows.                                                              *)
Tallied ==
    /\ StatisticsAgree
    /\ IsFiniteSet(Numbered(first)) /\ IsFiniteSet(Numbered(again))

(* What a step of one visit from p to q does to who stands where.          *)
LEMMA TallyMoves ==
    ASSUME req \in [Requests -> ReqState], NEW r \in Requests, NEW p \in Steps \cup {"idle"},
           NEW q \in Steps \cup {"idle"}, At(r, p), req'[r].pc = q,
           \A s \in Requests \ {r} : req'[s] = req[s]
    PROVE  \A s \in Steps :
              /\ Cardinality(Busy(s)) \in Nat /\ Cardinality(Busy(s)') \in Nat
              /\ Cardinality(Busy(s)') = Cardinality(Busy(s)) - (IF p = s THEN 1 ELSE 0)
                                                              + (IF q = s THEN 1 ELSE 0)
BY BusyMoves DEF Here, At

(* However visits interleave and whichever calls fail, the click count,    *)
(* the unique count and the rows of a link differ only by the visits in    *)
(* progress and by the calls that failed.                                  *)
THEOREM TheStatisticsAgree == Spec => []StatisticsAgree
<1>1. Init => Tallied
    <2> SUFFICES ASSUME Init PROVE Tallied
        OBVIOUS
    <2>1. \A p \in Steps : Busy(p) = {}
        BY DEF Init, Busy, At, Idle, Steps
    <2>2. Numbered(first) = {} /\ Numbered(again) = {}
        <3>1. \A v \in Visitors : {v} \X (1 .. 0) = {}
            OBVIOUS
        <3>2. \A v \in Visitors : first[v] = 0 /\ again[v] = 0
            BY DEF Init
        <3> QED
            BY <3>1, <3>2 DEF Numbered
    <2> QED
        BY <2>1, <2>2, FS_EmptySet DEF Init, Tallied, StatisticsAgree, Total, Steps
<1>2. TypeOK /\ TypeOK' /\ Tallied /\ [Next]_vars => Tallied'
    <2> SUFFICES ASSUME TypeOK, TypeOK', Tallied, [Next]_vars PROVE Tallied'
        OBVIOUS
    <2>0. Total(first) \in Nat /\ Total(again) \in Nat
        BY FS_CardinalityType DEF Tallied, Total
    <2>a. ASSUME NEW r \in Requests, NEW p, NEW q, p \in Steps \cup {"idle"}, q \in Steps \cup {"idle"},
                 At(r, p), req'[r].pc = q, \A s \in Requests \ {r} : req'[s] = req[s]
          PROVE  \A s \in Steps :
              /\ Cardinality(Busy(s)) \in Nat /\ Cardinality(Busy(s)') \in Nat
              /\ Cardinality(Busy(s)') = Cardinality(Busy(s)) - (IF p = s THEN 1 ELSE 0)
                                                              + (IF q = s THEN 1 ELSE 0)
        BY <2>a, TallyMoves DEF TypeOK
    <2>1. ASSUME NEW r \in Requests, NEW v \in Visitors, TrackClick(r, v) PROVE Tallied'
        <3>1. req'[r].pc = "count" /\ \A s \in Requests \ {r} : req'[s] = req[s]
            BY <2>1 DEF TrackClick, TypeOK
        <3> QED
            BY <2>0, <2>1, <2>a, <3>1 DEF TrackClick, counters, rows, TypeOK, Tallied, StatisticsAgree, Steps
    <2>2. ASSUME NEW r \in Requests, IncrementClickCount(r) PROVE Tallied'
        <3>1. At(r, "count") /\ req'[r].pc = "find" /\ \A s \in Requests \ {r} : req'[s] = req[s]
            BY <2>2, MoveTypes DEF IncrementClickCount, Goto, TypeOK, Steps
        <3> QED
            BY <2>0, <2>2, <2>a, <3>1
            DEF IncrementClickCount, rows, TypeOK, Tallied, StatisticsAgree, Steps
    <2>3. ASSUME NEW r \in Requests, FindLink(r) PROVE Tallied'
        <3>1. At(r, "find") /\ req'[r].pc = "look" /\ \A s \in Requests \ {r} : req'[s] = req[s]
            BY <2>3, MoveTypes DEF FindLink, Goto, TypeOK, Steps
        <3> QED
            BY <2>0, <2>3, <2>a, <3>1
            DEF FindLink, counters, rows, observed, TypeOK, Tallied, StatisticsAgree, Steps
    <2>4. ASSUME NEW r \in Requests, LookForVisit(r) PROVE Tallied'
        <3>0. At(r, "look") /\ req[r] \in [pc: Steps, visitor: Visitors, isUnique: BOOLEAN]
            BY <2>4, MoveTypes DEF LookForVisit, TypeOK, Steps
        <3>1. req'[r].pc = "insert" /\ \A s \in Requests \ {r} : req'[s] = req[s]
            BY <2>4, <3>0 DEF LookForVisit, TypeOK, Steps
        <3> QED
            BY <2>0, <2>4, <2>a, <3>0, <3>1
            DEF LookForVisit, counters, rows, TypeOK, Tallied, StatisticsAgree, Steps
    <2>5. ASSUME NEW r \in Requests, InsertVisit(r) \/ InsertUnanswered(r) PROVE Tallied'
        <3>1. PICK v \in Visitors, unique \in BOOLEAN : v = req[r].visitor /\ unique = req[r].isUnique
            BY <2>5, MoveTypes DEF InsertVisit, InsertUnanswered, TypeOK, Steps
        <3>2. At(r, "insert") /\ \A s \in Requests \ {r} : req'[s] = req[s]
            BY <2>5 DEF InsertVisit, InsertUnanswered, Goto, Leave, TypeOK
        <3>3. PICK q \in {"claim", "idle"} :
                 /\ req'[r].pc = q
                 /\ unclaimed' = unclaimed + (IF unique /\ q = "idle" THEN 1 ELSE 0)
                 /\ q = "claim" => unique
            BY <2>5, <3>1, MoveTypes
            DEF InsertVisit, InsertUnanswered, Goto, Leave, TypeOK, Steps, Idle, observed
        <3>4. /\ first' = IF unique THEN [first EXCEPT ![v] = @ + 1] ELSE first
              /\ again' = IF unique THEN again ELSE [again EXCEPT ![v] = @ + 1]
            BY <2>5, <3>1 DEF InsertVisit, InsertUnanswered, Row, TypeOK
        <3>5. /\ IsFiniteSet(Numbered(first')) /\ IsFiniteSet(Numbered(again'))
              /\ Total(first') = Total(first) + (IF unique THEN 1 ELSE 0)
              /\ Total(again') = Total(again) + (IF unique THEN 0 ELSE 1)
            <4>1. /\ IsFiniteSet(Numbered([first EXCEPT ![v] = @ + 1]))
                  /\ Total([first EXCEPT ![v] = @ + 1]) = Total(first) + 1
                  /\ IsFiniteSet(Numbered([again EXCEPT ![v] = @ + 1]))
                  /\ Total([again EXCEPT ![v] = @ + 1]) = Total(again) + 1
                BY TotalGrows, Zenon DEF TypeOK, Tallied
            <4>2. IsFiniteSet(Numbered(first)) /\ IsFiniteSet(Numbered(again))
                BY DEF Tallied
            <4>3. CASE unique
                <5>1. first' = [first EXCEPT ![v] = @ + 1] /\ again' = again
                    BY <3>4, <4>3
                <5> QED
                    BY <2>0, <4>1, <4>2, <4>3, <5>1
            <4>4. CASE ~unique
                <5>1. first' = first /\ again' = [again EXCEPT ![v] = @ + 1]
                    BY <3>4, <4>4
                <5> QED
                    BY <2>0, <4>1, <4>2, <4>4, <5>1
            <4> QED
                BY <4>3, <4>4
        <3>6. UNCHANGED <<clicks, uniqueClicks, visits, uncounted, untracked>>
            BY <2>5 DEF InsertVisit, InsertUnanswered, counters, observed
        <3>7. \A s \in Steps :
              /\ Cardinality(Busy(s)) \in Nat /\ Cardinality(Busy(s)') \in Nat
              /\ Cardinality(Busy(s)') = Cardinality(Busy(s)) - (IF s = "insert" THEN 1 ELSE 0)
                                                              + (IF s = q THEN 1 ELSE 0)
            BY <2>a, <3>2, <3>3 DEF Steps
        <3> QED
            BY <2>0, <3>3, <3>5, <3>6, <3>7 DEF TypeOK, Tallied, StatisticsAgree, Steps
    <2>6. ASSUME NEW r \in Requests, ClaimUnique(r) PROVE Tallied'
        <3>1. At(r, "claim") /\ req'[r].pc = "idle" /\ \A s \in Requests \ {r} : req'[s] = req[s]
            BY <2>6 DEF ClaimUnique, Leave, TypeOK, Idle
        <3> QED
            BY <2>0, <2>6, <2>a, <3>1
            DEF ClaimUnique, rows, observed, TypeOK, Tallied, StatisticsAgree, Steps
    <2>7. ASSUME NEW r \in Requests, TrackFails(r) PROVE Tallied'
        <3>1. PICK p \in {"find", "look", "insert", "claim"} : At(r, p)
            BY <2>7 DEF TrackFails, At
        <3>2. req'[r].pc = "idle" /\ \A s \in Requests \ {r} : req'[s] = req[s]
            BY <2>7 DEF TrackFails, Leave, TypeOK, Idle
        <3>3. /\ unclaimed' = unclaimed + (IF p = "claim" THEN 1 ELSE 0)
              /\ untracked' = untracked + (IF p = "claim" THEN 0 ELSE 1)
            BY <2>7, <3>1 DEF TrackFails, At, TypeOK
        <3>4. \A s \in Steps :
              /\ Cardinality(Busy(s)) \in Nat /\ Cardinality(Busy(s)') \in Nat
              /\ Cardinality(Busy(s)') = Cardinality(Busy(s)) - (IF s = p THEN 1 ELSE 0)
            BY <2>a, <3>1, <3>2 DEF Steps
        <3> QED
            BY <2>0, <2>7, <3>3, <3>4
            DEF TrackFails, counters, rows, TypeOK, Tallied, StatisticsAgree, Steps
    <2>8. CASE Restart
        <3>1. PICK C, F, L, I, K : /\ C = Busy("count") /\ F = Busy("find") /\ L = Busy("look")
                                  /\ I = Busy("insert") /\ K = Busy("claim")
            OBVIOUS
        <3>2. /\ IsFiniteSet(C) /\ IsFiniteSet(F) /\ IsFiniteSet(L)
              /\ IsFiniteSet(I) /\ IsFiniteSet(K)
            BY <3>1, SetsAssumption, FS_Subset DEF Busy
        <3>3. C \cap F = {} /\ (C \cup F) \cap L = {} /\ (C \cup F \cup L) \cap I = {}
            BY <3>1 DEF Busy, At
        <3>4. Cardinality({}) = 0 /\ IsFiniteSet({})
            BY FS_EmptySet
        <3>5. Cardinality(C \cup F) = Cardinality(C) + Cardinality(F) - 0 /\ IsFiniteSet(C \cup F)
            BY <3>2, <3>3, <3>4, FS_Union
        <3>6. /\ Cardinality(C \cup F \cup L) = Cardinality(C \cup F) + Cardinality(L) - 0
              /\ IsFiniteSet(C \cup F \cup L)
            BY <3>2, <3>3, <3>4, <3>5, FS_Union
        <3>7. Cardinality(C \cup F \cup L \cup I) = Cardinality(C \cup F \cup L) + Cardinality(I) - 0
            BY <3>2, <3>3, <3>4, <3>6, FS_Union
        <3>8. /\ Cardinality(C) \in Nat /\ Cardinality(F) \in Nat /\ Cardinality(L) \in Nat
              /\ Cardinality(I) \in Nat /\ Cardinality(K) \in Nat
            BY <3>2, FS_CardinalityType
        <3>9. /\ uncounted' = uncounted + Cardinality(C)
              /\ untracked' = untracked + Cardinality(C) + Cardinality(F) + Cardinality(L)
                                         + Cardinality(I)
              /\ unclaimed' = unclaimed + Cardinality(K)
            BY <2>8, <3>1, <3>5, <3>6, <3>7, <3>8 DEF Restart, TypeOK
        <3>10. \A p \in Steps : Busy(p)' = {}
            BY <2>8 DEF Restart, Busy, At, Idle, Steps
        <3>11. UNCHANGED <<clicks, uniqueClicks, first, again, visits>>
            BY <2>8 DEF Restart, counters, rows
        <3>12. /\ visits = clicks + uncounted + Cardinality(C)
               /\ visits = Total(first) + Total(again) + untracked + Cardinality(C)
                           + Cardinality(F) + Cardinality(L) + Cardinality(I)
               /\ Total(first) = uniqueClicks + unclaimed + Cardinality(K)
               /\ IsFiniteSet(Numbered(first')) /\ IsFiniteSet(Numbered(again'))
            BY <3>1, <3>11 DEF Tallied, StatisticsAgree
        <3>13. /\ visits' = clicks' + uncounted' + 0
               /\ visits' = Total(first') + Total(again') + untracked' + 0 + 0 + 0 + 0
               /\ Total(first') = uniqueClicks' + unclaimed' + 0
            BY <2>0, <3>8, <3>9, <3>11, <3>12 DEF TypeOK
        <3> QED
            BY <3>4, <3>10, <3>12, <3>13 DEF Tallied, StatisticsAgree, Steps
    <2>9. CASE DeleteLink \/ UNCHANGED vars
        BY <2>9 DEF DeleteLink, vars, counters, rows, observed, Tallied, StatisticsAgree, Total,
           Numbered, Busy, At
    <2> QED
        BY <2>1, <2>2, <2>3, <2>4, <2>5, <2>6, <2>7, <2>8, <2>9 DEF Next
<1>3. Tallied => StatisticsAgree
    BY DEF Tallied
<1> QED
    BY <1>1, <1>2, <1>3, TrackingTypeCorrect, PTL DEF Spec

-----------------------------------------------------------------------------
(***************************************************************************)
(* ANALYTICS                                                               *)
(***************************************************************************)

(* What is known of a report under way.                                    *)
Asked ==
    LET w == inquiry.of
    IN  /\ inquiry = [pc |-> inquiry.pc, of |-> w, left |-> inquiry.left]
        /\ inquiry.pc \in {"read", "done"} /\ (inquiry.pc = "done" => inquiry.left = {})
        /\ ~w.period.asked => w.period = Always
        /\ figures = [q \in DOMAIN figures |-> figures[q]] /\ inquiry.left \subseteq DOMAIN figures
        /\ DOMAIN figures \in {LinkQueries, UserQueries, LogQueries}
        /\ DOMAIN figures = UserQueries => w.link = None

ReportTypes == AnalyticsTypeOK /\ IsFiniteSet(row) /\ (inquiry # Idle => Asked)

LEMMA AnalyticsNumbers ==
    /\ LastDay \in Nat /\ MaxRows \in Nat /\ TopLinks \in Nat /\ TopCountries \in Nat
    /\ FreeDays \in Nat /\ ProDays \in Nat /\ PageRows \in Nat
BY ReportAssumption

(* Visits and archiving leave the report alone; clicks are added, and a    *)
(* link stays with its user.                                               *)
LEMMA VisitingSays ==
    ASSUME ReportTypes, Visiting
    PROVE  /\ UNCHANGED <<plan, inquiry, figures, before>>
           /\ row \subseteq row' /\ row' \subseteq ClickRow /\ IsFiniteSet(row')
           /\ today' \in 0 .. LastDay
           /\ post' \in [Posts -> [by: Viewers, code: Posts \cup {None}, archived: BOOLEAN, since: {0}]]
           /\ \A l \in Posts : post'[l].by = post[l].by
           /\ ~stirred' => ~stirred /\ post' = post
<1> USE DEF analyticsTables, analyticsReport
<1>1. ASSUME NEW l \in Posts, ArchivePost(l)
      PROVE  /\ UNCHANGED <<plan, row, today, inquiry, figures, before>> /\ stirred'
             /\ post' \in [Posts -> [by: Viewers, code: Posts \cup {None}, archived: BOOLEAN, since: {0}]]
             /\ \A k \in Posts : post'[k].by = post[k].by
    <2>1. post \in [Posts -> [by: Viewers, code: Posts \cup {None}, archived: BOOLEAN, since: {0}]]
        BY DEF ReportTypes, AnalyticsTypeOK
    <2>2. PICK b \in BOOLEAN : b = ~post[l].archived
        OBVIOUS
    <2>3. post' = [post EXCEPT ![l] = [post[l] EXCEPT !.archived = b]]
        BY <1>1, <2>2 DEF ArchivePost
    <2>4. [post[l] EXCEPT !.archived = b] \in
              [by: Viewers, code: Posts \cup {None}, archived: BOOLEAN, since: {0}]
          /\ [post[l] EXCEPT !.archived = b].by = post[l].by
        BY <2>1
    <2>5. QED
        BY <1>1, <2>1, <2>3, <2>4 DEF ArchivePost
<1>2. ASSUME NEW l \in Posts, NEW g \in Guests, NEW c \in Countries \cup {None}, Click(l, g, c)
      PROVE  /\ UNCHANGED <<plan, post, today, inquiry, figures, before, stirred>>
             /\ row \subseteq row' /\ row' \subseteq ClickRow /\ IsFiniteSet(row')
    <2>1. PICK b \in BOOLEAN : b = ~Visited(l, g)
        <3>1. (~Visited(l, g)) \in BOOLEAN
            BY DEF Visited
        <3>2. QED
            BY <3>1, Zenon
    <2>2. PICK k \in 0 .. MaxRows : k = Cardinality(row)
        BY <1>2, AnalyticsNumbers, FS_CardinalityType DEF Click, ReportTypes
    <2>3. PICK r \in ClickRow : row' = row \cup {r}
        <3>1. [id |-> k, link |-> l, day |-> today, visitor |-> g, isUnique |-> b, country |-> c]
                 \in ClickRow
            BY DEF ClickRow, ReportTypes, AnalyticsTypeOK
        <3>2. row' = row \cup {[id |-> k, link |-> l, day |-> today, visitor |-> g,
                                isUnique |-> b, country |-> c]}
            BY <1>2, <2>1, <2>2, Zenon DEF Click
        <3>3. QED
            BY <3>1, <3>2, Zenon
    <2>4. IsFiniteSet(row')
        BY <2>3, FS_AddElement DEF ReportTypes
    <2>5. QED
        BY <1>2, <2>3, <2>4 DEF Click, ReportTypes, AnalyticsTypeOK
<1>3. ASSUME DayEnds
      PROVE  /\ UNCHANGED <<plan, post, row, inquiry, figures, before>> /\ stirred'
             /\ today' \in 0 .. LastDay
    BY <1>3, AnalyticsNumbers DEF DayEnds, ReportTypes, AnalyticsTypeOK
<1>4. QED
    BY <1>1, <1>2, <1>3 DEF Visiting, ReportTypes, AnalyticsTypeOK

(* The report a request begins.                                            *)
Begins ==
    \E u \in Viewers :
        \/ \E l \in Posts, p \in Periods : GetAnalyticsSummary(u, l, p) \/ GetLinkAnalytics(u, l, p)
        \/ \E p \in Periods : GetGlobalAnalytics(u, p)
        \/ \E m \in 2 .. Len(Months) : GetUserMonthlyAnalytics(u, m)

LEMMA BeginsSay ==
    ASSUME Begins
    PROVE  \E w, queries :
              /\ Begin(w, queries) /\ queries \in {LinkQueries, UserQueries, LogQueries}
              /\ ~w.period.asked => w.period = Always
              /\ queries = UserQueries => w.link = None
<1>1. "data" \notin UserQueries /\ "data" \in LogQueries
      /\ "topLinks" \in UserQueries /\ "topLinks" \notin LinkQueries
    BY DEF LinkQueries, UserQueries, LogQueries
<1>2. UserQueries # LinkQueries /\ UserQueries # LogQueries
    BY <1>1
<1>3. \A p \in Periods : ~p.asked => p = Always
    BY DEF Periods, Always, Between
<1>4. \A from, to : Between(from, to).asked
    BY DEF Between
<1>5. \A u, l, p, m : Of(u, l, p, m).period = p /\ Of(u, l, p, m).link = l
    BY DEF Of
<1>6. QED
    BY <1>2, <1>3, <1>4, <1>5
       DEF Begins, GetAnalyticsSummary, GetLinkAnalytics, GetGlobalAnalytics, GetUserMonthlyAnalytics

LEMMA BeginTypes ==
    ASSUME ReportTypes, NEW w, NEW queries, Begin(w, queries),
           queries \in {LinkQueries, UserQueries, LogQueries},
           ~w.period.asked => w.period = Always, queries = UserQueries => w.link = None
    PROVE  /\ ReportTypes' /\ UNCHANGED analyticsTables
           /\ DOMAIN figures' = queries /\ inquiry'.left = queries
<1>1. /\ inquiry' = [pc |-> "read", of |-> w, left |-> queries]
      /\ figures' = [q \in queries |-> {}] /\ before' = row /\ UNCHANGED <<plan, post, row, today>>
    BY DEF Begin, analyticsTables
<1>2. Asked'
    BY <1>1 DEF Asked
<1>3. AnalyticsTypeOK'
    BY <1>1 DEF ReportTypes, AnalyticsTypeOK, ClickRow
<1>4. QED
    BY <1>1, <1>2, <1>3 DEF ReportTypes, analyticsTables

LEMMA QuerySays ==
    ASSUME ReportTypes, NEW q, Query(q)
    PROVE  /\ ReportTypes' /\ UNCHANGED <<analyticsTables, before, stirred>>
           /\ inquiry # Idle /\ inquiry'.of = inquiry.of
           /\ q \in DOMAIN figures /\ DOMAIN figures' = DOMAIN figures
           /\ inquiry'.left = inquiry.left \ {q}
           /\ figures'[q] \in Result(q, inquiry.of)
           /\ \A r \in DOMAIN figures \ {q} : figures'[r] = figures[r]
<1>1. Asked /\ inquiry.pc = "read" /\ inquiry # Idle
    BY DEF Query, ReportTypes, Idle
<1>2. PICK got \in Result(q, inquiry.of) : figures' = [figures EXCEPT ![q] = got]
    BY DEF Query
<1>3. inquiry' = [inquiry EXCEPT !.left = @ \ {q}] /\ q \in inquiry.left
      /\ UNCHANGED <<analyticsTables, before, stirred>>
    BY DEF Query
<1>4. inquiry'.of = inquiry.of /\ inquiry'.pc = "read" /\ inquiry'.left = inquiry.left \ {q}
      /\ inquiry' = [pc |-> inquiry'.pc, of |-> inquiry'.of, left |-> inquiry'.left]
    BY <1>1, <1>3 DEF Asked
<1>5. q \in DOMAIN figures /\ DOMAIN figures' = DOMAIN figures /\ figures'[q] = got
      /\ (\A r \in DOMAIN figures \ {q} : figures'[r] = figures[r])
      /\ figures' = [r \in DOMAIN figures' |-> figures'[r]]
    BY <1>1, <1>2, <1>3 DEF Asked
<1>6. Asked'
    BY <1>1, <1>4, <1>5 DEF Asked
<1>7. AnalyticsTypeOK'
    BY <1>1, <1>3, <1>4, <1>5 DEF ReportTypes, AnalyticsTypeOK, analyticsTables, Asked, ClickRow
<1>8. QED
    BY <1>1, <1>2, <1>3, <1>4, <1>5, <1>6, <1>7 DEF ReportTypes, analyticsTables

LEMMA CountSays ==
    ASSUME ReportTypes, CountUniques
    PROVE  /\ ReportTypes' /\ UNCHANGED <<analyticsTables, before, stirred>>
           /\ inquiry # Idle /\ inquiry'.of = inquiry.of
           /\ DOMAIN figures' = DOMAIN figures
           /\ inquiry.left = {} /\ inquiry'.left = {}
           /\ figures'["topLinks"] = figures["topLinks"]
              \/ figures'["topLinks"] =
                    {[link |-> t.link, clicks |-> t.clicks,
                      uniqueClicks |-> UniqueClicks(t.link, inquiry.of)] : t \in figures["topLinks"]}
           /\ \A r \in DOMAIN figures \ {"topLinks"} : figures'[r] = figures[r]
<1>1. Asked /\ inquiry.pc = "read" /\ inquiry # Idle /\ inquiry.left = {}
    BY DEF CountUniques, ReportTypes, Idle
<1>2. inquiry' = [inquiry EXCEPT !.pc = "done"] /\ UNCHANGED <<analyticsTables, before, stirred>>
    BY DEF CountUniques
<1>3. inquiry'.of = inquiry.of /\ inquiry'.pc = "done" /\ inquiry'.left = {}
      /\ inquiry' = [pc |-> inquiry'.pc, of |-> inquiry'.of, left |-> inquiry'.left]
    BY <1>1, <1>2 DEF Asked
<1>4. PICK new : /\ new = {[link |-> t.link, clicks |-> t.clicks,
                            uniqueClicks |-> UniqueClicks(t.link, inquiry.of)] : t \in figures["topLinks"]}
                 /\ figures' \in {figures, [figures EXCEPT !["topLinks"] = new]}
    BY DEF CountUniques
<1>5. DOMAIN figures' = DOMAIN figures /\ figures' = [r \in DOMAIN figures' |-> figures'[r]]
      /\ figures'["topLinks"] \in {figures["topLinks"], new}
      /\ \A r \in DOMAIN figures \ {"topLinks"} : figures'[r] = figures[r]
    BY <1>1, <1>4 DEF Asked
<1>6. Asked'
    BY <1>1, <1>3, <1>5 DEF Asked
<1>7. AnalyticsTypeOK'
    BY <1>1, <1>2, <1>3, <1>5 DEF ReportTypes, AnalyticsTypeOK, analyticsTables, Asked, ClickRow
<1>8. QED
    BY <1>1, <1>2, <1>3, <1>4, <1>5, <1>6, <1>7 DEF ReportTypes, analyticsTables

LEMMA ReportTypesStay ==
    ASSUME ReportTypes, [AnalyticsNext]_analyticsVars
    PROVE  ReportTypes'
<1>1. CASE Visiting
    BY <1>1, VisitingSays DEF ReportTypes, AnalyticsTypeOK, Asked
<1>2. CASE Begins
    BY <1>2, BeginsSay, BeginTypes
<1>3. ASSUME NEW q, Query(q) PROVE ReportTypes'
    BY <1>3, QuerySays
<1>4. CASE CountUniques
    BY <1>4, CountSays
<1>5. CASE Answer
    BY <1>5 DEF Answer, analyticsTables, ReportTypes, AnalyticsTypeOK, ClickRow, Idle
<1>6. CASE UNCHANGED analyticsVars
    BY <1>6 DEF analyticsVars, analyticsTables, analyticsReport, ReportTypes, AnalyticsTypeOK, Asked, ClickRow
<1>7. QED
    BY <1>1, <1>2, <1>3, <1>4, <1>5, <1>6 DEF AnalyticsNext, Reporting, Begins

LEMMA ReportTypesAlways == AnalyticsSpec => []ReportTypes
<1>1. AnalyticsInit => ReportTypes
    <2> SUFFICES ASSUME AnalyticsInit PROVE ReportTypes
        OBVIOUS
    <2>1. AnalyticsTypeOK
        <3>1. post \in [Posts -> [by: Viewers, code: Posts \cup {None}, archived: BOOLEAN, since: {0}]]
            BY DEF AnalyticsInit
        <3>2. today \in 0 .. LastDay /\ row \subseteq ClickRow /\ before \subseteq row
            BY AnalyticsNumbers DEF AnalyticsInit
        <3>3. inquiry.pc = "idle" /\ plan \in [Viewers -> {"FREE", "PRO"}]
            BY DEF AnalyticsInit, Idle
        <3>4. QED
            BY <3>1, <3>2, <3>3 DEF AnalyticsTypeOK
    <2>2. QED
        BY <2>1, FS_EmptySet DEF AnalyticsInit, ReportTypes
<1>2. QED
    BY <1>1, ReportTypesStay, PTL DEF AnalyticsSpec

(* Every variable keeps its type.                                          *)
THEOREM AnalyticsTypeCorrect == AnalyticsSpec => []AnalyticsTypeOK
BY ReportTypesAlways, PTL DEF ReportTypes

-----------------------------------------------------------------------------
(* The figures of a report                                                 *)

Due(w) == Clicks(w) \cap before
ClicksShown(links) == UNION {t.clicks : t \in links}

(* What a query that has answered has found, and still tells truly.        *)
Fits(q, w, found) ==
    /\ q = "totalClicks" => Due(w) \subseteq found
    /\ q = "clicksByDate" =>
          found \subseteq Clicks(w) /\ (w.period.asked => Due(w) \subseteq found)
    /\ q = "topCountries" => found \subseteq Clicks(w)
    /\ q = "uniqueVisitors" =>
          IsFiniteSet(found) /\ Cardinality(found) <= Cardinality(Clicks(w))
    /\ q = "topLinks" =>
          /\ ClicksShown(found) \subseteq Clicks(w)
          /\ ~stirred /\ Cardinality(HisActive(w)) <= TopLinks =>
                {c \in Due(w) : ~post[c.link].archived} \subseteq ClicksShown(found)
    /\ q = "data" =>
          /\ found \subseteq Clicks(w)
          /\ Cardinality(Clicks(w)) <= PageRows => Due(w) \subseteq found

AnswersFit ==
    inquiry # Idle =>
        \A q \in DOMAIN figures \ inquiry.left : Fits(q, inquiry.of, figures[q])

LEMMA ClicksAreFinite ==
    ASSUME ReportTypes, NEW w
    PROVE  /\ Clicks(w) \subseteq row /\ IsFiniteSet(Clicks(w)) /\ Cardinality(Clicks(w)) \in Nat
           /\ \A S \in SUBSET Clicks(w) : /\ IsFiniteSet(S) /\ Cardinality(S) \in Nat
                                          /\ Cardinality(S) <= Cardinality(Clicks(w))
<1>1. Clicks(w) \subseteq row
    BY DEF Clicks
<1>2. IsFiniteSet(Clicks(w)) /\ Cardinality(Clicks(w)) \in Nat
    BY <1>1, FS_Subset, FS_CardinalityType DEF ReportTypes
<1>3. ASSUME NEW S \in SUBSET Clicks(w)
      PROVE  /\ IsFiniteSet(S) /\ Cardinality(S) \in Nat
             /\ Cardinality(S) <= Cardinality(Clicks(w))
    BY <1>2, FS_Subset, FS_CardinalityType
<1>4. QED
    BY <1>1, <1>2, <1>3

(* A visitor is counted for one of his clicks.                             *)
LEMMA VisitorsCounted ==
    ASSUME NEW S, IsFiniteSet(S)
    PROVE  IsFiniteSet({c.visitor : c \in S})
           /\ Cardinality({c.visitor : c \in S}) <= Cardinality(S)
<1>1. PICK f : f = [c \in S |-> c.visitor]
    OBVIOUS
<1>2. PICK T : T = {c.visitor : c \in S}
    OBVIOUS
<1>3. f \in Surjection(S, T)
    BY <1>1, <1>2 DEF Surjection
<1>4. IsFiniteSet(T) /\ Cardinality(T) <= Cardinality(S)
    BY <1>3, FS_Surjection
<1>5. QED
    BY <1>2, <1>4

(* Each query finds what it is asked for, on the tables as they are.       *)
LEMMA ChartFits ==
    ASSUME ReportTypes, NEW w, ~w.period.asked => w.period = Always
    PROVE  /\ Chart(w) \subseteq Clicks(w)
           /\ w.period.asked => Clicks(w) \subseteq Chart(w)
<1>1. CASE w.period.asked
    BY <1>1 DEF Chart, Clicks
<1>2. CASE ~w.period.asked
    <2>1. \A c \in row : c.day \in 0 .. LastDay
        BY DEF ReportTypes, AnalyticsTypeOK, ClickRow
    <2>2. \A c \in row : Within(c.day, w.period)
        BY <1>2, <2>1, AnalyticsNumbers DEF Within, Always
    <2>3. QED
        BY <1>2, <2>2 DEF Chart, Clicks
<1>3. QED
    BY <1>1, <1>2

LEMMA CountriesFit ==
    ASSUME NEW w, NEW found \in RankedCountries(w)
    PROVE  found \subseteq Clicks(w)
<1>1. PICK T \in SUBSET Countries :
         found = UNION {{c \in Clicks(w) : c.country = country} : country \in T}
    BY DEF RankedCountries, Leads
<1>2. QED
    BY <1>1

LEMMA VisitorsFit ==
    ASSUME ReportTypes, NEW w, NEW found \in Result("uniqueVisitors", w)
    PROVE  IsFiniteSet(found) /\ Cardinality(found) <= Cardinality(Clicks(w))
<1>1. found = {c.visitor : c \in Uniques(Clicks(w))} \/ found = Uniques(Clicks(w))
    BY DEF Result
<1>2. PICK S : S = Uniques(Clicks(w))
    OBVIOUS
<1>3. S \in SUBSET Clicks(w)
    BY <1>2 DEF Uniques
<1>4. /\ IsFiniteSet(S) /\ Cardinality(S) \in Nat /\ Cardinality(Clicks(w)) \in Nat
      /\ Cardinality(S) <= Cardinality(Clicks(w))
    BY <1>3, ClicksAreFinite
<1>5. /\ IsFiniteSet({c.visitor : c \in S})
      /\ Cardinality({c.visitor : c \in S}) <= Cardinality(S)
    BY <1>4, VisitorsCounted
<1>6. Cardinality({c.visitor : c \in S}) \in Nat
    BY <1>5, FS_CardinalityType
<1>7. QED
    BY <1>1, <1>2, <1>4, <1>5, <1>6

LEMMA LinksFit ==
    ASSUME IsFiniteSet(Posts), ReportTypes, NEW w, w.link = None, NEW found \in RankedLinks(w)
    PROVE  /\ ClicksShown(found) \subseteq Clicks(w)
           /\ Cardinality(HisActive(w)) <= TopLinks =>
                 {c \in Clicks(w) : ~post[c.link].archived} \subseteq ClicksShown(found)
<1> DEFINE inPeriod(l) == {c \in row : c.link = l} \cap Clicks(w)
<1>1. PICK T \in SUBSET HisActive(w) :
         /\ Cardinality(T) = IF Cardinality(HisActive(w)) < TopLinks
                             THEN Cardinality(HisActive(w)) ELSE TopLinks
         /\ found = {[link |-> l, clicks |-> inPeriod(l)] : l \in {t \in T : inPeriod(t) # {}}}
    BY DEF RankedLinks, Leads
<1>2. \A c : c \in ClicksShown(found) <=> \E l \in T : c \in inPeriod(l)
    <2>1. ASSUME NEW t \in found PROVE \E l \in T : t.clicks = inPeriod(l)
        BY <1>1
    <2>2. ASSUME NEW l \in T, inPeriod(l) # {} PROVE \E t \in found : t.clicks = inPeriod(l)
        <3>1. PICK t : t = [link |-> l, clicks |-> inPeriod(l)]
            OBVIOUS
        <3>2. t.clicks = inPeriod(l) /\ t \in found
            BY <1>1, <2>2, <3>1
        <3>3. QED
            BY <3>2
    <2> HIDE DEF inPeriod
    <2>3. QED
        BY <2>1, <2>2 DEF ClicksShown
<1>3. ClicksShown(found) \subseteq Clicks(w)
    BY <1>2
<1>4. ASSUME Cardinality(HisActive(w)) <= TopLinks
      PROVE  {c \in Clicks(w) : ~post[c.link].archived} \subseteq ClicksShown(found)
    <2>1. IsFiniteSet(HisActive(w)) /\ Cardinality(HisActive(w)) \in Nat
        BY FS_Subset, FS_CardinalityType DEF HisActive, HisLinks
    <2>2. Cardinality(T) = Cardinality(HisActive(w))
        BY <1>1, <1>4, <2>1, AnalyticsNumbers
    <2>3. T = HisActive(w)
        BY <2>1, <2>2, FS_Subset
    <2>4. ASSUME NEW c \in Clicks(w), ~post[c.link].archived
          PROVE  c.link \in T /\ c \in inPeriod(c.link)
        <3>1. c \in row /\ c.link \in Posts /\ post[c.link].by = w.by
            BY DEF Clicks, Owns, ReportTypes, AnalyticsTypeOK, ClickRow
        <3>2. QED
            BY <2>3, <2>4, <3>1 DEF HisActive, HisLinks
    <2>5. QED
        BY <1>2, <2>4
<1>5. QED
    BY <1>3, <1>4

LEMMA LogFits ==
    ASSUME ReportTypes, NEW w
    PROVE  /\ FirstRows(Clicks(w)) \subseteq Clicks(w)
           /\ Cardinality(Clicks(w)) <= PageRows => Clicks(w) \subseteq FirstRows(Clicks(w))
<1>1. FirstRows(Clicks(w)) \subseteq Clicks(w)
    BY DEF FirstRows
<1>2. ASSUME Cardinality(Clicks(w)) <= PageRows, NEW c \in Clicks(w)
      PROVE  c \in FirstRows(Clicks(w))
    <2>1. PICK S \in SUBSET Clicks(w) : S = {d \in Clicks(w) : d.id > c.id}
        OBVIOUS
    <2>2. c.id \in Nat
        BY ClicksAreFinite, AnalyticsNumbers DEF ReportTypes, AnalyticsTypeOK, ClickRow
    <2>3. S # Clicks(w)
        BY <1>2, <2>1, <2>2
    <2>4. Cardinality(S) < Cardinality(Clicks(w))
        BY <2>3, ClicksAreFinite, FS_Subset
    <2>5. Cardinality(S) < PageRows
        BY <1>2, <2>4, ClicksAreFinite, AnalyticsNumbers
    <2>6. QED
        BY <2>1, <2>5 DEF FirstRows
<1>3. QED
    BY <1>1, <1>2

LEMMA ResultsFit ==
    ASSUME IsFiniteSet(Posts), ReportTypes, inquiry # Idle, NEW q \in DOMAIN figures,
           NEW found \in Result(q, inquiry.of)
    PROVE  Fits(q, inquiry.of, found)
<1> DEFINE w == inquiry.of
<1>1. /\ ~w.period.asked => w.period = Always
      /\ DOMAIN figures \in {LinkQueries, UserQueries, LogQueries}
      /\ DOMAIN figures = UserQueries => w.link = None
    BY DEF ReportTypes, Asked
<1>2. q = "topLinks" => w.link = None
    BY <1>1 DEF LinkQueries, LogQueries
<1>3. Due(w) \subseteq Clicks(w)
    BY DEF Due
<1> HIDE DEF w
<1>4. CASE q = "totalClicks"
    BY <1>3, <1>4 DEF Result, Fits, w
<1>5. CASE q = "clicksByDate"
    <2>1. found = Chart(w)
        BY <1>5 DEF Result, w
    <2>2. QED
        BY <1>1, <1>3, <1>5, <2>1, ChartFits DEF Fits, w
<1>6. CASE q = "topCountries"
    <2>1. found \in RankedCountries(w)
        BY <1>6 DEF Result, w
    <2>2. QED
        BY <1>6, <2>1, CountriesFit DEF Fits, w
<1>7. CASE q = "uniqueVisitors"
    BY <1>7, VisitorsFit DEF Fits
<1>8. CASE q = "topLinks"
    <2>1. found \in RankedLinks(w)
        BY <1>8 DEF Result, w
    <2>2. QED
        BY <1>2, <1>3, <1>8, <2>1, LinksFit DEF Fits, w
<1>9. CASE q = "data"
    <2>1. found = FirstRows(Clicks(w))
        BY <1>9 DEF Result, w
    <2>2. QED
        BY <1>3, <1>9, <2>1, LogFits DEF Fits, w
<1>10. QED
    BY <1>4, <1>5, <1>6, <1>7, <1>8, <1>9 DEF Fits

(* What has been found still fits when clicks are added.                   *)
LEMMA FitsStays ==
    ASSUME ReportTypes, Visiting, NEW q, NEW w, NEW found, Fits(q, w, found)
    PROVE  Fits(q, w, found)'
<1>1. /\ before' = before /\ row \subseteq row' /\ before \subseteq row
      /\ (~stirred' => ~stirred /\ post' = post)
      /\ \A l \in Posts : post'[l].by = post[l].by
    BY VisitingSays DEF ReportTypes, AnalyticsTypeOK
<1>2. \A c \in row : c.link \in Posts
    BY DEF ReportTypes, AnalyticsTypeOK, ClickRow
<1>3. \A c \in row : Owns(w, c)' <=> Owns(w, c)
    BY <1>1, <1>2 DEF Owns
<1>4. Clicks(w) \subseteq Clicks(w)'
    BY <1>1, <1>3 DEF Clicks
<1>5. Due(w)' = Due(w)
    BY <1>1, <1>3 DEF Due, Clicks
<1>6. Cardinality(Clicks(w)) \in Nat /\ Cardinality(Clicks(w)') \in Nat
      /\ Cardinality(Clicks(w)) <= Cardinality(Clicks(w)')
    <2>1. Clicks(w)' \subseteq row' /\ IsFiniteSet(row')
        BY VisitingSays DEF Clicks
    <2>2. IsFiniteSet(Clicks(w)')
        BY <2>1, FS_Subset
    <2>3. QED
        BY <1>4, <2>2, ClicksAreFinite, FS_Subset, FS_CardinalityType
<1>7. ClicksShown(found)' = ClicksShown(found)
    BY DEF ClicksShown
<1>8. q = "totalClicks" => Due(w)' \subseteq found
    BY <1>5 DEF Fits
<1>9. q = "clicksByDate" => found \subseteq Clicks(w)' /\ (w.period.asked => Due(w)' \subseteq found)
    BY <1>4, <1>5 DEF Fits
<1>10. q = "topCountries" => found \subseteq Clicks(w)'
    BY <1>4 DEF Fits
<1>11. q = "uniqueVisitors" =>
           IsFiniteSet(found) /\ Cardinality(found) <= Cardinality(Clicks(w)')
    BY <1>6, FS_CardinalityType DEF Fits
<1>12. q = "topLinks" =>
           /\ ClicksShown(found) \subseteq Clicks(w)'
           /\ ~stirred' /\ Cardinality(HisActive(w)') <= TopLinks =>
                 {c \in Due(w)' : ~post'[c.link].archived} \subseteq ClicksShown(found)
    <2>1. ClicksShown(found) \subseteq Clicks(w)' \/ q # "topLinks"
        BY <1>4 DEF Fits
    <2>2. ~stirred' => HisActive(w)' = HisActive(w) /\ post' = post
        BY <1>1 DEF HisActive, HisLinks
    <2>3. QED
        BY <1>1, <1>5, <2>1, <2>2 DEF Fits
<1>13. q = "data" =>
           /\ found \subseteq Clicks(w)'
           /\ Cardinality(Clicks(w)') <= PageRows => Due(w)' \subseteq found
    BY <1>4, <1>5, <1>6, AnalyticsNumbers DEF Fits
<1>14. Fits(q, w, found)'
    BY <1>8, <1>9, <1>10, <1>11, <1>12, <1>13 DEF Fits, ClicksShown
<1>15. QED
    BY <1>14

LEMMA FitsUnstirred ==
    ASSUME UNCHANGED <<analyticsTables, before, stirred>>, NEW q, NEW w, NEW found, Fits(q, w, found)
    PROVE  Fits(q, w, found)'
BY DEF Fits, analyticsTables, Due, Clicks, Owns, ClicksShown, HisActive, HisLinks

LEMMA AnswersStay ==
    ASSUME IsFiniteSet(Posts), ReportTypes, AnswersFit, [AnalyticsNext]_analyticsVars
    PROVE  AnswersFit'
<1>1. CASE Visiting
    <2>1. UNCHANGED <<inquiry, figures>>
        BY <1>1, VisitingSays
    <2>2. \A q, w, found : Fits(q, w, found) => Fits(q, w, found)'
        BY <1>1, FitsStays
    <2>3. QED
        BY <2>1, <2>2 DEF AnswersFit
<1>2. CASE Begins
    <2>1. DOMAIN figures' = inquiry'.left
        BY <1>2, BeginsSay, BeginTypes
    <2>2. QED
        BY <2>1 DEF AnswersFit
<1>3. ASSUME NEW q, Query(q) PROVE AnswersFit'
    <2>1. /\ UNCHANGED <<analyticsTables, before, stirred>>
          /\ inquiry # Idle /\ inquiry'.of = inquiry.of
          /\ q \in DOMAIN figures /\ DOMAIN figures' = DOMAIN figures
          /\ inquiry'.left = inquiry.left \ {q}
          /\ figures'[q] \in Result(q, inquiry.of)
          /\ \A r \in DOMAIN figures \ {q} : figures'[r] = figures[r]
        BY <1>3, QuerySays
    <2>2. ASSUME NEW r \in DOMAIN figures \ inquiry'.left
          PROVE  Fits(r, inquiry.of, figures'[r])
        <3>1. CASE r = q
            BY <2>1, <3>1, ResultsFit
        <3>2. CASE r # q
            BY <2>1, <2>2, <3>2 DEF AnswersFit
        <3>3. QED
            BY <3>1, <3>2
    <2>3. \A r, w, found : Fits(r, w, found) => Fits(r, w, found)'
        BY <2>1, FitsUnstirred
    <2>4. QED
        BY <2>1, <2>2, <2>3 DEF AnswersFit
<1>4. CASE CountUniques
    <2>1. /\ UNCHANGED <<analyticsTables, before, stirred>>
          /\ inquiry # Idle /\ inquiry'.of = inquiry.of
          /\ DOMAIN figures' = DOMAIN figures
          /\ inquiry.left = {} /\ inquiry'.left = {}
          /\ figures'["topLinks"] = figures["topLinks"]
             \/ figures'["topLinks"] =
                   {[link |-> t.link, clicks |-> t.clicks,
                     uniqueClicks |-> UniqueClicks(t.link, inquiry.of)] : t \in figures["topLinks"]}
          /\ \A r \in DOMAIN figures \ {"topLinks"} : figures'[r] = figures[r]
        BY <1>4, CountSays
    <2>2. ClicksShown(figures'["topLinks"]) = ClicksShown(figures["topLinks"])
        <3>1. CASE figures'["topLinks"] = figures["topLinks"]
            BY <3>1
        <3>2. CASE figures'["topLinks"] # figures["topLinks"]
            <4>1. PICK old : old = figures["topLinks"]
                OBVIOUS
            <4>2. PICK new : /\ new = figures'["topLinks"]
                             /\ new = {[link |-> t.link, clicks |-> t.clicks,
                                        uniqueClicks |-> UniqueClicks(t.link, inquiry.of)] : t \in old}
                BY <2>1, <3>2, <4>1
            <4>3. ASSUME NEW t \in old PROVE \E s \in new : s.clicks = t.clicks
                <5>1. PICK s : s = [link |-> t.link, clicks |-> t.clicks,
                                    uniqueClicks |-> UniqueClicks(t.link, inquiry.of)]
                    OBVIOUS
                <5>2. s.clicks = t.clicks /\ s \in new
                    BY <4>2, <5>1
                <5>3. QED
                    BY <5>2
            <4>4. ASSUME NEW s \in new PROVE \E t \in old : s.clicks = t.clicks
                BY <4>2
            <4>5. QED
                BY <4>1, <4>2, <4>3, <4>4 DEF ClicksShown
        <3>3. QED
            BY <3>1, <3>2
    <2>3. ASSUME NEW r \in DOMAIN figures
          PROVE  Fits(r, inquiry.of, figures'[r])
        <3>1. Fits(r, inquiry.of, figures[r])
            BY <2>1 DEF AnswersFit
        <3>2. CASE r = "topLinks"
            BY <2>2, <3>1, <3>2 DEF Fits
        <3>3. CASE r # "topLinks"
            BY <2>1, <3>1, <3>3
        <3>4. QED
            BY <3>2, <3>3
    <2>4. \A r, w, found : Fits(r, w, found) => Fits(r, w, found)'
        BY <2>1, FitsUnstirred
    <2>5. QED
        BY <2>1, <2>3, <2>4 DEF AnswersFit
<1>5. CASE Answer
    BY <1>5 DEF Answer, AnswersFit
<1>6. CASE UNCHANGED analyticsVars
    <2>1. UNCHANGED <<analyticsTables, before, stirred, inquiry, figures>>
        BY <1>6 DEF analyticsVars, analyticsReport
    <2>2. \A r, w, found : Fits(r, w, found) => Fits(r, w, found)'
        BY <2>1, FitsUnstirred
    <2>3. QED
        BY <2>1, <2>2 DEF AnswersFit
<1>7. QED
    BY <1>1, <1>2, <1>3, <1>4, <1>5, <1>6 DEF AnalyticsNext, Reporting, Begins

(* The figures of a report agree, as far as queries of different instants  *)
(* can, while links are visited and archived and days end.                 *)
THEOREM FiguresCohere ==
    ASSUME IsFiniteSet(Posts)
    PROVE  AnalyticsSpec => []ReportCoheres
<1>1. AnalyticsInit => AnswersFit
    BY DEF AnalyticsInit, AnswersFit
<1>2. ReportTypes /\ AnswersFit /\ [AnalyticsNext]_analyticsVars => AnswersFit'
    BY AnswersStay
<1>3. ReportTypes /\ AnswersFit => ReportCoheres
    <2> SUFFICES ASSUME ReportTypes, AnswersFit, inquiry.pc = "done" PROVE ReportCoheres
        BY DEF ReportCoheres, Reported
    <2>1. inquiry # Idle /\ inquiry.left = {}
        BY DEF ReportTypes, Asked, Idle
    <2>2. \A q \in DOMAIN figures : Fits(q, inquiry.of, figures[q])
        BY <2>1 DEF AnswersFit
    <2>3. ASSUME LinkQueries \subseteq DOMAIN figures
          PROVE  /\ Clicks(inquiry.of) \cap before \subseteq figures["totalClicks"]
                 /\ inquiry.of.period.asked =>
                       Clicks(inquiry.of) \cap before \subseteq figures["clicksByDate"]
                 /\ figures["clicksByDate"] \cup figures["topCountries"] \subseteq Clicks(inquiry.of)
                 /\ Cardinality(figures["uniqueVisitors"]) <= Cardinality(Clicks(inquiry.of))
        <3>1. {"totalClicks", "uniqueVisitors", "topCountries", "clicksByDate"} \subseteq DOMAIN figures
            BY <2>3 DEF LinkQueries
        <3>2. QED
            BY <2>2, <3>1 DEF Fits, Due
    <2>4. ASSUME UserQueries \subseteq DOMAIN figures
          PROVE  /\ UNION Shown \subseteq Clicks(inquiry.of)
                 /\ ~stirred /\ Cardinality(HisActive(inquiry.of)) <= TopLinks =>
                       {c \in Clicks(inquiry.of) \cap before : ~post[c.link].archived}
                           \subseteq UNION Shown
        <3>1. Fits("topLinks", inquiry.of, figures["topLinks"])
            BY <2>2, <2>4 DEF UserQueries
        <3>2. QED
            BY <3>1 DEF Fits, Due, Shown, ClicksShown
    <2>5. ASSUME LogQueries \subseteq DOMAIN figures
          PROVE  /\ figures["data"] \subseteq Clicks(inquiry.of)
                 /\ Cardinality(Clicks(inquiry.of)) <= PageRows =>
                       Clicks(inquiry.of) \cap before \subseteq figures["data"]
        <3>1. Fits("data", inquiry.of, figures["data"])
            BY <2>2, <2>5 DEF LogQueries
        <3>2. QED
            BY <3>1 DEF Fits, Due
    <2>6. QED
        BY <2>3, <2>4, <2>5 DEF ReportCoheres, Reported
<1>4. QED
    BY <1>1, <1>2, <1>3, ReportTypesAlways, PTL DEF AnalyticsSpec

-----------------------------------------------------------------------------
(***************************************************************************)
(* RETENTION                                                               *)
(***************************************************************************)

(* Type correctness                                                        *)

HolderRow == [tier: {"FREE", "PRO"}, mails: BOOLEAN, busy: BOOLEAN]
ItemRow == [status: {"ACTIVE", "ARCHIVED", "expired", "DISABLED", "deleted"}, by: Holders,
            age: 0 .. KeepMost + 1, born: {"night", "morning"}, left: -1 .. NoExpiry]
ReportRow == {Idle, Done} \cup [pc: {"PRO", "FREE"}, left: SUBSET Holders]

(* A user is on the list of the PRO users before the first report to him,  *)
(* and on the list of the FREE users before the second.                    *)
ReportsCounted ==
    /\ report = Idle => \A u \in Holders : reports[u] = 0
    /\ report.pc = "PRO" => \A u \in Holders : reports[u] <= 1 /\ (u \in report.left => reports[u] = 0)
    /\ report.pc = "FREE" => \A u \in report.left : reports[u] <= 1

RetentionTyped == RetentionTypeOK /\ ReportsCounted

LEMMA RunTypes ==
    /\ \A links \in SUBSET Items : RunOf(links) \in RunRow
    /\ \A run \in RunRow : run.pc = "publish" => run.left \in SUBSET Items /\ run = [pc |-> "publish", left |-> run.left]
    /\ \A run \in ReportRow :
          /\ run = Idle <=> run.pc = "idle"
          /\ run.pc \in {"PRO", "FREE"} =>
                /\ run.left \in SUBSET Holders /\ run = [pc |-> run.pc, left |-> run.left]
                /\ \A left \in SUBSET Holders :
                      [run EXCEPT !.left = left] = [pc |-> run.pc, left |-> left]
BY DEF RunOf, RunRow, ReportRow, Idle, Done

LEMMA RunEnds ==
    /\ RunOf({}) = Done
    /\ \A links : links # {} => /\ RunOf(links).pc = "publish" /\ RunOf(links).left = links
                               /\ RunOf(links) # Done
    /\ \A run : run.pc = "publish" => run # Done /\ run # Idle
    /\ Idle # Done /\ Idle.pc # "publish" /\ Done.pc # "publish"
BY DEF RunOf, Idle, Done

(* A step of the links: every link keeps its type.                         *)
LEMMA ItemTypes ==
    ASSUME AgesAssumption, NEW r \in ItemRow
    PROVE  /\ \A s \in {"ACTIVE", "ARCHIVED", "expired", "DISABLED", "deleted"} :
                 [r EXCEPT !.status = s] \in ItemRow
           /\ \A d \in {NoticeDays - 1, NoticeDays + 1, NoExpiry} : [r EXCEPT !.left = d] \in ItemRow
           /\ [r EXCEPT !.age = IF @ > KeepMost THEN @ ELSE @ + 1,
                          !.left = IF @ \in {NoExpiry, -1} THEN @ ELSE @ - 1] \in ItemRow
<1>1. KeepMost \in Nat /\ NoticeDays \in Nat
    BY DEF AgesAssumption
<1>2. \A s \in {"ACTIVE", "ARCHIVED", "expired", "DISABLED", "deleted"} :
          [r EXCEPT !.status = s] \in ItemRow
    BY DEF ItemRow
<1>3. \A d \in -1 .. NoExpiry : [r EXCEPT !.left = d] \in ItemRow
    BY DEF ItemRow
<1>4. {NoticeDays - 1, NoticeDays + 1, NoExpiry} \subseteq -1 .. NoExpiry
    BY <1>1 DEF NoExpiry
<1>5. \A a \in 0 .. KeepMost + 1, d \in -1 .. NoExpiry :
          [[r EXCEPT !.age = a] EXCEPT !.left = d] \in ItemRow
    BY DEF ItemRow
<1>6. r.age \in 0 .. KeepMost + 1 /\ r.left \in -1 .. NoExpiry
    BY DEF ItemRow
<1>7. /\ (IF r.age > KeepMost THEN r.age ELSE r.age + 1) \in 0 .. KeepMost + 1
      /\ (IF r.left \in {NoExpiry, -1} THEN r.left ELSE r.left - 1) \in -1 .. NoExpiry
    BY <1>1, <1>6 DEF NoExpiry
<1>8. [r EXCEPT !.age = IF @ > KeepMost THEN @ ELSE @ + 1,
                  !.left = IF @ \in {NoExpiry, -1} THEN @ ELSE @ - 1] \in ItemRow
    BY <1>5, <1>7
<1> QED
    BY <1>2, <1>3, <1>4, <1>8

LEMMA RetentionHasTypes == RetentionSpec => []RetentionTyped
<1>1. RetentionInit => RetentionTyped
    <2> SUFFICES ASSUME RetentionInit PROVE RetentionTyped
        OBVIOUS
    <2>1. WarnFrom - 1 \in 0 .. KeepMost + 1 /\ {NoticeDays + 1, NoExpiry} \subseteq -1 .. NoExpiry
        BY AgesAssumption DEF AgesAssumption, NoExpiry
    <2>2. item \in [Items -> ItemRow]
        BY <2>1 DEF RetentionInit, ItemRow
    <2>3. misses \in 0 .. MaxMisses
        BY AgesAssumption DEF AgesAssumption, RetentionInit
    <2>4. instant \in [at: {"night", "morning"}, ran: BOOLEAN]
        BY DEF RetentionInit
    <2> QED
        BY <2>2, <2>3, <2>4
        DEF RetentionInit, RetentionTyped, RetentionTypeOK, ItemRow, ReportsCounted, RunRow, Idle
<1>2. RetentionTyped /\ [RetentionNext]_retentionVars => RetentionTyped'
    <2> SUFFICES ASSUME RetentionTyped, [RetentionNext]_retentionVars PROVE RetentionTyped'
        OBVIOUS
    <2>a. /\ holder \in [Holders -> HolderRow] /\ item \in [Items -> ItemRow]
          /\ instant \in [at: {"night", "morning"}, ran: BOOLEAN]
          /\ deletion \in RunRow /\ expiry \in RunRow /\ report \in ReportRow
          /\ misses \in 0 .. MaxMisses
          /\ excused \subseteq Items /\ surprised \subseteq Items
          /\ warned \subseteq Items /\ announced \subseteq Items
          /\ reports \in [Holders -> 0 .. 2] /\ changed \subseteq Holders /\ unreported \subseteq Holders
          /\ ReportsCounted
        BY DEF RetentionTyped, RetentionTypeOK, HolderRow, ItemRow, ReportRow
    <2> DEFINE Goal == RetentionTyped'
    <2>b. /\ holder' \in [Holders -> HolderRow] /\ item' \in [Items -> ItemRow]
          /\ instant' \in [at: {"night", "morning"}, ran: BOOLEAN]
          /\ deletion' \in RunRow /\ expiry' \in RunRow /\ report' \in ReportRow
          /\ misses' \in 0 .. MaxMisses
          /\ excused' \subseteq Items /\ surprised' \subseteq Items
          /\ warned' \subseteq Items /\ announced' \subseteq Items
          /\ reports' \in [Holders -> 0 .. 2] /\ changed' \subseteq Holders
          /\ unreported' \subseteq Holders /\ ReportsCounted'
          => Goal
        BY DEF RetentionTyped, RetentionTypeOK, HolderRow, ItemRow, ReportRow
    <2> HIDE DEF Goal
    <2>1. ASSUME UNCHANGED <<report, reports>> PROVE Goal
        <3>1. ReportsCounted'
            BY <2>1, <2>a DEF ReportsCounted
        <3>2. ASSUME NEW u \in Holders, SwitchTier(u) \/ ChangeWish(u) PROVE Goal
            <4>1. holder' \in [Holders -> HolderRow]
                <5>1. /\ [holder[u] EXCEPT !.tier = IF @ = "PRO" THEN "FREE" ELSE "PRO"] \in HolderRow
                      /\ [holder[u] EXCEPT !.mails = ~@] \in HolderRow
                    BY <2>a DEF HolderRow
                <5> QED
                    BY <2>a, <3>2, <5>1 DEF SwitchTier, ChangeWish, HolderChanges
            <4>2. HeldBy(u) \subseteq Items
                BY DEF HeldBy, Held
            <4> QED
                BY <2>a, <2>b, <3>1, <3>2, <4>1, <4>2
                DEF SwitchTier, ChangeWish, HolderChanges, cronRuns
        <3>3. ASSUME NEW l \in Items, SetArchived(l) PROVE Goal
            <4>1. item' \in [Items -> ItemRow]
                BY <2>a, <3>3, AgesAssumption, ItemTypes DEF SetArchived, ItemChanges
            <4> QED
                BY <2>a, <2>b, <3>1, <3>3, <4>1 DEF SetArchived, ItemChanges, cronRuns
        <3>4. ASSUME NEW l \in Items, NEW left \in {NoticeDays - 1, NoticeDays + 1, NoExpiry},
                     MoveExpiry(l, left)
              PROVE  Goal
            <4>1. item' \in [Items -> ItemRow]
                BY <2>a, <3>4, AgesAssumption, ItemTypes DEF MoveExpiry, ItemChanges
            <4> QED
                BY <2>a, <2>b, <3>1, <3>4, <4>1 DEF MoveExpiry, ItemChanges, cronRuns
        <3>5. ASSUME TimePasses PROVE Goal
            <4>1. item' \in [Items -> ItemRow]
                BY <2>a, <3>5, AgesAssumption, ItemTypes DEF TimePasses, Older
            <4>2. instant' \in [at: {"night", "morning"}, ran: BOOLEAN]
                BY <2>a, <3>5 DEF TimePasses
            <4> QED
                BY <2>a, <2>b, <3>1, <3>5, <4>1, <4>2 DEF TimePasses, retentionObserved, RunRow
        <3>6. ASSUME NEW gone, NightPasses(gone) PROVE Goal
            <4>1. item' \in [Items -> ItemRow]
                BY <2>a, <3>6, AgesAssumption, ItemTypes DEF NightPasses
            <4>2. instant' \in [at: {"night", "morning"}, ran: BOOLEAN]
                BY <2>a, <3>6 DEF NightPasses
            <4> QED
                BY <2>a, <2>b, <3>1, <3>6, <4>1, <4>2 DEF NightPasses, retentionObserved, cronRuns
        <3>7. ASSUME DisableExpired PROVE Goal
            <4>1. item' \in [Items -> ItemRow]
                BY <2>a, <3>7, AgesAssumption, ItemTypes DEF DisableExpired
            <4> QED
                BY <2>a, <2>b, <3>1, <3>7, <4>1 DEF DisableExpired, Held, cronRuns
        <3>8. ASSUME \/ FindLinksToWarn \/ FindExpiringLinks
                     \/ \E u \in Holders : WarnHolder(u) \/ AnnounceTo(u)
              PROVE  Goal
            <4>0. /\ \A l \in SUBSET Held : RunOf(Mailable(l)) \in RunRow
                  /\ deletion.pc = "publish" => \A S : RunOf(deletion.left \ S) \in RunRow
                  /\ expiry.pc = "publish" => \A S : RunOf(expiry.left \ S) \in RunRow
                BY <2>a, RunTypes DEF Mailable, Held
            <4>1. deletion' \in RunRow /\ expiry' \in RunRow
                BY <2>a, <3>8, <4>0 DEF FindLinksToWarn, FindExpiringLinks, WarnHolder, AnnounceTo
            <4>2. warned' \subseteq Items /\ announced' \subseteq Items
                BY <2>a, <3>8, RunTypes
                DEF FindLinksToWarn, FindExpiringLinks, WarnHolder, AnnounceTo, retentionObserved
            <4> QED
                BY <2>a, <2>b, <3>1, <3>8, <4>1, <4>2
                DEF FindLinksToWarn, FindExpiringLinks, WarnHolder, AnnounceTo, retentionObserved,
                   Morning, itemTable
        <3>9. ASSUME WarningFails \/ AnnouncementFails PROVE Goal
            <4>1. misses' \in 0 .. MaxMisses /\ Done \in RunRow
                BY <2>a, <3>9, AgesAssumption
                DEF WarningFails, AnnouncementFails, Fails, RunRow, AgesAssumption
            <4> QED
                BY <2>a, <2>b, <3>1, <3>9, <4>1
                DEF WarningFails, AnnouncementFails, retentionObserved, Morning, itemTable
        <3>10. ASSUME MorningEnds PROVE Goal
            <4>1. instant' \in [at: {"night", "morning"}, ran: BOOLEAN]
                BY <2>a, <3>10 DEF MorningEnds
            <4> QED
                BY <2>a, <2>b, <3>1, <3>10, <4>1 DEF MorningEnds, retentionObserved, cronRuns, itemTable
        <3>11. ASSUME MonthlyReport PROVE Goal
            <4>1. reports' = reports /\ report' = report
                BY <2>1
            <4>2. changed' \subseteq Holders /\ unreported' \subseteq Holders
                BY <2>a, <3>11
                DEF MonthlyReport, ListProUsers, ListFreeUsers, ReportEnds, SendReport, ReportFails,
                   ReportsTo, retentionObserved
            <4>3. UNCHANGED <<itemTable, instant, deletion, expiry, misses, excused, surprised, warned, announced>>
                BY <3>11
                DEF MonthlyReport, ListProUsers, ListFreeUsers, ReportEnds, SendReport, ReportFails,
                   ReportsTo, retentionObserved, ReportGoes
            <4> QED
                BY <2>a, <2>b, <3>1, <4>1, <4>2, <4>3 DEF itemTable
        <3>12. ASSUME UNCHANGED retentionVars PROVE Goal
            BY <2>a, <2>b, <3>1, <3>12
            DEF retentionVars, itemTable, cronRuns, retentionObserved
        <3> QED
            BY <3>2, <3>3, <3>4, <3>5, <3>6, <3>7, <3>8, <3>9, <3>10, <3>11, <3>12
            DEF RetentionNext, MorningJobs, Keeping, HolderActs, MissNight, DeleteOldFreeLinks
    <2>2. ASSUME MonthlyReport PROVE Goal
        <3>1. UNCHANGED <<holder, item, instant, deletion, expiry, misses, excused, surprised, warned,
                          announced>>
            BY <2>2
            DEF MonthlyReport, ListProUsers, ListFreeUsers, ReportEnds, SendReport, ReportFails,
               ReportsTo, retentionObserved, ReportGoes, itemTable
        <3>2. changed' \subseteq Holders /\ unreported' \subseteq Holders
            BY <2>a, <2>2
            DEF MonthlyReport, ListProUsers, ListFreeUsers, ReportEnds, SendReport, ReportFails,
               ReportsTo, retentionObserved
        <3>3. report' \in ReportRow /\ reports' \in [Holders -> 0 .. 2] /\ ReportsCounted' => Goal
            BY <2>a, <2>b, <3>1, <3>2
        <3>4. \A t : Recipients(t) \in SUBSET Holders
            BY DEF Recipients
        <3>5. ASSUME ListProUsers PROVE Goal
            <4>1. report' = [pc |-> "PRO", left |-> Recipients("PRO")] /\ reports' = reports /\ report = Idle
                BY <3>5 DEF ListProUsers, ReportGoes
            <4> QED
                BY <2>a, <3>3, <3>4, <4>1 DEF ReportRow, ReportsCounted, Idle
        <3>6. ASSUME ListFreeUsers PROVE Goal
            <4>1. /\ report' = [pc |-> "FREE", left |-> Recipients("FREE")] /\ reports' = reports
                  /\ report.pc = "PRO"
                BY <3>6 DEF ListFreeUsers, ReportGoes, retentionObserved
            <4> QED
                BY <2>a, <3>3, <3>4, <4>1 DEF ReportRow, ReportsCounted, Idle
        <3>7. ASSUME ReportEnds PROVE Goal
            <4>1. report' = Done /\ reports' = reports
                BY <3>7 DEF ReportEnds, ReportGoes, retentionObserved
            <4> QED
                BY <2>a, <3>3, <4>1 DEF ReportRow, ReportsCounted, Done, Idle
        <3>8. ASSUME NEW u \in Holders, SendReport(u) \/ ReportFails(u) PROVE Goal
            <4>1. /\ report.pc \in {"PRO", "FREE"} /\ u \in report.left /\ report.left \in SUBSET Holders
                  /\ report' = [pc |-> report.pc, left |-> report.left \ {u}]
                  /\ reports' \in {reports, [reports EXCEPT ![u] = @ + 1]}
                BY <2>a, <3>8, RunTypes DEF SendReport, ReportFails, ReportsTo, ReportGoes
            <4>2. report' \in ReportRow
                BY <4>1 DEF ReportRow
            <4>3. reports' \in [Holders -> 0 .. 2]
                BY <2>a, <4>1 DEF ReportsCounted
            <4>4. ReportsCounted'
                BY <2>a, <4>1, <4>3 DEF ReportsCounted, Idle
            <4> QED
                BY <3>3, <4>2, <4>3, <4>4
        <3> QED
            BY <2>2, <3>5, <3>6, <3>7, <3>8 DEF MonthlyReport
    <2>3. ASSUME ~MonthlyReport PROVE Goal
        <3>1. UNCHANGED <<report, reports>>
            BY <2>3
            DEF RetentionNext, MorningJobs, Keeping, HolderActs, MissNight, DeleteOldFreeLinks,
               NightPasses, TimePasses, DisableExpired, SetArchived, MoveExpiry, ItemChanges,
               SwitchTier, ChangeWish, HolderChanges, FindLinksToWarn, FindExpiringLinks, WarningFails,
               AnnouncementFails, MorningEnds, WarnHolder, AnnounceTo, retentionVars, retentionObserved,
               cronRuns
        <3> QED
            BY <2>1, <3>1
    <2> QED
        BY <2>2, <2>3 DEF Goal
<1> QED
    BY <1>1, <1>2, PTL DEF RetentionSpec

(* Every variable of Retention keeps its type.                             *)
THEOREM RetentionTypeCorrect == RetentionSpec => []RetentionTypeOK
BY RetentionHasTypes, PTL DEF RetentionTyped

-----------------------------------------------------------------------------
(* The monthly report                                                      *)

(* The reports that a user is owed, once his tier is done with.            *)
DueTo(u) ==
    IF \/ ~holder[u].mails \/ u \in unreported
       \/ holder[u].tier = "FREE" /\ ~holder[u].busy
    THEN 0 ELSE 1

(* The inductive invariant.  A user who did not change is on the list of   *)
(* his tier until his report is sent or has failed, and afterwards has     *)
(* what is due to him.                                                     *)
ReportInv ==
    /\ report = Idle => unreported = {}
    /\ report.pc = "PRO" =>
          \A u \in Holders \ changed :
              /\ u \in report.left => holder[u].tier = "PRO" /\ holder[u].mails /\ u \notin unreported
              /\ holder[u].tier = "PRO" /\ u \notin report.left => reports[u] = DueTo(u)
              /\ holder[u].tier = "FREE" => reports[u] = 0 /\ u \notin unreported
    /\ report.pc = "FREE" =>
          \A u \in Holders \ changed :
              /\ u \in report.left =>
                    holder[u].tier = "FREE" /\ holder[u].mails /\ reports[u] = 0 /\ u \notin unreported
              /\ u \notin report.left => reports[u] = DueTo(u)
    /\ report = Done => \A u \in Holders \ changed : reports[u] = DueTo(u)

(* When the run is over, a user who did not change during it has had the   *)
(* one report that is due to him, and nobody else has had any.             *)
THEOREM OneReportEach == RetentionSpec => []ReportedOnce
<1>1. RetentionInit => ReportInv
    BY DEF RetentionInit, ReportInv, Idle, Done
<1>2. RetentionTyped /\ ReportInv /\ [RetentionNext]_retentionVars => ReportInv'
    <2> SUFFICES ASSUME RetentionTyped, ReportInv, [RetentionNext]_retentionVars PROVE ReportInv'
        OBVIOUS
    <2>a. /\ holder \in [Holders -> HolderRow] /\ report \in ReportRow
          /\ reports \in [Holders -> 0 .. 2]
          /\ ReportsCounted
        BY DEF RetentionTyped, RetentionTypeOK, HolderRow, ReportRow
    <2>b. \A u \in Holders : holder[u].tier \in {"FREE", "PRO"}
        BY <2>a DEF HolderRow
    <2>c. /\ report = Idle <=> report.pc = "idle"
          /\ report = Done <=> report.pc = "done"
          /\ report.pc \in {"idle", "done", "PRO", "FREE"}
        BY <2>a DEF ReportRow, Idle, Done
    <2>1. ASSUME NEW u \in Holders, SwitchTier(u) \/ ChangeWish(u) PROVE ReportInv'
        <3>1. /\ UNCHANGED <<report, reports, unreported>>
              /\ changed' = changed \cup {u}
              /\ \A v \in Holders \ {u} : holder'[v] = holder[v]
            BY <2>1, <2>a DEF SwitchTier, ChangeWish, HolderChanges, cronRuns
        <3> QED
            BY <3>1 DEF ReportInv, DueTo
    <2>2. ASSUME ListProUsers PROVE ReportInv'
        <3>1. /\ report = Idle /\ report' = [pc |-> "PRO", left |-> Recipients("PRO")]
              /\ UNCHANGED <<holder, reports, unreported>>
              /\ unreported = {} /\ \A u \in Holders : reports[u] = 0
            BY <2>2, <2>a DEF ListProUsers, ReportGoes, itemTable, ReportInv, ReportsCounted
        <3> QED
            BY <3>1, <2>b DEF ReportInv, DueTo, Recipients, Idle, Done
    <2>3. ASSUME ListFreeUsers PROVE ReportInv'
        <3>1. /\ report.pc = "PRO" /\ report.left = {}
              /\ report' = [pc |-> "FREE", left |-> Recipients("FREE")]
              /\ UNCHANGED <<holder, reports, unreported, changed>>
            BY <2>3 DEF ListFreeUsers, ReportGoes, itemTable, retentionObserved
        <3> QED
            BY <3>1, <2>b DEF ReportInv, DueTo, Recipients, Idle, Done
    <2>4. ASSUME ReportEnds PROVE ReportInv'
        <3>1. /\ report.pc = "FREE" /\ report.left = {} /\ report' = Done
              /\ UNCHANGED <<holder, reports, unreported, changed>>
            BY <2>4 DEF ReportEnds, ReportGoes, itemTable, retentionObserved
        <3> QED
            BY <3>1 DEF ReportInv, DueTo, Idle, Done
    <2>5. ASSUME NEW u \in Holders, SendReport(u) \/ ReportFails(u) PROVE ReportInv'
        <3>1. PICK t \in {"PRO", "FREE"}, left \in SUBSET Holders :
                 /\ t = report.pc /\ left = report.left /\ u \in left
                 /\ report' = [pc |-> t, left |-> left \ {u}]
            BY <2>5, <2>a, RunTypes DEF SendReport, ReportFails, ReportsTo, ReportGoes
        <3>2. holder' = holder /\ changed' = changed
            BY <2>5 DEF SendReport, ReportFails, ReportsTo, ReportGoes, itemTable
        <3>3. /\ \A v \in Holders \ {u} : reports'[v] = reports[v] /\ DueTo(v)' = DueTo(v)
              /\ \A v \in Holders \ {u} : v \in unreported' <=> v \in unreported
            BY <2>5, <2>a, <3>2 DEF SendReport, ReportFails, DueTo
        <3>4. \/ /\ u \in unreported' /\ reports' = reports
              \/ /\ unreported' = unreported
                 /\ reports'[u] = IF t = "FREE" /\ ~holder[u].busy THEN reports[u] ELSE reports[u] + 1
            BY <2>5, <2>a, <3>1 DEF SendReport, ReportFails
        <3>5. t = "PRO" => reports[u] = 0
            BY <2>a, <3>1 DEF ReportsCounted
        <3>6. u \notin changed => reports'[u] = DueTo(u)'
            BY <3>1, <3>2, <3>4, <3>5, <2>b DEF ReportInv, DueTo
        <3>7. /\ report'.pc = t /\ report'.left = left \ {u} /\ report' # Idle /\ report' # Done
            BY <3>1 DEF Idle, Done
        <3>8. u \notin changed => holder[u].tier = t
            BY <3>1 DEF ReportInv
        <3> QED
            BY <3>1, <3>2, <3>3, <3>6, <3>7, <3>8 DEF ReportInv
    <2>6. ASSUME ~MonthlyReport, ~HolderActs PROVE ReportInv'
        <3>1. UNCHANGED <<holder, report, reports, changed, unreported>>
            BY <2>6
            DEF RetentionNext, MorningJobs, Keeping, HolderActs, MissNight, DeleteOldFreeLinks,
               NightPasses, TimePasses, DisableExpired, SetArchived, MoveExpiry, ItemChanges,
               FindLinksToWarn, FindExpiringLinks, WarningFails, Morning, itemTable,
               AnnouncementFails, MorningEnds, WarnHolder, AnnounceTo, retentionVars, retentionObserved,
               cronRuns
        <3> QED
            BY <3>1 DEF ReportInv, DueTo
    <2> QED
        BY <2>1, <2>2, <2>3, <2>4, <2>5, <2>6 DEF MonthlyReport, HolderActs
<1>3. ReportInv => ReportedOnce
    BY DEF ReportInv, ReportedOnce, DueTo
<1> QED
    BY <1>1, <1>2, <1>3, RetentionHasTypes, PTL DEF RetentionSpec

-----------------------------------------------------------------------------
(* Warnings                                                                *)

(* The crons of a night find nothing begun, those of a morning that is     *)
(* over have ended.                                                        *)
InPhase ==
    /\ instant.at = "night" => deletion = Idle /\ expiry = Idle
    /\ instant.at = "morning" /\ instant.ran => deletion = Done /\ expiry = Done

(* How old the link is, and how many days it has left, on the first        *)
(* morning whose run is not over.                                          *)
ToCome(l, run) ==
    IF \/ instant.at = "night" /\ item[l].born = "morning"
       \/ instant.at = "morning" /\ run = Done
    THEN 1 ELSE 0
NextAge(l) == item[l].age + ToCome(l, deletion)
NextLeft(l) == item[l].left - ToCome(l, expiry)

(* The inductive invariant: a link that was not warned of yet, although it *)
(* qualified all the time, has missed every morning since it qualified,    *)
(* and is still on the list of the run under way.                          *)
Unwarned(l) ==
    /\ item[l].status = "deleted" => misses >= WarnTo - WarnFrom
    /\ item[l].status # "deleted" => item[l].status = "ACTIVE" /\ holder[item[l].by].mails
    /\ item[l].status # "deleted" /\ Free(l) =>
          /\ NextAge(l) <= WarnTo => misses >= NextAge(l) - WarnFrom
          /\ NextAge(l) >= WarnTo => misses >= WarnTo - WarnFrom
          /\ deletion.pc = "publish" /\ NearDeletion(l) => l \in deletion.left

Announceable(l) ==
    /\ item[l].status \notin {"expired", "deleted"} =>
          item[l].status = "ACTIVE" /\ holder[item[l].by].mails
    /\ l \notin announced =>
          /\ item[l].status = "expired" => misses >= NoticeDays
          /\ item[l].status \notin {"expired", "deleted"} =>
                /\ NextLeft(l) >= -1 => misses >= NoticeDays - 1 - NextLeft(l)
                /\ NextLeft(l) <= -1 => misses >= NoticeDays
                /\ expiry.pc = "publish" /\ NearExpiry(l) => l \in expiry.left

WarningsInv ==
    /\ InPhase
    /\ \A l \in Items \ (excused \cup warned) : Unwarned(l)
    /\ \A l \in Items \ surprised : Announceable(l)

(* A day makes a link that is kept one day older.                          *)
LEMMA OlderFields ==
    ASSUME NEW l, item[l] \in ItemRow, NEW at
    PROVE  /\ Older(l, at).status = item[l].status /\ Older(l, at).by = item[l].by
           /\ Older(l, at).born = item[l].born
           /\ Older(l, at).age = IF l \in Held /\ item[l].born = at
                                 THEN IF item[l].age > KeepMost THEN item[l].age ELSE item[l].age + 1
                                 ELSE item[l].age
           /\ Older(l, at).left = IF l \in Held /\ item[l].born = at
                                  THEN IF item[l].left \in {NoExpiry, -1} THEN item[l].left
                                       ELSE item[l].left - 1
                                  ELSE item[l].left
BY DEF Older, ItemRow

(* A step that changes nothing a link depends on, except that mornings     *)
(* may be lost.                                                            *)
LEMMA UnwarnedStays ==
    ASSUME NEW l, Unwarned(l), misses' >= misses, UNCHANGED deletion,
           misses \in Nat, misses' \in Nat, NoticeDays \in Nat, WarnFrom \in Nat, WarnTo \in Nat,
           NextAge(l) \in Int,
           instant'.at = instant.at, item'[l].status = item[l].status, item'[l].by = item[l].by,
           item'[l].age = item[l].age, item'[l].born = item[l].born,
           holder'[item[l].by] = holder[item[l].by]
    PROVE  Unwarned(l)'
<1>1. NextAge(l)' = NextAge(l)
    BY DEF NextAge, ToCome
<1>2. Free(l)' = Free(l) /\ NearDeletion(l)' = NearDeletion(l)
    BY DEF Free, NearDeletion, Archived
<1> QED
    BY <1>1, <1>2 DEF Unwarned

(* Likewise for the end of the link's own term.                            *)
LEMMA AnnounceableStays ==
    ASSUME NEW l, Announceable(l), misses' >= misses, UNCHANGED expiry,
           l \notin announced' => l \notin announced,
           misses \in Nat, misses' \in Nat, NoticeDays \in Nat,
           NextLeft(l) \in Int,
           instant'.at = instant.at, item'[l].status = item[l].status, item'[l].by = item[l].by,
           item'[l].left = item[l].left, item'[l].born = item[l].born,
           holder'[item[l].by].mails = holder[item[l].by].mails
    PROVE  Announceable(l)'
<1>1. NextLeft(l)' = NextLeft(l)
    BY DEF NextLeft, ToCome
<1>2. NearExpiry(l)' = NearExpiry(l)
    BY DEF NearExpiry
<1> QED
    BY <1>1, <1>2 DEF Announceable

(* A link that deleteOldFreeLinks deleted was warned of, and one that      *)
(* expired was announced, unless it did not qualify for the mail all the   *)
(* time or as many mornings were lost as there were to send it on.         *)
THEOREM WarnedBeforeGone == RetentionSpec => []GoneWereWarned
<1>0. /\ WarnFrom \in Nat /\ WarnTo \in Nat /\ KeepLeast \in Nat /\ KeepMost \in Nat
      /\ NoticeDays \in Nat /\ MaxMisses \in Nat
      /\ 0 < WarnFrom /\ WarnFrom < WarnTo /\ WarnTo <= KeepLeast /\ KeepLeast <= KeepMost
    BY AgesAssumption DEF AgesAssumption
<1>1. RetentionInit => WarningsInv
    <2> SUFFICES ASSUME RetentionInit PROVE WarningsInv
        OBVIOUS
    <2>1. InPhase
        BY DEF InPhase, RetentionInit
    <2>2. ASSUME NEW l \in Items
          PROVE  /\ item[l].status = "ACTIVE" /\ item[l].age = WarnFrom - 1
                 /\ item[l].left \in {NoticeDays + 1, NoticeDays + 2}
                 /\ holder[item[l].by].mails \/ (l \in excused /\ l \in surprised)
        BY DEF RetentionInit, NoExpiry
    <2>3. misses = 0 /\ deletion.pc = "idle" /\ expiry.pc = "idle"
        BY DEF RetentionInit, Idle
    <2>4. ASSUME NEW l \in Items \ (excused \cup warned) PROVE Unwarned(l)
        <3>1. NextAge(l) <= WarnFrom /\ NextAge(l) \in Int
            BY <1>0, <2>2 DEF NextAge, ToCome
        <3> QED
            BY <1>0, <2>2, <2>3, <3>1 DEF Unwarned
    <2>5. ASSUME NEW l \in Items \ surprised PROVE Announceable(l)
        <3>1. NextLeft(l) >= NoticeDays /\ NextLeft(l) \in Int
            BY <1>0, <2>2 DEF NextLeft, ToCome
        <3> QED
            BY <1>0, <2>2, <2>3, <3>1 DEF Announceable
    <2> QED
        BY <2>1, <2>4, <2>5 DEF WarningsInv
<1>2. RetentionTyped /\ RetentionTyped' /\ WarningsInv /\ [RetentionNext]_retentionVars => WarningsInv'
    <2> SUFFICES ASSUME RetentionTyped, RetentionTyped', WarningsInv, [RetentionNext]_retentionVars
                 PROVE  WarningsInv'
        OBVIOUS
    <2>a. /\ holder \in [Holders -> HolderRow] /\ item \in [Items -> ItemRow]
          /\ instant \in [at: {"night", "morning"}, ran: BOOLEAN]
          /\ deletion \in RunRow /\ expiry \in RunRow
          /\ misses \in Nat /\ misses' \in Nat
          /\ excused \subseteq Items /\ surprised \subseteq Items
          /\ warned \subseteq Items /\ announced \subseteq Items
        BY <1>0 DEF RetentionTyped, RetentionTypeOK, HolderRow, ItemRow
    <2>b. ASSUME NEW l \in Items
          PROVE  /\ item[l] \in ItemRow /\ item[l].by \in Holders
                 /\ item[l].status \in {"ACTIVE", "ARCHIVED", "expired", "DISABLED", "deleted"}
                 /\ item[l].age \in Nat /\ item[l].left \in Int /\ item[l].left >= -1
                 /\ item[l].born \in {"night", "morning"}
                 /\ NextAge(l) \in Int /\ NextLeft(l) \in Int
                 /\ ToCome(l, deletion) \in {0, 1} /\ ToCome(l, expiry) \in {0, 1}
                 /\ item'[l].by \in Holders
        <3>1. item[l] \in ItemRow /\ item'[l] \in ItemRow
            BY <2>a DEF RetentionTyped, RetentionTypeOK, ItemRow
        <3>2. /\ item[l].by \in Holders /\ item'[l].by \in Holders
              /\ item[l].status \in {"ACTIVE", "ARCHIVED", "expired", "DISABLED", "deleted"}
              /\ item[l].age \in Nat /\ item[l].left \in Int /\ item[l].left >= -1
              /\ item[l].born \in {"night", "morning"}
            BY <1>0, <3>1 DEF ItemRow, NoExpiry
        <3> QED
            BY <3>1, <3>2 DEF NextAge, NextLeft, ToCome
    <2>c. /\ instant.at \in {"night", "morning"} /\ InPhase
          /\ \A l \in Items \ (excused \cup warned) : Unwarned(l)
          /\ \A l \in Items \ surprised : Announceable(l)
        BY <2>a DEF WarningsInv
    <2>d. \A l \in Items : l \in Held <=> item[l].status # "deleted"
        BY DEF Held
    <2> DEFINE Goal == WarningsInv'
    <2>e. ASSUME InPhase', \A l \in Items : l \notin excused' /\ l \notin warned' => Unwarned(l)',
                 \A l \in Items : l \notin surprised' => Announceable(l)'
          PROVE  Goal
        BY <2>e DEF WarningsInv
    <2> HIDE DEF Goal
    <2>1. ASSUME NEW u \in Holders, SwitchTier(u) \/ ChangeWish(u) PROVE Goal
        <3>1. /\ UNCHANGED <<item, instant, deletion, expiry, misses, warned, announced>>
              /\ excused' = excused \cup HeldBy(u)
              /\ \A v \in Holders \ {u} : holder'[v] = holder[v]
              /\ holder'[u].mails = holder[u].mails \/ surprised' = surprised \cup HeldBy(u)
              /\ surprised \subseteq surprised'
            <4>1. PICK r \in HolderRow : HolderChanges(u, r)
                <5>1. /\ [holder[u] EXCEPT !.tier = IF @ = "PRO" THEN "FREE" ELSE "PRO"] \in HolderRow
                      /\ [holder[u] EXCEPT !.mails = ~@] \in HolderRow
                    BY <2>a DEF HolderRow
                <5> QED
                    BY <2>1, <5>1 DEF SwitchTier, ChangeWish
            <4>2. holder'[u] = r /\ \A v \in Holders \ {u} : holder'[v] = holder[v]
                BY <2>a, <4>1 DEF HolderChanges
            <4> QED
                BY <4>1, <4>2 DEF HolderChanges, cronRuns
        <3>2. InPhase'
            BY <2>c, <3>1 DEF InPhase
        <3>3. ASSUME NEW l \in Items, l \notin excused', l \notin warned' PROVE Unwarned(l)'
            <4>1. Unwarned(l)
                BY <2>c, <3>1, <3>3
            <4>2. CASE item[l].by = u
                <5>1. item[l].status = "deleted"
                    BY <3>1, <3>3, <4>2 DEF HeldBy, Held
                <5> QED
                    BY <3>1, <4>1, <5>1 DEF Unwarned
            <4>3. CASE item[l].by # u
                BY <1>0, <2>a, <2>b, <3>1, <4>1, <4>3, UnwarnedStays
            <4> QED
                BY <4>2, <4>3
        <3>4. ASSUME NEW l \in Items, l \notin surprised' PROVE Announceable(l)'
            <4>1. Announceable(l)
                BY <2>c, <3>1, <3>4
            <4>2. CASE item[l].by = u /\ holder'[u].mails # holder[u].mails
                <5>1. item[l].status = "deleted"
                    BY <3>1, <3>4, <4>2 DEF HeldBy, Held
                <5> QED
                    BY <3>1, <4>1, <5>1 DEF Announceable
            <4>3. CASE ~(item[l].by = u /\ holder'[u].mails # holder[u].mails)
                <5>1. holder'[item[l].by].mails = holder[item[l].by].mails
                    BY <2>b, <3>1, <4>3
                <5> QED
                    BY <1>0, <2>a, <2>b, <3>1, <4>1, <5>1, AnnounceableStays
            <4> QED
                BY <4>2, <4>3
        <3> QED
            BY <2>e, <3>2, <3>3, <3>4
    <2>2. ASSUME NEW i \in Items, SetArchived(i) PROVE Goal
        <3>1. /\ UNCHANGED <<holder, instant, deletion, expiry, misses, warned, announced>>
              /\ excused' = excused \cup {i} /\ surprised' = surprised \cup {i}
              /\ \A l \in Items \ {i} : item'[l] = item[l]
            BY <2>a, <2>2 DEF SetArchived, ItemChanges, cronRuns
        <3>2. InPhase'
            BY <2>c, <3>1 DEF InPhase
        <3>3. ASSUME NEW l \in Items, l \notin excused', l \notin warned' PROVE Unwarned(l)'
            <4>1. Unwarned(l) /\ item'[l] = item[l]
                BY <2>c, <3>1, <3>3
            <4> QED
                BY <1>0, <2>a, <2>b, <3>1, <4>1, UnwarnedStays
        <3>4. ASSUME NEW l \in Items, l \notin surprised' PROVE Announceable(l)'
            <4>1. Announceable(l) /\ item'[l] = item[l]
                BY <2>c, <3>1, <3>4
            <4> QED
                BY <1>0, <2>a, <2>b, <3>1, <4>1, AnnounceableStays
        <3> QED
            BY <2>e, <3>2, <3>3, <3>4
    <2>3. ASSUME NEW i \in Items, NEW left \in {NoticeDays - 1, NoticeDays + 1, NoExpiry},
                 MoveExpiry(i, left)
          PROVE  Goal
        <3>1. /\ UNCHANGED <<holder, instant, deletion, expiry, misses, warned, excused>>
              /\ surprised \subseteq surprised' /\ (left <= NoticeDays => i \in surprised')
              /\ announced' = announced \ {i} /\ item[i].status = "ACTIVE"
              /\ \A l \in Items \ {i} : item'[l] = item[l]
            BY <2>a, <2>3 DEF MoveExpiry, ItemChanges, cronRuns
        <3>2. /\ item'[i].status = "ACTIVE" /\ item'[i].by = item[i].by /\ item'[i].born = item[i].born
              /\ item'[i].age = item[i].age /\ item'[i].left = left
            BY <2>a, <2>b, <2>3 DEF MoveExpiry, ItemChanges, ItemRow
        <3>3. InPhase'
            BY <2>c, <3>1 DEF InPhase
        <3>4. ASSUME NEW l \in Items, l \notin excused', l \notin warned' PROVE Unwarned(l)'
            <4>1. Unwarned(l)
                BY <2>c, <3>1, <3>4
            <4>2. /\ item'[l].status = item[l].status /\ item'[l].by = item[l].by
                  /\ item'[l].age = item[l].age /\ item'[l].born = item[l].born
                BY <3>1, <3>2
            <4> QED
                BY <1>0, <2>a, <2>b, <3>1, <4>1, <4>2, UnwarnedStays
        <3>5. ASSUME NEW l \in Items, l \notin surprised' PROVE Announceable(l)'
            <4>1. CASE l # i
                <5>1. Announceable(l) /\ item'[l] = item[l] /\ (l \notin announced' => l \notin announced)
                    BY <2>c, <3>1, <3>5, <4>1
                <5> QED
                    BY <1>0, <2>a, <2>b, <3>1, <5>1, AnnounceableStays
            <4>2. CASE l = i
                <5>1. left \in Int /\ left > NoticeDays
                    BY <1>0, <3>1, <3>5, <4>2 DEF NoExpiry
                <5>2. NextLeft(l)' >= NoticeDays /\ NextLeft(l)' \in Int
                    BY <1>0, <3>2, <4>2, <5>1 DEF NextLeft, ToCome
                <5>3. ~NearExpiry(l)'
                    BY <1>0, <3>2, <4>2, <5>1 DEF NearExpiry
                <5>4. holder'[item'[l].by].mails
                    BY <2>c, <3>1, <3>2, <3>5, <4>2 DEF Announceable
                <5> QED
                    BY <1>0, <2>a, <3>2, <4>2, <5>2, <5>3, <5>4 DEF Announceable
            <4> QED
                BY <4>1, <4>2
        <3> QED
            BY <2>e, <3>3, <3>4, <3>5
    <2>4. ASSUME TimePasses PROVE Goal
        <3>1. PICK at \in {"night", "morning"} :
                 /\ instant.at \in {"night", "morning"} /\ instant.at # at /\ instant'.at = at
                 /\ instant'.ran = FALSE
                 /\ item' = [l \in Items |-> Older(l, at)]
            BY <2>c, <2>4 DEF TimePasses
        <3>2. /\ deletion' = Idle /\ expiry' = Idle
              /\ UNCHANGED <<holder, misses, excused, surprised, warned, announced>>
              /\ instant.ran /\ deletion.pc # "publish" /\ expiry.pc # "publish"
            BY <2>4 DEF TimePasses, retentionObserved, Resting
        <3>3. InPhase'
            BY <3>1, <3>2 DEF InPhase
        <3>4. instant.at = "morning" => deletion = Done /\ expiry = Done
            BY <2>c, <3>2 DEF InPhase
        <3>5. deletion'.pc = "idle" /\ expiry'.pc = "idle" /\ deletion' # Done /\ expiry' # Done
            BY <3>2 DEF Idle, Done
        <3>6. ASSUME NEW l \in Items
              PROVE  /\ item'[l].status = item[l].status /\ item'[l].by = item[l].by
                     /\ item'[l].born = item[l].born
                     /\ item[l].status # "deleted" =>
                          /\ item'[l].age = IF item[l].born # at THEN item[l].age
                                ELSE IF item[l].age > KeepMost THEN item[l].age ELSE item[l].age + 1
                          /\ item'[l].left = IF item[l].born # at THEN item[l].left
                                ELSE IF item[l].left \in {NoExpiry, -1} THEN item[l].left
                                     ELSE item[l].left - 1
            BY <2>b, <2>d, <3>1, OlderFields
        <3>7. ASSUME NEW l \in Items, l \notin excused', l \notin warned' PROVE Unwarned(l)'
            <4>1. Unwarned(l) /\ Free(l)' = Free(l)
                BY <2>c, <3>2, <3>6, <3>7 DEF Free
            <4>2. ASSUME item[l].status # "deleted"
                  PROVE  /\ NextAge(l)' \in Int
                         /\ NextAge(l)' = NextAge(l) \/ (NextAge(l) > WarnTo /\ NextAge(l)' >= WarnTo)
                BY <1>0, <2>b, <3>1, <3>4, <3>5, <3>6, <4>2 DEF NextAge, ToCome
            <4> QED
                BY <1>0, <2>a, <2>b, <3>2, <3>5, <3>6, <4>1, <4>2 DEF Unwarned
        <3>8. ASSUME NEW l \in Items, l \notin surprised' PROVE Announceable(l)'
            <4>1. Announceable(l)
                BY <2>c, <3>2, <3>8
            <4>2. ASSUME item[l].status # "deleted"
                  PROVE  /\ NextLeft(l)' \in Int
                         /\ \/ NextLeft(l)' = NextLeft(l)
                            \/ NextLeft(l)' <= -1 /\ NextLeft(l) <= -1
                            \/ NextLeft(l)' > NoticeDays
                BY <1>0, <2>b, <3>1, <3>4, <3>5, <3>6, <4>2 DEF NextLeft, ToCome, NoExpiry
            <4> QED
                BY <1>0, <2>a, <2>b, <3>2, <3>5, <3>6, <4>1, <4>2 DEF Announceable
        <3> QED
            BY <2>e, <3>3, <3>7, <3>8
    <2>5. ASSUME \/ MissNight \/ \E months \in KeepLeast .. KeepMost : DeleteOldFreeLinks(months)
          PROVE  Goal
        <3>1. PICK gone : /\ NightPasses(gone)
                          /\ \A l \in gone : l \in Held /\ Free(l) /\ item[l].age >= WarnTo
            <4>1. CASE MissNight
                BY <4>1 DEF MissNight
            <4>2. ASSUME NEW months \in KeepLeast .. KeepMost, DeleteOldFreeLinks(months)
                  PROVE  \E gone : /\ NightPasses(gone)
                                  /\ \A l \in gone : l \in Held /\ Free(l) /\ item[l].age >= WarnTo
                <5>1. \A l \in Held : item[l].age >= months => item[l].age >= WarnTo
                    BY <1>0, <2>b DEF Held
                <5> QED
                    BY <4>2, <5>1 DEF DeleteOldFreeLinks
            <4> QED
                BY <2>5, <4>1, <4>2
        <3>2. /\ UNCHANGED <<holder, deletion, expiry, misses, excused, surprised, warned, announced>>
              /\ instant.at = "night" /\ instant'.at = "night"
            BY <3>1 DEF NightPasses, cronRuns, retentionObserved
        <3>3. InPhase'
            BY <2>c, <3>2 DEF InPhase
        <3>4. ASSUME NEW l \in Items
              PROVE  /\ l \notin gone => item'[l] = item[l]
                     /\ l \in gone => item'[l].status = "deleted"
            BY <2>a, <2>b, <3>1 DEF NightPasses, ItemRow
        <3>5. ASSUME NEW l \in Items, l \notin excused', l \notin warned' PROVE Unwarned(l)'
            <4>1. Unwarned(l)
                BY <2>c, <3>2, <3>5
            <4>2. CASE l \in gone
                <5>1. item[l].status # "deleted" /\ Free(l) /\ NextAge(l) >= WarnTo
                    BY <1>0, <2>b, <2>d, <3>1, <4>2 DEF NextAge
                <5> QED
                    BY <3>2, <3>4, <4>1, <4>2, <5>1 DEF Unwarned
            <4>3. CASE l \notin gone
                BY <1>0, <2>a, <2>b, <3>2, <3>4, <4>1, <4>3, UnwarnedStays
            <4> QED
                BY <4>2, <4>3
        <3>6. ASSUME NEW l \in Items, l \notin surprised' PROVE Announceable(l)'
            <4>1. Announceable(l)
                BY <2>c, <3>2, <3>6
            <4>2. CASE l \in gone
                BY <3>4, <4>2 DEF Announceable
            <4>3. CASE l \notin gone
                BY <1>0, <2>a, <2>b, <3>2, <3>4, <4>1, <4>3, AnnounceableStays
            <4> QED
                BY <4>2, <4>3
        <3> QED
            BY <2>e, <3>3, <3>5, <3>6
    <2>6. ASSUME DisableExpired PROVE Goal
        <3>1. PICK due : /\ due = {l \in Held : item[l].left < 0 /\ item[l].status = "ACTIVE"}
                         /\ excused' = excused \cup due
                         /\ item' = [l \in Items |-> IF l \in due THEN [item[l] EXCEPT !.status = "expired"]
                                                    ELSE item[l]]
            BY <2>6 DEF DisableExpired
        <3>2. UNCHANGED <<holder, instant, deletion, expiry, misses, surprised, warned, announced>>
            BY <2>6 DEF DisableExpired, cronRuns
        <3>3. InPhase'
            BY <2>c, <3>2 DEF InPhase
        <3>4. ASSUME NEW l \in Items
              PROVE  /\ l \notin due => item'[l] = item[l]
                     /\ l \in due => item'[l].status = "expired"
            BY <2>a, <2>b, <3>1 DEF ItemRow
        <3>5. ASSUME NEW l \in Items, l \notin excused', l \notin warned' PROVE Unwarned(l)'
            <4>1. Unwarned(l) /\ item'[l] = item[l]
                BY <2>c, <3>1, <3>2, <3>4, <3>5
            <4> QED
                BY <1>0, <2>a, <2>b, <3>2, <4>1, UnwarnedStays
        <3>6. ASSUME NEW l \in Items, l \notin surprised' PROVE Announceable(l)'
            <4>1. Announceable(l)
                BY <2>c, <3>2, <3>6
            <4>2. CASE l \in due
                <5>1. item[l].status = "ACTIVE" /\ NextLeft(l) <= -1
                    BY <2>b, <3>1, <4>2 DEF NextLeft
                <5> QED
                    BY <3>2, <3>4, <4>1, <4>2, <5>1 DEF Announceable
            <4>3. CASE l \notin due
                BY <1>0, <2>a, <2>b, <3>2, <3>4, <4>1, <4>3, AnnounceableStays
            <4> QED
                BY <4>2, <4>3
        <3> QED
            BY <2>e, <3>3, <3>5, <3>6
    <2>7. ASSUME FindLinksToWarn \/ WarningFails \/ \E u \in Holders : WarnHolder(u) PROVE Goal
        <3>1. /\ UNCHANGED <<holder, item, instant, expiry, excused, surprised, announced>>
              /\ instant.at = "morning"
            BY <2>7 DEF FindLinksToWarn, WarningFails, WarnHolder, Morning, itemTable, retentionObserved
        <3>2. /\ deletion # Done /\ warned \subseteq warned'
              /\ misses' = misses \/ (misses' = misses + 1 /\ deletion' = Done)
            BY <2>7, RunEnds DEF FindLinksToWarn, WarningFails, WarnHolder, Fails, retentionObserved
        <3>3. ASSUME NEW l \in Items, l \notin excused', l \notin warned', item[l].status # "deleted",
                     NearDeletion(l), holder[item[l].by].mails, deletion.pc = "publish" => l \in deletion.left
              PROVE  \/ deletion' = Done /\ misses' = misses + 1
                     \/ deletion'.pc = "publish" /\ l \in deletion'.left /\ deletion' # Done
            <4>1. CASE FindLinksToWarn
                <5>1. PICK links : /\ links = Mailable({i \in Held : NearDeletion(i)}) /\ deletion' = RunOf(links)
                    BY <4>1 DEF FindLinksToWarn
                <5>2. l \in links
                    BY <3>3, <5>1 DEF Mailable, Held
                <5> QED
                    BY <5>1, <5>2, RunEnds
            <4>2. CASE WarningFails
                BY <4>2 DEF WarningFails, Fails
            <4>3. ASSUME NEW u \in Holders, WarnHolder(u)
                  PROVE  deletion'.pc = "publish" /\ l \in deletion'.left /\ deletion' # Done
                <5>1. PICK his : /\ his = {i \in deletion.left : item[i].by = u}
                                 /\ deletion' = RunOf(deletion.left \ his) /\ warned' = warned \cup his
                                 /\ deletion.pc = "publish"
                    BY <4>3 DEF WarnHolder
                <5>2. l \in deletion.left \ his
                    BY <3>3, <5>1
                <5> QED
                    BY <5>1, <5>2, RunEnds
            <4> QED
                BY <2>7, <4>1, <4>2, <4>3
        <3>4. deletion' = Done \/ (deletion'.pc = "publish" /\ deletion' # Done)
            BY <2>7, RunEnds DEF FindLinksToWarn, WarningFails, WarnHolder
        <3>5. InPhase'
            BY <2>c, <3>1, <3>2 DEF InPhase
        <3>6. ASSUME NEW l \in Items, l \notin surprised' PROVE Announceable(l)'
            <4>1. Announceable(l)
                BY <2>c, <3>1, <3>6
            <4> QED
                BY <1>0, <2>a, <2>b, <3>1, <3>2, <4>1, AnnounceableStays
        <3>7. ASSUME NEW l \in Items, l \notin excused', l \notin warned' PROVE Unwarned(l)'
            <4>1. Unwarned(l) /\ Free(l)' = Free(l) /\ NearDeletion(l)' = NearDeletion(l)
                BY <2>c, <3>1, <3>2, <3>7 DEF Free, NearDeletion, Archived
            <4>2. NextAge(l) = item[l].age /\ NextAge(l)' = IF deletion' = Done THEN item[l].age + 1 ELSE item[l].age
                BY <2>b, <3>1, <3>2 DEF NextAge, ToCome
            <4>3. CASE deletion' = Done
                <5>1. item[l].status = "ACTIVE" /\ Free(l) => (NearDeletion(l) <=> WarnFrom <= item[l].age /\ item[l].age < WarnTo)
                    BY <1>0, <2>b DEF NearDeletion, Archived
                <5>2. item[l].status \notin {"deleted"} /\ Free(l) /\ NearDeletion(l) => misses' = misses + 1
                    BY <3>2, <3>3, <3>7, <4>1, <4>3, RunEnds DEF Unwarned
                <5>3. deletion'.pc # "publish"
                    BY <4>3, RunEnds
                <5> QED
                    BY <1>0, <2>a, <2>b, <3>1, <3>2, <4>1, <4>2, <4>3, <5>1, <5>2, <5>3 DEF Unwarned
            <4>4. CASE deletion' # Done
                <5>1. misses' = misses /\ NextAge(l)' = NextAge(l)
                    BY <3>2, <4>2, <4>4
                <5>2. item[l].status \notin {"deleted"} /\ Free(l) /\ NearDeletion(l) => l \in deletion'.left
                    BY <3>2, <3>3, <3>7, <4>1, <4>4 DEF Unwarned
                <5> QED
                    BY <3>1, <3>2, <4>1, <5>1, <5>2 DEF Unwarned
            <4> QED
                BY <4>3, <4>4
        <3> QED
            BY <2>e, <3>5, <3>6, <3>7
    <2>8. ASSUME FindExpiringLinks \/ AnnouncementFails \/ \E u \in Holders : AnnounceTo(u) PROVE Goal
        <3>1. /\ UNCHANGED <<holder, item, instant, deletion, excused, surprised, warned>>
              /\ instant.at = "morning"
            BY <2>8 DEF FindExpiringLinks, AnnouncementFails, AnnounceTo, Morning, itemTable, retentionObserved
        <3>2. /\ expiry # Done /\ announced \subseteq announced'
              /\ misses' = misses \/ (misses' = misses + 1 /\ expiry' = Done)
            BY <2>8, RunEnds DEF FindExpiringLinks, AnnouncementFails, AnnounceTo, Fails, retentionObserved
        <3>3. ASSUME NEW l \in Items, l \notin surprised', l \notin announced', item[l].status # "deleted",
                     NearExpiry(l), holder[item[l].by].mails, expiry.pc = "publish" => l \in expiry.left
              PROVE  \/ expiry' = Done /\ misses' = misses + 1
                     \/ expiry'.pc = "publish" /\ l \in expiry'.left /\ expiry' # Done
            <4>1. CASE FindExpiringLinks
                <5>1. PICK links : /\ links = Mailable({i \in Held : NearExpiry(i)}) /\ expiry' = RunOf(links)
                    BY <4>1 DEF FindExpiringLinks
                <5>2. l \in links
                    BY <3>3, <5>1 DEF Mailable, Held
                <5> QED
                    BY <5>1, <5>2, RunEnds
            <4>2. CASE AnnouncementFails
                BY <4>2 DEF AnnouncementFails, Fails
            <4>3. ASSUME NEW u \in Holders, AnnounceTo(u)
                  PROVE  expiry'.pc = "publish" /\ l \in expiry'.left /\ expiry' # Done
                <5>1. PICK his : /\ his = {i \in expiry.left : item[i].by = u}
                                 /\ expiry' = RunOf(expiry.left \ his) /\ announced' = announced \cup his
                                 /\ expiry.pc = "publish"
                    BY <4>3 DEF AnnounceTo
                <5>2. l \in expiry.left \ his
                    BY <3>3, <5>1
                <5> QED
                    BY <5>1, <5>2, RunEnds
            <4> QED
                BY <2>8, <4>1, <4>2, <4>3
        <3>4. expiry' = Done \/ (expiry'.pc = "publish" /\ expiry' # Done)
            BY <2>8, RunEnds DEF FindExpiringLinks, AnnouncementFails, AnnounceTo
        <3>5. InPhase'
            BY <2>c, <3>1, <3>2 DEF InPhase
        <3>6. ASSUME NEW l \in Items, l \notin excused', l \notin warned' PROVE Unwarned(l)'
            <4>1. Unwarned(l)
                BY <2>c, <3>1, <3>6
            <4> QED
                BY <1>0, <2>a, <2>b, <3>1, <3>2, <4>1, UnwarnedStays
        <3>7. ASSUME NEW l \in Items, l \notin surprised' PROVE Announceable(l)'
            <4>1. Announceable(l) /\ Free(l)' = Free(l) /\ NearExpiry(l)' = NearExpiry(l)
                BY <2>c, <3>1, <3>2, <3>7 DEF Free, NearExpiry, Archived
            <4>2. NextLeft(l) = item[l].left /\ NextLeft(l)' = IF expiry' = Done THEN item[l].left - 1 ELSE item[l].left
                BY <2>b, <3>1, <3>2 DEF NextLeft, ToCome
            <4>3. CASE expiry' = Done
                <5>1. item[l].status = "ACTIVE" => (NearExpiry(l) <=> 0 <= item[l].left /\ item[l].left < NoticeDays)
                    BY <1>0, <2>b DEF NearExpiry, Archived
                <5>2. item[l].status \notin {"expired", "deleted"} /\ NearExpiry(l) /\ l \notin announced' => misses' = misses + 1
                    BY <3>2, <3>3, <3>7, <4>1, <4>3, RunEnds DEF Announceable
                <5>3. expiry'.pc # "publish"
                    BY <4>3, RunEnds
                <5> QED
                    BY <1>0, <2>a, <2>b, <3>1, <3>2, <4>1, <4>2, <4>3, <5>1, <5>2, <5>3 DEF Announceable
            <4>4. CASE expiry' # Done
                <5>1. misses' = misses /\ NextLeft(l)' = NextLeft(l)
                    BY <3>2, <4>2, <4>4
                <5>2. item[l].status \notin {"expired", "deleted"} /\ NearExpiry(l) /\ l \notin announced' => l \in expiry'.left
                    BY <3>2, <3>3, <3>7, <4>1, <4>4 DEF Announceable
                <5> QED
                    BY <3>1, <3>2, <4>1, <5>1, <5>2 DEF Announceable
            <4> QED
                BY <4>3, <4>4
        <3> QED
            BY <2>e, <3>5, <3>6, <3>7
    <2>9. ASSUME MorningEnds \/ MonthlyReport \/ UNCHANGED retentionVars PROVE Goal
        <3>1. /\ UNCHANGED <<holder, item, deletion, expiry, misses, excused, surprised, warned, announced>>
              /\ instant'.at = instant.at
            BY <2>9, <2>a
            DEF MonthlyReport, ListProUsers, ListFreeUsers, ReportEnds, SendReport, ReportFails,
               ReportsTo, retentionObserved, ReportGoes, itemTable, MorningEnds, retentionVars, cronRuns
        <3>2. InPhase'
            BY <2>c, <2>9, <3>1
            DEF InPhase, MonthlyReport, ListProUsers, ListFreeUsers, ReportEnds, SendReport, ReportFails,
               ReportsTo, ReportGoes, MorningEnds, retentionVars
        <3>3. ASSUME NEW l \in Items, l \notin excused', l \notin warned' PROVE Unwarned(l)'
            <4>1. Unwarned(l)
                BY <2>c, <3>1, <3>3
            <4> QED
                BY <1>0, <2>a, <2>b, <3>1, <4>1, UnwarnedStays
        <3>4. ASSUME NEW l \in Items, l \notin surprised' PROVE Announceable(l)'
            <4>1. Announceable(l)
                BY <2>c, <3>1, <3>4
            <4> QED
                BY <1>0, <2>a, <2>b, <3>1, <4>1, AnnounceableStays
        <3> QED
            BY <2>e, <3>2, <3>3, <3>4
    <2>10. Goal
        BY <2>1, <2>2, <2>3, <2>4, <2>5, <2>6, <2>7, <2>8, <2>9
        DEF RetentionNext, MorningJobs, Keeping, HolderActs
    <2> QED
        BY <2>10 DEF Goal
<1>3. RetentionTyped /\ WarningsInv => GoneWereWarned
    <2> SUFFICES ASSUME RetentionTyped, WarningsInv, NEW l \in Items
                 PROVE  /\ item[l].status = "deleted" /\ misses < WarnTo - WarnFrom => l \in warned \cup excused
                        /\ item[l].status = "expired" /\ misses < NoticeDays => l \in announced \cup surprised
        BY DEF GoneWereWarned
    <2>1. misses \in Nat
        BY <1>0 DEF RetentionTyped, RetentionTypeOK
    <2> QED
        BY <1>0, <2>1 DEF WarningsInv, Unwarned, Announceable
<1> QED
    BY <1>1, <1>2, <1>3, RetentionHasTypes, PTL DEF RetentionSpec

-----------------------------------------------------------------------------
(***************************************************************************)
(* WHAT IS MODEL-CHECKED                                                   *)
(***************************************************************************)

(* The user and the link the reports are about are there, and a day ends.  *)
RecordsFit == x1 \in Viewers /\ p1 \in Posts /\ LastDay > 0

(* What MCLinkRecords explores are behaviours of each of the three.        *)
LEMMA RecordsImplement ==
    ASSUME RecordsFit
    PROVE  RecordsSpec => Spec /\ AnalyticsSpec /\ RetentionSpec
<1>1. AnalyticsStep => AnalyticsNext
    <2> SUFFICES ASSUME AnalyticsStep PROVE AnalyticsNext
        OBVIOUS
    <2>1. {Always, Between(0, 0), Between(1, LastDay)} \subseteq Periods
        <3>1. 0 \in 0 .. LastDay /\ 1 \in 0 .. LastDay /\ LastDay \in 0 .. LastDay
            BY AnalyticsNumbers DEF RecordsFit
        <3>2. QED
            BY <3>1 DEF Periods
    <2>2. ASSUME NEW p \in Periods,
                 GetAnalyticsSummary(x1, p1, p) \/ GetLinkAnalytics(x1, p1, p)
                     \/ GetGlobalAnalytics(x1, p)
          PROVE  Reporting
        BY <2>2 DEF RecordsFit, Reporting
    <2>3. ASSUME NEW m \in 2 .. Len(Months), GetUserMonthlyAnalytics(x1, m) PROVE Reporting
        BY <2>3 DEF RecordsFit, Reporting
    <2>4. QED
        BY <2>1, <2>2, <2>3 DEF AnalyticsStep, AnalyticsNext, Reporting
<1>2. DeletionStep \/ ExpiryStep \/ MonthlyReport \/ HolderActs => RetentionNext
    BY DEF DeletionStep, ExpiryStep, RetentionNext, Keeping
<1>3. [RecordsNext]_recordVars =>
          [Next]_vars /\ [AnalyticsNext]_analyticsVars /\ [RetentionNext]_retentionVars
    BY <1>1, <1>2 DEF RecordsNext, recordVars
<1>4. RecordsInit => Init /\ AnalyticsInit /\ RetentionInit
    BY DEF RecordsInit, SmallInit
<1>5. QED
    BY <1>3, <1>4, PTL DEF RecordsSpec, Spec, AnalyticsSpec, RetentionSpec

(* Every variable of their composition keeps its type.                     *)
THEOREM RecordsTypeCorrect ==
    ASSUME RecordsFit
    PROVE  RecordsSpec => []RecordsTypeOK
<1>1. TypeOK /\ AnalyticsTypeOK /\ RetentionTypeOK => RecordsTypeOK
    BY DEF RecordsTypeOK
<1>2. QED
    BY <1>1, RecordsImplement, TrackingTypeCorrect, AnalyticsTypeCorrect, RetentionTypeCorrect, PTL
=============================================================================
