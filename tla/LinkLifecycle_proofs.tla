------------------------ MODULE LinkLifecycle_proofs ------------------------
(***************************************************************************)
(* Type correctness of LinkLifecycle, and that it implements VisitGate,    *)
(* for every set of requests, handlers, inputs and bounds.                 *)
(***************************************************************************)
EXTENDS LinkLifecycle, FiniteSetTheorems, TLAPS

-----------------------------------------------------------------------------
(* Lemmas about the operators                                              *)

LEMMA GivenType ==
    ASSUME NEW d, NEW f, NEW S, NEW x \in S, f \in DOMAIN d => d[f] \in S
    PROVE  Given(d, f, x) \in S
BY DEF Given

(* A row made of well-typed columns is a row.                              *)
LEMMA RowOf ==
    ASSUME NEW s \in Status, NEW a \in BOOLEAN, NEW g \in BOOLEAN,
           NEW t \in Dates, NEW e \in Dates, NEW l \in Limits, NEW c \in Nat,
           NEW o \in BOOLEAN
    PROVE  [status |-> s, isArchived |-> a, isGuest |-> g, scheduledAt |-> t,
            expiresAt |-> e, clickLimit |-> l, clickCount |-> c, isOneTime |-> o] \in Row
BY DEF Row

LEMMA RowFields ==
    ASSUME row \in Row
    PROVE  /\ row.status \in Status /\ row.isArchived \in BOOLEAN
           /\ row.isGuest \in BOOLEAN /\ row.scheduledAt \in Dates
           /\ row.expiresAt \in Dates /\ row.clickLimit \in Limits
           /\ row.clickCount \in Nat /\ row.isOneTime \in BOOLEAN
BY DEF Row

(* What a patch writes in each column has the type of the column.          *)
LEMMA PatchFields ==
    ASSUME NEW p \in Patch
    PROVE  /\ "status" \in DOMAIN p => p["status"] \in Status
           /\ "isArchived" \in DOMAIN p => p["isArchived"] \in BOOLEAN
           /\ "scheduledAt" \in DOMAIN p => p["scheduledAt"] \in Dates
           /\ "expiresAt" \in DOMAIN p => p["expiresAt"] \in Dates
           /\ "clickLimit" \in DOMAIN p => p["clickLimit"] \in Limits \cup {Unset}
           /\ "isOneTime" \in DOMAIN p => p["isOneTime"] \in BOOLEAN
<1>1. CASE p = NoWrite
    BY <1>1 DEF NoWrite
<1>2. CASE p \in [op: {"archive", "unarchive"}, status: Status, isArchived: BOOLEAN]
    BY <1>2
<1>3. CASE p \in [op: {"unblock"}, status: Status]
    BY <1>3
<1>4. CASE p \in [op: {"update"}, scheduledAt: Dates, expiresAt: Dates, isOneTime: BOOLEAN,
                  isArchived: BOOLEAN, status: Status, clickLimit: Limits \cup {Unset}]
    BY <1>4
<1>5. CASE p \in AdminEdits
    BY <1>5, AdminEditsAssumption DEF Dates
<1>6. QED
    BY <1>1, <1>2, <1>3, <1>4, <1>5 DEF Patch

(* A write keeps the row a row, and the count and the kind of link.        *)
LEMMA MergeRow ==
    ASSUME row \in Row, NEW p \in Patch
    PROVE  Merge(p) \in Row /\ Merge(p).clickCount = row.clickCount
<1> DEFINE limit == IF Given(p, "clickLimit", Unset) = Unset
                    THEN row.clickLimit ELSE p["clickLimit"]
<1>1. /\ Given(p, "status", row.status) \in Status
      /\ Given(p, "isArchived", row.isArchived) \in BOOLEAN
      /\ Given(p, "scheduledAt", row.scheduledAt) \in Dates
      /\ Given(p, "expiresAt", row.expiresAt) \in Dates
      /\ Given(p, "isOneTime", row.isOneTime) \in BOOLEAN
    BY PatchFields, RowFields, GivenType
<1>2. limit \in Limits
    BY PatchFields, RowFields DEF Given
<1>3. QED
    BY <1>1, <1>2, RowFields, RowOf DEF Merge

(* Single columns.                                                         *)
LEMMA RowUpdates ==
    ASSUME row \in Row
    PROVE  /\ \A s \in Status : [row EXCEPT !.status = s] \in Row
           /\ [row EXCEPT !.status = "DISABLED", !.isArchived = TRUE] \in Row
           /\ [row EXCEPT !.clickCount = @ + 1] \in Row
           /\ \A t \in Times : [row EXCEPT !.isGuest = TRUE, !.expiresAt = t] \in Row
<1>1. \A s \in Status : [row EXCEPT !.status = s] \in Row
    BY DEF Row
<1>2. [row EXCEPT !.status = "DISABLED", !.isArchived = TRUE] \in Row
    BY DEF Row, Status
<1>3. [row EXCEPT !.clickCount = @ + 1] \in Row
    BY DEF Row
<1>4. \A t \in Times : [row EXCEPT !.isGuest = TRUE, !.expiresAt = t] \in Row
    BY DEF Row, Dates
<1>5. QED
    BY <1>1, <1>2, <1>3, <1>4

LEMMA GotoType ==
    ASSUME req \in [Requests -> ReqState], NEW r \in Requests, NEW s \in ReqState, Goto(r, s)
    PROVE  req' \in [Requests -> ReqState]
BY DEF Goto

LEMMA ReqStates ==
    /\ Idle \in ReqState
    /\ \A p \in {"idle", "disabling", "admitted", "deleting", "counting"} : At(p) \in ReqState
    /\ \A n \in {"idle", "disabling", "admitted"} :
          [pc |-> "activating", next |-> n] \in ReqState
    /\ \A s \in ReqState : s.next \in {"idle", "disabling", "admitted"}
    /\ AfterSchedule \in {"idle", "disabling", "admitted"}
<1>1. /\ Idle \in ReqState
      /\ \A p \in {"idle", "disabling", "admitted", "deleting", "counting"} : At(p) \in ReqState
    BY DEF Idle, At, ReqState
<1>2. \A n \in {"idle", "disabling", "admitted"} : [pc |-> "activating", next |-> n] \in ReqState
    BY DEF ReqState
<1>3. \A s \in ReqState : s.next \in {"idle", "disabling", "admitted"}
    BY DEF ReqState
<1>4. AfterSchedule \in {"idle", "disabling", "admitted"}
    BY DEF AfterSchedule
<1>5. QED
    BY <1>1, <1>2, <1>3, <1>4

-----------------------------------------------------------------------------
(* Type correctness                                                        *)

(* What any step leaves in the variables it may change.                    *)
Typed ==
    /\ now' \in Nat \ {0}
    /\ life' \in {"none", "live", "gone"}
    /\ row' \in Row
    /\ req' \in [Requests -> ReqState]
    /\ pending' \in [Handlers -> Patch]
    /\ serves' \in {serves, serves + 1}
    /\ lost' \in Nat
    /\ moderated' \in BOOLEAN

LEMMA StepTypes ==
    ASSUME TypeOK, Step
    PROVE  Typed
<1> USE DEF TypeOK, Typed
<1>1. ASSUME NEW dto \in Drafts, CreateLink(dto) PROVE Typed
    <2>1. dto \in [scheduledAt: Dates, expiresAt: Dates, clickLimit: Limits, isOneTime: BOOLEAN]
        BY DraftsAssumption
    <2>2. MaxTime + 1 \in Dates
        BY BoundsAssumption DEF Dates, Times
    <2>3. row' \in Row
        BY <1>1, <2>1, <2>2 DEF CreateLink, Row, Status
    <2>4. QED
        BY <1>1, <2>3 DEF CreateLink
<1>2. ASSUME NEW t \in Times, CreateGuestLink(t) PROVE Typed
    BY <1>2, RowUpdates DEF CreateGuestLink
<1>3. ASSUME NEW r \in Requests, Lookup(r) PROVE Typed
    <2>1. req' \in [Requests -> ReqState]
        BY <1>3, ReqStates, GotoType DEF Lookup
    <2>2. QED
        BY <1>3, <2>1 DEF Lookup
<1>4. ASSUME NEW r \in Requests, Activate(r) PROVE Typed
    <2>1. req' \in [Requests -> ReqState]
        BY <1>4, ReqStates, GotoType DEF Activate
    <2>2. row' \in Row
        BY <1>4, RowUpdates DEF Activate, Status
    <2>3. QED
        BY <1>4, <2>1, <2>2 DEF Activate
<1>5. ASSUME NEW r \in Requests, Disable(r) PROVE Typed
    <2>1. req' \in [Requests -> ReqState]
        BY <1>5, ReqStates, GotoType DEF Disable
    <2>2. QED
        BY <1>5, <2>1, RowUpdates DEF Disable
<1>6. ASSUME NEW r \in Requests,
             AskPassword(r) \/ ReadForCount(r) \/ DeleteOneTime(r) \/ Increment(r) \/ CountFails(r)
      PROVE  Typed
    <2>1. req' \in [Requests -> ReqState]
        BY <1>6, ReqStates, GotoType
        DEF AskPassword, ReadForCount, DeleteOneTime, Increment, CountFails
    <2>2. row' \in Row
        BY <1>6, RowUpdates DEF AskPassword, ReadForCount, DeleteOneTime, Increment, CountFails
    <2>3. QED
        BY <1>6, <2>1, <2>2
        DEF AskPassword, ReadForCount, DeleteOneTime, Increment, CountFails
<1>7. ASSUME NEW h \in Handlers, NEW data \in Patch, Begin(h, data) PROVE Typed
    BY <1>7 DEF Begin
<1>8. ASSUME NEW h \in Handlers, Handle(h), ~Commit(h)
      PROVE  \E data \in Patch : Begin(h, data)
    <2>1. ASSUME NEW dto \in Updates, UpdateLink(h, dto)
          PROVE  \E data \in Patch : Begin(h, data)
        <3>1. /\ Given(dto, "scheduledAt", row.scheduledAt) \in Dates
              /\ Given(dto, "expiresAt", row.expiresAt) \in Dates
              /\ Given(dto, "clickLimit", Unset) \in Limits \cup {Unset}
              /\ Given(dto, "isOneTime", row.isOneTime) \in BOOLEAN
              /\ Given(dto, "isArchived", row.isArchived) \in BOOLEAN
            BY UpdatesAssumption, RowFields, GivenType
        <3>2. row.status \in Status /\ "SCHEDULED" \in Status /\ "ARCHIVED" \in Status
            BY RowFields DEF Status
        <3>3. QED
            BY <2>1, <3>1, <3>2 DEF UpdateLink, Patch
    <2>2. ASSUME NEW dto \in AdminEdits, EditLink(h, dto)
          PROVE  \E data \in Patch : Begin(h, data)
        BY <2>2 DEF EditLink, Patch
    <2>3. RestoredStatus \in Status
        BY DEF RestoredStatus, Status
    <2>4. CASE ArchiveLink(h)
        BY <2>4 DEF ArchiveLink, Patch, Status
    <2>5. CASE UnarchiveLink(h)
        BY <2>3, <2>5 DEF UnarchiveLink, Patch
    <2>6. CASE UnblockLink(h)
        BY <2>3, <2>6 DEF UnblockLink, Patch, Status
    <2>7. QED
        BY <1>8, <2>1, <2>2, <2>4, <2>5, <2>6 DEF Handle
<1>9. ASSUME NEW h \in Handlers, Commit(h) PROVE Typed
    <2>1. row' \in Row
        BY <1>9, MergeRow DEF Commit
    <2>2. pending' \in [Handlers -> Patch]
        BY <1>9 DEF Commit, Patch
    <2>3. moderated' \in BOOLEAN
        BY Zenon, <1>9 DEF Commit
    <2>4. QED
        BY <1>9, <2>1, <2>2, <2>3 DEF Commit
<1>10. CASE BlockLink \/ DeleteLink
    <2>1. row' \in Row
        BY <1>10, RowUpdates DEF BlockLink, DeleteLink, Status
    <2>2. QED
        BY <1>10, <2>1 DEF BlockLink, DeleteLink
<1>11. CASE Cron
    <2>1. row' \in Row
        BY <1>11, RowUpdates DEF Cron, ActivateScheduledLinks, DisableExpiredLinks,
           DeleteExpiredGuestLinks, DeleteOldFreeLinks, Status
    <2>2. QED
        BY <1>11, <2>1 DEF Cron, ActivateScheduledLinks, DisableExpiredLinks,
           DeleteExpiredGuestLinks, DeleteOldFreeLinks
<1>12. CASE Tick
    BY <1>12 DEF Tick
<1>13. CASE Restart
    BY <1>13, ReqStates DEF Restart, Patch
<1>14. QED
    BY <1>1, <1>2, <1>3, <1>4, <1>5, <1>6, <1>7, <1>8, <1>9, <1>10, <1>11, <1>12, <1>13
    DEF Step, Create, Visit, Handle

(* Every variable keeps its type, in particular: a write computed from an  *)
(* old row is still a write the row can take.                              *)
THEOREM TypeCorrect == Spec => []TypeOK
<1>1. Init => TypeOK
    <2> SUFFICES ASSUME Init PROVE TypeOK
        OBVIOUS
    <2>1. row \in Row
        BY BoundsAssumption DEF Init, Row, Status, Dates
    <2>2. req \in [Requests -> ReqState] /\ pending \in [Handlers -> Patch]
        BY ReqStates DEF Init, Patch
    <2>3. /\ now \in Nat \ {0} /\ life \in {"none", "live", "gone"}
          /\ serves \in Nat /\ lost \in Nat /\ late \in Nat /\ cap \in Nat
        BY SMT DEF Init
    <2>4. capped \in BOOLEAN /\ moderated \in BOOLEAN
        BY Zenon DEF Init
    <2>5. QED
        BY <2>1, <2>2, <2>3, <2>4 DEF TypeOK
<1>2. TypeOK /\ [Next]_vars => TypeOK'
    <2>1. CASE UNCHANGED vars
        BY <2>1 DEF vars, observed, TypeOK
    <2>2. ASSUME TypeOK, Next PROVE TypeOK'
        <3>1. Typed
            BY <2>2, StepTypes DEF Next
        <3>2. late' \in Nat /\ cap' \in Nat
            <4>1. Observe
                BY <2>2 DEF Next
            <4>2. /\ late' = late + (serves' - serves) \/ late' = 0
                  /\ cap' = cap \/ cap' = row'.clickLimit
                BY Zenon, <4>1 DEF Observe, Larger
            <4>3. row'.clickLimit \in Nat
                BY <3>1, BoundsAssumption DEF Typed, Row
            <4>4. QED
                BY <2>2, <3>1, <4>2, <4>3 DEF Typed, TypeOK
        <3>3. capped' \in BOOLEAN
            BY Zenon, <2>2 DEF Next, Observe
        <3>4. serves' \in Nat
            BY <2>2, <3>1 DEF Typed, TypeOK
        <3>5. QED
            BY Zenon, <3>1, <3>2, <3>3, <3>4 DEF Typed, TypeOK
    <2>3. QED
        BY <2>1, <2>2
<1>3. QED
    BY <1>1, <1>2, PTL DEF Spec

-----------------------------------------------------------------------------
(* The refinement of VisitGate                                             *)

(* What relates the observations to the row: the cap is at least the limit *)
(* in force, a capped link has one, and nothing is late on an open link.   *)
(* A link that is not created has no clicks.                               *)
Budget ==
    /\ life = "none" => row.clickCount = 0
    /\ row.clickLimit <= cap
    /\ life # "none" /\ capped => row.clickLimit # Null
    /\ ~Closed => late = 0

(* Before its creation the row does not change, and it is created once.    *)
LEMMA Unborn ==
    ASSUME Step, life' = "none"
    PROVE  life = "none" /\ row' = row
BY DEF Step, Create, CreateLink, CreateGuestLink, Visit, Lookup, Activate, Disable,
       AskPassword, ReadForCount, DeleteOneTime, Increment, CountFails, Handle, UpdateLink,
       EditLink, ArchiveLink, UnarchiveLink, UnblockLink, Begin, Commit, BlockLink,
       DeleteLink, Cron, ActivateScheduledLinks, DisableExpiredLinks,
       DeleteExpiredGuestLinks, DeleteOldFreeLinks, Tick, Restart, Live

LEMMA BudgetHolds == Spec => []Budget
<1>1. Init => Budget
    <2> SUFFICES ASSUME Init PROVE Budget
        OBVIOUS
    <2>1. Closed
        BY DEF Init, Closed, Live
    <2>2. row.clickCount = 0 /\ row.clickLimit = 0 /\ cap = 0 /\ life = "none"
        BY DEF Init, Null
    <2>3. QED
        BY <2>1, <2>2 DEF Budget
<1>2. TypeOK /\ TypeOK' /\ Budget /\ [Next]_vars => Budget'
    <2>1. CASE UNCHANGED vars
        BY <2>1 DEF vars, observed, Budget, Closed, Live, Shut
    <2>2. ASSUME TypeOK, TypeOK', Budget, Step, Observe PROVE Budget'
        <3>1. life' = "none" => row'.clickCount = 0
            BY <2>2, Unborn DEF Budget
        <3>2. cap' = Larger(cap, row'.clickLimit)
            BY <2>2 DEF Observe
        <3>3. row'.clickLimit <= cap'
            <4>1. row'.clickLimit \in Nat /\ cap \in Nat
                BY <2>2, BoundsAssumption DEF TypeOK, Row
            <4>2. QED
                BY <3>2, <4>1 DEF Larger
        <3>4. life' # "none" /\ capped' => row'.clickLimit # Null
            BY Zenon, <2>2 DEF Observe
        <3>5. ~Closed' => late' = 0
            BY <2>2 DEF Observe
        <3>6. QED
            BY <3>1, <3>3, <3>4, <3>5 DEF Budget
    <2>3. QED
        BY <2>1, <2>2 DEF Next
<1>3. QED
    BY <1>1, <1>2, TypeCorrect, PTL DEF Spec

(* Moving one visit moves it in or out of the visits in flight.            *)
LEMMA GotoInFlight ==
    ASSUME req \in [Requests -> ReqState], NEW r \in Requests, NEW s \in ReqState, Goto(r, s)
    PROVE  /\ Passed(s) => InFlight' = InFlight \cup {r}
           /\ ~Passed(s) => InFlight' = InFlight \ {r}
BY DEF Goto, InFlight, Passed

(* A step that leaves the row alone leaves the gate alone.                 *)
LEMMA SameRow ==
    ASSUME TypeOK, Budget, Observe, row' = row, life' = life
    PROVE  /\ Closed' = Closed /\ cap' = cap /\ capped' = capped
           /\ late' = IF Closed THEN late + (serves' - serves) ELSE 0
<1>1. Closed' = Closed
    BY DEF Closed, Live, Shut
<1>2. cap' = cap
    <2>1. row.clickLimit \in Nat /\ cap \in Nat /\ row.clickLimit <= cap
        BY BoundsAssumption DEF TypeOK, Row, Budget
    <2>2. QED
        BY <2>1 DEF Observe, Larger
<1>3. capped' = capped
    BY Zenon DEF Observe, Budget, TypeOK
<1>4. QED
    BY <1>1, <1>2, <1>3 DEF Observe

(* A step that answers and admits nobody is an adjustment of the gate.     *)
LEMMA AdjustStep ==
    ASSUME TypeOK, TypeOK', Budget, Observe, InFlight' = InFlight,
           row'.clickCount = row.clickCount, serves' = serves
    PROVE  Gate!Adjust
<1>1. cap' \in Nat /\ cap' >= cap
    <2>1. row'.clickLimit \in Nat /\ cap \in Nat /\ cap' \in Nat
        BY BoundsAssumption DEF TypeOK, Row
    <2>2. QED
        BY <2>1 DEF Observe, Larger
<1>2. capped' \in {capped, FALSE}
    BY Zenon DEF Observe, TypeOK
<1>3. late' = IF ~Closed' \/ ~Closed THEN 0 ELSE late
    <2>1. late' = IF Closed /\ Closed' THEN late + (serves' - serves) ELSE 0
        BY DEF Observe
    <2>2. late + (serves' - serves) = late
        BY DEF TypeOK
    <2>3. QED
        BY <2>1, <2>2
<1>4. (~Closed)' \in BOOLEAN
    OBVIOUS
<1>5. QED
    BY <1>1, <1>2, <1>3, <1>4 DEF Gate!Adjust

(* An answer of a visit in flight, by the way the row takes it.            *)
LEMMA AnswerStep ==
    ASSUME TypeOK, TypeOK', Budget, Observe, NEW r \in Requests, Passed(req[r]),
           Goto(r, Idle), serves' = serves + 1
    PROVE  /\ row' = row /\ life' = life => Gate!ServeUncounted(r)
           /\ row' = row /\ Live /\ life' = "gone" => Gate!Consume(r)
           /\ row' = [row EXCEPT !.clickCount = @ + 1] /\ life' = life => Gate!Count(r)
<1>1. r \in InFlight /\ InFlight' = InFlight \ {r}
    <2>1. ~Passed(Idle) /\ Idle \in ReqState
        BY ReqStates DEF Passed, Idle
    <2>2. QED
        BY <2>1, GotoInFlight DEF TypeOK, InFlight
<1>2. serves' - serves = 1
    BY DEF TypeOK
<1>3. ASSUME row' = row, life' = life PROVE Gate!ServeUncounted(r)
    BY <1>1, <1>2, <1>3, SameRow DEF Gate!ServeUncounted, Gate!Answered
<1>4. ASSUME row' = row, Live, life' = "gone" PROVE Gate!Consume(r)
    <2>1. Closed'
        BY <1>4 DEF Closed, Live
    <2>2. late' = IF Closed THEN late + 1 ELSE 0
        BY <1>2, <2>1 DEF Observe
    <2>3. cap' = cap
        <3>1. row.clickLimit \in Nat /\ cap \in Nat /\ row.clickLimit <= cap
            BY BoundsAssumption DEF TypeOK, Row, Budget
        <3>2. QED
            BY <1>4, <3>1 DEF Observe, Larger
    <2>4. capped' = capped
        <3>1. life # "none" /\ row'.clickLimit = row.clickLimit
            BY <1>4 DEF Live
        <3>2. QED
            BY Zenon, <3>1 DEF Observe, Budget, TypeOK
    <2>5. QED
        BY <1>1, <1>4, <2>1, <2>2, <2>3, <2>4 DEF Gate!Consume, Gate!Answered
<1>5. ASSUME row' = [row EXCEPT !.clickCount = @ + 1], life' = life PROVE Gate!Count(r)
    <2>1. row'.clickLimit = row.clickLimit /\ row'.clickCount = row.clickCount + 1
        BY <1>5 DEF TypeOK, Row
    <2>2. Closed' = Closed
        <3>1. row'.status = row.status /\ row'.isArchived = row.isArchived
            BY <1>5 DEF TypeOK, Row
        <3>2. QED
            BY <1>5, <3>1 DEF Closed, Live, Shut
    <2>3. cap' = cap
        <3>1. row.clickLimit \in Nat /\ cap \in Nat /\ row.clickLimit <= cap
            BY BoundsAssumption DEF TypeOK, Row, Budget
        <3>2. QED
            BY <2>1, <3>1 DEF Observe, Larger
    <2>4. capped' = capped
        BY Zenon, <1>5, <2>1 DEF Observe, Budget, TypeOK
    <2>5. late' = IF Closed THEN late + 1 ELSE 0
        BY <1>2, <2>2 DEF Observe
    <2>6. QED
        BY <1>1, <2>1, <2>2, <2>3, <2>4, <2>5 DEF Gate!Count, Gate!Answered
<1>6. QED
    BY <1>3, <1>4, <1>5

(* A visit admitted by its lookup finds the gate open, with clicks left.   *)
LEMMA LookupStep ==
    ASSUME TypeOK, TypeOK', Budget, Observe, NEW r \in Requests, Lookup(r)
    PROVE  [Gate!Next]_(Gate!gateVars)
<1>1. /\ row' = row /\ life' = life /\ serves' = serves
      /\ ~Closed /\ req[r] = Idle
    BY DEF Lookup, Resolvable, Closed
<1>2. /\ Closed' = Closed /\ cap' = cap /\ capped' = capped
      /\ late' = late
    BY <1>1, SameRow DEF Budget
<1>3. PICK s \in ReqState : Goto(r, s) /\ (Passed(s) => AfterSchedule = "admitted")
    <2>1. CASE Goto(r, At("disabling"))
        BY <2>1, ReqStates DEF At, Passed
    <2>2. CASE Goto(r, [pc |-> "activating", next |-> AfterSchedule])
        BY <2>2, ReqStates DEF Passed
    <2>3. CASE AfterSchedule # "idle" /\ Goto(r, At(AfterSchedule))
        BY <2>3, ReqStates DEF At, Passed
    <2>4. QED
        BY <2>1, <2>2, <2>3 DEF Lookup
<1>4. CASE Passed(s)
    <2>1. InFlight' = InFlight \cup {r}
        BY <1>3, <1>4, GotoInFlight DEF TypeOK
    <2>2. capped => row.clickCount < cap
        <3>1. ~UsedUp
            BY <1>3, <1>4 DEF AfterSchedule
        <3>2. life # "none"
            BY <1>1 DEF Closed, Live
        <3>3. row.clickLimit \in Nat /\ row.clickCount \in Nat /\ cap \in Nat
            BY BoundsAssumption DEF TypeOK, Row
        <3>4. capped => row.clickLimit # Null
            BY Zenon, <3>2 DEF Budget
        <3>5. row.clickLimit # Null => row.clickCount < cap
            BY <3>1, <3>3 DEF UsedUp, Budget
        <3>6. QED
            BY <3>4, <3>5
    <2>3. Gate!Admit(r)
        BY <1>1, <1>2, <2>1, <2>2 DEF Gate!Admit
    <2>4. QED
        BY <2>3 DEF Gate!Next
<1>5. CASE ~Passed(s)
    <2>1. InFlight' = InFlight
        <3>1. r \notin InFlight
            BY <1>1 DEF InFlight, Passed, Idle
        <3>2. QED
            BY <1>3, <1>5, <3>1, GotoInFlight DEF TypeOK
    <2>2. QED
        BY <1>1, <2>1, AdjustStep DEF Gate!Next
<1>6. QED
    BY <1>4, <1>5

(* A visit that ends, or goes on, without an answer.                       *)
LEMMA AbandonStep ==
    ASSUME TypeOK, Budget, Observe, row' = row, life' = life, serves' = serves,
           InFlight' \subseteq InFlight
    PROVE  Gate!Abandon
<1>1. late + (serves' - serves) = late
    BY DEF TypeOK
<1>2. /\ Closed' = Closed /\ cap' = cap /\ capped' = capped
      /\ late' = late
    BY <1>1, SameRow DEF Budget
<1>3. QED
    BY <1>2 DEF Gate!Abandon

LEMMA VisitStep ==
    ASSUME TypeOK, TypeOK', Budget, Observe, NEW r \in Requests, Visit(r)
    PROVE  [Gate!Next]_(Gate!gateVars)
<1> USE DEF Gate!Next
<1>1. CASE Lookup(r)
    BY <1>1, LookupStep
<1>2. CASE Activate(r)
    <2>1. req[r] \in ReqState /\ req[r].pc = "activating"
        BY <1>2 DEF Activate, TypeOK
    <2>2. CASE Live
        <3>1. Goto(r, At(req[r].next)) /\ row' = [row EXCEPT !.status = "ACTIVE"]
              /\ serves' = serves
            BY <1>2, <2>2 DEF Activate
        <3>2. At(req[r].next) \in ReqState /\ (Passed(At(req[r].next)) <=> Passed(req[r]))
            BY <2>1, ReqStates DEF At, Passed
        <3>3. InFlight' = InFlight
            BY <3>1, <3>2, GotoInFlight DEF TypeOK, InFlight
        <3>4. row'.clickCount = row.clickCount
            BY <3>1 DEF TypeOK, Row
        <3>5. QED
            BY <3>1, <3>3, <3>4, AdjustStep
    <2>3. CASE ~Live
        <3>1. Goto(r, Idle) /\ row' = row /\ life' = life /\ serves' = serves
            BY <1>2, <2>3 DEF Activate
        <3>2. InFlight' \subseteq InFlight
            BY <3>1, ReqStates, GotoInFlight DEF TypeOK, Idle, Passed
        <3>3. QED
            BY <3>1, <3>2, AbandonStep
    <2>4. QED
        BY <2>2, <2>3
<1>3. CASE Disable(r)
    <2>1. req[r].pc = "disabling" /\ Goto(r, Idle) /\ serves' = serves
        BY <1>3 DEF Disable
    <2>2. InFlight' = InFlight
        BY <2>1, ReqStates, GotoInFlight DEF TypeOK, Idle, Passed, InFlight
    <2>3. row'.clickCount = row.clickCount
        BY <1>3 DEF Disable, TypeOK, Row
    <2>4. QED
        BY <2>1, <2>2, <2>3, AdjustStep
<1>4. CASE AskPassword(r)
    <2>1. Goto(r, Idle) /\ row' = row /\ life' = life /\ serves' = serves
        BY <1>4 DEF AskPassword
    <2>2. InFlight' \subseteq InFlight
        BY <2>1, ReqStates, GotoInFlight DEF TypeOK, Idle, Passed
    <2>3. QED
        BY <2>1, <2>2, AbandonStep
<1>5. CASE ReadForCount(r)
    <2>1. Passed(req[r]) /\ row' = row /\ life' = life
        BY <1>5 DEF ReadForCount, Passed
    <2>2. CASE Live
        <3>1. PICK s \in ReqState : Goto(r, s) /\ Passed(s) /\ serves' = serves
            BY <1>5, <2>2, ReqStates DEF ReadForCount, At, Passed
        <3>2. InFlight' = InFlight
            BY <2>1, <3>1, GotoInFlight DEF TypeOK, InFlight
        <3>3. QED
            BY <2>1, <3>1, <3>2, AdjustStep
    <2>3. CASE ~Live
        <3>1. Goto(r, Idle) /\ serves' = serves + 1
            BY <1>5, <2>3 DEF ReadForCount
        <3>2. QED
            BY <2>1, <3>1, AnswerStep
    <2>4. QED
        BY <2>2, <2>3
<1>6. CASE DeleteOneTime(r)
    <2>1. /\ Passed(req[r]) /\ row' = row /\ Goto(r, Idle) /\ serves' = serves + 1
          /\ (Live /\ life' = "gone") \/ life' = life
        BY <1>6 DEF DeleteOneTime, Passed
    <2>2. QED
        BY <2>1, AnswerStep
<1>7. CASE Increment(r)
    <2>1. /\ Passed(req[r]) /\ life' = life /\ Goto(r, Idle) /\ serves' = serves + 1
          /\ row' = row \/ row' = [row EXCEPT !.clickCount = @ + 1]
        BY <1>7 DEF Increment, Passed
    <2>2. QED
        BY <2>1, AnswerStep
<1>8. CASE CountFails(r)
    <2>1. Passed(req[r]) /\ row' = row /\ life' = life /\ Goto(r, Idle) /\ serves' = serves + 1
        BY <1>8 DEF CountFails, Passed
    <2>2. QED
        BY <2>1, AnswerStep
<1>9. QED
    BY <1>1, <1>2, <1>3, <1>4, <1>5, <1>6, <1>7, <1>8 DEF Visit

(* Every other step adjusts the gate, or loses the visits in flight.       *)
LEMMA OtherStep ==
    ASSUME TypeOK, TypeOK', Budget, Observe, Step, ~(\E r \in Requests : Visit(r))
    PROVE  [Gate!Next]_(Gate!gateVars)
<1> USE DEF Gate!Next
<1>1. CASE Restart
    <2>1. InFlight' = {}
        BY <1>1 DEF Restart, InFlight, Idle, Passed
    <2>2. row' = row /\ life' = life /\ serves' = serves
        BY <1>1 DEF Restart
    <2>3. QED
        BY <2>1, <2>2, AbandonStep
<1>2. CASE ~Restart
    <2>1. req' = req /\ serves' = serves
        BY <1>2 DEF Step, Create, CreateLink, CreateGuestLink, Handle, UpdateLink, EditLink,
           ArchiveLink, UnarchiveLink, UnblockLink, Begin, Commit, BlockLink, DeleteLink, Cron,
           ActivateScheduledLinks, DisableExpiredLinks, DeleteExpiredGuestLinks,
           DeleteOldFreeLinks, Tick
    <2>2. InFlight' = InFlight
        BY <2>1 DEF InFlight
    <2>3. row'.clickCount = row.clickCount
        <3>1. CASE Create
            <4>1. row.clickCount = 0
                BY <3>1 DEF Create, CreateLink, CreateGuestLink, Budget
            <4>2. ASSUME NEW dto \in Drafts, CreateLink(dto) PROVE row'.clickCount = 0
                BY <4>2 DEF CreateLink
            <4>3. ASSUME NEW t \in Times, CreateGuestLink(t)
                  PROVE  row'.clickCount = row.clickCount
                BY <4>3 DEF CreateGuestLink, TypeOK, Row
            <4>4. QED
                BY <3>1, <4>1, <4>2, <4>3 DEF Create
        <3>2. ASSUME NEW h \in Handlers, Commit(h) PROVE row'.clickCount = row.clickCount
            BY <3>2, MergeRow DEF Commit, TypeOK
        <3>3. CASE BlockLink \/ DeleteLink \/ Cron \/ Tick
            BY <3>3 DEF BlockLink, DeleteLink, Cron, ActivateScheduledLinks,
               DisableExpiredLinks, DeleteExpiredGuestLinks, DeleteOldFreeLinks, Tick,
               TypeOK, Row
        <3>4. ASSUME NEW h \in Handlers, Handle(h), ~Commit(h) PROVE row' = row
            BY <3>4 DEF Handle, UpdateLink, EditLink, ArchiveLink, UnarchiveLink,
               UnblockLink, Begin
        <3>5. QED
            BY <1>2, <3>1, <3>2, <3>3, <3>4 DEF Step
    <2>4. QED
        BY <2>1, <2>2, <2>3, AdjustStep
<1>3. QED
    BY <1>1, <1>2

(* LinkLifecycle implements VisitGate: every visit, edit, moderation,      *)
(* cron, restart and failed database call is a step the gate allows.       *)
THEOREM Refinement == Spec => ImplementsGate
<1>1. Init => Gate!Init
    <2> SUFFICES ASSUME Init PROVE Gate!Init
        OBVIOUS
    <2>1. (~Closed) = FALSE
        BY DEF Init, Closed, Live
    <2>2. InFlight = {}
        BY DEF Init, InFlight, Idle, Passed
    <2>3. row.clickCount = 0 /\ cap = 0 /\ late = 0
        BY DEF Init
    <2>4. capped = TRUE
        BY DEF Init
    <2>5. QED
        BY <2>1, <2>2, <2>3, <2>4 DEF Gate!Init
<1>2. TypeOK /\ TypeOK' /\ Budget /\ [Next]_vars => [Gate!Next]_(Gate!gateVars)
    <2>1. CASE UNCHANGED vars
        BY <2>1 DEF vars, observed, Gate!gateVars, Closed, Live, Shut, InFlight, Passed
    <2>2. ASSUME TypeOK, TypeOK', Budget, Step, Observe PROVE [Gate!Next]_(Gate!gateVars)
        BY <2>2, VisitStep, OtherStep
    <2>3. QED
        BY <2>1, <2>2 DEF Next
<1>3. QED
    BY <1>1, <1>2, TypeCorrect, BudgetHolds, PTL DEF Spec, ImplementsGate, Gate!Spec

-----------------------------------------------------------------------------
(* What the refinement gives                                               *)

GateP == INSTANCE VisitGate_proofs WITH
            Visitors <- Requests, open <- ~Closed, inside <- InFlight,
            used <- row.clickCount, capped <- capped, cap <- cap, late <- late

(* The two instances of VisitGate are the same specification.              *)
LEMMA OneGate == ImplementsGate => GateP!Spec
<1>1. Gate!Init => GateP!Init
    BY DEF Gate!Init, GateP!Init
<1>2. [Gate!Next]_(Gate!gateVars) => [GateP!Next]_(GateP!gateVars)
    BY DEF Gate!Next, Gate!gateVars, Gate!Admit, Gate!Count, Gate!ServeUncounted,
       Gate!Consume, Gate!Abandon, Gate!Adjust, Gate!Answered,
       GateP!Next, GateP!gateVars, GateP!Admit, GateP!Count, GateP!ServeUncounted,
       GateP!Consume, GateP!Abandon, GateP!Adjust, GateP!Answered
<1>3. QED
    BY <1>1, <1>2, PTL DEF ImplementsGate, Gate!Spec, GateP!Spec

(* A closed link answers only the visits that had passed its checks.       *)
THEOREM ClosedLinkDrains == Spec => []ClosedDrains
<1>1. GateP!Spec => []GateP!Drains
    BY RequestsAssumption, GateP!GateDrains DEF GateP!IsFiniteSet, IsFiniteSet
<1>2. GateP!Drains => ClosedDrains
    BY DEF GateP!Drains, ClosedDrains, Gate!Drains, GateP!Cardinality, Gate!Cardinality
<1>3. QED
    BY <1>1, <1>2, Refinement, OneGate, PTL

(* A link that always had a limit is overrun by less than the number of    *)
(* visits in progress at one time.                                         *)
THEOREM LimitOverrun == Spec => []LimitOverrunBounded
<1>1. GateP!Spec => []GateP!Bounded
    BY RequestsAssumption, GateP!GateBounded DEF GateP!IsFiniteSet, IsFiniteSet
<1>2. GateP!Bounded => LimitOverrunBounded
    BY DEF GateP!Bounded, LimitOverrunBounded, Gate!Bounded, GateP!Cardinality, Gate!Cardinality
<1>3. QED
    BY <1>1, <1>2, Refinement, OneGate, PTL

-----------------------------------------------------------------------------
(* Clicks                                                                  *)

(* ClicksConserved is not inductive: the creation of the row needs that    *)
(* nothing was served before it.                                           *)
Conserved ==
    /\ life # "gone" => serves = row.clickCount + lost
    /\ life = "none" => \A r \in Requests : req[r] = Idle

LEMMA ConservedStep ==
    ASSUME TypeOK, TypeOK', Conserved, Budget, Step
    PROVE  Conserved'
<1> USE DEF Conserved
<1>0. /\ serves \in Nat /\ lost \in Nat /\ row.clickCount \in Nat
      /\ life \in {"none", "live", "gone"}
    BY DEF TypeOK, Row
<1>1. CASE Create
    <2>1. life = "none" /\ life' = "live" /\ serves' = serves /\ lost' = lost
        BY <1>1 DEF Create, CreateLink, CreateGuestLink
    <2>2. row.clickCount = 0 /\ row'.clickCount = 0
        <3>1. row.clickCount = 0
            BY <2>1 DEF Budget
        <3>2. ASSUME NEW dto \in Drafts, CreateLink(dto) PROVE row'.clickCount = 0
            BY <3>2 DEF CreateLink
        <3>3. ASSUME NEW t \in Times, CreateGuestLink(t) PROVE row'.clickCount = row.clickCount
            BY <3>3 DEF CreateGuestLink, TypeOK, Row
        <3>4. QED
            BY <1>1, <3>1, <3>2, <3>3 DEF Create
    <2>3. QED
        BY <1>0, <2>1, <2>2
<1>2. ASSUME NEW r \in Requests, Visit(r) PROVE Conserved'
    <2>1. life # "none"
        BY <1>2 DEF Visit, Lookup, Activate, Disable, AskPassword, ReadForCount,
           DeleteOneTime, Increment, CountFails, Resolvable, Live, Idle
    <2>2. life' # "none"
        BY <2>1, <1>2, Unborn DEF Step
    <2>3. CASE Lookup(r) \/ Activate(r) \/ Disable(r) \/ AskPassword(r)
        <3>1. serves' = serves /\ lost' = lost /\ life' = life
            BY <2>3 DEF Lookup, Activate, Disable, AskPassword
        <3>2. row'.clickCount = row.clickCount
            BY <2>3 DEF Lookup, Activate, Disable, AskPassword, TypeOK, Row
        <3>3. QED
            BY <2>2, <3>1, <3>2
    <2>4. CASE ReadForCount(r) \/ DeleteOneTime(r)
        <3>1. \/ serves' = serves /\ lost' = lost /\ life' = life /\ row' = row
              \/ life' = "gone"
            BY <1>0, <2>1, <2>4 DEF ReadForCount, DeleteOneTime, Live
        <3>2. QED
            BY <2>2, <3>1
    <2>5. CASE Increment(r)
        <3>1. serves' = serves + 1 /\ lost' = lost /\ life' = life
            BY <2>5 DEF Increment
        <3>2. Live => row'.clickCount = row.clickCount + 1
            BY <2>5 DEF Increment, TypeOK, Row
        <3>3. QED
            BY <1>0, <2>1, <2>2, <3>1, <3>2 DEF Live
    <2>6. CASE CountFails(r)
        <3>1. /\ serves' = serves + 1 /\ lost' = lost + 1
              /\ life = "live" /\ row' = row
            BY <2>6 DEF CountFails, Live
        <3>2. serves = row.clickCount + lost
            BY <3>1
        <3>3. serves' = row.clickCount + lost'
            BY <1>0, <3>1, <3>2
        <3>4. QED
            BY <2>2, <3>1, <3>3
    <2>7. QED
        BY <1>2, <2>3, <2>4, <2>5, <2>6 DEF Visit
<1>3. CASE (\E h \in Handlers : Handle(h)) \/ BlockLink \/ DeleteLink \/ Cron \/ Tick \/ Restart
    <2>1. serves' = serves /\ lost' = lost /\ (life' = life \/ life' = "gone")
        BY <1>3 DEF Handle, UpdateLink, EditLink, ArchiveLink, UnarchiveLink, UnblockLink,
           Begin, Commit, BlockLink, DeleteLink, Cron, ActivateScheduledLinks,
           DisableExpiredLinks, DeleteExpiredGuestLinks, DeleteOldFreeLinks, Tick, Restart
    <2>2. req' = req \/ req' = [r \in Requests |-> Idle]
        BY <1>3 DEF Handle, UpdateLink, EditLink, ArchiveLink, UnarchiveLink, UnblockLink,
           Begin, Commit, BlockLink, DeleteLink, Cron, ActivateScheduledLinks,
           DisableExpiredLinks, DeleteExpiredGuestLinks, DeleteOldFreeLinks, Tick, Restart
    <2>3. row'.clickCount = row.clickCount
        <3>1. ASSUME NEW h \in Handlers, Commit(h) PROVE row'.clickCount = row.clickCount
            BY <3>1, MergeRow DEF Commit, TypeOK
        <3>2. ASSUME NEW h \in Handlers, Handle(h), ~Commit(h) PROVE row' = row
            BY <3>2 DEF Handle, UpdateLink, EditLink, ArchiveLink, UnarchiveLink,
               UnblockLink, Begin
        <3>3. CASE BlockLink \/ DeleteLink \/ Cron \/ Tick \/ Restart
            BY <3>3 DEF BlockLink, DeleteLink, Cron, ActivateScheduledLinks,
               DisableExpiredLinks, DeleteExpiredGuestLinks, DeleteOldFreeLinks, Tick,
               Restart, TypeOK, Row
        <3>4. QED
            BY <1>3, <3>1, <3>2, <3>3
    <2>4. QED
        BY <2>1, <2>2, <2>3
<1>4. QED
    BY <1>1, <1>2, <1>3 DEF Step

(* Every answered visit of a live link is counted, or its increment failed. *)
THEOREM NoClickLost == Spec => []ClicksConserved
<1>1. Init => Conserved
    BY DEF Init, Conserved
<1>2. TypeOK /\ TypeOK' /\ Budget /\ Conserved /\ [Next]_vars => Conserved'
    <2>1. CASE UNCHANGED vars
        BY <2>1 DEF vars, observed, Conserved
    <2>2. QED
        BY <2>1, ConservedStep DEF Next
<1>3. Conserved => ClicksConserved
    BY DEF Conserved, ClicksConserved, Live
<1>4. QED
    BY <1>1, <1>2, <1>3, TypeCorrect, BudgetHolds, PTL DEF Spec

-----------------------------------------------------------------------------
(* Reopening                                                               *)

(* No cron, no moderation but an edit, and no step of a visit but the late *)
(* activation, opens a link that was closed.                               *)
THEOREM NothingElseReopens == Spec => ReopenedByHand
<1> DEFINE Reopens == (\E h \in Handlers : Commit(h)) \/ (\E r \in Requests : Activate(r))
<1>1. ASSUME TypeOK, Step, Closed, ~Closed', life # "none" PROVE Reopens
    <2>1. Live' /\ ~Shut'
        BY <1>1 DEF Closed
    <2>2. CASE Create
        BY <1>1, <2>2 DEF Create, CreateLink, CreateGuestLink
    <2>3. ASSUME NEW r \in Requests, Visit(r), ~Activate(r) PROVE FALSE
        <3>1. CASE Lookup(r) \/ AskPassword(r) \/ ReadForCount(r) \/ CountFails(r)
            BY <1>1, <3>1 DEF Lookup, AskPassword, ReadForCount, CountFails, Closed, Live, Shut
        <3>2. CASE Disable(r)
            BY <1>1, <2>1, <3>2 DEF Disable, Live, Shut, TypeOK, Row
        <3>3. CASE DeleteOneTime(r)
            BY <1>1, <2>1, <3>3 DEF DeleteOneTime, Closed, Live
        <3>4. CASE Increment(r)
            BY <1>1, <2>1, <3>4 DEF Increment, Closed, Live, Shut, TypeOK, Row
        <3>5. QED
            BY <2>3, <3>1, <3>2, <3>3, <3>4 DEF Visit
    <2>4. ASSUME NEW h \in Handlers, Handle(h), ~Commit(h) PROVE FALSE
        <3>1. row' = row /\ life' = life
            BY <2>4 DEF Handle, UpdateLink, EditLink, ArchiveLink, UnarchiveLink,
               UnblockLink, Begin
        <3>2. QED
            BY <1>1, <3>1 DEF Closed, Live, Shut
    <2>5. CASE BlockLink \/ DeleteLink \/ Tick \/ Restart
        BY <1>1, <2>1, <2>5 DEF BlockLink, DeleteLink, Tick, Restart, Closed, Live, Shut,
           TypeOK, Row
    <2>6. CASE Cron
        BY <1>1, <2>1, <2>6 DEF Cron, ActivateScheduledLinks, DisableExpiredLinks,
           DeleteExpiredGuestLinks, DeleteOldFreeLinks, Closed, Live, Shut, TypeOK, Row
    <2>7. QED
        BY <1>1, <2>2, <2>3, <2>4, <2>5, <2>6 DEF Step
<1>2. ASSUME UNCHANGED vars PROVE Closed' = Closed
    BY <1>2 DEF vars, Closed, Live, Shut
<1>3. TypeOK /\ [Next]_vars => [Closed /\ ~Closed' /\ life # "none" => Reopens]_vars
    BY <1>1, <1>2 DEF Next
<1>4. QED
    BY <1>3, TypeCorrect, PTL DEF Spec, ReopenedByHand
=============================================================================
