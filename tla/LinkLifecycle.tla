---------------------------- MODULE LinkLifecycle ----------------------------
(***************************************************************************)
(* The life of one row of the Link table: created by a user or a guest,    *)
(* visited through its short code, edited by its owner, moderated by an    *)
(* administrator, moved by the hourly crons, deleted.                      *)
(*                                                                         *)
(* Every handler reads the row, decides, and writes; nothing in the code   *)
(* holds a lock or a transaction between the two.  So a handler is two     *)
(* steps here: the first reads and computes the write (the synchronous     *)
(* code after the read), the second applies it to whatever the row has     *)
(* become.  A visit is a process of the main application that goes through *)
(* resolveShortCode and incrementClickCount, one step per database call.   *)
(*                                                                         *)
(* Rows are independent of each other but for the uniqueness of codes.     *)
(* Text fields, tags, the QR code and the scan are left out; the password  *)
(* only decides whether a GET is answered with "requiresPassword".         *)
(***************************************************************************)
EXTENDS Integers, FiniteSets

CONSTANTS
    Requests,     \* the visits the main application can serve at one time
    Handlers,     \* the owner's and administrator's requests at one time
    Drafts,       \* the CreateLinkDto values of the model
    Updates,      \* the UpdateLinkDto values of the model, absent = undefined
    AdminEdits,   \* the AdminEditLinkDto values of the model
    Limits,       \* the click limits of the model, 0 for none
    MaxTime,      \* bound: the last tick of the clock
    MaxServes     \* bound: the visits answered or being answered

Null == 0         \* SQL NULL, and JavaScript's falsy click limit 0
Unset == -1       \* JavaScript's undefined: the column is not written

Times == 1 .. MaxTime + 1          \* MaxTime + 1 stands for any later time
Dates == Times \cup {Null}
Status == {"ACTIVE", "SCHEDULED", "ARCHIVED", "DISABLED", "BLOCKED"}
Row == [status: Status, isArchived: BOOLEAN, isGuest: BOOLEAN,
        scheduledAt: Dates, expiresAt: Dates,
        clickLimit: Limits, clickCount: Nat, isOneTime: BOOLEAN]

(* x ?? default : the field f of a partial record d, if it is there.       *)
Given(d, f, default) == IF f \in DOMAIN d THEN d[f] ELSE default

ASSUME RequestsAssumption == IsFiniteSet(Requests) /\ Requests # {}
ASSUME BoundsAssumption ==
    /\ MaxTime \in Nat \ {0}
    /\ MaxServes \in Nat
    /\ Limits \subseteq Nat /\ Null \in Limits
ASSUME DraftsAssumption ==
    Drafts \subseteq [scheduledAt: Dates, expiresAt: Dates,
                      clickLimit: Limits, isOneTime: BOOLEAN]
ASSUME UpdatesAssumption ==
    \A d \in Updates :
        /\ "scheduledAt" \in DOMAIN d => d["scheduledAt"] \in Dates
        /\ "expiresAt" \in DOMAIN d => d["expiresAt"] \in Dates
        /\ "clickLimit" \in DOMAIN d => d["clickLimit"] \in Limits
        /\ "isOneTime" \in DOMAIN d => d["isOneTime"] \in BOOLEAN
        /\ "isArchived" \in DOMAIN d => d["isArchived"] \in BOOLEAN

VARIABLES
    now,        \* the clock
    life,       \* "none" before the row is inserted, "live", "gone" once deleted
    row,        \* its columns; the last ones when it is gone
    req,        \* where each visit stands
    pending,    \* the write each owner or admin handler has computed
    (* observations of the run, read by no action *)
    serves,     \* visits answered with the destination
    lost,       \* of these, answered by a row still there but not counted
    late,       \* visits answered since the link last closed
    capped,     \* it has carried a click limit ever since its creation
    cap,        \* the largest click limit it has carried
    moderated   \* an administrator has blocked it and not decided otherwise

observed == <<serves, lost, late, capped, cap, moderated>>
vars == <<now, life, row, req, pending, observed>>

Live == life = "live"
Expired == row.expiresAt # Null /\ row.expiresAt <= now
Due == row.scheduledAt # Null /\ row.scheduledAt <= now
Shut == row.status \in {"BLOCKED", "DISABLED"} \/ row.isArchived

(* No visit that reads the row now gets through.                           *)
Closed == ~Live \/ Shut

(* The visits whose checks are passed: they will be answered whatever      *)
(* happens to the link, unless the process stops.                          *)
Passed(s) ==
    \/ s.pc \in {"admitted", "deleting", "counting"}
    \/ s.pc = "activating" /\ s.next = "admitted"
InFlight == {r \in Requests : Passed(req[r])}

Idle == [pc |-> "idle", next |-> "idle"]
ReqState ==
    [pc: {"idle", "disabling", "admitted", "deleting", "counting"}, next: {"idle"}]
    \cup [pc: {"activating"}, next: {"idle", "disabling", "admitted"}]
At(p) == [pc |-> p, next |-> "idle"]

NoWrite == [op |-> "none"]
Patch ==
    {NoWrite}
    \cup [op: {"archive", "unarchive"}, status: Status, isArchived: BOOLEAN]
    \cup [op: {"unblock"}, status: Status]
    \cup [op: {"update"}, scheduledAt: Dates, expiresAt: Dates, isOneTime: BOOLEAN,
          isArchived: BOOLEAN, status: Status, clickLimit: Limits \cup {Unset}]
    \cup AdminEdits

ASSUME AdminEditsAssumption ==
    \A d \in AdminEdits :
        /\ "op" \in DOMAIN d /\ d["op"] = "edit"
        /\ "status" \in DOMAIN d => d["status"] \in Status
        /\ "expiresAt" \in DOMAIN d => d["expiresAt"] \in Times
        /\ "clickLimit" \in DOMAIN d => d["clickLimit"] \in Limits \ {Null}
        /\ "isArchived" \in DOMAIN d => d["isArchived"] \in BOOLEAN
        /\ "scheduledAt" \notin DOMAIN d /\ "isOneTime" \notin DOMAIN d

(* prisma.link.update({ data }): the columns of data, the others untouched *)
Merge(data) ==
    [status |-> Given(data, "status", row.status),
     isArchived |-> Given(data, "isArchived", row.isArchived),
     isGuest |-> row.isGuest,
     scheduledAt |-> Given(data, "scheduledAt", row.scheduledAt),
     expiresAt |-> Given(data, "expiresAt", row.expiresAt),
     clickLimit |-> IF Given(data, "clickLimit", Unset) = Unset
                    THEN row.clickLimit ELSE data["clickLimit"],
     clickCount |-> row.clickCount,
     isOneTime |-> Given(data, "isOneTime", row.isOneTime)]

Init ==
    /\ now = 1
    /\ life = "none"
    /\ row = [status |-> "ACTIVE", isArchived |-> FALSE, isGuest |-> FALSE,
              scheduledAt |-> Null, expiresAt |-> Null,
              clickLimit |-> Null, clickCount |-> 0, isOneTime |-> FALSE]
    /\ req = [r \in Requests |-> Idle]
    /\ pending = [h \in Handlers |-> NoWrite]
    /\ serves = 0 /\ lost = 0 /\ late = 0
    /\ capped = TRUE /\ cap = 0 /\ moderated = FALSE

-----------------------------------------------------------------------------
(* Creation                                                                *)

CreateLink(dto) ==
    /\ life = "none"
    /\ dto.scheduledAt # Null => dto.scheduledAt > now
    /\ LET expiresAt == IF dto.expiresAt = Null THEN MaxTime + 1 ELSE dto.expiresAt
       IN  /\ dto.scheduledAt < expiresAt
           /\ row' = [status |-> IF dto.scheduledAt # Null THEN "SCHEDULED" ELSE "ACTIVE",
                      isArchived |-> FALSE, isGuest |-> FALSE,
                      scheduledAt |-> dto.scheduledAt, expiresAt |-> expiresAt,
                      clickLimit |-> dto.clickLimit, clickCount |-> 0,
                      isOneTime |-> dto.isOneTime]
    /\ life' = "live"
    /\ UNCHANGED <<now, req, pending, serves, lost, moderated>>

CreateGuestLink(expiresAt) ==
    /\ life = "none"
    /\ expiresAt > now
    /\ row' = [row EXCEPT !.isGuest = TRUE, !.expiresAt = expiresAt]
    /\ life' = "live"
    /\ UNCHANGED <<now, req, pending, serves, lost, moderated>>

-----------------------------------------------------------------------------
(* Visits: resolveShortCode, then incrementClickCount                      *)

Goto(r, state) == req' = [req EXCEPT ![r] = state]

(* Mutants: the check of BLOCKED, that of isArchived, are forgotten.       *)
ResolvableIfBlocked == Live /\ row.status # "DISABLED" /\ ~row.isArchived
ResolvableIfArchived == Live /\ row.status \notin {"BLOCKED", "DISABLED"}

Resolvable == Live /\ ~Shut

UsedUpTooLate == row.clickLimit # Null /\ row.clickCount > row.clickLimit    \* mutant

UsedUp == row.clickLimit # Null /\ row.clickCount >= row.clickLimit

(* The checks that follow the schedule in resolveShortCode, on the row as  *)
(* it was read: where the visit goes next.                                 *)
AfterSchedule ==
    CASE UsedUp -> "disabling"
      [] ~UsedUp /\ row.isOneTime /\ row.clickCount >= 1 -> "idle"
      [] OTHER -> "admitted"

(* findFirst and the decisions taken on its result.  A refused visit       *)
(* changes nothing.                                                        *)
Lookup(r) ==
    /\ req[r] = Idle
    /\ Resolvable
    /\ serves + Cardinality(InFlight) < MaxServes
    /\ \/ Expired /\ Goto(r, At("disabling"))
       \/ /\ ~Expired /\ row.status = "SCHEDULED" /\ Due
          /\ Goto(r, [pc |-> "activating", next |-> AfterSchedule])
       \/ /\ ~Expired /\ row.status # "SCHEDULED"
          /\ AfterSchedule # "idle"
          /\ Goto(r, At(AfterSchedule))
    /\ UNCHANGED <<now, life, row, pending, serves, lost, moderated>>

(* update({ status: ACTIVE }); on a deleted row it throws and the visit    *)
(* ends with an error.                                                     *)
Activate(r) ==
    /\ req[r].pc = "activating"
    /\ IF Live
       THEN row' = [row EXCEPT !.status = "ACTIVE"] /\ Goto(r, At(req[r].next))
       ELSE UNCHANGED row /\ Goto(r, Idle)
    /\ UNCHANGED <<now, life, pending, serves, lost, moderated>>

(* update({ status: DISABLED, isArchived: true }), then 403.               *)
Disable(r) ==
    /\ req[r].pc = "disabling"
    /\ row' = IF Live THEN [row EXCEPT !.status = "DISABLED", !.isArchived = TRUE] ELSE row
    /\ Goto(r, Idle)
    /\ UNCHANGED <<now, life, pending, serves, lost, moderated>>

(* A GET of a protected link asks for the password and counts nothing.     *)
AskPassword(r) ==
    /\ req[r].pc = "admitted"
    /\ Goto(r, Idle)
    /\ UNCHANGED <<now, life, row, pending, serves, lost, moderated>>

(* incrementClickCount reads the row again to learn isOneTime; a row that  *)
(* is gone is not counted and the visit is answered all the same.          *)
ReadForCount(r) ==
    /\ req[r].pc = "admitted"
    /\ IF Live
       THEN Goto(r, At(IF row.isOneTime THEN "deleting" ELSE "counting")) /\ UNCHANGED serves
       ELSE Goto(r, Idle) /\ serves' = serves + 1
    /\ UNCHANGED <<now, life, row, pending, lost, moderated>>

(* Deleting a row that is gone throws; the error is logged and the visit   *)
(* is answered.                                                            *)
DeleteOneTime(r) ==
    /\ req[r].pc = "deleting"
    /\ life' = IF Live THEN "gone" ELSE life
    /\ Goto(r, Idle)
    /\ serves' = serves + 1
    /\ UNCHANGED <<now, row, pending, lost, moderated>>

(* Mutant: the call is repeated when its reply is lost.                    *)
IncrementRetried(r) ==
    /\ req[r].pc = "counting"
    /\ Live /\ row' = [row EXCEPT !.clickCount = @ + 1]
    /\ (Goto(r, Idle) /\ serves' = serves + 1) \/ UNCHANGED <<req, serves>>
    /\ UNCHANGED <<now, life, pending, lost, moderated>>

Increment(r) ==
    /\ req[r].pc = "counting"
    /\ row' = IF Live THEN [row EXCEPT !.clickCount = @ + 1] ELSE row
    /\ Goto(r, Idle)
    /\ serves' = serves + 1
    /\ UNCHANGED <<now, life, pending, lost, moderated>>

(* The catch of incrementClickCount: a failed database call is logged and  *)
(* the visit is answered.                                                  *)
CountFails(r) ==
    /\ Live
    /\ req[r].pc \in {"admitted", "deleting", "counting"}
    /\ Goto(r, Idle)
    /\ serves' = serves + 1
    /\ lost' = lost + 1
    /\ UNCHANGED <<now, life, row, pending, moderated>>

Visit(r) ==
    \/ Lookup(r) \/ Activate(r) \/ Disable(r) \/ AskPassword(r)
    \/ ReadForCount(r) \/ DeleteOneTime(r) \/ Increment(r) \/ CountFails(r)

-----------------------------------------------------------------------------
(* Owner and administrator: a read that computes the write ...             *)

Begin(h, data) ==
    /\ Live
    /\ pending[h] = NoWrite
    /\ pending' = [pending EXCEPT ![h] = data]
    /\ UNCHANGED <<now, life, row, req, serves, lost, moderated>>

UpdateLink(h, dto) ==
    LET scheduledAt == Given(dto, "scheduledAt", row.scheduledAt)
        expiresAt   == Given(dto, "expiresAt", row.expiresAt)
        isArchived  == Given(dto, "isArchived", row.isArchived)
    IN  /\ ~row.isGuest
        /\ Given(dto, "scheduledAt", Null) # Null => scheduledAt > now
        /\ scheduledAt # Null /\ expiresAt # Null => scheduledAt < expiresAt
        /\ Begin(h, [op |-> "update",
                     scheduledAt |-> scheduledAt, expiresAt |-> expiresAt,
                     clickLimit |-> Given(dto, "clickLimit", Unset),
                     isOneTime |-> Given(dto, "isOneTime", row.isOneTime),
                     isArchived |-> isArchived,
                     status |-> CASE scheduledAt # Null -> "SCHEDULED"
                                  [] scheduledAt = Null /\ isArchived -> "ARCHIVED"
                                  [] OTHER -> row.status])

ArchiveLink(h) ==
    /\ ~row.isGuest /\ ~row.isArchived
    /\ Begin(h, [op |-> "archive", status |-> "ARCHIVED", isArchived |-> TRUE])

(* The status a link returns to, as unarchiveLink and unblockLink compute  *)
(* it.                                                                     *)
RestoredStatusUnknown == IF Expired THEN "EXPIRED" ELSE "ACTIVE"      \* mutant

RestoredStatus ==
    CASE row.scheduledAt # Null /\ row.scheduledAt > now -> "SCHEDULED"
      [] Expired /\ ~(row.scheduledAt # Null /\ row.scheduledAt > now) -> "DISABLED"
      [] OTHER -> "ACTIVE"

UnarchiveLink(h) ==
    /\ ~row.isGuest /\ row.isArchived
    /\ Begin(h, [op |-> "unarchive", status |-> RestoredStatus, isArchived |-> FALSE])

UnblockLink(h) ==
    Begin(h, [op |-> "unblock",
              status |-> IF row.isArchived THEN "ARCHIVED" ELSE RestoredStatus])

EditLink(h, dto) == Begin(h, dto)

(* ... and the write itself, lost with an error if the row is gone.        *)
Commit(h) ==
    /\ pending[h] # NoWrite
    /\ row' = IF Live THEN Merge(pending[h]) ELSE row
    /\ pending' = [pending EXCEPT ![h] = NoWrite]
    /\ moderated' = (moderated /\ ~( \/ pending[h].op = "unblock"
                                     \/ /\ pending[h].op = "edit"
                                        /\ \/ "status" \in DOMAIN pending[h]
                                           \/ "isArchived" \in DOMAIN pending[h]))
    /\ UNCHANGED <<now, life, req, serves, lost>>

(* These two read only to answer 404 when the row is missing.              *)
BlockLink ==
    /\ Live
    /\ row' = [row EXCEPT !.status = "BLOCKED"]
    /\ moderated' = TRUE
    /\ UNCHANGED <<now, life, req, pending, serves, lost>>

DeleteLink ==
    /\ Live
    /\ life' = "gone"
    /\ UNCHANGED <<now, row, req, pending, serves, lost, moderated>>

-----------------------------------------------------------------------------
(* The crons of the worker: each one statement of the database             *)

(* Mutants of the two queries: the status is not asked for, or "lt" stands *)
(* for "lte".                                                              *)
ActivateDueLinks ==
    /\ Live /\ Due
    /\ row' = [row EXCEPT !.status = "ACTIVE"]
    /\ UNCHANGED <<now, life, req, pending, serves, lost, moderated>>
ActivateOverdueLinks == row.status = "SCHEDULED" /\ row.scheduledAt < now /\ ActivateDueLinks
DisableOverdueLinks ==
    /\ Live /\ row.status = "ACTIVE" /\ Expired /\ row.expiresAt < now
    /\ row' = [row EXCEPT !.status = "DISABLED", !.isArchived = TRUE]
    /\ UNCHANGED <<now, life, req, pending, serves, lost, moderated>>

ActivateScheduledLinks ==
    /\ Live /\ row.status = "SCHEDULED" /\ Due
    /\ row' = [row EXCEPT !.status = "ACTIVE"]
    /\ UNCHANGED <<now, life, req, pending, serves, lost, moderated>>

DisableExpiredLinks ==
    /\ Live /\ row.status = "ACTIVE" /\ Expired
    /\ row' = [row EXCEPT !.status = "DISABLED", !.isArchived = TRUE]
    /\ UNCHANGED <<now, life, req, pending, serves, lost, moderated>>

DeleteExpiredGuestLinks ==
    /\ Live /\ row.isGuest /\ Expired
    /\ life' = "gone"
    /\ UNCHANGED <<now, row, req, pending, serves, lost, moderated>>

(* The tier of the owner and the age of the link are not part of this      *)
(* module: any user's link may be old enough.                              *)
DeleteOldFreeLinks ==
    /\ Live /\ ~row.isGuest
    /\ life' = "gone"
    /\ UNCHANGED <<now, row, req, pending, serves, lost, moderated>>

-----------------------------------------------------------------------------
(* The rest of the world                                                   *)

Tick ==
    /\ now < MaxTime
    /\ now' = now + 1
    /\ UNCHANGED <<life, row, req, pending, serves, lost, moderated>>

(* The main application stops and starts: what it was doing is forgotten.  *)
Restart ==
    /\ req' = [r \in Requests |-> Idle]
    /\ pending' = [h \in Handlers |-> NoWrite]
    /\ UNCHANGED <<now, life, row, serves, lost, moderated>>

Create == (\E dto \in Drafts : CreateLink(dto)) \/ (\E t \in Times : CreateGuestLink(t))

Handle(h) ==
    \/ \E dto \in Updates : UpdateLink(h, dto)
    \/ \E dto \in AdminEdits : EditLink(h, dto)
    \/ ArchiveLink(h) \/ UnarchiveLink(h) \/ UnblockLink(h)
    \/ Commit(h)

Cron ==
    \/ ActivateScheduledLinks \/ DisableExpiredLinks
    \/ DeleteExpiredGuestLinks \/ DeleteOldFreeLinks

Step ==
    \/ Create
    \/ \E r \in Requests : Visit(r)
    \/ \E h \in Handlers : Handle(h)
    \/ BlockLink \/ DeleteLink
    \/ Cron
    \/ Tick \/ Restart

Larger(a, b) == IF a >= b THEN a ELSE b

(* What the observations become, whatever the step was.                    *)
Observe ==
    /\ late' = IF Closed /\ Closed' THEN late + (serves' - serves) ELSE 0
    /\ capped' = (capped /\ (life' = "none" \/ row'.clickLimit # Null))
    /\ cap' = Larger(cap, row'.clickLimit)

Next == Step /\ Observe

(* Each database call of a visit returns; the crons keep firing.           *)
Fairness ==
    /\ \A r \in Requests :
           WF_vars((Activate(r) \/ Disable(r) \/ AskPassword(r) \/ ReadForCount(r)
                    \/ DeleteOneTime(r) \/ Increment(r) \/ CountFails(r)) /\ Observe)
    /\ WF_vars(ActivateScheduledLinks /\ Observe)
    /\ WF_vars(DisableExpiredLinks /\ Observe)

Spec == Init /\ [][Next]_vars
FairSpec == Spec /\ Fairness

-----------------------------------------------------------------------------
(* Properties                                                              *)

TypeOK ==
    /\ now \in Nat \ {0}
    /\ life \in {"none", "live", "gone"}
    /\ row \in Row
    /\ req \in [Requests -> ReqState]
    /\ pending \in [Handlers -> Patch]
    /\ serves \in Nat /\ lost \in Nat /\ late \in Nat
    /\ capped \in BOOLEAN /\ cap \in Nat
    /\ moderated \in BOOLEAN

Gate == INSTANCE VisitGate WITH
            Visitors <- Requests, open <- ~Closed, inside <- InFlight,
            used <- row.clickCount, capped <- capped, cap <- cap, late <- late

(* The link keeps the promises of VisitGate: no handler, cron or failure   *)
(* lets a visit in while the link is closed or its clicks are used up, and *)
(* no write computed from an old row changes the click count.              *)
ImplementsGate == Gate!Spec

(* Once a link is blocked, disabled, archived or deleted (a one-time link  *)
(* is deleted by its first counted visit) only the visits that had passed  *)
(* the checks of resolveShortCode are still answered, so at most as many   *)
(* as the application serves at one time.                                  *)
ClosedDrains == Gate!Drains

(* The check of clickLimit and the increment are two database calls: a     *)
(* link that always had a limit is overrun, but by less than the number of *)
(* visits in progress at one time, however its limit was edited.           *)
LimitOverrunBounded == Gate!Bounded

(* While the row is there every visit answered is in its clickCount except *)
(* those whose increment failed: an edit computed from an older row, a     *)
(* cron or another visit never takes a click back.                         *)
ClicksConserved == Live => serves = row.clickCount + lost

(* A closed link is opened again only by a write of its owner or of an     *)
(* administrator, or by the late activation of a visit; no cron and no     *)
(* other step of a visit does it.                                          *)
ReopenedByHand ==
    [][Closed /\ ~Closed' /\ life # "none"
        => (\E h \in Handlers : Commit(h)) \/ (\E r \in Requests : Activate(r))]_vars

(* A scheduled link whose time has come does not stay scheduled: the       *)
(* hourly cron, a visit, an edit or a deletion ends it.                    *)
ScheduledOpens ==
    (Live /\ row.status = "SCHEDULED" /\ Due) ~> ~(Live /\ row.status = "SCHEDULED" /\ Due)

(* Once nobody edits the link any more the two hourly crons between them   *)
(* close it when it has expired, whether it was active or still waiting to *)
(* be activated.  The exceptions are an edit under way that extends it and *)
(* the two states an update may leave behind that no cron looks for:       *)
(* SCHEDULED without a date, and ARCHIVED though isArchived is false.      *)
Dateless == row.status = "SCHEDULED" /\ row.scheduledAt = Null
HalfRestored == row.status = "ARCHIVED" /\ ~row.isArchived
Quiet == \A h \in Handlers : pending[h] = NoWrite
ExpiryEnforced ==
    <>[]Quiet =>
      ((/\ ~Closed /\ Expired
        /\ row.status = "ACTIVE" \/ (row.status = "SCHEDULED" /\ Due))
       ~> (Closed \/ ~Expired \/ Dateless \/ HalfRestored))

(* "Blocked links cannot be accessed via their short code": what an        *)
(* administrator has blocked stays closed until an administrator decides   *)
(* otherwise.                                                              *)
BlockHolds == moderated => Closed
=============================================================================
