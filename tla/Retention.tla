------------------------------ MODULE Retention ------------------------------
(***************************************************************************)
(* The crons of the worker that warn of what is about to go, delete the    *)
(* old links of FREE users, disable expired ones, and report every month.  *)
(*                                                                         *)
(* A day has a night (3:00) and a morning (9:00); a link turns a day older *)
(* between the one and the other.  A run of a cron is one reading of the   *)
(* database, then one publication per user; the order of the users and     *)
(* what the mails say are left out.  A run ends before the next instant.   *)
(***************************************************************************)
EXTENDS Integers, FiniteSets, Steps

CONSTANTS
    Holders,     \* the users
    Items,       \* their links
    WarnFrom,    \* the age in days from which a warning is sent (83),
    WarnTo,      \* and at which no longer (89)
    KeepLeast,   \* three calendar months at least (89 days),
    KeepMost,    \* and at most (92 days)
    NoticeDays,  \* how long before it expires a link is announced (3 days)
    MaxMisses    \* bound: the mornings a run failed, or did not take place

ASSUME AgesAssumption ==
    /\ {WarnFrom, WarnTo, KeepLeast, KeepMost, NoticeDays, MaxMisses} \subseteq Nat
    /\ 0 < WarnFrom /\ WarnFrom < WarnTo /\ WarnTo <= KeepLeast /\ KeepLeast <= KeepMost

VARIABLES
    holder,      \* the users: tier, whether they want mails, whether they had activity
    item,        \* the links: owner, age, the days until they expire, and so on
    instant,     \* "night" or "morning", and whether its crons have run
    deletion,    \* the run of the warnings of deletion: the users left to warn
    expiry,      \* the run of the announcements of expiry
    report,      \* the run of the monthly report
    misses,      \* the mornings lost
    (* observations of the run, read by no action *)
    excused,     \* links that did not qualify all the time for a warning of deletion
    surprised,   \* nor for an announcement of their expiry
    warned,      \* links a warning of whose deletion was published
    announced,   \* links whose expiry was announced
    reports,     \* the reports published to each user
    changed,     \* the users whose tier or wish changed during the report
    unreported   \* those whose own report failed

itemTable == <<holder, item>>
cronRuns == <<deletion, expiry, report>>
retentionObserved == <<excused, surprised, warned, announced, reports, changed, unreported>>
retentionVars == <<itemTable, instant, cronRuns, misses, retentionObserved>>

NoExpiry == NoticeDays + 2

RetentionInit ==
    /\ holder \in [Holders -> [tier: {"FREE", "PRO"}, mails: BOOLEAN, busy: BOOLEAN]]
    /\ item \in [Items -> [status: {"ACTIVE"}, by: Holders, age: {WarnFrom - 1}, born: {"night", "morning"},
                           left: {NoticeDays + 1, NoExpiry}]]
    /\ instant = [at |-> "night", ran |-> FALSE]
    /\ deletion = Idle /\ expiry = Idle /\ report = Idle /\ misses = 0
    /\ excused = {l \in Items : ~holder[item[l].by].mails}
    /\ surprised = excused
    /\ warned = {} /\ announced = {} /\ reports = [u \in Holders |-> 0]
    /\ changed = {} /\ unreported = {}

Held == {l \in Items : item[l].status # "deleted"}
HeldBy(u) == {l \in Held : item[l].by = u}
(* "expired" is DISABLED and in the archive, as disableExpiredLinks leaves *)
(* it; a link that is taken out of the archive too late is DISABLED only.  *)
Archived(l) == item[l].status \in {"ARCHIVED", "expired"}

-----------------------------------------------------------------------------
(* Users                                                                   *)

(* The subscription (Billing), or an administrator, changes the tier.      *)
HolderChanges(u, row) ==
    /\ holder' = [holder EXCEPT ![u] = row]
    /\ excused' = excused \cup HeldBy(u)
    /\ surprised' = surprised \cup {l \in HeldBy(u) : row.mails # holder[u].mails}
    /\ changed' = changed \cup {u}
    /\ UNCHANGED <<item, instant, cronRuns, misses, warned, announced, reports, unreported>>

SwitchTier(u) ==
    HolderChanges(u, [holder[u] EXCEPT !.tier = IF @ = "PRO" THEN "FREE" ELSE "PRO"])

ChangeWish(u) == HolderChanges(u, [holder[u] EXCEPT !.mails = ~@])

ItemChanges(l, row) ==
    /\ item' = [item EXCEPT ![l] = row]
    /\ UNCHANGED <<holder, instant, cronRuns, misses, reports, changed, unreported>>

(* archiveLink and unarchiveLink                                           *)
SetArchived(l) ==
    /\ l \in Held
    /\ ItemChanges(l, [item[l] EXCEPT !.status =
          IF ~Archived(l) THEN "ARCHIVED" ELSE IF item[l].left < 0 THEN "DISABLED" ELSE "ACTIVE"])
    /\ excused' = excused \cup {l} /\ surprised' = surprised \cup {l}
    /\ UNCHANGED <<warned, announced>>

(* updateLink moves the expiry of an active link (LinkLifecycle has the    *)
(* others): the new date is too near for an announcement, or is not.       *)
MoveExpiry(l, left) ==
    /\ item[l].status = "ACTIVE"
    /\ ItemChanges(l, [item[l] EXCEPT !.left = left])
    /\ surprised' = surprised \cup {i \in {l} : left <= NoticeDays}
    /\ announced' = announced \ {l}
    /\ UNCHANGED <<excused, warned>>

-----------------------------------------------------------------------------
(* Time, and the jobs of the night                                         *)

Resting == deletion.pc # "publish" /\ expiry.pc # "publish" /\ report.pc \in {"idle", "done"}

(* All ages beyond KeepMost are alike, and all days after the expiry.      *)
Older(l, at) ==
    IF l \in Held /\ item[l].born = at
    THEN [item[l] EXCEPT !.age = IF @ > KeepMost THEN @ ELSE @ + 1,
                         !.left = IF @ \in {NoExpiry, -1} THEN @ ELSE @ - 1]
    ELSE item[l]

(* The next instant comes; the cron at it may not run, the worker is down. *)
TimePasses ==
    LET at == IF instant.at = "night" THEN "morning" ELSE "night"
    IN  /\ instant.ran /\ Resting
        /\ instant' = [at |-> at, ran |-> FALSE]
        /\ item' = [l \in Items |-> Older(l, at)]
    /\ deletion' = Idle /\ expiry' = Idle
    /\ UNCHANGED <<holder, report, misses, retentionObserved>>

NightPasses(gone) ==
    /\ instant = [at |-> "night", ran |-> FALSE]
    /\ instant' = [instant EXCEPT !.ran = TRUE]
    /\ item' = [l \in Items |-> IF l \in gone THEN [item[l] EXCEPT !.status = "deleted"] ELSE item[l]]
    /\ UNCHANGED <<holder, cronRuns, misses, retentionObserved>>

Free(l) == holder[item[l].by].tier = "FREE"

(* deleteOldFreeLinks: three months before this night is KeepLeast to      *)
(* KeepMost days ago, and links in the archive are deleted too.            *)
DeleteOldFreeLinks(months) ==
    NightPasses({l \in Held : Free(l) /\ item[l].age >= months})

MissNight == NightPasses({})

(* disableExpiredLinks, at every hour.                                     *)
DisableExpired ==
    LET due == {l \in Held : item[l].left < 0 /\ item[l].status = "ACTIVE"}
    IN  /\ due # {}
        /\ item' = [l \in Items |-> IF l \in due THEN [item[l] EXCEPT !.status = "expired"] ELSE item[l]]
        /\ excused' = excused \cup due
    /\ UNCHANGED <<holder, instant, cronRuns, misses, surprised, warned, announced, reports, changed, unreported>>

-----------------------------------------------------------------------------
(* The jobs of the morning                                                 *)

(* Mutant: the warning is sent on the first of the days only.              *)
WarnedOnce(l) == Free(l) /\ ~Archived(l) /\ item[l].age = WarnFrom

NearDeletion(l) == Free(l) /\ ~Archived(l) /\ item[l].age \in WarnFrom .. WarnTo - 1

NearExpiry(l) == item[l].status = "ACTIVE" /\ item[l].left \in 0 .. NoticeDays - 1

Mailable(links) == {l \in links : holder[item[l].by].mails}
RunOf(links) == IF links = {} THEN Done ELSE [pc |-> "publish", left |-> links]

Morning == instant.at = "morning" /\ UNCHANGED <<itemTable, instant>>

FindLinksToWarn ==
    /\ Morning /\ deletion = Idle
    /\ deletion' = RunOf(Mailable({l \in Held : NearDeletion(l)}))
    /\ UNCHANGED <<expiry, report, misses, retentionObserved>>

WarnHolder(u) ==
    /\ Morning /\ deletion.pc = "publish"
    /\ LET his == {l \in deletion.left : item[l].by = u}
       IN  /\ his # {}
           /\ deletion' = RunOf(deletion.left \ his)
           /\ warned' = warned \cup his
    /\ UNCHANGED <<expiry, report, misses, excused, surprised, announced, reports, changed, unreported>>

FindExpiringLinks ==
    /\ Morning /\ expiry = Idle
    /\ expiry' = RunOf(Mailable({l \in Held : NearExpiry(l)}))
    /\ UNCHANGED <<deletion, report, misses, retentionObserved>>

AnnounceTo(u) ==
    /\ Morning /\ expiry.pc = "publish"
    /\ LET his == {l \in expiry.left : item[l].by = u}
       IN  /\ his # {}
           /\ expiry' = RunOf(expiry.left \ his)
           /\ announced' = announced \cup his
    /\ UNCHANGED <<deletion, report, misses, excused, surprised, warned, reports, changed, unreported>>

(* A failure ends the run for all who are left, and so does the worker;    *)
(* nothing remembers them.                                                 *)
Fails(run) == misses < MaxMisses /\ misses' = misses + 1 /\ run \notin {Done}

WarningFails ==
    /\ Morning /\ Fails(deletion) /\ deletion' = Done
    /\ UNCHANGED <<expiry, report, retentionObserved>>

AnnouncementFails ==
    /\ Morning /\ Fails(expiry) /\ expiry' = Done
    /\ UNCHANGED <<deletion, report, retentionObserved>>

MorningEnds ==
    /\ instant = [at |-> "morning", ran |-> FALSE] /\ deletion = Done /\ expiry = Done
    /\ instant' = [instant EXCEPT !.ran = TRUE]
    /\ UNCHANGED <<itemTable, cronRuns, misses, retentionObserved>>

-----------------------------------------------------------------------------
(* sendMonthlyReports: the PRO users are listed, and the FREE users only   *)
(* when all of those have their reports.                                   *)

ReportGoes(run) == report' = run /\ UNCHANGED <<itemTable, instant, deletion, expiry, misses>>

ListedEarlier(t) == {u \in Holders : holder[u].mails}  \* mutant: the tier is not looked at

Recipients(t) == {u \in Holders : holder[u].tier = t /\ holder[u].mails}

ListProUsers ==
    /\ report = Idle
    /\ ReportGoes([pc |-> "PRO", left |-> Recipients("PRO")])
    /\ changed' = {}
    /\ UNCHANGED <<excused, surprised, warned, announced, reports, unreported>>

ListFreeUsers ==
    /\ report.pc = "PRO" /\ report.left = {}
    /\ ReportGoes([pc |-> "FREE", left |-> Recipients("FREE")])
    /\ UNCHANGED retentionObserved

ReportsToAgain(u) ==                             \* mutant: the user stays on the list
    /\ report.pc \in {"PRO", "FREE"} /\ u \in report.left
    /\ ReportGoes(report)
    /\ UNCHANGED <<excused, surprised, warned, announced, changed>>

ReportsTo(u) ==
    /\ report.pc \in {"PRO", "FREE"} /\ u \in report.left
    /\ ReportGoes([report EXCEPT !.left = @ \ {u}])
    /\ UNCHANGED <<excused, surprised, warned, announced, changed>>

(* FREE users without a click and without a new link get none.             *)
SendReport(u) ==
    /\ ReportsTo(u)
    /\ reports' = [reports EXCEPT ![u] =
          IF report.pc = "FREE" /\ ~holder[u].busy THEN @ ELSE @ + 1]
    /\ UNCHANGED unreported

(* A failure is logged, and the next user's turn.                          *)
ReportFails(u) ==
    /\ ReportsTo(u)
    /\ unreported' = unreported \cup {u}
    /\ UNCHANGED reports

ReportEnds ==
    /\ report.pc = "FREE" /\ report.left = {}
    /\ ReportGoes(Done)
    /\ UNCHANGED retentionObserved

-----------------------------------------------------------------------------

MonthlyReport ==
    \/ ListProUsers \/ ListFreeUsers \/ ReportEnds
    \/ \E u \in Holders : SendReport(u) \/ ReportFails(u)

MorningJobs ==
    \/ FindLinksToWarn \/ FindExpiringLinks \/ WarningFails \/ AnnouncementFails \/ MorningEnds
    \/ \E u \in Holders : WarnHolder(u) \/ AnnounceTo(u)

Keeping ==
    \/ TimePasses \/ MissNight \/ DisableExpired
    \/ \E months \in KeepLeast .. KeepMost : DeleteOldFreeLinks(months)
    \/ \E l \in Items :
          \/ SetArchived(l)
          \/ \E left \in {NoticeDays - 1, NoticeDays + 1, NoExpiry} : MoveExpiry(l, left)

HolderActs == \E u \in Holders : SwitchTier(u) \/ ChangeWish(u)

RetentionNext == MonthlyReport \/ MorningJobs \/ Keeping \/ HolderActs

RetentionSpec == RetentionInit /\ [][RetentionNext]_retentionVars

-----------------------------------------------------------------------------
(* Properties                                                              *)

RunRow == {Idle, Done} \cup [pc: {"publish"}, left: SUBSET Items]

RetentionTypeOK ==
    /\ holder \in [Holders -> [tier: {"FREE", "PRO"}, mails: BOOLEAN, busy: BOOLEAN]]
    /\ item \in [Items -> [status: {"ACTIVE", "ARCHIVED", "expired", "DISABLED", "deleted"}, by: Holders,
                           age: 0 .. KeepMost + 1, born: {"night", "morning"},
                           left: -1 .. NoExpiry]]
    /\ instant \in [at: {"night", "morning"}, ran: BOOLEAN]
    /\ deletion \in RunRow /\ expiry \in RunRow
    /\ report \in {Idle, Done} \cup [pc: {"PRO", "FREE"}, left: SUBSET Holders]
    /\ misses \in 0 .. MaxMisses
    /\ UNION {excused, surprised, warned, announced} \subseteq Items
    /\ reports \in [Holders -> 0 .. 2] /\ changed \cup unreported \subseteq Holders

(* "Warn FREE users about links being deleted": a link that deleteOldFree- *)
(* Links deletes was warned of, and one that is disabled as it expires was *)
(* announced, although mornings were lost, if it and its owner qualified   *)
(* for the mail all the time.                                              *)
GoneWereWarned ==
    \A l \in Items :
        /\ item[l].status = "deleted" /\ misses < WarnTo - WarnFrom => l \in warned \cup excused
        /\ item[l].status = "expired" /\ misses < NoticeDays => l \in announced \cup surprised

(* A monthly report has reached every user it is for once, and nobody      *)
(* else, unless his tier or his wish changed while it was sent.            *)
ReportedOnce ==
    report = Done =>
        \A u \in Holders \ changed :
            reports[u] = IF \/ ~holder[u].mails \/ u \in unreported
                            \/ holder[u].tier = "FREE" /\ ~holder[u].busy
                         THEN 0 ELSE 1
=============================================================================
