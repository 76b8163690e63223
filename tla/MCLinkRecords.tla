----------------------------- MODULE MCLinkRecords -----------------------------
(***************************************************************************)
(* What links leave behind, for TLC: the clicks that are recorded, the     *)
(* reports on them, and the crons that warn of the end of links.           *)
(* ClickTracking, Analytics and Retention share nothing here; a behaviour  *)
(* is about one part of them: the product of all of them says no more.     *)
(***************************************************************************)
EXTENDS MCClickTracking, MCAnalytics, Retention

CONSTANT h1     \* the owner of the links of Retention

VARIABLE part

recordVars == <<vars, analyticsVars, retentionVars, part>>

(* A link is explored as it nears its deletion and, apart, its expiry.     *)
RecordsInit ==
    /\ Init /\ SmallInit /\ RetentionInit
    /\ part \in {"tracking", "reporting", "deletions", "expiries", "monthly"}
    /\ post[p1].code = p1
    /\ part # "reporting" => /\ post = [l \in Posts |-> [post[p1] EXCEPT !.code = l]]
                             /\ plan[x1] = "PRO"
    /\ part # "monthly" => \A u \in Holders : holder[u].busy /\ holder[u].mails
    /\ part \notin {"monthly", "deletions"} => \A u \in Holders : holder[u].tier = "PRO"
    /\ \A i \in Items :
          /\ item[i].by = h1
          /\ item[i].left = IF part = "expiries" THEN NoticeDays + 1 ELSE NoExpiry
          /\ part \notin {"deletions", "expiries"} => item[i].born = "night"

(* One change that excuses the crons, at most.                             *)
DeletionStep ==
    \/ MorningJobs \/ MissNight \/ TimePasses
    \/ \E months \in KeepLeast .. KeepMost : DeleteOldFreeLinks(months)
    \/ excused = {} /\ (HolderActs \/ \E i \in Items : SetArchived(i))

ExpiryStep ==
    \/ MorningJobs \/ MissNight \/ DisableExpired \/ TimePasses
    \/ surprised = {} /\ \E i \in Items : SetArchived(i)
    \/ \E i \in Items, left \in {NoticeDays - 1, NoticeDays + 1, NoExpiry} : MoveExpiry(i, left)

RecordsNext ==
    \/ part = "tracking" /\ Next /\ UNCHANGED <<analyticsVars, retentionVars, part>>
    \/ part = "reporting" /\ AnalyticsStep /\ UNCHANGED <<vars, retentionVars, part>>
    \/ /\ \/ part = "deletions" /\ DeletionStep
          \/ part = "expiries" /\ ExpiryStep
          \/ part = "monthly" /\ (MonthlyReport \/ HolderActs)
       /\ UNCHANGED <<vars, analyticsVars, part>>

RecordsSpec == RecordsInit /\ [][RecordsNext]_recordVars

RecordsTypeOK == TypeOK /\ AnalyticsTypeOK /\ RetentionTypeOK
=============================================================================
