----------------------------- MODULE MCAnalytics -----------------------------
(***************************************************************************)
(* A small instance of Analytics: reports of one user, two links, and two  *)
(* months of one day each.  While a report runs, one click may come in;    *)
(* the queries of a report on a user answer in one order.                  *)
(***************************************************************************)
EXTENDS Analytics

CONSTANTS x1, p1, p2     \* the user, and his link; what the other is, is left open

OneDayMonths == <<[from |-> 0, days |-> 1], [from |-> 1, days |-> 1]>>

SmallInit ==
    /\ AnalyticsInit
    /\ \A u \in Viewers \ {x1} : plan[u] = "PRO"
    /\ post[p1].by = x1

AtRest == inquiry = Idle
Quiet == AtRest \/ (inquiry.pc = "read" /\ row = before /\ ~stirred)

InOrder(q) ==
    inquiry.of.link = None => q = CHOOSE r \in inquiry.left : TRUE

AnalyticsStep ==
    \/ /\ Visiting /\ Quiet
       /\ \A c \in row' : (c.country = None) = (c.link = p2)
       /\ ~post'[p1].archived /\ (AtRest \/ post' = post)
    \/ \E p \in {Always, Between(0, 0), Between(1, LastDay)} :
          GetAnalyticsSummary(x1, p1, p) \/ GetLinkAnalytics(x1, p1, p) \/ GetGlobalAnalytics(x1, p)
    \/ \E m \in 2 .. Len(Months) : GetUserMonthlyAnalytics(x1, m)
    \/ ~AtRest /\ \E q \in UserQueries \cup LogQueries : Query(q) /\ InOrder(q)
    \/ CountUniques \/ Answer

AnalyticsSmall == SmallInit /\ [][AnalyticsStep]_analyticsVars
=============================================================================
