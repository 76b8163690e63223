------------------------------ MODULE Analytics ------------------------------
(***************************************************************************)
(* The statistics of links that are computed on demand: the click log and  *)
(* the summary of one link, the overview of all links of a user, and the   *)
(* figures of his monthly report.  The queries of a report run in parallel *)
(* (Promise.all), each on the database as it is then, while links are      *)
(* visited; the unique clicks of the best links are counted afterwards.    *)
(*                                                                         *)
(* A count is the set of the rows counted, and a sum over groups the union *)
(* of the groups.  Of the groupings by country, city, device, browser,     *)
(* system and referrer, which are alike, there is one, by country.         *)
(***************************************************************************)
EXTENDS Integers, FiniteSets, Sequences, Steps

CONSTANTS
    Viewers,      \* the users
    Posts,        \* bound: their links
    Guests,       \* the visitors
    Countries,    \* where a click may come from
    LastDay,      \* bound: the days, 0 .. LastDay
    Months,       \* the first day of each month, and how many it has: <<[from, days], ...>>
    MaxRows,      \* bound: the clicks
    TopLinks,     \* how many links a report ranks (5),
    TopCountries, \* how many countries (5, or 10 in the summary of a PRO user's link)
    FreeDays,     \* the days of the chart when no dates are asked for (7,
    ProDays,      \* and 90 for PRO users)
    PageRows      \* the rows on a page of the click log

ASSUME ReportAssumption ==
    /\ {LastDay, MaxRows, TopLinks, TopCountries, FreeDays, ProDays, PageRows} \subseteq Nat
    /\ Months \in Seq([from: Nat, days: Nat])

VARIABLES
    plan,         \* the tier of each user
    post,         \* the rows of Link
    row,          \* the rows of LinkAnalytics
    today,        \* the day
    inquiry,      \* where the report stands, what it is of, and the queries under way
    figures,      \* the results of its queries
    (* observations of the run, read by no action *)
    before,       \* the clicks when the report began
    stirred       \* whether a link changed since

analyticsTables == <<plan, post, row, today>>
analyticsReport == <<inquiry, figures, before, stirred>>
analyticsVars == <<analyticsTables, analyticsReport>>

None == "none"                                        \* SQL's NULL
Always == [from |-> 0, to |-> LastDay, asked |-> FALSE]   \* no dates are asked for
Between(from, to) == [from |-> from, to |-> to, asked |-> TRUE]

(* A link that was given an alias has no short code.                       *)
AnalyticsInit ==
    /\ plan \in [Viewers -> {"FREE", "PRO"}]
    /\ post \in [Posts -> [by: Viewers, code: Posts \cup {None}, archived: {FALSE}, since: {0}]]
    /\ \A l \in Posts : post[l].code \in {l, None}
    /\ row = {} /\ today = 0
    /\ inquiry = Idle /\ figures = <<>>
    /\ before = {} /\ stirred = FALSE

-----------------------------------------------------------------------------
(* Links and their visits                                                  *)

Visited(l, g) == \E c \in row : c.link = l /\ c.visitor = g

(* trackLinkClick (ClickTracking has its race).                            *)
Click(l, g, country) ==
    /\ Cardinality(row) < MaxRows
    /\ ~post[l].archived
    /\ row' = row \cup {[id |-> Cardinality(row), link |-> l, day |-> today, visitor |-> g,
                         isUnique |-> ~Visited(l, g), country |-> country]}
    /\ UNCHANGED <<plan, post, today, analyticsReport>>

ArchivePost(l) ==
    /\ post' = [post EXCEPT ![l].archived = ~@]
    /\ stirred' = TRUE
    /\ UNCHANGED <<plan, row, today, inquiry, figures, before>>

DayEnds ==
    /\ today < LastDay /\ today' = today + 1
    /\ stirred' = TRUE
    /\ UNCHANGED <<plan, post, row, inquiry, figures, before>>

-----------------------------------------------------------------------------
(* Queries.  w is the report: its user, its link or None, and its period.  *)

Within(day, period) == period.from <= day /\ day <= period.to

(* where: { link: { userId } } or { linkId }, with the filter on clickedAt *)
Owns(w, c) == IF w.link = None THEN post[c.link].by = w.by ELSE c.link = w.link
Clicks(w) == {c \in row : Owns(w, c) /\ Within(c.day, w.period)}
Uniques(clicks) == {c \in clicks : c.isUnique}

HisLinks(w) == {l \in Posts : post[l].by = w.by}
HisActive(w) == {l \in HisLinks(w) : ~post[l].archived}

(* T is the first n of all, ordered by how many rows each has.             *)
Leads(T, all, n, Of(_)) ==
    /\ Cardinality(T) = IF Cardinality(all) < n THEN Cardinality(all) ELSE n
    /\ \A t \in T, o \in all \ T : Cardinality(Of(t)) >= Cardinality(Of(o))

(* The links are ranked by all their clicks, and shown with those of the   *)
(* period; links without any are left out.                                 *)
RankedLinks(w) ==
    LET ofLink(l) == {c \in row : c.link = l}
        inPeriod(l) == ofLink(l) \cap Clicks(w)
    IN  {{[link |-> l, clicks |-> inPeriod(l)] : l \in {t \in T : inPeriod(t) # {}}} :
            T \in {S \in SUBSET HisActive(w) : Leads(S, HisActive(w), TopLinks, ofLink)}}

RankedCountries(w) ==
    LET from(country) == {c \in Clicks(w) : c.country = country}
        all == {country \in Countries : from(country) # {}}
    IN  {UNION {from(country) : country \in T} :
            T \in {S \in SUBSET all : Leads(S, all, TopCountries, from)}}

(* Without dates the chart has the recent days only.                       *)
Recent(w) == IF plan[w.by] = "PRO" THEN ProDays ELSE FreeDays

ChartFromStart(w) ==                              \* mutant: the end of the period is forgotten
    {c \in row : Owns(w, c) /\ IF w.period.asked THEN c.day >= w.period.from
                               ELSE c.day >= today - Recent(w)}

Chart(w) ==
    {c \in row : Owns(w, c) /\ IF w.period.asked THEN Within(c.day, w.period)
                               ELSE c.day >= today - Recent(w)}

(* The period before: setMonth keeps the number of the day, and runs over  *)
(* into the reported month where the month before is shorter; the overview *)
(* takes the 30 days before each date, here the days of the first month.   *)
PeriodBefore(w) ==
    IF w.month > 1 THEN Between(Months[w.month - 1].from,
                                Months[w.month - 1].from + Months[w.month].days - 1)
    ELSE Between(w.period.from - Months[1].days, w.period.to - Months[1].days)

PreviousClicks(w) ==
    IF w.period.asked THEN Clicks([w EXCEPT !.period = PeriodBefore(w)]) ELSE {}

(* The first page of the click log, newest first.                          *)
FirstRows(clicks) ==
    {c \in clicks : Cardinality({d \in clicks : d.id > c.id}) < PageRows}

Result(q, w) ==
    CASE q = "totalClicks"           -> {Clicks(w)}
      [] q = "uniqueVisitors"        ->
            {IF w.link = None THEN {c.visitor : c \in Uniques(Clicks(w))} ELSE Uniques(Clicks(w))}
      [] q = "totalActiveLinks"      -> {HisActive(w)}
      [] q = "linksCreatedThisMonth" -> {{l \in HisLinks(w) : Within(post[l].since, w.period)}}
      [] q = "previousMonthClicks"   -> {PreviousClicks(w)}
      [] q = "topLinks"              -> RankedLinks(w)
      [] q = "topCountries"          -> RankedCountries(w)
      [] q = "clicksByDate"          -> {Chart(w)}
      [] q = "itemCount"             -> {Clicks(w)}
      [] q = "data"                  -> {FirstRows(Clicks(w))}

LinkQueries == {"totalClicks", "uniqueVisitors", "topCountries", "clicksByDate"}
UserQueries == LinkQueries \cup
    {"totalActiveLinks", "linksCreatedThisMonth", "previousMonthClicks", "topLinks"}
LogQueries == {"itemCount", "data"}

-----------------------------------------------------------------------------
(* Reports                                                                 *)

Begin(w, queries) ==
    /\ inquiry = Idle
    /\ inquiry' = [pc |-> "read", of |-> w, left |-> queries]
    /\ figures' = [q \in queries |-> {}]
    /\ before' = row /\ stirred' = FALSE
    /\ UNCHANGED analyticsTables

Of(u, l, period, month) == [by |-> u, link |-> l, period |-> period, month |-> month]

(* getLinkAnalytics; for FREE users the log is empty.                      *)
GetLinkAnalytics(u, l, period) ==
    /\ post[l].by = u /\ plan[u] = "PRO"
    /\ Begin(Of(u, l, period, 0), LogQueries)

(* getAnalyticsSummary, of a link of the user.                             *)
GetAnalyticsSummary(u, l, period) ==
    /\ post[l].by = u
    /\ Begin(Of(u, l, period, 0), LinkQueries)

GetGlobalAnalytics(u, period) == Begin(Of(u, None, period, 0), UserQueries)

(* getUserMonthlyAnalytics, of the month that is over.                     *)
GetUserMonthlyAnalytics(u, m) ==
    /\ Months[m].from + Months[m].days <= today
    /\ Begin(Of(u, None, Between(Months[m].from, Months[m].from + Months[m].days - 1), m),
             UserQueries)

Query(q) ==
    /\ inquiry.pc = "read" /\ q \in inquiry.left
    /\ \E rows \in Result(q, inquiry.of) : figures' = [figures EXCEPT ![q] = rows]
    /\ inquiry' = [inquiry EXCEPT !.left = @ \ {q}]
    /\ UNCHANGED <<analyticsTables, before, stirred>>

(* The unique clicks of the best links, found by the short codes of these. *)
UniqueClicks(l, w) ==
    {c \in row : post[c.link].code = post[l].code /\ c.isUnique /\ Within(c.day, w.period)}

CountUniques ==
    /\ inquiry.pc = "read" /\ inquiry.left = {}
    /\ inquiry' = [inquiry EXCEPT !.pc = "done"]
    /\ figures' = IF inquiry.of.link # None THEN figures
                  ELSE [figures EXCEPT !["topLinks"] =
                           {[link |-> t.link, clicks |-> t.clicks,
                             uniqueClicks |-> UniqueClicks(t.link, inquiry.of)] : t \in @}]
    /\ UNCHANGED <<analyticsTables, before, stirred>>

Answer ==
    /\ inquiry.pc = "done"
    /\ inquiry' = Idle /\ figures' = <<>> /\ before' = {} /\ stirred' = FALSE
    /\ UNCHANGED analyticsTables

-----------------------------------------------------------------------------

Visiting ==
    \/ \E l \in Posts : ArchivePost(l) \/ \E g \in Guests, c \in Countries \cup {None} : Click(l, g, c)
    \/ DayEnds

Periods == {Always} \cup {Between(from, to) : from \in 0 .. LastDay, to \in 0 .. LastDay}

Reporting ==
    \/ \E u \in Viewers :
          \/ \E l \in Posts, p \in Periods : GetAnalyticsSummary(u, l, p) \/ GetLinkAnalytics(u, l, p)
          \/ \E p \in Periods : GetGlobalAnalytics(u, p)
          \/ \E m \in 2 .. Len(Months) : GetUserMonthlyAnalytics(u, m)
    \/ \E q \in UserQueries \cup LogQueries : Query(q)
    \/ CountUniques \/ Answer

AnalyticsNext == Visiting \/ Reporting

AnalyticsSpec == AnalyticsInit /\ [][AnalyticsNext]_analyticsVars

-----------------------------------------------------------------------------
(* Properties                                                              *)

ClickRow == [id: 0 .. MaxRows, link: Posts, day: 0 .. LastDay, visitor: Guests,
             isUnique: BOOLEAN, country: Countries \cup {None}]

AnalyticsTypeOK ==
    /\ plan \in [Viewers -> {"FREE", "PRO"}]
    /\ post \in [Posts -> [by: Viewers, code: Posts \cup {None}, archived: BOOLEAN, since: {0}]]
    /\ row \subseteq ClickRow /\ today \in 0 .. LastDay
    /\ inquiry.pc \in {"idle", "read", "done"}
    /\ inquiry.pc # "idle" =>
          inquiry.left \subseteq DOMAIN figures /\ DOMAIN figures \in {LinkQueries, UserQueries, LogQueries}
    /\ before \subseteq row

Reported(queries) == inquiry.pc = "done" /\ queries \subseteq DOMAIN figures
Shown == {t.clicks : t \in figures["topLinks"]}

(* The figures of a report agree, as far as queries of different instants  *)
(* can: every click that was there when the report began and is in its     *)
(* period is in the total and in the chart, and none of another period is; *)
(* groups hold no other clicks; the best links, if these are all, have all *)
(* the clicks; the page of the log misses none while it has room.          *)
ReportCoheres ==
    LET w == inquiry.of
        due == Clicks(w) \cap before
    IN  /\ Reported(LinkQueries) =>
              /\ due \subseteq figures["totalClicks"]
              /\ w.period.asked => due \subseteq figures["clicksByDate"]
              /\ figures["clicksByDate"] \cup figures["topCountries"] \subseteq Clicks(w)
              /\ Cardinality(figures["uniqueVisitors"]) <= Cardinality(Clicks(w))
        /\ Reported(UserQueries) =>
              /\ UNION Shown \subseteq Clicks(w)
              /\ ~stirred /\ Cardinality(HisActive(w)) <= TopLinks =>
                    {c \in due : ~post[c.link].archived} \subseteq UNION Shown
        /\ Reported(LogQueries) =>
              /\ figures["data"] \subseteq Clicks(w)
              /\ Cardinality(Clicks(w)) <= PageRows => due \subseteq figures["data"]
=============================================================================
