------------------------------ MODULE Analytics ------------------------------
(***************************************************************************)
(* The figures of src/apps/api/src/analytics/: how they are computed from  *)
(* the rows of the database, and how long they are served from Redis.      *)
(*                                                                         *)
(* Times are whole numbers, DayLength of them to a day; a range is a pair  *)
(* of times.  Services elsewhere write the rows (module Registration has   *)
(* their steps): here a change is one action, and one more when the key    *)
(* of the event is dropped.                                                *)
(***************************************************************************)
EXTENDS Integers, FiniteSets, Functions, Sequences

CONSTANTS
    Users, Events,
    Times,       \* times at which rows are written
    Creator,     \* event -> user
    CoOrganizers,\* event -> users who accepted to organize it
    Admins,      \* users of the role ADMIN
    CategoryOf,  \* event -> its categories
    DepartmentOf,\* user -> department, or None
    DayLength,   \* times per day
    WeekLength,  \* days per week (7)
    Presets,     \* days back from now (7, 30, 90)
    MostDays,    \* the longest range with a point per day (90)
    MaxChanges,  \* rows written and changed (bound)
    None

VARIABLES
    now,
    registrations, \* rows: a sequence, in the order they were written
    attendance,    \* rows: pairs of user and event -> time of check-in
    key,           \* a key of Redis (no action concerns two of them)
    cached,        \* its value: what it misses
    fetch,         \* a request that missed the cache and has read its rows
    doomed,        \* keys to be dropped: the change is committed
    canceling,     \* rows to be cancelled: the key is already dropped
    changes

vars == <<now, registrations, attendance, key, cached, fetch, doomed, canceling, changes>>

-----------------------------------------------------------------------------
(* Ranges.                                                                 *)

Range2(start, end) == [start |-> start, end |-> end]

\* resolveTimeRange: a preset ends now, a custom range may not be reversed (400), nor
\* end more than five years ago.
resolveTimeRange(t) ==
    {Range2(t - days * DayLength, t) : days \in Presets}
    \cup {r \in [start : Times, end : Times] : r.start <= r.end}

In(t, r) == r.start <= t /\ t <= r.end

Day(t) == t \div DayLength
WeekStart(t) == Day(t) - (Day(t) % WeekLength)  \* getWeekStart

\* Zero for every day or week of the range, and one more for each date in it.
Series(keys, Key(_), dates) ==
    [k \in keys |-> Cardinality({i \in DOMAIN dates : Key(dates[i]) = k})]

\* Mutant: the last day is left out.
DailySeriesTo(r, dates) == Series(Day(r.start) .. (Day(r.end) - 1), Day, dates)

buildDailySeries(r, dates) == Series(Day(r.start) .. Day(r.end), Day, dates)
buildWeeklySeries(r, dates) ==
    Series({w \in WeekStart(r.start) .. WeekStart(r.end) : w % WeekLength = 0}, WeekStart, dates)

\* Math.ceil of the days from start to end, of more than 90 days by the week.
useWeekly(r) == r.end - r.start > MostDays * DayLength
Trend(r, dates) == IF useWeekly(r) THEN buildWeeklySeries(r, dates) ELSE buildDailySeries(r, dates)

PointOf(r, t) == IF useWeekly(r) THEN WeekStart(t) ELSE Day(t)

-----------------------------------------------------------------------------
(* Figures, of the registrations of events E in range r.                   *)

RowsOf(E, r) ==
    {i \in DOMAIN registrations : registrations[i].event \in E /\ In(registrations[i].at, r)}
WithStatus(rows, s) == {i \in rows : registrations[i].status = s}
Arrived(E, r) == {p \in DOMAIN attendance : p[2] \in E /\ In(attendance[p], r)}
Dates(rows) == [i \in rows |-> registrations[i].at]
Rate(arrived, confirmed) == IF confirmed > 0 THEN (arrived * 100) \div confirmed ELSE 0

\* getOrganizerEventFilter: the events a user created, and those the user accepted
\* to organize (module Team).
CreatedBy(u) == {e \in Events : Creator[e] = u}
EventsOf(u) == CreatedBy(u) \cup {e \in Events : u \in CoOrganizers[e]}
Scopes == {Events} \cup {EventsOf(u) : u \in Users}

EventFigures(e, r) ==
    LET rows == RowsOf({e}, r)
    IN  [totalRegistrations |-> Cardinality(rows),
         confirmedRegistrations |-> Cardinality(WithStatus(rows, "CONFIRMED")),
         cancelledRegistrations |-> Cardinality(WithStatus(rows, "CANCELLED")),
         attendanceCount |-> Cardinality(Arrived({e}, r))]

\* getAdminArchive and getOrganizerArchive use all rows of an event.
ArchiveFigures(e) ==
    LET rows == {i \in DOMAIN registrations : registrations[i].event = e}
        arrived == {p \in DOMAIN attendance : p[2] = e}
    IN  [totalRegistrations |-> Cardinality(rows),
         attendanceRate |-> Rate(Cardinality(arrived), Cardinality(WithStatus(rows, "CONFIRMED")))]

getEventTrends(e, r) == Trend(r, Dates(RowsOf({e}, r)))
getAdminTrends(E, r) == Trend(r, Dates(RowsOf(E, r)))

\* Ten events, by the rate of attendance.
TopEvent(e, r) ==
    LET rows == RowsOf({e}, r)
        arrived == Cardinality(Arrived({e}, r))
    IN  [event |-> e, registrations |-> Cardinality(rows), attendance |-> arrived,
         rate |-> Rate(arrived, Cardinality(WithStatus(rows, "CONFIRMED")))]
getTopEvents(E, r) ==
    LET tops == {TopEvent(e, r) : e \in E}
        kept == CHOOSE T \in SUBSET tops :
                    /\ Cardinality(T) = IF Cardinality(tops) < 10 THEN Cardinality(tops) ELSE 10
                    /\ \A x \in T, y \in tops \ T : x.rate >= y.rate
    IN  kept

\* All-time registrations of the events a user created; administrators are not listed.
getTopOrganizer ==
    [u \in Users \ Admins |->
        [totalEvents |-> Cardinality(CreatedBy(u)),
         totalRegistrations |->
            Cardinality({i \in DOMAIN registrations : registrations[i].event \in CreatedBy(u)})]]

getCategoryAnalytics(c, E, r) == Cardinality(RowsOf({e \in E : c \in CategoryOf[e]}, r))
getDepartmentAnalytics(d, E, r) ==
    Cardinality({i \in RowsOf(E, r) : DepartmentOf[registrations[i].user] = d})

getAdminOverview ==
    [totalRegistrations |-> Len(registrations), totalAttendance |-> Cardinality(DOMAIN attendance),
     pendingRegistrations |-> Cardinality(WithStatus(DOMAIN registrations, "PENDING"))]
getOrganizerOverview(u) ==
    LET rows == {i \in DOMAIN registrations : registrations[i].event \in EventsOf(u)}
    IN  [totalEvents |-> Cardinality(EventsOf(u)), totalRegistrations |-> Cardinality(rows),
         pendingApprovals |-> Cardinality(WithStatus(rows, "PENDING"))]

\* Active users, by the number of their registrations.
getUserEngagement(r) ==
    LET rows == RowsOf(Events, r)
        Of(u) == Cardinality({i \in rows : registrations[i].user = u})
        Bucket(low, high) == Cardinality({u \in Users : low <= Of(u) /\ Of(u) <= high})
    IN  [activeUsers |-> Cardinality({registrations[i].user : i \in rows}),
         repeatEngagement |-> <<Bucket(1, 1), Bucket(2, 2), Bucket(3, 5),
                                Bucket(6, Len(registrations))>>]

-----------------------------------------------------------------------------
(* The rows change, and one key of Redis.                                  *)

\* Per event (whatever the range), for administrators, and by a hash of range
\* and user for each chart.
CacheKeys == Events \cup {"overview", "chart"}

Nothing == [filled |-> FALSE, missing |-> {}, late |-> FALSE]
Read == [filled |-> TRUE, missing |-> {}, late |-> FALSE]

Init ==
    /\ now \in Times
    /\ registrations = << >>
    /\ attendance = << >>
    /\ key \in CacheKeys
    /\ cached = Nothing
    /\ fetch = Nothing
    /\ doomed = {}
    /\ canceling = {}
    /\ changes = 0

Tick ==
    /\ \E t \in Times : t > now /\ now' = t
    /\ UNCHANGED <<registrations, attendance, key, cached, fetch, doomed, canceling, changes>>

\* What every value read before misses; the charts read the rows of all events.
Change(e, kind) ==
    LET Missing(v) == IF ~v.filled \/ key \in Events \ {e} THEN v
                      ELSE [v EXCEPT !.missing = v.missing \cup {kind}]
    IN  /\ changes < MaxChanges
        /\ changes' = changes + 1
        /\ cached' = Missing(cached)
        /\ fetch' = Missing(fetch)

\* invalidateEventCache.
Drop(e) ==
    /\ cached' = IF key = e THEN Nothing ELSE cached
    /\ fetch' = IF key = e /\ fetch.filled THEN [fetch EXCEPT !.late = TRUE] ELSE fetch

\* register, or promoteNext with a cancellation: no key is dropped after it.
Register(u, e, status) ==
    /\ ~\E i \in DOMAIN registrations :
            registrations[i].user = u /\ registrations[i].event = e
            /\ registrations[i].status # "CANCELLED"
    /\ registrations' =
            Append(registrations, [user |-> u, event |-> e, status |-> status, at |-> now])
    /\ Change(e, "register")
    /\ UNCHANGED <<now, key, attendance, doomed, canceling>>

\* approveByOrganizer and rejectByOrganizer, of a row of any status: an update, then
\* the key is dropped.
Decide(i, status) ==
    LET e == registrations[i].event
    IN  /\ registrations' = [registrations EXCEPT ![i].status = status]
        /\ Change(e, "decide")
        /\ doomed' = doomed \cup {e}
        /\ UNCHANGED <<now, key, attendance, canceling>>

\* Mutant: rejectByOrganizer and approveByOrganizer leave the key.
DecideQuietly(i, status) ==
    /\ registrations' = [registrations EXCEPT ![i].status = status]
    /\ Change(registrations[i].event, "decide")
    /\ UNCHANGED <<now, key, attendance, doomed, canceling>>

DropDoomed(e) ==
    /\ e \in doomed
    /\ doomed' = doomed \ {e}
    /\ Drop(e)
    /\ UNCHANGED <<now, key, registrations, attendance, canceling, changes>>

\* cancelByGuest and removeByOrganizer drop the key inside their transaction; the
\* latter takes rows of any status.
StartCancel(i) ==
    /\ i \notin canceling
    /\ canceling' = canceling \cup {i}
    /\ Drop(registrations[i].event)
    /\ UNCHANGED <<now, key, registrations, attendance, doomed, changes>>

CommitCancel(i) ==
    /\ i \in canceling
    /\ canceling' = canceling \ {i}
    /\ registrations' = [registrations EXCEPT ![i].status = "CANCELLED"]
    /\ Change(registrations[i].event, "cancel")
    /\ UNCHANGED <<now, key, attendance, doomed>>

\* The check-ins of module attendance: no key is dropped.
CheckIn(i) ==
    LET p == <<registrations[i].user, registrations[i].event>>
    IN  /\ registrations[i].status = "CONFIRMED"
        /\ p \notin DOMAIN attendance
        /\ attendance' = [x \in DOMAIN attendance \cup {p} |-> IF x = p THEN now ELSE attendance[x]]
        /\ Change(p[2], "checkIn")
        /\ UNCHANGED <<now, key, registrations, doomed, canceling>>

\* A request misses the cache and reads the rows, or refreshes the overview (the
\* one of the administrator's button and the one of every hour).
Compute ==
    /\ ~fetch.filled
    /\ ~cached.filled \/ key = "overview"
    /\ fetch' = Read
    /\ UNCHANGED <<now, registrations, attendance, key, cached, doomed, canceling, changes>>

setCached ==
    /\ fetch.filled
    /\ cached' = fetch
    /\ fetch' = Nothing
    /\ UNCHANGED <<now, registrations, attendance, key, doomed, canceling, changes>>

\* Five minutes have passed.
Expire ==
    /\ cached.filled
    /\ cached' = Nothing
    /\ UNCHANGED <<now, registrations, attendance, key, fetch, doomed, canceling, changes>>

Next ==
    \/ Tick
    \/ \E u \in Users, e \in Events, s \in {"PENDING", "CONFIRMED"} : Register(u, e, s)
    \/ \E i \in DOMAIN registrations :
        \/ \E s \in {"CONFIRMED", "CANCELLED"} : Decide(i, s)
        \/ StartCancel(i)
        \/ CommitCancel(i)
        \/ CheckIn(i)
    \/ \E e \in Events : DropDoomed(e)
    \/ Compute
    \/ setCached
    \/ Expire

Spec == Init /\ [][Next]_vars

-----------------------------------------------------------------------------
\* The cached figures of an event miss nothing but registrations, check-ins,
\* cancellations under way when they were read, and what a request that was
\* computing them when the key was dropped had not seen.
FiguresAreCurrent ==
    key \in Events /\ "decide" \in cached.missing => cached.late \/ key \in doomed

\* The numbers of an event do not exceed each other, the buckets of engagement add up
\* to the active users, the list of the top organizers credits nobody with more events
\* or registrations than the own overview counts, and every registration of the range
\* has its point in the series.
CountsAgree(r) ==
    /\ \A e \in Events :
        LET figures == EventFigures(e, r)
        IN  /\ figures.confirmedRegistrations + figures.cancelledRegistrations
                    <= figures.totalRegistrations
            /\ figures.totalRegistrations <= ArchiveFigures(e).totalRegistrations
    /\ LET engagement == getUserEngagement(r)
           b == engagement.repeatEngagement
       IN  b[1] + b[2] + b[3] + b[4] = engagement.activeUsers
    /\ \A u \in Users \ Admins :
        LET listed == getTopOrganizer[u]
            own == getOrganizerOverview(u)
        IN  /\ listed.totalEvents <= own.totalEvents
            /\ listed.totalRegistrations <= own.totalRegistrations
    /\ \A E \in Scopes : \A i \in RowsOf(E, r) :
        PointOf(r, registrations[i].at) \in DOMAIN getAdminTrends(E, r)

\* The series of an event and of a scope add up to its registrations, as do the events
\* of the top list while they are ten or less; the departments, to those of users who
\* have one; the categories, to no less than those of the events that have some.
\* The top organizers add up to the registrations for events that no administrator
\* created, the overviews, which share the events that several organize, to no less
\* than the administrators'.
TotalsAgree(r) ==
    /\ \A e \in Events :
        SumFunction(getEventTrends(e, r)) = EventFigures(e, r).totalRegistrations
    /\ \A E \in Scopes :
        LET rows == RowsOf(E, r)
            top == SumFunction([x \in getTopEvents(E, r) |-> x.registrations])
            departments == {DepartmentOf[u] : u \in Users} \ {None}
            categories == UNION {CategoryOf[e] : e \in Events}
        IN  /\ SumFunction(getAdminTrends(E, r)) = Cardinality(rows)
            /\ top <= Cardinality(rows)
            /\ Cardinality(E) <= 10 => top = Cardinality(rows)
            /\ SumFunction([d \in departments |-> getDepartmentAnalytics(d, E, r)])
                    = Cardinality({i \in rows : DepartmentOf[registrations[i].user] # None})
            /\ SumFunction([c \in categories |-> getCategoryAnalytics(c, E, r)])
                    >= Cardinality(RowsOf({e \in E : CategoryOf[e] # {}}, r))
    /\ SumFunction([u \in Users \ Admins |-> getTopOrganizer[u].totalRegistrations])
            = Cardinality({i \in DOMAIN registrations : Creator[registrations[i].event] \notin Admins})
    /\ SumFunction([u \in Users |-> getOrganizerOverview(u).totalRegistrations])
            >= getAdminOverview.totalRegistrations

\* When a request has read the rows, reports agree, for every range and scope.
ReportsAgree == fetch = Read => \A r \in resolveTimeRange(now) : CountsAgree(r) /\ TotalsAgree(r)
==============================================================================
