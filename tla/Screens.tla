------------------------------- MODULE Screens -------------------------------
(***************************************************************************)
(* One tab of the web client and its cache of queries: the pages of module *)
(* Pages over the QueryClient of src/apps/web/src/lib/react-query.ts       *)
(* (TanStack Query 5, external: staleTime of five minutes, no refetch on   *)
(* focus).                                                                 *)
(*                                                                         *)
(* A page fetches what it shows and the cache does not hold or holds as    *)
(* invalid; fetches go on when the page is left, and whatever they bring   *)
(* counts as valid.  When the answer to a mutation arrives, the queries it *)
(* names become invalid, and those on the page are fetched again, in place *)
(* of a fetch that is under way unless that is the first one.              *)
(***************************************************************************)
EXTENDS Naturals, FiniteSets, Functions

CONSTANTS
    Sites,      \* role -> its pages: what they show, what they send
    Missed,     \* mutation and key that its hook leaves out
    MaxVisits,  \* times a page is opened (bound)
    MaxPages,   \* pages ever opened (bound)
    MaxSends,   \* mutations sent (bound)
    None

VARIABLES
    role,     \* of the user of the tab
    page,     \* the one that is open
    opened,   \* those that have been open (for the bound)
    cache,    \* queries with data -> the data
    asked,    \* queries fetched that the server has not read yet
    coming,   \* queries whose answer is on the way -> the data
    failed,   \* queries whose last fetch failed
    sending,  \* the mutation in flight
    answered, \* history: mutations whose answer has arrived since they were last sent
    visits, sends

vars == <<role, page, opened, cache, asked, coming, failed, sending, answered, visits, sends>>

-----------------------------------------------------------------------------
\* Data, with their history: the mutations applied after they were read, and
\* whether an invalidation passed them on their way.
Fresh == [valid |-> TRUE, older |-> {}, late |-> FALSE]

EmptyPage == [shows |-> {}, sends |-> {}]
Idle == [what |-> None, done |-> FALSE]

Fetching == asked \cup DOMAIN coming

Init ==
    /\ role \in DOMAIN Sites
    /\ page = EmptyPage
    /\ opened = {}
    /\ cache = << >>
    /\ asked = {}
    /\ coming = << >>
    /\ failed = {}
    /\ sending = Idle
    /\ answered = {}
    /\ visits = 0
    /\ sends = 0

-----------------------------------------------------------------------------
(* Queries.                                                                *)

\* A page is opened; a fetch that is under way is joined.
Open(p) ==
    /\ visits < MaxVisits
    /\ page' = p
    /\ opened' = opened \cup {p}
    /\ Cardinality(opened') <= MaxPages
    /\ visits' = visits + 1
    /\ asked' = asked \cup {q \in p.shows \ Fetching : q \in DOMAIN cache => ~cache[q].valid}
    /\ failed' = failed \ p.shows
    /\ UNCHANGED <<role, cache, coming, sending, answered, sends>>

\* The server reads what was asked for.
Read ==
    /\ asked # {}
    /\ coming' = [q \in Fetching |-> IF q \in asked THEN Fresh ELSE coming[q]]
    /\ asked' = {}
    /\ UNCHANGED <<role, page, opened, cache, failed, sending, answered, visits, sends>>

\* The answers arrive: data are valid, whatever happened meanwhile.
Arrive ==
    /\ DOMAIN coming # {}
    /\ cache' = [q \in DOMAIN cache \cup DOMAIN coming |->
                    IF q \in DOMAIN coming THEN coming[q] ELSE cache[q]]
    /\ coming' = << >>
    /\ UNCHANGED <<role, page, opened, asked, failed, sending, answered, visits, sends>>

\* The network fails, and again at the retry: the cache stays as it is.
FailToFetch ==
    /\ asked # {}
    /\ failed' = failed \cup asked
    /\ asked' = {}
    /\ UNCHANGED <<role, page, opened, cache, coming, sending, answered, visits, sends>>

-----------------------------------------------------------------------------
(* Mutations.                                                              *)

Click(m) ==
    /\ m \in page.sends
    /\ sends < MaxSends
    /\ sending = Idle
    /\ sending' = [what |-> m, done |-> FALSE]
    /\ sends' = sends + 1
    /\ answered' = answered \ {m}
    /\ UNCHANGED <<role, page, opened, cache, asked, coming, failed, visits>>

\* The server applies it: what has been read before is older than it.
Apply ==
    LET m == sending.what
        Outdated(data) == [q \in DOMAIN data |->
            [data[q] EXCEPT !.older = @ \cup IF q.facts \cap m.changes = {} THEN {} ELSE {m}]]
    IN  /\ sending # Idle /\ ~sending.done
        /\ sending' = [sending EXCEPT !.done = TRUE]
        /\ cache' = Outdated(cache)
        /\ coming' = Outdated(coming)
        /\ UNCHANGED <<role, page, opened, asked, failed, answered, visits, sends>>

\* It is refused, or its answer is lost: nothing is invalidated.
NoAnswer ==
    /\ sending # Idle
    /\ sending' = Idle
    /\ UNCHANGED <<role, page, opened, cache, asked, coming, failed, answered, visits, sends>>

\* Mutant: what is on the page is not fetched again.
OnSuccessQuietly ==
    LET Named(q) == q.key \in sending.what.names
    IN  /\ sending # Idle /\ sending.done
        /\ cache' = [q \in DOMAIN cache |-> [cache[q] EXCEPT !.valid = @ /\ ~Named(q)]]
        /\ coming' = [q \in DOMAIN coming |-> [coming[q] EXCEPT !.late = @ \/ Named(q)]]
        /\ answered' = answered \cup {sending.what}
        /\ sending' = Idle
        /\ UNCHANGED <<role, page, opened, asked, failed, visits, sends>>

\* Each hook's onSuccess is invalidateQueries of the keys it names.
OnSuccess ==
    LET Named(q) == q.key \in sending.what.names
        again == {q \in page.shows \cap DOMAIN cache : Named(q)}
    IN  /\ sending # Idle /\ sending.done
        /\ cache' = [q \in DOMAIN cache |-> [cache[q] EXCEPT !.valid = @ /\ ~Named(q)]]
        /\ asked' = asked \cup again
        /\ coming' = [q \in DOMAIN coming \ again |->
                         [coming[q] EXCEPT !.late = @ \/ Named(q)]]
        /\ answered' = answered \cup {sending.what}
        /\ sending' = Idle
        /\ UNCHANGED <<role, page, opened, failed, visits, sends>>

\* handleLogout loads the login page: the tab starts anew, with any user.
Logout ==
    /\ page # EmptyPage
    /\ role' \in DOMAIN Sites
    /\ page' = EmptyPage /\ opened' = {}
    /\ cache' = << >> /\ coming' = << >>
    /\ asked' = {} /\ failed' = {} /\ answered' = {}
    /\ visits' = 0 /\ sends' = 0
    /\ sending' = Idle

Next ==
    \/ \E p \in Sites[role] : Open(p)
    \/ \E m \in page.sends : Click(m)
    \/ Read
    \/ Arrive
    \/ FailToFetch
    \/ Apply
    \/ NoAnswer
    \/ OnSuccess
    \/ Logout

Spec == Init /\ [][Next]_vars

-----------------------------------------------------------------------------
TypeOK ==
    /\ page \in Sites[role] \cup {EmptyPage}
    /\ asked \cap DOMAIN coming = {}
    /\ failed \cap Fetching = {}
    /\ answered \subseteq UNION {p.sends : p \in Sites[role]}

\* When the answer to a mutation has arrived, what the page shows and is not
\* fetching again takes it into account, but for the queries the hooks leave out,
\* those whose last fetch failed, and those whose data an invalidation passed on
\* their way (a first fetch or one of a page that was left: useQuery then takes
\* the old answer for valid).
PagesAreCurrent ==
    \A q \in (page.shows \cap DOMAIN cache) \ (Fetching \cup failed) :
        ~cache[q].late => \A m \in cache[q].older \cap answered : <<m, q.key>> \in Missed

-----------------------------------------------------------------------------
(* The inductive invariant of PagesAreCurrent.                             *)

Shown == UNION {p.shows : p \in Sites[role]}
Sent == UNION {p.sends : p \in Sites[role]}

\* Everything belongs to the pages of the role.
OfTheRole ==
    /\ role \in DOMAIN Sites
    /\ page = EmptyPage \/ page \in Sites[role]
    /\ asked \subseteq Shown /\ DOMAIN cache \subseteq Shown /\ DOMAIN coming \subseteq Shown
    /\ answered \subseteq Sent
    /\ sending # Idle => sending.what \in Sent

\* The mutations some data are behind are among those that change what it tells,
\* and if one is answered its hook leaves the query out.
UpToDate(q, data) ==
    /\ data \in [valid : BOOLEAN, older : SUBSET Sent, late : BOOLEAN]
    /\ \A m \in data.older : q.facts \cap m.changes # {}
    /\ data.valid /\ ~data.late => \A m \in data.older \cap answered : <<m, q.key>> \in Missed

\* An invalid query that is shown is being fetched, or its last fetch failed; the
\* mutation in flight is not answered.
ScreensInv ==
    /\ OfTheRole
    /\ sending # Idle => sending.what \notin answered
    /\ \A q \in DOMAIN cache :
          /\ UpToDate(q, cache[q])
          /\ q \in page.shows /\ ~cache[q].valid => q \in Fetching \cup failed
    /\ \A q \in DOMAIN coming : UpToDate(q, coming[q]) /\ coming[q].valid
==============================================================================
