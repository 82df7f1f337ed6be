------------------------------- MODULE Routing -------------------------------
(***************************************************************************)
(* Where a navigation in the web client ends (src/apps/web/src/): proxy.ts *)
(* on the server decides by the cookie, ProtectedRoute, the dashboard page *)
(* and TelegramAuthHandler in the tab by the store, and the two need not   *)
(* agree: the tab keeps its store when another tab of the browser signs    *)
(* in or out, and a cookie expires.                                        *)
(*                                                                         *)
(* Effects run when a page is mounted; a redirect to the page that is      *)
(* already there mounts nothing.                                           *)
(***************************************************************************)
EXTENDS Naturals, FiniteSets

CONSTANT None

Roles == {"ADMIN", "ORGANIZER", "STAFF", "GUEST", "OTHER"}  \* OTHER: a role added later

\* Routes, one for each way they are treated.
Dashboards == {"/dashboard", "/dashboard/events", "/dashboard/users", "/dashboard/feedback",
               "/dashboard/support", "/dashboard/attendance", "/dashboard/tags"}
Hub == {"/discovery", "/my-events", "/events/1", "/profile"}
Public == {"/", "/login", "/signup", "/graduation", "/feedback", "/unauthorized"}
Routes == Dashboards \cup Hub \cup Public

\* data/all-pages.json; its entry "dashboard" stands for /dashboard/dashboard.
ROUTE_PERMISSIONS == [
    events |-> {"ADMIN", "ORGANIZER", "GUEST", "STAFF"}, users |-> {"ADMIN"},
    feedback |-> {"ADMIN", "ORGANIZER", "GUEST"}, support |-> {"ADMIN", "STAFF"},
    attendance |-> {"ADMIN", "ORGANIZER", "STAFF"}]
PermissionOf == [p \in Dashboards \ {"/dashboard", "/dashboard/tags"} |->
    CASE p = "/dashboard/events" -> ROUTE_PERMISSIONS.events
      [] p = "/dashboard/users" -> ROUTE_PERMISSIONS.users
      [] p = "/dashboard/feedback" -> ROUTE_PERMISSIONS.feedback
      [] p = "/dashboard/support" -> ROUTE_PERMISSIONS.support
      [] p = "/dashboard/attendance" -> ROUTE_PERMISSIONS.attendance]

\* data/main-pages.json and the sidebar of the hub.
Menu(role) ==
    CASE role = "ADMIN" -> Dashboards
      [] role = "ORGANIZER" -> {"/dashboard", "/dashboard/events", "/dashboard/feedback"}
      [] role = "STAFF" -> {"/dashboard"}
      [] role = "GUEST" -> {"/discovery", "/my-events", "/profile"}
      [] OTHER -> {}

VARIABLES
    cookie, \* role in the cookie "auth-storage", None without a session
    disk,   \* the same in localStorage
    store,  \* role in the tab's store, None without a token
    app,    \* "web", "telegram", or "deep": opened in Telegram by the link of an event
    page,   \* the page that is mounted
    target, \* the navigation that is under way, None at rest
    back,   \* redirectTo of the login page
    wanted, \* what the user asked for
    stage,  \* of the navigation: "proxy", "land" or "rest"
    agreed, \* history: cookie and store were the same when it began
    hops    \* redirects since then

vars == <<cookie, disk, store, app, page, target, back, wanted, stage, agreed, hops>>

DashboardUsers == {"ADMIN", "ORGANIZER", "STAFF"}
HomeOf(role) == IF role \in DashboardUsers THEN "/dashboard" ELSE "/discovery"

Init ==
    /\ cookie = None /\ disk = None /\ store = None
    /\ app \in {"web", "telegram", "deep"}
    /\ page = "/" /\ target = None
    /\ back = None
    /\ wanted = "/"
    /\ stage = "rest"
    /\ agreed = TRUE
    /\ hops = 0

-----------------------------------------------------------------------------
(* The user, other tabs, time.                                             *)

GoTo(p, from) == target' = p /\ stage' = "proxy" /\ back' = from

Begin(p, token, session) ==
    /\ GoTo(p, None)
    /\ wanted' = p
    /\ hops' = 0
    /\ agreed' = (token = session)

\* A link of the page; the store stays.
Visit(p) ==
    /\ stage = "rest"
    /\ Begin(p, store, cookie)
    /\ UNCHANGED <<cookie, disk, store, app, page>>

\* The address bar: the tab starts anew with what is stored, or else the cookie.
Load(p) ==
    /\ stage = "rest"
    /\ store' = IF disk # None THEN disk ELSE cookie
    /\ Begin(p, store', cookie)
    /\ page' = None
    /\ UNCHANGED <<cookie, disk, app>>

OtherTab(role) ==
    /\ stage = "rest"
    /\ disk' = role /\ cookie' = role
    /\ UNCHANGED <<store, app, page, target, back, wanted, stage, agreed, hops>>

\* After seven days; a browser also drops a cookie of more than 4 KB.
CookieExpires ==
    /\ stage = "rest"
    /\ cookie # None
    /\ cookie' = None
    /\ UNCHANGED <<disk, store, app, page, target, back, wanted, stage, agreed, hops>>

\* handleLogout and handleUnauthorized: clearAuth, then the login page is loaded.
SignOut ==
    /\ stage = "rest"
    /\ store # None
    /\ store' = None /\ disk' = None /\ cookie' = None
    /\ page' = None
    /\ Begin("/login", None, None)
    /\ UNCHANGED app

\* handleLogin: a page the role may be sent back to, or its home.  In Telegram the
\* handler's effect follows, for the token is new.
Login(role) ==
    LET kept == back # None /\ back \in IF role \in DashboardUsers THEN Dashboards
                                        ELSE {"/discovery", "/my-events", "/profile"}
        to == IF app = "deep" THEN "/events/1"
              ELSE IF kept /\ app = "web" THEN back ELSE HomeOf(role)
    IN  /\ stage = "rest" /\ page = "/login"
        /\ store' = role /\ disk' = role /\ cookie' = role
        /\ Begin(to, role, role)
        /\ UNCHANGED <<app, page>>

-----------------------------------------------------------------------------
(* The navigation.                                                         *)

Redirect(p, from) == GoTo(p, from) /\ hops' = hops + 1
Pass == stage' = "land" /\ UNCHANGED <<target, back, hops>>

\* Mutant: the dashboard users are not kept out of the hub, but guests are kept in.
ProxyByRoleOnly ==
    /\ stage = "proxy"
    /\ IF target \in {"/", "/login", "/signup"} /\ cookie # None
          THEN Redirect("/dashboard", None)
       ELSE IF target \in Dashboards /\ cookie = "GUEST"
          THEN Redirect("/", None)
       ELSE Pass
    /\ UNCHANGED <<cookie, disk, store, app, page, wanted, agreed>>

\* proxy.ts; the other pages of the hub do not start with "/discovery".
Proxy ==
    /\ stage = "proxy"
    /\ IF target \in {"/", "/login", "/signup"} /\ cookie # None
          THEN Redirect(IF cookie = "GUEST" THEN "/discovery" ELSE "/dashboard", None)
       ELSE IF target \in Dashboards /\ cookie = "GUEST"
          THEN Redirect("/discovery", None)
       ELSE IF target = "/discovery" /\ cookie \in DashboardUsers
          THEN Redirect("/dashboard", None)
       ELSE IF target \in Dashboards \cup {"/discovery"} /\ cookie = None
          THEN Redirect("/login", target)
       ELSE Pass
    /\ UNCHANGED <<cookie, disk, store, app, page, wanted, agreed>>

\* What the effects of a page that has just been mounted ask for; the last of
\* them wins: ProtectedRoute, the dashboard page, TelegramAuthHandler.
ProtectedRoute(p) ==
    IF p \notin Dashboards \cup Hub THEN None
    ELSE IF store = None THEN "/login"
    ELSE IF p \in DOMAIN PermissionOf /\ store \notin PermissionOf[p] THEN "/unauthorized"
    ELSE None
DashboardPage(p) == IF p = "/dashboard" /\ store = "GUEST" THEN "/discovery" ELSE None
TelegramAuthHandler(p) ==
    IF app = "web" \/ store = None THEN None
    ELSE IF app = "deep" THEN "/events/1"
    ELSE IF p \in {"/", "/login", "/signup"} THEN HomeOf(store) ELSE None

Effect(p) ==
    IF TelegramAuthHandler(p) # None THEN TelegramAuthHandler(p)
    ELSE IF DashboardPage(p) # None THEN DashboardPage(p) ELSE ProtectedRoute(p)

Land ==
    LET e == Effect(target)
    IN  /\ stage = "land"
        /\ page' = target
        /\ IF page = target \/ e \in {None, target}
              THEN stage' = "rest" /\ target' = None /\ UNCHANGED <<back, hops>>
              ELSE Redirect(e, IF e = "/login" THEN target ELSE None)
        /\ UNCHANGED <<cookie, disk, store, app, wanted, agreed>>

Next ==
    \/ \E p \in Routes : Visit(p) \/ Load(p)
    \/ \E role \in Roles \cup {None} : OtherTab(role)
    \/ \E role \in Roles : Login(role)
    \/ CookieExpires
    \/ SignOut
    \/ Proxy
    \/ Land

Spec == Init /\ [][Next]_vars

-----------------------------------------------------------------------------
\* Every navigation comes to rest, after at most four redirects, whatever the
\* cookie and the store say; if they agreed when
\* it began, it rests where the role belongs
\* and, for a page of its menu, on that page - but for a tab that Telegram opened
\* by the link of an event, which TelegramAuthHandler takes back to the event
\* after every navigation.
NavigationSettles ==
    /\ hops <= 4
    /\ stage = "rest" /\ agreed /\ page # None /\ wanted \in Dashboards \cup Hub =>
        /\ page \in Dashboards => store \notin {None, "GUEST"}
        /\ page = "/discovery" => store \notin {None} \cup DashboardUsers
        /\ store # None /\ wanted \in Menu(store) => app = "deep" \/ page = wanted
==============================================================================
