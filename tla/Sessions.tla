------------------------------ MODULE Sessions ------------------------------
(***************************************************************************)
(* Login sessions, from the browser to the database: AuthService           *)
(* (src/apps/api/src/auth/auth.service.ts), JwtStrategy (jwt.strategy.ts)  *)
(* and the web client (src/apps/web/src/lib/api-client.ts, proxy.ts,       *)
(* features/auth/store/useAuthStore.ts).                                   *)
(*                                                                         *)
(* A login inserts an "auth_sessions" row and then stores the hash of the  *)
(* refresh token it signed for it.  A refresh checks the presented token   *)
(* against the row and, some awaits later, replaces the hash by that of a  *)
(* new token.  Each browser tab keeps the tokens in memory and copies them *)
(* to the storage all tabs share, with every change of its store; it reads *)
(* the storage back only when it loads.  The storage is localStorage and a *)
(* cookie, by which proxy.ts sends pages without tokens to the login page. *)
(* A tab has one call to the server in flight (refreshPromise).            *)
(*                                                                         *)
(* A refresh token is its session and a number: two tokens signed for one  *)
(* session in the same second are the same JWT and share a number.         *)
(***************************************************************************)
EXTENDS Naturals, FiniteSets

CONSTANTS
    Users,
    Sessions,    \* primary keys (bound on rows ever created)
    Tabs,        \* browser tabs
    Links,       \* password reset links (bound on links ever mailed)
    Resetters,   \* resetPassword calls in flight at once (bound)
    MaxToken,    \* refresh tokens signed for one session (bound)
    MaxLosses,   \* responses or handlers lost (bound)
    None         \* NULL

ASSUME BoundsAreNat == MaxToken \in Nat \ {0} /\ MaxLosses \in Nat
ASSUME NoneIsNothing == None \notin Users \cup Sessions \cup Links

VARIABLES
    password, \* user -> number of the password in force
    session,  \* table "auth_sessions"
    signed,   \* session -> number of its newest refresh token
    tab,      \* the tokens each tab has in memory
    call,     \* the call each tab has in flight
    storage,  \* localStorage and the cookie, shared by the tabs
    link,     \* table "one_time_tokens": password reset links
    reset,    \* resetPassword calls in flight
    disturbed, \* history: sessions two tabs held, or whose refresh was lost half-way
    ousted,   \* history: sessions a tab had when another tab wrote other tokens, or none, to the storage
    losses

server == <<password, session, signed, link, reset>>
browser == <<tab, call, storage>>
history == <<disturbed, ousted, losses>>
vars == <<server, browser, history>>

-----------------------------------------------------------------------------
Pending == 0 \* 'PENDING_HASH', which no token matches

Row == [user : Users \cup {None}, hash : 0 .. MaxToken, revoked : BOOLEAN,
        expired : BOOLEAN, password : Nat]

NoRow == [user |-> None, hash |-> Pending, revoked |-> FALSE, expired |-> FALSE, password |-> 0]

\* What a tab or the storage holds: no tokens, or those of one session.  The
\* 15 minutes of an access token may be over at any time.
Held == [session : Sessions \cup {None}, token : 0 .. MaxToken]

Nothing == [session |-> None, token |-> 0]

Call == [pc : {"none", "login", "opened", "answered", "checked", "granted", "refused"},
         user : Users \cup {None}, session : Sessions \cup {None},
         token : 0 .. MaxToken, kick : BOOLEAN]

NoCall == [pc |-> "none", user |-> None, session |-> None, token |-> 0, kick |-> FALSE]

\* A session the guard of a request or of a refresh accepts.
Live(s) ==
    /\ session[s].user # None
    /\ ~session[s].revoked
    /\ ~session[s].expired

\* A tab that has the session's tokens or a call about them.
Holds(b, s) == tab[b].session = s \/ call[b].session = s

\* A change of the tab's store: persist copies all of it to the storage,
\* whatever the other tabs have in memory.
Write(b, held) ==
    /\ tab' = [tab EXCEPT ![b] = held]
    /\ storage' = held
    /\ ousted' = ousted \cup ({tab[c].session : c \in Tabs \ {b}} \ {held.session, None})

\* What a tab does with the tokens of session s it receives (setAuth, setTokens).
Take(b, s, token) == Write(b, [session |-> s, token |-> token])

\* clearAuth
Clear(b) == Write(b, Nothing)

\* The tab has tokens of s and the storage has not: the next page it loads is
\* the login page (proxy.ts), or one of another session.
Stranded(b, s) == tab[b].session = s /\ storage.session # s

-----------------------------------------------------------------------------
Init ==
    /\ password = [u \in Users |-> 1]
    /\ session = [s \in Sessions |-> NoRow]
    /\ signed = [s \in Sessions |-> 0]
    /\ tab = [b \in Tabs |-> Nothing]
    /\ call = [b \in Tabs |-> NoCall]
    /\ storage = Nothing
    /\ link = [k \in Links |-> [user |-> None, used |-> FALSE]]
    /\ reset = [r \in Resetters |-> None]
    /\ disturbed = {}
    /\ ousted = {}
    /\ losses = 0

\* login, telegramLogin or signUp, up to createSessionAndTokens.  The login
\* page is open in a tab without tokens, or in one proxy.ts sent there.
Login(b, u) ==
    /\ call[b] = NoCall
    /\ tab[b] = Nothing \/ storage = Nothing
    /\ call' = [call EXCEPT ![b] = [@ EXCEPT !.pc = "login", !.user = u]]
    /\ UNCHANGED <<server, tab, storage, history>>

\* createSessionAndTokens: the row with its placeholder.
OpenSession(b, s) ==
    /\ call[b].pc = "login"
    /\ session[s] = NoRow
    /\ LET u == call[b].user
       IN  session' = [session EXCEPT ![s] =
                         [NoRow EXCEPT !.user = u, !.password = password[u]]]
    /\ call' = [call EXCEPT ![b] = [@ EXCEPT !.pc = "opened", !.session = s]]
    /\ UNCHANGED <<password, signed, link, reset, tab, storage, history>>

\* Mutant: the tokens are returned without awaiting the hash.
HashSessionLater(b) ==
    /\ call[b].pc = "opened"
    /\ signed' = [signed EXCEPT ![call[b].session] = 1]
    /\ call' = [call EXCEPT ![b] = [@ EXCEPT !.pc = "answered", !.token = 1]]
    /\ UNCHANGED <<password, session, link, reset, tab, storage, history>>

\* createSessionAndTokens: the hash of the token it returns.
HashSession(b) ==
    /\ call[b].pc = "opened"
    /\ LET s == call[b].session
       IN  /\ session' = [session EXCEPT ![s].hash = 1]
           /\ signed' = [signed EXCEPT ![s] = 1]
    /\ call' = [call EXCEPT ![b] = [@ EXCEPT !.pc = "answered", !.token = 1]]
    /\ UNCHANGED <<password, link, reset, tab, storage, history>>

\* The browser gets the tokens of a login (setAuth).
LoggedIn(b) ==
    /\ call[b].pc = "answered"
    /\ Take(b, call[b].session, call[b].token)
    /\ call' = [call EXCEPT ![b] = NoCall]
    /\ UNCHANGED <<server, disturbed, losses>>

-----------------------------------------------------------------------------
\* doRefresh, and refreshToken up to its update.  The call comes from a timer
\* (scheduleProactiveRefresh), from a load that finds the access token expired,
\* or from a request answered with 401 (apiFetch): a refresh refused to one of
\* the last two ends in handleUnauthorized.
Refresh(b, kick) ==
    /\ call[b] = NoCall
    /\ tab[b].session # None
    /\ LET s == tab[b].session
           valid == Live(s) /\ session[s].hash = tab[b].token
       IN  call' = [call EXCEPT ![b] =
                      [@ EXCEPT !.pc = IF valid THEN "checked" ELSE "refused",
                                !.session = s, !.kick = kick]]
    /\ UNCHANGED <<server, tab, storage, history>>

\* Mutant: the new token is returned but its hash is not stored.
RotateUnstored(b, token) ==
    /\ call[b].pc = "checked"
    /\ LET s == call[b].session
       IN  /\ token \in {signed[s], signed[s] + 1}
           /\ token <= MaxToken
           /\ signed' = [signed EXCEPT ![s] = token]
           /\ session' = [session EXCEPT ![s].expired = FALSE]
    /\ call' = [call EXCEPT ![b] = [@ EXCEPT !.pc = "granted", !.token = token]]
    /\ UNCHANGED <<password, link, reset, tab, storage, history>>

\* refreshToken's update, whatever the row holds by now.  A token signed in
\* the same second as the session's newest one equals it.
Rotate(b, token) ==
    /\ call[b].pc = "checked"
    /\ LET s == call[b].session
       IN  /\ token \in {signed[s], signed[s] + 1}
           /\ token <= MaxToken
           /\ signed' = [signed EXCEPT ![s] = token]
           /\ session' = [session EXCEPT ![s] = [@ EXCEPT !.hash = token, !.expired = FALSE]]
    /\ call' = [call EXCEPT ![b] = [@ EXCEPT !.pc = "granted", !.token = token]]
    /\ UNCHANGED <<password, link, reset, tab, storage, history>>

\* setTokens, also in a tab that was logged out meanwhile.
Refreshed(b) ==
    /\ call[b].pc = "granted"
    /\ Take(b, call[b].session, call[b].token)
    /\ call' = [call EXCEPT ![b] = NoCall]
    /\ UNCHANGED <<server, disturbed, losses>>

Refused(b) ==
    /\ call[b].pc = "refused"
    /\ IF call[b].kick THEN Clear(b) ELSE UNCHANGED <<tab, storage, ousted>>
    /\ call' = [call EXCEPT ![b] = NoCall]
    /\ UNCHANGED <<server, disturbed, losses>>

\* The handler dies or its answer is lost: for the tab, a refusal.
Lose(b) ==
    /\ call[b].pc \in {"login", "opened", "answered", "checked", "granted"}
    /\ losses < MaxLosses
    /\ losses' = losses + 1
    /\ IF call[b].pc \in {"checked", "granted"}
         THEN /\ disturbed' = disturbed \cup {call[b].session}
              /\ call' = [call EXCEPT ![b] = [@ EXCEPT !.pc = "refused", !.token = 0]]
         ELSE /\ call' = [call EXCEPT ![b] = NoCall]
              /\ UNCHANGED disturbed
    /\ UNCHANGED <<server, tab, storage, ousted>>

-----------------------------------------------------------------------------
\* The tab is opened or reloaded with nothing in flight: it takes over what
\* the storage holds.  Without tokens there it gets the login page.
Load(b) ==
    /\ call[b] = NoCall
    /\ tab' = [tab EXCEPT ![b] = storage]
    /\ disturbed' = disturbed \cup
          {s \in {storage.session} \ {None} : \E c \in Tabs \ {b} : Holds(c, s)}
    /\ UNCHANGED <<server, call, storage, ousted, losses>>

\* Another change of the store (setTheme, the profile): the tab's tokens, or
\* none, are written along with it.
Persist(b) ==
    /\ Write(b, tab[b])
    /\ UNCHANGED <<server, call, disturbed, losses>>

CloseTab(b) ==
    /\ call[b] = NoCall
    /\ tab[b] # Nothing
    /\ tab' = [tab EXCEPT ![b] = Nothing]
    /\ UNCHANGED <<server, call, storage, history>>

\* The log-out buttons of the web client only clear the tokens.
LogOutInBrowser(b) ==
    /\ tab[b] # Nothing
    /\ Clear(b)
    /\ UNCHANGED <<server, call, disturbed, losses>>

\* Seven days without a refresh.
SessionExpires(s) ==
    /\ Live(s)
    /\ session' = [session EXCEPT ![s].expired = TRUE]
    /\ UNCHANGED <<password, signed, link, reset, browser, history>>

-----------------------------------------------------------------------------
\* The sessions of u among S are revoked (updateMany).
Revoke(u, S) ==
    session' = [s \in Sessions |->
                  IF s \in S /\ session[s].user = u
                    THEN [session[s] EXCEPT !.revoked = TRUE] ELSE session[s]]

\* logout
Logout(s) ==
    /\ Live(s)
    /\ Revoke(session[s].user, {s})
    /\ UNCHANGED <<password, signed, link, reset, browser, history>>

\* logoutAll, by a request the guard accepts.
LogoutAll(s) ==
    /\ Live(s)
    /\ Revoke(session[s].user, Sessions)
    /\ UNCHANGED <<password, signed, link, reset, browser, history>>

\* forgotPassword: links pile up, one does not replace another.
ForgotPassword(u, k) ==
    /\ link[k].user = None
    /\ link' = [link EXCEPT ![k].user = u]
    /\ UNCHANGED <<password, session, signed, reset, browser, history>>

\* resetPassword: consumeOneTimeToken finds an unused link.
ResetCheck(r, k) ==
    /\ reset[r] = None
    /\ link[k].user # None
    /\ ~link[k].used
    /\ reset' = [reset EXCEPT ![r] = k]
    /\ UNCHANGED <<password, session, signed, link, browser, history>>

\* Mutant: the sessions are left alone.
ResetPasswordOnly(r) ==
    /\ reset[r] # None
    /\ LET u == link[reset[r]].user
       IN  password' = [password EXCEPT ![u] = @ + 1]
    /\ link' = [link EXCEPT ![reset[r]].used = TRUE]
    /\ reset' = [reset EXCEPT ![r] = None]
    /\ UNCHANGED <<session, signed, browser, history>>

\* resetPassword's transaction, whether or not the link is still unused.
ResetPassword(r) ==
    /\ reset[r] # None
    /\ LET u == link[reset[r]].user
       IN  /\ password' = [password EXCEPT ![u] = @ + 1]
           /\ Revoke(u, Sessions)
    /\ link' = [link EXCEPT ![reset[r]].used = TRUE]
    /\ reset' = [reset EXCEPT ![r] = None]
    /\ UNCHANGED <<signed, browser, history>>

-----------------------------------------------------------------------------
InTab(b) ==
    \/ \E u \in Users : Login(b, u)
    \/ \E s \in Sessions : OpenSession(b, s)
    \/ HashSession(b) \/ LoggedIn(b)
    \/ \E kick \in BOOLEAN : Refresh(b, kick)
    \/ \E token \in 1 .. MaxToken : Rotate(b, token)
    \/ Refreshed(b) \/ Refused(b) \/ Lose(b)
    \/ Load(b) \/ Persist(b) \/ CloseTab(b) \/ LogOutInBrowser(b)

Elsewhere ==
    \/ \E s \in Sessions : SessionExpires(s) \/ Logout(s) \/ LogoutAll(s)
    \/ \E u \in Users, k \in Links : ForgotPassword(u, k)
    \/ \E r \in Resetters, k \in Links : ResetCheck(r, k)
    \/ \E r \in Resetters : ResetPassword(r)

Next == (\E b \in Tabs : InTab(b)) \/ Elsewhere

Spec == Init /\ [][Next]_vars

-----------------------------------------------------------------------------
(* Properties.                                                             *)

\* Rows, tabs, calls and histories are well formed (type invariant).
TypeOK ==
    /\ password \in [Users -> Nat]
    /\ session \in [Sessions -> Row]
    /\ signed \in [Sessions -> 0 .. MaxToken]
    /\ tab \in [Tabs -> Held]
    /\ call \in [Tabs -> Call]
    /\ storage \in Held
    /\ link \in [Links -> [user : Users \cup {None}, used : BOOLEAN]]
    /\ reset \in [Resetters -> Links \cup {None}]
    /\ disturbed \in SUBSET Sessions
    /\ ousted \in SUBSET Sessions
    /\ losses \in 0 .. MaxLosses

\* A password reset ends every session whose row existed by then, whatever
\* logins and refreshes were in flight: no live row is older than the password
\* in force (auth.service.ts resetPassword).
ResetEndsOlderSessions ==
    \A s \in Sessions :
       session[s].user # None /\ ~session[s].revoked =>
          session[s].password = password[session[s].user]

\* Wherever tokens of a session are, in a tab, in the storage or in an answer
\* on its way, the row has got a hash of one of the session's tokens instead of
\* its placeholder (auth.service.ts createSessionAndTokens).
TokensAreBackedByAHash ==
    \A s \in Sessions :
       (\/ \E b \in Tabs :
              \/ tab[b].session = s
              \/ call[b].session = s /\ call[b].pc # "opened"
        \/ storage.session = s)
       => session[s].hash \in 1 .. signed[s]

\* A tab loses a session that is live in three ways only.  It is refused a
\* refresh, and sent to the login page for it, after two tabs held the session's
\* tokens at once or a refresh of it was lost; the next page it loads is that of
\* no session or another one after another tab wrote to the storage what it had
\* itself, other tokens or none.  Otherwise tabs that load, log out, log in and
\* refresh in any order keep their sessions (auth.service.ts refreshToken,
\* api-client.ts doRefresh, proxy.ts, useAuthStore.ts persist).
KickedOnlyIfDisturbed ==
    \A b \in Tabs, s \in Sessions : Live(s) =>
       /\ call[b].session = s /\ call[b].pc = "refused" => s \in disturbed
       /\ Stranded(b, s) => s \in ousted
=============================================================================
