--------------------------- MODULE SessionsProofs ---------------------------
(***************************************************************************)
(* Theorems about Sessions, for any number of users, sessions, tabs, reset *)
(* links and lost answers.                                                 *)
(***************************************************************************)
EXTENDS Sessions, TLAPS

\* What calls and resets in flight are about.
Subjects ==
    /\ \A b \in Tabs :
          /\ call[b].pc \in {"none", "login"} => call[b].session = None
          /\ call[b].pc \notin {"none", "login"} => call[b].session \in Sessions
          /\ call[b].pc = "login" => call[b].user \in Users
    /\ \A r \in Resetters : reset[r] # None => link[reset[r]].user \in Users

TypeInv == TypeOK /\ Subjects

LEMMA TypeInit == Init => TypeInv
<1> SUFFICES ASSUME Init PROVE TypeInv
  OBVIOUS
<1> USE BoundsAreNat
<1>1. 0 \in 0 .. MaxToken /\ 0 \in 0 .. MaxLosses
  OBVIOUS
<1>2. NoRow \in Row /\ Nothing \in Held /\ NoCall \in Call
  BY <1>1 DEF NoRow, Row, Nothing, Held, NoCall, Call, Pending
<1>3. TypeOK
  BY <1>1, <1>2 DEF Init, TypeOK
<1>4. Subjects
  BY DEF Init, Subjects, NoCall
<1> QED
  BY <1>3, <1>4 DEF TypeInv

\* A call, a tab or a row that is replaced by one of its type.
LEMMA CallStep ==
    ASSUME TypeInv, NEW b \in Tabs, NEW c \in Call, call' = [call EXCEPT ![b] = c],
           c.pc \in {"none", "login"} => c.session = None,
           c.pc \notin {"none", "login"} => c.session \in Sessions,
           c.pc = "login" => c.user \in Users,
           UNCHANGED <<reset, link>>
    PROVE  call' \in [Tabs -> Call] /\ Subjects'
BY DEF TypeInv, TypeOK, Subjects

LEMMA WriteType ==
    ASSUME TypeInv, NEW b \in Tabs, NEW held \in Held, Write(b, held)
    PROVE  tab' \in [Tabs -> Held] /\ storage' \in Held /\ ousted' \in SUBSET Sessions
<1>1. \A c \in Tabs : tab[c].session \in Sessions \cup {None}
  BY DEF TypeInv, TypeOK, Held
<1> QED
  BY <1>1 DEF Write, TypeInv, TypeOK

LEMMA TakeType ==
    ASSUME TypeInv, NEW b \in Tabs, call[b].pc \in {"answered", "granted"},
           Take(b, call[b].session, call[b].token)
    PROVE  tab' \in [Tabs -> Held] /\ storage' \in Held /\ ousted' \in SUBSET Sessions
<1>1. call[b].session \in Sessions /\ call[b].token \in 0 .. MaxToken
  BY DEF TypeInv, TypeOK, Subjects, Call
<1>2. [session |-> call[b].session, token |-> call[b].token] \in Held
  BY <1>1 DEF Held
<1> QED
  BY <1>2, WriteType DEF Take

LEMMA ClearType ==
    ASSUME TypeInv, NEW b \in Tabs, Clear(b)
    PROVE  tab' \in [Tabs -> Held] /\ storage' \in Held /\ ousted' \in SUBSET Sessions
<1>1. Nothing \in Held
  BY BoundsAreNat DEF Nothing, Held
<1> QED
  BY <1>1, WriteType DEF Clear

LEMMA RevokeType ==
    ASSUME TypeInv, NEW u, NEW S, Revoke(u, S)
    PROVE  session' \in [Sessions -> Row]
<1>1. ASSUME NEW s \in Sessions PROVE [session[s] EXCEPT !.revoked = TRUE] \in Row
  BY DEF TypeInv, TypeOK, Row
<1> QED
  BY <1>1 DEF Revoke, TypeInv, TypeOK

LEMMA TypeStep == TypeInv /\ [Next]_vars => TypeInv'
<1> SUFFICES ASSUME TypeInv, [Next]_vars PROVE TypeInv'
  OBVIOUS
<1> USE BoundsAreNat
<1>0. /\ NoCall \in Call /\ NoCall.pc = "none" /\ NoCall.session = None
      /\ NoRow \in Row
      /\ 0 \in 0 .. MaxToken
  BY DEF NoCall, Call, NoRow, Row, Pending
<1>1. ASSUME NEW b \in Tabs, NEW u \in Users, Login(b, u) PROVE TypeInv'
  <2> DEFINE c == [NoCall EXCEPT !.pc = "login", !.user = u]
  <2>1. call' = [call EXCEPT ![b] = c]
    BY <1>1 DEF Login
  <2>2. c \in Call /\ c.pc = "login" /\ c.user = u /\ c.session = None
    BY <1>0 DEF Call
  <2>3. call' \in [Tabs -> Call] /\ Subjects'
    BY <1>1, <2>1, <2>2, CallStep DEF Login, server
  <2> QED
    BY <1>1, <2>3 DEF Login, server, history, TypeInv, TypeOK
<1>2. ASSUME NEW b \in Tabs, NEW s \in Sessions, OpenSession(b, s) PROVE TypeInv'
  <2> DEFINE u == call[b].user
             c == [call[b] EXCEPT !.pc = "opened", !.session = s]
             row == [NoRow EXCEPT !.user = u, !.password = password[u]]
  <2>1. u \in Users /\ call[b] \in Call
    BY <1>2 DEF OpenSession, TypeInv, TypeOK, Subjects
  <2>2. c \in Call /\ c.pc = "opened" /\ c.session = s
    BY <2>1 DEF Call
  <2>3. call' \in [Tabs -> Call] /\ Subjects'
    <3>1. call' = [call EXCEPT ![b] = c] /\ UNCHANGED <<reset, link>>
      BY <1>2 DEF OpenSession
    <3> HIDE DEF c
    <3> QED
      BY <2>1, <2>2, <3>1, CallStep
  <2>4. row \in Row
    BY <1>0, <2>1 DEF Row, TypeInv, TypeOK
  <2>5. session' \in [Sessions -> Row]
    BY <1>2, <2>4 DEF OpenSession, TypeInv, TypeOK
  <2> QED
    BY <1>2, <2>3, <2>5 DEF OpenSession, history, TypeInv, TypeOK
<1>3. ASSUME NEW b \in Tabs, HashSession(b) PROVE TypeInv'
  <2> DEFINE s == call[b].session
             c == [call[b] EXCEPT !.pc = "answered", !.token = 1]
  <2>1. s \in Sessions /\ call[b] \in Call /\ session[s] \in Row /\ 1 \in 0 .. MaxToken
    BY <1>3 DEF HashSession, TypeInv, TypeOK, Subjects
  <2>2. c \in Call /\ c.pc = "answered" /\ c.session = s
    BY <2>1 DEF Call
  <2>3. call' \in [Tabs -> Call] /\ Subjects'
    <3>1. call' = [call EXCEPT ![b] = c] /\ UNCHANGED <<reset, link>>
      BY <1>3 DEF HashSession
    <3> HIDE DEF c
    <3> QED
      BY <2>1, <2>2, <3>1, CallStep
  <2>4. [session[s] EXCEPT !.hash = 1] \in Row
    BY <2>1 DEF Row
  <2>5. session' \in [Sessions -> Row] /\ signed' \in [Sessions -> 0 .. MaxToken]
    BY <1>3, <2>1, <2>4 DEF HashSession, TypeInv, TypeOK
  <2> QED
    BY <1>3, <2>3, <2>5 DEF HashSession, history, TypeInv, TypeOK
<1>4. ASSUME NEW b \in Tabs, LoggedIn(b) \/ Refreshed(b) PROVE TypeInv'
  <2>1. tab' \in [Tabs -> Held] /\ storage' \in Held /\ ousted' \in SUBSET Sessions
    BY <1>4, TakeType DEF LoggedIn, Refreshed
  <2>2. call' \in [Tabs -> Call] /\ Subjects'
    BY <1>0, <1>4, CallStep DEF LoggedIn, Refreshed, server
  <2> QED
    BY <1>4, <2>1, <2>2 DEF LoggedIn, Refreshed, server, history, TypeInv, TypeOK
<1>5. ASSUME NEW b \in Tabs, NEW kick \in BOOLEAN, Refresh(b, kick) PROVE TypeInv'
  <2>1. PICK pc \in {"checked", "refused"} :
           call' = [call EXCEPT ![b] =
                      [NoCall EXCEPT !.pc = pc, !.session = tab[b].session, !.kick = kick]]
    BY <1>5 DEF Refresh
  <2> DEFINE c == [NoCall EXCEPT !.pc = pc, !.session = tab[b].session, !.kick = kick]
  <2>2. tab[b].session \in Sessions
    BY <1>5 DEF Refresh, TypeInv, TypeOK, Held
  <2>3. c \in Call /\ c.pc = pc /\ c.session \in Sessions
    BY <1>0, <2>2 DEF Call
  <2>4. call' \in [Tabs -> Call] /\ Subjects'
    BY <1>5, <2>1, <2>3, CallStep DEF Refresh, server
  <2> QED
    BY <1>5, <2>4 DEF Refresh, server, history, TypeInv, TypeOK
<1>6. ASSUME NEW b \in Tabs, NEW token \in 1 .. MaxToken, Rotate(b, token) PROVE TypeInv'
  <2> DEFINE s == call[b].session
             c == [call[b] EXCEPT !.pc = "granted", !.token = token]
  <2>1. s \in Sessions /\ call[b] \in Call /\ session[s] \in Row /\ token \in 0 .. MaxToken
    BY <1>6 DEF Rotate, TypeInv, TypeOK, Subjects
  <2>2. c \in Call /\ c.pc = "granted" /\ c.session = s
    BY <2>1 DEF Call
  <2>3. call' \in [Tabs -> Call] /\ Subjects'
    <3>1. call' = [call EXCEPT ![b] = c] /\ UNCHANGED <<reset, link>>
      BY <1>6 DEF Rotate
    <3> HIDE DEF c
    <3> QED
      BY <2>1, <2>2, <3>1, CallStep
  <2>4. [session[s] EXCEPT !.hash = token, !.expired = FALSE] \in Row
    BY <2>1 DEF Row
  <2>5. session' \in [Sessions -> Row] /\ signed' \in [Sessions -> 0 .. MaxToken]
    BY <1>6, <2>1, <2>4 DEF Rotate, TypeInv, TypeOK
  <2> QED
    BY <1>6, <2>3, <2>5 DEF Rotate, history, TypeInv, TypeOK
<1>7. ASSUME NEW b \in Tabs, Refused(b) PROVE TypeInv'
  <2>1. call' \in [Tabs -> Call] /\ Subjects'
    BY <1>0, <1>7, CallStep DEF Refused, server
  <2>2. tab' \in [Tabs -> Held] /\ storage' \in Held /\ ousted' \in SUBSET Sessions
    BY <1>7, ClearType DEF Refused, TypeInv, TypeOK
  <2> QED
    BY <1>7, <2>1, <2>2 DEF Refused, server, TypeInv, TypeOK
<1>8. ASSUME NEW b \in Tabs, Lose(b) PROVE TypeInv'
  <2>1. losses' \in 0 .. MaxLosses
    BY <1>8 DEF Lose, TypeInv, TypeOK
  <2>2. CASE call[b].pc \in {"checked", "granted"}
    <3> DEFINE c == [call[b] EXCEPT !.pc = "refused", !.token = 0]
    <3>1. call[b].session \in Sessions /\ call[b] \in Call
      BY <2>2 DEF TypeInv, TypeOK, Subjects
    <3>2. c \in Call /\ c.pc = "refused" /\ c.session = call[b].session
      BY <1>0, <3>1 DEF Call
    <3>3. call' \in [Tabs -> Call] /\ Subjects'
      <4>1. call' = [call EXCEPT ![b] = c] /\ UNCHANGED <<reset, link>>
        BY <1>8, <2>2 DEF Lose, server
      <4> HIDE DEF c
      <4> QED
        BY <3>1, <3>2, <4>1, CallStep
    <3> QED
      BY <1>8, <2>1, <2>2, <3>1, <3>3 DEF Lose, server, TypeInv, TypeOK
  <2>3. CASE call[b].pc \notin {"checked", "granted"}
    <3>1. call' \in [Tabs -> Call] /\ Subjects'
      BY <1>0, <1>8, <2>3, CallStep DEF Lose, server
    <3> QED
      BY <1>8, <2>1, <2>3, <3>1 DEF Lose, server, TypeInv, TypeOK
  <2> QED
    BY <2>2, <2>3
<1>9. ASSUME NEW b \in Tabs, Load(b) PROVE TypeInv'
  <2>1. storage.session \in Sessions \cup {None}
    BY DEF TypeInv, TypeOK, Held
  <2> QED
    BY <1>9, <2>1 DEF Load, server, TypeInv, TypeOK, Subjects
<1>10. ASSUME NEW b \in Tabs, CloseTab(b) PROVE TypeInv'
  <2>1. Nothing \in Held
    BY DEF Nothing, Held
  <2> QED
    BY <1>10, <2>1 DEF CloseTab, server, history, TypeInv, TypeOK, Subjects
<1>11. ASSUME NEW b \in Tabs, LogOutInBrowser(b) PROVE TypeInv'
  BY <1>11, ClearType DEF LogOutInBrowser, server, history, TypeInv, TypeOK, Subjects
<1>12. ASSUME NEW b \in Tabs, Persist(b) PROVE TypeInv'
  <2>1. tab[b] \in Held
    BY DEF TypeInv, TypeOK
  <2> QED
    BY <1>12, <2>1, WriteType DEF Persist, server, TypeInv, TypeOK, Subjects
<1>13. ASSUME NEW s \in Sessions, SessionExpires(s) PROVE TypeInv'
  <2>1. [session[s] EXCEPT !.expired = TRUE] \in Row
    BY DEF TypeInv, TypeOK, Row
  <2> QED
    BY <1>13, <2>1 DEF SessionExpires, browser, history, TypeInv, TypeOK, Subjects
<1>14. ASSUME NEW s \in Sessions, Logout(s) \/ LogoutAll(s) PROVE TypeInv'
  BY <1>14, RevokeType DEF Logout, LogoutAll, browser, history, TypeInv, TypeOK, Subjects
<1>15. ASSUME NEW u \in Users, NEW k \in Links, ForgotPassword(u, k) PROVE TypeInv'
  <2>1. link' \in [Links -> [user : Users \cup {None}, used : BOOLEAN]]
    BY <1>15 DEF ForgotPassword, TypeInv, TypeOK
  <2>2. Subjects'
    BY <1>15, NoneIsNothing DEF ForgotPassword, browser, TypeInv, TypeOK, Subjects
  <2> QED
    BY <1>15, <2>1, <2>2 DEF ForgotPassword, browser, history, TypeInv, TypeOK
<1>16. ASSUME NEW r \in Resetters, NEW k \in Links, ResetCheck(r, k) PROVE TypeInv'
  BY <1>16 DEF ResetCheck, browser, history, TypeInv, TypeOK, Subjects
<1>17. ASSUME NEW r \in Resetters, ResetPassword(r) PROVE TypeInv'
  <2>1. session' \in [Sessions -> Row]
    BY <1>17, RevokeType DEF ResetPassword
  <2>2. reset[r] \in Links
    BY <1>17 DEF ResetPassword, TypeInv, TypeOK
  <2>3. /\ link' \in [Links -> [user : Users \cup {None}, used : BOOLEAN]]
        /\ \A k \in Links : link'[k].user = link[k].user
    BY <1>17, <2>2 DEF ResetPassword, TypeInv, TypeOK
  <2>4. /\ reset' \in [Resetters -> Links \cup {None}]
        /\ \A q \in Resetters : reset'[q] # None => reset'[q] = reset[q] /\ reset[q] \in Links
    BY <1>17 DEF ResetPassword, TypeInv, TypeOK
  <2>5. password' \in [Users -> Nat]
    BY <1>17, <2>2 DEF ResetPassword, TypeInv, TypeOK, Subjects
  <2>6. Subjects'
    BY <1>17, <2>3, <2>4 DEF ResetPassword, browser, Subjects, TypeInv
  <2> QED
    BY <1>17, <2>1, <2>3, <2>4, <2>5, <2>6 DEF ResetPassword, browser, history, TypeInv, TypeOK
<1>18. CASE UNCHANGED vars
  BY <1>18 DEF vars, server, browser, history, TypeInv, TypeOK, Subjects
<1> QED
  BY <1>1, <1>2, <1>3, <1>4, <1>5, <1>6, <1>7, <1>8, <1>9, <1>10, <1>11, <1>12, <1>13,
     <1>14, <1>15, <1>16, <1>17, <1>18 DEF Next, InTab, Elsewhere

\* Session rows, tabs and calls stay well formed (auth.service.ts,
\* api-client.ts).
THEOREM TypeCorrect == Spec => []TypeOK
<1>1. Spec => []TypeInv
  BY TypeInit, TypeStep, PTL DEF Spec
<1> QED
  BY <1>1, PTL DEF TypeInv

-----------------------------------------------------------------------------
(* Password resets.  ResetEndsOlderSessions is inductive: a row is inserted *)
(* under the password in force, and the step that changes the password      *)
(* revokes every row of the user.                                           *)

\* Rows that keep their user and password and are not reinstated.
RowsKept ==
    \A s \in Sessions :
       /\ session'[s].user = session[s].user
       /\ session'[s].password = session[s].password
       /\ session[s].revoked => session'[s].revoked

\* A password reset ends every session whose row existed by then, whatever
\* was in flight (auth.service.ts resetPassword).
THEOREM ResetCorrect == Spec => []ResetEndsOlderSessions
<1>1. Init => ResetEndsOlderSessions
  BY DEF Init, ResetEndsOlderSessions, NoRow
<1>2. TypeInv /\ ResetEndsOlderSessions /\ [Next]_vars => ResetEndsOlderSessions'
  <2> SUFFICES ASSUME TypeInv, ResetEndsOlderSessions, [Next]_vars
               PROVE  ResetEndsOlderSessions'
    OBVIOUS
  <2>1. ASSUME RowsKept, password' = password PROVE ResetEndsOlderSessions'
    BY <2>1 DEF RowsKept, ResetEndsOlderSessions, TypeInv, TypeOK, Row
  <2>2. ASSUME NEW b \in Tabs, NEW s \in Sessions, OpenSession(b, s)
        PROVE  ResetEndsOlderSessions'
    <3>1. /\ session'[s].user = call[b].user
          /\ session'[s].password = password[call[b].user]
          /\ password' = password
          /\ \A t \in Sessions \ {s} : session'[t] = session[t]
      BY <2>2 DEF OpenSession, NoRow, TypeInv, TypeOK
    <3> QED
      BY <3>1 DEF ResetEndsOlderSessions
  <2>3. ASSUME NEW b \in Tabs, HashSession(b) PROVE RowsKept /\ password' = password
    BY <2>3 DEF HashSession, RowsKept, TypeInv, TypeOK, Subjects, Row
  <2>4. ASSUME NEW b \in Tabs, NEW token \in 1 .. MaxToken, Rotate(b, token)
        PROVE  RowsKept /\ password' = password
    BY <2>4 DEF Rotate, RowsKept, TypeInv, TypeOK, Subjects, Row
  <2>5. ASSUME NEW s \in Sessions, SessionExpires(s) PROVE RowsKept /\ password' = password
    BY <2>5 DEF SessionExpires, RowsKept, TypeInv, TypeOK, Row
  <2>6. ASSUME NEW s \in Sessions, Logout(s) \/ LogoutAll(s)
        PROVE  RowsKept /\ password' = password
    BY <2>6 DEF Logout, LogoutAll, Revoke, RowsKept, TypeInv, TypeOK, Row
  <2>7. ASSUME NEW r \in Resetters, ResetPassword(r) PROVE ResetEndsOlderSessions'
    <3> DEFINE u == link[reset[r]].user
    <3>1. u \in Users
      BY <2>7 DEF ResetPassword, TypeInv, Subjects
    <3>2. /\ RowsKept
          /\ \A s \in Sessions : session[s].user = u => session'[s].revoked
      BY <2>7 DEF ResetPassword, Revoke, RowsKept, TypeInv, TypeOK, Row
    <3>3. \A v \in Users \ {u} : password'[v] = password[v]
      BY <2>7 DEF ResetPassword, TypeInv, TypeOK
    <3>4. \A s \in Sessions : session[s].user \in Users \cup {None}
      BY DEF TypeInv, TypeOK, Row
    <3> QED
      BY <3>1, <3>2, <3>3, <3>4 DEF RowsKept, ResetEndsOlderSessions
  <2>8. ASSUME UNCHANGED <<session, password>> PROVE RowsKept /\ password' = password
    BY <2>8 DEF RowsKept
  <2>9. \/ UNCHANGED <<session, password>>
        \/ \E b \in Tabs, s \in Sessions : OpenSession(b, s)
        \/ \E b \in Tabs : HashSession(b)
        \/ \E b \in Tabs, token \in 1 .. MaxToken : Rotate(b, token)
        \/ \E s \in Sessions : SessionExpires(s) \/ Logout(s) \/ LogoutAll(s)
        \/ \E r \in Resetters : ResetPassword(r)
    BY DEF Next, InTab, Elsewhere, Login, LoggedIn, Refresh, Refreshed, Refused, Lose, Load,
           CloseTab, LogOutInBrowser, Persist, ForgotPassword, ResetCheck, vars, server
  <2> QED
    BY <2>1, <2>2, <2>3, <2>4, <2>5, <2>6, <2>7, <2>8, <2>9
<1> QED
  BY <1>1, <1>2, TypeInit, TypeStep, PTL DEF Spec

-----------------------------------------------------------------------------
(* Tokens and rows.                                                        *)

\* Session s has the hash of one of its tokens.
Backed(s) == session[s].hash \in 1 .. signed[s]

TokensBacked ==
    /\ \A b \in Tabs : tab[b].session # None => Backed(tab[b].session)
    /\ \A b \in Tabs : call[b].session # None /\ call[b].pc # "opened" => Backed(call[b].session)
    /\ storage.session # None => Backed(storage.session)

\* A row that is still without its hash belongs to the one call that opened
\* it.
Opening ==
    /\ \A b \in Tabs : call[b].pc = "opened" =>
          /\ session[call[b].session].user # None
          /\ session[call[b].session].hash = Pending
    /\ \A b, c \in Tabs :
          call[b].pc = "opened" /\ b # c => call[c].session # call[b].session

TokenInv == TokensBacked /\ Opening

LEMMA TokenInit == Init => TokenInv
BY DEF Init, TokenInv, TokensBacked, Opening, Nothing, NoCall

\* The tab's call is over, and it has taken or dropped tokens.
LEMMA TokenTake ==
    ASSUME TypeInv, TokenInv, NEW b \in Tabs, call' = [call EXCEPT ![b] = NoCall],
           UNCHANGED <<session, signed>>,
           \/ Take(b, call[b].session, call[b].token) /\ call[b].pc \in {"answered", "granted"}
           \/ Clear(b)
           \/ UNCHANGED <<tab, storage>>
    PROVE  TokenInv'
<1>1. \A c \in Tabs : call'[c] = call[c] \/ call'[c] = NoCall
  BY DEF TypeInv, TypeOK
<1>2. NoCall.pc = "none" /\ NoCall.session = None /\ Nothing.session = None
  BY DEF NoCall, Nothing
<1>3. /\ \A c \in Tabs \ {b} : tab'[c] \in {tab[c], Nothing}
      /\ tab'[b] \in {tab[b], Nothing} \/ Backed(tab'[b].session)
      /\ storage' \in {storage, Nothing} \/ Backed(storage'.session)
  <2>1. CASE Take(b, call[b].session, call[b].token) /\ call[b].pc \in {"answered", "granted"}
    <3>1. Backed(call[b].session)
      <4>1. call[b].session \in Sessions
        BY <2>1 DEF TypeInv, Subjects
      <4> QED
        BY <2>1, <4>1, NoneIsNothing DEF TokenInv, TokensBacked
    <3>2. /\ \A c \in Tabs \ {b} : tab'[c] = tab[c]
          /\ tab'[b].session = call[b].session
          /\ storage'.session = call[b].session
      BY <2>1 DEF Take, Write, TypeInv, TypeOK
    <3> QED
      BY <3>1, <3>2
  <2>2. CASE Clear(b)
    BY <2>2 DEF Clear, Write, TypeInv, TypeOK
  <2>3. CASE UNCHANGED <<tab, storage>>
    BY <2>3
  <2> QED
    BY <2>1, <2>2, <2>3
<1>4. TokensBacked'
  <2>1. \A c \in Tabs : tab'[c].session # None =>
           session[tab'[c].session].hash \in 1 .. signed[tab'[c].session]
    BY <1>2, <1>3 DEF TokenInv, TokensBacked, Backed
  <2>2. storage'.session # None =>
           session[storage'.session].hash \in 1 .. signed[storage'.session]
    BY <1>2, <1>3 DEF TokenInv, TokensBacked, Backed
  <2>3. \A c \in Tabs : call'[c].session # None /\ call'[c].pc # "opened"
           => session[call'[c].session].hash \in 1 .. signed[call'[c].session]
    BY <1>1, <1>2 DEF TokenInv, TokensBacked, Backed
  <2> QED
    BY <2>1, <2>2, <2>3 DEF TokensBacked, Backed
<1>5. Opening'
  <2>1. \A c \in Tabs : call'[c].pc = "opened" => call'[c] = call[c] /\ call[c].session # None
    BY <1>1, <1>2, NoneIsNothing DEF TypeInv, Subjects
  <2> QED
    BY <1>1, <1>2, <2>1 DEF TokenInv, Opening
<1> QED
  BY <1>4, <1>5 DEF TokenInv

\* Rows are touched by a call that neither changes hashes nor users.
LEMMA TokenFrame ==
    ASSUME TypeInv, TokenInv, UNCHANGED <<signed, browser>>,
           \A s \in Sessions : /\ session'[s].hash = session[s].hash
                             /\ session'[s].user = session[s].user
    PROVE  TokenInv'
<1>1. /\ \A b \in Tabs : tab[b].session \in Sessions \cup {None}
      /\ \A b \in Tabs : call[b].session \in Sessions \cup {None}
      /\ \A b \in Tabs : call[b].pc = "opened" => call[b].session \in Sessions
      /\ storage.session \in Sessions \cup {None}
  BY DEF TypeInv, TypeOK, Subjects, Held, Call
<1> QED
  BY <1>1 DEF TokenInv, TokensBacked, Opening, Backed, browser

LEMMA TokenStep == TypeInv /\ TokenInv /\ [Next]_vars => TokenInv'
<1> SUFFICES ASSUME TypeInv, TokenInv, [Next]_vars PROVE TokenInv'
  OBVIOUS
<1>0. /\ NoCall.pc = "none" /\ NoCall.session = None /\ Nothing.session = None
      /\ NoRow.user = None /\ NoRow.hash = Pending
  BY DEF NoCall, Nothing, NoRow
<1>1. /\ \A b \in Tabs : tab[b].session \in Sessions \cup {None}
      /\ \A b \in Tabs : call[b].session \in Sessions \cup {None}
      /\ \A b \in Tabs : call[b].pc \notin {"none", "login"} => call[b].session \in Sessions
      /\ storage.session \in Sessions \cup {None}
      /\ \A s \in Sessions : signed[s] \in 0 .. MaxToken
  BY DEF TypeInv, TypeOK, Subjects, Held, Call
<1>2. ASSUME NEW b \in Tabs, NEW u \in Users, Login(b, u) PROVE TokenInv'
  <2>1. /\ \A c \in Tabs \ {b} : call'[c] = call[c]
        /\ call'[b].pc = "login" /\ call'[b].session = None
    BY <1>0, <1>2 DEF Login, TypeInv, TypeOK, Call
  <2> QED
    BY <1>2, <2>1 DEF Login, server, TokenInv, TokensBacked, Opening, Backed
<1>3. ASSUME NEW b \in Tabs, NEW s \in Sessions, OpenSession(b, s) PROVE TokenInv'
  <2>1. /\ \A c \in Tabs \ {b} : call'[c] = call[c]
        /\ call'[b].pc = "opened" /\ call'[b].session = s
        /\ \A t \in Sessions \ {s} : session'[t] = session[t]
        /\ session'[s].user # None /\ session'[s].hash = Pending
        /\ UNCHANGED <<tab, storage, signed>>
    <3>1. call[b].user \in Users /\ call[b].user # None
      BY <1>3, NoneIsNothing DEF OpenSession, TypeInv, Subjects
    <3>2. session' = [session EXCEPT ![s] =
             [NoRow EXCEPT !.user = call[b].user, !.password = password[call[b].user]]]
      BY <1>3 DEF OpenSession
    <3>3. session'[s].user = call[b].user /\ session'[s].hash = Pending
      BY <3>2 DEF NoRow, TypeInv, TypeOK
    <3> QED
      BY <1>3, <3>1, <3>2, <3>3 DEF OpenSession, TypeInv, TypeOK, Call
  <2>2. ~Backed(s)
    BY <1>0, <1>1, <1>3, BoundsAreNat DEF OpenSession, Backed, Pending
  <2>3. /\ \A c \in Tabs : tab[c].session # s
        /\ \A c \in Tabs : call[c].session # s
        /\ storage.session # s
    BY <1>0, <1>3, <2>2, NoneIsNothing DEF OpenSession, TokenInv, TokensBacked, Opening
  <2>4. TokensBacked'
    BY <1>1, <2>1, <2>3 DEF TokenInv, TokensBacked, Backed
  <2>5. Opening'
    BY <1>1, <2>1, <2>3 DEF TokenInv, Opening
  <2> QED
    BY <2>4, <2>5 DEF TokenInv
<1>4. ASSUME NEW b \in Tabs, HashSession(b) PROVE TokenInv'
  <2> DEFINE s == call[b].session
  <2>1. /\ s \in Sessions
        /\ \A c \in Tabs \ {b} : call'[c] = call[c]
        /\ call'[b].pc = "answered" /\ call'[b].session = s
        /\ \A t \in Sessions \ {s} : session'[t] = session[t] /\ signed'[t] = signed[t]
        /\ session'[s].hash = 1 /\ signed'[s] = 1
        /\ UNCHANGED <<tab, storage>>
    BY <1>4 DEF HashSession, TypeInv, TypeOK, Subjects, Call, Row
  <2>2. Backed(s)'
    BY <2>1 DEF Backed
  <2>3. \A c \in Tabs \ {b} : call[c].session # s
    BY <1>4 DEF HashSession, TokenInv, Opening
  <2>4. TokensBacked'
    BY <1>1, <2>1, <2>2 DEF TokenInv, TokensBacked, Backed
  <2>5. Opening'
    BY <1>1, <1>4, <2>1, <2>3 DEF HashSession, TokenInv, Opening
  <2> QED
    BY <2>4, <2>5 DEF TokenInv
<1>5. ASSUME NEW b \in Tabs, LoggedIn(b) \/ Refreshed(b) \/ Refused(b) PROVE TokenInv'
  BY <1>5, TokenTake DEF LoggedIn, Refreshed, Refused, server
<1>6. ASSUME NEW b \in Tabs, NEW kick \in BOOLEAN, Refresh(b, kick) PROVE TokenInv'
  <2>1. /\ \A c \in Tabs \ {b} : call'[c] = call[c]
        /\ call'[b].pc \in {"checked", "refused"} /\ call'[b].session = tab[b].session
        /\ tab[b].session # None /\ UNCHANGED <<tab, storage, session, signed>>
    BY <1>6 DEF Refresh, server, TypeInv, TypeOK, Call
  <2>2. \A c \in Tabs : call[c].pc = "opened" => call[c].session # tab[b].session
    <3>1. Backed(tab[b].session)
      BY <2>1 DEF TokenInv, TokensBacked
    <3> QED
      BY <1>1, <2>1, <3>1, BoundsAreNat DEF TokenInv, Opening, Backed, Pending
  <2>3. TokensBacked'
    BY <2>1 DEF TokenInv, TokensBacked, Backed
  <2>4. Opening'
    BY <2>1, <2>2 DEF TokenInv, Opening
  <2> QED
    BY <2>3, <2>4 DEF TokenInv
<1>7. ASSUME NEW b \in Tabs, NEW token \in 1 .. MaxToken, Rotate(b, token) PROVE TokenInv'
  <2> DEFINE s == call[b].session
  <2>1. /\ s \in Sessions
        /\ \A c \in Tabs \ {b} : call'[c] = call[c]
        /\ call'[b].pc = "granted" /\ call'[b].session = s
        /\ \A t \in Sessions \ {s} : session'[t] = session[t] /\ signed'[t] = signed[t]
        /\ session'[s].hash = token /\ signed'[s] = token /\ session'[s].user = session[s].user
        /\ UNCHANGED <<tab, storage>>
    BY <1>7 DEF Rotate, TypeInv, TypeOK, Subjects, Call, Row
  <2>2. Backed(s)'
    BY <2>1, BoundsAreNat DEF Backed
  <2>3. \A c \in Tabs : call[c].pc = "opened" => call[c].session # s
    BY <1>7 DEF Rotate, TokenInv, Opening
  <2>4. TokensBacked'
    BY <1>1, <2>1, <2>2 DEF TokenInv, TokensBacked, Backed
  <2>5. Opening'
    BY <1>1, <2>1, <2>3 DEF TokenInv, Opening
  <2> QED
    BY <2>4, <2>5 DEF TokenInv
<1>8. ASSUME NEW b \in Tabs, Lose(b) PROVE TokenInv'
  <2>1. CASE call[b].pc \in {"checked", "granted"}
    <3>1. /\ \A c \in Tabs \ {b} : call'[c] = call[c]
          /\ call'[b].pc = "refused" /\ call'[b].session = call[b].session
          /\ UNCHANGED <<tab, storage, session, signed>>
      BY <1>8, <2>1 DEF Lose, server, TypeInv, TypeOK, Call
    <3> QED
      BY <2>1, <3>1 DEF TokenInv, TokensBacked, Opening, Backed
  <2>2. CASE call[b].pc \notin {"checked", "granted"}
    BY <1>8, <2>2, TokenTake DEF Lose, server
  <2> QED
    BY <2>1, <2>2
<1>9. ASSUME NEW b \in Tabs, Load(b) PROVE TokenInv'
  <2>1. /\ \A c \in Tabs \ {b} : tab'[c] = tab[c]
        /\ tab'[b] = storage /\ call[b].pc = "none"
        /\ UNCHANGED <<call, storage, session, signed>>
    BY <1>0, <1>9 DEF Load, server, TypeInv, TypeOK
  <2> QED
    BY <2>1 DEF TokenInv, TokensBacked, Opening, Backed
<1>10. ASSUME NEW b \in Tabs, CloseTab(b) \/ LogOutInBrowser(b) PROVE TokenInv'
  <2>1. /\ \A c \in Tabs \ {b} : tab'[c] = tab[c]
        /\ tab'[b] = Nothing
        /\ storage' = storage \/ storage' = Nothing
        /\ UNCHANGED <<call, session, signed>>
    BY <1>10 DEF CloseTab, LogOutInBrowser, Clear, Write, server, TypeInv, TypeOK
  <2> QED
    BY <1>0, <2>1 DEF TokenInv, TokensBacked, Opening, Backed
<1>11. ASSUME NEW b \in Tabs, Persist(b) PROVE TokenInv'
  <2>1. /\ \A c \in Tabs : tab'[c] = tab[c]
        /\ storage' = tab[b]
        /\ UNCHANGED <<call, session, signed>>
    BY <1>11 DEF Persist, Write, server, TypeInv, TypeOK
  <2> QED
    BY <2>1 DEF TokenInv, TokensBacked, Opening, Backed
<1>12. ASSUME NEW s \in Sessions, SessionExpires(s) PROVE TokenInv'
  BY <1>12, TokenFrame DEF SessionExpires, TypeInv, TypeOK, Row
<1>13. ASSUME NEW s \in Sessions, Logout(s) \/ LogoutAll(s) PROVE TokenInv'
  BY <1>13, TokenFrame DEF Logout, LogoutAll, Revoke, TypeInv, TypeOK, Row
<1>14. ASSUME NEW r \in Resetters, ResetPassword(r) PROVE TokenInv'
  BY <1>14, TokenFrame DEF ResetPassword, Revoke, TypeInv, TypeOK, Row
<1>15. ASSUME UNCHANGED <<session, signed, browser>> PROVE TokenInv'
  BY <1>15, TokenFrame
<1>16. (\E u \in Users, k \in Links : ForgotPassword(u, k))
         \/ (\E r \in Resetters, k \in Links : ResetCheck(r, k)) \/ UNCHANGED vars
       => UNCHANGED <<session, signed, browser>>
  BY DEF ForgotPassword, ResetCheck, vars, server, browser
<1> QED
  BY <1>2, <1>3, <1>4, <1>5, <1>6, <1>7, <1>8, <1>9, <1>10, <1>11, <1>12, <1>13, <1>14,
     <1>15, <1>16 DEF Next, InTab, Elsewhere

\* Wherever tokens of a session are, its row has the hash of one of them and
\* no placeholder (auth.service.ts createSessionAndTokens).
THEOREM TokensCorrect == Spec => []TokensAreBackedByAHash
<1>1. TypeInv /\ TokenInv => TokensAreBackedByAHash
  BY NoneIsNothing DEF TokenInv, TokensBacked, TokensAreBackedByAHash, Backed
<1> QED
  BY <1>1, TypeInit, TypeStep, TokenInit, TokenStep, PTL DEF Spec

-----------------------------------------------------------------------------
(* Being sent to the login page.  As long as a session is undisturbed it   *)
(* has at most one holder, and that tab, the storage, or the answer on its *)
(* way to the tab have the very token whose hash the row stores; so only a *)
(* dead session is refused.                                                *)

Granted(b, s) == call[b].session = s /\ call[b].pc = "granted"

Current(s) ==
    /\ \A b, c \in Tabs : Holds(b, s) /\ Holds(c, s) => b = c
    /\ \A b \in Tabs : tab[b].session = s /\ ~Granted(b, s) => tab[b].token = session[s].hash
    /\ \A b \in Tabs : call[b].session = s /\ call[b].pc \in {"answered", "granted"} =>
                        call[b].token = session[s].hash
    /\ storage.session = s /\ (\A b \in Tabs : ~Granted(b, s)) => storage.token = session[s].hash
    /\ \A b \in Tabs : call[b].session = s /\ call[b].pc = "refused" => ~Live(s)

KickInv == \A s \in Sessions \ disturbed : Current(s)

LEMMA KickInit == Init => KickInv
BY NoneIsNothing DEF Init, KickInv, Current, Granted, Holds, Nothing, NoCall

\* Rows keep their hashes and none comes back to life.
LEMMA KickFrame ==
    ASSUME KickInv, UNCHANGED <<browser, disturbed>>,
           \A s \in Sessions : session'[s].hash = session[s].hash,
           \A s \in Sessions : Live(s)' => Live(s)
    PROVE  KickInv'
<1>1. ASSUME NEW s \in Sessions, Current(s) PROVE Current(s)'
  BY <1>1 DEF Current, Granted, Holds, browser
<1> QED
  BY <1>1 DEF KickInv

LEMMA KickRevoke ==
    ASSUME TypeInv, KickInv, UNCHANGED <<browser, disturbed>>,
           NEW u, NEW S, Revoke(u, S)
    PROVE  KickInv'
<1>1. ASSUME NEW s \in Sessions
      PROVE  /\ session'[s].hash = session[s].hash
             /\ Live(s)' => Live(s)
  <2>1. session[s] \in Row /\ session'[s] \in {session[s], [session[s] EXCEPT !.revoked = TRUE]}
    BY DEF Revoke, TypeInv, TypeOK
  <2> QED
    BY <2>1 DEF Row, Live
<1> QED
  BY <1>1, KickFrame

LEMMA KickStep == TypeInv /\ TokenInv /\ KickInv /\ [Next]_vars => KickInv'
<1> SUFFICES ASSUME TypeInv, TokenInv, KickInv, [Next]_vars PROVE KickInv'
  OBVIOUS
<1>0. /\ NoCall.pc = "none" /\ NoCall.session = None /\ Nothing.session = None
      /\ \A s \in Sessions : s # None
  BY NoneIsNothing DEF NoCall, Nothing
<1>1. /\ \A b \in Tabs : call[b].pc \notin {"none", "login"} => call[b].session \in Sessions
      /\ storage.session \in Sessions \cup {None}
  BY DEF TypeInv, TypeOK, Subjects, Held
<1>2. ASSUME NEW b \in Tabs, NEW u \in Users, Login(b, u) PROVE KickInv'
  <2>1. /\ \A c \in Tabs \ {b} : call'[c] = call[c]
        /\ call'[b].pc = "login" /\ call'[b].session = None /\ call[b].session = None
        /\ UNCHANGED <<tab, storage, session, disturbed>>
    BY <1>0, <1>2 DEF Login, server, history, TypeInv, TypeOK, Call
  <2>2. ASSUME NEW s \in Sessions, Current(s) PROVE Current(s)'
    BY <1>0, <2>1, <2>2 DEF Current, Granted, Holds, Live
  <2> QED
    BY <2>1, <2>2 DEF KickInv
<1>3. ASSUME NEW b \in Tabs, NEW s \in Sessions, OpenSession(b, s) PROVE KickInv'
  <2>1. /\ \A c \in Tabs \ {b} : call'[c] = call[c]
        /\ call'[b].pc = "opened" /\ call'[b].session = s /\ call[b].pc = "login"
        /\ \A t \in Sessions \ {s} : session'[t] = session[t]
        /\ UNCHANGED <<tab, storage, disturbed>>
    BY <1>3 DEF OpenSession, history, TypeInv, TypeOK, Call
  <2>2. /\ \A c \in Tabs : tab[c].session # s /\ call[c].session # s
        /\ storage.session # s
    <3>1. ~Backed(s) /\ session[s].user = None
      BY <1>3, BoundsAreNat DEF OpenSession, Backed, NoRow, Pending, TypeInv, TypeOK
    <3> QED
      BY <1>0, <3>1 DEF TokenInv, TokensBacked, Opening
  <2>3. Current(s)'
    BY <2>1, <2>2 DEF Current, Granted, Holds
  <2>4. ASSUME NEW t \in Sessions \ {s}, Current(t) PROVE Current(t)'
    <3>1. call[b].session = None
      BY <2>1 DEF TypeInv, Subjects
    <3> QED
      BY <1>0, <2>1, <2>4, <3>1 DEF Current, Granted, Holds, Live
  <2> QED
    BY <2>1, <2>3, <2>4 DEF KickInv
<1>4. ASSUME NEW b \in Tabs, HashSession(b) PROVE KickInv'
  <2> DEFINE s == call[b].session
  <2>1. /\ s \in Sessions
        /\ \A c \in Tabs \ {b} : call'[c] = call[c]
        /\ call'[b].pc = "answered" /\ call'[b].session = s /\ call'[b].token = 1
        /\ \A t \in Sessions \ {s} : session'[t] = session[t]
        /\ session'[s].hash = 1
        /\ UNCHANGED <<tab, storage, disturbed>>
    BY <1>4 DEF HashSession, history, TypeInv, TypeOK, Subjects, Call, Row
  <2>2. /\ \A c \in Tabs : tab[c].session # s
        /\ \A c \in Tabs \ {b} : call[c].session # s
        /\ storage.session # s
    <3>1. session[s].hash = Pending /\ \A c \in Tabs \ {b} : call[c].session # s
      BY <1>4 DEF HashSession, TokenInv, Opening
    <3>2. ~Backed(s)
      BY <2>1, <3>1 DEF Backed, Pending, TypeInv, TypeOK
    <3> QED
      BY <1>0, <2>1, <3>1, <3>2 DEF TokenInv, TokensBacked
  <2>3. Current(s)'
    BY <2>1, <2>2 DEF Current, Granted, Holds
  <2>4. ASSUME NEW t \in Sessions \ {s}, Current(t) PROVE Current(t)'
    BY <2>1, <2>4 DEF Current, Granted, Holds, Live
  <2> QED
    BY <2>1, <2>3, <2>4 DEF KickInv
<1>5. ASSUME NEW b \in Tabs, LoggedIn(b) \/ Refreshed(b) PROVE KickInv'
  <2>0. PICK s \in Sessions : s = call[b].session
    BY <1>1, <1>5 DEF LoggedIn, Refreshed
  <2>1. /\ call[b].pc \in {"answered", "granted"}
        /\ \A c \in Tabs \ {b} : call'[c] = call[c] /\ tab'[c] = tab[c]
        /\ call'[b] = NoCall
        /\ tab'[b].session = s /\ tab'[b].token = call[b].token
        /\ storage'.session = s /\ storage'.token = call[b].token
        /\ UNCHANGED <<session, disturbed>>
    BY <1>5, <2>0 DEF LoggedIn, Refreshed, Take, Write, server, TypeInv, TypeOK
  <2>2. ASSUME Current(s) PROVE Current(s)'
    <3>1. \A c \in Tabs \ {b} : ~Holds(c, s)
      BY <2>0, <2>2 DEF Current, Holds
    <3>2. call[b].token = session[s].hash
      BY <2>0, <2>1, <2>2 DEF Current
    <3> QED
      BY <1>0, <2>0, <2>1, <3>1, <3>2 DEF Current, Granted, Holds, Live
  <2>3. ASSUME NEW t \in Sessions \ {s}, Current(t) PROVE Current(t)'
    BY <1>0, <2>0, <2>1, <2>3 DEF Current, Granted, Holds, Live
  <2> QED
    BY <2>1, <2>2, <2>3 DEF KickInv
<1>6. ASSUME NEW b \in Tabs, NEW kick \in BOOLEAN, Refresh(b, kick) PROVE KickInv'
  <2> DEFINE s == tab[b].session
             valid == Live(s) /\ session[s].hash = tab[b].token
  <2>1. /\ s \in Sessions
        /\ call[b] = NoCall
        /\ \A c \in Tabs \ {b} : call'[c] = call[c]
        /\ call'[b].pc = IF valid THEN "checked" ELSE "refused"
        /\ call'[b].session = s
        /\ UNCHANGED <<tab, storage, session, disturbed>>
    BY <1>6 DEF Refresh, server, history, TypeInv, TypeOK, Call, Held
  <2>2. ASSUME Current(s) PROVE Current(s)'
    <3>1. tab[b].token = session[s].hash
      BY <1>0, <2>1, <2>2 DEF Current, Granted
    <3>2. call'[b].pc \in {"checked", "refused"} /\ (call'[b].pc = "refused" => ~Live(s))
      BY <2>1, <3>1
    <3>3. Live(s)' <=> Live(s)
      BY <2>1 DEF Live
    <3> QED
      BY <1>0, <2>1, <2>2, <3>2, <3>3 DEF Current, Granted, Holds
  <2>3. ASSUME NEW t \in Sessions \ {s}, Current(t) PROVE Current(t)'
    BY <1>0, <2>1, <2>3 DEF Current, Granted, Holds, Live
  <2> QED
    BY <2>1, <2>2, <2>3 DEF KickInv
<1>7. ASSUME NEW b \in Tabs, NEW token \in 1 .. MaxToken, Rotate(b, token) PROVE KickInv'
  <2> DEFINE s == call[b].session
  <2>1. /\ s \in Sessions
        /\ call[b].pc = "checked"
        /\ \A c \in Tabs \ {b} : call'[c] = call[c]
        /\ call'[b].pc = "granted" /\ call'[b].session = s /\ call'[b].token = token
        /\ \A t \in Sessions \ {s} : session'[t] = session[t]
        /\ session'[s].hash = token
        /\ UNCHANGED <<tab, storage, disturbed>>
    BY <1>7 DEF Rotate, history, TypeInv, TypeOK, Subjects, Call, Row
  <2>2. ASSUME Current(s) PROVE Current(s)'
    <3>1. \A c \in Tabs \ {b} : ~Holds(c, s)
      BY <2>2 DEF Current, Holds
    <3> QED
      BY <2>1, <3>1 DEF Current, Granted, Holds
  <2>3. ASSUME NEW t \in Sessions \ {s}, Current(t) PROVE Current(t)'
    BY <2>1, <2>3 DEF Current, Granted, Holds, Live
  <2> QED
    BY <2>1, <2>2, <2>3 DEF KickInv
<1>8. ASSUME NEW b \in Tabs, Refused(b) PROVE KickInv'
  <2>1. /\ call[b].pc = "refused" /\ call[b].session \in Sessions
        /\ \A c \in Tabs \ {b} : call'[c] = call[c]
        /\ call'[b] = NoCall
        /\ \A c \in Tabs : tab'[c] \in {tab[c], Nothing}
        /\ storage' \in {storage, Nothing}
        /\ UNCHANGED <<session, disturbed>>
    BY <1>1, <1>8 DEF Refused, Clear, Write, server, TypeInv, TypeOK
  <2>2. ASSUME NEW s \in Sessions, Current(s) PROVE Current(s)'
    BY <1>0, <2>1, <2>2 DEF Current, Granted, Holds, Live
  <2> QED
    BY <2>1, <2>2 DEF KickInv
<1>9. ASSUME NEW b \in Tabs, Lose(b) PROVE KickInv'
  <2> DEFINE s == call[b].session
  <2>1. CASE call[b].pc \in {"checked", "granted"}
    <3>1. /\ \A c \in Tabs \ {b} : call'[c] = call[c]
          /\ call'[b].session = s
          /\ disturbed' = disturbed \cup {s}
          /\ UNCHANGED <<tab, storage, session>>
      BY <1>9, <2>1 DEF Lose, server, TypeInv, TypeOK, Call
    <3>2. ASSUME NEW t \in Sessions \ {s}, Current(t) PROVE Current(t)'
      BY <3>1, <3>2 DEF Current, Granted, Holds, Live
    <3> QED
      BY <3>1, <3>2 DEF KickInv
  <2>2. CASE call[b].pc \notin {"checked", "granted"}
    <3>1. /\ \A c \in Tabs \ {b} : call'[c] = call[c]
          /\ call'[b] = NoCall
          /\ UNCHANGED <<tab, storage, session, disturbed>>
      BY <1>9, <2>2 DEF Lose, server, TypeInv, TypeOK
    <3>2. ASSUME NEW t \in Sessions, Current(t) PROVE Current(t)'
      BY <1>0, <2>2, <3>1, <3>2 DEF Current, Granted, Holds, Live
    <3> QED
      BY <3>1, <3>2 DEF KickInv
  <2> QED
    BY <2>1, <2>2
<1>10. ASSUME NEW b \in Tabs, Load(b) PROVE KickInv'
  <2> DEFINE s == storage.session
  <2>1. /\ call[b] = NoCall
        /\ \A c \in Tabs \ {b} : tab'[c] = tab[c]
        /\ tab'[b] = storage
        /\ disturbed \subseteq disturbed'
        /\ s \in Sessions /\ s \notin disturbed' => \A c \in Tabs \ {b} : ~Holds(c, s)
        /\ UNCHANGED <<call, storage, session>>
    BY <1>0, <1>10 DEF Load, server, TypeInv, TypeOK
  <2>2. ASSUME s \in Sessions \ disturbed', Current(s) PROVE Current(s)'
    <3>1. \A c \in Tabs : ~Granted(c, s)
      BY <1>0, <2>1, <2>2 DEF Granted, Holds
    <3> QED
      BY <1>0, <2>1, <2>2, <3>1 DEF Current, Granted, Holds, Live
  <2>3. ASSUME NEW t \in Sessions \ {s}, Current(t) PROVE Current(t)'
    BY <1>0, <2>1, <2>3 DEF Current, Granted, Holds, Live
  <2> QED
    BY <2>1, <2>2, <2>3 DEF KickInv
<1>11. ASSUME NEW b \in Tabs, CloseTab(b) \/ LogOutInBrowser(b) \/ Persist(b) PROVE KickInv'
  <2>1. /\ \A c \in Tabs \ {b} : tab'[c] = tab[c]
        /\ tab'[b] \in {tab[b], Nothing}
        /\ storage' \in {storage, tab[b], Nothing}
        /\ UNCHANGED <<call, session, disturbed>>
    BY <1>11 DEF CloseTab, LogOutInBrowser, Persist, Clear, Write, server, history, TypeInv, TypeOK
  <2>2. ASSUME NEW s \in Sessions, Current(s) PROVE Current(s)'
    BY <1>0, <2>1, <2>2 DEF Current, Granted, Holds, Live
  <2> QED
    BY <2>1, <2>2 DEF KickInv
<1>12. ASSUME NEW s \in Sessions, SessionExpires(s) PROVE KickInv'
  BY <1>12, KickFrame DEF SessionExpires, history, Live, TypeInv, TypeOK, Row
<1>13. ASSUME NEW s \in Sessions, Logout(s) \/ LogoutAll(s) PROVE KickInv'
  <2>1. /\ Revoke(session[s].user, {s}) \/ Revoke(session[s].user, Sessions)
        /\ UNCHANGED <<browser, disturbed>>
    BY <1>13 DEF Logout, LogoutAll, history
  <2> QED
    BY <2>1, KickRevoke
<1>14. ASSUME NEW r \in Resetters, ResetPassword(r) PROVE KickInv'
  <2>1. /\ Revoke(link[reset[r]].user, Sessions)
        /\ UNCHANGED <<browser, disturbed>>
    BY <1>14 DEF ResetPassword, history
  <2> QED
    BY <2>1, KickRevoke
<1>15. ASSUME UNCHANGED <<session, browser, history>> PROVE KickInv'
  BY <1>15, KickFrame DEF history, Live
<1>16. (\E u \in Users, k \in Links : ForgotPassword(u, k))
         \/ (\E r \in Resetters, k \in Links : ResetCheck(r, k)) \/ UNCHANGED vars
       => UNCHANGED <<session, browser, history>>
  BY DEF ForgotPassword, ResetCheck, vars, server, browser, history
<1> QED
  BY <1>2, <1>3, <1>4, <1>5, <1>6, <1>7, <1>8, <1>9, <1>10, <1>11, <1>12, <1>13, <1>14,
     <1>15, <1>16 DEF Next, InTab, Elsewhere

-----------------------------------------------------------------------------
(* What a reload keeps.  A tab's tokens are those of the session in the      *)
(* storage unless another tab has written others there, or none.             *)

StorageInv == \A b \in Tabs : tab[b].session \in {storage.session, None} \cup ousted

LEMMA StorageWrite ==
    ASSUME TypeInv, StorageInv, NEW b \in Tabs, NEW held, Write(b, held)
    PROVE  StorageInv'
<1>1. /\ \A c \in Tabs \ {b} : tab'[c] = tab[c]
      /\ tab'[b] = held /\ storage' = held
      /\ \A c \in Tabs \ {b} : tab[c].session \in {held.session, None} \cup ousted'
  BY DEF Write, TypeInv, TypeOK
<1> QED
  BY <1>1 DEF StorageInv

LEMMA StorageStep == TypeInv /\ StorageInv /\ [Next]_vars => StorageInv'
<1> SUFFICES ASSUME TypeInv, StorageInv, [Next]_vars PROVE StorageInv'
  OBVIOUS
<1>1. ASSUME UNCHANGED <<tab, storage, ousted>> PROVE StorageInv'
  BY <1>1 DEF StorageInv
<1>2. ASSUME NEW b \in Tabs,
             LoggedIn(b) \/ Refreshed(b) \/ Refused(b) \/ Persist(b) \/ LogOutInBrowser(b)
      PROVE  StorageInv'
  BY <1>1, <1>2, StorageWrite
     DEF LoggedIn, Refreshed, Refused, Persist, LogOutInBrowser, Take, Clear
<1>3. ASSUME NEW b \in Tabs, Load(b) \/ CloseTab(b) PROVE StorageInv'
  <2>1. /\ \A c \in Tabs \ {b} : tab'[c] = tab[c]
        /\ tab'[b] \in {storage, Nothing}
        /\ UNCHANGED <<storage, ousted>>
    BY <1>3 DEF Load, CloseTab, history, TypeInv, TypeOK
  <2> QED
    BY <2>1 DEF StorageInv, Nothing
<1>4. \/ UNCHANGED <<tab, storage, ousted>>
      \/ \E b \in Tabs :
            \/ LoggedIn(b) \/ Refreshed(b) \/ Refused(b) \/ Persist(b) \/ LogOutInBrowser(b)
            \/ Load(b) \/ CloseTab(b)
  BY DEF Next, InTab, Elsewhere, Login, OpenSession, HashSession, Refresh, Rotate, Lose,
         SessionExpires, Logout, LogoutAll, ForgotPassword, ResetCheck, ResetPassword,
         vars, server, browser, history
<1> QED
  BY <1>1, <1>2, <1>3, <1>4

\* A tab is refused a refresh of a live session only after two tabs held its
\* tokens at once or a refresh of it was lost, and the next page it loads is
\* one of that session unless another tab wrote something else to the storage
\* (auth.service.ts refreshToken, api-client.ts doRefresh, proxy.ts,
\* useAuthStore.ts persist).
THEOREM KickCorrect == Spec => []KickedOnlyIfDisturbed
<1>1. KickInv /\ StorageInv => KickedOnlyIfDisturbed
  BY NoneIsNothing DEF KickInv, Current, StorageInv, Stranded, KickedOnlyIfDisturbed
<1>2. Init => StorageInv
  BY DEF Init, StorageInv, Nothing
<1> QED
  BY <1>1, <1>2, TypeInit, TypeStep, TokenInit, TokenStep, KickInit, KickStep, StorageStep,
     PTL DEF Spec
=============================================================================
