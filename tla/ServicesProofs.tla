-------------------------- MODULE ServicesProofs --------------------------
(***************************************************************************)
(* Theorems about Accounts and Access, for any number of addresses, links, *)
(* roles, users, items, handlers and deaths; about the cached figures and  *)
(* the reports of Analytics, for any users, events, requests and clock;    *)
(* about Catalogue, for any number of requests; and about Seeds, for any   *)
(* number of runs.                                                         *)
(***************************************************************************)
EXTENDS MCServices, Sequences, SequenceTheorems, FiniteSetTheorems, TLAPS

-----------------------------------------------------------------------------
(* Accounts (module Accounts).                                             *)

LEMMA LinkIsMade ==
    ASSUME NEW x \in A!OneTime, NEW u \in Names, NEW t \in A!Purpose
    PROVE  [x EXCEPT !.user = u, !.type = t] \in A!OneTime
BY DEF A!OneTime

LEMMA LinkIsMailed ==
    ASSUME NEW x \in A!Request, NEW k \in Keys
    PROVE  [x EXCEPT !.pc = "mail", !.oneTime = k] \in A!Request
BY DEF A!Request

LEMMA AccountsInit == A!Init => A!AccountsInv
<1> SUFFICES ASSUME A!Init PROVE A!AccountsInv
  OBVIOUS
<1> USE BoundsAreGiven, NoneIsNoName DEF A!Init
<1>1. A!TypeOK
  BY DEF A!TypeOK, A!UserRow, A!NoUser, A!OneTime, A!NoOneTime, A!Request, A!Idle, A!Purpose
<1>2. A!HandlersKnow /\ A!HandlersDiffer
  BY DEF A!HandlersKnow, A!Knows, A!HandlersDiffer, A!Idle, A!At
<1>3. A!RowsAgree
  BY DEF A!RowsAgree, A!NoOneTime, A!NoUser
<1>4. A!LinksVerify
  BY DEF A!LinksVerify, A!UnverifiedCanVerify, A!VerifiedByOwnLink, A!NoUser
<1>5. QED
  BY <1>1, <1>2, <1>3, <1>4 DEF A!AccountsInv

\* A handler that only begins knows what it needs at its first step.
LEMMA AccountsBegin ==
    ASSUME A!AccountsInv, UNCHANGED <<v1, v2, v4, v5, v6>>,
           NEW r \in Calls, NEW step \in A!Request, A!Begin(r, step),
           step.user \in Names,
           step.pc \notin {"mail", "link"},
           step.pc \in {"create", "find"} => step.type = "verify",
           step.pc = "consume" =>
              /\ step.oneTime \in Keys
              /\ v2[step.oneTime].user = step.user
              /\ v2[step.oneTime].type = step.type
              /\ v2[step.oneTime].mailed
    PROVE  A!AccountsInv'
<1> USE BoundsAreGiven, NoneIsNoName DEF A!AccountsInv, A!Begin
<1>1. A!TypeOK'
  BY DEF A!TypeOK
<1>2. A!HandlersKnow'
  <2> SUFFICES ASSUME NEW q \in Calls PROVE A!Knows(q)'
    BY DEF A!HandlersKnow
  <2>1. CASE q = r
    BY <2>1 DEF A!TypeOK, A!Knows
  <2>2. CASE q # r
    BY <2>2 DEF A!HandlersKnow, A!Knows
  <2>3. QED
    BY <2>1, <2>2
<1>3. A!HandlersDiffer'
  BY DEF A!HandlersDiffer, A!At
<1>4. A!RowsAgree'
  BY DEF A!RowsAgree
<1>5. A!LinksVerify'
  BY DEF A!LinksVerify, A!UnverifiedCanVerify, A!VerifiedByOwnLink, A!HasLink, A!BeingMailed,
     A!Usable
<1>6. QED
  BY <1>1, <1>2, <1>3, <1>4, <1>5

\* One step per action that does more than begin.
LEMMA AccountsNext == A!AccountsInv /\ [A!Next]_A!vars => A!AccountsInv'
<1> SUFFICES ASSUME A!AccountsInv, [A!Next]_A!vars PROVE A!AccountsInv'
  OBVIOUS
<1> USE BoundsAreGiven, NoneIsNoName
<1>0. ASSUME UNCHANGED A!vars PROVE A!AccountsInv'
  BY <1>0 DEF A!vars, A!AccountsInv, A!TypeOK, A!HandlersKnow, A!Knows, A!HandlersDiffer,
     A!RowsAgree, A!LinksVerify, A!UnverifiedCanVerify, A!VerifiedByOwnLink, A!HasLink,
     A!BeingMailed, A!Usable, A!At
<1>1. ASSUME NEW r \in Calls, NEW a \in Names, A!SignUp(r, a)
      PROVE  A!AccountsInv'
  <2> DEFINE step == [A!Idle EXCEPT !.pc = "create", !.user = a]
  <2>1. step \in A!Request
    BY DEF A!Request, A!Idle, A!Purpose
  <2>2. QED
    BY <1>1, <2>1, AccountsBegin DEF A!SignUp, A!Idle
<1>2. ASSUME NEW r \in Calls, NEW a \in Names, A!ForgotPassword(r, a)
      PROVE  A!AccountsInv'
  <2> DEFINE step == [A!Idle EXCEPT !.pc = "issue", !.user = a, !.type = "reset"]
  <2>1. step \in A!Request
    BY DEF A!Request, A!Idle, A!Purpose
  <2>2. QED
    BY <1>2, <2>1, AccountsBegin DEF A!ForgotPassword, A!Idle
<1>3. ASSUME NEW r \in Calls, NEW a \in Names, NEW m \in Cards, A!MinistryCheck(r, a, m)
      PROVE  A!AccountsInv'
  <2> DEFINE step == [A!Idle EXCEPT !.pc = "bind", !.user = a, !.card = m]
  <2>1. step \in A!Request
    BY DEF A!Request, A!Idle, A!Purpose
  <2>2. QED
    BY <1>3, <2>1, AccountsBegin DEF A!MinistryCheck, A!Idle
<1>4. ASSUME NEW r \in Calls, NEW t \in Chats, NEW a \in Names, A!TelegramRegister(r, t, a)
      PROVE  A!AccountsInv'
  <2> DEFINE step == [A!Idle EXCEPT !.pc = "find", !.user = a, !.chat = t]
  <2>1. step \in A!Request
    BY DEF A!Request, A!Idle, A!Purpose
  <2>2. QED
    BY <1>4, <2>1, AccountsBegin DEF A!TelegramRegister, A!Idle
<1>5. ASSUME NEW r \in Calls, NEW k \in Keys, NEW type \in A!Purpose, A!Consume(r, k, type)
      PROVE  A!AccountsInv'
  <2> DEFINE step == [A!Idle EXCEPT !.pc = "consume", !.type = type, !.user = v2[k].user,
                                    !.oneTime = k]
  <2>1. v2[k] \in A!OneTime /\ v2[k].user \in Names
    BY <1>5 DEF A!AccountsInv, A!TypeOK, A!OneTime, A!RowsAgree, A!Consume, A!Usable
  <2>2. step \in A!Request
    BY <2>1 DEF A!Request, A!Idle
  <2>3. QED
    BY <1>5, <2>1, <2>2, AccountsBegin DEF A!Consume, A!Usable, A!Idle
<1>6. ASSUME NEW r \in Calls, A!CreateUser(r)
      PROVE  A!AccountsInv'
  <2> USE <1>6 DEF A!AccountsInv, A!CreateUser, A!Finish, A!At
  <2>1. A!TypeOK'
    <3> DEFINE a == v3[r].user  t == v3[r].chat
    <3>1. a \in Names /\ t \in Chats \cup {None}
      BY DEF A!HandlersKnow, A!Knows, A!TypeOK, A!Request
    <3>2. v1' \in [Names -> A!UserRow]
      <4>1. (t = None) \in BOOLEAN
        OBVIOUS
      <4>2. CASE UNCHANGED v1
        BY <4>2 DEF A!TypeOK
      <4>3. CASE v1' = [v1 EXCEPT ![a].exists = TRUE, ![a].password = (t = None), ![a].chat = t]
        <5>1. v1[a] \in A!UserRow
          BY <3>1 DEF A!TypeOK
        <5>2. [v1[a] EXCEPT !.exists = TRUE, !.password = (t = None), !.chat = t] \in A!UserRow
          BY <3>1, <4>1, <5>1 DEF A!UserRow
        <5>3. v1' = [v1 EXCEPT ![a] = [v1[a] EXCEPT !.exists = TRUE, !.password = (t = None),
                                                    !.chat = t]]
          BY <4>3, <3>1, <5>1 DEF A!TypeOK
        <5>4. QED
          BY <5>2, <5>3 DEF A!TypeOK
      <4>4. QED
        BY <4>2, <4>3
    <3>3. v3' \in [Calls -> A!Request]
      BY DEF A!TypeOK, A!Request, A!Idle, A!Purpose
    <3>4. QED
      BY <3>2, <3>3 DEF A!TypeOK
  <2>2. A!HandlersKnow'
    <3> SUFFICES ASSUME NEW q \in Calls PROVE A!Knows(q)'
      BY DEF A!HandlersKnow
    <3>1. CASE q = r
      BY <3>1 DEF A!HandlersKnow, A!Knows, A!TypeOK, A!Request, A!Idle
    <3>2. CASE q # r
      <4>1. A!Knows(q) /\ v3'[q] = v3[q]
        BY <3>2 DEF A!HandlersKnow, A!TypeOK
      <4>2. v3[q].pc = "link" => v1'[v3[q].user] = v1[v3[q].user]
        BY <4>1 DEF A!Knows, A!TypeOK
      <4>3. QED
        BY <4>1, <4>2 DEF A!Knows
    <3>3. QED
      BY <3>1, <3>2
  <2>3. A!HandlersDiffer'
    BY DEF A!HandlersDiffer, A!TypeOK, A!Request, A!Idle
  <2>4. A!RowsAgree'
    BY DEF A!RowsAgree, A!TypeOK, A!UserRow
  <2>5. A!UnverifiedCanVerify'
    <3> SUFFICES ASSUME NEW a \in Names, v1'[a].exists, ~v1'[a].verified
                 PROVE  (A!HasLink(a) \/ A!BeingMailed(a) \/ a \in v4)'
      BY DEF A!UnverifiedCanVerify
    <3>1. CASE v1'[a] = v1[a]
      <4>1. A!HasLink(a) \/ A!BeingMailed(a) \/ a \in v4
        BY <3>1 DEF A!LinksVerify, A!UnverifiedCanVerify
      <4>2. A!BeingMailed(a) => A!BeingMailed(a)'
        BY DEF A!BeingMailed, A!TypeOK
      <4>3. QED
        BY <4>1, <4>2 DEF A!HasLink, A!Usable
    <3>2. CASE v1'[a] # v1[a]
      <4>1. v3[r].user = a /\ v3'[r].pc = "issue" /\ v3'[r].user = a /\ v3'[r].type = "verify"
        BY <3>2 DEF A!HandlersKnow, A!Knows, A!TypeOK, A!Request
      <4>2. QED
        BY <4>1 DEF A!BeingMailed
    <3>3. QED
      BY <3>1, <3>2
  <2>6. A!VerifiedByOwnLink'
    BY DEF A!LinksVerify, A!VerifiedByOwnLink, A!TypeOK, A!UserRow
  <2>7. QED
    BY <2>1, <2>2, <2>3, <2>4, <2>5, <2>6 DEF A!LinksVerify
<1>7. ASSUME NEW r \in Calls, NEW k \in Keys, A!IssueLink(r, k)
      PROVE  A!AccountsInv'
  <2> USE <1>7 DEF A!AccountsInv, A!IssueLink, A!Finish, A!At
  <2>1. A!TypeOK'
    <3>1. v3[r].user \in Names /\ v3[r].type \in A!Purpose
      BY DEF A!HandlersKnow, A!Knows, A!TypeOK, A!Request
    <3>2. v2' \in [Keys -> A!OneTime]
      <4>1. v2[k] \in A!OneTime
        BY DEF A!TypeOK
      <4>2. v2' = [v2 EXCEPT ![k] = [v2[k] EXCEPT !.user = v3[r].user, !.type = v3[r].type]]
        BY <4>1 DEF A!OneTime, A!TypeOK
      <4>3. [v2[k] EXCEPT !.user = v3[r].user, !.type = v3[r].type] \in A!OneTime
        BY <3>1, <4>1, LinkIsMade
      <4>4. QED
        BY <4>2, <4>3 DEF A!TypeOK
    <3>3. v3' \in [Calls -> A!Request]
      <4>1. v3[r] \in A!Request
        BY DEF A!TypeOK
      <4>2. [v3[r] EXCEPT !.pc = "mail", !.oneTime = k] \in A!Request
        BY <4>1, LinkIsMailed
      <4>3. QED
        BY <4>2 DEF A!TypeOK
    <3>4. QED
      BY <3>2, <3>3 DEF A!TypeOK
  <2>2. A!HandlersKnow'
    BY DEF A!HandlersKnow, A!Knows, A!RowsAgree, A!TypeOK, A!OneTime
  <2>3. A!HandlersDiffer'
    BY DEF A!HandlersDiffer, A!HandlersKnow, A!Knows, A!TypeOK
  <2>4. A!RowsAgree'
    BY DEF A!RowsAgree, A!TypeOK
  <2>5. A!UnverifiedCanVerify'
    <3> SUFFICES ASSUME NEW a \in Names, v1[a].exists, ~v1[a].verified
                 PROVE  (A!HasLink(a) \/ A!BeingMailed(a) \/ a \in v4)'
      BY DEF A!UnverifiedCanVerify
    <3>1. A!HasLink(a) \/ A!BeingMailed(a) \/ a \in v4
      BY DEF A!LinksVerify, A!UnverifiedCanVerify
    <3>2. A!HasLink(a) => A!HasLink(a)'
      BY DEF A!HasLink, A!Usable, A!TypeOK
    <3>3. A!BeingMailed(a) => A!BeingMailed(a)'
      BY DEF A!BeingMailed, A!TypeOK
    <3>4. QED
      BY <3>1, <3>2, <3>3
  <2>6. A!VerifiedByOwnLink'
    BY DEF A!LinksVerify, A!VerifiedByOwnLink, A!RowsAgree, A!TypeOK
  <2>7. QED
    BY <2>1, <2>2, <2>3, <2>4, <2>5, <2>6 DEF A!LinksVerify
<1>8. ASSUME NEW r \in Calls, NEW sent \in BOOLEAN, A!MailLink(r, sent)
      PROVE  A!AccountsInv'
  <2> USE <1>8 DEF A!AccountsInv, A!MailLink, A!Finish, A!At
  <2>1. A!TypeOK'
    BY DEF A!TypeOK, A!OneTime, A!Request, A!Idle, A!Purpose, A!HandlersKnow, A!Knows
  <2>2. A!HandlersKnow'
    BY DEF A!HandlersKnow, A!Knows, A!HandlersDiffer, A!TypeOK, A!Idle
  <2>3. A!HandlersDiffer'
    BY DEF A!HandlersDiffer, A!Idle
  <2>4. A!RowsAgree'
    BY DEF A!RowsAgree, A!HandlersKnow, A!Knows
  <2>5. A!UnverifiedCanVerify'
    BY DEF A!LinksVerify, A!UnverifiedCanVerify, A!HasLink, A!BeingMailed, A!Usable,
       A!HandlersKnow, A!Knows, A!RowsAgree, A!TypeOK, A!UserRow
  <2>6. A!VerifiedByOwnLink'
    BY DEF A!LinksVerify, A!VerifiedByOwnLink, A!HandlersKnow, A!Knows
  <2>7. QED
    BY <2>1, <2>2, <2>3, <2>4, <2>5, <2>6 DEF A!LinksVerify
<1>9. ASSUME NEW r \in Calls, A!ApplyLink(r)
      PROVE  A!AccountsInv'
  <2> USE <1>9 DEF A!AccountsInv, A!ApplyLink, A!Finish, A!At
  <2>1. A!TypeOK'
    <3> DEFINE a == v3[r].user  k == v3[r].oneTime
    <3>1. a \in Names /\ k \in Keys
      BY DEF A!HandlersKnow, A!Knows
    <3>2. v1[a] \in A!UserRow
      BY <3>1 DEF A!TypeOK
    <3>3. /\ (v1[a].verified \/ v3[r].type = "verify") \in BOOLEAN
          /\ (v1[a].password \/ v3[r].type = "reset") \in BOOLEAN
      OBVIOUS
    <3>4. [v1[a] EXCEPT !.verified = v1[a].verified \/ v3[r].type = "verify",
                        !.password = v1[a].password \/ v3[r].type = "reset"] \in A!UserRow
      BY <3>2, <3>3 DEF A!UserRow
    <3>5. v1' = [v1 EXCEPT ![a] =
                   [v1[a] EXCEPT !.verified = v1[a].verified \/ v3[r].type = "verify",
                                 !.password = v1[a].password \/ v3[r].type = "reset"]]
      BY <3>1, <3>2 DEF A!TypeOK, A!UserRow
    <3>6. v1' \in [Names -> A!UserRow]
      BY <3>4, <3>5 DEF A!TypeOK
    <3>7. v2' \in [Keys -> A!OneTime]
      BY DEF A!TypeOK, A!OneTime
    <3>8. v3' \in [Calls -> A!Request]
      BY DEF A!TypeOK, A!Request, A!Idle, A!Purpose
    <3>9. QED
      BY <3>6, <3>7, <3>8 DEF A!TypeOK
  <2>2. A!HandlersKnow'
    BY DEF A!HandlersKnow, A!Knows, A!TypeOK, A!Idle
  <2>3. A!HandlersDiffer'
    BY DEF A!HandlersDiffer, A!Idle
  <2>4. A!RowsAgree'
    BY DEF A!RowsAgree, A!HandlersKnow, A!Knows, A!TypeOK, A!OneTime
  <2>5. A!UnverifiedCanVerify'
    BY DEF A!LinksVerify, A!UnverifiedCanVerify, A!HasLink, A!BeingMailed, A!Usable,
       A!HandlersKnow, A!Knows, A!TypeOK, A!UserRow
  <2>6. A!VerifiedByOwnLink'
    BY DEF A!LinksVerify, A!VerifiedByOwnLink, A!HandlersKnow, A!Knows, A!TypeOK, A!UserRow
  <2>7. QED
    BY <2>1, <2>2, <2>3, <2>4, <2>5, <2>6 DEF A!LinksVerify
<1>10. ASSUME NEW k \in Keys, A!LinkExpires(k)
      PROVE  A!AccountsInv'
  <2> USE <1>10 DEF A!AccountsInv, A!LinkExpires, A!Finish, A!At
  <2>1. A!TypeOK'
    <3>1. v2[k].user \in Names
      BY DEF A!TypeOK, A!OneTime
    <3>2. v2' \in [Keys -> A!OneTime]
      BY DEF A!TypeOK, A!OneTime
    <3>3. QED
      BY <3>1, <3>2 DEF A!TypeOK
  <2>2. A!HandlersKnow'
    BY DEF A!HandlersKnow, A!Knows
  <2>3. A!HandlersDiffer'
    BY DEF A!HandlersDiffer
  <2>4. A!RowsAgree'
    BY DEF A!RowsAgree
  <2>5. A!UnverifiedCanVerify'
    BY DEF A!LinksVerify, A!UnverifiedCanVerify, A!HasLink, A!BeingMailed, A!Usable
  <2>6. A!VerifiedByOwnLink'
    BY DEF A!LinksVerify, A!VerifiedByOwnLink
  <2>7. QED
    BY <2>1, <2>2, <2>3, <2>4, <2>5, <2>6 DEF A!LinksVerify
<1>11. ASSUME NEW r \in Calls, A!MinistryBind(r)
      PROVE  A!AccountsInv'
  <2> USE <1>11 DEF A!AccountsInv, A!MinistryBind, A!Finish, A!At
  <2>1. A!TypeOK'
    BY DEF A!TypeOK, A!UserRow, A!OneTime, A!Request, A!Idle, A!Purpose, A!HandlersKnow,
       A!Knows
  <2>2. A!HandlersKnow'
    BY DEF A!HandlersKnow, A!Knows, A!Idle
  <2>3. A!HandlersDiffer'
    BY DEF A!HandlersDiffer, A!Idle
  <2>4. A!RowsAgree'
    BY DEF A!RowsAgree
  <2>5. A!UnverifiedCanVerify'
    BY DEF A!LinksVerify, A!UnverifiedCanVerify, A!HasLink, A!BeingMailed, A!Usable
  <2>6. A!VerifiedByOwnLink'
    BY DEF A!LinksVerify, A!VerifiedByOwnLink
  <2>7. QED
    BY <2>1, <2>2, <2>3, <2>4, <2>5, <2>6 DEF A!LinksVerify
<1>12. ASSUME NEW r \in Calls, A!FindAccount(r)
      PROVE  A!AccountsInv'
  <2> USE <1>12 DEF A!AccountsInv, A!FindAccount, A!Finish, A!At
  <2>1. A!TypeOK'
    BY DEF A!TypeOK, A!Request, A!Idle, A!GoTo, A!HandlersKnow, A!Knows
  <2>2. A!HandlersKnow'
    BY DEF A!HandlersKnow, A!Knows, A!TypeOK, A!Request, A!Idle, A!GoTo
  <2>3. A!HandlersDiffer'
    BY DEF A!HandlersDiffer, A!TypeOK, A!Request, A!Idle, A!GoTo
  <2>4. A!RowsAgree'
    BY DEF A!RowsAgree
  <2>5. A!UnverifiedCanVerify'
    <3> SUFFICES ASSUME NEW a \in Names, v1[a].exists, ~v1[a].verified
                 PROVE  (A!HasLink(a) \/ A!BeingMailed(a) \/ a \in v4)'
      BY DEF A!UnverifiedCanVerify
    <3>1. A!HasLink(a) \/ A!BeingMailed(a) \/ a \in v4
      BY DEF A!LinksVerify, A!UnverifiedCanVerify
    <3>2. A!BeingMailed(a) => A!BeingMailed(a)'
      BY DEF A!BeingMailed, A!TypeOK, A!GoTo
    <3>3. QED
      BY <3>1, <3>2 DEF A!HasLink, A!Usable
  <2>6. A!VerifiedByOwnLink'
    BY DEF A!LinksVerify, A!VerifiedByOwnLink
  <2>7. QED
    BY <2>1, <2>2, <2>3, <2>4, <2>5, <2>6 DEF A!LinksVerify
<1>13. ASSUME NEW r \in Calls, A!LinkChat(r)
      PROVE  A!AccountsInv'
  <2> USE <1>13 DEF A!AccountsInv, A!LinkChat, A!Finish, A!At
  <2>1. A!TypeOK'
    BY DEF A!TypeOK, A!UserRow, A!OneTime, A!Request, A!Idle, A!Purpose, A!GoTo,
       A!HandlersKnow, A!Knows
  <2>2. A!HandlersKnow'
    BY DEF A!HandlersKnow, A!Knows, A!HandlersDiffer, A!TypeOK, A!Idle
  <2>3. A!HandlersDiffer'
    BY DEF A!HandlersDiffer, A!Idle
  <2>4. A!RowsAgree'
    BY DEF A!RowsAgree, A!HandlersKnow, A!Knows
  <2>5. A!UnverifiedCanVerify'
    BY DEF A!LinksVerify, A!UnverifiedCanVerify, A!HasLink, A!BeingMailed, A!Usable
  <2>6. A!VerifiedByOwnLink'
    BY DEF A!LinksVerify, A!VerifiedByOwnLink
  <2>7. QED
    BY <2>1, <2>2, <2>3, <2>4, <2>5, <2>6 DEF A!LinksVerify
<1>14. ASSUME NEW r \in Calls, A!Die(r)
      PROVE  A!AccountsInv'
  <2> USE <1>14 DEF A!AccountsInv, A!Die, A!Finish, A!At
  <2>1. A!TypeOK'
    BY DEF A!TypeOK, A!Request, A!Idle, A!Purpose, A!HandlersKnow, A!Knows
  <2>2. A!HandlersKnow'
    BY DEF A!HandlersKnow, A!Knows, A!Idle
  <2>3. A!HandlersDiffer'
    BY DEF A!HandlersDiffer, A!Idle
  <2>4. A!RowsAgree'
    BY DEF A!RowsAgree
  <2>5. A!UnverifiedCanVerify'
    BY DEF A!LinksVerify, A!UnverifiedCanVerify, A!HasLink, A!BeingMailed, A!Usable
  <2>6. A!VerifiedByOwnLink'
    BY DEF A!LinksVerify, A!VerifiedByOwnLink
  <2>7. QED
    BY <2>1, <2>2, <2>3, <2>4, <2>5, <2>6 DEF A!LinksVerify
<1>15. QED
  BY <1>0, <1>1, <1>2, <1>3, <1>4, <1>5, <1>6, <1>7, <1>8, <1>9, <1>10, <1>11, <1>12, <1>13,
     <1>14 DEF A!Next

\* Accounts is the service that runs, or the variables are another's.
LEMMA AccountsRun ==
    /\ Init => (part = "accounts" => A!AccountsInv)
    /\ (part = "accounts" => A!AccountsInv) /\ [Next]_vars => (part = "accounts" => A!AccountsInv)'
<1>1. Init => (part = "accounts" => A!AccountsInv)
  BY AccountsInit DEF Init
<1>2. ASSUME part = "accounts" => A!AccountsInv, [Next]_vars, (part = "accounts")'
      PROVE  A!AccountsInv'
  <2>1. A!AccountsInv /\ [A!Next]_A!vars
    BY <1>2 DEF Next, vars, A!vars
  <2>2. QED
    BY <2>1, AccountsNext
<1>3. QED
  BY <1>1, <1>2

\* An address is verified by a link that was mailed to it for this purpose, and
\* an account that is not verified has such a link under way, unless its mail
\* was lost or its hour has passed (auth.service.ts: signUp, verifyEmail).
THEOREM LinksCorrect == Spec => []LinksVerify
<1>1. (part = "accounts" => A!AccountsInv) => LinksVerify
  BY DEF LinksVerify, A!AccountsInv
<1>2. QED
  BY <1>1, AccountsRun, PTL DEF Spec

\* An account keeps its chat, unless two chats asked for it while it had none
\* (telegramRegister).
THEOREM ChatsCorrect == Spec => ChatsAreKept
<1> DEFINE Inv == part = "accounts" => A!AccountsInv
           Kept == (part = "accounts") => A!KeepsChats
<1>1. ASSUME part = "accounts" => A!AccountsInv, [Next]_vars
      PROVE  [(part = "accounts") => A!KeepsChats]_vars
  <2> SUFFICES ASSUME part = "accounts", Next, NEW a \in Names \ v5
               PROVE  v1[a].chat \in {None, v1'[a].chat}
    BY <1>1 DEF A!KeepsChats
  <2>1. A!AccountsInv /\ A!Next
    BY <1>1 DEF Next
  <2>2. CASE UNCHANGED v1
    BY <2>2
  <2>3. ASSUME NEW r \in Calls, A!CreateUser(r)
        PROVE  v1[a].chat \in {None, v1'[a].chat}
    BY <2>1, <2>3 DEF A!CreateUser, A!AccountsInv, A!TypeOK, A!UserRow
  <2>4. ASSUME NEW r \in Calls, A!LinkChat(r)
        PROVE  v1[a].chat \in {None, v1'[a].chat}
    BY <2>1, <2>4 DEF A!LinkChat, A!At, A!AccountsInv, A!HandlersKnow, A!Knows
  <2>5. ASSUME NEW r \in Calls, A!ApplyLink(r) \/ A!MinistryBind(r)
        PROVE  v1[a].chat \in {None, v1'[a].chat}
    BY <2>1, <2>5 DEF A!ApplyLink, A!MinistryBind, A!AccountsInv, A!TypeOK, A!UserRow
  <2>6. QED
    BY <2>1, <2>2, <2>3, <2>4, <2>5 DEF A!Next, A!SignUp, A!ForgotPassword, A!MinistryCheck,
       A!TelegramRegister, A!IssueLink, A!Consume, A!MailLink, A!FindAccount, A!Die,
       A!LinkExpires
<1>2. Inv /\ [Next]_vars => [Kept]_vars
  BY <1>1
<1>3. Init => Inv
  BY AccountsRun
<1>4. Inv /\ [Next]_vars => Inv'
  BY AccountsRun
<1>5. QED
  <2> HIDE DEF Inv, Kept
  <2>1. Spec => [][Kept]_vars
    BY <1>2, <1>3, <1>4, PTL DEF Spec
  <2>2. QED
    BY <2>1 DEF ChatsAreKept, Kept

-----------------------------------------------------------------------------
(* Access (module Access).                                                 *)

\* What the handlers of a request do to its record.
LEMMA EditMoves ==
    ASSUME NEW x \in B!Edit, NEW p \in {"begin", "wait", "insert", "commit"},
           NEW S \in SUBSET (Items \X Calls), NEW b \in BOOLEAN
    PROVE  /\ [x EXCEPT !.pc = p] \in B!Edit
           /\ [x EXCEPT !.pc = p, !.seen = S] \in B!Edit
           /\ [x EXCEPT !.pc = p, !.locked = b] \in B!Edit
BY DEF B!Edit

LEMMA AccessInit == B!Init => B!AccessInv
<1> SUFFICES ASSUME B!Init PROVE B!AccessInv
  OBVIOUS
<1> USE NoneIsNoRoleName DEF B!Init
<1>1. B!TypeOK
  BY DEF B!TypeOK, B!Edit, B!NoEdit
<1>2. B!EditsKnow /\ B!EditsApart
  BY DEF B!EditsKnow, B!Knows, B!EditsApart, B!NoEdit
<1>3. B!RowsOfOneRequest
  BY DEF B!RowsOfOneRequest, B!ItemsOf
<1>4. B!UsersHaveRoles
  BY DEF B!UsersHaveRoles, B!Exists, B!Name
<1>5. QED
  BY <1>1, <1>2, <1>3, <1>4 DEF B!AccessInv, B!AccessIsAsGiven

\* The rows one call inserts are those it was asked for, each of them once.
LEMMA ItemsOfRows ==
    ASSUME NEW c \in Calls, NEW S \in SUBSET Items
    PROVE  /\ S \X {c} \in SUBSET (Items \X Calls)
           /\ B!ItemsOf(S \X {c}) = S
           /\ \A x, y \in S \X {c} : x[1] = y[1] => x = y
<1>1. S \X {c} \in SUBSET (Items \X Calls)
  OBVIOUS
<1>2. B!ItemsOf(S \X {c}) \subseteq S
  BY DEF B!ItemsOf
<1>3. ASSUME NEW i \in S PROVE i \in B!ItemsOf(S \X {c})
  <2>1. <<i, c>> \in S \X {c} /\ <<i, c>>[1] = i
    OBVIOUS
  <2>2. QED
    BY <2>1 DEF B!ItemsOf
<1>4. ASSUME NEW x \in S \X {c}, NEW y \in S \X {c}, x[1] = y[1] PROVE x = y
  <2>1. x = <<x[1], c>> /\ y = <<y[1], c>>
    OBVIOUS
  <2>2. QED
    BY <2>1, <1>4
<1>5. QED
  BY <1>1, <1>2, <1>3, <1>4

\* A handler that only begins knows what it needs at its first step.
LEMMA AccessBegin ==
    ASSUME B!AccessInv, UNCHANGED <<v1, v2, v3, v4, v6, v7>>,
           NEW c \in Calls, NEW step \in B!Edit, B!Begin(c, step),
           step.pc \in {"create", "lock", "begin", "assign"},
           step.pc # "create" => step.owner \in B!Owners,
           step.pc = "create" => step.name \in B!Name,
           step.pc \in {"lock", "assign"} => step.owner \in Keys,
           step.pc = "begin" => step.name = None,
           step.pc = "assign" => step.user \in Users
    PROVE  B!AccessInv'
<1> USE DEF B!AccessInv, B!Begin, B!At
<1>1. B!TypeOK'
  BY DEF B!TypeOK
<1>2. B!EditsKnow'
  <2> SUFFICES ASSUME NEW d \in Calls PROVE B!Knows(d)'
    BY DEF B!EditsKnow
  <2>1. CASE d = c
    BY <2>1 DEF B!TypeOK, B!Knows
  <2>2. CASE d # c
    BY <2>2 DEF B!EditsKnow, B!Knows, B!Exists
  <2>3. QED
    BY <2>1, <2>2
<1>3. B!EditsApart'
  BY DEF B!EditsApart, B!Replacing
<1>4. B!AccessIsAsGiven'
  BY DEF B!AccessIsAsGiven, B!RowsOfOneRequest, B!UsersHaveRoles, B!Exists
<1>5. QED
  BY <1>1, <1>2, <1>3, <1>4

\* One step per action.
LEMMA AccessNext == B!AccessInv /\ [B!Next]_B!vars => B!AccessInv'
<1> SUFFICES ASSUME B!AccessInv, [B!Next]_B!vars PROVE B!AccessInv'
  OBVIOUS
<1>0. ASSUME UNCHANGED B!vars PROVE B!AccessInv'
  BY <1>0 DEF B!vars, B!AccessInv, B!TypeOK, B!EditsKnow, B!Knows, B!EditsApart, B!Replacing,
     B!AccessIsAsGiven, B!RowsOfOneRequest, B!UsersHaveRoles, B!Exists
<1>1. ASSUME NEW c \in Calls, NEW n \in B!Name, NEW S \in SUBSET Items, B!CreateRole(c, n, S)
      PROVE  B!AccessInv'
  <2> DEFINE step == [B!NoEdit EXCEPT !.pc = "create", !.name = n, !.items = S]
  <2>1. step \in B!Edit
    BY DEF B!Edit, B!NoEdit
  <2>2. QED
    BY <1>1, <2>1, AccessBegin DEF B!CreateRole, B!NoEdit
<1>2. ASSUME NEW c \in Calls, NEW r \in Keys, NEW n \in B!Name \cup {None}, NEW S \in SUBSET Items,
             B!UpdateRole(c, r, n, S)
      PROVE  B!AccessInv'
  <2> DEFINE step == [B!NoEdit EXCEPT !.pc = "lock", !.owner = r, !.name = n, !.items = S]
  <2>1. step \in B!Edit
    BY DEF B!Edit, B!NoEdit, B!Owners
  <2>2. QED
    BY <1>2, <2>1, AccessBegin DEF B!UpdateRole, B!NoEdit, B!Owners
<1>3. ASSUME NEW c \in Calls, NEW r \in Keys, NEW S \in SUBSET Items, B!AssignPermissions(c, r, S)
      PROVE  B!AccessInv'
  <2> DEFINE step == [B!NoEdit EXCEPT !.pc = "begin", !.owner = r, !.items = S]
  <2>1. step \in B!Edit
    BY DEF B!Edit, B!NoEdit, B!Owners
  <2>2. QED
    BY <1>3, <2>1, AccessBegin DEF B!AssignPermissions, B!NoEdit, B!Owners
<1>4. ASSUME NEW c \in Calls, NEW p \in Profiles, NEW S \in SUBSET Items, B!UpdateProfile(c, p, S)
      PROVE  B!AccessInv'
  <2> DEFINE step == [B!NoEdit EXCEPT !.pc = "begin", !.owner = p, !.items = S]
  <2>1. step \in B!Edit
    BY DEF B!Edit, B!NoEdit, B!Owners
  <2>2. QED
    BY <1>4, <2>1, AccessBegin DEF B!UpdateProfile, B!NoEdit, B!Owners
<1>5. ASSUME NEW c \in Calls, NEW u \in Users, NEW r \in Keys, B!AssignRole(c, u, r)
      PROVE  B!AccessInv'
  <2> DEFINE step == [B!NoEdit EXCEPT !.pc = "assign", !.user = u, !.owner = r]
  <2>1. step \in B!Edit
    BY DEF B!Edit, B!NoEdit, B!Owners
  <2>2. QED
    BY <1>5, <2>1, AccessBegin DEF B!AssignRole, B!NoEdit, B!Owners
<1>6. ASSUME NEW c \in Calls, NEW r \in Keys, B!InsertRole(c, r)
      PROVE  B!AccessInv'
  <2> USE <1>6 DEF B!AccessInv, B!InsertRole, B!Finish, B!At
  <2>1. B!TypeOK'
    <3>1. v5[c].name \in B!Name /\ v5[c].items \in SUBSET Items
      BY DEF B!EditsKnow, B!Knows, B!TypeOK, B!Edit
    <3>2. v1' \in [Keys -> B!Name \cup {None}] /\ v6' \in [B!Owners -> SUBSET Items]
      BY <3>1 DEF B!TypeOK
    <3>3. v2' \in [B!Owners -> SUBSET (Items \X Calls)]
      BY <3>1, ItemsOfRows DEF B!TypeOK
    <3>4. v5' \in [Calls -> B!Edit]
      BY DEF B!TypeOK, B!Edit, B!NoEdit
    <3>5. QED
      BY <3>2, <3>3, <3>4 DEF B!TypeOK
  <2>2. B!EditsKnow'
    <3> SUFFICES ASSUME NEW d \in Calls PROVE B!Knows(d)'
      BY DEF B!EditsKnow
    <3>1. B!Knows(d)
      BY DEF B!EditsKnow
    <3>2. QED
      BY <3>1 DEF B!Knows, B!TypeOK, B!NoEdit, B!Exists
  <2>3. B!EditsApart'
    BY DEF B!EditsApart, B!Replacing, B!NoEdit
  <2>4. B!RowsOfOneRequest'
    <3> SUFFICES ASSUME NEW o \in B!Owners \ v7
                 PROVE  /\ B!ItemsOf(v2'[o]) = v6'[o]
                        /\ \A x, y \in v2'[o] : x[1] = y[1] => x = y
      BY DEF B!RowsOfOneRequest, B!ItemsOf
    <3>1. CASE v2'[o] = v2[o] /\ v6'[o] = v6[o]
      BY <3>1 DEF B!AccessIsAsGiven, B!RowsOfOneRequest
    <3>2. CASE /\ o = r /\ v2' = [v2 EXCEPT ![r] = v5[c].items \X {c}]
               /\ v6' = [v6 EXCEPT ![r] = v5[c].items]
      <4>1. v5[c].items \in SUBSET Items
        BY DEF B!TypeOK, B!Edit
      <4>2. v2'[o] = v5[c].items \X {c} /\ v6'[o] = v5[c].items
        BY <3>2 DEF B!TypeOK
      <4>3. QED
        BY <4>1, <4>2, ItemsOfRows
    <3>3. QED
      BY <3>1, <3>2 DEF B!TypeOK
  <2>5. B!UsersHaveRoles'
    BY DEF B!AccessIsAsGiven, B!UsersHaveRoles, B!Exists, B!TypeOK
  <2>6. QED
    BY <2>1, <2>2, <2>3, <2>4, <2>5 DEF B!AccessIsAsGiven
<1>7. ASSUME NEW c \in Calls, B!LockRole(c)
      PROVE  B!AccessInv'
  <2> USE <1>7 DEF B!AccessInv, B!LockRole, B!Finish, B!At
  <2>1. B!TypeOK'
    <3>1. [v5[c] EXCEPT !.pc = "begin", !.locked = TRUE] \in B!Edit /\ B!NoEdit \in B!Edit
      <4>1. v5[c] \in B!Edit
        BY DEF B!TypeOK
      <4>2. B!NoEdit \in B!Edit
        BY DEF B!Edit, B!NoEdit
      <4>3. QED
        BY <4>1, <4>2, EditMoves
    <3>2. v5' \in [Calls -> B!Edit]
      BY <3>1 DEF B!TypeOK
    <3>3. QED
      BY <3>2 DEF B!TypeOK
  <2>2. B!EditsKnow'
    <3> SUFFICES ASSUME NEW d \in Calls PROVE B!Knows(d)'
      BY DEF B!EditsKnow
    <3>1. B!Knows(d)
      BY DEF B!EditsKnow
    <3>2. QED
      BY <3>1 DEF B!Knows, B!TypeOK, B!Edit, B!NoEdit, B!Exists
  <2>3. B!EditsApart'
    BY DEF B!EditsApart, B!Replacing, B!TypeOK, B!Edit, B!NoEdit
  <2>4. B!RowsOfOneRequest'
    BY DEF B!AccessIsAsGiven, B!RowsOfOneRequest
  <2>5. B!UsersHaveRoles'
    BY DEF B!AccessIsAsGiven, B!UsersHaveRoles, B!Exists
  <2>6. QED
    BY <2>1, <2>2, <2>3, <2>4, <2>5 DEF B!AccessIsAsGiven
<1>8. ASSUME NEW c \in Calls, B!DeleteBegins(c)
      PROVE  B!AccessInv'
  <2> USE <1>8 DEF B!AccessInv, B!DeleteBegins, B!Finish, B!At
  <2>1. B!TypeOK'
    <3>1. v5[c].owner \in B!Owners
      BY DEF B!EditsKnow, B!Knows
    <3>2. [v5[c] EXCEPT !.pc = "wait", !.seen = v2[v5[c].owner]] \in B!Edit
      <4>1. v5[c] \in B!Edit /\ v2[v5[c].owner] \in SUBSET (Items \X Calls)
        BY <3>1 DEF B!TypeOK
      <4>2. QED
        BY <4>1, EditMoves
    <3>3. v5' \in [Calls -> B!Edit]
      BY <3>2 DEF B!TypeOK
    <3>4. QED
      BY <3>1, <3>3 DEF B!TypeOK
  <2>2. B!EditsKnow'
    <3> SUFFICES ASSUME NEW d \in Calls PROVE B!Knows(d)'
      BY DEF B!EditsKnow
    <3>1. B!Knows(d)
      BY DEF B!EditsKnow
    <3>2. QED
      BY <3>1 DEF B!Knows, B!TypeOK, B!Exists
  <2>3. B!EditsApart'
    BY DEF B!EditsApart, B!Replacing, B!TypeOK
  <2>4. B!RowsOfOneRequest'
    BY DEF B!AccessIsAsGiven, B!RowsOfOneRequest
  <2>5. B!UsersHaveRoles'
    BY DEF B!AccessIsAsGiven, B!UsersHaveRoles, B!Exists
  <2>6. QED
    BY <2>1, <2>2, <2>3, <2>4, <2>5 DEF B!AccessIsAsGiven
<1>9. ASSUME NEW c \in Calls, B!DeleteEnds(c)
      PROVE  B!AccessInv'
  <2> USE <1>9 DEF B!AccessInv, B!DeleteEnds, B!Finish, B!At
  <2>1. B!TypeOK'
    <3>1. [v5[c] EXCEPT !.pc = "insert", !.seen = v5[c].seen \cap v2[v5[c].owner]] \in B!Edit
      <4>1. v5[c] \in B!Edit
        BY DEF B!TypeOK
      <4>2. v5[c].seen \cap v2[v5[c].owner] \in SUBSET (Items \X Calls)
        BY <4>1 DEF B!Edit
      <4>3. QED
        BY <4>1, <4>2, EditMoves
    <3>2. v5' \in [Calls -> B!Edit]
      BY <3>1 DEF B!TypeOK, B!Edit
    <3>3. QED
      BY <3>2 DEF B!TypeOK
  <2>2. B!EditsKnow'
    <3> SUFFICES ASSUME NEW d \in Calls PROVE B!Knows(d)'
      BY DEF B!EditsKnow
    <3>1. B!Knows(d)
      BY DEF B!EditsKnow
    <3>2. CASE d # c
      BY <3>1, <3>2 DEF B!Knows, B!TypeOK, B!Exists
    <3>3. CASE d = c
      <4>1. v5[c] \in B!Edit
        BY DEF B!TypeOK
      <4>2. v5' = [v5 EXCEPT ![c] = [v5[c] EXCEPT !.pc = "insert",
                                                  !.seen = v5[c].seen \cap v2[v5[c].owner]]]
        BY <4>1 DEF B!Edit, B!TypeOK
      <4>3. /\ v5'[c].pc = "insert" /\ v5'[c].owner = v5[c].owner /\ v5'[c].name = v5[c].name
            /\ v5'[c].seen = v5[c].seen \cap v2[v5[c].owner]
        BY <4>1, <4>2 DEF B!Edit, B!TypeOK
      <4>4. v1' = v1 /\ v2' = v2 /\ v7' = v7 /\ v5[c].pc = "wait"
        OBVIOUS
      <4> HIDE DEF B!AccessInv, B!DeleteEnds
      <4>5. QED
        BY <3>1, <3>3, <4>3, <4>4 DEF B!Knows, B!Exists
    <3>4. QED
      BY <3>2, <3>3
  <2>3. B!EditsApart'
    BY DEF B!EditsApart, B!Replacing, B!TypeOK
  <2>4. B!RowsOfOneRequest'
    BY DEF B!AccessIsAsGiven, B!RowsOfOneRequest
  <2>5. B!UsersHaveRoles'
    BY DEF B!AccessIsAsGiven, B!UsersHaveRoles, B!Exists
  <2>6. QED
    BY <2>1, <2>2, <2>3, <2>4, <2>5 DEF B!AccessIsAsGiven
<1>10. ASSUME NEW c \in Calls, B!InsertRows(c)
      PROVE  B!AccessInv'
  <2> USE <1>10 DEF B!AccessInv, B!InsertRows, B!Finish, B!At
  <2>1. B!TypeOK'
    <3>1. [v5[c] EXCEPT !.pc = "commit"] \in B!Edit /\ B!NoEdit \in B!Edit
      BY DEF B!TypeOK, B!Edit, B!NoEdit
    <3>2. v5' \in [Calls -> B!Edit]
      BY <3>1 DEF B!TypeOK
    <3>3. QED
      BY <3>2 DEF B!TypeOK
  <2>2. B!EditsKnow'
    <3> SUFFICES ASSUME NEW d \in Calls PROVE B!Knows(d)'
      BY DEF B!EditsKnow
    <3>1. B!Knows(d)
      BY DEF B!EditsKnow
    <3>2. QED
      BY <3>1 DEF B!Knows, B!TypeOK, B!Edit, B!NoEdit, B!Exists
  <2>3. B!EditsApart'
    BY DEF B!EditsApart, B!Replacing, B!TypeOK, B!Edit, B!NoEdit
  <2>4. B!RowsOfOneRequest'
    BY DEF B!AccessIsAsGiven, B!RowsOfOneRequest
  <2>5. B!UsersHaveRoles'
    BY DEF B!AccessIsAsGiven, B!UsersHaveRoles, B!Exists
  <2>6. QED
    BY <2>1, <2>2, <2>3, <2>4, <2>5 DEF B!AccessIsAsGiven
<1>11. ASSUME NEW c \in Calls, B!CommitRows(c)
      PROVE  B!AccessInv'
  <2> USE <1>11 DEF B!AccessInv, B!CommitRows, B!Finish, B!At
  <2>1. B!TypeOK'
    <3>1. v5[c].owner \in B!Owners /\ v5[c].items \in SUBSET Items
      BY DEF B!EditsKnow, B!Knows, B!TypeOK, B!Edit
    <3>2. v1' \in [Keys -> B!Name \cup {None}] /\ v6' \in [B!Owners -> SUBSET Items]
      BY <3>1 DEF B!TypeOK, B!Edit
    <3>3. v2' \in [B!Owners -> SUBSET (Items \X Calls)]
      <4>1. (v2[v5[c].owner] \ v5[c].seen) \cup (v5[c].items \X {c}) \in SUBSET (Items \X Calls)
        BY <3>1, ItemsOfRows DEF B!TypeOK
      <4>2. QED
        BY <4>1 DEF B!TypeOK
    <3>4. v5' \in [Calls -> B!Edit]
      BY DEF B!TypeOK, B!Edit, B!NoEdit
    <3>5. QED
      BY <3>2, <3>3, <3>4 DEF B!TypeOK
  <2>2. B!EditsKnow'
    <3> SUFFICES ASSUME NEW d \in Calls PROVE B!Knows(d)'
      BY DEF B!EditsKnow
    <3>1. B!Knows(d)
      BY DEF B!EditsKnow
    <3>2. QED
      BY <3>1 DEF B!Knows, B!EditsApart, B!Replacing, B!TypeOK, B!NoEdit, B!Exists
  <2>3. B!EditsApart'
    BY DEF B!EditsApart, B!Replacing, B!NoEdit
  <2>4. B!RowsOfOneRequest'
    <3> SUFFICES ASSUME NEW o \in B!Owners \ v7
                 PROVE  /\ B!ItemsOf(v2'[o]) = v6'[o]
                        /\ \A x, y \in v2'[o] : x[1] = y[1] => x = y
      BY DEF B!RowsOfOneRequest, B!ItemsOf
    <3>1. CASE v2'[o] = v2[o] /\ v6'[o] = v6[o]
      BY <3>1 DEF B!AccessIsAsGiven, B!RowsOfOneRequest
    <3>2. CASE o = v5[c].owner
      <4>1. v5[c].seen = v2[o]
        BY <3>2 DEF B!EditsKnow, B!Knows
      <4>2. v2'[o] = v5[c].items \X {c} /\ v6'[o] = v5[c].items
        BY <3>2, <4>1 DEF B!TypeOK
      <4>3. v5[c].items \in SUBSET Items
        BY DEF B!TypeOK, B!Edit
      <4>4. QED
        BY <4>2, <4>3, ItemsOfRows
    <3>3. QED
      BY <3>1, <3>2 DEF B!TypeOK
  <2>5. B!UsersHaveRoles'
    BY DEF B!AccessIsAsGiven, B!UsersHaveRoles, B!Exists
  <2>6. QED
    BY <2>1, <2>2, <2>3, <2>4, <2>5 DEF B!AccessIsAsGiven
<1>12. ASSUME NEW c \in Calls, B!AssignRoleWrite(c)
      PROVE  B!AccessInv'
  <2> USE <1>12 DEF B!AccessInv, B!AssignRoleWrite, B!Finish, B!At
  <2>1. B!TypeOK'
    BY DEF B!TypeOK, B!Edit, B!NoEdit, B!EditsKnow, B!Knows
  <2>2. B!EditsKnow'
    <3> SUFFICES ASSUME NEW d \in Calls PROVE B!Knows(d)'
      BY DEF B!EditsKnow
    <3>1. B!Knows(d)
      BY DEF B!EditsKnow
    <3>2. QED
      BY <3>1 DEF B!Knows, B!NoEdit, B!Exists
  <2>3. B!EditsApart'
    BY DEF B!EditsApart, B!Replacing, B!NoEdit
  <2>4. B!RowsOfOneRequest'
    BY DEF B!AccessIsAsGiven, B!RowsOfOneRequest
  <2>5. B!UsersHaveRoles'
    BY DEF B!AccessIsAsGiven, B!UsersHaveRoles, B!Exists
  <2>6. QED
    BY <2>1, <2>2, <2>3, <2>4, <2>5 DEF B!AccessIsAsGiven
<1>13. ASSUME NEW c \in Calls, B!Rollback(c)
      PROVE  B!AccessInv'
  <2> USE <1>13 DEF B!AccessInv, B!Rollback, B!Finish, B!At
  <2>1. B!TypeOK'
    BY DEF B!TypeOK, B!Edit, B!NoEdit
  <2>2. B!EditsKnow'
    <3> SUFFICES ASSUME NEW d \in Calls PROVE B!Knows(d)'
      BY DEF B!EditsKnow
    <3>1. B!Knows(d)
      BY DEF B!EditsKnow
    <3>2. QED
      BY <3>1 DEF B!Knows, B!NoEdit, B!Exists
  <2>3. B!EditsApart'
    BY DEF B!EditsApart, B!Replacing, B!NoEdit
  <2>4. B!RowsOfOneRequest'
    BY DEF B!AccessIsAsGiven, B!RowsOfOneRequest
  <2>5. B!UsersHaveRoles'
    BY DEF B!AccessIsAsGiven, B!UsersHaveRoles, B!Exists
  <2>6. QED
    BY <2>1, <2>2, <2>3, <2>4, <2>5 DEF B!AccessIsAsGiven
<1>14. ASSUME NEW r \in Keys, B!DeleteRole(r)
      PROVE  B!AccessInv'
  <2> USE <1>14 DEF B!AccessInv, B!DeleteRole, B!Finish, B!At
  <2>1. B!TypeOK'
    BY DEF B!TypeOK
  <2>2. B!EditsKnow'
    <3> SUFFICES ASSUME NEW d \in Calls PROVE B!Knows(d)'
      BY DEF B!EditsKnow
    <3>1. B!Knows(d)
      BY DEF B!EditsKnow
    <3>2. QED
      BY <3>1 DEF B!Knows, B!TypeOK, B!Exists
  <2>3. B!EditsApart'
    BY DEF B!EditsApart, B!Replacing
  <2>4. B!RowsOfOneRequest'
    BY DEF B!AccessIsAsGiven, B!RowsOfOneRequest, B!ItemsOf, B!TypeOK
  <2>5. B!UsersHaveRoles'
    BY DEF B!AccessIsAsGiven, B!UsersHaveRoles, B!Exists
  <2>6. QED
    BY <2>1, <2>2, <2>3, <2>4, <2>5 DEF B!AccessIsAsGiven
<1>15. ASSUME NEW x \in Items, B!CreateItem(x) \/ B!DeleteItem(x)
      PROVE  B!AccessInv'
  <2> USE <1>15 DEF B!AccessInv, B!CreateItem, B!DeleteItem, B!Finish, B!At
  <2>1. B!TypeOK'
    BY DEF B!TypeOK
  <2>2. B!EditsKnow'
    <3> SUFFICES ASSUME NEW d \in Calls PROVE B!Knows(d)'
      BY DEF B!EditsKnow
    <3>1. B!Knows(d)
      BY DEF B!EditsKnow
    <3>2. QED
      BY <3>1 DEF B!Knows, B!Exists
  <2>3. B!EditsApart'
    BY DEF B!EditsApart, B!Replacing
  <2>4. B!RowsOfOneRequest'
    BY DEF B!AccessIsAsGiven, B!RowsOfOneRequest
  <2>5. B!UsersHaveRoles'
    BY DEF B!AccessIsAsGiven, B!UsersHaveRoles, B!Exists
  <2>6. QED
    BY <2>1, <2>2, <2>3, <2>4, <2>5 DEF B!AccessIsAsGiven
<1>16. QED
  BY <1>0, <1>1, <1>2, <1>3, <1>4, <1>5, <1>6, <1>7, <1>8, <1>9, <1>10, <1>11, <1>12, <1>13,
     <1>14, <1>15 DEF B!Next

\* Access is the service that runs, or the variables are another's.
LEMMA AccessRun ==
    /\ Init => (part \in {"roles", "profiles"} => B!AccessInv)
    /\ (part \in {"roles", "profiles"} => B!AccessInv) /\ [Next]_vars
          => (part \in {"roles", "profiles"} => B!AccessInv)'
<1>1. Init => (part \in {"roles", "profiles"} => B!AccessInv)
  BY AccessInit DEF Init
<1>2. ASSUME part \in {"roles", "profiles"} => B!AccessInv, [Next]_vars,
             (part \in {"roles", "profiles"})'
      PROVE  B!AccessInv'
  <2>1. B!AccessInv /\ [B!Next]_B!vars
    BY <1>2 DEF Next, vars, B!vars
  <2>2. QED
    BY <2>1, AccessNext
<1>3. QED
  BY <1>1, <1>2

\* An owner has the rows of one request, the last, unless two replacements of
\* it were open at once (role.service.ts:200), and every user has a role that
\* exists, although deleteRole and assignRoleToUser both check before they write.
THEOREM AccessCorrect == Spec => []AccessIsAsGiven
<1>1. (part \in {"roles", "profiles"} => B!AccessInv) => AccessIsAsGiven
  BY DEF AccessIsAsGiven, B!AccessInv
<1>2. QED
  BY <1>1, AccessRun, PTL DEF Spec

\* The same without the bounds of the run, RolesAlone and OneRole.
THEOREM AccessUnbounded == B!Spec => []B!AccessIsAsGiven
<1>1. B!AccessInv => B!AccessIsAsGiven
  BY DEF B!AccessInv
<1>2. QED
  BY <1>1, AccessInit, AccessNext, PTL DEF B!Spec

\* The tables and the handlers in flight of Accounts and of Access are well formed.
THEOREM TypeCorrect == Spec => []TypesOK
<1>1. /\ part = "accounts" => A!AccountsInv
      /\ part \in {"roles", "profiles"} => B!AccessInv
      => TypesOK
  BY DEF TypesOK, A!AccountsInv, B!AccessInv
<1>2. QED
  BY <1>1, AccountsRun, AccessRun, PTL DEF Spec

-----------------------------------------------------------------------------
(* The cached figures of Analytics.                                        *)

Kinds == {"register", "decide", "cancel", "checkIn"}
Values == [filled : BOOLEAN, missing : SUBSET Kinds, late : BOOLEAN]

\* A decision on a row of the key's event that a value misses is known to drop it,
\* or was made while the value was being computed.
Known(value) == "decide" \in value.missing => value.late \/ v4 \in v7

\* What is stored, and what is about to be.
FiguresInv ==
    /\ v5 \in Values /\ v6 \in Values
    /\ ~v6.filled => v6.missing = {}
    /\ v4 \in Gatherings => Known(v5) /\ Known(v6)

\* A change of the rows of e.
LEMMA ChangedFigures ==
    ASSUME FiguresInv, NEW e \in Gatherings, NEW kind \in Kinds, Y!Change(e, kind), v4' = v4,
           v7 \subseteq v7', kind = "decide" => e \in v7'
    PROVE  FiguresInv'
<1> DEFINE Missing(v) == IF ~v.filled \/ v4 \in Gatherings \ {e} THEN v
                         ELSE [v EXCEPT !.missing = v.missing \cup {kind}]
<1>1. v5' = Missing(v5) /\ v6' = Missing(v6)
  BY DEF Y!Change
<1>2. ASSUME NEW v \in Values, v4 \in Gatherings => Known(v)
      PROVE  /\ Missing(v) \in Values
             /\ Missing(v).filled = v.filled
             /\ ~v.filled => Missing(v) = v
             /\ v4' \in Gatherings => Known(Missing(v))'
  <2>1. CASE ~v.filled \/ v4 \in Gatherings \ {e}
    BY <1>2, <2>1 DEF Known
  <2>2. CASE v.filled /\ v4 \notin Gatherings \ {e}
    BY <1>2, <2>2 DEF Known, Values, Kinds
  <2>3. QED
    BY <2>1, <2>2 DEF Values
<1>3. QED
  BY <1>1, <1>2 DEF FiguresInv, Known

\* The key of e is dropped.
LEMMA DroppedFigures ==
    ASSUME FiguresInv, NEW e \in Gatherings, Y!Drop(e), v4' = v4, v7 \ {e} \subseteq v7'
    PROVE  FiguresInv'
<1>1. /\ v5' = IF v4 = e THEN Y!Nothing ELSE v5
      /\ v6' = IF v4 = e /\ v6.filled THEN [v6 EXCEPT !.late = TRUE] ELSE v6
  BY DEF Y!Drop
<1>2. Y!Nothing \in Values /\ Y!Nothing.missing = {}
  BY DEF Y!Nothing, Values
<1>3. CASE v4 = e
  BY <1>1, <1>2, <1>3 DEF FiguresInv, Known, Values
<1>4. CASE v4 # e
  BY <1>1, <1>4 DEF FiguresInv, Known
<1>5. QED
  BY <1>3, <1>4

LEMMA FiguresInit == Y!Init => FiguresInv
BY DEF Y!Init, Y!Nothing, FiguresInv, Known, Values

\* The rows and the keys to be dropped are those of events, and check-ins are finitely many.
Registrations == [user : Members, event : Gatherings,
                  status : {"PENDING", "CONFIRMED", "CANCELLED"}, at : Times]
RowsInv ==
    /\ v2 \in Seq(Registrations)
    /\ v1 \in Times
    /\ v7 \subseteq Gatherings
    /\ IsFiniteSet(DOMAIN v3)

LEMMA RowIsRegistration ==
    ASSUME RowsInv, NEW i \in DOMAIN v2
    PROVE  v2[i] \in Registrations /\ v2[i].event \in Gatherings
<1>1. v2[i] \in Registrations
  BY DEF RowsInv
<1>2. QED
  BY <1>1 DEF Registrations

LEMMA RowsNext == RowsInv /\ [Y!Next]_Y!vars => RowsInv'
<1> SUFFICES ASSUME RowsInv, [Y!Next]_Y!vars PROVE RowsInv'
  OBVIOUS
<1> USE DEF RowsInv
<1>1. ASSUME NEW i \in DOMAIN v2, NEW s \in {"CONFIRMED", "CANCELLED"},
             v2' = [v2 EXCEPT ![i].status = s]
      PROVE  v2' \in Seq(Registrations)
  <2>1. [v2[i] EXCEPT !.status = s] \in Registrations
    BY RowIsRegistration DEF Registrations
  <2>2. QED
    BY <1>1, <2>1
<1>2. CASE Y!Tick
  BY <1>2 DEF Y!Tick
<1>3. ASSUME NEW u \in Members, NEW e \in Gatherings, NEW s \in {"PENDING", "CONFIRMED"},
             Y!Register(u, e, s)
      PROVE  RowsInv'
  <2>1. [user |-> u, event |-> e, status |-> s, at |-> v1] \in Registrations
    BY DEF Registrations
  <2>2. QED
    BY <1>3, <2>1 DEF Y!Register
<1>4. ASSUME NEW i \in DOMAIN v2, NEW s \in {"CONFIRMED", "CANCELLED"}, Y!Decide(i, s)
      PROVE  RowsInv'
  <2>1. v2[i].event \in Gatherings
    BY RowIsRegistration
  <2>2. QED
    BY <1>1, <1>4, <2>1 DEF Y!Decide
<1>5. ASSUME NEW i \in DOMAIN v2, Y!StartCancel(i) PROVE RowsInv'
  BY <1>5 DEF Y!StartCancel
<1>6. ASSUME NEW i \in DOMAIN v2, Y!CommitCancel(i) PROVE RowsInv'
  BY <1>1, <1>6 DEF Y!CommitCancel
<1>7. ASSUME NEW i \in DOMAIN v2, Y!CheckIn(i) PROVE RowsInv'
  <2>1. UNCHANGED <<v1, v2, v7>>
    BY <1>7 DEF Y!CheckIn
  <2>2. DOMAIN v3' = DOMAIN v3 \cup {<<v2[i].user, v2[i].event>>}
    BY <1>7 DEF Y!CheckIn
  <2>3. IsFiniteSet(DOMAIN v3')
    BY <2>2, FS_AddElement
  <2>4. QED
    BY <2>1, <2>3
<1>8. ASSUME NEW e \in Gatherings, Y!DropDoomed(e) PROVE RowsInv'
  BY <1>8 DEF Y!DropDoomed
<1>9. CASE Y!Compute \/ Y!setCached \/ Y!Expire \/ UNCHANGED Y!vars
  BY <1>9 DEF Y!Compute, Y!setCached, Y!Expire, Y!vars
<1>10. QED
  BY <1>2, <1>3, <1>4, <1>5, <1>6, <1>7, <1>8, <1>9 DEF Y!Next

LEMMA FiguresNext == RowsInv /\ FiguresInv /\ [Y!Next]_Y!vars => FiguresInv'
<1> SUFFICES ASSUME RowsInv, FiguresInv, [Y!Next]_Y!vars PROVE FiguresInv'
  OBVIOUS
<1>0. \A i \in DOMAIN v2 : v2[i].event \in Gatherings
  BY RowIsRegistration
<1>1. CASE Y!Tick
  BY <1>1 DEF Y!Tick, FiguresInv, Known
<1>2. ASSUME NEW u \in Members, NEW e \in Gatherings, NEW s, Y!Register(u, e, s)
      PROVE  FiguresInv'
  BY <1>2, ChangedFigures DEF Y!Register, Kinds
<1>3. ASSUME NEW i \in DOMAIN v2, NEW s, Y!Decide(i, s) PROVE FiguresInv'
  BY <1>0, <1>3, ChangedFigures DEF Y!Decide, Kinds
<1>4. ASSUME NEW i \in DOMAIN v2, Y!StartCancel(i) PROVE FiguresInv'
  BY <1>0, <1>4, DroppedFigures DEF Y!StartCancel
<1>5. ASSUME NEW i \in DOMAIN v2, Y!CommitCancel(i) PROVE FiguresInv'
  BY <1>0, <1>5, ChangedFigures DEF Y!CommitCancel, Kinds
<1>6. ASSUME NEW i \in DOMAIN v2, Y!CheckIn(i) PROVE FiguresInv'
  <2>1. Y!Change(v2[i].event, "checkIn") /\ UNCHANGED <<v4, v7>>
    BY <1>6 DEF Y!CheckIn
  <2>2. QED
    BY <1>0, <2>1, ChangedFigures DEF Kinds
<1>7. ASSUME NEW e \in Gatherings, Y!DropDoomed(e) PROVE FiguresInv'
  BY <1>7, DroppedFigures DEF Y!DropDoomed
<1>8. CASE Y!Compute
  BY <1>8 DEF Y!Compute, Y!Read, FiguresInv, Known, Values
<1>9. CASE Y!setCached
  BY <1>9 DEF Y!setCached, Y!Nothing, FiguresInv, Known, Values
<1>10. CASE Y!Expire
  BY <1>10 DEF Y!Expire, Y!Nothing, FiguresInv, Known, Values
<1>11. CASE UNCHANGED Y!vars
  BY <1>11 DEF Y!vars, FiguresInv, Known
<1>12. QED
  BY <1>1, <1>2, <1>3, <1>4, <1>5, <1>6, <1>7, <1>8, <1>9, <1>10, <1>11 DEF Y!Next

LEMMA RowsInit == Y!Init => RowsInv
<1> SUFFICES ASSUME Y!Init PROVE RowsInv
  OBVIOUS
<1>1. DOMAIN v3 = {}
  BY DEF Y!Init
<1>2. QED
  BY <1>1, FS_EmptySet DEF Y!Init, RowsInv

LEMMA AnalyticsRun == Spec => [](part = "analytics" => RowsInv /\ FiguresInv)
<1> DEFINE Inv == part = "analytics" => RowsInv /\ FiguresInv
<1>1. Init => Inv
  BY RowsInit, FiguresInit DEF Init
<1>2. Inv /\ [Next]_vars => Inv'
  <2> SUFFICES ASSUME Inv, [Next]_vars, part' = "analytics" PROVE RowsInv' /\ FiguresInv'
    OBVIOUS
  <2>1. RowsInv /\ FiguresInv /\ [Y!Next]_Y!vars
    BY DEF Next, vars, Y!vars
  <2>2. QED
    BY <2>1, RowsNext, FiguresNext
<1>3. QED
  <2> HIDE DEF Inv
  <2>1. Spec => []Inv
    BY <1>1, <1>2, PTL DEF Spec
  <2>2. QED
    BY <2>1 DEF Inv

\* The cached figures of an event miss no decision of an organizer on its rows
\* (registration.service.ts) for longer than it takes to drop the key, but for
\* those whose request was computing them when it was dropped.
THEOREM CacheCorrect == Spec => [](part = "analytics" => Y!FiguresAreCurrent)
<1>1. (part = "analytics" => RowsInv /\ FiguresInv) => (part = "analytics" => Y!FiguresAreCurrent)
  BY DEF FiguresInv, Known, Y!FiguresAreCurrent
<1>2. QED
  BY <1>1, AnalyticsRun, PTL

-----------------------------------------------------------------------------
(* Sums (SumFunction of the community modules, as Analytics has it).       *)

\* The function that a sum over the domain of f is computed by, set by set.
Picked(s) == CHOOSE x \in s : TRUE
AddsUp(h, f) ==
    h = [s \in SUBSET DOMAIN f |-> IF s = {} THEN 0 ELSE f[Picked(s)] + h[s \ {Picked(s)}]]

\* What holds at 0, and at n + 1 if at n, holds for every natural number: the principle of
\* the least element, for sets.
LEMMA SetIsInductive ==
    ASSUME NEW X, 0 \in X, \A n \in Nat : n \in X => n + 1 \in X
    PROVE  Nat \subseteq X
<1> DEFINE T == Nat \ X
<1>1. SUFFICES ASSUME T # {} PROVE FALSE
  OBVIOUS
<1>2. PICK n \in T : \A m \in T : <<m, n>> \notin OpToRel(<, Nat)
  <2> HIDE DEF T
  <2>1. T \subseteq Nat
    BY DEF T
  <2> QED
    BY <1>1, <2>1, WFMin, NatLessThanWellFounded
<1>3. \A m \in T : ~(m < n)
  BY <1>2 DEF OpToRel
<1>4. QED
  BY <1>3

LEMMA PickedIsIn == \A s : s # {} => Picked(s) \in s
BY DEF Picked

\* There is such a function: the sets of at most n + 1 elements need those of at most n.
LEMMA SumsExist ==
    ASSUME NEW f, IsFiniteSet(DOMAIN f)
    PROVE  \E h : AddsUp(h, f)
<1> DEFINE I == DOMAIN f
           Small(n) == {s \in SUBSET I : Cardinality(s) <= n}
           Value(h, s) == IF s = {} THEN 0 ELSE f[Picked(s)] + h[s \ {Picked(s)}]
           UpTo(h, n) == h = [s \in Small(n) |-> Value(h, s)]
           X == {n \in Nat : \E h : UpTo(h, n)}
<1>1. ASSUME NEW s \in SUBSET I
      PROVE  /\ IsFiniteSet(s) /\ Cardinality(s) \in Nat
             /\ Cardinality(s) = 0 <=> s = {}
             /\ s # {} => /\ s \ {Picked(s)} \in SUBSET I
                          /\ Cardinality(s \ {Picked(s)}) = Cardinality(s) - 1
  <2>1. IsFiniteSet(s)
    BY FS_Subset
  <2>2. QED
    BY <2>1, PickedIsIn, FS_CardinalityType, FS_EmptySet, FS_RemoveElement
<1>2. 0 \in X
  <2> DEFINE h == [s \in Small(0) |-> 0]
  <2>1. ASSUME NEW s \in Small(0) PROVE s = {}
    <3>1. s \in SUBSET I /\ Cardinality(s) <= 0
      OBVIOUS
    <3>2. Cardinality(s) \in Nat /\ (Cardinality(s) = 0 <=> s = {})
      BY <1>1, <3>1
    <3>3. QED
      BY <3>1, <3>2
  <2>2. UpTo(h, 0)
    BY <2>1
  <2>3. QED
    BY <2>2
<1>3. ASSUME NEW n \in Nat, n \in X PROVE n + 1 \in X
  <2>1. PICK g : UpTo(g, n)
    BY <1>3
  <2> DEFINE h == [s \in Small(n + 1) |->
                     IF s \in Small(n) THEN g[s] ELSE f[Picked(s)] + g[s \ {Picked(s)}]]
  <2>2. ASSUME NEW s \in Small(n + 1) PROVE h[s] = Value(h, s)
    <3>1. CASE s = {}
      <4>1. s \in Small(n)
        BY <3>1, FS_EmptySet
      <4>2. g[s] = 0
        BY <2>1, <3>1, <4>1
      <4>3. QED
        BY <3>1, <4>1, <4>2
    <3>2. CASE s # {}
      <4> DEFINE t == s \ {Picked(s)}
      <4>1. t \in Small(n) /\ t \in Small(n + 1)
        BY <1>1, <3>2
      <4>2. h[t] = g[t]
        BY <4>1
      <4>3. CASE s \in Small(n)
        <5>1. g[s] = f[Picked(s)] + g[t]
          BY <2>1, <3>2, <4>3
        <5>2. h[s] = g[s]
          BY <4>3
        <5>3. QED
          BY <3>2, <4>2, <5>1, <5>2
      <4>4. CASE s \notin Small(n)
        <5>1. h[s] = f[Picked(s)] + g[t]
          BY <4>4
        <5>2. QED
          BY <3>2, <4>2, <5>1
      <4>5. QED
        BY <4>3, <4>4
    <3>3. QED
      BY <3>1, <3>2
  <2>3. h = [s \in Small(n + 1) |-> Value(h, s)]
    <3>1. h = [s \in Small(n + 1) |-> h[s]]
      <4> HIDE DEF Small
      <4> QED
        OBVIOUS
    <3>2. QED
      <4> HIDE DEF h, Value, Small
      <4> QED
        BY <2>2, <3>1
  <2>4. n + 1 \in Nat
    OBVIOUS
  <2>5. QED
    <3> HIDE DEF h, Value, Small
    <3> QED
      BY <2>3, <2>4
<1>4. PICK h : UpTo(h, Cardinality(I))
  <2>1. Nat \subseteq X
    <3> HIDE DEF X
    <3> QED
      BY <1>2, <1>3, SetIsInductive
  <2>2. QED
    BY <1>1, <2>1
<1>5. Small(Cardinality(I)) = SUBSET I
  BY FS_Subset
<1>6. QED
  BY <1>4, <1>5 DEF AddsUp

\* What a sum is: that function, of the whole domain.
LEMMA SumUnfolds ==
    ASSUME NEW f, IsFiniteSet(DOMAIN f)
    PROVE  \E h : AddsUp(h, f) /\ Y!SumFunction(f) = h[DOMAIN f]
<1> DEFINE h == CHOOSE g : AddsUp(g, f)
<1>1. AddsUp(h, f)
  BY SumsExist
<1>2. Y!SumFunction(f) = h[DOMAIN f]
  BY Zenon DEF Y!SumFunction, Y!SumFunctionOnSet, Y!FoldFunctionOnSet, Y!MapThenFoldSet, AddsUp,
               Picked
<1>3. QED
  BY <1>1, <1>2

\* Sets of which every smaller one has a property have it all: the finite sets are
\* well founded.
LEMMA SubsetsAreInductive ==
    ASSUME NEW I, IsFiniteSet(I), NEW X,
           \A s \in SUBSET I : (\A t \in SUBSET s : t # s => t \in X) => s \in X
    PROVE  I \in X
<1> DEFINE T == (SUBSET I) \ X
<1>1. SUFFICES ASSUME T # {} PROVE FALSE
  OBVIOUS
<1>2. PICK s \in T : \A t \in T : <<t, s>> \notin StrictSubsetOrdering(I)
  <2> HIDE DEF T
  <2>1. T \subseteq FiniteSubsetsOf(I)
    BY FS_FiniteSubsetsOfFinite DEF T
  <2> QED
    BY <1>1, <2>1, WFMin, FS_StrictSubsetOrderingWellFounded
<1>3. \A t \in SUBSET s : t # s => t \in X
  BY <1>2 DEF StrictSubsetOrdering
<1>4. s \in SUBSET I /\ s \notin X
  BY <1>2
<1>5. QED
  BY <1>3, <1>4

\* The sizes of sets add up to at least that of their union, and to that if no two share
\* an element.
LEMMA SumOfSizes ==
    ASSUME NEW I, IsFiniteSet(I), NEW R, IsFiniteSet(R), NEW P \in [I -> SUBSET R],
           NEW f, f = [k \in I |-> Cardinality(P[k])],
           NEW all, \A x : x \in all <=> \E k \in I : x \in P[k]
    PROVE  /\ Y!SumFunction(f) \in Nat
           /\ Y!SumFunction(f) >= Cardinality(all)
           /\ (\A k, l \in I : k # l => P[k] \cap P[l] = {})
                => Y!SumFunction(f) = Cardinality(all)
<1>1. DOMAIN f = I
  OBVIOUS
<1>2. PICK h : AddsUp(h, f) /\ Y!SumFunction(f) = h[I]
  BY <1>1, SumUnfolds
<1> DEFINE U(s) == UNION {P[k] : k \in s}
           Apart == \A k, l \in I : k # l => P[k] \cap P[l] = {}
           X == {s \in SUBSET I : /\ h[s] \in Nat /\ h[s] >= Cardinality(U(s))
                                  /\ Apart => h[s] = Cardinality(U(s))}
<1>3. ASSUME NEW s \in SUBSET I
      PROVE  IsFiniteSet(U(s)) /\ Cardinality(U(s)) \in Nat
  <2>1. U(s) \in SUBSET R
    OBVIOUS
  <2>2. QED
    BY <2>1, FS_Subset, FS_CardinalityType
<1>4. ASSUME NEW s \in SUBSET I, \A t \in SUBSET s : t # s => t \in X PROVE s \in X
  <2>1. CASE s = {}
    <3>1. h[s] = 0
      BY <1>1, <1>2, <2>1 DEF AddsUp
    <3>2. U(s) = {}
      BY <2>1
    <3>3. Cardinality(U(s)) = 0
      BY <3>2, FS_EmptySet
    <3>4. QED
      BY <3>1, <3>3
  <2>2. CASE s # {}
    <3> DEFINE k == Picked(s)
               t == s \ {k}
    <3>1. k \in s /\ k \in I /\ t \in SUBSET s /\ t # s /\ t \in SUBSET I
      BY <2>2, PickedIsIn
    <3>2. h[s] = f[k] + h[t]
      BY <1>1, <1>2, <2>2 DEF AddsUp
    <3> HIDE DEF k
    <3>3. t \in X
      BY <1>4, <3>1
    <3>4. IsFiniteSet(P[k]) /\ Cardinality(P[k]) \in Nat /\ f[k] = Cardinality(P[k])
      BY <3>1, FS_Subset, FS_CardinalityType
    <3>5. U(s) = P[k] \cup U(t)
      BY <3>1
    <3>6. Cardinality(U(s)) = Cardinality(P[k]) + Cardinality(U(t)) - Cardinality(P[k] \cap U(t))
      <4> HIDE DEF U, t
      <4> QED
        BY <1>3, <3>1, <3>4, <3>5, FS_Union
    <3>7. Cardinality(P[k] \cap U(t)) \in Nat
      BY <3>4, FS_Intersection, FS_CardinalityType
    <3>8. Apart => Cardinality(P[k] \cap U(t)) = 0
      <4>1. ASSUME Apart PROVE P[k] \cap U(t) = {}
        BY <3>1, <4>1
      <4> HIDE DEF U, Apart
      <4>2. QED
        BY <4>1, FS_EmptySet
    <3>9. h[t] \in Nat /\ h[t] >= Cardinality(U(t)) /\ (Apart => h[t] = Cardinality(U(t)))
      BY <3>3
    <3>10. Cardinality(U(s)) \in Nat /\ Cardinality(U(t)) \in Nat
      BY <1>3, <3>1
    <3> HIDE DEF U, Apart, t
    <3>11. QED
      BY <3>2, <3>4, <3>6, <3>7, <3>8, <3>9, <3>10
  <2>3. QED
    BY <2>1, <2>2
<1>5. I \in X
  <2> HIDE DEF X
  <2> QED
    BY <1>4, SubsetsAreInductive
<1>6. U(I) = all
  OBVIOUS
<1>7. QED
  <2> HIDE DEF U
  <2> QED
    BY <1>2, <1>5, <1>6

-----------------------------------------------------------------------------
(* What the reports of Analytics count.                                    *)

LEMMA DayIsMonotone ==
    ASSUME NEW d \in Nat \ {0}, NEW s \in Int, NEW t \in Int, s <= t
    PROVE  s \div d \in Int /\ t \div d \in Int /\ s \div d <= t \div d
<1> DEFINE q == s \div d
           p == t \div d
           x == s % d
           y == t % d
<1>1. /\ q \in Int /\ x \in Int /\ s = d * q + x /\ 0 <= x /\ x < d
      /\ p \in Int /\ y \in Int /\ t = d * p + y /\ 0 <= y /\ y < d
  OBVIOUS
<1> HIDE DEF q, p, x, y
<1>2. q <= p
  <2> SUFFICES ASSUME q >= p + 1 PROVE FALSE
    BY <1>1
  <2>1. d * q >= d * (p + 1)
    BY <1>1
  <2>2. d * (p + 1) = d * p + d
    BY <1>1
  <2>3. QED
    BY <1>1, <2>1, <2>2
<1>3. QED
  BY <1>1, <1>2 DEF q, p

\* getWeekStart: the last multiple of the length that is not later.
LEMMA WeekIsWhole ==
    ASSUME NEW w \in Nat \ {0}, NEW t \in Int
    PROVE  /\ t - (t % w) = w * (t \div w) /\ t - (t % w) \in Int
           /\ (t - (t % w)) % w = 0
<1> DEFINE q == t \div w
           x == t % w
           k == w * q
           p == k \div w
           y == k % w
<1>1. q \in Int /\ x \in Int /\ t = w * q + x
  OBVIOUS
<1>2. k \in Int
  BY <1>1
<1> HIDE DEF q, x, k
<1>3. p \in Int /\ y \in Int /\ k = w * p + y /\ 0 <= y /\ y < w
  BY <1>2
<1> HIDE DEF p, y
<1>4. k = w * q
  BY DEF k
<1>5. y = w * (q - p)
  <2>1. w * (q - p) = w * q - w * p
    BY <1>1, <1>3
  <2>2. QED
    BY <1>1, <1>3, <1>4, <2>1
<1>6. q - p < 1
  <2> SUFFICES ASSUME q - p >= 1 PROVE FALSE
    BY <1>1, <1>3
  <2>1. w * (q - p) >= w * 1
    BY <1>1, <1>3
  <2>2. QED
    BY <1>3, <1>5, <2>1
<1>7. q - p > -1
  <2> SUFFICES ASSUME q - p <= -1 PROVE FALSE
    BY <1>1, <1>3
  <2>1. w * (q - p) <= w * (-1)
    BY <1>1, <1>3
  <2>2. QED
    BY <1>3, <1>5, <2>1
<1>8. y = 0
  BY <1>1, <1>3, <1>5, <1>6, <1>7
<1>9. t - x = k
  BY <1>1, <1>4
<1>10. QED
  BY <1>1, <1>2, <1>8, <1>9 DEF x, k, q, y

LEMMA WeekIsMonotone ==
    ASSUME NEW w \in Nat \ {0}, NEW s \in Int, NEW t \in Int, s <= t
    PROVE  s - (s % w) <= t - (t % w)
<1> DEFINE q == s \div w
           p == t \div w
<1>1. q \in Int /\ p \in Int /\ q <= p
  BY DayIsMonotone
<1>2. s - (s % w) = w * q /\ t - (t % w) = w * p
  BY WeekIsWhole
<1> HIDE DEF q, p
<1>3. w * q <= w * p
  BY <1>1
<1>4. QED
  BY <1>2, <1>3

\* Every time in the range has its day or its week in the series.
LEMMA PointsOfRange ==
    ASSUME NEW r, r.start \in Int, r.end \in Int, NEW t \in Int, Y!In(t, r), NEW dates
    PROVE  Y!PointOf(r, t) \in DOMAIN Y!Trend(r, dates)
<1> USE TimesAreWhole
<1>1. r.start <= t /\ t <= r.end
  BY DEF Y!In
<1>2. /\ Y!Day(r.start) \in Int /\ Y!Day(t) \in Int /\ Y!Day(r.end) \in Int
      /\ Y!Day(r.start) <= Y!Day(t) /\ Y!Day(t) <= Y!Day(r.end)
  BY <1>1, DayIsMonotone DEF Y!Day
<1>3. CASE ~Y!useWeekly(r)
  <2>1. DOMAIN Y!Trend(r, dates) = Y!Day(r.start) .. Y!Day(r.end)
    BY <1>3 DEF Y!Trend, Y!buildDailySeries, Y!Series
  <2>2. QED
    BY <1>2, <1>3, <2>1 DEF Y!PointOf
<1>4. CASE Y!useWeekly(r)
  <2>1. DOMAIN Y!Trend(r, dates)
          = {w \in Y!WeekStart(r.start) .. Y!WeekStart(r.end) : w % WeekLength = 0}
    BY <1>4 DEF Y!Trend, Y!buildWeeklySeries, Y!Series
  <2>2. /\ Y!WeekStart(r.start) \in Int /\ Y!WeekStart(t) \in Int /\ Y!WeekStart(r.end) \in Int
        /\ Y!WeekStart(t) % WeekLength = 0
    BY <1>2, WeekIsWhole DEF Y!WeekStart
  <2>3. Y!WeekStart(r.start) <= Y!WeekStart(t) /\ Y!WeekStart(t) <= Y!WeekStart(r.end)
    BY <1>2, WeekIsMonotone DEF Y!WeekStart
  <2>4. QED
    BY <1>4, <2>1, <2>2, <2>3 DEF Y!PointOf
<1>5. QED
  BY <1>3, <1>4

\* The buckets part the users who have a registration.
LEMMA BucketsPart ==
    ASSUME NEW U, IsFiniteSet(U), NEW n \in Nat, NEW f \in [U -> 0 .. n]
    PROVE  Cardinality({u \in U : 1 <= f[u] /\ f[u] <= 1})
             + Cardinality({u \in U : 2 <= f[u] /\ f[u] <= 2})
             + Cardinality({u \in U : 3 <= f[u] /\ f[u] <= 5})
             + Cardinality({u \in U : 6 <= f[u] /\ f[u] <= n})
               = Cardinality({u \in U : f[u] > 0})
<1> DEFINE S(low, high) == {u \in U : low <= f[u] /\ f[u] <= high}
<1>1. /\ IsFiniteSet(S(1, 1)) /\ IsFiniteSet(S(2, 2)) /\ IsFiniteSet(S(3, 5))
      /\ IsFiniteSet(S(6, n))
  BY FS_Subset
<1>2. /\ Cardinality(S(1, 1)) \in Nat /\ Cardinality(S(2, 2)) \in Nat
      /\ Cardinality(S(3, 5)) \in Nat /\ Cardinality(S(6, n)) \in Nat
  BY <1>1, FS_CardinalityType
<1>3. ASSUME NEW V, NEW W, IsFiniteSet(V), IsFiniteSet(W), V \cap W = {}
      PROVE  IsFiniteSet(V \cup W) /\ Cardinality(V \cup W) = Cardinality(V) + Cardinality(W)
  <2>1. /\ IsFiniteSet(V \cup W)
        /\ Cardinality(V \cup W) = Cardinality(V) + Cardinality(W) - Cardinality(V \cap W)
    BY <1>3, FS_Union
  <2>2. Cardinality(V \cap W) = 0
    BY <1>3, FS_EmptySet
  <2>3. Cardinality(V) \in Nat /\ Cardinality(W) \in Nat
    BY <1>3, FS_CardinalityType
  <2>4. QED
    BY <2>1, <2>2, <2>3
<1>4. \A u \in U : f[u] \in Nat /\ f[u] <= n
  OBVIOUS
<1> DEFINE V == S(1, 1) \cup S(2, 2)
           W == S(3, 5) \cup S(6, n)
<1>5. IsFiniteSet(V) /\ Cardinality(V) = Cardinality(S(1, 1)) + Cardinality(S(2, 2))
  <2>1. S(1, 1) \cap S(2, 2) = {}
    BY <1>4
  <2>2. QED
    BY <1>1, <1>3, <2>1
<1>6. IsFiniteSet(W) /\ Cardinality(W) = Cardinality(S(3, 5)) + Cardinality(S(6, n))
  <2>1. S(3, 5) \cap S(6, n) = {}
    BY <1>4
  <2>2. QED
    BY <1>1, <1>3, <2>1
<1>7. V \cap W = {}
  BY <1>4
<1>8. V \cup W = {u \in U : f[u] > 0}
  BY <1>4
<1>9. Cardinality(V \cup W) = Cardinality(V) + Cardinality(W)
  <2> HIDE DEF V, W
  <2> QED
    BY <1>3, <1>5, <1>6, <1>7
<1>10. Cardinality(S(1, 1)) + Cardinality(S(2, 2)) + Cardinality(S(3, 5)) + Cardinality(S(6, n))
          = Cardinality(V \cup W)
  <2> HIDE DEF S, V, W
  <2> QED
    BY <1>2, <1>5, <1>6, <1>9
<1>11. QED
  <2> HIDE DEF V, W
  <2> QED
    BY <1>8, <1>10

\* The same definition, instantiated with module Analytics.
LEMMA SameCardinality == \A S : Y!Cardinality(S) = Cardinality(S)
BY Zenon DEF Y!Cardinality, Cardinality

\* The rows of events E in the range are finitely many, as are those of an event.
LEMMA RowsAreFinite ==
    ASSUME RowsInv, NEW S \in SUBSET DOMAIN v2
    PROVE  IsFiniteSet(S) /\ Cardinality(S) \in Nat /\ Cardinality(S) <= Len(v2)
<1>1. DOMAIN v2 = 1 .. Len(v2) /\ Len(v2) \in Nat
  BY DEF RowsInv
<1>2. IsFiniteSet(1 .. Len(v2)) /\ Cardinality(1 .. Len(v2)) = Len(v2)
  BY <1>1, FS_Interval
<1>3. QED
  BY <1>1, <1>2, FS_Subset, FS_CardinalityType

\* The numbers of an event do not exceed each other.
LEMMA EventCounts ==
    ASSUME RowsInv, NEW e, NEW r
    PROVE  /\ Y!EventFigures(e, r).confirmedRegistrations
                + Y!EventFigures(e, r).cancelledRegistrations
                    <= Y!EventFigures(e, r).totalRegistrations
           /\ Y!EventFigures(e, r).totalRegistrations <= Y!ArchiveFigures(e).totalRegistrations
<1> DEFINE rows == Y!RowsOf({e}, r)
           confirmed == Y!WithStatus(rows, "CONFIRMED")
           cancelled == Y!WithStatus(rows, "CANCELLED")
           all == {i \in DOMAIN v2 : v2[i].event = e}
<1>1. confirmed \subseteq rows /\ cancelled \subseteq rows /\ confirmed \cap cancelled = {}
  BY DEF Y!WithStatus
<1>2. rows \subseteq all /\ all \subseteq DOMAIN v2
  BY DEF Y!RowsOf
<1>3. /\ Y!EventFigures(e, r).confirmedRegistrations = Cardinality(confirmed)
      /\ Y!EventFigures(e, r).cancelledRegistrations = Cardinality(cancelled)
      /\ Y!EventFigures(e, r).totalRegistrations = Cardinality(rows)
      /\ Y!ArchiveFigures(e).totalRegistrations = Cardinality(all)
  <2>1. /\ Y!EventFigures(e, r).confirmedRegistrations = Y!Cardinality(confirmed)
        /\ Y!EventFigures(e, r).cancelledRegistrations = Y!Cardinality(cancelled)
        /\ Y!EventFigures(e, r).totalRegistrations = Y!Cardinality(rows)
        /\ Y!ArchiveFigures(e).totalRegistrations = Y!Cardinality(all)
    BY DEF Y!EventFigures, Y!ArchiveFigures
  <2> HIDE DEF rows, confirmed, cancelled, all
  <2>2. QED
    BY <2>1, SameCardinality
<1> HIDE DEF rows, confirmed, cancelled, all
<1>4. /\ IsFiniteSet(rows) /\ Cardinality(rows) \in Nat
      /\ IsFiniteSet(all) /\ Cardinality(all) \in Nat
      /\ IsFiniteSet(confirmed) /\ Cardinality(confirmed) \in Nat
      /\ IsFiniteSet(cancelled) /\ Cardinality(cancelled) \in Nat
  BY <1>1, <1>2, RowsAreFinite
<1>5. Cardinality(rows) <= Cardinality(all)
  BY <1>2, <1>4, FS_Subset
<1>6. Cardinality(confirmed \cup cancelled) = Cardinality(confirmed) + Cardinality(cancelled)
  <2>1. Cardinality(confirmed \cap cancelled) = 0
    BY <1>1, FS_EmptySet
  <2>2. Cardinality(confirmed \cup cancelled) = Cardinality(confirmed) + Cardinality(cancelled)
                                                 - Cardinality(confirmed \cap cancelled)
    BY <1>4, FS_Union
  <2>3. QED
    BY <1>4, <2>1, <2>2
<1>7. Cardinality(confirmed \cup cancelled) <= Cardinality(rows)
  <2>1. (confirmed \cup cancelled) \subseteq rows
    BY <1>1
  <2>2. QED
    BY <1>4, <2>1, FS_Subset
<1>8. QED
  BY <1>3, <1>5, <1>6, <1>7

\* The buckets of engagement add up to the active users.
LEMMA BucketsAgree ==
    ASSUME RowsInv, NEW r
    PROVE  LET engagement == Y!getUserEngagement(r)
               b == engagement.repeatEngagement
           IN  b[1] + b[2] + b[3] + b[4] = engagement.activeUsers
<1> DEFINE rows == Y!RowsOf(Gatherings, r)
           RowsOfUser(u) == {i \in rows : v2[i].user = u}
           Of(u) == Y!Cardinality(RowsOfUser(u))
           active == {v2[i].user : i \in rows}
           Between(low, high) == {u \in Members : low <= Of(u) /\ Of(u) <= high}
           Bucket(low, high) == Y!Cardinality(Between(low, high))
           f == [u \in Members |-> Of(u)]
<1>1. rows \subseteq DOMAIN v2
  BY DEF Y!RowsOf
<1>2. ASSUME NEW u
      PROVE  Of(u) \in 0 .. Len(v2) /\ (Of(u) = 0 <=> RowsOfUser(u) = {})
  <2>1. RowsOfUser(u) \in SUBSET DOMAIN v2
    BY <1>1
  <2>2. Of(u) = Cardinality(RowsOfUser(u))
    BY SameCardinality
  <2> HIDE DEF RowsOfUser, Of
  <2>3. Len(v2) \in Nat
    BY DEF RowsInv
  <2>4. QED
    BY <2>1, <2>2, <2>3, RowsAreFinite, FS_EmptySet
<1>3. f \in [Members -> 0 .. Len(v2)]
  <2> HIDE DEF Of
  <2> QED
    BY <1>2
<1>4. active = {u \in Members : f[u] > 0}
  <2>1. \A i \in rows : v2[i].user \in Members
    BY <1>1, RowIsRegistration DEF Registrations
  <2>2. \A u \in Members : RowsOfUser(u) # {} <=> f[u] > 0
    <3> HIDE DEF Of, RowsOfUser
    <3> QED
      BY <1>2
  <2> HIDE DEF f
  <2>3. QED
    BY <2>1, <2>2
<1>5. /\ Y!getUserEngagement(r).activeUsers = Y!Cardinality(active)
      /\ Y!getUserEngagement(r).repeatEngagement
            = <<Bucket(1, 1), Bucket(2, 2), Bucket(3, 5), Bucket(6, Len(v2))>>
  BY DEF Y!getUserEngagement
<1>6. ASSUME NEW low, NEW high
      PROVE  Between(low, high) = {u \in Members : low <= f[u] /\ f[u] <= high}
  <2> HIDE DEF Of
  <2> QED
    OBVIOUS
<1> HIDE DEF rows, active, f, Between
<1>7. /\ Y!getUserEngagement(r).activeUsers = Cardinality(active)
      /\ Y!getUserEngagement(r).repeatEngagement
            = <<Cardinality(Between(1, 1)), Cardinality(Between(2, 2)),
                Cardinality(Between(3, 5)), Cardinality(Between(6, Len(v2)))>>
  BY <1>5, SameCardinality
<1>8. Cardinality(Between(1, 1)) + Cardinality(Between(2, 2)) + Cardinality(Between(3, 5))
        + Cardinality(Between(6, Len(v2))) = Cardinality({u \in Members : f[u] > 0})
  <2>1. IsFiniteSet(Members)
    BY TablesAreFinite
  <2>2. Len(v2) \in Nat
    BY DEF RowsInv
  <2>3. Cardinality({u \in Members : 1 <= f[u] /\ f[u] <= 1})
          + Cardinality({u \in Members : 2 <= f[u] /\ f[u] <= 2})
          + Cardinality({u \in Members : 3 <= f[u] /\ f[u] <= 5})
          + Cardinality({u \in Members : 6 <= f[u] /\ f[u] <= Len(v2)})
            = Cardinality({u \in Members : f[u] > 0})
    BY <1>3, <2>1, <2>2, BucketsPart
  <2>4. QED
    BY <1>6, <2>3
<1>9. QED
  BY <1>4, <1>7, <1>8

LEMMA RangeIsWhole ==
    ASSUME RowsInv, NEW r \in Y!resolveTimeRange(v1)
    PROVE  r.start \in Int /\ r.end \in Int
<1> USE TimesAreWhole
<1>1. v1 \in Int
  BY DEF RowsInv
<1>2. CASE \E days \in Presets : r = Y!Range2(v1 - days * DayLength, v1)
  <2>1. PICK days \in Presets : r = [start |-> v1 - days * DayLength, end |-> v1]
    BY <1>2 DEF Y!Range2
  <2>2. r.start = v1 - days * DayLength /\ r.end = v1
    BY <2>1
  <2>3. QED
    BY <1>1, <2>2
<1>3. CASE r \in [start : Times, end : Times]
  BY <1>3
<1>4. QED
  BY <1>2, <1>3 DEF Y!resolveTimeRange

\* See Analytics.
LEMMA CountsAgreeInRange ==
    ASSUME RowsInv, NEW r \in Y!resolveTimeRange(v1)
    PROVE  Y!CountsAgree(r)
<1>1. r.start \in Int /\ r.end \in Int
  BY RangeIsWhole
<1>2. ASSUME NEW u \in Members \ Admins
      PROVE  /\ Y!getTopOrganizer[u].totalEvents <= Y!getOrganizerOverview(u).totalEvents
             /\ Y!getTopOrganizer[u].totalRegistrations
                    <= Y!getOrganizerOverview(u).totalRegistrations
  <2> DEFINE Rows(S) == {i \in DOMAIN v2 : v2[i].event \in S}
  <2>1. /\ Y!getTopOrganizer[u].totalEvents = Cardinality(Y!CreatedBy(u))
        /\ Y!getTopOrganizer[u].totalRegistrations = Cardinality(Rows(Y!CreatedBy(u)))
    BY SameCardinality DEF Y!getTopOrganizer
  <2>2. /\ Y!getOrganizerOverview(u).totalEvents = Cardinality(Y!EventsOf(u))
        /\ Y!getOrganizerOverview(u).totalRegistrations = Cardinality(Rows(Y!EventsOf(u)))
    BY SameCardinality DEF Y!getOrganizerOverview
  <2>3. Y!CreatedBy(u) \subseteq Y!EventsOf(u) /\ Y!EventsOf(u) \subseteq Gatherings
    BY DEF Y!EventsOf, Y!CreatedBy
  <2>4. IsFiniteSet(Y!EventsOf(u))
    BY <2>3, TablesAreFinite, FS_Subset
  <2>5. Rows(Y!CreatedBy(u)) \subseteq Rows(Y!EventsOf(u))
    BY <2>3
  <2>6. IsFiniteSet(Rows(Y!EventsOf(u)))
    BY RowsAreFinite
  <2> HIDE DEF Rows
  <2>7. /\ Cardinality(Y!CreatedBy(u)) <= Cardinality(Y!EventsOf(u))
        /\ Cardinality(Rows(Y!CreatedBy(u))) <= Cardinality(Rows(Y!EventsOf(u)))
    BY <2>3, <2>4, <2>5, <2>6, FS_Subset
  <2>8. QED
    BY <2>1, <2>2, <2>7
<1>3. ASSUME NEW E, NEW i \in Y!RowsOf(E, r)
      PROVE  Y!PointOf(r, v2[i].at) \in DOMAIN Y!getAdminTrends(E, r)
  <2>1. i \in DOMAIN v2 /\ Y!In(v2[i].at, r)
    BY DEF Y!RowsOf
  <2>2. v2[i].at \in Int
    BY <2>1, RowIsRegistration, TimesAreWhole DEF Registrations
  <2>3. QED
    BY <1>1, <2>1, <2>2, PointsOfRange DEF Y!getAdminTrends
<1>4. QED
  BY <1>2, <1>3, EventCounts, BucketsAgree DEF Y!CountsAgree

-----------------------------------------------------------------------------
(* What the reports of Analytics add up to.                                *)

\* A set is as large as the parts of it add up to.
LEMMA PartsAddUp ==
    ASSUME NEW I, IsFiniteSet(I), NEW all, IsFiniteSet(all), NEW P \in [I -> SUBSET all],
           \A x \in all : \E k \in I : x \in P[k],
           \A k, l \in I : k # l => P[k] \cap P[l] = {}
    PROVE  Y!SumFunction([k \in I |-> Cardinality(P[k])]) = Cardinality(all)
<1> DEFINE f == [k \in I |-> Cardinality(P[k])]
<1>1. \A x : x \in all <=> \E k \in I : x \in P[k]
  OBVIOUS
<1>2. f = [k \in I |-> Cardinality(P[k])]
  OBVIOUS
<1> HIDE DEF f
<1>3. /\ Y!SumFunction(f) \in Nat
      /\ Y!SumFunction(f) >= Cardinality(all)
      /\ (\A k, l \in I : k # l => P[k] \cap P[l] = {}) => Y!SumFunction(f) = Cardinality(all)
  BY <1>1, <1>2, SumOfSizes
<1>4. QED
  BY <1>3 DEF f

\* Counts of rows per key add up to the rows, when every row has one of the keys.
LEMMA RowsByKey ==
    ASSUME RowsInv, NEW I, IsFiniteSet(I), NEW rows \in SUBSET DOMAIN v2, NEW keyOf \in [rows -> I],
           NEW f, f = [k \in I |-> Y!Cardinality({i \in rows : keyOf[i] = k})]
    PROVE  Y!SumFunction(f) = Y!Cardinality(rows)
<1> DEFINE P == [k \in I |-> {i \in rows : keyOf[i] = k}]
<1>1. IsFiniteSet(rows)
  BY RowsAreFinite
<1>2. P \in [I -> SUBSET rows]
  OBVIOUS
<1>3. f = [k \in I |-> Cardinality(P[k])]
  <2>1. \A k \in I : f[k] = Cardinality(P[k])
    BY SameCardinality
  <2>2. f = [k \in I |-> f[k]]
    OBVIOUS
  <2> HIDE DEF P
  <2>3. QED
    BY <2>1, <2>2
<1>4. \A k, l \in I : k # l => P[k] \cap P[l] = {}
  OBVIOUS
<1>5. \A i \in rows : \E k \in I : i \in P[k]
  OBVIOUS
<1>6. Y!SumFunction([k \in I |-> Cardinality(P[k])]) = Cardinality(rows)
  <2> HIDE DEF P
  <2> QED
    BY <1>1, <1>2, <1>4, <1>5, PartsAddUp
<1>7. QED
  <2> HIDE DEF P
  <2> QED
    BY <1>3, <1>6, SameCardinality

\* The points of a series are finitely many.
LEMMA PointsAreFinite ==
    ASSUME NEW r, r.start \in Int, r.end \in Int, NEW dates
    PROVE  IsFiniteSet(DOMAIN Y!Trend(r, dates))
<1> USE TimesAreWhole
<1>1. CASE ~Y!useWeekly(r)
  <2>1. DOMAIN Y!Trend(r, dates) = Y!Day(r.start) .. Y!Day(r.end)
    BY <1>1 DEF Y!Trend, Y!buildDailySeries, Y!Series
  <2>2. Y!Day(r.start) \in Int /\ Y!Day(r.end) \in Int
    BY DayIsMonotone DEF Y!Day
  <2>3. QED
    BY <2>1, <2>2, FS_Interval
<1>2. CASE Y!useWeekly(r)
  <2>1. DOMAIN Y!Trend(r, dates)
          = {w \in Y!WeekStart(r.start) .. Y!WeekStart(r.end) : w % WeekLength = 0}
    BY <1>2 DEF Y!Trend, Y!buildWeeklySeries, Y!Series
  <2>2. Y!WeekStart(r.start) \in Int /\ Y!WeekStart(r.end) \in Int
    <3>1. Y!Day(r.start) \in Int /\ Y!Day(r.end) \in Int
      BY DayIsMonotone DEF Y!Day
    <3>2. QED
      BY <3>1, WeekIsWhole DEF Y!WeekStart
  <2>3. IsFiniteSet(Y!WeekStart(r.start) .. Y!WeekStart(r.end))
    BY <2>2, FS_Interval
  <2>4. QED
    BY <2>1, <2>3, FS_Subset
<1>3. QED
  BY <1>1, <1>2

\* A series adds up to the rows of the range.
LEMMA SeriesAddsUp ==
    ASSUME RowsInv, NEW r, r.start \in Int, r.end \in Int, NEW E
    PROVE  Y!SumFunction(Y!Trend(r, Y!Dates(Y!RowsOf(E, r)))) = Y!Cardinality(Y!RowsOf(E, r))
<1> DEFINE rows == Y!RowsOf(E, r)
           dates == Y!Dates(rows)
           f == Y!Trend(r, dates)
           I == DOMAIN f
           keyOf == [i \in rows |-> Y!PointOf(r, v2[i].at)]
<1>1. rows \in SUBSET DOMAIN v2
  BY DEF Y!RowsOf
<1>2. IsFiniteSet(I)
  BY PointsAreFinite
<1>3. keyOf \in [rows -> I]
  <2>1. ASSUME NEW i \in rows PROVE Y!PointOf(r, v2[i].at) \in I
    <3>1. i \in DOMAIN v2 /\ Y!In(v2[i].at, r)
      BY DEF Y!RowsOf
    <3>2. v2[i].at \in Int
      BY <3>1, RowIsRegistration, TimesAreWhole DEF Registrations
    <3>3. QED
      BY <3>1, <3>2, PointsOfRange
  <2> HIDE DEF rows, I
  <2>2. QED
    BY <2>1
<1>4. f = [k \in I |-> Y!Cardinality({i \in rows : keyOf[i] = k})]
  <2>1. DOMAIN dates = rows /\ \A i \in rows : dates[i] = v2[i].at
    BY DEF Y!Dates
  <2> HIDE DEF rows, dates
  <2>2. CASE Y!useWeekly(r)
    <3>1. f = [k \in I |-> Y!Cardinality({i \in DOMAIN dates : Y!WeekStart(dates[i]) = k})]
      BY <2>2 DEF Y!Trend, Y!buildWeeklySeries, Y!Series
    <3>2. \A k \in I : {i \in DOMAIN dates : Y!WeekStart(dates[i]) = k}
                          = {i \in rows : keyOf[i] = k}
      <4> HIDE DEF I
      <4> QED
        BY <2>1, <2>2 DEF Y!PointOf
    <3> HIDE DEF f, I, keyOf
    <3>3. QED
      BY <3>1, <3>2
  <2>3. CASE ~Y!useWeekly(r)
    <3>1. f = [k \in I |-> Y!Cardinality({i \in DOMAIN dates : Y!Day(dates[i]) = k})]
      BY <2>3 DEF Y!Trend, Y!buildDailySeries, Y!Series
    <3>2. \A k \in I : {i \in DOMAIN dates : Y!Day(dates[i]) = k} = {i \in rows : keyOf[i] = k}
      <4> HIDE DEF I
      <4> QED
        BY <2>1, <2>3 DEF Y!PointOf
    <3> HIDE DEF f, I, keyOf
    <3>3. QED
      BY <3>1, <3>2
  <2>4. QED
    BY <2>2, <2>3
<1> HIDE DEF rows, f, I, keyOf
<1>5. Y!SumFunction(f) = Y!Cardinality(rows)
  BY <1>1, <1>2, <1>3, <1>4, RowsByKey
<1>6. QED
  BY <1>5 DEF rows, f

\* What is read off finitely many things is finite.
LEMMA ImageIsFinite ==
    ASSUME NEW S, IsFiniteSet(S), NEW g, NEW T, \A y : y \in T <=> \E x \in S : y = g[x]
    PROVE  IsFiniteSet(T) /\ Cardinality(T) <= Cardinality(S)
<1> DEFINE h == [x \in S |-> g[x]]
<1>1. h \in Surjection(S, T)
  BY DEF Surjection
<1>2. QED
  BY <1>1, FS_Surjection

\* The departments add up to the rows of users who have one.
LEMMA DepartmentsAddUp ==
    ASSUME RowsInv, NEW r, NEW E
    PROVE  Y!SumFunction([d \in {DepartmentOf[u] : u \in Members} \ {None}
                              |-> Y!getDepartmentAnalytics(d, E, r)])
              = Y!Cardinality({i \in Y!RowsOf(E, r) : DepartmentOf[v2[i].user] # None})
<1> DEFINE departments == {DepartmentOf[u] : u \in Members}
           I == departments \ {None}
           rows == {i \in Y!RowsOf(E, r) : DepartmentOf[v2[i].user] # None}
           keyOf == [i \in rows |-> DepartmentOf[v2[i].user]]
           f == [d \in I |-> Y!getDepartmentAnalytics(d, E, r)]
<1>1. rows \in SUBSET DOMAIN v2
  BY DEF Y!RowsOf
<1>2. IsFiniteSet(I)
  <2>1. \A d : d \in departments <=> \E u \in Members : d = DepartmentOf[u]
    OBVIOUS
  <2> HIDE DEF departments
  <2>2. IsFiniteSet(departments)
    BY <2>1, TablesAreFinite, ImageIsFinite
  <2>3. QED
    BY <2>2, FS_Subset
<1>3. keyOf \in [rows -> I]
  <2>1. \A i \in rows : v2[i].user \in Members /\ DepartmentOf[v2[i].user] # None
    BY <1>1, RowIsRegistration DEF Registrations
  <2> HIDE DEF rows
  <2>2. QED
    BY <2>1
<1>4. f = [d \in I |-> Y!Cardinality({i \in rows : keyOf[i] = d})]
  <2>1. ASSUME NEW d \in I
        PROVE  /\ f[d] = Y!Cardinality({i \in Y!RowsOf(E, r) : DepartmentOf[v2[i].user] = d})
               /\ {i \in Y!RowsOf(E, r) : DepartmentOf[v2[i].user] = d}
                     = {i \in rows : keyOf[i] = d}
    <3>1. f[d] = Y!Cardinality({i \in Y!RowsOf(E, r) : DepartmentOf[v2[i].user] = d})
      BY DEF Y!getDepartmentAnalytics
    <3>2. d # None
      OBVIOUS
    <3> HIDE DEF f, I
    <3>3. QED
      BY <3>1, <3>2
  <2>2. \A d \in I : f[d] = Y!Cardinality({i \in rows : keyOf[i] = d})
    <3> HIDE DEF rows, keyOf, I, f
    <3> QED
      BY <2>1
  <2>3. f = [d \in I |-> f[d]]
    <3> HIDE DEF I
    <3> QED
      OBVIOUS
  <2> HIDE DEF rows, keyOf, I, f
  <2>4. QED
    BY <2>2, <2>3
<1> HIDE DEF rows, f, keyOf, I
<1>5. Y!SumFunction(f) = Y!Cardinality(rows)
  BY <1>1, <1>2, <1>3, <1>4, RowsByKey
<1>6. QED
  BY <1>5 DEF rows, f, I

\* The categories count every row of an event that has some.
LEMMA CategoriesAddUp ==
    ASSUME RowsInv, NEW r, NEW E \in SUBSET Gatherings
    PROVE  Y!SumFunction([c \in UNION {CategoryOf[e] : e \in Gatherings}
                              |-> Y!getCategoryAnalytics(c, E, r)])
              >= Y!Cardinality(Y!RowsOf({e \in E : CategoryOf[e] # {}}, r))
<1> DEFINE lists == {CategoryOf[e] : e \in Gatherings}
           I == UNION lists
           Of(c) == Y!RowsOf({e \in E : c \in CategoryOf[e]}, r)
           P == [c \in I |-> Of(c)]
           f == [c \in I |-> Y!getCategoryAnalytics(c, E, r)]
           all == Y!RowsOf({e \in E : CategoryOf[e] # {}}, r)
<1>1. IsFiniteSet(I)
  <2>1. \A l : l \in lists <=> \E e \in Gatherings : l = CategoryOf[e]
    OBVIOUS
  <2>2. \A l \in lists : IsFiniteSet(l)
    BY TablesAreFinite
  <2> HIDE DEF lists
  <2>3. IsFiniteSet(lists)
    BY <2>1, TablesAreFinite, ImageIsFinite
  <2>4. QED
    BY <2>2, <2>3, FS_UNION
<1>2. IsFiniteSet(DOMAIN v2)
  BY RowsAreFinite
<1>3. P \in [I -> SUBSET DOMAIN v2]
  <2>1. \A c : Of(c) \in SUBSET DOMAIN v2
    BY DEF Y!RowsOf
  <2> HIDE DEF Of, I
  <2>2. QED
    BY <2>1
<1>4. f = [c \in I |-> Cardinality(P[c])]
  <2>1. \A c \in I : f[c] = Y!Cardinality(Of(c))
    <3> HIDE DEF I
    <3> QED
      BY DEF Y!getCategoryAnalytics
  <2>2. f = [c \in I |-> f[c]]
    <3> HIDE DEF I
    <3> QED
      OBVIOUS
  <2>3. \A c \in I : P[c] = Of(c)
    OBVIOUS
  <2> HIDE DEF f, I, P, Of
  <2>4. QED
    BY <2>1, <2>2, <2>3, SameCardinality
<1>5. \A i : i \in all <=> \E c \in I : i \in P[c]
  <2>1. \A i : i \in all <=> /\ i \in DOMAIN v2 /\ Y!In(v2[i].at, r)
                             /\ v2[i].event \in E /\ CategoryOf[v2[i].event] # {}
    BY DEF Y!RowsOf
  <2>2. \A c \in I : \A i : i \in P[c] <=> /\ i \in DOMAIN v2 /\ Y!In(v2[i].at, r)
                                           /\ v2[i].event \in E /\ c \in CategoryOf[v2[i].event]
    <3> HIDE DEF I
    <3> QED
      BY DEF Y!RowsOf
  <2>3. \A e \in E : CategoryOf[e] \subseteq I
    OBVIOUS
  <2> HIDE DEF all, I, P
  <2>4. QED
    BY <2>1, <2>2, <2>3
<1> HIDE DEF I, P, f, all
<1>6. Y!SumFunction(f) >= Cardinality(all)
  BY <1>1, <1>2, <1>3, <1>4, <1>5, SumOfSizes
<1>7. Y!SumFunction(f) >= Y!Cardinality(all)
  BY <1>6, SameCardinality
<1>8. QED
  BY <1>7 DEF I, f, all

\* The registrations for the events that users other than administrators created.
LEMMA TopOrganizersAddUp ==
    ASSUME RowsInv
    PROVE  Y!SumFunction([u \in Members \ Admins |-> Y!getTopOrganizer[u].totalRegistrations])
              = Y!Cardinality({i \in DOMAIN v2 : Creator[v2[i].event] \notin Admins})
<1> DEFINE I == Members \ Admins
           f == [u \in I |-> Y!getTopOrganizer[u].totalRegistrations]
           rows == {i \in DOMAIN v2 : Creator[v2[i].event] \notin Admins}
           keyOf == [i \in rows |-> Creator[v2[i].event]]
<1>1. keyOf \in [rows -> I]
  BY RowIsRegistration, TablesAreFinite
<1>2. f = [u \in I |-> Y!Cardinality({i \in rows : keyOf[i] = u})]
  <2>1. \A u \in I : f[u] = Y!Cardinality({i \in DOMAIN v2 : v2[i].event \in Y!CreatedBy(u)})
    BY DEF Y!getTopOrganizer
  <2>2. \A u \in I : {i \in DOMAIN v2 : v2[i].event \in Y!CreatedBy(u)}
                        = {i \in rows : keyOf[i] = u}
    BY RowIsRegistration DEF Y!CreatedBy
  <2>3. f = [u \in I |-> f[u]]
    OBVIOUS
  <2> HIDE DEF f, keyOf, rows, I
  <2>4. QED
    BY <2>1, <2>2, <2>3
<1>3. rows \in SUBSET DOMAIN v2
  OBVIOUS
<1>4. IsFiniteSet(I)
  BY TablesAreFinite, FS_Subset
<1>5. Y!SumFunction(f) = Y!Cardinality(rows)
  <2> HIDE DEF f, keyOf, rows, I
  <2> QED
    BY <1>1, <1>2, <1>3, <1>4, RowsByKey
<1>6. QED
  BY <1>5

\* The overviews of the organizers count every registration of the administrators'.
LEMMA OverviewsAddUp ==
    ASSUME RowsInv
    PROVE  Y!SumFunction([u \in Members |-> Y!getOrganizerOverview(u).totalRegistrations])
              >= Y!getAdminOverview.totalRegistrations
<1> DEFINE f == [u \in Members |-> Y!getOrganizerOverview(u).totalRegistrations]
           rows == DOMAIN v2
           P == [u \in Members |-> {i \in rows : v2[i].event \in Y!EventsOf(u)}]
<1>1. IsFiniteSet(rows) /\ IsFiniteSet(Members)
  BY RowsAreFinite, TablesAreFinite
<1>2. P \in [Members -> SUBSET rows]
  OBVIOUS
<1>3. f = [u \in Members |-> Cardinality(P[u])]
  <2>1. \A u \in Members : f[u] = Y!Cardinality(P[u])
    BY DEF Y!getOrganizerOverview
  <2>2. f = [u \in Members |-> f[u]]
    OBVIOUS
  <2> HIDE DEF f, P, rows
  <2>3. QED
    BY <2>1, <2>2, SameCardinality
<1>4. \A i : i \in rows <=> \E u \in Members : i \in P[u]
  <2>1. \A i \in rows : Creator[v2[i].event] \in Members
                        /\ v2[i].event \in Y!EventsOf(Creator[v2[i].event])
    BY RowIsRegistration, TablesAreFinite DEF Y!EventsOf, Y!CreatedBy
  <2>2. \A i \in rows : \A u \in Members : v2[i].event \in Y!EventsOf(u) => i \in P[u]
    OBVIOUS
  <2> HIDE DEF P, rows
  <2>3. QED
    BY <1>2, <2>1, <2>2
<1>5. Y!SumFunction(f) >= Cardinality(rows)
  <2> HIDE DEF f, P, rows
  <2> QED
    BY <1>1, <1>2, <1>3, <1>4, SumOfSizes
<1>6. Cardinality(rows) = Len(v2)
  <2> HIDE DEF f, P
  <2>1. Len(v2) \in Nat /\ rows = 1 .. Len(v2)
    BY DEF RowsInv
  <2> HIDE DEF rows
  <2>2. Cardinality(1 .. Len(v2)) = IF 1 > Len(v2) THEN 0 ELSE Len(v2) - 1 + 1
    BY <2>1, FS_Interval
  <2>3. QED
    BY <2>1, <2>2
<1>7. QED
  BY <1>5, <1>6 DEF Y!getAdminOverview

\* Of finitely many entries one has the greatest rate.
LEMMA MostExists ==
    ASSUME NEW S, IsFiniteSet(S), S # {}, \A x \in S : x.rate \in Int
    PROVE  \E z \in S : \A y \in S : z.rate >= y.rate
<1> DEFINE Most(s) == \E z \in s : \A y \in s : z.rate >= y.rate
           X == {s \in SUBSET S : s # {} => Most(s)}
<1>1. ASSUME NEW s \in SUBSET S, \A t \in SUBSET s : t # s => t \in X, s # {} PROVE Most(s)
  <2> DEFINE p == Picked(s)
             t == s \ {p}
  <2>1. p \in s /\ p.rate \in Int
    BY <1>1, PickedIsIn
  <2>2. t # {} => Most(t)
    <3>1. t \in SUBSET s /\ t # s
      BY <2>1
    <3> HIDE DEF t, Most
    <3>2. t \in X
      BY <1>1, <3>1
    <3>3. QED
      BY <3>2
  <2> HIDE DEF p
  <2>3. CASE t = {}
    BY <2>1, <2>3
  <2>4. CASE t # {}
    <3>1. PICK z \in t : \A y \in t : z.rate >= y.rate
      BY <2>2, <2>4
    <3>2. CASE z.rate >= p.rate
      BY <2>1, <3>1, <3>2
    <3>3. CASE p.rate > z.rate
      <4>1. \A y \in t : p.rate >= y.rate
        BY <2>1, <3>1, <3>3
      <4>2. QED
        BY <2>1, <4>1
    <3>4. QED
      BY <2>1, <3>2, <3>3
  <2>5. QED
    BY <2>3, <2>4
<1>2. S \in X
  <2>1. \A s \in SUBSET S : (\A t \in SUBSET s : t # s => t \in X) => s \in X
    <3> HIDE DEF Most
    <3> QED
      BY <1>1
  <2> HIDE DEF X
  <2>2. QED
    BY <2>1, SubsetsAreInductive
<1>3. QED
  BY <1>2

\* As many as there are, or fewer, can be taken so that none left has a greater rate.
LEMMA TopExists ==
    ASSUME NEW S, IsFiniteSet(S), \A x \in S : x.rate \in Int,
           NEW m \in Nat, m <= Cardinality(S)
    PROVE  \E T \in SUBSET S : /\ Cardinality(T) = m
                               /\ \A x \in T, y \in S \ T : x.rate >= y.rate
<1> DEFINE Top(T, n) == Cardinality(T) = n /\ \A x \in T, y \in S \ T : x.rate >= y.rate
           X == {n \in Nat : n <= Cardinality(S) => \E T \in SUBSET S : Top(T, n)}
<1>1. 0 \in X
  <2>1. Top({}, 0)
    BY FS_EmptySet
  <2>2. QED
    BY <2>1
<1>2. ASSUME NEW n \in Nat, n \in X PROVE n + 1 \in X
  <2>1. SUFFICES ASSUME n + 1 <= Cardinality(S) PROVE \E T \in SUBSET S : Top(T, n + 1)
    OBVIOUS
  <2>2. Cardinality(S) \in Nat
    BY FS_CardinalityType
  <2>3. PICK T \in SUBSET S : Top(T, n)
    BY <1>2, <2>1, <2>2
  <2>4. IsFiniteSet(T) /\ IsFiniteSet(S \ T) /\ S \ T # {}
    <3>1. T # S
      BY <2>1, <2>2, <2>3
    <3>2. QED
      BY <3>1, FS_Subset
  <2>5. PICK z \in S \ T : \A y \in S \ T : z.rate >= y.rate
    BY <2>4, MostExists
  <2>6. Cardinality(T \cup {z}) = n + 1
    BY <2>3, <2>4, FS_AddElement
  <2>7. \A x \in T \cup {z}, y \in S \ (T \cup {z}) : x.rate >= y.rate
    BY <2>3, <2>5
  <2>8. QED
    BY <2>6, <2>7
<1>3. m \in X
  <2>1. Nat \subseteq X
    <3> HIDE DEF X
    <3> QED
      BY <1>1, <1>2, SetIsInductive
  <2>2. QED
    BY <2>1
<1>4. QED
  BY <1>3

\* The top list holds ten of the events, or all of them.
LEMMA TopList ==
    ASSUME RowsInv, NEW r, NEW E, IsFiniteSet(E)
    PROVE  LET tops == {Y!TopEvent(e, r) : e \in E}
           IN  /\ IsFiniteSet(tops)
               /\ Y!getTopEvents(E, r) \in SUBSET tops
               /\ Cardinality(E) <= 10 => Y!getTopEvents(E, r) = tops
<1> DEFINE tops == {Y!TopEvent(e, r) : e \in E}
           n == IF Y!Cardinality(tops) < 10 THEN Y!Cardinality(tops) ELSE 10
           Kept(T) == /\ Y!Cardinality(T) = n
                      /\ \A x \in T, y \in tops \ T : x.rate >= y.rate
<1>1. IsFiniteSet(tops) /\ Cardinality(tops) <= Cardinality(E)
  <2> DEFINE g == [e \in E |-> Y!TopEvent(e, r)]
  <2>1. \A y : y \in tops <=> \E e \in E : y = g[e]
    OBVIOUS
  <2> HIDE DEF g, tops
  <2>2. QED
    BY <2>1, ImageIsFinite
<1>2. Cardinality(tops) \in Nat /\ Cardinality(E) \in Nat
  BY <1>1, FS_CardinalityType
<1>3. \A x \in tops : x.rate \in Int
  <2>1. ASSUME NEW e \in E PROVE Y!TopEvent(e, r).rate \in Int
    <3> DEFINE arrived == Y!Arrived({e}, r)
               confirmed == Y!WithStatus(Y!RowsOf({e}, r), "CONFIRMED")
    <3>1. Y!TopEvent(e, r).rate = Y!Rate(Y!Cardinality(arrived), Y!Cardinality(confirmed))
      BY DEF Y!TopEvent
    <3>2. arrived \subseteq DOMAIN v3 /\ confirmed \subseteq DOMAIN v2
      BY DEF Y!Arrived, Y!WithStatus, Y!RowsOf
    <3> HIDE DEF arrived, confirmed
    <3>3. IsFiniteSet(arrived)
      BY <3>2, FS_Subset DEF RowsInv
    <3>4. Y!Cardinality(arrived) \in Nat /\ Y!Cardinality(confirmed) \in Nat
      BY <3>2, <3>3, FS_CardinalityType, RowsAreFinite, SameCardinality
    <3>5. QED
      BY <3>1, <3>4 DEF Y!Rate
  <2>2. QED
    BY <2>1
<1>4. n = (IF Cardinality(tops) < 10 THEN Cardinality(tops) ELSE 10)
  <2> HIDE DEF tops
  <2> QED
    BY SameCardinality
<1>5. \E T \in SUBSET tops : Kept(T)
  <2>1. n \in Nat /\ n <= Cardinality(tops)
    <3> HIDE DEF tops, n
    <3> QED
      BY <1>2, <1>4
  <2> HIDE DEF tops, n
  <2>2. PICK T \in SUBSET tops : /\ Cardinality(T) = n
                                 /\ \A x \in T, y \in tops \ T : x.rate >= y.rate
    BY <1>1, <1>3, <2>1, TopExists
  <2>3. QED
    BY <2>2, SameCardinality
<1>6. Y!getTopEvents(E, r) = CHOOSE T \in SUBSET tops : Kept(T)
  BY DEF Y!getTopEvents
<1>7. Y!getTopEvents(E, r) \in SUBSET tops /\ Y!Cardinality(Y!getTopEvents(E, r)) = n
  <2> HIDE DEF tops, n
  <2> QED
    BY Zenon, <1>5, <1>6
<1>8. ASSUME Cardinality(E) <= 10 PROVE Y!getTopEvents(E, r) = tops
  <2> HIDE DEF tops, n
  <2>1. Cardinality(Y!getTopEvents(E, r)) = Cardinality(tops)
    <3>1. n = Cardinality(tops)
      BY <1>1, <1>2, <1>4, <1>8
    <3>2. QED
      BY <1>7, <3>1, SameCardinality
  <2>2. QED
    BY <1>1, <1>7, <2>1, FS_Subset
<1>9. QED
  BY <1>1, <1>7, <1>8

\* The events of the top list count no row twice, and all rows when they are all listed.
LEMMA TopAddsUp ==
    ASSUME RowsInv, NEW r, NEW E \in SUBSET Gatherings
    PROVE  LET top == Y!SumFunction([x \in Y!getTopEvents(E, r) |-> x.registrations])
           IN  /\ top <= Y!Cardinality(Y!RowsOf(E, r))
               /\ Y!Cardinality(E) <= 10 => top = Y!Cardinality(Y!RowsOf(E, r))
<1> DEFINE tops == {Y!TopEvent(e, r) : e \in E}
           I == Y!getTopEvents(E, r)
           f == [x \in I |-> x.registrations]
           all == Y!RowsOf(E, r)
           rows == {i \in all : Y!TopEvent(v2[i].event, r) \in I}
           keyOf == [i \in rows |-> Y!TopEvent(v2[i].event, r)]
<1>1. IsFiniteSet(E)
  BY TablesAreFinite, FS_Subset
<1>2. IsFiniteSet(I) /\ I \in SUBSET tops /\ (Cardinality(E) <= 10 => I = tops)
  <2>1. IsFiniteSet(tops) /\ I \in SUBSET tops /\ (Cardinality(E) <= 10 => I = tops)
    BY <1>1, TopList
  <2> HIDE DEF tops, I
  <2>2. QED
    BY <2>1, FS_Subset
<1>3. all \in SUBSET DOMAIN v2 /\ rows \in SUBSET all /\ rows \in SUBSET DOMAIN v2
  BY DEF Y!RowsOf
<1>4. keyOf \in [rows -> I]
  OBVIOUS
<1>5. f = [x \in I |-> Y!Cardinality({i \in rows : keyOf[i] = x})]
  <2>1. ASSUME NEW x \in I
        PROVE  f[x] = Y!Cardinality({i \in rows : keyOf[i] = x})
    <3>1. x \in tops
      BY <1>2
    <3>2. PICK e \in E : x = Y!TopEvent(e, r)
      BY <3>1
    <3>3. x.registrations = Y!Cardinality(Y!RowsOf({e}, r)) /\ x.event = e
      BY <3>2 DEF Y!TopEvent
    <3>4. \A d : Y!TopEvent(d, r).event = d
      BY DEF Y!TopEvent
    <3>5. Y!RowsOf({e}, r) = {i \in all : v2[i].event = e}
      BY <3>2 DEF Y!RowsOf
    <3>6. \A i \in all : v2[i].event = e <=> Y!TopEvent(v2[i].event, r) = x
      <4> HIDE DEF all
      <4> QED
        BY <3>2, <3>4
    <3> HIDE DEF all, I
    <3>7. {i \in all : v2[i].event = e} = {i \in rows : keyOf[i] = x}
      BY <3>6
    <3> HIDE DEF rows, keyOf
    <3>8. QED
      BY <3>3, <3>5, <3>7
  <2>2. f = [x \in I |-> f[x]]
    <3> HIDE DEF I
    <3> QED
      OBVIOUS
  <2> HIDE DEF f, I, rows, keyOf
  <2>3. QED
    BY <2>1, <2>2
<1>6. Cardinality(E) <= 10 => rows = all
  <2>1. \A i \in all : Y!TopEvent(v2[i].event, r) \in tops
    BY DEF Y!RowsOf
  <2> HIDE DEF I, tops, all
  <2>2. QED
    BY <1>2, <2>1
<1> HIDE DEF I, f, all, rows, keyOf
<1>7. Y!SumFunction(f) = Y!Cardinality(rows)
  BY <1>2, <1>3, <1>4, <1>5, RowsByKey
<1>8. Cardinality(rows) <= Cardinality(all)
  BY <1>3, RowsAreFinite, FS_Subset
<1>9. /\ Y!SumFunction(f) <= Y!Cardinality(all)
      /\ Y!Cardinality(E) <= 10 => Y!SumFunction(f) = Y!Cardinality(all)
  BY <1>6, <1>7, <1>8, SameCardinality
<1>10. QED
  BY <1>9 DEF f, I, all

LEMMA TotalsAgreeInRange ==
    ASSUME RowsInv, NEW r \in Y!resolveTimeRange(v1)
    PROVE  Y!TotalsAgree(r)
<1>1. r.start \in Int /\ r.end \in Int
  BY RangeIsWhole
<1>2. ASSUME NEW e PROVE Y!SumFunction(Y!getEventTrends(e, r))
                           = Y!EventFigures(e, r).totalRegistrations
  <2>1. Y!EventFigures(e, r).totalRegistrations = Y!Cardinality(Y!RowsOf({e}, r))
    BY DEF Y!EventFigures
  <2>2. QED
    BY <1>1, <2>1, SeriesAddsUp DEF Y!getEventTrends
<1>3. ASSUME NEW E \in Y!Scopes PROVE E \in SUBSET Gatherings
  BY DEF Y!Scopes, Y!EventsOf, Y!CreatedBy
<1>4. ASSUME NEW E PROVE Y!SumFunction(Y!getAdminTrends(E, r)) = Y!Cardinality(Y!RowsOf(E, r))
  BY <1>1, SeriesAddsUp DEF Y!getAdminTrends
<1>5. QED
  BY <1>2, <1>3, <1>4, TopAddsUp, DepartmentsAddUp, CategoriesAddUp, TopOrganizersAddUp,
     OverviewsAddUp
  DEF Y!TotalsAgree

\* The figures that the reports of analytics.service.ts give for a range never
\* contradict each other: an event has no more confirmed and cancelled registrations
\* than registrations, and no more than its archive; every active user is in one
\* bucket of engagement; nobody is listed with more than the own overview counts; the
\* series, the events of the top list, the departments and the top organizers add up to
\* the rows they are of, and the categories and the overviews to no less.
THEOREM ReportsCorrect ==
    Spec => [](part = "analytics" =>
                \A r \in Y!resolveTimeRange(v1) : Y!CountsAgree(r) /\ Y!TotalsAgree(r))
<1> DEFINE Inv == part = "analytics" => RowsInv /\ FiguresInv
           Agree == part = "analytics" =>
                      \A r \in Y!resolveTimeRange(v1) : Y!CountsAgree(r) /\ Y!TotalsAgree(r)
<1>1. Inv => Agree
  BY CountsAgreeInRange, TotalsAgreeInRange
<1>2. Spec => []Inv
  BY AnalyticsRun
<1>3. QED
  <2> HIDE DEF Inv, Agree
  <2>1. Spec => []Agree
    BY <1>1, <1>2, PTL
  <2>2. QED
    BY <2>1 DEF Agree

\* Both: what analytics.service.ts keeps in Redis is current, and what it computes agrees.
THEOREM FiguresCorrect == Spec => []FiguresAreCurrent
<1> DEFINE Cache == part = "analytics" => Y!FiguresAreCurrent
           Agree == part = "analytics" =>
                      \A r \in Y!resolveTimeRange(v1) : Y!CountsAgree(r) /\ Y!TotalsAgree(r)
<1>1. Spec => []Cache
  BY CacheCorrect
<1>2. Spec => []Agree
  BY ReportsCorrect
<1>3. Cache /\ Agree => FiguresAreCurrent
  BY DEF FiguresAreCurrent, Y!ReportsAgree
<1>4. QED
  <2> HIDE DEF Cache, Agree
  <2> QED
    BY <1>1, <1>2, <1>3, PTL

-----------------------------------------------------------------------------
(* Catalogue (module Catalogue).                                           *)

\* What the services check to exist once, and what failed methods may have done.
Single == {"tag", "type", "hackathon", "assignment", "default", "link"}
Listed == ({"createEvent"} \X {"event", "booking", "eventTag", "eventCategory"}) \cup
          {<<"createSession", "newSession">>, <<"updateSession", "assignment">>,
           <<"removeSpeaker", "assignment">>, <<"removeSpeaker", "newAssignment">>,
           <<"updateTemplate", "question">>, <<"attachTemplateToEvent", "link">>}

\* What a request may list twice.
Repeatable == {"assignment", "newAssignment"}

Statement == [needs : SUBSET K!Rows, lacks : SUBSET K!Rows, take : SUBSET K!Rows,
              clear : SUBSET K!Rows, add : SUBSET K!Rows, each : SUBSET K!Rows]

\* What goes with the rows a statement deletes.
Undone(s) == s.take \cup s.clear \cup {x \in K!Rows : K!Cascades(x) \cap (s.take \cup s.clear) # {}}

\* A method looks for a row, or deletes it, before it adds one.
Careful(todo, r) == \A i \in 1 .. Len(todo) :
    r \in todo[i].add => \E j \in 1 .. (i - 1) : r \in todo[j].lacks \cup todo[j].clear

\* It adds a row once,
AddsOnce(todo, r) == \A i, j \in 1 .. Len(todo) :
    r \in todo[i].add /\ r \in todo[j].add => i = j

\* deletes what it has found,
TakesWhatIsThere(todo) == \A i \in 1 .. Len(todo) : todo[i].take \subseteq todo[i].needs

\* adds twice only what it may,
AddsTwice(todo) == \A i \in 1 .. Len(todo) : todo[i].each \subseteq todo[i].add \cap Repeatable

\* and does all but what is listed with its last statement.
HalvesListed(op, todo) == \A i \in 1 .. (Len(todo) - 1) :
    {op} \X (todo[i].add \cup Undone(todo[i])) \subseteq Listed

\* What holds of a request as long as it has statements to do.
Sound(op, todo) ==
    /\ todo \in Seq(Statement) /\ todo # << >>
    /\ \A r \in Single : AddsOnce(todo, r)
    /\ TakesWhatIsThere(todo)
    /\ AddsTwice(todo)
    /\ HalvesListed(op, todo)

\* And of a method.
SoundMethod(op, todo) == Sound(op, todo) /\ \A r \in Single : Careful(todo, r)

LEMMA Deletes ==
    ASSUME NEW S
    PROVE  K!Delete(S) = [needs |-> S, lacks |-> {}, take |-> S, clear |-> {}, add |-> {},
                          each |-> {}]
<1>1. K!Find(S) = [needs |-> S, lacks |-> {}, take |-> {}, clear |-> {}, add |-> {},
                   each |-> {}]
  BY DEF K!Find, K!Nothing
<1>2. QED
  BY <1>1 DEF K!Delete

LEMMA CreatesEach ==
    ASSUME NEW S
    PROVE  K!CreateEach(S) = [needs |-> {}, lacks |-> {}, take |-> {}, clear |-> {}, add |-> S,
                              each |-> S]
<1>1. K!Create(S) = [needs |-> {}, lacks |-> {}, take |-> {}, clear |-> {}, add |-> S,
                    each |-> {}]
  BY DEF K!Create, K!Nothing
<1>2. QED
  BY <1>1 DEF K!CreateEach

\* The statements that are not just one of these.
LEMMA Statements ==
    /\ [K!Delete({"spareTag"}) EXCEPT !.add = {"tag"}]
         = [needs |-> {"spareTag"}, lacks |-> {}, take |-> {"spareTag"}, clear |-> {},
            add |-> {"tag"}, each |-> {}]
    /\ [K!Delete({"session"}) EXCEPT !.clear = {"assignment", "attendance"}]
         = [needs |-> {"session"}, lacks |-> {}, take |-> {"session"},
            clear |-> {"assignment", "attendance"}, add |-> {}, each |-> {}]
    /\ [K!Create({"question"}) EXCEPT !.needs = {"template"}]
         = [needs |-> {"template"}, lacks |-> {}, take |-> {}, clear |-> {},
            add |-> {"question"}, each |-> {}]
<1>1. K!Delete({"spareTag"})
        = [needs |-> {"spareTag"}, lacks |-> {}, take |-> {"spareTag"}, clear |-> {}, add |-> {},
           each |-> {}]
  BY Deletes
<1>2. K!Delete({"session"})
        = [needs |-> {"session"}, lacks |-> {}, take |-> {"session"}, clear |-> {}, add |-> {},
           each |-> {}]
  BY Deletes
<1>3. K!Create({"question"})
        = [needs |-> {}, lacks |-> {}, take |-> {}, clear |-> {}, add |-> {"question"},
           each |-> {}]
  BY DEF K!Create, K!Nothing
<1>4. [K!Delete({"spareTag"}) EXCEPT !.add = {"tag"}]
        = [needs |-> {"spareTag"}, lacks |-> {}, take |-> {"spareTag"}, clear |-> {},
           add |-> {"tag"}, each |-> {}]
  BY <1>1
<1>5. [K!Delete({"session"}) EXCEPT !.clear = {"assignment", "attendance"}]
        = [needs |-> {"session"}, lacks |-> {}, take |-> {"session"},
           clear |-> {"assignment", "attendance"}, add |-> {}, each |-> {}]
  BY <1>2
<1>6. [K!Create({"question"}) EXCEPT !.needs = {"template"}]
        = [needs |-> {"template"}, lacks |-> {}, take |-> {}, clear |-> {},
           add |-> {"question"}, each |-> {}]
  BY <1>3
<1>7. QED
  BY <1>4, <1>5, <1>6

\* Every method is sound.
LEMMA SoundMethods == \A M \in K!Services : \A op \in DOMAIN M : SoundMethod(op, M[op])
<1> USE Deletes
    DEF SoundMethod, Sound, Single, Listed, Statement, Undone, Careful, AddsOnce,
        TakesWhatIsThere, AddsTwice, Repeatable, HalvesListed, K!Rows, K!Naming, K!Agenda,
        K!Forms, K!Cascades, K!Find, K!FindNo, K!Create, K!DeleteMany, K!Nothing
<1>1. SoundMethod("createTag", K!createTag)
  BY DEF K!createTag
<1>2. SoundMethod("updateTag", K!updateTag)
  <2>0. K!updateTag =
      <<K!Find({"spareTag"}), K!FindNo({"tag"}),
         [needs |-> {"spareTag"}, lacks |-> {}, take |-> {"spareTag"}, clear |-> {},
          add |-> {"tag"}, each |-> {}]>>
    BY Statements DEF K!updateTag
  <2>1. K!updateTag \in Seq(Statement) /\ K!updateTag # <<>>
    BY <2>0
  <2>2. \A r \in Single : AddsOnce(K!updateTag, r) /\ Careful(K!updateTag, r)
    BY <2>0
  <2>3. TakesWhatIsThere(K!updateTag) /\ AddsTwice(K!updateTag)
    BY <2>0
  <2>4. HalvesListed("updateTag", K!updateTag)
    BY <2>0
  <2>5. QED
    <3> HIDE DEF AddsOnce, Careful, HalvesListed, TakesWhatIsThere, AddsTwice, Statement
    <3> QED BY <2>1, <2>2, <2>3, <2>4
<1>3. SoundMethod("removeTag", K!removeTag)
  BY DEF K!removeTag
<1>4. SoundMethod("createType", K!createType)
  BY DEF K!createType
<1>5. SoundMethod("removeType", K!removeType)
  BY DEF K!removeType
<1>6. SoundMethod("removeVenue", K!removeVenue)
  BY DEF K!removeVenue
<1>7. SoundMethod("createCategory", K!createCategory)
  BY DEF K!createCategory
<1>8. SoundMethod("removeCategory", K!removeCategory)
  BY DEF K!removeCategory
<1>9. SoundMethod("createDepartment", K!createDepartment)
  BY DEF K!createDepartment
<1>10. SoundMethod("removeDepartment", K!removeDepartment)
  BY DEF K!removeDepartment
<1>11. SoundMethod("createHackathon", K!createHackathon)
  BY DEF K!createHackathon
<1>12. SoundMethod("removeHackathon", K!removeHackathon)
  BY DEF K!removeHackathon
<1>13. SoundMethod("bookmarkEvent", K!bookmarkEvent)
  BY DEF K!bookmarkEvent
<1>14. SoundMethod("unbookmarkEvent", K!unbookmarkEvent)
  BY DEF K!unbookmarkEvent
<1>15. SoundMethod("createEvent", K!createEvent)
  <2> USE DEF K!createEvent
  <2>1. K!createEvent \in Seq(Statement) /\ K!createEvent # <<>>
    OBVIOUS
  <2>2. \A r \in Single : AddsOnce(K!createEvent, r) /\ Careful(K!createEvent, r)
    OBVIOUS
  <2>3. TakesWhatIsThere(K!createEvent) /\ AddsTwice(K!createEvent)
    OBVIOUS
  <2>4. HalvesListed("createEvent", K!createEvent)
    OBVIOUS
  <2>5. QED
    <3> HIDE DEF AddsOnce, Careful, HalvesListed, TakesWhatIsThere, AddsTwice, K!createEvent, Statement
    <3> QED BY <2>1, <2>2, <2>3, <2>4
<1>16. SoundMethod("createSession", K!createSession)
  <2>0. K!createSession =
      <<K!Create({"newSession"}), K!Find({"speaker"}),
        [needs |-> {}, lacks |-> {}, take |-> {}, clear |-> {}, add |-> {"newAssignment"},
         each |-> {"newAssignment"}]>>
    BY CreatesEach DEF K!createSession
  <2>1. K!createSession \in Seq(Statement) /\ K!createSession # <<>>
    BY <2>0
  <2>2. \A r \in Single : AddsOnce(K!createSession, r) /\ Careful(K!createSession, r)
    BY <2>0
  <2>3. TakesWhatIsThere(K!createSession) /\ AddsTwice(K!createSession)
    BY <2>0
  <2>4. HalvesListed("createSession", K!createSession)
    BY <2>0
  <2>5. QED
    <3> HIDE DEF AddsOnce, Careful, HalvesListed, TakesWhatIsThere, AddsTwice, K!createSession, Statement
    <3> QED BY <2>1, <2>2, <2>3, <2>4
<1>17. SoundMethod("updateSession", K!updateSession)
  <2>0. K!updateSession =
      <<K!Find({"session"}), K!DeleteMany({"assignment"}), K!Find({"speaker"}),
        [needs |-> {}, lacks |-> {}, take |-> {}, clear |-> {}, add |-> {"assignment"},
         each |-> {"assignment"}], K!Find({"session"})>>
    BY CreatesEach DEF K!updateSession
  <2>1. K!updateSession \in Seq(Statement) /\ K!updateSession # <<>>
    BY <2>0
  <2>2. \A r \in Single : AddsOnce(K!updateSession, r) /\ Careful(K!updateSession, r)
    BY <2>0
  <2>3. TakesWhatIsThere(K!updateSession) /\ AddsTwice(K!updateSession)
    BY <2>0
  <2>4. HalvesListed("updateSession", K!updateSession)
    BY <2>0
  <2>5. QED
    <3> HIDE DEF AddsOnce, Careful, HalvesListed, TakesWhatIsThere, AddsTwice, K!updateSession, Statement
    <3> QED BY <2>1, <2>2, <2>3, <2>4
<1>18. SoundMethod("removeSession", K!removeSession)
  <2>0. K!removeSession =
      <<K!Find({"session"}),
         [needs |-> {"session"}, lacks |-> {}, take |-> {"session"},
          clear |-> {"assignment", "attendance"}, add |-> {}, each |-> {}]>>
    BY Statements DEF K!removeSession
  <2>1. K!removeSession \in Seq(Statement) /\ K!removeSession # <<>>
    BY <2>0
  <2>2. \A r \in Single : AddsOnce(K!removeSession, r) /\ Careful(K!removeSession, r)
    BY <2>0
  <2>3. TakesWhatIsThere(K!removeSession) /\ AddsTwice(K!removeSession)
    BY <2>0
  <2>4. HalvesListed("removeSession", K!removeSession)
    BY <2>0
  <2>5. QED
    <3> HIDE DEF AddsOnce, Careful, HalvesListed, TakesWhatIsThere, AddsTwice, Statement
    <3> QED BY <2>1, <2>2, <2>3, <2>4
<1>19. SoundMethod("addSpeaker", K!addSpeaker)
  BY DEF K!addSpeaker
<1>20. SoundMethod("removeAssignment", K!removeAssignment)
  BY DEF K!removeAssignment
<1>21. SoundMethod("createSpeaker", K!createSpeaker)
  BY DEF K!createSpeaker
<1>22. SoundMethod("removeSpeaker", K!removeSpeaker)
  <2> USE DEF K!removeSpeaker
  <2>1. K!removeSpeaker \in Seq(Statement) /\ K!removeSpeaker # <<>>
    OBVIOUS
  <2>2. \A r \in Single : AddsOnce(K!removeSpeaker, r) /\ Careful(K!removeSpeaker, r)
    OBVIOUS
  <2>3. TakesWhatIsThere(K!removeSpeaker) /\ AddsTwice(K!removeSpeaker)
    OBVIOUS
  <2>4. HalvesListed("removeSpeaker", K!removeSpeaker)
    OBVIOUS
  <2>5. QED
    <3> HIDE DEF AddsOnce, Careful, HalvesListed, TakesWhatIsThere, AddsTwice, K!removeSpeaker, Statement
    <3> QED BY <2>1, <2>2, <2>3, <2>4
<1>23. SoundMethod("checkInToSession", K!checkInToSession)
  BY DEF K!checkInToSession
<1>24. SoundMethod("createField", K!createField)
  BY DEF K!createField
<1>25. SoundMethod("removeField", K!removeField)
  BY DEF K!removeField
<1>26. SoundMethod("getOrCreateDefaultTemplate", K!getOrCreateDefaultTemplate)
  BY DEF K!getOrCreateDefaultTemplate
<1>27. SoundMethod("createTemplate", K!createTemplate)
  BY DEF K!createTemplate
<1>28. SoundMethod("updateTemplate", K!updateTemplate)
  <2>0. K!updateTemplate =
      <<K!Find({"template"}), K!DeleteMany({"question"}),
         [needs |-> {"template"}, lacks |-> {}, take |-> {}, clear |-> {}, add |-> {"question"}, each |-> {}]>>
    BY Statements DEF K!updateTemplate
  <2>1. K!updateTemplate \in Seq(Statement) /\ K!updateTemplate # <<>>
    BY <2>0
  <2>2. \A r \in Single : AddsOnce(K!updateTemplate, r) /\ Careful(K!updateTemplate, r)
    BY <2>0
  <2>3. TakesWhatIsThere(K!updateTemplate) /\ AddsTwice(K!updateTemplate)
    BY <2>0
  <2>4. HalvesListed("updateTemplate", K!updateTemplate)
    BY <2>0
  <2>5. QED
    <3> HIDE DEF AddsOnce, Careful, HalvesListed, TakesWhatIsThere, AddsTwice, Statement
    <3> QED BY <2>1, <2>2, <2>3, <2>4
<1>29. SoundMethod("deleteTemplate", K!deleteTemplate)
  BY DEF K!deleteTemplate
<1>30. SoundMethod("attachTemplateToEvent", K!attachTemplateToEvent)
  BY DEF K!attachTemplateToEvent
<1>31. SoundMethod("submitFeedback", K!submitFeedback)
  BY DEF K!submitFeedback
<1>32. QED
  <2> HIDE DEF SoundMethod
  <2> QED
    BY <1>1, <1>2, <1>3, <1>4, <1>5, <1>6, <1>7, <1>8, <1>9, <1>10, <1>11, <1>12, <1>13,
       <1>14, <1>15, <1>16, <1>17, <1>18, <1>19, <1>20, <1>21, <1>22, <1>23, <1>24, <1>25,
       <1>26, <1>27, <1>28, <1>29, <1>30, <1>31
    DEF K!Services, K!NameMethods, K!AgendaMethods, K!FormMethods

Request == [op : {None} \cup UNION {DOMAIN M : M \in K!Services}, todo : Seq(Statement),
            lost : SUBSET K!Rows, left : SUBSET K!Rows]

CatalogueType ==
    /\ v1 \in [K!Rows -> Nat]
    /\ v2 \in [Calls -> Request]
    /\ \A q \in Calls : v2[q].op # None => Sound(v2[q].op, v2[q].todo)

\* Questions and links have their template.
CascadesHold == \A x \in K!Rows : v1[x] > 0 => \A p \in K!Cascades(x) : v1[p] > 0

WillAdd(q) == UNION {v2[q].todo[i].add : i \in 1 .. Len(v2[q].todo)}

\* What is to be added comes from the method; who adds the same has been seen to.
MethodsAdd == \A q \in Calls, M \in K!Services :
    v2[q].op # None /\ v2[q].op \in DOMAIN M => WillAdd(q) \subseteq K!Adds(M[v2[q].op])
RacesAreSeen == \A p, q \in Calls :
    v2[p].op # None /\ v2[q].op # None /\ p # q => WillAdd(p) \cap WillAdd(q) \subseteq v5

\* There is one at most, and none once a request has made sure of that.
OneOfEach == \A r \in Single \ (v5 \cup v6) :
    /\ v1[r] <= 1
    /\ \A q \in Calls : v2[q].op # None => Careful(v2[q].todo, r) \/ v1[r] = 0

\* What a request has done by now may be left by it.
HalvesSoFar == \A q \in Calls :
    v2[q].op # None => {v2[q].op} \X (v2[q].lost \cup v2[q].left) \subseteq Listed

CatalogueInv ==
    /\ CatalogueType /\ CascadesHold /\ MethodsAdd /\ RacesAreSeen /\ OneOfEach
    /\ HalvesSoFar /\ v4 \subseteq Listed /\ v6 \subseteq Repeatable

\* The methods of different groups have different names.
LEMMA MethodsApart ==
    ASSUME NEW M \in K!Services, NEW N \in K!Services, NEW op \in DOMAIN M, op \in DOMAIN N
    PROVE  M = N
BY DEF K!Services, K!NameMethods, K!AgendaMethods, K!FormMethods

LEMMA AddsOfMethod ==
    ASSUME NEW todo \in Seq(Statement)
    PROVE  K!Adds(todo) = UNION {todo[i].add : i \in 1 .. Len(todo)}
BY DEF K!Adds, K!Range

LEMMA CatalogueInit == K!Init => CatalogueInv
<1> SUFFICES ASSUME K!Init PROVE CatalogueInv
  OBVIOUS
<1>1. \A q \in Calls : v2[q].op = None /\ v2[q] = K!NoRequest
  BY DEF K!Init, K!NoRequest
<1>2. K!NoRequest \in Request
  BY DEF K!NoRequest, Request
<1>3. PICK group : v1 = [r \in K!Rows |-> IF r \in group THEN 1 ELSE 0]
                   /\ (group \cap {"question", "link"} # {} => "template" \in group)
  BY DEF K!Init, K!Agenda, K!Forms
<1>4. CatalogueType
  BY <1>1, <1>2, <1>3 DEF K!Init, CatalogueType
<1>5. CascadesHold
  BY <1>3 DEF CascadesHold, K!Cascades, K!Rows, K!Forms
<1>6. MethodsAdd /\ RacesAreSeen /\ HalvesSoFar /\ v4 = {} /\ v6 = {}
  BY <1>1 DEF MethodsAdd, RacesAreSeen, HalvesSoFar, K!Init
<1>7. OneOfEach
  BY <1>1, <1>3 DEF OneOfEach, Single, K!Rows, K!Naming, K!Agenda, K!Forms
<1>8. QED
  BY <1>4, <1>5, <1>6, <1>7 DEF CatalogueInv

LEMMA TailOf ==
    ASSUME NEW S, NEW s \in Seq(S), s # << >>, Len(s) # 1
    PROVE  /\ Len(s) \in Nat /\ Len(s) > 1 /\ Head(s) = s[1] /\ s[1] \in S
           /\ Tail(s) \in Seq(S) /\ Len(Tail(s)) = Len(s) - 1 /\ Tail(s) # << >>
           /\ \A i \in 1 .. (Len(s) - 1) : Tail(s)[i] = s[i + 1]
<1>1. Len(s) \in Nat /\ Len(s) # 0
  BY EmptySeq, LenProperties
<1>0. \A n : n \in Nat /\ n # 0 /\ n # 1 => n > 1
  OBVIOUS
<1>2. Len(s) > 1
  BY <1>0, <1>1, Zenon
<1>3. 1 \in 1 .. Len(s)
  BY <1>1
<1>4. s[1] \in S
  BY <1>3, ElementOfSeq
<1>5. Tail(s) \in Seq(S) /\ Len(Tail(s)) = Len(s) - 1
  BY HeadTailProperties
<1>6. \A i \in 1 .. (Len(s) - 1) : Tail(s)[i] = s[i + 1]
  BY <1>5, HeadTailProperties
<1>7. Len(Tail(s)) # 0
  BY <1>1, <1>2, <1>5
<1>8. Len(<< >>) = 0
  OBVIOUS
<1>9. Tail(s) # << >>
  BY <1>7, <1>8
<1>10. Head(s) = s[1]
  OBVIOUS
<1>11. QED
  BY <1>1, <1>2, <1>4, <1>5, <1>6, <1>9, <1>10

\* What is left of a request after its first statement.
LEMMA TailIsSound ==
    ASSUME NEW op, NEW todo, Sound(op, todo), Len(todo) # 1
    PROVE  /\ Sound(op, Tail(todo))
           /\ Head(todo) = todo[1] /\ todo[1] \in Statement
           /\ Len(Tail(todo)) = Len(todo) - 1
           /\ \A i \in 1 .. Len(Tail(todo)) :
                Tail(todo)[i] = todo[i + 1] /\ i + 1 \in 1 .. Len(todo)
           /\ {op} \X (todo[1].add \cup Undone(todo[1])) \subseteq Listed
<1> USE DEF Sound
<1>1. /\ todo \in Seq(Statement) /\ Len(todo) \in Nat /\ Len(todo) > 1
      /\ Head(todo) = todo[1] /\ todo[1] \in Statement
      /\ Tail(todo) \in Seq(Statement) /\ Len(Tail(todo)) = Len(todo) - 1
      /\ Tail(todo) # << >>
      /\ \A i \in 1 .. (Len(todo) - 1) : Tail(todo)[i] = todo[i + 1]
  BY TailOf
<1>2. \A i \in 1 .. Len(Tail(todo)) : Tail(todo)[i] = todo[i + 1] /\ i + 1 \in 1 .. Len(todo)
  BY <1>1
<1>3. \A r \in Single : AddsOnce(Tail(todo), r)
  <2> SUFFICES ASSUME NEW r \in Single, NEW i \in 1 .. Len(Tail(todo)),
                      NEW j \in 1 .. Len(Tail(todo)),
                      r \in Tail(todo)[i].add, r \in Tail(todo)[j].add
               PROVE  i = j
    BY DEF AddsOnce
  <2>1. i + 1 = j + 1
    BY <1>2 DEF AddsOnce
  <2>2. QED
    BY <2>1
<1>4. TakesWhatIsThere(Tail(todo)) /\ AddsTwice(Tail(todo))
  BY <1>1, <1>2 DEF TakesWhatIsThere, AddsTwice
<1>5. HalvesListed(op, Tail(todo))
  <2> SUFFICES ASSUME NEW i \in 1 .. (Len(Tail(todo)) - 1)
               PROVE  {op} \X (Tail(todo)[i].add \cup Undone(Tail(todo)[i])) \subseteq Listed
    BY DEF HalvesListed
  <2>1. i + 1 \in 1 .. (Len(todo) - 1) /\ Tail(todo)[i] = todo[i + 1]
    BY <1>1, <1>2
  <2>2. QED
    BY <2>1 DEF HalvesListed
<1>6. {op} \X (todo[1].add \cup Undone(todo[1])) \subseteq Listed
  BY <1>1 DEF HalvesListed
<1>7. QED
  BY <1>1, <1>2, <1>3, <1>4, <1>5, <1>6

\* What a statement that succeeds does to the rows.
LEMMA AfterStatement ==
    ASSUME v1 \in [K!Rows -> Nat], CascadesHold,
           NEW s \in Statement, s.take \subseteq s.needs, K!Succeeds(s)
    PROVE  /\ K!After(s) \in [K!Rows -> Nat]
           /\ \A x \in K!Rows :
                /\ K!After(s)[x] <= v1[x] + 1
                /\ x \notin s.add => K!After(s)[x] <= v1[x]
                /\ x \in s.clear \ s.add => K!After(s)[x] = 0
                /\ K!After(s)[x] < v1[x] => x \in Undone(s)
                /\ x \in s.lacks => v1[x] = 0
                /\ K!After(s)[x] > 0 => \A p \in K!Cascades(x) : K!After(s)[p] > 0
<1> DEFINE kept == [r \in K!Rows |-> IF r \in s.clear THEN 0
                                     ELSE IF r \in s.take THEN v1[r] - 1 ELSE v1[r]]
           closed == [r \in K!Rows |->
                        IF \E p \in K!Cascades(r) : kept[p] = 0 THEN 0 ELSE kept[r]]
           after == [r \in K!Rows |-> IF r \in s.add THEN closed[r] + 1 ELSE closed[r]]
<1>1. K!After(s) = after
  BY DEF K!After
<1>2. /\ \A r \in K!Rows : r \in s.needs => v1[r] > 0
      /\ \A r \in K!Rows : r \in s.lacks => v1[r] = 0
      /\ \A r \in K!Rows : after[r] > 0 => \A p \in K!Cascades(r) : after[p] > 0
  BY <1>1, Zenon DEF K!Succeeds, Statement
<1>3. \A r \in K!Rows :
        /\ kept[r] \in Nat /\ kept[r] <= v1[r]
        /\ r \in s.clear => kept[r] = 0
        /\ r \notin s.take \cup s.clear => kept[r] = v1[r]
  BY <1>2 DEF Statement
<1>4. \A r \in K!Rows : K!Cascades(r) \subseteq K!Rows
  BY DEF K!Cascades, K!Rows, K!Forms
<1> HIDE DEF kept
<1>5. \A r \in K!Rows :
        /\ closed[r] \in Nat /\ closed[r] <= v1[r]
        /\ r \in s.clear => closed[r] = 0
  BY <1>3
<1>6. \A r \in K!Rows : closed[r] < v1[r] => r \in Undone(s)
  <2> SUFFICES ASSUME NEW r \in K!Rows, closed[r] < v1[r], r \notin s.take \cup s.clear
               PROVE  r \in Undone(s)
    BY DEF Undone
  <2>1. PICK p \in K!Cascades(r) : kept[p] = 0
    BY <1>3
  <2>2. p \in K!Rows /\ v1[p] > 0
    BY <1>3, <1>4 DEF CascadesHold
  <2>3. p \in s.take \cup s.clear
    BY <1>3, <2>1, <2>2
  <2>4. QED
    BY <2>1, <2>3 DEF Undone
<1> HIDE DEF closed
<1>7. after \in [K!Rows -> Nat]
  BY <1>5
<1>8. \A x \in K!Rows :
        /\ after[x] <= v1[x] + 1
        /\ x \notin s.add => after[x] <= v1[x]
        /\ x \in s.clear \ s.add => after[x] = 0
        /\ after[x] < v1[x] => x \in Undone(s)
  BY <1>5, <1>6
<1>9. QED
  BY <1>1, <1>2, <1>7, <1>8

\* What a statement adds is there after it.
LEMMA AddedIsThere ==
    ASSUME v1 \in [K!Rows -> Nat], NEW s \in Statement, s.take \subseteq s.needs, K!Succeeds(s),
           NEW x \in s.add \cap K!Rows
    PROVE  K!After(s)[x] > 0
<1> DEFINE kept == [r \in K!Rows |-> IF r \in s.clear THEN 0
                                     ELSE IF r \in s.take THEN v1[r] - 1 ELSE v1[r]]
           closed == [r \in K!Rows |->
                        IF \E p \in K!Cascades(r) : kept[p] = 0 THEN 0 ELSE kept[r]]
<1>1. K!After(s)[x] = closed[x] + 1
  BY DEF K!After
<1>2. \A r \in s.needs : v1[r] > 0
  BY Zenon DEF K!Succeeds
<1>3. kept[x] \in Nat
  BY <1>2
<1>4. QED
  BY <1>1, <1>3

LEMMA NothingAsked ==
    K!NoRequest \in Request /\ K!NoRequest.op = None
    /\ K!NoRequest.lost = {} /\ K!NoRequest.left = {}
BY DEF Request, K!NoRequest

LEMMA CatalogueBegin ==
    ASSUME CatalogueInv, NEW q \in Calls, NEW M \in K!Services, NEW op \in DOMAIN M,
           K!Begin(q, M, op)
    PROVE  CatalogueInv'
<1> USE DEF CatalogueInv, CatalogueType
<1>1. /\ v1' = v1 /\ v4' = v4 /\ v6' = v6
      /\ v2' = [v2 EXCEPT ![q] = [K!NoRequest EXCEPT !.op = op, !.todo = M[op]]]
      /\ {v2[p].op : p \in Calls} \ {None} \subseteq DOMAIN M
      /\ v5' = v5 \cup UNION {K!Adds(M[op]) \cap K!Adds(M[o]) :
                                o \in {v2[p].op : p \in Calls} \ {None}}
  BY Zenon DEF K!Begin
<1>2. SoundMethod(op, M[op]) /\ M[op] \in Seq(Statement)
  BY SoundMethods DEF SoundMethod, Sound
<1>3. v2'[q] = [K!NoRequest EXCEPT !.op = op, !.todo = M[op]]
      /\ \A p \in Calls \ {q} : v2'[p] = v2[p]
  BY <1>1
<1>4. /\ v2'[q] \in Request /\ v2'[q].op = op /\ v2'[q].todo = M[op]
      /\ v2'[q].lost = {} /\ v2'[q].left = {}
      /\ \A p \in Calls \ {q} : v2'[p] = v2[p]
  <2>1. op \in {None} \cup UNION {DOMAIN N : N \in K!Services}
    OBVIOUS
  <2> HIDE DEF CatalogueInv, CatalogueType
  <2>2. QED
    BY <1>2, <1>3, <2>1, NothingAsked DEF Request
<1>5. CatalogueType'
  BY <1>1, <1>2, <1>4 DEF SoundMethod
<1>6. CascadesHold'
  BY <1>1 DEF CascadesHold
<1>7. WillAdd(q)' = K!Adds(M[op]) /\ \A p \in Calls \ {q} : WillAdd(p)' = WillAdd(p)
  BY <1>2, <1>4, AddsOfMethod DEF WillAdd, SoundMethod, Sound
<1>8. MethodsAdd'
  <2> SUFFICES ASSUME NEW p \in Calls, NEW N \in K!Services,
                      v2'[p].op # None, v2'[p].op \in DOMAIN N
               PROVE  WillAdd(p)' \subseteq K!Adds(N[v2'[p].op])
    BY DEF MethodsAdd
  <2>1. CASE p = q
    BY <2>1, <1>4, <1>7, MethodsApart
  <2>2. CASE p # q
    BY <2>2, <1>4, <1>7 DEF MethodsAdd
  <2>3. QED
    BY <2>1, <2>2
<1>9. \A p \in Calls \ {q} : v2[p].op # None => WillAdd(p) \cap K!Adds(M[op]) \subseteq v5'
  <2> SUFFICES ASSUME NEW p \in Calls \ {q}, v2[p].op # None
               PROVE  WillAdd(p) \cap K!Adds(M[op]) \subseteq v5'
    OBVIOUS
  <2>1. WillAdd(p) \subseteq K!Adds(M[v2[p].op])
    BY <1>1 DEF MethodsAdd
  <2>2. K!Adds(M[op]) \cap K!Adds(M[v2[p].op]) \subseteq v5'
    BY <1>1
  <2>3. QED
    BY <2>1, <2>2
<1>10. RacesAreSeen'
  BY <1>1, <1>4, <1>7, <1>9 DEF RacesAreSeen
<1>11. OneOfEach'
  <2> SUFFICES ASSUME NEW r \in Single \ (v5' \cup v6)
               PROVE  /\ v1[r] <= 1
                      /\ \A p \in Calls : v2'[p].op # None => Careful(v2'[p].todo, r) \/ v1[r] = 0
    BY <1>1 DEF OneOfEach
  <2>1. r \in Single \ (v5 \cup v6)
    BY <1>1
  <2>2. Careful(v2'[q].todo, r)
    BY <1>2, <1>4 DEF SoundMethod
  <2>3. QED
    BY <1>4, <2>1, <2>2 DEF OneOfEach
<1>12. HalvesSoFar'
  BY <1>4 DEF HalvesSoFar
<1>13. QED
  BY <1>1, <1>5, <1>6, <1>8, <1>10, <1>11, <1>12

LEMMA CatalogueWork ==
    ASSUME CatalogueInv, NEW q \in Calls, K!Work(q)
    PROVE  CatalogueInv'
<1> DEFINE todo == v2[q].todo
           s == Head(todo)
           more == Len(todo) # 1
<1> USE DEF CatalogueInv, CatalogueType
<1>0. PICK twice \in SUBSET s.each :
        /\ v1' = [x \in K!Rows |-> IF x \in twice THEN K!After(s)[x] + 1 ELSE K!After(s)[x]]
        /\ v6' = v6 \cup twice
  BY DEF K!Work
<1>1. /\ v2[q].op # None /\ K!Succeeds(s) /\ v4' = v4 /\ v5' = v5
      /\ \A p \in Calls \ {q} : v2'[p] = v2[p]
      /\ ~more => v2'[q] = K!NoRequest
      /\ more => v2'[q] = [v2[q] EXCEPT !.todo = Tail(todo),
                              !.lost = v2[q].lost \cup {x \in K!Rows : v1'[x] < v1[x]},
                              !.left = v2[q].left \cup {x \in K!Rows : v1'[x] > v1[x]}]
  BY DEF K!Work
<1>2. /\ v2[q] \in Request /\ Sound(v2[q].op, todo) /\ todo \in Seq(Statement)
      /\ Len(todo) \in Nat \ {0} /\ s = todo[1] /\ 1 \in 1 .. Len(todo) /\ s \in Statement
  BY <1>1, EmptySeq DEF Sound
<1>3. s.take \subseteq s.needs
  BY <1>2 DEF Sound, TakesWhatIsThere
<1>3a. twice \subseteq s.add \cap Repeatable
  BY <1>2 DEF Sound, AddsTwice
<1>3b. /\ K!After(s) \in [K!Rows -> Nat]
       /\ \A x \in K!Rows :
            /\ K!After(s)[x] <= v1[x] + 1
            /\ x \notin s.add => K!After(s)[x] <= v1[x]
            /\ x \in s.clear \ s.add => K!After(s)[x] = 0
            /\ K!After(s)[x] < v1[x] => x \in Undone(s)
            /\ x \in s.lacks => v1[x] = 0
            /\ K!After(s)[x] > 0 => \A p \in K!Cascades(x) : K!After(s)[p] > 0
  BY <1>1, <1>2, <1>3, AfterStatement
<1>3c. \A x \in s.add \cap K!Rows : K!After(s)[x] > 0
  BY <1>1, <1>2, <1>3, AddedIsThere
<1>4. /\ v1' \in [K!Rows -> Nat]
      /\ \A x \in K!Rows :
           /\ x \notin v6' => v1'[x] <= v1[x] + 1
           /\ x \notin s.add => v1'[x] <= v1[x]
           /\ x \in s.clear \ s.add => v1'[x] = 0
           /\ v1'[x] < v1[x] => x \in Undone(s)
           /\ x \in s.lacks => v1[x] = 0
           /\ v1'[x] > 0 => \A p \in K!Cascades(x) : v1'[p] > 0
  <2>1. \A x \in K!Rows : /\ v1'[x] \in Nat /\ v1'[x] >= K!After(s)[x]
                          /\ x \notin twice => v1'[x] = K!After(s)[x]
    BY <1>0, <1>3b
  <2>2. \A x \in K!Rows : v1'[x] > 0 => K!After(s)[x] > 0
    BY <1>3a, <1>3c, <2>1
  <2>3. \A x \in K!Rows : K!Cascades(x) \subseteq K!Rows
    BY DEF K!Cascades, K!Rows, K!Forms
  <2>4. \A x \in K!Rows : v1'[x] > 0 => \A p \in K!Cascades(x) : v1'[p] > 0
    BY <1>3b, <2>1, <2>2, <2>3
  <2>5. v1' \in [K!Rows -> Nat]
    BY <1>0, <2>1
  <2>6. \A x \in K!Rows : v1[x] \in Nat
    OBVIOUS
  <2>7. twice \subseteq s.add /\ twice \subseteq v6'
    BY <1>0, <1>3a
  <2>8. QED
    <3> HIDE DEF s, todo, CatalogueInv
    <3> QED
      BY <1>3b, <2>1, <2>4, <2>5, <2>6, <2>7
<1>5. more => /\ Sound(v2[q].op, Tail(todo)) /\ Tail(todo) \in Seq(Statement)
              /\ Len(Tail(todo)) = Len(todo) - 1
              /\ \A i \in 1 .. Len(Tail(todo)) :
                    Tail(todo)[i] = todo[i + 1] /\ i + 1 \in 1 .. Len(todo)
              /\ {v2[q].op} \X (s.add \cup Undone(s)) \subseteq Listed
  BY <1>2, TailIsSound DEF Sound
<1> DEFINE lost == {x \in K!Rows : v1'[x] < v1[x]}
           left == {x \in K!Rows : v1'[x] > v1[x]}
<1>6. lost \subseteq Undone(s) /\ left \subseteq s.add
  BY <1>4
<1>7. more => /\ v2'[q].op = v2[q].op /\ v2'[q].todo = Tail(todo)
              /\ v2'[q].lost = v2[q].lost \cup lost /\ v2'[q].left = v2[q].left \cup left
              /\ v2'[q] \in Request
  <2> SUFFICES ASSUME more PROVE <1>7!2
    OBVIOUS
  <2>1. v2[q].lost \in SUBSET K!Rows /\ v2[q].left \in SUBSET K!Rows
    BY <1>2 DEF Request
  <2>2. v2[q].lost \cup lost \in SUBSET K!Rows /\ v2[q].left \cup left \in SUBSET K!Rows
    BY <2>1
  <2> HIDE DEF lost, left
  <2>3. v2'[q] = [v2[q] EXCEPT !.todo = Tail(todo), !.lost = v2[q].lost \cup lost,
                               !.left = v2[q].left \cup left]
    BY <1>1 DEF lost, left
  <2>4. Tail(todo) \in Seq(Statement) /\ v2[q] \in Request
    BY <1>2, <1>5
  <2>5. /\ v2'[q] \in Request /\ v2'[q].op = v2[q].op /\ v2'[q].todo = Tail(todo)
        /\ v2'[q].lost = v2[q].lost \cup lost /\ v2'[q].left = v2[q].left \cup left
    <3> HIDE DEF CatalogueInv, CatalogueType, todo, more, s
    <3> QED
      BY <2>2, <2>3, <2>4 DEF Request
  <2>6. QED
    BY <2>5
<1>8. ~more => v2'[q].op = None /\ v2'[q] \in Request
  BY <1>1, NothingAsked
<1> HIDE DEF s, todo, more, lost, left
<1>9. CatalogueType'
  <2>1. v2' \in [Calls -> Request]
    BY <1>1, <1>7, <1>8 DEF K!Work
  <2>2. \A p \in Calls : v2'[p].op # None => Sound(v2'[p].op, v2'[p].todo)
    BY <1>1, <1>5, <1>7, <1>8
  <2>3. QED
    BY <1>4, <2>1, <2>2
<1>10. CascadesHold'
  BY <1>4 DEF CascadesHold
<1>11. /\ \A p \in Calls \ {q} : WillAdd(p)' = WillAdd(p)
       /\ v2'[q].op # None => WillAdd(q)' \subseteq WillAdd(q)
  <2>1. \A p \in Calls \ {q} : WillAdd(p)' = WillAdd(p)
    BY <1>1 DEF WillAdd
  <2>2. ASSUME v2'[q].op # None, NEW x \in WillAdd(q)' PROVE x \in WillAdd(q)
    <3>1. more /\ v2'[q].todo = Tail(todo)
      BY <1>7, <1>8, <2>2
    <3>2. PICK i \in 1 .. Len(Tail(todo)) : x \in Tail(todo)[i].add
      BY <2>2, <3>1 DEF WillAdd
    <3>3. i + 1 \in 1 .. Len(todo) /\ x \in todo[i + 1].add
      BY <1>5, <3>1, <3>2
    <3>4. QED
      BY <3>3 DEF WillAdd, todo
  <2>3. QED
    BY <2>1, <2>2
<1>12. MethodsAdd'
  BY <1>1, <1>7, <1>8, <1>11 DEF MethodsAdd
<1>13. RacesAreSeen'
  BY <1>1, <1>7, <1>8, <1>11 DEF RacesAreSeen
<1>14. OneOfEach'
  <2> SUFFICES ASSUME NEW r \in Single \ (v5 \cup v6')
               PROVE  /\ v1'[r] <= 1
                      /\ \A p \in Calls :
                           v2'[p].op # None => Careful(v2'[p].todo, r) \/ v1'[r] = 0
    BY <1>1 DEF OneOfEach
  <2>0. r \in Single \ (v5 \cup v6)
    BY <1>0
  <2>1. r \in K!Rows /\ v1[r] \in Nat /\ v1[r] <= 1
    BY <2>0 DEF OneOfEach, Single, K!Rows, K!Naming, K!Agenda, K!Forms
  <2>2. Careful(todo, r) \/ v1[r] = 0
    BY <1>1, <2>0 DEF OneOfEach, todo
  <2>3. CASE r \in s.add
    <3>1. v1[r] = 0
      BY <1>2, <2>2, <2>3 DEF Careful
    <3>2. v1'[r] <= 1
      BY <1>4, <2>1, <3>1
    <3>3. more => Careful(Tail(todo), r)
      BY <1>2, <1>5, <2>3 DEF Careful, Sound, AddsOnce
    <3>4. ASSUME NEW p \in Calls \ {q}, v2[p].op # None
          PROVE  Careful(v2[p].todo, r)
      <4>1. r \in WillAdd(q)
        BY <1>2, <2>3 DEF WillAdd, todo
      <4>2. r \notin WillAdd(p)
        BY <1>1, <3>4, <4>1 DEF RacesAreSeen
      <4>3. QED
        BY <4>2 DEF WillAdd, Careful
    <3>5. QED
      BY <1>1, <1>7, <1>8, <3>2, <3>3, <3>4
  <2>4. CASE r \notin s.add
    <3>1. v1'[r] <= v1[r] /\ v1'[r] \in Nat
      BY <1>4, <2>1, <2>4
    <3>2. v1'[r] <= 1 /\ (v1[r] = 0 => v1'[r] = 0)
      BY <2>1, <3>1
    <3>3. more => Careful(Tail(todo), r) \/ v1'[r] = 0
      <4> SUFFICES ASSUME more, Careful(todo, r), v1'[r] # 0
                   PROVE  Careful(Tail(todo), r)
        BY <2>2, <3>2
      <4>1. r \notin s.lacks \cup s.clear
        BY <1>4, <2>1, <2>4, <3>2
      <4> SUFFICES ASSUME NEW i \in 1 .. Len(Tail(todo)), r \in Tail(todo)[i].add
                   PROVE  \E j \in 1 .. (i - 1) : r \in Tail(todo)[j].lacks \cup Tail(todo)[j].clear
        BY DEF Careful
      <4>2. PICK j \in 1 .. i : r \in todo[j].lacks \cup todo[j].clear
        <5>1. /\ i + 1 \in 1 .. Len(todo) /\ r \in todo[i + 1].add
              /\ i + 1 - 1 = i
          BY <1>5
        <5>2. QED
          BY <5>1 DEF Careful
      <4>3. j # 1
        BY <1>2, <4>1, <4>2
      <4>4. j - 1 \in 1 .. (i - 1) /\ Tail(todo)[j - 1] = todo[j]
        BY <1>2, <1>5, <4>2, <4>3
      <4>5. QED
        BY <4>2, <4>4
    <3>4. \A p \in Calls \ {q} : v2[p].op # None => Careful(v2[p].todo, r) \/ v1'[r] = 0
      BY <2>0, <3>2 DEF OneOfEach
    <3>5. ASSUME NEW p \in Calls, v2'[p].op # None
          PROVE  Careful(v2'[p].todo, r) \/ v1'[r] = 0
      <4>1. CASE p = q
        BY <1>7, <1>8, <3>3, <3>5, <4>1
      <4>2. CASE p # q
        BY <1>1, <3>4, <3>5, <4>2
      <4>3. QED
        BY <4>1, <4>2
    <3>6. QED
      BY <3>2, <3>5
  <2>5. QED
    BY <2>3, <2>4
<1>15. HalvesSoFar'
  <2>1. ASSUME NEW p \in Calls \ {q}, v2'[p].op # None
        PROVE  {v2'[p].op} \X (v2'[p].lost \cup v2'[p].left) \subseteq Listed
    BY <1>1, <2>1 DEF HalvesSoFar
  <2>2. ASSUME v2'[q].op # None
        PROVE  {v2'[q].op} \X (v2'[q].lost \cup v2'[q].left) \subseteq Listed
    <3>1. more
      BY <1>8, <2>2
    <3>2. /\ {v2[q].op} \X (v2[q].lost \cup v2[q].left) \subseteq Listed
          /\ {v2[q].op} \X (s.add \cup Undone(s)) \subseteq Listed
      BY <1>1, <1>5, <3>1 DEF HalvesSoFar
    <3>3. \A x \in lost \cup left : <<v2[q].op, x>> \in Listed
      BY <1>6, <3>2
    <3>4. \A x \in v2[q].lost \cup v2[q].left : <<v2[q].op, x>> \in Listed
      BY <3>2
    <3>5. QED
      BY <1>7, <3>1, <3>3, <3>4
  <2>3. QED
    BY <2>1, <2>2 DEF HalvesSoFar
<1>16. v6' \subseteq Repeatable
  BY <1>0, <1>3a
<1>17. QED
  BY <1>1, <1>9, <1>10, <1>12, <1>13, <1>14, <1>15, <1>16

LEMMA CatalogueFail ==
    ASSUME CatalogueInv, NEW q \in Calls, K!Fail(q)
    PROVE  CatalogueInv'
<1> USE DEF CatalogueInv, CatalogueType
<1>1. /\ v2[q].op # None /\ v1' = v1 /\ v5' = v5 /\ v6' = v6
      /\ v2' = [v2 EXCEPT ![q] = K!NoRequest]
      /\ v4' = v4 \cup ({v2[q].op} \X (v2[q].lost \cup v2[q].left))
  BY DEF K!Fail
<1>2. /\ v2'[q].op = None /\ K!NoRequest \in Request
      /\ \A p \in Calls \ {q} : v2'[p] = v2[p]
  BY <1>1, NothingAsked
<1>3. CatalogueType'
  BY <1>1, <1>2
<1>4. CascadesHold'
  BY <1>1 DEF CascadesHold
<1>5. \A p \in Calls \ {q} : WillAdd(p)' = WillAdd(p)
  BY <1>2 DEF WillAdd
<1>6. MethodsAdd'
  BY <1>2, <1>5 DEF MethodsAdd
<1>7. RacesAreSeen'
  BY <1>1, <1>2, <1>5 DEF RacesAreSeen
<1>8. OneOfEach'
  BY <1>1, <1>2 DEF OneOfEach
<1>9. HalvesSoFar'
  BY <1>2 DEF HalvesSoFar
<1>10. v4' \subseteq Listed
  BY <1>1 DEF HalvesSoFar
<1>11. QED
  BY <1>1, <1>3, <1>4, <1>6, <1>7, <1>8, <1>9, <1>10

LEMMA CatalogueNext == CatalogueInv /\ [K!Next]_K!vars => CatalogueInv'
<1> SUFFICES ASSUME CatalogueInv, [K!Next]_K!vars PROVE CatalogueInv'
  OBVIOUS
<1>1. CASE UNCHANGED K!vars
  BY <1>1
  DEF K!vars, CatalogueInv, CatalogueType, CascadesHold, MethodsAdd, RacesAreSeen, WillAdd,
      OneOfEach, HalvesSoFar
<1>2. QED
  BY <1>1, CatalogueBegin, CatalogueWork, CatalogueFail DEF K!Next

LEMMA CatalogueHolds == CatalogueInv => K!CatalogueIsConsistent
<1> SUFFICES ASSUME CatalogueInv PROVE K!TwinsAreExplained /\ K!HalvesAreKnown
  BY DEF K!CatalogueIsConsistent
<1>1. K!TwinsAreExplained
  <2> SUFFICES ASSUME NEW r \in Single, v1[r] > 1, r \notin v5,
                      ~(r = "assignment" /\ r \in v6)
               PROVE  FALSE
    BY DEF K!TwinsAreExplained, Single
  <2>1. r \notin v6
    BY DEF CatalogueInv, Repeatable, Single
  <2>2. v1[r] \in Nat /\ v1[r] <= 1
    BY <2>1
    DEF CatalogueInv, CatalogueType, OneOfEach, Single, K!Rows, K!Naming, K!Agenda, K!Forms
  <2>3. QED
    BY <2>2
<1>2. K!HalvesAreKnown
  BY DEF CatalogueInv, K!HalvesAreKnown, Listed
<1>3. QED
  BY <1>1, <1>2

-----------------------------------------------------------------------------
(* Seeds (module Seeds).                                                   *)

\* The rows that are written by themselves, and the other groups.
Onces == {"eventStatus", "eventType", "tag", "category", "venue", "permission", "role",
          "rolePermission", "department", "user", "registrationStatus", "speaker", "ticket",
          "preference", "sampleTicket"}
Chains == {D!Events, D!AddSession, D!PastEvent, D!Interactions, D!SampleEvents, D!AuditData}
Alone(r, S) == [guard |-> {r}, needs |-> S, rows |-> <<r>>]
SeedGroup == Chains \cup {Alone(r, S) : r \in Onces, S \in SUBSET Onces}

LEMMA OnceIsAGroup ==
    ASSUME NEW r \in Onces, NEW S \in SUBSET Onces
    PROVE  D!Once(r) \in SeedGroup /\ [D!Once(r) EXCEPT !.needs = S] \in SeedGroup
<1>1. D!Once(r) = Alone(r, {}) /\ {} \in SUBSET Onces
  BY DEF D!Once, Alone
<1>2. [D!Once(r) EXCEPT !.needs = S] = Alone(r, S)
  BY DEF D!Once, Alone
<1> HIDE DEF Alone
<1>3. QED
  BY <1>1, <1>2 DEF SeedGroup

LEMMA ChainsAreGroups == Chains \subseteq SeedGroup
BY DEF SeedGroup

\* Every script is a list of such groups.
LEMMA GroupsOfScripts ==
    ASSUME NEW s \in D!Scripts
    PROVE  D!Groups(s) \in Seq(SeedGroup) /\ Len(D!Groups(s)) \in Nat \ {0}
<1>0. /\ D!Once("permission") \in SeedGroup /\ D!Once("role") \in SeedGroup
      /\ D!Once("rolePermission") \in SeedGroup /\ D!Once("department") \in SeedGroup
      /\ D!Once("registrationStatus") \in SeedGroup /\ D!Once("eventStatus") \in SeedGroup
      /\ D!Once("eventType") \in SeedGroup /\ D!Once("tag") \in SeedGroup
      /\ D!Once("category") \in SeedGroup /\ D!Once("venue") \in SeedGroup
      /\ D!Once("speaker") \in SeedGroup /\ D!Once("ticket") \in SeedGroup
      /\ D!Once("preference") \in SeedGroup
  <2>1. \A r \in Onces : D!Once(r) \in SeedGroup
    BY OnceIsAGroup
  <2>2. QED
    BY <2>1 DEF Onces
<1>1. /\ D!PermissionsAndRoles \in Seq(SeedGroup) /\ Len(D!PermissionsAndRoles) = 3
      /\ D!Departments \in Seq(SeedGroup) /\ Len(D!Departments) = 1
      /\ D!RegistrationStatuses \in Seq(SeedGroup) /\ Len(D!RegistrationStatuses) = 1
  BY <1>0 DEF D!PermissionsAndRoles, D!Departments, D!RegistrationStatuses
<1>2. /\ D!Base \in Seq(SeedGroup) /\ Len(D!Base) = 5
      /\ D!Speakers \in Seq(SeedGroup) /\ Len(D!Speakers) = 1
  BY <1>0 DEF D!Base, D!Speakers
<1>3. /\ D!SupportTickets \in Seq(SeedGroup) /\ Len(D!SupportTickets) = 1
      /\ D!Preferences \in Seq(SeedGroup) /\ Len(D!Preferences) = 1
  BY <1>0 DEF D!SupportTickets, D!Preferences
<1>4. D!Staff \in Seq(SeedGroup) /\ Len(D!Staff) = 1
  <2>1. [D!Once("user") EXCEPT !.needs = {"role"}] \in SeedGroup
    BY OnceIsAGroup DEF Onces
  <2>2. QED
    BY <2>1 DEF D!Staff
<1>5. /\ <<D!Events, D!AddSession, D!PastEvent>> \in Seq(SeedGroup)
      /\ <<D!AuditData>> \in Seq(SeedGroup) /\ <<D!SampleEvents>> \in Seq(SeedGroup)
      /\ <<D!Interactions>> \in Seq(SeedGroup)
  BY ChainsAreGroups DEF Chains
<1>6. CASE s = "seed"
  <2> DEFINE One == D!PermissionsAndRoles \o D!Departments
             Two == One \o D!Staff
             Three == Two \o D!RegistrationStatuses
             Four == Three \o D!Base
             Five == Four \o D!Speakers
             Six == Five \o <<D!Events, D!AddSession, D!PastEvent>>
             Seven == Six \o D!SupportTickets
             Eight == Seven \o <<D!AuditData>>
  <2>1. D!Groups(s) = Eight \o D!Preferences
    BY <1>6 DEF D!Groups
  <2>2. One \in Seq(SeedGroup) /\ Two \in Seq(SeedGroup) /\ Three \in Seq(SeedGroup)
    BY <1>1, <1>4, ConcatProperties
  <2> HIDE DEF Three
  <2>3. Four \in Seq(SeedGroup) /\ Five \in Seq(SeedGroup) /\ Six \in Seq(SeedGroup)
    BY <1>2, <1>5, <2>2, ConcatProperties
  <2> HIDE DEF Six
  <2>4. Seven \in Seq(SeedGroup) /\ Eight \in Seq(SeedGroup)
    BY <1>3, <1>5, <2>3, ConcatProperties
  <2> HIDE DEF Eight
  <2>5. /\ Eight \o D!Preferences \in Seq(SeedGroup)
        /\ Len(Eight \o D!Preferences) = Len(Eight) + 1 /\ Len(Eight) \in Nat
    <3>1. Len(Eight) \in Nat
      BY <2>4, LenProperties
    <3>2. D!Preferences \in Seq(SeedGroup) /\ Eight \in Seq(SeedGroup)
      BY <1>3, <2>4
    <3>3. Len(Eight \o D!Preferences) = Len(Eight) + Len(D!Preferences)
      BY <3>2, ConcatProperties
    <3>4. Eight \o D!Preferences \in Seq(SeedGroup)
      BY <3>2, ConcatProperties
    <3>5. QED
      BY <1>3, <3>1, <3>3, <3>4
  <2>6. QED
    BY <2>1, <2>5
<1>7. CASE s = "roles"
  BY <1>1, <1>7 DEF D!Groups
<1>8. CASE s = "users"
  <2>1. [D!Once("department") EXCEPT !.needs = {"role"}] \in SeedGroup
    BY OnceIsAGroup DEF Onces
  <2> DEFINE First == <<[D!Once("department") EXCEPT !.needs = {"role"}]>>
  <2>2. First \in Seq(SeedGroup) /\ Len(First) = 1
    BY <2>1
  <2> HIDE DEF First
  <2>3. First \o D!Staff \in Seq(SeedGroup) /\ Len(First \o D!Staff) = 2
    BY <1>4, <2>2, ConcatProperties
  <2>4. D!Groups(s) = First \o D!Staff
    BY <1>8 DEF D!Groups, First
  <2>5. QED
    BY <2>3, <2>4
<1>9. CASE s = "events"
  <2> DEFINE Last == <<D!SampleEvents>>
  <2>1. Last \in Seq(SeedGroup) /\ Len(Last) = 1
    BY <1>5
  <2>2. D!Groups(s) = D!Base \o Last
    BY <1>9 DEF D!Groups
  <2> HIDE DEF Last
  <2>3. Len(D!Base \o Last) = Len(D!Base) + Len(Last)
    BY <1>2, <2>1, ConcatProperties
  <2>4. D!Base \o Last \in Seq(SeedGroup)
    BY <1>2, <2>1, ConcatProperties
  <2>5. QED
    BY <1>2, <2>1, <2>2, <2>3, <2>4
<1>10. CASE s = "statuses"
  BY <1>1, <1>10 DEF D!Groups
<1>11. CASE s = "support"
  <2>1. Alone("sampleTicket", {"user"}) \in SeedGroup
    BY DEF SeedGroup, Onces
  <2>2. D!Groups(s) = <<Alone("sampleTicket", {"user"})>>
    BY <1>11 DEF D!Groups, Alone
  <2>3. QED
    BY <2>1, <2>2
<1>12. CASE s = "interactions"
  <2>1. Len(<<D!Interactions>>) = 1
    OBVIOUS
  <2>2. QED
    BY <1>5, <1>12, <2>1 DEF D!Groups
<1>13. QED
  BY <1>6, <1>7, <1>8, <1>9, <1>10, <1>11, <1>12 DEF D!Scripts

\* What the groups are like: no row twice, the guard among the rows, first but for the
\* sample events, and written or fatal.
WellMade(g) ==
    /\ Len(g.rows) \in Nat \ {0} /\ DOMAIN g.rows = 1 .. Len(g.rows)
    /\ \A i, j \in 1 .. Len(g.rows) : g.rows[i] = g.rows[j] => i = j
    /\ \A x \in g.guard : \E i \in 1 .. Len(g.rows) : g.rows[i] = x
    /\ g.guard = {} => \A i \in 1 .. Len(g.rows) : g.rows[i] = "auditLog"
    /\ g.guard = {g.rows[1]} \/ g.guard = {} \/ g = D!SampleEvents
    /\ \A i \in 1 .. Len(g.rows) : g.rows[i] = "draftSummit" => g = D!SampleEvents
    /\ g.guard \cap D!Caught = {}

LEMMA GroupFacts == ASSUME NEW g \in SeedGroup PROVE WellMade(g)
<1> USE DEF D!Caught
<1>1. ASSUME NEW r \in Onces, NEW S \in SUBSET Onces, g = Alone(r, S)
      PROVE  WellMade(g)
  <2>1. /\ Len(g.rows) = 1 /\ DOMAIN g.rows = 1 .. 1
        /\ g.rows[1] = r /\ g.guard = {r} /\ r # "draftSummit" /\ r \notin D!Caught
    BY <1>1 DEF Alone, Onces
  <2>2. QED
    BY <2>1 DEF WellMade
<1>2. CASE g = D!Events
  <2>1. /\ Len(g.rows) = 4 /\ DOMAIN g.rows = 1 .. 4 /\ g.guard = {"event"}
        /\ g.rows[1] = "event" /\ g.rows[2] = "organizer"
        /\ g.rows[3] = "eventCategory" /\ g.rows[4] = "registration"
    BY <1>2 DEF D!Events
  <2>2. \A i \in 1 .. 4 : i = 1 \/ i = 2 \/ i = 3 \/ i = 4
    OBVIOUS
  <2>3. QED
    BY <1>2, <2>1, <2>2 DEF WellMade
<1>3. CASE g = D!AddSession
  <2>1. /\ Len(g.rows) = 2 /\ DOMAIN g.rows = 1 .. 2 /\ g.guard = {"session"}
        /\ g.rows[1] = "session" /\ g.rows[2] = "sessionSpeaker"
    BY <1>3 DEF D!AddSession
  <2>2. \A i \in 1 .. 2 : i = 1 \/ i = 2
    OBVIOUS
  <2>3. QED
    BY <1>3, <2>1, <2>2 DEF WellMade
<1>4. CASE g = D!PastEvent
  <2>1. /\ Len(g.rows) = 4 /\ DOMAIN g.rows = 1 .. 4 /\ g.guard = {"pastEvent"}
        /\ g.rows[1] = "pastEvent" /\ g.rows[2] = "pastOrganizer"
        /\ g.rows[3] = "pastRegistration" /\ g.rows[4] = "feedback"
    BY <1>4 DEF D!PastEvent
  <2>2. \A i \in 1 .. 4 : i = 1 \/ i = 2 \/ i = 3 \/ i = 4
    OBVIOUS
  <2>3. QED
    BY <1>4, <2>1, <2>2 DEF WellMade
<1>5. CASE g = D!Interactions
  <2>1. /\ Len(g.rows) = 2 /\ DOMAIN g.rows = 1 .. 2 /\ g.guard = {"sampleRegistration"}
        /\ g.rows[1] = "sampleRegistration" /\ g.rows[2] = "sampleFeedback"
    BY <1>5 DEF D!Interactions
  <2>2. \A i \in 1 .. 2 : i = 1 \/ i = 2
    OBVIOUS
  <2>3. QED
    BY <1>5, <2>1, <2>2 DEF WellMade
<1>6. CASE g = D!SampleEvents
  <2>1. /\ Len(g.rows) = 3 /\ DOMAIN g.rows = 1 .. 3 /\ g.guard = {"bootcamp"}
        /\ g.rows[1] = "draftSummit" /\ g.rows[2] = "bootcamp"
        /\ g.rows[3] = "ethics"
    BY <1>6 DEF D!SampleEvents
  <2>2. \A i \in 1 .. 3 : i = 1 \/ i = 2 \/ i = 3
    OBVIOUS
  <2>3. QED
    BY <1>6, <2>1, <2>2 DEF WellMade
<1>7. CASE g = D!AuditData
  <2>1. /\ Len(g.rows) = 1 /\ DOMAIN g.rows = 1 .. 1 /\ g.guard = {}
        /\ g.rows[1] = "auditLog"
    BY <1>7 DEF D!AuditData
  <2>2. \A i \in 1 .. 1 : i = 1
    OBVIOUS
  <2>3. QED
    BY <1>7, <2>1, <2>2 DEF WellMade
<1>8. QED
  BY <1>1, <1>2, <1>3, <1>4, <1>5, <1>6, <1>7 DEF SeedGroup, Chains

\* Two groups that write the same row are one, or write just this one.
LEMMA GroupsShare ==
    ASSUME NEW g \in SeedGroup, NEW h \in SeedGroup,
           NEW i \in 1 .. Len(g.rows), NEW j \in 1 .. Len(h.rows), g.rows[i] = h.rows[j]
    PROVE  g = h \/ (Len(h.rows) = 1 /\ h.guard = {h.rows[1]})
<1>1. CASE h \notin Chains
  BY <1>1 DEF SeedGroup, Alone
<1>2. CASE g \notin Chains /\ h \in Chains
  <2>1. \A k \in 1 .. Len(g.rows) : g.rows[k] \in Onces
    BY <1>2 DEF SeedGroup, Alone
  <2>2. \A k \in 1 .. Len(h.rows) : h.rows[k] \notin Onces
    BY <1>2
    DEF Chains, Onces, D!Events, D!AddSession, D!PastEvent, D!Interactions, D!SampleEvents,
        D!AuditData
  <2>3. QED
    BY <2>1, <2>2
<1>3. CASE g \in Chains /\ h \in Chains
  <2> DEFINE Of(x) ==
        IF x \in {"event", "organizer", "eventCategory", "registration"} THEN D!Events
        ELSE IF x \in {"session", "sessionSpeaker"} THEN D!AddSession
        ELSE IF x \in {"pastEvent", "pastOrganizer", "pastRegistration", "feedback"}
             THEN D!PastEvent
        ELSE IF x \in {"sampleRegistration", "sampleFeedback"} THEN D!Interactions
        ELSE IF x \in {"draftSummit", "bootcamp", "ethics"} THEN D!SampleEvents
        ELSE D!AuditData
  <2>1. ASSUME NEW c \in Chains, NEW k \in 1 .. Len(c.rows) PROVE Of(c.rows[k]) = c
    <3>1. CASE c = D!Events
      <4>1. c.rows[k] \in {"event", "organizer", "eventCategory", "registration"}
        BY <3>1 DEF D!Events
      <4>2. QED
        BY <3>1, <4>1
    <3>2. CASE c = D!AddSession
      <4>1. c.rows[k] \in {"session", "sessionSpeaker"}
        BY <3>2 DEF D!AddSession
      <4>2. QED
        BY <3>2, <4>1
    <3>3. CASE c = D!PastEvent
      <4>1. c.rows[k] \in {"pastEvent", "pastOrganizer", "pastRegistration", "feedback"}
        BY <3>3 DEF D!PastEvent
      <4>2. QED
        BY <3>3, <4>1
    <3>4. CASE c = D!Interactions
      <4>1. c.rows[k] \in {"sampleRegistration", "sampleFeedback"}
        BY <3>4 DEF D!Interactions
      <4>2. QED
        BY <3>4, <4>1
    <3>5. CASE c = D!SampleEvents
      <4>1. c.rows[k] \in {"draftSummit", "bootcamp", "ethics"}
        BY <3>5 DEF D!SampleEvents
      <4>2. QED
        BY <3>5, <4>1
    <3>6. CASE c = D!AuditData
      <4>1. c.rows[k] \in {"auditLog"}
        BY <3>6 DEF D!AuditData
      <4>2. QED
        BY <3>6, <4>1
    <3>7. QED
      BY <3>1, <3>2, <3>3, <3>4, <3>5, <3>6 DEF Chains
  <2> HIDE DEF Of
  <2>2. QED
    BY <1>3, <2>1
<1>4. QED
  BY <1>1, <1>2, <1>3

-----------------------------------------------------------------------------

SeedRows == UNION {D!RowsOf(s) : s \in D!Scripts}
InUse == UNION {D!Range(D!Groups(s)) : s \in D!Scripts}
Running == v2 # None

SeedsType ==
    /\ v1 \in [SeedRows -> Nat]
    /\ Running => /\ v2 \in D!Scripts /\ v3 \in 1 .. Len(D!Groups(v2))
                  /\ v4 \in 0 .. (Len(D!Here.rows) + 1)
    /\ v6 \subseteq D!Scripts
    /\ v8 \subseteq D!Caught

\* Rows that may be written again.
Again(r) == r = "auditLog" \/ (r = "draftSummit" /\ D!SampleEvents \in v7)
\* Some of the group's rows are written, and maybe not all of them.
Within(g) == Running /\ v4 > 1 /\ g = D!Here

WrittenOnce == \A r \in SeedRows : v1[r] <= 1 \/ Again(r)

\* There, or one whose failure was swallowed.
Seen(r) == v1[r] > 0 \/ r \in v8

\* The rows of the group are there as far as the script has come, but for those it
\* failed to write, and no further.
SoFar == Running /\ v4 > 0 => \A i \in 1 .. Len(D!Here.rows) :
    IF i < v4 THEN Seen(D!Here.rows[i])
    ELSE v1[D!Here.rows[i]] = 0 \/ Again(D!Here.rows[i])

\* No row is there without the guard of its group, but for the first sample event,
GuardsComeFirst == \A g \in InUse : \A i \in 1 .. Len(g.rows) :
    v1[g.rows[i]] > 0 =>
        \/ \A x \in g.guard : v1[x] > 0
        \/ g.rows[i] = "draftSummit" /\ (g \in v7 \/ Within(g))

\* and no guard without the rows, but for those that a script failed to write and a
\* group in which a run died.
GuardsAreTrue == \A g \in InUse :
    g.guard # {} /\ (\A x \in g.guard : v1[x] > 0) =>
        (\A i \in 1 .. Len(g.rows) : Seen(g.rows[i])) \/ g \in v7 \/ Within(g)

\* What a script has been through is there, with the same exceptions.
Through(g) == \A i \in 1 .. Len(g.rows) : Seen(g.rows[i]) \/ g \in v7
ScriptsGoThrough ==
    /\ Running => \A j \in 1 .. (v3 - 1) : Through(D!Groups(v2)[j])
    /\ \A s \in v6 : \A j \in 1 .. Len(D!Groups(s)) : Through(D!Groups(s)[j])

SeedsInv ==
    /\ SeedsType /\ WrittenOnce /\ SoFar
    /\ GuardsComeFirst /\ GuardsAreTrue /\ ScriptsGoThrough

\* The groups of the scripts and their rows.
LEMMA GroupInUse ==
    ASSUME NEW s \in D!Scripts, NEW j \in 1 .. Len(D!Groups(s))
    PROVE  D!Groups(s)[j] \in InUse
<1>1. DOMAIN D!Groups(s) = 1 .. Len(D!Groups(s))
  BY GroupsOfScripts, LenProperties
<1>2. D!Groups(s)[j] \in D!Range(D!Groups(s))
  BY <1>1 DEF D!Range
<1>3. QED
  BY <1>2 DEF InUse

LEMMA InUseIs ==
    ASSUME NEW g \in InUse
    PROVE  /\ g \in SeedGroup /\ WellMade(g)
           /\ \A i \in 1 .. Len(g.rows) : g.rows[i] \in SeedRows
           /\ \A x \in g.guard : x \in SeedRows
<1>1. PICK s \in D!Scripts : g \in D!Range(D!Groups(s))
  BY DEF InUse
<1>2. D!Groups(s) \in Seq(SeedGroup)
  BY GroupsOfScripts
<1>3. g \in SeedGroup
  <2>1. PICK k \in DOMAIN D!Groups(s) : g = D!Groups(s)[k]
    BY <1>1 DEF D!Range
  <2>2. QED
    BY <1>2, <2>1, LenProperties, ElementOfSeq
<1>4. WellMade(g)
  BY <1>3, GroupFacts
<1>5. \A i \in 1 .. Len(g.rows) : g.rows[i] \in SeedRows
  <2> SUFFICES ASSUME NEW i \in 1 .. Len(g.rows) PROVE g.rows[i] \in SeedRows
    OBVIOUS
  <2>1. g.rows[i] \in D!Range(g.rows)
    BY <1>4 DEF D!Range, WellMade
  <2>2. g.rows[i] \in D!RowsOf(s)
    BY <1>1, <2>1 DEF D!RowsOf, D!RowsIn
  <2>3. QED
    BY <2>2 DEF SeedRows
<1>6. \A x \in g.guard : x \in SeedRows
  BY <1>4, <1>5 DEF WellMade
<1>7. QED
  BY <1>3, <1>4, <1>5, <1>6

LEMMA SeedsInit == D!Init => SeedsInv
<1> SUFFICES ASSUME D!Init PROVE SeedsInv
  OBVIOUS
<1>1. /\ v1 = [r \in SeedRows |-> 0] /\ ~Running /\ v6 = {} /\ v7 = {} /\ v8 = {}
  BY DEF D!Init, SeedRows, Running
<1>2. SeedsType /\ WrittenOnce /\ SoFar /\ ScriptsGoThrough
  BY <1>1 DEF SeedsType, WrittenOnce, SoFar, ScriptsGoThrough
<1>3. GuardsComeFirst
  BY <1>1, InUseIs DEF GuardsComeFirst
<1>4. GuardsAreTrue
  BY <1>1, InUseIs DEF GuardsAreTrue
<1>5. QED
  BY <1>2, <1>3, <1>4 DEF SeedsInv

LEMMA SeedsStart ==
    ASSUME SeedsInv, NEW s \in D!Scripts, D!Start(s)
    PROVE  SeedsInv'
<1> USE DEF SeedsInv, Running
<1>1. /\ v1' = v1 /\ v6' = v6 /\ v7' = v7 /\ v8' = v8 /\ ~Running
      /\ v2' = s /\ v3' = 1 /\ v4' = 0
  BY DEF D!Start
<1>2. D!Groups(s)[1] \in InUse /\ 1 \in 1 .. Len(D!Groups(s))
  BY GroupsOfScripts, GroupInUse
<1>3. D!Here' = D!Groups(s)[1]
  BY <1>1 DEF D!Here
<1>4. SeedsType'
  BY <1>1, <1>2, <1>3, InUseIs DEF SeedsType, WellMade
<1>5. WrittenOnce' /\ SoFar'
  BY <1>1 DEF WrittenOnce, SoFar, Again
<1>6. GuardsComeFirst' /\ GuardsAreTrue'
  BY <1>1 DEF GuardsComeFirst, GuardsAreTrue, Within, Seen
<1>7. ScriptsGoThrough'
  <2>1. 1 .. (v3' - 1) = {}
    BY <1>1
  <2>2. QED
    BY <1>1, <2>1 DEF ScriptsGoThrough, Through, Seen
<1>8. QED
  BY <1>4, <1>5, <1>6, <1>7

\* The script goes on to the next group, with all of this one there, unless a run
\* died in it.
LEMMA SeedsNextGroup ==
    ASSUME SeedsInv, Running, D!NextGroup, Through(D!Here),
           v4 > 1 => \A i \in 1 .. Len(D!Here.rows) : Seen(D!Here.rows[i])
    PROVE  SeedsInv'
<1> USE DEF SeedsInv
<1>1. v1' = v1 /\ v7' = v7 /\ v8' = v8 /\ v4' = 0
  BY DEF D!NextGroup
<1>2. /\ v2 \in D!Scripts /\ v3 \in 1 .. Len(D!Groups(v2)) /\ Len(D!Groups(v2)) \in Nat \ {0}
      /\ D!Here \in InUse
  BY GroupsOfScripts, GroupInUse DEF SeedsType, D!Here
<1>3. \/ v2' = None /\ v6' = v6 \cup {v2} /\ v3 = Len(D!Groups(v2))
      \/ v2' = v2 /\ v3' = v3 + 1 /\ v6' = v6 /\ v3 # Len(D!Groups(v2))
  BY DEF D!NextGroup
<1>4. \A j \in 1 .. v3 : Through(D!Groups(v2)[j])
  BY <1>2 DEF ScriptsGoThrough, D!Here
<1>5. \A g : Through(g)' = Through(g)
  BY <1>1 DEF Through, Seen
<1>6. SeedsType'
  <2>1. CASE v2' = None
    BY <1>1, <1>2, <1>3, <2>1 DEF SeedsType, Running
  <2>2. CASE v2' = v2 /\ v3' = v3 + 1 /\ v6' = v6 /\ v3 # Len(D!Groups(v2))
    <3>1. v3' \in 1 .. Len(D!Groups(v2))
      BY <1>2, <2>2
    <3>2. D!Here' = D!Groups(v2)[v3'] /\ D!Groups(v2)[v3'] \in InUse
      BY <1>2, <2>2, <3>1, GroupInUse DEF D!Here
    <3>3. QED
      BY <1>1, <1>2, <2>2, <3>1, <3>2, InUseIs DEF SeedsType, Running, WellMade
  <2>3. QED
    BY <1>3, <2>1, <2>2
<1>7. WrittenOnce' /\ SoFar'
  BY <1>1 DEF WrittenOnce, SoFar, Again
<1>8. GuardsComeFirst'
  <2> SUFFICES ASSUME NEW g \in InUse, NEW i \in 1 .. Len(g.rows), v1[g.rows[i]] > 0,
                      ~ \A x \in g.guard : v1[x] > 0, ~(g.rows[i] = "draftSummit" /\ g \in v7)
               PROVE  FALSE
    BY <1>1 DEF GuardsComeFirst
  <2>1. Within(g)
    BY DEF GuardsComeFirst
  <2>2. QED
    BY <2>1, InUseIs DEF Within, WellMade, SeedsType, Seen
<1>9. GuardsAreTrue'
  BY <1>1 DEF GuardsAreTrue, Within, Seen
<1>10. ScriptsGoThrough'
  <2>1. CASE v2' = None /\ v6' = v6 \cup {v2} /\ v3 = Len(D!Groups(v2))
    BY <1>4, <1>5, <2>1 DEF ScriptsGoThrough, Running
  <2>2. CASE v2' = v2 /\ v3' = v3 + 1 /\ v6' = v6
    <3>1. v3' - 1 = v3
      BY <1>2, <2>2
    <3>2. QED
      BY <1>4, <1>5, <2>2, <3>1 DEF ScriptsGoThrough
  <2>3. QED
    BY <1>3, <2>1, <2>2
<1>11. QED
  BY <1>6, <1>7, <1>8, <1>9, <1>10

LEMMA SeedsLook ==
    ASSUME SeedsInv, D!LookAtGuard
    PROVE  SeedsInv'
<1> USE DEF SeedsInv
<1>1. Running /\ v4 = 0
  BY DEF D!LookAtGuard, Running
<1>2. /\ v2 \in D!Scripts /\ v3 \in 1 .. Len(D!Groups(v2)) /\ D!Here \in InUse
  BY <1>1, GroupInUse DEF SeedsType, D!Here
<1>3. CASE D!NextGroup /\ D!Here.guard # {} /\ \A r \in D!Here.guard : v1[r] > 0
  <2>1. Through(D!Here)
    BY <1>1, <1>2, <1>3 DEF GuardsAreTrue, Within, Through, Seen
  <2>2. QED
    BY <1>1, <1>3, <2>1, SeedsNextGroup
<1>4. CASE /\ v4' = 1 /\ UNCHANGED <<v1, v2, v3, v5, v6, v7, v8>>
           /\ D!Here.guard = {} \/ \E r \in D!Here.guard : ~(v1[r] > 0)
  <2>1. D!Here' = D!Here /\ WellMade(D!Here) /\ Len(D!Here.rows) \in Nat \ {0}
    BY <1>2, <1>4, InUseIs DEF D!Here, WellMade
  <2>2. SeedsType'
    BY <1>4, <2>1 DEF SeedsType, Running
  <2>3. WrittenOnce'
    BY <1>4 DEF WrittenOnce, Again
  <2>4. SoFar'
    <3> SUFFICES ASSUME NEW i \in 1 .. Len(D!Here.rows)
                 PROVE  v1[D!Here.rows[i]] = 0 \/ Again(D!Here.rows[i])
      BY <1>4, <2>1 DEF SoFar, Again
    <3>1. v1[D!Here.rows[i]] \in Nat
      BY <1>2, InUseIs DEF SeedsType
    <3>2. CASE D!Here.guard = {}
      BY <2>1, <3>2 DEF WellMade, Again
    <3>3. CASE \E r \in D!Here.guard : ~(v1[r] > 0)
      <4>1. ~Within(D!Here)
        BY <1>1 DEF Within
      <4>2. v1[D!Here.rows[i]] > 0 => D!Here.rows[i] = "draftSummit" /\ D!Here \in v7
        BY <1>2, <3>3, <4>1 DEF GuardsComeFirst
      <4>3. QED
        BY <2>1, <3>1, <4>2 DEF WellMade, Again
    <3>4. QED
      BY <1>4, <3>2, <3>3
  <2>5. GuardsComeFirst' /\ GuardsAreTrue'
    BY <1>1, <1>4 DEF GuardsComeFirst, GuardsAreTrue, Within, Seen
  <2>6. ScriptsGoThrough'
    BY <1>4 DEF ScriptsGoThrough, Through, Running, Seen
  <2>7. QED
    BY <2>2, <2>3, <2>4, <2>5, <2>6
<1>5. CASE v2' = None /\ UNCHANGED <<v1, v4, v5, v6, v7, v8>>
  <2>1. SeedsType' /\ WrittenOnce' /\ SoFar'
    BY <1>5 DEF SeedsType, WrittenOnce, SoFar, Again, Running
  <2>2. GuardsComeFirst' /\ GuardsAreTrue'
    BY <1>1, <1>5 DEF GuardsComeFirst, GuardsAreTrue, Within, Running, Seen
  <2>3. ScriptsGoThrough'
    BY <1>5 DEF ScriptsGoThrough, Through, Running, Seen
  <2>4. QED
    BY <2>1, <2>2, <2>3
<1>6. QED
  BY <1>3, <1>4, <1>5 DEF D!LookAtGuard

LEMMA SeedsWrite ==
    ASSUME SeedsInv, D!Write
    PROVE  SeedsInv'
<1> DEFINE g == D!Here
           r == g.rows[v4]
<1> USE DEF SeedsInv
<1>1. /\ Running /\ v4 \in 1 .. Len(g.rows) /\ v1' = [v1 EXCEPT ![r] = @ + 1]
      /\ v4' = v4 + 1 /\ UNCHANGED <<v2, v3, v5, v6, v7, v8>>
  BY DEF D!Write, Running
<1>2. g \in InUse /\ v2 \in D!Scripts
  BY <1>1, GroupInUse DEF SeedsType, D!Here
<1>3. WellMade(g) /\ g \in SeedGroup /\ r \in SeedRows /\ D!Here' = g
      /\ Len(g.rows) \in Nat \ {0} /\ v4 \in Nat \ {0}
  BY <1>1, <1>2, InUseIs DEF D!Here, WellMade
<1>4. /\ v1' \in [SeedRows -> Nat] /\ v1'[r] = v1[r] + 1
      /\ \A x \in SeedRows : v1[x] \in Nat /\ v1'[x] \in Nat /\ (x # r => v1'[x] = v1[x])
      /\ \A x \in SeedRows : v1[x] > 0 => v1'[x] > 0
      /\ v1'[r] > 0
  BY <1>1, <1>3 DEF SeedsType
<1>5. v1[r] = 0 \/ Again(r)
  BY <1>1, <1>3 DEF SoFar
<1>6. \A x : Again(x)' = Again(x)
  BY <1>1 DEF Again
<1>7. \A h : Within(h) => Within(h)'
  BY <1>1, <1>3 DEF Within, Running
<1>8. \A h : h = g => Within(h)'
  BY <1>1, <1>3 DEF Within, Running
<1>9. \A i \in 1 .. Len(g.rows) : i <= v4 => v1'[g.rows[i]] > 0 \/ g.rows[i] \in v8
  <2> SUFFICES ASSUME NEW i \in 1 .. Len(g.rows), i <= v4
               PROVE  v1'[g.rows[i]] > 0 \/ g.rows[i] \in v8
    OBVIOUS
  <2>1. g.rows[i] \in SeedRows
    BY <1>2, InUseIs
  <2>2. CASE i = v4
    BY <1>4, <2>2
  <2>3. CASE i < v4
    BY <1>1, <1>3, <1>4, <2>1, <2>3 DEF SoFar, Seen
  <2>4. QED
    BY <1>3, <2>2, <2>3
<1>10. SeedsType'
  <2>1. v4 + 1 \in 0 .. (Len(g.rows) + 1)
    BY <1>1, <1>3
  <2>2. QED
    BY <1>1, <1>3, <1>4, <2>1 DEF SeedsType, Running
<1>11. WrittenOnce'
  BY <1>4, <1>5, <1>6 DEF WrittenOnce
<1>12. SoFar'
  <2> SUFFICES ASSUME NEW i \in 1 .. Len(g.rows), ~(i < v4 + 1)
               PROVE  v1'[g.rows[i]] = 0 \/ Again(g.rows[i])
    BY <1>1, <1>3, <1>6, <1>9 DEF SoFar, Seen
  <2>1. i # v4 /\ ~(i < v4)
    BY <1>3
  <2>2. g.rows[i] # r /\ g.rows[i] \in SeedRows
    BY <1>1, <1>2, <1>3, <2>1, InUseIs DEF WellMade
  <2>3. v1[g.rows[i]] = 0 \/ Again(g.rows[i])
    BY <1>1, <1>3, <2>1 DEF SoFar
  <2>4. QED
    BY <1>4, <2>2, <2>3
<1>13. GuardsComeFirst'
  <2> SUFFICES ASSUME NEW h \in InUse, NEW i \in 1 .. Len(h.rows), v1'[h.rows[i]] > 0
               PROVE  \/ \A x \in h.guard : v1'[x] > 0
                      \/ h.rows[i] = "draftSummit" /\ (h \in v7 \/ Within(h)')
    BY <1>1 DEF GuardsComeFirst
  <2>0. \A x \in h.guard : x \notin v8
    BY InUseIs DEF SeedsType, WellMade
  <2>1. /\ h \in SeedGroup /\ WellMade(h) /\ h.rows[i] \in SeedRows
        /\ \A x \in h.guard : x \in SeedRows
    BY InUseIs
  <2>2. CASE h.rows[i] # r
    BY <1>4, <1>7, <2>1, <2>2 DEF GuardsComeFirst
  <2>3. CASE h.rows[i] = r
    <3>1. g = h \/ (Len(h.rows) = 1 /\ h.guard = {h.rows[1]})
      BY <1>1, <1>3, <2>1, <2>3, GroupsShare
    <3>2. CASE Len(h.rows) = 1 /\ h.guard = {h.rows[1]}
      <4>1. i = 1
        BY <3>2
      <4>2. QED
        BY <1>4, <2>3, <3>2, <4>1
    <3>3. CASE g = h /\ h.guard = {h.rows[1]}
      BY <1>3, <1>9, <2>0, <3>3
    <3>4. CASE h.guard = {}
      BY <3>4
    <3>5. CASE g = h /\ h = D!SampleEvents
      <4>1. /\ Len(h.rows) = 3 /\ h.rows[1] = "draftSummit" /\ h.rows[2] = "bootcamp"
            /\ h.guard = {"bootcamp"}
        BY <3>5 DEF D!SampleEvents
      <4>2. CASE v4 = 1
        BY <1>8, <2>3, <3>5, <4>1, <4>2
      <4>3. CASE v4 # 1
        <5>1. 2 <= v4 /\ 2 \in 1 .. Len(g.rows)
          BY <1>3, <3>5, <4>1, <4>3
        <5>2. QED
          BY <1>9, <2>0, <3>5, <4>1, <5>1
      <4>4. QED
        BY <4>2, <4>3
    <3>6. QED
      BY <2>1, <3>1, <3>2, <3>3, <3>4, <3>5 DEF WellMade
  <2>4. QED
    BY <2>2, <2>3
<1>14. GuardsAreTrue'
  <2> SUFFICES ASSUME NEW h \in InUse, h.guard # {}, \A x \in h.guard : v1'[x] > 0
               PROVE  (\A i \in 1 .. Len(h.rows) : Seen(h.rows[i])') \/ h \in v7 \/ Within(h)'
    BY <1>1 DEF GuardsAreTrue
  <2>1. /\ h \in SeedGroup /\ WellMade(h) /\ \A x \in h.guard : x \in SeedRows
        /\ \A i \in 1 .. Len(h.rows) : h.rows[i] \in SeedRows
    BY InUseIs
  <2>2. CASE r \notin h.guard
    <3>1. \A x \in h.guard : v1[x] > 0
      BY <1>4, <2>1, <2>2
    <3>2. QED
      BY <1>1, <1>4, <1>7, <2>1, <3>1 DEF GuardsAreTrue, Seen
  <2>3. CASE r \in h.guard
    <3>1. PICK i \in 1 .. Len(h.rows) : h.rows[i] = r
      BY <2>1, <2>3 DEF WellMade
    <3>2. g = h \/ Len(h.rows) = 1
      BY <1>1, <1>3, <2>1, <3>1, GroupsShare
    <3>3. CASE Len(h.rows) = 1
      BY <1>4, <3>1, <3>3 DEF Seen
    <3>4. QED
      BY <1>8, <3>2, <3>3
  <2>4. QED
    BY <2>2, <2>3
<1>15. ScriptsGoThrough'
  <2>1. \A h \in InUse : Through(h) => Through(h)'
    BY <1>1, <1>4, InUseIs DEF Through, Seen
  <2>2. \A j \in 1 .. (v3 - 1) : D!Groups(v2)[j] \in InUse
    <3>1. Len(D!Groups(v2)) \in Nat
      BY <1>2, GroupsOfScripts
    <3>2. QED
      BY <1>1, <1>2, <3>1, GroupInUse DEF SeedsType
  <2>3. \A s \in v6 : \A j \in 1 .. Len(D!Groups(s)) : D!Groups(s)[j] \in InUse
    BY GroupInUse DEF SeedsType
  <2>4. QED
    BY <1>1, <2>1, <2>2, <2>3 DEF ScriptsGoThrough, Running
<1>16. QED
  BY <1>10, <1>11, <1>12, <1>13, <1>14, <1>15

LEMMA SeedsSwallow ==
    ASSUME SeedsInv, D!Swallow
    PROVE  SeedsInv'
<1> DEFINE g == D!Here
           r == g.rows[v4]
<1> USE DEF SeedsInv
<1>1. /\ Running /\ v4 \in 1 .. Len(g.rows) /\ r \in D!Caught
      /\ v8' = v8 \cup {r} /\ v4' = v4 + 1 /\ UNCHANGED <<v1, v2, v3, v5, v6, v7>>
  BY DEF D!Swallow, Running
<1>2. g \in InUse /\ v2 \in D!Scripts
  BY <1>1, GroupInUse DEF SeedsType, D!Here
<1>3. WellMade(g) /\ D!Here' = g /\ Len(g.rows) \in Nat \ {0} /\ v4 \in Nat \ {0}
  BY <1>1, <1>2, InUseIs DEF D!Here, WellMade
<1>4. \A x : Seen(x) => Seen(x)'
  BY <1>1 DEF Seen
<1>5. \A h : Within(h) => Within(h)'
  BY <1>1, <1>3 DEF Within, Running
<1>6. SeedsType'
  <2>1. v4 + 1 \in 0 .. (Len(g.rows) + 1)
    BY <1>1, <1>3
  <2>2. QED
    BY <1>1, <1>3, <2>1 DEF SeedsType, Running
<1>7. WrittenOnce'
  BY <1>1 DEF WrittenOnce, Again
<1>8. SoFar'
  <2>1. ASSUME NEW i \in 1 .. Len(g.rows), i < v4 + 1 PROVE Seen(g.rows[i])'
    <3>1. CASE i = v4
      BY <1>1, <1>3, <3>1 DEF Seen
    <3>2. CASE i < v4
      BY <1>1, <1>3, <1>4, <3>2 DEF SoFar
    <3>3. QED
      BY <1>3, <2>1, <3>1, <3>2
  <2>2. ASSUME NEW i \in 1 .. Len(g.rows), ~(i < v4 + 1)
        PROVE  v1[g.rows[i]] = 0 \/ Again(g.rows[i])
    BY <1>1, <1>3, <2>2 DEF SoFar
  <2>3. QED
    BY <1>1, <1>3, <2>1, <2>2 DEF SoFar, Again
<1>9. GuardsComeFirst'
  BY <1>1, <1>5 DEF GuardsComeFirst
<1>10. GuardsAreTrue'
  BY <1>1, <1>4, <1>5 DEF GuardsAreTrue
<1>11. ScriptsGoThrough'
  BY <1>1, <1>4 DEF ScriptsGoThrough, Through, Running
<1>12. QED
  BY <1>6, <1>7, <1>8, <1>9, <1>10, <1>11

LEMMA SeedsEndOfGroup ==
    ASSUME SeedsInv, D!EndOfGroup
    PROVE  SeedsInv'
<1> USE DEF SeedsInv
<1>1. Running /\ v4 = Len(D!Here.rows) + 1 /\ D!NextGroup
  BY DEF D!EndOfGroup, Running
<1>2. D!Here \in InUse
  BY <1>1, GroupInUse DEF SeedsType, D!Here
<1>3. Len(D!Here.rows) \in Nat
  BY <1>2, InUseIs DEF WellMade
<1>4. \A i \in 1 .. Len(D!Here.rows) : Seen(D!Here.rows[i])
  BY <1>1, <1>3 DEF SoFar
<1>5. QED
  BY <1>1, <1>4, SeedsNextGroup DEF Through

LEMMA SeedsDie ==
    ASSUME SeedsInv, D!Die
    PROVE  SeedsInv'
<1> USE DEF SeedsInv
<1>1. /\ Running /\ ~Running' /\ v4' = 0 /\ v1' = v1 /\ v6' = v6 /\ v8' = v8
      /\ v7 \subseteq v7' /\ (v4 > 1 => D!Here \in v7')
  BY DEF D!Die, Running
<1>2. SeedsType' /\ SoFar'
  BY <1>1 DEF SeedsType, SoFar
<1>3. WrittenOnce'
  BY <1>1 DEF WrittenOnce, Again
<1>4. \A g : Within(g) => g \in v7'
  BY <1>1 DEF Within
<1>5. GuardsComeFirst'
  BY <1>1, <1>4 DEF GuardsComeFirst
<1>6. GuardsAreTrue'
  BY <1>1, <1>4 DEF GuardsAreTrue, Seen
<1>7. ScriptsGoThrough'
  BY <1>1 DEF ScriptsGoThrough, Through, Seen
<1>8. QED
  BY <1>2, <1>3, <1>5, <1>6, <1>7

LEMMA SeedsNext == SeedsInv /\ [D!Next]_D!vars => SeedsInv'
<1> SUFFICES ASSUME SeedsInv, [D!Next]_D!vars PROVE SeedsInv'
  OBVIOUS
<1>1. CASE UNCHANGED D!vars
  BY <1>1
  DEF D!vars, SeedsInv, SeedsType, WrittenOnce, SoFar, GuardsComeFirst, GuardsAreTrue,
      Seen, ScriptsGoThrough, Through, Within, Again, Running, D!Here
<1>2. QED
  BY <1>1, SeedsStart, SeedsLook, SeedsWrite, SeedsSwallow, SeedsEndOfGroup, SeedsDie
  DEF D!Next

LEMMA SeedsHold == SeedsInv => D!SeedsAreRepeatable
<1> SUFFICES ASSUME SeedsInv PROVE D!SeedsAreRepeatable
  OBVIOUS
<1> USE DEF SeedsInv
<1>1. DOMAIN v1 = SeedRows /\ \A r \in SeedRows : v1[r] \in Nat
  BY DEF SeedsType
<1>2. \A r \in SeedRows \ {"auditLog"} :
        v1[r] > 1 => r = "draftSummit" /\ D!SampleEvents \in v7
  BY <1>1 DEF WrittenOnce, Again
<1>3. ASSUME NEW s \in v6, NEW r \in D!RowsOf(s), v1[r] = 0, r \notin v8
      PROVE  r \in D!RowsIn(v7)
  <2>1. s \in D!Scripts
    BY DEF SeedsType
  <2>2. PICK g \in D!Range(D!Groups(s)) : r \in D!Range(g.rows)
    BY <1>3 DEF D!RowsOf, D!RowsIn
  <2>3. DOMAIN D!Groups(s) = 1 .. Len(D!Groups(s))
    BY <2>1, GroupsOfScripts, LenProperties
  <2>4. PICK j \in 1 .. Len(D!Groups(s)) : g = D!Groups(s)[j]
    BY <2>2, <2>3 DEF D!Range
  <2>5. g \in InUse /\ DOMAIN g.rows = 1 .. Len(g.rows)
    BY <2>1, <2>4, GroupInUse, InUseIs DEF WellMade
  <2>6. PICK i \in 1 .. Len(g.rows) : r = g.rows[i]
    BY <2>2, <2>5 DEF D!Range
  <2>7. Through(g)
    BY <2>4 DEF ScriptsGoThrough
  <2>8. g \in v7
    BY <1>3, <2>6, <2>7 DEF Through, Seen
  <2>9. QED
    BY <2>2, <2>8 DEF D!RowsIn
<1>4. QED
  BY <1>1, <1>2, <1>3 DEF D!SeedsAreRepeatable

-----------------------------------------------------------------------------
(* Catalogue and Seeds in turn.                                            *)

LEMMA CatalogueRun ==
    /\ Init => (part = "catalogue" => CatalogueInv) /\ (part = "seeds" => SeedsInv)
    /\ /\ (part = "catalogue" => CatalogueInv) /\ (part = "seeds" => SeedsInv)
       /\ [Next]_vars
       => ((part = "catalogue" => CatalogueInv) /\ (part = "seeds" => SeedsInv))'
<1>1. Init => (part = "catalogue" => CatalogueInv) /\ (part = "seeds" => SeedsInv)
  BY CatalogueInit, SeedsInit DEF Init
<1>2. ASSUME part = "catalogue" => CatalogueInv, [Next]_vars, (part = "catalogue")'
      PROVE  CatalogueInv'
  <2>1. CatalogueInv /\ [K!Next]_K!vars
    BY <1>2 DEF Next, vars, K!vars
  <2>2. QED
    BY <2>1, CatalogueNext
<1>3. ASSUME part = "seeds" => SeedsInv, [Next]_vars, (part = "seeds")'
      PROVE  SeedsInv'
  <2>1. SeedsInv /\ [D!Next]_D!vars
    BY <1>3 DEF Next, vars, D!vars
  <2>2. QED
    BY <2>1, SeedsNext
<1>4. QED
  BY <1>1, <1>2, <1>3

\* A thing that the services check to be alone (checkUniqueName and the like) has a
\* twin only after two requests that add it overlapped, or, a speaker of a session,
\* after one that listed it twice; a request that fails half-way leaves only the listed
\* halves; and the seed scripts may be run again, in any order and after any death, and
\* miss nothing but what a death or a swallowed failure left out.
THEOREM CatalogueCorrect == Spec => []CatalogueIsConsistent
<1>1. (part = "catalogue" => CatalogueInv) /\ (part = "seeds" => SeedsInv)
        => CatalogueIsConsistent
  BY CatalogueHolds, SeedsHold DEF CatalogueIsConsistent
<1>2. QED
  BY <1>1, CatalogueRun, PTL DEF Spec
=============================================================================
