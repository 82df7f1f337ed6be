------------------------------ MODULE Accounts ------------------------------
(***************************************************************************)
(* Accounts and their proofs of identity: AuthService                      *)
(* (src/apps/api/src/auth/auth.service.ts) without the sessions, which are *)
(* module Sessions.                                                        *)
(*                                                                         *)
(* An account is made by signUp (with a password) or by telegramRegister   *)
(* (with a chat).  Both insert the row, then a one-time link, then mail    *)
(* it, in statements that commit one by one.  Opening the link verifies    *)
(* the address, without which login is refused; nothing mails the link     *)
(* again.  A reset link sets a password.  The bot links a chat to an       *)
(* existing account, and a scanned card binds a ministry ID.               *)
(*                                                                         *)
(* An account is its address: normalised to lower case and unique.         *)
(***************************************************************************)
EXTENDS Naturals, FiniteSets

CONSTANTS
    Addresses,   \* e-mail addresses
    Chats,       \* Telegram accounts
    Cards,       \* ministry IDs
    OneTimeIds,  \* primary keys of one_time_tokens (bound on links ever made)
    Requests,    \* handlers in flight at once (bound)
    MaxDeaths,   \* handlers that die half-way (bound)
    None         \* NULL

VARIABLES
    user,      \* table "users"
    oneTime,   \* table "one_time_tokens"
    request,   \* handlers in flight
    cutOff,    \* history: accounts whose verification mail was lost or ran out
    contested, \* history: accounts two chats were being linked to at once
    deaths     \* handlers that died

vars == <<user, oneTime, request, cutOff, contested, deaths>>

-----------------------------------------------------------------------------
UserRow == [exists : BOOLEAN, password : BOOLEAN, verified : BOOLEAN,
            chat : Chats \cup {None}, card : Cards \cup {None}]

NoUser == [exists |-> FALSE, password |-> FALSE, verified |-> FALSE, chat |-> None, card |-> None]

Purpose == {"verify", "reset"} \* EMAIL_VERIFICATION, PASSWORD_RESET

OneTime == [user : Addresses \cup {None}, type : Purpose, mailed : BOOLEAN,
            used : BOOLEAN, expired : BOOLEAN]

NoOneTime == [user |-> None, type |-> "verify", mailed |-> FALSE, used |-> FALSE, expired |-> FALSE]

Request == [pc : {"none", "create", "issue", "mail", "consume", "bind", "find", "link"},
            user : Addresses \cup {None}, type : Purpose, chat : Chats \cup {None},
            card : Cards \cup {None}, oneTime : OneTimeIds \cup {None}]

Idle == [pc |-> "none", user |-> None, type |-> "verify", chat |-> None, card |-> None,
         oneTime |-> None]

Init ==
    /\ user = [a \in Addresses |-> NoUser]
    /\ oneTime = [k \in OneTimeIds |-> NoOneTime]
    /\ request = [r \in Requests |-> Idle]
    /\ cutOff = {}
    /\ contested = {}
    /\ deaths = 0

Begin(r, step) == request[r].pc = "none" /\ request' = [request EXCEPT ![r] = step]
At(r, pc) == request[r].pc = pc
GoTo(r, pc) == request' = [request EXCEPT ![r].pc = pc]
Finish(r) == request' = [request EXCEPT ![r] = Idle]

\* The account that has a chat or a card, both unique.
WithChat(t) == {a \in Addresses : user[a].chat = t}
WithCard(m) == {a \in Addresses : user[a].card = m}

-----------------------------------------------------------------------------
(* signUp, and the mail with the link of either type.                      *)

\* An address that is in use is refused before anything is written.
SignUp(r, a) ==
    /\ ~user[a].exists
    /\ Begin(r, [Idle EXCEPT !.pc = "create", !.user = a])
    /\ UNCHANGED <<user, oneTime, cutOff, contested, deaths>>

\* The insert, of signUp (no chat) or of telegramRegister (no password).
\* P2002 refuses an address or a chat that was taken since the check.
CreateUser(r) ==
    LET a == request[r].user
        t == request[r].chat
    IN  /\ At(r, "create")
        /\ IF user[a].exists \/ (t # None /\ WithChat(t) # {})
             THEN Finish(r) /\ UNCHANGED user
             ELSE /\ user' = [user EXCEPT ![a].exists = TRUE, ![a].password = (t = None),
                                          ![a].chat = t]
                  /\ request' = [request EXCEPT ![r].pc = "issue", ![r].chat = None]
        /\ UNCHANGED <<oneTime, cutOff, contested, deaths>>

\* oneTimeToken.create in issueEmailVerificationToken and issuePasswordResetToken.
IssueLink(r, k) ==
    /\ At(r, "issue")
    /\ oneTime[k].user = None
    /\ oneTime' = [oneTime EXCEPT ![k].user = request[r].user, ![k].type = request[r].type]
    /\ request' = [request EXCEPT ![r].pc = "mail", ![r].oneTime = k]
    /\ UNCHANGED <<user, cutOff, contested, deaths>>

\* The mail leaves, or fails and is only logged; the handler then answers.
MailLink(r, sent) ==
    LET k == request[r].oneTime
    IN  /\ At(r, "mail")
        /\ oneTime' = [oneTime EXCEPT ![k].mailed = sent]
        /\ cutOff' = IF ~sent /\ request[r].type = "verify"
                       THEN cutOff \cup {request[r].user} ELSE cutOff
        /\ Finish(r)
        /\ UNCHANGED <<user, contested, deaths>>

ForgotPassword(r, a) ==
    /\ user[a].exists
    /\ Begin(r, [Idle EXCEPT !.pc = "issue", !.user = a, !.type = "reset"])
    /\ UNCHANGED <<user, oneTime, cutOff, contested, deaths>>

-----------------------------------------------------------------------------
(* A link is opened: verifyEmail and resetPassword.                        *)

Usable(k) == oneTime[k].mailed /\ ~oneTime[k].used /\ ~oneTime[k].expired

\* consumeOneTimeToken: the unused links of one type that match the token.
Consume(r, k, type) ==
    /\ Usable(k)
    /\ oneTime[k].type = type
    /\ Begin(r, [Idle EXCEPT !.pc = "consume", !.type = type, !.user = oneTime[k].user,
                             !.oneTime = k])
    /\ UNCHANGED <<user, oneTime, cutOff, contested, deaths>>

\* Mutant: the type of the link is not part of the search.
ConsumeAnyType(r, k, type) ==
    /\ Usable(k)
    /\ Begin(r, [Idle EXCEPT !.pc = "consume", !.type = type, !.user = oneTime[k].user,
                             !.oneTime = k])
    /\ UNCHANGED <<user, oneTime, cutOff, contested, deaths>>

\* Mutant: the user and the link are updated one after the other, link first.
ApplyInTwoSteps(r) ==
    LET q == request[r]
    IN  /\ At(r, "consume")
        /\ IF oneTime[q.oneTime].used
             THEN /\ user' = [user EXCEPT ![q.user].verified = @ \/ q.type = "verify",
                                          ![q.user].password = @ \/ q.type = "reset"]
                  /\ Finish(r)
                  /\ UNCHANGED oneTime
             ELSE /\ oneTime' = [oneTime EXCEPT ![q.oneTime].used = TRUE]
                  /\ UNCHANGED <<user, request>>
        /\ UNCHANGED <<cutOff, contested, deaths>>

\* One transaction: the user's row and the link's usedAt.
ApplyLink(r) ==
    LET q == request[r]
    IN  /\ At(r, "consume")
        /\ user' = [user EXCEPT ![q.user].verified = @ \/ q.type = "verify",
                                ![q.user].password = @ \/ q.type = "reset"]
        /\ oneTime' = [oneTime EXCEPT ![q.oneTime].used = TRUE]
        /\ Finish(r)
        /\ UNCHANGED <<cutOff, contested, deaths>>

\* An hour (verification) or half an hour (reset) has passed.
LinkExpires(k) ==
    /\ oneTime[k].user # None
    /\ ~oneTime[k].expired
    /\ oneTime' = [oneTime EXCEPT ![k].expired = TRUE]
    /\ cutOff' = IF oneTime[k].type = "verify" THEN cutOff \cup {oneTime[k].user} ELSE cutOff
    /\ UNCHANGED <<user, request, contested, deaths>>

-----------------------------------------------------------------------------
(* verifyMinistryId: the card carries the name the account signed up with. *)

MinistryCheck(r, a, m) ==
    /\ user[a].exists
    /\ WithCard(m) \subseteq {a}
    /\ Begin(r, [Idle EXCEPT !.pc = "bind", !.user = a, !.card = m])
    /\ UNCHANGED <<user, oneTime, cutOff, contested, deaths>>

\* The unique index refuses a card that was bound since the check.
MinistryBind(r) ==
    LET q == request[r]
    IN  /\ At(r, "bind")
        /\ user' = IF WithCard(q.card) \subseteq {q.user}
                     THEN [user EXCEPT ![q.user].card = q.card] ELSE user
        /\ Finish(r)
        /\ UNCHANGED <<oneTime, cutOff, contested, deaths>>

-----------------------------------------------------------------------------
(* telegramRegister.  A chat that has an account gets a session of it, as  *)
(* telegramLogin does; neither changes anything here.                      *)

TelegramRegister(r, t, a) ==
    /\ WithChat(t) = {}
    /\ Begin(r, [Idle EXCEPT !.pc = "find", !.user = a, !.chat = t])
    /\ UNCHANGED <<user, oneTime, cutOff, contested, deaths>>

\* Mutant: an account that has a chat gets another one.
FindAccountAnyChat(r) ==
    LET a == request[r].user
    IN  /\ At(r, "find")
        /\ GoTo(r, IF user[a].exists THEN "link" ELSE "create")
        /\ UNCHANGED <<user, oneTime, cutOff, contested, deaths>>

\* The search by address: a linked account is refused, an unlinked one will
\* get the chat, and an unknown address a new account.
FindAccount(r) ==
    LET a == request[r].user
        others == {q \in Requests \ {r} : request[q].pc = "link" /\ request[q].user = a}
    IN  /\ At(r, "find")
        /\ IF user[a].chat # None THEN Finish(r)
           ELSE GoTo(r, IF user[a].exists THEN "link" ELSE "create")
        /\ contested' = IF user[a].chat = None /\ others # {}
                          THEN contested \cup {a} ELSE contested
        /\ UNCHANGED <<user, oneTime, cutOff, deaths>>

\* update by id: it writes over a chat another request has linked since, and
\* fails if the chat was linked elsewhere.
LinkChat(r) ==
    LET q == request[r]
    IN  /\ At(r, "link")
        /\ user' = IF WithChat(q.chat) \subseteq {q.user}
                     THEN [user EXCEPT ![q.user].chat = q.chat] ELSE user
        /\ Finish(r)
        /\ UNCHANGED <<oneTime, cutOff, contested, deaths>>

-----------------------------------------------------------------------------
\* A handler dies: an error of the database, or the process stops.
Die(r) ==
    /\ request[r].pc # "none"
    /\ deaths < MaxDeaths
    /\ deaths' = deaths + 1
    /\ cutOff' = IF request[r].pc \in {"issue", "mail"} /\ request[r].type = "verify"
                   THEN cutOff \cup {request[r].user} ELSE cutOff
    /\ Finish(r)
    /\ UNCHANGED <<user, oneTime, contested>>

Next ==
    \/ \E r \in Requests :
        \/ \E a \in Addresses :
            \/ SignUp(r, a)
            \/ ForgotPassword(r, a)
            \/ \E m \in Cards : MinistryCheck(r, a, m)
            \/ \E t \in Chats : TelegramRegister(r, t, a)
        \/ \E k \in OneTimeIds :
            \/ IssueLink(r, k)
            \/ \E type \in Purpose : Consume(r, k, type)
        \/ \E sent \in BOOLEAN : MailLink(r, sent)
        \/ CreateUser(r)
        \/ ApplyLink(r)
        \/ MinistryBind(r)
        \/ FindAccount(r)
        \/ LinkChat(r)
        \/ Die(r)
    \/ \E k \in OneTimeIds : LinkExpires(k)

Spec == Init /\ [][Next]_vars

-----------------------------------------------------------------------------
\* The tables and the handlers are well formed; only what exists is linked.
TypeOK ==
    /\ user \in [Addresses -> UserRow]
    /\ oneTime \in [OneTimeIds -> OneTime]
    /\ request \in [Requests -> Request]
    /\ cutOff \subseteq Addresses
    /\ contested \subseteq Addresses
    /\ deaths \in 0 .. MaxDeaths

\* A verification link someone can still open.
HasLink(a) == \E k \in OneTimeIds :
    oneTime[k].user = a /\ oneTime[k].type = "verify" /\ Usable(k)

BeingMailed(a) == \E r \in Requests :
    request[r].user = a /\ request[r].type = "verify" /\ request[r].pc \in {"issue", "mail"}

\* An account that is not verified can still be: its link is out or about to
\* be mailed, unless its mail failed, its hour has passed or its handler died.
\* signUp goes on after a failed mail (auth.service.ts:74), and nothing
\* repeats the mail, so these are the accounts that can never log in.
UnverifiedCanVerify ==
    \A a \in Addresses :
        user[a].exists /\ ~user[a].verified => HasLink(a) \/ BeingMailed(a) \/ a \in cutOff

\* An address is verified only by a link that was mailed to this very address
\* for this purpose (consumeOneTimeToken).
VerifiedByOwnLink ==
    \A a \in Addresses :
        user[a].verified =>
            \E k \in OneTimeIds : /\ oneTime[k].user = a
                                  /\ oneTime[k].type = "verify"
                                  /\ oneTime[k].mailed
                                  /\ oneTime[k].used

\* Accounts are verified by their own link, and can be.
LinksVerify == UnverifiedCanVerify /\ VerifiedByOwnLink

\* The chat of an account is never replaced, unless two chats asked for the
\* account while it had none (auth.service.ts:788: the update is by id).
KeepsChats == \A a \in Addresses \ contested : user[a].chat \in {None, user'[a].chat}
ChatsAreKept == [][KeepsChats]_vars

-----------------------------------------------------------------------------
(* The inductive invariant.                                                *)

\* What a handler relies on after its last await.
Knows(r) ==
    /\ request[r].pc # "none" => request[r].user \in Addresses
    /\ request[r].pc \in {"create", "find"} => request[r].type = "verify"
    /\ request[r].pc \in {"mail", "consume"} =>
          /\ request[r].oneTime \in OneTimeIds
          /\ oneTime[request[r].oneTime].user = request[r].user
          /\ oneTime[request[r].oneTime].type = request[r].type
          /\ oneTime[request[r].oneTime].mailed = (request[r].pc = "consume")
    /\ request[r].pc = "link" =>
          /\ user[request[r].user].exists
          /\ user[request[r].user].chat = None \/ request[r].user \in contested
HandlersKnow == \A r \in Requests : Knows(r)

\* A link is mailed by one handler, and an account gets its chat from one
\* unless it is contested.
HandlersDiffer == \A r, q \in Requests : r # q =>
    /\ At(r, "mail") /\ At(q, "mail") => request[r].oneTime # request[q].oneTime
    /\ At(r, "link") /\ At(q, "link") /\ request[r].user = request[q].user
         => request[r].user \in contested

\* Only mailed links are used, links that ran out are known, and what was not
\* made is blank.
RowsAgree ==
    /\ \A k \in OneTimeIds :
          /\ oneTime[k].used => oneTime[k].mailed
          /\ oneTime[k].expired /\ oneTime[k].type = "verify" => oneTime[k].user \in cutOff
          /\ oneTime[k].user = None => ~oneTime[k].mailed /\ ~oneTime[k].expired
    /\ \A a \in Addresses : ~user[a].exists => user[a].chat = None

AccountsInv == TypeOK /\ HandlersKnow /\ HandlersDiffer /\ RowsAgree /\ LinksVerify
=============================================================================
