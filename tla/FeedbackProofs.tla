--------------------------- MODULE FeedbackProofs ---------------------------
(***************************************************************************)
(* Theorems about Feedback, for any number of events, attendees,           *)
(* overlapping dispatch runs, visitors and faults, and about Support, for  *)
(* any number of replies and losses.                                       *)
(***************************************************************************)
EXTENDS MCFeedbackSupport, TLAPS

\* What a run or a visit is about, at the steps where that matters.
SubjectsKnown ==
    /\ \A d \in Dispatchers :
          /\ run[d].pc # "idle" => run[d].event \in Events
          /\ run[d].pc \in {"create", "hash", "mail"} => run[d].user \in Users
    /\ \A v \in Visitors : visit[v].pc # "away" => visit[v].link \in mailed

TypeInv == TypeOK /\ SubjectsKnown

\* Advance leaves a well-formed run behind.
LEMMA AdvanceType ==
    ASSUME TypeInv, NEW d \in Dispatchers, run[d].pc # "idle", Advance(d)
    PROVE  /\ run' \in [Dispatchers -> Run]
           /\ \A c \in Dispatchers :
                 /\ run'[c].pc # "idle" => run'[c].event \in Events
                 /\ run'[c].pc \in {"create", "hash", "mail"} => run'[c].user \in Users
           /\ run'[d].pc \in {"idle", "next"}
           /\ \A c \in Dispatchers \ {d} : run'[c] = run[c]
<1>1. CASE run[d].left = {}
  <2>1. run' = [run EXCEPT ![d] = NoRun]
    BY <1>1 DEF Advance
  <2> QED
    BY <2>1 DEF TypeInv, TypeOK, SubjectsKnown, Run, NoRun
<1>2. CASE run[d].left # {}
  <2>1. run' = [run EXCEPT ![d] = [run[d] EXCEPT !.pc = "next", !.user = None]]
    BY <1>2 DEF Advance
  <2> QED
    BY <2>1 DEF TypeInv, TypeOK, SubjectsKnown, Run
<1> QED
  BY <1>1, <1>2

LEMMA TypeInit == Init => TypeInv
<1> SUFFICES ASSUME Init PROVE TypeInv
  OBVIOUS
<1>1. NoRun \in Run /\ NoVisit \in Visit /\ "absent" \in Hash
  BY DEF Run, NoRun, Visit, NoVisit, Hash
<1>2. /\ token \in [Links -> Hash] /\ responses \in [Links -> Nat]
      /\ run \in [Dispatchers -> Run] /\ visit \in [Visitors -> Visit]
  BY <1>1 DEF Init
<1>3. faults \in 0 .. MaxFaults
  BY FaultsAreNat DEF Init
<1>4. TypeOK
  BY <1>2, <1>3 DEF Init, TypeOK
<1>5. SubjectsKnown
  BY DEF Init, SubjectsKnown, NoRun, NoVisit
<1> QED
  BY <1>4, <1>5 DEF TypeInv

LEMMA TypeStep == TypeInv /\ [Next]_vars => TypeInv'
<1> SUFFICES ASSUME TypeInv, [Next]_vars PROVE TypeInv'
  OBVIOUS
<1> USE FaultsAreNat
<1>1. ASSUME NEW d \in Dispatchers, NEW e \in Events, Start(d, e) PROVE TypeInv'
  BY <1>1 DEF Start, TypeInv, TypeOK, SubjectsKnown, Run
<1>2. ASSUME NEW d \in Dispatchers, NEW u \in Users, FindToken(d, u) PROVE TypeInv'
  <2> DEFINE rest == run[d].left \ {u}
  <2>1. \/ run' = [run EXCEPT ![d] = NoRun]
        \/ run' = [run EXCEPT ![d] = [run[d] EXCEPT !.left = rest]]
        \/ \E pc \in {"create", "hash"} :
              run' = [run EXCEPT ![d] = [run[d] EXCEPT !.left = rest, !.user = u, !.pc = pc]]
    BY <1>2 DEF FindToken
  <2>2. run[d] \in Run /\ run[d].pc = "next" /\ run[d].event \in Events
    BY <1>2 DEF FindToken, TypeInv, TypeOK, SubjectsKnown
  <2>3. run' \in [Dispatchers -> Run]
    <3>1. NoRun \in Run /\ rest \in SUBSET Users
      BY <2>2 DEF Run, NoRun
    <3>2. ASSUME NEW left \in SUBSET Users PROVE [run[d] EXCEPT !.left = left] \in Run
      BY <2>2 DEF Run
    <3>3. ASSUME NEW left \in SUBSET Users, NEW pc \in {"create", "hash"}
          PROVE  [run[d] EXCEPT !.left = left, !.user = u, !.pc = pc] \in Run
      BY <2>2 DEF Run
    <3>4. \E r \in Run : run' = [run EXCEPT ![d] = r]
      BY <2>1, <3>1, <3>2, <3>3
    <3> QED
      BY <3>4 DEF TypeInv, TypeOK
  <2>4. SubjectsKnown'
    BY <1>2, <2>1, <2>2 DEF FindToken, TypeInv, TypeOK, SubjectsKnown, NoRun, Run
  <2> QED
    BY <1>2, <2>3, <2>4 DEF FindToken, TypeInv, TypeOK
<1>3. ASSUME NEW d \in Dispatchers, CreateToken(d) PROVE TypeInv'
  <2>1. At(d) \in Links
    BY <1>3 DEF CreateToken, At, Links, TypeInv, SubjectsKnown
  <2>2. CASE token[At(d)] = "absent" /\ \A l \in Links : token[l] # "pending"
    BY <1>3, <2>2 DEF CreateToken, TypeInv, TypeOK, SubjectsKnown, Run, Hash
  <2>3. CASE ~(token[At(d)] = "absent" /\ \A l \in Links : token[l] # "pending")
    <3>1. Advance(d) /\ missed' = missed \cup {At(d)} /\ token' = token
      BY <1>3, <2>3 DEF CreateToken
    <3> QED
      BY <1>3, <2>1, <3>1, AdvanceType DEF CreateToken, TypeInv, TypeOK, SubjectsKnown
  <2> QED
    BY <2>2, <2>3
<1>4. ASSUME NEW d \in Dispatchers, HashToken(d) PROVE TypeInv'
  BY <1>4 DEF HashToken, TypeInv, TypeOK, SubjectsKnown, Run, Hash
<1>5. ASSUME NEW d \in Dispatchers, SendMail(d) PROVE TypeInv'
  <2>1. At(d) \in Links
    BY <1>5 DEF SendMail, At, Links, TypeInv, SubjectsKnown
  <2> QED
    BY <1>5, <2>1, AdvanceType DEF SendMail, TypeInv, TypeOK, SubjectsKnown
<1>6. ASSUME NEW d \in Dispatchers, AttendeeFails(d) PROVE TypeInv'
  <2>1. At(d) \in Links
    BY <1>6 DEF AttendeeFails, At, Links, TypeInv, SubjectsKnown
  <2>2. faults' \in 0 .. MaxFaults
    BY <1>6 DEF AttendeeFails, TypeInv, TypeOK
  <2> QED
    BY <1>6, <2>1, <2>2, AdvanceType DEF AttendeeFails, TypeInv, TypeOK, SubjectsKnown
<1>7. ASSUME NEW d \in Dispatchers, RunDies(d) PROVE TypeInv'
  <2>1. faults' \in 0 .. MaxFaults
    BY <1>7 DEF RunDies, TypeInv, TypeOK
  <2> QED
    BY <1>7, <2>1 DEF RunDies, TypeInv, TypeOK, SubjectsKnown, Run, NoRun
<1>8. ASSUME NEW v \in Visitors, NEW l \in Links, OpenForm(v, l) PROVE TypeInv'
  <2> DEFINE opened(pc, form) == [pc |-> pc, link |-> l, form |-> form]
  <2>1. PICK pc \in {"opening", "open"}, form \in Templates \cup {None} :
           visit' = [visit EXCEPT ![v] = opened(pc, form)]
    BY <1>8 DEF OpenForm, TypeInv, TypeOK
  <2>2. opened(pc, form) \in Visit /\ opened(pc, form).link = l
    BY DEF Visit
  <2> HIDE DEF opened
  <2> QED
    BY <1>8, <2>1, <2>2 DEF OpenForm, TypeInv, TypeOK, SubjectsKnown
<1>9. ASSUME NEW v \in Visitors, CreateTemplate(v) PROVE TypeInv'
  <2>1. PICK t \in Templates :
           /\ defaults' = defaults \cup {t}
           /\ visit' = [visit EXCEPT ![v] = [visit[v] EXCEPT !.pc = "open", !.form = t]]
    BY <1>9 DEF CreateTemplate
  <2>2. visit[v] \in Visit /\ visit[v].link \in mailed
    BY <1>9 DEF CreateTemplate, TypeInv, TypeOK, SubjectsKnown
  <2>3. [visit[v] EXCEPT !.pc = "open", !.form = t] \in Visit
    BY <2>2 DEF Visit
  <2>4. visit' \in [Visitors -> Visit]
    BY <2>1, <2>3 DEF TypeInv, TypeOK
  <2>5. SubjectsKnown'
    BY <1>9, <2>1, <2>2 DEF CreateTemplate, TypeInv, TypeOK, SubjectsKnown, Visit
  <2> QED
    BY <1>9, <2>1, <2>4, <2>5 DEF CreateTemplate, TypeInv, TypeOK
<1>10. ASSUME NEW v \in Visitors, SubmitCheck(v) PROVE TypeInv'
  BY <1>10 DEF SubmitCheck, TypeInv, TypeOK, SubjectsKnown, Visit
<1>11. ASSUME NEW v \in Visitors, SubmitCommit(v) PROVE TypeInv'
  <2>1. visit[v].link \in Links
    BY <1>11 DEF SubmitCommit, TypeInv, TypeOK, SubjectsKnown
  <2> QED
    BY <1>11, <2>1 DEF SubmitCommit, TypeInv, TypeOK, SubjectsKnown, Visit, NoVisit
<1>12. ASSUME NEW v \in Visitors, Leave(v) PROVE TypeInv'
  BY <1>12 DEF Leave, TypeInv, TypeOK, SubjectsKnown, Visit, NoVisit
<1>13. ASSUME NEW l \in Links, Expire(l) PROVE TypeInv'
  BY <1>13 DEF Expire, TypeInv, TypeOK, SubjectsKnown
<1>14. CASE UNCHANGED vars
  BY <1>14 DEF vars, TypeInv, TypeOK, SubjectsKnown
<1> QED
  BY <1>1, <1>2, <1>3, <1>4, <1>5, <1>6, <1>7, <1>8, <1>9, <1>10, <1>11, <1>12, <1>13, <1>14
     DEF Next, Dispatch, Answer

\* Tables, dispatch runs and visits stay well formed (feedback.service.ts).
THEOREM TypeCorrect == Spec => []TypeOK
<1>1. Spec => []TypeInv
  BY TypeInit, TypeStep, PTL DEF Spec
<1> QED
  BY <1>1, PTL DEF TypeInv

-----------------------------------------------------------------------------
(* Responses.  OneResponsePerLink is inductive: a submission checks usedAt *)
(* too early, but the unique index makes the second one fail.              *)

\* However often a link is mailed, opened and submitted, it yields one
\* response and is marked as used with it (feedback.service.ts
\* submitFeedback).
THEOREM ResponsesCorrect == Spec => []OneResponsePerLink
<1>1. Init => OneResponsePerLink
  BY DEF Init, OneResponsePerLink
<1>2. TypeInv /\ OneResponsePerLink /\ [Next]_vars => OneResponsePerLink'
  <2> SUFFICES ASSUME TypeInv, OneResponsePerLink, [Next]_vars PROVE OneResponsePerLink'
    OBVIOUS
  <2>1. ASSUME NEW v \in Visitors, SubmitCommit(v) PROVE OneResponsePerLink'
    <3>1. visit[v].link \in Links /\ visit[v].link \in mailed
      BY <2>1 DEF SubmitCommit, TypeInv, TypeOK, SubjectsKnown
    <3> QED
      BY <2>1, <3>1 DEF SubmitCommit, OneResponsePerLink, TypeInv, TypeOK
  <2>2. ASSUME NEW d \in Dispatchers, SendMail(d) PROVE OneResponsePerLink'
    BY <2>2 DEF SendMail, OneResponsePerLink
  <2>3. ASSUME UNCHANGED <<usedAt, responses, mailed>> PROVE OneResponsePerLink'
    BY <2>3 DEF OneResponsePerLink
  <2>4. \/ UNCHANGED <<usedAt, responses, mailed>>
        \/ \E v \in Visitors : SubmitCommit(v)
        \/ \E d \in Dispatchers : SendMail(d)
    BY DEF Next, Dispatch, Answer, Start, FindToken, CreateToken, HashToken, AttendeeFails,
           RunDies, OpenForm, CreateTemplate, SubmitCheck, Leave, Expire, vars
  <2> QED
    BY <2>1, <2>2, <2>3, <2>4
<1> QED
  BY <1>1, <1>2, TypeInit, TypeStep, PTL DEF Spec

-----------------------------------------------------------------------------
(* Links.                                                                  *)

LinkInv ==
    /\ MailedLinksAreHashed
    /\ PlaceholderIsOwned
    /\ \A d \in Dispatchers : run[d].pc = "mail" => token[At(d)] = "hashed"

\* Every mailed link has a row with a hash of its own, and as long as nothing
\* dies no placeholder is left behind, so that a later run can insert its own
\* (feedback.service.ts dispatchFeedbackEmails).
THEOREM LinksCorrect == Spec => []NoPlaceholderStays
<1>1. Init => LinkInv
  BY DEF Init, LinkInv, MailedLinksAreHashed, PlaceholderIsOwned, NoRun
<1>2. TypeInv /\ LinkInv /\ [Next]_vars => LinkInv'
  <2> SUFFICES ASSUME TypeInv, LinkInv, [Next]_vars PROVE LinkInv'
    OBVIOUS
  <2>1. \A d \in Dispatchers : run[d].pc \in {"create", "hash", "mail"} => At(d) \in Links
    BY DEF TypeInv, SubjectsKnown, At, Links
  \* Runs other than the one that takes the step keep their place.
  <2>2. ASSUME NEW d \in Dispatchers, UNCHANGED <<token, mailed>>,
               run[d].pc # "hash" \/ faults' # 0, run'[d].pc # "mail",
               faults' = 0 => faults = 0,
               \A c \in Dispatchers \ {d} : run'[c] = run[c]
        PROVE  LinkInv'
    <3>1. \A c \in Dispatchers \ {d} : At(c)' = At(c)
      BY <2>2 DEF At
    <3>2. MailedLinksAreHashed'
      BY <2>2 DEF LinkInv, MailedLinksAreHashed
    <3>3. PlaceholderIsOwned'
      BY <2>2, <3>1 DEF LinkInv, PlaceholderIsOwned
    <3>4. \A c \in Dispatchers : run'[c].pc = "mail" => token'[At(c)'] = "hashed"
      BY <2>2, <3>1 DEF LinkInv
    <3> QED
      BY <3>2, <3>3, <3>4 DEF LinkInv, At
  <2>3. ASSUME NEW d \in Dispatchers, NEW e \in Events, Start(d, e) PROVE LinkInv'
    BY <2>2, <2>3 DEF Start, NoRun, TypeInv, TypeOK
  <2>4. ASSUME NEW d \in Dispatchers, NEW u \in Users, FindToken(d, u) PROVE LinkInv'
    <3>1. run'[d].pc # "mail" /\ \A c \in Dispatchers \ {d} : run'[c] = run[c]
      BY <2>4 DEF FindToken, TypeInv, TypeOK, NoRun, Run
    <3> QED
      BY <2>2, <2>4, <3>1 DEF FindToken
  <2>5. ASSUME NEW d \in Dispatchers, CreateToken(d) PROVE LinkInv'
    <3>1. CASE token[At(d)] = "absent" /\ \A l \in Links : token[l] # "pending"
      <4>1. /\ token' = [token EXCEPT ![At(d)] = "pending"]
            /\ run' = [run EXCEPT ![d] = [run[d] EXCEPT !.pc = "hash"]]
            /\ mailed' = mailed
        BY <2>5, <3>1 DEF CreateToken
      <4>2. At(d) \in Links
        BY <2>1, <2>5 DEF CreateToken
      <4>3. /\ \A c \in Dispatchers : At(c)' = At(c)
            /\ \A c \in Dispatchers \ {d} : run'[c] = run[c]
            /\ run'[d].pc = "hash"
        BY <4>1 DEF At, TypeInv, TypeOK, Run
      <4>4. \A l \in Links \ {At(d)} : token'[l] = token[l]
        BY <4>1 DEF TypeInv, TypeOK
      <4>5. MailedLinksAreHashed'
        BY <3>1, <4>1, <4>4 DEF LinkInv, MailedLinksAreHashed, TypeInv, TypeOK
      <4>6. PlaceholderIsOwned'
        BY <3>1, <4>3, <4>4 DEF PlaceholderIsOwned
      <4>7. \A c \in Dispatchers : run'[c].pc = "mail" => token'[At(c)'] = "hashed"
        BY <2>1, <3>1, <4>3, <4>4 DEF LinkInv
      <4> QED
        BY <4>5, <4>6, <4>7 DEF LinkInv, At
    <3>2. CASE ~(token[At(d)] = "absent" /\ \A l \in Links : token[l] # "pending")
      <4>1. Advance(d) /\ UNCHANGED <<token, mailed, faults>> /\ run[d].pc = "create"
        BY <2>5, <3>2 DEF CreateToken
      <4> QED
        BY <2>2, <4>1, AdvanceType
    <3> QED
      BY <3>1, <3>2
  <2>6. ASSUME NEW d \in Dispatchers, HashToken(d) PROVE LinkInv'
    <3>1. /\ token' = [token EXCEPT ![At(d)] = "hashed"]
          /\ run' = [run EXCEPT ![d] = [run[d] EXCEPT !.pc = "mail"]]
          /\ UNCHANGED <<mailed, faults>>
          /\ At(d) \in Links
      BY <2>1, <2>6 DEF HashToken
    <3>2. /\ \A c \in Dispatchers : At(c)' = At(c)
          /\ \A c \in Dispatchers \ {d} : run'[c] = run[c]
      BY <3>1 DEF At, TypeInv, TypeOK, Run
    <3>3. token'[At(d)] = "hashed" /\ \A l \in Links \ {At(d)} : token'[l] = token[l]
      BY <3>1 DEF TypeInv, TypeOK
    <3>4. MailedLinksAreHashed'
      BY <3>1, <3>3 DEF LinkInv, MailedLinksAreHashed, TypeInv, TypeOK
    <3>5. PlaceholderIsOwned'
      BY <3>1, <3>2, <3>3 DEF LinkInv, PlaceholderIsOwned
    <3>6. \A c \in Dispatchers : run'[c].pc = "mail" => token'[At(c)'] = "hashed"
      BY <2>1, <3>2, <3>3 DEF LinkInv
    <3> QED
      BY <3>4, <3>5, <3>6 DEF LinkInv, At
  <2>7. ASSUME NEW d \in Dispatchers, SendMail(d) PROVE LinkInv'
    <3>1. Advance(d) /\ mailed' = mailed \cup {At(d)} /\ UNCHANGED <<token, faults>>
          /\ run[d].pc = "mail" /\ token[At(d)] = "hashed"
      BY <2>7 DEF SendMail, LinkInv
    <3>2. /\ run'[d].pc \in {"idle", "next"}
          /\ \A c \in Dispatchers \ {d} : run'[c] = run[c] /\ At(c)' = At(c)
      BY <3>1, AdvanceType DEF At
    <3>3. MailedLinksAreHashed'
      BY <3>1 DEF LinkInv, MailedLinksAreHashed
    <3>4. PlaceholderIsOwned'
      BY <3>1, <3>2 DEF LinkInv, PlaceholderIsOwned
    <3>5. \A c \in Dispatchers : run'[c].pc = "mail" => token'[At(c)'] = "hashed"
      BY <3>1, <3>2 DEF LinkInv
    <3> QED
      BY <3>3, <3>4, <3>5 DEF LinkInv, At
  <2>8. ASSUME NEW d \in Dispatchers, AttendeeFails(d) \/ RunDies(d) PROVE LinkInv'
    <3>1. faults' # 0 /\ UNCHANGED <<token, mailed>>
      BY <2>8 DEF AttendeeFails, RunDies, TypeInv, TypeOK
    <3>2. run'[d].pc # "mail" /\ \A c \in Dispatchers \ {d} : run'[c] = run[c]
      BY <2>8, AdvanceType DEF AttendeeFails, RunDies, NoRun, TypeInv, TypeOK
    <3> QED
      BY <2>2, <3>1, <3>2
  <2>9. CASE UNCHANGED <<token, mailed, run, faults>>
    BY <2>9 DEF LinkInv, MailedLinksAreHashed, PlaceholderIsOwned, At
  <2>10. (\E v \in Visitors : Answer(v)) \/ (\E l \in Links : Expire(l)) \/ UNCHANGED vars =>
            UNCHANGED <<token, mailed, run, faults>>
    BY DEF Answer, OpenForm, CreateTemplate, SubmitCheck, SubmitCommit, Leave, Expire, vars
  <2> QED
    BY <2>3, <2>4, <2>5, <2>6, <2>7, <2>8, <2>9, <2>10 DEF Next, Dispatch
<1>3. LinkInv => NoPlaceholderStays
  BY DEF LinkInv, NoPlaceholderStays
<1> QED
  BY <1>1, <1>2, <1>3, TypeInit, TypeStep, PTL DEF Spec

-----------------------------------------------------------------------------
(* Support tickets (module Support).                                       *)

\* A reply that is about to set the ticket IN_PROGRESS meets it unsettled, or
\* it is known to be late.
RepliesAreLate ==
    \A r \in Visitors : reply[r].pc = "reopen" => status \in {"OPEN", "IN_PROGRESS"} \/ late

\* Every message is announced, and the page was reached or has read since.
Told(v) == v \notin unseen /\ \A r \in Visitors : reply[r].pc # "emit"

\* Only an open page is in the room; data are fresh only while nothing is fetched,
\* and an open page without a fetch has fresh data, none, or has failed; what is
\* fresh, and an answer on its way, holds every message the page was told of.
PagesFollow ==
    \A v \in S!Views :
        /\ view[v].joined => view[v].open
        /\ view[v].fresh => view[v].fetch = "none"
        /\ S!Shows(v) /\ view[v].fetch = "none" => view[v].fresh \/ view[v].failed
        /\ Told(v) /\ view[v].fresh => view[v].shown = "all"
        /\ Told(v) /\ view[v].fetch = "read" => view[v].answer = "all"

\* The inductive invariant.
SupportInv == S!TypeOK /\ PagesFollow /\ RepliesAreLate

\* No ticket, no page, no reply.
LEMMA SupportInit == S!Init => SupportInv
<1> SUFFICES ASSUME S!Init PROVE SupportInv
  OBVIOUS
<1> USE LossesAreNat DEF S!Init
<1>1. S!TypeOK
  <2>1. S!Closed \in S!View
    BY DEF S!Closed, S!View, S!Held
  <2>2. S!NoReply \in S!Reply
    BY DEF S!NoReply, S!Reply
  <2>3. 0 \in 0 .. MaxLosses
    OBVIOUS
  <2>4. QED
    BY <2>1, <2>2, <2>3 DEF S!TypeOK, S!Status
<1>2. PagesFollow
  BY DEF PagesFollow, S!Shows, S!Closed
<1>3. RepliesAreLate
  BY DEF RepliesAreLate, S!NoReply
<1>4. QED
  BY <1>1, <1>2, <1>3 DEF SupportInv

\* An invalidation leaves a page without fresh data: it asks again, or it is
\* closed or waits for its first answer, which stays on its way.
LEMMA InvalidatedPage ==
    ASSUME S!TypeOK, NEW v \in S!Views, NEW p, p = S!Invalidated(v)
    PROVE  /\ p \in S!View
           /\ ~p.fresh
           /\ p.open = view[v].open /\ p.joined = view[v].joined
           /\ p.open /\ p.shown # "none" => p.fetch # "none"
           /\ \/ p.fetch = "asked"
              \/ /\ p.fetch = view[v].fetch /\ p.answer = view[v].answer
                 /\ ~S!Shows(v) /\ (view[v].open => view[v].fetch # "none")
<1>1. view[v] \in S!View
  BY DEF S!TypeOK
<1>2. CASE S!Shows(v) \/ (view[v].open /\ view[v].fetch = "none")
  <2>1. p = [view[v] EXCEPT !.fetch = "asked", !.answer = "none", !.failed = FALSE, !.fresh = FALSE]
    BY <1>2 DEF S!Invalidated, S!Asking
  <2>2. QED
    BY <1>1, <2>1 DEF S!View, S!Held
<1>3. CASE ~(S!Shows(v) \/ (view[v].open /\ view[v].fetch = "none"))
  <2>1. p = [view[v] EXCEPT !.fresh = FALSE]
    BY <1>3 DEF S!Invalidated
  <2>2. QED
    BY <1>1, <1>3, <2>1 DEF S!View, S!Held, S!Shows
<1>4. QED
  BY <1>2, <1>3

\* One step per action of Support.
LEMMA SupportNext == SupportInv /\ [S!Next]_ticket => SupportInv'
<1> SUFFICES ASSUME SupportInv, [S!Next]_ticket PROVE SupportInv'
  OBVIOUS
<1> USE LossesAreNat DEF SupportInv
<1>1. CASE UNCHANGED ticket
  BY <1>1 DEF ticket, S!TypeOK, PagesFollow, Told, S!Shows, RepliesAreLate
<1>2. ASSUME NEW by \in {"author", "nobody"}, S!CreateTicket(by)
      PROVE  SupportInv'
  <2> USE <1>2 DEF S!CreateTicket
  <2>1. S!TypeOK'
    BY DEF S!TypeOK, S!Status
  <2>2. PagesFollow'
    BY DEF PagesFollow, Told, S!Shows, S!TypeOK
  <2>3. RepliesAreLate'
    BY DEF RepliesAreLate, S!TypeOK
  <2>4. QED
    BY <2>1, <2>2, <2>3
<1>3. ASSUME NEW s \in S!Settled, S!UpdateStatus(s)
      PROVE  SupportInv'
  <2> USE <1>3 DEF S!UpdateStatus
  <2>1. S!TypeOK'
    BY DEF S!TypeOK, S!Status, S!Settled
  <2>2. PagesFollow'
    BY DEF PagesFollow, Told, S!Shows, S!TypeOK
  <2>3. RepliesAreLate'
    BY DEF RepliesAreLate, S!TypeOK
  <2>4. QED
    BY <2>1, <2>2, <2>3
<1>4. ASSUME S!StatusUpdated
      PROVE  SupportInv'
  <2> USE <1>4 DEF S!StatusUpdated
  <2> DEFINE p == S!Invalidated("admin")
  <2>1. "admin" \in S!Views
    BY DEF S!Views
  <2>2. view' = [view EXCEPT !["admin"] = p]
    OBVIOUS
  <2> HIDE DEF p
  <2>3. S!TypeOK'
    BY <2>1, <2>2, InvalidatedPage DEF p, S!TypeOK
  <2>4. PagesFollow'
    BY <2>1, <2>2, InvalidatedPage DEF p, PagesFollow, Told, S!Shows, S!TypeOK
  <2>5. QED
    BY <2>3, <2>4 DEF RepliesAreLate
<1>5. ASSUME NEW r \in Visitors, NEW v \in S!Views, S!AddMessage(r, v)
      PROVE  SupportInv'
  <2> USE <1>5 DEF S!AddMessage
  <2>1. S!TypeOK'
    BY DEF S!TypeOK, S!Reply
  <2>2. PagesFollow'
    BY DEF PagesFollow, Told, S!Shows, S!TypeOK, S!NoReply
  <2>3. RepliesAreLate'
    BY DEF RepliesAreLate, S!TypeOK
  <2>4. QED
    BY <2>1, <2>2, <2>3
<1>6. ASSUME NEW r \in Visitors, S!SetInProgress(r)
      PROVE  SupportInv'
  <2> USE <1>6 DEF S!SetInProgress
  <2>1. S!TypeOK'
    BY DEF S!TypeOK, S!Reply, S!Status
  <2>2. PagesFollow'
    BY DEF PagesFollow, Told, S!Shows, S!TypeOK, S!Reply
  <2>3. RepliesAreLate'
    BY DEF RepliesAreLate, S!TypeOK
  <2>4. QED
    BY <2>1, <2>2, <2>3
<1>7. ASSUME NEW r \in Visitors, S!InsertMessage(r)
      PROVE  SupportInv'
  <2> DEFINE Lacking(held) == IF held = "all" THEN "part" ELSE held
  <2>1. /\ view' = [v \in S!Views |-> [view[v] EXCEPT !.answer = Lacking(@), !.shown = Lacking(@)]]
        /\ reply' = [reply EXCEPT ![r].pc = "emit"]
        /\ UNCHANGED <<status, owner, unseen, late, losses>>
    BY <1>7 DEF S!InsertMessage
  <2>2. ASSUME NEW v \in S!Views
        PROVE  /\ view'[v] \in S!View
               /\ view'[v].open = view[v].open /\ view'[v].joined = view[v].joined
               /\ view'[v].fetch = view[v].fetch /\ view'[v].failed = view[v].failed
               /\ view'[v].fresh = view[v].fresh
               /\ view'[v].shown = "none" <=> view[v].shown = "none"
    <3>1. view[v] \in S!View
      BY DEF S!TypeOK
    <3>2. Lacking(view[v].answer) \in S!Held /\ Lacking(view[v].shown) \in S!Held
      BY <3>1 DEF S!View, S!Held
    <3>3. Lacking(view[v].shown) = "none" <=> view[v].shown = "none"
      BY <3>1 DEF S!View, S!Held
    <3>4. view'[v] = [view[v] EXCEPT !.answer = Lacking(view[v].answer),
                                     !.shown = Lacking(view[v].shown)]
      BY <2>1
    <3> HIDE DEF Lacking
    <3>5. QED
      BY <3>1, <3>2, <3>3, <3>4 DEF S!View
  <2> HIDE DEF Lacking
  <2>3. S!TypeOK'
    BY <2>1, <2>2 DEF S!TypeOK, S!Reply
  <2>4. PagesFollow'
    <3>1. reply'[r].pc = "emit"
      BY <2>1 DEF S!TypeOK, S!Reply
    <3>2. \A v \in S!Views : ~Told(v)'
      BY <3>1 DEF Told
    <3>3. QED
      BY <2>2, <3>2 DEF PagesFollow, S!Shows
  <2>5. RepliesAreLate'
    BY <2>1 DEF RepliesAreLate, S!TypeOK, S!Reply
  <2>6. QED
    BY <2>3, <2>4, <2>5
<1>8. ASSUME NEW r \in Visitors, S!EmitMessage(r)
      PROVE  SupportInv'
  <2> USE <1>8 DEF S!EmitMessage
  <2>1. \A v \in S!Views :
           /\ view[v].joined => view'[v] = S!Invalidated(v)
           /\ ~view[v].joined => view'[v] = view[v] /\ v \in unseen'
           /\ ~S!Shows(v) /\ view[v].fetch = "read" => v \in unseen'
    BY DEF S!Unreached
  <2>2. S!TypeOK'
    <3>1. \A v \in S!Views : view'[v] \in S!View
      BY <2>1, InvalidatedPage DEF S!TypeOK
    <3>2. view' \in [S!Views -> S!View]
      BY <3>1
    <3>3. QED
      BY <3>2 DEF S!TypeOK, S!Reply, S!Unreached
  <2>3. PagesFollow'
    <3> SUFFICES ASSUME NEW v \in S!Views
                 PROVE  /\ view'[v].joined => view'[v].open
                        /\ view'[v].fresh => view'[v].fetch = "none"
                        /\ S!Shows(v)' /\ view'[v].fetch = "none" => view'[v].fresh \/ view'[v].failed
                        /\ Told(v)' /\ view'[v].fresh => view'[v].shown = "all"
                        /\ Told(v)' /\ view'[v].fetch = "read" => view'[v].answer = "all"
      BY DEF PagesFollow
    <3>1. CASE view[v].joined
      BY <2>1, <3>1, InvalidatedPage DEF PagesFollow, Told, S!Shows
    <3>2. CASE ~view[v].joined
      BY <2>1, <3>2 DEF PagesFollow, Told, S!Shows
    <3>3. QED
      BY <3>1, <3>2
  <2>4. RepliesAreLate'
    BY DEF RepliesAreLate, S!TypeOK, S!Reply
  <2>5. QED
    BY <2>2, <2>3, <2>4
<1>9. ASSUME NEW r \in Visitors, S!Answer(r)
      PROVE  SupportInv'
  <2> USE <1>9 DEF S!Answer
  <2> DEFINE v == reply[r].from
             p == S!Invalidated(v)
  <2>1. view' = [view EXCEPT ![v] = p] /\ reply' = [reply EXCEPT ![r] = S!NoReply]
    OBVIOUS
  <2>2. ASSUME v \in S!Views PROVE view' \in [S!Views -> S!View] /\ PagesFollow'
    <3> HIDE DEF p
    <3>1. view' \in [S!Views -> S!View]
      BY <2>1, <2>2, InvalidatedPage DEF p, S!TypeOK
    <3>2. PagesFollow'
      BY <2>1, <2>2, InvalidatedPage DEF p, PagesFollow, Told, S!Shows, S!TypeOK, S!NoReply
    <3>3. QED
      BY <3>1, <3>2
  <2>3. ASSUME v \notin S!Views PROVE view' = view
    BY <2>1, <2>3 DEF S!TypeOK
  <2>4. PagesFollow' /\ view' \in [S!Views -> S!View]
    BY <2>1, <2>2, <2>3 DEF PagesFollow, Told, S!Shows, S!TypeOK, S!NoReply
  <2>5. S!TypeOK'
    BY <2>4 DEF S!TypeOK, S!Reply, S!NoReply
  <2>6. RepliesAreLate'
    BY DEF RepliesAreLate, S!TypeOK, S!NoReply
  <2>7. QED
    BY <2>4, <2>5, <2>6
<1>10. ASSUME NEW r \in Visitors, S!Die(r)
      PROVE  SupportInv'
  <2> USE <1>10 DEF S!Die
  <2>1. S!TypeOK'
    BY DEF S!TypeOK, S!Reply, S!NoReply
  <2>2. PagesFollow'
    BY DEF PagesFollow, Told, S!Shows, S!TypeOK, S!NoReply
  <2>3. RepliesAreLate'
    BY DEF RepliesAreLate, S!TypeOK, S!NoReply
  <2>4. QED
    BY <2>1, <2>2, <2>3
<1>11. ASSUME NEW v \in S!Views, S!OpenPage(v)
      PROVE  SupportInv'
  <2>1. /\ view[v] \in S!View /\ ~view[v].open
        /\ UNCHANGED <<status, owner, reply, unseen, late, losses>>
    BY <1>11 DEF S!OpenPage, S!TypeOK
  <2>2. CASE (view[v].fresh \/ view[v].fetch # "none") /\ view' = [view EXCEPT ![v].open = TRUE]
    <3>1. S!TypeOK'
      BY <2>1, <2>2 DEF S!TypeOK, S!View
    <3>2. PagesFollow'
      BY <2>1, <2>2 DEF PagesFollow, Told, S!Shows, S!TypeOK, S!View
    <3>3. QED
      BY <2>1, <3>1, <3>2 DEF RepliesAreLate
  <2>3. CASE view' = [view EXCEPT ![v] = [S!Asking(v) EXCEPT !.open = TRUE]]
    <3> DEFINE p == [view[v] EXCEPT !.fetch = "asked", !.answer = "none", !.failed = FALSE,
                                    !.fresh = FALSE, !.open = TRUE]
    <3>1. /\ p \in S!View
          /\ p.open /\ p.fetch = "asked" /\ ~p.fresh
      BY <2>1 DEF S!View, S!Held
    <3>2. view' = [view EXCEPT ![v] = p]
      BY <2>1, <2>3 DEF S!Asking, S!View
    <3> HIDE DEF p
    <3>3. S!TypeOK'
      BY <2>1, <3>1, <3>2 DEF S!TypeOK
    <3>4. PagesFollow'
      BY <2>1, <3>1, <3>2 DEF PagesFollow, Told, S!Shows, S!TypeOK
    <3>5. QED
      BY <2>1, <3>3, <3>4 DEF RepliesAreLate
  <2>4. QED
    BY <1>11, <2>2, <2>3 DEF S!OpenPage
<1>12. ASSUME NEW v \in S!Views, S!JoinTicket(v)
      PROVE  SupportInv'
  <2> USE <1>12 DEF S!JoinTicket
  <2>1. S!TypeOK'
    BY DEF S!TypeOK, S!View, S!Held
  <2>2. PagesFollow'
    BY DEF PagesFollow, Told, S!Shows, S!TypeOK, S!View, S!Held
  <2>3. RepliesAreLate'
    BY DEF RepliesAreLate, S!TypeOK
  <2>4. QED
    BY <2>1, <2>2, <2>3
<1>13. ASSUME NEW v \in S!Views, S!ReadTicket(v)
      PROVE  SupportInv'
  <2> USE <1>13 DEF S!ReadTicket
  <2>1. S!TypeOK'
    BY DEF S!TypeOK, S!View, S!Held
  <2>2. PagesFollow'
    BY DEF PagesFollow, Told, S!Shows, S!TypeOK, S!View, S!Held
  <2>3. RepliesAreLate'
    BY DEF RepliesAreLate, S!TypeOK
  <2>4. QED
    BY <2>1, <2>2, <2>3
<1>14. ASSUME NEW v \in S!Views, S!ShowTicket(v)
      PROVE  SupportInv'
  <2> USE <1>14 DEF S!ShowTicket
  <2>1. S!TypeOK'
    BY DEF S!TypeOK, S!View, S!Held
  <2>2. PagesFollow'
    BY DEF PagesFollow, Told, S!Shows, S!TypeOK, S!View, S!Held
  <2>3. RepliesAreLate'
    BY DEF RepliesAreLate, S!TypeOK
  <2>4. QED
    BY <2>1, <2>2, <2>3
<1>15. ASSUME NEW v \in S!Views, S!FailToFetch(v)
      PROVE  SupportInv'
  <2> USE <1>15 DEF S!FailToFetch
  <2>1. S!TypeOK'
    BY DEF S!TypeOK, S!View, S!Held
  <2>2. PagesFollow'
    BY DEF PagesFollow, Told, S!Shows, S!TypeOK, S!View, S!Held
  <2>3. RepliesAreLate'
    BY DEF RepliesAreLate, S!TypeOK
  <2>4. QED
    BY <2>1, <2>2, <2>3
<1>16. ASSUME NEW v \in S!Views, S!BackOnline(v)
      PROVE  SupportInv'
  <2> USE <1>16 DEF S!BackOnline
  <2>1. S!TypeOK'
    BY DEF S!TypeOK, S!Asking, S!View, S!Held
  <2>2. PagesFollow'
    BY DEF PagesFollow, Told, S!Shows, S!TypeOK, S!Asking, S!View, S!Held
  <2>3. RepliesAreLate'
    BY DEF RepliesAreLate, S!TypeOK
  <2>4. QED
    BY <2>1, <2>2, <2>3
<1>17. ASSUME NEW v \in S!Views, S!ClosePage(v)
      PROVE  SupportInv'
  <2> USE <1>17 DEF S!ClosePage
  <2>1. S!TypeOK'
    BY DEF S!TypeOK, S!View, S!Held
  <2>2. PagesFollow'
    BY DEF PagesFollow, Told, S!Shows, S!TypeOK, S!View, S!Held
  <2>3. RepliesAreLate'
    BY DEF RepliesAreLate, S!TypeOK
  <2>4. QED
    BY <2>1, <2>2, <2>3
<1>18. ASSUME NEW v \in S!Views, S!Forget(v)
      PROVE  SupportInv'
  <2> USE <1>18 DEF S!Forget
  <2>1. S!TypeOK'
    BY DEF S!TypeOK, S!Closed, S!View, S!Held
  <2>2. PagesFollow'
    BY DEF PagesFollow, Told, S!Shows, S!TypeOK, S!Closed, S!View, S!Held
  <2>3. RepliesAreLate'
    BY DEF RepliesAreLate, S!TypeOK
  <2>4. QED
    BY <2>1, <2>2, <2>3
<1>19. ASSUME NEW v \in S!Views, S!Break(v)
      PROVE  SupportInv'
  <2> USE <1>19 DEF S!Break
  <2>1. S!TypeOK'
    <3>1. view' \in [S!Views -> S!View]
      BY DEF S!TypeOK, S!View
    <3>2. losses' \in 0 .. MaxLosses
      BY DEF S!TypeOK
    <3>3. QED
      BY <3>1, <3>2 DEF S!TypeOK
  <2>2. PagesFollow'
    BY DEF PagesFollow, Told, S!Shows, S!TypeOK, S!View, S!Held
  <2>3. RepliesAreLate'
    BY DEF RepliesAreLate, S!TypeOK
  <2>4. QED
    BY <2>1, <2>2, <2>3
<1>20. QED
  BY <1>1, <1>2, <1>3, <1>4, <1>5, <1>6, <1>7, <1>8, <1>9, <1>10, <1>11, <1>12, <1>13, <1>14,
     <1>15, <1>16, <1>17, <1>18, <1>19 DEF S!Next

\* While feedback takes its turn the ticket stays as it is.
LEMMA SupportSteps == [PartNext]_<<vars, ticket, part>> => [S!Next]_ticket
BY DEF PartNext

\* A page that shows the ticket and is not fetching it shows every message that
\* was announced, unless its last fetch failed or it has not read since an
\* announcement that did not reach it, or that met its first answer on the way
\* (useSupportSocket.ts).
THEOREM SupportCorrect == PartSpec => []ConversationIsShown
<1>1. PartInit => SupportInv
  BY SupportInit DEF PartInit
<1>2. SupportInv /\ [PartNext]_<<vars, ticket, part>> => SupportInv'
  BY SupportSteps, SupportNext
<1>3. SupportInv => ConversationIsShown
  BY DEF SupportInv, PagesFollow, Told, ConversationIsShown, S!ConversationIsShown
<1>4. QED
  BY <1>1, <1>2, <1>3, PTL DEF PartSpec

\* A settled ticket stays settled unless a reply had read it as OPEN
\* (support.service.ts:116).
THEOREM SettledCorrect == PartSpec => SettledStaysSettled
<1>1. PartInit => SupportInv
  BY SupportInit DEF PartInit
<1>2. SupportInv /\ [PartNext]_<<vars, ticket, part>> => SupportInv'
  BY SupportSteps, SupportNext
<1>3. ASSUME SupportInv, [PartNext]_<<vars, ticket, part>>
      PROVE  [(part = "support") => S!StaysSettled]_<<ticket, part>>
  <2>1. S!StaysSettled
    BY <1>3, SupportSteps DEF S!StaysSettled, S!Next, ticket, S!CreateTicket, S!UpdateStatus, S!StatusUpdated, S!AddMessage,
       S!SetInProgress, S!InsertMessage, S!EmitMessage, S!Answer, S!Die, S!OpenPage, S!JoinTicket,
       S!ReadTicket, S!ShowTicket, S!FailToFetch, S!BackOnline, S!ClosePage, S!Forget, S!Break, S!Settled, SupportInv, RepliesAreLate
  <2>2. QED
    BY <2>1
<1>4. QED
  BY <1>1, <1>2, <1>3, PTL DEF PartSpec, SettledStaysSettled
=============================================================================
