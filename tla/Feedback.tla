------------------------------ MODULE Feedback ------------------------------
(***************************************************************************)
(* Feedback links and responses: FeedbackService                           *)
(* (src/apps/api/src/feedback/feedback.service.ts).                        *)
(*                                                                         *)
(* dispatchFeedbackEmails walks over the attendees of an event and gives   *)
(* each a "feedback_tokens" row and a mail with a link to it.  It runs     *)
(* after an archive and whenever an organizer asks for it, for any event,  *)
(* so several runs overlap.  A row is first inserted with the placeholder  *)
(* hash 'pending', which the unique index on token_hash admits once in the *)
(* whole table, and gets its own hash in a second statement.  An error     *)
(* about one attendee is logged and the run goes on with the next.         *)
(*                                                                         *)
(* A visitor opens a link (resolveFeedbackForm) and submits it             *)
(* (submitFeedback).  A link is a signed id of its row: the stored hash is *)
(* never compared.  All events here use the default form; templates that   *)
(* organizers attach are left out.                                         *)
(***************************************************************************)
EXTENDS Naturals, FiniteSets

CONSTANTS
    Events,      \* events with feedback
    Users,       \* the attendees of each event
    Templates,   \* primary keys of default templates (bound on rows ever created)
    Dispatchers, \* runs of dispatchFeedbackEmails in flight at once (bound)
    Visitors,    \* browsers that hold a form or a submission at once (bound)
    MaxFaults,   \* runs that die half-way (bound)
    None         \* NULL

ASSUME FaultsAreNat == MaxFaults \in Nat
ASSUME NoneIsNothing == None \notin Events \cup Users \cup Templates

Links == Events \X Users

VARIABLES
    token,     \* table "feedback_tokens": (event, user) -> hash column
    usedAt,    \* rows whose usedAt is set
    responses, \* table "feedback_responses": (event, user) -> rows for its token
    mailed,    \* links that were mailed
    defaults,  \* default templates in the database
    expired,   \* rows past their expiresAt, which a second dispatch does not renew
    run,       \* runs of dispatchFeedbackEmails
    visit,     \* visitors
    missed,    \* history: attendees a run passed over because of an error
    faults

vars == <<token, usedAt, responses, mailed, defaults, expired, run, visit, missed, faults>>

-----------------------------------------------------------------------------
Hash == {"absent", "pending", "hashed"}

Run == [pc : {"idle", "next", "create", "hash", "mail"}, event : Events \cup {None},
        left : SUBSET Users, user : Users \cup {None}]

NoRun == [pc |-> "idle", event |-> None, left |-> {}, user |-> None]

Visit == [pc : {"away", "opening", "open", "checked"},
          link : Links \cup {None}, form : Templates \cup {None}]

NoVisit == [pc |-> "away", link |-> None, form |-> None]

\* The attendee a run is about.
At(d) == <<run[d].event, run[d].user>>

\* The run turns to its next attendee, or ends.
Advance(d) ==
    run' = [run EXCEPT ![d] =
              IF @.left = {} THEN NoRun ELSE [@ EXCEPT !.pc = "next", !.user = None]]

-----------------------------------------------------------------------------
Init ==
    /\ token = [l \in Links |-> "absent"]
    /\ usedAt = {}
    /\ responses = [l \in Links |-> 0]
    /\ mailed = {}
    /\ defaults = {}
    /\ expired = {}
    /\ run = [d \in Dispatchers |-> NoRun]
    /\ visit = [v \in Visitors |-> NoVisit]
    /\ missed = {}
    /\ faults = 0

\* dispatchFeedbackEmails reads the attendees; no status of the event is
\* checked.
Start(d, e) ==
    /\ run[d] = NoRun
    /\ run' = [run EXCEPT ![d] = [pc |-> "next", event |-> e, left |-> Users, user |-> None]]
    /\ UNCHANGED <<token, usedAt, responses, mailed, defaults, expired, visit, missed, faults>>

\* findUnique by (event, user).
FindToken(d, u) ==
    /\ run[d].pc = "next"
    /\ u \in run[d].left
    /\ LET l == <<run[d].event, u>>
           rest == run[d].left \ {u}
       IN  run' = [run EXCEPT ![d] =
                     IF l \in usedAt
                       THEN IF rest = {} THEN NoRun ELSE [@ EXCEPT !.left = rest]
                       ELSE [@ EXCEPT !.left = rest, !.user = u,
                                      !.pc = IF token[l] = "absent" THEN "create" ELSE "hash"]]
    /\ UNCHANGED <<token, usedAt, responses, mailed, defaults, expired, visit, missed, faults>>

\* The insert of the placeholder: token_hash and (event, user) are unique.
CreateToken(d) ==
    /\ run[d].pc = "create"
    /\ IF token[At(d)] = "absent" /\ \A l \in Links : token[l] # "pending"
         THEN /\ token' = [token EXCEPT ![At(d)] = "pending"]
              /\ run' = [run EXCEPT ![d].pc = "hash"]
              /\ UNCHANGED missed
         ELSE /\ missed' = missed \cup {At(d)}
              /\ Advance(d)
              /\ UNCHANGED token
    /\ UNCHANGED <<usedAt, responses, mailed, defaults, expired, visit, faults>>

\* Mutant: the hash is never stored.
HashForgotten(d) ==
    /\ run[d].pc = "hash"
    /\ run' = [run EXCEPT ![d].pc = "mail"]
    /\ UNCHANGED <<token, usedAt, responses, mailed, defaults, expired, visit, missed, faults>>

HashToken(d) ==
    /\ run[d].pc = "hash"
    /\ token' = [token EXCEPT ![At(d)] = "hashed"]
    /\ run' = [run EXCEPT ![d].pc = "mail"]
    /\ UNCHANGED <<usedAt, responses, mailed, defaults, expired, visit, missed, faults>>

SendMail(d) ==
    /\ run[d].pc = "mail"
    /\ mailed' = mailed \cup {At(d)}
    /\ Advance(d)
    /\ UNCHANGED <<token, usedAt, responses, defaults, expired, visit, missed, faults>>

\* A statement or the mail of the current attendee fails: caught and logged.
AttendeeFails(d) ==
    /\ run[d].pc \in {"create", "hash", "mail"}
    /\ faults < MaxFaults
    /\ faults' = faults + 1
    /\ missed' = missed \cup {At(d)}
    /\ Advance(d)
    /\ UNCHANGED <<token, usedAt, responses, mailed, defaults, expired, visit>>

\* The process dies.
RunDies(d) ==
    /\ run[d] # NoRun
    /\ faults < MaxFaults
    /\ faults' = faults + 1
    /\ run' = [run EXCEPT ![d] = NoRun]
    /\ UNCHANGED <<token, usedAt, responses, mailed, defaults, expired, visit, missed>>

-----------------------------------------------------------------------------
\* resolveFeedbackForm, up to getOrCreateDefaultTemplate's findFirst, which
\* has no order and may return any default template.
OpenForm(v, l) ==
    /\ visit[v].pc = "away"
    /\ l \in mailed \ expired
    /\ \/ \E t \in defaults :
             visit' = [visit EXCEPT ![v] = [pc |-> "open", link |-> l, form |-> t]]
       \/ /\ defaults = {}
          /\ visit' = [visit EXCEPT ![v] = [pc |-> "opening", link |-> l, form |-> None]]
    /\ UNCHANGED <<token, usedAt, responses, mailed, defaults, expired, run, missed, faults>>

\* getOrCreateDefaultTemplate's create, after a findFirst that found nothing.
CreateTemplate(v) ==
    /\ visit[v].pc = "opening"
    /\ \E t \in Templates \ defaults :
          /\ defaults' = defaults \cup {t}
          /\ visit' = [visit EXCEPT ![v] = [@ EXCEPT !.pc = "open", !.form = t]]
    /\ UNCHANGED <<token, usedAt, responses, mailed, expired, run, missed, faults>>

\* submitFeedback, up to its transaction: the questions answered must be those
\* of the template that findFirst returns now.
SubmitCheck(v) ==
    /\ visit[v].pc = "open"
    /\ visit[v].link \notin usedAt \cup expired
    /\ visit[v].form \in defaults
    /\ visit' = [visit EXCEPT ![v].pc = "checked"]
    /\ UNCHANGED <<token, usedAt, responses, mailed, defaults, expired, run, missed, faults>>

\* Mutant: no unique index on the response's token_id.
SubmitWithoutIndex(v) ==
    /\ visit[v].pc = "checked"
    /\ responses' = [responses EXCEPT ![visit[v].link] = IF @ < 2 THEN @ + 1 ELSE @]
    /\ usedAt' = usedAt \cup {visit[v].link}
    /\ visit' = [visit EXCEPT ![v] = NoVisit]
    /\ UNCHANGED <<token, mailed, defaults, expired, run, missed, faults>>

\* submitFeedback's transaction, which the unique token_id of a response
\* refuses the second time.
SubmitCommit(v) ==
    /\ visit[v].pc = "checked"
    /\ responses[visit[v].link] = 0
    /\ responses' = [responses EXCEPT ![visit[v].link] = 1]
    /\ usedAt' = usedAt \cup {visit[v].link}
    /\ visit' = [visit EXCEPT ![v] = NoVisit]
    /\ UNCHANGED <<token, mailed, defaults, expired, run, missed, faults>>

\* The visitor leaves, or the call ends in an error.
Leave(v) ==
    /\ visit[v].pc # "away"
    /\ visit' = [visit EXCEPT ![v] = NoVisit]
    /\ UNCHANGED <<token, usedAt, responses, mailed, defaults, expired, run, missed, faults>>

Expire(l) ==
    /\ token[l] # "absent"
    /\ l \notin expired
    /\ expired' = expired \cup {l}
    /\ UNCHANGED <<token, usedAt, responses, mailed, defaults, run, visit, missed, faults>>

-----------------------------------------------------------------------------
Dispatch(d) ==
    \/ \E e \in Events : Start(d, e)
    \/ \E u \in Users : FindToken(d, u)
    \/ CreateToken(d) \/ HashToken(d) \/ SendMail(d) \/ AttendeeFails(d) \/ RunDies(d)

Answer(v) ==
    \/ \E l \in Links : OpenForm(v, l)
    \/ CreateTemplate(v) \/ SubmitCheck(v) \/ SubmitCommit(v) \/ Leave(v)

Next ==
    \/ \E d \in Dispatchers : Dispatch(d)
    \/ \E v \in Visitors : Answer(v)
    \/ \E l \in Links : Expire(l)

Spec == Init /\ [][Next]_vars

-----------------------------------------------------------------------------
(* Properties.                                                             *)

\* Tables, runs and visits are well formed (type invariant).
TypeOK ==
    /\ token \in [Links -> Hash]
    /\ usedAt \in SUBSET Links
    /\ responses \in [Links -> Nat]
    /\ mailed \in SUBSET Links
    /\ defaults \in SUBSET Templates
    /\ expired \in SUBSET Links
    /\ run \in [Dispatchers -> Run]
    /\ visit \in [Visitors -> Visit]
    /\ missed \in SUBSET Links
    /\ faults \in 0 .. MaxFaults

\* However often a link is mailed, opened and submitted at the same time, it
\* yields one response, it is marked as used exactly when it has, and every
\* response comes from a link that was mailed (feedback.service.ts
\* submitFeedback).
OneResponsePerLink ==
    \A l \in Links :
       /\ responses[l] <= 1
       /\ l \in usedAt <=> responses[l] = 1
       /\ l \in usedAt => l \in mailed

\* As long as nothing dies, a placeholder row has a run that is about to
\* replace it, so that it never blocks the table for good
\* (feedback.service.ts dispatchFeedbackEmails).
PlaceholderIsOwned ==
    faults = 0 =>
       \A l \in Links :
          token[l] = "pending" => \E d \in Dispatchers : run[d].pc = "hash" /\ At(d) = l

\* A link is mailed only once its row carries its own hash
\* (feedback.service.ts dispatchFeedbackEmails).
MailedLinksAreHashed == \A l \in mailed : token[l] = "hashed"

\* The two sides of the placeholder: it leaves before the mail does, and it
\* does leave.
NoPlaceholderStays == MailedLinksAreHashed /\ PlaceholderIsOwned

\* No run passes over an attendee of its event: the comment calls it
\* idempotent and safe to call several times (feedback.service.ts:211).
NobodyMissed == missed = {}
=============================================================================
