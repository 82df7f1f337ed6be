----------------------------- MODULE Graduation -----------------------------
(***************************************************************************)
(* Guest passes of a graduation: GraduationService                         *)
(* (src/apps/api/src/graduation/graduation.service.ts) and the delivery of *)
(* passes by the bot (src/apps/api/src/telegram/telegram.service.ts).      *)
(*                                                                         *)
(* An organizer imports graduates; each gets a number of guest slots by    *)
(* tier and, by mail, a claim link.  A claim (submitClaim) reads the       *)
(* record, checks it, and then inserts one pass per parent and marks the   *)
(* record as claimed in one transaction.  Mails to parents are started     *)
(* with setImmediate inside that transaction, mails to the graduate after  *)
(* it, and the bot sends a pass when a parent opens a deep link.           *)
(*                                                                         *)
(* Every pass is first inserted with qrToken 'PENDING', which is unique:   *)
(* while a transaction has inserted a pass, the inserts of others wait.    *)
(***************************************************************************)
EXTENDS Naturals, Sequences, FiniteSets

CONSTANTS
    Graduates, \* e-mail addresses of graduates of one event
    Passes,    \* primary keys of guest passes (bound on rows ever inserted)
    Claims,    \* submitClaim calls in flight at once (bound)
    Chats,     \* /start messages the bot handles at once (bound)
    Slots,     \* the guest slots a tier may grant
    MaxFaults, \* failed transactions and restarts (bound)
    None       \* NULL

ASSUME BoundsAreNat == Slots \subseteq Nat /\ MaxFaults \in Nat
ASSUME PassesAreFinite == IsFiniteSet(Passes)
ASSUME NoneIsNothing == None \notin Slots \cup Graduates \cup Passes

VARIABLES
    slots,      \* table "graduation_records": graduate -> guestSlots
    claimed,    \* records whose claimed column is set
    pass,       \* table "guest_passes"
    claim,      \* submitClaim calls
    job,        \* pass -> the mail to a parent started by setImmediate
    chat,       \* the bot's handlers
    sent,       \* passes that reached an inbox or a chat
    delivered,  \* passes whose delivered column is set
    overlapped, \* history: records two claims were submitted for at once
    faults

vars == <<slots, claimed, pass, claim, job, chat, sent, delivered, overlapped, faults>>

-----------------------------------------------------------------------------
Method == {"TELEGRAM", "EMAIL", "GUEST_EMAIL"}

MaxParents == 3 \* ClaimSubmissionDto

\* A pass is "open" as long as its transaction is, and "gone" if that failed.
Pass == [state : {"unused", "open", "stored", "gone"}, record : Graduates \cup {None},
         method : Method \cup {None}]

NoPass == [state |-> "unused", record |-> None, method |-> None]

Call == [pc : {"none", "checked", "open", "bulk", "bulkSent"}, record : Graduates \cup {None},
         ask : Seq(Method), made : SUBSET Passes]

NoCall == [pc |-> "none", record |-> None, ask |-> <<>>, made |-> {}]

NoChat == [pc |-> "none", pass |-> None]

\* The deliveries a claim for n parents may ask for: all to the graduate, or none.
Asks(n) ==
    {a \in UNION {[1 .. i -> Method] : i \in 1 .. n} :
       (\E i \in DOMAIN a : a[i] = "GUEST_EMAIL") => \A i \in DOMAIN a : a[i] = "GUEST_EMAIL"}

\* The passes of a record that are in the table.
Stored(g) == {p \in Passes : pass[p].state = "stored" /\ pass[p].record = g}

\* The rows a transaction inserted, with a new state.
Settle(S, state) ==
    pass' = [p \in Passes |-> IF p \in S THEN [pass[p] EXCEPT !.state = state] ELSE pass[p]]

-----------------------------------------------------------------------------
Init ==
    /\ slots = [g \in Graduates |-> None]
    /\ claimed = {}
    /\ pass = [p \in Passes |-> NoPass]
    /\ claim = [c \in Claims |-> NoCall]
    /\ job = [p \in Passes |-> "none"]
    /\ chat = [h \in Chats |-> NoChat]
    /\ sent = {}
    /\ delivered = {}
    /\ overlapped = {}
    /\ faults = 0

\* processGuest: the unique indexes admit one record per address; its slots
\* follow from the tier thresholds of the moment.
Import(g, n) ==
    /\ slots[g] = None
    /\ slots' = [slots EXCEPT ![g] = n]
    /\ UNCHANGED <<claimed, pass, claim, job, chat, sent, delivered, overlapped, faults>>

-----------------------------------------------------------------------------
\* Mutant: a used link is not refused.
SubmitAgain(c, g, ask) ==
    /\ claim[c] = NoCall
    /\ slots[g] # None
    /\ Len(ask) <= slots[g]
    /\ claim' = [claim EXCEPT ![c] = [pc |-> "checked", record |-> g, ask |-> ask, made |-> {}]]
    /\ overlapped' = overlapped \cup {r \in {g} : \E d \in Claims : claim[d].record = g
                                                     /\ claim[d].pc \in {"checked", "open"}}
    /\ UNCHANGED <<slots, claimed, pass, job, chat, sent, delivered, faults>>

\* submitClaim up to its transaction.
SubmitCheck(c, g, ask) ==
    /\ claim[c] = NoCall
    /\ slots[g] # None
    /\ g \notin claimed
    /\ Len(ask) <= slots[g]
    /\ claim' = [claim EXCEPT ![c] = [pc |-> "checked", record |-> g, ask |-> ask, made |-> {}]]
    /\ overlapped' = overlapped \cup {r \in {g} : \E d \in Claims : claim[d].record = g
                                                     /\ claim[d].pc \in {"checked", "open"}}
    /\ UNCHANGED <<slots, claimed, pass, job, chat, sent, delivered, faults>>

\* Mutant: the mail to the graduate is started with the pass as well.
InsertAndMail(c, p) ==
    /\ claim[c].pc \in {"checked", "open"}
    /\ claim[c].ask # <<>>
    /\ pass[p] = NoPass
    /\ \A d \in Claims \ {c} : claim[d].pc # "open"
    /\ LET method == Head(claim[c].ask)
       IN  /\ pass' = [pass EXCEPT ![p] =
                         [state |-> "open", record |-> claim[c].record, method |-> method]]
           /\ job' = [job EXCEPT ![p] = IF method # "TELEGRAM" THEN "queued" ELSE "none"]
    /\ claim' = [claim EXCEPT ![c].pc = "open", ![c].ask = Tail(@), ![c].made = @ \cup {p}]
    /\ UNCHANGED <<slots, claimed, chat, sent, delivered, overlapped, faults>>

\* One round of the transaction's loop: insert with the placeholder, update
\* with the token, and start the mail to a parent.
InsertPass(c, p) ==
    /\ claim[c].pc \in {"checked", "open"}
    /\ claim[c].ask # <<>>
    /\ pass[p] = NoPass
    /\ \A d \in Claims \ {c} : claim[d].pc # "open"
    /\ LET method == Head(claim[c].ask)
       IN  /\ pass' = [pass EXCEPT ![p] =
                         [state |-> "open", record |-> claim[c].record, method |-> method]]
           /\ job' = [job EXCEPT ![p] = IF method = "EMAIL" THEN "queued" ELSE "none"]
    /\ claim' = [claim EXCEPT ![c].pc = "open", ![c].ask = Tail(@), ![c].made = @ \cup {p}]
    /\ UNCHANGED <<slots, claimed, chat, sent, delivered, overlapped, faults>>

\* Mutant: the record is not marked.
CommitUnmarked(c) ==
    /\ claim[c].pc = "open"
    /\ claim[c].ask = <<>>
    /\ Settle(claim[c].made, "stored")
    /\ claim' = [claim EXCEPT ![c] = NoCall]
    /\ UNCHANGED <<slots, claimed, job, chat, sent, delivered, overlapped, faults>>

\* The record is marked and the transaction commits; passes for the graduate
\* are mailed in one go afterwards.
SubmitCommit(c) ==
    /\ claim[c].pc = "open"
    /\ claim[c].ask = <<>>
    /\ Settle(claim[c].made, "stored")
    /\ claimed' = claimed \cup {claim[c].record}
    /\ claim' = [claim EXCEPT ![c] =
                   IF \E p \in claim[c].made : pass[p].method = "GUEST_EMAIL"
                     THEN [@ EXCEPT !.pc = "bulk"] ELSE NoCall]
    /\ UNCHANGED <<slots, job, chat, sent, delivered, overlapped, faults>>

\* The transaction fails, for instance because it took too long: the passes
\* disappear, the mails that were started do not.
SubmitFails(c) ==
    /\ claim[c].pc \in {"checked", "open"}
    /\ faults < MaxFaults
    /\ faults' = faults + 1
    /\ Settle(claim[c].made, "gone")
    /\ claim' = [claim EXCEPT ![c] = NoCall]
    /\ UNCHANGED <<slots, claimed, job, chat, sent, delivered, overlapped>>

-----------------------------------------------------------------------------
\* The mail to a parent, whose update finds no row before the commit.
SendParentMail(p) ==
    /\ job[p] = "queued"
    /\ sent' = sent \cup {p}
    /\ job' = [job EXCEPT ![p] = "sent"]
    /\ UNCHANGED <<slots, claimed, pass, claim, chat, delivered, overlapped, faults>>

MarkParentMail(p) ==
    /\ job[p] = "sent"
    /\ delivered' = delivered \cup {q \in {p} : pass[q].state = "stored"}
    /\ job' = [job EXCEPT ![p] = "none"]
    /\ UNCHANGED <<slots, claimed, pass, claim, chat, sent, overlapped, faults>>

\* The bulk mail to the graduate.
SendBulkMail(c) ==
    /\ claim[c].pc = "bulk"
    /\ sent' = sent \cup claim[c].made
    /\ claim' = [claim EXCEPT ![c].pc = "bulkSent"]
    /\ UNCHANGED <<slots, claimed, pass, job, chat, delivered, overlapped, faults>>

MarkBulkMail(c) ==
    /\ claim[c].pc = "bulkSent"
    /\ delivered' = delivered \cup claim[c].made
    /\ claim' = [claim EXCEPT ![c] = NoCall]
    /\ UNCHANGED <<slots, claimed, pass, job, chat, sent, overlapped, faults>>

\* A mail cannot be sent: logged, and not tried again.
MailFails ==
    /\ \/ \E p \in Passes : /\ job[p] = "queued"
                            /\ job' = [job EXCEPT ![p] = "none"]
                            /\ UNCHANGED claim
       \/ \E c \in Claims : /\ claim[c].pc = "bulk"
                            /\ claim' = [claim EXCEPT ![c] = NoCall]
                            /\ UNCHANGED job
    /\ UNCHANGED <<slots, claimed, pass, chat, sent, delivered, overlapped, faults>>

\* Mutant: the pass is marked as delivered before it is sent.
OpenDeepLinkMarking(h, p) ==
    /\ chat[h] = NoChat
    /\ pass[p].state = "stored" /\ pass[p].method = "TELEGRAM"
    /\ p \notin delivered
    /\ delivered' = delivered \cup {p}
    /\ chat' = [chat EXCEPT ![h] = [pc |-> "found", pass |-> p]]
    /\ UNCHANGED <<slots, claimed, pass, claim, job, sent, overlapped, faults>>

\* handleStartPayload: the pass of a deep link.
OpenDeepLink(h, p) ==
    /\ chat[h] = NoChat
    /\ pass[p].state = "stored" /\ pass[p].method = "TELEGRAM"
    /\ p \notin delivered
    /\ chat' = [chat EXCEPT ![h] = [pc |-> "found", pass |-> p]]
    /\ UNCHANGED <<slots, claimed, pass, claim, job, sent, delivered, overlapped, faults>>

SendByBot(h) ==
    /\ chat[h].pc = "found"
    /\ \/ /\ sent' = sent \cup {chat[h].pass}
          /\ chat' = [chat EXCEPT ![h].pc = "sent"]
       \/ /\ chat' = [chat EXCEPT ![h] = NoChat]
          /\ UNCHANGED sent
    /\ UNCHANGED <<slots, claimed, pass, claim, job, delivered, overlapped, faults>>

MarkByBot(h) ==
    /\ chat[h].pc = "sent"
    /\ delivered' = delivered \cup {chat[h].pass}
    /\ chat' = [chat EXCEPT ![h] = NoChat]
    /\ UNCHANGED <<slots, claimed, pass, claim, job, sent, overlapped, faults>>

\* resendDelivery, by mail; for TELEGRAM it only returns the link again.
ResendDelivery(p) ==
    /\ pass[p].state = "stored" /\ pass[p].method # "TELEGRAM"
    /\ sent' = sent \cup {p}
    /\ delivered' = delivered \cup {p}
    /\ UNCHANGED <<slots, claimed, pass, claim, job, chat, overlapped, faults>>

\* The process restarts: calls, mails and handlers in flight are lost.
Restart ==
    /\ faults < MaxFaults
    /\ faults' = faults + 1
    /\ Settle({p \in Passes : pass[p].state = "open"}, "gone")
    /\ claim' = [c \in Claims |-> NoCall]
    /\ job' = [p \in Passes |-> "none"]
    /\ chat' = [h \in Chats |-> NoChat]
    /\ UNCHANGED <<slots, claimed, sent, delivered, overlapped>>

-----------------------------------------------------------------------------
Claiming ==
    \/ \E g \in Graduates, n \in Slots : Import(g, n)
    \/ \E c \in Claims, g \in Graduates, ask \in Asks(MaxParents) : SubmitCheck(c, g, ask)
    \/ \E c \in Claims, p \in Passes : InsertPass(c, p)
    \/ \E c \in Claims : SubmitCommit(c) \/ SubmitFails(c)

Delivering ==
    \/ \E p \in Passes : SendParentMail(p) \/ MarkParentMail(p) \/ ResendDelivery(p)
    \/ \E c \in Claims : SendBulkMail(c) \/ MarkBulkMail(c)
    \/ MailFails
    \/ \E h \in Chats, p \in Passes : OpenDeepLink(h, p)
    \/ \E h \in Chats : SendByBot(h) \/ MarkByBot(h)

Next == Claiming \/ Delivering \/ Restart

Spec == Init /\ [][Next]_vars

-----------------------------------------------------------------------------
(* Properties.                                                             *)

\* Records, passes, calls and deliveries are well formed (type invariant).
TypeOK ==
    /\ slots \in [Graduates -> Slots \cup {None}]
    /\ claimed \in SUBSET Graduates
    /\ pass \in [Passes -> Pass]
    /\ claim \in [Claims -> Call]
    /\ job \in [Passes -> {"none", "queued", "sent"}]
    /\ chat \in [Chats -> [pc : {"none", "found", "sent"}, pass : Passes \cup {None}]]
    /\ sent \in SUBSET Passes
    /\ delivered \in SUBSET Passes
    /\ overlapped \in SUBSET Graduates
    /\ faults \in 0 .. MaxFaults

\* A graduate gets no more passes than slots, however often the link is
\* submitted one after the other and whatever fails in between; only claims
\* submitted at the same time get more (submitClaim checks claimed and
\* guestSlots before its transaction).
PassesWithinSlots ==
    \A g \in Graduates \ overlapped :
       Stored(g) # {} => Cardinality(Stored(g)) <= slots[g]

\* Claims are all or nothing: a record is claimed if and only if its passes
\* are in the table (submitClaim's transaction).
ClaimedIffPassesStored ==
    \A g \in Graduates : g \in claimed <=> Stored(g) # {}

\* What the organizer's list shows as delivered is a pass in the table that
\* was sent, whichever of the mails, the bot and the resend came first.
DeliveredWasSent ==
    \A p \in delivered : p \in sent /\ pass[p].state = "stored"

\* The QR codes sent to graduates and by the bot are those of passes in the
\* table; only a mail to a parent may carry one of a claim that failed.
SentPassesAreStored ==
    \A p \in sent : pass[p].state = "stored" \/ pass[p].method = "EMAIL"

\* What the lists and the mails say about passes is true.
DeliveriesAreTrue == DeliveredWasSent /\ SentPassesAreStored
=============================================================================
