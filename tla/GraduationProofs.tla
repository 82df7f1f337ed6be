-------------------------- MODULE GraduationProofs --------------------------
(***************************************************************************)
(* Theorems about Graduation, for any number of graduates, passes, claims, *)
(* chats and faults.                                                       *)
(***************************************************************************)
EXTENDS Graduation, FiniteSetTheorems, SequenceTheorems, TLAPS

\* What calls and handlers in flight are about.
Subjects ==
    /\ \A c \in Claims :
          /\ claim[c].pc = "none" => claim[c] = NoCall
          /\ claim[c].pc # "none" => claim[c].record \in Graduates
    /\ \A h \in Chats : chat[h].pc # "none" => chat[h].pass \in Passes

TypeInv == TypeOK /\ Subjects

LEMMA AskType == \A n : Asks(n) \subseteq Seq(Method)
<1> SUFFICES ASSUME NEW n, NEW a \in Asks(n) PROVE a \in Seq(Method)
  OBVIOUS
<1>1. PICK i \in 1 .. n : a \in [1 .. i -> Method]
  BY DEF Asks
<1>2. CASE i \in Nat
  BY <1>1, <1>2
<1>3. CASE i \notin Nat
  BY <1>3
<1> QED
  BY <1>2, <1>3

LEMMA Nothings ==
    /\ NoPass \in Pass
    /\ NoCall \in Call /\ NoCall.pc = "none" /\ NoCall.made = {}
    /\ NoChat \in [pc : {"none", "found", "sent"}, pass : Passes \cup {None}]
    /\ NoChat.pc = "none"
<1>1. <<>> \in Seq(Method)
  BY EmptySeq
<1> QED
  BY <1>1 DEF NoPass, Pass, NoCall, Call, NoChat

LEMMA TypeInit == Init => TypeInv
<1> SUFFICES ASSUME Init PROVE TypeInv
  OBVIOUS
<1>1. 0 \in 0 .. MaxFaults
  BY BoundsAreNat
<1>2. TypeOK
  BY <1>1, Nothings DEF Init, TypeOK
<1>3. Subjects
  BY Nothings DEF Init, Subjects
<1> QED
  BY <1>2, <1>3 DEF TypeInv

\* A call that is replaced by one of its type.
LEMMA CallStep ==
    ASSUME TypeInv, NEW c \in Claims, NEW r \in Call, claim' = [claim EXCEPT ![c] = r],
           r.pc = "none" => r = NoCall, r.pc # "none" => r.record \in Graduates,
           UNCHANGED chat
    PROVE  claim' \in [Claims -> Call] /\ Subjects'
BY DEF TypeInv, TypeOK, Subjects

LEMMA SettleType ==
    ASSUME TypeInv, NEW S, NEW state \in {"open", "stored", "gone"}, Settle(S, state)
    PROVE  pass' \in [Passes -> Pass]
<1>1. ASSUME NEW p \in Passes PROVE [pass[p] EXCEPT !.state = state] \in Pass
  BY DEF TypeInv, TypeOK, Pass
<1> QED
  BY <1>1 DEF Settle, TypeInv, TypeOK

LEMMA TypeStep == TypeInv /\ [Next]_vars => TypeInv'
<1> SUFFICES ASSUME TypeInv, [Next]_vars PROVE TypeInv'
  OBVIOUS
<1> USE BoundsAreNat
<1>1. ASSUME NEW g \in Graduates, NEW n \in Slots, Import(g, n) PROVE TypeInv'
  BY <1>1 DEF Import, TypeInv, TypeOK, Subjects
<1>2. ASSUME NEW c \in Claims, NEW g \in Graduates, NEW ask \in Asks(MaxParents),
             SubmitCheck(c, g, ask)
      PROVE  TypeInv'
  <2> DEFINE r == [pc |-> "checked", record |-> g, ask |-> ask, made |-> {}]
  <2>1. r \in Call
    BY AskType DEF Call
  <2>2. claim' \in [Claims -> Call] /\ Subjects'
    BY <1>2, <2>1, CallStep DEF SubmitCheck
  <2> QED
    BY <1>2, <2>2 DEF SubmitCheck, TypeInv, TypeOK
<1>3. ASSUME NEW c \in Claims, NEW p \in Passes, InsertPass(c, p) PROVE TypeInv'
  <2> DEFINE method == Head(claim[c].ask)
             r == [claim[c] EXCEPT !.pc = "open", !.ask = Tail(@), !.made = @ \cup {p}]
  <2>1. claim[c] \in Call /\ claim[c].record \in Graduates /\ claim[c].ask # <<>>
    BY <1>3 DEF InsertPass, TypeInv, TypeOK, Subjects
  <2>2. method \in Method /\ Tail(claim[c].ask) \in Seq(Method)
    BY <2>1, HeadTailProperties DEF Call
  <2>3. r \in Call /\ r.pc = "open" /\ r.record \in Graduates
    BY <2>1, <2>2 DEF Call
  <2>4. claim' \in [Claims -> Call] /\ Subjects'
    BY <1>3, <2>3, CallStep DEF InsertPass
  <2>5. [state |-> "open", record |-> claim[c].record, method |-> method] \in Pass
    BY <2>1, <2>2 DEF Pass
  <2> QED
    BY <1>3, <2>4, <2>5 DEF InsertPass, TypeInv, TypeOK
<1>4. ASSUME NEW c \in Claims, SubmitCommit(c) PROVE TypeInv'
  <2>1. claim[c] \in Call /\ claim[c].record \in Graduates
    BY <1>4 DEF SubmitCommit, TypeInv, TypeOK, Subjects
  <2>2. pass' \in [Passes -> Pass]
    BY <1>4, SettleType DEF SubmitCommit
  <2>3. PICK r \in {[claim[c] EXCEPT !.pc = "bulk"], NoCall} : claim' = [claim EXCEPT ![c] = r]
    BY <1>4 DEF SubmitCommit
  <2>4. r \in Call /\ (r.pc = "none" => r = NoCall) /\ (r.pc # "none" => r.record \in Graduates)
    BY <2>1, Nothings DEF Call
  <2>5. claim' \in [Claims -> Call] /\ Subjects'
    BY <1>4, <2>3, <2>4, CallStep DEF SubmitCommit
  <2> QED
    BY <1>4, <2>1, <2>2, <2>5 DEF SubmitCommit, TypeInv, TypeOK
<1>5. ASSUME NEW c \in Claims, SubmitFails(c) PROVE TypeInv'
  <2>1. claim' \in [Claims -> Call] /\ Subjects'
    BY <1>5, Nothings, CallStep DEF SubmitFails
  <2>2. pass' \in [Passes -> Pass]
    BY <1>5, SettleType DEF SubmitFails
  <2> QED
    BY <1>5, <2>1, <2>2 DEF SubmitFails, TypeInv, TypeOK
<1>6. ASSUME NEW p \in Passes, SendParentMail(p) \/ MarkParentMail(p) \/ ResendDelivery(p)
      PROVE  TypeInv'
  BY <1>6 DEF SendParentMail, MarkParentMail, ResendDelivery, TypeInv, TypeOK, Subjects
<1>7. ASSUME NEW c \in Claims, SendBulkMail(c) PROVE TypeInv'
  <2>1. claim[c] \in Call /\ claim[c].record \in Graduates /\ claim[c].made \subseteq Passes
    BY <1>7 DEF SendBulkMail, TypeInv, TypeOK, Subjects, Call
  <2>2. [claim[c] EXCEPT !.pc = "bulkSent"] \in Call
    BY <2>1 DEF Call
  <2>3. claim' \in [Claims -> Call] /\ Subjects'
    BY <1>7, <2>1, <2>2, CallStep DEF SendBulkMail, Call
  <2> QED
    BY <1>7, <2>1, <2>3 DEF SendBulkMail, TypeInv, TypeOK
<1>8. ASSUME NEW c \in Claims, MarkBulkMail(c) PROVE TypeInv'
  <2>1. claim[c].made \subseteq Passes
    BY DEF TypeInv, TypeOK, Call
  <2>2. claim' \in [Claims -> Call] /\ Subjects'
    BY <1>8, Nothings, CallStep DEF MarkBulkMail
  <2> QED
    BY <1>8, <2>1, <2>2 DEF MarkBulkMail, TypeInv, TypeOK
<1>9. ASSUME MailFails PROVE TypeInv'
  <2>1. ASSUME NEW p \in Passes, job' = [job EXCEPT ![p] = "none"], UNCHANGED claim
        PROVE  TypeInv'
    BY <1>9, <2>1 DEF MailFails, TypeInv, TypeOK, Subjects
  <2>2. ASSUME NEW c \in Claims, claim' = [claim EXCEPT ![c] = NoCall], UNCHANGED job
        PROVE  TypeInv'
    <3>1. claim' \in [Claims -> Call] /\ Subjects'
      BY <1>9, <2>2, Nothings, CallStep DEF MailFails
    <3> QED
      BY <1>9, <2>2, <3>1 DEF MailFails, TypeInv, TypeOK
  <2> QED
    BY <1>9, <2>1, <2>2 DEF MailFails
<1>10. ASSUME NEW h \in Chats, NEW p \in Passes, OpenDeepLink(h, p) PROVE TypeInv'
  BY <1>10 DEF OpenDeepLink, TypeInv, TypeOK, Subjects
<1>11. ASSUME NEW h \in Chats, SendByBot(h) \/ MarkByBot(h) PROVE TypeInv'
  <2>1. chat[h].pass \in Passes
    BY <1>11 DEF SendByBot, MarkByBot, TypeInv, Subjects
  <2>2. sent' \in SUBSET Passes /\ delivered' \in SUBSET Passes
    BY <1>11, <2>1 DEF SendByBot, MarkByBot, TypeInv, TypeOK
  <2>3. chat' \in [Chats -> [pc : {"none", "found", "sent"}, pass : Passes \cup {None}]]
    BY <1>11, Nothings DEF SendByBot, MarkByBot, TypeInv, TypeOK
  <2>4. Subjects'
    BY <1>11, <2>1, Nothings DEF SendByBot, MarkByBot, TypeInv, TypeOK, Subjects
  <2> QED
    BY <1>11, <2>2, <2>3, <2>4 DEF SendByBot, MarkByBot, TypeInv, TypeOK
<1>12. ASSUME Restart PROVE TypeInv'
  <2>1. pass' \in [Passes -> Pass]
    BY <1>12, SettleType DEF Restart
  <2> QED
    BY <1>12, <2>1, Nothings DEF Restart, TypeInv, TypeOK, Subjects
<1>13. CASE UNCHANGED vars
  BY <1>13 DEF vars, TypeInv, TypeOK, Subjects
<1> QED
  BY <1>1, <1>2, <1>3, <1>4, <1>5, <1>6, <1>7, <1>8, <1>9, <1>10, <1>11, <1>12, <1>13
  DEF Next, Claiming, Delivering

\* Records, passes, calls and deliveries of GraduationService and the bot
\* stay well formed, for any number of them.
THEOREM TypeCorrect == Spec => []TypeOK
<1>1. TypeInv => TypeOK
  BY DEF TypeInv
<1> QED
  BY TypeInit, TypeStep, <1>1, PTL DEF Spec

-----------------------------------------------------------------------------
(* What a transaction holds: the passes of an open claim are its own, open *)
(* and of its record, and no other claim is open (the placeholder).        *)

Holding ==
    \A c \in Claims :
       /\ claim[c].pc = "checked" => claim[c].made = {}
       /\ claim[c].pc = "open" =>
             /\ claim[c].made # {}
             /\ \A p \in claim[c].made : pass[p].state = "open" /\ pass[p].record = claim[c].record
             /\ \A d \in Claims : claim[d].pc = "open" => d = c
       /\ claim[c].pc \in {"bulk", "bulkSent"} =>
             \A p \in claim[c].made : pass[p].state = "stored"

ClaimInv == TypeInv /\ Holding /\ ClaimedIffPassesStored

\* A pass that was inserted stays the pass it is, and in the table if it got there.
PassesLast ==
    \A p \in Passes :
       /\ pass[p].state # "unused" => /\ pass'[p].state # "unused"
                                      /\ pass'[p].method = pass[p].method
                                      /\ pass'[p].record = pass[p].record
       /\ pass[p].state = "stored" => pass'[p].state = "stored"

LEMMA MadeArePasses == TypeInv => \A c \in Claims : claim[c].made \in SUBSET Passes
BY DEF TypeInv, TypeOK, Call

\* Passes that are settled otherwise than as stored were open, and none that
\* is stored changes.
LEMMA SettleOpen ==
    ASSUME TypeInv, NEW S \in SUBSET Passes, NEW state \in {"stored", "gone"},
           \A p \in S : pass[p].state = "open", Settle(S, state)
    PROVE  /\ PassesLast
           /\ \A p \in S : pass'[p].state = state
           /\ \A p \in Passes \ S : pass'[p] = pass[p]
           /\ state = "gone" => \A g \in Graduates : Stored(g)' = Stored(g)
<1>1. ASSUME NEW p \in S
      PROVE  /\ pass'[p].state = state
             /\ pass'[p].method = pass[p].method
             /\ pass'[p].record = pass[p].record
  <2>1. pass[p] \in Pass
    BY DEF TypeInv, TypeOK
  <2> QED
    BY <2>1 DEF Settle, Pass
<1>2. \A p \in Passes \ S : pass'[p] = pass[p]
  BY DEF Settle
<1>3. PassesLast
  BY <1>1, <1>2 DEF PassesLast
<1>4. ASSUME state = "gone", NEW g \in Graduates PROVE Stored(g)' = Stored(g)
  BY <1>1, <1>2, <1>4 DEF Stored
<1> QED
  BY <1>1, <1>2, <1>3, <1>4

LEMMA ClaimInit == Init => ClaimInv
<1> SUFFICES ASSUME Init PROVE ClaimInv
  OBVIOUS
<1>1. Holding
  BY DEF Init, Holding, NoCall
<1>2. ClaimedIffPassesStored
  BY DEF Init, ClaimedIffPassesStored, Stored, NoPass
<1> QED
  BY <1>1, <1>2, TypeInit DEF ClaimInv

\* What the steps of claims do to passes.
LEMMA InsertStep ==
    ASSUME ClaimInv, NEW c \in Claims, NEW p \in Passes, InsertPass(c, p)
    PROVE  /\ PassesLast /\ Holding'
           /\ \A g \in Graduates : Stored(g)' = Stored(g)
           /\ pass[p].state = "unused" /\ p \notin claim[c].made
           /\ pass'[p].method = Head(claim[c].ask)
           /\ claim'[c] = [pc |-> "open", record |-> claim[c].record,
                           ask |-> Tail(claim[c].ask), made |-> claim[c].made \cup {p}]
           /\ \A d \in Claims \ {c} : claim'[d] = claim[d]
<1>1. /\ pass[p].state = "unused" /\ pass'[p].state = "open"
      /\ pass'[p].record = claim[c].record
      /\ pass'[p].method = Head(claim[c].ask)
      /\ \A q \in Passes \ {p} : pass'[q] = pass[q]
  BY DEF InsertPass, ClaimInv, TypeInv, TypeOK, NoPass
<1>2. claim[c] \in Call
  BY DEF ClaimInv, TypeInv, TypeOK
<1>3. /\ claim'[c] = [pc |-> "open", record |-> claim[c].record,
                      ask |-> Tail(claim[c].ask), made |-> claim[c].made \cup {p}]
      /\ \A d \in Claims \ {c} : claim'[d] = claim[d]
  BY <1>2 DEF InsertPass, ClaimInv, TypeInv, TypeOK, Call
<1>4. /\ claim[c].pc \in {"checked", "open"}
      /\ \A d \in Claims \ {c} : claim[d].pc # "open"
  BY DEF InsertPass
<1>5. \A q \in claim[c].made : q \in Passes /\ pass[q].state = "open"
                                 /\ pass[q].record = claim[c].record
  BY <1>4, MadeArePasses DEF ClaimInv, Holding
<1>6. \A g \in Graduates : Stored(g)' = Stored(g)
  BY <1>1 DEF Stored
<1>7. PassesLast
  BY <1>1 DEF PassesLast
<1>8. Holding'
  <2> SUFFICES ASSUME NEW d \in Claims
               PROVE  /\ claim'[d].pc = "checked" => claim'[d].made = {}
                      /\ claim'[d].pc = "open" =>
                            /\ claim'[d].made # {}
                            /\ \A q \in claim'[d].made : /\ pass'[q].state = "open"
                                                         /\ pass'[q].record = claim'[d].record
                            /\ \A e \in Claims : claim'[e].pc = "open" => e = d
                      /\ claim'[d].pc \in {"bulk", "bulkSent"} =>
                            \A q \in claim'[d].made : pass'[q].state = "stored"
    BY DEF Holding
  <2>1. CASE d = c
    BY <1>1, <1>3, <1>4, <1>5, <2>1
  <2>2. CASE d # c
    BY <1>1, <1>3, <1>4, <2>2, MadeArePasses DEF ClaimInv, Holding
  <2> QED
    BY <2>1, <2>2
<1> QED
  BY <1>1, <1>3, <1>5, <1>6, <1>7, <1>8

LEMMA CommitStep ==
    ASSUME ClaimInv, NEW c \in Claims, SubmitCommit(c)
    PROVE  /\ PassesLast /\ Holding'
           /\ claim[c].record \in Graduates /\ claim[c].made # {}
           /\ \A g \in Graduates :
                 Stored(g)' = Stored(g) \cup {p \in claim[c].made : claim[c].record = g}
           /\ claim'[c].pc \in {"none", "bulk"}
           /\ \A d \in Claims \ {c} : claim'[d] = claim[d]
<1>1. /\ claim[c].pc = "open" /\ claim[c] \in Call /\ claim[c].record \in Graduates
      /\ claim[c].made \in SUBSET Passes /\ claim[c].made # {}
      /\ \A p \in claim[c].made : pass[p].state = "open" /\ pass[p].record = claim[c].record
      /\ \A d \in Claims : claim[d].pc = "open" => d = c
  BY MadeArePasses DEF SubmitCommit, ClaimInv, TypeInv, TypeOK, Subjects, Holding
<1>2. /\ PassesLast
      /\ \A p \in claim[c].made : pass'[p].state = "stored"
      /\ \A p \in Passes \ claim[c].made : pass'[p] = pass[p]
  BY <1>1, SettleOpen DEF SubmitCommit, ClaimInv
<1>3. /\ claim'[c] = [claim[c] EXCEPT !.pc = "bulk"] \/ claim'[c] = NoCall
      /\ \A d \in Claims \ {c} : claim'[d] = claim[d]
  BY DEF SubmitCommit, ClaimInv, TypeInv, TypeOK
<1>4. ASSUME NEW g \in Graduates
      PROVE  Stored(g)' = Stored(g) \cup {p \in claim[c].made : claim[c].record = g}
  <2>1. \A p \in claim[c].made : pass'[p].record = claim[c].record
    BY <1>1, <1>2 DEF PassesLast
  <2> QED
    BY <1>1, <1>2, <2>1 DEF Stored
<1>5. claim'[c].pc \in {"none", "bulk"} /\ claim'[c].made \subseteq claim[c].made
  BY <1>1, <1>3, Nothings DEF Call
<1>6. Holding'
  <2> SUFFICES ASSUME NEW d \in Claims
               PROVE  /\ claim'[d].pc = "checked" => claim'[d].made = {}
                      /\ claim'[d].pc # "open"
                      /\ claim'[d].pc \in {"bulk", "bulkSent"} =>
                            \A q \in claim'[d].made : pass'[q].state = "stored"
    BY DEF Holding
  <2>1. CASE d = c
    BY <1>2, <1>5, <2>1
  <2>2. CASE d # c
    BY <1>1, <1>2, <1>3, <2>2, MadeArePasses DEF ClaimInv, Holding, PassesLast
  <2> QED
    BY <2>1, <2>2
<1> QED
  BY <1>1, <1>2, <1>3, <1>4, <1>5, <1>6

LEMMA FailStep ==
    ASSUME ClaimInv, NEW c \in Claims, SubmitFails(c)
    PROVE  /\ PassesLast /\ Holding'
           /\ \A g \in Graduates : Stored(g)' = Stored(g)
<1>1. /\ claim[c].made \in SUBSET Passes
      /\ \A p \in claim[c].made : pass[p].state = "open"
  BY MadeArePasses DEF SubmitFails, ClaimInv, Holding
<1>2. /\ PassesLast
      /\ \A p \in Passes \ claim[c].made : pass'[p] = pass[p]
      /\ \A g \in Graduates : Stored(g)' = Stored(g)
  BY <1>1, SettleOpen DEF SubmitFails, ClaimInv
<1>3. claim'[c] = NoCall /\ \A d \in Claims \ {c} : claim'[d] = claim[d]
  BY DEF SubmitFails, ClaimInv, TypeInv, TypeOK
<1>4. ASSUME NEW d \in Claims \ {c}, claim[d].pc = "open" PROVE claim[c].made = {}
  BY <1>4 DEF SubmitFails, ClaimInv, Holding
<1>5. Holding'
  <2> SUFFICES ASSUME NEW d \in Claims
               PROVE  /\ claim'[d].pc = "checked" => claim'[d].made = {}
                      /\ claim'[d].pc = "open" =>
                            /\ claim'[d].made # {}
                            /\ \A q \in claim'[d].made : /\ pass'[q].state = "open"
                                                         /\ pass'[q].record = claim'[d].record
                            /\ \A e \in Claims : claim'[e].pc = "open" => e = d
                      /\ claim'[d].pc \in {"bulk", "bulkSent"} =>
                            \A q \in claim'[d].made : pass'[q].state = "stored"
    BY DEF Holding
  <2>1. CASE d = c
    BY <1>3, <2>1, Nothings
  <2>2. CASE d # c
    <3>1. d \in Claims \ {c} /\ claim'[d] = claim[d] /\ claim[d].made \in SUBSET Passes
      BY <1>3, <2>2, MadeArePasses DEF ClaimInv
    <3>2. claim'[c].pc = "none"
      BY <1>3, Nothings
    <3>3. CASE claim[d].pc = "open"
      BY <1>2, <1>3, <1>4, <3>1, <3>2, <3>3 DEF ClaimInv, Holding
    <3>4. CASE claim[d].pc # "open"
      BY <1>2, <3>1, <3>4 DEF ClaimInv, Holding, PassesLast
    <3> QED
      BY <3>3, <3>4
  <2> QED
    BY <2>1, <2>2
<1> QED
  BY <1>2, <1>5

LEMMA RestartStep ==
    ASSUME ClaimInv, Restart
    PROVE  /\ PassesLast /\ Holding'
           /\ \A g \in Graduates : Stored(g)' = Stored(g)
<1>1. /\ PassesLast
      /\ \A g \in Graduates : Stored(g)' = Stored(g)
  BY SettleOpen DEF Restart, ClaimInv
<1>2. Holding'
  BY Nothings DEF Restart, Holding
<1> QED
  BY <1>1, <1>2

\* The steps that insert no pass and settle none.
Others ==
    /\ UNCHANGED <<pass, claimed>>
    /\ \/ UNCHANGED claim
       \/ \E c \in Claims : /\ claim[c].pc \in {"bulk", "bulkSent"}
                            /\ claim' = [claim EXCEPT ![c] = NoCall]
       \/ \E c \in Claims : /\ claim[c].pc = "bulk"
                            /\ claim' = [claim EXCEPT ![c].pc = "bulkSent"]
       \/ \E c \in Claims, g \in Graduates, ask \in Asks(MaxParents) : SubmitCheck(c, g, ask)

LEMMA OtherStep ==
    ASSUME ClaimInv, Others
    PROVE  /\ PassesLast /\ Holding'
           /\ \A g \in Graduates : Stored(g)' = Stored(g)
<1>1. PassesLast /\ \A g \in Graduates : Stored(g)' = Stored(g)
  BY DEF Others, PassesLast, Stored
<1>2. ASSUME UNCHANGED claim PROVE Holding'
  BY <1>2 DEF Others, ClaimInv, Holding
<1>3. ASSUME NEW c \in Claims, claim' = [claim EXCEPT ![c] = NoCall] PROVE Holding'
  BY <1>3, Nothings DEF Others, ClaimInv, TypeInv, TypeOK, Holding
<1>4. ASSUME NEW c \in Claims, claim[c].pc = "bulk",
             claim' = [claim EXCEPT ![c].pc = "bulkSent"]
      PROVE  Holding'
  <2>1. claim'[c].pc = "bulkSent" /\ claim'[c].made = claim[c].made
    BY <1>4 DEF ClaimInv, TypeInv, TypeOK, Call
  <2>2. \A d \in Claims \ {c} : claim'[d] = claim[d]
    BY <1>4 DEF ClaimInv, TypeInv, TypeOK
  <2> QED
    BY <1>4, <2>1, <2>2 DEF Others, ClaimInv, Holding
<1>5. ASSUME NEW c \in Claims, NEW g \in Graduates, NEW ask \in Asks(MaxParents),
             SubmitCheck(c, g, ask)
      PROVE  Holding'
  <2>1. claim'[c].pc = "checked" /\ claim'[c].made = {}
    BY <1>5 DEF SubmitCheck, ClaimInv, TypeInv, TypeOK
  <2>2. \A d \in Claims \ {c} : claim'[d] = claim[d]
    BY <1>5 DEF SubmitCheck, ClaimInv, TypeInv, TypeOK
  <2> QED
    BY <2>1, <2>2 DEF Others, ClaimInv, Holding
<1> QED
  BY <1>1, <1>2, <1>3, <1>4, <1>5 DEF Others

LEMMA Steps ==
    ASSUME [Next]_vars
    PROVE  \/ \E c \in Claims, p \in Passes : InsertPass(c, p)
           \/ \E c \in Claims : SubmitCommit(c)
           \/ \E c \in Claims : SubmitFails(c)
           \/ Restart
           \/ Others
<1>1. ASSUME \E g \in Graduates, n \in Slots : Import(g, n) PROVE Others
  BY <1>1 DEF Import, Others
<1>2. ASSUME \E c \in Claims, g \in Graduates, ask \in Asks(MaxParents) : SubmitCheck(c, g, ask)
      PROVE  Others
  <2>1. UNCHANGED <<pass, claimed>>
    BY <1>2 DEF SubmitCheck
  <2> QED
    BY <1>2, <2>1 DEF Others
<1>3. ASSUME Delivering PROVE Others
  BY <1>3 DEF Delivering, SendParentMail, MarkParentMail, ResendDelivery, SendBulkMail,
              MarkBulkMail, MailFails, OpenDeepLink, SendByBot, MarkByBot, Others
<1>4. ASSUME UNCHANGED vars PROVE Others
  BY <1>4 DEF vars, Others
<1> QED
  BY <1>1, <1>2, <1>3, <1>4 DEF Next, Claiming

LEMMA PassStep == ClaimInv /\ [Next]_vars => PassesLast /\ Holding'
<1> SUFFICES ASSUME ClaimInv, [Next]_vars PROVE PassesLast /\ Holding'
  OBVIOUS
<1>1. ASSUME Others PROVE PassesLast /\ Holding'
  BY <1>1, OtherStep
<1> QED
  BY <1>1, Steps, InsertStep, CommitStep, FailStep, RestartStep

LEMMA ClaimStep == ClaimInv /\ [Next]_vars => ClaimInv'
<1> SUFFICES ASSUME ClaimInv, [Next]_vars PROVE ClaimedIffPassesStored'
  BY TypeStep, PassStep DEF ClaimInv
<1>1. ASSUME \A g \in Graduates : Stored(g)' = Stored(g), UNCHANGED claimed
      PROVE  ClaimedIffPassesStored'
  BY <1>1 DEF ClaimInv, ClaimedIffPassesStored
<1>2. ASSUME NEW c \in Claims, NEW p \in Passes, InsertPass(c, p)
      PROVE  ClaimedIffPassesStored'
  BY <1>1, <1>2, InsertStep DEF InsertPass
<1>3. ASSUME NEW c \in Claims, SubmitCommit(c) PROVE ClaimedIffPassesStored'
  <2>1. \A g \in Graduates : Stored(g)' = Stored(g) \cup {p \in claim[c].made : claim[c].record = g}
    BY <1>3, CommitStep
  <2>2. claim[c].record \in Graduates /\ claim[c].made # {}
    BY <1>3, CommitStep
  <2>3. claimed' = claimed \cup {claim[c].record}
    BY <1>3 DEF SubmitCommit
  <2>4. ASSUME NEW g \in Graduates PROVE (g \in claimed <=> Stored(g) # {})'
    <3>1. CASE g = claim[c].record
      <4>1. Stored(g)' # {}
        BY <2>1, <2>2, <3>1
      <4> QED
        BY <2>3, <3>1, <4>1
    <3>2. CASE g # claim[c].record
      BY <2>1, <2>3, <3>2 DEF ClaimInv, ClaimedIffPassesStored
    <3> QED
      BY <3>1, <3>2
  <2> QED
    BY <2>4 DEF ClaimedIffPassesStored
<1>4. ASSUME NEW c \in Claims, SubmitFails(c) PROVE ClaimedIffPassesStored'
  BY <1>1, <1>4, FailStep DEF SubmitFails
<1>5. ASSUME Restart PROVE ClaimedIffPassesStored'
  BY <1>1, <1>5, RestartStep DEF Restart
<1>6. ASSUME Others PROVE ClaimedIffPassesStored'
  BY <1>1, <1>6, OtherStep DEF Others
<1> QED
  BY <1>2, <1>3, <1>4, <1>5, <1>6, Steps

\* A record is claimed exactly when its passes are in the table, whatever
\* claims run, fail or are cut off by a restart (submitClaim's transaction).
THEOREM ClaimsCorrect == Spec => []ClaimedIffPassesStored
<1>1. ClaimInv => ClaimedIffPassesStored
  BY DEF ClaimInv
<1> QED
  BY ClaimInit, ClaimStep, <1>1, PTL DEF Spec

-----------------------------------------------------------------------------
(* What was sent: mails, the bulk mail and the bot's handlers in flight    *)
(* know passes that were inserted, and mark none that was not sent.        *)

Jobs ==
    \A p \in Passes :
       /\ job[p] # "none" => pass[p].state # "unused" /\ pass[p].method = "EMAIL"
       /\ job[p] = "sent" => p \in sent
       /\ p \in sent => pass[p].state # "unused"

ChatsOpen ==
    \A h \in Chats :
       /\ chat[h].pc # "none" => pass[chat[h].pass].state = "stored"
       /\ chat[h].pc = "sent" => chat[h].pass \in sent

BulkSent == \A c \in Claims : claim[c].pc = "bulkSent" => claim[c].made \subseteq sent

DeliveryInv ==
    ClaimInv /\ Jobs /\ ChatsOpen /\ BulkSent /\ DeliveredWasSent /\ SentPassesAreStored

LEMMA DeliveryInit == Init => DeliveryInv
<1> SUFFICES ASSUME Init PROVE DeliveryInv
  OBVIOUS
<1> QED
  BY ClaimInit DEF Init, DeliveryInv, Jobs, ChatsOpen, BulkSent, DeliveredWasSent,
                   SentPassesAreStored, NoChat, NoCall

\* Sending more passes that are in the table, or a mail that is queued.
LEMMA SentMore ==
    ASSUME DeliveryInv, PassesLast, sent \subseteq sent', sent' \in SUBSET Passes,
           \A p \in sent' \ sent : pass[p].state = "stored" \/ job[p] # "none"
    PROVE  /\ SentPassesAreStored'
           /\ \A p \in sent' : pass'[p].state # "unused"
<1> SUFFICES ASSUME NEW p \in sent'
             PROVE  /\ pass'[p].state = "stored" \/ pass'[p].method = "EMAIL"
                    /\ pass'[p].state # "unused"
  BY DEF SentPassesAreStored
<1>1. p \in Passes
  OBVIOUS
<1>2. pass[p].state # "unused" /\ (pass[p].state = "stored" \/ pass[p].method = "EMAIL")
  BY <1>1 DEF DeliveryInv, SentPassesAreStored, Jobs
<1> QED
  BY <1>1, <1>2 DEF PassesLast

\* Steps that send and mark nothing keep what was delivered and what chats hold.
LEMMA Quiet ==
    ASSUME DeliveryInv, TypeInv', PassesLast, UNCHANGED <<sent, delivered>>,
           \A h \in Chats : chat'[h] = chat[h] \/ chat'[h] = NoChat
    PROVE  DeliveredWasSent' /\ SentPassesAreStored' /\ ChatsOpen'
           /\ \A p \in sent' : pass'[p].state # "unused"
<1>1. sent \in SUBSET Passes
  BY DEF DeliveryInv, ClaimInv, TypeInv, TypeOK
<1>2. SentPassesAreStored' /\ \A p \in sent' : pass'[p].state # "unused"
  BY <1>1, SentMore
<1>3. DeliveredWasSent'
  BY <1>1 DEF DeliveryInv, DeliveredWasSent, PassesLast
<1>4. ChatsOpen'
  <2> SUFFICES ASSUME NEW h \in Chats
               PROVE  /\ chat'[h].pc # "none" => pass'[chat'[h].pass].state = "stored"
                      /\ chat'[h].pc = "sent" => chat'[h].pass \in sent'
    BY DEF ChatsOpen
  <2>1. CASE chat'[h] = NoChat
    BY <2>1, Nothings
  <2>2. CASE chat'[h] = chat[h]
    <3>1. chat[h].pc # "none" => chat[h].pass \in Passes
      BY DEF DeliveryInv, ClaimInv, TypeInv, Subjects
    <3> QED
      BY <2>2, <3>1 DEF DeliveryInv, ChatsOpen, PassesLast
  <2> QED
    BY <2>1, <2>2
<1> QED
  BY <1>2, <1>3, <1>4

LEMMA DeliveryStep == DeliveryInv /\ [Next]_vars => DeliveryInv'
<1> SUFFICES ASSUME DeliveryInv, [Next]_vars PROVE DeliveryInv'
  OBVIOUS
<1>0. ClaimInv' /\ PassesLast /\ TypeInv' /\ TypeInv
  BY ClaimStep, PassStep DEF DeliveryInv, ClaimInv
<1>a. sent \in SUBSET Passes /\ delivered \in SUBSET Passes
  BY <1>0 DEF TypeInv, TypeOK
<1>1. ASSUME UNCHANGED <<sent, delivered>>,
             \A h \in Chats : chat'[h] = chat[h] \/ chat'[h] = NoChat,
             \A p \in Passes : job'[p] \in {job[p], "none"},
             \A c \in Claims : claim'[c] = claim[c] \/ claim'[c].pc # "bulkSent"
      PROVE  DeliveryInv'
  <2>1. DeliveredWasSent' /\ SentPassesAreStored' /\ ChatsOpen'
           /\ \A p \in sent' : pass'[p].state # "unused"
    BY <1>0, <1>1, Quiet
  <2>2. Jobs'
    BY <1>0, <1>1, <2>1 DEF DeliveryInv, Jobs, PassesLast
  <2>3. BulkSent'
    BY <1>1 DEF DeliveryInv, BulkSent
  <2> QED
    BY <1>0, <2>1, <2>2, <2>3 DEF DeliveryInv
<1>2. ASSUME NEW g \in Graduates, NEW n \in Slots, Import(g, n) PROVE DeliveryInv'
  BY <1>1, <1>2 DEF Import
<1>3. ASSUME NEW c \in Claims, NEW g \in Graduates, NEW ask \in Asks(MaxParents),
             SubmitCheck(c, g, ask)
      PROVE  DeliveryInv'
  <2>1. \A d \in Claims : claim'[d] = claim[d] \/ claim'[d].pc # "bulkSent"
    BY <1>0, <1>3 DEF SubmitCheck, TypeInv, TypeOK
  <2> QED
    BY <1>1, <1>3, <2>1 DEF SubmitCheck
<1>4. ASSUME NEW c \in Claims, NEW p \in Passes, InsertPass(c, p) PROVE DeliveryInv'
  <2>1. /\ claim'[c].pc = "open"
        /\ \A d \in Claims \ {c} : claim'[d] = claim[d]
        /\ pass[p].state = "unused" /\ pass'[p].method = Head(claim[c].ask)
    <3>1. ClaimInv
      BY DEF DeliveryInv
    <3>2. claim'[c] = [pc |-> "open", record |-> claim[c].record,
                       ask |-> Tail(claim[c].ask), made |-> claim[c].made \cup {p}]
      BY <1>4, <3>1, InsertStep
    <3>3. /\ \A d \in Claims \ {c} : claim'[d] = claim[d]
          /\ pass[p].state = "unused" /\ pass'[p].method = Head(claim[c].ask)
      BY <1>4, <3>1, InsertStep
    <3> QED
      BY <3>2, <3>3
  <2>2. pass'[p].state = "open"
    BY <1>0, <1>4 DEF InsertPass, TypeInv, TypeOK
  <2>3. UNCHANGED <<sent, delivered, chat>>
    BY <1>4 DEF InsertPass
  <2>4. DeliveredWasSent' /\ SentPassesAreStored' /\ ChatsOpen'
           /\ \A q \in sent' : pass'[q].state # "unused"
    BY <1>0, <2>3, Quiet
  <2>5. BulkSent'
    BY <2>1, <2>3 DEF DeliveryInv, BulkSent
  <2>6. /\ job'[p] = (IF Head(claim[c].ask) = "EMAIL" THEN "queued" ELSE "none")
        /\ \A q \in Passes \ {p} : job'[q] = job[q]
    BY <1>0, <1>4 DEF InsertPass, TypeInv, TypeOK
  <2>7. Jobs'
    BY <1>0, <2>1, <2>2, <2>3, <2>4, <2>6 DEF DeliveryInv, Jobs, PassesLast
  <2> QED
    BY <1>0, <2>4, <2>5, <2>7 DEF DeliveryInv
<1>5. ASSUME NEW c \in Claims, SubmitCommit(c) PROVE DeliveryInv'
  <2>1. \A d \in Claims : claim'[d] = claim[d] \/ claim'[d].pc # "bulkSent"
    BY <1>5, CommitStep DEF DeliveryInv
  <2> QED
    BY <1>1, <1>5, <2>1 DEF SubmitCommit
<1>6. ASSUME NEW c \in Claims, SubmitFails(c) PROVE DeliveryInv'
  <2>1. \A d \in Claims : claim'[d] = claim[d] \/ claim'[d].pc # "bulkSent"
    BY <1>0, <1>6, Nothings DEF SubmitFails, TypeInv, TypeOK
  <2> QED
    BY <1>1, <1>6, <2>1 DEF SubmitFails
<1>7. ASSUME NEW p \in Passes, SendParentMail(p) PROVE DeliveryInv'
  <2>1. /\ SentPassesAreStored' /\ \A q \in sent' : pass'[q].state # "unused"
    BY <1>0, <1>7, <1>a, SentMore DEF SendParentMail
  <2>2. Jobs'
    BY <1>0, <1>7, <1>a, <2>1 DEF SendParentMail, DeliveryInv, Jobs, TypeInv, TypeOK
  <2>3. ChatsOpen' /\ BulkSent' /\ DeliveredWasSent'
    BY <1>7 DEF SendParentMail, DeliveryInv, ChatsOpen, BulkSent, DeliveredWasSent
  <2> QED
    BY <1>0, <2>1, <2>2, <2>3 DEF DeliveryInv
<1>8. ASSUME NEW p \in Passes, MarkParentMail(p) PROVE DeliveryInv'
  BY <1>0, <1>8 DEF MarkParentMail, DeliveryInv, Jobs, ChatsOpen, BulkSent, DeliveredWasSent,
                    SentPassesAreStored, TypeInv, TypeOK
<1>9. ASSUME NEW p \in Passes, ResendDelivery(p) PROVE DeliveryInv'
  <2>1. /\ SentPassesAreStored' /\ \A q \in sent' : pass'[q].state # "unused"
    BY <1>0, <1>9, <1>a, SentMore DEF ResendDelivery
  <2>2. Jobs'
    BY <1>0, <1>9, <1>a, <2>1 DEF ResendDelivery, DeliveryInv, Jobs
  <2>3. ChatsOpen' /\ BulkSent' /\ DeliveredWasSent'
    BY <1>9 DEF ResendDelivery, DeliveryInv, ChatsOpen, BulkSent, DeliveredWasSent
  <2> QED
    BY <1>0, <2>1, <2>2, <2>3 DEF DeliveryInv
<1>10. ASSUME NEW c \in Claims, SendBulkMail(c) PROVE DeliveryInv'
  <2>1. claim[c].made \in SUBSET Passes /\ \A q \in claim[c].made : pass[q].state = "stored"
    BY <1>10, <1>0, MadeArePasses DEF SendBulkMail, DeliveryInv, ClaimInv, Holding
  <2>2. /\ SentPassesAreStored' /\ \A q \in sent' : pass'[q].state # "unused"
    BY <1>0, <1>10, <1>a, <2>1, SentMore DEF SendBulkMail
  <2>3. Jobs'
    BY <1>0, <1>10, <1>a, <2>2 DEF SendBulkMail, DeliveryInv, Jobs
  <2>4. ChatsOpen' /\ DeliveredWasSent'
    BY <1>10 DEF SendBulkMail, DeliveryInv, ChatsOpen, DeliveredWasSent
  <2>5. BulkSent'
    <3>1. claim'[c].made = claim[c].made /\ \A d \in Claims \ {c} : claim'[d] = claim[d]
      BY <1>0, <1>10 DEF SendBulkMail, TypeInv, TypeOK, Call
    <3> QED
      BY <1>10, <3>1 DEF SendBulkMail, DeliveryInv, BulkSent
  <2> QED
    BY <1>0, <2>2, <2>3, <2>4, <2>5 DEF DeliveryInv
<1>11. ASSUME NEW c \in Claims, MarkBulkMail(c) PROVE DeliveryInv'
  <2>1. \A q \in claim[c].made : pass[q].state = "stored" /\ q \in sent
    BY <1>11 DEF MarkBulkMail, DeliveryInv, ClaimInv, Holding, BulkSent
  <2>2. DeliveredWasSent'
    BY <1>11, <2>1 DEF MarkBulkMail, DeliveryInv, DeliveredWasSent
  <2>3. Jobs' /\ ChatsOpen' /\ SentPassesAreStored'
    BY <1>11 DEF MarkBulkMail, DeliveryInv, Jobs, ChatsOpen, SentPassesAreStored
  <2>4. BulkSent'
    BY <1>0, <1>11, Nothings DEF MarkBulkMail, DeliveryInv, BulkSent, TypeInv, TypeOK
  <2> QED
    BY <1>0, <2>2, <2>3, <2>4 DEF DeliveryInv
<1>12. ASSUME MailFails PROVE DeliveryInv'
  <2>1. /\ \A p \in Passes : job'[p] \in {job[p], "none"}
        /\ \A c \in Claims : claim'[c] = claim[c] \/ claim'[c].pc # "bulkSent"
    BY <1>0, <1>12, Nothings DEF MailFails, TypeInv, TypeOK
  <2> QED
    BY <1>1, <1>12, <2>1 DEF MailFails
<1>13. ASSUME NEW h \in Chats, NEW p \in Passes, OpenDeepLink(h, p) PROVE DeliveryInv'
  <2>1. ChatsOpen'
    BY <1>0, <1>13 DEF OpenDeepLink, DeliveryInv, ChatsOpen, TypeInv, TypeOK
  <2>2. Jobs' /\ BulkSent' /\ DeliveredWasSent' /\ SentPassesAreStored'
    BY <1>13 DEF OpenDeepLink, DeliveryInv, Jobs, BulkSent, DeliveredWasSent, SentPassesAreStored
  <2> QED
    BY <1>0, <2>1, <2>2 DEF DeliveryInv
<1>14. ASSUME NEW h \in Chats, SendByBot(h) PROVE DeliveryInv'
  <2>1. chat[h].pass \in Passes /\ pass[chat[h].pass].state = "stored"
    BY <1>0, <1>14 DEF SendByBot, DeliveryInv, ChatsOpen, TypeInv, Subjects
  <2>2. sent' \in {sent, sent \cup {chat[h].pass}}
    BY <1>14 DEF SendByBot
  <2>3. /\ SentPassesAreStored' /\ \A q \in sent' : pass'[q].state # "unused"
    BY <1>0, <1>a, <2>1, <2>2, SentMore
  <2>4. Jobs' /\ BulkSent' /\ DeliveredWasSent'
    BY <1>14, <2>2, <2>3 DEF SendByBot, DeliveryInv, Jobs, BulkSent, DeliveredWasSent
  <2>5. ChatsOpen'
    BY <1>0, <1>14, <2>1, Nothings DEF SendByBot, DeliveryInv, ChatsOpen, TypeInv, TypeOK
  <2> QED
    BY <1>0, <2>3, <2>4, <2>5 DEF DeliveryInv
<1>15. ASSUME NEW h \in Chats, MarkByBot(h) PROVE DeliveryInv'
  <2>1. chat[h].pass \in sent /\ pass[chat[h].pass].state = "stored"
    BY <1>15 DEF MarkByBot, DeliveryInv, ChatsOpen
  <2>2. DeliveredWasSent'
    BY <1>15, <2>1 DEF MarkByBot, DeliveryInv, DeliveredWasSent
  <2>3. ChatsOpen'
    BY <1>0, <1>15, Nothings DEF MarkByBot, DeliveryInv, ChatsOpen, TypeInv, TypeOK
  <2>4. Jobs' /\ BulkSent' /\ SentPassesAreStored'
    BY <1>15 DEF MarkByBot, DeliveryInv, Jobs, BulkSent, SentPassesAreStored
  <2> QED
    BY <1>0, <2>2, <2>3, <2>4 DEF DeliveryInv
<1>16. ASSUME Restart PROVE DeliveryInv'
  BY <1>1, <1>16, Nothings DEF Restart
<1>17. CASE UNCHANGED vars
  BY <1>1, <1>17 DEF vars
<1> QED
  BY <1>2, <1>3, <1>4, <1>5, <1>6, <1>7, <1>8, <1>9, <1>10, <1>11, <1>12, <1>13, <1>14,
     <1>15, <1>16, <1>17 DEF Next, Claiming, Delivering

\* What the organizer sees as delivered was sent and is in the table, and
\* codes that were sent are those of passes in the table, mails to parents
\* excepted (submitClaim, handleStartPayload, resendDelivery).
THEOREM DeliveryCorrect == Spec => []DeliveriesAreTrue
<1>1. DeliveryInv => DeliveriesAreTrue
  BY DEF DeliveryInv, DeliveriesAreTrue
<1> QED
  BY DeliveryInit, DeliveryStep, <1>1, PTL DEF Spec

-----------------------------------------------------------------------------
(* Passes and slots of a record no two claims were submitted for at once:  *)
(* one claim at a time, which holds the passes the record will get.        *)

Active(c, g) == claim[c].record = g /\ claim[c].pc \in {"checked", "open"}

\* Only an imported graduate has a claim.
Granted ==
    /\ \A g \in claimed : slots[g] \in Slots
    /\ \A c \in Claims : claim[c].pc # "none" => slots[claim[c].record] \in Slots

OneClaim ==
    \A g \in Graduates \ overlapped, c \in Claims :
       Active(c, g) => /\ g \notin claimed
                       /\ Cardinality(claim[c].made) + Len(claim[c].ask) <= slots[g]
                       /\ \A d \in Claims : Active(d, g) => d = c

SlotInv == ClaimInv /\ Granted /\ OneClaim /\ PassesWithinSlots

LEMMA SlotInit == Init => SlotInv
<1> SUFFICES ASSUME Init PROVE SlotInv
  OBVIOUS
<1>1. Granted /\ OneClaim /\ PassesWithinSlots
  BY DEF Init, Granted, OneClaim, Active, NoCall, PassesWithinSlots, Stored, NoPass
<1> QED
  BY <1>1, ClaimInit DEF SlotInv

LEMMA MadeIsFinite ==
    ASSUME TypeInv, NEW c \in Claims
    PROVE  IsFiniteSet(claim[c].made) /\ Cardinality(claim[c].made) \in Nat
<1>1. claim[c].made \in SUBSET Passes
  BY MadeArePasses
<1> QED
  BY <1>1, PassesAreFinite, FS_Subset, FS_CardinalityType

\* Steps that leave records and their passes alone and only end claims, or
\* let them go on as the claims they are.
LEMMA SlotQuiet ==
    ASSUME SlotInv, UNCHANGED <<slots, claimed, overlapped>>,
           \A g \in Graduates : Stored(g)' = Stored(g),
           \A d \in Claims : \/ claim'[d] = claim[d]
                             \/ /\ claim'[d].pc \notin {"checked", "open"}
                                /\ claim'[d].pc # "none" => claim[d].pc # "none"
                                /\ claim'[d].pc # "none" => claim'[d].record = claim[d].record
    PROVE  Granted' /\ OneClaim' /\ PassesWithinSlots'
<1>1. PassesWithinSlots'
  BY DEF SlotInv, PassesWithinSlots
<1>2. OneClaim'
  BY DEF SlotInv, OneClaim, Active
<1>3. Granted'
  BY DEF SlotInv, Granted
<1> QED
  BY <1>1, <1>2, <1>3

LEMMA SlotStep == SlotInv /\ [Next]_vars => SlotInv'
<1> SUFFICES ASSUME SlotInv, [Next]_vars PROVE Granted' /\ OneClaim' /\ PassesWithinSlots'
  BY ClaimStep DEF SlotInv
<1>0. ClaimInv /\ TypeInv /\ TypeInv'
  BY TypeStep DEF SlotInv, ClaimInv
<1>1. ASSUME NEW g \in Graduates, NEW n \in Slots, Import(g, n)
      PROVE  Granted' /\ OneClaim' /\ PassesWithinSlots'
  <2>1. UNCHANGED <<claim, claimed, overlapped>> /\ \A r \in Graduates : Stored(r)' = Stored(r)
    BY <1>1 DEF Import, Stored
  <2>2. /\ slots[g] \notin Slots
        /\ slots'[g] \in Slots /\ \A r \in Graduates \ {g} : slots'[r] = slots[r]
    BY <1>0, <1>1, NoneIsNothing DEF Import, TypeInv, TypeOK
  <2>3. Stored(g) = {} /\ \A c \in Claims : ~Active(c, g)
    BY <2>2 DEF SlotInv, ClaimInv, ClaimedIffPassesStored, Granted, Active
  <2>4. Granted'
    BY <1>0, <2>1, <2>2 DEF SlotInv, Granted, TypeInv, TypeOK, Subjects
  <2>5. OneClaim'
    BY <2>1, <2>2, <2>3 DEF SlotInv, OneClaim, Active
  <2>6. PassesWithinSlots'
    BY <2>1, <2>2, <2>3 DEF SlotInv, PassesWithinSlots
  <2> QED
    BY <2>4, <2>5, <2>6
<1>2. ASSUME NEW c \in Claims, NEW g \in Graduates, NEW ask \in Asks(MaxParents),
             SubmitCheck(c, g, ask)
      PROVE  Granted' /\ OneClaim' /\ PassesWithinSlots'
  <2> DEFINE r == [pc |-> "checked", record |-> g, ask |-> ask, made |-> {}]
  <2>1. /\ claim'[c] = r /\ \A d \in Claims \ {c} : claim'[d] = claim[d]
        /\ UNCHANGED <<slots, claimed, pass>>
        /\ overlapped \subseteq overlapped'
        /\ g \notin claimed /\ Len(ask) <= slots[g] /\ slots[g] \in Slots
    BY <1>0, <1>2 DEF SubmitCheck, TypeInv, TypeOK
  <2>2. ASSUME g \notin overlapped' PROVE \A d \in Claims : ~Active(d, g)
    BY <1>2, <2>2 DEF SubmitCheck, Active
  <2>3. Cardinality({}) + Len(ask) <= slots[g]
    <3>1. ask \in Seq(Method)
      BY AskType
    <3> QED
      BY <2>1, <3>1, FS_EmptySet, LenProperties
  <2>4. OneClaim'
    <3> SUFFICES ASSUME NEW h \in Graduates \ overlapped', NEW d \in Claims, Active(d, h)'
                 PROVE  /\ h \notin claimed'
                        /\ Cardinality(claim'[d].made) + Len(claim'[d].ask) <= slots'[h]
                        /\ \A e \in Claims : Active(e, h)' => e = d
      BY DEF OneClaim
    <3>1. CASE h = g
      <4>1. \A e \in Claims \ {c} : ~Active(e, h)'
        BY <2>1, <2>2, <3>1 DEF Active
      <4>2. d = c
        BY <4>1
      <4>3. claim'[d].made = {} /\ claim'[d].ask = ask
        BY <2>1, <4>2
      <4> QED
        BY <2>1, <2>3, <3>1, <4>1, <4>2, <4>3
    <3>2. CASE h # g
      <4>1. ~Active(c, h)'
        BY <2>1, <3>2 DEF Active
      <4>2. h \in Graduates \ overlapped /\ d # c /\ Active(d, h)
        BY <2>1, <4>1 DEF Active
      <4> QED
        BY <2>1, <4>1, <4>2 DEF SlotInv, OneClaim, Active
    <3> QED
      BY <3>1, <3>2
  <2>5. Granted'
    BY <2>1 DEF SlotInv, Granted
  <2>6. PassesWithinSlots'
    BY <2>1 DEF SlotInv, PassesWithinSlots, Stored
  <2> QED
    BY <2>4, <2>5, <2>6
<1>3. ASSUME NEW c \in Claims, NEW p \in Passes, InsertPass(c, p)
      PROVE  Granted' /\ OneClaim' /\ PassesWithinSlots'
  <2>1. /\ \A g \in Graduates : Stored(g)' = Stored(g)
        /\ UNCHANGED <<slots, claimed, overlapped>>
        /\ \A d \in Claims \ {c} : claim'[d] = claim[d]
        /\ p \notin claim[c].made
        /\ claim[c].pc \in {"checked", "open"} /\ claim[c].ask # <<>>
    BY <1>0, <1>3, InsertStep DEF InsertPass
  <2>2. claim'[c] = [pc |-> "open", record |-> claim[c].record,
                     ask |-> Tail(claim[c].ask), made |-> claim[c].made \cup {p}]
    BY <1>0, <1>3, InsertStep
  <2>3. claim[c].ask \in Seq(Method)
    BY <1>0 DEF TypeInv, TypeOK, Call
  <2>4. Cardinality(claim'[c].made) + Len(claim'[c].ask)
           = Cardinality(claim[c].made) + Len(claim[c].ask)
    <3>1. Cardinality(claim[c].made \cup {p}) = Cardinality(claim[c].made) + 1
      BY <1>0, <2>1, MadeIsFinite, FS_AddElement
    <3>2. Len(Tail(claim[c].ask)) = Len(claim[c].ask) - 1 /\ Len(claim[c].ask) \in Nat
      BY <2>1, <2>3, HeadTailProperties, LenProperties
    <3> QED
      BY <1>0, <2>2, <3>1, <3>2, MadeIsFinite
  <2>5. OneClaim'
    <3>1. \A g, d : d \in Claims => (Active(d, g)' <=> Active(d, g))
      BY <2>1, <2>2 DEF Active
    <3> SUFFICES ASSUME NEW g \in Graduates \ overlapped, NEW d \in Claims, Active(d, g)
                 PROVE  /\ g \notin claimed
                        /\ Cardinality(claim'[d].made) + Len(claim'[d].ask) <= slots[g]
                        /\ \A e \in Claims : Active(e, g) => e = d
      BY <2>1, <3>1 DEF OneClaim
    <3>2. /\ g \notin claimed
          /\ Cardinality(claim[d].made) + Len(claim[d].ask) <= slots[g]
          /\ \A e \in Claims : Active(e, g) => e = d
      BY DEF SlotInv, OneClaim
    <3>3. CASE d = c
      BY <2>4, <3>2, <3>3
    <3>4. CASE d # c
      BY <2>1, <3>2, <3>4
    <3> QED
      BY <3>3, <3>4
  <2>6. Granted'
    BY <2>1, <2>2 DEF SlotInv, Granted
  <2>7. PassesWithinSlots'
    BY <2>1 DEF SlotInv, PassesWithinSlots
  <2> QED
    BY <2>5, <2>6, <2>7
<1>4. ASSUME NEW c \in Claims, SubmitCommit(c)
      PROVE  Granted' /\ OneClaim' /\ PassesWithinSlots'
  <2>0. PICK r \in Graduates : r = claim[c].record
    BY <1>0, <1>4, CommitStep
  <2>1. /\ claim'[c].pc \in {"none", "bulk"}
        /\ \A g \in Graduates :
              Stored(g)' = Stored(g) \cup {p \in claim[c].made : r = g}
        /\ \A d \in Claims \ {c} : claim'[d] = claim[d]
    BY <1>0, <1>4, <2>0, CommitStep
  <2>2. /\ claim[c].pc = "open" /\ claim[c].ask = <<>>
        /\ claimed' = claimed \cup {r} /\ UNCHANGED <<slots, overlapped>>
    BY <1>4, <2>0 DEF SubmitCommit
  <2>3. claim'[c].pc # "none" => claim'[c].record = r
    BY <1>0, <1>4, <2>0, Nothings DEF SubmitCommit, TypeInv, TypeOK, Call
  <2>4. Active(c, r) /\ slots[r] \in Slots
    BY <2>0, <2>2 DEF Active, SlotInv, Granted
  <2>5. Granted'
    BY <2>0, <2>1, <2>2, <2>3, <2>4 DEF SlotInv, Granted
  <2>6. OneClaim'
    BY <2>1, <2>2, <2>4 DEF SlotInv, OneClaim, Active
  <2>7. ASSUME r \notin overlapped PROVE Cardinality(Stored(r)') <= slots[r]
    <3>1. r \notin claimed /\ Cardinality(claim[c].made) + Len(claim[c].ask) <= slots[r]
      BY <2>1, <2>4, <2>7 DEF SlotInv, OneClaim
    <3>2. Stored(r)' = claim[c].made
      <4>1. Stored(r) = {}
        BY <1>0, <2>1, <3>1 DEF ClaimInv, ClaimedIffPassesStored
      <4>2. Stored(r)' = Stored(r) \cup {p \in claim[c].made : r = r}
        BY <2>1
      <4> QED
        BY <4>1, <4>2
    <3>3. Len(claim[c].ask) = 0
      BY <2>2, EmptySeq
    <3> QED
      BY <1>0, <3>1, <3>2, <3>3, MadeIsFinite
  <2>8. PassesWithinSlots'
    <3>1. \A g \in Graduates \ {r} : Stored(g)' = Stored(g)
      BY <2>1
    <3> QED
      BY <2>2, <2>7, <3>1 DEF SlotInv, PassesWithinSlots
  <2> QED
    BY <2>5, <2>6, <2>8
<1>5. ASSUME NEW c \in Claims, SubmitFails(c)
      PROVE  Granted' /\ OneClaim' /\ PassesWithinSlots'
  <2>1. \A g \in Graduates : Stored(g)' = Stored(g)
    BY <1>0, <1>5, FailStep
  <2>2. \A d \in Claims : claim'[d] = claim[d] \/ claim'[d].pc = "none"
    BY <1>0, <1>5, Nothings DEF SubmitFails, TypeInv, TypeOK
  <2> QED
    BY <1>5, <2>1, <2>2, SlotQuiet DEF SubmitFails
<1>6. ASSUME Restart PROVE Granted' /\ OneClaim' /\ PassesWithinSlots'
  <2>1. \A g \in Graduates : Stored(g)' = Stored(g)
    BY <1>0, <1>6, RestartStep
  <2>2. \A d \in Claims : claim'[d].pc = "none"
    BY <1>6, Nothings DEF Restart
  <2> QED
    BY <1>6, <2>1, <2>2, SlotQuiet DEF Restart
<1>7. ASSUME Delivering PROVE Granted' /\ OneClaim' /\ PassesWithinSlots'
  <2>1. UNCHANGED <<slots, claimed, overlapped, pass>>
    BY <1>7 DEF Delivering, SendParentMail, MarkParentMail, ResendDelivery, SendBulkMail,
                MarkBulkMail, MailFails, OpenDeepLink, SendByBot, MarkByBot
  <2>2. \A g \in Graduates : Stored(g)' = Stored(g)
    BY <2>1 DEF Stored
  <2>3. \/ UNCHANGED claim
        \/ \E c \in Claims : claim' = [claim EXCEPT ![c] = NoCall]
        \/ \E c \in Claims : claim[c].pc = "bulk" /\ claim' = [claim EXCEPT ![c].pc = "bulkSent"]
    BY <1>7 DEF Delivering, SendParentMail, MarkParentMail, ResendDelivery, SendBulkMail,
                MarkBulkMail, MailFails, OpenDeepLink, SendByBot, MarkByBot
  <2>4. \A d \in Claims : \/ claim'[d] = claim[d]
                          \/ /\ claim'[d].pc \notin {"checked", "open"}
                             /\ claim'[d].pc # "none" => claim[d].pc # "none"
                             /\ claim'[d].pc # "none" => claim'[d].record = claim[d].record
    <3>1. CASE UNCHANGED claim
      BY <3>1
    <3>2. ASSUME NEW c \in Claims, claim' = [claim EXCEPT ![c] = NoCall],
                 NEW d \in Claims
          PROVE  claim'[d] = claim[d] \/ claim'[d].pc = "none"
      BY <1>0, <3>2, Nothings DEF TypeInv, TypeOK
    <3>3. ASSUME NEW c \in Claims, claim[c].pc = "bulk",
                 claim' = [claim EXCEPT ![c].pc = "bulkSent"], NEW d \in Claims
          PROVE  \/ claim'[d] = claim[d]
                 \/ /\ claim'[d].pc = "bulkSent" /\ claim[d].pc = "bulk"
                    /\ claim'[d].record = claim[d].record
      BY <1>0, <3>3 DEF TypeInv, TypeOK, Call
    <3>4. CASE \E c \in Claims : claim' = [claim EXCEPT ![c] = NoCall]
      BY <3>2, <3>4
    <3>5. CASE \E c \in Claims : claim[c].pc = "bulk" /\ claim' = [claim EXCEPT ![c].pc = "bulkSent"]
      BY <3>3, <3>5
    <3> QED
      BY <2>3, <3>1, <3>4, <3>5
  <2> QED
    BY <2>1, <2>2, <2>4, SlotQuiet
<1>8. CASE UNCHANGED vars
  <2>1. \A g \in Graduates : Stored(g)' = Stored(g)
    BY <1>8 DEF vars, Stored
  <2> QED
    BY <1>8, <2>1, SlotQuiet DEF vars
<1> QED
  BY <1>1, <1>2, <1>3, <1>4, <1>5, <1>6, <1>7, <1>8 DEF Next, Claiming

\* A graduate whose claims were not submitted at the same time never has more
\* passes than slots (submitClaim), for any number of claims and failures.
THEOREM SlotsCorrect == Spec => []PassesWithinSlots
<1>1. SlotInv => PassesWithinSlots
  BY DEF SlotInv
<1> QED
  BY SlotInit, SlotStep, <1>1, PTL DEF Spec
=============================================================================
