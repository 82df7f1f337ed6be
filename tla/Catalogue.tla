------------------------------- MODULE Catalogue -------------------------------
(***************************************************************************)
(* The services that keep what events are described by (src/apps/api/src): *)
(* tags, types, venues, categories, departments, sessions, speakers, form  *)
(* fields, hackathons, bookmarks and feedback forms.  A method is the      *)
(* sequence of its database statements; those of different requests        *)
(* interleave, any may be the last one its request carries out, and the    *)
(* foreign keys of the schema refuse some.                                 *)
(*                                                                         *)
(* A row stands for what a method takes to be one thing: "tag" is a tag of *)
(* some name, whatever its case, and a second row of it a tag whose name   *)
(* differs in case only, which the unique index lets pass.                 *)
(***************************************************************************)
EXTENDS Naturals, Sequences, Functions

CONSTANTS
    Requests,     \* requests that may be under way at once
    MaxRequests,  \* bound on the requests
    None

VARIABLES
    rows,   \* how many there are of each row
    request,\* what a request does: [op, todo, lost, left], or NoRequest
    begun,
    halves, \* history: what failed requests had deleted or added by then
    raced,  \* history: rows that two overlapping requests add
    repeated \* history: rows that a request added twice, its list of ids naming one twice

vars == <<rows, request, begun, halves, raced, repeated>>

-----------------------------------------------------------------------------
(* The schema.                                                             *)

Naming == {"tag", "spareTag", "eventTag", "type", "event", "venue", "booking",
           "category", "eventCategory", "department", "hackathon", "bookmark", "organizer"}
Agenda == {"session", "newSession", "speaker", "assignment", "newAssignment",
           "attendance", "field"}
Forms == {"template", "default", "question", "answer", "link"}
Rows == Naming \cup Agenda \cup Forms

\* What a row refers to, and what may not go while it exists; a session leaves its
\* attendance, a department its users, without one.
Referred(r) ==
    CASE r = "eventTag" -> {"tag"}
      [] r = "event" -> {"venue", "type"}
      [] r = "booking" -> {"venue"}
      [] r = "eventCategory" -> {"category"}
      [] r = "organizer" -> {"event"}
      [] r = "assignment" -> {"session", "speaker"}
      [] r = "newAssignment" -> {"newSession", "speaker"}
      [] r = "answer" -> {"question"}
      [] OTHER -> {}
\* onDelete: Cascade
Cascades(r) == IF r \in {"question", "link"} THEN {"template"} ELSE {}
UniqueIndex == {"bookmark"}

-----------------------------------------------------------------------------
(* Statements.                                                             *)

Nothing == [needs |-> {}, lacks |-> {}, take |-> {}, clear |-> {}, add |-> {}, each |-> {}]
Find(S) == [Nothing EXCEPT !.needs = S]
FindNo(S) == [Nothing EXCEPT !.lacks = S]
Create(S) == [Nothing EXCEPT !.add = S]
\* createMany, a row for each id the request lists
CreateEach(S) == [Create(S) EXCEPT !.each = S]
DeleteMany(S) == [Nothing EXCEPT !.clear = S]
Delete(S) == [Find(S) EXCEPT !.take = S]

After(s) ==
    LET kept == [r \in Rows |-> IF r \in s.clear THEN 0
                                ELSE IF r \in s.take THEN rows[r] - 1 ELSE rows[r]]
        closed == [r \in Rows |-> IF \E p \in Cascades(r) : kept[p] = 0 THEN 0 ELSE kept[r]]
    IN  [r \in Rows |-> IF r \in s.add THEN closed[r] + 1 ELSE closed[r]]

Succeeds(s) ==
    LET after == After(s)
    IN  /\ \A r \in s.needs : rows[r] > 0
        /\ \A r \in s.lacks : rows[r] = 0
        /\ \A r \in s.add \cap UniqueIndex : rows[r] = 0
        /\ \A r \in Rows : after[r] > 0 => \A p \in Referred(r) \cup Cascades(r) : after[p] > 0

-----------------------------------------------------------------------------
(* The methods.                                                            *)

\* checkUniqueName, then the insert or the update.
createTag == <<FindNo({"tag"}), Create({"tag"})>>
updateTag == <<Find({"spareTag"}), FindNo({"tag"}), [Delete({"spareTag"}) EXCEPT !.add = {"tag"}]>>
removeTag == <<Find({"tag"}), FindNo({"eventTag"}), Delete({"tag"})>>
createType == <<FindNo({"type"}), Create({"type"})>>
removeType == <<Find({"type"}), FindNo({"event"}), Delete({"type"})>>
removeVenue == <<Find({"venue"}), FindNo({"booking"}), Delete({"venue"})>>
createCategory == <<Create({"category"})>>
removeCategory == <<Find({"category"}), Delete({"category"})>>
createDepartment == <<Create({"department"})>>
removeDepartment == <<Find({"department"}), Delete({"department"})>>
createHackathon == <<FindNo({"hackathon"}), Create({"hackathon"})>>
removeHackathon == <<Find({"hackathon"}), Delete({"hackathon"})>>
bookmarkEvent == <<FindNo({"bookmark"}), Create({"bookmark"})>>
unbookmarkEvent == <<Find({"bookmark"}), Delete({"bookmark"})>>
\* The event with all that hangs on it, then its creator's row among the organizers.
createEvent == <<Find({"venue"}), Create({"event", "booking", "eventTag", "eventCategory"}),
                 Create({"organizer"})>>

\* The session first, then attachSpeakers, for which no index makes skipDuplicates
\* skip an id that the request repeats.
createSession == <<Create({"newSession"}), Find({"speaker"}), CreateEach({"newAssignment"})>>
updateSession == <<Find({"session"}), DeleteMany({"assignment"}), Find({"speaker"}),
                   CreateEach({"assignment"}), Find({"session"})>>

\* Mutant: no transaction.
RemoveSessionInSteps == <<Find({"session"}), DeleteMany({"assignment"}), DeleteMany({"attendance"}),
                          Delete({"session"})>>

removeSession == <<Find({"session"}),
                   [Delete({"session"}) EXCEPT !.clear = {"assignment", "attendance"}]>>
addSpeaker == <<Find({"session"}), Find({"speaker"}), FindNo({"assignment"}), Create({"assignment"})>>
removeAssignment == <<Find({"session"}), Find({"assignment"}), Delete({"assignment"})>>
createSpeaker == <<Create({"speaker"})>>
removeSpeaker == <<Find({"speaker"}), DeleteMany({"assignment", "newAssignment"}), Delete({"speaker"})>>
checkInToSession == <<Find({"session"}), Create({"attendance"})>>
createField == <<Create({"field"})>>
removeField == <<Find({"field"}), Delete({"field"})>>  \* its answers: nothing writes any

getOrCreateDefaultTemplate == <<FindNo({"default"}), Create({"default"})>>
createTemplate == <<Create({"template", "question"})>>
updateTemplate == <<Find({"template"}), DeleteMany({"question"}), [Create({"question"}) EXCEPT !.needs = {"template"}]>>
deleteTemplate == <<Find({"template"}), Delete({"template"})>>
attachTemplateToEvent == <<Find({"template"}), DeleteMany({"link"}), Create({"link"})>>
submitFeedback == <<Find({"question"}), Create({"answer"})>>

NameMethods == [createTag |-> createTag, updateTag |-> updateTag, removeTag |-> removeTag,
    createType |-> createType, removeType |-> removeType, removeVenue |-> removeVenue,
    createCategory |-> createCategory, removeCategory |-> removeCategory,
    createDepartment |-> createDepartment, removeDepartment |-> removeDepartment,
    createHackathon |-> createHackathon, removeHackathon |-> removeHackathon,
    bookmarkEvent |-> bookmarkEvent, unbookmarkEvent |-> unbookmarkEvent, createEvent |-> createEvent]
AgendaMethods == [createSession |-> createSession, updateSession |-> updateSession,
    removeSession |-> removeSession, addSpeaker |-> addSpeaker, removeAssignment |-> removeAssignment,
    createSpeaker |-> createSpeaker, removeSpeaker |-> removeSpeaker,
    checkInToSession |-> checkInToSession, createField |-> createField,
    removeField |-> removeField]
FormMethods == [getOrCreateDefaultTemplate |-> getOrCreateDefaultTemplate,
    createTemplate |-> createTemplate, updateTemplate |-> updateTemplate,
    deleteTemplate |-> deleteTemplate, attachTemplateToEvent |-> attachTemplateToEvent,
    submitFeedback |-> submitFeedback]
Services == {NameMethods, AgendaMethods, FormMethods}

-----------------------------------------------------------------------------

NoRequest == [op |-> None, todo |-> << >>, lost |-> {}, left |-> {}]

\* The rows of one of the three groups exist, or none does.
Init ==
    /\ \E group \in {{}, {"spareTag", "venue", "type", "event"}, Agenda \ {"newSession", "newAssignment"},
                     Forms \ {"answer", "default"}} :
           rows = [r \in Rows |-> IF r \in group THEN 1 ELSE 0]
    /\ request = [q \in Requests |-> NoRequest]
    /\ begun = 0
    /\ halves = {} /\ raced = {} /\ repeated = {}

Adds(method) == UNION {s.add : s \in Range(method)}

\* Requests for things of the other groups change nothing that matters here.
Begin(q, Methods, op) ==
    LET others == {request[p].op : p \in Requests} \ {None}
    IN  /\ begun < MaxRequests
        /\ request[q] = NoRequest
        /\ others \subseteq DOMAIN Methods
        /\ begun' = begun + 1
        /\ request' = [request EXCEPT ![q] = [NoRequest EXCEPT !.op = op, !.todo = Methods[op]]]
        /\ raced' = raced \cup UNION {Adds(Methods[op]) \cap Adds(Methods[o]) : o \in others}
        /\ UNCHANGED <<rows, halves, repeated>>

Work(q) ==
    LET r == request[q]
        s == Head(r.todo)
    IN  /\ r.op # None
        /\ Succeeds(s)
        /\ \E twice \in SUBSET s.each :
              /\ rows' = [x \in Rows |-> IF x \in twice THEN After(s)[x] + 1 ELSE After(s)[x]]
              /\ repeated' = repeated \cup twice
        /\ request' = [request EXCEPT ![q] =
               IF Len(r.todo) = 1 THEN NoRequest
               ELSE [r EXCEPT !.todo = Tail(r.todo),
                              !.lost = r.lost \cup {x \in Rows : rows'[x] < rows[x]},
                              !.left = r.left \cup {x \in Rows : rows'[x] > rows[x]}]]
        /\ UNCHANGED <<begun, halves, raced>>

\* The statement is refused, or the process dies before it.
Fail(q) ==
    LET r == request[q]
    IN  /\ r.op # None
        /\ request' = [request EXCEPT ![q] = NoRequest]
        /\ halves' = halves \cup ({r.op} \X (r.lost \cup r.left))
        /\ UNCHANGED <<rows, begun, raced, repeated>>

Next ==
    \/ \E q \in Requests : Work(q) \/ Fail(q)
    \/ \E q \in Requests, Methods \in Services : \E op \in DOMAIN Methods : Begin(q, Methods, op)

-----------------------------------------------------------------------------
\* What the services check to exist once exists twice only after two requests that
\* add it overlapped; the speaker of a session also after a request that listed the
\* speaker twice, and nothing else after a single request.
TwinsAreExplained ==
    \A r \in {"tag", "type", "hackathon", "assignment", "default", "link"} : rows[r] > 1 =>
        r \in raced \/ (r = "assignment" /\ r \in repeated)

\* A request that fails half-way has changed nothing, but for a session created
\* without its speakers, an event created without its creator among the organizers,
\* and for what the listed methods delete first: the speakers of a session, the
\* questions of a feedback form, the form an event used.
HalvesAreKnown ==
    halves \subseteq ({"createEvent"} \X {"event", "booking", "eventTag", "eventCategory"}) \cup
       {<<"createSession", "newSession">>, <<"updateSession", "assignment">>,
        <<"removeSpeaker", "assignment">>, <<"removeSpeaker", "newAssignment">>,
        <<"updateTemplate", "question">>, <<"attachTemplateToEvent", "link">>}

CatalogueIsConsistent == TwinsAreExplained /\ HalvesAreKnown
==============================================================================
