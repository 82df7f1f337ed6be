------------------------------ MODULE Support ------------------------------
(***************************************************************************)
(* One support ticket and the pages that show it: SupportService,          *)
(* SupportController and SupportGateway (src/apps/api/src/support/) with   *)
(* the pages of the author and of an administrator                         *)
(* (src/apps/web/src/features/support/).                                   *)
(*                                                                         *)
(* A reply reads the ticket, perhaps sets it IN_PROGRESS, inserts the      *)
(* message and tells the sockets that joined the ticket's room; their      *)
(* pages invalidate what they show.  Each page shows the ticket out of the *)
(* query cache of its tab (lib/react-query.ts over TanStack Query 5, an    *)
(* external library): answers are taken for fresh for five minutes and     *)
(* kept for five after the page is left, an invalidation begins a fetch    *)
(* under way again unless it is the first one, and a page that opens on    *)
(* fresh data fetches nothing.  There is no poll, and no push of a status. *)
(***************************************************************************)
EXTENDS Naturals

CONSTANTS
    Replies,  \* calls of addMessage in flight at once (bound)
    MaxLosses \* handlers that die and sockets that break (bound)

Views == {"author", "admin"} \* SupportTracker or MyTickets, and the dashboard

VARIABLES
    status,   \* of the ticket
    owner,    \* "author", or "nobody" if neither userId nor guestEmail is set
    reply,    \* calls of addMessage in flight
    view,     \* the pages
    missed,   \* history: pages that have not read a message that was announced
              \* while their socket was not there or their first answer on its way
    late,     \* history: a reply in flight has read OPEN, and the ticket was settled since
    losses

vars == <<status, owner, reply, view, missed, late, losses>>

-----------------------------------------------------------------------------
Status == {"none", "OPEN", "IN_PROGRESS", "RESOLVED", "CLOSED"}
Settled == {"RESOLVED", "CLOSED"}

\* What an answer or the cache holds of the conversation: every row there is of
\* support_messages, or not every one.
Held == {"none", "part", "all"}

\* A page and the query behind it: is it open, is its socket in the room, the
\* fetch under way and what it has read, whether the last one failed, and the
\* data in the cache with their freshness.
View == [open : BOOLEAN, joined : BOOLEAN,
         fetch : {"none", "asked", "read"}, answer : Held, failed : BOOLEAN,
         shown : Held, fresh : BOOLEAN]
Closed == [open |-> FALSE, joined |-> FALSE,
           fetch |-> "none", answer |-> "none", failed |-> FALSE,
           shown |-> "none", fresh |-> FALSE]

\* A call of addMessage, and the page that made it.
Reply == [pc : {"none", "reopen", "insert", "emit", "answer"}, from : Views \cup {"none"}]
NoReply == [pc |-> "none", from |-> "none"]

Init ==
    /\ status = "none"
    /\ owner = "nobody"
    /\ reply = [r \in Replies |-> NoReply]
    /\ view = [v \in Views |-> Closed]
    /\ missed = {}
    /\ late = FALSE
    /\ losses = 0

Shows(v) == view[v].open /\ view[v].shown # "none"

\* The view with a fetch that begins, or begins again.
Asking(v) == [view[v] EXCEPT !.fetch = "asked", !.answer = "none", !.failed = FALSE,
                             !.fresh = FALSE]

\* invalidateQueries: only a query whose page is open is fetched again, and not if
\* its first fetch is under way.
Invalidated(v) ==
    IF Shows(v) \/ (view[v].open /\ view[v].fetch = "none")
      THEN Asking(v)
      ELSE [view[v] EXCEPT !.fresh = FALSE]

\* The pages that an announcement does not reach, or not in time.
Unreached == {v \in Views : ~view[v].joined \/ (~Shows(v) /\ view[v].fetch = "read")}

-----------------------------------------------------------------------------
(* Tickets.                                                                *)

\* createTicket, by a guest who gives an address or by a user.  The route is
\* public: a user whose access token has lapsed is nobody, and their form has
\* no field for an address.
CreateTicket(by) ==
    /\ status = "none"
    /\ status' = "OPEN"
    /\ owner' = by
    /\ UNCHANGED <<reply, view, missed, late, losses>>

\* updateStatus, by handleResolve and handleClose of the administrator's sheet.
\* (The server refuses neither a status nor a reply; what a page offers depends
\* on the status it shows, and that may be any older one.)
UpdateStatus(s) ==
    /\ Shows("admin")
    /\ status' = s
    /\ late' = \E r \in Replies : reply[r].pc = "reopen"
    /\ UNCHANGED <<owner, reply, view, missed, losses>>

\* The answer to a change of the status: useUpdateStatus invalidates the ticket,
\* whether the page is still open or not.  (The buttons stay enabled, so that any
\* number of changes may wait for their answers.)
StatusUpdated ==
    /\ status \in Settled \/ late
    /\ view' = [view EXCEPT !["admin"] = Invalidated("admin")]
    /\ UNCHANGED <<status, owner, reply, missed, late, losses>>

\* Mutant: every reply sets the ticket IN_PROGRESS.
AddMessageReopening(r, v) ==
    /\ reply[r] = NoReply
    /\ Shows(v)
    /\ v = "author" => owner # "nobody"
    /\ reply' = [reply EXCEPT ![r] = [pc |-> "reopen", from |-> v]]
    /\ UNCHANGED <<status, owner, view, missed, late, losses>>

\* addMessage reads the ticket, by a page that shows it; a guest or the owner and
\* administrators may.
AddMessage(r, v) ==
    /\ reply[r] = NoReply
    /\ Shows(v)
    /\ v = "author" => owner # "nobody"
    /\ reply' = [reply EXCEPT ![r] = [pc |-> IF status = "OPEN" THEN "reopen" ELSE "insert",
                                       from |-> v]]
    /\ UNCHANGED <<status, owner, view, missed, late, losses>>

\* The update, by id: whatever the status has become.
SetInProgress(r) ==
    /\ reply[r].pc = "reopen"
    /\ status' = "IN_PROGRESS"
    /\ reply' = [reply EXCEPT ![r].pc = "insert"]
    /\ UNCHANGED <<owner, view, missed, late, losses>>

\* supportMessage.create: what has been read before lacks the message.
InsertMessage(r) ==
    LET Lacking(held) == IF held = "all" THEN "part" ELSE held
    IN  /\ reply[r].pc = "insert"
        /\ view' = [v \in Views |-> [view[v] EXCEPT !.answer = Lacking(@), !.shown = Lacking(@)]]
        /\ reply' = [reply EXCEPT ![r].pc = "emit"]
        /\ UNCHANGED <<status, owner, missed, late, losses>>

\* Mutant: the message is emitted to the room of the administrators.
EmitToAdmins(r) ==
    /\ reply[r].pc = "emit"
    /\ view' = [v \in Views |-> IF view[v].joined /\ v = "admin" THEN Invalidated(v) ELSE view[v]]
    /\ missed' = missed \cup Unreached
    /\ reply' = [reply EXCEPT ![r].pc = "answer"]
    /\ UNCHANGED <<status, owner, late, losses>>

\* emitNewMessage reaches the joined pages; the mail to the other side, which
\* may fail, changes nothing here.
EmitMessage(r) ==
    /\ reply[r].pc = "emit"
    /\ view' = [v \in Views |-> IF view[v].joined THEN Invalidated(v) ELSE view[v]]
    /\ missed' = missed \cup Unreached
    /\ reply' = [reply EXCEPT ![r].pc = "answer"]
    /\ UNCHANGED <<status, owner, late, losses>>

\* The answer: useReplyTicket or usePublicReply invalidates the page's query,
\* whether the page is still open or not.
Answer(r) ==
    LET v == reply[r].from
    IN  /\ reply[r].pc = "answer"
        /\ view' = [view EXCEPT ![v] = Invalidated(v)]
        /\ reply' = [reply EXCEPT ![r] = NoReply]
        /\ UNCHANGED <<status, owner, missed, late, losses>>

-----------------------------------------------------------------------------
(* Pages: usePublicTicket or useTicketDetails, and useSupportSocket.  A    *)
(* sheet that is only hidden keeps its query and its socket.               *)

\* The page is opened.  On fresh data it fetches nothing, unless they have grown
\* older than staleTime; else it fetches, or joins the fetch under way.
OpenPage(v) ==
    /\ status # "none"
    /\ ~view[v].open
    /\ v = "author" => owner # "nobody"
    /\ \/ /\ view[v].fresh
          /\ view' = [view EXCEPT ![v].open = TRUE]
       \/ /\ view[v].fetch = "none"
          /\ view' = [view EXCEPT ![v] = [Asking(v) EXCEPT !.open = TRUE]]
       \/ /\ view[v].fetch # "none"
          /\ view' = [view EXCEPT ![v].open = TRUE]
    /\ UNCHANGED <<status, owner, reply, missed, late, losses>>

\* connect, and again after every reconnect: joinTicket; nothing is fetched.
JoinTicket(v) ==
    /\ view[v].open
    /\ ~view[v].joined
    /\ view' = [view EXCEPT ![v].joined = TRUE]
    /\ UNCHANGED <<status, owner, reply, missed, late, losses>>

\* getTicket.  (A first answer that is lost is asked for again: the read stands
\* for the one whose answer arrives.)
ReadTicket(v) ==
    /\ view[v].fetch = "asked"
    /\ view' = [view EXCEPT ![v] = [@ EXCEPT !.fetch = "read", !.answer = "all"]]
    /\ missed' = missed \ {v}
    /\ UNCHANGED <<status, owner, reply, late, losses>>

\* The answer replaces what is shown, and counts as fresh.
ShowTicket(v) ==
    /\ view[v].fetch = "read"
    /\ view' = [view EXCEPT ![v] = [@ EXCEPT !.fetch = "none", !.answer = "none",
                                             !.shown = view[v].answer, !.fresh = TRUE]]
    /\ UNCHANGED <<status, owner, reply, missed, late, losses>>

\* The network fails, and again at the retry: what is shown stays.
FailToFetch(v) ==
    /\ view[v].fetch # "none"
    /\ view' = [view EXCEPT ![v] = [@ EXCEPT !.fetch = "none", !.answer = "none",
                                             !.failed = view[v].open]]
    /\ UNCHANGED <<status, owner, reply, missed, late, losses>>

\* The browser is back on line: data that are not fresh any more are fetched again.
BackOnline(v) ==
    /\ view[v].open
    /\ view[v].fetch = "none"
    /\ view' = [view EXCEPT ![v] = Asking(v)]
    /\ UNCHANGED <<status, owner, reply, missed, late, losses>>

\* The page is left: the socket goes, the fetch and the data stay.
ClosePage(v) ==
    /\ view[v].open
    /\ view' = [view EXCEPT ![v] = [@ EXCEPT !.open = FALSE, !.joined = FALSE, !.failed = FALSE]]
    /\ UNCHANGED <<status, owner, reply, missed, late, losses>>

\* Five minutes after that, or when the tab is closed or loaded anew, the data go.
Forget(v) ==
    /\ ~view[v].open
    /\ view[v] # Closed
    /\ view' = [view EXCEPT ![v] = Closed]
    /\ missed' = missed \ {v}
    /\ UNCHANGED <<status, owner, reply, late, losses>>

\* A socket breaks; it connects again by itself.
Break(v) ==
    /\ view[v].joined
    /\ losses < MaxLosses
    /\ losses' = losses + 1
    /\ view' = [view EXCEPT ![v].joined = FALSE]
    /\ UNCHANGED <<status, owner, reply, missed, late>>

\* A handler dies: the message, if it is inserted, is announced to nobody.
Die(r) ==
    /\ reply[r] # NoReply
    /\ losses < MaxLosses
    /\ losses' = losses + 1
    /\ missed' = IF reply[r].pc = "emit" THEN Views ELSE missed
    /\ reply' = [reply EXCEPT ![r] = NoReply]
    /\ UNCHANGED <<status, owner, view, late>>

Next ==
    \/ \E by \in {"author", "nobody"} : CreateTicket(by)
    \/ \E s \in Settled : UpdateStatus(s)
    \/ StatusUpdated
    \/ \E r \in Replies :
        \/ \E v \in Views : AddMessage(r, v)
        \/ SetInProgress(r)
        \/ InsertMessage(r)
        \/ EmitMessage(r)
        \/ Answer(r)
        \/ Die(r)
    \/ \E v \in Views :
        \/ OpenPage(v)
        \/ JoinTicket(v)
        \/ ReadTicket(v)
        \/ ShowTicket(v)
        \/ FailToFetch(v)
        \/ BackOnline(v)
        \/ ClosePage(v)
        \/ Forget(v)
        \/ Break(v)

Spec == Init /\ [][Next]_vars

-----------------------------------------------------------------------------
TypeOK ==
    /\ status \in Status
    /\ owner \in {"author", "nobody"}
    /\ reply \in [Replies -> Reply]
    /\ view \in [Views -> View]
    /\ missed \subseteq Views
    /\ late \in BOOLEAN
    /\ losses \in 0 .. MaxLosses

\* A settled ticket stays settled, unless a reply had read it as OPEN before
\* (support.service.ts:116 updates by id what it read before line 115; the
\* comment above says "unless it was already RESOLVED").
StaysSettled == status \in Settled => status' \in Settled \/ late
SettledStaysSettled == [][StaysSettled]_vars

\* A page that shows the ticket and is not fetching it shows every message that
\* was announced.  Three things excuse it: its last fetch failed; it has not read
\* since a message was announced while its socket was not in the room (the page
\* was not open, was connecting or had lost the connection); or while its first
\* answer was on its way.  useSupportSocket joins without fetching, and nothing
\* polls, so that such a page stays behind.
ConversationIsShown ==
    \A v \in Views :
        /\ Shows(v)
        /\ view[v].fetch = "none" /\ ~view[v].failed
        /\ v \notin missed
        /\ \A r \in Replies : reply[r].pc # "emit"
        => view[v].shown = "all"
=============================================================================
