---------------------------- MODULE Notifications ----------------------------
(***************************************************************************)
(* From enqueueNotification to the badge of the bell:                      *)
(* NotificationsService, NotificationsProcessor and NotificationsGateway   *)
(* (src/apps/api/src/notifications/) and the web client's popover and      *)
(* socket (src/apps/web/src/features/notifications/).                      *)
(*                                                                         *)
(* A job is stored for all its recipients, read back, and pushed to the    *)
(* sockets that are connected.  An attempt that fails is repeated as a     *)
(* whole, up to three times.  The client shows what it last fetched; a     *)
(* push or a change of its own makes it fetch again, and it polls the      *)
(* unread count.                                                           *)
(***************************************************************************)
EXTENDS Naturals, FiniteSets, FiniteSetsExt

CONSTANTS
    Users,       \* recipients
    Jobs,        \* jobs ever put on the queue (bound)
    MaxBreaks,   \* attempts that fail and processes that stop (bound)
    None

Attempts == 3 \* "attempts: 3"
Stalls == 1   \* BullMQ's maxStalledCount

VARIABLES
    job,      \* the queue
    worker,   \* what the processor is doing
    unread,   \* rows of table "notifications" not read yet, per job and user
    seen,     \* rows read
    stored,   \* history: rows ever inserted per job
    online,   \* users whose socket is in their room
    badge,    \* unread count shown to each user
    stale,    \* users whose cached queries are invalid
    breaks    \* failures so far

vars == <<job, worker, unread, seen, stored, online, badge, stale, breaks>>

-----------------------------------------------------------------------------
Job == [state : {"none", "waiting", "active", "done", "failed"}, to : SUBSET Users,
        failures : 0 .. Attempts, stalls : 0 .. (Stalls + 1)]
NoJob == [state |-> "none", to |-> {}, failures |-> 0, stalls |-> 0]

MostRows == Attempts + Stalls

Worker == [pc : {"idle", "persist", "push"}, job : Jobs \cup {None}]
Resting == [pc |-> "idle", job |-> None]

Init ==
    /\ job = [j \in Jobs |-> NoJob]
    /\ worker = Resting
    /\ unread = [j \in Jobs |-> [u \in Users |-> 0]]
    /\ seen = [j \in Jobs |-> [u \in Users |-> 0]]
    /\ stored = [j \in Jobs |-> 0]
    /\ online = {}
    /\ badge = [u \in Users |-> 0]
    /\ stale = {}
    /\ breaks = 0

\* getUnreadCount
UnreadCount(u) == MapThenSumSet(LAMBDA j : unread[j][u], Jobs)

-----------------------------------------------------------------------------
(* The queue and its worker.                                               *)

\* enqueueNotification (one user) and enqueueBulkNotifications; no users, no job.
Enqueue(j, S) ==
    /\ job[j].state = "none"
    /\ S # {}
    /\ job' = [job EXCEPT ![j] = [NoJob EXCEPT !.state = "waiting", !.to = S]]
    /\ UNCHANGED <<worker, unread, seen, stored, online, badge, stale, breaks>>

TakeJob(j) ==
    /\ worker.pc = "idle"
    /\ job[j].state = "waiting"
    /\ job' = [job EXCEPT ![j].state = "active"]
    /\ worker' = [pc |-> "persist", job |-> j]
    /\ UNCHANGED <<unread, seen, stored, online, badge, stale, breaks>>

\* createMany: a row for every recipient.
Persist ==
    LET j == worker.job
    IN  /\ worker.pc = "persist"
        /\ unread' = [unread EXCEPT ![j] = [u \in Users |->
                         unread[j][u] + IF u \in job[j].to THEN 1 ELSE 0]]
        /\ stored' = [stored EXCEPT ![j] = @ + 1]
        /\ worker' = [worker EXCEPT !.pc = "push"]
        /\ UNCHANGED <<job, seen, online, badge, stale, breaks>>

\* findMany for the ids, then emitToUser for each; a client that gets the event
\* invalidates its queries.  A recipient who has deleted the row gets none.
Push ==
    LET j == worker.job
    IN  /\ worker.pc = "push"
        /\ stale' = stale \cup {u \in job[j].to \cap online : unread[j][u] + seen[j][u] > 0}
        /\ job' = [job EXCEPT ![j].state = "done"]
        /\ worker' = Resting
        /\ UNCHANGED <<unread, seen, stored, online, badge, breaks>>

\* Mutant: process logs the error and does not throw it again.
SwallowError ==
    LET j == worker.job
    IN  /\ worker.pc # "idle"
        /\ breaks < MaxBreaks
        /\ breaks' = breaks + 1
        /\ job' = [job EXCEPT ![j].state = "done"]
        /\ worker' = Resting
        /\ UNCHANGED <<unread, seen, stored, online, badge, stale>>

\* A statement fails: the job waits for its next attempt or has had the last.
FailAttempt ==
    LET j == worker.job
    IN  /\ worker.pc # "idle"
        /\ breaks < MaxBreaks
        /\ breaks' = breaks + 1
        /\ job' = [job EXCEPT ![j].failures = @ + 1,
                              ![j].state = IF job[j].failures + 1 < Attempts THEN "waiting"
                                                                             ELSE "failed"]
        /\ worker' = Resting
        /\ UNCHANGED <<unread, seen, stored, online, badge, stale>>

\* The process stops: its sockets close, and BullMQ puts the stalled job back once.
Stop ==
    LET j == worker.job
    IN  /\ breaks < MaxBreaks
        /\ breaks' = breaks + 1
        /\ online' = {}
        /\ worker' = Resting
        /\ job' = IF j = None THEN job
                  ELSE [job EXCEPT ![j].stalls = @ + 1,
                                   ![j].state = IF job[j].stalls < Stalls THEN "waiting"
                                                                          ELSE "failed"]
        /\ UNCHANGED <<unread, seen, stored, badge, stale>>

-----------------------------------------------------------------------------
(* The client.                                                             *)

\* handleConnection after useNotificationSocket's connect: the token is valid.
Connect(u) ==
    /\ u \notin online
    /\ online' = online \cup {u}
    /\ UNCHANGED <<job, worker, unread, seen, stored, badge, stale, breaks>>

\* The page is closed or hidden from the network; after five attempts the
\* client does not try again.
Disconnect(u) ==
    /\ u \in online
    /\ online' = online \ {u}
    /\ UNCHANGED <<job, worker, unread, seen, stored, badge, stale, breaks>>

\* markAsRead of one row.
MarkAsRead(u, j) ==
    /\ unread[j][u] > 0
    /\ unread' = [unread EXCEPT ![j][u] = @ - 1]
    /\ seen' = [seen EXCEPT ![j][u] = @ + 1]
    /\ stale' = stale \cup {u}
    /\ UNCHANGED <<job, worker, stored, online, badge, breaks>>

MarkAllAsRead(u) ==
    /\ UnreadCount(u) > 0
    /\ unread' = [j \in Jobs |-> [unread[j] EXCEPT ![u] = 0]]
    /\ seen' = [j \in Jobs |-> [seen[j] EXCEPT ![u] = seen[j][u] + unread[j][u]]]
    /\ stale' = stale \cup {u}
    /\ UNCHANGED <<job, worker, stored, online, badge, breaks>>

\* deleteOne of a row, read or not.
DeleteOne(u, j) ==
    /\ \/ unread[j][u] > 0 /\ unread' = [unread EXCEPT ![j][u] = @ - 1] /\ UNCHANGED seen
       \/ seen[j][u] > 0 /\ seen' = [seen EXCEPT ![j][u] = @ - 1] /\ UNCHANGED unread
    /\ stale' = stale \cup {u}
    /\ UNCHANGED <<job, worker, stored, online, badge, breaks>>

\* useUnreadCount fetches: its data are invalid, or a minute has passed.
Refetch(u) ==
    /\ badge' = [badge EXCEPT ![u] = UnreadCount(u)]
    /\ stale' = stale \ {u}
    /\ UNCHANGED <<job, worker, unread, seen, stored, online, breaks>>

\* Mutant: refetchInterval is dropped.
PollWhenStale(u) == u \in stale /\ Refetch(u)

Poll(u) == (u \in stale \/ badge[u] # UnreadCount(u)) /\ Refetch(u)

Work == (\E j \in Jobs : TakeJob(j)) \/ Persist \/ Push

Next ==
    \/ \E j \in Jobs, S \in SUBSET Users : Enqueue(j, S)
    \/ Work
    \/ FailAttempt
    \/ Stop
    \/ \E u \in Users :
        \/ Connect(u)
        \/ Disconnect(u)
        \/ MarkAllAsRead(u)
        \/ \E j \in Jobs : MarkAsRead(u, j) \/ DeleteOne(u, j)
        \/ Poll(u)

Spec == Init /\ [][Next]_vars

\* BullMQ's worker goes on while there are jobs, and open pages poll.
Fairness == WF_vars(Work) /\ \A u \in Users : WF_vars(Poll(u))

-----------------------------------------------------------------------------
TypeOK ==
    /\ job \in [Jobs -> Job]
    /\ worker \in Worker
    /\ unread \in [Jobs -> [Users -> 0 .. MostRows]]
    /\ seen \in [Jobs -> [Users -> 0 .. MostRows]]
    /\ stored \in [Jobs -> 0 .. MostRows]
    /\ online \subseteq Users
    /\ badge \in [Users -> 0 .. (MostRows * Cardinality(Jobs))]
    /\ stale \subseteq Users
    /\ breaks \in 0 .. MaxBreaks

\* A finished job was stored, and a job is stored again only after an attempt
\* that broke between createMany and the end (notifications.processor.ts:26):
\* no user gets the same notice more often than that.
StoredOncePerAttempt ==
    \A j \in Jobs :
        /\ job[j].state = "done" => stored[j] >= 1
        /\ stored[j] <= job[j].failures + job[j].stalls
                          + IF job[j].state \in {"active", "done"} THEN 1 ELSE 0
        /\ \A u \in Users : unread[j][u] + seen[j][u] <= IF u \in job[j].to THEN stored[j] ELSE 0

Waiting(j) == job[j].state = "waiting"
Ended(j) == job[j].state \in {"done", "failed"}
BadgeIsRight(u) == badge[u] = UnreadCount(u)

\* Every job ends, stored or given up after three attempts.
JobsEnd == \A j \in Jobs : Waiting(j) ~> Ended(j)

\* The badge comes to show the unread rows, whether or not a socket was
\* connected when they were stored (the poll is the fallback of the push).
BadgeCatchesUp == \A u \in Users : []<>BadgeIsRight(u)

-----------------------------------------------------------------------------
(* The inductive invariant of StoredOncePerAttempt.                        *)

QueueType ==
    /\ job \in [Jobs -> Job]
    /\ worker \in Worker
    /\ unread \in [Jobs -> [Users -> Nat]]
    /\ seen \in [Jobs -> [Users -> Nat]]
    /\ stored \in [Jobs -> Nat]

\* The processor works on a job that is active, and pushes what it has stored.
WorkerAgrees ==
    /\ worker.pc = "idle" <=> worker.job = None
    /\ worker.pc # "idle" => job[worker.job].state = "active"
    /\ worker.pc = "push" => stored[worker.job] >= 1

\* An attempt adds one to the rows, its end one to the failures, the stalls or
\* the jobs that are done.
AttemptsAreCounted(j) ==
    /\ job[j].state = "none" => job[j] = NoJob
    /\ job[j].state \in {"waiting", "active"} => job[j].failures < Attempts /\ job[j].stalls <= Stalls
    /\ job[j].state = "done" => stored[j] >= 1
    /\ stored[j] <= job[j].failures + job[j].stalls
                      + IF job[j].state = "done" \/ (worker.pc = "push" /\ worker.job = j) THEN 1 ELSE 0

RowsAreStored(j) ==
    \A u \in Users : unread[j][u] + seen[j][u] <= IF u \in job[j].to THEN stored[j] ELSE 0

QueueInv ==
    /\ QueueType
    /\ WorkerAgrees
    /\ \A j \in Jobs : AttemptsAreCounted(j) /\ RowsAreStored(j)
==============================================================================
