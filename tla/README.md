# MInT EMS: a TLA+ verification project

MInT EMS is an event management system: a NestJS API over PostgreSQL and a Redis
queue (`src/apps/api`), a Next.js web client (`src/apps/web`), a Telegram bot inside
the API, and a scoring service for recommendations (`src/apps/ml-service`).  This
directory models the parts of it whose correctness depends on the order in which
several people, tabs, cron jobs, mails and transactions act, checks the models with
TLC, and proves the main results with TLAPS for every value of their parameters.

`PROJECT.json` is the machine-readable index: components, runs, theorems, hazards
with their source lines, findings, and for each definition the source lines it
models (`map`).

Contents: 1 the system, 2 hard behaviours, 3 modules, 4 runs, 5 fairness,
6 findings, 7 proofs, 8 abstractions, 9 what is not modelled, 10 plan,
11 how to run.

## 1. The system: inventory

One API process serves every request.  Handlers are asynchronous: each `await`
on the database, the queue or the mail server is a point at which other handlers
run.  Only registration uses SERIALIZABLE transactions; graduation claims and
password resets use transactions of the default level (READ COMMITTED); everything
else is a sequence of statements that commit one by one.  `[x]` means modelled,
`[~]` partly, `[ ]` not (the reason is in section 9).

| | Component | Keeps | Operations | Correct when |
|---|---|---|---|---|
| [x] | Registration and waitlist (`registration/`) | `registrations`, `event_waitlist` | register, cancelByGuest, approve, reject, removeByOrganizer; addToWaitlist, promoteNext | seats never exceed the capacity; one active registration per guest; the waitlist is first come, first served; a freed seat is passed on |
| [~] | Event lifecycle and venues (`events/events.service.ts`, `venues.service.ts`) | `events` (status, venue, times) | create, update, submit, approve, reject, cancel, goLive, archive; two cron jobs each minute | statuses follow the table; approved events go live and are archived; notices and feedback mails follow; a slot is booked once |
| [x] | Feedback (`feedback/`) | `feedback_tokens`, `feedback_responses`, templates | dispatchFeedbackEmails, resolveFeedbackForm, submitFeedback; create, update, delete, attach a template | every attendee gets a working link, each link gives one response, a form is not left half-written |
| [x] | Accounts (`auth/`) | `users`, `one_time_tokens` | signUp, verifyEmail, forgotPassword, verifyMinistryId, telegramRegister, linking of a chat | an address is verified by its own link, and can be; the chat of an account is not taken over |
| [x] | Login sessions (`auth/`) | `auth_sessions`, passwords | login, refreshToken, logout, logoutAll, resetPassword | a reset ends older sessions; refresh tokens rotate without throwing users out |
| [~] | Web client: tokens (`web/src/lib/api-client.ts`, `useAuthStore.ts`) | memory of each tab, localStorage | setAuth, setTokens, clearAuth, doRefresh, proactive refresh, 401 handling | a live session keeps its tab logged in |
| [x] | Check-in (`attendance/`) | `attendance` | checkIn, manualCheckIn | a ticket admits once |
| [x] | Guests of attendees (`inviteGuests`) | `event_invites` | inviteGuests | no more guests than the event allows |
| [~] | Graduation passes (`graduation/`) | `graduation_records`, `guest_passes` | import, submitClaim, mails, resendDelivery | no more parents than slots; claims are all or nothing; delivered means sent |
| [~] | Telegram bot (`telegram/`) | linked chat ids | handleStartPayload, linking | a deep link delivers its pass; a chat is linked to one account |
| [x] | Organizer invitations, team, announcements (`invitations`, `organizers`, `announcements.service.ts`) | `event_organizers`, `event_invites`, `announcements` | invite, respond, remove; processEmails, respond, cancel; create, remove | an answer stands; only the team acts |
| [x] | Event catalogue (sessions, speakers, tags, categories, types, form fields, hackathons, bookmarks, departments) | one table each, join tables | create, update, delete, attach | foreign keys and unique names hold; which halves and doubles a request may leave |
| [x] | Notifications (queue, worker, sockets, bell) | Redis queue, `notifications`, the client's cache | enqueue; store, read back, push, three attempts; read, delete, poll | every job ends and is stored once per attempt; the badge catches up |
| [~] | Users, roles, permissions, administration | `users`, `roles`, join tables | replace interests, preferences, permissions; create, update, delete a role; assign a role | rows are those one request asked for; a role in use is not deleted |
| [x] | Support (`support/`) | tickets, messages, sockets, pages | create, reply, updateStatus | a settled ticket stays settled; a page shows what was announced |
| [x] | Analytics (`analytics/`) | figures in Redis | event, trend, archive, overview, top, category, department, engagement; time ranges; invalidation | reports agree with each other; cached figures are current |
| [~] | Recommendations (`recommendation/`), scoring service (`ml-service`) | queue, cache; artifacts on disk and in memory | retrain, verify, clear; train, copy, load, predict | answers come from one training, the last one |
| [~] | Web user interface (`web/src`) | the tab's query cache, cookie and store, forms | 50 queries and 47 mutations on the pages of three roles; redirects; toggles; scanner | a page shows what a mutation made of it; redirects end; what is shown is what is stored |
| [x] | Seeds (`prisma/seed`) | every table | seven scripts | may be run again, and after a death |
| [ ] | Mail and tickets (PDF) | - | send, render | - |
| [ ] | Infrastructure | configuration | - | - |

How they interact:

- `register`, `cancelByGuest` and `removeByOrganizer` put notification jobs on the
  Redis queue **inside** their transaction (`waitlist.service.ts:57`), so a job can
  outlive a rollback.
- `archive` calls `dispatchFeedbackEmails`; an organizer can call it too, through
  the manual send-requests endpoint.
- The check-in reads what registration (`CONFIRMED` rows), inviteGuests (invitation
  rows and the tickets mailed for them) and graduation (`guest_passes`) wrote.
- The bot and the mail jobs of a claim read and mark `guest_passes`.
- Registration, check-in and cancellation drop cached figures of Analytics, at times
  before they commit (`registration.service.ts:259`, `:443`).
- The worker of the queue stores a notice and pushes it to the sockets; the client
  then fetches its bell again, and polls in any case.
- Two schedulers, one of the API and one inside the scoring service, have the
  recommender retrained at midnight; the API clears its cache when the health check
  shows a new model.
- A page of the web client keeps several queries; the hook of each mutation names the
  ones to fetch again.  The proxy decides by a cookie, the tab by its store.
- The web client and `AuthService` meet in `POST /auth/refresh`: the server rotates
  the stored hash, the tabs share what they hold through localStorage.

## 2. What is hard here

`PROJECT.json` lists every hazard at its line.  The kinds that matter most:

- *check, await, write*: transitionStatus, update, approveByOrganizer, inviteGuests,
  checkIn, submitClaim and refreshToken all read and check, and write by primary key
  some awaits later, with no condition on what was read;
- *placeholders in unique columns*: `tokenHash = 'pending'` in `feedback_tokens` and
  `qrToken = 'PENDING'` in `guest_passes` make unrelated rows collide or wait; the
  `PENDING_HASH` of `auth_sessions` is not unique and must never be what a tab holds;
- *effects that leave a transaction*: queue jobs (registration) and mails
  (`setImmediate`, graduation) survive the rollback of what they announce;
- *crashes*: the follow-ups of goLive and archive, the bulk mail of a claim, the hash
  of a new session or feedback link run after a commit and nothing repeats them;
- *two tabs*: they hold the same refresh token but each has its own timer;
- *replace as a whole*: deleteMany and createMany of join rows in one READ COMMITTED
  transaction (roles, interests) or in none (feedback questions, speakers of a session);
- *look, then create*, without a unique index that would back it: default feedback
  template, names of tags and types, hackathon of an event;
- *values that wait*: figures and recommendations computed before an invalidation and
  stored after it; a page's data for five minutes; lists saved by quick clicks;
- *retries*: a job that failed after it stored its rows is carried out again;
- *two trainings at once*, that copy and load their files over each other;
- *cookie against store*: the proxy and the tab redirect by different memories;
- *cron jobs against people*: handleCronGoLive and handleCronArchive race cancel.

## 3. The modules

Parameters are CONSTANTS; those that only bound a run are marked "(bound)" where they
are declared and are unbounded in the theorems.  An error before a handler's first
write is the absence of a step.  Names follow the source.

| Module | Models | Proofs |
|---|---|---|
| `Registration` | RegistrationService, WaitlistService for one event | `RegistrationProofs` |
| `SeatBook` | abstract specification of the former, for guests | |
| `EventLifecycle` | EventsService's lifecycle, checkAvailability, cron jobs | `EventLifecycleProofs` |
| `Feedback` | FeedbackService's dispatch and submissions | `FeedbackProofs` |
| `Sessions` | AuthService's sessions composed with the web client's tabs | `SessionsProofs` |
| `Graduation` | GraduationService and the bot's delivery | `GraduationProofs` |
| `Entrance` | AttendanceService and inviteGuests, composed with `Graduation` | `EntranceProofs` |
| `Accounts` | AuthService's accounts and one-time links, telegramRegister, ministry cards | `ServicesProofs` |
| `Access` | RoleService, assignRoleToUser, interests and preferences of UsersService | `ServicesProofs` |
| `Team` | OrganizersService, InvitationsService, AnnouncementsService for one event | `EventLifecycleProofs` |
| `Support` | SupportService and its gateway, with the pages of author and administrator | `FeedbackProofs` |
| `Catalogue` | the small services around events, methods as sequences of statements | |
| `Seeds` | the seed scripts | |
| `Analytics` | AnalyticsService: figures as operators, time ranges, cache | |
| `Notifications` | queue, processor, gateway and the client's bell | `QueuesProofs` |
| `Recommender` | scoring service's trainings, the API's retrain job and cache | `QueuesProofs` |
| `Hooks`, `Pages` | the web client's queries, mutations, components and pages (data, no steps) | |
| `Screens` | one tab with its query cache, over `Pages` | `QueuesProofs` |
| `Routing` | proxy.ts, ProtectedRoute, login, TelegramAuthHandler | |
| `Toggles`, `Scanner` | UserInterests.tsx, AttendeeScanner.tsx | |
| `MCEventTeam`, `MCFeedbackSupport` | `EventLifecycle` or `Team`, `Feedback` or `Support`, one run each | |
| `MCServices` | `Accounts`, `Access`, `Catalogue`, `Seeds` or `Analytics` in one run | |
| `MCQueuesAndPages` | `Notifications`, `Recommender`, `Screens`, `Routing`, `Toggles` or `Scanner` in one run | |
| `MC*` | symmetry sets and small inputs for TLC | |

### Registration, SeatBook

State: the two tables as functions from row ids (`reg`, `wait`), the open transactions
`tx` with the rows they have staged, approve calls between check and update
(`approving`), what guests were last told (`told`), and whether the event has ended.

A transaction is two steps.  The body (`Register`, `CancelByGuest`,
`RemoveByOrganizer`) reads the committed tables as its snapshot, evaluates every guard
and stages its writes.  `Commit` makes them visible and marks every other open
transaction *stale*: PostgreSQL refuses its commit and the code turns P2034 into a 409
without a retry.  `Abort` may happen at any time (conflict, timeout, queue error,
crash).  `approveByOrganizer` is two autocommitted statements (`ApproveCheck`,
`ApproveUpdate`) and `rejectByOrganizer` one; they overtake only those transactions
that write the same row.

| Action | Code |
|---|---|
| `Register` = `TakeSeat` or `AddToWaitlist` | `register`, `addToWaitlist` |
| `CancelByGuest`, `PromoteNext` | `cancelByGuest`, `promoteNext` |
| `RemoveByOrganizer` | `removeByOrganizer`: any status, always promotes |
| `ApproveCheck`, `ApproveUpdate`, `ApproveLost` | `approveByOrganizer` |
| `RejectByOrganizer` | `rejectByOrganizer`: any status, never promotes |
| `Commit`, `Abort` | the SERIALIZABLE transaction around the bodies |

`GuestNext` is what guests do, `OrganizerNext` the rest; `GuestSpec` and `Spec` are the
two systems.  `SeatBook` says what guests are promised, with no rows and no
transactions: each request takes effect at one instant, a seat given up goes to the one
with nobody ahead.  `Registration` maps to it by
`Book == INSTANCE SeatBook WITH seated <- Holders, waiting <- Waiters, ahead <- Precedes`
where `Holders` are the users of CONFIRMED rows, `Waiters` those of waiting entries and
`Precedes` the order of their positions.  `ImplementsSeatBook` holds for `GuestSpec` of
an event without approval; organizers break it on purpose (a rejection frees a seat
that nobody gets).

### EventLifecycle

State: rows (`event`: status, venue, start, end), the clock, calls in flight, and as
history the statuses each event has had (`past`) and the follow-ups completed.  Each
operation is a check (`CreateCheck`, `UpdateCheck`, `TransitionCheck`) and a later
unconditional write (`CreateInsert`, `UpdateWrite`, `TransitionWrite`); goLive and
archive continue with `FollowUp`.  `CronGoLive` and `CronArchive` start by themselves
when the clock has passed start or end.  `Fault` ends a call half-way.

### Feedback

State: `token` per (event, user): absent, the placeholder, or hashed; links used, mailed
and expired; responses; default templates; runs and visitors.  A run goes `Start`,
`FindToken`, `CreateToken`, `HashToken`, `SendMail` for each attendee;
`AttendeeFails` is the caught and logged error, `RunDies` a crash.  A visitor goes
`OpenForm`, perhaps `CreateTemplate`, `SubmitCheck`, `SubmitCommit`.  The unique indexes
(token_hash; event and user; token_id of a response) are guards of the inserts.

### Sessions

Server state (`password`, `session`, `signed`, `link`, `reset`) and browser state (`tab`,
`call`, `storage`).  A login is `Login`, `OpenSession` (row with placeholder),
`HashSession`, `LoggedIn`; a refresh is `Refresh` (check), `Rotate` (new hash),
`Refreshed` or `Refused`.  `Lose` is the loss of a handler or an answer.  Every change of
a tab's store is copied to localStorage and the cookie (`Write`, also by `Persist`: the
theme, the profile), whatever the other tabs hold; a tab reads them only when it loads
(`Load`), and `proxy.ts` sends every page without a cookie to the login page
(`Stranded`), where the tab may log in anew although it still has tokens in memory.
`Refresh(b, kick)` distinguishes the proactive timer from a request that got a 401,
whose failure sends the user to the login page.  An access token may be over at any
time.  A refresh token is its session and a number; two tokens signed in the same
second are the same JWT and share the number.  A reset is `ForgotPassword`,
`ResetCheck`, `ResetPassword`.

### Graduation, Entrance

`Graduation`: records with their slots, claims, passes (`open` while the inserting
transaction is, `gone` if it failed), mails to parents (`job`), the bot's handlers
(`chat`), and what was sent and marked as delivered.  `InsertPass` is one round of the
transaction's loop; since every pass is first inserted with the same unique
placeholder, a second transaction's insert waits for the first to end.  `SubmitCommit`,
`SubmitFails`, `Restart` end a claim.

`Entrance` EXTENDS `Graduation` and adds the door: `InviteCheck`, `InviteFind`,
`InviteCreate`, `InviteDone` (inviteGuests), `ScanCheck`, `ScanAdmit` (checkIn,
manualCheckIn), and `Confirm` / `Cancel` for what registration does.  `EntranceNext`
interleaves both; a restart reaches the calls of both (`RestartAll`).

### Accounts, Access, Team

`Accounts`: users by address (lower case, unique), one-time links, handlers in flight.
`SignUp`, `CreateUser`, `IssueLink`, `MailLink` are the statements of signUp; a mail that
fails is one outcome of `MailLink`, and `Die` ends a handler between two of them.
`ApplyLink` consumes a link (`Consume`: type, expiry, first use) and verifies or sets a
password.  `FindAccount` and `LinkChat` are the two halves of telegramRegister for an
account that exists, `MinistryCheck` and `MinistryBind` those of verifyMinistryId.

`Access`: a role, a user's interests or preferences own rows of a join table, each
tagged with the call that inserted it.  `UpdateRole` locks the role; `AssignPermissions`
and `UpdateProfile` do not.  `DeleteBegins` fixes the committed rows that deleteMany
picks, `DeleteEnds` waits for those another transaction has picked, then `InsertRows`,
`CommitRows` or `Rollback`: READ COMMITTED as far as these statements show it.
`AssignRole`, `AssignRoleWrite` and `DeleteRole` meet at the foreign key.

`Team`: `org`, `invite` and `post` rows of one event and its phase.  Every handler is a
look (`InviteOrganizer`, `Respond`, `RemoveOrganizer`, `InviteGuests`, `CancelInvite`,
`Announce`, `RemovePost`) and a write by id (`AddOrganizer`, `WriteAnswer`, `DeleteRow`,
`InsertInvites`, ...).

### Support

One ticket: its status, the replies in flight, and two pages (`view`), each with the
query behind it.  `AddMessage` reads, `SetInProgress` writes the status it decided on
then, `InsertMessage`, `EmitMessage`.  The pages live on a query cache, as in `Screens`
(TanStack Query is external): `OpenPage` fetches unless the cache holds fresh data,
`ReadTicket` and `ShowTicket` are the server's read and the arrival of its answer,
`FailToFetch` a fetch that failed twice.  `newMessage`, the answer to one's own reply
(`Answer`) and to a change of status (`StatusUpdated`) invalidate: an open page fetches
again, in place of a fetch under way unless that is the first one, a closed page only
notes it.  `JoinTicket` joins the room and fetches nothing, `Break` cuts the socket,
`ClosePage` leaves the fetch and the data, `Forget` drops them.

### Catalogue, Seeds

In `Catalogue` a method is a sequence of statements, each a record of what it needs,
refuses, deletes and adds; `After` and `Succeeds` are the database with its foreign keys
and cascades.  Requests take their statements one at a time and `Fail` at any of them.
A transaction is one statement, and createMany adds what the request's list repeats twice
(`CreateEach`, `repeated`).  `Seeds` is a list of groups per script: `LookAtGuard` passes
over a group that is there, `Write` inserts its next row, `Swallow` is a failure that a
`.catch(() => {})` hides, `Die` any other end of the script.

### Analytics

The figures are operators over the rows (`EventFigures`, `getEventTrends`,
`getAdminTrends`, `getTopEvents`, `getDepartmentAnalytics`, `getUserEngagement`, ...),
with the days and weeks of `resolveTimeRange`, and `CountsAgree` and `TotalsAgree` say
how they go together.  A user organizes the events created and those accepted
(`EventsOf`, of getOrganizerEventFilter); the list of top organizers takes the created
ones alone (`CreatedBy`).  The cache has one key: `Compute` reads the rows, `setCached` stores
the figures, `Drop` is invalidateEventCache, before the transaction commits where the code
does so (`StartCancel`) and after it elsewhere.

### Notifications

`Enqueue`, then the worker: `TakeJob`, `Persist` (createMany), `Push` (read back and
emit), `FailAttempt` (three attempts), `Stop` (the process ends; BullMQ gives the job out
again once, `maxStalledCount`, and then fails it).  A user's page has a badge that
`Refetch` brings up to date when it is stale and `Poll` in any case.

### Recommender

`disk` and `memory` say of every artifact which training made it.  A training is `Begin`,
`Copy` (one artifact at a time), `Load`, `SwapOne` (again one at a time),
`SetLastTrained`, `Finish`, or fails.  The API's job is `AddJob` (one fixed id),
`TakeJob`, `Verify` (health checks until the time of the model changes), `FindKeys`,
`DeleteKeys`.  A request is `Predict`, then `Fill`, which stores the value it had before
the cache was cleared if so it falls.

### Hooks, Pages, Screens

`Hooks` gives each query its key and the facts it returns, each mutation the facts it
changes and the keys its `onSuccess` names; `Pages` gives each component and page the
hooks it uses, and lists in `Missed` the pairs of mutation and key the hooks leave out.
`Screens` is a tab that opens pages and clicks: queries are fetched (`Open`, `Read`,
`Arrive`, `FailToFetch`), a mutation is sent, applied and answered (`Click`, `Apply`,
`OnSuccess`, `NoAnswer`).  TanStack Query is external: it is modelled by what the client
relies on (a stale query on the page is fetched again, one that is fetched first is not
cancelled, an answer counts as valid when it arrives).  `answered` is history: the
mutations answered since they were last sent.

### Routing, Toggles, Scanner

`Routing`: a navigation passes `Proxy` (by the cookie) and `Land`, where the effects of
the page run (by the store) and may begin another one.  Other tabs, expiry, reloads and
logins happen between navigations.  `Toggles` and `Scanner` are one component each with
the calls it has in flight.

### Definitions that look alike

Next to many definitions stands another one marked `Mutant:`.  It is the same handler
with a plausible bug (a dropped guard, an off-by-one, a forgotten statement) and is not
used by any specification.  `PROJECT.json` says which property TLC must find violated
when the definition is replaced by it: evidence that the property depends on the code.

## 4. The runs

All sizes are of TLC's complete state graph, after symmetry reduction.  Symmetry is
declared over values no action names; the run with liveness properties uses none.
`CHECK_DEADLOCK FALSE` everywhere: the bounded systems stop when their ids, faults and
times are used up, and the real ones may stop as well (nobody has to act).

| Run | Instance | Distinct states | Shows |
|---|---|---|---|
| `registration_guests` | `GuestSpec`; 3 guests, 1 seat, 2 overlapping transactions, 4 rows, 3 entries | 98,722 | capacity, one standing per guest, no idle seat while guests wait, and the tables implement `SeatBook` |
| `registration_full` | `Spec`; 3 guests, approval required, 2 transactions, 1 approval | 848,064 | with every organizer operation the waitlist keeps its entries apart, promotes each exactly once and in order, although seats are unprotected |
| `registration_approve_race` | two approvals | violation | more CONFIRMED rows than seats |
| `events_fair` | `FairSpec`; 1 event, 2 requests, 1 cron run, 1 fault, times 0..2 | 392,847 | no step of a life is skipped; approved events leave APPROVED, live ones leave LIVE, follow-ups happen unless a call died |
| `events_and_team` | 2 events in one venue, 1 request at a time, no cron, times 0..3; or the `Team` of one event: 2 calls, the creator and a member, 1 organizer row, 2 invitations, 1 post | 1,287,431 | statuses follow the table, edits only before approval, no move into a booked slot; answers to invitations stand, the team acts for the event |
| `events_double_booking` | the same events | violation | two drafts of one slot are both submitted |
| `feedback_and_support` | 2 attendees, 2 dispatch runs, 2 visitors, 1 fault; or a ticket of `Support`: 2 replies at a time, 1 loss | 3,467,111 | one response per link, mailed links are hashed, placeholders have an owner; settled tickets stay settled, pages show what was announced and reached them |
| `feedback_missed` | 2 dispatch runs, no fault | violation | a run passes over an attendee |
| `sessions_tabs` | 1 user, 2 sessions, 2 tabs, 1 reset link, 2 tokens per session, 1 loss | 2,623,708 | resets end older sessions, tokens have a hash, live sessions are lost only after two tabs, a lost refresh, or another tab's write to the storage |
| `entrance_and_claims` | either 2 claims, 3 passes, 2 chats of one graduate, or the door with 2 gates, 1 attendee, 2 invitees with limit 1, 2 inviteGuests calls, 2 attendance rows and claims over 2 passes; 1 fault | 1,495,143 | claims are all or nothing and within the slots, delivered was sent; admitted once, guests within the limit, parents within the slots |
| `services` | one of `Accounts`, `Access` (roles; profiles), `Catalogue`, `Seeds`, `Analytics`; 2 calls at a time, 2 ids, 1 death or loss, 3 requests of the catalogue, 3 runs of scripts, 3 changes of rows; 2 events, one of an administrator, one with two organizers | 1,948,851 | accounts are verified by their own link and can be; chats stay; join rows are of one request and users have roles; nothing is doubled or half-written but as listed; reports agree and cached figures are current |
| `queues_and_pages` | one of `Notifications` (2 jobs, 1 user, 3 failures), `Recommender` (2 artifacts, 2 trainings, 1 failure), `Screens` (every role, pairs of pages, 1 mutation), `Routing` (every route and role), `Toggles` (2 categories, 4 clicks), `Scanner` (2 codes, 4 scans) | 698,181 | jobs are stored once per attempt and end, the badge catches up; answers come from one training; pages show what mutations changed; redirects end, toggles show the stored list, verdicts are shown |

The runs `events_and_team`, `feedback_and_support`, `services` and `queues_and_pages`
take their parts in turn: the parts share no state in the code either, and a behaviour
is one of them from its first to its last state.  So each run is the union of the
graphs of its parts, and a property of a part reads `part = "..." => ...`.

Why the bounds are enough to be interesting.

- *Registration.*  Two open transactions are the smallest number that conflict, three
  guests the smallest where a queue has an order while the seat is taken, four rows
  allow a cancellation, a promotion and a new registration of the same guest.  Capacity
  1 makes every registration a boundary case; the theorems cover every capacity.
- *Events.*  Times 0..3 contain slots that overlap, nest and touch.  The fair run needs
  two requests and a cron run so that a stale write of each kind can hit each other; one
  event is enough as calls interact through one row only (availability is the question
  of the other two runs of events).  Its plans include edits that put the start behind the end.
- *Feedback.*  Two attendees and two runs give every collision of placeholders; one
  fault leaves a placeholder behind for good; two visitors share a link.
- *Support.*  Two replies overlap and follow each other without end; a page that holds
  all messages or not all is all that the property tells apart, so that messages need no
  bound.  One loss breaks a socket or kills a handler.
- *Services.*  Every hazard here is one of two calls: two ids and two calls let them
  meet on one row and pass on two.  `Access` is checked twice, for roles alone
  (`RolesAlone`) and for profiles of the users of one role (`OneRole`): both bounds are
  in `MCServices`, and the theorem needs neither.  The catalogue begins with one of its three groups
  of rows in place or with none, and two requests may be followed by a third that sees
  what they left.  Three runs of scripts give a death, a repetition and a third one;
  three changes give a registration, its decision and its cancellation.
- *Queues and pages.*  Three failures use up the attempts of a job, or its stall and one
  more.  Two trainings can overlap; the second artifact makes a torn model possible.
  Two pages and one mutation give a page that sends and another one that shows; the
  server changes nothing else.  Four clicks exceed the two up to which toggles settle.
- *Sessions.*  Two tabs and two sessions give an old and a new session of one browser,
  two numbers per session give one rotation and the same-second repetition.
- *Graduation, Entrance.*  Two claims of one graduate overlap; three passes let one
  store two and the other one.  Two gates race for one ticket.  Sessions of the event are left empty in
  the run (one key per holder): with one session the graph exceeds five minutes, and no
  action treats a session key differently; the theorems have any set of them.

Some properties exclude what a *history* variable records, because the code protects
nothing there: `PassesWithinSlots` excludes graduates with overlapping claims
(`overlapped`), `AdmittedOnce` excludes tickets two gates held at once (`raced`),
`GuestsWithinLimit` excludes users with two calls at once (`overbooked`),
`KickedOnlyIfDisturbed` names the only three ways to lose a live session (two tabs with
its tokens or a lost refresh, for a refusal: `disturbed`; another tab's write to the
storage, for a page that is loaded: `ousted`), and
in the runs that take parts in turn `cutOff`, `contested`, `mixed`, `raced`, `late`,
`missed`, `torn`, `halves` and `spoilt` do the same.  Each says precisely how far the promise reaches; the
exclusions are themselves hazards in `PROJECT.json`, and a mutant shows that the property
still speaks of the code.

## 5. Fairness

`EventLifecycle` and `Notifications` have liveness properties.  `EventLifecycle`'s
`Fairness` assumes

- `WF(Tick)`: time passes;
- `WF(Cron(c))`: the scheduler (`@Cron(EVERY_MINUTE)`, `events.service.ts:434`) starts
  a job as long as some event is due;
- `WF(Continue(c))`: the runtime resumes a handler that awaits the database or mail.

No fairness is assumed of requests, faults, approvals or cancellations.  With
`faults = 0` nothing else is needed for `FollowUpsHappen`; the other two liveness
properties hold with faults as well, because the next cron run repeats a transition
whose call died before its write.

`FollowUpsHappen` is conditional on purpose: after a crash between the ARCHIVED update
and the dispatch no job looks for the event again; only an organizer's manual request
sends the mails, although `README.md:180` of the repository promises that archived
events automatically trigger them.

`Notifications` assumes

- `WF(Work)`: BullMQ's worker takes jobs and goes on with the one it has, and gives a
  stalled one out again, which is what the library does as long as a process runs;
- `WF(Poll(u))`: the page of a user is open and `refetchInterval` (one minute,
  `useNotifications.ts:22`) passes.

With them `QueuesDrain` holds whatever fails: a job ends, stored or given up, and the
badge again and again shows the unread rows, with or without a socket.  Nothing is
assumed of sockets, of enqueueing, or of the user.

## 6. Findings

Each is a run with `expect: violation` whose counterexample is a behaviour of the code.

1. **Approvals exceed the capacity** (`registration_approve_race`).
   `approveByOrganizer` counts and updates in two autocommitted statements
   (`registration.service.ts:307`); two approvals both pass.
   `concurrency.pbt.spec.ts:96` states the bound that breaks.
2. **Two drafts book one slot** (`events_double_booking`).  Only create and update check
   the venue, and a draft books nothing; submit and approve never check again
   (`events.service.ts:86`).  `README.md:179` promises conflict detection.
3. **Attendees missed by overlapping dispatches** (`feedback_missed`).  The shared
   placeholder makes the other run's insert fail (`feedback.service.ts:220`), against
   the comment at `:211` ("idempotent - safe to call multiple times").

Other disagreements met while modelling, visible in the modules but without a run of
their own (paths are short: `src/apps/api/src`, `src/apps/web/src`, `src/apps/ml-service`).

Registration and events:

- Organizer calls take registrations of any status: reject cancels a CONFIRMED row and
  promotes nobody, approve resurrects a CANCELLED row, remove promotes a guest whatever
  the row was.  The operation summaries speak of PENDING and CONFIRMED registrations
  (`registration.controller.ts:62`, `:75`, `:84`).
- `registration.controller.ts:29` announces a 409 for a waitlisted guest, but a
  waitlisted guest may register directly when a seat is free.  (While only guests act
  this cannot happen: see `NoIdleSeatWhileGuestsWait`.)
- A WAITLIST_JOINED job survives the rollback of its entry (`waitlist.service.ts:56`).
- `events.service.ts:30` documents the transition table, but a stale cron write can set
  a CANCELLED event LIVE (`TransitionsAllowed` is checked and proved only for one caller
  at a time and no cron jobs).
- An `update` that was checked before an approval is written after it
  (`EditsOnlyBeforeApproval` needs one caller at a time; the cron jobs do not disturb
  it: `EditsCorrect`); it never compares start and end or
  start and now, which `create` does (`events.service.ts:99`).
- `remove` ("Organizer: only DRAFT", `events.controller.ts:127`) never succeeds: the
  `event_access` row that create inserts has a restricting foreign key.  deleteEvent,
  which takes care of it, has no caller.
- A LIVE event may be cancelled; `events.controller.ts:112` lists DRAFT, PENDING,
  APPROVED only.
- `attendance.service.ts:103` ("Prevent double-scan") and `README.md:402` ("replay
  detection") do not hold for two gates at the same instant (`raced`).
- A second dispatch mails a link's old expiry (`feedback.service.ts:217`); a guest's
  ticket mail that failed is never repeated (`events.service.ts:1033`).

Accounts, access, team, support:

- `organizers.service.ts:46` refuses a user whose invitation was REJECTED with "already
  an organizer or has a pending invitation".
- `invitations.service.ts:244` says "Can only cancel pending invitations"; a cancellation
  that read PENDING deletes one answered meanwhile.
- assignRoleToUser writes its audit entry for the user id `'ADMIN'`, which is no UUID: the
  entry is always lost, against `README.md:404` ("All admin actions logged").
- Every change of a tab's store writes that tab's tokens over those of the other tabs: after
  a log-out in one tab the next page of another is the login page, and a switch of the theme
  there brings back the session that was logged out of (`ousted`).
- createRole and updateRole compare a name before they trim it, and the unique index
  distinguishes case: a name with a blank gives a second role that differs in case only.
- `support.service.ts:114` ("unless it was already RESOLVED") does not hold for a ticket
  resolved between the read and line 116.
- A session whose request lists a speaker twice has the speaker twice: `skipDuplicates`
  (`sessions.service.ts:64`) has no unique index to go by (`repeated`).
- The creator's row among the organizers is written after the event and outside its
  statement (`events.service.ts:194`): a failure in between leaves an event without it.
- The seeds hide the failure of a registration or of a session's speaker
  (`seed/index.ts:632, 682, 1132`) and pass over the group ever after (`swallowed`).
- `useSupportSocket.ts:18` joins the room and fetches nothing: a message announced while
  the page's socket was not there, while its first answer was on its way (which no
  invalidation cancels), or while the page was left for less than `staleTime` stays
  unseen until the next one (`missed`).
- `POST support/tickets` is public: a user whose access token has lapsed raises a ticket
  that belongs to nobody and that no page shows.
- TelegramAuthHandler reads `data.onboardingRequired` and `data.user` from an answer that
  the API wraps in `data`: the automatic login always ends in its error branch.

Figures, queues, recommendations:

- The overviews of organizers count the events they accepted to organize
  (`analytics.service.ts:45`), the list of the top organizers those they created (545): an
  event of two is in two overviews, and they add up to more than the administrators'.
- Overviews count registrations with status APPROVED and REJECTED, which none ever has.
- The key of an event's figures ignores the time range, so every range is answered with
  the one that was computed first (`analytics.service.ts:105`).
- "Update global state atomically" (`recommendation_service.py:68`) goes key by key;
  "Let BullMQ handle retries" (`recommendation.processor.ts:73`) is for a job without
  attempts, whose fixed id, once failed, blocks the next ones.
- Both schedulers retrain at midnight, and nothing keeps the trainings apart.

Web client:

- Interests are saved as `interests` (`userInterests.ts:22`), while the API takes
  `interestIds` and refuses other fields: no interest is ever saved from the profile.
- `Missed` in module `Pages` lists what the hooks do not invalidate; the dashboard's
  refresh names three keys no query has, useUpdateMyProfile one ("my-profile").
- After three quick clicks the toggles may show something else than what is stored, and a
  save that failed leaves its toggle turned.
- The timer of one scan's verdict wipes the next one (`AttendeeScanner.tsx:104`, `:115`).
- The entry "dashboard" of `all-pages.json` stands for `/dashboard/dashboard`, so pages
  without an entry (tags, venues, categories, ...) are open to every role of the
  dashboard, though `main-pages.json` lists them for ADMIN only; `/unauthorized` does
  not exist.

## 7. The proofs

All theorems are of the form "for every value of the constants that satisfies the named
assumptions": any number of guests, rows, transactions, calls, tabs, gates, passes; any
capacity, limits and numbers of faults.  The assumptions say only that bounds are
naturals (`BoundsAreNat`, `BoundsAreGiven`), that row ids and addresses that are counted
form finite sets, that `None` differs from every id (`NoneIsNoJob`, `NoneIsNoName`,
`NoneIsNoRoleName` and the like), that holders of different kinds and rows of different
tables differ (`HoldersDiffer`, `RowsAreApart`), that the model is one of its artifacts
(`ModelIsAnArtifact`), that no page or role is `None` (`NoneIsNoPage`), that times are
whole numbers (`TimesAreWhole`), and that users, events and the categories of an event are
finitely many, an event having a creator (`TablesAreFinite`).  TLC evaluates them in every
run.

The modules of a run that takes parts in turn have their theorems about the composition
(`part = "..." => ...`), from lemmas `<Part>Init` and `<Part>Next` about the part alone.

In each module the argument is: a type invariant that also ties each call to what it
names (`TypeInv`), then one invariant per property that says of *calls in flight* what
the property says of the tables.  The invariants are stated as conjunctions; each
action has a step in the proof.

**Registration.**  `TypeCorrect`; `QueueCorrect` (`WaitlistIsKept`, that is
`PromotedExactlyOnce` and `WaitlistIsAQueue`); `OrderCorrect` (`FirstComeFirstPromoted`);
`CapacityCorrect`, `StandingCorrect` and `NoIdleSeatCorrect` (`CapacityRespected`,
`OneStandingPerGuest`, `NoIdleSeatWhileGuestsWait`, all for `GuestSpec` and from one
lemma, `SeatsHold`).
`PromotedExactlyOnce` is not inductive: a commit writes what was staged long ago.
`QueueInv` adds that a transaction that is not stale holds exactly what its handler
would stage *now* (`IsCurrent`, one disjunct per shape of write set).  Its preservation
is the heart of the proof: a commit makes the others stale, an organizer's
autocommitted update makes stale those that write its row, and any other step leaves
the shape valid.  `SeatInv` strengthens the shapes by the seat they count on
(`KeepsSeats`); it needs `RequiresApproval => Confirmed = {}`, as guests alone never
confirm anything of an event with approval.  `OrderCorrect` follows from `QueueInv` on
the step that commits.  `BookCorrect` (`GuestSpec => ImplementsSeatBook` for an event
without approval) is the refinement: only a commit writes the tables
(`OnlyCommitsWrite`), and what `KeepsSeats` says of its write set makes it a `Sit`, a
`Wait`, a `Leave` or a `PassOn` (`CommitSits`, `CommitWaits`, `CommitLeaves`,
`CommitPassesOn`; cancelling a row without a seat is a stutter).  `BookInv` adds to
`QueueInv` and `SeatInv` that every row has a guest, and `HoldersCount` that there are as
many seated guests as CONFIRMED rows.

**EventLifecycle.**  `TypeCorrect`; `LifeCorrect` (`NoStepSkipped`): what a write relies
on may be gone from the row but is in the event's history (`HistoryInv`, `Earned`).
`SerialCorrect`: with one caller and no cron jobs a call's check still holds when it
writes (`FreshInv`), hence `TransitionsAllowed`; the races are the only reason it fails
otherwise.  `EditsCorrect` (`EditsOnlyBeforeApproval`) admits the cron jobs: what a job
has picked was approved, and as a submission and an edit find their event DRAFT or
editable, it never becomes editable again (`EditInv`), so that no job touches an event
that the one caller is editing.  `BookingCorrect` (`NeverMovesIntoABookedSlot`,
one caller and no cron jobs again): what a caller found free still is when it writes (`SlotInv`);
a creation has compared itself with every event and an edit with every other one.

**Team.**  `TeamTypeCorrect`; `TeamCorrect` (`TeamIsKept`).  A handler that has looked
and not written yet acts for somebody of the team, and its row still has the status it
read unless the row is in `raced` (`DeedsAreBacked`).  That needs `RacesAreNoted`: two
handlers about to change one row have been noted, so whoever is first to write leaves
the other one an entry in `raced` to point at.  `RolesAreAccepted` ties organizer rows to
the users who accepted.

**Feedback.**  `TypeCorrect`, `ResponsesCorrect` (`OneResponsePerLink`; a visitor's link
was mailed), `LinksCorrect` (`NoPlaceholderStays`; `LinkInv`
adds that a run about to mail has hashed its row).

**Support.**  `SupportCorrect` (`ConversationIsShown`; `PagesFollow` adds that data are
fresh only while nothing is fetched, that an open page without a fetch has fresh data or
has failed, and that fresh data and an answer on its way hold whatever the page was told
of: an announcement either makes the page ask again or is noted in `missed`);
`SettledCorrect` (`SettledStaysSettled`): a reply about to write IN_PROGRESS finds the
ticket open, or the settlement that came between is noted (`RepliesAreLate`).

**Sessions.**  `TypeCorrect`; `ResetCorrect`; `TokensCorrect`: a row without a hash
belongs to the one call that opened it (`Opening`), and whatever holds tokens holds
those of a hashed row (`TokensBacked`); `KickCorrect`: an undisturbed session has one
holder, whose token is the one the row knows, and a refusal in flight means the session
is dead (`Current`); and what a tab holds is of the session in the storage, or `ousted`
has it (`StorageInv`).

**Graduation.**  `TypeCorrect`; `ClaimsCorrect`: a call with an open transaction holds
its passes, each held by one call (`Holding`); `DeliveryCorrect`
(`DeliveriesAreTrue`): each mail in flight, chat and bulk mail is
about passes of the right kind (`Jobs`, `ChatsOpen`, `BulkSent`); `SlotsCorrect`: a
claim's passes plus those it still asks for fit into the slots (`OneClaim`).

**Entrance.**  `EntranceTypeCorrect`, `AdmissionCorrect`, `GuestsCorrect`, `ParentsCorrect`.  Every step of the
composition is a step or a stutter of `Graduation` (`EntranceStepsNext`), so `SlotInv`
carries over; `AtMostOneGate`, `ParentsHoldPasses` and `Counted` (what a user has
invited plus what the current call announces) are added.

**Accounts.**  `LinksCorrect` (`LinksVerify`), `ChatsCorrect` (`ChatsAreKept`).  The
property speaks of rows; `HandlersKnow` adds what a handler relies on after its last
await (its link is of its user and type, and mailed or not as its next statement says;
an account about to get a chat has none, or is contested), `HandlersDiffer` that no two
handlers mail one link or give one uncontested account its chat, and `RowsAgree` that
only mailed links are used.  An account without a link is then in `cutOff`, or a handler
is still on its way to mail one.

**Access.**  `AccessCorrect` (`AccessIsAsGiven` in the run) and `AccessUnbounded` (the
same of `Access` alone, without the run's bounds).  While a replacement runs, the rows it
has picked are all its owner has, unless the role is gone or another request was mixed in
(`EditsKnow`); two open replacements of one owner are on record (`EditsApart`).  Then the
commit leaves exactly the rows of that request.  `ItemsOfRows` is the lemma about the
projection of tagged rows to items.  `TypeCorrect` has the types of both modules.

**Notifications.**  `StoredCorrect` (`StoredOncePerAttempt`).  The count of rows is not
bounded by itself: `AttemptsAreCounted` balances it against the failures, the stalls and
the end of the job, plus one for a processor between createMany and its push
(`WorkerAgrees`); `RowsAreStored` ties what a user has to that count.

**Recommender.**  `AnswersCorrect` (`AnswersAreCurrent`).  Unless a training was torn,
there is one at a time, and the invariant says key by key which training a file and an
object in memory are from, before and after the copy, the load and the swap have reached
it (`OneTraining`); numbers only grow (`NumbersGrow`), so an answer in flight or in the
cache is as new as what the last job cleared for, or late (`NewOrLate`).

**Screens.**  `PagesCorrect` (`PagesAreCurrent`).  `ScreensInv` says of every datum, in
the cache or on its way, what the property says of those on the page (`UpToDate`), and
that an invalid query on the page is being fetched or failed.  The step that matters is
`OnSuccess`: what it does not invalidate is not behind the mutation, or the hook leaves
the query out (`NamedOrMissed`, `BehindOrMissed`).  That rests on `HooksAreKnown`, which
is proved from the lists of `Hooks` and `Pages`: every page is made of the hooks
(`PagesOfHooks`), and each of the 47 mutations is compared with each of the 50 queries
(`ButtonsKnown`).  The invariant also needs that the mutation in flight is not among
those answered.

**Scanner, Toggles, Routing.**  `ClientCorrect` (`ClientIsSteady`, the three at once).
*Scanner*: one check-in at most is open (`OneCheckIn`); with that the property is inductive.
*Toggles*: the property is about rest, the invariant about what leads to it: what was read
with no save under way is what is stored (`ReadIsStored`), after the first click of a burst
the toggles wait for one save or for the list (`FirstClick`), and while they show another
list than the cache has, no save brings the cached one back (`NewsIsComing`).
*Routing*: the proxy redirects once, the page mounted there once, and the same again for the
page it names, so four redirects bound a navigation (`Hops`); one to a page of the menu is
not redirected while cookie and store agree (`OnTheWay`).  The proxy does not turn away what
it redirects to (`HomeIsNotTurnedAway`), and the page an effect names has no other effect (`EffectsEnd`).

**Analytics.**  `CacheCorrect`, of the cached figures.  What is stored is what a request was
computing earlier, so `FiguresInv` says the same of both: a value that misses a decision is
marked as late, or the key is about to be dropped.  `ReportsCorrect` is of what is computed
(`CountsAgree` and `TotalsAgree`), for all rows the requests can leave (`RowsInv`) and any
finite number of users and events: counts of parts are at most the whole, the buckets of
engagement part the active users (`BucketsPart`), and every time of a range has its day or
week in the series (`PointsOfRange`, from the monotony of days and weeks).  `FiguresCorrect`
puts both together (`FiguresAreCurrent` of the run).
The sums are `SumFunction` of the community modules, a fold.  There is no operator to do
induction on; but `SetIsInductive` and `SubsetsAreInductive` are the principles of the
least number and of the least set for *sets* of numbers and of sets, from the theorems on
well-founded relations.  `SumsExist` builds the function that the fold chooses, `SumUnfolds`
says the fold is that function, and `SumOfSizes` that sizes of sets add up to at least
that of their union, exactly if the sets are disjoint.  Series, departments and creators
part the rows (`RowsByKey`, `TopOrganizersAddUp`), an event may have several categories and
several organizers (`CategoriesAddUp`, `OverviewsAddUp`), and the top list parts what it lists: ten of greatest rate can always be taken (`TopExists`), and they
are all if there are no more (`TopAddsUp`).
Times are whole numbers, a day and a week longer than nothing (`TimesAreWhole`).

**Catalogue, Seeds.**  `CatalogueCorrect` (`CatalogueIsConsistent`).
*Catalogue*: `SoundMethods` goes through the 31 methods: each looks for a row or deletes it
before it adds one that is to be alone (`Careful`), adds it in one statement, twice only if
that is the speaker of a session (`AddsTwice`), deletes what it has found, and does all but the listed halves with its last statement (`HalvesListed`).  The invariant
says of what a request *has left to do* that it is sound, and careful unless the row is not
there (`OneOfEach`, of rows that nobody raced for or repeated), and of two requests that what both will add is on record as a race
(`RacesAreSeen`); `AfterStatement` is the lemma about a statement that the schema lets pass,
where no row goes with another but by a cascade (`CascadesHold`).
*Seeds*: a group's guard is there before its rows (`GuardsComeFirst`), and with it all of
them, but for those whose failure was hidden, unless a run died in the group or is within
it (`GuardsAreTrue`); a run that is past the guard has written the rows so far or hidden
their failure and finds the others missing (`SoFar`), so none is written twice.  No row
that guards a group is one whose failure is hidden (`WellMade`).  The groups of the scripts are compared once (`GroupFacts`, `GroupsShare`).

What is only model-checked: the liveness properties of events and of the queue
(`EventsMoveOn`, `FollowUpsHappen`, `QueuesDrain`), as `WF` and `ENABLED` are outside the
prover's reach.  No module uses RECURSIVE operators.

## 8. Abstractions

*Registration.*  One event; capacity and requiresApproval are constants (update may
change them in the code).  First committer wins is more than PostgreSQL's serializable
snapshot isolation does, which lets some overlapping transactions commit together when
their effect is that of a serial order; those effects are reachable serially here, and
an abort is always possible.  `told` keeps the kind of the last message only.  A
deleted waitlist entry is kept as "promoted" and a registration remembers the entry it
came from: history, read by no guard.

*EventLifecycle.*  Reads of one handler happen at one instant, before its write.  Tags,
categories, sessions, co-organizers and `guestLimitPerUser` do not matter to the
properties.  Deleting a venue is refused by its events' foreign key.  The cron job's
loop over events is several runs: each event is read again by goLive or archive, as in
the code.

*Feedback.*  Every event uses the default template here; templates that organizers make
and attach are in `Catalogue`.  A link's signature is always valid: the stored hash is
never compared with anything by the code either.

*Sessions.*  One call per tab at a time.  The two seconds for which a finished refresh's
promise is reused are left out: within them the tab gets the same tokens again.  The
storage is one: that a large profile does not fit into a cookie, and that a store writes
back what it has just read, are left out.  A login
checked before a reset may open its session after it; the invariant speaks of rows that
exist when the reset commits.

*Graduation.*  One event; the tier a grade gives is the number of slots an import grants;
a claim names up to three parents (`ClaimSubmissionDto`) whatever the slots.  A resend is
one step.  A failed mail is logged and nothing repeats it.

*Entrance.*  A ticket is its holder (and session); a forged or altered one is refused
before any statement.  Registration is reduced to `Confirm` and `Cancel`.  Organizer
invitations also create rows in `event_invites` and are left out.

*Accounts.*  Passwords are not kept (module `Sessions` has them).  A time of expiry is a
step that may happen at any moment.

*Access.*  An item is a permission, an interest or a category.  Preferences have a unique
index and interests have none in effect (`Indexed`); the run takes an owner without.  Of
READ COMMITTED only what deleteMany, createMany and the one SELECT FOR UPDATE show is
kept.  An update of a role replaces its permissions: one that only renames it is left out.

*Team.*  An account stands for its address.  Mails and notices are left out.

*Support.*  Data hold every message there is, or not every one.  What a page offers by
the status it shows is left out: that status may be any older one, and the server
refuses nothing.  An announcement reaches the sockets of the room at once.  The age of
data is a choice: a page may open on fresh data with or without a fetch.  A hidden sheet
stays an open page, as in the code.  The page of the ticket's author is the tracker or
the list in the floating button; both join and fetch in the same way.

*Catalogue.*  A row stands for what a method takes to be one thing, so `rows["tag"] = 2`
means two tags whose names differ in case only.  Requests for things of different groups
do not run together.  *Seeds.*  A row stands for all that a loop writes alike, and is
missing when one of them is.

*Analytics.*  Times are numbers, a day two of them and a week two days in the run (24
hours and 7 days would only make the same sums longer); ranges that would need more
points than `MostDays` use weeks.  Who organizes an event does not change: a report reads
it together with the rows.  The cache has one key since no action concerns two.

*Notifications.*  Redis keeps the queue; a process that stops leaves its job active until
it stalls.  *Recommender.*  Times of files are numbers of trainings.  An artifact is a
file of the model; reading and writing one is a step.  A job waits for the answer of the
scoring service; the 30 seconds after which its request gives up while the training goes
on are left out, and with them two trainings of the endpoint at once.  They would tear the
files as those of endpoint and midnight do, which the property excuses (`torn`).

*Screens.*  Five minutes never pass, and nothing changes on the server but by the tab's
own mutation: what is shown is then wrong only because of the hooks.  Data of one event,
one user and one ticket.  *Routing.*  A route per way of treatment.  *Toggles.*  The order
of a list is a choice where it matters.  *Scanner.*  The camera's frames are `HandleScan`
at any time; what the effect copies into stateRef is there before the next frame.

## 9. What is not modelled

- Sending and rendering: mails, PDF tickets and QR codes.  They have no state of their
  own; a mail that fails or arrives late is a choice of the modules that send it.
- The scores themselves (`ml-service/app/features`, `models`): numbers that only order a
  list.  Which training they come from is modelled.
- The look of the web client: forms' fields and their validation, layout, charts, the
  vendored `components/ui`.  What a page fetches, sends and where it leads is modelled.
- Search, paging and list endpoints: reads of one statement.
- Configuration, containers, deployment scripts, health checks.
- Tier thresholds of graduation (`getConfig`, `saveConfig`, `computeTier`): abstracted to
  the slots an import grants.  getClaimStatus computes the tier with the default
  thresholds whatever was configured (`graduation.service.ts:326`); this is not checked.
- `create`, `update`, `remove` of the old registration service, `deleteEvent`: no caller.
  Answers to form fields: the table exists, nothing writes it.
- The claim page of graduates and the registration dialogs beyond their calls.

## 10. Plan

1. Composition of `Registration`'s jobs with `Notifications`, and of the organizers of
   `Team` with `EventLifecycle` for who may act.
2. Tier thresholds, and the claim page with its steps.
3. `Screens` with a second tab, and the sockets that refetch.

## 11. Running

In this directory, with TLC, the community modules and TLAPS installed:

    tlc -workers 2 -config MCRegistrationGuests.cfg MCRegistration
    tlapm RegistrationProofs.tla

Each `MC<Module><Question>.cfg` belongs to `MC<Module>.tla`.  Every run ends within five
minutes on two workers; the proofs use SMT (Z3), Zenon and LS4 only.
