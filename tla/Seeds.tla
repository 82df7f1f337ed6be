--------------------------------- MODULE Seeds ---------------------------------
(***************************************************************************)
(* The seed scripts (src/apps/api/prisma/seed/), which are run by hand, in *)
(* any order and again after one of them died.  A script is a sequence of  *)
(* groups of rows; a group is passed over if the row that guards it is     *)
(* there, and otherwise written row by row, with no transaction around it. *)
(* A row stands for all that a loop of the script writes alike.            *)
(***************************************************************************)
EXTENDS Naturals, Sequences, Functions

CONSTANTS
    MaxRuns, \* bound on the runs of a script
    None

VARIABLES
    rows,     \* how many there are of each row
    script,   \* the script that runs, or None
    group,    \* the group it is at
    row,      \* the row of the group, 0 before the guard is looked at
    runs,
    finished, \* scripts that ran to their end
    torn,     \* history: groups in which a run died
    swallowed \* history: rows that a script failed to write and went on

vars == <<rows, script, group, row, runs, finished, torn, swallowed>>

-----------------------------------------------------------------------------
(* Groups: the guard, what the script needs to go on to it, and the rows.  *)

\* An upsert, or findFirst and create: the row guards itself.
Once(r) == [guard |-> {r}, needs |-> {}, rows |-> <<r>>]
Base == <<Once("eventStatus"), Once("eventType"), Once("tag"), Once("category"), Once("venue")>>

PermissionsAndRoles == <<Once("permission"), Once("role"), Once("rolePermission")>>
Departments == <<Once("department")>>
Staff == <<[Once("user") EXCEPT !.needs = {"role"}]>>

\* Mutant: the statuses are written without a look.
StatusesAlways == <<[Once("registrationStatus") EXCEPT !.guard = {}]>>

RegistrationStatuses == <<Once("registrationStatus")>>
Speakers == <<Once("speaker")>>
Events == [guard |-> {"event"}, needs |-> {}, rows |-> <<"event", "organizer", "eventCategory", "registration">>]

AddSession == [guard |-> {"session"}, needs |-> {"event"}, rows |-> <<"session", "sessionSpeaker">>]
PastEvent == [guard |-> {"pastEvent"}, needs |-> {},
              rows |-> <<"pastEvent", "pastOrganizer", "pastRegistration", "feedback">>]
SupportTickets == <<Once("ticket")>>
AuditData == [guard |-> {}, needs |-> {}, rows |-> <<"auditLog">>]
Preferences == <<Once("preference")>>
\* The guard is the second of the three events.
SampleEvents == [guard |-> {"bootcamp"}, needs |-> {"user"}, rows |-> <<"draftSummit", "bootcamp", "ethics">>]
Interactions == [guard |-> {"sampleRegistration"}, needs |-> {"user", "event", "registrationStatus"},
                 rows |-> <<"sampleRegistration", "sampleFeedback">>]

Groups(s) ==
    CASE s = "seed" -> PermissionsAndRoles \o Departments \o Staff \o RegistrationStatuses \o Base
                       \o Speakers \o <<Events, AddSession, PastEvent>> \o SupportTickets
                       \o <<AuditData>> \o Preferences
      [] s = "roles" -> PermissionsAndRoles
      [] s = "users" -> <<[Once("department") EXCEPT !.needs = {"role"}]>> \o Staff
      [] s = "events" -> Base \o <<SampleEvents>>
      [] s = "statuses" -> RegistrationStatuses
      [] s = "support" -> <<[guard |-> {"sampleTicket"}, needs |-> {"user"}, rows |-> <<"sampleTicket">>]>>
      [] s = "interactions" -> <<Interactions>>

Scripts == {"seed", "roles", "users", "events", "statuses", "support", "interactions"}
RowsIn(groups) == UNION {Range(g.rows) : g \in groups}
RowsOf(s) == RowsIn(Range(Groups(s)))

\* Written with .catch(() => {}).
Caught == {"registration", "sessionSpeaker", "pastRegistration"}

-----------------------------------------------------------------------------

Init ==
    /\ rows = [r \in UNION {RowsOf(s) : s \in Scripts} |-> 0]
    /\ script = None /\ group = 1 /\ row = 0
    /\ runs = 0
    /\ finished = {} /\ torn = {} /\ swallowed = {}

Start(s) ==
    /\ script = None
    /\ runs < MaxRuns
    /\ script' = s /\ group' = 1 /\ row' = 0
    /\ runs' = runs + 1
    /\ UNCHANGED <<rows, finished, torn, swallowed>>

Here == Groups(script)[group]

NextGroup ==
    /\ row' = 0
    /\ IF group = Len(Groups(script))
          THEN script' = None /\ group' = 1 /\ finished' = finished \cup {script}
          ELSE group' = group + 1 /\ UNCHANGED <<script, finished>>
    /\ UNCHANGED <<rows, runs, torn, swallowed>>

LookAtGuard ==
    /\ script # None
    /\ row = 0
    /\ IF \A r \in Here.needs : rows[r] > 0
          THEN IF Here.guard # {} /\ \A r \in Here.guard : rows[r] > 0
                  THEN NextGroup
                  ELSE row' = 1 /\ UNCHANGED <<rows, script, group, runs, finished, torn, swallowed>>
          ELSE \* the script says what is missing, and leaves
               /\ script' = None /\ group' = 1
               /\ UNCHANGED <<rows, row, runs, finished, torn, swallowed>>

Write ==
    /\ script # None
    /\ row \in 1 .. Len(Here.rows)
    /\ rows' = [rows EXCEPT ![Here.rows[row]] = @ + 1]
    /\ row' = row + 1
    /\ UNCHANGED <<script, group, runs, finished, torn, swallowed>>

\* The statement fails, and nobody hears of it.
Swallow ==
    /\ script # None
    /\ row \in 1 .. Len(Here.rows)
    /\ Here.rows[row] \in Caught
    /\ swallowed' = swallowed \cup {Here.rows[row]}
    /\ row' = row + 1
    /\ UNCHANGED <<rows, script, group, runs, finished, torn>>

EndOfGroup ==
    /\ script # None
    /\ row = Len(Here.rows) + 1
    /\ NextGroup

\* A statement fails that is not caught, or the script is stopped.
Die ==
    /\ script # None
    /\ torn' = IF row > 1 THEN torn \cup {Here} ELSE torn
    /\ script' = None /\ group' = 1 /\ row' = 0
    /\ UNCHANGED <<rows, runs, finished, swallowed>>

Next ==
    \/ \E s \in Scripts : Start(s)
    \/ LookAtGuard
    \/ Write
    \/ Swallow
    \/ EndOfGroup
    \/ Die

-----------------------------------------------------------------------------
\* However often and in whatever order the scripts are run, and die, no row but the
\* audit log is there twice, and a script that ran to its end finds all its rows
\* there, but for those whose failure it caught; but a group in which a run died
\* stays as it was, the sample events excepted, whose guard is their second: the
\* first is then written again.
SeedsAreRepeatable ==
    /\ \A r \in DOMAIN rows \ {"auditLog"} :
            rows[r] > 1 => r = "draftSummit" /\ SampleEvents \in torn
    /\ \A s \in finished : {r \in RowsOf(s) : rows[r] = 0} \subseteq RowsIn(torn) \cup swallowed
==============================================================================
