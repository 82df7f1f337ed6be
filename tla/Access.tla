------------------------------- MODULE Access -------------------------------
(***************************************************************************)
(* Roles, their permissions, the roles of users, and the interests of a    *)
(* profile: RoleService (src/apps/api/src/role/role.service.ts),           *)
(* AdminService.assignRoleToUser (admin/admin.service.ts) and              *)
(* UsersService (users/users.service.ts).                                  *)
(*                                                                         *)
(* The permissions of a role, and the interests and preferred categories   *)
(* of a user, are rows of a join table.  An update replaces them as a      *)
(* whole: deleteMany and createMany in one READ COMMITTED transaction.     *)
(* deleteMany picks the rows that are committed when it starts and waits   *)
(* for those another transaction is deleting; it never sees rows that are  *)
(* committed while it waits.  updateRole alone locks the role first.       *)
(***************************************************************************)
EXTENDS Naturals, FiniteSets

CONSTANTS
    Roles,      \* primary keys of roles (bound on rows)
    Profiles,   \* users seen as owners of interests or of preferred categories
    Indexed,    \* profiles whose join table has a unique index (preferences)
    Items,      \* permissions, interests, categories
    Words,      \* role names without their case
    Cases,      \* the ways to write one
    Users,      \* users who are given roles
    Calls,      \* handlers in flight at once (bound)
    None        \* NULL

Name == Words \X Cases
Owners == Roles \cup Profiles

VARIABLES
    role,      \* table "roles": id -> name
    row,       \* join rows of each owner: (item, the call that inserted it)
    item,      \* the items that exist
    holder,    \* roleId of each user
    edit,      \* handlers in flight
    given,     \* history: the items the last replacement of each owner asked for
    mixed      \* history: owners of which two replacements were open at once

vars == <<role, row, item, holder, edit, given, mixed>>

-----------------------------------------------------------------------------
Edit == [pc : {"none", "create", "lock", "begin", "wait", "insert", "commit", "assign"},
         owner : Owners \cup {None}, name : Name \cup {None}, items : SUBSET Items,
         seen : SUBSET (Items \X Calls), locked : BOOLEAN, user : Users \cup {None}]

NoEdit == [pc |-> "none", owner |-> None, name |-> None, items |-> {}, seen |-> {},
           locked |-> FALSE, user |-> None]

\* One role exists, which every user holds; nothing else does.
Init ==
    /\ \E r \in Roles, n \in Name :
        /\ role = [s \in Roles |-> IF s = r THEN n ELSE None]
        /\ holder = [u \in Users |-> r]
    /\ row = [o \in Owners |-> {}]
    /\ item = Items
    /\ edit = [c \in Calls |-> NoEdit]
    /\ given = [o \in Owners |-> {}]
    /\ mixed = {}

ItemsOf(rows) == {x[1] : x \in rows}
Exists(r) == role[r] # None
SameWord(n, m) == n # None /\ m # None /\ n[1] = m[1]
IsIndexed(o) == o \in Roles \cup Indexed

At(c, pc) == edit[c].pc = pc
Begin(c, step) == At(c, "none") /\ edit' = [edit EXCEPT ![c] = step]
Finish(c) == edit' = [edit EXCEPT ![c] = NoEdit]

\* The transactions other than c's that have statements of this owner behind them.
Replacing(c, o) ==
    {d \in Calls \ {c} : edit[d].owner = o /\ edit[d].pc \in {"wait", "insert", "commit"}}

-----------------------------------------------------------------------------
(* Roles.  Names are compared without their case, the unique index is not. *)

CreateRole(c, n, S) ==
    /\ ~ \E r \in Roles : SameWord(role[r], n)
    /\ S \subseteq item
    /\ Begin(c, [NoEdit EXCEPT !.pc = "create", !.name = n, !.items = S])
    /\ UNCHANGED <<role, row, item, holder, given, mixed>>

\* The transaction; it fails if the name or an item has changed meanwhile.
InsertRole(c, r) ==
    LET e == edit[c]
    IN  /\ At(c, "create")
        /\ ~Exists(r) /\ \A d \in Calls : edit[d].owner # r
        /\ IF (\E s \in Roles : role[s] = e.name) \/ ~(e.items \subseteq item)
             THEN UNCHANGED <<role, row, given>>
             ELSE /\ role' = [role EXCEPT ![r] = e.name]
                  /\ row' = [row EXCEPT ![r] = e.items \X {c}]
                  /\ given' = [given EXCEPT ![r] = e.items]
        /\ Finish(c)
        /\ UNCHANGED <<item, holder, mixed>>

\* updateRole's checks: the role, the name (if given), the items.
UpdateRole(c, r, n, S) ==
    /\ Exists(r)
    /\ n # None => ~ \E s \in Roles \ {r} : SameWord(role[s], n)
    /\ S \subseteq item
    /\ Begin(c, [NoEdit EXCEPT !.pc = "lock", !.owner = r, !.name = n, !.items = S])
    /\ UNCHANGED <<role, row, item, holder, given, mixed>>

\* tx.role.update: it waits for another updateRole of the role, and fails if
\* the role is gone or the name taken.
LockRole(c) ==
    LET e == edit[c]
    IN  /\ At(c, "lock")
        /\ ~ \E d \in Calls \ {c} : edit[d].locked /\ edit[d].owner = e.owner
        /\ IF ~Exists(e.owner) \/ (\E s \in Roles \ {e.owner} : role[s] # None /\ role[s] = e.name)
             THEN Finish(c)
             ELSE edit' = [edit EXCEPT ![c].pc = "begin", ![c].locked = TRUE]
        /\ UNCHANGED <<role, row, item, holder, given, mixed>>

\* assignPermissionsToRole.
AssignPermissions(c, r, S) ==
    /\ Exists(r)
    /\ S \subseteq item
    /\ Begin(c, [NoEdit EXCEPT !.pc = "begin", !.owner = r, !.items = S])
    /\ UNCHANGED <<role, row, item, holder, given, mixed>>

\* updateMyInterests, updateMyCategoryPreferences.
UpdateProfile(c, p, S) ==
    /\ S \subseteq item
    /\ Begin(c, [NoEdit EXCEPT !.pc = "begin", !.owner = p, !.items = S])
    /\ UNCHANGED <<role, row, item, holder, given, mixed>>

\* Mutant: the foreign key of users sets their role to NULL.
DeleteHeldRole(r) ==
    /\ Exists(r)
    /\ \A c \in Calls : edit[c].owner = r => edit[c].pc # "commit" /\ ~edit[c].locked
    /\ role' = [role EXCEPT ![r] = None]
    /\ holder' = [u \in Users |-> IF holder[u] = r THEN None ELSE holder[u]]
    /\ row' = [row EXCEPT ![r] = {}]
    /\ given' = [given EXCEPT ![r] = {}]
    /\ UNCHANGED <<item, edit, mixed>>

\* deleteRole: nobody holds it (the check and the foreign key say the same).
\* Rows being inserted for it hold a lock on it.
DeleteRole(r) ==
    /\ Exists(r)
    /\ \A u \in Users : holder[u] # r
    /\ \A c \in Calls : edit[c].owner = r => edit[c].pc # "commit" /\ ~edit[c].locked
    /\ role' = [role EXCEPT ![r] = None]
    /\ row' = [row EXCEPT ![r] = {}]
    /\ given' = [given EXCEPT ![r] = {}]
    /\ UNCHANGED <<item, holder, edit, mixed>>

-----------------------------------------------------------------------------
(* The replacement of an owner's rows.                                     *)

\* deleteMany starts: it will delete the rows committed now.
DeleteBegins(c) ==
    LET o == edit[c].owner
    IN  /\ At(c, "begin")
        /\ edit' = [edit EXCEPT ![c].pc = "wait", ![c].seen = row[o]]
        /\ mixed' = IF Replacing(c, o) # {} THEN mixed \cup {o} ELSE mixed
        /\ UNCHANGED <<role, row, item, holder, given>>

\* Mutant: deleteMany and createMany commit one by one.
DeleteEndsAndCommits(c) ==
    LET o == edit[c].owner
    IN  /\ At(c, "wait")
        /\ row' = [row EXCEPT ![o] = @ \ {x \in edit[c].seen : x[1] \notin edit[c].items}]
        /\ edit' = [edit EXCEPT ![c].pc = "insert"]
        /\ UNCHANGED <<role, item, holder, given, mixed>>

\* deleteMany ends: rows another transaction was deleting are waited for, and
\* skipped if they are gone by then.
DeleteEnds(c) ==
    LET o == edit[c].owner
    IN  /\ At(c, "wait")
        /\ \A d \in Replacing(c, o) : edit[d].pc # "wait" => edit[d].seen \cap edit[c].seen = {}
        /\ edit' = [edit EXCEPT ![c].pc = "insert", ![c].seen = @ \cap row[o]]
        /\ UNCHANGED <<role, row, item, holder, given, mixed>>

\* createMany: with a unique index it waits for rows of the same item that are
\* not committed and fails on committed ones; foreign keys fail on what is gone.
InsertRows(c) ==
    LET e == edit[c]
        o == e.owner
    IN  /\ At(c, "insert")
        /\ IsIndexed(o) => \A d \in Replacing(c, o) :
              edit[d].pc = "commit" => edit[d].items \cap e.items = {}
        /\ IF \/ IsIndexed(o) /\ ItemsOf(row[o] \ e.seen) \cap e.items # {}
              \/ ~(e.items \subseteq item)
              \/ o \in Roles /\ ~Exists(o)
             THEN Finish(c)
             ELSE edit' = [edit EXCEPT ![c].pc = "commit"]
        /\ UNCHANGED <<role, row, item, holder, given, mixed>>

CommitRows(c) ==
    LET e == edit[c]
    IN  /\ At(c, "commit")
        /\ row' = [row EXCEPT ![e.owner] = (@ \ e.seen) \cup (e.items \X {c})]
        /\ role' = IF e.name = None THEN role ELSE [role EXCEPT ![e.owner] = e.name]
        /\ given' = [given EXCEPT ![e.owner] = e.items]
        /\ Finish(c)
        /\ UNCHANGED <<item, holder, mixed>>

\* An error, a timeout or a crash: nothing of an open transaction stays.
Rollback(c) ==
    /\ edit[c].pc # "none"
    /\ Finish(c)
    /\ UNCHANGED <<role, row, item, holder, given, mixed>>

-----------------------------------------------------------------------------
(* Permissions and the roles of users.                                     *)

CreateItem(x) ==
    /\ x \notin item
    /\ item' = item \cup {x}
    /\ UNCHANGED <<role, row, holder, edit, given, mixed>>

\* deletePermission: no role has it, which the foreign key enforces as well.
DeleteItem(x) ==
    /\ x \in item
    /\ \A o \in Owners : x \notin ItemsOf(row[o])
    /\ \A c \in Calls : At(c, "commit") => x \notin edit[c].items
    /\ item' = item \ {x}
    /\ UNCHANGED <<role, row, holder, edit, given, mixed>>

AssignRole(c, u, r) ==
    /\ Exists(r)
    /\ Begin(c, [NoEdit EXCEPT !.pc = "assign", !.user = u, !.owner = r])
    /\ UNCHANGED <<role, row, item, holder, given, mixed>>

\* The update, which fails if the role is gone.  Its audit entry names the
\* user 'ADMIN', which is not a UUID: the insert fails and is only logged.
AssignRoleWrite(c) ==
    /\ At(c, "assign")
    /\ holder' = IF Exists(edit[c].owner) THEN [holder EXCEPT ![edit[c].user] = edit[c].owner]
                                          ELSE holder
    /\ Finish(c)
    /\ UNCHANGED <<role, row, item, given, mixed>>

Next ==
    \/ \E c \in Calls :
        \/ \E S \in SUBSET Items :
            \/ \E n \in Name : CreateRole(c, n, S)
            \/ \E r \in Roles :
                \/ AssignPermissions(c, r, S)
                \/ \E n \in Name \cup {None} : UpdateRole(c, r, n, S)
            \/ \E p \in Profiles : UpdateProfile(c, p, S)
        \/ \E r \in Roles :
            \/ InsertRole(c, r)
            \/ \E u \in Users : AssignRole(c, u, r)
        \/ LockRole(c)
        \/ DeleteBegins(c)
        \/ DeleteEnds(c)
        \/ InsertRows(c)
        \/ CommitRows(c)
        \/ AssignRoleWrite(c)
        \/ Rollback(c)
    \/ \E r \in Roles : DeleteRole(r)
    \/ \E x \in Items : CreateItem(x) \/ DeleteItem(x)

Spec == Init /\ [][Next]_vars

-----------------------------------------------------------------------------
TypeOK ==
    /\ role \in [Roles -> Name \cup {None}]
    /\ row \in [Owners -> SUBSET (Items \X Calls)]
    /\ item \subseteq Items
    /\ holder \in [Users -> Roles]
    /\ edit \in [Calls -> Edit]
    /\ given \in [Owners -> SUBSET Items]
    /\ mixed \subseteq Owners

\* A role has the permissions, a profile the interests, that the last request
\* asked for, and each of them once: never a part of them, never those of two
\* requests, unless two replacements of the owner were open at once
\* (role.service.ts:200 deletes without locking the role; the lock of
\* updateRole at :162 keeps two of its own apart).
RowsOfOneRequest ==
    \A o \in Owners \ mixed :
        /\ ItemsOf(row[o]) = given[o]
        /\ \A x, y \in row[o] : x[1] = y[1] => x = y

\* The role of a user exists, although deleteRole looks for holders first and
\* assignRoleToUser for the role first.
UsersHaveRoles == \A u \in Users : Exists(holder[u])

\* What a request may do at any time is what some administrator last decided.
AccessIsAsGiven == RowsOfOneRequest /\ UsersHaveRoles

-----------------------------------------------------------------------------
(* The inductive invariant.                                                *)

\* What a handler relies on after its last await.  The rows it has picked are
\* still all there are, unless the role was deleted or another one mixed in.
Knows(c) ==
    LET e == edit[c]
        o == e.owner
    IN  /\ e.pc \notin {"none", "create"} => o \in Owners
        /\ e.pc = "create" => e.name \in Name
        /\ e.pc \in {"lock", "assign"} => o \in Roles
        /\ e.pc \in {"begin", "wait", "insert", "commit"} /\ e.name # None => o \in Roles
        /\ e.pc = "assign" => e.user \in Users
        /\ e.pc = "commit" /\ o \in Roles => Exists(o)
        /\ e.pc \in {"wait", "insert", "commit"} /\ o \notin mixed =>
              e.seen = row[o] \/ (o \in Roles /\ ~Exists(o))
EditsKnow == \A c \in Calls : Knows(c)

\* Two open replacements of an owner are on record.
EditsApart == \A c, d \in Calls :
    d \in Replacing(c, edit[c].owner) /\ edit[c].pc \in {"wait", "insert", "commit"}
        => edit[c].owner \in mixed

AccessInv == TypeOK /\ EditsKnow /\ EditsApart /\ AccessIsAsGiven
=============================================================================
