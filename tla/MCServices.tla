----------------------------- MODULE MCServices -----------------------------
(***************************************************************************)
(* The services that share no state with each other, one at a time: a      *)
(* behaviour is one of Accounts, Access, Catalogue, Seeds or Analytics.    *)
(* They take turns in using the variables v1 to v9, and the names of calls *)
(* and of keys, so that one instance serves them all.                      *)
(***************************************************************************)
EXTENDS Integers, FiniteSets, TLC

CONSTANTS
    Chats, Cards, MaxDeaths,                              \* Accounts
    Profiles, Indexed, Items, Cases, Users, PlainCase,    \* Access
    MaxRequests, MaxRuns,                                 \* Catalogue, Seeds
    Members, Gatherings, Creator, CoOrganizers, Admins, CategoryOf, DepartmentOf, \* Analytics: who and what,
    Times, DayLength, WeekLength, Presets, MostDays, MaxChanges, \* and when
    Keys,    \* one-time links, roles
    Names,   \* addresses, names of roles
    Calls,   \* handlers in flight
    None

ASSUME BoundsAreGiven == MaxDeaths \in Nat
ASSUME NoneIsNoName == None \notin Names
ASSUME NoneIsNoRoleName == None \notin Names \X Cases
ASSUME TimesAreWhole ==
    /\ Times \subseteq Int /\ Presets \subseteq Nat /\ MostDays \in Nat
    /\ DayLength \in Nat \ {0} /\ WeekLength \in Nat \ {0}
ASSUME TablesAreFinite ==
    /\ IsFiniteSet(Members) /\ IsFiniteSet(Gatherings)
    /\ Creator \in [Gatherings -> Members] /\ CoOrganizers \in [Gatherings -> SUBSET Members]
    /\ \A e \in Gatherings : IsFiniteSet(CategoryOf[e])

VARIABLES
    part, \* the service that runs
    v1, v2, v3, v4, v5, v6, v7, v8, v9

vars == <<part, v1, v2, v3, v4, v5, v6, v7, v8, v9>>

A == INSTANCE Accounts
        WITH Addresses <- Names, Requests <- Calls, OneTimeIds <- Keys, user <- v1,
             oneTime <- v2, request <- v3, cutOff <- v4, contested <- v5, deaths <- v6

B == INSTANCE Access
        WITH Roles <- Keys, Words <- Names, role <- v1, row <- v2, item <- v3, holder <- v4,
             edit <- v5, given <- v6, mixed <- v7

\* The bounds of Access: roles alone, their names in one case ...
RolesAlone ==
    LET Plain == (Names \X {PlainCase}) \cup {None}
    IN  /\ \A r \in Keys : v1[r] \in Plain
        /\ \A c \in Calls : v5[c].owner \notin Profiles /\ v5[c].name \in Plain

\* ... or the profiles of the users of one role.
OneRole == \A c \in Calls :
    /\ v5[c].pc # "create"
    /\ v5[c].name = None \/ \E r \in Keys : B!SameWord(v1[r], v5[c].name)

K == INSTANCE Catalogue
        WITH Requests <- Calls, rows <- v1, request <- v2, begun <- v3, halves <- v4,
             raced <- v5, repeated <- v6

D == INSTANCE Seeds
        WITH rows <- v1, script <- v2, group <- v3, row <- v4, runs <- v5, finished <- v6,
             torn <- v7, swallowed <- v8

Y == INSTANCE Analytics
        WITH Users <- Members, Events <- Gatherings,
             now <- v1, registrations <- v2, attendance <- v3, key <- v4, cached <- v5,
             fetch <- v6, doomed <- v7, canceling <- v8, changes <- v9

Init ==
    \/ part = "accounts" /\ A!Init
       /\ v7 = None /\ v8 = None /\ v9 = None
    \/ part = "roles" /\ B!Init /\ RolesAlone /\ v8 = None /\ v9 = None
    \/ part = "profiles" /\ B!Init /\ OneRole /\ v8 = None /\ v9 = None
    \/ part = "catalogue" /\ K!Init
       /\ v7 = None /\ v8 = None /\ v9 = None
    \/ part = "seeds" /\ D!Init /\ v9 = None
    \/ part = "analytics" /\ Y!Init

Next ==
    /\ UNCHANGED part
    /\ \/ part = "accounts" /\ A!Next /\ UNCHANGED <<v7, v8, v9>>
       \/ part = "roles" /\ B!Next /\ RolesAlone' /\ UNCHANGED <<v8, v9>>
       \/ part = "profiles" /\ B!Next /\ OneRole' /\ UNCHANGED <<v8, v9>>
       \/ part = "catalogue" /\ K!Next /\ UNCHANGED <<v7, v8, v9>>
       \/ part = "seeds" /\ D!Next /\ UNCHANGED v9
       \/ part = "analytics" /\ Y!Next

Spec == Init /\ [][Next]_vars

\* Values for TLC: an event with two categories, of one member, which all members
\* organize, and others with none, of an administrator.
Some(S) == CHOOSE x \in S : TRUE
ByTwo == [e \in Gatherings |-> IF e = Some(Gatherings) THEN Some(Members)
                               ELSE Some(Members \ {Some(Members)})]
AllOfOne == [e \in Gatherings |-> IF e = Some(Gatherings) THEN Members ELSE {}]
ButOne == Members \ {Some(Members)}
CategoriesOfOne == [e \in Gatherings |-> IF e = Some(Gatherings) THEN {"a", "b"} ELSE {}]
DepartmentPerMember == [u \in Members |-> u]

Symmetry ==
    Permutations(Calls) \cup Permutations(Keys) \cup Permutations(Names) \cup Permutations(Chats)

-----------------------------------------------------------------------------
\* The state of the service that runs is well formed.
TypesOK ==
    CASE part = "accounts" -> A!TypeOK
      [] part \in {"roles", "profiles"} -> B!TypeOK
      [] OTHER -> TRUE

\* See the modules.
LinksVerify == part = "accounts" => A!LinksVerify
ChatsAreKept == [][(part = "accounts") => A!KeepsChats]_vars
AccessIsAsGiven == part \in {"roles", "profiles"} => B!AccessIsAsGiven
CatalogueIsConsistent ==
    /\ part = "catalogue" => K!CatalogueIsConsistent
    /\ part = "seeds" => D!SeedsAreRepeatable
FiguresAreCurrent == part = "analytics" => Y!FiguresAreCurrent /\ Y!ReportsAgree
=============================================================================
