-------------------------------- MODULE Toggles --------------------------------
(***************************************************************************)
(* The category toggles of UserInterests.tsx                               *)
(* (src/apps/web/src/features/users/components/): every click turns one    *)
(* item and saves the whole list as it is shown, whether or not the saves  *)
(* before it are answered.  (The interests have the same toggles, but      *)
(* userInterests.ts:22 saves them as "interests", where the API takes      *)
(* "interestIds" only: each of their saves is refused.)                    *)
(***************************************************************************)
EXTENDS Naturals

CONSTANTS
    Items,      \* categories
    MaxClicks

VARIABLES
    selected, \* what the toggles show
    cached,   \* the list in the cache of react-query
    stored,   \* the list in the database
    saves,    \* saves under way: [no, list, done]
    reading,  \* the refetch under way: [at: "none", "asked" or "read", list]
    clicks,
    burst,    \* history: clicks since the toggles were last at rest
    spoilt    \* history: a save failed, or a burst had more than two clicks

vars == <<selected, cached, stored, saves, reading, clicks, burst, spoilt>>

Idle == [at |-> "none", list |-> {}]

Init ==
    /\ stored \in SUBSET Items
    /\ selected = stored /\ cached = stored
    /\ saves = {} /\ reading = Idle
    /\ clicks = 0 /\ burst = 0
    /\ spoilt = FALSE

AtRest == saves = {} /\ reading = Idle

\* toggleCategory: the list is what is shown, turned at one item.
Toggle(i) ==
    LET list == IF i \in selected THEN selected \ {i} ELSE selected \cup {i}
    IN  /\ clicks < MaxClicks
        /\ clicks' = clicks + 1
        /\ selected' = list
        /\ saves' = saves \cup {[no |-> clicks, list |-> list, done |-> FALSE]}
        /\ burst' = IF AtRest THEN 1 ELSE burst + 1
        /\ spoilt' = (spoilt \/ burst' > 2)
        /\ UNCHANGED <<cached, stored, reading>>

\* The server replaces the list in one transaction; saves may overtake each other.
Replace(s) ==
    /\ ~s.done
    /\ stored' = s.list
    /\ saves' = (saves \ {s}) \cup {[s EXCEPT !.done = TRUE]}
    /\ UNCHANGED <<selected, cached, reading, clicks, burst, spoilt>>

\* Mutant: the list is not read again after a save.
SavedQuietly(s) ==
    /\ s.done
    /\ saves' = saves \ {s}
    /\ UNCHANGED <<selected, cached, stored, reading, clicks, burst, spoilt>>

\* onSuccess invalidates the list: a read under way is dropped for a new one.
Saved(s) ==
    /\ s.done
    /\ saves' = saves \ {s}
    /\ reading' = [at |-> "asked", list |-> {}]
    /\ UNCHANGED <<selected, cached, stored, clicks, burst, spoilt>>

\* Nothing handles the error: the toggle stays as it was turned.
SaveFails(s) ==
    /\ ~s.done
    /\ saves' = saves \ {s}
    /\ spoilt' = TRUE
    /\ UNCHANGED <<selected, cached, stored, reading, clicks, burst>>

Read ==
    /\ reading.at = "asked"
    /\ reading' = [at |-> "read", list |-> stored]
    /\ UNCHANGED <<selected, cached, stored, saves, clicks, burst, spoilt>>

\* A list equal to the cached one keeps its identity, and the effect does not run,
\* unless its rows come in another order.
Show ==
    /\ reading.at = "read"
    /\ cached' = reading.list
    /\ \/ selected' = reading.list
       \/ reading.list = cached /\ UNCHANGED selected
    /\ reading' = Idle
    /\ UNCHANGED <<stored, saves, clicks, burst, spoilt>>

Next ==
    \/ \E i \in Items : Toggle(i)
    \/ \E s \in saves : Replace(s) \/ Saved(s) \/ SaveFails(s)
    \/ Read
    \/ Show

-----------------------------------------------------------------------------
\* Once every save is answered and the list is read again, the toggles show what is
\* stored, though a click may have been lost - unless a save failed, or three clicks
\* followed each other before that.
TogglesShowTheStored == AtRest /\ ~spoilt => selected = stored
==============================================================================
