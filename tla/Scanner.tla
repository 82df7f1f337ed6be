-------------------------------- MODULE Scanner --------------------------------
(***************************************************************************)
(* The ticket scanner AttendeeScanner.tsx                                  *)
(* (src/apps/web/src/features/events/components/attendance/): the camera   *)
(* delivers codes faster than the server answers check-ins, and a verdict  *)
(* is wiped by a timer that nothing clears.                                *)
(*                                                                         *)
(* The effect that copies isPending and the verdict into stateRef is taken *)
(* to run before the next frame of the camera.                             *)
(***************************************************************************)
EXTENDS Naturals

CONSTANTS
    Codes,      \* codes held before the camera
    MaxScans,
    None

VARIABLES
    verdict,  \* lastScan: None or [code, kind]
    checking, \* check-ins that are not answered
    latest,   \* the code whose callbacks the hook keeps: the last one passed on
    cooling,  \* lastScannedCodeRef while its four seconds run
    timers,   \* pending setTimeout(() => setLastScan(null))
    scans,
    ignored   \* history: a check-in was answered and its verdict not shown

vars == <<verdict, checking, latest, cooling, timers, scans, ignored>>

Init ==
    /\ verdict = None /\ checking = {} /\ latest = None /\ cooling = None
    /\ timers = 0 /\ scans = 0
    /\ ignored = FALSE

\* Mutant: only the verdict that is shown tells whether one is awaited.
BusyByVerdict == verdict # None /\ verdict.kind = "loading"

Busy == latest \in checking \/ (verdict # None /\ verdict.kind = "loading")

HandleScan(c) ==
    /\ scans < MaxScans
    /\ ~Busy
    /\ c # cooling
    /\ scans' = scans + 1
    /\ cooling' = c
    /\ latest' = c
    /\ verdict' = [code |-> c, kind |-> "loading"]
    /\ checking' = checking \cup {c}
    /\ UNCHANGED <<timers, ignored>>

\* The callbacks passed to mutate are called for the latest check-in only.
Answer(c, kind) ==
    /\ c \in checking
    /\ checking' = checking \ {c}
    /\ IF c = latest
          THEN /\ verdict' = [code |-> c, kind |-> kind]
               /\ timers' = timers + 1
               /\ cooling' = IF kind = "error" THEN None ELSE cooling
               /\ UNCHANGED ignored
          ELSE ignored' = TRUE /\ UNCHANGED <<verdict, timers, cooling>>
    /\ UNCHANGED <<latest, scans>>

\* No timer is cleared: that of an earlier verdict wipes what is shown by now.
TimerFires ==
    /\ timers > 0
    /\ timers' = timers - 1
    /\ verdict' = None
    /\ UNCHANGED <<checking, latest, cooling, scans, ignored>>

FourSeconds ==
    /\ cooling # None
    /\ cooling' = None
    /\ UNCHANGED <<verdict, checking, latest, timers, scans, ignored>>

RestartScanner ==
    /\ verdict # None
    /\ verdict' = None
    /\ UNCHANGED <<checking, latest, cooling, timers, scans, ignored>>

Next ==
    \/ \E c \in Codes : HandleScan(c)
    \/ \E c \in Codes, kind \in {"success", "warning", "error"} : Answer(c, kind)
    \/ TimerFires
    \/ FourSeconds
    \/ RestartScanner

-----------------------------------------------------------------------------
\* The verdict of every check-in is shown, and it is that of the code scanned last,
\* though the timer of an earlier verdict may cut it short.
EveryVerdictIsShown ==
    /\ ~ignored
    /\ verdict # None => verdict.code = latest
==============================================================================
