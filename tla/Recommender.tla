----------------------------- MODULE Recommender -----------------------------
(***************************************************************************)
(* Training, serving and caching of recommendations: the scoring service   *)
(* (src/apps/ml-service/app/), the queue and processor that have it        *)
(* retrained, and the cache in front of it                                 *)
(* (src/apps/api/src/recommendation/).                                     *)
(*                                                                         *)
(* A training writes its artifacts to a directory of its own, copies them  *)
(* one at a time over the current ones, reads them all back and puts them  *)
(* into the memory of the process, again one at a time.  Nothing keeps two *)
(* trainings apart: the one the API asks for and the one of the service's  *)
(* own scheduler, both at midnight.  What a training makes is told by its  *)
(* number.                                                                 *)
(***************************************************************************)
EXTENDS Naturals, FiniteSets, Functions

CONSTANTS
    Artifacts,    \* files of a model
    Model,        \* the one whose time of change is last_trained
    MaxTrainings, \* trainings ever begun (bound)
    MaxBreaks,    \* failures and restarts (bound)
    None

Polls == 5 \* health checks after a training

VARIABLES
    disk,     \* model_path: per artifact the training that made it, 0 for no file
    memory,   \* _state: the same for what requests use
    lastTrained,
    trainer,  \* the two trainings that can be under way
    trained,  \* trainings begun
    job,      \* the retrain job of the API, under its one id
    answer,   \* a request to the API that missed the cache
    cache,    \* the answer cached for an hour
    cleared,  \* history: last_trained when a job last cleared the cache
    torn,     \* history: a copy broke off, or two trainings overlapped
    breaks

vars == <<disk, memory, lastTrained, trainer, trained, job, answer, cache, cleared, torn,
          breaks>>

-----------------------------------------------------------------------------
NoFiles == [a \in Artifacts |-> 0]

Resting == [pc |-> "rest", number |-> 0, todo |-> {}, got |-> NoFiles]
NoJob == [pc |-> "none", before |-> 0, polls |-> 0, found |-> FALSE, stalled |-> FALSE]
NoAnswer == [of |-> {}, late |-> FALSE]

Trainers == {"endpoint", "midnight"}

\* The service starts with models, or without because there were no data yet.
Init ==
    /\ trained \in {0, 1}
    /\ disk = [a \in Artifacts |-> trained]
    /\ memory = disk
    /\ lastTrained = trained
    /\ trainer = [t \in Trainers |-> Resting]
    /\ job = NoJob
    /\ answer = NoAnswer
    /\ cache = NoAnswer
    /\ cleared = 0
    /\ torn = FALSE
    /\ breaks = 0

Loaded == memory[Model] # 0

-----------------------------------------------------------------------------
(* retrain of the scoring service, called by POST /retrain and by the      *)
(* scheduler at midnight (and once at the start when there are no files);  *)
(* a job done again waits for the training its first run asked for.        *)

Begin(t) ==
    /\ trainer[t].pc = "rest"
    /\ trained < MaxTrainings
    /\ t = "endpoint" => job.pc = "post"
    /\ trained' = trained + 1
    /\ trainer' = [trainer EXCEPT ![t] =
                      [pc |-> "copy", number |-> trained + 1, todo |-> Artifacts,
                       got |-> NoFiles]]
    /\ job' = IF t = "endpoint" THEN [job EXCEPT !.pc = "training"] ELSE job
    /\ torn' = (torn \/ \E x \in Trainers : trainer[x].pc # "rest")
    /\ UNCHANGED <<disk, memory, lastTrained, answer, cache, cleared, breaks>>

\* shutil.copy2 of one file; the time of change is copied with it.
Copy(t) ==
    \E a \in trainer[t].todo :
        /\ trainer[t].pc = "copy"
        /\ disk' = [disk EXCEPT ![a] = trainer[t].number]
        /\ trainer' = [trainer EXCEPT ![t].todo = trainer[t].todo \ {a},
                                      ![t].pc = IF trainer[t].todo = {a} THEN "load" ELSE "copy"]
        /\ UNCHANGED <<memory, lastTrained, trained, job, answer, cache, cleared, torn, breaks>>

\* Mutant: last_trained is set before the keys of _state.
LoadAnnounced(t) ==
    /\ trainer[t].pc = "load"
    /\ trainer' = [trainer EXCEPT ![t].pc = "swap", ![t].got = disk, ![t].todo = Artifacts]
    /\ lastTrained' = disk[Model]
    /\ UNCHANGED <<disk, memory, trained, job, answer, cache, cleared, torn, breaks>>

\* load_models reads the files into new_state; requests still use _state.
Load(t) ==
    /\ trainer[t].pc = "load"
    /\ trainer' = [trainer EXCEPT ![t].pc = "swap", ![t].got = disk, ![t].todo = Artifacts]
    /\ UNCHANGED <<disk, memory, lastTrained, trained, job, answer, cache, cleared, torn, breaks>>

\* The training is over; the job that asked for it checks on its effect.
Finish(t) ==
    /\ trainer' = [trainer EXCEPT ![t] = Resting]
    /\ job' = IF t = "endpoint" /\ job.pc = "training" THEN [job EXCEPT !.pc = "verify"] ELSE job

\* One key of _state; after the last, last_trained (the file may be newer).
SwapOne(t) ==
    \E a \in trainer[t].todo :
        /\ trainer[t].pc = "swap"
        /\ memory' = [memory EXCEPT ![a] = trainer[t].got[a]]
        /\ trainer' = [trainer EXCEPT ![t].todo = trainer[t].todo \ {a}]
        /\ UNCHANGED <<disk, lastTrained, trained, job, answer, cache, cleared, torn, breaks>>

SetLastTrained(t) ==
    /\ trainer[t].pc = "swap" /\ trainer[t].todo = {}
    /\ lastTrained' = disk[Model]
    /\ Finish(t)
    /\ UNCHANGED <<disk, memory, trained, answer, cache, cleared, torn, breaks>>

\* Reading a file failed: load_models returns False, and retrain goes on.
FailToLoad(t) ==
    /\ trainer[t].pc = "load"
    /\ breaks < MaxBreaks
    /\ breaks' = breaks + 1
    /\ Finish(t)
    /\ UNCHANGED <<disk, memory, lastTrained, trained, answer, cache, cleared, torn>>

\* It raises before the copy is complete: status 500 for the job.
FailToTrain(t) ==
    /\ trainer[t].pc = "copy"
    /\ breaks < MaxBreaks
    /\ breaks' = breaks + 1
    /\ torn' = (torn \/ trainer[t].todo # Artifacts)
    /\ trainer' = [trainer EXCEPT ![t] = Resting]
    /\ job' = IF t = "endpoint" /\ job.pc = "training" THEN [job EXCEPT !.pc = "failed"] ELSE job
    /\ UNCHANGED <<disk, memory, lastTrained, trained, answer, cache, cleared>>

\* The service restarts and loads the files there are.
Restart ==
    LET here == \A a \in Artifacts : disk[a] # 0
    IN  /\ breaks < MaxBreaks
        /\ breaks' = breaks + 1
        /\ torn' = (torn \/ \E t \in Trainers : trainer[t].pc = "copy"
                                                  /\ trainer[t].todo # Artifacts)
        /\ trainer' = [t \in Trainers |-> Resting]
        /\ memory' = IF here THEN disk ELSE NoFiles
        /\ lastTrained' = IF here THEN disk[Model] ELSE 0
        /\ job' = IF job.pc \in {"post", "training"} THEN [job EXCEPT !.pc = "failed"] ELSE job
        /\ UNCHANGED <<disk, trained, answer, cache, cleared>>

-----------------------------------------------------------------------------
(* The job of the API.                                                     *)

\* retrain (the button) and handleMidnightRetrain: a job with this id that
\* waits, runs or has failed makes the call do nothing.
AddJob ==
    /\ job.pc = "none"
    /\ job' = [NoJob EXCEPT !.pc = "waiting"]
    /\ UNCHANGED <<disk, memory, lastTrained, trainer, trained, answer, cache, cleared, torn,
                   breaks>>

\* The health before; none when the service cannot be reached.
TakeJob ==
    /\ job.pc = "waiting"
    /\ \E before \in {lastTrained, 0} :
        job' = [job EXCEPT !.pc = "post", !.before = before, !.polls = 0]
    /\ UNCHANGED <<disk, memory, lastTrained, trainer, trained, answer, cache, cleared, torn,
                   breaks>>

\* The five polls are two seconds apart; then the job fails for good.
Verify ==
    LET ok == Loaded /\ lastTrained # job.before
    IN  /\ job.pc = "verify"
        /\ job' = [job EXCEPT !.pc = IF ok THEN "keys"
                                     ELSE IF job.polls + 1 = Polls THEN "failed" ELSE "verify",
                              !.polls = IF ok THEN 0 ELSE job.polls + 1]
        /\ UNCHANGED <<disk, memory, lastTrained, trainer, trained, answer, cache, cleared, torn,
                       breaks>>

\* redis.keys, then redis.del of what was found; the job is removed.
FindKeys ==
    /\ job.pc = "keys"
    /\ job' = [job EXCEPT !.pc = "del", !.found = (cache.of # {})]
    /\ UNCHANGED <<disk, memory, lastTrained, trainer, trained, answer, cache, cleared, torn,
                   breaks>>

DeleteKeys ==
    /\ job.pc = "del"
    /\ cache' = IF job.found THEN NoAnswer ELSE [cache EXCEPT !.late = @ \/ cache.of # {}]
    /\ answer' = [answer EXCEPT !.late = @ \/ answer.of # {}]
    /\ cleared' = lastTrained
    /\ job' = NoJob
    /\ UNCHANGED <<disk, memory, lastTrained, trainer, trained, torn, breaks>>

\* The service or Redis cannot be reached: the job fails, and has one attempt.
FailJob ==
    /\ breaks < MaxBreaks
    /\ breaks' = breaks + 1
    /\ job.pc \in {"post", "keys", "del"}
    /\ job' = [job EXCEPT !.pc = "failed"]
    /\ UNCHANGED <<disk, memory, lastTrained, trainer, trained, answer, cache, cleared, torn>>

\* The API stops: BullMQ has the job done again, once.
StopWorker ==
    /\ breaks < MaxBreaks
    /\ breaks' = breaks + 1
    /\ job.pc \notin {"none", "waiting", "failed"}
    /\ job' = IF job.stalled THEN [job EXCEPT !.pc = "failed"]
              ELSE [NoJob EXCEPT !.pc = "waiting", !.stalled = TRUE]
    /\ answer' = NoAnswer
    /\ UNCHANGED <<disk, memory, lastTrained, trainer, trained, cache, cleared, torn>>

-----------------------------------------------------------------------------
(* getRecommendations and getSimilarEvents of the API.                     *)

\* Not in the cache: the service computes it from _state.  Without models it
\* answers 503, and with a part of them it fails: neither is cached.
Predict ==
    /\ cache = NoAnswer /\ answer = NoAnswer
    /\ 0 \notin Range(memory)
    /\ answer' = [of |-> Range(memory), late |-> FALSE]
    /\ UNCHANGED <<disk, memory, lastTrained, trainer, trained, job, cache, cleared, torn, breaks>>

\* redis.set, after the events were fetched.
Fill ==
    /\ answer # NoAnswer
    /\ cache' = answer
    /\ answer' = NoAnswer
    /\ UNCHANGED <<disk, memory, lastTrained, trainer, trained, job, cleared, torn, breaks>>

\* An hour (a day for similar events) has passed.
Expire ==
    /\ cache # NoAnswer
    /\ cache' = NoAnswer
    /\ UNCHANGED <<disk, memory, lastTrained, trainer, trained, job, answer, cleared, torn, breaks>>

Next ==
    \/ \E t \in Trainers :
        \/ Begin(t)
        \/ Copy(t)
        \/ Load(t)
        \/ SwapOne(t)
        \/ SetLastTrained(t)
        \/ FailToLoad(t)
        \/ FailToTrain(t)
    \/ Restart
    \/ AddJob \/ TakeJob \/ Verify \/ FindKeys \/ DeleteKeys \/ FailJob \/ StopWorker
    \/ Predict \/ Fill \/ Expire

Spec == Init /\ [][Next]_vars

-----------------------------------------------------------------------------
\* Unless trainings overlapped or a copy broke off: with no training under way
\* requests are answered from one training, the one whose time the health check
\* gives, which is what the job relies on; and a cached answer is not older than
\* the model that the last job found in place, but for an answer that was
\* computed before the job cleared the cache and stored after (the value is held
\* across the await of recommendation.service.ts:46-70).
AnswersAreCurrent ==
    ~torn =>
        /\ (\A t \in Trainers : trainer[t].pc = "rest") => Range(memory) = {lastTrained}
        /\ cache.late \/ \A n \in cache.of : n >= cleared

-----------------------------------------------------------------------------
(* The inductive invariant of AnswersAreCurrent.                           *)

Training == [pc : {"rest", "copy", "load", "swap"}, number : Nat,
             todo : SUBSET Artifacts, got : [Artifacts -> Nat]]
Data == [of : SUBSET Nat, late : BOOLEAN]

TypeOK ==
    /\ disk \in [Artifacts -> Nat]
    /\ memory \in [Artifacts -> Nat]
    /\ lastTrained \in Nat
    /\ trainer \in [Trainers -> Training]
    /\ trained \in Nat
    /\ answer \in Data
    /\ cache \in Data
    /\ cleared \in Nat
    /\ torn \in BOOLEAN

AtRest == \A t \in Trainers : trainer[t].pc = "rest"

\* One training at a time writes its number to the files, reads them back, and
\* hands them to the requests, key by key.
OneTraining ==
    /\ \A t, u \in Trainers : trainer[t].pc # "rest" /\ trainer[u].pc # "rest" => t = u
    /\ AtRest => \A a \in Artifacts : disk[a] = disk[Model]
    /\ \A t \in Trainers, a \in Artifacts :
          /\ trainer[t].pc = "copy" =>
                IF a \in trainer[t].todo THEN \A b \in trainer[t].todo : disk[a] = disk[b]
                                         ELSE disk[a] = trainer[t].number
          /\ trainer[t].pc \in {"load", "swap"} => disk[a] = trainer[t].number
          /\ trainer[t].pc = "swap" => trainer[t].got[a] = trainer[t].number
          /\ trainer[t].pc = "swap" /\ a \notin trainer[t].todo => memory[a] = trainer[t].number
    /\ \A a \in Artifacts :
          (\A t \in Trainers : trainer[t].pc = "swap" => a \in trainer[t].todo)
             => memory[a] = lastTrained

\* Numbers grow: on the disk, in the memory, and in what the cache was cleared for.
NumbersGrow ==
    /\ cleared <= lastTrained
    /\ \A a \in Artifacts : lastTrained <= disk[a] /\ disk[a] <= trained /\ lastTrained <= memory[a]
    /\ \A t \in Trainers : trainer[t].pc # "rest" =>
          /\ trainer[t].number <= trained
          /\ \A a \in Artifacts : disk[a] <= trainer[t].number

NewOrLate(data) == data.late \/ \A n \in data.of : n >= cleared

TrainingInv ==
    /\ TypeOK
    /\ ~torn => OneTraining /\ NumbersGrow /\ NewOrLate(answer) /\ NewOrLate(cache)
==============================================================================
