--------------------------- MODULE QueuesProofs ---------------------------
(***************************************************************************)
(* Theorems about Notifications, Recommender and Screens, for any number   *)
(* of users, jobs, artifacts, trainings, visits, mutations and failures.   *)
(***************************************************************************)
EXTENDS MCQueuesAndPages, TLAPS

-----------------------------------------------------------------------------
(* Notifications (module Notifications).                                   *)

LEMMA QueueInit == N!Init => N!QueueInv
<1> SUFFICES ASSUME N!Init PROVE N!QueueInv
  OBVIOUS
<1> USE DEF N!Init
<1>1. N!QueueType
  BY DEF N!QueueType, N!Job, N!NoJob, N!Worker, N!Resting, N!Attempts, N!Stalls
<1>2. N!WorkerAgrees
  BY DEF N!WorkerAgrees, N!Resting
<1>3. ASSUME NEW j \in Jobs PROVE N!AttemptsAreCounted(j) /\ N!RowsAreStored(j)
  BY DEF N!AttemptsAreCounted, N!RowsAreStored, N!NoJob
<1>4. QED
  BY <1>1, <1>2, <1>3 DEF N!QueueInv

LEMMA JobStates ==
    ASSUME NEW x \in N!Job, NEW s \in {"waiting", "active", "done", "failed"}
    PROVE  [x EXCEPT !.state = s] \in N!Job
BY DEF N!Job

LEMMA JobFields ==
    ASSUME NEW x \in N!Job
    PROVE  x.failures \in 0 .. 3 /\ x.stalls \in 0 .. 2
BY DEF N!Job, N!Attempts, N!Stalls

\* BullMQ's counts stay in their range: a job has at most three failures and
\* one stall, and one more when it is given up.
LEMMA JobCounts ==
    ASSUME NEW x \in N!Job, NEW s \in {"waiting", "failed"}
    PROVE  /\ x.failures < 3 => [x EXCEPT !.failures = x.failures + 1, !.state = s] \in N!Job
           /\ x.stalls <= 1 => [x EXCEPT !.stalls = x.stalls + 1, !.state = s] \in N!Job
<1>1. x.failures < 3 => x.failures + 1 \in 0 .. 3
  BY JobFields
<1>2. x.stalls <= 1 => x.stalls + 1 \in 0 .. (1 + 1)
  BY JobFields
<1>3. QED
  BY <1>1, <1>2 DEF N!Job, N!Attempts, N!Stalls

\* One step per action.
LEMMA QueueNext == N!QueueInv /\ [N!Next]_N!vars => N!QueueInv'
<1> SUFFICES ASSUME N!QueueInv, [N!Next]_N!vars PROVE N!QueueInv'
  OBVIOUS
<1> USE NoneIsNoJob DEF N!Attempts, N!Stalls
<1>0. ASSUME UNCHANGED <<v1, v2, v3, v4, v5>> PROVE N!QueueInv'
  BY <1>0 DEF N!QueueInv, N!QueueType, N!WorkerAgrees, N!AttemptsAreCounted, N!RowsAreStored
<1>1. ASSUME NEW j \in Jobs, NEW S \in SUBSET Users, N!Enqueue(j, S) PROVE N!QueueInv'
  <2> USE <1>1 DEF N!Enqueue, N!QueueInv, N!QueueType
  <2>1. N!QueueType'
    BY DEF N!AttemptsAreCounted, N!Job, N!NoJob
  <2>2. N!WorkerAgrees'
    BY DEF N!WorkerAgrees
  <2>3. ASSUME NEW i \in Jobs PROVE N!AttemptsAreCounted(i)'
    BY DEF N!AttemptsAreCounted, N!NoJob
  <2>4. ASSUME NEW i \in Jobs PROVE N!RowsAreStored(i)'
    BY DEF N!RowsAreStored, N!AttemptsAreCounted, N!NoJob
  <2>5. QED
    BY <2>1, <2>2, <2>3, <2>4
<1>2. ASSUME NEW j \in Jobs, N!TakeJob(j) PROVE N!QueueInv'
  <2> USE <1>2 DEF N!TakeJob, N!QueueInv, N!QueueType
  <2>1. N!QueueType'
    <3>1. v1' \in [Jobs -> N!Job]
      <4>1. v1' = [v1 EXCEPT ![j] = [v1[j] EXCEPT !.state = "active"]] /\ v1[j] \in N!Job
        OBVIOUS
      <4>2. QED
        BY <4>1, JobStates
    <3>2. v2' \in N!Worker
      BY DEF N!Worker
    <3>3. QED
      BY <3>1, <3>2
  <2>2. N!WorkerAgrees'
    BY DEF N!WorkerAgrees
  <2>3. ASSUME NEW i \in Jobs PROVE N!AttemptsAreCounted(i)'
    BY DEF N!AttemptsAreCounted
  <2>4. ASSUME NEW i \in Jobs PROVE N!RowsAreStored(i)'
    BY DEF N!RowsAreStored
  <2>5. QED
    BY <2>1, <2>2, <2>3, <2>4
<1>3. ASSUME N!Persist PROVE N!QueueInv'
  <2> USE <1>3 DEF N!Persist, N!QueueInv, N!QueueType
  <2>1. N!QueueType'
    <3>1. v2.job \in Jobs
      BY DEF N!WorkerAgrees, N!Worker
    <3>2. v3' \in [Jobs -> [Users -> Nat]]
      <4>1. ASSUME NEW u \in Users PROVE v3[v2.job][u] + (IF u \in v1[v2.job].to THEN 1 ELSE 0) \in Nat
        BY <3>1
      <4>2. QED
        BY <3>1, <4>1
    <3>3. v5' \in [Jobs -> Nat] /\ v2' \in N!Worker
      BY <3>1 DEF N!Worker
    <3>4. QED
      BY <3>2, <3>3
  <2>2. N!WorkerAgrees'
    BY DEF N!WorkerAgrees, N!Worker
  <2>3. ASSUME NEW i \in Jobs PROVE N!AttemptsAreCounted(i)'
    <3>1. v2.job \in Jobs /\ v1[v2.job].state = "active" /\ v2'.pc = "push" /\ v2'.job = v2.job
      BY DEF N!WorkerAgrees, N!Worker
    <3>2. N!AttemptsAreCounted(i) /\ v5[i] \in Nat
      OBVIOUS
    <3>3. CASE i = v2.job
      <4>1. v5'[i] = v5[i] + 1
        BY <3>1, <3>3
      <4>2. v5[i] <= v1[i].failures + v1[i].stalls + 0
        BY <3>1, <3>2, <3>3 DEF N!AttemptsAreCounted
      <4>3. v1[i].failures \in Nat /\ v1[i].stalls \in Nat
        <5>1. v1[i] \in N!Job
          OBVIOUS
        <5> HIDE DEF N!Persist, N!QueueInv, N!QueueType
        <5>2. v1[i].failures \in 0 .. 3 /\ v1[i].stalls \in 0 .. 2
          BY <5>1, JobFields
        <5>3. QED
          BY <5>2
      <4>4. QED
        BY <3>1, <3>2, <3>3, <4>1, <4>2, <4>3 DEF N!AttemptsAreCounted
    <3>4. CASE i # v2.job
      BY <3>1, <3>2, <3>4 DEF N!AttemptsAreCounted
    <3>5. QED
      BY <3>3, <3>4
  <2>4. ASSUME NEW i \in Jobs PROVE N!RowsAreStored(i)'
    BY DEF N!RowsAreStored
  <2>5. QED
    BY <2>1, <2>2, <2>3, <2>4
<1>4. ASSUME N!Push PROVE N!QueueInv'
  <2> USE <1>4 DEF N!Push, N!QueueInv, N!QueueType
  <2>1. N!QueueType'
    <3>1. v1' \in [Jobs -> N!Job]
      <4>1. v2.job \in Jobs
        BY DEF N!WorkerAgrees, N!Worker
      <4>2. v1' = [v1 EXCEPT ![v2.job] = [v1[v2.job] EXCEPT !.state = "done"]] /\ v1[v2.job] \in N!Job
        BY <4>1
      <4>3. QED
        BY <4>1, <4>2, JobStates
    <3>2. v2' \in N!Worker
      BY DEF N!Worker, N!Resting
    <3>3. QED
      BY <3>1, <3>2
  <2>2. N!WorkerAgrees'
    BY DEF N!WorkerAgrees, N!Resting
  <2>3. ASSUME NEW i \in Jobs PROVE N!AttemptsAreCounted(i)'
    BY DEF N!AttemptsAreCounted, N!WorkerAgrees, N!Resting
  <2>4. ASSUME NEW i \in Jobs PROVE N!RowsAreStored(i)'
    BY DEF N!RowsAreStored
  <2>5. QED
    BY <2>1, <2>2, <2>3, <2>4
<1>5. ASSUME N!FailAttempt PROVE N!QueueInv'
  <2> USE <1>5 DEF N!FailAttempt, N!QueueInv, N!QueueType
  <2>1. N!QueueType'
    <3>1. v2.job \in Jobs /\ v1[v2.job].failures < 3
      <4>1. v2.job \in Jobs /\ v1[v2.job].state = "active"
        BY DEF N!WorkerAgrees, N!Worker
      <4>2. N!AttemptsAreCounted(v2.job)
        BY <4>1
      <4>3. QED
        BY <4>1, <4>2, Zenon DEF N!AttemptsAreCounted
    <3>2. [v1[v2.job] EXCEPT !.failures = v1[v2.job].failures + 1,
                             !.state = IF v1[v2.job].failures + 1 < 3 THEN "waiting"
                                                                      ELSE "failed"] \in N!Job
      BY <3>1, JobCounts
    <3>3. v1' \in [Jobs -> N!Job]
      BY <3>1, <3>2, Zenon
    <3>4. v2' \in N!Worker
      BY DEF N!Worker, N!Resting
    <3>5. QED
      BY <3>3, <3>4
  <2>2. N!WorkerAgrees'
    BY DEF N!WorkerAgrees, N!Resting
  <2>3. ASSUME NEW i \in Jobs PROVE N!AttemptsAreCounted(i)'
    BY DEF N!WorkerAgrees, N!Job, N!Worker, N!Resting
  <2>4. ASSUME NEW i \in Jobs PROVE N!RowsAreStored(i)'
    BY DEF N!RowsAreStored
  <2>5. QED
    BY <2>1, <2>2, <2>3, <2>4
<1>6. ASSUME N!Stop PROVE N!QueueInv'
  <2> USE <1>6 DEF N!Stop, N!QueueInv, N!QueueType
  <2>1. N!QueueType'
    <3>1. v2' \in N!Worker
      BY DEF N!Worker, N!Resting
    <3>2. v1' \in [Jobs -> N!Job]
      <4>1. CASE v2.job = None
        BY <4>1
      <4>2. CASE v2.job # None
        <5>1. v2.job \in Jobs /\ v1[v2.job].stalls <= 1
          BY <4>2 DEF N!WorkerAgrees, N!AttemptsAreCounted, N!Worker
        <5>2. v1[v2.job] \in N!Job
          BY <5>1
        <5>3. [v1[v2.job] EXCEPT !.stalls = v1[v2.job].stalls + 1,
                                 !.state = IF v1[v2.job].stalls < 1 THEN "waiting"
                                                                    ELSE "failed"] \in N!Job
          BY <5>1, <5>2, JobCounts, Zenon
        <5>4. QED
          BY <4>2, <5>1, <5>3, Zenon
      <4>3. QED
        BY <4>1, <4>2
    <3>3. QED
      BY <3>1, <3>2
  <2>2. N!WorkerAgrees'
    BY DEF N!WorkerAgrees, N!Resting
  <2>3. ASSUME NEW i \in Jobs PROVE N!AttemptsAreCounted(i)'
    <3>1. N!AttemptsAreCounted(i) /\ v2'.pc = "idle" /\ v5'[i] = v5[i]
      BY DEF N!Resting
    <3>2. /\ v1[i] \in N!Job /\ v5[i] \in Nat
          /\ v1[i].failures \in 0 .. 3 /\ v1[i].stalls \in 0 .. 2
      BY JobFields
    <3>3. CASE i # v2.job
      BY <3>1, <3>3 DEF N!AttemptsAreCounted
    <3>4. CASE i = v2.job
      <4>1. v1[i].state = "active" /\ v2.job # None
        BY <3>4 DEF N!WorkerAgrees, N!Worker
      <4>2. /\ v1'[i].failures = v1[i].failures
            /\ v1'[i].stalls = v1[i].stalls + 1
            /\ v1'[i].state = IF v1[i].stalls < 1 THEN "waiting" ELSE "failed"
        BY <3>2, <3>4, <4>1 DEF N!Job
      <4>3. v5[i] <= v1[i].failures + v1[i].stalls + 1
        BY <3>1, <3>2, <4>1 DEF N!AttemptsAreCounted
      <4>4. v1[i].failures < 3 /\ v1[i].stalls <= 1
        BY <3>1, <4>1 DEF N!AttemptsAreCounted
      <4>5. QED
        BY <3>1, <3>2, <4>2, <4>3, <4>4 DEF N!AttemptsAreCounted
    <3>5. QED
      BY <3>3, <3>4
  <2>4. ASSUME NEW i \in Jobs PROVE N!RowsAreStored(i)'
    BY DEF N!RowsAreStored
  <2>5. QED
    BY <2>1, <2>2, <2>3, <2>4
<1>7. ASSUME NEW u \in Users, NEW j \in Jobs, N!MarkAsRead(u, j) PROVE N!QueueInv'
  <2> USE <1>7 DEF N!MarkAsRead, N!QueueInv, N!QueueType
  <2>1. N!QueueType'
    OBVIOUS 
  <2>2. N!WorkerAgrees'
    BY DEF N!WorkerAgrees
  <2>3. ASSUME NEW i \in Jobs PROVE N!AttemptsAreCounted(i)'
    BY DEF N!AttemptsAreCounted
  <2>4. ASSUME NEW i \in Jobs PROVE N!RowsAreStored(i)'
    BY DEF N!RowsAreStored
  <2>5. QED
    BY <2>1, <2>2, <2>3, <2>4
<1>8. ASSUME NEW u \in Users, N!MarkAllAsRead(u) PROVE N!QueueInv'
  <2> USE <1>8 DEF N!MarkAllAsRead, N!QueueInv, N!QueueType
  <2>1. N!QueueType'
    OBVIOUS 
  <2>2. N!WorkerAgrees'
    BY DEF N!WorkerAgrees
  <2>3. ASSUME NEW i \in Jobs PROVE N!AttemptsAreCounted(i)'
    BY DEF N!AttemptsAreCounted
  <2>4. ASSUME NEW i \in Jobs PROVE N!RowsAreStored(i)'
    BY DEF N!RowsAreStored
  <2>5. QED
    BY <2>1, <2>2, <2>3, <2>4
<1>9. ASSUME NEW u \in Users, NEW j \in Jobs, N!DeleteOne(u, j) PROVE N!QueueInv'
  <2> USE <1>9 DEF N!DeleteOne, N!QueueInv, N!QueueType
  <2>1. /\ v3' \in [Jobs -> [Users -> Nat]] /\ v4' \in [Jobs -> [Users -> Nat]]
        /\ \A i \in Jobs, w \in Users : v3'[i][w] <= v3[i][w] /\ v4'[i][w] <= v4[i][w]
    <3>1. CASE v3[j][u] > 0 /\ v3' = [v3 EXCEPT ![j][u] = @ - 1] /\ UNCHANGED v4
      BY <3>1
    <3>2. CASE v4[j][u] > 0 /\ v4' = [v4 EXCEPT ![j][u] = @ - 1] /\ UNCHANGED v3
      BY <3>2
    <3>3. QED
      BY <3>1, <3>2
  <2>2. N!QueueType' /\ N!WorkerAgrees'
    BY <2>1 DEF N!WorkerAgrees
  <2>3. ASSUME NEW i \in Jobs PROVE N!AttemptsAreCounted(i)'
    BY DEF N!AttemptsAreCounted
  <2>4. ASSUME NEW i \in Jobs PROVE N!RowsAreStored(i)'
    BY <2>1 DEF N!RowsAreStored
  <2>5. QED
    BY <2>2, <2>3, <2>4
<1>10. QED
  BY <1>0, <1>1, <1>2, <1>3, <1>4, <1>5, <1>6, <1>7, <1>8, <1>9 DEF N!Next, N!vars, N!Work,
     N!Connect, N!Disconnect, N!Poll, N!Refetch

\* A job that is done was stored, and is stored again only after an attempt that
\* broke off (notifications.processor.ts:26), so that nobody has more rows of it.
THEOREM StoredCorrect == Spec => []StoredOncePerAttempt
<1> DEFINE Inv == part = "notifications" => N!QueueInv
<1>1. Init => Inv
  BY QueueInit DEF Init
<1>2. Inv /\ [Next]_vars => Inv'
  <2> SUFFICES ASSUME Inv, [Next]_vars, part' = "notifications" PROVE N!QueueInv'
    OBVIOUS
  <2>1. N!QueueInv /\ [N!Next]_N!vars
    BY DEF Next, vars, N!vars
  <2>2. QED
    BY <2>1, QueueNext
<1>3. Inv => StoredOncePerAttempt
  BY DEF StoredOncePerAttempt, N!QueueInv, N!AttemptsAreCounted, N!RowsAreStored,
     N!StoredOncePerAttempt, N!WorkerAgrees, N!QueueType, N!Job
<1>4. QED
  <2> HIDE DEF Inv
  <2> QED
    BY <1>1, <1>2, <1>3, PTL DEF Spec

-----------------------------------------------------------------------------
(* Recommender (module Recommender).                                       *)

LEMMA RestTypes == R!NoFiles \in [Artifacts -> Nat] /\ R!Resting \in R!Training /\ R!NoAnswer \in R!Data
<1>1. R!NoFiles \in [Artifacts -> Nat]
  BY DEF R!NoFiles
<1>2. R!Resting \in R!Training
  BY <1>1 DEF R!Resting, R!Training
<1>3. R!NoAnswer \in R!Data
  BY DEF R!NoAnswer, R!Data
<1>4. QED
  BY <1>1, <1>2, <1>3

LEMMA TrainingInit == R!Init => R!TrainingInv
<1> SUFFICES ASSUME R!Init PROVE R!TrainingInv
  OBVIOUS
<1> USE ModelIsAnArtifact DEF R!Init
<1>1. R!TypeOK
  <2>1. v5 \in Nat /\ v1 \in [Artifacts -> Nat] /\ v2 \in [Artifacts -> Nat] /\ v3 \in Nat
    OBVIOUS
  <2>2. v4 \in [R!Trainers -> R!Training] /\ v7 \in R!Data /\ v8 \in R!Data
    BY RestTypes
  <2>3. QED
    BY <2>1, <2>2 DEF R!TypeOK
<1>2. R!OneTraining
  BY DEF R!OneTraining, R!Resting
<1>3. R!NumbersGrow
  BY DEF R!NumbersGrow, R!Resting
<1>4. R!NewOrLate(v7) /\ R!NewOrLate(v8)
  BY DEF R!NewOrLate, R!NoAnswer
<1>5. QED
  BY <1>1, <1>2, <1>3, <1>4 DEF R!TrainingInv

\* One step per action that trains, or that touches what is answered.
LEMMA TrainingNext == R!TrainingInv /\ [R!Next]_R!vars => R!TrainingInv'
<1> SUFFICES ASSUME R!TrainingInv, [R!Next]_R!vars PROVE R!TrainingInv'
  OBVIOUS
<1> USE ModelIsAnArtifact
<1>0. ASSUME UNCHANGED <<v1, v2, v3, v4, v5, v7, v8, v9, v10>> PROVE R!TrainingInv'
  BY <1>0 DEF R!TrainingInv, R!TypeOK, R!OneTraining, R!AtRest, R!NumbersGrow, R!NewOrLate
<1>1. ASSUME NEW t \in R!Trainers, R!Begin(t) PROVE R!TrainingInv'
  <2> USE <1>1 DEF R!Begin
  <2>1. R!TypeOK'
    BY DEF R!TrainingInv, R!TypeOK, R!Training, R!NoFiles
  <2>2. ASSUME ~v10' PROVE R!OneTraining' /\ R!NumbersGrow' /\ R!NewOrLate(v7)' /\ R!NewOrLate(v8)'
    <3>1. R!TypeOK /\ R!OneTraining /\ R!NumbersGrow /\ R!NewOrLate(v7) /\ R!NewOrLate(v8)
      BY <2>2 DEF R!TrainingInv
    <3>2. R!OneTraining'
      <4>1. R!AtRest
        BY <2>2 DEF R!AtRest
      <4>2. /\ v4'[t] = [pc |-> "copy", number |-> v5 + 1, todo |-> Artifacts, got |-> R!NoFiles]
            /\ \A u \in R!Trainers \ {t} : v4'[u] = v4[u] /\ v4[u].pc = "rest"
        BY <3>1, <4>1 DEF R!TypeOK, R!AtRest
      <4>3. QED
        BY <3>1, <4>1, <4>2 DEF R!OneTraining, R!AtRest
    <3>3. R!NumbersGrow'
      BY <2>2, <3>1 DEF R!TypeOK, R!Training, R!NumbersGrow
    <3>4. R!NewOrLate(v7)' /\ R!NewOrLate(v8)'
      BY <3>1 DEF R!NewOrLate
    <3>5. QED
      BY <3>2, <3>3, <3>4
  <2>3. QED
    BY <2>1, <2>2 DEF R!TrainingInv
<1>2. ASSUME NEW t \in R!Trainers, R!Copy(t) PROVE R!TrainingInv'
  <2> USE <1>2 DEF R!Copy
  <2>1. R!TypeOK'
    <3>1. PICK a \in v4[t].todo :
             /\ v1' = [v1 EXCEPT ![a] = v4[t].number]
             /\ v4' = [v4 EXCEPT ![t].todo = v4[t].todo \ {a},
                                 ![t].pc = IF v4[t].todo = {a} THEN "load" ELSE "copy"]
             /\ UNCHANGED <<v2, v3, v5, v7, v8, v9, v10>>
      OBVIOUS
    <3>2. a \in Artifacts /\ v4[t] \in R!Training
      BY DEF R!TrainingInv, R!TypeOK, R!Training
    <3>3. v1' \in [Artifacts -> Nat]
      BY <3>1, <3>2 DEF R!TrainingInv, R!TypeOK, R!Training
    <3>4. [v4[t] EXCEPT !.todo = v4[t].todo \ {a},
                        !.pc = IF v4[t].todo = {a} THEN "load" ELSE "copy"] \in R!Training
      BY <3>2 DEF R!Training
    <3>5. v4' \in [R!Trainers -> R!Training]
      BY <3>1, <3>4 DEF R!TrainingInv, R!TypeOK
    <3>6. QED
      BY <3>1, <3>3, <3>5 DEF R!TrainingInv, R!TypeOK
  <2>2. ASSUME ~v10' PROVE R!OneTraining' /\ R!NumbersGrow' /\ R!NewOrLate(v7)' /\ R!NewOrLate(v8)'
    <3>1. R!TypeOK /\ R!OneTraining /\ R!NumbersGrow /\ R!NewOrLate(v7) /\ R!NewOrLate(v8)
      BY <2>2 DEF R!TrainingInv
    <3>2. R!OneTraining'
      <4>1. PICK a \in v4[t].todo :
               /\ v1' = [v1 EXCEPT ![a] = v4[t].number]
               /\ v4' = [v4 EXCEPT ![t].todo = v4[t].todo \ {a},
                                   ![t].pc = IF v4[t].todo = {a} THEN "load" ELSE "copy"]
        OBVIOUS
      <4>2. a \in Artifacts /\ v4[t] \in R!Training
        BY <3>1 DEF R!TypeOK, R!Training
      <4>3. /\ v4'[t].todo = v4[t].todo \ {a} /\ v4'[t].number = v4[t].number
            /\ v4'[t].pc = IF v4[t].todo = {a} THEN "load" ELSE "copy"
        BY <3>1, <4>1, <4>2 DEF R!TypeOK, R!Training
      <4>4. \A u \in R!Trainers \ {t} : v4'[u] = v4[u] /\ v4[u].pc = "rest"
        BY <3>1, <4>1 DEF R!TypeOK, R!OneTraining
      <4>5. \A b \in Artifacts : v1'[b] = IF b \in v4'[t].todo THEN v1[b] ELSE v4[t].number
        BY <3>1, <4>1, <4>2, <4>3 DEF R!TypeOK, R!OneTraining
      <4>6. \A b \in Artifacts : v2[b] = v3
        BY <3>1, <4>4 DEF R!OneTraining
      <4>7. ~R!AtRest' /\ \A x, u \in R!Trainers : v4'[x].pc # "rest" /\ v4'[u].pc # "rest" => x = u
        <5>1. v4'[t].pc # "rest"
          BY <4>3
        <5>2. \A x \in R!Trainers : v4'[x].pc # "rest" => x = t
          BY <4>4
        <5>3. QED
          BY <5>1, <5>2, Zenon DEF R!AtRest
      <4>8. ASSUME NEW u \in R!Trainers, NEW b \in Artifacts
            PROVE  /\ v4'[u].pc = "copy" =>
                         IF b \in v4'[u].todo THEN \A c \in v4'[u].todo : v1'[b] = v1'[c]
                                              ELSE v1'[b] = v4'[u].number
                   /\ v4'[u].pc \in {"load", "swap"} => v1'[b] = v4'[u].number
                   /\ v4'[u].pc = "swap" => v4'[u].got[b] = v4'[u].number
                   /\ v4'[u].pc = "swap" /\ b \notin v4'[u].todo => v2'[b] = v4'[u].number
        BY <3>1, <4>3, <4>4, <4>5 DEF R!OneTraining, R!TypeOK
      <4>9. QED
        BY <4>7, <4>8, <4>6 DEF R!OneTraining
    <3>3. R!NumbersGrow'
      BY <2>2, <3>1 DEF R!TypeOK, R!Training, R!OneTraining, R!NumbersGrow
    <3>4. R!NewOrLate(v7)' /\ R!NewOrLate(v8)'
      BY <3>1 DEF R!NewOrLate
    <3>5. QED
      BY <3>2, <3>3, <3>4
  <2>3. QED
    BY <2>1, <2>2 DEF R!TrainingInv
<1>3. ASSUME NEW t \in R!Trainers, R!Load(t) PROVE R!TrainingInv'
  <2> USE <1>3 DEF R!Load
  <2>1. R!TypeOK'
    <3>1. v1 \in [Artifacts -> Nat] /\ v4[t] \in R!Training
      BY DEF R!TrainingInv, R!TypeOK
    <3>2. [v4[t] EXCEPT !.pc = "swap", !.got = v1, !.todo = Artifacts] \in R!Training
      BY <3>1 DEF R!Training
    <3>3. v4' \in [R!Trainers -> R!Training]
      BY <3>2 DEF R!TrainingInv, R!TypeOK
    <3>4. QED
      BY <3>3 DEF R!TrainingInv, R!TypeOK
  <2>2. ASSUME ~v10' PROVE R!OneTraining' /\ R!NumbersGrow' /\ R!NewOrLate(v7)' /\ R!NewOrLate(v8)'
    <3>1. R!TypeOK /\ R!OneTraining /\ R!NumbersGrow /\ R!NewOrLate(v7) /\ R!NewOrLate(v8)
      BY <2>2 DEF R!TrainingInv
    <3>2. R!OneTraining'
      <4>1. v4'[t].pc = "swap" /\ v4'[t].got = v1 /\ v4'[t].todo = Artifacts /\ v4'[t].number = v4[t].number
        BY <3>1 DEF R!TypeOK, R!Training
      <4>2. \A u \in R!Trainers \ {t} : v4'[u] = v4[u] /\ v4[u].pc = "rest"
        BY <3>1 DEF R!TypeOK, R!OneTraining
      <4>3. \A b \in Artifacts : v1[b] = v4[t].number /\ v2[b] = v3
        BY <3>1, <4>2 DEF R!OneTraining
      <4>4. ~R!AtRest' /\ \A x, u \in R!Trainers : v4'[x].pc # "rest" /\ v4'[u].pc # "rest" => x = u
        <5>1. v4'[t].pc # "rest"
          BY <4>1
        <5>2. \A x \in R!Trainers : v4'[x].pc # "rest" => x = t
          BY <4>2
        <5>3. QED
          BY <5>1, <5>2, Zenon DEF R!AtRest
      <4>5. ASSUME NEW u \in R!Trainers, NEW b \in Artifacts
            PROVE  /\ v4'[u].pc = "copy" =>
                         IF b \in v4'[u].todo THEN \A c \in v4'[u].todo : v1'[b] = v1'[c]
                                              ELSE v1'[b] = v4'[u].number
                   /\ v4'[u].pc \in {"load", "swap"} => v1'[b] = v4'[u].number
                   /\ v4'[u].pc = "swap" => v4'[u].got[b] = v4'[u].number
                   /\ v4'[u].pc = "swap" /\ b \notin v4'[u].todo => v2'[b] = v4'[u].number
        BY <3>1, <4>1, <4>2, <4>3
      <4>6. QED
        BY <4>4, <4>5, <4>3 DEF R!OneTraining
    <3>3. R!NumbersGrow'
      BY <2>2, <3>1 DEF R!TypeOK, R!NumbersGrow
    <3>4. R!NewOrLate(v7)' /\ R!NewOrLate(v8)'
      BY <3>1 DEF R!NewOrLate
    <3>5. QED
      BY <3>2, <3>3, <3>4
  <2>3. QED
    BY <2>1, <2>2 DEF R!TrainingInv
<1>4. ASSUME NEW t \in R!Trainers, R!SwapOne(t) PROVE R!TrainingInv'
  <2> USE <1>4 DEF R!SwapOne
  <2>1. R!TypeOK'
    BY DEF R!TrainingInv, R!TypeOK, R!Training
  <2>2. ASSUME ~v10' PROVE R!OneTraining' /\ R!NumbersGrow' /\ R!NewOrLate(v7)' /\ R!NewOrLate(v8)'
    <3>1. R!TypeOK /\ R!OneTraining /\ R!NumbersGrow /\ R!NewOrLate(v7) /\ R!NewOrLate(v8)
      BY <2>2 DEF R!TrainingInv
    <3>2. R!OneTraining'
      BY <2>2, <3>1 DEF R!TypeOK, R!OneTraining
    <3>3. R!NumbersGrow'
      BY <2>2, <3>1 DEF R!OneTraining, R!NumbersGrow
    <3>4. R!NewOrLate(v7)' /\ R!NewOrLate(v8)'
      BY <3>1 DEF R!NewOrLate
    <3>5. QED
      BY <3>2, <3>3, <3>4
  <2>3. QED
    BY <2>1, <2>2 DEF R!TrainingInv
<1>5. ASSUME NEW t \in R!Trainers, R!SetLastTrained(t) PROVE R!TrainingInv'
  <2> USE <1>5 DEF R!SetLastTrained, R!Finish
  <2>1. R!TypeOK'
    BY DEF R!TrainingInv, R!TypeOK, R!Training, R!Resting, R!NoFiles
  <2>2. ASSUME ~v10' PROVE R!OneTraining' /\ R!NumbersGrow' /\ R!NewOrLate(v7)' /\ R!NewOrLate(v8)'
    <3>1. R!TypeOK /\ R!OneTraining /\ R!NumbersGrow /\ R!NewOrLate(v7) /\ R!NewOrLate(v8)
      BY <2>2 DEF R!TrainingInv
    <3>2. R!OneTraining'
      BY <2>2, <3>1 DEF R!OneTraining, R!Resting
    <3>3. R!NumbersGrow'
      BY <2>2, <3>1 DEF R!TypeOK, R!OneTraining, R!NumbersGrow, R!Resting
    <3>4. R!NewOrLate(v7)' /\ R!NewOrLate(v8)'
      BY <3>1 DEF R!NewOrLate
    <3>5. QED
      BY <3>2, <3>3, <3>4
  <2>3. QED
    BY <2>1, <2>2 DEF R!TrainingInv
<1>6. ASSUME NEW t \in R!Trainers, R!FailToLoad(t) PROVE R!TrainingInv'
  <2> USE <1>6 DEF R!FailToLoad, R!Finish
  <2>1. R!TypeOK'
    BY DEF R!TrainingInv, R!TypeOK, R!Training, R!Resting, R!NoFiles
  <2>2. ASSUME ~v10' PROVE R!OneTraining' /\ R!NumbersGrow' /\ R!NewOrLate(v7)' /\ R!NewOrLate(v8)'
    <3>1. R!TypeOK /\ R!OneTraining /\ R!NumbersGrow /\ R!NewOrLate(v7) /\ R!NewOrLate(v8)
      BY <2>2 DEF R!TrainingInv
    <3>2. R!OneTraining'
      BY <2>2, <3>1 DEF R!OneTraining, R!Resting
    <3>3. R!NumbersGrow'
      BY <2>2, <3>1 DEF R!NumbersGrow, R!Resting
    <3>4. R!NewOrLate(v7)' /\ R!NewOrLate(v8)'
      BY <3>1 DEF R!NewOrLate
    <3>5. QED
      BY <3>2, <3>3, <3>4
  <2>3. QED
    BY <2>1, <2>2 DEF R!TrainingInv
<1>7. ASSUME NEW t \in R!Trainers, R!FailToTrain(t) PROVE R!TrainingInv'
  <2> USE <1>7 DEF R!FailToTrain
  <2>1. R!TypeOK'
    BY DEF R!TrainingInv, R!TypeOK, R!Training, R!Resting, R!NoFiles
  <2>2. ASSUME ~v10' PROVE R!OneTraining' /\ R!NumbersGrow' /\ R!NewOrLate(v7)' /\ R!NewOrLate(v8)'
    <3>1. R!TypeOK /\ R!OneTraining /\ R!NumbersGrow /\ R!NewOrLate(v7) /\ R!NewOrLate(v8)
      BY <2>2 DEF R!TrainingInv
    <3>2. R!OneTraining'
      <4>1. v4[t].todo = Artifacts
        BY <2>2
      <4>2. \A a \in Artifacts : v1[a] = v1[Model]
        BY <3>1, <4>1 DEF R!OneTraining
      <4>3. v4'[t] = R!Resting /\ \A u \in R!Trainers \ {t} : v4'[u] = v4[u] /\ v4[u].pc = "rest"
        BY <3>1 DEF R!TypeOK, R!OneTraining
      <4>4. \A a \in Artifacts : v2[a] = v3
        BY <3>1, <4>3 DEF R!OneTraining
      <4>5. QED
        BY <4>2, <4>3, <4>4 DEF R!OneTraining, R!Resting
    <3>3. R!NumbersGrow'
      BY <2>2, <3>1 DEF R!NumbersGrow, R!Resting
    <3>4. R!NewOrLate(v7)' /\ R!NewOrLate(v8)'
      BY <3>1 DEF R!NewOrLate
    <3>5. QED
      BY <3>2, <3>3, <3>4
  <2>3. QED
    BY <2>1, <2>2 DEF R!TrainingInv
<1>8. ASSUME R!Restart PROVE R!TrainingInv'
  <2> USE <1>8 DEF R!Restart
  <2>1. R!TypeOK'
    BY DEF R!TrainingInv, R!TypeOK, R!Training, R!Resting, R!NoFiles
  <2>2. ASSUME ~v10' PROVE R!OneTraining' /\ R!NumbersGrow' /\ R!NewOrLate(v7)' /\ R!NewOrLate(v8)'
    <3>1. R!TypeOK /\ R!OneTraining /\ R!NumbersGrow /\ R!NewOrLate(v7) /\ R!NewOrLate(v8)
      BY <2>2 DEF R!TrainingInv
    <3>2. \A a \in Artifacts : v1[a] = v1[Model]
      <4>1. CASE R!AtRest
        BY <3>1, <4>1 DEF R!OneTraining
      <4>2. CASE ~R!AtRest
        <5>1. PICK t \in R!Trainers : v4[t].pc # "rest"
          BY <4>2 DEF R!AtRest
        <5>2. v4[t].pc = "copy" => v4[t].todo = Artifacts
          BY <2>2
        <5>3. v4[t].pc \in {"copy", "load", "swap"}
          BY <3>1, <5>1 DEF R!TypeOK, R!Training
        <5>4. QED
          BY <3>1, <5>2, <5>3 DEF R!OneTraining
      <4>3. QED
        BY <4>1, <4>2
    <3>3. \A t \in R!Trainers : v4'[t].pc = "rest"
      BY DEF R!Resting
    <3>4. v3' = v1[Model] /\ \A a \in Artifacts : v2'[a] = v1[a]
      BY <3>1, <3>2 DEF R!NoFiles, R!TypeOK
    <3>5. R!OneTraining'
      BY <3>2, <3>3, <3>4 DEF R!OneTraining, R!AtRest
    <3>6. R!NumbersGrow'
      <4>1. v9 <= v3 /\ v3 <= v1[Model] /\ v9 \in Nat /\ v3 \in Nat /\ v1[Model] \in Nat
        BY <3>1 DEF R!NumbersGrow, R!TypeOK
      <4>2. \A a \in Artifacts : v2'[a] = v1[Model] /\ v1[a] <= v5
        BY <3>1, <3>2, <3>4 DEF R!NumbersGrow
      <4>3. QED
        BY <3>2, <3>3, <3>4, <4>1, <4>2 DEF R!NumbersGrow
    <3>7. R!NewOrLate(v7)' /\ R!NewOrLate(v8)'
      BY <3>1 DEF R!NewOrLate
    <3>8. QED
      BY <3>5, <3>6, <3>7
  <2>3. QED
    BY <2>1, <2>2 DEF R!TrainingInv
<1>9. ASSUME R!DeleteKeys PROVE R!TrainingInv'
  <2> USE <1>9 DEF R!DeleteKeys
  <2>1. R!TypeOK'
    BY DEF R!TrainingInv, R!TypeOK, R!Data, R!NoAnswer
  <2>2. ASSUME ~v10' PROVE R!OneTraining' /\ R!NumbersGrow' /\ R!NewOrLate(v7)' /\ R!NewOrLate(v8)'
    <3>1. R!TypeOK /\ R!OneTraining /\ R!NumbersGrow /\ R!NewOrLate(v7) /\ R!NewOrLate(v8)
      BY <2>2 DEF R!TrainingInv
    <3>2. R!OneTraining'
      BY <2>2, <3>1 DEF R!OneTraining, R!AtRest
    <3>3. R!NumbersGrow'
      BY <2>2, <3>1 DEF R!TypeOK, R!NumbersGrow
    <3>4. R!NewOrLate(v7)' /\ R!NewOrLate(v8)'
      BY <3>1 DEF R!NewOrLate, R!TypeOK, R!Data, R!NoAnswer
    <3>5. QED
      BY <3>2, <3>3, <3>4
  <2>3. QED
    BY <2>1, <2>2 DEF R!TrainingInv
<1>10. ASSUME R!StopWorker PROVE R!TrainingInv'
  <2> USE <1>10 DEF R!StopWorker
  <2>1. R!TypeOK'
    BY DEF R!TrainingInv, R!TypeOK, R!Data, R!NoAnswer
  <2>2. ASSUME ~v10' PROVE R!OneTraining' /\ R!NumbersGrow' /\ R!NewOrLate(v7)' /\ R!NewOrLate(v8)'
    <3>1. R!TypeOK /\ R!OneTraining /\ R!NumbersGrow /\ R!NewOrLate(v7) /\ R!NewOrLate(v8)
      BY <2>2 DEF R!TrainingInv
    <3>2. R!OneTraining'
      BY <2>2, <3>1 DEF R!OneTraining, R!AtRest
    <3>3. R!NumbersGrow'
      BY <2>2, <3>1 DEF R!NumbersGrow
    <3>4. R!NewOrLate(v7)' /\ R!NewOrLate(v8)'
      BY <3>1 DEF R!NewOrLate, R!NoAnswer
    <3>5. QED
      BY <3>2, <3>3, <3>4
  <2>3. QED
    BY <2>1, <2>2 DEF R!TrainingInv
<1>11. ASSUME R!Predict PROVE R!TrainingInv'
  <2> USE <1>11 DEF R!Predict
  <2>1. R!TypeOK'
    <3>1. R!Range(v2) \in SUBSET Nat
      BY DEF R!TrainingInv, R!TypeOK, R!Range
    <3>2. v7' \in R!Data
      BY <3>1 DEF R!Data
    <3>3. QED
      BY <3>2 DEF R!TrainingInv, R!TypeOK
  <2>2. ASSUME ~v10' PROVE R!OneTraining' /\ R!NumbersGrow' /\ R!NewOrLate(v7)' /\ R!NewOrLate(v8)'
    <3>1. R!TypeOK /\ R!OneTraining /\ R!NumbersGrow /\ R!NewOrLate(v7) /\ R!NewOrLate(v8)
      BY <2>2 DEF R!TrainingInv
    <3>2. R!OneTraining'
      BY <2>2, <3>1 DEF R!OneTraining, R!AtRest
    <3>3. R!NumbersGrow'
      BY <2>2, <3>1 DEF R!NumbersGrow
    <3>4. R!NewOrLate(v7)' /\ R!NewOrLate(v8)'
      <4>1. \A a \in Artifacts : v2[a] >= v9
        BY <3>1 DEF R!NumbersGrow, R!TypeOK
      <4>2. \A m \in R!Range(v2) : m >= v9
        BY <3>1, <4>1 DEF R!Range, R!TypeOK
      <4>3. QED
        BY <3>1, <4>2 DEF R!NewOrLate
    <3>5. QED
      BY <3>2, <3>3, <3>4
  <2>3. QED
    BY <2>1, <2>2 DEF R!TrainingInv
<1>12. ASSUME R!Fill PROVE R!TrainingInv'
  <2> USE <1>12 DEF R!Fill
  <2>1. R!TypeOK'
    BY DEF R!TrainingInv, R!TypeOK, R!Data, R!NoAnswer
  <2>2. ASSUME ~v10' PROVE R!OneTraining' /\ R!NumbersGrow' /\ R!NewOrLate(v7)' /\ R!NewOrLate(v8)'
    <3>1. R!TypeOK /\ R!OneTraining /\ R!NumbersGrow /\ R!NewOrLate(v7) /\ R!NewOrLate(v8)
      BY <2>2 DEF R!TrainingInv
    <3>2. R!OneTraining'
      BY <2>2, <3>1 DEF R!OneTraining, R!AtRest
    <3>3. R!NumbersGrow'
      BY <2>2, <3>1 DEF R!NumbersGrow
    <3>4. R!NewOrLate(v7)' /\ R!NewOrLate(v8)'
      BY <3>1 DEF R!NewOrLate, R!NoAnswer
    <3>5. QED
      BY <3>2, <3>3, <3>4
  <2>3. QED
    BY <2>1, <2>2 DEF R!TrainingInv
<1>13. ASSUME R!Expire PROVE R!TrainingInv'
  <2> USE <1>13 DEF R!Expire
  <2>1. R!TypeOK'
    BY DEF R!TrainingInv, R!TypeOK, R!Data, R!NoAnswer
  <2>2. ASSUME ~v10' PROVE R!OneTraining' /\ R!NumbersGrow' /\ R!NewOrLate(v7)' /\ R!NewOrLate(v8)'
    <3>1. R!TypeOK /\ R!OneTraining /\ R!NumbersGrow /\ R!NewOrLate(v7) /\ R!NewOrLate(v8)
      BY <2>2 DEF R!TrainingInv
    <3>2. R!OneTraining'
      BY <2>2, <3>1 DEF R!OneTraining, R!AtRest
    <3>3. R!NumbersGrow'
      BY <2>2, <3>1 DEF R!NumbersGrow
    <3>4. R!NewOrLate(v7)' /\ R!NewOrLate(v8)'
      BY <3>1 DEF R!NewOrLate, R!NoAnswer
    <3>5. QED
      BY <3>2, <3>3, <3>4
  <2>3. QED
    BY <2>1, <2>2 DEF R!TrainingInv
<1>14. QED
  BY <1>0, <1>1, <1>2, <1>3, <1>4, <1>5, <1>6, <1>7, <1>8, <1>9, <1>10, <1>11, <1>12, <1>13
     DEF R!Next, R!vars, R!AddJob, R!TakeJob, R!Verify, R!FindKeys, R!FailJob

\* Unless trainings overlap or a copy breaks off, requests are answered from one
\* training, and a cached answer is as new as what the last job found, or late
\* (recommendation.service.ts:46-70).
THEOREM AnswersCorrect == Spec => []AnswersAreCurrent
<1> DEFINE Inv == part = "recommender" => R!TrainingInv
<1>1. Init => Inv
  BY TrainingInit DEF Init
<1>2. Inv /\ [Next]_vars => Inv'
  <2> SUFFICES ASSUME Inv, [Next]_vars, part' = "recommender" PROVE R!TrainingInv'
    OBVIOUS
  <2>1. R!TrainingInv /\ [R!Next]_R!vars
    BY DEF Next, vars, R!vars
  <2>2. QED
    BY <2>1, TrainingNext
<1>3. Inv => AnswersAreCurrent
  <2> SUFFICES ASSUME R!TrainingInv, ~v10
               PROVE  /\ R!AtRest => R!Range(v2) = {v3}
                      /\ v8.late \/ \A n \in v8.of : n >= v9
    BY DEF AnswersAreCurrent, R!AnswersAreCurrent, R!AtRest
  <2>1. R!OneTraining /\ R!NewOrLate(v8) /\ DOMAIN v2 = Artifacts
    BY DEF R!TrainingInv, R!TypeOK
  <2>2. R!AtRest => \A a \in Artifacts : v2[a] = v3
    BY <2>1 DEF R!OneTraining, R!AtRest
  <2>3. QED
    BY <2>1, <2>2, ModelIsAnArtifact DEF R!NewOrLate, R!Range
<1>4. QED
  <2> HIDE DEF Inv
  <2> QED
    BY <1>1, <1>2, <1>3, PTL DEF Spec

-----------------------------------------------------------------------------
(* Hooks, Pages (modules Hooks and Pages): what the pages show and send.   *)

\* The hooks of the pages.
Queries ==
    {useEvents, useMyOrganizedEvents, useEvent, useEventTypes, useVenues, useEventOrganizers,
     useMyOrganizerInvitations, useUserNames, useGuestInvites, useRecommendations,
     useSimilarEvents, useRegistrationStatus, useMyRegistrations, useEventRegistrations,
     useAttendance, useAttendanceStats, useGlobalAttendanceStats, useEventsParticipation,
     useRecentGlobalAttendance, useBookmarks, useBookmarkStatus, useTags, useCategories,
     useDepartments, useUsers, useRoles, useMyInterests, useMyCategoryPreferences,
     useUserPreferences, useFeedback, useFeedbackForm, useAllFeedbackResponses,
     useMyEventsFeedbackResponses, useFeedbackTemplates, useTickets, useMyTickets,
     useTicketDetails, usePublicTicket, useNotifications, useUnreadCount, useGraduationGuests,
     useDashboardStats, useRecentRegistrations, useArchive, useAdminTrends,
     useCategoryAnalytics, useDepartmentAnalytics, useTopEvents, useTopOrganizer, useMlHealth}

Buttons ==
    {useCreateEvent, useUpdateEvent, useDeleteEvent, useSubmitEvent, useApproveEvent,
     useRejectEvent, useGoLiveEvent, useArchiveEvent, useInviteOrganizer, useRemoveOrganizer,
     useRespondToOrganizerInvitation, useInviteGuests, useRegistration, useCancelRegistration,
     useApproveRegistration, useRejectRegistration, useCheckIn, useManualCheckIn,
     useToggleBookmark, useCreateTag, useDeleteTag, useCreateCategory, useDeleteCategory,
     useCreateEventType, useDeleteEventType, useCreateVenue, useCreateDepartment,
     useUpdateMyProfile, useUpdateMyInterests, useUpdateMyCategoryPreferences,
     useSetUserPreferences, useSubmitFeedback, useCreateTemplate, useUpdateTemplate,
     useDeleteTemplate, useAttachTemplate, useCreateTicket, useReplyTicket, useUpdateStatus,
     usePublicReply, useMarkAsRead, useMarkAllAsRead, useDeleteNotification, addGuest,
     uploadGuests, resendPass, handleRefresh}

\* A page, or a component, has no other queries and mutations.
MadeOfHooks(p) == p.shows \subseteq Queries /\ p.sends \subseteq Buttons

\* A component shows what its queries return and sends what its buttons do; several
\* of them show and send what each does.
LEMMA PartOfHooks ==
    ASSUME NEW shows \in SUBSET Queries, NEW sends \in SUBSET Buttons
    PROVE  MadeOfHooks(Part(shows, sends))
BY DEF Part, MadeOfHooks

LEMMA TogetherOfHooks ==
    ASSUME NEW parts, \A p \in parts : MadeOfHooks(p)
    PROVE  MadeOfHooks(Together(parts))
BY DEF Together, MadeOfHooks

\* The frame around every page, then the pages of each role's menus.
LEMMA FrameOfHooks ==
    ASSUME NEW role
    PROVE  MadeOfHooks(SupportFAB(role)) /\ MadeOfHooks(DashboardLayout)
<1>1. MadeOfHooks(NotificationPopover) /\ MadeOfHooks(PendingInvitationsModal)
        /\ MadeOfHooks(MyTickets) /\ MadeOfHooks(Part({}, {useCreateTicket}))
        /\ MadeOfHooks(Part({}, {}))
  BY PartOfHooks DEF NotificationPopover, PendingInvitationsModal, MyTickets, Queries, Buttons
<1>2. QED
  BY <1>1, TogetherOfHooks DEF SupportFAB, DashboardLayout, Header

LEMMA ManagerPagesOfHooks ==
    ASSUME NEW role
    PROVE  \A p \in ManagerPages(role) : MadeOfHooks(p)
<1>1. MadeOfHooks(DashboardPage(role))
  <2>1. \A p \in {RegistrationTrendChart, CategoryDistributionChart, DepartmentActivityChart,
                  TopEventsChart, RecommendationStatusCard, DashboardShortcuts(role),
                  Part({useRecentRegistrations, useDashboardStats}, {handleRefresh})} :
            MadeOfHooks(p)
    BY PartOfHooks
    DEF RegistrationTrendChart, CategoryDistributionChart, DepartmentActivityChart,
        TopEventsChart, RecommendationStatusCard, DashboardShortcuts, Queries, Buttons
  <2>2. QED
    BY <2>1, TogetherOfHooks DEF DashboardPage
<1>2. MadeOfHooks(EventsList(role)) /\ MadeOfHooks(EventFormModal)
  <2>1. \A p \in {getEventsColumns(role), EventFormModal, ArchiveConfirmation,
                  Part({useVenues, useUserNames,
                        IF role = "organizer" THEN useMyOrganizedEvents ELSE useEvents}, {})} :
            MadeOfHooks(p)
    BY PartOfHooks DEF getEventsColumns, EventFormModal, ArchiveConfirmation, Queries, Buttons
  <2>2. QED
    BY <2>1, TogetherOfHooks DEF EventsList
<1>3. MadeOfHooks(EventCreateWizard)
  <2>1. \A p \in {Part({useEventTypes}, {useCreateEvent}), BasicInfoStep, CategorizationStep,
                  AdvancedConfigStep, ReviewStep} : MadeOfHooks(p)
    BY PartOfHooks
    DEF BasicInfoStep, CategorizationStep, AdvancedConfigStep, ReviewStep, Queries, Buttons
  <2>2. QED
    BY <2>1, TogetherOfHooks DEF EventCreateWizard
<1>4. MadeOfHooks(EventDetail) /\ MadeOfHooks(AttendeeScanner)
  <2>1. \A p \in {AttendanceStats, AttendanceTable, AttendeeScanner, AddGuestForm, CsvUpload,
                  GuestRow, Part({useGraduationGuests}, {}), InviteOrganizerDialog,
                  Part({useEventOrganizers}, {useRemoveOrganizer}), GuestInvitationCard,
                  Part({useEvent, useRegistrationStatus}, {useUpdateEvent})} : MadeOfHooks(p)
    BY PartOfHooks
    DEF AttendanceStats, AttendanceTable, AttendeeScanner, AddGuestForm, CsvUpload, GuestRow,
        InviteOrganizerDialog, GuestInvitationCard, Queries, Buttons
  <2>2. \A p \in {AttendanceHub, GraduationGuestsTab, EventOrganizers} : MadeOfHooks(p)
    BY <2>1, TogetherOfHooks DEF AttendanceHub, GraduationGuestsTab, EventOrganizers
  <2>3. MadeOfHooks(EventDetailTabs)
    BY <2>2, TogetherOfHooks DEF EventDetailTabs
  <2>4. QED
    BY <1>2, <2>1, <2>3, TogetherOfHooks DEF EventDetail
<1>5. MadeOfHooks(EventAttendeesPage)
  <2>1. MadeOfHooks(Part({useEventRegistrations, useAttendance},
                         {useApproveRegistration, useRejectRegistration,
                          useCancelRegistration, useManualCheckIn}))
    BY PartOfHooks DEF Queries, Buttons
  <2>2. QED
    BY <1>4, <2>1, TogetherOfHooks DEF EventAttendeesPage
<1>6. MadeOfHooks(ArchivePage) /\ MadeOfHooks(InvitationsPage)
  BY PartOfHooks DEF ArchivePage, InvitationsPage, Queries, Buttons
<1>7. MadeOfHooks(ProfileView)
  <2>1. MadeOfHooks(EditProfileModal) /\ MadeOfHooks(UserInterests)
    BY PartOfHooks DEF EditProfileModal, UserInterests, Queries, Buttons
  <2>2. QED
    BY <2>1, TogetherOfHooks DEF ProfileView
<1>8. QED
  BY <1>1, <1>2, <1>3, <1>4, <1>5, <1>6, <1>7 DEF ManagerPages

LEMMA AdminPagesOfHooks == \A p \in AdminPages : MadeOfHooks(p)
<1>1. \A p \in {UsersPage, GlobalAttendancePage, AdminFeedbackPage, CategoriesPage, TagsPage,
                EventTypesPage} : MadeOfHooks(p)
  BY PartOfHooks
  DEF UsersPage, GlobalAttendancePage, AdminFeedbackPage, CategoriesPage, TagsPage,
      EventTypesPage, Queries, Buttons
<1>2. \A p \in {TicketReplyModal, Part({useTickets}, {}), AddVenueModal, Part({useVenues}, {}),
                AddDepartmentModal, Part({useDepartments}, {})} : MadeOfHooks(p)
  BY PartOfHooks DEF TicketReplyModal, AddVenueModal, AddDepartmentModal, Queries, Buttons
<1>3. \A p \in {SupportPage, VenuesPage, DepartmentsPage} : MadeOfHooks(p)
  BY <1>2, TogetherOfHooks DEF SupportPage, VenuesPage, DepartmentsPage
<1>4. QED
  BY <1>1, <1>3 DEF AdminPages

LEMMA GuestPagesOfHooks ==
    \A p \in GuestPages \cup OrganizerPages \cup PublicPages : MadeOfHooks(p)
<1>1. \A p \in {FeedbackFormPage, SupportTracker, MyEventsFeedbackPage, FeedbackTemplatesPage} :
        MadeOfHooks(p)
  BY PartOfHooks
  DEF FeedbackFormPage, SupportTracker, MyEventsFeedbackPage, FeedbackTemplatesPage, Queries,
      Buttons
<1>2. \A p \in {CategoryPicker, Part({useUserPreferences}, {}), FilterBar, EventFeedCard,
                Part({useEvents, useRecommendations}, {}), Part({useSimilarEvents}, {}),
                Part({useEvent, useRegistrationStatus},
                     {useRegistration, useCancelRegistration}),
                Part({useMyRegistrations, useRecommendations, useMyOrganizerInvitations}, {}),
                Part({useBookmarks, useRecommendations}, {}), Part({useMyRegistrations}, {}),
                EditProfileModal, UserInterests} : MadeOfHooks(p)
  BY PartOfHooks
  DEF CategoryPicker, FilterBar, EventFeedCard, EditProfileModal, UserInterests, Queries, Buttons
<1>3. MadeOfHooks(OnboardingGate) /\ MadeOfHooks(SimilarEventsRail)
  BY <1>2, TogetherOfHooks DEF OnboardingGate, SimilarEventsRail
<1>4. \A p \in {GuestHomePage, PublicEventPage, MyEventsPage, BookmarkedEventsPage,
                PastEventsPage, ProfileView} : MadeOfHooks(p)
  BY <1>2, <1>3, TogetherOfHooks
  DEF GuestHomePage, PublicEventPage, MyEventsPage, BookmarkedEventsPage, PastEventsPage,
      ProfileView
<1>5. QED
  BY <1>1, <1>4 DEF GuestPages, OrganizerPages, PublicPages

\* The pages are made of the hooks.
LEMMA PagesOfHooks ==
    ASSUME NEW role \in DOMAIN Site
    PROVE  \A p \in Site[role] : MadeOfHooks(p)
<1>1. \A p \in PublicPages \cup ManagerPages(role) \cup AdminPages \cup OrganizerPages
                  \cup GuestPages : MadeOfHooks(p)
  BY ManagerPagesOfHooks, AdminPagesOfHooks, GuestPagesOfHooks
<1>2. Site[role] = PagesOf(role) /\ role \in {"admin", "organizer", "guest"}
  BY DEF Site
<1>3. QED
  BY <1>1, <1>2, FrameOfHooks, TogetherOfHooks DEF PagesOf
\* m names every query that tells what it changes, or leaves it out as Missed says.
Known(m) == \A q \in Queries :
    q.facts \cap m.changes # {} /\ q.key \notin m.names => <<m, q.key>> \in Missed

\* Every hook against every query.
LEMMA ButtonsKnown == \A m \in Buttons : Known(m)
<1> USE DEF Known, Query, Mutation, Missed, Seats, Headcounts, EventViews, EventLists,
            TicketKeys, NoticeKeys, Queries
<1> USE DEF useEvents, useMyOrganizedEvents, useEvent, useEventTypes, useVenues,
            useEventOrganizers, useMyOrganizerInvitations, useUserNames, useGuestInvites,
            useRecommendations, useSimilarEvents, useRegistrationStatus, useMyRegistrations,
            useEventRegistrations, useAttendance, useAttendanceStats,
            useGlobalAttendanceStats, useEventsParticipation, useRecentGlobalAttendance,
            useBookmarks, useBookmarkStatus, useTags, useCategories, useDepartments,
            useUsers, useRoles, useMyInterests, useMyCategoryPreferences,
            useUserPreferences, useFeedback, useFeedbackForm, useAllFeedbackResponses,
            useMyEventsFeedbackResponses, useFeedbackTemplates, useTickets, useMyTickets,
            useTicketDetails, usePublicTicket, useNotifications, useUnreadCount,
            useGraduationGuests, useDashboardStats, useRecentRegistrations, useArchive,
            useAdminTrends, useCategoryAnalytics, useDepartmentAnalytics, useTopEvents,
            useTopOrganizer, useMlHealth
<1>1. \A m \in {useCreateEvent, useUpdateEvent, useDeleteEvent} : Known(m)
  BY DEF useCreateEvent, useUpdateEvent, useDeleteEvent
<1>2. \A m \in {useSubmitEvent, useApproveEvent, useRejectEvent, useGoLiveEvent,
                useArchiveEvent} : Known(m)
  BY DEF useSubmitEvent, useApproveEvent, useRejectEvent, useGoLiveEvent, useArchiveEvent
<1>3. \A m \in {useInviteOrganizer, useRemoveOrganizer, useRespondToOrganizerInvitation,
                useInviteGuests} : Known(m)
  BY DEF useInviteOrganizer, useRemoveOrganizer, useRespondToOrganizerInvitation,
         useInviteGuests
<1>4. \A m \in {useRegistration, useCancelRegistration, useApproveRegistration,
                useRejectRegistration} : Known(m)
  BY DEF useRegistration, useCancelRegistration, useApproveRegistration,
         useRejectRegistration
<1>5. \A m \in {useCheckIn, useManualCheckIn, useToggleBookmark} : Known(m)
  BY DEF useCheckIn, useManualCheckIn, useToggleBookmark
<1>6. \A m \in {useCreateTag, useDeleteTag, useCreateCategory, useDeleteCategory,
                useCreateEventType, useDeleteEventType, useCreateVenue, useCreateDepartment}
                : Known(m)
  BY DEF useCreateTag, useDeleteTag, useCreateCategory, useDeleteCategory,
         useCreateEventType, useDeleteEventType, useCreateVenue, useCreateDepartment
<1>7. \A m \in {useUpdateMyProfile, useUpdateMyInterests, useUpdateMyCategoryPreferences,
                useSetUserPreferences} : Known(m)
  BY DEF useUpdateMyProfile, useUpdateMyInterests, useUpdateMyCategoryPreferences,
         useSetUserPreferences
<1>8. \A m \in {useSubmitFeedback, useCreateTemplate, useUpdateTemplate, useDeleteTemplate,
                useAttachTemplate} : Known(m)
  BY DEF useSubmitFeedback, useCreateTemplate, useUpdateTemplate, useDeleteTemplate,
         useAttachTemplate
<1>9. \A m \in {useCreateTicket, useReplyTicket, useUpdateStatus, usePublicReply} : Known(m)
  BY DEF useCreateTicket, useReplyTicket, useUpdateStatus, usePublicReply
<1>10. \A m \in {useMarkAsRead, useMarkAllAsRead, useDeleteNotification, addGuest,
                 uploadGuests, resendPass, handleRefresh} : Known(m)
  BY DEF useMarkAsRead, useMarkAllAsRead, useDeleteNotification, addGuest, uploadGuests,
         resendPass, handleRefresh
<1>11. QED
  <2> HIDE DEF Known
  <2> QED
    BY <1>1, <1>2, <1>3, <1>4, <1>5, <1>6, <1>7, <1>8, <1>9, <1>10 DEF Buttons

\* A hook names the queries that tell what its mutation changes, or leaves them
\* out as Missed says, wherever one user may meet both (features/*/api/).
LEMMA HooksAreKnown ==
    ASSUME NEW role \in DOMAIN Site, NEW p \in Site[role], NEW s \in Site[role],
           NEW q \in p.shows, NEW m \in s.sends,
           q.facts \cap m.changes # {}, q.key \notin m.names
    PROVE  <<m, q.key>> \in Missed
<1>1. q \in Queries /\ m \in Buttons
  BY PagesOfHooks DEF MadeOfHooks
<1>2. QED
  BY <1>1, ButtonsKnown DEF Known

-----------------------------------------------------------------------------
(* Screens (module Screens).                                               *)

LEMMA ScreensInit == W!Init => W!ScreensInv
BY DEF W!Init, W!ScreensInv, W!OfTheRole

\* A query and a mutation one user may meet: the hook names the query, or
\* leaves it out as Missed says.
LEMMA NamedOrMissed ==
    ASSUME W!OfTheRole, NEW q \in W!Shown, NEW m \in W!Sent,
           q.facts \cap m.changes # {}, q.key \notin m.names
    PROVE  <<m, q.key>> \in Missed
<1>1. PICK p \in Site[v1] : q \in p.shows
  BY DEF W!Shown
<1>2. PICK s \in Site[v1] : m \in s.sends
  BY DEF W!Sent
<1>3. QED
  BY <1>1, <1>2, HooksAreKnown DEF W!OfTheRole, Site

LEMMA FreshData == ASSUME NEW q PROVE W!UpToDate(q, W!Fresh)
BY DEF W!UpToDate, W!Fresh

\* The server applies a mutation that is not answered.
LEMMA AppliedData ==
    ASSUME NEW q, NEW d, W!UpToDate(q, d), NEW m \in W!Sent, m \notin v9,
           NEW e, e = [d EXCEPT !.older = @ \cup IF q.facts \cap m.changes = {} THEN {} ELSE {m}]
    PROVE  W!UpToDate(q, e) /\ e.valid = d.valid
<1>1. d \in [valid : BOOLEAN, older : SUBSET W!Sent, late : BOOLEAN]
  BY DEF W!UpToDate
<1>2. /\ e \in [valid : BOOLEAN, older : SUBSET W!Sent, late : BOOLEAN]
      /\ e.valid = d.valid /\ e.late = d.late
      /\ e.older = d.older \cup IF q.facts \cap m.changes = {} THEN {} ELSE {m}
  BY <1>1
<1>3. QED
  BY <1>2 DEF W!UpToDate

\* The data of a query are behind a mutation that does not name it: the hook
\* leaves it out.
LEMMA BehindOrMissed ==
    ASSUME W!OfTheRole, NEW q \in W!Shown, NEW d, W!UpToDate(q, d),
           NEW m \in W!Sent, m \in d.older, q.key \notin m.names
    PROVE  <<m, q.key>> \in Missed
BY NamedOrMissed DEF W!UpToDate

\* The records invalidateQueries leaves: of the cache, and on their way.
LEMMA Invalidated ==
    ASSUME NEW S, NEW d \in [valid : BOOLEAN, older : S, late : BOOLEAN], NEW named \in BOOLEAN,
           NEW e, e = [d EXCEPT !.valid = @ /\ ~named]
    PROVE  /\ e \in [valid : BOOLEAN, older : S, late : BOOLEAN]
           /\ e.older = d.older /\ e.late = d.late
           /\ e.valid => d.valid
           /\ named => ~e.valid
OBVIOUS

LEMMA Passed ==
    ASSUME NEW S, NEW d \in [valid : BOOLEAN, older : S, late : BOOLEAN], NEW named \in BOOLEAN,
           NEW e, e = [d EXCEPT !.late = @ \/ named]
    PROVE  /\ e \in [valid : BOOLEAN, older : S, late : BOOLEAN]
           /\ e.older = d.older /\ e.valid = d.valid
           /\ d.late => e.late
           /\ named => e.late
OBVIOUS

LEMMA PageIsOfTheRole == W!OfTheRole => v2.shows \subseteq W!Shown /\ v2.sends \subseteq W!Sent
BY DEF W!OfTheRole, W!Shown, W!Sent, W!EmptyPage

\* One step per action.
LEMMA ScreensNext == W!ScreensInv /\ [W!Next]_W!vars => W!ScreensInv'
<1> SUFFICES ASSUME W!ScreensInv, [W!Next]_W!vars PROVE W!ScreensInv'
  OBVIOUS
<1>a. W!OfTheRole /\ v2.shows \subseteq W!Shown /\ v2.sends \subseteq W!Sent
  BY PageIsOfTheRole DEF W!ScreensInv
<1>0. ASSUME UNCHANGED W!vars PROVE W!ScreensInv'
  BY <1>0 DEF W!vars, W!ScreensInv, W!OfTheRole, W!UpToDate, W!Fetching, W!Shown, W!Sent
<1>1. ASSUME NEW p \in Site[v1], W!Open(p) PROVE W!ScreensInv'
  <2> USE <1>a, <1>1 DEF W!Open, W!ScreensInv
  <2>0. (v8 # W!Idle => v8.what \notin v9)'
    BY DEF W!Idle
  <2>1. W!OfTheRole'
    BY DEF W!OfTheRole, W!Shown, W!Sent
  <2>2. ASSUME NEW q \in DOMAIN v4'
        PROVE  W!UpToDate(q, v4[q])' /\ (q \in v2.shows /\ ~v4[q].valid => q \in W!Fetching \cup v7)'
    <3>1. W!UpToDate(q, v4[q])'
      BY <2>2 DEF W!UpToDate, W!Sent
    <3>2. (q \in v2.shows /\ ~v4[q].valid => q \in W!Fetching \cup v7)'
      BY <2>2 DEF W!Fetching, W!UpToDate
    <3>3. QED
      BY <3>1, <3>2
  <2>3. ASSUME NEW q \in DOMAIN v6' PROVE W!UpToDate(q, v6[q])' /\ v6'[q].valid
    BY <2>3 DEF W!UpToDate, W!Sent
  <2>4. QED
    BY <2>0, <2>1, <2>2, <2>3
<1>2. ASSUME NEW m \in v2.sends, W!Click(m) PROVE W!ScreensInv'
  <2> USE <1>a, <1>2 DEF W!Click, W!ScreensInv
  <2>0. (v8 # W!Idle => v8.what \notin v9)'
    BY DEF W!Idle
  <2>1. W!OfTheRole'
    BY DEF W!OfTheRole, W!Shown, W!Sent
  <2>2. ASSUME NEW q \in DOMAIN v4'
        PROVE  W!UpToDate(q, v4[q])' /\ (q \in v2.shows /\ ~v4[q].valid => q \in W!Fetching \cup v7)'
    <3>1. W!UpToDate(q, v4[q])'
      BY <2>2 DEF W!UpToDate, W!Sent
    <3>2. (q \in v2.shows /\ ~v4[q].valid => q \in W!Fetching \cup v7)'
      BY <2>2 DEF W!Fetching, W!UpToDate
    <3>3. QED
      BY <3>1, <3>2
  <2>3. ASSUME NEW q \in DOMAIN v6' PROVE W!UpToDate(q, v6[q])' /\ v6'[q].valid
    BY <2>3 DEF W!UpToDate, W!Sent
  <2>4. QED
    BY <2>0, <2>1, <2>2, <2>3
<1>3. ASSUME W!Read PROVE W!ScreensInv'
  <2> USE <1>a, <1>3 DEF W!Read, W!ScreensInv
  <2>0. (v8 # W!Idle => v8.what \notin v9)'
    BY DEF W!Idle
  <2>1. W!OfTheRole'
    BY DEF W!OfTheRole, W!Shown, W!Sent, W!Fetching
  <2>2. ASSUME NEW q \in DOMAIN v4'
        PROVE  W!UpToDate(q, v4[q])' /\ (q \in v2.shows /\ ~v4[q].valid => q \in W!Fetching \cup v7)'
    <3>1. W!UpToDate(q, v4[q])'
      BY <2>2 DEF W!UpToDate, W!Sent
    <3>2. (q \in v2.shows /\ ~v4[q].valid => q \in W!Fetching \cup v7)'
      BY <2>2 DEF W!Fetching, W!UpToDate
    <3>3. QED
      BY <3>1, <3>2
  <2>3. ASSUME NEW q \in DOMAIN v6' PROVE W!UpToDate(q, v6[q])' /\ v6'[q].valid
    <3>1. v6'[q] = W!Fresh \/ (q \in DOMAIN v6 /\ v6'[q] = v6[q])
      BY <2>3 DEF W!Fetching
    <3>2. W!UpToDate(q, v6'[q]) /\ v6'[q].valid
      <4> HIDE DEF W!Read
      <4>1. CASE v6'[q] = W!Fresh
        BY <4>1, FreshData DEF W!Fresh
      <4>2. CASE q \in DOMAIN v6 /\ v6'[q] = v6[q]
        BY <4>2
      <4>3. QED
        BY <3>1, <4>1, <4>2
    <3>3. QED
      BY <3>2 DEF W!UpToDate, W!Sent
  <2>4. QED
    BY <2>0, <2>1, <2>2, <2>3
<1>4. ASSUME W!Arrive PROVE W!ScreensInv'
  <2> USE <1>a, <1>4 DEF W!Arrive, W!ScreensInv
  <2>0. (v8 # W!Idle => v8.what \notin v9)'
    BY DEF W!Idle
  <2>1. W!OfTheRole'
    BY DEF W!OfTheRole, W!Shown, W!Sent
  <2>2. ASSUME NEW q \in DOMAIN v4'
        PROVE  W!UpToDate(q, v4[q])' /\ (q \in v2.shows /\ ~v4[q].valid => q \in W!Fetching \cup v7)'
    <3>1. W!UpToDate(q, v4[q])'
      BY <2>2 DEF W!UpToDate, W!Sent
    <3>2. (q \in v2.shows /\ ~v4[q].valid => q \in W!Fetching \cup v7)'
      BY <2>2 DEF W!Fetching, W!UpToDate
    <3>3. QED
      BY <3>1, <3>2
  <2>3. ASSUME NEW q \in DOMAIN v6' PROVE W!UpToDate(q, v6[q])' /\ v6'[q].valid
    BY <2>3 DEF W!UpToDate, W!Sent
  <2>4. QED
    BY <2>0, <2>1, <2>2, <2>3
<1>5. ASSUME W!FailToFetch PROVE W!ScreensInv'
  <2> USE <1>a, <1>5 DEF W!FailToFetch, W!ScreensInv
  <2>0. (v8 # W!Idle => v8.what \notin v9)'
    BY DEF W!Idle
  <2>1. W!OfTheRole'
    BY DEF W!OfTheRole, W!Shown, W!Sent
  <2>2. ASSUME NEW q \in DOMAIN v4'
        PROVE  W!UpToDate(q, v4[q])' /\ (q \in v2.shows /\ ~v4[q].valid => q \in W!Fetching \cup v7)'
    <3>1. W!UpToDate(q, v4[q])'
      BY <2>2 DEF W!UpToDate, W!Sent
    <3>2. (q \in v2.shows /\ ~v4[q].valid => q \in W!Fetching \cup v7)'
      BY <2>2 DEF W!Fetching, W!UpToDate
    <3>3. QED
      BY <3>1, <3>2
  <2>3. ASSUME NEW q \in DOMAIN v6' PROVE W!UpToDate(q, v6[q])' /\ v6'[q].valid
    BY <2>3 DEF W!UpToDate, W!Sent
  <2>4. QED
    BY <2>0, <2>1, <2>2, <2>3
<1>6. ASSUME W!Apply PROVE W!ScreensInv'
  <2> USE <1>a, <1>6 DEF W!Apply, W!ScreensInv
  <2>0. (v8 # W!Idle => v8.what \notin v9)'
    BY DEF W!Idle
  <2>1. W!OfTheRole'
    BY DEF W!OfTheRole, W!Shown, W!Sent
  <2>2. ASSUME NEW q \in DOMAIN v4'
        PROVE  W!UpToDate(q, v4[q])' /\ (q \in v2.shows /\ ~v4[q].valid => q \in W!Fetching \cup v7)'
    <3>1. W!UpToDate(q, v4'[q]) /\ v4'[q].valid = v4[q].valid
      <4>1. /\ v8.what \in W!Sent /\ v8.what \notin v9 /\ W!UpToDate(q, v4[q])
            /\ v4'[q] = [v4[q] EXCEPT !.older =
                             @ \cup IF q.facts \cap v8.what.changes = {} THEN {} ELSE {v8.what}]
        BY <2>2 DEF W!OfTheRole
      <4>2. QED
        BY <4>1, AppliedData
    <3>2. (q \in v2.shows /\ ~v4[q].valid => q \in W!Fetching \cup v7)'
      BY <2>2, <3>1 DEF W!Fetching
    <3>3. W!UpToDate(q, v4[q])'
      BY <3>1 DEF W!UpToDate, W!Sent
    <3>4. QED
      BY <3>2, <3>3
  <2>3. ASSUME NEW q \in DOMAIN v6' PROVE W!UpToDate(q, v6[q])' /\ v6'[q].valid
    <3>1. W!UpToDate(q, v6'[q]) /\ v6'[q].valid = v6[q].valid
      <4>1. /\ v8.what \in W!Sent /\ v8.what \notin v9 /\ W!UpToDate(q, v6[q])
            /\ v6'[q] = [v6[q] EXCEPT !.older =
                             @ \cup IF q.facts \cap v8.what.changes = {} THEN {} ELSE {v8.what}]
        BY <2>3 DEF W!OfTheRole
      <4>2. QED
        BY <4>1, AppliedData
    <3>2. QED
      BY <2>3, <3>1 DEF W!UpToDate, W!Sent
  <2>4. QED
    BY <2>0, <2>1, <2>2, <2>3
<1>7. ASSUME W!NoAnswer PROVE W!ScreensInv'
  <2> USE <1>a, <1>7 DEF W!NoAnswer, W!ScreensInv
  <2>0. (v8 # W!Idle => v8.what \notin v9)'
    BY DEF W!Idle
  <2>1. W!OfTheRole'
    BY DEF W!OfTheRole, W!Shown, W!Sent
  <2>2. ASSUME NEW q \in DOMAIN v4'
        PROVE  W!UpToDate(q, v4[q])' /\ (q \in v2.shows /\ ~v4[q].valid => q \in W!Fetching \cup v7)'
    <3>1. W!UpToDate(q, v4[q])'
      BY <2>2 DEF W!UpToDate, W!Sent
    <3>2. (q \in v2.shows /\ ~v4[q].valid => q \in W!Fetching \cup v7)'
      BY <2>2 DEF W!Fetching, W!UpToDate
    <3>3. QED
      BY <3>1, <3>2
  <2>3. ASSUME NEW q \in DOMAIN v6' PROVE W!UpToDate(q, v6[q])' /\ v6'[q].valid
    BY <2>3 DEF W!UpToDate, W!Sent
  <2>4. QED
    BY <2>0, <2>1, <2>2, <2>3
<1>8. ASSUME W!OnSuccess PROVE W!ScreensInv'
  <2> USE <1>a, <1>8 DEF W!OnSuccess, W!ScreensInv
  <2>0. (v8 # W!Idle => v8.what \notin v9)'
    BY DEF W!Idle
  <2>1. W!OfTheRole'
    BY DEF W!OfTheRole, W!Shown, W!Sent
  <2>2. ASSUME NEW q \in DOMAIN v4'
        PROVE  W!UpToDate(q, v4[q])' /\ (q \in v2.shows /\ ~v4[q].valid => q \in W!Fetching \cup v7)'
    <3>1. W!UpToDate(q, v4[q])'
      <4>1. /\ W!UpToDate(q, v4[q]) /\ q \in W!Shown /\ v8.what \in W!Sent
            /\ v4'[q] = [v4[q] EXCEPT !.valid = @ /\ ~(q.key \in v8.what.names)]
        BY <2>2 DEF W!OfTheRole
      <4>2. v4[q] \in [valid : BOOLEAN, older : SUBSET W!Sent, late : BOOLEAN]
        BY <4>1 DEF W!UpToDate
      <4>3. /\ v4'[q] \in [valid : BOOLEAN, older : SUBSET W!Sent, late : BOOLEAN]
            /\ v4'[q].older = v4[q].older /\ v4'[q].late = v4[q].late
            /\ v4'[q].valid => v4[q].valid
            /\ q.key \in v8.what.names => ~v4'[q].valid
        BY <4>1, <4>2, Invalidated
      <4>4. /\ \A n \in v4'[q].older : q.facts \cap n.changes # {}
            /\ v4'[q].valid /\ ~v4'[q].late => \A n \in v4'[q].older \cap v9' : <<n, q.key>> \in Missed
        <5>1. v9' = v9 \cup {v8.what}
          OBVIOUS
        <5>2. v8.what \in v4[q].older /\ q.key \notin v8.what.names => <<v8.what, q.key>> \in Missed
          BY <4>1, BehindOrMissed
        <5> HIDE DEF W!OnSuccess, W!ScreensInv
        <5>3. QED
          BY <4>1, <4>3, <5>1, <5>2 DEF W!UpToDate
      <4>5. QED
        BY <4>3, <4>4 DEF W!UpToDate, W!Sent
    <3>2. (q \in v2.shows /\ ~v4[q].valid => q \in W!Fetching \cup v7)'
      BY <2>2 DEF W!Fetching, W!UpToDate
    <3>3. QED
      BY <3>1, <3>2
  <2>3. ASSUME NEW q \in DOMAIN v6' PROVE W!UpToDate(q, v6[q])' /\ v6'[q].valid
    <3>1. /\ W!UpToDate(q, v6[q]) /\ q \in W!Shown /\ v8.what \in W!Sent /\ v6[q].valid
          /\ v6'[q] = [v6[q] EXCEPT !.late = @ \/ q.key \in v8.what.names]
      BY <2>3 DEF W!OfTheRole
    <3>2. v6[q] \in [valid : BOOLEAN, older : SUBSET W!Sent, late : BOOLEAN]
      BY <3>1 DEF W!UpToDate
    <3>3. /\ v6'[q] \in [valid : BOOLEAN, older : SUBSET W!Sent, late : BOOLEAN]
          /\ v6'[q].older = v6[q].older /\ v6'[q].valid = v6[q].valid
          /\ v6[q].late => v6'[q].late
          /\ q.key \in v8.what.names => v6'[q].late
      BY <3>1, <3>2, Passed
    <3>4. /\ \A n \in v6'[q].older : q.facts \cap n.changes # {}
          /\ v6'[q].valid /\ ~v6'[q].late => \A n \in v6'[q].older \cap v9' : <<n, q.key>> \in Missed
      <4>1. v9' = v9 \cup {v8.what}
        OBVIOUS
      <4>2. v8.what \in v6[q].older /\ q.key \notin v8.what.names => <<v8.what, q.key>> \in Missed
        BY <3>1, BehindOrMissed
      <4> HIDE DEF W!OnSuccess, W!ScreensInv
      <4>3. QED
        BY <3>1, <3>3, <4>1, <4>2 DEF W!UpToDate
    <3>5. QED
      BY <3>1, <3>3, <3>4 DEF W!UpToDate, W!Sent
  <2>4. QED
    BY <2>0, <2>1, <2>2, <2>3
<1>9. ASSUME W!Logout PROVE W!ScreensInv'
  <2> USE <1>a, <1>9 DEF W!Logout, W!ScreensInv
  <2>0. (v8 # W!Idle => v8.what \notin v9)'
    BY DEF W!Idle
  <2>1. W!OfTheRole'
    BY DEF W!OfTheRole
  <2>2. ASSUME NEW q \in DOMAIN v4'
        PROVE  W!UpToDate(q, v4[q])' /\ (q \in v2.shows /\ ~v4[q].valid => q \in W!Fetching \cup v7)'
    <3>1. W!UpToDate(q, v4[q])'
      BY <2>2 DEF W!UpToDate, W!Sent
    <3>2. (q \in v2.shows /\ ~v4[q].valid => q \in W!Fetching \cup v7)'
      BY <2>2 DEF W!Fetching, W!UpToDate
    <3>3. QED
      BY <3>1, <3>2
  <2>3. ASSUME NEW q \in DOMAIN v6' PROVE W!UpToDate(q, v6[q])' /\ v6'[q].valid
    BY <2>3 DEF W!UpToDate, W!Sent
  <2>4. QED
    BY <2>0, <2>1, <2>2, <2>3
<1>10. QED
  BY <1>0, <1>1, <1>2, <1>3, <1>4, <1>5, <1>6, <1>7, <1>8, <1>9 DEF W!Next

\* What a page shows and is not fetching again takes every answered mutation into
\* account, but for what the hooks leave out (features/*/hooks/), what could not
\* be fetched and what an invalidation passed on its way.
THEOREM PagesCorrect == Spec => []PagesAreCurrent
<1> DEFINE Inv == part = "screens" => W!ScreensInv
<1>1. Init => Inv
  BY ScreensInit DEF Init
<1>2. Inv /\ [Next]_vars => Inv'
  <2> SUFFICES ASSUME Inv, [Next]_vars, part' = "screens" PROVE W!ScreensInv'
    OBVIOUS
  <2>1. W!ScreensInv /\ [W!Next]_W!vars
    BY DEF Next, vars, W!vars
  <2>2. QED
    BY <2>1, ScreensNext
<1>3. Inv => PagesAreCurrent
  BY DEF PagesAreCurrent, W!PagesAreCurrent, W!ScreensInv, W!UpToDate
<1>4. QED
  <2> HIDE DEF Inv
  <2> QED
    BY <1>1, <1>2, <1>3, PTL DEF Spec

-----------------------------------------------------------------------------
(* Scanner (module Scanner).                                               *)

\* Only the code scanned last may be waiting for its answer.
OneCheckIn == v2 \subseteq {v3}

ScannerInv == OneCheckIn /\ Q!EveryVerdictIsShown

LEMMA ScannerInit == Q!Init => ScannerInv
BY DEF Q!Init, ScannerInv, OneCheckIn, Q!EveryVerdictIsShown

LEMMA ScannerNext == ScannerInv /\ [Q!Next]_Q!vars => ScannerInv'
<1> SUFFICES ASSUME ScannerInv, [Q!Next]_Q!vars PROVE ScannerInv'
  OBVIOUS
<1> USE DEF ScannerInv, OneCheckIn, Q!EveryVerdictIsShown
<1>1. ASSUME NEW c \in Codes, Q!HandleScan(c) PROVE ScannerInv'
  <2>1. v2 = {}
    BY <1>1 DEF Q!HandleScan, Q!Busy
  <2>2. QED
    BY <1>1, <2>1 DEF Q!HandleScan
<1>2. ASSUME NEW c \in Codes, NEW kind, Q!Answer(c, kind) PROVE ScannerInv'
  <2>1. c = v3
    BY <1>2 DEF Q!Answer
  <2>2. QED
    BY <1>2, <2>1 DEF Q!Answer
<1>3. CASE Q!TimerFires
  BY <1>3 DEF Q!TimerFires
<1>4. CASE Q!FourSeconds
  BY <1>4 DEF Q!FourSeconds
<1>5. CASE Q!RestartScanner
  BY <1>5 DEF Q!RestartScanner
<1>6. CASE UNCHANGED Q!vars
  BY <1>6 DEF Q!vars
<1>7. QED
  BY <1>1, <1>2, <1>3, <1>4, <1>5, <1>6 DEF Q!Next

-----------------------------------------------------------------------------
(* Toggles (module Toggles).                                               *)

TogglesType ==
    /\ v1 \subseteq Items /\ v2 \subseteq Items /\ v3 \subseteq Items
    /\ v4 \subseteq [no : Nat, list : SUBSET Items, done : BOOLEAN]
    /\ v5 \in [at : {"none", "asked", "read"}, list : SUBSET Items]
    /\ v5.at = "none" => v5 = L!Idle
    /\ v6 \in Nat /\ v7 \in Nat

\* What is read when no save is under way is what is stored.
ReadIsStored == v4 = {} /\ v5.at = "read" => v5.list = v3

\* A burst begins at rest, where all three lists are one.
RestIsEven == L!AtRest => v1 = v2 /\ v2 = v3

\* After its first click the toggles wait for one save, or for the list.
FirstClick ==
    /\ v7 = 0 => L!AtRest
    /\ v7 = 1 /\ ~L!AtRest => /\ v1 # v2
                              /\ \A s, t \in v4 : s = t
                              /\ v5 # L!Idle => v4 = {}
    /\ v7 <= 2

\* While the toggles show another list than the cache has, no save brings the
\* cached one back: the next list that is read is new to the cache.
NewsIsComing ==
    v1 # v2 =>
        /\ \A s \in v4 : s.list # v2
        /\ v3 = v2 => \E s \in v4 : ~s.done

TogglesInv ==
    TogglesType /\ (~v8 => ReadIsStored /\ RestIsEven /\ FirstClick /\ NewsIsComing)

LEMMA TogglesInit == L!Init => TogglesInv
<1> SUFFICES ASSUME L!Init PROVE TogglesInv
  OBVIOUS
<1>1. TogglesType
  BY DEF L!Init, TogglesType, L!Idle
<1>2. ReadIsStored /\ RestIsEven /\ FirstClick /\ NewsIsComing
  BY DEF L!Init, ReadIsStored, RestIsEven, FirstClick, NewsIsComing, L!AtRest, L!Idle
<1>3. QED
  BY <1>1, <1>2 DEF TogglesInv

LEMMA TogglesNext == TogglesInv /\ [L!Next]_L!vars => TogglesInv'
<1> SUFFICES ASSUME TogglesInv, [L!Next]_L!vars PROVE TogglesInv'
  OBVIOUS
<1> USE DEF TogglesInv
<1>1. ASSUME NEW i \in Items, L!Toggle(i) PROVE TogglesInv'
  <2> DEFINE list == IF i \in v1 THEN v1 \ {i} ELSE v1 \cup {i}
             new == [no |-> v6, list |-> list, done |-> FALSE]
  <2>1. /\ v1' = list /\ list # v1 /\ v4' = v4 \cup {new}
        /\ v7' = (IF L!AtRest THEN 1 ELSE v7 + 1) /\ v8' = (v8 \/ v7' > 2)
        /\ UNCHANGED <<v2, v3, v5>> /\ v6' = v6 + 1
    BY <1>1 DEF L!Toggle
  <2>2. TogglesType'
    <3>1. new \in [no : Nat, list : SUBSET Items, done : BOOLEAN]
      BY DEF TogglesType
    <3>2. v1' \subseteq Items /\ v7' \in Nat
      BY <2>1, <3>1 DEF TogglesType
    <3> HIDE DEF new
    <3>3. QED
      BY <2>1, <3>1, <3>2 DEF TogglesType
  <2>3. ASSUME ~v8' PROVE (ReadIsStored /\ RestIsEven /\ FirstClick /\ NewsIsComing)'
    <3>0. ~v8 /\ ~(v7' > 2)
      BY <2>1, <2>3, Zenon
    <3>1. v7' <= 2 /\ new \in v4' /\ v4' # {} /\ ~L!AtRest'
      <4>1. v7' \in Nat /\ ~(v7' > 2)
        BY <2>2, <3>0 DEF TogglesType
      <4>2. new \in v4'
        BY <2>1
      <4>3. QED
        BY <4>1, <4>2 DEF L!AtRest
    <3>2. ReadIsStored' /\ RestIsEven'
      BY <3>1 DEF ReadIsStored, RestIsEven
    <3>3. CASE L!AtRest
      <4>1. v1 = v2 /\ v2 = v3 /\ v4 = {} /\ v5 = L!Idle /\ v4' = {new} /\ v7' = 1
        BY <2>1, <3>0, <3>1, <3>3 DEF RestIsEven, L!AtRest
      <4>2. FirstClick' /\ NewsIsComing'
        BY <2>1, <4>1 DEF FirstClick, NewsIsComing
      <4>3. QED
        BY <3>2, <4>2
    <3>4. CASE ~L!AtRest
      <4>1. v7 = 1 /\ v7' = 2 /\ v1 # v2
        BY <2>1, <3>0, <3>1, <3>4 DEF FirstClick, TogglesType
      <4>2. FirstClick'
        BY <4>1 DEF FirstClick
      <4>3. NewsIsComing'
        BY <2>1, <3>0, <3>1, <4>1 DEF NewsIsComing
      <4>4. QED
        BY <3>2, <4>2, <4>3
    <3>5. QED
      BY <3>3, <3>4
  <2>4. QED
    BY <2>2, <2>3
<1>2. ASSUME NEW s \in v4, L!Replace(s) PROVE TogglesInv'
  <2> DEFINE done == [s EXCEPT !.done = TRUE]
  <2>1. /\ ~s.done /\ v3' = s.list /\ v4' = (v4 \ {s}) \cup {done}
        /\ UNCHANGED <<v1, v2, v5, v6, v7, v8>>
    BY <1>2 DEF L!Replace
  <2>2. done \in [no : Nat, list : SUBSET Items, done : BOOLEAN] /\ done.list = s.list
        /\ s.list \subseteq Items
    BY DEF TogglesType
  <2>3. TogglesType'
    BY <2>1, <2>2 DEF TogglesType
  <2>4. v4 # {} /\ v4' # {} /\ ~L!AtRest /\ ~L!AtRest'
    BY <2>1 DEF L!AtRest
  <2>5. ReadIsStored' /\ RestIsEven'
    BY <2>4 DEF ReadIsStored, RestIsEven
  <2>6. ASSUME ~v8 PROVE FirstClick' /\ NewsIsComing'
    <3>1. FirstClick'
      BY <2>1, <2>4, <2>6 DEF FirstClick
    <3>2. NewsIsComing'
      BY <2>1, <2>2, <2>6 DEF NewsIsComing
    <3>3. QED
      BY <3>1, <3>2
  <2>7. QED
    BY <2>1, <2>3, <2>5, <2>6
<1>3. ASSUME NEW s \in v4, L!Saved(s) PROVE TogglesInv'
  <2>1. /\ s.done /\ v4' = v4 \ {s} /\ v5' = [at |-> "asked", list |-> {}]
        /\ UNCHANGED <<v1, v2, v3, v6, v7, v8>>
    BY <1>3 DEF L!Saved
  <2>2. TogglesType'
    BY <2>1 DEF TogglesType
  <2>3. v5'.at = "asked" /\ v5' # L!Idle /\ ~L!AtRest /\ ~L!AtRest'
    BY <2>1 DEF L!Idle, L!AtRest
  <2>4. ReadIsStored' /\ RestIsEven'
    BY <2>3 DEF ReadIsStored, RestIsEven
  <2>5. ASSUME ~v8 PROVE FirstClick' /\ NewsIsComing'
    <3>1. FirstClick'
      BY <2>1, <2>3, <2>5 DEF FirstClick
    <3>2. NewsIsComing'
      BY <2>1, <2>5 DEF NewsIsComing
    <3>3. QED
      BY <3>1, <3>2
  <2>6. QED
    BY <2>1, <2>2, <2>4, <2>5
<1>4. ASSUME NEW s \in v4, L!SaveFails(s) PROVE TogglesInv'
  BY <1>4 DEF L!SaveFails, TogglesType
<1>5. CASE L!Read
  <2>1. /\ v5.at = "asked" /\ v5' = [at |-> "read", list |-> v3]
        /\ UNCHANGED <<v1, v2, v3, v4, v6, v7, v8>>
    BY <1>5 DEF L!Read
  <2>2. TogglesType'
    BY <2>1 DEF TogglesType
  <2>3. v5 # L!Idle /\ v5' # L!Idle /\ v5'.at = "read" /\ v5'.list = v3
    BY <2>1 DEF L!Idle
  <2>4. ASSUME ~v8 PROVE (ReadIsStored /\ RestIsEven /\ FirstClick /\ NewsIsComing)'
    BY <2>1, <2>3, <2>4 DEF ReadIsStored, RestIsEven, FirstClick, NewsIsComing, L!AtRest
  <2>5. QED
    BY <2>1, <2>2, <2>4
<1>6. CASE L!Show
  <2>1. /\ v5.at = "read" /\ v2' = v5.list /\ v5' = L!Idle
        /\ v1' = v5.list \/ (v5.list = v2 /\ v1' = v1)
        /\ UNCHANGED <<v3, v4, v6, v7, v8>>
    BY <1>6 DEF L!Show
  <2>2. TogglesType'
    BY <2>1 DEF TogglesType, L!Idle
  <2>3. v5 # L!Idle /\ v5'.at # "read" /\ ~L!AtRest /\ (v4 = {} <=> L!AtRest')
    BY <2>1 DEF L!Idle, L!AtRest
  <2>4. ASSUME ~v8 PROVE (ReadIsStored /\ RestIsEven /\ FirstClick /\ NewsIsComing)'
    <3>1. ReadIsStored'
      BY <2>3 DEF ReadIsStored
    <3>2. NewsIsComing'
      BY <2>1, <2>4 DEF NewsIsComing
    <3>3. RestIsEven'
      BY <2>1, <2>3, <2>4 DEF ReadIsStored, NewsIsComing, RestIsEven
    <3>4. FirstClick'
      BY <2>1, <2>3, <2>4 DEF FirstClick
    <3>5. QED
      BY <3>1, <3>2, <3>3, <3>4
  <2>5. QED
    BY <2>1, <2>2, <2>4
<1>7. CASE UNCHANGED L!vars
  BY <1>7 DEF L!vars, TogglesType, ReadIsStored, RestIsEven, FirstClick, NewsIsComing, L!AtRest
<1>8. QED
  BY <1>1, <1>2, <1>3, <1>4, <1>5, <1>6, <1>7 DEF L!Next

-----------------------------------------------------------------------------
(* Routing (module Routing).                                               *)

\* Where the proxy redirects to, and from where.
ProxyHome ==
    IF v1 = None THEN "/login" ELSE IF v1 = "GUEST" THEN "/discovery" ELSE "/dashboard"
TurnedAway(p) ==
    \/ p \in {"/", "/login", "/signup"} /\ v1 # None
    \/ p \in G!Dashboards /\ v1 \in {None, "GUEST"}
    \/ p = "/discovery" /\ v1 \in {None} \cup G!DashboardUsers

RoutingType ==
    /\ v1 \in G!Roles \cup {None} /\ v2 \in G!Roles \cup {None} /\ v3 \in G!Roles \cup {None}
    /\ v4 \in {"web", "telegram", "deep"}
    /\ v5 \in G!Routes \cup {None} /\ v6 \in G!Routes \cup {None} /\ v7 \in G!Routes \cup {None}
    /\ v8 \in G!Routes
    /\ v9 \in {"rest", "proxy", "land"} /\ v11 \in Nat
    /\ v9 # "rest" => v6 \in G!Routes
    /\ v9 = "land" => ~TurnedAway(v6)

\* How far a navigation can be after so many redirects: the proxy redirects once,
\* the page that is mounted there once, and the same again for the page it names,
\* whose own effects have nothing to add.
Hops ==
    \/ v11 = 0
    \/ v11 <= 1 /\ v6 = G!Effect(v5)
    \/ v11 <= 2 /\ v6 = ProxyHome
    \/ v11 <= 3 /\ v6 = G!Effect(v5) /\ v5 = ProxyHome
    \/ v11 <= 4 /\ v6 = ProxyHome /\ v5 = ProxyHome

\* A navigation to a page of the menu is not redirected while cookie and store agree.
OnTheWay ==
    v10 /\ v8 \in G!Dashboards \cup G!Hub =>
        /\ v1 = v3
        /\ v3 # None /\ v8 \in G!Menu(v3) /\ v4 # "deep" => v6 = v8

RoutingInv ==
    /\ RoutingType
    /\ v9 # "rest" => Hops /\ OnTheWay
    /\ G!NavigationSettles

\* The proxy redirects once.
LEMMA HomeIsNotTurnedAway ==
    ASSUME RoutingType
    PROVE  ~TurnedAway(ProxyHome) /\ ProxyHome \in G!Routes
BY NoneIsNoPage
DEF RoutingType, TurnedAway, ProxyHome, G!Routes, G!Roles, G!Dashboards, G!Hub, G!Public,
    G!DashboardUsers

\* The page the effects of a page lead to leaves it at that.
LEMMA EffectsEnd ==
    ASSUME RoutingType, NEW p, G!Effect(p) # None
    PROVE  G!Effect(p) \in G!Routes /\ G!Effect(G!Effect(p)) \in {None, G!Effect(p)}
<1> USE NoneIsNoPage
    DEF RoutingType, G!Effect, G!DashboardPage, G!TelegramAuthHandler, G!ProtectedRoute,
        G!HomeOf
<1>1. DOMAIN G!PermissionOf \subseteq G!Dashboards
  BY DEF G!PermissionOf
<1>2. v3 = None => G!Effect(p) = "/login"
  BY DEF G!Roles
<1>3. v3 # None => G!Effect(p) \in {"/events/1", "/discovery", "/dashboard", "/unauthorized"}
  OBVIOUS
<1>4. v3 = None => G!Effect("/login") = None
  BY DEF G!Dashboards, G!Hub
<1>5. v3 # None /\ v4 = "deep" => \A q : G!Effect(q) = "/events/1"
  BY DEF G!Routes, G!Dashboards, G!Hub
<1>6. v3 # None /\ v4 # "deep" =>
        /\ G!Effect("/unauthorized") = None /\ G!Effect("/events/1") = None
        /\ G!Effect("/discovery") = None
  BY <1>1 DEF G!Dashboards, G!Hub
<1>7. v3 # None /\ v4 # "deep" /\ G!Effect(p) = "/dashboard" => v3 # "GUEST"
  BY <1>1 DEF G!DashboardUsers
<1>8. v3 # None /\ v4 # "deep" /\ v3 # "GUEST" => G!Effect("/dashboard") = None
  BY DEF G!PermissionOf, G!Dashboards
<1>9. {"/login", "/events/1", "/discovery", "/dashboard", "/unauthorized"} \subseteq G!Routes
  BY DEF G!Routes, G!Dashboards, G!Hub, G!Public
<1> HIDE DEF G!Effect
<1>10. QED
  BY <1>2, <1>3, <1>4, <1>5, <1>6, <1>7, <1>8, <1>9

\* A page of the menu stays, but in a tab that shows an event.
LEMMA MenuStays ==
    ASSUME RoutingType, v1 = v3, v3 # None, NEW p \in G!Menu(v3), v4 # "deep"
    PROVE  ~TurnedAway(p) /\ G!Effect(p) = None
<1>1. v3 \in G!Roles
  BY DEF RoutingType
<1> USE NoneIsNoPage
    DEF RoutingType, G!Effect, G!DashboardPage, G!TelegramAuthHandler, G!ProtectedRoute,
        G!HomeOf, TurnedAway, G!Dashboards, G!Hub, G!DashboardUsers
<1>2. CASE v3 = "ADMIN"
  BY <1>2 DEF G!Menu, G!PermissionOf, G!ROUTE_PERMISSIONS
<1>3. CASE v3 = "ORGANIZER"
  BY <1>3 DEF G!Menu, G!PermissionOf, G!ROUTE_PERMISSIONS
<1>4. CASE v3 = "STAFF"
  BY <1>4 DEF G!Menu, G!PermissionOf, G!ROUTE_PERMISSIONS
<1>5. CASE v3 = "GUEST"
  BY <1>5 DEF G!Menu, G!PermissionOf, G!ROUTE_PERMISSIONS
<1>6. CASE v3 = "OTHER"
  BY <1>6 DEF G!Menu
<1>7. QED
  BY <1>1, <1>2, <1>3, <1>4, <1>5, <1>6 DEF G!Roles

\* The proxy passes a page, or redirects to its home.
LEMMA ProxyStep ==
    ASSUME RoutingType, G!Proxy
    PROVE  /\ v9 = "proxy" /\ UNCHANGED <<v1, v2, v3, v4, v5, v8, v10>>
           /\ \/ ~TurnedAway(v6) /\ v9' = "land" /\ UNCHANGED <<v6, v7, v11>>
              \/ /\ TurnedAway(v6) /\ v9' = "proxy" /\ v6' = ProxyHome /\ v11' = v11 + 1
                 /\ v7' \in {None, v6}
BY NoneIsNoPage
DEF RoutingType, G!Proxy, G!Redirect, G!GoTo, G!Pass, TurnedAway, ProxyHome, G!DashboardUsers,
    G!Dashboards, G!Roles

\* A page is mounted: the navigation rests there, or goes where its effects lead.
LEMMA LandStep ==
    ASSUME RoutingType, G!Land
    PROVE  /\ v9 = "land" /\ v5' = v6 /\ UNCHANGED <<v1, v2, v3, v4, v8, v10>>
           /\ \/ v9' = "rest" /\ v6' = None /\ UNCHANGED <<v7, v11>>
              \/ /\ v5 # v6 /\ G!Effect(v6) \notin {None, v6}
                 /\ v9' = "proxy" /\ v6' = G!Effect(v6) /\ v11' = v11 + 1
                 /\ v7' \in {None, v6}
BY DEF G!Land, G!Redirect, G!GoTo

LEMMA RoutingInit == G!Init => RoutingInv
<1> SUFFICES ASSUME G!Init PROVE RoutingInv
  OBVIOUS
<1>1. RoutingType
  BY NoneIsNoPage
  DEF G!Init, RoutingType, G!Routes, G!Public
<1>2. G!NavigationSettles
  BY DEF G!Init, G!NavigationSettles, G!Dashboards, G!Hub
<1>3. QED
  BY <1>1, <1>2 DEF G!Init, RoutingInv

\* A new navigation.
LEMMA Begun ==
    ASSUME RoutingInv, NEW p \in G!Routes, NEW token, NEW session, G!Begin(p, token, session),
           v1' \in G!Roles \cup {None}, v2' \in G!Roles \cup {None}, v3' \in G!Roles \cup {None},
           v5' \in G!Routes \cup {None}, v4' = v4, v3' = token, v1' = session
    PROVE  RoutingInv'
<1>1. /\ v6' = p /\ v9' = "proxy" /\ v7' = None /\ v8' = p /\ v11' = 0
      /\ v10' => token = session
  BY Zenon DEF G!Begin, G!GoTo
<1>2. RoutingType'
  BY <1>1 DEF RoutingInv, RoutingType
<1>3. Hops' /\ OnTheWay'
  BY <1>1 DEF Hops, OnTheWay
<1>4. G!NavigationSettles'
  BY <1>1 DEF G!NavigationSettles
<1>5. QED
  BY <1>2, <1>3, <1>4 DEF RoutingInv

LEMMA RoutingNext == RoutingInv /\ [G!Next]_G!vars => RoutingInv'
<1> SUFFICES ASSUME RoutingInv, [G!Next]_G!vars PROVE RoutingInv'
  OBVIOUS
<1>0. RoutingType
  BY DEF RoutingInv
<1>1. ASSUME NEW p \in G!Routes, G!Visit(p) PROVE RoutingInv'
  BY <1>0, <1>1, Begun DEF G!Visit, RoutingType
<1>2. ASSUME NEW p \in G!Routes, G!Load(p) PROVE RoutingInv'
  <2>1. PICK token \in G!Roles \cup {None} : v3' = token /\ token = IF v2 # None THEN v2 ELSE v1
    BY <1>0, <1>2 DEF G!Load, RoutingType
  <2>2. /\ G!Begin(p, token, v1) /\ UNCHANGED <<v1, v2, v4>> /\ v5' = None
    BY <1>2, <2>1 DEF G!Load
  <2>3. QED
    BY <1>0, <2>1, <2>2, Begun DEF RoutingType
<1>3. ASSUME NEW role \in G!Roles \cup {None}, G!OtherTab(role) PROVE RoutingInv'
  <2>1. /\ v9 = "rest" /\ v1' = role /\ v2' = role
        /\ UNCHANGED <<v3, v4, v5, v6, v7, v8, v9, v10, v11>>
    BY <1>3 DEF G!OtherTab
  <2>2. RoutingType'
    BY <1>0, <2>1 DEF RoutingType
  <2>3. QED
    BY <2>1, <2>2 DEF RoutingInv, G!NavigationSettles
<1>4. ASSUME NEW role \in G!Roles, G!Login(role) PROVE RoutingInv'
  <2>1. PICK to : G!Begin(to, role, role) /\ to \in G!Routes
    BY <1>0, <1>4
    DEF G!Login, G!HomeOf, RoutingType, G!Routes, G!Dashboards, G!Hub
  <2>2. v1' = role /\ v2' = role /\ v3' = role /\ UNCHANGED <<v4, v5>>
    BY <1>4 DEF G!Login
  <2>3. QED
    BY <1>0, <2>1, <2>2, Begun DEF RoutingType
<1>5. CASE G!CookieExpires
  <2>1. v9 = "rest" /\ v1' = None /\ UNCHANGED <<v2, v3, v4, v5, v6, v7, v8, v9, v10, v11>>
    BY <1>5 DEF G!CookieExpires
  <2>2. RoutingType'
    BY <1>0, <2>1 DEF RoutingType
  <2>3. QED
    BY <2>1, <2>2 DEF RoutingInv, G!NavigationSettles
<1>6. CASE G!SignOut
  <2>1. /\ v1' = None /\ v2' = None /\ v3' = None /\ v5' = None /\ v4' = v4
        /\ G!Begin("/login", None, None) /\ "/login" \in G!Routes
    BY <1>6 DEF G!SignOut, G!Routes, G!Public
  <2>2. QED
    BY <2>1, Begun
<1>7. CASE G!Proxy
  <2>1. /\ v9 = "proxy" /\ UNCHANGED <<v1, v2, v3, v4, v5, v8, v10>>
        /\ \/ ~TurnedAway(v6) /\ v9' = "land" /\ UNCHANGED <<v6, v7, v11>>
           \/ /\ TurnedAway(v6) /\ v9' = "proxy" /\ v6' = ProxyHome /\ v11' = v11 + 1
              /\ v7' \in {None, v6}
    BY <1>0, <1>7, ProxyStep
  <2>2. /\ ProxyHome' = ProxyHome /\ \A p : TurnedAway(p)' = TurnedAway(p)
        /\ G!Effect(v5)' = G!Effect(v5)
    BY <2>1
    DEF ProxyHome, TurnedAway, G!Effect, G!TelegramAuthHandler, G!DashboardPage,
        G!ProtectedRoute
  <2>3. RoutingType'
    BY <1>0, <2>1, <2>2, HomeIsNotTurnedAway DEF RoutingType
  <2>4. Hops'
    BY <1>0, <2>1, <2>2, HomeIsNotTurnedAway DEF RoutingInv, Hops, RoutingType
  <2>5. OnTheWay'
    BY <1>0, <2>1, MenuStays DEF RoutingInv, OnTheWay
  <2>6. G!NavigationSettles'
    BY <2>1, <2>3, <2>4 DEF Hops, G!NavigationSettles, RoutingType
  <2>7. QED
    BY <2>3, <2>4, <2>5, <2>6 DEF RoutingInv
<1>8. CASE G!Land
  <2>1. /\ v9 = "land" /\ v5' = v6 /\ UNCHANGED <<v1, v2, v3, v4, v8, v10>>
        /\ \/ v9' = "rest" /\ v6' = None /\ UNCHANGED <<v7, v11>>
           \/ /\ v5 # v6 /\ G!Effect(v6) \notin {None, v6}
              /\ v9' = "proxy" /\ v6' = G!Effect(v6) /\ v11' = v11 + 1
              /\ v7' \in {None, v6}
    BY <1>0, <1>8, LandStep
  <2>2. ProxyHome' = ProxyHome /\ G!Effect(v5)' = G!Effect(v6)
    BY <2>1
    DEF ProxyHome, G!Effect, G!TelegramAuthHandler, G!DashboardPage, G!ProtectedRoute
  <2>3. v6 \in G!Routes /\ ~TurnedAway(v6) /\ Hops /\ OnTheWay
    BY <1>0, <2>1 DEF RoutingInv, RoutingType
  <2>4. RoutingType'
    BY <1>0, <2>1, <2>3, EffectsEnd DEF RoutingType
  <2>5. CASE v9' = "rest"
    <3>1. v11' <= 4
      BY <1>0, <2>1, <2>3, <2>5 DEF Hops, RoutingType
    <3>2. ASSUME v10, v8 \in G!Dashboards \cup G!Hub
          PROVE  /\ v6 \in G!Dashboards => v3 \notin {None, "GUEST"}
                 /\ v6 = "/discovery" => v3 \notin {None} \cup G!DashboardUsers
                 /\ v3 # None /\ v8 \in G!Menu(v3) => v4 = "deep" \/ v6 = v8
      BY <2>3, <3>2 DEF OnTheWay, TurnedAway
    <3>3. G!NavigationSettles'
      BY <2>1, <3>1, <3>2 DEF G!NavigationSettles
    <3>4. QED
      BY <2>4, <2>5, <3>3 DEF RoutingInv
  <2>6. CASE v9' = "proxy"
    <3>1. /\ v5 # v6 /\ G!Effect(v6) \notin {None, v6} /\ v6' = G!Effect(v6)
          /\ v11' = v11 + 1
      BY <2>1, <2>6
    <3>2. Hops'
      <4>1. v6 # G!Effect(v5)
        BY <1>0, <2>3, <3>1, EffectsEnd, NoneIsNoPage DEF RoutingType
      <4>2. v11 = 0 \/ (v11 <= 2 /\ v6 = ProxyHome)
        BY <2>3, <3>1, <4>1 DEF Hops
      <4>3. QED
        BY <1>0, <2>1, <2>2, <3>1, <4>2 DEF Hops, RoutingType
    <3>3. OnTheWay'
      BY <1>0, <2>1, <2>3, <3>1, MenuStays DEF OnTheWay
    <3>4. G!NavigationSettles'
      BY <2>4, <2>6, <3>2 DEF Hops, G!NavigationSettles, RoutingType
    <3>5. QED
      BY <2>4, <3>2, <3>3, <3>4 DEF RoutingInv
  <2>7. QED
    BY <2>1, <2>5, <2>6
<1>9. CASE UNCHANGED G!vars
  BY <1>9 DEF G!vars, RoutingInv, RoutingType, Hops, OnTheWay, TurnedAway, ProxyHome,
     G!NavigationSettles, G!Effect, G!TelegramAuthHandler, G!DashboardPage, G!ProtectedRoute
<1>10. QED
  BY <1>1, <1>2, <1>3, <1>4, <1>5, <1>6, <1>7, <1>8, <1>9 DEF G!Next

-----------------------------------------------------------------------------
\* Redirects between proxy.ts and the effects of a page end, the toggles of
\* UserInterests.tsx show what is stored, and AttendeeScanner.tsx shows each verdict.
THEOREM ClientCorrect == Spec => []ClientIsSteady
<1> DEFINE Inv == /\ part = "routing" => RoutingInv
                  /\ part = "toggles" => TogglesInv
                  /\ part = "scanner" => ScannerInv
<1>1. Init => Inv
  BY RoutingInit, TogglesInit, ScannerInit DEF Init
<1>2. Inv /\ [Next]_vars => Inv'
  <2> SUFFICES ASSUME Inv, [Next]_vars PROVE Inv'
    OBVIOUS
  <2>1. part' = part
    BY DEF Next, vars
  <2>2. ASSUME part = "routing" PROVE RoutingInv'
    <3>1. [G!Next]_G!vars
      BY <2>2 DEF Next, vars, G!vars
    <3>2. QED
      BY <2>2, <3>1, RoutingNext
  <2>3. ASSUME part = "toggles" PROVE TogglesInv'
    <3>1. [L!Next]_L!vars
      BY <2>3 DEF Next, vars, L!vars
    <3>2. QED
      BY <2>3, <3>1, TogglesNext
  <2>4. ASSUME part = "scanner" PROVE ScannerInv'
    <3>1. [Q!Next]_Q!vars
      BY <2>4 DEF Next, vars, Q!vars
    <3>2. QED
      BY <2>4, <3>1, ScannerNext
  <2>5. QED
    BY <2>1, <2>2, <2>3, <2>4
<1>3. Inv => ClientIsSteady
  BY DEF ClientIsSteady, RoutingInv, TogglesInv, RestIsEven, ScannerInv,
     L!TogglesShowTheStored
<1>4. QED
  <2> HIDE DEF Inv
  <2> QED
    BY <1>1, <1>2, <1>3, PTL DEF Spec
=============================================================================
