------------------------- MODULE ThreadPoolProofs -------------------------
(***************************************************************************)
(* Theorems about ThreadPool for every finite set of workers and every set *)
(* of jobs.  The inductive invariant is                                    *)
(*    TypeOK, WorkConserving, OneOwner, OnlyNullsWhileCancelling and       *)
(*    CancelReachesEveryWorker;                                            *)
(* the fourth part is what the last one and the action property need.      *)
(***************************************************************************)
EXTENDS ThreadPool, TLAPS, FiniteSetTheorems

(* ~ThreadPool leaves nothing but null jobs in the queue.                  *)
OnlyNullsWhileCancelling ==
    mCancelling => \A i \in 1..Len(mJobs) : mJobs[i] = Null

Inv == /\ TypeOK
       /\ WorkConserving
       /\ OneOwner
       /\ OnlyNullsWhileCancelling
       /\ CancelReachesEveryWorker

(* The workers at each place are finitely many.                            *)
LEMMA WorkersFinite ==
    /\ \A P \in SUBSET Workers : IsFiniteSet(P) /\ Cardinality(P) \in Nat
    /\ Cardinality(Workers) \in Nat
  BY PoolAssumption, FS_Subset, FS_CardinalityType

(* Every step of the pool keeps the types and the pairing of wpc with wjob.*)
LEMMA TypeStep == TypeOK /\ [Next]_vars => TypeOK'
<1> SUFFICES ASSUME TypeOK, [Next]_vars PROVE TypeOK'
  OBVIOUS
<1> USE PoolAssumption DEF TypeOK
<1>1. ASSUME NEW job \in Jobs, Enqueue(job) PROVE TypeOK'
  <2>1. mJobs' \in Seq(Jobs \cup {Null})
    BY <1>1 DEF Enqueue
  <2>2. CASE Asleep = {}
    BY <1>1, <2>1, <2>2 DEF Enqueue, Signal
  <2>3. CASE Asleep # {}
    <3>1. PICK w \in Asleep : wpc' = [wpc EXCEPT ![w] = "ready"]
      BY <1>1, <2>3 DEF Enqueue, Signal
    <3> QED
      BY <1>1, <2>1, <3>1 DEF Enqueue, Asleep
  <2> QED
    BY <2>2, <2>3
<1>2. ASSUME NEW w \in Workers, TakeJob(w) PROVE TypeOK'
  <2>1. Head(mJobs) \in Jobs /\ Tail(mJobs) \in Seq(Jobs \cup {Null})
    BY <1>2 DEF TakeJob
  <2> QED
    BY <1>2, <2>1 DEF TakeJob
<1>3. ASSUME NEW w \in Workers, Exit(w) PROVE TypeOK'
  <2>1. Tail(mJobs) \in Seq(Jobs \cup {Null})
    BY <1>3 DEF Exit
  <2> QED
    BY <1>3, <2>1 DEF Exit
<1>4. ASSUME NEW w \in Workers, SleepForJob(w) PROVE TypeOK'
  BY <1>4 DEF SleepForJob
<1>5. ASSUME NEW w \in Workers, SpuriousWakeup(w) PROVE TypeOK'
  BY <1>5 DEF SpuriousWakeup
<1>6. ASSUME NEW w \in Workers, FinishJob(w) PROVE TypeOK'
  BY <1>6 DEF FinishJob
<1>7. ASSUME NEW w \in Workers, JobThrows(w) PROVE TypeOK'
  BY <1>7 DEF JobThrows
<1>8. CASE Destroy
  <2>1. [i \in 1..ThreadEntries |-> Null] \in Seq(Jobs \cup {Null})
    BY WorkersFinite DEF ThreadEntries
  <2> QED
    BY <1>8, <2>1 DEF Destroy
<1>9. CASE JoinUninitialised
  BY <1>9 DEF JoinUninitialised
<1>10. CASE JoinThreads
  BY <1>10 DEF JoinThreads
<1>11. CASE UNCHANGED vars
  BY <1>11 DEF vars
<1> QED
  BY <1>1, <1>2, <1>3, <1>4, <1>5, <1>6, <1>7, <1>8, <1>9, <1>10, <1>11
     DEF Next, WorkerStep, DestructorStep

(* nextJob/enqueue lose no wakeup: Ready and the queue grow and shrink     *)
(* together, and a worker falls asleep only beside an empty queue.         *)
LEMMA WorkConservingStep ==
  TypeOK /\ WorkConserving /\ [Next]_vars => WorkConserving'
<1> SUFFICES ASSUME TypeOK, WorkConserving, [Next]_vars PROVE WorkConserving'
  OBVIOUS
<1> USE DEF TypeOK
<1>0. /\ IsFiniteSet(Ready) /\ Cardinality(Ready) \in Nat
      /\ IsFiniteSet(Ready') /\ Cardinality(Ready') \in Nat
      /\ Len(mJobs) \in Nat
  BY WorkersFinite DEF Ready
<1>a. ASSUME NEW w \in Workers, Ready' = Ready \ {w}, w \in Ready
      PROVE Cardinality(Ready') = Cardinality(Ready) - 1
  BY <1>0, <1>a, FS_RemoveElement
<1>b. ASSUME NEW w \in Workers, Ready' = Ready \cup {w}, w \notin Ready
      PROVE Cardinality(Ready') = Cardinality(Ready) + 1
  BY <1>0, <1>b, FS_AddElement
<1>1. ASSUME NEW job \in Jobs, Enqueue(job) PROVE WorkConserving'
  <2>0. Len(mJobs') = Len(mJobs) + 1
    BY <1>1 DEF Enqueue
  <2>1. CASE Asleep = {}
    BY <1>1, <2>1 DEF Enqueue, Signal, WorkConserving, Asleep
  <2>2. CASE Asleep # {}
    <3>1. PICK w \in Asleep : wpc' = [wpc EXCEPT ![w] = "ready"]
      BY <1>1, <2>2 DEF Enqueue, Signal
    <3>2. Ready' = Ready \cup {w} /\ w \notin Ready /\ w \in Workers
      BY <3>1 DEF Ready, Asleep
    <3>3. Cardinality(Ready') = Cardinality(Ready) + 1
      BY <1>b, <3>2
    <3> QED
      BY <1>0, <2>0, <2>2, <3>3 DEF WorkConserving
  <2> QED
    BY <2>1, <2>2
<1>2. ASSUME NEW w \in Workers, TakeJob(w) \/ Exit(w) PROVE WorkConserving'
  <2>1. Len(mJobs') = Len(mJobs) - 1
    BY <1>2 DEF TakeJob, Exit
  <2>2. Ready' = Ready \ {w} /\ w \in Ready /\ Asleep' = Asleep
    BY <1>2 DEF TakeJob, Exit, Ready, Asleep
  <2>3. Cardinality(Ready') = Cardinality(Ready) - 1
    BY <1>a, <2>2
  <2> QED
    BY <1>0, <2>1, <2>2, <2>3 DEF WorkConserving
<1>3. ASSUME NEW w \in Workers, SleepForJob(w) PROVE WorkConserving'
  <2>1. Len(mJobs') = 0
    BY <1>3 DEF SleepForJob
  <2> QED
    BY <1>0, <2>1 DEF WorkConserving
<1>4. ASSUME NEW w \in Workers, SpuriousWakeup(w) PROVE WorkConserving'
  <2>1. Ready' = Ready \cup {w} /\ w \notin Ready /\ Asleep # {}
    BY <1>4 DEF SpuriousWakeup, Ready, Asleep
  <2>2. mJobs' = mJobs
    BY <1>4 DEF SpuriousWakeup
  <2>3. Cardinality(Ready') = Cardinality(Ready) + 1
    BY <1>b, <2>1
  <2> QED
    BY <1>0, <2>1, <2>2, <2>3 DEF WorkConserving
<1>5. ASSUME NEW w \in Workers, FinishJob(w) PROVE WorkConserving'
  <2>1. Ready' = Ready \cup {w} /\ w \notin Ready /\ Asleep' = Asleep
    BY <1>5 DEF FinishJob, Ready, Asleep
  <2>2. mJobs' = mJobs
    BY <1>5 DEF FinishJob
  <2>3. Cardinality(Ready') = Cardinality(Ready) + 1
    BY <1>b, <2>1
  <2> QED
    BY <1>0, <2>1, <2>2, <2>3 DEF WorkConserving
<1>6. ASSUME NEW w \in Workers, JobThrows(w) PROVE WorkConserving'
  <2>1. Ready' = Ready /\ Asleep' = Asleep /\ mJobs' = mJobs
    BY <1>6 DEF JobThrows, Ready, Asleep
  <2> QED
    BY <2>1 DEF WorkConserving
<1>7. CASE Destroy
  BY <1>7 DEF Destroy, WorkConserving, Asleep
<1>8. CASE DestructorStep
  BY <1>8 DEF DestructorStep, JoinUninitialised, JoinThreads, WorkConserving, Asleep, Ready
<1>9. CASE UNCHANGED vars
  BY <1>9 DEF vars, WorkConserving, Asleep, Ready
<1> QED
  BY <1>1, <1>2, <1>3, <1>4, <1>5, <1>6, <1>7, <1>8, <1>9 DEF Next, WorkerStep

(* enqueue() appends an object nobody holds and nextJob() moves the oldest *)
(* one from the queue to a worker without a job.                           *)
LEMMA OneOwnerStep == TypeOK /\ OneOwner /\ [Next]_vars => OneOwner'
<1> SUFFICES ASSUME TypeOK, OneOwner, [Next]_vars PROVE OneOwner'
  OBVIOUS
<1> USE PoolAssumption DEF TypeOK
<1>1. ASSUME NEW job \in Jobs, Enqueue(job) PROVE OneOwner'
  <2>1. /\ mJobs' = Append(mJobs, job) /\ wjob' = wjob
        /\ \A i \in 1..Len(mJobs) : mJobs[i] # job
        /\ \A w \in Workers : wjob[w] # job
    BY <1>1 DEF Enqueue, Queued, Running
  <2>2. /\ Len(mJobs') = Len(mJobs) + 1 /\ Len(mJobs) \in Nat
        /\ \A i \in 1..Len(mJobs) : mJobs'[i] = mJobs[i]
        /\ mJobs'[Len(mJobs) + 1] = job
    BY <2>1
  <2> QED
    BY <2>1, <2>2 DEF OneOwner
<1>2. ASSUME NEW w \in Workers, TakeJob(w) PROVE OneOwner'
  <2>1. /\ Len(mJobs) \in Nat \ {0} /\ Head(mJobs) = mJobs[1]
        /\ mJobs' = Tail(mJobs) /\ Len(mJobs') = Len(mJobs) - 1
        /\ \A i \in 1..Len(mJobs') : mJobs'[i] = mJobs[i+1]
    BY <1>2 DEF TakeJob
  <2>2. wjob' = [wjob EXCEPT ![w] = mJobs[1]] /\ mJobs[1] # Null
    BY <1>2, <2>1 DEF TakeJob
  <2> QED
    BY <2>1, <2>2 DEF OneOwner
<1>3. ASSUME NEW w \in Workers, Exit(w) PROVE OneOwner'
  <2>1. /\ Len(mJobs) \in Nat \ {0}
        /\ mJobs' = Tail(mJobs) /\ Len(mJobs') = Len(mJobs) - 1
        /\ \A i \in 1..Len(mJobs') : mJobs'[i] = mJobs[i+1]
        /\ wjob' = wjob
    BY <1>3 DEF Exit
  <2> QED
    BY <2>1, SMTT(60) DEF OneOwner
<1>4. ASSUME NEW w \in Workers, SleepForJob(w) \/ SpuriousWakeup(w) PROVE OneOwner'
  BY <1>4 DEF SleepForJob, SpuriousWakeup, OneOwner
<1>5. ASSUME NEW w \in Workers, FinishJob(w) \/ JobThrows(w) PROVE OneOwner'
  BY <1>5 DEF FinishJob, JobThrows, OneOwner
<1>6. CASE Destroy
  <2>1. /\ ThreadEntries \in Nat
        /\ \A i \in 1..Len(mJobs') : mJobs'[i] = Null
    BY <1>6, WorkersFinite DEF Destroy, ThreadEntries
  <2> QED
    BY <1>6, <2>1 DEF Destroy, OneOwner
<1>7. CASE DestructorStep
  BY <1>7 DEF DestructorStep, JoinUninitialised, JoinThreads, OneOwner
<1>8. CASE UNCHANGED vars
  BY <1>8 DEF vars, OneOwner
<1> QED
  BY <1>1, <1>2, <1>3, <1>4, <1>5, <1>6, <1>7, <1>8 DEF Next, WorkerStep

(* Once the destructor has set mCancelling, enqueue() refuses and nextJob()*)
(* hands out null jobs only, one to each worker that exits.                *)
LEMMA CancelStep ==
  /\ TypeOK /\ OnlyNullsWhileCancelling /\ CancelReachesEveryWorker
  /\ [Next]_vars
  => /\ OnlyNullsWhileCancelling' /\ CancelReachesEveryWorker'
     /\ mCancelling => \A w \in Workers : wjob'[w] \in {wjob[w], Null}
<1> DEFINE Live == {w \in Workers : wpc[w] # "exited"}
           NoStart == mCancelling => \A w \in Workers : wjob'[w] \in {wjob[w], Null}
           Goal == OnlyNullsWhileCancelling' /\ CancelReachesEveryWorker' /\ NoStart
<1> SUFFICES ASSUME TypeOK, OnlyNullsWhileCancelling, CancelReachesEveryWorker,
                    [Next]_vars
             PROVE  Goal
  OBVIOUS
<1> USE PoolAssumption DEF TypeOK
<1>0. /\ IsFiniteSet(Live) /\ Cardinality(Live) \in Nat /\ Len(mJobs) \in Nat
      /\ IsFiniteSet(Live') /\ Cardinality(Live') \in Nat
  BY WorkersFinite
<1>1. ASSUME NEW job \in Jobs, Enqueue(job) PROVE Goal
  BY <1>1 DEF Enqueue, OnlyNullsWhileCancelling, CancelReachesEveryWorker
<1>2. ASSUME NEW w \in Workers, TakeJob(w) PROVE Goal
  <2>1. Len(mJobs) # 0 /\ mJobs[1] # Null /\ mCancelling' = mCancelling
    BY <1>2 DEF TakeJob
  <2>2. ~mCancelling
    BY <1>0, <2>1 DEF OnlyNullsWhileCancelling
  <2> QED
    BY <2>1, <2>2 DEF OnlyNullsWhileCancelling, CancelReachesEveryWorker
<1>3. ASSUME NEW w \in Workers, Exit(w) PROVE Goal
  <2>1. /\ Len(mJobs') = Len(mJobs) - 1 /\ Len(mJobs) \in Nat \ {0}
        /\ \A i \in 1..Len(mJobs') : mJobs'[i] = mJobs[i+1]
        /\ mCancelling' = mCancelling /\ wjob' = wjob /\ process' = process
    BY <1>3 DEF Exit
  <2>2. Live' = Live \ {w} /\ w \in Live
    BY <1>3 DEF Exit
  <2>3. Cardinality(Live') = Cardinality(Live) - 1
    <3> HIDE DEF Live
    <3>1. Cardinality(Live \ {w}) = Cardinality(Live) - 1
      BY <1>0, <2>2, FS_RemoveElement
    <3> QED
      BY <2>2, <3>1
  <2> QED
    BY <1>0, <2>1, <2>3 DEF OnlyNullsWhileCancelling, CancelReachesEveryWorker
<1>4. ASSUME NEW w \in Workers, SleepForJob(w) \/ SpuriousWakeup(w) \/ FinishJob(w)
      PROVE Goal
  <2>1. Live' = Live
    BY <1>4 DEF SleepForJob, SpuriousWakeup, FinishJob
  <2>2. UNCHANGED <<mJobs, mCancelling, process>>
    BY <1>4 DEF SleepForJob, SpuriousWakeup, FinishJob
  <2>3. NoStart
    BY <1>4 DEF SleepForJob, SpuriousWakeup, FinishJob
  <2> QED
    BY <2>1, <2>2, <2>3 DEF OnlyNullsWhileCancelling, CancelReachesEveryWorker
<1>5. ASSUME NEW w \in Workers, JobThrows(w) PROVE Goal
  BY <1>5 DEF JobThrows, OnlyNullsWhileCancelling, CancelReachesEveryWorker
<1>6. CASE Destroy
  <2>1. /\ Len(mJobs') = 2 * Cardinality(Workers)
        /\ \A i \in 1..Len(mJobs') : mJobs'[i] = Null
        /\ wjob' = wjob
    BY <1>6, WorkersFinite DEF Destroy, ThreadEntries
  <2>2. Cardinality(Live') <= Cardinality(Workers)
    BY PoolAssumption, FS_Subset
  <2> QED
    BY <1>0, <2>1, <2>2, WorkersFinite DEF OnlyNullsWhileCancelling, CancelReachesEveryWorker
<1>7. CASE DestructorStep
  <2>1. /\ UNCHANGED <<mJobs, mCancelling, wpc, wjob>>
        /\ process = "up"
    BY <1>7 DEF DestructorStep, JoinUninitialised, JoinThreads
  <2> QED
    BY <2>1 DEF OnlyNullsWhileCancelling, CancelReachesEveryWorker
<1>8. CASE UNCHANGED vars
  BY <1>8 DEF vars, OnlyNullsWhileCancelling, CancelReachesEveryWorker
<1> QED
  BY <1>1, <1>2, <1>3, <1>4, <1>5, <1>6, <1>7, <1>8 DEF Next, WorkerStep

(* The pool's invariant holds of what the constructor leaves.              *)
LEMMA InvInit == Init => Inv
<1> SUFFICES ASSUME Init PROVE Inv
  OBVIOUS
<1>1. TypeOK
  <2>1. mJobs \in Seq(Jobs \cup {Null})
    BY DEF Init
  <2> QED
    BY <2>1, PoolAssumption DEF Init, TypeOK
<1>2. Asleep = {} /\ Len(mJobs) = 0 /\ ~mCancelling
  BY DEF Init, Asleep
<1>3. OneOwner
  BY DEF Init, OneOwner
<1> QED
  BY <1>1, <1>2, <1>3 DEF Inv, WorkConserving, OnlyNullsWhileCancelling, CancelReachesEveryWorker

(* Type correctness, no lost wakeup, one owner for every job and enough    *)
(* null jobs to end every worker, of every execution of the pool.          *)
THEOREM PoolSafety == Spec => []Inv
<1>1. Inv /\ [Next]_vars => Inv'
  BY TypeStep, WorkConservingStep, OneOwnerStep, CancelStep DEF Inv
<1> QED
  BY InvInit, <1>1, PTL DEF Spec

(* A worker of src/ThreadPool.cc runs exactly when it holds a job.         *)
THEOREM PoolTypes == Spec => []TypeOK
  BY PoolSafety, PTL DEF Inv

(* No lost wakeup in nextJob()/enqueue(), for any number of workers.       *)
THEOREM PoolWorkConserving == Spec => []WorkConserving
  BY PoolSafety, PTL DEF Inv

(* threadFunc's delete never frees a job another thread can reach.         *)
THEOREM PoolOneOwner == Spec => []OneOwner
  BY PoolSafety, PTL DEF Inv

(* ~ThreadPool queues enough null jobs, for any number of workers.         *)
THEOREM PoolCancelReachesEveryWorker == Spec => []CancelReachesEveryWorker
  BY PoolSafety, PTL DEF Inv

(* A cancelled pool starts no job.                                         *)
THEOREM PoolNoJobStartsWhileCancelling == Spec => NoJobStartsWhileCancelling
<1>1. Inv /\ [Next]_vars =>
        [mCancelling => \A w \in Workers : wjob'[w] \in {wjob[w], Null}]_vars
  BY CancelStep DEF Inv
<1> QED
  BY PoolSafety, <1>1, PTL DEF Spec, NoJobStartsWhileCancelling
=============================================================================
