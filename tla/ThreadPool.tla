---------------------------- MODULE ThreadPool ----------------------------
(***************************************************************************)
(* The worker pool of lzopfs (src/ThreadPool.cc): a FIFO of jobs guarded   *)
(* by the mutex of the condition variable mCond, worker threads that sleep *)
(* on it while the FIFO is empty, and a destructor that cancels the pool   *)
(* by queueing null jobs.                                                  *)
(*                                                                         *)
(* A critical section of mCond is one action; a worker between two         *)
(* critical sections is "ready" (it wants mCond to ask for its next job),  *)
(* "asleep" (inside mCond.wait()), "running" a job, or "exited".           *)
(***************************************************************************)
EXTENDS Naturals, Sequences, FiniteSets

CONSTANTS Workers,      \* the threads the constructor starts
          Jobs,         \* job objects that callers may submit
          FailingJobs,  \* the jobs whose operator() throws
          Null          \* the null job pointer; also "no job in hand"

ASSUME PoolAssumption == /\ IsFiniteSet(Workers) /\ Workers # {}
                         /\ FailingJobs \subseteq Jobs
                         /\ Null \notin Jobs

VARIABLES mJobs,        \* the queue of submitted jobs, oldest first
          mCancelling,  \* set by the destructor
          wpc,          \* where each worker is
          wjob,         \* the job each worker is running
          dtor,         \* progress of ~ThreadPool
          process       \* "up", or how the process ended

vars == <<mJobs, mCancelling, wpc, wjob, dtor, process>>

TypeOK ==
    /\ mJobs \in Seq(Jobs \cup {Null})
    /\ mCancelling \in BOOLEAN
    /\ wpc \in [Workers -> {"ready", "asleep", "running", "exited"}]
    /\ wjob \in [Workers -> Jobs \cup {Null}]
    /\ dtor \in {"none", "joinFirst", "joinThreads", "done"}
    /\ process \in {"up", "terminated", "undefined", "exited"}
    /\ \A w \in Workers : wpc[w] = "running" <=> wjob[w] # Null

(* The constructor holds mCond until every thread has been created.        *)
Init ==
    /\ mJobs = <<>>
    /\ mCancelling = FALSE
    /\ wpc = [w \in Workers |-> "ready"]
    /\ wjob = [w \in Workers |-> Null]
    /\ dtor = "none"
    /\ process = "up"

-----------------------------------------------------------------------------
Ready  == {w \in Workers : wpc[w] = "ready"}
Asleep == {w \in Workers : wpc[w] = "asleep"}

Queued(job) == \E i \in 1..Len(mJobs) : mJobs[i] = job
Running(job) == \E w \in Workers : wpc[w] = "running" /\ wjob[w] = job

(* Mutants of Signal: no signal at all; a signal only when the queue was   *)
(* empty, as if one awake worker served every later job.                   *)
NoSignal == UNCHANGED wpc
SignalWhenEmpty ==
    IF Asleep = {} \/ mJobs # <<>>
    THEN UNCHANGED wpc
    ELSE \E w \in Asleep : wpc' = [wpc EXCEPT ![w] = "ready"]

(* pthread_cond_signal: one sleeper, whichever the system picks, returns   *)
(* to compete for the mutex; without a sleeper the signal is lost.         *)
Signal ==
    IF Asleep = {}
    THEN UNCHANGED wpc
    ELSE \E w \in Asleep : wpc' = [wpc EXCEPT ![w] = "ready"]

(* enqueue() of a job object just allocated, so neither queued nor running;*)
(* a cancelled pool throws and leaves its state alone.                     *)
Enqueue(job) ==
    /\ process = "up"
    /\ ~mCancelling
    /\ ~Queued(job) /\ ~Running(job)
    /\ mJobs' = Append(mJobs, job)
    /\ Signal
    /\ UNCHANGED <<mCancelling, wjob, dtor, process>>

(* Mutant of TakeJob: front() without pop().                               *)
TakeWithoutPop(w) ==
    /\ process = "up" /\ wpc[w] = "ready" /\ mJobs # <<>> /\ Head(mJobs) # Null
    /\ wpc' = [wpc EXCEPT ![w] = "running"]
    /\ wjob' = [wjob EXCEPT ![w] = Head(mJobs)]
    /\ UNCHANGED <<mJobs, mCancelling, dtor, process>>

(* nextJob() finds a job.                                                  *)
TakeJob(w) ==
    /\ process = "up"
    /\ wpc[w] = "ready"
    /\ mJobs # <<>>
    /\ Head(mJobs) # Null
    /\ mJobs' = Tail(mJobs)
    /\ wpc' = [wpc EXCEPT ![w] = "running"]
    /\ wjob' = [wjob EXCEPT ![w] = Head(mJobs)]
    /\ UNCHANGED <<mCancelling, dtor, process>>

(* nextJob() returns a null job: pthread_exit.                             *)
Exit(w) ==
    /\ process = "up"
    /\ wpc[w] = "ready"
    /\ mJobs # <<>>
    /\ Head(mJobs) = Null
    /\ mJobs' = Tail(mJobs)
    /\ wpc' = [wpc EXCEPT ![w] = "exited"]
    /\ UNCHANGED <<mCancelling, wjob, dtor, process>>

(* nextJob() finds the queue empty: mCond.wait() gives up the mutex.       *)
SleepForJob(w) ==
    /\ process = "up"
    /\ wpc[w] = "ready"
    /\ mJobs = <<>>
    /\ wpc' = [wpc EXCEPT ![w] = "asleep"]
    /\ UNCHANGED <<mJobs, mCancelling, wjob, dtor, process>>

(* pthread_cond_wait may return although nobody signalled.                 *)
SpuriousWakeup(w) ==
    /\ process = "up"
    /\ wpc[w] = "asleep"
    /\ wpc' = [wpc EXCEPT ![w] = "ready"]
    /\ UNCHANGED <<mJobs, mCancelling, wjob, dtor, process>>

(* Mutant of FinishJob: the worker keeps the pointer it deleted.           *)
FinishKeepingJob(w) ==
    /\ process = "up" /\ wpc[w] = "running" /\ wjob[w] \notin FailingJobs
    /\ wpc' = [wpc EXCEPT ![w] = "ready"]
    /\ UNCHANGED <<mJobs, mCancelling, wjob, dtor, process>>

(* operator() returned: the job is deleted and the loop starts again.      *)
FinishJob(w) ==
    /\ process = "up"
    /\ wpc[w] = "running"
    /\ wjob[w] \notin FailingJobs
    /\ wpc' = [wpc EXCEPT ![w] = "ready"]
    /\ wjob' = [wjob EXCEPT ![w] = Null]
    /\ UNCHANGED <<mJobs, mCancelling, dtor, process>>

(* operator() threw: the job is deleted, the exception leaves the thread   *)
(* function and that ends the process (std::terminate).                    *)
JobThrows(w) ==
    /\ process = "up"
    /\ wpc[w] = "running"
    /\ wjob[w] \in FailingJobs
    /\ wpc' = [wpc EXCEPT ![w] = "exited"]
    /\ wjob' = [wjob EXCEPT ![w] = Null]
    /\ process' = "terminated"
    /\ UNCHANGED <<mJobs, mCancelling, dtor>>

-----------------------------------------------------------------------------
(* Mutant of ThreadEntries: one null job too few.                          *)
TooFewEntries == Cardinality(Workers) - 1

(* mThreads has twice as many entries as there are threads: resize(threads)*)
(* makes entries nobody starts, and push_back adds the real ones behind    *)
(* them.  The destructor cancels and joins every entry.                    *)
ThreadEntries == 2 * Cardinality(Workers)

(* Mutants of Destroy: the jobs left in the queue stay there; the sleepers *)
(* are not woken.                                                          *)
DestroyKeepingJobs ==
    /\ process = "up" /\ dtor = "none"
    /\ dtor' = "joinFirst" /\ mCancelling' = TRUE
    /\ mJobs' = mJobs \o [i \in 1..ThreadEntries |-> Null]
    /\ wpc' = [w \in Workers |-> IF wpc[w] = "asleep" THEN "ready" ELSE wpc[w]]
    /\ UNCHANGED <<wjob, process>>
DestroyWithoutBroadcast ==
    /\ process = "up" /\ dtor = "none"
    /\ dtor' = "joinFirst" /\ mCancelling' = TRUE
    /\ mJobs' = [i \in 1..ThreadEntries |-> Null]
    /\ UNCHANGED <<wpc, wjob, process>>

(* ~ThreadPool: the critical section.                                      *)
Destroy ==
    /\ process = "up"
    /\ dtor = "none"
    /\ dtor' = "joinFirst"
    /\ mCancelling' = TRUE
    /\ mJobs' = [i \in 1..ThreadEntries |-> Null]
    /\ wpc' = [w \in Workers |-> IF wpc[w] = "asleep" THEN "ready" ELSE wpc[w]]
    /\ UNCHANGED <<wjob, process>>

(* pthread_join on the entries that never got a thread reads uninitialised *)
(* pthread_t values: it returns an error, or the process goes astray.      *)
JoinUninitialised ==
    /\ process = "up"
    /\ dtor = "joinFirst"
    /\ \/ dtor' = "joinThreads" /\ UNCHANGED process
       \/ process' = "undefined" /\ UNCHANGED dtor
    /\ UNCHANGED <<mJobs, mCancelling, wpc, wjob>>

(* pthread_join on the real threads returns when all of them have exited.  *)
JoinThreads ==
    /\ process = "up"
    /\ dtor = "joinThreads"
    /\ \A w \in Workers : wpc[w] = "exited"
    /\ dtor' = "done"
    /\ UNCHANGED <<mJobs, mCancelling, wpc, wjob, process>>

-----------------------------------------------------------------------------
WorkerStep(w) == TakeJob(w) \/ Exit(w) \/ SleepForJob(w) \/ FinishJob(w) \/ JobThrows(w)
DestructorStep == JoinUninitialised \/ JoinThreads

Next ==
    \/ \E job \in Jobs : Enqueue(job)
    \/ \E w \in Workers : WorkerStep(w) \/ SpuriousWakeup(w)
    \/ Destroy
    \/ DestructorStep

Spec == Init /\ [][Next]_vars

(* A thread that can run keeps running: the kernel schedules every runnable*)
(* thread.  Nothing makes callers submit jobs, destroy the pool, or makes a*)
(* wait return spuriously.                                                 *)
Fairness == /\ \A w \in Workers : WF_vars(WorkerStep(w))
            /\ WF_vars(DestructorStep)

FairSpec == Spec /\ Fairness

-----------------------------------------------------------------------------
(* No lost wakeup (nextJob/enqueue): while a worker sleeps, every queued   *)
(* entry already has an awake worker on its way to fetch it, although      *)
(* enqueue() signals once per job and a signal may find nobody asleep.     *)
WorkConserving == Asleep # {} => Len(mJobs) <= Cardinality(Ready)

(* A job object has one owner: it sits in the queue once or one worker     *)
(* runs it, so threadFunc's delete never frees a job that somebody else    *)
(* still holds.                                                            *)
OneOwner ==
    /\ \A i, j \in 1..Len(mJobs) : mJobs[i] = mJobs[j] /\ mJobs[i] # Null => i = j
    /\ \A v, w \in Workers : wjob[v] = wjob[w] /\ wjob[v] # Null => v = w
    /\ \A i \in 1..Len(mJobs), w \in Workers : mJobs[i] = wjob[w] => mJobs[i] = Null

(* ~ThreadPool deletes what is still queued: once the pool is cancelling,  *)
(* no worker starts another job, whatever was submitted before.            *)
NoJobStartsWhileCancelling ==
    [][mCancelling => \A w \in Workers : wjob'[w] \in {wjob[w], Null}]_vars

(* The null jobs ~ThreadPool queues suffice: until the process ends, each  *)
(* worker that has not exited still has one to find.                       *)
CancelReachesEveryWorker ==
    mCancelling /\ process = "up" =>
        Cardinality({w \in Workers : wpc[w] # "exited"}) <= Len(mJobs)

(* Every submitted job is started, or dropped by the destructor, unless    *)
(* the process ends: workers never all sleep or die beside a queued job.   *)
EveryJobLeavesQueue ==
    \A job \in Jobs : Queued(job) ~> (~Queued(job) \/ process # "up")

(* ~ThreadPool returns: one null job per mThreads entry is enough to end   *)
(* every worker, wherever the cancellation finds it.                       *)
ShutdownCompletes ==
    (dtor # "none") ~> (dtor = "done" \/ process # "up")
=============================================================================
