---------------------------- MODULE BlockCache ----------------------------
(***************************************************************************)
(* Reading a synthetic file: lf_read -> OpenCompressedFile::read ->        *)
(* BlockCache::getBlocks, the block jobs that the pool's workers run for   *)
(* it, and the cache they share.                                           *)
(*                                                                         *)
(* A reader is a thread of the file system that serves one read at a time. *)
(* Its stack frame holds the condition variable cv, the counter remain,    *)
(* the callback and the caller's buffer; the jobs hold references to them. *)
(* cv is held by the reader from before its first enqueue until it waits.  *)
(* The cache's mutex mMutex is a variable because a reader keeps it over   *)
(* its whole lookup loop; the critical sections of cv, of the callback and *)
(* of the pool are single actions.                                         *)
(***************************************************************************)
EXTENDS CompressedFile, FiniteSets

CONSTANTS Readers, Workers,
          Requests,         \* what readers may ask for: [file, off, size]
          CorruptBlocks,    \* pairs <<file, block>> that do not decompress
          CacheSize,        \* BlockCache::maxSize
          SpuriousWakeups,  \* may cv.wait() return without a signal?
          Null

ASSUME LayoutAssumption == DOMAIN mBlocks = Files /\ \A f \in Files : LayoutOK(f)

ASSUME CacheAssumption ==
    /\ IsFiniteSet(Readers) /\ IsFiniteSet(Workers) /\ Workers # {}
    /\ Requests \subseteq [file : Files, off : Nat, size : Nat \ {0}]
    /\ CacheSize \in Nat
    /\ SpuriousWakeups \in BOOLEAN
    /\ Null \notin Readers /\ Null \notin Requests

VARIABLES
    process,                                \* "up", or how the process ended
    mJobs, mCancelling, wpc, wjob, dtor,    \* the pool (ThreadPool)
    mLRU, mMap, mWeight, mMaxWeight,        \* the cache (LRUMap)
    mMutex,                                 \* the reader in its lookup loop, or Null
    rpc, req, it, need, remain, max, copied,\* a reader's place and its frame
    jpc                                     \* where in Job::operator() a worker is

poolVars  == <<mJobs, mCancelling, wpc, wjob, dtor>>
cacheVars == <<mLRU, mMap, mWeight, mMaxWeight>>
frameVars == <<req, it, need, remain, max, copied>>
vars == <<process, poolVars, cacheVars, mMutex, rpc, frameVars, jpc>>

(* A job names its reader (for JobInfo's references), its file and block.  *)
Job == [rd : Readers, file : Files, blk : UNION {Blocks(f) : f \in Files}]
Failing == {j \in Job : <<j.file, j.blk>> \in CorruptBlocks}

(* Null is no job and no answer to a read.                                 *)
ASSUME JobAssumption == Null \notin Job
ASSUME ReplyAssumption ==
    Null \notin [bytes : SUBSET (Nat \X [file : Files, at : Nat]), count : Nat]

(* Mutant of Key: the compressed offset alone.                             *)
KeyByOffset(f, b) == [id |-> Null, offset |-> mBlocks[f][b].coff]

(* Key: the file's id and the block's compressed offset.                   *)
Key(f, b) == [id |-> f, offset |-> mBlocks[f][b].coff]

(* A decompressed buffer is represented by the block whose bytes it holds. *)
Buffer == [file : Files, blk : UNION {Blocks(f) : f \in Files}]

Pool == INSTANCE ThreadPool WITH
            Jobs <- Job, FailingJobs <- Failing
Cache == INSTANCE LRUMap WITH
            Keys <- UNION {{Key(f, b) : b \in Blocks(f)} : f \in Files},
            Values <- Buffer, Weights <- Nat

Init ==
    /\ Pool!Init
    /\ mLRU = <<>> /\ mMap = <<>> /\ mWeight = 0 /\ mMaxWeight = CacheSize
    /\ mMutex = Null
    /\ rpc = [r \in Readers |-> "idle"]
    /\ req = [r \in Readers |-> Null]
    /\ it = [r \in Readers |-> 0]
    /\ need = [r \in Readers |-> {}]
    /\ remain = [r \in Readers |-> 0]
    /\ max = [r \in Readers |-> 0]
    /\ copied = [r \in Readers |-> {}]
    /\ jpc = [w \in Workers |-> "lookup"]

-----------------------------------------------------------------------------
(* The callback: copy the part of the block that the request asks for into *)
(* the caller's buffer, then push the end of the read forward.             *)
OMin(q, b) == IF q.off >= UOff(q.file, b) THEN q.off ELSE UOff(q.file, b)
OMax(q, b) == IF q.off + q.size <= UEnd(q.file, b) THEN q.off + q.size ELSE UEnd(q.file, b)

(* What copying block b from buffer buf puts into the caller's buffer.     *)
Piece(q, b, buf) ==
    {<<o - q.off, [file |-> buf.file,
                   at |-> UOff(buf.file, buf.blk) + o - UOff(q.file, b)]>> :
        o \in OMin(q, b)..OMax(q, b) - 1}

(* Mutants of Callback: the end of the read is that of the block copied    *)
(* last; nothing is copied.                                                *)
CallbackLastEnds(r, b, buf) ==
    /\ copied' = [copied EXCEPT ![r] = @ \cup Piece(req[r], b, buf)]
    /\ max' = [max EXCEPT ![r] = OMax(req[r], b)]
CallbackCopiesNothing(r, b, buf) ==
    /\ max' = [max EXCEPT ![r] = IF @ < OMax(req[r], b) THEN OMax(req[r], b) ELSE @]
    /\ UNCHANGED copied

Callback(r, b, buf) ==
    /\ copied' = [copied EXCEPT ![r] = @ \cup Piece(req[r], b, buf)]
    /\ max' = [max EXCEPT ![r] = IF @ < OMax(req[r], b) THEN OMax(req[r], b) ELSE @]

(* The jobs in the pool, those of one reader, and the blocks it waits for. *)
InFlight == {j \in Job : Pool!Queued(j) \/ Pool!Running(j)}
Outstanding(r) == {j \in InFlight : j.rd = r}
Pending(r) == need[r] \cup {j.blk : j \in Outstanding(r)}

-----------------------------------------------------------------------------
(* Readers                                                                 *)

(* lf_read and OpenCompressedFile::read: find the first block.             *)
BeginRead(r, q) ==
    /\ process = "up" /\ rpc[r] = "idle"
    /\ \E i \in Blocks(q.file) :
        /\ IsLowerBound(q.file, q.off, i)
        /\ it' = [it EXCEPT ![r] = i]
    /\ rpc' = [rpc EXCEPT ![r] = "lock"]
    /\ req' = [req EXCEPT ![r] = q]
    /\ max' = [max EXCEPT ![r] = q.off]
    /\ UNCHANGED <<process, poolVars, cacheVars, mMutex, need, remain, copied, jpc>>

(* findBlock throws past the end of the file; lf_read's handler exits.     *)
ReadPastEnd(r, q) ==
    /\ process = "up" /\ rpc[r] = "idle"
    /\ IsLowerBound(q.file, q.off, Len(mBlocks[q.file]) + 1)
    /\ process' = "exited"
    /\ UNCHANGED <<poolVars, cacheVars, mMutex, rpc, frameVars, jpc>>

(* getBlocks: Lock lock(mMutex)                                            *)
LockCache(r) ==
    /\ process = "up" /\ rpc[r] = "lock"
    /\ mMutex = Null
    /\ mMutex' = r
    /\ rpc' = [rpc EXCEPT ![r] = "lookup"]
    /\ UNCHANGED <<process, poolVars, cacheVars, frameVars, jpc>>

(* Mutant of InRange: the block behind the request is taken as well.       *)
InRangeInclusive(r) ==
    /\ it[r] \in Blocks(req[r].file)
    /\ UOff(req[r].file, it[r]) <= req[r].off + req[r].size

(* The loop's condition: !it.end() && it->uoff < max.                      *)
InRange(r) ==
    /\ it[r] \in Blocks(req[r].file)
    /\ UOff(req[r].file, it[r]) < req[r].off + req[r].size

(* One round of the lookup loop: a cached block is handed to the callback  *)
(* at once, another one is noted as needed.                                *)
LookupBlock(r) ==
    LET f == req[r].file
        k == Key(f, it[r])
    IN  /\ process = "up" /\ rpc[r] = "lookup"
        /\ InRange(r)
        /\ Cache!Find(k)
        /\ \/ /\ k \in DOMAIN mMap
              /\ Callback(r, it[r], mMap[k].value)
              /\ UNCHANGED need
           \/ /\ k \notin DOMAIN mMap
              /\ need' = [need EXCEPT ![r] = @ \cup {it[r]}]
              /\ UNCHANGED <<max, copied>>
        /\ it' = [it EXCEPT ![r] = @ + 1]
        /\ UNCHANGED <<process, poolVars, mMutex, rpc, req, remain, jpc>>

(* Mutant of UnlockCache: remain is set before the loop has found the need.*)
UnlockWithoutCount(r) ==
    /\ process = "up" /\ rpc[r] = "lookup" /\ ~InRange(r)
    /\ mMutex' = Null
    /\ rpc' = [rpc EXCEPT ![r] = IF need[r] = {} THEN "done" ELSE "enqueue"]
    /\ UNCHANGED <<process, poolVars, cacheVars, frameVars, jpc>>

(* The loop is over: give up mMutex.  With nothing needed getBlocks returns*)
(* and so does the read; otherwise remain counts the blocks needed.        *)
UnlockCache(r) ==
    /\ process = "up" /\ rpc[r] = "lookup"
    /\ ~InRange(r)
    /\ mMutex' = Null
    /\ remain' = [remain EXCEPT ![r] = Cardinality(need[r])]
    /\ rpc' = [rpc EXCEPT ![r] = IF need[r] = {} THEN "done" ELSE "enqueue"]
    /\ UNCHANGED <<process, poolVars, cacheVars, req, it, need, max, copied, jpc>>

(* One round of the loop that hands the needed blocks to the pool, in order*)
Enqueue(r) ==
    /\ rpc[r] = "enqueue"
    /\ \E b \in need[r] :
        /\ \A c \in need[r] : b <= c
        /\ Pool!Enqueue([rd |-> r, file |-> req[r].file, blk |-> b])
        /\ need' = [need EXCEPT ![r] = @ \ {b}]
    /\ UNCHANGED <<cacheVars, mMutex, rpc, req, it, remain, max, copied, jpc>>

(* cv.wait(): gives up cv and sleeps.                                      *)
Wait(r) ==
    /\ process = "up" /\ rpc[r] = "enqueue"
    /\ need[r] = {}
    /\ rpc' = [rpc EXCEPT ![r] = "wait"]
    /\ UNCHANGED <<process, poolVars, cacheVars, mMutex, frameVars, jpc>>

(* cv.wait() may return without a signal (POSIX), and nothing calls it     *)
(* again.                                                                  *)
SpuriousReaderWakeup(r) ==
    /\ SpuriousWakeups
    /\ process = "up" /\ rpc[r] = "wait"
    /\ rpc' = [rpc EXCEPT ![r] = "woken"]
    /\ UNCHANGED <<process, poolVars, cacheVars, mMutex, frameVars, jpc>>

(* cv.wait() has cv again: getBlocks and read return, the frame is gone.   *)
Return(r) ==
    /\ process = "up" /\ rpc[r] = "woken"
    /\ rpc' = [rpc EXCEPT ![r] = "done"]
    /\ UNCHANGED <<process, poolVars, cacheVars, mMutex, frameVars, jpc>>

(* lf_read hands buffer and count to its caller.  A read that returned     *)
(* before its jobs ended stays here: the model does not follow what its    *)
(* jobs do to a later frame in the same place (UseDeadFrame stands for it).*)
Reply(r) ==
    /\ process = "up" /\ rpc[r] = "done"
    /\ Outstanding(r) = {}
    /\ rpc' = [rpc EXCEPT ![r] = "idle"]
    /\ req' = [req EXCEPT ![r] = Null]
    /\ it' = [it EXCEPT ![r] = 0]
    /\ remain' = [remain EXCEPT ![r] = 0]
    /\ max' = [max EXCEPT ![r] = 0]
    /\ copied' = [copied EXCEPT ![r] = {}]
    /\ UNCHANGED <<process, poolVars, cacheVars, mMutex, need, jpc>>

-----------------------------------------------------------------------------
(* Workers                                                                 *)

HasFrame(r) == rpc[r] \in {"enqueue", "wait", "woken"}
AtJob(w, place) ==
    process = "up" /\ wpc[w] = "running" /\ jpc[w] = place /\ HasFrame(wjob[w].rd)

TakeJob(w) ==
    /\ Pool!TakeJob(w)
    /\ UNCHANGED <<cacheVars, mMutex, rpc, frameVars, jpc>>

SleepForJob(w) ==
    /\ Pool!SleepForJob(w)
    /\ UNCHANGED <<cacheVars, mMutex, rpc, frameVars, jpc>>

SpuriousWakeup(w) ==
    /\ Pool!SpuriousWakeup(w)
    /\ UNCHANGED <<cacheVars, mMutex, rpc, frameVars, jpc>>

(* Job::operator(): the block may have arrived since the reader looked; the*)
(* callback runs under mMutex then.                                        *)
JobLookup(w) ==
    LET j == wjob[w]
        k == Key(j.file, j.blk)
    IN  /\ AtJob(w, "lookup")
        /\ mMutex = Null
        /\ Cache!Find(k)
        /\ \/ /\ k \in DOMAIN mMap
              /\ Callback(j.rd, j.blk, mMap[k].value)
              /\ jpc' = [jpc EXCEPT ![w] = "complete"]
           \/ /\ k \notin DOMAIN mMap
              /\ jpc' = [jpc EXCEPT ![w] = "decompress"]
              /\ UNCHANGED <<max, copied>>
        /\ UNCHANGED <<process, poolVars, mMutex, rpc, req, it, need, remain>>

(* Mutant of DecompressAndAdd: the block is inserted though it is present. *)
DecompressAndInsert(w) ==
    LET j == wjob[w]
    IN  /\ AtJob(w, "decompress") /\ j \notin Failing /\ mMutex = Null
        /\ mBlocks[j.file][j.blk].usize <= mMaxWeight
        /\ Cache!Insert(Key(j.file, j.blk), [file |-> j.file, blk |-> j.blk],
                        mBlocks[j.file][j.blk].usize)
        /\ jpc' = [jpc EXCEPT ![w] = "deliver"]
        /\ UNCHANGED <<process, poolVars, mMutex, rpc, frameVars>>

(* decompressBlock, outside every lock, then add to the cache under mMutex;*)
(* another job may have added the block meanwhile.                         *)
DecompressAndAdd(w) ==
    LET j == wjob[w]
    IN  /\ AtJob(w, "decompress")
        /\ j \notin Failing
        /\ mMutex = Null
        /\ Cache!Add(Key(j.file, j.blk), [file |-> j.file, blk |-> j.blk],
                     mBlocks[j.file][j.blk].usize)
        /\ jpc' = [jpc EXCEPT ![w] = "deliver"]
        /\ UNCHANGED <<process, poolVars, mMutex, rpc, frameVars>>

(* decompressBlock throws: the exception leaves the job.                   *)
DecompressFails(w) ==
    /\ AtJob(w, "decompress")
    /\ Pool!JobThrows(w)
    /\ UNCHANGED <<cacheVars, mMutex, rpc, frameVars, jpc>>

(* The callback on the job's own buffer, outside mMutex.                   *)
Deliver(w) ==
    LET j == wjob[w]
    IN  /\ AtJob(w, "deliver")
        /\ Callback(j.rd, j.blk, [file |-> j.file, blk |-> j.blk])
        /\ jpc' = [jpc EXCEPT ![w] = "complete"]
        /\ UNCHANGED <<process, poolVars, cacheVars, mMutex, rpc, req, it, need, remain>>

(* Mutants of Complete: the signal does not wait for the count; the lock on*)
(* cv is not taken, so that the signal may precede the wait.               *)
CompleteSignalling(w) ==
    LET r == wjob[w].rd
    IN  /\ AtJob(w, "complete") /\ rpc[r] # "enqueue"
        /\ remain' = [remain EXCEPT ![r] = @ - 1]
        /\ rpc' = [rpc EXCEPT ![r] = "woken"]
        /\ Pool!FinishJob(w)
        /\ jpc' = [jpc EXCEPT ![w] = "lookup"]
        /\ UNCHANGED <<cacheVars, mMutex, req, it, need, max, copied>>
CompleteWithoutLock(w) ==
    LET r == wjob[w].rd
    IN  /\ AtJob(w, "complete")
        /\ remain' = [remain EXCEPT ![r] = @ - 1]
        /\ rpc' = [rpc EXCEPT ![r] = IF remain[r] = 1 /\ @ = "wait" THEN "woken" ELSE @]
        /\ Pool!FinishJob(w)
        /\ jpc' = [jpc EXCEPT ![w] = "lookup"]
        /\ UNCHANGED <<cacheVars, mMutex, req, it, need, max, copied>>

(* Lock(info.cv), which the reader gives up only in cv.wait(): count down, *)
(* signal at zero, and the worker deletes the job.                         *)
Complete(w) ==
    LET r == wjob[w].rd
    IN  /\ AtJob(w, "complete")
        /\ rpc[r] # "enqueue"
        /\ remain' = [remain EXCEPT ![r] = @ - 1]
        /\ rpc' = [rpc EXCEPT ![r] = IF remain[r] = 1 THEN "woken" ELSE @]
        /\ Pool!FinishJob(w)
        /\ jpc' = [jpc EXCEPT ![w] = "lookup"]
        /\ UNCHANGED <<cacheVars, mMutex, req, it, need, max, copied>>

(* A job whose reader has returned follows dangling references.            *)
UseDeadFrame(w) ==
    /\ process = "up" /\ wpc[w] = "running"
    /\ ~HasFrame(wjob[w].rd)
    /\ process' = "undefined"
    /\ UNCHANGED <<poolVars, cacheVars, mMutex, rpc, frameVars, jpc>>

-----------------------------------------------------------------------------
ReaderStep(r) == LookupBlock(r) \/ UnlockCache(r) \/ Enqueue(r) \/ Wait(r) \/ Return(r)
WorkerStep(w) == TakeJob(w) \/ SleepForJob(w) \/ DecompressFails(w) \/ Deliver(w) \/ Complete(w)
AcquireCache(w) == JobLookup(w) \/ DecompressAndAdd(w)

Next ==
    \/ \E r \in Readers :
        \/ \E q \in Requests : BeginRead(r, q) \/ ReadPastEnd(r, q)
        \/ LockCache(r) \/ ReaderStep(r) \/ SpuriousReaderWakeup(r) \/ Reply(r)
    \/ \E w \in Workers :
        WorkerStep(w) \/ AcquireCache(w) \/ SpuriousWakeup(w) \/ UseDeadFrame(w)

Spec == Init /\ [][Next]_vars

(* Threads keep running, and a thread that asks for mMutex again and again *)
(* finds it free gets it some time (strong fairness: others may take it in *)
(* between).  Nothing makes a caller read or a wait return spuriously.     *)
Fairness ==
    /\ \A r \in Readers : WF_vars(ReaderStep(r)) /\ SF_vars(LockCache(r))
    /\ \A w \in Workers : WF_vars(WorkerStep(w) \/ UseDeadFrame(w)) /\ SF_vars(AcquireCache(w))

FairSpec == Spec /\ Fairness

-----------------------------------------------------------------------------
ReaderPlaces == {"idle", "lock", "lookup", "enqueue", "wait", "woken", "done"}

TypeOK ==
    /\ Pool!TypeOK
    /\ mMutex \in Readers \cup {Null}
    /\ rpc \in [Readers -> ReaderPlaces]
    /\ req \in [Readers -> Requests \cup {Null}]
    /\ \A r \in Readers : rpc[r] = "idle" <=> req[r] = Null
    /\ \A r \in Readers : rpc[r] = "lookup" <=> mMutex = r
    /\ it \in [Readers -> Nat]
    /\ need \in [Readers -> SUBSET Nat]
    /\ remain \in [Readers -> Nat]
    /\ max \in [Readers -> Nat]
    /\ copied \in [Readers -> SUBSET (Nat \X [file : Files, at : Nat])]
    /\ jpc \in [Workers -> {"lookup", "decompress", "deliver", "complete"}]

(* getBlocks waits once, without looking at remain: this is sound only if  *)
(* no queued or running job refers to a frame that is gone, so that the    *)
(* JobInfo references, cv and the caller's buffer outlive every job.       *)
FramesOutliveJobs ==
    \A r \in Readers : Outstanding(r) # {} =>
        /\ HasFrame(r)
        /\ \A j \in Outstanding(r) : j.file = req[r].file

(* While the process is up, remain counts the blocks still to come, so that*)
(* exactly the last job signals; and a reader that sleeps has a job that   *)
(* will signal it.                                                         *)
CountdownExact ==
    process = "up" => \A r \in Readers :
        /\ HasFrame(r) => remain[r] = Cardinality(Pending(r))
        /\ rpc[r] = "wait" => Pending(r) # {}

(* Whatever the cache holds under a key is what the block of that key      *)
(* decompresses to, whoever put it there and whatever was evicted since.   *)
CacheFaithful ==
    \A f \in Files : \A b \in Blocks(f) :
        Key(f, b) \in DOMAIN mMap => mMap[Key(f, b)].value = [file |-> f, blk |-> b]

(* The map and the list of the shared cache agree and its weight stays     *)
(* within CacheSize, although jobs add blocks concurrently and twice.      *)
CacheSound == Cache!TypeOK /\ Cache!MapMatchesList /\ Cache!WeightBounded

Reads == INSTANCE FileReads WITH
    reading <- req,
    reply <- [r \in Readers |->
                 IF rpc[r] = "done"
                 THEN [bytes |-> copied[r], count |-> max[r] - req[r].off] ELSE Null]

(* The caller of read gets every byte it asked for that the file has, at   *)
(* its place in the buffer, no other byte, and the right count.            *)
ReadExact ==
    \A r \in Readers : rpc[r] = "done" =>
        /\ copied[r] = Reads!Contents(req[r])
        /\ max[r] = Reads!RequestEnd(req[r])

(* The same of every read whose jobs are over: all that a spurious return  *)
(* of cv.wait() can break is a read that does not wait for its jobs.       *)
ReadExactUnlessEarly ==
    \A r \in Readers : rpc[r] = "done" /\ Outstanding(r) = {} /\ process = "up" =>
        /\ copied[r] = Reads!Contents(req[r])
        /\ max[r] = Reads!RequestEnd(req[r])

(* The concurrent reader, the workers and the cache together implement the *)
(* atomic reads of FileReads.                                              *)
ImplementsFileReads == Reads!Spec

(* A block that does not decompress ends the process (the job's exception  *)
(* is caught nowhere); but only a read that the block overlaps does, or one*)
(* inside which an empty block lies, never one that merely comes near it.  *)
DamageIsLocal ==
    process = "terminated" =>
        \E r \in Readers : rpc[r] # "idle" /\
            \E b \in Blocks(req[r].file) :
                /\ <<req[r].file, b>> \in CorruptBlocks
                /\ req[r].off < UEnd(req[r].file, b)
                /\ UOff(req[r].file, b) < req[r].off + req[r].size

(* Every read returns unless the process ends.                             *)
EveryReadReturns ==
    \A r \in Readers : (rpc[r] # "idle") ~> (rpc[r] = "done" \/ process # "up")
=============================================================================
