------------------------- MODULE BlockCacheProofs -------------------------
(***************************************************************************)
(* Reads are exact: theorems about BlockCache for every set of readers and *)
(* workers, every sound layout of the files and every cache size.  Where   *)
(* cv.wait() may return without a signal, a read is exact once its jobs    *)
(* are over, and the cache is sound nevertheless.                          *)
(***************************************************************************)
EXTENDS BlockCache, SequenceTheorems, FiniteSetTheorems, TLAPS

PoolProofs == INSTANCE ThreadPoolProofs WITH Jobs <- Job, FailingJobs <- Failing

-----------------------------------------------------------------------------
(* What BlockSearchProofs says of block lists, where nothing is searched.  *)
Lists == INSTANCE BlockSearchProofs WITH
            file <- Null, off <- 0, first <- 1, count <- 0, pc <- "idle"

LEMMA SameLayouts ==
  ASSUME NEW f, LayoutOK(f)
  PROVE  Lists!LayoutOK(f)
BY DEF LayoutOK, Lists!LayoutOK, Blocks, Lists!Blocks, UOff, Lists!UOff, UEnd, Lists!UEnd,
       UncompressedSize, Lists!UncompressedSize

LEMMA BlockFacts ==
  ASSUME NEW f, LayoutOK(f), NEW b \in Blocks(f)
  PROVE  /\ UOff(f, b) \in Nat /\ UEnd(f, b) \in Nat
         /\ UOff(f, b) <= UEnd(f, b)
         /\ mBlocks[f][b].usize \in Nat
         /\ UEnd(f, b) = UOff(f, b) + mBlocks[f][b].usize
BY SameLayouts, Lists!BlockFacts, LayoutAssumption
   DEF Blocks, Lists!Blocks, UOff, Lists!UOff, UEnd, Lists!UEnd

LEMMA LayoutFacts ==
  ASSUME NEW f, LayoutOK(f)
  PROVE  /\ Len(mBlocks[f]) \in Nat \ {0}
         /\ 1 \in Blocks(f) /\ Len(mBlocks[f]) \in Blocks(f)
         /\ UncompressedSize(f) = UEnd(f, Len(mBlocks[f]))
         /\ UncompressedSize(f) \in Nat
         /\ \A b \in Blocks(f) : 0 < UEnd(f, b) /\ UEnd(f, b) <= UncompressedSize(f)
BY SameLayouts, Lists!LayoutFacts, LayoutAssumption
   DEF Blocks, Lists!Blocks, UOff, Lists!UOff, UEnd, Lists!UEnd,
       UncompressedSize, Lists!UncompressedSize

LEMMA NoWrap ==
  ASSUME NEW f, LayoutOK(f), NEW b \in Blocks(f), NEW o \in Nat
  PROVE  EndsBefore(f, b, o) <=> UEnd(f, b) <= o
BY SameLayouts, Lists!NoWrap, LayoutAssumption
   DEF Blocks, Lists!Blocks, UEnd, Lists!UEnd, EndsBefore, Lists!EndsBefore,
       LastByte, Lists!LastByte

LEMMA Partitioned ==
  ASSUME NEW f, LayoutOK(f), NEW o \in Nat,
         NEW a \in Blocks(f), NEW b \in Blocks(f), a <= b, EndsBefore(f, b, o)
  PROVE  EndsBefore(f, a, o)
BY SameLayouts, Lists!Partitioned, LayoutAssumption
   DEF Blocks, Lists!Blocks, UEnd, Lists!UEnd, EndsBefore, Lists!EndsBefore,
       LastByte, Lists!LastByte

(* The buffer that holds what block b of file f decompresses to.           *)
Own(f, b) == [file |-> f, blk |-> b]

(* A request that BeginRead accepts.                                       *)
Readable(q) == q \in Requests /\ q.off < UncompressedSize(q.file)

-----------------------------------------------------------------------------
(* Copying one block of a request                                          *)

(* What FileReads promises is phrased with the same layout.                *)
LEMMA ContentsFacts ==
  ASSUME NEW q, Readable(q)
  PROVE  /\ q.file \in Files /\ q.off \in Nat /\ q.size \in Nat \ {0}
         /\ LayoutOK(q.file)
         /\ Reads!RequestEnd(q) \in Nat /\ q.off < Reads!RequestEnd(q)
         /\ Reads!RequestEnd(q) <= q.off + q.size
         /\ Reads!RequestEnd(q) <= UncompressedSize(q.file)
         /\ \/ Reads!RequestEnd(q) = q.off + q.size
            \/ Reads!RequestEnd(q) = UncompressedSize(q.file)
         /\ Reads!Contents(q) =
              {<<o - q.off, [file |-> q.file, at |-> o]>> :
                  o \in q.off..Reads!RequestEnd(q) - 1}
<1>1. q.file \in Files /\ q.off \in Nat /\ q.size \in Nat \ {0}
  BY CacheAssumption DEF Readable
<1>2. LayoutOK(q.file)
  BY <1>1, LayoutAssumption
<1>3. UncompressedSize(q.file) \in Nat /\ q.off < UncompressedSize(q.file)
  BY <1>2, LayoutFacts DEF Readable
<1>4. Reads!RequestEnd(q) =
        IF q.off + q.size <= UncompressedSize(q.file)
        THEN q.off + q.size ELSE UncompressedSize(q.file)
  BY DEF Reads!RequestEnd, Reads!UncompressedSize, Reads!UEnd, UncompressedSize, UEnd
<1> QED
  BY <1>1, <1>2, <1>3, <1>4 DEF Reads!Contents

(* The callback's omin and omax stay within the block and the request.     *)
LEMMA CopyBounds ==
  ASSUME NEW q, Readable(q), NEW b \in Blocks(q.file)
  PROVE  /\ OMin(q, b) \in Nat /\ OMax(q, b) \in Nat
         /\ q.off <= OMin(q, b) /\ OMax(q, b) <= Reads!RequestEnd(q)
         /\ UOff(q.file, b) <= OMin(q, b) /\ OMax(q, b) <= UEnd(q.file, b)
<1>1. /\ UOff(q.file, b) \in Nat /\ UEnd(q.file, b) \in Nat
      /\ UEnd(q.file, b) <= UncompressedSize(q.file)
      /\ UncompressedSize(q.file) \in Nat
  BY ContentsFacts, BlockFacts, LayoutFacts
<1> QED
  BY <1>1, ContentsFacts DEF OMin, OMax

(* The callback copies bytes of the request, each to its place, ...        *)
LEMMA PieceIsRight ==
  ASSUME NEW q, Readable(q), NEW b \in Blocks(q.file)
  PROVE  Piece(q, b, Own(q.file, b)) \subseteq Reads!Contents(q)
<1> SUFFICES ASSUME NEW o \in OMin(q, b)..OMax(q, b) - 1
             PROVE  <<o - q.off, [file |-> q.file,
                        at |-> UOff(q.file, b) + o - UOff(q.file, b)]>>
                      \in Reads!Contents(q)
  BY DEF Piece, Own
<1>1. UOff(q.file, b) \in Nat /\ o \in Nat
  BY CopyBounds, ContentsFacts, BlockFacts
<1>2. UOff(q.file, b) + o - UOff(q.file, b) = o
  BY <1>1
<1>3. o \in q.off..Reads!RequestEnd(q) - 1
  BY <1>1, CopyBounds, ContentsFacts
<1> QED
  BY <1>2, <1>3, ContentsFacts

(* ... and every requested byte of the block.                              *)
LEMMA PieceIsComplete ==
  ASSUME NEW q, Readable(q), NEW b \in Blocks(q.file),
         NEW o \in q.off..Reads!RequestEnd(q) - 1,
         UOff(q.file, b) <= o, o < UEnd(q.file, b)
  PROVE  /\ <<o - q.off, [file |-> q.file, at |-> o]>> \in Piece(q, b, Own(q.file, b))
         /\ o < OMax(q, b)
<1>1. /\ UOff(q.file, b) \in Nat /\ UEnd(q.file, b) \in Nat
      /\ o \in Nat /\ q.off \in Nat /\ q.size \in Nat /\ o < q.off + q.size
  BY ContentsFacts, BlockFacts
<1>2. o \in OMin(q, b)..OMax(q, b) - 1 /\ o < OMax(q, b)
  BY <1>1, CopyBounds DEF OMin, OMax
<1>3. UOff(q.file, b) + o - UOff(q.file, b) = o
  BY <1>1
<1> QED
  BY <1>2, <1>3 DEF Piece, Own

-----------------------------------------------------------------------------
(* The inductive invariant, for one reader                                 *)

(* The blocks that the reader's lookup loop has passed since its first.    *)
Covered(r) == {b \in Blocks(req[r].file) :
                  b < it[r] /\ ~EndsBefore(req[r].file, b, req[r].off)}

(* Block b has reached the caller's buffer.                                *)
Delivered(r, b) ==
    /\ Piece(req[r], b, Own(req[r].file, b)) \subseteq copied[r]
    /\ OMax(req[r], b) <= max[r]

(* Where jobs may be in flight, and that they are counted.                 *)
Counting(r) ==
    /\ Outstanding(r) # {} =>
        \/ rpc[r] \in {"enqueue", "wait"}
        \/ (SpuriousWakeups /\ rpc[r] \in {"woken", "done"})
    /\ rpc[r] \notin {"lookup", "enqueue"} => need[r] = {}
    /\ \A j \in Outstanding(r) : j.file = req[r].file /\ j.blk \notin need[r]
    /\ process = "up" =>
        /\ rpc[r] \in {"enqueue", "wait"} => Pending(r) # {}
        /\ HasFrame(r) => IsFiniteSet(Pending(r)) /\ remain[r] = Cardinality(Pending(r))

(* Where the lookup loop is.                                               *)
Position(r) ==
    rpc[r] # "idle" =>
        /\ Readable(req[r])
        /\ it[r] \in 1..Len(mBlocks[req[r].file]) + 1
        /\ it[r] \in Blocks(req[r].file) => ~EndsBefore(req[r].file, it[r], req[r].off)
        /\ Pending(r) \subseteq Covered(r)
        /\ \A b \in Pending(r) : UOff(req[r].file, b) < req[r].off + req[r].size
        /\ rpc[r] \in {"enqueue", "wait", "woken", "done"} =>
              \A b \in Blocks(req[r].file) :
                  UOff(req[r].file, b) < req[r].off + req[r].size => b < it[r]

(* What the caller's buffer holds so far.                                  *)
Bytes(r) ==
    /\ rpc[r] = "idle" => copied[r] = {}
    /\ rpc[r] # "idle" =>
        /\ copied[r] \subseteq Reads!Contents(req[r])
        /\ max[r] \in Nat /\ req[r].off <= max[r] /\ max[r] <= Reads!RequestEnd(req[r])
        /\ process = "up" \/ rpc[r] = "done" =>
              \A b \in Covered(r) \ Pending(r) : Delivered(r, b)
        /\ \A w \in Workers :
              jpc[w] = "complete" /\ wjob[w].rd = r => Delivered(r, wjob[w].blk)

ReaderOK(r) == Counting(r) /\ Position(r) /\ Bytes(r)

PoolOK == Pool!TypeOK /\ Pool!OneOwner

(* A worker that has yet to count down is at its job.                      *)
CompleteRuns == \A w \in Workers : jpc[w] = "complete" => wpc[w] = "running"

Inv ==
    /\ TypeOK
    /\ PoolOK
    /\ CacheFaithful
    /\ CompleteRuns
    /\ \A r \in Readers : ReaderOK(r)

(* A step that touches nothing of a reader keeps the reader's part.        *)
LEMMA Untouched ==
  ASSUME NEW r \in Readers, ReaderOK(r),
         rpc'[r] = rpc[r], req'[r] = req[r], it'[r] = it[r], need'[r] = need[r],
         remain'[r] = remain[r], max'[r] = max[r], copied'[r] = copied[r],
         Outstanding(r)' = Outstanding(r),
         \A w \in Workers : jpc'[w] = "complete" /\ wjob'[w].rd = r =>
             jpc[w] = "complete" /\ wjob[w] = wjob'[w],
         process' = "up" => process = "up"
  PROVE  ReaderOK(r)'
<1>1. Pending(r)' = Pending(r)
  BY DEF Pending
<1>2. Covered(r)' = Covered(r)
  BY DEF Covered
<1>3. ASSUME NEW b PROVE Delivered(r, b)' <=> Delivered(r, b)
  BY DEF Delivered
<1>4. HasFrame(r)' <=> HasFrame(r)
  BY DEF HasFrame
<1>5. Counting(r)'
  BY <1>1, <1>4 DEF ReaderOK, Counting
<1>6. Position(r)'
  BY <1>1, <1>2 DEF ReaderOK, Position
<1>7. Bytes(r)'
  BY <1>1, <1>2, <1>3 DEF ReaderOK, Bytes
<1> QED
  BY <1>5, <1>6, <1>7 DEF ReaderOK

-----------------------------------------------------------------------------
(* What the pool's operations do to the jobs in flight                     *)

PoolStep ==
    \/ \E job \in Job : Pool!Enqueue(job)
    \/ \E w \in Workers : \/ Pool!TakeJob(w) \/ Pool!SleepForJob(w) \/ Pool!SpuriousWakeup(w)
                          \/ Pool!FinishJob(w) \/ Pool!JobThrows(w)

(* Readers and workers use the pool by its operations only, so it keeps    *)
(* its own invariant.                                                      *)
LEMMA PoolKeepsOK == ASSUME PoolOK, PoolStep PROVE PoolOK'
<1>1. /\ PoolProofs!IsFiniteSet(Workers) /\ Workers # {}
      /\ Failing \subseteq Job /\ Null \notin Job
  BY CacheAssumption, JobAssumption DEF Failing, PoolProofs!IsFiniteSet, IsFiniteSet
<1>2. ASSUME NEW job \in Job, Pool!Enqueue(job) PROVE PoolProofs!Next
  <2>1. PoolProofs!Enqueue(job)
    BY <1>2 DEF Pool!Enqueue, Pool!Signal, Pool!Asleep, Pool!Queued, Pool!Running,
       PoolProofs!Enqueue, PoolProofs!Signal, PoolProofs!Asleep, PoolProofs!Queued,
       PoolProofs!Running
  <2> QED
    BY <2>1 DEF PoolProofs!Next
<1>3. ASSUME NEW w \in Workers,
             \/ Pool!TakeJob(w) \/ Pool!SleepForJob(w) \/ Pool!SpuriousWakeup(w)
             \/ Pool!FinishJob(w) \/ Pool!JobThrows(w)
      PROVE  PoolProofs!Next
  <2>1. PoolProofs!WorkerStep(w) \/ PoolProofs!SpuriousWakeup(w)
    BY <1>3 DEF Pool!TakeJob, Pool!SleepForJob, Pool!SpuriousWakeup, Pool!FinishJob,
       Pool!JobThrows, PoolProofs!TakeJob, PoolProofs!SleepForJob,
       PoolProofs!SpuriousWakeup, PoolProofs!FinishJob, PoolProofs!JobThrows,
       PoolProofs!WorkerStep
  <2> QED
    BY <2>1 DEF PoolProofs!Next
<1>4. PoolProofs!TypeOK /\ PoolProofs!OneOwner
  BY DEF PoolOK, Pool!TypeOK, Pool!OneOwner, PoolProofs!TypeOK, PoolProofs!OneOwner
<1>5. PoolProofs!TypeOK' /\ PoolProofs!OneOwner'
  BY <1>1, <1>2, <1>3, <1>4, PoolProofs!TypeStep, PoolProofs!OneOwnerStep DEF PoolStep
<1> QED
  BY <1>5 DEF PoolOK, Pool!TypeOK, Pool!OneOwner, PoolProofs!TypeOK, PoolProofs!OneOwner

LEMMA SameJobs == UNCHANGED <<mJobs, wpc, wjob>> => InFlight' = InFlight
  BY DEF InFlight, Pool!Queued, Pool!Running

LEMMA EnqueueJob ==
  ASSUME Pool!TypeOK, NEW job \in Job, Pool!Enqueue(job)
  PROVE  InFlight' = InFlight \cup {job} /\ job \notin InFlight
<1>1. /\ mJobs \in Seq(Job \cup {Null}) /\ mJobs' = Append(mJobs, job)
      /\ wjob' = wjob
  BY DEF Pool!TypeOK, Pool!Enqueue
<1>2. /\ Len(mJobs) \in Nat /\ Len(mJobs') = Len(mJobs) + 1
      /\ \A i \in 1..Len(mJobs) : mJobs'[i] = mJobs[i]
      /\ mJobs'[Len(mJobs) + 1] = job
  BY <1>1
<1>3. \A j : Pool!Queued(j)' <=> Pool!Queued(j) \/ j = job
  BY <1>2 DEF Pool!Queued
<1>4. \A j \in Job : Pool!Running(j)' <=> Pool!Running(j)
  <2>1. CASE Pool!Asleep = {}
    BY <1>1, <2>1 DEF Pool!Enqueue, Pool!Signal, Pool!Running
  <2>2. CASE Pool!Asleep # {}
    <3>1. PICK w \in Pool!Asleep : wpc' = [wpc EXCEPT ![w] = "ready"]
      BY <2>2 DEF Pool!Enqueue, Pool!Signal
    <3> QED
      BY <1>1, <3>1 DEF Pool!TypeOK, Pool!Asleep, Pool!Running
  <2> QED
    BY <2>1, <2>2
<1> QED
  BY <1>3, <1>4 DEF InFlight, Pool!Enqueue

LEMMA TakeKeepsJobs ==
  ASSUME Pool!TypeOK, NEW w \in Workers, Pool!TakeJob(w)
  PROVE  InFlight' = InFlight
<1>1. /\ Len(mJobs) \in Nat \ {0} /\ Head(mJobs) = mJobs[1]
      /\ Len(mJobs') = Len(mJobs) - 1
      /\ \A i \in 1..Len(mJobs') : mJobs'[i] = mJobs[i+1]
  BY DEF Pool!TypeOK, Pool!TakeJob
<1>2. /\ wpc' = [wpc EXCEPT ![w] = "running"] /\ wpc[w] = "ready"
      /\ wjob' = [wjob EXCEPT ![w] = mJobs[1]]
  BY <1>1 DEF Pool!TakeJob
<1>3. \A j : Pool!Queued(j) <=> Pool!Queued(j)' \/ j = mJobs[1]
  <2> SUFFICES ASSUME NEW j PROVE Pool!Queued(j) <=> Pool!Queued(j)' \/ j = mJobs[1]
    OBVIOUS
  <2>1. ASSUME Pool!Queued(j) PROVE Pool!Queued(j)' \/ j = mJobs[1]
    <3>1. PICK i \in 1..Len(mJobs) : mJobs[i] = j
      BY <2>1 DEF Pool!Queued
    <3>2. CASE i = 1
      BY <3>1, <3>2
    <3>3. CASE i # 1
      <4>1. i - 1 \in 1..Len(mJobs') /\ mJobs'[i - 1] = j
        BY <1>1, <3>1, <3>3
      <4> QED
        BY <4>1 DEF Pool!Queued
    <3> QED
      BY <3>2, <3>3
  <2>2. ASSUME Pool!Queued(j)' PROVE Pool!Queued(j)
    BY <1>1, <2>2 DEF Pool!Queued
  <2> QED
    BY <1>1, <2>1, <2>2, SMTT(60) DEF Pool!Queued
<1>4. \A j : Pool!Running(j)' <=> Pool!Running(j) \/ j = mJobs[1]
  BY <1>2 DEF Pool!TypeOK, Pool!Running
<1> QED
  BY <1>3, <1>4 DEF InFlight

LEMMA SleepKeepsJobs ==
  ASSUME Pool!TypeOK, NEW w \in Workers, Pool!SleepForJob(w) \/ Pool!SpuriousWakeup(w)
  PROVE  InFlight' = InFlight
  BY DEF Pool!TypeOK, Pool!SleepForJob, Pool!SpuriousWakeup, InFlight, Pool!Queued,
     Pool!Running

LEMMA FinishRemovesJob ==
  ASSUME Pool!TypeOK, Pool!OneOwner, NEW w \in Workers, Pool!FinishJob(w)
  PROVE  InFlight' = InFlight \ {wjob[w]} /\ wjob[w] \in InFlight
<1>1. /\ wpc' = [wpc EXCEPT ![w] = "ready"] /\ wpc[w] = "running"
      /\ wjob' = [wjob EXCEPT ![w] = Null] /\ mJobs' = mJobs
      /\ wjob[w] \in Job /\ wjob[w] # Null
  BY DEF Pool!FinishJob, Pool!TypeOK
<1>2. ~Pool!Queued(wjob[w]) /\ \A v \in Workers : wjob[v] = wjob[w] => v = w
  BY <1>1 DEF Pool!OneOwner, Pool!Queued
<1>3. \A j \in Job : Pool!Running(j)' <=> Pool!Running(j) /\ j # wjob[w]
  BY <1>1, <1>2 DEF Pool!TypeOK, Pool!Running
<1>4. Pool!Running(wjob[w])
  BY <1>1 DEF Pool!Running
<1>5. \A j : Pool!Queued(j)' <=> Pool!Queued(j)
  BY <1>1 DEF Pool!Queued
<1> QED
  BY <1>1, <1>2, <1>3, <1>4, <1>5 DEF InFlight

(* A worker that runs a job holds one of its reader's outstanding jobs.    *)
LEMMA RunningIsOutstanding ==
  ASSUME Pool!TypeOK, NEW w \in Workers, wpc[w] = "running"
  PROVE  wjob[w] \in Job /\ wjob[w].rd \in Readers /\ wjob[w] \in Outstanding(wjob[w].rd)
<1>1. wjob[w] \in Job
  BY DEF Pool!TypeOK
<1> QED
  BY <1>1 DEF Outstanding, InFlight, Pool!Running, Job

-----------------------------------------------------------------------------
(* What holds at a job, and what its callback does                         *)

(* The blocks of a readable file are finitely many.                        *)
LEMMA BlocksFinite ==
  ASSUME NEW q, Readable(q), NEW S \in SUBSET Blocks(q.file)
  PROVE  IsFiniteSet(S) /\ Cardinality(S) \in Nat
<1>1. Len(mBlocks[q.file]) \in Nat
  BY ContentsFacts, LayoutFacts
<1>2. IsFiniteSet(Blocks(q.file))
  BY <1>1, FS_Interval DEF Blocks
<1> QED
  BY <1>2, FS_Subset, FS_CardinalityType

(* A job at work is for a block that its reader asked for.                 *)
LEMMA HeldBlock ==
  ASSUME Inv, NEW w \in Workers, wpc[w] = "running",
         NEW j, j = wjob[w], NEW r, r = j.rd
  PROVE  /\ j \in Job /\ r \in Readers /\ j \in Outstanding(r)
         /\ rpc[r] \in {"enqueue", "wait", "woken", "done"}
         /\ Readable(req[r]) /\ j.file = req[r].file
         /\ j.blk \in Pending(r) /\ j.blk \in Covered(r)
         /\ j.blk \in Blocks(req[r].file) /\ j.blk \notin need[r]
<1>1. j \in Job /\ r \in Readers /\ j \in Outstanding(r)
  BY RunningIsOutstanding DEF Inv, PoolOK
<1>2. Counting(r) /\ Position(r)
  BY <1>1 DEF Inv, ReaderOK
<1>3. /\ rpc[r] \in {"enqueue", "wait", "woken", "done"}
      /\ j.file = req[r].file /\ j.blk \notin need[r]
  BY <1>1, <1>2 DEF Counting
<1>4. j.blk \in Pending(r)
  BY <1>1 DEF Pending
<1> QED
  BY <1>1, <1>2, <1>3, <1>4 DEF Position, Covered

(* What the copy of a block of the request leaves in the caller's buffer.  *)
LEMMA CallbackCopies ==
  ASSUME NEW r \in Readers, TypeOK, ReaderOK(r), rpc[r] # "idle",
         NEW b \in Blocks(req[r].file), Callback(r, b, Own(req[r].file, b)),
         req' = req
  PROVE  /\ copied' \in [Readers -> SUBSET (Nat \X [file : Files, at : Nat])]
         /\ max' \in [Readers -> Nat]
         /\ \A x \in Readers \ {r} : copied'[x] = copied[x] /\ max'[x] = max[x]
         /\ copied'[r] \subseteq Reads!Contents(req[r])
         /\ req[r].off <= max'[r] /\ max'[r] <= Reads!RequestEnd(req[r])
         /\ Delivered(r, b)'
         /\ \A c \in Blocks(req[r].file) : Delivered(r, c) => Delivered(r, c)'
<1> DEFINE q == req[r]
<1>1. Readable(q) /\ Bytes(r)
  BY DEF ReaderOK, Position
<1>2. /\ copied \in [Readers -> SUBSET (Nat \X [file : Files, at : Nat])]
      /\ max \in [Readers -> Nat]
  BY DEF TypeOK
<1>3. /\ copied' = [copied EXCEPT ![r] = @ \cup Piece(q, b, Own(q.file, b))]
      /\ max' = [max EXCEPT ![r] = IF @ < OMax(q, b) THEN OMax(q, b) ELSE @]
  BY DEF Callback
<1>4. /\ Piece(q, b, Own(q.file, b)) \subseteq Reads!Contents(q)
      /\ OMax(q, b) \in Nat /\ OMax(q, b) <= Reads!RequestEnd(q)
      /\ Reads!RequestEnd(q) \in Nat /\ q.off \in Nat
  BY <1>1, PieceIsRight, CopyBounds, ContentsFacts
<1>5. Reads!Contents(q) \subseteq Nat \X [file : Files, at : Nat]
  BY <1>1, ContentsFacts
<1>6. /\ copied'[r] = copied[r] \cup Piece(q, b, Own(q.file, b))
      /\ max'[r] = IF max[r] < OMax(q, b) THEN OMax(q, b) ELSE max[r]
      /\ \A x \in Readers \ {r} : copied'[x] = copied[x] /\ max'[x] = max[x]
  BY <1>2, <1>3
<1>7. /\ copied[r] \subseteq Reads!Contents(q)
      /\ max[r] \in Nat /\ q.off <= max[r] /\ max[r] <= Reads!RequestEnd(q)
  BY <1>1 DEF Bytes
<1>8. max'[r] \in Nat /\ max[r] <= max'[r] /\ OMax(q, b) <= max'[r]
  BY <1>4, <1>6, <1>7
<1>9. copied' \in [Readers -> SUBSET (Nat \X [file : Files, at : Nat])]
  BY <1>2, <1>3, <1>4, <1>5
<1>10. max' \in [Readers -> Nat]
  BY <1>2, <1>3, <1>4
<1>11. Delivered(r, b)'
  BY <1>6, <1>8 DEF Delivered
<1>12. ASSUME NEW c \in Blocks(q.file), Delivered(r, c) PROVE Delivered(r, c)'
  <2>1. OMax(q, c) \in Nat
    BY <1>1, CopyBounds
  <2>2. OMax(q, c) <= max[r] /\ Piece(q, c, Own(q.file, c)) \subseteq copied[r]
    BY <1>12 DEF Delivered
  <2>3. OMax(q, c) <= max'[r]
    BY <2>1, <2>2, <1>7, <1>8
  <2> QED
    BY <1>6, <2>2, <2>3 DEF Delivered
<1>13. q.off <= max'[r] /\ max'[r] <= Reads!RequestEnd(q)
  BY <1>4, <1>6, <1>7
<1> QED
  BY <1>4, <1>6, <1>7, <1>9, <1>10, <1>11, <1>12, <1>13

-----------------------------------------------------------------------------
(* The cache stays faithful                                                *)

(* find() moves a node and changes no entry.                               *)
LEMMA FindKeepsMap == ASSUME NEW k, Cache!Find(k) PROVE mMap' = mMap
  BY DEF Cache!Find, Cache!MarkNew, Cache!lruVars

(* Different blocks have different keys.                                   *)
LEMMA KeyInjective ==
  ASSUME NEW f \in Files, NEW b \in Blocks(f), NEW g \in Files, NEW c \in Blocks(g),
         Key(f, b) = Key(g, c)
  PROVE  f = g /\ b = c
<1>1. f = g /\ mBlocks[f][b].coff = mBlocks[g][c].coff
  BY DEF Key
<1>2. LayoutOK(f)
  BY LayoutAssumption
<1> QED
  BY <1>1, <1>2 DEF LayoutOK

(* add() keeps or evicts the other entries and adds the block's own.       *)
LEMMA AddKeepsFaithful ==
  ASSUME CacheFaithful, NEW f \in Files, NEW b \in Blocks(f), NEW n,
         Cache!Add(Key(f, b), Own(f, b), n)
  PROVE  CacheFaithful'
<1> SUFFICES ASSUME NEW g \in Files, NEW c \in Blocks(g), Key(g, c) \in DOMAIN mMap'
             PROVE  mMap'[Key(g, c)].value = Own(g, c)
  BY DEF CacheFaithful, Own
<1>1. CASE mMap' = mMap
  BY <1>1 DEF CacheFaithful, Own
<1>2. CASE Cache!Insert(Key(f, b), Own(f, b), n)
  <2> DEFINE e == [key |-> Key(f, b), value |-> Own(f, b), weight |-> n]
  <2>1. PICK m : mMap' = [x \in DOMAIN Cache!MapOfFirst(m) \cup {Key(f, b)} |->
                             IF x = Key(f, b) THEN e ELSE mMap[x]]
    BY <1>2 DEF Cache!Insert
  <2>2. DOMAIN Cache!MapOfFirst(m) \subseteq DOMAIN mMap
    BY DEF Cache!MapOfFirst
  <2>3. CASE Key(g, c) = Key(f, b)
    BY <2>1, <2>3, KeyInjective
  <2>4. CASE Key(g, c) # Key(f, b)
    BY <2>1, <2>2, <2>4 DEF CacheFaithful, Own
  <2> QED
    BY <2>3, <2>4
<1> QED
  BY <1>1, <1>2 DEF Cache!Add, Cache!MarkNew, Cache!lruVars

-----------------------------------------------------------------------------
(* The reader's steps                                                      *)

(* A step that leaves the pool alone, except that the process may end.     *)
LEMMA PoolUntouched ==
  ASSUME PoolOK, UNCHANGED poolVars,
         process' \in {"up", "terminated", "undefined", "exited"}
  PROVE  PoolOK' /\ InFlight' = InFlight
<1>1. InFlight' = InFlight
  BY SameJobs DEF poolVars
<1> QED
  BY <1>1 DEF PoolOK, Pool!TypeOK, Pool!OneOwner, poolVars

(* A step of reader r that leaves jobs, cache and the other readers alone. *)
LEMMA OthersUntouched ==
  ASSUME Inv, NEW r \in Readers, UNCHANGED <<process, poolVars, jpc>>,
         \A x \in Readers \ {r} :
             /\ rpc'[x] = rpc[x] /\ req'[x] = req[x] /\ it'[x] = it[x]
             /\ need'[x] = need[x] /\ remain'[x] = remain[x]
             /\ max'[x] = max[x] /\ copied'[x] = copied[x]
  PROVE  /\ PoolOK' /\ CompleteRuns' /\ Outstanding(r)' = Outstanding(r)
         /\ \A x \in Readers \ {r} : ReaderOK(x)'
<1>1. PoolOK' /\ InFlight' = InFlight
  BY PoolUntouched DEF Inv, PoolOK, Pool!TypeOK
<1>2. ASSUME NEW x \in Readers PROVE Outstanding(x)' = Outstanding(x)
  BY <1>1 DEF Outstanding
<1>3. wjob' = wjob /\ wpc' = wpc
  BY DEF poolVars
<1>4. ASSUME NEW x \in Readers \ {r} PROVE ReaderOK(x)'
  BY <1>2, <1>3, Untouched DEF Inv
<1> QED
  BY <1>1, <1>2, <1>3, <1>4 DEF Inv, CompleteRuns

(* The first block findBlock returns is behind everything the request skips*)
LEMMA BeginReadStep ==
  ASSUME Inv, NEW r \in Readers, NEW q \in Requests, BeginRead(r, q)
  PROVE  Inv'
<1> USE DEF BeginRead
<1>0. ReaderOK(r) /\ TypeOK /\ rpc[r] = "idle"
  BY DEF Inv
<1>1. PICK i \in Blocks(q.file) : IsLowerBound(q.file, q.off, i) /\ it' = [it EXCEPT ![r] = i]
  OBVIOUS
<1>2. q.file \in Files /\ q.off \in Nat /\ q.size \in Nat /\ LayoutOK(q.file)
  BY CacheAssumption, LayoutAssumption
<1>3. i \in Nat /\ i \in 1..Len(mBlocks[q.file]) + 1 /\ Len(mBlocks[q.file]) \in Nat
  BY <1>2, LayoutFacts DEF Blocks
<1>4. ~EndsBefore(q.file, i, q.off) /\ \A b \in 1..i - 1 : EndsBefore(q.file, b, q.off)
  BY <1>1, <1>3 DEF IsLowerBound, Blocks
<1>5. Readable(q)
  <2>1. q.off < UEnd(q.file, i) /\ UEnd(q.file, i) <= UncompressedSize(q.file)
        /\ UEnd(q.file, i) \in Nat /\ UncompressedSize(q.file) \in Nat
    BY <1>2, <1>4, NoWrap, BlockFacts, LayoutFacts
  <2> QED
    BY <1>2, <2>1 DEF Readable
<1>6. /\ PoolOK' /\ CompleteRuns' /\ Outstanding(r)' = Outstanding(r)
      /\ \A x \in Readers \ {r} : ReaderOK(x)'
  BY <1>0, OthersUntouched DEF TypeOK
<1>7. Outstanding(r) = {} /\ need[r] = {} /\ copied[r] = {}
  BY <1>0 DEF ReaderOK, Counting, Bytes
<1>8. /\ rpc'[r] = "lock" /\ req'[r] = q /\ it'[r] = i /\ max'[r] = q.off
      /\ need'[r] = {} /\ copied'[r] = {} /\ process' = "up"
  BY <1>0, <1>1, <1>7 DEF TypeOK
<1>9. Pending(r)' = {} /\ Outstanding(r)' = {}
  BY <1>6, <1>7, <1>8 DEF Pending
<1>10. Covered(r)' = {}
  BY <1>3, <1>4, <1>8 DEF Covered, Blocks
<1>11. Counting(r)'
  BY <1>8, <1>9 DEF Counting, HasFrame
<1>12. Position(r)'
  BY <1>3, <1>4, <1>5, <1>8, <1>9, <1>10 DEF Position
<1>13. Bytes(r)'
  <2>1. ~\E w \in Workers : jpc'[w] = "complete" /\ wjob'[w].rd = r
    <3> SUFFICES ASSUME NEW w \in Workers, jpc[w] = "complete", wjob[w].rd = r PROVE FALSE
      BY DEF poolVars
    <3>1. wpc[w] = "running"
      BY DEF Inv, CompleteRuns
    <3> QED
      BY <1>0, <3>1, HeldBlock
  <2>2. q.off <= Reads!RequestEnd(q) /\ q.off \in Nat
    BY <1>2, <1>5, ContentsFacts
  <2>3. Reads!RequestEnd(req[r])' = Reads!RequestEnd(q)
    BY <1>8 DEF Reads!RequestEnd
  <2> QED
    BY <1>8, <1>10, <2>1, <2>2, <2>3 DEF Bytes
<1>14. TypeOK'
  <2>1. mMutex' = mMutex /\ mMutex # r
    BY <1>0 DEF TypeOK
  <2>2. max' \in [Readers -> Nat] /\ it' \in [Readers -> Nat]
    BY <1>0, <1>1, <1>2, <1>3 DEF TypeOK
  <2> QED
    BY <1>0, <1>6, <2>1, <2>2, CacheAssumption DEF TypeOK, PoolOK, ReaderPlaces
<1>15. CacheFaithful'
  BY DEF Inv, CacheFaithful, cacheVars
<1> QED
  BY <1>6, <1>11, <1>12, <1>13, <1>14, <1>15 DEF Inv, ReaderOK

(* No job has yet to count down for a reader that does not wait.           *)
LEMMA NoneComplete ==
  ASSUME Inv, NEW r \in Readers, rpc[r] \notin {"enqueue", "wait", "woken", "done"},
         NEW w \in Workers, jpc[w] = "complete", wjob[w].rd = r
  PROVE  FALSE
<1>1. wpc[w] = "running"
  BY DEF Inv, CompleteRuns
<1> QED
  BY <1>1, HeldBlock

LEMMA ReadPastEndStep ==
  ASSUME Inv, NEW r \in Readers, NEW q \in Requests, ReadPastEnd(r, q)
  PROVE  Inv'
<1> USE DEF ReadPastEnd
<1>1. PoolOK' /\ InFlight' = InFlight
  BY PoolUntouched DEF Inv
<1>2. ASSUME NEW x \in Readers PROVE ReaderOK(x)'
  <2>1. Outstanding(x)' = Outstanding(x)
    BY <1>1 DEF Outstanding
  <2> QED
    BY <2>1, Untouched DEF Inv, frameVars, poolVars
<1>3. TypeOK'
  BY <1>1 DEF Inv, TypeOK, PoolOK, frameVars
<1>4. CacheFaithful' /\ CompleteRuns'
  BY DEF Inv, CacheFaithful, CompleteRuns, cacheVars, poolVars
<1> QED
  BY <1>1, <1>2, <1>3, <1>4 DEF Inv

LEMMA LockCacheStep ==
  ASSUME Inv, NEW r \in Readers, LockCache(r)
  PROVE  Inv'
<1> USE DEF LockCache
<1>0. ReaderOK(r) /\ TypeOK /\ rpc[r] = "lock"
  BY DEF Inv
<1>1. /\ PoolOK' /\ CompleteRuns' /\ Outstanding(r)' = Outstanding(r)
      /\ \A x \in Readers \ {r} : ReaderOK(x)'
  BY <1>0, OthersUntouched DEF TypeOK, frameVars
<1>2. rpc'[r] = "lookup" /\ UNCHANGED <<req, it, need, remain, max, copied, process, jpc, wjob>>
  BY <1>0 DEF TypeOK, frameVars, poolVars
<1>3. Pending(r)' = Pending(r) /\ Covered(r)' = Covered(r)
      /\ \A b : Delivered(r, b)' <=> Delivered(r, b)
  BY <1>1, <1>2 DEF Pending, Covered, Delivered
<1>4. Counting(r)'
  BY <1>0, <1>1, <1>2, <1>3 DEF ReaderOK, Counting, HasFrame
<1>5. Position(r)' /\ Bytes(r)'
  BY <1>0, <1>2, <1>3 DEF ReaderOK, Position, Bytes
<1>6. TypeOK'
  BY <1>0, <1>1, CacheAssumption DEF TypeOK, PoolOK, ReaderPlaces, frameVars
<1>7. CacheFaithful'
  BY DEF Inv, CacheFaithful, cacheVars
<1> QED
  BY <1>1, <1>4, <1>5, <1>6, <1>7 DEF Inv, ReaderOK

(* One round of the lookup loop: the block is delivered or becomes pending.*)
LEMMA LookupBlockStep ==
  ASSUME Inv, NEW r \in Readers, LookupBlock(r)
  PROVE  Inv'
<1>0. ReaderOK(r) /\ TypeOK /\ CacheFaithful /\ rpc[r] = "lookup" /\ process = "up"
  BY DEF Inv, LookupBlock
<1>b. PICK b : b = it[r]
  OBVIOUS
<1> DEFINE q == req[r]
           k == Key(q.file, b)
<1>1. /\ Readable(q) /\ b \in Blocks(q.file) /\ b \in Nat
      /\ ~EndsBefore(q.file, b, q.off) /\ Pending(r) \subseteq Covered(r)
      /\ Outstanding(r) = {} /\ LayoutOK(q.file) /\ q.off \in Nat /\ q.file \in Files
      /\ Len(mBlocks[q.file]) \in Nat
      /\ \A c \in Pending(r) \cup {b} : UOff(q.file, c) < q.off + q.size
  BY <1>0, <1>b, ContentsFacts, LayoutFacts
     DEF ReaderOK, Counting, Position, LookupBlock, InRange, Blocks
<1>2. /\ UNCHANGED <<process, poolVars, mMutex, rpc, req, remain, jpc>>
      /\ it' = [it EXCEPT ![r] = b + 1] /\ it'[r] = b + 1 /\ mMap' = mMap /\ wjob' = wjob
      /\ it' \in [Readers -> Nat]
  BY <1>0, <1>b, <1>1, FindKeepsMap DEF LookupBlock, TypeOK, poolVars
<1>3. \/ /\ k \in DOMAIN mMap /\ Callback(r, b, mMap[k].value) /\ need' = need
      \/ need' = [need EXCEPT ![r] = @ \cup {b}] /\ UNCHANGED <<max, copied>>
  BY <1>b DEF LookupBlock
<1>4. Covered(r)' = Covered(r) \cup {b} /\ b \notin Covered(r)
  BY <1>b, <1>1, <1>2 DEF Covered, Blocks
<1>5. b + 1 \in Blocks(q.file) => ~EndsBefore(q.file, b + 1, q.off)
  BY <1>1, Partitioned
<1>6. b + 1 \in 1..Len(mBlocks[q.file]) + 1
  BY <1>1 DEF Blocks
<1>7. ASSUME NEW w \in Workers, jpc[w] = "complete", wjob[w].rd = r PROVE FALSE
  BY <1>0, <1>7, NoneComplete
<1>8. CASE k \in DOMAIN mMap /\ Callback(r, b, mMap[k].value) /\ need' = need
  <2>1. Callback(r, b, Own(q.file, b))
    BY <1>0, <1>1, <1>8 DEF CacheFaithful, Own
  <2>2. /\ copied' \in [Readers -> SUBSET (Nat \X [file : Files, at : Nat])]
        /\ max' \in [Readers -> Nat]
        /\ \A x \in Readers \ {r} : copied'[x] = copied[x] /\ max'[x] = max[x]
        /\ copied'[r] \subseteq Reads!Contents(q)
        /\ q.off <= max'[r] /\ max'[r] <= Reads!RequestEnd(q)
        /\ Delivered(r, b)'
        /\ \A c \in Blocks(q.file) : Delivered(r, c) => Delivered(r, c)'
    BY <1>0, <1>1, <1>2, <2>1, CallbackCopies
  <2>3. \A x \in Readers \ {r} : it'[x] = it[x]
    BY <1>0, <1>2 DEF TypeOK
  <2>4. /\ PoolOK' /\ CompleteRuns' /\ Outstanding(r)' = Outstanding(r)
        /\ \A x \in Readers \ {r} : ReaderOK(x)'
    BY <1>2, <1>8, <2>2, <2>3, OthersUntouched
  <2>5. Pending(r)' = Pending(r)
    BY <1>8, <2>4 DEF Pending
  <2>6. Counting(r)'
    BY <1>0, <1>2, <1>8, <2>4, <2>5 DEF ReaderOK, Counting, HasFrame
  <2>7. Position(r)'
    BY <1>0, <1>1, <1>2, <1>4, <1>5, <1>6, <2>5 DEF ReaderOK, Position
  <2>8. ASSUME NEW c \in Covered(r)' \ Pending(r)' PROVE Delivered(r, c)'
    BY <1>0, <1>4, <2>2, <2>5 DEF ReaderOK, Bytes, Covered
  <2>9. Bytes(r)'
    BY <1>0, <1>2, <1>7, <2>2, <2>8 DEF Bytes
  <2>10. TypeOK'
    BY <1>0, <1>2, <1>8, <2>2, <2>4 DEF TypeOK, PoolOK
  <2>11. CacheFaithful'
    BY <1>0, <1>2 DEF CacheFaithful
  <2> QED
    BY <2>4, <2>6, <2>7, <2>9, <2>10, <2>11 DEF Inv, ReaderOK
<1>9. CASE need' = [need EXCEPT ![r] = @ \cup {b}] /\ UNCHANGED <<max, copied>>
  <2>1. need'[r] = need[r] \cup {b} /\ need' \in [Readers -> SUBSET Nat]
    BY <1>0, <1>1, <1>9 DEF TypeOK
  <2>2. \A x \in Readers \ {r} : it'[x] = it[x] /\ need'[x] = need[x]
    BY <1>0, <1>2, <1>9 DEF TypeOK
  <2>3. /\ PoolOK' /\ CompleteRuns' /\ Outstanding(r)' = Outstanding(r)
        /\ \A x \in Readers \ {r} : ReaderOK(x)'
    BY <1>2, <1>9, <2>2, OthersUntouched
  <2>4. Pending(r)' = Pending(r) \cup {b}
    BY <2>1, <2>3 DEF Pending
  <2>5. Counting(r)'
    BY <1>0, <1>1, <1>2, <2>3 DEF Counting, HasFrame
  <2>6. Position(r)'
    BY <1>0, <1>1, <1>2, <1>4, <1>5, <1>6, <2>4 DEF ReaderOK, Position
  <2>7. \A c : Delivered(r, c)' <=> Delivered(r, c)
    BY <1>2, <1>9 DEF Delivered
  <2>8. Bytes(r)'
    BY <1>0, <1>2, <1>4, <1>7, <1>9, <2>4, <2>7 DEF ReaderOK, Bytes
  <2>9. TypeOK'
    BY <1>0, <1>2, <1>9, <2>1, <2>3 DEF TypeOK, PoolOK
  <2>10. CacheFaithful'
    BY <1>0, <1>2 DEF CacheFaithful
  <2> QED
    BY <2>3, <2>5, <2>6, <2>8, <2>9, <2>10 DEF Inv, ReaderOK
<1> QED
  BY <1>3, <1>8, <1>9

(* The loop has passed every block that starts in front of the request's   *)
(* end, and remain counts what it left pending.                            *)
LEMMA UnlockCacheStep ==
  ASSUME Inv, NEW r \in Readers, UnlockCache(r)
  PROVE  Inv'
<1> USE DEF UnlockCache
<1> DEFINE q == req[r]
<1>0. ReaderOK(r) /\ TypeOK /\ rpc[r] = "lookup" /\ process = "up"
  BY DEF Inv
<1>1. /\ Readable(q) /\ it[r] \in 1..Len(mBlocks[q.file]) + 1
      /\ Pending(r) \subseteq Covered(r) /\ Outstanding(r) = {}
      /\ LayoutOK(q.file) /\ q.off \in Nat /\ q.size \in Nat
      /\ Len(mBlocks[q.file]) \in Nat
  BY <1>0, ContentsFacts, LayoutFacts DEF ReaderOK, Counting, Position
<1>2. /\ rpc' = [rpc EXCEPT ![r] = IF need[r] = {} THEN "done" ELSE "enqueue"]
      /\ remain' = [remain EXCEPT ![r] = Cardinality(need[r])]
      /\ mMutex' = Null
      /\ UNCHANGED <<process, poolVars, cacheVars, req, it, need, max, copied, jpc, wjob>>
  BY DEF poolVars
<1>3. Pending(r) = need[r]
  BY <1>1 DEF Pending
<1>4. IsFiniteSet(need[r]) /\ Cardinality(need[r]) \in Nat
  BY <1>1, <1>3, BlocksFinite DEF Covered
<1>5. /\ PoolOK' /\ CompleteRuns' /\ Outstanding(r)' = Outstanding(r)
      /\ \A x \in Readers \ {r} : ReaderOK(x)'
  BY <1>0, <1>2, OthersUntouched DEF TypeOK
<1>6. /\ rpc'[r] = IF need[r] = {} THEN "done" ELSE "enqueue"
      /\ remain'[r] = Cardinality(need[r])
  BY <1>0, <1>2 DEF TypeOK
<1>7. Pending(r)' = need[r] /\ Covered(r)' = Covered(r)
      /\ \A b : Delivered(r, b)' <=> Delivered(r, b)
  BY <1>1, <1>2, <1>5 DEF Pending, Covered, Delivered
<1>8. ASSUME NEW b \in Blocks(q.file), UOff(q.file, b) < q.off + q.size PROVE b < it[r]
  <2>1. CASE it[r] \notin Blocks(q.file)
    BY <1>1, <2>1 DEF Blocks
  <2>2. CASE it[r] \in Blocks(q.file)
    <3>1. UOff(q.file, it[r]) >= q.off + q.size /\ UOff(q.file, it[r]) \in Nat
          /\ UEnd(q.file, it[r]) \in Nat /\ UOff(q.file, it[r]) <= UEnd(q.file, it[r])
          /\ UOff(q.file, b) \in Nat
      BY <1>1, <2>2, BlockFacts DEF InRange
    <3>2. CASE it[r] < b
      <4>1. UEnd(q.file, it[r]) <= UOff(q.file, b)
        BY <1>1, <2>2, <3>2 DEF LayoutOK
      <4> QED
        BY <1>1, <1>8, <3>1, <4>1
    <3>3. it[r] # b
      BY <1>1, <1>8, <3>1
    <3> QED
      BY <1>1, <3>2, <3>3 DEF Blocks
  <2> QED
    BY <2>1, <2>2
<1>9. Counting(r)'
  BY <1>1, <1>2, <1>4, <1>5, <1>6, <1>7 DEF Counting, HasFrame
<1>10. Position(r)'
  BY <1>0, <1>2, <1>3, <1>6, <1>7, <1>8 DEF ReaderOK, Position
<1>11. Bytes(r)'
  BY <1>0, <1>2, <1>3, <1>6, <1>7 DEF ReaderOK, Bytes
<1>12. TypeOK'
  <2>1. remain' \in [Readers -> Nat]
    BY <1>0, <1>2, <1>4 DEF TypeOK
  <2>2. rpc' \in [Readers -> ReaderPlaces]
    BY <1>0, <1>2 DEF TypeOK, ReaderPlaces
  <2>3. \A x \in Readers : rpc'[x] = "idle" <=> req'[x] = Null
    BY <1>0, <1>2 DEF TypeOK
  <2>4. mMutex = r
    BY <1>0 DEF TypeOK
  <2>5. \A x \in Readers : rpc'[x] = "lookup" <=> mMutex' = x
    BY <1>0, <1>2, <2>4, CacheAssumption DEF TypeOK
  <2> QED
    BY <1>0, <1>2, <1>5, <2>1, <2>2, <2>3, <2>5 DEF TypeOK, PoolOK
<1>13. CacheFaithful'
  BY DEF Inv, CacheFaithful, cacheVars
<1> QED
  BY <1>5, <1>9, <1>10, <1>11, <1>12, <1>13 DEF Inv, ReaderOK

(* A needed block becomes a job and stays pending.                         *)
LEMMA EnqueueStep ==
  ASSUME Inv, NEW r \in Readers, Enqueue(r)
  PROVE  Inv'
<1> DEFINE q == req[r]
<1>0. ReaderOK(r) /\ TypeOK /\ PoolOK /\ rpc[r] = "enqueue"
  BY DEF Inv, Enqueue
<1>1. PICK b \in need[r] : /\ Pool!Enqueue([rd |-> r, file |-> q.file, blk |-> b])
                           /\ need' = [need EXCEPT ![r] = @ \ {b}]
  BY DEF Enqueue
<1>2. PICK job : job = [rd |-> r, file |-> q.file, blk |-> b]
  OBVIOUS
<1>3. /\ UNCHANGED <<cacheVars, mMutex, rpc, req, it, remain, max, copied, jpc>>
      /\ UNCHANGED <<process, wjob>> /\ process = "up"
  BY <1>1 DEF Enqueue, Pool!Enqueue
<1>4. /\ Readable(q) /\ Pending(r) \subseteq Covered(r) /\ q.file \in Files
  BY <1>0, ContentsFacts DEF ReaderOK, Position
<1>5. b \in Blocks(q.file)
  BY <1>4 DEF Pending, Covered
<1>6. job \in Job /\ job.rd = r /\ job.file = q.file /\ job.blk = b
  BY <1>2, <1>4, <1>5 DEF Job
<1>7. Pool!Enqueue(job) /\ InFlight' = InFlight \cup {job} /\ PoolOK'
  BY <1>0, <1>1, <1>2, <1>6, EnqueueJob, PoolKeepsOK DEF PoolStep, PoolOK
<1>8. /\ need'[r] = need[r] \ {b} /\ need' \in [Readers -> SUBSET Nat]
      /\ \A x \in Readers \ {r} : need'[x] = need[x]
  BY <1>0, <1>1 DEF TypeOK
<1>9. Outstanding(r)' = Outstanding(r) \cup {job}
  BY <1>6, <1>7 DEF Outstanding
<1>10. Pending(r)' = Pending(r)
  BY <1>6, <1>8, <1>9 DEF Pending
<1>11. ASSUME NEW x \in Readers \ {r} PROVE ReaderOK(x)'
  <2>1. Outstanding(x)' = Outstanding(x)
    BY <1>6, <1>7 DEF Outstanding
  <2> QED
    BY <1>3, <1>8, <2>1, Untouched DEF Inv
<1>12. Covered(r)' = Covered(r) /\ \A c : Delivered(r, c)' <=> Delivered(r, c)
  BY <1>3 DEF Covered, Delivered
<1>13. Counting(r)'
  BY <1>0, <1>3, <1>6, <1>8, <1>9, <1>10 DEF ReaderOK, Counting, HasFrame
<1>14. Position(r)' /\ Bytes(r)'
  BY <1>0, <1>3, <1>10, <1>12 DEF ReaderOK, Position, Bytes
<1>15. TypeOK'
  BY <1>0, <1>3, <1>7, <1>8 DEF TypeOK, PoolOK
<1>16. CompleteRuns'
  <2> SUFFICES ASSUME NEW w \in Workers, jpc[w] = "complete" PROVE wpc'[w] = "running"
    BY <1>3 DEF CompleteRuns
  <2>1. wpc[w] = "running" /\ wpc \in [Workers -> {"ready", "asleep", "running", "exited"}]
    BY <1>0 DEF Inv, CompleteRuns, PoolOK, Pool!TypeOK
  <2> QED
    BY <1>7, <2>1 DEF Pool!Enqueue, Pool!Signal, Pool!Asleep
<1>17. CacheFaithful'
  BY <1>3 DEF Inv, CacheFaithful, cacheVars
<1> QED
  BY <1>7, <1>11, <1>13, <1>14, <1>15, <1>16, <1>17 DEF Inv, ReaderOK

(* Waiting, being back from the wait: only the reader's place changes.     *)
LEMMA WaitStep ==
  ASSUME Inv, NEW r \in Readers, Wait(r) \/ SpuriousReaderWakeup(r) \/ Return(r)
  PROVE  Inv'
<1>0. ReaderOK(r) /\ TypeOK /\ process = "up"
  BY DEF Inv, Wait, SpuriousReaderWakeup, Return
<1>1. /\ UNCHANGED <<process, poolVars, cacheVars, mMutex, req, it, need, remain>>
      /\ UNCHANGED <<max, copied, jpc, wjob>>
  BY DEF Wait, SpuriousReaderWakeup, Return, frameVars, poolVars
<1>2. \/ rpc[r] = "enqueue" /\ need[r] = {} /\ rpc' = [rpc EXCEPT ![r] = "wait"]
      \/ SpuriousWakeups /\ rpc[r] = "wait" /\ rpc' = [rpc EXCEPT ![r] = "woken"]
      \/ rpc[r] = "woken" /\ rpc' = [rpc EXCEPT ![r] = "done"]
  BY DEF Wait, SpuriousReaderWakeup, Return
<1>3. \/ rpc[r] = "enqueue" /\ need[r] = {} /\ rpc'[r] = "wait"
      \/ SpuriousWakeups /\ rpc[r] = "wait" /\ rpc'[r] = "woken"
      \/ rpc[r] = "woken" /\ rpc'[r] = "done"
  BY <1>0, <1>2 DEF TypeOK
<1>4. /\ PoolOK' /\ CompleteRuns' /\ Outstanding(r)' = Outstanding(r)
      /\ \A x \in Readers \ {r} : ReaderOK(x)'
  BY <1>0, <1>1, <1>2, OthersUntouched DEF TypeOK
<1>5. Pending(r)' = Pending(r) /\ Covered(r)' = Covered(r)
      /\ \A b : Delivered(r, b)' <=> Delivered(r, b)
  BY <1>1, <1>4 DEF Pending, Covered, Delivered
<1>6. Counting(r)'
  BY <1>0, <1>1, <1>3, <1>4, <1>5 DEF ReaderOK, Counting, HasFrame
<1>7. Position(r)'
  BY <1>0, <1>1, <1>3, <1>5 DEF ReaderOK, Position
<1>8. Bytes(r)'
  BY <1>0, <1>1, <1>3, <1>5 DEF ReaderOK, Bytes
<1>9. TypeOK'
  <2>1. rpc' \in [Readers -> ReaderPlaces]
    BY <1>0, <1>2 DEF TypeOK, ReaderPlaces
  <2>2. \A x \in Readers : /\ rpc'[x] = "idle" <=> rpc[x] = "idle"
                           /\ rpc'[x] = "lookup" <=> rpc[x] = "lookup"
    BY <1>0, <1>2 DEF TypeOK
  <2> QED
    BY <1>0, <1>1, <1>4, <2>1, <2>2 DEF TypeOK, PoolOK
<1>10. CacheFaithful'
  BY <1>1 DEF Inv, CacheFaithful, cacheVars
<1> QED
  BY <1>4, <1>6, <1>7, <1>8, <1>9, <1>10 DEF Inv, ReaderOK

LEMMA ReplyStep ==
  ASSUME Inv, NEW r \in Readers, Reply(r)
  PROVE  Inv'
<1>0. ReaderOK(r) /\ TypeOK /\ rpc[r] = "done" /\ need[r] = {} /\ Outstanding(r) = {}
  BY DEF Inv, Reply, ReaderOK, Counting
<1>1. /\ rpc' = [rpc EXCEPT ![r] = "idle"] /\ req' = [req EXCEPT ![r] = Null]
      /\ it' = [it EXCEPT ![r] = 0] /\ remain' = [remain EXCEPT ![r] = 0]
      /\ max' = [max EXCEPT ![r] = 0] /\ copied' = [copied EXCEPT ![r] = {}]
      /\ UNCHANGED <<process, poolVars, cacheVars, mMutex, need, jpc, wjob>>
  BY DEF Reply, poolVars
<1>2. rpc'[r] = "idle" /\ copied'[r] = {} /\ need'[r] = {}
  BY <1>0, <1>1 DEF TypeOK
<1>3. /\ PoolOK' /\ CompleteRuns' /\ Outstanding(r)' = Outstanding(r)
      /\ \A x \in Readers \ {r} : ReaderOK(x)'
  BY <1>0, <1>1, OthersUntouched DEF TypeOK
<1>4. Outstanding(r)' = {}
  BY <1>0, <1>3
<1>5. Counting(r)' /\ Position(r)' /\ Bytes(r)'
  BY <1>2, <1>4 DEF Counting, Position, Bytes, HasFrame
<1>6. TypeOK'
  <2>1. \A x \in Readers : rpc'[x] = "idle" <=> req'[x] = Null
    BY <1>0, <1>1 DEF TypeOK
  <2>2. \A x \in Readers : rpc'[x] = "lookup" <=> mMutex' = x
    BY <1>0, <1>1 DEF TypeOK
  <2>3. rpc' \in [Readers -> ReaderPlaces] /\ req' \in [Readers -> Requests \cup {Null}]
    BY <1>0, <1>1 DEF TypeOK, ReaderPlaces
  <2>4. /\ it' \in [Readers -> Nat] /\ remain' \in [Readers -> Nat] /\ max' \in [Readers -> Nat]
        /\ copied' \in [Readers -> SUBSET (Nat \X [file : Files, at : Nat])]
    BY <1>0, <1>1 DEF TypeOK
  <2> QED
    BY <1>0, <1>1, <1>3, <2>1, <2>2, <2>3, <2>4 DEF TypeOK, PoolOK
<1>7. CacheFaithful'
  BY <1>1 DEF Inv, CacheFaithful, cacheVars
<1> QED
  BY <1>3, <1>5, <1>6, <1>7 DEF Inv, ReaderOK

-----------------------------------------------------------------------------
(* The workers' steps                                                      *)

(* Taking a job moves it from the queue to the worker.                     *)
LEMMA TakeJobStep ==
  ASSUME Inv, NEW w \in Workers, TakeJob(w) \/ SleepForJob(w) \/ SpuriousWakeup(w)
  PROVE  Inv'
<1>0. TypeOK /\ PoolOK /\ Pool!TypeOK
  BY DEF Inv, PoolOK
<1>1. /\ Pool!TakeJob(w) \/ Pool!SleepForJob(w) \/ Pool!SpuriousWakeup(w)
      /\ UNCHANGED <<process, cacheVars, mMutex, rpc, req, it, need, remain>>
      /\ UNCHANGED <<max, copied, jpc>>
  BY DEF TakeJob, SleepForJob, SpuriousWakeup, frameVars, Pool!TakeJob, Pool!SleepForJob,
     Pool!SpuriousWakeup
<1>2. /\ wpc[w] # "running"
      /\ \A v \in Workers \ {w} : wpc'[v] = wpc[v] /\ wjob'[v] = wjob[v]
  BY <1>0, <1>1 DEF Pool!TypeOK, Pool!TakeJob, Pool!SleepForJob, Pool!SpuriousWakeup
<1>3. PoolOK' /\ InFlight' = InFlight
  BY <1>0, <1>1, PoolKeepsOK, TakeKeepsJobs, SleepKeepsJobs DEF PoolStep
<1>4. jpc[w] # "complete"
  BY <1>2 DEF Inv, CompleteRuns
<1>5. ASSUME NEW r \in Readers PROVE ReaderOK(r)'
  <2>1. Outstanding(r)' = Outstanding(r)
    BY <1>3 DEF Outstanding
  <2>2. \A v \in Workers : jpc'[v] = "complete" /\ wjob'[v].rd = r =>
            jpc[v] = "complete" /\ wjob[v] = wjob'[v]
    BY <1>1, <1>2, <1>4
  <2> QED
    BY <1>1, <2>1, <2>2, Untouched DEF Inv
<1>6. TypeOK'
  BY <1>0, <1>1, <1>3 DEF TypeOK, PoolOK
<1>7. CompleteRuns'
  BY <1>1, <1>2, <1>4 DEF Inv, CompleteRuns
<1>8. CacheFaithful'
  BY <1>1 DEF Inv, CacheFaithful, cacheVars
<1> QED
  BY <1>3, <1>5, <1>6, <1>7, <1>8 DEF Inv

(* A block that a job decompressed goes into the cache under its own key.  *)
LEMMA DecompressAndAddStep ==
  ASSUME Inv, NEW w \in Workers, DecompressAndAdd(w)
  PROVE  Inv'
<1>0. TypeOK /\ PoolOK /\ wpc[w] = "running"
  BY DEF Inv, DecompressAndAdd, AtJob
<1>1. PICK j : j = wjob[w]
  OBVIOUS
<1>2. PICK r : r = j.rd
  OBVIOUS
<1>3. /\ jpc' = [jpc EXCEPT ![w] = "deliver"]
      /\ UNCHANGED <<process, poolVars, mMutex, rpc, req, it, need, remain>>
      /\ UNCHANGED <<max, copied, wjob, wpc>>
  BY DEF DecompressAndAdd, poolVars, frameVars
<1>4. Cache!Add(Key(j.file, j.blk), Own(j.file, j.blk), mBlocks[j.file][j.blk].usize)
  BY <1>1 DEF DecompressAndAdd, Own
<1>5. j.file \in Files /\ j.blk \in Blocks(j.file)
  BY <1>0, <1>1, <1>2, HeldBlock, ContentsFacts
<1>6. CacheFaithful'
  BY <1>4, <1>5, AddKeepsFaithful DEF Inv
<1>7. PoolOK' /\ InFlight' = InFlight
  BY <1>0, <1>3, PoolUntouched DEF PoolOK, Pool!TypeOK
<1>8. jpc' \in [Workers -> {"lookup", "decompress", "deliver", "complete"}]
      /\ \A v \in Workers : jpc'[v] = "complete" => jpc[v] = "complete"
  BY <1>0, <1>3 DEF TypeOK
<1>9. ASSUME NEW x \in Readers PROVE ReaderOK(x)'
  <2>1. Outstanding(x)' = Outstanding(x)
    BY <1>7 DEF Outstanding
  <2> QED
    BY <1>3, <1>8, <2>1, Untouched DEF Inv
<1>10. TypeOK'
  BY <1>0, <1>3, <1>7, <1>8 DEF TypeOK, PoolOK
<1>11. CompleteRuns'
  BY <1>3, <1>8 DEF Inv, CompleteRuns
<1> QED
  BY <1>6, <1>7, <1>9, <1>10, <1>11 DEF Inv

(* Without early returns no job ever sees its reader's frame gone.         *)
LEMMA NoDeadFrame ==
  ASSUME ~SpuriousWakeups, Inv, NEW w \in Workers, UseDeadFrame(w)
  PROVE  FALSE
<1>1. wpc[w] = "running" /\ ~HasFrame(wjob[w].rd)
  BY DEF UseDeadFrame
<1>2. PICK r \in Readers : r = wjob[w].rd /\ wjob[w] \in Outstanding(r)
  BY <1>1, HeldBlock
<1>3. rpc[r] \in {"enqueue", "wait"}
  BY <1>2 DEF Inv, ReaderOK, Counting
<1> QED
  BY <1>1, <1>2, <1>3 DEF HasFrame

(* A job that follows a dangling reference ends what the model describes.  *)
LEMMA UseDeadFrameStep == ASSUME Inv, NEW w \in Workers, UseDeadFrame(w) PROVE Inv'
<1> USE DEF UseDeadFrame, poolVars, cacheVars, frameVars
<1>1. PoolOK' /\ InFlight' = InFlight
  BY PoolUntouched DEF Inv
<1>2. ASSUME NEW x \in Readers PROVE ReaderOK(x)'
  <2>1. Outstanding(x)' = Outstanding(x)
    BY <1>1 DEF Outstanding
  <2> QED
    BY <2>1, Untouched DEF Inv
<1>3. TypeOK' /\ CompleteRuns' /\ CacheFaithful'
  BY <1>1 DEF Inv, TypeOK, PoolOK, CompleteRuns, CacheFaithful
<1> QED
  BY <1>1, <1>2, <1>3 DEF Inv

(* A job hands its block to its reader, from the cache or from its buffer. *)
LEMMA JobCopies ==
  ASSUME Inv, NEW w \in Workers, wpc[w] = "running",
         NEW j, j = wjob[w], NEW r, r = j.rd, HasFrame(r),
         Callback(r, j.blk, Own(j.file, j.blk)),
         jpc' = [jpc EXCEPT ![w] = "complete"], mMap' = mMap,
         UNCHANGED <<process, poolVars, mMutex, rpc, req, it, need, remain>>
  PROVE  Inv'
<1> DEFINE q == req[r]
<1>0. TypeOK /\ PoolOK
  BY DEF Inv
<1>1. /\ r \in Readers /\ rpc[r] \in {"enqueue", "wait", "woken"} /\ j.file = q.file
      /\ j.blk \in Blocks(q.file)
  BY HeldBlock DEF HasFrame
<1>2. ReaderOK(r)
  BY <1>1 DEF Inv
<1>3. Callback(r, j.blk, Own(q.file, j.blk))
  BY <1>1
<1>4. /\ copied' \in [Readers -> SUBSET (Nat \X [file : Files, at : Nat])]
      /\ max' \in [Readers -> Nat]
      /\ \A x \in Readers \ {r} : copied'[x] = copied[x] /\ max'[x] = max[x]
      /\ copied'[r] \subseteq Reads!Contents(q)
      /\ q.off <= max'[r] /\ max'[r] <= Reads!RequestEnd(q)
      /\ Delivered(r, j.blk)'
      /\ \A c \in Blocks(q.file) : Delivered(r, c) => Delivered(r, c)'
  BY <1>0, <1>1, <1>2, <1>3, CallbackCopies
<1>5. PoolOK' /\ InFlight' = InFlight
  BY <1>0, PoolUntouched DEF PoolOK, Pool!TypeOK
<1>6. /\ jpc' \in [Workers -> {"lookup", "decompress", "deliver", "complete"}]
      /\ \A v \in Workers \ {w} : jpc'[v] = jpc[v]
      /\ UNCHANGED <<wjob, wpc>>
  BY <1>0 DEF TypeOK, poolVars
<1>7. ASSUME NEW x \in Readers \ {r} PROVE ReaderOK(x)'
  <2>1. Outstanding(x)' = Outstanding(x)
    BY <1>5 DEF Outstanding
  <2>2. \A v \in Workers : jpc'[v] = "complete" /\ wjob'[v].rd = x =>
            jpc[v] = "complete" /\ wjob[v] = wjob'[v]
    BY <1>6
  <2> QED
    BY <1>4, <2>1, <2>2, Untouched DEF Inv
<1>8. Outstanding(r)' = Outstanding(r)
  BY <1>5 DEF Outstanding
<1>9. Pending(r)' = Pending(r) /\ Covered(r)' = Covered(r)
  BY <1>8 DEF Pending, Covered
<1>10. Counting(r)'
  BY <1>2, <1>8, <1>9 DEF ReaderOK, Counting, HasFrame
<1>11. Position(r)'
  BY <1>2, <1>9 DEF ReaderOK, Position
<1>12. ASSUME NEW v \in Workers, jpc'[v] = "complete", wjob'[v].rd = r
       PROVE  Delivered(r, wjob[v].blk)'
  <2>1. PICK c : c = wjob[v].blk
    OBVIOUS
  <2>2. Delivered(r, c)'
    <3>1. CASE v = w
      BY <1>4, <2>1, <3>1
    <3>2. CASE v # w
      <4>1. jpc[v] = "complete" /\ wpc[v] = "running" /\ wjob[v].rd = r
        BY <1>6, <1>12, <3>2 DEF Inv, CompleteRuns
      <4>2. c \in Blocks(q.file)
        BY <2>1, <4>1, HeldBlock
      <4>3. Delivered(r, c)
        BY <1>1, <1>2, <2>1, <4>1, SMTT(60) DEF ReaderOK, Bytes
      <4> QED
        BY <1>4, <4>2, <4>3
    <3> QED
      BY <3>1, <3>2
  <2> QED
    BY <1>6, <2>1, <2>2 DEF Delivered
<1>13. ASSUME NEW c \in Covered(r)' \ Pending(r)', process = "up"
       PROVE  Delivered(r, c)'
  BY <1>1, <1>2, <1>4, <1>9, <1>13 DEF ReaderOK, Bytes, Covered
<1>14. Bytes(r)'
  <2>1. /\ max'[r] \in Nat /\ rpc'[r] # "idle" /\ rpc'[r] # "done" /\ req'[r] = q
        /\ process' = process
    BY <1>1, <1>4
  <2>2. Bytes(r)' <=>
          /\ copied'[r] \subseteq Reads!Contents(q)
          /\ max'[r] \in Nat /\ q.off <= max'[r] /\ max'[r] <= Reads!RequestEnd(q)
          /\ process' = "up" => \A c \in Covered(r)' \ Pending(r)' : Delivered(r, c)'
          /\ \A v \in Workers : jpc'[v] = "complete" /\ wjob'[v].rd = r =>
                                  Delivered(r, wjob[v].blk)'
    BY <2>1 DEF Bytes
  <2> QED
    BY <1>4, <1>12, <1>13, <2>1, <2>2
<1>15. TypeOK'
  BY <1>0, <1>4, <1>5, <1>6 DEF TypeOK, PoolOK
<1>16. CompleteRuns'
  BY <1>6 DEF Inv, CompleteRuns
<1>17. CacheFaithful'
  BY DEF Inv, CacheFaithful
<1> QED
  BY <1>5, <1>7, <1>10, <1>11, <1>14, <1>15, <1>16, <1>17 DEF Inv, ReaderOK

LEMMA DeliverStep == ASSUME Inv, NEW w \in Workers, Deliver(w) PROVE Inv'
<1>1. PICK j : j = wjob[w]
  OBVIOUS
<1>2. PICK r : r = j.rd
  OBVIOUS
<1>3. /\ wpc[w] = "running" /\ HasFrame(r) /\ Callback(r, j.blk, Own(j.file, j.blk))
      /\ jpc' = [jpc EXCEPT ![w] = "complete"] /\ mMap' = mMap
      /\ UNCHANGED <<process, poolVars, mMutex, rpc, req, it, need, remain>>
  BY <1>1, <1>2 DEF Deliver, AtJob, Own, cacheVars
<1> QED
  BY <1>1, <1>2, <1>3, JobCopies

(* The job's own lookup: a hit delivers what the cache holds for its key.  *)
LEMMA JobLookupStep == ASSUME Inv, NEW w \in Workers, JobLookup(w) PROVE Inv'
<1>1. PICK j : j = wjob[w]
  OBVIOUS
<1>2. PICK r : r = j.rd
  OBVIOUS
<1>3. PICK k : k = Key(j.file, j.blk)
  OBVIOUS
<1>4. /\ wpc[w] = "running" /\ HasFrame(r) /\ mMap' = mMap
      /\ UNCHANGED <<process, poolVars, mMutex, rpc, req, it, need, remain>>
  BY <1>1, <1>2, FindKeepsMap DEF JobLookup, AtJob
<1>5. \/ /\ k \in DOMAIN mMap /\ Callback(r, j.blk, mMap[k].value)
         /\ jpc' = [jpc EXCEPT ![w] = "complete"]
      \/ jpc' = [jpc EXCEPT ![w] = "decompress"] /\ UNCHANGED <<max, copied>>
  BY <1>1, <1>2, <1>3 DEF JobLookup
<1>6. CASE /\ k \in DOMAIN mMap /\ Callback(r, j.blk, mMap[k].value)
           /\ jpc' = [jpc EXCEPT ![w] = "complete"]
  <2>1. j.file \in Files /\ j.blk \in Blocks(j.file)
    BY <1>1, <1>2, <1>4, HeldBlock, ContentsFacts
  <2>2. mMap[k].value = Own(j.file, j.blk)
    BY <1>3, <1>6, <2>1 DEF Inv, CacheFaithful, Own
  <2> QED
    BY <1>1, <1>2, <1>4, <1>6, <2>2, JobCopies
<1>7. CASE jpc' = [jpc EXCEPT ![w] = "decompress"] /\ UNCHANGED <<max, copied>>
  <2>0. TypeOK /\ PoolOK
    BY DEF Inv
  <2>1. PoolOK' /\ InFlight' = InFlight
    BY <1>4, <2>0, PoolUntouched DEF PoolOK, Pool!TypeOK
  <2>2. /\ jpc' \in [Workers -> {"lookup", "decompress", "deliver", "complete"}]
        /\ \A v \in Workers : jpc'[v] = "complete" => jpc[v] = "complete"
        /\ UNCHANGED <<wjob, wpc>>
    BY <1>4, <1>7, <2>0 DEF TypeOK, poolVars
  <2>3. ASSUME NEW x \in Readers PROVE ReaderOK(x)'
    <3>1. Outstanding(x)' = Outstanding(x)
      BY <2>1 DEF Outstanding
    <3> QED
      BY <1>4, <1>7, <2>2, <3>1, Untouched DEF Inv
  <2>4. TypeOK'
    BY <1>4, <1>7, <2>0, <2>1, <2>2 DEF TypeOK, PoolOK
  <2>5. CompleteRuns' /\ CacheFaithful'
    BY <1>4, <2>2 DEF Inv, CompleteRuns, CacheFaithful
  <2> QED
    BY <2>1, <2>3, <2>4, <2>5 DEF Inv
<1> QED
  BY <1>5, <1>6, <1>7

(* A damaged block ends the process; what is left is consistent.           *)
LEMMA DecompressFailsStep ==
  ASSUME Inv, NEW w \in Workers, DecompressFails(w)
  PROVE  Inv'
<1>0. /\ TypeOK /\ PoolOK /\ Pool!TypeOK /\ process = "up"
      /\ wpc[w] = "running" /\ HasFrame(wjob[w].rd)
  BY DEF Inv, PoolOK, DecompressFails, AtJob
<1>1. /\ Pool!JobThrows(w) /\ jpc[w] = "decompress"
      /\ UNCHANGED <<cacheVars, mMutex, rpc, req, it, need, remain>>
      /\ UNCHANGED <<max, copied, jpc>>
  BY DEF DecompressFails, AtJob, frameVars
<1>2. /\ process' = "terminated" /\ mJobs' = mJobs
      /\ wpc' = [wpc EXCEPT ![w] = "exited"] /\ wjob' = [wjob EXCEPT ![w] = Null]
  BY <1>1 DEF Pool!JobThrows
<1>3. /\ \A v \in Workers \ {w} : wpc'[v] = wpc[v] /\ wjob'[v] = wjob[v]
      /\ wpc'[w] = "exited"
  BY <1>0, <1>2 DEF Pool!TypeOK
<1>4. PoolOK'
  BY <1>0, <1>1, PoolKeepsOK DEF PoolStep
<1>5. InFlight' \subseteq InFlight
  BY <1>2, <1>3 DEF InFlight, Pool!Queued, Pool!Running
<1>6. ASSUME NEW x \in Readers PROVE ReaderOK(x)'
  <2>1. ReaderOK(x)
    BY DEF Inv
  <2>2. Outstanding(x)' \subseteq Outstanding(x)
    BY <1>5 DEF Outstanding
  <2>3. Pending(x)' \subseteq Pending(x) /\ Covered(x)' = Covered(x)
    BY <1>1, <2>2 DEF Pending, Covered
  <2>4. \A c : Delivered(x, c)' <=> Delivered(x, c)
    BY <1>1 DEF Delivered
  <2>5. Counting(x)'
    BY <1>1, <1>2, <2>1, <2>2 DEF ReaderOK, Counting
  <2>6. Position(x)'
    BY <1>1, <2>1, <2>3 DEF ReaderOK, Position
  <2>7. rpc[x] = "done" => Pending(x)' = Pending(x)
    <3> SUFFICES ASSUME rpc[x] = "done" PROVE Outstanding(x)' = Outstanding(x)
      BY <1>1 DEF Pending
    <3>1. wjob[w].rd # x
      BY <1>0 DEF HasFrame
    <3>2. \A j \in Job : j # wjob[w] => (Pool!Running(j)' <=> Pool!Running(j))
      BY <1>0, <1>2, <1>3 DEF Pool!Running, Pool!TypeOK
    <3>3. \A j \in Job : Pool!Queued(j)' <=> Pool!Queued(j)
      BY <1>2 DEF Pool!Queued
    <3> QED
      BY <3>1, <3>2, <3>3 DEF Outstanding, InFlight
  <2>8. \A v \in Workers : jpc'[v] = "complete" /\ wjob'[v].rd = x =>
            jpc[v] = "complete" /\ wjob'[v] = wjob[v]
    BY <1>1, <1>3
  <2>9. Bytes(x)'
    BY <1>0, <1>1, <1>2, <2>1, <2>3, <2>4, <2>7, <2>8 DEF ReaderOK, Bytes
  <2> QED
    BY <2>5, <2>6, <2>9 DEF ReaderOK
<1>7. TypeOK'
  BY <1>0, <1>1, <1>4 DEF TypeOK, PoolOK
<1>8. CompleteRuns'
  BY <1>1, <1>3 DEF Inv, CompleteRuns
<1>9. CacheFaithful'
  BY <1>1 DEF Inv, CacheFaithful, cacheVars
<1> QED
  BY <1>4, <1>6, <1>7, <1>8, <1>9 DEF Inv

(* Two outstanding jobs of a reader are for different blocks.              *)
LEMMA JobsDiffer ==
  ASSUME NEW r \in Readers, Counting(r),
         NEW i \in Outstanding(r), NEW j \in Outstanding(r), i.blk = j.blk
  PROVE  i = j
<1>1. i \in Job /\ j \in Job /\ i.rd = r /\ j.rd = r
  BY DEF Outstanding, InFlight
<1>2. i.file = j.file
  BY DEF Counting
<1> QED
  BY <1>1, <1>2 DEF Job

(* The job that counts down removes its block from what is pending; the    *)
(* reader is woken exactly when nothing is pending any more.               *)
LEMMA CompleteStep ==
  ASSUME Inv, NEW w \in Workers, Complete(w)
  PROVE  Inv'
<1>j. PICK j : j = wjob[w]
  OBVIOUS
<1>r. PICK r : r = j.rd
  OBVIOUS
<1>0. TypeOK /\ PoolOK /\ Pool!TypeOK /\ Pool!OneOwner /\ process = "up"
      /\ wpc[w] = "running" /\ jpc[w] = "complete" /\ rpc[r] \in {"wait", "woken"}
  BY <1>j, <1>r DEF Inv, PoolOK, Complete, AtJob, HasFrame
<1>1. /\ j \in Job /\ r \in Readers /\ j \in Outstanding(r)
      /\ Readable(req[r]) /\ j.blk \in Pending(r) /\ j.blk \in Covered(r)
      /\ j.blk \in Blocks(req[r].file)
  BY <1>0, <1>j, <1>r, HeldBlock
<1>2. ReaderOK(r) /\ need[r] = {} /\ IsFiniteSet(Pending(r)) /\ remain[r] = Cardinality(Pending(r))
      /\ Pending(r) \subseteq Covered(r) /\ Delivered(r, j.blk)
  BY <1>0, <1>1, <1>j, <1>r DEF Inv, ReaderOK, Counting, Position, Bytes, HasFrame
<1>3. /\ remain' = [remain EXCEPT ![r] = @ - 1]
      /\ rpc' = [rpc EXCEPT ![r] = IF remain[r] = 1 THEN "woken" ELSE @]
      /\ jpc' = [jpc EXCEPT ![w] = "lookup"] /\ Pool!FinishJob(w)
      /\ UNCHANGED <<cacheVars, mMutex, req, it, need, max, copied>>
  BY <1>j, <1>r DEF Complete
<1>4. /\ remain'[r] = remain[r] - 1
      /\ rpc'[r] = IF remain[r] = 1 THEN "woken" ELSE rpc[r]
      /\ \A x \in Readers \ {r} : remain'[x] = remain[x] /\ rpc'[x] = rpc[x]
      /\ process' = "up" /\ jpc'[w] = "lookup"
      /\ \A v \in Workers \ {w} : jpc'[v] = jpc[v] /\ wjob'[v] = wjob[v] /\ wpc'[v] = wpc[v]
  BY <1>0, <1>1, <1>3 DEF TypeOK, Pool!TypeOK, Pool!FinishJob
<1>5. PoolOK' /\ InFlight' = InFlight \ {j}
  BY <1>0, <1>3, <1>j, PoolKeepsOK, FinishRemovesJob DEF PoolStep
<1>6. Outstanding(r)' = Outstanding(r) \ {j}
  BY <1>5 DEF Outstanding
<1>7. Pending(r)' = Pending(r) \ {j.blk}
  <2>1. \A i \in Outstanding(r) : i.blk = j.blk => i = j
    BY <1>1, <1>2, JobsDiffer DEF ReaderOK
  <2> QED
    BY <1>1, <1>2, <1>3, <1>6, <2>1 DEF Pending
<1>8. IsFiniteSet(Pending(r)') /\ remain'[r] = Cardinality(Pending(r)') /\ remain'[r] \in Nat
  <2>1. PICK S : S = Pending(r)
    OBVIOUS
  <2>2. IsFiniteSet(S \ {j.blk}) /\ Cardinality(S \ {j.blk}) = Cardinality(S) - 1
        /\ Cardinality(S \ {j.blk}) \in Nat
    BY <1>1, <1>2, <2>1, FS_RemoveElement, FS_CardinalityType
  <2> QED
    BY <1>2, <1>4, <1>7, <2>1, <2>2
<1>9. Pending(r)' = {} <=> remain[r] = 1
  <2>1. PICK S : S = Pending(r)'
    OBVIOUS
  <2>2. S = {} <=> Cardinality(S) = 0
    BY <1>8, <2>1, FS_EmptySet
  <2>3. remain[r] \in Nat
    BY <1>0, <1>1 DEF TypeOK
  <2> QED
    BY <1>4, <1>8, <2>1, <2>2, <2>3
<1>10. Outstanding(r)' # {} => Pending(r)' # {}
  BY DEF Pending
<1>11. Covered(r)' = Covered(r) /\ \A c : Delivered(r, c)' <=> Delivered(r, c)
  BY <1>3 DEF Covered, Delivered
<1>12. Counting(r)'
  <2>1. remain[r] = 1 => Outstanding(r)' = {}
    BY <1>9, <1>10
  <2>2. rpc[r] = "woken" => SpuriousWakeups
    BY <1>1, <1>2 DEF ReaderOK, Counting
  <2>3. Outstanding(r)' # {} => rpc'[r] = "wait" \/ (SpuriousWakeups /\ rpc'[r] = "woken")
    BY <1>0, <1>4, <2>1, <2>2
  <2>4. rpc'[r] \in {"wait", "woken"} /\ (rpc'[r] = "wait" => Pending(r)' # {})
    BY <1>0, <1>4, <1>9
  <2>5. \A i \in Outstanding(r)' : i.file = req'[r].file /\ i.blk \notin need'[r]
    BY <1>2, <1>3, <1>6 DEF ReaderOK, Counting
  <2> QED
    BY <1>2, <1>3, <1>8, <2>3, <2>4, <2>5 DEF Counting
<1>13. Position(r)'
  BY <1>0, <1>1, <1>2, <1>3, <1>4, <1>7, <1>11 DEF ReaderOK, Position
<1>14. ASSUME NEW v \in Workers, jpc'[v] = "complete", wjob'[v].rd = r
       PROVE  jpc[v] = "complete" /\ wjob'[v] = wjob[v]
  BY <1>4, <1>14
<1>15. Bytes(r)'
  BY <1>0, <1>1, <1>2, <1>3, <1>4, <1>7, <1>11, <1>14 DEF ReaderOK, Bytes
<1>16. ASSUME NEW x \in Readers \ {r} PROVE ReaderOK(x)'
  <2>1. Outstanding(x)' = Outstanding(x)
    BY <1>5, <1>r DEF Outstanding
  <2>2. \A v \in Workers : jpc'[v] = "complete" /\ wjob'[v].rd = x =>
            jpc[v] = "complete" /\ wjob[v] = wjob'[v]
    BY <1>4
  <2> QED
    BY <1>0, <1>3, <1>4, <2>1, <2>2, Untouched DEF Inv
<1>17. TypeOK'
  <2>1. remain' \in [Readers -> Nat]
    BY <1>0, <1>3, <1>4, <1>8 DEF TypeOK
  <2>2. rpc' \in [Readers -> ReaderPlaces]
    BY <1>0, <1>1, <1>3 DEF TypeOK, ReaderPlaces
  <2>3. \A x \in Readers : /\ rpc'[x] = "idle" <=> rpc[x] = "idle"
                           /\ rpc'[x] = "lookup" <=> rpc[x] = "lookup"
    BY <1>0, <1>1, <1>4
  <2>4. jpc' \in [Workers -> {"lookup", "decompress", "deliver", "complete"}]
    BY <1>0, <1>3 DEF TypeOK
  <2> QED
    BY <1>0, <1>3, <1>5, <2>1, <2>2, <2>3, <2>4 DEF TypeOK, PoolOK
<1>18. CompleteRuns'
  BY <1>4 DEF Inv, CompleteRuns
<1>19. CacheFaithful'
  BY <1>3 DEF Inv, CacheFaithful, cacheVars
<1> QED
  BY <1>5, <1>12, <1>13, <1>15, <1>16, <1>17, <1>18, <1>19 DEF Inv, ReaderOK

-----------------------------------------------------------------------------
(* The invariant holds                                                     *)

LEMMA InvInit == Init => Inv
<1> SUFFICES ASSUME Init PROVE Inv
  OBVIOUS
<1>1. PoolProofs!TypeOK /\ PoolProofs!OneOwner
  <2>1. PoolProofs!Init
    BY DEF Init, Pool!Init, PoolProofs!Init
  <2>2. /\ PoolProofs!IsFiniteSet(Workers) /\ Workers # {}
        /\ Failing \subseteq Job /\ Null \notin Job
    BY CacheAssumption, JobAssumption DEF Failing, PoolProofs!IsFiniteSet, IsFiniteSet
  <2> QED
    BY <2>1, <2>2, PoolProofs!InvInit DEF PoolProofs!Inv
<1>2. PoolOK
  BY <1>1 DEF PoolOK, Pool!TypeOK, Pool!OneOwner, PoolProofs!TypeOK, PoolProofs!OneOwner
<1>3. InFlight = {}
  BY DEF Init, Pool!Init, InFlight, Pool!Queued, Pool!Running
<1>4. ASSUME NEW r \in Readers PROVE ReaderOK(r)
  <2>1. Outstanding(r) = {} /\ rpc[r] = "idle" /\ need[r] = {} /\ copied[r] = {}
    BY <1>3 DEF Init, Outstanding
  <2> QED
    BY <2>1 DEF ReaderOK, Counting, Position, Bytes, HasFrame
<1>5. TypeOK
  BY <1>2, CacheAssumption DEF Init, TypeOK, PoolOK, ReaderPlaces
<1>6. CompleteRuns /\ CacheFaithful
  BY DEF Init, CompleteRuns, CacheFaithful
<1> QED
  BY <1>2, <1>4, <1>5, <1>6 DEF Inv

(* A step that changes nothing the invariant mentions.                     *)
LEMMA StutterStep == ASSUME Inv, UNCHANGED vars PROVE Inv'
<1> USE DEF vars, poolVars, cacheVars, frameVars
<1>1. PoolOK' /\ InFlight' = InFlight
  BY PoolUntouched DEF Inv, PoolOK, Pool!TypeOK
<1>2. ASSUME NEW x \in Readers PROVE ReaderOK(x)'
  <2>1. Outstanding(x)' = Outstanding(x)
    BY <1>1 DEF Outstanding
  <2> QED
    BY <2>1, Untouched DEF Inv
<1>3. TypeOK' /\ CompleteRuns' /\ CacheFaithful'
  BY <1>1 DEF Inv, TypeOK, PoolOK, CompleteRuns, CacheFaithful
<1> QED
  BY <1>1, <1>2, <1>3 DEF Inv

LEMMA InvStep ==
  ASSUME Inv, [Next]_vars
  PROVE  Inv'
<1>1. ASSUME NEW r \in Readers, NEW q \in Requests, BeginRead(r, q) \/ ReadPastEnd(r, q)
      PROVE  Inv'
  BY <1>1, BeginReadStep, ReadPastEndStep
<1>2. ASSUME NEW r \in Readers,
             \/ LockCache(r) \/ ReaderStep(r) \/ SpuriousReaderWakeup(r) \/ Reply(r)
      PROVE  Inv'
  BY <1>2, LockCacheStep, LookupBlockStep, UnlockCacheStep, EnqueueStep, WaitStep,
     ReplyStep DEF ReaderStep
<1>3. ASSUME NEW w \in Workers,
             \/ WorkerStep(w) \/ AcquireCache(w) \/ SpuriousWakeup(w) \/ UseDeadFrame(w)
      PROVE  Inv'
  BY <1>3, TakeJobStep, DecompressFailsStep, DeliverStep, CompleteStep, JobLookupStep,
     DecompressAndAddStep, UseDeadFrameStep DEF WorkerStep, AcquireCache
<1>4. CASE UNCHANGED vars
  BY <1>4, StutterStep
<1> QED
  BY <1>1, <1>2, <1>3, <1>4 DEF Next

(* The invariant of the read path: jobs and counts belong together, the    *)
(* lookup loop misses no block, and what is no longer pending has been     *)
(* delivered.                                                              *)
THEOREM ReadPathInvariant == Spec => []Inv
<1>1. Inv /\ [Next]_vars => Inv'
  BY InvStep
<1> QED
  BY InvInit, <1>1, PTL DEF Spec

(* Types, and who holds the cache's mutex.                                 *)
THEOREM ReadPathTypes == Spec => []TypeOK
<1>1. Inv => TypeOK
  BY DEF Inv
<1> QED
  BY <1>1, ReadPathInvariant, PTL

(* JobInfo's references: no job outlives the frame getBlocks waits in.     *)
THEOREM JobsEndBeforeFrames == ASSUME ~SpuriousWakeups PROVE Spec => []FramesOutliveJobs
<1>1. Inv => FramesOutliveJobs
  BY DEF Inv, ReaderOK, Counting, FramesOutliveJobs, HasFrame
<1> QED
  BY <1>1, ReadPathInvariant, PTL

(* remain is exact: the last job signals, and a sleeper has one to come.   *)
THEOREM CountdownIsExact == Spec => []CountdownExact
<1>1. Inv => CountdownExact
  BY DEF Inv, ReaderOK, Counting, CountdownExact
<1> QED
  BY <1>1, ReadPathInvariant, PTL

(* The cache holds under a key what the key's block decompresses to.       *)
THEOREM CacheIsFaithful == Spec => []CacheFaithful
<1>1. Inv => CacheFaithful
  BY DEF Inv
<1> QED
  BY <1>1, ReadPathInvariant, PTL

(* A read that is done has its bytes: every requested byte lies in a block *)
(* the loop has passed, and that block has been delivered.                 *)
LEMMA DoneIsExact ==
  ASSUME Inv, NEW r \in Readers, rpc[r] = "done", Outstanding(r) = {}
  PROVE  copied[r] = Reads!Contents(req[r]) /\ max[r] = Reads!RequestEnd(req[r])
<1>1. PICK q : q = req[r]
  OBVIOUS
<1>2. Counting(r) /\ Position(r) /\ Bytes(r)
  BY DEF Inv, ReaderOK
<1>3. /\ Readable(q)
      /\ \A b \in Blocks(q.file) : UOff(q.file, b) < q.off + q.size => b < it[r]
  BY <1>1, <1>2 DEF Position
<1>4. Pending(r) = {}
  BY <1>2 DEF Counting, Pending
<1>5. /\ copied[r] \subseteq Reads!Contents(q) /\ max[r] \in Nat
      /\ max[r] <= Reads!RequestEnd(q)
      /\ \A b \in Covered(r) : Delivered(r, b)
  BY <1>1, <1>2, <1>4 DEF Bytes
<1>6. ASSUME NEW o \in q.off..Reads!RequestEnd(q) - 1
      PROVE  <<o - q.off, [file |-> q.file, at |-> o]>> \in copied[r] /\ o < max[r]
  <2>1. /\ LayoutOK(q.file) /\ q.off \in Nat /\ q.size \in Nat /\ o \in Nat /\ q.off <= o
        /\ o < q.off + q.size /\ o \in 0..UncompressedSize(q.file) - 1
    BY <1>3, ContentsFacts, LayoutFacts
  <2>2. PICK b \in Blocks(q.file) : UOff(q.file, b) <= o /\ o < UEnd(q.file, b)
    BY <2>1 DEF LayoutOK
  <2>3. UOff(q.file, b) \in Nat /\ UEnd(q.file, b) \in Nat
    BY <2>1, BlockFacts
  <2>4. ~EndsBefore(q.file, b, q.off)
    BY <2>1, <2>2, <2>3, NoWrap
  <2>5. b < it[r]
    BY <1>3, <2>1, <2>2, <2>3
  <2>6. Delivered(r, b)
    BY <1>1, <1>5, <2>4, <2>5 DEF Covered
  <2>7. /\ <<o - q.off, [file |-> q.file, at |-> o]>> \in Piece(q, b, Own(q.file, b))
        /\ o < OMax(q, b) /\ OMax(q, b) \in Nat
    BY <1>3, <2>2, PieceIsComplete, CopyBounds
  <2> QED
    BY <1>1, <1>5, <2>1, <2>6, <2>7 DEF Delivered
<1>7. Reads!Contents(q) \subseteq copied[r]
  BY <1>3, <1>6, ContentsFacts
<1>8. Reads!RequestEnd(q) <= max[r]
  <2>1. /\ q.off \in Nat /\ Reads!RequestEnd(q) \in Nat /\ q.off < Reads!RequestEnd(q)
    BY <1>3, ContentsFacts
  <2>2. Reads!RequestEnd(q) - 1 \in q.off..Reads!RequestEnd(q) - 1
    BY <2>1
  <2>3. Reads!RequestEnd(q) - 1 < max[r]
    BY <1>6, <2>2
  <2> QED
    BY <1>5, <2>1, <2>3
<1>9. Reads!RequestEnd(q) \in Nat
  BY <1>3, ContentsFacts
<1> QED
  BY <1>1, <1>5, <1>7, <1>8, <1>9

LEMMA AllDoneAreExact ==
  ASSUME ~SpuriousWakeups, Inv, NEW r \in Readers, rpc[r] = "done"
  PROVE  copied[r] = Reads!Contents(req[r]) /\ max[r] = Reads!RequestEnd(req[r])
<1>1. Outstanding(r) = {}
  BY DEF Inv, ReaderOK, Counting
<1> QED
  BY <1>1, DoneIsExact

(* getBlocks and read give the caller exactly the bytes of the file.       *)
THEOREM ReadsAreExact == ASSUME ~SpuriousWakeups PROVE Spec => []ReadExact
<1>1. Inv => ReadExact
  BY AllDoneAreExact DEF ReadExact
<1> QED
  BY <1>1, ReadPathInvariant, PTL

(* ... and where cv.wait() may return early, every read whose jobs are over*)
(* when it ends still does: only the reads that did not wait are at risk.  *)
THEOREM ReadsAreExactUnlessEarly == Spec => []ReadExactUnlessEarly
<1>1. Inv => ReadExactUnlessEarly
  BY DoneIsExact DEF ReadExactUnlessEarly
<1> QED
  BY <1>1, ReadPathInvariant, PTL

-----------------------------------------------------------------------------
(* The read path implements FileReads                                      *)

(* What the mapping shows of reader r.                                     *)
Answer(r) ==
    IF rpc[r] = "done" THEN [bytes |-> copied[r], count |-> max[r] - req[r].off] ELSE Null

LEMMA AnswerFacts ==
  ASSUME ~SpuriousWakeups, Inv, NEW r \in Readers
  PROVE  /\ Answer(r) = Null <=> rpc[r] # "done"
         /\ rpc[r] = "done" =>
              Answer(r) = [bytes |-> Reads!Contents(req[r]),
                           count |-> Reads!RequestEnd(req[r]) - req[r].off]
<1> SUFFICES ASSUME rpc[r] = "done"
             PROVE  /\ Answer(r) # Null
                    /\ Answer(r) = [bytes |-> Reads!Contents(req[r]),
                                    count |-> Reads!RequestEnd(req[r]) - req[r].off]
  BY DEF Answer
<1>1. /\ copied[r] = Reads!Contents(req[r]) /\ max[r] = Reads!RequestEnd(req[r])
  BY AllDoneAreExact
<1>2. /\ Readable(req[r]) /\ req[r].off <= max[r] /\ max[r] \in Nat
  BY DEF Inv, ReaderOK, Position, Bytes
<1>3. max[r] - req[r].off \in Nat
  BY <1>2, ContentsFacts
<1>4. copied[r] \in SUBSET (Nat \X [file : Files, at : Nat])
  BY DEF Inv, TypeOK
<1>5. Answer(r) = [bytes |-> copied[r], count |-> max[r] - req[r].off]
  BY DEF Answer
<1>6. Answer(r) \in [bytes : SUBSET (Nat \X [file : Files, at : Nat]), count : Nat]
  BY <1>3, <1>4, <1>5
<1> QED
  BY <1>1, <1>5, <1>6, ReplyAssumption

(* A step of one reader that does not touch its answer or its request, or  *)
(* that of any other: invisible.                                           *)
LEMMA Invisible ==
  ASSUME req' = req, \A x \in Readers : Answer(x)' = Answer(x)
  PROVE  UNCHANGED Reads!readVars
<1>1. Reads!readVars = <<req, [x \in Readers |-> Answer(x)]>>
  BY DEF Reads!readVars, Answer
<1>2. Reads!readVars' = <<req', [x \in Readers |-> Answer(x)']>>
  BY DEF Reads!readVars, Answer
<1> QED
  BY <1>1, <1>2

(* AnswerFacts of all readers, now and after a step.                       *)
AnswersOK ==
    \A r \in Readers :
        /\ Answer(r) = Null <=> rpc[r] # "done"
        /\ rpc[r] = "done" =>
             Answer(r) = [bytes |-> Reads!Contents(req[r]),
                          count |-> Reads!RequestEnd(req[r]) - req[r].off]

LEMMA AnswersNow == ASSUME ~SpuriousWakeups PROVE Inv => AnswersOK
  BY AnswerFacts DEF AnswersOK

LEMMA AnswersNext == ASSUME ~SpuriousWakeups PROVE Inv' => AnswersOK'
<1>1. Inv => AnswersOK
  BY AnswersNow
<1> QED
  BY <1>1, PTL

(* An answer changes only if its reader's place, request or frame does.    *)
LEMMA SameAnswer ==
  ASSUME NEW x \in Readers, rpc'[x] = "done" <=> rpc[x] = "done",
         rpc[x] = "done" => /\ copied'[x] = copied[x] /\ max'[x] = max[x]
                            /\ req'[x] = req[x]
  PROVE  Answer(x)' = Answer(x)
  BY DEF Answer

LEMMA WorkersInvisible ==
  ASSUME Inv, NEW w \in Workers,
         WorkerStep(w) \/ AcquireCache(w) \/ SpuriousWakeup(w)
  PROVE  UNCHANGED Reads!readVars
<1>0. TypeOK
  BY DEF Inv
<1>1. CASE \/ TakeJob(w) \/ SleepForJob(w) \/ SpuriousWakeup(w) \/ DecompressFails(w)
           \/ DecompressAndAdd(w)
  <2>1. UNCHANGED <<rpc, req, copied, max>>
    BY <1>1 DEF TakeJob, SleepForJob, SpuriousWakeup, DecompressFails, DecompressAndAdd,
       frameVars
  <2> QED
    BY <2>1, SameAnswer, Invisible
<1>2. CASE JobLookup(w) \/ Deliver(w) \/ Complete(w)
  <2>1. PICK r : r = wjob[w].rd
    OBVIOUS
  <2>2. wpc[w] = "running" /\ HasFrame(r) /\ req' = req
    BY <1>2, <2>1 DEF JobLookup, Deliver, Complete, AtJob
  <2>3. r \in Readers /\ rpc[r] # "done"
    BY <2>1, <2>2, HeldBlock DEF HasFrame
  <2>4. rpc' = rpc \/ rpc' = [rpc EXCEPT ![r] = IF remain[r] = 1 THEN "woken" ELSE @]
    BY <1>2, <2>1 DEF JobLookup, Deliver, Complete
  <2>5. \/ UNCHANGED <<copied, max>>
        \/ \E b, buf : Callback(r, b, buf)
    BY <1>2, <2>1 DEF JobLookup, Deliver, Complete
  <2>6. ASSUME NEW x \in Readers \ {r} PROVE copied'[x] = copied[x] /\ max'[x] = max[x]
    BY <1>0, <2>3, <2>5 DEF TypeOK, Callback
  <2>7. \A x \in Readers : rpc'[x] = "done" <=> rpc[x] = "done"
    BY <1>0, <2>3, <2>4 DEF TypeOK
  <2> QED
    BY <2>2, <2>3, <2>6, <2>7, SameAnswer, Invisible
<1> QED
  BY <1>1, <1>2 DEF WorkerStep, AcquireCache

(* What a reader does before its answer is there is invisible, ...         *)
LEMMA ReaderInvisible ==
  ASSUME Inv, NEW r \in Readers,
         \/ \E q \in Requests : ReadPastEnd(r, q)
         \/ LockCache(r) \/ LookupBlock(r) \/ Enqueue(r) \/ Wait(r)
         \/ UnlockCache(r) /\ need[r] # {}
  PROVE  UNCHANGED Reads!readVars
<1>0. TypeOK
  BY DEF Inv
<1>1. CASE LookupBlock(r)
  <2>1. rpc[r] = "lookup" /\ rpc' = rpc /\ req' = req
    BY <1>1 DEF LookupBlock
  <2>2. UNCHANGED <<copied, max>> \/ \E b, buf : Callback(r, b, buf)
    BY <1>1 DEF LookupBlock
  <2>3. ASSUME NEW x \in Readers \ {r} PROVE copied'[x] = copied[x] /\ max'[x] = max[x]
    BY <1>0, <2>2 DEF TypeOK, Callback
  <2> QED
    BY <2>1, <2>3, SameAnswer, Invisible
<1>2. CASE \/ \E q \in Requests : ReadPastEnd(r, q)
           \/ LockCache(r) \/ Enqueue(r) \/ Wait(r)
           \/ UnlockCache(r) /\ need[r] # {}
  <2>1. UNCHANGED <<req, copied, max>>
    BY <1>2 DEF ReadPastEnd, LockCache, Enqueue, Wait, UnlockCache, frameVars
  <2>2. \/ rpc' = rpc
        \/ /\ rpc[r] # "done"
           /\ \E place \in ReaderPlaces \ {"done"} : rpc' = [rpc EXCEPT ![r] = place]
    BY <1>2 DEF ReadPastEnd, LockCache, Enqueue, Wait, UnlockCache, ReaderPlaces
  <2>3. \A x \in Readers : rpc'[x] = "done" <=> rpc[x] = "done"
    BY <1>0, <2>2 DEF TypeOK
  <2> QED
    BY <2>1, <2>3, SameAnswer, Invisible
<1> QED
  BY <1>1, <1>2

(* ... and the other steps are those of FileReads.                         *)
LEMMA BeginIsVisible ==
  ASSUME Inv, NEW r \in Readers, NEW q \in Requests, BeginRead(r, q)
  PROVE  Reads!Begin(r, q)
<1>1. TypeOK /\ rpc[r] = "idle" /\ req[r] = Null
  BY DEF Inv, TypeOK, BeginRead
<1>2. req' = [req EXCEPT ![r] = q] /\ rpc' = [rpc EXCEPT ![r] = "lock"]
      /\ max' = [max EXCEPT ![r] = q.off] /\ copied' = copied
  BY DEF BeginRead
<1>3. ASSUME NEW x \in Readers PROVE Answer(x)' = Answer(x)
  <2>1. rpc'[x] = "done" <=> rpc[x] = "done"
    BY <1>1, <1>2 DEF TypeOK
  <2>2. rpc[x] = "done" => copied'[x] = copied[x] /\ max'[x] = max[x] /\ req'[x] = req[x]
    BY <1>1, <1>2 DEF TypeOK
  <2> QED
    BY <2>1, <2>2, SameAnswer
<1> QED
  BY <1>1, <1>2, <1>3 DEF Reads!Begin, Answer

LEMMA FinishIsVisible ==
  ASSUME ~SpuriousWakeups, Inv, Inv', NEW r \in Readers,
         Return(r) \/ (UnlockCache(r) /\ need[r] = {})
  PROVE  Reads!Finish(r)
<1>1. TypeOK /\ rpc[r] \in {"lookup", "woken"} /\ rpc' = [rpc EXCEPT ![r] = "done"]
      /\ UNCHANGED <<req, max, copied>>
  BY DEF Inv, Return, UnlockCache, frameVars
<1>2. rpc'[r] = "done" /\ \A x \in Readers \ {r} : rpc'[x] = rpc[x]
  BY <1>1 DEF TypeOK
<1>3. req[r] # Null /\ Answer(r) = Null
  BY <1>1 DEF TypeOK, Answer
<1>4. \A x \in Readers \ {r} : Answer(x)' = Answer(x)
  BY <1>1, <1>2, SameAnswer
<1>5. Answer(r)' = [bytes |-> Reads!Contents(req[r]),
                    count |-> Reads!RequestEnd(req[r]) - req[r].off]
  <2>1. AnswersOK'
    BY AnswersNext
  <2>2. PICK q : q = req[r]
    OBVIOUS
  <2>3. Answer(r)' = [bytes |-> Reads!Contents(req[r])',
                      count |-> Reads!RequestEnd(req[r])' - req'[r].off]
    BY <1>2, <2>1 DEF AnswersOK
  <2>4. Reads!Contents(req[r])' = Reads!Contents(req[r])
        /\ Reads!RequestEnd(req[r])' = Reads!RequestEnd(req[r]) /\ req'[r].off = req[r].off
    BY <1>1 DEF Reads!Contents, Reads!RequestEnd
  <2> QED
    BY <2>3, <2>4
<1>6. [x \in Readers |-> Answer(x)'] =
        [[x \in Readers |-> Answer(x)] EXCEPT ![r] =
            [bytes |-> Reads!Contents(req[r]),
             count |-> Reads!RequestEnd(req[r]) - req[r].off]]
  BY <1>4, <1>5
<1> QED
  BY <1>1, <1>3, <1>6 DEF Reads!Finish, Answer

LEMMA ReplyIsVisible ==
  ASSUME ~SpuriousWakeups, Inv, NEW r \in Readers, Reply(r)
  PROVE  Reads!Acknowledge(r)
<1>1. TypeOK /\ rpc[r] = "done" /\ rpc' = [rpc EXCEPT ![r] = "idle"]
      /\ req' = [req EXCEPT ![r] = Null]
      /\ max' = [max EXCEPT ![r] = 0] /\ copied' = [copied EXCEPT ![r] = {}]
  BY DEF Inv, Reply
<1>2. Answer(r) # Null
  BY <1>1, AnswerFacts
<1>3. Answer(r)' = Null
  BY <1>1 DEF TypeOK, Answer
<1>4. ASSUME NEW x \in Readers \ {r} PROVE Answer(x)' = Answer(x)
  BY <1>1, SameAnswer DEF TypeOK
<1>5. [x \in Readers |-> Answer(x)'] = [[x \in Readers |-> Answer(x)] EXCEPT ![r] = Null]
  BY <1>3, <1>4
<1> QED
  BY <1>1, <1>2, <1>5 DEF Reads!Acknowledge, Answer

LEMMA StepRefines ==
  ASSUME ~SpuriousWakeups, Inv, Inv', [Next]_vars
  PROVE  [Reads!Next]_Reads!readVars
<1>1. ASSUME NEW r \in Readers, NEW q \in Requests, BeginRead(r, q) \/ ReadPastEnd(r, q)
      PROVE  Reads!Next \/ UNCHANGED Reads!readVars
  BY <1>1, BeginIsVisible, ReaderInvisible DEF Reads!Next
<1>2. ASSUME NEW r \in Readers,
             \/ LockCache(r) \/ ReaderStep(r) \/ SpuriousReaderWakeup(r) \/ Reply(r)
      PROVE  Reads!Next \/ UNCHANGED Reads!readVars
  <2>1. ~SpuriousReaderWakeup(r)
    BY DEF SpuriousReaderWakeup
  <2>2. CASE Return(r)
    <3>1. Reads!Finish(r)
      BY <2>2, FinishIsVisible
    <3> QED
      BY <3>1 DEF Reads!Next
  <2>3. CASE UnlockCache(r)
    <3>1. CASE need[r] = {}
      BY <2>3, <3>1, FinishIsVisible DEF Reads!Next
    <3>2. CASE need[r] # {}
      BY <2>3, <3>2, ReaderInvisible
    <3> QED
      BY <3>1, <3>2
  <2>4. CASE LockCache(r) \/ LookupBlock(r) \/ Enqueue(r) \/ Wait(r)
    BY <2>4, ReaderInvisible
  <2>5. CASE Reply(r)
    BY <2>5, ReplyIsVisible DEF Reads!Next
  <2> QED
    BY <1>2, <2>1, <2>2, <2>3, <2>4, <2>5 DEF ReaderStep
<1>3. ASSUME NEW w \in Workers,
             \/ WorkerStep(w) \/ AcquireCache(w) \/ SpuriousWakeup(w) \/ UseDeadFrame(w)
      PROVE  Reads!Next \/ UNCHANGED Reads!readVars
  BY <1>3, WorkersInvisible, NoDeadFrame
<1>4. CASE UNCHANGED vars
  BY <1>4, SameAnswer, Invisible DEF vars, frameVars
<1> QED
  BY <1>1, <1>2, <1>3, <1>4 DEF Next

(* Whatever the readers, the workers and the cache do, a caller of lf_read *)
(* sees atomic reads of an uncompressed file.                              *)
THEOREM ReadPathImplementsFileReads ==
  ASSUME ~SpuriousWakeups PROVE Spec => ImplementsFileReads
<1>1. Init => Reads!Init
  BY DEF Init, Reads!Init
<1>2. Inv /\ Inv' /\ [Next]_vars => [Reads!Next]_Reads!readVars
  BY StepRefines
<1> QED
  BY <1>1, <1>2, ReadPathInvariant, PTL DEF Spec, ImplementsFileReads, Reads!Spec

-----------------------------------------------------------------------------
(* Damage                                                                  *)

(* Nothing happens once the process is gone, and only a job ends it so.    *)
LEMMA WhoTerminates ==
  ASSUME Next
  PROVE  /\ process = "up"
         /\ process' = "terminated" => \E w \in Workers : DecompressFails(w)
<1>1. ASSUME NEW r \in Readers, NEW q \in Requests, BeginRead(r, q) \/ ReadPastEnd(r, q)
      PROVE  process = "up" /\ process' # "terminated"
  BY <1>1 DEF BeginRead, ReadPastEnd
<1>2. ASSUME NEW r \in Readers,
             \/ LockCache(r) \/ ReaderStep(r) \/ SpuriousReaderWakeup(r) \/ Reply(r)
      PROVE  process = "up" /\ process' # "terminated"
  BY <1>2 DEF LockCache, ReaderStep, SpuriousReaderWakeup, Reply, LookupBlock, UnlockCache,
     Enqueue, Wait, Return, Pool!Enqueue
<1>3. ASSUME NEW w \in Workers,
             \/ WorkerStep(w) \/ AcquireCache(w) \/ SpuriousWakeup(w) \/ UseDeadFrame(w)
      PROVE  process = "up" /\ (process' # "terminated" \/ DecompressFails(w))
  BY <1>3 DEF WorkerStep, AcquireCache, SpuriousWakeup, UseDeadFrame, TakeJob, SleepForJob,
     DecompressFails, Deliver, Complete, JobLookup, DecompressAndAdd, AtJob,
     Pool!TakeJob, Pool!SleepForJob, Pool!SpuriousWakeup, Pool!FinishJob
<1> QED
  BY <1>1, <1>2, <1>3 DEF Next

(* The read whose job fails asked for the block that does not decompress.  *)
LEMMA DamageIsAskedFor ==
  ASSUME Inv, NEW w \in Workers, DecompressFails(w)
  PROVE  DamageIsLocal'
<1>1. PICK j : j = wjob[w]
  OBVIOUS
<1>2. PICK r : r = j.rd
  OBVIOUS
<1>3. wpc[w] = "running" /\ j \in Failing /\ UNCHANGED <<rpc, req>>
  BY <1>1 DEF DecompressFails, AtJob, Pool!JobThrows, frameVars
<1>4. /\ r \in Readers /\ rpc[r] # "idle" /\ Readable(req[r]) /\ j.file = req[r].file
      /\ j.blk \in Pending(r) /\ j.blk \in Covered(r) /\ j.blk \in Blocks(req[r].file)
  BY <1>1, <1>2, <1>3, HeldBlock
<1>5. UOff(req[r].file, j.blk) < req[r].off + req[r].size
  BY <1>4 DEF Inv, ReaderOK, Position
<1>6. req[r].off < UEnd(req[r].file, j.blk)
  <2>1. LayoutOK(req[r].file) /\ req[r].off \in Nat
    BY <1>4, ContentsFacts
  <2>2. UEnd(req[r].file, j.blk) \in Nat
    BY <1>4, <2>1, BlockFacts
  <2>3. ~EndsBefore(req[r].file, j.blk, req[r].off)
    BY <1>4 DEF Covered
  <2>4. ~(UEnd(req[r].file, j.blk) <= req[r].off)
    BY <1>4, <2>1, <2>3, NoWrap
  <2> QED
    BY <2>1, <2>2, <2>4
<1>7. <<req[r].file, j.blk>> \in CorruptBlocks
  BY <1>3, <1>4 DEF Failing
<1>8. /\ rpc'[r] # "idle" /\ j.blk \in Blocks(req'[r].file)
      /\ <<req'[r].file, j.blk>> \in CorruptBlocks
      /\ req'[r].off < UEnd(req'[r].file, j.blk)
      /\ UOff(req'[r].file, j.blk) < req'[r].off + req'[r].size
  BY <1>3, <1>4, <1>5, <1>6, <1>7
<1> QED
  BY <1>4, <1>8 DEF DamageIsLocal

(* The exception of a job ends the process only for a read that the        *)
(* damaged block overlaps (decompressBlock in src/BlockCache.cc throws).   *)
THEOREM DamageStaysLocal == Spec => []DamageIsLocal
<1>1. Init => DamageIsLocal
  BY DEF Init, Pool!Init, DamageIsLocal
<1>2. Inv /\ DamageIsLocal /\ [Next]_vars => DamageIsLocal'
  <2> SUFFICES ASSUME Inv, DamageIsLocal, [Next]_vars PROVE DamageIsLocal'
    OBVIOUS
  <2>1. CASE Next
    BY <2>1, WhoTerminates, DamageIsAskedFor DEF DamageIsLocal
  <2>2. CASE UNCHANGED vars
    BY <2>2 DEF DamageIsLocal, vars, poolVars, frameVars
  <2> QED
    BY <2>1, <2>2
<1> QED
  BY <1>1, <1>2, ReadPathInvariant, PTL DEF Spec

-----------------------------------------------------------------------------
(* The cache that readers and workers share                                *)

(* What LRUMapProofs says of one LRU map.                                  *)
Maps == INSTANCE LRUMapProofs WITH
            Keys <- UNION {{Key(f, b) : b \in Blocks(f)} : f \in Files},
            Values <- Buffer, Weights <- Nat, since <- <<>>

LEMMA SameWeights == \A i, j : Cache!WeightOf(i, j) = Maps!WeightOf(i, j)
  BY DEF Cache!WeightOf, Cache!SumFunctionOnSet, Cache!FoldFunctionOnSet, Cache!MapThenFoldSet,
     Maps!WeightOf, Maps!SumFunctionOnSet, Maps!FoldFunctionOnSet, Maps!MapThenFoldSet

LEMMA SameMaps == CacheSound <=> Maps!LRUInv
  BY SameWeights DEF CacheSound, Maps!LRUInv, Cache!TypeOK, Maps!TypeOK, Cache!Entry, Maps!Entry,
     Cache!MapMatchesList, Maps!MapMatchesList, Cache!WeightBounded, Maps!WeightBounded

LEMMA FindKeepsSound == ASSUME CacheSound, NEW k, Cache!Find(k) PROVE CacheSound'
<1>1. Maps!LRUInv
  BY SameMaps
<1>2. Maps!Find(k)
  BY DEF Cache!Find, Maps!Find, Cache!MarkNew, Maps!MarkNew, Cache!lruVars, Maps!lruVars
<1>3. Maps!LRUInv'
  BY <1>1, <1>2, Maps!FindKeeps
<1> QED
  BY <1>3, SameMaps, PTL

(* A job adds a block of the file it reads, under that block's key and with *)
(* that block's size.                                                      *)
LEMMA AddKeepsSound ==
  ASSUME CacheSound, Inv, NEW w \in Workers, DecompressAndAdd(w)
  PROVE  CacheSound'
<1>1. PICK j : j = wjob[w]
  OBVIOUS
<1>2. PICK r : r = j.rd
  OBVIOUS
<1>3. wpc[w] = "running"
  BY DEF DecompressAndAdd, AtJob
<1>4. j.file \in Files /\ j.blk \in Blocks(j.file)
  BY <1>1, <1>2, <1>3, HeldBlock, ContentsFacts
<1> DEFINE k == Key(j.file, j.blk)
           v == [file |-> j.file, blk |-> j.blk]
           n == mBlocks[j.file][j.blk].usize
<1>5. Cache!Add(k, v, n)
  BY <1>1 DEF DecompressAndAdd
<1>6. k \in UNION {{Key(f, b) : b \in Blocks(f)} : f \in Files}
  BY <1>4
<1>7. v \in Buffer
  BY <1>4 DEF Buffer
<1>8. n \in Nat
  BY <1>4, BlockFacts, LayoutAssumption
<1> HIDE DEF k, v, n
<1>9. Maps!Add(k, v, n)
  BY <1>5, SameWeights
     DEF Cache!Add, Maps!Add, Cache!MarkNew, Maps!MarkNew, Cache!Insert, Maps!Insert,
         Cache!KeepsFirst, Maps!KeepsFirst, Cache!MapOfFirst, Maps!MapOfFirst,
         Cache!lruVars, Maps!lruVars
<1>10. Maps!LRUInv'
  BY <1>6, <1>7, <1>8, <1>9, SameMaps, Maps!AddKeeps
<1> QED
  BY <1>10, SameMaps, PTL

(* What readers and workers do beside looking up and adding blocks.        *)
LEMMA CacheSteps ==
  ASSUME [Next]_vars
  PROVE  \/ UNCHANGED cacheVars
         \/ \E k : Cache!Find(k)
         \/ \E w \in Workers : DecompressAndAdd(w)
<1>1. ASSUME NEW r \in Readers, NEW q \in Requests, BeginRead(r, q) \/ ReadPastEnd(r, q)
      PROVE  UNCHANGED cacheVars
  BY <1>1 DEF BeginRead, ReadPastEnd
<1>2. ASSUME NEW r \in Readers, LookupBlock(r)
      PROVE  \E k : Cache!Find(k)
  BY <1>2 DEF LookupBlock
<1>3. ASSUME NEW r \in Readers,
             \/ LockCache(r) \/ UnlockCache(r) \/ Enqueue(r) \/ Wait(r) \/ Return(r)
             \/ SpuriousReaderWakeup(r) \/ Reply(r)
      PROVE  UNCHANGED cacheVars
  BY <1>3 DEF LockCache, UnlockCache, Enqueue, Wait, Return, SpuriousReaderWakeup, Reply
<1>4. ASSUME NEW w \in Workers, JobLookup(w)
      PROVE  \E k : Cache!Find(k)
  BY <1>4 DEF JobLookup
<1>5. ASSUME NEW w \in Workers, WorkerStep(w) \/ SpuriousWakeup(w) \/ UseDeadFrame(w)
      PROVE  UNCHANGED cacheVars
  BY <1>5 DEF WorkerStep, SpuriousWakeup, UseDeadFrame, TakeJob, SleepForJob,
     DecompressFails, Deliver, Complete
<1>6. ASSUME UNCHANGED vars PROVE UNCHANGED cacheVars
  BY <1>6 DEF vars
<1> QED
  BY <1>1, <1>2, <1>3, <1>4, <1>5, <1>6 DEF Next, ReaderStep, AcquireCache

(* However readers and workers, woken early or not, find and add blocks    *)
(* under mMutex (src/BlockCache.cc), no key of the hash map leads to a node*)
(* that is no longer in the list, the total is that of the list, and it    *)
(* never exceeds the limit.                                                *)
THEOREM CacheIsSound == Spec => []CacheSound
<1>1. Init => CacheSound
  <2> SUFFICES ASSUME Init PROVE CacheSound
    OBVIOUS
  <2>1. mLRU = <<>> /\ mMap = <<>> /\ mWeight = 0 /\ mMaxWeight \in Nat
    BY CacheAssumption DEF Init
  <2>2. Maps!LRUInv
    BY <2>1, Maps!EmptyMap
  <2> QED
    BY <2>2, SameMaps
<1>2. Inv /\ CacheSound /\ [Next]_vars => CacheSound'
  <2> SUFFICES ASSUME Inv, CacheSound, [Next]_vars PROVE CacheSound'
    OBVIOUS
  <2>1. CASE UNCHANGED cacheVars
    BY <2>1 DEF CacheSound, cacheVars, Cache!TypeOK, Cache!MapMatchesList,
       Cache!WeightBounded, Cache!WeightOf
  <2>2. CASE \E k : Cache!Find(k)
    BY <2>2, FindKeepsSound
  <2>3. CASE \E w \in Workers : DecompressAndAdd(w)
    BY <2>3, AddKeepsSound
  <2> QED
    BY <2>1, <2>2, <2>3, CacheSteps
<1> QED
  BY <1>1, <1>2, ReadPathInvariant, PTL DEF Spec
=============================================================================
