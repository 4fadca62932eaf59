# A TLA+ verification of lzopfs

lzopfs mounts compressed files (gzip, bzip2, lzop, xz, zstd) as a FUSE file
system in which each of them appears uncompressed and can be read at any
offset. This directory holds TLA+ models of its code, the configurations with
which TLC checks them on small instances, and theorems about them that TLAPS
proves for every instance. `PROJECT.json` lists the runs, the mutants, the
source lines behind every definition, the hazards and the theorems.

    tlc -workers 2 -config MCBlockCache.cfg MCBlockCache    # one run
    tlapm BlockCacheProofs.tla                              # the proofs of one module

## 1. The system

| Component (source) | State | Operations | Interacts with |
|---|---|---|---|
| Front end (`lzopfs.cc`) | `FSData`: file list, cache, pool; open handles in `fuse_file_info::fh` | `lf_getattr`, `lf_readdir`, `lf_open`, `lf_release`, `lf_read`; option parsing, `main` | calls the file list and `OpenCompressedFile`; FUSE calls it from many threads |
| File list (`FileList.*`) | `mMap`: synthetic name -> file; the list of openers | `add`, `find`, `forNames` | calls each format's opener, falls through on `FormatException`, skips on any other `runtime_error` |
| Read path (`OpenCompressedFile.*`, `BlockCache.*`) | cache `mMap` under `mMutex`; per read a stack frame with `cv`, `remain`, the callback and its mutex | `read`, `getBlocks`, `Job::operator()` | runs jobs in the pool, shares the LRU map among readers and workers |
| Worker pool (`ThreadPool.*`) | FIFO `mJobs`, `mCancelling`, threads, condition variable `mCond` | constructor, `enqueue`, `nextJob`, `threadFunc`, destructor | runs the read path's jobs |
| LRU map (`LRUMap.h`) | list of entries, hash map of list iterators, running weight, limit | `add`, `find`, `maxWeight`, `makeRoom` | used under `mMutex` |
| Block list (`CompressedFile.*`) | `mBlocks`, fixed once the file is open | `findBlock`, iterator, `uncompressedSize`, `checkSizes` | filled by the format modules or from an index |
| Index files (`IndexedCompFile` in `CompressedFile.cc`, `FileHandle.*`) | `<source>.blockIdx` on disk | `loadIndex`, `readIndex`, `writeIndex` | shared by all mounts of a source, across processes |
| gzip (`GzipFile.*`, `GzipReader.*`) | block list with dictionaries; decoder state | `buildIndex`, `decompressBlock`, save/restore | zlib |
| bzip2 (`Bzip2File.*`) | boundaries noted, level, block list | `findBlockBoundaryCandidates`, `buildIndex`, `decompressBlock` | libbz2 |
| lzop (`LzopFile.*`) | place in the file, flags of the member, block list | `readHeaders`, `findBlocks`, `decompressBlock` | lzo |
| zstd (`ZstdFile.*`) | seek table, block list | `findSeekTable`, `buildIndex`, `decompressBlock` | libzstd |
| xz (`PixzFile.*`) | liblzma's index | `readIndex`, `addIndex`, the iterator, `decompressBlock` | liblzma |
| Path utilities, build scripts | none | string functions | |

### What is hard, and what makes each part correct

* **Worker pool.** `enqueue` signals once per job, and a signal that finds
  nobody asleep is lost; the destructor empties the queue while workers are
  anywhere. Correct: no worker sleeps beside a job nobody is coming for; every
  job has one owner (the pool deletes jobs); a cancelled pool starts no job and
  ends every worker; with fair threads every queued job leaves the queue.
* **LRU map.** Three representations of one thing (list, hash map of iterators,
  weight). Correct: they agree; what is held is exactly what was used last;
  nothing is evicted without need.
* **Read path.** Jobs hold references into the stack frame of the read that
  made them; `cv.wait()` is called once and its reason is not tested; `mMutex`
  is released between the reader's lookup, the job's, and the job's `add`.
  Correct: no job outlives its frame; exactly the last job signals; the cache
  never holds another block's bytes; a read returns exactly the bytes and the
  count it should, so that all of it together implements atomic reads; every
  read returns.
* **Block list.** 64-bit arithmetic at offset 0, and empty blocks. Correct:
  `findBlock` returns the block that holds the byte, or throws exactly when the
  file has no such byte.
* **Index files.** Every number is a system call of its own; mounts overlap,
  are killed, run out of disk. Correct: a half-written index is never taken for
  a whole one; mounts that write one index over one another leave it whole.
* **File list.** Two sources of one synthetic name, two sources of one index
  path under `--index-root`; sources replaced after their index was made; failure at
  any point of opening. Correct: a list is stale or another source's only where the
  README's design allows it; what becomes of one source never costs another its name.
* **gzip's index.** The scan decodes ahead on trial and goes back, with two
  decoders exchanged by save/restore. Correct: the entries tile the file (as
  `LayoutOK` of `CompressedFile` asks), each decodes from what is stored with it,
  a failed trial costs nothing, the scan ends.
* **bzip2's scan.** Magic numbers are looked for in chunks that overlap, at any bit, and what
  is found may be data. Correct: no boundary is missed, whatever chunks it lies in;
  whatever is spurious, doubled or damaged, each block of the list is a block of the file
  and none between two is left out.
* **Other index builders.** lzop's members, each with flags of its own; zstd's seek table; xz's
  walk backwards over padding, footers and indexes. Correct: the list is exactly the
  blocks the file has, and satisfies `LayoutOK`, the assumption everything above rests on; an lzop,
  xz or zstd file that is cut short is not served.

`PROJECT.json` lists each hazard at its line, with the properties that cover it.

## 2. The modules

    CompressedFile      block list, findBlock's answer        (constants only)
      BlockSearch       std::lower_bound step by step
      FileReads         abstract: a read is one atomic step
      BlockCache        the read path; INSTANCEs ThreadPool and LRUMap,
                        implements FileReads
    ThreadPool          the worker pool alone
    LRUMap              the LRU map alone
    IndexFile           the life of index files
    GzipIndex           how the block list of a gzip file is found
    Bzip2Scan           how the block list of a bzip2 file is found
    FileList            from the command line to the names in the mount point;
                        INSTANCEs LzopFile, PixzFile and ZstdFile, and says of
                        what they find that CompressedFile's LayoutOK holds
      LzopFile          how lzop, xz and zstd files are walked
      PixzFile
      ZstdFile
    MCxxx, xxxProofs    what TLC runs, what TLAPS proves

**ThreadPool** (`ThreadPool.cc`). A critical section of `mCond` is one action; a
worker is `ready` (wants `mCond`), `asleep` (in `mCond.wait()`), `running` or
`exited`. A signal moves one sleeper, of the system's choice, to `ready`; with
no sleeper it does nothing. A job that throws ends the process
(`std::terminate`), as `threadFunc` rethrows. The constructor's `resize(threads)`
before `push_back` leaves as many unstarted entries as threads, so the
destructor queues twice as many null jobs and joins entries that hold no thread:
`JoinUninitialised` is a choice between returning an error and undefined
behaviour. (The program itself never destroys its pool.)

**LRUMap** (`LRUMap.h`). The list `mLRU`, the hash map `mMap` and the total
`mWeight` are separate variables, so that they can disagree. `makeRoom` keeps
the longest prefix that fits. MCLRUMap adds a history variable: `since[k]` is the set of keys
used since `k` was, with which "least recently used" can be stated.

**CompressedFile**, **BlockSearch** (`CompressedFile.cc`). A block is `usize`,
`uoff`, `coff`. `LastByte` is `uoff + usize - 1` with its wrap-around. In
BlockSearch each halving step of `std::lower_bound` is an action; IsLowerBound
in CompressedFile is what it answers and is what BlockCache uses.

**BlockCache** (`BlockCache.cc`, `OpenCompressedFile.cc`, `lf_read`). Any number
of readers, each serving one read at a time, as FUSE threads do. A reader's place
`rpc` runs `idle -> lock -> lookup -> enqueue -> wait -> woken -> done -> idle`, short-cutting
to `done` when everything was cached; a job's place `jpc` runs
`lookup -> (decompress -> deliver ->) complete`. `mMutex` is a variable, because a
reader keeps it over a loop; the critical sections of `cv`, of the callback's
mutex and of the pool are single actions. That `cv` is held from before the first
`enqueue` until the wait is `Complete`'s guard `rpc[r] # "enqueue"`. A
decompressed buffer is represented by the block it came from, and `copied` is the
set of (place in the caller's buffer, byte of the file), so "the right bytes"
can be stated although no byte is modelled. A worker that touches the frame of
a read that has returned goes to `process = "undefined"`. A read past the end ends
the process, as `findBlock` throws and `except` in `lzopfs.cc` calls `exit`.

**FileReads**. The promise: `Begin`, then in one step the exact bytes and count
(`Finish`), then `Acknowledge`. BlockCache's `ImplementsFileReads` maps `req` to
`reading` and the finished frame's `copied` and `max` to `reply`.

**IndexFile** (`IndexedCompFile`, `FileHandle`). One action per system call on
the index file, each at the descriptor's own offset; `O_TRUNC` empties the file
under whoever is reading or writing it, and a write behind the end leaves zeros
in between. A record is two numbers (`usize`; `csize` and `coff` as one), and a final
zero ends the index. `IOFails` stands for any exception that passes `loadIndex`;
`Crash` for a kill; nothing repairs a file. A mount opens one source at a time.
Two history variables: `harm` (a mount was killed or an operation failed)
and `shared` (index files emptied while another mount was writing them).

**GzipIndex** (`GzipFile.cc`, `GzipReader.*`). A file is the sequence of its pieces
(header, deflate blocks and footer of each member), `ipos` and `ibits` together are
the number of a piece, and of the references in a block only the farthest, `reach`,
is kept. A block can be decoded by a decoder that knows the bytes from `reach`
on; that is all there is to "without a dictionary". `rd` is the decoder in use,
`mSave` the other one. One iteration of the loop is one step: `Block` gives
the answers that `block()` may give, and each branch of the loop is an action
(`NextBlock` no trial on; `AddAndGoOn`, `AddAndRewind`, `ZeroLength`, `LookFurther`
the branches of lines 57-79; `TrialFailed`, `BadData`, `OutOfInput`), with `GoOn` for the
rest of an iteration (lines 81-97): end of member, end of file, next trial.
`restore()` takes the file's offset back with the decoder, so that an offset is part of
a decoder here. An index entry's `dict` is the first byte that its stored window
holds, or the entry's own first byte if it stores none; `Decodes` says what
`GzipBlockReader::read` can decode from it.

A trial that begins at a footer (line 89 does not ask) decodes checksum and size as if
they were deflate data: such a decoder is *astray*, and `Garbage` lets it answer anything. Only
the footer of a member without bytes (`NoBytes`) is known: eight zeros, and so are the bits that
fill the byte before it. They are a stored block whose length and complement do not agree, which is an error.
Two answers are left out: a first block of more than a window, for which eight arbitrary bytes and what
follows them would have to form a stored block of that size (then the trial's decoder
would be kept and the scan would go on astray), and a wrong
checksum that a decoder of the whole member detects (no decoder but the first of a member checks it).
Also left out: files that end inside a footer, and bytes behind the last footer.

**Bzip2Scan** (`Bzip2File.cc`). A file is its size and its *marks*: the places that look
like a magic number, with the bits they begin before their first full byte (`bits`); a mark is
genuine, spurious (data of a block) or the beginning of a damaged block. `ScanByte` is one
iteration of the scan's inner loop with `lcount` and `level`, `NextChunk` the copying of the last
`us + 1` bytes and the next read; `BlockLevel`, `SkipEOS`, `AddBlock`, `EraseBoundary` and
`EmptyRead` are what `buildIndex` does with a pair of boundaries. `createAlignedBlock` and
libbz2 are the predicate `Decompresses`: the bits between two boundaries are a block exactly if
both are genuine, nothing genuine lies between them, and the level is right. The first byte of a
buffer has nothing before it: whether a mark that begins in bits of the byte before is
recognised there is a choice (line 85 reads what lies before the buffer).

**LzopFile**, **PixzFile**, **ZstdFile**. A file is its size and its fields, in order and by place;
a field of an xz file may be `data`, anything that is neither a stream nor zeros. Each action is one
iteration of the code's loop, reading the field at the place where it stands; where there is no such
field, or it does not fit, the code's exception is the `pc` `format` (FormatException) or `error`.
Apart from the walk, each module says what the format says: of which fields a file can consist
(`WellFormed`), when it is whole (`Sound`) and which blocks it has then (`Parts`, a set). liblzma's
iterator is a fold over streams and over the blocks of each, written as recursive functions
(`AddStream`, `IndexedBlocks`). The modules share `file`, `pos`, `mBlocks` and `pc` with FileList,
which composes them.

**FileList** (`FileList.cc`, `main` and `lf_opt_proc` in `lzopfs.cc`, `loadIndex` and `checkSizes` in
`CompressedFile.cc`, `PathUtils.cc`). `Mount` takes a command line, with or without
`--index-root`; `OpenSource` to `AddToMap` are what `add` does with one source: the openers in
their order, `NextOpener` after a FormatException, `Skip` after any other error; `ReadIndex` or the
format's walk and `WriteIndex`; `NoBlocks` where `checkSizes` finds none; `AddToMap` is
`mMap[dest] = file`. `Unmount` and `Replace` make histories of several mounts over sources that
change. A source is its directory and the parts of its name between dots, so that `DestName` can
be what `removeExtension` and `replaceExtension` make of it. `made` goes with a list: the content it
was made from. The blocks a file really has are its `list`, the one that `ContentsAssumption` allows:
`Lists` asks that it tells all of `Parts`, in the order of their places and with the sums of
their sizes. Here an index is written as a whole; what becomes of one that is not is IndexFile's matter.

Of the scans of gzip and bzip2 files FileList has what may become of them, as GzipIndex and
Bzip2Scan show it. A content's `scan` names what its scan may meet, in those modules' own words
(`Troubles`), and `BuildIndex` has an outcome for each:

| `scan` has | Shown by | `BuildIndex` |
|---|---|---|
| nothing | `SoundUnlessSeam`, `SoundIsNotDamaged`, `EntriesTile` | the whole list |
| `Damaged`, gzip (`Rejected`) | `BadData`, `OutOfInput` of GzipIndex | FormatException, or an EOFException |
| `OutOfInput`, gzip (`RunsOut`) | `OutOfInput` of GzipIndex, of a sound file | the whole list, or an EOFException |
| `Damaged`, bzip2 (`Partial`) | `BlocksExact` of Bzip2Scan | any beginning of the list, an empty one too |
| `LevelLost`, bzip2 (`Partial`) | `bzip2_seam` | any beginning of the list |
| `BlockAtSeam`, bzip2 (`RunsOut`) | `EmptyRead` of Bzip2Scan | the whole list, or an EOFException |

A gzip list may have entries that hold nothing, though not as its first. `ReadIndex` reads an
index as `readBlock` does, up to the first entry of size zero: so an index of such a list comes
back as a beginning of it, as `gzip_index_reuse` shows.

## 3. The runs

| Run | Instance | What it shows |
|---|---|---|
| `pool` | 3 workers, 4 jobs, one of which throws; FairSpec | types; no lost wakeup (`WorkConserving`); `OneOwner`; `CancelReachesEveryWorker`; no job starts while cancelling; every queued job leaves the queue; shutdown completes |
| `lru_map` | 4 keys, weights 0, 1, 2, 4, limits from the same set | list and map agree; the weight is right and bounded; what is held is what was used last; eviction only for room |
| `block_search` | every list of up to 5 sizes 0..2 with a non-empty first block, every offset to two behind the end | `findBlock` is right (types and the range of the answer are proved) |
| `block_cache` | 2 readers, 2 workers, 2 files, cache of 3 | types; frames outlive jobs; countdown; cache; exact reads; implements FileReads |
| `block_cache_faults` | 2 readers, 2 workers, 1 file of four blocks of which one is damaged; a read of two sound blocks, one around the damaged block, one past the end; spurious wakeups, cache of 2; FairSpec | only a read that overlaps or encloses a damaged block ends the process for damage; a read whose jobs are over is exact; every read returns, or the process ends |
| `spurious_wakeup` | reads of one file, undamaged, with spurious wakeups | **violation**: see section 6 |
| `index_file` | 2 mounts at a time, each again and again; 2 sources of 2 blocks and 1 block | a source is served whole; indexes are left whole; sources are skipped only beside a writer or after a failure |
| `gzip_index` | windows of 2 bytes, entries wanted every 2 bytes, blocks of 0 to 3 bytes with references of up to 2; every file of one member of up to 4 blocks, many of two and three members, damaged ones, ones cut short; FairSpec | the entries tile the file and the first holds something (`EntriesTile`), decode (`EntriesDecode`), are bounded (`EntriesBounded`); a sound file is not called damaged; the scan ends |
| `gzip_index_reuse` | the same | **violation**: see section 6 |
| `bzip2_scan` | chunks of 10 bytes, of which 3 overlap; files of one to three streams with blocks of 3 to 9 bytes, spurious magic numbers, damaged blocks, ones cut short; FairSpec | no boundary is missed and none noted twice but at a seam (`NoMagicMissed`); blocks are the file's (`BlocksExact`); a sound file is served whole unless one of two things happens at a seam (`SoundUnlessSeam`); building ends |
| `bzip2_seam` | the same | **violation**: see section 6 |
| `file_list` | one or several sources per command line, with and without index root, mount after mount; lzop, xz and zstd files of every combination of members, streams, frames, flags, padding, and cut short; sources that share names or index paths, are replaced or removed, or lie where no index can be written; a gzip file that holds nothing beside one of the same name; gzip and bzip2 files that are damaged, that run out of input, lose a level or have an empty entry, each beside a sound file; FairSpec | lists are the files', or the beginning of one where an exception is named (`ListsAreTheFiles`); `StaleOnlyWhen`; nobody loses its name to another's error (`AllAreNamed`); `LayoutsOK`; every mount is ready some time |

Bounds and why they suffice:

* Pool: with 3 workers one can be running, one asleep and one on its way when a
  signal arrives; 4 jobs exceed the workers, so jobs queue.
* LRU map: with limit 4 and weights 0, 1, 2, 4 an entry can fit exactly, fit after one
  or several evictions, or never fit; 4 keys let three entries be evicted at once.
* Block search: 5 blocks give three halving steps, all sizes include empty blocks in
  every place but the first.
* Block cache: the two files' compressed offsets coincide, so that only the id in
  the key tells them apart; one file has an empty block in the middle; requests lie
  inside a block, span blocks from the middle of one, and ask for more than the file
  has. The cache holds 3 bytes and the files have 6, so blocks are evicted
  between a reader's lookup and its job's; two readers may miss the same
  block. `MaxOffset` = 31 stands for 2^64 - 1: all that is asked of it is that no real
  offset reaches it. No counter needs a bound of its own, as all that grows
  belongs to a read and ends with it.
* Faults run: without symmetry (unsound for liveness), hence the smaller file. Two workers can take
  part in one read while the other reader's jobs wait. One request is for two sound blocks: it
  misses both, is served by two jobs and returns, while the other reader may ask for the same.
  Another lies around the damaged block, which is empty: it is decompressed although no byte of it
  is asked for. The third begins behind the end.
* Index files: two mounts alive at once already meet in every pair of places, and
  each may be killed and started again, so a file can be written by any number of
  processes in turn. A list of two blocks has a first, a middle and a last number.
  The theorems of section 5 hold for any number of mounts.
* gzip: a block may be empty, shorter than a window, exactly a window or longer; a reference may
  reach to the byte before, over a whole window, or be cut at the member's
  beginning; a trial can succeed at once, after further blocks, or fail at any of them; four
  blocks let entries with and without dictionary follow each other. `Longest` = 3 and `MinBlock` = 2
  stay below `USizeLimit` = 8, which stands for 2^32. The theorems hold for all
  well-formed files.
* bzip2: the code's sizes are scaled. A chunk has 10 bytes, a magic number is looked for in `Word` =
  2, so each further chunk begins 7 bytes on; a stream's header has `MagicSize` = 1 byte before its
  level, its end `FooterSize` = 3. With blocks of 3 to 9 bytes in up to three streams every kind of
  mark, and every byte between two streams, falls on a seam and on each other place of a chunk. The
  theorems hold for all sizes that `ScanAssumption` allows, the code's among them.
* File list: a scan's troubles are met by files of two and three blocks, so a beginning can be
  empty, one block or more, and an empty entry be the last or have something behind it; the sound
  file beside each has a name of its own to lose or, under the index root, an index to share.
  Lengths are words of four bytes for lzop and xz (every field's length is a multiple, but for data,
  whose length only moves what follows) and bytes for zstd. `HeaderSize` = 2 and `Chunk` = 2 let
  padding of 0 to 5 words end within, at and behind a chunk; `USizeLimit` = 8 stands for 2^32 and is
  passed by one block; `MaxOffset` = 63 lies behind every file. Up to three members, streams or
  frames have a first, a middle and a last. There are at most five sources on a command line; the
  theorems hold for any number of sources, of anything `ContentsAssumption` allows.

Deadlock is checked except in `pool`, `block_cache_faults` and `spurious_wakeup`,
where the process may end, and in the gzip and bzip2 runs, where the scan does.

Every property of a passing run has a mutant in `PROJECT.json`: a definition of the
model replaced by what a plausible bug in that code would make of it (a
dropped guard, a lock not taken, a last zero not written), under which TLC finds the
property violated. The mutated forms stand in the modules, before the definition
they replace.

## 4. Fairness

* Pool: weak fairness of each worker's next step and of the destructor's: the kernel
  runs every runnable thread.
* Read path: weak fairness of every step of readers and workers that no other thread
  can disable. For taking `mMutex` (`LockCache`, `JobLookup`, `DecompressAndAdd`) strong
  fairness: a thread that finds the mutex free again and again gets it some time. POSIX
  does not promise this of a mutex; it is what the default scheduling provides in
  practice, and without it one reader could starve all others.
* gzip's and bzip2's scans, and the opening of sources (`Add`): weak fairness of the one thread they are.
* No fairness for callers (nobody has to read, mount or unmount), for failures, for replacements of
  sources, or for spurious wakeups.

`EveryReadReturns` says that a read returns or the process ends, as it does when a worker meets a
damaged block, a read begins past the end, or a worker uses a frame that is gone.

## 5. The proofs

All theorems are about every value of the constants that satisfies the named
assumptions; `tlapm` checks each to the last leaf.

**ThreadPoolProofs** (`PoolAssumption`: finitely many workers, at least one; no job
is null). `PoolSafety` is the inductive invariant: types, `WorkConserving`, `OneOwner`, only
nulls are queued while cancelling, and `CancelReachesEveryWorker` (null jobs
plus unstarted entries are at least the workers left). From it follow the
invariants of the run, `PoolTypes` among them, and `PoolNoJobStartsWhileCancelling`.

**BlockSearchProofs** (`Layouts`: every file satisfies `LayoutOK`).
`FindsLowerBound`: everything before the range ends before the offset, everything
behind it does not; `FindBlockIsCorrect` adds what the module's first lemmas say of the lower
bound in a sound layout; BlockCacheProofs cites them too.

**LRUMapProofs** (`LRUAssumption`: weights are natural numbers). That the running total is the sum
of the list's weights speaks of sums, which `LRUMap` writes as a fold. Induction over data is out of
reach as the library states it, so the module derives a principle that is not: `SubsetInduction`,
for the subsets of a finite set and with a *set* for the induction's predicate, from the
well-foundedness of the naturals (`LeastNumber`). From it follow the lemmas on sums: over a range
extended, cut, shifted or with an element taken out. `LRUInv` is the types, `MapMatchesList` and
`WeightBounded`, with the list free of repeated keys; `KeepsFirst` is then the longest prefix that
fits, and what `find`, `add` and `maxWeight` leave is a prefix of what was there, perhaps with one
entry moved or put to the front. `HoldsMostRecentlyUsed` is inductive on top of it: using a key
empties its `since` and joins the key to all others, exactly as it moves it to the front; a prefix
of the list drops those that everything kept has been used since. `EvictsOnlyForRoom` is that the
prefix is longest.

**BlockCacheProofs** (`LayoutAssumption`: the block lists are sound;
`CacheAssumption`; `JobAssumption`, `ReplyAssumption`: Null is no job and no reply). The inductive
invariant `Inv` holds with spurious wakeups as well as without, but speaks of a reader's frame only as
long as the reader is in it; `JobsEndBeforeFrames`, `ReadsAreExact` and `ReadPathImplementsFileReads` assume
`~SpuriousWakeups`, because with them they are false, and nothing else does. `Inv` has five parts:

* `TypeOK`, and the pool's own invariant `PoolOK`: every step of BlockCache is a step of the pool or
  leaves it alone, so the pool's theorems carry over;
* `CacheFaithful`: it needs that keys tell all blocks of all files apart, which is where
  `LayoutOK`'s distinct compressed offsets come in;
* `CompleteRuns`: a job that is to count down is running;
* `ReaderOK` of each reader: *counting* (a reader with jobs has its frame, `remain` is the number
  of blocks needed or in jobs, and each is in only one of them), *position* (blocks
  before `it` that the request covers are delivered or pending), *bytes* (what has been
  copied is exactly the pieces of the delivered blocks, and `max` is the end of the last of them, or
  where the read began).

`FramesOutliveJobs` and `CountdownExact` are not inductive alone: that the count is right needs
that no two jobs are for one block; that the last job finds its reader waiting needs the
order of `enqueue` and `wait`; that the bytes are complete at zero needs that every block
of the request was either delivered or pending. From `Inv` follow `CacheFaithful`,
`FramesOutliveJobs`, `CountdownExact`, `ReadExact`, and the refinement
`ReadPathImplementsFileReads`: `BeginRead` maps to `Begin`; the step that makes `rpc` "done"
(`UnlockCache` with nothing needed, or `Return`) maps to `Finish`, for which `ReadExact` at that step is
what is needed; `Reply` maps to `Acknowledge`; all other steps stutter. `ReadsAreExactUnlessEarly`
says of every read, early wakeups or not, that it is exact if it returns when its jobs are over, and
`DamageStaysLocal` that a job stands for a block that its read overlaps or encloses (if it is
empty). `CacheIsSound` is apart from `Inv`: each step of the read path leaves the cache
alone or is a `find` or an `add` of LRUMap, whose lemmas are those of LRUMapProofs (`Maps`), so that
list, map and total agree in every interleaving.

**IndexFileProofs** (`IndexAssumption`: the lists that are built are not empty and neither are
their blocks; the theorems but `IndexTypes` also assume `Distinct`: no two sources share an index path).
`IndexInvariant` is the conjunction of `CellsOK` (an index holds nothing but the right
numbers and zeros, and is never too long), `ReadersOK` (a reader's offset is
`2 * Len(mBlocks) + 1` or `+ 2`, so that it meets the last number, which is zero whether it
is written or a gap, where it takes it for the end), `WritersOK`, `SoleOK` and
`ReadersFaithful` (as long as no index was emptied under its writer, files and lists are
prefixes of the right ones) and `CoveredOK` (as long as nothing failed, each missing or
wrong number has a writer whose offset has not passed it). The last is why mounts that
overlap repair what they do to each other: `IndexesAreLeftWhole` and
`SkipsOnlyBesideWriters` follow from it, `SourcesAreServedWhole` from the others.

**GzipIndexProofs** (`GzipAssumption`: the files are what the gzip format allows; entries of the
wanted distance and one deflate block stay below 2^32, which a very large `--block-factor` would
break). `Main` is the decoder that counts: the saved one during a trial, `rd` otherwise.
`GzipInvariant` says of it that it stands where the file has its next byte and knows everything that
the rest of its member refers to (`DecoderOK`); of the list that all entries but the last have their
sizes and decode (`ListOK`) and that what lies between the last entry and the decoder consists of
blocks of one member (`LastOK`); of a trial that its decoder has come from the saved one's place
over blocks that refer to nothing before it (`TrialOK`). `EntriesDecode` needs most of it: a trial
that has put out more than a window proves that the *rest of the member* refers to nothing before
its beginning, though only a part of it was decoded (`TrialEncloses`), because no reference reaches
farther than a window; for the same reason the decoder of a trial may replace the saved one
(`DecoderAdopted`), and a copied window is enough (`WindowEncloses`). That no entry reaches into the
next member needs that a trial fails at a block with bytes only if its member already has an entry
(`Opened`, `FailedIsPassable`): the first block of a member refers to nothing before it. `Passable`
and `Triable` carry the bound on distances through the two kinds of places in the loop. That the
first entry is not empty has an invariant of its own, `FirstOK`: it stands at a deflate block with
bytes (`FirstStays`: no later step moves it). Before there is an entry the decoder that counts has
put out nothing, so a trial that gets to a footer is at one of a member without bytes, where it
fails (`BeforeFirst`, by `NoBytes`).

**Bzip2ScanProofs** (`ScanAssumption`: the files are what the bzip2 format allows, each chunk begins
farther behind the one before than a stream's header is long, a footer is longer than the bytes a
magic number is looked for in; the code has chunks of 4096 bytes, and 8, 3 and 10). That
`BlocksExact` holds needs `Bzip2Invariant`, which speaks of the scan too. While scanning (`ScanOK`):
every boundary is a mark, consecutive boundaries are one mark or two consecutive ones (`Steps`), the
first is the first mark, and the last is the last mark in what has been looked at (`Frontier`;
`Reach` allows for the byte at a seam, looked at in the chunk before). So no mark is left out, which
pruning relies on: while building (`BuildOK`) the boundary to begin at is genuine, it stands where
the blocks found so far end, and the boundaries behind it still step from mark to mark.
`EraseBoundary` may break the step from `i` to the next, but only for a block; that a block
decompresses up to a boundary then proves that nothing genuine was lost in between.
`Bzip2NoMagicMissed` has a second invariant, `ScanInv`: the buffer begins at a multiple of the
stride (`Buffer`), every boundary in what has been looked at is noted (`Noted`), they are in order
and one noted twice stands at a seam (`Ordered`), and if the last was noted twice it stands no
farther than where the buffer begins (`Doubled`), so that it is not noted again.
`Bzip2SoundUnlessSeam` needs a third, `SoundInv`, of sound files without the two things at a seam
that it excepts. While scanning (`LevelInv`): within the header of a stream `lcount` is exactly the
way to its level, unless the level has just been read, and at the magic number behind it the level
is known (`Counting`); a byte of a header looked at twice would break this, which is what
`~LevelLost` excludes, and that a header is shorter than a step of the chunks is needed lest two
seams lie in one. So every boundary that opens a stream has its level (`LevelsNoted`). While
building (`SoundBuild`): boundaries are in order, doubled only at seams (`InOrder`), no genuine one
behind `i` is lost (`Remaining`), and the level in use is the stream's (`LevelKnown`). From `i` the
file's next genuine mark is therefore still to come (`NextIsKnown`; it exists because a least number
does), a boundary before it is spurious or a repetition, and erasing it loses nothing
(`OnlySpuriousErased`, by `OrderFacts`); at the last boundary nothing genuine can be left, so it is
the file's end, and all of it is served.

**FileListProofs** (`SourcesAssumption`: a source is told by its directory and name, and none is in the
index root; `KindsAssumption`: sources that may share an index have one format; `ContentsAssumption`:
contents are what the formats allow, whole or cut short). Three invariants, each on top of the one before:

* `Inv`, whose list it is: an index holds the list of what a source with that path holds, unless that
  source was replaced (`IndexOK`); a source being opened is made from itself until an index has been read
  (`OpenedOK`), then perhaps from one that shares its path, which needs the index root
  (`OwnOrShared`); likewise what is served (`ServedOK`). `ListsAreStaleOnlyWhen` follows.
* `ContentInv`, that the list is right: each walk has listed exactly the blocks of the fields behind
  it. For lzop (`LzopOK`) the walk stands at the beginning of a field and `flags` are those of its
  member, on which the place of the next block depends. For zstd (`ZstdOK`) `coff` is where the next
  frame begins, and a table that is found is the file's own. For xz the walk is backwards (`XzOK`):
  `mIndex` is that of the streams from a field on, with the padding behind each (`XzRest`), `pad` is
  what has been skipped so far, wherever chunks end, and data in the way of a footer means that the
  file is not sound. Over a finished index the iterator's two recursive functions are taken step by
  step (`BlocksFold`, `StreamsFold`), each induction being over numbers and by the least
  counterexample (`LeastNumber`); `IndexedIsCut` is what comes of them: the blocks, each `usize`
  modulo 2^32. A list that tells a given set of blocks is the only one that does (`OneList`), so a
  finished walk's is `list`. Of gzip and bzip2 `OwnList` says what `BuildIndex` and `ReadIndex`
  leave of `list`: all of it, or a beginning where the file is `Partial` or the list `EndsEarly`;
  that reading back any such index gives such a list again is `ReadBack`. `StoredOK`, `LoadedOK` and
  `ServedListOK` carry it through indexes and names. `ListsAreAlwaysTheFiles` follows, and
  `LayoutsAreSound`: a list as `Lists` says satisfies `LayoutOK` if its first block is not empty
  (`BlocksFollow`, `EveryByteHasABlock`), and so does a beginning of it (`BeginningLists`). For
  lzop, xz and zstd this discharges, under the exceptions `LayoutsOK` names, the assumption that
  BlockSearchProofs and BlockCacheProofs make; for gzip and bzip2 it says that indexes, mounts and
  names keep what `ContentsAssumption` takes over from GzipIndex and Bzip2Scan.
* `NamedInv`, that nothing is forgotten: an opener only gives up on a source that is not of its kind
  (`ProgressOK`), a list that was read comes from a source that shares the path and may lend it
  (`LoadedFrom`), and the sources before `arg` have their names, unless they cannot be used
  (`NamedOK`). `AllSourcesAreNamed` follows. `Usable` leaves out by name every sound file that
  section 6 says may be skipped.

Left to TLC alone is liveness (`EveryJobLeavesQueue`, `ShutdownCompletes`, `EveryReadReturns`,
`ScanEnds`, `BuildEnds`, `AddEnds`), which the prover does not do under fairness. All invariants and
action properties of the passing runs are theorems.

## 6. Where the code falls short of its documents

With a run:

* `spurious_wakeup` (`BlockCache.cc:78`): `cv.wait()` is called once, without a test of
  `remain`. POSIX allows it to return without a signal; the read then hands out a
  buffer that was not filled, and its jobs go on using a frame that is gone.
* `gzip_index_reuse` (`GzipFile.cc:109`): a trial that fails at a footer or at the next
  header makes an entry with a dictionary there if the last one is far behind. The next
  entry is made at the same byte, so this one stays empty, and an empty
  entry in an index file means its end (`CompressedFile.cc:138`). The first mount is right; the
  second serves the file only up to there, as if it were shorter. A member of some 2 MB of zeros
  followed by a second member is enough with the default block factor. `ListsAreTheFiles` excepts
  such an index (`EndsEarly`).
* `bzip2_seam` (`Bzip2File.cc:74` and `:99`): the last byte looked at in a chunk is the first
  of the next chunk too. If it lies between an end of stream and the next stream's level, `lcount`
  counts it twice, the level is taken from the byte before, no block of the
  later streams decompresses, and the file is served without them, without a word. FileList's
  `ListsAreTheFiles` and `AllAreNamed` except such a file (`LevelLost`).

Seen while modelling, without a run of their own; where a property of a run would
meet them, it excepts them by name:

* A bzip2 block that begins with a byte, at a seam, is noted twice; reading no bytes between the two
  is an EOFException outside the `try` (`Bzip2File.cc:205`, `:121`), and a sound file is skipped.
  `SoundUnlessSeam` excepts it (`BlockAtSeam`), and so does `Usable` in `AllAreNamed`.
* A bzip2 file of ten to twelve bytes passes `checkFileType`, but no boundary is found in
  it; `i->level` of the empty list is undefined (`Bzip2File.cc:198`). No file of a whole
  block is that short.
* A damaged bzip2 block is taken for a chain of spurious boundaries: everything behind it is left out
  silently, and so is a last block that is cut short (`Bzip2File.cc:207-214`). `BlocksExact` says that what is
  left is right, and `ListsAreTheFiles` asks no more of such a file than a beginning (`Partial`).
* A trial at the last footer of a gzip file may run out of file, and its EOFException ends
  `buildIndex` (`GzipFile.cc:55`, `GzipReader.cc:107`); the sound file is skipped, where
  `README.md:32` says that each file is usable. Whether it happens depends on the eight bytes of the
  footer. In GzipIndex it is `OutOfInput`, which `SoundIsNotDamaged` does not take for damage;
  `AllAreNamed` excepts the file (`Usable`).
* For an empty first block `uoff + usize - 1` is 2^64 - 1, and `findBlock` answers that block for
  every offset (`CompressedFile.cc:60`). Of all formats only a zstd seek table can list one;
  `LayoutsOK` excepts it.
* `usize` takes the lower 32 bits of an xz block's size (`PixzFile.cc:204`): `TooLong`.
* A mount stopped while it writes an index leaves a truncated file; later mounts read it to
  its end (`ReadEOF`) and skip the source, and nothing rebuilds it
  (`CompressedFile.cc:101` catches only a failing open).
* Where the index cannot be created, a sound file is skipped though its list has just been
  built (`CompressedFile.cc:106`): `Usable` excepts it.
* Two sources of one synthetic name: the later one has it, the earlier one is not reachable (and is
  leaked) (`FileList.cc:71`): what `AllAreNamed` says of "the last".
* An index is read without a look at the file it is for: stale after the file was replaced
  (`CompressedFile.cc:100`), or another file's if two share an index path (`:167`). `StaleOnlyWhen` says
  that nothing else makes a list stale.
* Under `--index-root`, the index of a file that holds no block is written although the file is then
  skipped. Another source of that name reads it, `checkSizes` throws (`CompressedFile.cc:19`), and a
  sound file is skipped; the attempt to prove `AllAreNamed` without an exception for it
  (`MayShareNoBlocks`) met this case, and `MCFileList`'s disk `Hollow` shows it. The index of a
  bzip2 file that is damaged from its first block on does the same.
* A file without any byte is skipped: `checkSizes` throws as it has no block.
* `::realpath` returns NULL for a source that does not exist; `std::string(NULL)` throws a
  `logic_error`, which nobody catches (`PathUtils.cc:63`). FileList's `Mount` takes only command
  lines of sources that exist.
* `lf_open` returns a positive errno where FUSE expects a negative one (`lzopfs.cc:117`).
* `lf_read` ends the process on any `runtime_error`, such as a read past the end (`lzopfs.cc:134`).
* Why `ServesWholeFile` excepts index files in `shared`: when mount B empties an index that
  mount A is writing, A's next number lands behind a gap of zeros. B fills the gap,
  but a third mount that reads in between takes a zero for the end of the index, and
  serves a file that looks shorter.

## 7. Not modelled, and the plan

Left out for good:

* zlib, libbz2, liblzma, lzo and libzstd, modelled only by how the code uses them, and with
  them each format's `decompressBlock`; BlockCache takes what it returns for granted, but for
  damaged blocks. liblzma's own index and its `findBlock` are among them.
* Bit shifting in bzip2's `createAlignedBlock` (the predicate `Decompresses` stands for it) and byte order.
* Printing (`dumpBlocks`, `BlockCache::dump`, warnings), option parsing beyond the sources and
  `--index-root`, the attributes `lf_getattr` reports, build scripts.
* `lf_open` and `lf_release`: each makes or deletes a handle, which holds a descriptor and is used by
  one read at a time or several; readers of BlockCache share no other state.
* A loss of power that reorders writes on disk (a kill keeps them in order).

What the modules take for granted, where one could ask:

* FileList: sources that share an index path have one format (`KindsAssumption`: `loadIndex` does not
  ask what an index is of, and what an lzop file read through a gzip index would be is the
  decoder's matter); only one mount is alive at a time and indexes are written whole, which is what
  IndexFile relaxes.
* FileList: what a content's `list` and `scan` are is taken over from GzipIndex and Bzip2Scan, as the table in
  section 2 says, by `ContentsAssumption` and not by a refinement; and where a gzip source is mounted
  again, its list is the same (all mounts have the same block factor).
* IndexFile: no block is empty, which `gzip_index_reuse` shows gzip does not keep.
* GzipIndex: files that do not end inside a footer, and nothing behind the last one.
* Bzip2Scan: data that look like a magic number lie inside blocks, not in footers or headers
  (between two streams there are too few bytes to hold one), and at no place where a genuine one is.

Planned, in this order:

1. A replaced source while it is mounted: what a read of the old list finds in the new file.
2. Mounts at once in FileList, with IndexFile's system calls in place of its whole indexes.
