------------------------------ MODULE FileList ------------------------------
(***************************************************************************)
(* From the command line to the names in the mount point: main and         *)
(* lf_opt_proc (src/lzopfs.cc) give the sources, FileList::add             *)
(* (src/FileList.cc) tries one format after the other on each, the         *)
(* format's class finds the blocks or reads them from an index, and the    *)
(* file gets a name.  The walks of LzopFile, PixzFile and ZstdFile are     *)
(* part of it; of the scans of gzip and bzip2 files it has what GzipIndex  *)
(* and Bzip2Scan show may become of them.                                  *)
(*                                                                         *)
(* A file has its kind, size and fields, and list, the blocks it has in    *)
(* order: none if it is empty or, but for bzip2, not sound.  scan tells    *)
(* what a scan of it may meet, by the names those modules give it:         *)
(* "Damaged" is damage or a cut, "OutOfInput" a trial that runs out of     *)
(* file at the last footer, "BlockAtSeam" and "LevelLost" are those of     *)
(* Bzip2Scan.                                                              *)
(***************************************************************************)
EXTENDS Integers, Sequences

CONSTANTS Sources,      \* paths: [dir, name], a name being its parts between dots
          Disks,        \* what the sources may hold
          Replacements, \* source -> what may replace it
          ArgLists,     \* the command lines
          ReadOnly,     \* paths where no index can be created
          HeaderSize, Chunk, USizeLimit,
          MaxOffset,
          None

Openers == <<"lzop", "gzip", "bzip2", "xz", "zstd">>
Indexed == {"lzop", "gzip", "bzip2"}

(* Sources that may share an index have one format: loadIndex does not look*)
(* whether an index is of its own format.                                  *)
ASSUME KindsAssumption ==
    \A s \in Sources : \E kind \in {Openers[o] : o \in 1..Len(Openers)} :
        \A t \in Sources : t.name = s.name =>
            /\ \A d \in Disks : d[t].kind \in {kind, "absent"}
            /\ \A c \in Replacements[t] : c.kind \in {kind, "absent"}

(* A source is told by its directory and its name; none is in the index    *)
(* root.                                                                   *)
ASSUME SourcesAssumption ==
    /\ \A s, t \in Sources : s.dir = t.dir /\ s.name = t.name => s = t
    /\ \A s \in Sources : s.dir # "root"
    /\ \A d \in Disks : DOMAIN d = Sources
    /\ ArgLists \subseteq Seq(Sources)

VARIABLES disk, index,          \* what is stored
          args, indexRoot,      \* the command line; is there an --index-root?
          arg, opener,          \* the source and the format to be tried
          file, pos, flags, coff, mBlocks, pad, mIndex, \* the source being opened
          made,                 \* the content its list was made from
          mMap,                 \* name -> source, list and made
          replaced,             \* sources replaced at some time
          pc

stored == <<disk, index, replaced>>
command == <<args, indexRoot>>
walk == <<file, pos, flags, coff, mBlocks, pad, mIndex>>
vars == <<disk, index, args, indexRoot, arg, opener, file, pos, flags, coff, mBlocks, pad,
          mIndex, made, mMap, replaced, pc>>

Lzop == INSTANCE LzopFile
Pixz == INSTANCE PixzFile
Zstd == INSTANCE ZstdFile

Contents == UNION {{d[s] : d \in Disks} \cup Replacements[s] : s \in Sources}

Part(b) == [usize |-> b.usize, csize |-> b.csize, coff |-> b.coff]
Size(l) == IF l = <<>> THEN 0 ELSE l[Len(l)].uoff + l[Len(l)].usize

(* A list tells blocks in the order of their places in the file, and where *)
(* each begins in what they decompress to.                                 *)
Lists(l, blocks) ==
    /\ l \in Seq([usize : Nat, csize : Nat, uoff : Nat, coff : Nat])
    /\ {Part(l[n]) : n \in 1..Len(l)} = blocks
    /\ \A m, n \in 1..Len(l) : m < n => l[m].coff < l[n].coff
    /\ \A n \in 1..Len(l) :
          l[n].uoff = IF n = 1 THEN 0 ELSE l[n - 1].uoff + l[n - 1].usize

Parts(c) ==
    CASE c.kind = "lzop" -> Lzop!Parts(c)
      [] c.kind = "xz"   -> Pixz!Parts(c)
      [] c.kind = "zstd" -> Zstd!Parts(c)
      [] OTHER           -> {Part(c.list[n]) : n \in 1..Len(c.list)}

Troubles == [lzop |-> {}, gzip |-> {"OutOfInput", "Damaged"},
             bzip2 |-> {"BlockAtSeam", "LevelLost", "Damaged"}, xz |-> {}, zstd |-> {},
             absent |-> {}]

(* What the formats say of what a source holds.  A seek table may tell of  *)
(* frames that hold nothing, and gzip's scan makes entries that do, though *)
(* not the first (EntriesTile of GzipIndex).                               *)
ASSUME ContentsAssumption ==
    /\ HeaderSize \in Nat \ {0} /\ Chunk \in Nat \ {0}
    /\ USizeLimit \in Nat \ {0} /\ MaxOffset \in Nat
    /\ \A c \in Contents :
        /\ c # None /\ c.kind \in {"lzop", "gzip", "bzip2", "xz", "zstd", "absent"}
        /\ c.scan \subseteq Troubles[c.kind]
        /\ c.size \in Nat /\ Len(c.fields) \in Nat
        /\ Lists(c.list, Parts(c)) /\ Size(c.list) <= MaxOffset
        /\ c.kind \notin {"gzip", "zstd"} => \A n \in 1..Len(c.list) : c.list[n].usize > 0
        /\ c.kind = "gzip" /\ c.list # <<>> =>
              c.list[1].usize > 0 /\ "Damaged" \notin c.scan
        /\ c.kind = "lzop" => Lzop!WellFormed(c)
        /\ c.kind = "xz" => Pixz!WellFormed(c)
        /\ c.kind = "zstd" => Zstd!WellFormed(c)
        /\ c.kind \in {"gzip", "bzip2", "absent"} => c.fields = <<>>
        /\ c.kind = "absent" => c.list = <<>>

Source == args[arg]

(* Mutant of IndexPath: every index is in the index root.                  *)
IndexPathAtRoot(s) == <<"root", s.name>>

IndexPath(s) == IF indexRoot THEN <<"root", s.name>> ELSE <<s.dir, s.name>>
IndexPaths == {<<s.dir, s.name>> : s \in Sources} \cup {<<"root", s.name>> : s \in Sources}

(* destName: a suffix of the format is removed or replaced, unless nothing *)
(* stands before it.                                                       *)
Removed == [lzop |-> {"lzo"}, gzip |-> {"gz"}, bzip2 |-> {"bz2"}, xz |-> {"xz", "pxz"},
            zstd |-> {"zst"}]
Tar == [lzop |-> {"tzo"}, gzip |-> {"tgz"}, bzip2 |-> {"tbz2"}, xz |-> {"txz", "tpxz"},
        zstd |-> {}]

HasExtension(name, exts) ==
    Len(name) > 1 /\ name[Len(name)] \in exts /\ (Len(name) = 2 => name[1] # "")

DestName(kind, name) ==
    LET stem == SubSeq(name, 1, Len(name) - 1)
    IN  IF HasExtension(name, Tar[kind]) THEN Append(stem, "tar")
        ELSE IF HasExtension(name, Removed[kind]) THEN stem ELSE name

Holding(f) == /\ file' = f /\ pos' = 0 /\ flags' = {} /\ coff' = 0 /\ mBlocks' = <<>>
              /\ pad' = 0 /\ mIndex' = <<>> /\ made' = f

Init ==
    /\ disk \in Disks
    /\ index = [p \in IndexPaths |-> None]
    /\ args = <<>> /\ indexRoot = FALSE /\ arg = 1 /\ opener = 1
    /\ file = None /\ pos = 0 /\ flags = {} /\ coff = 0 /\ mBlocks = <<>> /\ pad = 0
    /\ mIndex = <<>> /\ made = None
    /\ mMap = <<>> /\ replaced = {}
    /\ pc = "down"

-----------------------------------------------------------------------------
(* lf_opt_proc and main: no source that does not exist gets past realpath; *)
(* the others are added in the order of the command line.                  *)
Mount ==
    /\ pc = "down"
    /\ \E a \in ArgLists :
        /\ \A n \in 1..Len(a) : disk[a[n]].kind # "absent"
        /\ args' = a
    /\ indexRoot' \in BOOLEAN
    /\ arg' = 1 /\ mMap' = <<>> /\ pc' = "next"
    /\ UNCHANGED <<stored, opener, walk, made>>

OpenSource ==
    /\ pc = "next" /\ arg <= Len(args)
    /\ opener' = 1
    /\ Holding(disk[Source])
    /\ pc' = IF disk[Source].kind = "absent" THEN "error" ELSE "check"
    /\ UNCHANGED <<stored, command, arg, mMap>>

Serve ==
    /\ pc = "next" /\ arg > Len(args)
    /\ pc' = "serve"
    /\ UNCHANGED <<stored, command, arg, opener, walk, made, mMap>>

Opening(kind) == Openers[opener] = kind

(* checkFileType of the two formats whose files have no fields here.       *)
CheckFileType ==
    /\ pc = "check" /\ (Opening("gzip") \/ Opening("bzip2"))
    /\ pc' = IF file.kind = Openers[opener] THEN "load" ELSE "format"
    /\ UNCHANGED <<stored, command, arg, opener, walk, made, mMap>>

WalkLzop == /\ Opening("lzop") /\ Lzop!Next
            /\ UNCHANGED <<stored, command, arg, opener, pad, mIndex, made, mMap>>
WalkPixz == /\ Opening("xz") /\ Pixz!Next
            /\ UNCHANGED <<stored, command, arg, opener, flags, coff, mBlocks, made, mMap>>
WalkZstd == /\ Opening("zstd") /\ Zstd!Next
            /\ UNCHANGED <<stored, command, arg, opener, flags, pad, mIndex, made, mMap>>

(* FormatException: the next format is tried; after the last, or on any    *)
(* other exception, the source is skipped.                                 *)
NextOpener ==
    /\ pc = "format" /\ opener < Len(Openers)
    /\ opener' = opener + 1 /\ Holding(file) /\ pc' = "check"
    /\ UNCHANGED <<stored, command, arg, mMap>>

Forget == Holding(None)

Thrown == \/ pc = "error"
          \/ pc = "format" /\ opener = Len(Openers)

(* Mutant of Skip: the exception ends the loop over the sources.           *)
SkipRest ==
    /\ Thrown
    /\ arg' = Len(args) + 1 /\ pc' = "next" /\ Forget
    /\ opener' = 1
    /\ UNCHANGED <<stored, command, mMap>>

Skip ==
    /\ Thrown
    /\ arg' = arg + 1 /\ pc' = "next" /\ Forget
    /\ opener' = 1
    /\ UNCHANGED <<stored, command, mMap>>

-----------------------------------------------------------------------------
Beginning(l, n) == SubSeq(l, 1, n)
IsBeginning(l, whole) == \E n \in 0..Len(whole) : l = Beginning(whole, n)

(* readBlock takes a usize of zero for the end of the index.               *)
EndsAt(l, n) == /\ \A k \in 1..n : l[k].usize # 0
                /\ n < Len(l) => l[n + 1].usize = 0

(* IndexedCompFile::loadIndex: an index is read without a look at the file.*)
ReadIndex ==
    /\ pc = "load" /\ Openers[opener] \in Indexed
    /\ index[IndexPath(Source)] # None
    /\ LET l == index[IndexPath(Source)].list
       IN  \E n \in 0..Len(l) : EndsAt(l, n) /\ mBlocks' = Beginning(l, n)
    /\ made' = index[IndexPath(Source)].made
    /\ pc' = "loaded"
    /\ UNCHANGED <<stored, command, arg, opener, file, pos, flags, coff, pad, mIndex, mMap>>

StartBuild ==
    /\ pc = "load"
    /\ Openers[opener] \in Indexed => index[IndexPath(Source)] = None
    /\ pc' = IF Opening("lzop") THEN "blocks" ELSE "build"
    /\ UNCHANGED <<stored, command, arg, opener, walk, made, mMap>>

(* gzip's scan rejects what is damaged or cut short, with throwFormat or   *)
(* an EOFException; bzip2's leaves out what is behind the damage or behind *)
(* a level that is lost.                                                   *)
Rejected(c) == c.kind = "gzip" /\ "Damaged" \in c.scan
Partial(c) == c.kind = "bzip2" /\ c.scan \cap {"Damaged", "LevelLost"} # {}

(* An EOFException that no damage is needed for.                           *)
RunsOut(c) == c.scan \cap {"OutOfInput", "BlockAtSeam"} # {}

BuildIndex ==
    /\ pc = "build" /\ (Opening("gzip") \/ Opening("bzip2"))
    /\ \/ /\ ~Rejected(file)
          /\ \E n \in 0..Len(file.list) :
                /\ n = Len(file.list) \/ Partial(file)
                /\ mBlocks' = Beginning(file.list, n)
          /\ pc' = "built"
       \/ Rejected(file) /\ pc' = "format" /\ mBlocks' = mBlocks
       \/ /\ Rejected(file) \/ RunsOut(file)
          /\ pc' = "error" /\ mBlocks' = mBlocks
    /\ UNCHANGED <<stored, command, arg, opener, file, pos, flags, coff, pad, mIndex, made, mMap>>

(* If the index cannot be created, the exception skips the source.         *)
WriteIndex ==
    /\ pc = "built"
    /\ IF IndexPath(Source)[1] \in ReadOnly THEN pc' = "error" /\ UNCHANGED index
       ELSE /\ index' = [index EXCEPT ![IndexPath(Source)] = [list |-> mBlocks, made |-> made]]
            /\ pc' = "loaded"
    /\ UNCHANGED <<disk, replaced, command, arg, opener, walk, made, mMap>>

Iterate ==
    /\ pc = "indexed" /\ Opening("xz")
    /\ mBlocks' = Pixz!IndexedBlocks /\ pc' = "loaded"
    /\ UNCHANGED <<stored, command, arg, opener, file, pos, flags, coff, pad, mIndex, made, mMap>>

(* checkSizes: findBlock(0) throws if there is no block.                   *)
NoBlocks ==
    /\ pc = "loaded" /\ mBlocks = <<>>
    /\ pc' = "error"
    /\ UNCHANGED <<stored, command, arg, opener, walk, made, mMap>>

(* mMap[dest] = file, whatever has that name already.                      *)
AddToMap ==
    /\ pc = "loaded" /\ mBlocks # <<>>
    /\ LET d == DestName(Openers[opener], Source.name)
       IN  mMap' = [n \in DOMAIN mMap \cup {d} |->
                       IF n = d THEN [source |-> Source, list |-> mBlocks, made |-> made]
                       ELSE mMap[n]]
    /\ arg' = arg + 1 /\ pc' = "next" /\ opener' = 1 /\ Forget
    /\ UNCHANGED <<stored, command>>

-----------------------------------------------------------------------------
Unmount ==
    /\ pc = "serve"
    /\ pc' = "down" /\ mMap' = <<>> /\ args' = <<>> /\ arg' = 1 /\ indexRoot' = FALSE
    /\ UNCHANGED <<stored, opener, walk, made>>

(* Somebody puts another file in a source's place, or removes it.          *)
Replace ==
    /\ \E s \in Sources : \E c \in Replacements[s] \ {disk[s]} :
        /\ disk[s].kind # "absent"
        /\ disk' = [disk EXCEPT ![s] = c]
        /\ replaced' = replaced \cup {s}
    /\ UNCHANGED <<index, command, arg, opener, walk, made, mMap, pc>>

Add == \/ OpenSource \/ CheckFileType \/ WalkLzop \/ WalkPixz \/ WalkZstd \/ NextOpener
       \/ Skip \/ ReadIndex \/ StartBuild \/ BuildIndex \/ WriteIndex \/ Iterate
       \/ NoBlocks \/ AddToMap \/ Serve

Next == Mount \/ Add \/ Unmount \/ Replace

Spec == Init /\ [][Next]_vars
FairSpec == Spec /\ WF_vars(Add)

-----------------------------------------------------------------------------
Served == {mMap[d] : d \in DOMAIN mMap}

(* An xz block of 2^32 bytes or more loses the upper half of its size.     *)
TooLong(c) == c.kind = "xz" /\ \E n \in 1..Len(c.list) : c.list[n].usize >= USizeLimit

(* A gzip index with an entry that holds nothing ends there when it is read*)
(* back.                                                                   *)
EndsEarly(l, c) ==
    c.kind = "gzip" /\ Len(l) < Len(c.list) /\ c.list[Len(l) + 1].usize = 0

(* What is served is what its source held when the list was made, block by *)
(* block and from where its data are; an lzop, xz, zstd or gzip file that  *)
(* is cut short, or not sound for another reason, is not served.  Excepted *)
(* is a bzip2 file that is damaged, cut short or loses a level at a seam,  *)
(* and a gzip index with an empty entry: of these a beginning is served.   *)
ListsAreTheFiles ==
    \A e \in Served :
        \/ e.list = e.made.list
        \/ /\ Partial(e.made) \/ EndsEarly(e.list, e.made)
           /\ IsBeginning(e.list, e.made.list)
        \/ TooLong(e.made)

(* A list is not that of its source only if somebody replaced the source,  *)
(* or an index root lets another source's index pass for its own.          *)
StaleOnlyWhen ==
    \A e \in Served : e.made # disk[e.source] =>
        \/ e.source \in replaced
        \/ indexRoot /\ \E t \in Sources \ {e.source} : t.name = e.source.name

(* An index without a block may be in the place of the source's own.       *)
MayShareNoBlocks(s) ==
    indexRoot /\ \E t \in Sources \ {s} :
        t.name = s.name /\ (disk[t].list = <<>> \/ Partial(disk[t]) \/ t \in replaced)

(* Sources whose file has bytes, is sound and none of those that a scan may*)
(* skip or lose blocks of, and whose index can be created.                 *)
Usable(s) ==
    /\ disk[s].list # <<>> /\ disk[s].scan = {} /\ s \notin replaced
    /\ disk[s].kind \in Indexed =>
          IndexPath(s)[1] \notin ReadOnly /\ ~MayShareNoBlocks(s)

NameOf(s) == DestName(disk[s].kind, s.name)

(* lf_getattr, lf_readdir and lf_open know the names of mMap: every source *)
(* of the command line is there, whatever became of the others, unless a   *)
(* later one took its name; of those that want one name the last has it.   *)
(* Excepted is a source that finds the index of a file without any byte,   *)
(* and a sound gzip or bzip2 file whose scan runs out of input (OutOfInput,*)
(* BlockAtSeam) or that loses a level.                                     *)
AllAreNamed ==
    pc = "serve" => \A n \in 1..Len(args) : Usable(args[n]) =>
        /\ NameOf(args[n]) \in DOMAIN mMap
        /\ \E m \in n..Len(args) :
              /\ mMap[NameOf(args[n])].source = args[m]
              /\ \A k \in (m + 1)..Len(args) :
                    Usable(args[k]) => NameOf(args[k]) # NameOf(args[n])

Layout == INSTANCE CompressedFile WITH Files <- Served, MaxOffset <- MaxOffset,
              mBlocks <- [f \in Served |-> [n \in 1..Len(f.list) |->
                  [usize |-> f.list[n].usize, uoff |-> f.list[n].uoff, coff |-> f.list[n].coff]]]

(* The read path may rely on the lists: in order, without gap or overlap,  *)
(* each block at a place of its own, in the part of a file that is served  *)
(* too.  The exceptions: a seek table whose first frame is empty, and an xz*)
(* block that is too long.                                                 *)
LayoutsOK ==
    \A e \in Served : \/ Layout!LayoutOK(e)
                      \/ e.made.kind = "zstd" /\ e.list[1].usize = 0
                      \/ TooLong(e.made)

(* Every mount is ready some time, whatever its sources hold.              *)
AddEnds == pc = "next" ~> pc = "serve"
=============================================================================
