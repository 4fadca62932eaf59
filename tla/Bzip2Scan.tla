----------------------------- MODULE Bzip2Scan -----------------------------
(***************************************************************************)
(* How Bzip2File::buildIndex (src/Bzip2File.cc) finds the blocks of a      *)
(* bzip2 file.  It reads the file in chunks that overlap, notes every      *)
(* place that looks like the magic number of a block or of the end of a    *)
(* stream, and then decompresses from each to the next: a place that data  *)
(* only happen to look like is found out because that fails.               *)
(*                                                                         *)
(* A file is its size and its marks, the places that look like a magic     *)
(* number, in order.  pos is the first full byte, before which the magic   *)
(* number has bits more bits.  Marks of kind "spurious" lie in the data of *)
(* a block; those of kind "damaged" begin a block that libbz2 rejects.     *)
(***************************************************************************)
EXTENDS Integers, Sequences

CONSTANTS Files,
          ChunkSize,    \* bytes read at once
          Word,         \* us: bytes in which a magic number is looked for
          MagicSize,    \* lcreset: bytes of a stream's header before its level
          FooterSize    \* ftsz: bytes from the magic number to a stream's end

Levels == {"1", "9"}
NoLevel == "none"       \* level is 0
Other == "h"            \* any byte that is not the right level

Mark == [magic : {"block", "eos"}, pos : Nat, bits : 0..7, kind : {"true", "damaged", "spurious"},
         level : Levels, uoff : Nat, usize : Nat]

Marks(f) == 1..Len(f.marks)
Genuine(f) == {k \in Marks(f) : f.marks[k].kind # "spurious"}

(* Mark l is the next after mark k that is not spurious.                   *)
Follows(f, k, l) ==
    /\ k \in Genuine(f) /\ l \in Genuine(f) /\ k < l
    /\ \A m \in Genuine(f) : ~(k < m /\ m < l)

(* The level is the byte before the first magic number of a stream.        *)
OpensStream(f, k) ==
    \/ k = 1
    \/ f.marks[k - 1].magic = "eos" /\ f.marks[k - 1].kind # "spurious"

(* What the bzip2 format says of a file that passes checkFileType.         *)
WellFormed(f) ==
    /\ f.size \in Nat /\ f.marks \in Seq(Mark) /\ f.marks # <<>>
    /\ f.marks[1].magic = "block" /\ f.marks[1].pos = MagicSize + 1
    /\ f.marks[1].uoff = 0
    /\ \A k \in Marks(f) :
        /\ f.marks[k].pos < f.size
        /\ f.marks[k].magic = "eos" /\ f.marks[k].kind # "spurious" =>
              /\ f.marks[k].kind = "true" /\ f.marks[k].usize = 0
              /\ f.marks[k].pos + FooterSize <= f.size
              /\ k < Len(f.marks) => f.marks[k + 1].pos =
                                        f.marks[k].pos + FooterSize + MagicSize + 1
        /\ f.marks[k].magic = "block" => f.marks[k].usize > 0
        /\ OpensStream(f, k) => f.marks[k].kind # "spurious" /\ f.marks[k].bits = 0
    /\ \A k, l \in Marks(f) : k < l => f.marks[k].pos < f.marks[l].pos
    /\ \A k, l \in Marks(f) : Follows(f, k, l) =>
        /\ f.marks[l].uoff = f.marks[k].uoff + f.marks[k].usize
        /\ f.marks[k].magic = "block" => f.marks[l].level = f.marks[k].level

ASSUME ScanAssumption ==
    /\ \A f \in Files : WellFormed(f)
    /\ {ChunkSize, Word, MagicSize, FooterSize} \subseteq Nat \ {0}
    /\ MagicSize + Word + 1 < ChunkSize /\ Word < FooterSize

(* The byte at a place, as far as it may be taken for a level.             *)
Byte(f, p) ==
    IF \E k \in Marks(f) : OpensStream(f, k) /\ f.marks[k].pos = p + 1
    THEN f.marks[CHOOSE k \in Marks(f) : f.marks[k].pos = p + 1].level
    ELSE Other

VARIABLES file,         \* the file being indexed
          rpos,         \* where the next chunk begins
          bsz,          \* bytes in the buffer
          at,           \* i - buf: the byte of the buffer to look at
          lcount,       \* bytes left before a level is expected
          level,
          bl,           \* the boundaries found and not yet erased
          i,            \* the boundary a block may begin at; j is the next
          mBlocks,
          pc            \* "scan", "build", "done", "skipped" or "undefined"

scanVars == <<rpos, bsz, at, lcount>>
vars == <<file, rpos, bsz, at, lcount, level, bl, i, mBlocks, pc>>

Smaller(m, n) == IF m <= n THEN m ELSE n

Init ==
    /\ file \in Files
    /\ bsz = Smaller(ChunkSize, file.size) /\ rpos = bsz /\ at = 0
    /\ lcount = MagicSize + 1 /\ level = NoLevel
    /\ bl = <<>> /\ i = 1 /\ mBlocks = <<>>
    /\ pc = "scan"

-----------------------------------------------------------------------------
(* findBlockBoundaryCandidates.  The first byte of a buffer has nothing    *)
(* before it: the bits that should come from there are undefined.          *)
Place == rpos - bsz + at

Found(k) == /\ file.marks[k].pos = Place
            /\ bl' = Append(bl, [magic |-> file.marks[k].magic, level |-> level',
                                 coff |-> Place, bits |-> file.marks[k].bits])

NotFound == /\ \A k \in Marks(file) :
                  file.marks[k].pos = Place => at = 0 /\ file.marks[k].bits > 0
            /\ bl' = bl

CountDown == IF lcount = 0 THEN 0 ELSE lcount - 1

ScanByte ==
    /\ pc = "scan" /\ at < bsz - Word
    /\ level' = IF lcount = 1 THEN Byte(file, Place) ELSE level
    /\ \/ \E k \in Marks(file) :
            /\ Found(k)
            /\ lcount' = IF file.marks[k].magic = "eos" THEN FooterSize + MagicSize
                         ELSE CountDown
       \/ NotFound /\ lcount' = CountDown
    /\ at' = at + 1
    /\ UNCHANGED <<file, rpos, bsz, i, mBlocks, pc>>

(* Mutant of NextChunk: it keeps one byte less than a magic number needs.  *)
NextChunkKeepingLess ==
    /\ pc = "scan" /\ at >= bsz - Word /\ rpos < file.size
    /\ LET r == Smaller(ChunkSize - Word + 1, file.size - rpos)
       IN  bsz' = r + Word - 1 /\ rpos' = rpos + r
    /\ at' = 0
    /\ UNCHANGED <<file, lcount, level, bl, i, mBlocks, pc>>

NextChunk ==
    /\ pc = "scan" /\ at >= bsz - Word /\ rpos < file.size
    /\ LET r == Smaller(ChunkSize - Word - 1, file.size - rpos)
       IN  bsz' = r + Word + 1 /\ rpos' = rpos + r
    /\ at' = 0
    /\ UNCHANGED <<file, lcount, level, bl, i, mBlocks, pc>>

(* buildIndex looks at the first boundary without asking if there is one.  *)
EndScan ==
    /\ pc = "scan" /\ at >= bsz - Word /\ rpos = file.size
    /\ IF bl = <<>> THEN pc' = "undefined" /\ level' = level
       ELSE pc' = "build" /\ level' = bl[1].level
    /\ UNCHANGED <<file, rpos, bsz, at, lcount, bl, i, mBlocks>>

-----------------------------------------------------------------------------
(* createAlignedBlock and decompress: what libbz2 says of the data from    *)
(* one boundary to another, taken for a file of one block of that level.   *)
Decompresses(a, b, lv) ==
    \E k, l \in Marks(file) :
        /\ Follows(file, k, l)
        /\ file.marks[k].pos = a.coff /\ file.marks[l].pos = b.coff
        /\ file.marks[k].magic = "block" /\ file.marks[k].kind = "true"
        /\ file.marks[k].level = lv

UncompressedSize ==
    IF mBlocks = <<>> THEN 0 ELSE mBlocks[Len(mBlocks)].uoff + mBlocks[Len(mBlocks)].usize

SizeOf(a) == file.marks[CHOOSE k \in Marks(file) : file.marks[k].pos = a.coff].usize

Building == pc = "build" /\ i < Len(bl)

(* Mutant of BlockLevel: every boundary tells its own level.               *)
LevelOfBoundary == bl[i].level

BlockLevel == IF level = NoLevel THEN bl[i].level ELSE level

SkipEOS ==
    /\ Building /\ bl[i].magic = "eos"
    /\ i' = i + 1
    /\ UNCHANGED <<file, scanVars, level, bl, mBlocks, pc>>

(* tryPRead of no bytes: an EOFException, outside the try of line 207.     *)
ReadsNothing == bl[i].bits = 0 /\ bl[i + 1].coff = bl[i].coff

EmptyRead ==
    /\ Building /\ bl[i].magic = "block" /\ ReadsNothing
    /\ level' = BlockLevel /\ pc' = "skipped"
    /\ UNCHANGED <<file, scanVars, bl, i, mBlocks>>

AddBlock ==
    /\ Building /\ bl[i].magic = "block" /\ ~ReadsNothing
    /\ Decompresses(bl[i], bl[i + 1], BlockLevel)
    /\ mBlocks' = Append(mBlocks,
          [usize |-> SizeOf(bl[i]), csize |-> bl[i + 1].coff - bl[i].coff,
           uoff |-> UncompressedSize, coff |-> bl[i].coff,
           bits |-> bl[i].bits, endbits |-> bl[i + 1].bits, level |-> BlockLevel])
    /\ level' = IF bl[i + 1].magic = "eos" THEN NoLevel ELSE BlockLevel
    /\ i' = i + 1
    /\ UNCHANGED <<file, scanVars, bl, pc>>

SpuriousBoundary ==
    /\ Building /\ bl[i].magic = "block" /\ ~ReadsNothing
    /\ ~Decompresses(bl[i], bl[i + 1], BlockLevel)

WithoutNext == SubSeq(bl, 1, i) \o SubSeq(bl, i + 2, Len(bl))

(* Mutants of EraseBoundary: it goes on with the next pair; it erases      *)
(* nothing.                                                                *)
ErasePassingOn ==
    /\ SpuriousBoundary
    /\ i' = i + 1 /\ level' = BlockLevel
    /\ UNCHANGED <<file, scanVars, bl, mBlocks, pc>>
EraseNothing ==
    /\ SpuriousBoundary /\ level' = BlockLevel
    /\ UNCHANGED <<file, scanVars, bl, i, mBlocks, pc>>

EraseBoundary ==
    /\ SpuriousBoundary
    /\ bl' = WithoutNext /\ level' = BlockLevel
    /\ UNCHANGED <<file, scanVars, i, mBlocks, pc>>

Finish ==
    /\ pc = "build" /\ i >= Len(bl)
    /\ pc' = "done"
    /\ UNCHANGED <<file, scanVars, level, bl, i, mBlocks>>

Next == \/ ScanByte \/ NextChunk \/ EndScan
        \/ SkipEOS \/ EmptyRead \/ AddBlock \/ EraseBoundary \/ Finish

Spec == Init /\ [][Next]_vars
FairSpec == Spec /\ WF_vars(Next)

-----------------------------------------------------------------------------
(* The places that two chunks share: the first byte of every chunk but the *)
(* first was the last one looked at in the chunk before.                   *)
Seam(f, p) ==
    /\ \E n \in 1..p : p = n * (ChunkSize - Word - 1)
    /\ p + Word + 1 < f.size

(* No boundary is missed, whatever chunks it lies in, and none is noted    *)
(* twice but at a seam; they are noted in order.                           *)
NoMagicMissed ==
    pc = "scan" =>
        /\ \A k \in Marks(file) : file.marks[k].pos < Place =>
              \E n \in 1..Len(bl) : /\ bl[n].coff = file.marks[k].pos
                                    /\ bl[n].magic = file.marks[k].magic
                                    /\ bl[n].bits = file.marks[k].bits
        /\ \A n \in 2..Len(bl) :
              \/ bl[n - 1].coff < bl[n].coff
              \/ /\ bl[n - 1].coff = bl[n].coff /\ Seam(file, bl[n].coff)
                 /\ n > 2 => bl[n - 2].coff < bl[n].coff

(* A block of the index is a block of the file: the bits between its two   *)
(* boundaries, with its level, decompress to its bytes.                    *)
BlockOfFile(b) ==
    \E k, l \in Marks(file) :
        /\ Follows(file, k, l) /\ file.marks[k].magic = "block"
        /\ b = [usize |-> file.marks[k].usize, csize |-> file.marks[l].pos - file.marks[k].pos,
                uoff |-> file.marks[k].uoff, coff |-> file.marks[k].pos,
                bits |-> file.marks[k].bits, endbits |-> file.marks[l].bits,
                level |-> file.marks[k].level]

(* However many boundaries are spurious, doubled or in damaged data, the   *)
(* blocks are blocks of the file from its first byte on, none left out.    *)
BlocksExact ==
    /\ \A n \in 1..Len(mBlocks) : BlockOfFile(mBlocks[n])
    /\ \A n \in 1..Len(mBlocks) :
          mBlocks[n].uoff = IF n = 1 THEN 0 ELSE mBlocks[n - 1].uoff + mBlocks[n - 1].usize

Sound(f) ==
    /\ \A k \in Marks(f) : f.marks[k].kind # "damaged"
    /\ f.marks[Len(f.marks)].magic = "eos" /\ f.marks[Len(f.marks)].kind = "true"

Ended == pc \in {"done", "skipped", "undefined"}
Served == pc = "done" /\ UncompressedSize = file.marks[Len(file.marks)].uoff

(* A seam in the footer or header between two streams counts twice, so the *)
(* level is looked for too early; one at an end of stream that begins      *)
(* within a byte does if that end is not found a second time.              *)
LevelLost(f) ==
    \E k \in Marks(f) :
        /\ f.marks[k].magic = "eos" /\ f.marks[k].kind = "true" /\ k < Len(f.marks)
        /\ \/ \E p \in 1..(FooterSize + MagicSize - 1) : Seam(f, f.marks[k].pos + p)
           \/ f.marks[k].bits > 0 /\ Seam(f, f.marks[k].pos)

(* A block that begins with a byte, at a seam, is noted twice.             *)
BlockAtSeam(f) ==
    \E k \in Marks(f) : f.marks[k].magic = "block" /\ f.marks[k].bits = 0 /\ Seam(f, f.marks[k].pos)

(* A sound file is served whole, whatever its data look like, unless one   *)
(* of the two happens.                                                     *)
SoundUnlessSeam ==
    Ended /\ Sound(file) /\ ~LevelLost(file) /\ ~BlockAtSeam(file) => Served

(* src/README.md:3: lzopfs "allows you to view a compressed file as if it  *)
(* was uncompressed".  A sound file that is served is served whole: the    *)
(* code does not keep this where a level is lost.                          *)
SoundServedWhole == pc = "done" /\ Sound(file) => Served

(* Looking for blocks ends, however many boundaries are spurious.          *)
BuildEnds == <>Ended
=============================================================================
