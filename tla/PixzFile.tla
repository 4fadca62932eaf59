------------------------------ MODULE PixzFile ------------------------------
(***************************************************************************)
(* How PixzFile (src/PixzFile.cc) indexes an xz file: it walks from the    *)
(* end of the file backwards, over the padding behind a stream, to the     *)
(* stream's footer and index, and on to the end of the stream before.      *)
(*                                                                         *)
(* A file is its size and its fields: a "stream" has the blocks its index  *)
(* tells of, each at its place; "padding" is zeros, "data" anything else.  *)
(* Lengths are in words of four bytes.  liblzma's lzma_index is a sequence *)
(* of streams, each its blocks, its length and the padding behind it.      *)
(***************************************************************************)
EXTENDS Integers, Sequences, FiniteSetsExt

CONSTANTS HeaderSize,   \* LZMA_STREAM_HEADER_SIZE, in words
          Chunk,        \* ChunkSize, in words
          USizeLimit    \* 2^32: usize is 32 bits wide

VARIABLES file, pos, pad, mIndex, pc

pixzVars == <<file, pos, pad, mIndex, pc>>

At(what) == {k \in 1..Len(file.fields) : file.fields[k].what = what}
EndOf(k) == file.fields[k].pos + file.fields[k].len

(* What the xz format says of a file, which may be cut short in a stream   *)
(* or end in something else.                                               *)
WellFormed(f) ==
    \A k \in 1..Len(f.fields) :
        LET g == f.fields[k]
        IN  /\ g.what \in {"stream", "padding", "data"}
            /\ g.pos \in Nat /\ g.pos < f.size /\ g.len \in Nat \ {0}
            /\ g.pos = IF k = 1 THEN 0 ELSE f.fields[k - 1].pos + f.fields[k - 1].len
            /\ g.what = "padding" =>
                  /\ g.pos + g.len <= f.size
                  /\ k > 1 => f.fields[k - 1].what # "padding"
            /\ g.what = "stream" =>
                  /\ g.len >= 2 * HeaderSize /\ Len(g.blocks) \in Nat
                  /\ \A n \in 1..Len(g.blocks) :
                        /\ g.blocks[n].usize \in Nat /\ g.blocks[n].csize \in Nat \ {0}
                        /\ g.blocks[n].at =
                              IF n = 1 THEN g.pos + HeaderSize
                              ELSE g.blocks[n - 1].at + g.blocks[n - 1].csize
                        /\ g.blocks[n].at + g.blocks[n].csize <= g.pos + g.len

Sound(f) ==
    /\ Len(f.fields) > 0 /\ f.fields[1].what = "stream"
    /\ \A k \in 1..Len(f.fields) : f.fields[k].what # "data"
    /\ LET g == f.fields[Len(f.fields)] IN g.pos + g.len = f.size

Streams(f) == {k \in 1..Len(f.fields) : Sound(f) /\ f.fields[k].what = "stream"}

(* The blocks of a file that are not empty.                                *)
Parts(f) ==
    UNION {{[usize |-> b.usize, csize |-> b.csize, coff |-> b.at] :
               b \in {c \in {f.fields[k].blocks[n] : n \in 1..Len(f.fields[k].blocks)} :
                         c.usize > 0}} : k \in Streams(f)}

CheckFileType ==
    /\ pc = "check"
    /\ IF \E k \in At("stream") : file.fields[k].pos = 0 /\ HeaderSize <= file.size
       THEN pc' = "padding" /\ pos' = file.size /\ pad' = 0
       ELSE pc' = "format" /\ UNCHANGED <<pos, pad>>
    /\ UNCHANGED <<file, mIndex>>

Zero(w) == \E k \in At("padding") : file.fields[k].pos < w /\ w <= EndOf(k)

(* Mutant of SkipPadding: a chunk of zeros is looked at again.             *)
SkipPaddingInPlace ==
    /\ pc = "padding"
    /\ LET s == IF pos <= Chunk THEN pos ELSE Chunk
           data == {w \in (pos - s + 1)..pos : ~Zero(w)}
       IN  /\ data # {}
           /\ pos' = Max(data) /\ pad' = pad + pos - Max(data) /\ pc' = "footer"
    /\ UNCHANGED <<file, mIndex>>

(* One chunk of the loop that skips padding.  The header of the first      *)
(* stream is not zero, so it ends before the file does.                    *)
SkipPadding ==
    /\ pc = "padding"
    /\ LET s == IF pos <= Chunk THEN pos ELSE Chunk
           data == {w \in (pos - s + 1)..pos : ~Zero(w)}
       IN  IF data = {} THEN pos' = pos - s /\ pad' = pad + s /\ pc' = pc
           ELSE pos' = Max(data) /\ pad' = pad + pos - Max(data) /\ pc' = "footer"
    /\ UNCHANGED <<file, mIndex>>

(* Mutant of ReadFooter: pad goes on counting.                             *)
ReadFooterKeepingPad ==
    /\ pc = "footer"
    /\ \E k \in At("stream") :
        /\ EndOf(k) = pos
        /\ mIndex' = <<[blocks |-> file.fields[k].blocks, len |-> file.fields[k].len,
                        pad |-> pad]>> \o mIndex
        /\ pos' = file.fields[k].pos
    /\ pad' = pad
    /\ pc' = IF pos' = 0 THEN "indexed" ELSE "padding"
    /\ UNCHANGED file

(* The stream's index goes before those of later streams.                  *)
ReadFooter ==
    /\ pc = "footer"
    /\ \E k \in At("stream") :
        /\ EndOf(k) = pos
        /\ mIndex' = <<[blocks |-> file.fields[k].blocks, len |-> file.fields[k].len,
                        pad |-> pad]>> \o mIndex
        /\ pos' = file.fields[k].pos
    /\ pad' = 0
    /\ pc' = IF pos' = 0 THEN "indexed" ELSE "padding"
    /\ UNCHANGED file

BadFooter ==
    /\ pc = "footer"
    /\ \A k \in At("stream") : EndOf(k) # pos
    /\ pc' = "format"
    /\ UNCHANGED <<file, pos, pad, mIndex>>

Next == CheckFileType \/ SkipPadding \/ ReadFooter \/ BadFooter

-----------------------------------------------------------------------------
(* The iterator: liblzma's offsets, and usize cut to 32 bits.              *)
AddBlock(acc, b) ==
    [acc EXCEPT !.uoff = @ + b.usize, !.coff = @ + b.csize,
        !.list = IF b.usize = 0 THEN @
                 ELSE Append(@, [usize |-> b.usize % USizeLimit, csize |-> b.csize,
                                 uoff |-> acc.uoff, coff |-> acc.coff])]

AddStream(acc, s) ==
    LET after[n \in 0..Len(s.blocks)] ==
            IF n = 0 THEN [acc EXCEPT !.coff = @ + HeaderSize]
            ELSE AddBlock(after[n - 1], s.blocks[n])
    IN  [after[Len(s.blocks)] EXCEPT !.coff = acc.coff + s.len + s.pad]

IndexedBlocks ==
    LET after[n \in 0..Len(mIndex)] ==
            IF n = 0 THEN [list |-> <<>>, uoff |-> 0, coff |-> 0]
            ELSE AddStream(after[n - 1], mIndex[n])
    IN  after[Len(mIndex)].list
=============================================================================
