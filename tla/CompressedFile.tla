-------------------------- MODULE CompressedFile --------------------------
(***************************************************************************)
(* The block list of an opened compressed file (src/CompressedFile.cc), as *)
(* the read path sees it: fixed once the file has been opened.  A block    *)
(* holds usize uncompressed bytes from offset uoff on, and its compressed  *)
(* form starts at coff.                                                    *)
(***************************************************************************)
EXTENDS Integers, Sequences

CONSTANTS Files,
          mBlocks,      \* file -> its sequence of blocks
          MaxOffset     \* the largest 64-bit offset

Blocks(f) == 1..Len(mBlocks[f])
UOff(f, b) == mBlocks[f][b].uoff
UEnd(f, b) == mBlocks[f][b].uoff + mBlocks[f][b].usize

UncompressedSize(f) == IF mBlocks[f] = <<>> THEN 0 ELSE UEnd(f, Len(mBlocks[f]))

(* What the format modules build from a sound file: at least one block, the*)
(* first not empty, blocks in order, no overlap, no byte without a block,  *)
(* and no two blocks at the same compressed offset.                        *)
LayoutOK(f) ==
    /\ mBlocks[f] \in Seq([usize : Nat, uoff : Nat, coff : Nat])
    /\ mBlocks[f] # <<>>
    /\ UOff(f, 1) = 0 /\ UEnd(f, 1) > 0
    /\ UncompressedSize(f) <= MaxOffset
    /\ \A a, b \in Blocks(f) : a < b => UEnd(f, a) <= UOff(f, b)
    /\ \A o \in 0..UncompressedSize(f) - 1 :
          \E b \in Blocks(f) : UOff(f, b) <= o /\ o < UEnd(f, b)
    /\ \A a, b \in Blocks(f) : mBlocks[f][a].coff = mBlocks[f][b].coff => a = b

(* Mutant of LastByte: uoff + usize, the first byte behind the block.      *)
ByteBehind(f, b) == UEnd(f, b)

(* uoff + usize - 1, which wraps around for an empty block at offset 0.    *)
LastByte(f, b) == IF UEnd(f, b) = 0 THEN MaxOffset ELSE UEnd(f, b) - 1

(* BlockOffsetOrdering: the block lies wholly before the offset.           *)
EndsBefore(f, b, off) == LastByte(f, b) < off

(* findBlock(off): std::lower_bound stops at the first block that does not *)
(* end before the offset, or behind the last block (then findBlock throws).*)
IsLowerBound(f, off, i) ==
    /\ i <= Len(mBlocks[f]) => ~EndsBefore(f, i, off)
    /\ \A b \in 1..(i - 1) : EndsBefore(f, b, off)
=============================================================================
