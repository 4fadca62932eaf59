---------------------------- MODULE BlockSearch ----------------------------
(***************************************************************************)
(* BlockListCompFile::findBlock step by step: std::lower_bound halves the  *)
(* range of blocks [first, first + count) with BlockOffsetOrdering.        *)
(***************************************************************************)
EXTENDS CompressedFile

ASSUME BlocksAssumption == DOMAIN mBlocks = Files

VARIABLES file,         \* the file searched, any of Files
          off,          \* what findBlock was asked for
          first, count, \* the range still to be searched
          pc            \* "idle", "search" or "found"

vars == <<file, off, first, count, pc>>

Init ==
    /\ file \in Files /\ off = 0
    /\ first = 1 /\ count = 0
    /\ pc = "idle"

Start(o) ==
    /\ pc = "idle"
    /\ off' = o
    /\ first' = 1 /\ count' = Len(mBlocks[file])
    /\ pc' = "search"
    /\ UNCHANGED file

(* One round of lower_bound.                                               *)
Halve ==
    LET step == count \div 2
        mid == first + step
    IN  /\ pc = "search" /\ count > 0
        /\ IF EndsBefore(file, mid, off)
           THEN first' = mid + 1 /\ count' = count - step - 1
           ELSE first' = first /\ count' = step
        /\ UNCHANGED <<file, off, pc>>

Stop ==
    /\ pc = "search" /\ count = 0
    /\ pc' = "found"
    /\ UNCHANGED <<file, off, first, count>>

Return ==
    /\ pc = "found"
    /\ pc' = "idle"
    /\ UNCHANGED <<file, off, first, count>>

Next == \/ \E o \in 0..UncompressedSize(file) + 1 : Start(o)
        \/ Halve \/ Stop \/ Return

Spec == Init /\ [][Next]_vars

-----------------------------------------------------------------------------
TypeOK ==
    /\ file \in Files
    /\ off \in Nat
    /\ first \in 1..Len(mBlocks[file]) + 1
    /\ count \in 0..Len(mBlocks[file]) - (first - 1)
    /\ pc \in {"idle", "search", "found"}

(* The search never discards the answer: what lies in front of the range   *)
(* ends before the offset, what lies behind it does not.  This needs the   *)
(* blocks to be partitioned by BlockOffsetOrdering.                        *)
AnswerInRange ==
    pc # "idle" =>
        /\ \A b \in 1..first - 1 : EndsBefore(file, b, off)
        /\ \A b \in first + count..Len(mBlocks[file]) : ~EndsBefore(file, b, off)

(* findBlock hands out the block that contains the offset.                 *)
ExistingByteFound ==
    pc = "found" /\ off < UncompressedSize(file) =>
        /\ first \in Blocks(file)
        /\ UOff(file, first) <= off /\ off < UEnd(file, first)

(* The same, and findBlock throws (it stops behind the last block) when the*)
(* file has no such byte: no read starts at a wrong block.                 *)
FindBlockCorrect ==
    /\ ExistingByteFound
    /\ pc = "found" /\ off >= UncompressedSize(file) => first = Len(mBlocks[file]) + 1
=============================================================================
