------------------------ MODULE BlockSearchProofs ------------------------
(***************************************************************************)
(* findBlock is right for every list of blocks a sound file can have,      *)
(* however long: the binary search keeps the answer within its range, and  *)
(* where it ends there is no other block left.                             *)
(***************************************************************************)
EXTENDS BlockSearch, SequenceTheorems, TLAPS

(* What the fields of a block are.                                         *)
LEMMA BlockFacts ==
  ASSUME NEW f, LayoutOK(f), NEW b \in Blocks(f)
  PROVE  /\ UOff(f, b) \in Nat /\ UEnd(f, b) \in Nat
         /\ UOff(f, b) <= UEnd(f, b)
         /\ mBlocks[f][b].usize \in Nat
         /\ UEnd(f, b) = UOff(f, b) + mBlocks[f][b].usize
<1>1. mBlocks[f][b] \in [usize : Nat, uoff : Nat, coff : Nat]
  <2>1. mBlocks[f] \in Seq([usize : Nat, uoff : Nat, coff : Nat])
    BY DEF LayoutOK
  <2>2. b \in 1..Len(mBlocks[f])
    BY DEF Blocks
  <2> QED
    BY <2>1, <2>2, ElementOfSeq
<1>2. mBlocks[f][b].uoff \in Nat /\ mBlocks[f][b].usize \in Nat
  BY <1>1
<1>3. /\ UOff(f, b) = mBlocks[f][b].uoff
      /\ UEnd(f, b) = mBlocks[f][b].uoff + mBlocks[f][b].usize
  BY DEF UOff, UEnd
<1> QED
  BY <1>2, <1>3

(* What a sound list looks like at both ends.                              *)
LEMMA LayoutFacts ==
  ASSUME NEW f, LayoutOK(f)
  PROVE  /\ Len(mBlocks[f]) \in Nat \ {0}
         /\ 1 \in Blocks(f) /\ Len(mBlocks[f]) \in Blocks(f)
         /\ UncompressedSize(f) = UEnd(f, Len(mBlocks[f]))
         /\ UncompressedSize(f) \in Nat
         /\ \A b \in Blocks(f) : 0 < UEnd(f, b) /\ UEnd(f, b) <= UncompressedSize(f)
<1>1. mBlocks[f] \in Seq([usize : Nat, uoff : Nat, coff : Nat]) /\ mBlocks[f] # <<>>
  BY DEF LayoutOK
<1>2. Len(mBlocks[f]) \in Nat \ {0}
  BY <1>1
<1>3. 1 \in Blocks(f) /\ Len(mBlocks[f]) \in Blocks(f)
  BY <1>2 DEF Blocks
<1>4. UncompressedSize(f) = UEnd(f, Len(mBlocks[f]))
  BY <1>1 DEF UncompressedSize
<1>5. ASSUME NEW b \in Blocks(f)
      PROVE  0 < UEnd(f, b) /\ UEnd(f, b) <= UncompressedSize(f)
  <2>1. \A a, c \in Blocks(f) : a < c => UEnd(f, a) <= UEnd(f, c)
    BY BlockFacts, SMTT(60) DEF LayoutOK
  <2>2. UEnd(f, 1) > 0
    BY DEF LayoutOK
  <2>3. b = 1 \/ 1 < b
    BY <1>2 DEF Blocks
  <2>4. b = Len(mBlocks[f]) \/ b < Len(mBlocks[f])
    BY <1>2 DEF Blocks
  <2>5. UEnd(f, b) \in Nat /\ UEnd(f, 1) \in Nat /\ UEnd(f, Len(mBlocks[f])) \in Nat
    BY <1>3, BlockFacts
  <2> QED
    BY <1>3, <1>4, <2>1, <2>2, <2>3, <2>4, <2>5
<1> QED
  BY <1>2, <1>3, <1>4, <1>5, BlockFacts

(* BlockOffsetOrdering wraps for no block of a sound list.                 *)
LEMMA NoWrap ==
  ASSUME NEW f, LayoutOK(f), NEW b \in Blocks(f), NEW o \in Nat
  PROVE  EndsBefore(f, b, o) <=> UEnd(f, b) <= o
  BY BlockFacts, LayoutFacts DEF EndsBefore, LastByte

(* The blocks are partitioned by BlockOffsetOrdering, as std::lower_bound  *)
(* requires: if a block ends before an offset, so does every earlier one.  *)
LEMMA Partitioned ==
  ASSUME NEW f, LayoutOK(f), NEW o \in Nat,
         NEW a \in Blocks(f), NEW b \in Blocks(f), a <= b, EndsBefore(f, b, o)
  PROVE  EndsBefore(f, a, o)
<1>0. UEnd(f, a) \in Nat /\ UOff(f, b) \in Nat /\ UEnd(f, b) \in Nat
      /\ UOff(f, b) <= UEnd(f, b)
  BY BlockFacts
<1>1. CASE a < b
  <2>1. UEnd(f, a) <= UOff(f, b)
    BY <1>1 DEF LayoutOK
  <2> QED
    BY <1>0, <2>1, NoWrap
<1>2. CASE a = b
  BY <1>2
<1> QED
  BY <1>1, <1>2 DEF Blocks

-----------------------------------------------------------------------------
Layouts == \A f \in Files : LayoutOK(f)

Inv == TypeOK /\ AnswerInRange

(* Every round of the search keeps the invariant.                          *)
LEMMA SearchStep ==
  ASSUME Layouts, Inv, [Next]_vars
  PROVE  Inv'
<1> USE DEF Inv, TypeOK
<1>0. LayoutOK(file) /\ Len(mBlocks[file]) \in Nat
  BY DEF Layouts, LayoutOK
<1>1. ASSUME NEW o \in 0..UncompressedSize(file) + 1, Start(o) PROVE Inv'
  <2>1. o \in Nat
    BY <1>0 DEF LayoutOK, UncompressedSize, UEnd
  <2> QED
    BY <1>0, <1>1, <2>1 DEF Start, AnswerInRange
<1>2. CASE Halve
  <2> DEFINE step == count \div 2
             mid == first + step
  <2>1. /\ step \in Nat /\ step < count /\ count \in Nat \ {0}
        /\ mid \in Blocks(file) /\ first \in Nat
    BY <1>0, <1>2 DEF Halve, Blocks
  <2>2. CASE EndsBefore(file, mid, off)
    <3>1. first' = mid + 1 /\ count' = count - step - 1
      BY <1>2, <2>2 DEF Halve
    <3>2. \A b \in 1..mid : EndsBefore(file, b, off)
      BY <1>0, <2>1, <2>2, Partitioned DEF Blocks
    <3> QED
      BY <1>0, <1>2, <2>1, <3>1, <3>2 DEF Halve, AnswerInRange
  <2>3. CASE ~EndsBefore(file, mid, off)
    <3>1. first' = first /\ count' = step
      BY <1>2, <2>3 DEF Halve
    <3>2. \A b \in mid..Len(mBlocks[file]) : ~EndsBefore(file, b, off)
      BY <1>0, <2>1, <2>3, Partitioned DEF Blocks
    <3> QED
      BY <1>0, <1>2, <2>1, <3>1, <3>2 DEF Halve, AnswerInRange
  <2> QED
    BY <2>2, <2>3
<1>3. CASE Stop \/ Return \/ UNCHANGED vars
  BY <1>3 DEF Stop, Return, vars, AnswerInRange
<1> QED
  BY <1>1, <1>2, <1>3 DEF Next

(* Init and every step keep the invariant.                                 *)
LEMMA SearchInv == ASSUME Layouts PROVE Spec => []Inv
<1>1. Init => Inv
  <2> SUFFICES ASSUME Init PROVE Inv
    OBVIOUS
  <2>1. Len(mBlocks[file]) \in Nat
    BY LayoutFacts DEF Init, Layouts
  <2> QED
    BY <2>1 DEF Init, Inv, TypeOK, AnswerInRange
<1>2. Inv /\ [Next]_vars => Inv'
  BY SearchStep
<1> QED
  BY <1>1, <1>2, PTL DEF Spec

(* When the range is empty, what findBlock returns is what the read path   *)
(* (BlockCache) takes it to be: the lower bound.                           *)
FoundIsLowerBound == pc = "found" => count = 0 /\ IsLowerBound(file, off, first)

(* pc is "found" only when the range is empty.                             *)
StopsEmpty == pc = "found" => count = 0

(* findBlock returns the lower bound, whatever the sound layout and offset.*)
THEOREM FindsLowerBound == ASSUME Layouts PROVE Spec => []FoundIsLowerBound
<1>1. Init => StopsEmpty
  BY DEF Init, StopsEmpty
<1>2. Inv /\ StopsEmpty /\ [Next]_vars => StopsEmpty'
  BY DEF Next, Start, Halve, Stop, Return, vars, StopsEmpty
<1>3. Inv /\ StopsEmpty => FoundIsLowerBound
  <2> SUFFICES ASSUME Inv, StopsEmpty, pc = "found" PROVE FoundIsLowerBound
    BY DEF FoundIsLowerBound
  <2>1. Len(mBlocks[file]) \in Nat /\ first \in Nat /\ count = 0
    BY LayoutFacts DEF Inv, TypeOK, StopsEmpty, Layouts
  <2> QED
    BY <2>1 DEF Inv, TypeOK, AnswerInRange, StopsEmpty, FoundIsLowerBound, IsLowerBound
<1> QED
  BY SearchInv, <1>1, <1>2, <1>3, PTL DEF Spec

(* A lower bound is the block that holds the offset, or the end.           *)
LEMMA LowerBoundIsRight ==
  ASSUME NEW f, LayoutOK(f), NEW o \in Nat, NEW i \in 1..Len(mBlocks[f]) + 1,
         IsLowerBound(f, o, i)
  PROVE  /\ o < UncompressedSize(f) =>
               i \in Blocks(f) /\ UOff(f, i) <= o /\ o < UEnd(f, i)
         /\ o >= UncompressedSize(f) => i = Len(mBlocks[f]) + 1
<1>0. Len(mBlocks[f]) \in Nat \ {0} /\ i \in Nat \ {0}
  BY LayoutFacts
<1>1. ASSUME o < UncompressedSize(f)
      PROVE  i \in Blocks(f) /\ UOff(f, i) <= o /\ o < UEnd(f, i)
  <2>1. PICK c \in Blocks(f) : UOff(f, c) <= o /\ o < UEnd(f, c)
    BY <1>1, LayoutFacts, SMTT(60) DEF LayoutOK
  <2>2. ~EndsBefore(f, c, o) /\ c \in Nat
    BY <2>1, NoWrap, BlockFacts DEF Blocks
  <2>3. i <= c
    BY <1>0, <2>2 DEF IsLowerBound, Blocks
  <2>4. i \in Blocks(f)
    BY <1>0, <2>3 DEF Blocks
  <2>5. o < UEnd(f, i)
    BY <2>4, NoWrap, BlockFacts DEF IsLowerBound, Blocks
  <2>6. CASE i < c
    <3>1. UEnd(f, i) <= UOff(f, c)
      BY <2>4, <2>6 DEF LayoutOK
    <3>2. UEnd(f, i) \in Nat /\ UOff(f, c) \in Nat
      BY <2>4, BlockFacts
    <3> QED
      BY <2>1, <2>5, <3>1, <3>2
  <2>7. CASE i = c
    BY <2>1, <2>4, <2>5, <2>7
  <2> QED
    BY <1>0, <2>2, <2>3, <2>6, <2>7
<1>2. ASSUME o >= UncompressedSize(f) PROVE i = Len(mBlocks[f]) + 1
  <2>1. ASSUME i \in Blocks(f) PROVE FALSE
    <3>1. ~EndsBefore(f, i, o)
      BY <2>1 DEF IsLowerBound, Blocks
    <3> QED
      BY <1>2, <2>1, <3>1, NoWrap, BlockFacts, LayoutFacts
  <2> QED
    BY <1>0, <2>1 DEF Blocks
<1> QED
  BY <1>1, <1>2

(* findBlock returns the block that holds the byte, and throws exactly past*)
(* the end.                                                                *)
THEOREM FindBlockIsCorrect == ASSUME Layouts PROVE Spec => []FindBlockCorrect
<1>1. Inv /\ FoundIsLowerBound => FindBlockCorrect
  <2> SUFFICES ASSUME Inv, FoundIsLowerBound, pc = "found" PROVE FindBlockCorrect
    BY DEF FindBlockCorrect, ExistingByteFound
  <2>1. LayoutOK(file) /\ off \in Nat /\ first \in 1..Len(mBlocks[file]) + 1
    BY DEF Inv, TypeOK, Layouts
  <2>2. IsLowerBound(file, off, first)
    BY DEF FoundIsLowerBound
  <2> QED
    BY <2>1, <2>2, LowerBoundIsRight DEF FindBlockCorrect, ExistingByteFound
<1> QED
  BY SearchInv, FindsLowerBound, <1>1, PTL
=============================================================================
