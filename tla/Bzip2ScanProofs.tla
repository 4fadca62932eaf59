-------------------------- MODULE Bzip2ScanProofs --------------------------
(***************************************************************************)
(* What Bzip2Scan says of the blocks it finds holds for every file that    *)
(* the bzip2 format allows and every size of the chunks.                   *)
(***************************************************************************)
EXTENDS Bzip2Scan, NaturalsInduction, WellFoundedInduction, TLAPS

Boundary == [magic : {"block", "eos"}, level : Levels \cup {NoLevel, Other},
             coff : Nat, bits : 0..7]
Block == [usize : Nat, csize : Int, uoff : Nat, coff : Nat, bits : 0..7, endbits : 0..7,
          level : Levels]

(* Boundary b is mark k.                                                   *)
IsMark(b, k) ==
    /\ k \in Marks(file)
    /\ file.marks[k].pos = b.coff /\ file.marks[k].bits = b.bits
    /\ file.marks[k].magic = b.magic

(* Boundary b is the mark after a, or the same again.                      *)
Steps(a, b) == \A k, l \in Marks(file) : IsMark(a, k) /\ IsMark(b, l) => l = k \/ l = k + 1

(* What has been looked at; the first byte of a buffer has been, already.  *)
Reach == IF at = 0 THEN Place + 1 ELSE Place

TypesOK ==
    /\ file \in Files
    /\ rpos \in Nat /\ bsz \in Nat /\ at \in Nat /\ i \in Nat \ {0}
    /\ level \in Levels \cup {NoLevel, Other}
    /\ bl \in Seq(Boundary) /\ mBlocks \in Seq(Block)
    /\ \A n \in 1..Len(bl) : \E k \in Marks(file) : IsMark(bl[n], k)

(* The last mark noted is the last one in what has been looked at.         *)
Frontier ==
    IF bl = <<>> THEN file.marks[1].pos >= Reach
    ELSE \E k \in Marks(file) :
            /\ IsMark(bl[Len(bl)], k)
            /\ file.marks[k].pos < Reach
            /\ k + 1 \in Marks(file) => file.marks[k + 1].pos >= Reach

ChunkOK ==
    /\ at = 0 \/ at <= bsz - Word
    /\ bsz <= rpos /\ rpos <= file.size
    /\ rpos < file.size => bsz > Word + 1

ScanOK ==
    pc = "scan" =>
        /\ ChunkOK /\ Frontier
        /\ i = 1 /\ mBlocks = <<>>
        /\ bl # <<>> => IsMark(bl[1], 1)
        /\ \A n \in 1..(Len(bl) - 1) : Steps(bl[n], bl[n + 1])

(* The boundary to begin at is genuine, and the blocks found end there.    *)
BuildOK ==
    pc = "build" =>
        /\ i \in 1..Len(bl)
        /\ \E k \in Genuine(file) : IsMark(bl[i], k) /\ file.marks[k].uoff = UncompressedSize
        /\ \A n \in (i + 1)..(Len(bl) - 1) : Steps(bl[n], bl[n + 1])
        /\ bl[i].magic = "eos" /\ i < Len(bl) => Steps(bl[i], bl[i + 1])

Inv == TypesOK /\ ScanOK /\ BuildOK /\ BlocksExact

-----------------------------------------------------------------------------
(* What the assumption says of a file and of its marks.                    *)
LEMMA SizeFacts ==
  /\ ChunkSize \in Nat /\ Word \in Nat \ {0} /\ MagicSize \in Nat \ {0}
  /\ FooterSize \in Nat \ {0} /\ Word + 1 < ChunkSize
  /\ Word < FooterSize /\ MagicSize < ChunkSize - Word - 1
BY ScanAssumption

LEMMA FileFacts ==
  ASSUME NEW f \in Files
  PROVE  /\ WellFormed(f) /\ f.size \in Nat
         /\ f.marks \in Seq(Mark) /\ Len(f.marks) \in Nat \ {0}
         /\ 1 \in Marks(f) /\ f.marks[1].uoff = 0 /\ f.marks[1].pos = MagicSize + 1
<1>1. WellFormed(f)
  BY ScanAssumption
<1>2. f.marks \in Seq(Mark) /\ f.marks # <<>>
  BY <1>1 DEF WellFormed
<1>3. Len(f.marks) \in Nat \ {0}
  BY <1>2
<1> QED
  BY <1>1, <1>2, <1>3 DEF WellFormed, Marks

LEMMA MarkFacts ==
  ASSUME NEW f \in Files, NEW k \in Marks(f)
  PROVE  /\ k \in Nat \ {0} /\ k <= Len(f.marks)
         /\ f.marks[k] \in Mark
         /\ f.marks[k].pos \in Nat /\ f.marks[k].pos < f.size
         /\ f.marks[k].bits \in 0..7 /\ f.marks[k].magic \in {"block", "eos"}
         /\ f.marks[k].uoff \in Nat /\ f.marks[k].usize \in Nat
         /\ f.marks[k].level \in Levels
<1>1. f.marks \in Seq(Mark) /\ k \in 1..Len(f.marks) /\ Len(f.marks) \in Nat
  BY FileFacts DEF Marks
<1>2. f.marks[k] \in Mark
  BY <1>1
<1>3. f.marks[k].pos < f.size
  BY FileFacts DEF WellFormed
<1>4. /\ f.marks[k].pos \in Nat /\ f.marks[k].bits \in 0..7
      /\ f.marks[k].magic \in {"block", "eos"}
      /\ f.marks[k].uoff \in Nat /\ f.marks[k].usize \in Nat
      /\ f.marks[k].level \in Levels
  BY <1>2 DEF Mark
<1>5. k \in Nat \ {0} /\ k <= Len(f.marks)
  BY <1>1
<1> QED
  BY <1>2, <1>3, <1>4, <1>5

LEMMA MarksInOrder ==
  ASSUME NEW f \in Files, NEW k \in Marks(f), NEW l \in Marks(f)
  PROVE  /\ k < l => f.marks[k].pos < f.marks[l].pos
         /\ f.marks[k].pos = f.marks[l].pos => k = l
         /\ f.marks[k].pos < f.marks[l].pos => k < l
<1>1. \A m, n \in Marks(f) : m < n => f.marks[m].pos < f.marks[n].pos
  BY FileFacts DEF WellFormed
<1>2. k \in Nat /\ l \in Nat /\ f.marks[k].pos \in Nat /\ f.marks[l].pos \in Nat
  BY MarkFacts
<1> QED
  BY <1>1, <1>2

(* A boundary is one mark only.                                            *)
LEMMA MarkIsOne ==
  ASSUME file \in Files, NEW b, NEW k, NEW l, IsMark(b, k), IsMark(b, l)
  PROVE  k = l
BY MarksInOrder DEF IsMark

(* After the end of a stream comes the first block of the next one.        *)
LEMMA AfterEOS ==
  ASSUME NEW f \in Files, NEW k \in Genuine(f), k + 1 \in Marks(f),
         f.marks[k].magic = "eos"
  PROVE  k + 1 \in Genuine(f) /\ f.marks[k + 1].uoff = f.marks[k].uoff
<1>1. k \in Marks(f) /\ f.marks[k].kind # "spurious" /\ k \in Nat \ {0}
  BY MarkFacts DEF Genuine
<1>2. OpensStream(f, k + 1)
  BY <1>1 DEF OpensStream
<1>3. k + 1 \in Genuine(f)
  BY <1>2, FileFacts DEF WellFormed, Genuine
<1>4. Follows(f, k, k + 1)
  <2>1. \A m \in Genuine(f) : ~(k < m /\ m < k + 1)
    BY <1>1, MarkFacts DEF Genuine
  <2> QED
    BY <1>1, <1>3, <2>1 DEF Follows
<1>5. f.marks[k + 1].uoff = f.marks[k].uoff + f.marks[k].usize
  BY <1>1, <1>4, FileFacts DEF WellFormed
<1>6. f.marks[k].usize = 0
  BY <1>1, FileFacts DEF WellFormed
<1> QED
  BY <1>1, <1>3, <1>5, <1>6, MarkFacts

(* What follows a block has its place after the block's bytes.             *)
LEMMA AfterBlock ==
  ASSUME NEW f \in Files, NEW k, NEW l, Follows(f, k, l)
  PROVE  f.marks[l].uoff = f.marks[k].uoff + f.marks[k].usize
BY FileFacts DEF WellFormed, Follows, Genuine

LEMMA ByteIsLevel == ASSUME NEW f \in Files, NEW p PROVE Byte(f, p) \in Levels \cup {Other}
<1>1. CASE \E k \in Marks(f) : OpensStream(f, k) /\ f.marks[k].pos = p + 1
  <2>1. PICK k \in Marks(f) : f.marks[k].pos = p + 1
    BY <1>1
  <2> DEFINE m == CHOOSE q \in Marks(f) : f.marks[q].pos = p + 1
  <2>2. m \in Marks(f)
    BY <2>1
  <2>3. f.marks[m].level \in Levels
    BY <2>2, MarkFacts
  <2> QED
    BY <1>1, <2>3 DEF Byte
<1>2. CASE ~\E k \in Marks(f) : OpensStream(f, k) /\ f.marks[k].pos = p + 1
  BY <1>2 DEF Byte
<1> QED
  BY <1>1, <1>2

LEMMA StepsBy ==
  ASSUME file \in Files, NEW a, NEW b, NEW k, NEW l, IsMark(a, k), IsMark(b, l),
         l = k \/ l = k + 1
  PROVE  Steps(a, b)
BY MarkIsOne DEF Steps

LEMMA AppendFacts ==
  ASSUME NEW S, NEW s \in Seq(S), NEW e \in S
  PROVE  /\ Append(s, e) \in Seq(S) /\ Append(s, e) # <<>>
         /\ Len(s) \in Nat /\ Len(Append(s, e)) = Len(s) + 1
         /\ Append(s, e)[Len(s) + 1] = e
         /\ \A n \in 1..Len(s) : Append(s, e)[n] = s[n]
OBVIOUS

(* What is said of a boundary or a block stays true of it.                 *)
LEMMA MarkKept == ASSUME file' = file, NEW b, NEW k, IsMark(b, k) PROVE IsMark(b, k)'
BY DEF IsMark, Marks

LEMMA StepsKept == ASSUME file' = file, NEW a, NEW b, Steps(a, b) PROVE Steps(a, b)'
BY DEF Steps, IsMark, Marks

LEMMA BlocksKept ==
  ASSUME file' = file, mBlocks' = mBlocks, BlocksExact
  PROVE  BlocksExact'
<1>1. ASSUME NEW b, BlockOfFile(b) PROVE BlockOfFile(b)'
  BY <1>1 DEF BlockOfFile, Follows, Genuine, Marks
<1> QED
  BY <1>1 DEF BlocksExact

-----------------------------------------------------------------------------
(* The scan.                                                               *)
LEMMA InitInv == Init => Inv
<1> SUFFICES ASSUME Init PROVE Inv
  OBVIOUS
<1>1. file \in Files /\ file.size \in Nat
  BY FileFacts DEF Init
<1>2. bsz \in Nat /\ rpos = bsz /\ bsz <= file.size /\ (bsz < file.size => bsz = ChunkSize)
  BY <1>1, SizeFacts DEF Init, Smaller
<1>3. TypesOK
  BY <1>1, <1>2 DEF Init, TypesOK
<1>4. Frontier
  BY <1>1, <1>2, FileFacts, SizeFacts DEF Init, Frontier, Reach, Place
<1>5. ChunkOK
  BY <1>1, <1>2, SizeFacts DEF Init, ChunkOK
<1> QED
  BY <1>3, <1>4, <1>5 DEF Init, Inv, ScanOK, BuildOK, BlocksExact

LEMMA NextChunkKeepsInv == ASSUME Inv, NextChunk PROVE Inv'
<1>1. /\ pc = "scan" /\ pc' = "scan" /\ file' = file /\ bl' = bl /\ mBlocks' = mBlocks
      /\ i' = i /\ level' = level /\ at' = 0
  BY DEF NextChunk
<1>2. /\ file \in Files /\ rpos \in Nat /\ bsz \in Nat /\ at \in Nat /\ file.size \in Nat
      /\ at >= bsz - Word /\ rpos < file.size /\ ChunkOK /\ Frontier
  BY <1>1, FileFacts DEF Inv, TypesOK, ScanOK, NextChunk
<1> DEFINE r == Smaller(ChunkSize - Word - 1, file.size - rpos)
<1>3. bsz' = r + Word + 1 /\ rpos' = rpos + r
  BY DEF NextChunk
<1>4. r \in Nat \ {0} /\ rpos + r <= file.size
  BY <1>2, SizeFacts DEF Smaller
<1>5. rpos + r < file.size => r = ChunkSize - Word - 1
  BY <1>2, SizeFacts DEF Smaller
<1> HIDE DEF r
<1>6. at = bsz - Word /\ at # 0
  BY <1>2, SizeFacts DEF ChunkOK
<1>7. rpos' \in Nat /\ bsz' \in Nat /\ at' \in Nat
  BY <1>1, <1>2, <1>3, <1>4, SizeFacts
<1>8. Reach = rpos - Word /\ Reach' = rpos - Word
  BY <1>1, <1>2, <1>3, <1>4, <1>6, SizeFacts DEF Reach, Place
<1>9. ChunkOK'
  BY <1>1, <1>2, <1>3, <1>4, <1>5, SizeFacts DEF ChunkOK
<1>10. Frontier'
  BY <1>1, <1>2, <1>8 DEF Frontier, IsMark, Marks
<1>11. TypesOK'
  BY <1>1, <1>7 DEF Inv, TypesOK, IsMark, Marks
<1>12. ScanOK'
  BY <1>1, <1>9, <1>10 DEF Inv, ScanOK, IsMark, Marks, Steps
<1>13. BlocksExact'
  BY <1>1, BlocksKept DEF Inv
<1> QED
  BY <1>1, <1>11, <1>12, <1>13 DEF Inv, BuildOK

LEMMA ScanByteKeepsInv == ASSUME Inv, ScanByte PROVE Inv'
<1>1. /\ pc = "scan" /\ pc' = "scan" /\ file' = file /\ mBlocks' = mBlocks /\ i' = i
      /\ rpos' = rpos /\ bsz' = bsz /\ at' = at + 1 /\ at < bsz - Word
      /\ level' = IF lcount = 1 THEN Byte(file, Place) ELSE level
  BY DEF ScanByte
<1>2. /\ file \in Files /\ rpos \in Nat /\ bsz \in Nat /\ at \in Nat
      /\ ChunkOK /\ Frontier /\ bl \in Seq(Boundary) /\ Len(bl) \in Nat
      /\ level \in Levels \cup {NoLevel, Other}
  BY <1>1 DEF Inv, TypesOK, ScanOK
<1>3. level' \in Levels \cup {NoLevel, Other}
  BY <1>1, <1>2, ByteIsLevel
<1>4. ChunkOK'
  BY <1>1, <1>2, SizeFacts DEF ChunkOK
<1>5. Place \in Nat /\ Reach' = Place + 1 /\ Reach \in {Place, Place + 1}
      /\ (at # 0 => Reach = Place) /\ (at = 0 => Reach = Place + 1)
  BY <1>1, <1>2 DEF Reach, Place, ChunkOK
<1> DEFINE p == Place
<1>6. p \in Nat /\ p = Place /\ Reach' = p + 1 /\ Reach \in {p, p + 1}
      /\ (at # 0 => Reach = p) /\ (at = 0 => Reach = p + 1)
  BY <1>5
<1> HIDE DEF p
<1>7. BlocksExact'
  BY <1>1, BlocksKept DEF Inv
<1>8. CASE NotFound
  <2>1. bl' = bl /\ \A k \in Marks(file) : file.marks[k].pos = p => at = 0
    BY <1>6, <1>8 DEF NotFound
  <2>2. \A k \in Marks(file) : file.marks[k].pos >= Reach => file.marks[k].pos >= p + 1
    BY <1>2, <1>6, <2>1, MarkFacts
  <2>3. \A k \in Marks(file) : file.marks[k].pos < Reach => file.marks[k].pos < p + 1
    BY <1>2, <1>6, MarkFacts
  <2>4. Frontier'
    BY <1>1, <1>2, <1>6, <2>1, <2>2, <2>3, FileFacts DEF Frontier, IsMark, Marks
  <2>5. TypesOK'
    BY <1>1, <1>2, <1>3, <2>1 DEF Inv, TypesOK, IsMark, Marks
  <2>6. ScanOK'
    BY <1>1, <1>4, <2>1, <2>4 DEF Inv, ScanOK, IsMark, Marks, Steps
  <2> QED
    BY <1>1, <1>7, <2>5, <2>6 DEF Inv, BuildOK
<1>9. CASE \E k \in Marks(file) : Found(k)
  <2>1. PICK m \in Marks(file) : Found(m)
    BY <1>9
  <2> DEFINE b == [magic |-> file.marks[m].magic, level |-> level',
                   coff |-> p, bits |-> file.marks[m].bits]
  <2>2. bl' = Append(bl, b) /\ file.marks[m].pos = p
    BY <1>6, <2>1 DEF Found
  <2>3. b \in Boundary
    BY <1>2, <1>3, <1>6, MarkFacts DEF Boundary
  <2>4. IsMark(b, m)
    BY <2>2 DEF IsMark
  <2> HIDE DEF b
  <2>5. /\ bl' \in Seq(Boundary) /\ bl' # <<>> /\ Len(bl') = Len(bl) + 1
        /\ bl'[Len(bl) + 1] = b
        /\ \A n \in 1..Len(bl) : bl'[n] = bl[n]
    BY <1>2, <2>2, <2>3, AppendFacts
  <2>6. m + 1 \in Marks(file) => file.marks[m + 1].pos >= p + 1
    <3> SUFFICES ASSUME m + 1 \in Marks(file) PROVE file.marks[m + 1].pos >= p + 1
      OBVIOUS
    <3>1. m \in Nat /\ file.marks[m + 1].pos \in Nat
      BY <1>2, MarkFacts
    <3>2. file.marks[m].pos < file.marks[m + 1].pos
      BY <1>2, <3>1, MarksInOrder
    <3> QED
      BY <1>6, <2>2, <3>1, <3>2
  <2>7. Frontier'
    <3>1. IsMark(bl'[Len(bl')], m) /\ m \in Marks(file)
      BY <1>2, <2>4, <2>5
    <3>2. m + 1 \in Marks(file) => file.marks[m + 1].pos >= p + 1
      BY <2>6
    <3>3. file.marks[m].pos < p + 1
      BY <1>6, <2>2
    <3> QED
      BY <1>1, <1>6, <2>5, <3>1, <3>2, <3>3 DEF Frontier, IsMark, Marks
  <2>8. TypesOK'
    <3>1. \A n \in 1..Len(bl') : \E k \in Marks(file) : IsMark(bl'[n], k)
      BY <1>2, <2>4, <2>5 DEF Inv, TypesOK
    <3>2. (\A n \in 1..Len(bl) : \E k \in Marks(file) : IsMark(bl[n], k))'
      BY <1>1, <3>1 DEF IsMark, Marks
    <3>3. (file \in Files /\ rpos \in Nat /\ bsz \in Nat /\ at \in Nat)'
      BY <1>1, <1>2
    <3> QED
      BY <1>1, <1>3, <2>5, <3>2, <3>3 DEF Inv, TypesOK
  <2>9. CASE bl = <<>>
    <3>1. m = 1
      <4>1. file.marks[1].pos >= Reach /\ 1 \in Marks(file) /\ file.marks[1].pos \in Nat
        BY <1>2, <2>9, FileFacts, MarkFacts DEF Frontier
      <4>2. ~(file.marks[1].pos < file.marks[m].pos)
        BY <1>6, <2>2, <4>1
      <4>3. m \in Nat \ {0}
        BY <1>2, MarkFacts
      <4> QED
        BY <1>2, <4>1, <4>2, <4>3, MarksInOrder
    <3>2. IsMark(bl'[1], 1) /\ Len(bl') = 1
      BY <2>4, <2>5, <2>9, <3>1
    <3>3. ScanOK'
      BY <1>1, <1>4, <2>7, <3>2 DEF Inv, ScanOK, IsMark, Marks
    <3> QED
      BY <1>1, <1>7, <2>8, <3>3 DEF Inv, BuildOK
  <2>10. CASE bl # <<>>
    <3>1. PICK k \in Marks(file) :
            /\ IsMark(bl[Len(bl)], k)
            /\ file.marks[k].pos < Reach
            /\ k + 1 \in Marks(file) => file.marks[k + 1].pos >= Reach
      BY <1>2, <2>10 DEF Frontier
    <3>2. /\ k \in Nat \ {0} /\ m \in Nat \ {0} /\ m <= Len(file.marks)
          /\ file.marks[k].pos \in Nat
      BY <1>2, MarkFacts
    <3>3. m = k \/ m = k + 1
      <4>1. k <= m
        <5>1. ~(file.marks[m].pos < file.marks[k].pos)
          BY <1>6, <2>2, <3>1, <3>2
        <5> QED
          BY <1>2, <3>2, <5>1, MarksInOrder
      <4>2. ~(k + 1 < m)
        <5> SUFFICES ASSUME k + 1 < m PROVE FALSE
          OBVIOUS
        <5>1. k + 1 \in Marks(file)
          BY <3>2, FileFacts, <1>2 DEF Marks
        <5>2. file.marks[k + 1].pos < p /\ file.marks[k + 1].pos \in Nat
          BY <1>2, <2>2, <5>1, MarksInOrder, MarkFacts
        <5> QED
          BY <1>6, <3>1, <5>1, <5>2
      <4> QED
        BY <3>2, <4>1, <4>2
    <3>4. Steps(bl[Len(bl)], b)
      BY <1>2, <2>4, <3>1, <3>3, StepsBy
    <3>5. \A n \in 1..(Len(bl') - 1) : Steps(bl'[n], bl'[n + 1])
      <4>1. \A n \in 1..(Len(bl) - 1) : Steps(bl[n], bl[n + 1])
        BY <1>1 DEF Inv, ScanOK
      <4>2. TAKE n \in 1..(Len(bl') - 1)
      <4>3. CASE n = Len(bl)
        BY <1>2, <2>5, <2>10, <3>4, <4>3
      <4>4. CASE n < Len(bl)
        BY <1>2, <2>5, <4>1, <4>4
      <4> QED
        BY <1>2, <2>5, <4>3, <4>4
    <3>6. IsMark(bl'[1], 1)
      BY <1>1, <1>2, <2>5, <2>10 DEF Inv, ScanOK
    <3>7. ScanOK'
      BY <1>1, <1>4, <2>7, <3>5, <3>6 DEF Inv, ScanOK, Steps, IsMark, Marks
    <3> QED
      BY <1>1, <1>7, <2>8, <3>7 DEF Inv, BuildOK
  <2> QED
    BY <2>9, <2>10
<1> QED
  BY <1>8, <1>9 DEF ScanByte

-----------------------------------------------------------------------------
(* From boundaries to blocks.                                              *)
LEMMA EndScanKeepsInv == ASSUME Inv, EndScan PROVE Inv'
<1>1. /\ pc = "scan" /\ file' = file /\ bl' = bl /\ mBlocks' = mBlocks /\ i' = i
      /\ rpos' = rpos /\ bsz' = bsz /\ at' = at /\ pc' \in {"build", "undefined"}
      /\ IF bl = <<>> THEN pc' = "undefined" /\ level' = level
         ELSE pc' = "build" /\ level' = bl[1].level
  BY DEF EndScan
<1>2. file \in Files /\ bl \in Seq(Boundary) /\ i = 1 /\ mBlocks = <<>>
  BY <1>1 DEF Inv, TypesOK, ScanOK
<1>3. level' \in Levels \cup {NoLevel, Other}
  <2>1. CASE bl = <<>>
    BY <1>1, <2>1 DEF Inv, TypesOK
  <2>2. CASE bl # <<>>
    <3>1. bl[1] \in Boundary
      BY <1>2, <2>2
    <3> QED
      BY <1>1, <2>2, <3>1 DEF Boundary
  <2> QED
    BY <2>1, <2>2
<1>4. TypesOK'
  BY <1>1, <1>3 DEF Inv, TypesOK, IsMark, Marks
<1>5. BlocksExact'
  BY <1>1, <1>2 DEF BlocksExact
<1>6. CASE bl = <<>>
  BY <1>1, <1>4, <1>5, <1>6 DEF Inv, ScanOK, BuildOK
<1>7. CASE bl # <<>>
  <2>1. IsMark(bl[1], 1) /\ \A n \in 1..(Len(bl) - 1) : Steps(bl[n], bl[n + 1])
    BY <1>1, <1>7 DEF Inv, ScanOK
  <2>2. Len(bl) \in Nat \ {0}
    BY <1>2, <1>7
  <2>3. 1 \in Genuine(file) /\ file.marks[1].uoff = 0
    BY <1>2, FileFacts DEF WellFormed, OpensStream, Genuine
  <2>4. UncompressedSize = 0
    BY <1>2 DEF UncompressedSize
  <2>5. /\ i \in 1..Len(bl)
        /\ \E k \in Genuine(file) : IsMark(bl[i], k) /\ file.marks[k].uoff = UncompressedSize
    BY <1>2, <2>1, <2>2, <2>3, <2>4
  <2>6. /\ \A n \in (i + 1)..(Len(bl) - 1) : Steps(bl[n], bl[n + 1])
        /\ i < Len(bl) => Steps(bl[i], bl[i + 1])
    BY <1>2, <2>1, <2>2
  <2>7. BuildOK'
    BY <1>1, <2>5, <2>6 DEF BuildOK, Steps, IsMark, Marks, Genuine, UncompressedSize
  <2> QED
    BY <1>1, <1>4, <1>5, <1>7, <2>7 DEF Inv, ScanOK
<1> QED
  BY <1>6, <1>7

LEMMA StopKeepsInv ==
  ASSUME Inv, UNCHANGED <<file, scanVars, bl, i, mBlocks>>,
         level' \in Levels \cup {NoLevel, Other}, pc' \in {"done", "skipped"}
  PROVE  Inv'
<1>1. /\ file' = file /\ bl' = bl /\ mBlocks' = mBlocks /\ i' = i
      /\ rpos' = rpos /\ bsz' = bsz /\ at' = at
  BY DEF scanVars
<1>2. TypesOK'
  BY <1>1 DEF Inv, TypesOK, IsMark, Marks
<1>3. BlocksExact'
  BY <1>1, BlocksKept DEF Inv
<1> QED
  BY <1>2, <1>3 DEF Inv, ScanOK, BuildOK

(* Where the loop of buildIndex stands.                                    *)
LEMMA BuildFacts ==
  ASSUME Inv, Building
  PROVE  /\ file \in Files /\ i \in Nat \ {0} /\ Len(bl) \in Nat /\ i < Len(bl)
         /\ bl[i] \in Boundary /\ bl[i + 1] \in Boundary
         /\ BlockLevel \in Levels \cup {NoLevel, Other}
         /\ mBlocks \in Seq(Block) /\ UncompressedSize \in Nat
<1>1. /\ file \in Files /\ i \in Nat \ {0} /\ bl \in Seq(Boundary) /\ i < Len(bl)
      /\ level \in Levels \cup {NoLevel, Other} /\ mBlocks \in Seq(Block)
  BY DEF Inv, TypesOK, Building
<1>2. bl[i] \in Boundary /\ bl[i + 1] \in Boundary /\ Len(bl) \in Nat
  BY <1>1
<1>3. BlockLevel \in Levels \cup {NoLevel, Other}
  BY <1>1, <1>2 DEF BlockLevel, Boundary
<1>4. UncompressedSize \in Nat
  <2>1. CASE mBlocks = <<>>
    BY <2>1 DEF UncompressedSize
  <2>2. CASE mBlocks # <<>>
    <3>1. mBlocks[Len(mBlocks)] \in Block
      BY <1>1, <2>2
    <3> QED
      BY <2>2, <3>1 DEF UncompressedSize, Block
  <2> QED
    BY <2>1, <2>2
<1> QED
  BY <1>1, <1>2, <1>3, <1>4

LEMMA SkipEOSKeepsInv == ASSUME Inv, SkipEOS PROVE Inv'
<1>1. /\ Building /\ bl[i].magic = "eos" /\ i' = i + 1 /\ pc = "build" /\ pc' = "build"
      /\ file' = file /\ bl' = bl /\ mBlocks' = mBlocks /\ level' = level
      /\ rpos' = rpos /\ bsz' = bsz /\ at' = at
  BY DEF SkipEOS, scanVars, Building
<1>2. file \in Files /\ i \in Nat \ {0} /\ Len(bl) \in Nat /\ i < Len(bl)
  BY <1>1, BuildFacts
<1>3. /\ \A n \in (i + 1)..(Len(bl) - 1) : Steps(bl[n], bl[n + 1])
      /\ Steps(bl[i], bl[i + 1])
  BY <1>1, <1>2 DEF Inv, BuildOK
<1>4. PICK k \in Genuine(file) :
        IsMark(bl[i], k) /\ file.marks[k].uoff = UncompressedSize
  BY <1>1 DEF Inv, BuildOK
<1>5. PICK l \in Marks(file) : IsMark(bl[i + 1], l)
  <2>1. i + 1 \in 1..Len(bl)
    BY <1>2
  <2> QED
    BY <2>1 DEF Inv, TypesOK
<1>6. l = k \/ l = k + 1
  BY <1>3, <1>4, <1>5 DEF Steps, Genuine
<1>7. l \in Genuine(file) /\ file.marks[l].uoff = UncompressedSize
  <2>1. file.marks[k].magic = "eos"
    BY <1>1, <1>4 DEF IsMark
  <2> QED
    BY <1>2, <1>4, <1>5, <1>6, <2>1, AfterEOS
<1>8. /\ i' \in 1..Len(bl)
      /\ \A n \in (i' + 1)..(Len(bl) - 1) : Steps(bl[n], bl[n + 1])
      /\ i' < Len(bl) => Steps(bl[i'], bl[i' + 1])
  BY <1>1, <1>2, <1>3
<1>9. \E q \in Genuine(file) : IsMark(bl[i'], q) /\ file.marks[q].uoff = UncompressedSize
  BY <1>1, <1>5, <1>7
<1>10. BuildOK'
  <2>1. (i \in 1..Len(bl))'
    BY <1>1, <1>8
  <2>2. (\E q \in Genuine(file) : IsMark(bl[i], q) /\ file.marks[q].uoff = UncompressedSize)'
    BY <1>1, <1>9 DEF IsMark, Marks, Genuine, UncompressedSize
  <2>3. (/\ \A n \in (i + 1)..(Len(bl) - 1) : Steps(bl[n], bl[n + 1])
         /\ i < Len(bl) => Steps(bl[i], bl[i + 1]))'
    BY <1>1, <1>8, StepsKept
  <2> QED
    BY <2>1, <2>2, <2>3 DEF BuildOK
<1>11. TypesOK'
  BY <1>1, <1>2, MarkKept DEF Inv, TypesOK, Marks
<1>12. BlocksExact'
  BY <1>1, BlocksKept DEF Inv
<1> QED
  BY <1>1, <1>10, <1>11, <1>12 DEF Inv, ScanOK

LEMMA ConcatFacts ==
  ASSUME NEW S, NEW s \in Seq(S), NEW t \in Seq(S)
  PROVE  s \o t \in Seq(S) /\ Len(s \o t) = Len(s) + Len(t)
OBVIOUS

(* The boundaries without the one after i.                                 *)
LEMMA EraseFacts ==
  ASSUME Inv, EraseBoundary
  PROVE  /\ bl' \in Seq(Boundary) /\ Len(bl') = Len(bl) - 1
         /\ \A n \in 1..(Len(bl) - 1) : bl'[n] = IF n <= i THEN bl[n] ELSE bl[n + 1]
<1>1. Building /\ bl' = WithoutNext
  BY DEF EraseBoundary, SpuriousBoundary
<1>2. i \in Nat \ {0} /\ Len(bl) \in Nat /\ i < Len(bl) /\ bl \in Seq(Boundary)
  BY <1>1, BuildFacts DEF Inv, TypesOK
<1> DEFINE s == SubSeq(bl, 1, i)
           t == SubSeq(bl, i + 2, Len(bl))
<1>3. s \in Seq(Boundary) /\ Len(s) = i /\ \A n \in 1..i : s[n] = bl[n]
  BY <1>2
<1>4. /\ t \in Seq(Boundary) /\ Len(t) = Len(bl) - i - 1
      /\ \A n \in 1..(Len(bl) - i - 1) : t[n] = bl[n + i + 1]
  BY <1>2
<1>5. bl' = s \o t
  BY <1>1 DEF WithoutNext
<1> HIDE DEF s, t
<1>6. bl' \in Seq(Boundary) /\ Len(bl') = Len(bl) - 1
  <2>1. s \in Seq(Boundary) /\ t \in Seq(Boundary)
    BY <1>3, <1>4
  <2>2. s \o t \in Seq(Boundary) /\ Len(s \o t) = Len(s) + Len(t)
    BY <2>1, ConcatFacts
  <2> QED
    BY <1>2, <1>3, <1>4, <1>5, <2>2
<1>7. \A n \in 1..(Len(bl) - 1) : bl'[n] = IF n <= i THEN s[n] ELSE t[n - i]
  BY <1>2, <1>3, <1>4, <1>5
<1>8. ASSUME NEW n \in 1..(Len(bl) - 1)
      PROVE  bl'[n] = IF n <= i THEN bl[n] ELSE bl[n + 1]
  <2>1. CASE n <= i
    BY <1>2, <1>3, <1>7, <2>1
  <2>2. CASE n > i
    <3>1. n - i \in 1..(Len(bl) - i - 1) /\ n - i + i + 1 = n + 1
      BY <1>2, <2>2
    <3>2. t[n - i] = bl[n - i + i + 1]
      BY <1>4, <3>1
    <3>3. ~(n <= i)
      BY <1>2, <2>2
    <3>4. bl'[n] = t[n - i]
      BY <1>7, <3>3
    <3> QED
      BY <3>1, <3>2, <3>3, <3>4
  <2> QED
    BY <1>2, <2>1, <2>2
<1> QED
  BY <1>6, <1>8

(* A boundary that is given up is none the loop has to come to.            *)
LEMMA EraseKeepsInv == ASSUME Inv, EraseBoundary PROVE Inv'
<1>1. /\ Building /\ bl[i].magic = "block" /\ bl' = WithoutNext /\ level' = BlockLevel
      /\ pc = "build" /\ pc' = "build" /\ i' = i
      /\ file' = file /\ mBlocks' = mBlocks
      /\ rpos' = rpos /\ bsz' = bsz /\ at' = at
  BY DEF EraseBoundary, SpuriousBoundary, scanVars, Building
<1>2. /\ file \in Files /\ i \in Nat \ {0} /\ Len(bl) \in Nat /\ i < Len(bl)
      /\ level' \in Levels \cup {NoLevel, Other} /\ bl \in Seq(Boundary)
  BY <1>1, BuildFacts DEF Inv, TypesOK
<1>3. /\ bl' \in Seq(Boundary) /\ Len(bl') = Len(bl) - 1
      /\ \A n \in 1..(Len(bl) - 1) : bl'[n] = IF n <= i THEN bl[n] ELSE bl[n + 1]
  BY EraseFacts
<1>4. TypesOK'
  <2>0. \A n \in 1..Len(bl) : \E k \in Marks(file) : IsMark(bl[n], k)
    BY DEF Inv, TypesOK
  <2>1. ASSUME NEW n \in 1..Len(bl')
        PROVE  \E k \in Marks(file) : IsMark(bl'[n], k)
    <3>1. n \in 1..(Len(bl) - 1) /\ n \in 1..Len(bl) /\ n + 1 \in 1..Len(bl)
      BY <1>2, <1>3
    <3>2. bl'[n] = bl[n] \/ bl'[n] = bl[n + 1]
      BY <1>3, <3>1
    <3> QED
      BY <2>0, <3>1, <3>2
  <2>2. (\A n \in 1..Len(bl) : \E k \in Marks(file) : IsMark(bl[n], k))'
    BY <1>1, <2>1 DEF IsMark, Marks
  <2> QED
    BY <1>1, <1>2, <1>3, <2>2 DEF Inv, TypesOK
<1>5. bl'[i] = bl[i] /\ i \in 1..Len(bl')
  BY <1>2, <1>3
<1>6. \A n \in (i + 1)..(Len(bl') - 1) : Steps(bl'[n], bl'[n + 1])
  <2>1. \A n \in (i + 1)..(Len(bl) - 1) : Steps(bl[n], bl[n + 1])
    BY <1>1 DEF Inv, BuildOK
  <2>2. TAKE n \in (i + 1)..(Len(bl') - 1)
  <2>3. n + 1 \in (i + 1)..(Len(bl) - 1) /\ bl'[n] = bl[n + 1] /\ bl'[n + 1] = bl[n + 1 + 1]
    BY <1>2, <1>3, <2>2
  <2> QED
    BY <2>1, <2>3
<1>7. BuildOK'
  <2>1. \E k \in Genuine(file) : IsMark(bl'[i], k) /\ file.marks[k].uoff = UncompressedSize
    BY <1>1, <1>5 DEF Inv, BuildOK
  <2>2. (\E k \in Genuine(file) : IsMark(bl[i], k) /\ file.marks[k].uoff = UncompressedSize)'
    BY <1>1, <2>1 DEF IsMark, Marks, Genuine, UncompressedSize
  <2>3. (\A n \in (i + 1)..(Len(bl) - 1) : Steps(bl[n], bl[n + 1]))'
    BY <1>1, <1>6, StepsKept
  <2>4. (i \in 1..Len(bl))' /\ ~(bl[i].magic = "eos")'
    BY <1>1, <1>5
  <2> QED
    BY <2>2, <2>3, <2>4 DEF BuildOK
<1>8. BlocksExact'
  BY <1>1, BlocksKept DEF Inv
<1> QED
  BY <1>1, <1>4, <1>7, <1>8 DEF Inv, ScanOK

(* A block is that of the mark it begins at.                               *)
LEMMA AddBlockKeepsInv == ASSUME Inv, AddBlock PROVE Inv'
<1>1. /\ Building /\ bl[i].magic = "block" /\ i' = i + 1 /\ pc = "build" /\ pc' = "build"
      /\ file' = file /\ bl' = bl /\ rpos' = rpos /\ bsz' = bsz /\ at' = at
      /\ level' = IF bl[i + 1].magic = "eos" THEN NoLevel ELSE BlockLevel
      /\ Decompresses(bl[i], bl[i + 1], BlockLevel)
  BY DEF AddBlock, scanVars, Building
<1>2. /\ file \in Files /\ i \in Nat \ {0} /\ Len(bl) \in Nat /\ i < Len(bl)
      /\ bl[i] \in Boundary /\ bl[i + 1] \in Boundary
      /\ BlockLevel \in Levels \cup {NoLevel, Other}
      /\ mBlocks \in Seq(Block) /\ UncompressedSize \in Nat
  BY <1>1, BuildFacts
<1>3. PICK k \in Marks(file), l \in Marks(file) :
        /\ Follows(file, k, l)
        /\ file.marks[k].pos = bl[i].coff /\ file.marks[l].pos = bl[i + 1].coff
        /\ file.marks[k].magic = "block" /\ file.marks[k].level = BlockLevel
  BY <1>1 DEF Decompresses
<1>4. IsMark(bl[i], k) /\ file.marks[k].uoff = UncompressedSize
  <2>1. PICK q \in Genuine(file) :
          IsMark(bl[i], q) /\ file.marks[q].uoff = UncompressedSize
    BY <1>1 DEF Inv, BuildOK
  <2>2. q = k
    BY <1>2, <1>3, <2>1, MarksInOrder DEF IsMark
  <2> QED
    BY <2>1, <2>2
<1>5. IsMark(bl[i + 1], l)
  <2>1. i + 1 \in 1..Len(bl)
    BY <1>2
  <2>2. PICK q \in Marks(file) : IsMark(bl[i + 1], q)
    BY <2>1 DEF Inv, TypesOK
  <2>3. q = l
    BY <1>2, <1>3, <2>2, MarksInOrder DEF IsMark
  <2> QED
    BY <2>2, <2>3
<1>6. SizeOf(bl[i]) = file.marks[k].usize
  <2> DEFINE m == CHOOSE q \in Marks(file) : file.marks[q].pos = bl[i].coff
  <2>1. m \in Marks(file) /\ file.marks[m].pos = bl[i].coff
    BY <1>3
  <2>2. m = k
    BY <1>2, <1>3, <2>1, MarksInOrder
  <2> QED
    BY <2>2 DEF SizeOf
<1> DEFINE b == [usize |-> file.marks[k].usize,
                 csize |-> file.marks[l].pos - file.marks[k].pos,
                 uoff |-> file.marks[k].uoff, coff |-> file.marks[k].pos,
                 bits |-> file.marks[k].bits, endbits |-> file.marks[l].bits,
                 level |-> file.marks[k].level]
<1>7. mBlocks' = Append(mBlocks, b)
  BY <1>3, <1>4, <1>5, <1>6 DEF AddBlock, IsMark
<1>8. b \in Block
  <2>1. /\ file.marks[k].usize \in Nat /\ file.marks[k].uoff \in Nat
        /\ file.marks[k].pos \in Nat /\ file.marks[k].bits \in 0..7
        /\ file.marks[k].level \in Levels
    BY <1>2, MarkFacts
  <2>2. file.marks[l].bits \in 0..7 /\ file.marks[l].pos \in Nat
    BY <1>2, MarkFacts
  <2>3. file.marks[l].pos - file.marks[k].pos \in Int
    BY <2>1, <2>2
  <2> QED
    BY <2>1, <2>2, <2>3 DEF Block
<1>9. BlockOfFile(b)
  BY <1>3 DEF BlockOfFile
<1>10. b.uoff = UncompressedSize /\ b.uoff + b.usize = file.marks[l].uoff
  BY <1>2, <1>3, <1>4, AfterBlock
<1> HIDE DEF b
<1>11. /\ mBlocks' \in Seq(Block) /\ mBlocks' # <<>> /\ Len(mBlocks) \in Nat
       /\ Len(mBlocks') = Len(mBlocks) + 1 /\ mBlocks'[Len(mBlocks) + 1] = b
       /\ \A n \in 1..Len(mBlocks) : mBlocks'[n] = mBlocks[n]
  BY <1>2, <1>7, <1>8, AppendFacts
<1>12. UncompressedSize' = file.marks[l].uoff
  BY <1>10, <1>11 DEF UncompressedSize
<1>13. TypesOK'
  <2>1. level' \in Levels \cup {NoLevel, Other}
    BY <1>1, <1>2
  <2> QED
    BY <1>1, <1>2, <1>11, <2>1 DEF Inv, TypesOK, IsMark, Marks
<1>14. BlocksExact'
  <2>1. \A n \in 1..Len(mBlocks') : BlockOfFile(mBlocks'[n])
    BY <1>9, <1>11 DEF Inv, BlocksExact
  <2>2. ASSUME NEW n \in 1..Len(mBlocks')
        PROVE  mBlocks'[n].uoff = IF n = 1 THEN 0
                                  ELSE mBlocks'[n - 1].uoff + mBlocks'[n - 1].usize
    <3>1. CASE n <= Len(mBlocks)
      <4>1. n \in 1..Len(mBlocks) /\ mBlocks'[n] = mBlocks[n]
            /\ (n # 1 => mBlocks'[n - 1] = mBlocks[n - 1])
        BY <1>11, <3>1
      <4> QED
        BY <4>1 DEF Inv, BlocksExact
    <3>2. CASE n = Len(mBlocks) + 1 /\ mBlocks = <<>>
      BY <1>10, <1>11, <3>2 DEF UncompressedSize
    <3>3. CASE n = Len(mBlocks) + 1 /\ mBlocks # <<>>
      <4>1. Len(mBlocks) # 0
        BY <1>2, <3>3
      <4>2. n # 1 /\ n - 1 \in 1..Len(mBlocks) /\ n - 1 = Len(mBlocks)
        BY <1>11, <3>3, <4>1
      <4> QED
        BY <1>10, <1>11, <3>3, <4>2 DEF UncompressedSize
    <3> QED
      BY <1>11, <3>1, <3>2, <3>3
  <2>3. (\A n \in 1..Len(mBlocks) : BlockOfFile(mBlocks[n]))'
    BY <1>1, <2>1 DEF BlockOfFile, Follows, Genuine, Marks
  <2> QED
    BY <2>2, <2>3 DEF BlocksExact
<1>15. BuildOK'
  <2>1. \A n \in (i + 1)..(Len(bl) - 1) : Steps(bl[n], bl[n + 1])
    BY <1>1 DEF Inv, BuildOK
  <2>2. /\ i' \in 1..Len(bl)
        /\ \A n \in (i' + 1)..(Len(bl) - 1) : Steps(bl[n], bl[n + 1])
        /\ i' < Len(bl) => Steps(bl[i'], bl[i' + 1])
    BY <1>1, <1>2, <2>1
  <2>3. (/\ i \in 1..Len(bl)
         /\ \A n \in (i + 1)..(Len(bl) - 1) : Steps(bl[n], bl[n + 1])
         /\ i < Len(bl) => Steps(bl[i], bl[i + 1]))'
    <3>1. (i \in 1..Len(bl))'
      BY <1>1, <2>2
    <3>2. (\A n \in (i + 1)..(Len(bl) - 1) : Steps(bl[n], bl[n + 1]))'
      <4> SUFFICES ASSUME NEW n \in ((i + 1)..(Len(bl) - 1))'
                   PROVE  Steps(bl[n], bl[n + 1])'
        BY <1>1
      <4>1. Steps(bl[n], bl[n + 1])
        BY <1>1, <2>2
      <4> QED
        BY <1>1, <4>1 DEF Steps, IsMark, Marks
    <3>3. (i < Len(bl) => Steps(bl[i], bl[i + 1]))'
      BY <1>1, <2>2 DEF Steps, IsMark, Marks
    <3> QED
      BY <3>1, <3>2, <3>3
  <2>4. l \in Genuine(file) /\ IsMark(bl[i'], l)
    BY <1>1, <1>3, <1>5 DEF Follows
  <2>5. (\E q \in Genuine(file) : IsMark(bl[i], q) /\ file.marks[q].uoff = UncompressedSize)'
    BY <1>1, <1>12, <2>4 DEF IsMark, Marks, Genuine
  <2> QED
    BY <2>3, <2>5 DEF BuildOK
<1> QED
  BY <1>1, <1>13, <1>14, <1>15 DEF Inv, ScanOK

-----------------------------------------------------------------------------
LEMMA StutterKeepsInv == ASSUME Inv, UNCHANGED vars PROVE Inv'
BY DEF Inv, TypesOK, ScanOK, ChunkOK, Frontier, Reach, Place, BuildOK, UncompressedSize,
       BlocksExact, BlockOfFile, Follows, Genuine, Steps, IsMark, Marks, vars

(* Every step of findBlockBoundaryCandidates and of buildIndex keeps the   *)
(* invariant, for every file of the format and every size of chunks.       *)
THEOREM Bzip2Invariant == Spec => []Inv
<1>1. Init => Inv
  BY InitInv
<1>2. Inv /\ [Next]_vars => Inv'
  <2> SUFFICES ASSUME Inv, [Next]_vars PROVE Inv'
    OBVIOUS
  <2>1. CASE ScanByte
    BY <2>1, ScanByteKeepsInv
  <2>2. CASE NextChunk
    BY <2>2, NextChunkKeepsInv
  <2>3. CASE EndScan
    BY <2>3, EndScanKeepsInv
  <2>4. CASE SkipEOS
    BY <2>4, SkipEOSKeepsInv
  <2>5. CASE EmptyRead
    BY <2>5, BuildFacts, StopKeepsInv DEF EmptyRead
  <2>6. CASE AddBlock
    BY <2>6, AddBlockKeepsInv
  <2>7. CASE EraseBoundary
    BY <2>7, EraseKeepsInv
  <2>8. CASE Finish
    BY <2>8, StopKeepsInv DEF Finish, Inv, TypesOK
  <2>9. CASE UNCHANGED vars
    BY <2>9, StutterKeepsInv
  <2> QED
    BY <2>1, <2>2, <2>3, <2>4, <2>5, <2>6, <2>7, <2>8, <2>9 DEF Next
<1> QED
  BY <1>1, <1>2, PTL DEF Spec

(* BlocksExact: whatever boundaries are spurious, doubled at a seam or in  *)
(* damaged data, buildIndex (src/Bzip2File.cc) lists blocks of the file,   *)
(* each with its bits and level, from the first byte on without a gap.     *)
THEOREM Bzip2BlocksExact == Spec => []BlocksExact
BY Bzip2Invariant, PTL DEF Inv

-----------------------------------------------------------------------------
(* The chunks themselves: where they begin, and what has been noted.       *)
Begin == rpos - bsz

(* A number of chunks is before place s.                                   *)
Chunks(s) == \E n \in 0..s : s = n * (ChunkSize - Word - 1)

Noted == \A k \in Marks(file) : file.marks[k].pos < Reach =>
             \E n \in 1..Len(bl) : IsMark(bl[n], k)

(* Boundary n comes after the one before, or is the same, at a seam.       *)
Ordered(s, n) ==
    \/ s[n - 1].coff < s[n].coff
    \/ /\ s[n - 1].coff = s[n].coff /\ Seam(file, s[n].coff)
       /\ n > 2 => s[n - 2].coff < s[n].coff

(* Only what stands where the buffer begins may just have been doubled.    *)
Doubled ==
    Len(bl) > 1 /\ bl[Len(bl) - 1].coff = bl[Len(bl)].coff =>
        \/ bl[Len(bl)].coff < Begin
        \/ at # 0 /\ bl[Len(bl)].coff = Begin

Buffer ==
    /\ Chunks(Begin)
    /\ rpos < file.size => bsz = ChunkSize
    /\ Begin > 0 => bsz > Word + 1

ScanInv ==
    pc = "scan" => Buffer /\ Noted /\ Doubled /\ \A n \in 2..Len(bl) : Ordered(bl, n)

LEMMA NextMultiple ==
  ASSUME NEW d \in Nat \ {0}, NEW s \in Nat, NEW n \in 0..s, s = n * d
  PROVE  n + 1 \in 0..(s + d) /\ s + d = (n + 1) * d
OBVIOUS

LEMMA ScanInitInv == Init => ScanInv
<1> SUFFICES ASSUME Init PROVE ScanInv
  OBVIOUS
<1>1. file \in Files /\ file.size \in Nat /\ bl = <<>> /\ at = 0 /\ rpos = bsz
  BY FileFacts DEF Init
<1>2. bsz \in Nat /\ Begin = 0 /\ (bsz < file.size => bsz = ChunkSize)
  BY <1>1, SizeFacts DEF Init, Smaller, Begin
<1>3. Chunks(0)
  <2>1. 0 = 0 * (ChunkSize - Word - 1)
    BY SizeFacts
  <2> QED
    BY <2>1 DEF Chunks
<1>4. Buffer
  BY <1>1, <1>2, <1>3 DEF Buffer
<1>5. Noted
  <2>1. Reach = 1
    BY <1>1, <1>2 DEF Reach, Place
  <2>2. ASSUME NEW k \in Marks(file) PROVE ~(file.marks[k].pos < 1)
    <3>1. 1 \in Marks(file) /\ file.marks[1].pos = MagicSize + 1
      BY <1>1, FileFacts
    <3>2. k = 1 \/ file.marks[1].pos < file.marks[k].pos
      BY <1>1, <3>1, MarkFacts, MarksInOrder
    <3> QED
      BY <1>1, <3>1, <3>2, MarkFacts, SizeFacts
  <2> QED
    BY <2>1, <2>2 DEF Noted
<1> QED
  BY <1>1, <1>4, <1>5 DEF ScanInv, Doubled

LEMMA ScanFacts ==
  ASSUME Inv, ScanInv, pc = "scan"
  PROVE  /\ file \in Files /\ rpos \in Nat /\ bsz \in Nat /\ at \in Nat /\ file.size \in Nat
         /\ Begin \in Nat /\ ChunkOK /\ Frontier /\ Buffer /\ Noted /\ Doubled
         /\ bl \in Seq(Boundary) /\ Len(bl) \in Nat
         /\ \A n \in 1..Len(bl) : bl[n].coff \in Nat
<1>1. /\ file \in Files /\ rpos \in Nat /\ bsz \in Nat /\ at \in Nat /\ file.size \in Nat
      /\ ChunkOK /\ Frontier /\ bl \in Seq(Boundary)
  BY FileFacts DEF Inv, TypesOK, ScanOK
<1>2. Begin \in Nat
  BY <1>1 DEF Begin, ChunkOK
<1>3. \A n \in 1..Len(bl) : bl[n] \in Boundary
  BY <1>1
<1>4. \A n \in 1..Len(bl) : bl[n].coff \in Nat
  BY <1>3 DEF Boundary
<1>5. Len(bl) \in Nat
  BY <1>1
<1> QED
  BY <1>1, <1>2, <1>4, <1>5 DEF ScanInv

LEMMA NextChunkKeepsScan == ASSUME Inv, ScanInv, NextChunk PROVE ScanInv'
<1>1. /\ pc = "scan" /\ file' = file /\ bl' = bl /\ at' = 0
      /\ at >= bsz - Word /\ rpos < file.size
  BY DEF NextChunk
<1>2. /\ file \in Files /\ rpos \in Nat /\ bsz \in Nat /\ at \in Nat /\ file.size \in Nat
      /\ Begin \in Nat /\ ChunkOK /\ Buffer /\ Noted /\ Doubled
      /\ Len(bl) \in Nat /\ \A n \in 1..Len(bl) : bl[n].coff \in Nat
  BY <1>1, ScanFacts
<1> DEFINE r == Smaller(ChunkSize - Word - 1, file.size - rpos)
<1>3. bsz' = r + Word + 1 /\ rpos' = rpos + r
  BY DEF NextChunk
<1>4. r \in Nat \ {0} /\ (rpos + r < file.size => r = ChunkSize - Word - 1)
  BY <1>1, <1>2, SizeFacts DEF Smaller
<1> HIDE DEF r
<1>5. bsz = ChunkSize /\ at = bsz - Word /\ at # 0
  BY <1>1, <1>2, SizeFacts DEF Buffer, ChunkOK
<1>6. Begin' = Begin + (ChunkSize - Word - 1) /\ Begin' > Begin
  BY <1>2, <1>3, <1>4, <1>5, SizeFacts DEF Begin
<1>7. Reach' = Reach
  BY <1>1, <1>2, <1>3, <1>4, <1>5, SizeFacts DEF Reach, Place
<1>8. Buffer'
  <2>1. PICK n \in 0..Begin : Begin = n * (ChunkSize - Word - 1)
    BY <1>2 DEF Buffer, Chunks
  <2>2. ChunkSize - Word - 1 \in Nat \ {0}
    BY SizeFacts
  <2>3. /\ n + 1 \in 0..(Begin + (ChunkSize - Word - 1))
        /\ Begin + (ChunkSize - Word - 1) = (n + 1) * (ChunkSize - Word - 1)
    BY <1>2, <2>1, <2>2, NextMultiple
  <2>4. Chunks(Begin')
    BY <1>6, <2>3 DEF Chunks
  <2>5. rpos' < file'.size => bsz' = ChunkSize
    BY <1>1, <1>2, <1>3, <1>4, SizeFacts
  <2>6. bsz' > Word + 1
    BY <1>3, <1>4, SizeFacts
  <2>7. Chunks(Begin)'
    BY <2>4 DEF Chunks
  <2> QED
    BY <2>5, <2>6, <2>7 DEF Buffer
<1>9. Noted'
  BY <1>1, <1>2, <1>7 DEF Noted, IsMark, Marks
<1>10. Doubled'
  <2>1. ASSUME Len(bl) > 1, bl[Len(bl) - 1].coff = bl[Len(bl)].coff
        PROVE  bl[Len(bl)].coff < Begin'
    <3>1. Len(bl) \in 1..Len(bl) /\ bl[Len(bl)].coff <= Begin
      BY <1>2, <2>1 DEF Doubled
    <3>2. bl[Len(bl)].coff \in Nat
      BY <1>2, <3>1
    <3> QED
      BY <1>2, <1>6, <3>1, <3>2, SizeFacts
  <2> QED
    BY <1>1, <2>1 DEF Doubled
<1>11. (\A n \in 2..Len(bl) : Ordered(bl, n))'
  BY <1>1 DEF ScanInv, Ordered, Seam
<1> QED
  BY <1>8, <1>9, <1>10, <1>11 DEF ScanInv

LEMMA ScanByteKeepsScan == ASSUME Inv, ScanInv, ScanByte PROVE ScanInv'
<1>1. /\ pc = "scan" /\ file' = file /\ rpos' = rpos /\ bsz' = bsz
      /\ at' = at + 1 /\ at < bsz - Word
  BY DEF ScanByte
<1>2. /\ file \in Files /\ rpos \in Nat /\ bsz \in Nat /\ at \in Nat /\ file.size \in Nat
      /\ Begin \in Nat /\ ChunkOK /\ Frontier /\ Buffer /\ Noted /\ Doubled
      /\ bl \in Seq(Boundary) /\ Len(bl) \in Nat
      /\ \A n \in 1..Len(bl) : bl[n].coff \in Nat
  BY <1>1, ScanFacts
<1>3. \A n \in 2..Len(bl) : Ordered(bl, n)
  BY <1>1 DEF ScanInv
<1> DEFINE p == Place
<1>4. /\ p \in Nat /\ p = Begin + at /\ Begin' = Begin /\ at' # 0
      /\ Reach' = p + 1 /\ (at # 0 => Reach = p) /\ (at = 0 => Reach = p + 1)
  BY <1>1, <1>2 DEF Begin, Reach, Place
<1>5. p = Place
  OBVIOUS
<1> HIDE DEF p
<1>6. Buffer'
  BY <1>1, <1>2, <1>4 DEF Buffer, Chunks
<1>7. CASE NotFound
  <2>1. bl' = bl /\ \A k \in Marks(file) : file.marks[k].pos = p => at = 0
    BY <1>5, <1>7 DEF NotFound
  <2>2. ASSUME NEW k \in Marks(file), file.marks[k].pos < p + 1
        PROVE  file.marks[k].pos < Reach
    <3>1. file.marks[k].pos \in Nat
      BY <1>2, MarkFacts
    <3>2. at # 0 => file.marks[k].pos # p
      BY <2>1
    <3> QED
      BY <1>4, <2>2, <3>1, <3>2
  <2>3. Noted'
    BY <1>1, <1>2, <1>4, <2>1, <2>2 DEF Noted, IsMark, Marks
  <2>4. Doubled'
    BY <1>1, <1>2, <1>4, <2>1 DEF Doubled
  <2>5. (\A n \in 2..Len(bl) : Ordered(bl, n))'
    BY <1>1, <1>3, <2>1 DEF Ordered, Seam
  <2> QED
    BY <1>6, <2>3, <2>4, <2>5 DEF ScanInv
<1>8. CASE \E k \in Marks(file) : Found(k)
  <2>1. PICK m \in Marks(file) : Found(m)
    BY <1>8
  <2> DEFINE b == [magic |-> file.marks[m].magic, level |-> level',
                   coff |-> p, bits |-> file.marks[m].bits]
  <2>2. bl' = Append(bl, b) /\ file.marks[m].pos = p /\ b.coff = p
    BY <1>5, <2>1 DEF Found
  <2>3. IsMark(b, m)
    BY <2>2 DEF IsMark
  <2>4. b \in Boundary
    <3>1. level' \in Levels \cup {NoLevel, Other}
      BY <1>2, ByteIsLevel DEF ScanByte, Inv, TypesOK
    <3> QED
      BY <1>2, <1>4, <3>1, MarkFacts DEF Boundary
  <2> HIDE DEF b
  <2>5. /\ Len(bl') = Len(bl) + 1 /\ bl'[Len(bl) + 1] = b
        /\ \A n \in 1..Len(bl) : bl'[n] = bl[n]
    BY <1>2, <2>2, <2>4, AppendFacts
  <2>6. Noted'
    <3>1. ASSUME NEW k \in Marks(file), file.marks[k].pos < p + 1
          PROVE  \E n \in 1..Len(bl') : IsMark(bl'[n], k)
      <4>1. CASE file.marks[k].pos = p
        <5>1. k = m
          BY <1>2, <2>2, <4>1, MarksInOrder
        <5> QED
          BY <1>2, <2>3, <2>5, <5>1
      <4>2. CASE file.marks[k].pos # p
        <5>0. file.marks[k].pos \in Nat
          BY <1>2, MarkFacts
        <5>1. file.marks[k].pos < Reach
          BY <1>4, <3>1, <4>2, <5>0
        <5>2. PICK n \in 1..Len(bl) : IsMark(bl[n], k)
          BY <1>2, <5>1 DEF Noted
        <5>3. n \in 1..Len(bl') /\ bl'[n] = bl[n]
          BY <1>2, <2>5
        <5> QED
          BY <5>2, <5>3
      <4> QED
        BY <4>1, <4>2
    <3> QED
      BY <1>1, <1>4, <3>1 DEF Noted, IsMark, Marks
  <2>7. ASSUME Len(bl) > 0, ~(bl[Len(bl)].coff < p)
        PROVE  bl[Len(bl)].coff = p /\ at = 0 /\ p = Begin /\ p > 0
    <3>1. bl # <<>>
      BY <2>7
    <3>2. PICK k \in Marks(file) : IsMark(bl[Len(bl)], k) /\ file.marks[k].pos < Reach
      BY <1>2, <3>1 DEF Frontier
    <3>3. file.marks[k].pos = bl[Len(bl)].coff /\ file.marks[k].pos \in Nat
      BY <1>2, <3>2, MarkFacts DEF IsMark
    <3>4. at = 0 /\ bl[Len(bl)].coff = p /\ p = Begin
      BY <1>2, <1>4, <2>7, <3>2, <3>3
    <3>5. 1 \in Marks(file) /\ file.marks[1].pos = MagicSize + 1
      BY <1>2, FileFacts
    <3>6. k = 1 \/ file.marks[1].pos < file.marks[k].pos
      BY <1>2, <3>5, MarkFacts, MarksInOrder
    <3>7. p > 0
      BY <1>2, <3>3, <3>4, <3>5, <3>6, SizeFacts
    <3> QED
      BY <3>4, <3>7
  <2>8. Doubled'
    <3>1. ASSUME Len(bl') > 1, bl'[Len(bl') - 1].coff = bl'[Len(bl')].coff
          PROVE  bl'[Len(bl')].coff = Begin
      <4>1. /\ Len(bl) > 0 /\ Len(bl) \in 1..Len(bl) /\ Len(bl') - 1 = Len(bl)
            /\ bl'[Len(bl')] = b
        BY <1>2, <2>5, <3>1
      <4>2. bl[Len(bl)].coff = p
        BY <2>2, <2>5, <3>1, <4>1
      <4>3. ~(bl[Len(bl)].coff < p)
        BY <1>4, <4>2
      <4> QED
        BY <2>2, <2>7, <4>1, <4>3
    <3> QED
      BY <1>4, <3>1 DEF Doubled
  <2>9. ASSUME NEW n \in 2..Len(bl')
        PROVE  Ordered(bl', n)
    <3>1. CASE n <= Len(bl)
      <4>1. /\ n \in 2..Len(bl) /\ bl'[n] = bl[n] /\ bl'[n - 1] = bl[n - 1]
            /\ n > 2 => bl'[n - 2] = bl[n - 2]
        BY <1>2, <2>5, <3>1
      <4>2. Ordered(bl, n)
        BY <1>3, <4>1
      <4> QED
        BY <4>1, <4>2 DEF Ordered
    <3>2. CASE n = Len(bl) + 1
      <4>1. /\ Len(bl) > 0 /\ n - 1 = Len(bl) /\ n - 1 \in 1..Len(bl)
            /\ bl'[n] = b /\ bl'[n - 1] = bl[Len(bl)]
        BY <1>2, <2>5, <3>2
      <4>2. CASE bl[Len(bl)].coff < p
        BY <2>2, <4>1, <4>2 DEF Ordered
      <4>3. CASE ~(bl[Len(bl)].coff < p)
        <5>1. bl[Len(bl)].coff = p /\ at = 0 /\ p = Begin /\ p > 0
          BY <2>7, <4>1, <4>3
        <5>2. Seam(file, p)
          <6>1. PICK c \in 0..p : p = c * (ChunkSize - Word - 1)
            BY <1>2, <5>1 DEF Buffer, Chunks
          <6>2. c # 0
            BY <5>1, <6>1, SizeFacts
          <6>3. c \in 1..p
            BY <1>4, <6>1, <6>2
          <6>4. bsz > Word + 1 /\ rpos <= file.size
            BY <1>2, <5>1 DEF Buffer, ChunkOK
          <6>5. p + Word + 1 < file.size
            BY <1>2, <5>1, <6>4, SizeFacts DEF Begin
          <6> QED
            BY <6>1, <6>3, <6>5 DEF Seam
        <5>3. n > 2 => bl'[n - 2].coff < bl'[n - 1].coff
          <6> SUFFICES ASSUME n > 2 PROVE bl'[n - 2].coff < bl'[n - 1].coff
            OBVIOUS
          <6>1. /\ Len(bl) \in 2..Len(bl) /\ Len(bl) > 1 /\ n - 2 = Len(bl) - 1
                /\ n - 2 \in 1..Len(bl)
            BY <1>2, <3>2
          <6>2. Ordered(bl, Len(bl))
            BY <1>3, <6>1
          <6>3. ~(bl[Len(bl) - 1].coff = bl[Len(bl)].coff)
            BY <1>2, <5>1, <6>1 DEF Doubled
          <6>4. bl[Len(bl) - 1].coff < bl[Len(bl)].coff
            BY <6>2, <6>3 DEF Ordered
          <6> QED
            BY <2>5, <4>1, <6>1, <6>4
        <5> QED
          BY <2>2, <4>1, <5>1, <5>2, <5>3 DEF Ordered
      <4> QED
        BY <4>2, <4>3
    <3> QED
      BY <1>2, <2>5, <3>1, <3>2
  <2>10. (\A n \in 2..Len(bl) : Ordered(bl, n))'
    BY <1>1, <2>9 DEF Ordered, Seam
  <2> QED
    BY <1>6, <2>6, <2>8, <2>10 DEF ScanInv
<1> QED
  BY <1>7, <1>8 DEF ScanByte

LEMMA ScanInvNoMagicMissed == ASSUME Inv, ScanInv PROVE NoMagicMissed
<1> SUFFICES ASSUME pc = "scan" PROVE NoMagicMissed
  BY DEF NoMagicMissed
<1>1. /\ file \in Files /\ rpos \in Nat /\ bsz \in Nat /\ at \in Nat /\ Noted
      /\ \A n \in 2..Len(bl) : Ordered(bl, n)
  BY ScanFacts DEF ScanInv
<1>2. Place \in Int /\ Reach \in {Place, Place + 1}
  BY <1>1 DEF Reach, Place
<1>3. ASSUME NEW k \in Marks(file), file.marks[k].pos < Place
      PROVE  \E n \in 1..Len(bl) : /\ bl[n].coff = file.marks[k].pos
                                   /\ bl[n].magic = file.marks[k].magic
                                   /\ bl[n].bits = file.marks[k].bits
  <2>1. file.marks[k].pos < Reach
    BY <1>1, <1>2, <1>3, MarkFacts
  <2>2. PICK n \in 1..Len(bl) : IsMark(bl[n], k)
    BY <1>1, <2>1 DEF Noted
  <2> QED
    BY <2>2 DEF IsMark
<1> QED
  BY <1>1, <1>3 DEF NoMagicMissed, Ordered

(* The chunks follow each other, what has been looked at is noted, and in  *)
(* order, whatever the size of the chunks.                                 *)
THEOREM Bzip2ScanInvariant == Spec => []ScanInv
<1>1. Init => ScanInv
  BY ScanInitInv
<1>2. Inv /\ ScanInv /\ [Next]_vars => ScanInv'
  <2> SUFFICES ASSUME Inv, ScanInv, [Next]_vars PROVE ScanInv'
    OBVIOUS
  <2>1. CASE ScanByte
    BY <2>1, ScanByteKeepsScan
  <2>2. CASE NextChunk
    BY <2>2, NextChunkKeepsScan
  <2>3. CASE EndScan
    BY <2>3 DEF EndScan, ScanInv
  <2>4. CASE SkipEOS \/ EmptyRead \/ AddBlock \/ EraseBoundary \/ Finish
    BY <2>4 DEF SkipEOS, EmptyRead, AddBlock, EraseBoundary, SpuriousBoundary, Finish,
                Building, ScanInv
  <2>5. CASE UNCHANGED vars
    BY <2>5 DEF vars, ScanInv, Buffer, Chunks, Begin, Noted, Reach, Place, Doubled,
                Ordered, IsMark, Marks
  <2> QED
    BY <2>1, <2>2, <2>3, <2>4, <2>5 DEF Next
<1> QED
  BY <1>1, <1>2, Bzip2Invariant, PTL DEF Spec

(* NoMagicMissed: whatever the size of the chunks, and wherever boundaries *)
(* lie in them, findBlockBoundaryCandidates (src/Bzip2File.cc) notes each  *)
(* of them, in order, and none more than twice, nor twice but at a seam.   *)
THEOREM Bzip2NoMagicMissed == Spec => []NoMagicMissed
<1>1. Inv /\ ScanInv => NoMagicMissed
  BY ScanInvNoMagicMissed
<1> QED
  BY <1>1, Bzip2Invariant, Bzip2ScanInvariant, PTL

-----------------------------------------------------------------------------
(* Sound files.  The level of a stream is read before the magic number     *)
(* that opens it, so lcount must count down exactly from where the stream  *)
(* before it ended, whatever chunks lie between.                           *)
Undisturbed == Sound(file) /\ ~LevelLost(file) /\ ~BlockAtSeam(file)

Openings == {k \in Marks(file) : file.marks[k].magic = "block" /\ OpensStream(file, k)}

(* Where a stream's header begins to be looked at.                         *)
HeaderOf(k) == IF k = 1 THEN 0 ELSE file.marks[k - 1].pos + 1

HasLevel(k) == lcount = 0 /\ level = file.marks[k].level

(* Within a header lcount tells how far the level is; behind it the level  *)
(* is known, also when its byte is looked at again.                        *)
Counting(k) ==
    /\ Place \in HeaderOf(k)..(file.marks[k].pos - 1) =>
          \/ lcount = file.marks[k].pos - Place
          \/ at = 0 /\ Place = file.marks[k].pos - 1 /\ HasLevel(k)
    /\ Place = file.marks[k].pos => HasLevel(k)

LevelsNoted ==
    \A n \in 1..Len(bl) : \A k \in Openings : IsMark(bl[n], k) => bl[n].level = file.marks[k].level

LevelInv ==
    /\ lcount \in Nat
    /\ pc \in {"scan", "build"} => LevelsNoted
    /\ pc = "scan" => \A k \in Openings : Counting(k)

(* Boundaries stand in order, doubled only at seams; none of the marks     *)
(* after the one to begin at is lost but spurious ones; and the level to   *)
(* decompress with is that of the stream.                                  *)
InOrder ==
    \A n \in 1..(Len(bl) - 1) :
        /\ bl[n].coff <= bl[n + 1].coff
        /\ bl[n].coff = bl[n + 1].coff => Seam(file, bl[n].coff)

Remaining ==
    \A k, l \in Genuine(file) : IsMark(bl[i], k) /\ k < l =>
        \E n \in (i + 1)..Len(bl) : IsMark(bl[n], l)

LevelKnown ==
    \A k \in Marks(file) : IsMark(bl[i], k) =>
        IF bl[i].magic = "block" THEN BlockLevel = file.marks[k].level ELSE level = NoLevel

SoundBuild ==
    /\ pc = "build" => InOrder /\ Remaining /\ LevelKnown
    /\ Ended => Served

SoundInv == Undisturbed => LevelInv /\ SoundBuild

LEMMA OpeningFacts ==
  ASSUME file \in Files, NEW k \in Openings
  PROVE  /\ k \in Marks(file) /\ file.marks[k].pos \in Nat
         /\ HeaderOf(k) \in Nat /\ HeaderOf(k) <= file.marks[k].pos - 1
         /\ \A m \in Marks(file) :
               ~(HeaderOf(k) <= file.marks[m].pos /\ file.marks[m].pos < file.marks[k].pos)
         /\ IF k = 1 THEN file.marks[k].pos = MagicSize + 1
            ELSE /\ k - 1 \in Marks(file) /\ file.marks[k - 1].pos \in Nat
                 /\ file.marks[k - 1].magic = "eos" /\ file.marks[k - 1].kind = "true"
                 /\ file.marks[k].pos = HeaderOf(k) + FooterSize + MagicSize
         /\ file.marks[k].magic = "block" /\ file.marks[k].bits = 0
         /\ Byte(file, file.marks[k].pos - 1) = file.marks[k].level
<1>1. /\ k \in Marks(file) /\ file.marks[k].pos \in Nat /\ k \in Nat \ {0}
      /\ file.marks[k].magic = "block" /\ OpensStream(file, k)
      /\ k <= Len(file.marks) /\ Len(file.marks) \in Nat
  BY MarkFacts, FileFacts DEF Openings
<1>2. file.marks[k].bits = 0
  BY <1>1, FileFacts DEF WellFormed
<1>3. Byte(file, file.marks[k].pos - 1) = file.marks[k].level
  <2> DEFINE p == file.marks[k].pos - 1
             m == CHOOSE q \in Marks(file) : file.marks[q].pos = p + 1
  <2>1. file.marks[k].pos = p + 1
    BY <1>1
  <2>2. m \in Marks(file) /\ file.marks[m].pos = file.marks[k].pos
    BY <1>1, <2>1
  <2>3. m = k
    BY <1>1, <2>2, MarksInOrder
  <2> QED
    BY <1>1, <2>1, <2>3 DEF Byte
<1>4. CASE k = 1
  <2>1. file.marks[k].pos = MagicSize + 1 /\ HeaderOf(k) = 0
    BY <1>4, FileFacts DEF HeaderOf
  <2>2. ASSUME NEW m \in Marks(file) PROVE ~(file.marks[m].pos < file.marks[k].pos)
    <3>1. m \in Nat \ {0} /\ file.marks[m].pos \in Nat
      BY MarkFacts
    <3>2. m = k \/ file.marks[k].pos < file.marks[m].pos
      BY <1>1, <1>4, <3>1, MarksInOrder
    <3> QED
      BY <1>1, <3>1, <3>2
  <2> QED
    BY <1>1, <1>2, <1>3, <1>4, <2>1, <2>2, SizeFacts
<1>5. CASE k # 1
  <2>1. /\ k - 1 \in Marks(file) /\ k - 1 < Len(file.marks) /\ k - 1 + 1 = k
    BY <1>1, <1>5 DEF Marks
  <2>2. file.marks[k - 1].magic = "eos" /\ file.marks[k - 1].kind # "spurious"
    BY <1>1, <1>5 DEF OpensStream
  <2>3. /\ file.marks[k - 1].kind = "true"
        /\ file.marks[k].pos = file.marks[k - 1].pos + FooterSize + MagicSize + 1
    BY <2>1, <2>2, FileFacts DEF WellFormed
  <2>4. file.marks[k - 1].pos \in Nat /\ HeaderOf(k) = file.marks[k - 1].pos + 1
    BY <1>5, <2>1, MarkFacts DEF HeaderOf
  <2>5. ASSUME NEW m \in Marks(file)
        PROVE  ~(HeaderOf(k) <= file.marks[m].pos /\ file.marks[m].pos < file.marks[k].pos)
    <3>1. m \in Nat \ {0} /\ file.marks[m].pos \in Nat
      BY MarkFacts
    <3>2. m = k - 1 \/ m < k - 1 \/ m = k \/ k < m
      BY <1>1, <3>1
    <3>3. m < k - 1 => file.marks[m].pos < file.marks[k - 1].pos
      BY <2>1, MarksInOrder
    <3>4. k < m => file.marks[k].pos < file.marks[m].pos
      BY <1>1, MarksInOrder
    <3> QED
      BY <1>1, <2>4, <3>1, <3>2, <3>3, <3>4
  <2>6. /\ file.marks[k].pos = HeaderOf(k) + FooterSize + MagicSize
        /\ HeaderOf(k) \in Nat /\ HeaderOf(k) <= file.marks[k].pos - 1
    <3>1. HeaderOf(k) \in Nat
      BY <2>4
    <3>2. file.marks[k].pos = HeaderOf(k) + FooterSize + MagicSize
      BY <2>3, <2>4, SizeFacts
    <3>3. HeaderOf(k) <= file.marks[k].pos - 1
      BY <3>1, <3>2, SizeFacts
    <3> QED
      BY <3>1, <3>2, <3>3
  <2> QED
    BY <1>1, <1>2, <1>3, <1>5, <2>1, <2>2, <2>3, <2>4, <2>5, <2>6
<1> QED
  BY <1>4, <1>5

(* A buffer that is not the first begins at a seam.                        *)
LEMMA BeginsAtSeam ==
  ASSUME Inv, ScanInv, pc = "scan", Begin > 0
  PROVE  Seam(file, Begin) /\ Begin >= ChunkSize - Word - 1
<1>1. /\ rpos \in Nat /\ bsz \in Nat /\ file.size \in Nat /\ Begin \in Nat
      /\ Buffer /\ ChunkOK
  BY ScanFacts
<1>2. Begin + Word + 1 < file.size
  BY <1>1, SizeFacts DEF Buffer, ChunkOK, Begin
<1> DEFINE d == ChunkSize - Word - 1
<1>3. d \in Nat
  BY SizeFacts
<1>4. PICK n \in 0..Begin : Begin = n * d
  BY <1>1 DEF Buffer, Chunks
<1>5. n # 0
  <2> SUFFICES ASSUME n = 0 PROVE FALSE
    OBVIOUS
  <2>1. n * d = 0
    BY <1>3
  <2> QED
    BY <1>4, <2>1
<1>6. n \in 1..Begin
  BY <1>1, <1>5
<1>7. Begin >= d
  <2>1. n - 1 \in Nat
    BY <1>1, <1>6
  <2>2. (n - 1) * d \in Nat
    BY <1>3, <2>1
  <2>3. n * d = (n - 1) * d + d
    BY <1>1, <1>3, <1>6
  <2> QED
    BY <1>1, <1>3, <1>4, <2>2, <2>3
<1> QED
  BY <1>2, <1>4, <1>6, <1>7 DEF Seam

LEMMA NextChunkKeepsLevels ==
  ASSUME Inv, ScanInv, Undisturbed, LevelInv, NextChunk, Inv', ScanInv'
  PROVE  LevelInv'
<1>1. /\ pc = "scan" /\ pc' = "scan" /\ file' = file /\ bl' = bl /\ at' = 0
      /\ level' = level /\ lcount' = lcount
  BY DEF NextChunk
<1>2. /\ file \in Files /\ rpos \in Nat /\ bsz \in Nat /\ at \in Nat /\ file.size \in Nat
      /\ Begin \in Nat /\ ChunkOK /\ Buffer
  BY <1>1, ScanFacts
<1>3. at = bsz - Word /\ at # 0 /\ rpos < file.size
  BY <1>2, SizeFacts DEF Buffer, ChunkOK, NextChunk
<1>4. rpos' - bsz' = rpos - Word - 1 /\ rpos' \in Nat /\ bsz' \in Nat
  <2> DEFINE r == Smaller(ChunkSize - Word - 1, file.size - rpos)
  <2>1. bsz' = r + Word + 1 /\ rpos' = rpos + r
    BY DEF NextChunk
  <2>2. r \in Nat
    BY <1>2, <1>3, SizeFacts DEF Smaller
  <2> HIDE DEF r
  <2> QED
    BY <1>2, <2>1, <2>2, SizeFacts
<1>5. Place = rpos - Word /\ Place' = Place - 1 /\ Place' = Begin'
  <2>1. Place = rpos - bsz + (bsz - Word)
    BY <1>3 DEF Place
  <2>2. Place' = rpos' - bsz' + 0 /\ Begin' = rpos' - bsz'
    BY <1>1 DEF Place, Begin
  <2>3. Place = rpos - Word
    BY <1>2, <2>1, SizeFacts
  <2>4. rpos' - bsz' + 0 = rpos' - bsz'
    BY <1>4
  <2> QED
    BY <1>4, <2>2, <2>3, <2>4
<1>6. Begin' > 0
  <2>1. Begin' = rpos - Word - 1
    BY <1>4 DEF Begin
  <2>2. bsz = ChunkSize /\ bsz <= rpos
    BY <1>2, <1>3 DEF Buffer, ChunkOK
  <2> QED
    BY <1>2, <2>1, <2>2, SizeFacts
<1>7. Seam(file, Place') /\ Place' >= ChunkSize - Word - 1 /\ Place' \in Nat
  <2>1. (Inv /\ ScanInv /\ pc = "scan" /\ Begin > 0 =>
            Seam(file, Begin) /\ Begin >= ChunkSize - Word - 1)'
    BY BeginsAtSeam, PTL
  <2>2. Seam(file, Begin)' /\ Begin' >= ChunkSize - Word - 1
    BY <1>1, <1>6, <2>1
  <2>3. Begin' \in Nat
    BY <1>2, <1>3, <1>5, <1>6, SizeFacts
  <2> QED
    BY <1>1, <1>5, <2>2, <2>3 DEF Seam
<1>8. ASSUME NEW k \in Openings PROVE Counting(k)'
  <2> DEFINE g == file.marks[k].pos
  <2>1. /\ g \in Nat /\ HeaderOf(k) \in Nat /\ HeaderOf(k) <= g - 1 /\ k \in Marks(file)
        /\ file.marks[k].magic = "block" /\ file.marks[k].bits = 0
        /\ IF k = 1 THEN g = MagicSize + 1
           ELSE /\ k - 1 \in Marks(file) /\ file.marks[k - 1].pos \in Nat
                /\ file.marks[k - 1].magic = "eos" /\ file.marks[k - 1].kind = "true"
                /\ g = HeaderOf(k) + FooterSize + MagicSize
    BY <1>2, OpeningFacts
  <2>2. Counting(k)
    BY <1>1 DEF LevelInv
  <2>3. Place' # g
    <3>1. ~Seam(file, g)
      BY <2>1 DEF Undisturbed, BlockAtSeam
    <3> QED
      BY <1>7, <3>1
  <2>4. ASSUME Place' \in HeaderOf(k)..(g - 1) PROVE Place' = g - 1
    <3>1. CASE k = 1
      BY <1>7, <2>1, <2>4, <3>1, SizeFacts
    <3>2. CASE k # 1
      <4> SUFFICES ASSUME Place' # g - 1 PROVE FALSE
        OBVIOUS
      <4> DEFINE e == file.marks[k - 1].pos
                 q == Place' - e
      <4>1. HeaderOf(k) = e + 1 /\ e \in Nat
        BY <2>1, <3>2 DEF HeaderOf
      <4>2. q \in 1..(FooterSize + MagicSize - 1) /\ e + q = Place'
        BY <1>7, <2>1, <2>4, <3>2, <4>1, SizeFacts
      <4>3. k - 1 < Len(file.marks)
        BY <1>2, <2>1, MarkFacts
      <4>4. Seam(file, e + q)
        BY <1>7, <4>2
      <4> HIDE DEF q
      <4>5. LevelLost(file)
        BY <2>1, <3>2, <4>2, <4>3, <4>4 DEF LevelLost
      <4> QED
        BY <4>5 DEF Undisturbed
    <3> QED
      BY <3>1, <3>2
  <2>5. ASSUME Place' \in HeaderOf(k)..(g - 1) PROVE HasLevel(k)
    <3>1. Place = g
      BY <1>5, <1>7, <2>1, <2>4, <2>5
    <3> QED
      BY <2>2, <3>1 DEF Counting
  <2> QED
    BY <1>1, <2>3, <2>4, <2>5 DEF Counting, HasLevel, HeaderOf
<1>9. Openings' = Openings
  BY <1>1 DEF Openings, Marks, OpensStream
<1>10. LevelsNoted'
  BY <1>1, <1>9 DEF LevelInv, LevelsNoted, IsMark, Marks
<1> QED
  BY <1>1, <1>8, <1>9, <1>10 DEF LevelInv

(* No magic number is found within a header, and the one that ends the     *)
(* stream before it is found whenever it is looked at.                     *)
LEMMA ScanByteKeepsCounting ==
  ASSUME Inv, ScanInv, Undisturbed, LevelInv, ScanByte, NEW k \in Openings
  PROVE  Counting(k)'
<1>1. /\ pc = "scan" /\ file' = file /\ at' = at + 1 /\ Place' = Place + 1
      /\ file \in Files /\ at \in Nat /\ Begin \in Nat /\ Place = Begin + at
      /\ lcount \in Nat
  <2>1. pc = "scan" /\ file' = file /\ at' = at + 1 /\ rpos' = rpos /\ bsz' = bsz
    BY DEF ScanByte
  <2>2. /\ file \in Files /\ rpos \in Nat /\ bsz \in Nat /\ at \in Nat /\ Begin \in Nat
    BY <2>1, ScanFacts
  <2> QED
    BY <2>1, <2>2 DEF Place, Begin, LevelInv
<1> DEFINE p == Place
           g == file.marks[k].pos
<1>2. /\ g \in Nat /\ HeaderOf(k) \in Nat /\ HeaderOf(k) <= g - 1 /\ k \in Marks(file)
      /\ \A m \in Marks(file) : ~(HeaderOf(k) <= file.marks[m].pos /\ file.marks[m].pos < g)
      /\ IF k = 1 THEN g = MagicSize + 1
         ELSE /\ k - 1 \in Marks(file) /\ file.marks[k - 1].pos \in Nat
              /\ file.marks[k - 1].magic = "eos" /\ file.marks[k - 1].kind = "true"
              /\ g = HeaderOf(k) + FooterSize + MagicSize
      /\ Byte(file, g - 1) = file.marks[k].level
  BY <1>1, OpeningFacts
<1>3. Counting(k)
  BY <1>1 DEF LevelInv
<1>4. p \in Nat /\ Place' = p + 1
  BY <1>1
<1>5. CASE p \in HeaderOf(k)..(g - 1)
  <2>1. \A m \in Marks(file) : file.marks[m].pos # p
    BY <1>2, <1>4, <1>5
  <2>2. lcount' = CountDown /\ level' = IF lcount = 1 THEN Byte(file, p) ELSE level
    BY <2>1 DEF ScanByte, Found
  <2>3. CASE lcount = g - p /\ p # g - 1
    <3>1. lcount # 1 /\ lcount # 0 /\ lcount - 1 = g - (p + 1)
      BY <1>1, <1>2, <1>4, <1>5, <2>3
    <3>2. lcount' = g - (p + 1)
      BY <2>2, <3>1 DEF CountDown
    <3>3. p + 1 # g
      BY <1>2, <1>4, <2>3
    <3>4. lcount' = g - Place' /\ Place' # g
      BY <1>4, <3>2, <3>3
    <3> QED
      BY <1>1, <3>4 DEF Counting
  <2>4. CASE p = g - 1
    <3>1. lcount' = 0 /\ level' = file.marks[k].level
      <4>1. lcount = 1 \/ HasLevel(k)
        BY <1>2, <1>3, <1>4, <1>5, <2>4 DEF Counting
      <4>2. CASE lcount = 1
        BY <1>2, <2>2, <2>4, <4>2 DEF CountDown
      <4>3. CASE HasLevel(k)
        BY <2>2, <4>3 DEF CountDown, HasLevel
      <4> QED
        BY <4>1, <4>2, <4>3
    <3>2. Place' = g
      BY <1>2, <1>4, <2>4
    <3>3. HasLevel(k)'
      BY <1>1, <3>1 DEF HasLevel
    <3>4. ~(Place' \in HeaderOf(k)..(g - 1))
      BY <1>2, <3>2
    <3>5. HeaderOf(k)' = HeaderOf(k)
      BY <1>1 DEF HeaderOf
    <3> QED
      BY <1>1, <3>2, <3>3, <3>4, <3>5 DEF Counting
  <2>5. lcount = g - p \/ p = g - 1
    BY <1>3, <1>5 DEF Counting
  <2> QED
    BY <2>3, <2>4, <2>5
<1>6. CASE p + 1 = HeaderOf(k)
  <2>1. k # 1
    BY <1>4, <1>6 DEF HeaderOf
  <2> DEFINE e == k - 1
  <2>2. /\ e \in Marks(file) /\ file.marks[e].pos \in Nat
        /\ file.marks[e].magic = "eos" /\ file.marks[e].kind = "true"
        /\ g = HeaderOf(k) + FooterSize + MagicSize
    BY <1>2, <2>1
  <2>3. HeaderOf(k) = file.marks[e].pos + 1 /\ k = e + 1 /\ k \in Nat
    BY <1>1, <2>1, MarkFacts DEF HeaderOf, Openings
  <2> HIDE DEF e
  <2>4. file.marks[e].pos = p
    BY <1>4, <1>6, <2>2, <2>3
  <2>5. ~NotFound
    <3> SUFFICES ASSUME NotFound PROVE FALSE
      OBVIOUS
    <3>1. at = 0 /\ file.marks[e].bits > 0
      BY <2>2, <2>4 DEF NotFound
    <3>2. p = Begin /\ p > 0
      <4>1. p = Begin
        BY <1>1, <3>1
      <4>2. MagicSize + 1 <= file.marks[e].pos
        <5>1. 1 \in Marks(file) /\ file.marks[1].pos = MagicSize + 1 /\ e \in Nat \ {0}
          BY <1>1, <2>2, FileFacts, MarkFacts
        <5>2. e = 1 \/ 1 < e
          BY <5>1
        <5> QED
          BY <1>1, <2>2, <5>1, <5>2, MarksInOrder, SizeFacts
      <4> QED
        BY <1>4, <2>4, <4>1, <4>2, SizeFacts
    <3>3. Seam(file, file.marks[e].pos)
      BY <1>1, <2>4, <3>2, BeginsAtSeam
    <3>4. e < Len(file.marks)
      BY <1>1, <1>2, <2>2, <2>3, MarkFacts
    <3>5. LevelLost(file)
      BY <2>2, <3>1, <3>3, <3>4 DEF LevelLost
    <3> QED
      BY <3>5 DEF Undisturbed
  <2>6. lcount' = FooterSize + MagicSize
    <3>1. PICK m \in Marks(file) :
            /\ file.marks[m].pos = p
            /\ lcount' = IF file.marks[m].magic = "eos" THEN FooterSize + MagicSize ELSE CountDown
      BY <2>5 DEF ScanByte, Found
    <3>2. m = e
      BY <1>1, <2>2, <2>4, <3>1, MarksInOrder
    <3> QED
      BY <2>2, <3>1, <3>2
  <2>7. lcount' = g - Place' /\ Place' # g
    BY <1>2, <1>4, <1>6, <2>2, <2>6, SizeFacts
  <2> QED
    BY <1>1, <2>7 DEF Counting
<1>7. CASE p \notin HeaderOf(k)..(g - 1) /\ p + 1 # HeaderOf(k)
  <2>1. Place' \notin HeaderOf(k)..(g - 1) /\ Place' # g
    BY <1>2, <1>4, <1>7
  <2>2. HeaderOf(k)' = HeaderOf(k)
    BY <1>1 DEF HeaderOf
  <2> QED
    BY <1>1, <2>1, <2>2 DEF Counting
<1> QED
  BY <1>5, <1>6, <1>7

LEMMA ScanByteKeepsLevels ==
  ASSUME Inv, ScanInv, Undisturbed, LevelInv, ScanByte
  PROVE  LevelInv'
<1>1. /\ pc = "scan" /\ pc' = "scan" /\ file' = file /\ file \in Files
      /\ bl \in Seq(Boundary)
      /\ level' = IF lcount = 1 THEN Byte(file, Place) ELSE level
  BY DEF ScanByte, Inv, TypesOK
<1>2. Openings' = Openings
  BY <1>1 DEF Openings, Marks, OpensStream
<1>3. lcount' \in Nat
  BY SizeFacts DEF LevelInv, ScanByte, CountDown
<1>4. LevelsNoted /\ \A k \in Openings : Counting(k)
  BY <1>1 DEF LevelInv
<1>5. LevelsNoted'
  <2>1. CASE bl' = bl
    BY <1>1, <1>2, <1>4, <2>1 DEF LevelsNoted, IsMark, Marks
  <2>2. CASE \E m \in Marks(file) : Found(m)
    <3>1. PICK m \in Marks(file) : Found(m)
      BY <2>2
    <3> DEFINE b == [magic |-> file.marks[m].magic, level |-> level',
                     coff |-> Place, bits |-> file.marks[m].bits]
    <3>2. bl' = Append(bl, b) /\ b.coff = Place /\ b.level = level'
      BY <3>1 DEF Found
    <3> HIDE DEF b
    <3>3. /\ Len(bl) \in Nat /\ Len(bl') = Len(bl) + 1 /\ bl'[Len(bl) + 1] = b
          /\ \A n \in 1..Len(bl) : bl'[n] = bl[n]
      BY <1>1, <3>2
    <3>4. ASSUME NEW n \in 1..Len(bl'), NEW k \in Openings, IsMark(bl'[n], k)
          PROVE  bl'[n].level = file.marks[k].level
      <4>1. CASE n \in 1..Len(bl)
        BY <1>4, <3>3, <3>4, <4>1 DEF LevelsNoted
      <4>2. CASE n = Len(bl) + 1
        <5>1. Place = file.marks[k].pos
          BY <3>2, <3>3, <3>4, <4>2 DEF IsMark
        <5>2. lcount = 0 /\ level = file.marks[k].level
          BY <1>4, <5>1 DEF Counting, HasLevel
        <5> QED
          BY <1>1, <3>2, <3>3, <4>2, <5>2
      <4> QED
        BY <3>3, <4>1, <4>2
    <3> QED
      BY <1>1, <1>2, <3>4 DEF LevelsNoted, IsMark, Marks
  <2> QED
    BY <2>1, <2>2 DEF ScanByte, NotFound
<1>6. \A k \in Openings : Counting(k)'
  BY ScanByteKeepsCounting
<1> QED
  BY <1>1, <1>2, <1>3, <1>5, <1>6 DEF LevelInv

-----------------------------------------------------------------------------
(* Decompressing a sound file.                                             *)
LEMMA SoundFacts ==
  ASSUME NEW f \in Files, Sound(f)
  PROVE  /\ \A k \in Genuine(f) : f.marks[k].kind = "true"
         /\ Len(f.marks) \in Genuine(f) /\ f.marks[Len(f.marks)].magic = "eos"
         /\ f.marks[Len(f.marks)].pos + FooterSize <= f.size
<1>1. Len(f.marks) \in Marks(f)
  BY FileFacts DEF Marks
<1>2. \A k \in Genuine(f) : f.marks[k].kind = "true"
  <2>1. TAKE k \in Genuine(f)
  <2>2. k \in Marks(f) /\ f.marks[k] \in Mark /\ f.marks[k].kind # "spurious"
    BY <2>1, MarkFacts DEF Genuine
  <2>3. f.marks[k].kind # "damaged"
    BY <2>2 DEF Sound
  <2> QED
    BY <2>2, <2>3 DEF Mark
<1>3. f.marks[Len(f.marks)].magic = "eos" /\ f.marks[Len(f.marks)].kind = "true"
  BY DEF Sound
<1>4. f.marks[Len(f.marks)].pos + FooterSize <= f.size
  BY <1>1, <1>3, FileFacts DEF WellFormed
<1> QED
  BY <1>1, <1>2, <1>3, <1>4 DEF Genuine

LEMMA AllNoted ==
  ASSUME Inv, ScanInv, Undisturbed, pc = "scan", at >= bsz - Word, rpos = file.size
  PROVE  \A k \in Marks(file) : \E n \in 1..Len(bl) : IsMark(bl[n], k)
<1>1. /\ file \in Files /\ rpos \in Nat /\ bsz \in Nat /\ at \in Nat /\ file.size \in Nat /\ Noted
  BY ScanFacts
<1>2. Place \in Int /\ Place >= file.size - Word /\ Reach >= Place /\ Reach \in Int
  BY <1>1, SizeFacts DEF Place, Reach
<1> DEFINE e == Len(file.marks)
<1>3. e \in Marks(file) /\ file.marks[e].pos + FooterSize <= file.size
  BY <1>1, SoundFacts DEF Undisturbed, Genuine
<1>4. file.marks[e].pos \in Nat /\ file.marks[e].pos < Reach
  BY <1>1, <1>2, <1>3, MarkFacts, SizeFacts
<1>5. ASSUME NEW k \in Marks(file) PROVE file.marks[k].pos < Reach
  <2>1. k \in Nat /\ k <= e /\ file.marks[k].pos \in Nat /\ e \in Nat
    BY <1>1, <1>3, MarkFacts
  <2>2. k = e \/ k < e
    BY <2>1
  <2>3. k < e => file.marks[k].pos < file.marks[e].pos
    BY <1>1, <1>3, MarksInOrder
  <2> HIDE DEF e
  <2> QED
    BY <1>2, <1>4, <2>1, <2>2, <2>3
<1> QED
  BY <1>1, <1>5 DEF Noted

LEMMA EndScanIsSound ==
  ASSUME Inv, ScanInv, Undisturbed, LevelInv, EndScan
  PROVE  LevelInv' /\ SoundBuild'
<1>1. /\ pc = "scan" /\ file' = file /\ bl' = bl /\ i' = i /\ lcount' = lcount
      /\ at >= bsz - Word /\ rpos = file.size
  BY DEF EndScan
<1>2. file \in Files /\ bl \in Seq(Boundary) /\ i = 1 /\ Len(bl) \in Nat
  BY <1>1 DEF Inv, TypesOK, ScanOK
<1>3. \A k \in Marks(file) : \E n \in 1..Len(bl) : IsMark(bl[n], k)
  BY <1>1, AllNoted
<1>4. 1 \in Marks(file) /\ bl # <<>> /\ Len(bl) >= 1
  <2>1. 1 \in Marks(file)
    BY <1>2, FileFacts
  <2>2. PICK n \in 1..Len(bl) : IsMark(bl[n], 1)
    BY <1>3, <2>1
  <2> QED
    BY <1>2, <2>1, <2>2
<1>5. pc' = "build" /\ level' = bl[1].level /\ IsMark(bl[1], 1)
  BY <1>1, <1>4 DEF EndScan, Inv, ScanOK
<1>6. InOrder'
  <2>1. ASSUME NEW n \in 1..(Len(bl) - 1)
        PROVE  /\ bl[n].coff <= bl[n + 1].coff
               /\ bl[n].coff = bl[n + 1].coff => Seam(file, bl[n].coff)
    <3>1. n + 1 \in 2..Len(bl) /\ n + 1 - 1 = n /\ n \in 1..Len(bl) /\ n + 1 \in 1..Len(bl)
      BY <1>2
    <3>2. Ordered(bl, n + 1)
      BY <1>1, <3>1 DEF ScanInv
    <3>3. bl[n].coff \in Nat /\ bl[n + 1].coff \in Nat
      BY <1>1, <3>1, ScanFacts
    <3>4. bl[n].coff < bl[n + 1].coff \/ (bl[n].coff = bl[n + 1].coff /\ Seam(file, bl[n + 1].coff))
      BY <3>1, <3>2 DEF Ordered
    <3> QED
      BY <3>3, <3>4
  <2> QED
    BY <1>1, <2>1 DEF InOrder, Seam
<1>7. Remaining'
  <2>1. ASSUME NEW k \in Genuine(file), NEW l \in Genuine(file), IsMark(bl[1], k), k < l
        PROVE  \E n \in 2..Len(bl) : IsMark(bl[n], l)
    <3>1. k = 1 /\ l \in Marks(file) /\ l # 1
      BY <1>2, <1>5, <2>1, MarkIsOne DEF Genuine
    <3>2. PICK n \in 1..Len(bl) : IsMark(bl[n], l)
      BY <1>3, <3>1
    <3>3. n # 1
      BY <1>2, <1>5, <3>1, <3>2, MarkIsOne
    <3>4. n \in 2..Len(bl)
      BY <1>2, <3>3
    <3> QED
      BY <3>2, <3>4
  <2> QED
    BY <1>1, <1>2, <2>1 DEF Remaining, IsMark, Marks, Genuine
<1>8. file.marks[1].magic = "block" /\ bl[1].level = file.marks[1].level
  <2>1. file.marks[1].magic = "block"
    BY <1>2, FileFacts DEF WellFormed
  <2>2. 1 \in Openings
    BY <1>4, <2>1 DEF Openings, OpensStream
  <2>3. 1 \in 1..Len(bl)
    BY <1>2, <1>4
  <2> QED
    BY <1>1, <1>5, <2>1, <2>2, <2>3 DEF LevelInv, LevelsNoted
<1>9. LevelKnown'
  <2>1. ASSUME NEW k \in Marks(file), IsMark(bl[1], k)
        PROVE  bl[1].magic = "block" /\ bl[1].level = file.marks[k].level
    <3>1. k = 1
      BY <1>2, <1>5, <2>1, MarkIsOne
    <3> QED
      BY <1>8, <2>1, <3>1 DEF IsMark
  <2> QED
    BY <1>1, <1>2, <1>5, <2>1 DEF LevelKnown, BlockLevel, IsMark, Marks
<1>10. LevelInv'
  BY <1>1, <1>5 DEF LevelInv, LevelsNoted, IsMark, Marks, Openings, OpensStream
<1> QED
  BY <1>5, <1>6, <1>7, <1>9, <1>10 DEF SoundBuild, Ended

LEMMA LeastNumber ==
  ASSUME NEW S \in SUBSET Nat, S # {}
  PROVE  \E n \in S : \A m \in S : n <= m
<1> DEFINE R == OpToRel(<, Nat)
<1>1. \A x, y \in Nat : <<x, y>> \in R <=> x < y
  BY DEF OpToRel
<1>2. IsWellFoundedOn(R, Nat)
  BY NatLessThanWellFounded
<1> HIDE DEF R
<1>3. PICK x \in S : \A y \in S : ~(<<y, x>> \in R)
  BY <1>2, WFMin
<1>4. \A y \in S : ~(y < x)
  BY <1>1, <1>3
<1> QED
  BY <1>4

(* The block to decompress is sound, so only a boundary that is not the    *)
(* next genuine one can be why that fails.                                 *)
LEMMA NextIsKnown ==
  ASSUME Inv, Undisturbed, SoundBuild, Building, bl[i].magic = "block"
  PROVE  \E k, l \in Genuine(file) :
            /\ IsMark(bl[i], k) /\ file.marks[k].uoff = UncompressedSize
            /\ Follows(file, k, l) /\ BlockLevel = file.marks[k].level
            /\ file.marks[k].magic = "block" /\ file.marks[k].kind = "true"
            /\ \E n \in (i + 1)..Len(bl) : IsMark(bl[n], l)
<1>1. pc = "build" /\ file \in Files
  BY DEF Building, Inv, TypesOK
<1>2. PICK k \in Genuine(file) : IsMark(bl[i], k) /\ file.marks[k].uoff = UncompressedSize
  BY <1>1 DEF Inv, BuildOK
<1>3. k \in Marks(file) /\ file.marks[k].magic = "block" /\ file.marks[k].kind = "true"
  BY <1>1, <1>2, SoundFacts DEF IsMark, Undisturbed
<1> DEFINE e == Len(file.marks)
           later == {l \in Genuine(file) : k < l}
<1>4. e \in later
  <2>1. e \in Genuine(file) /\ file.marks[e].magic = "eos"
    BY <1>1, SoundFacts DEF Undisturbed
  <2>2. k \in Nat /\ k <= e /\ e \in Nat /\ k # e
    BY <1>1, <1>3, <2>1, MarkFacts, FileFacts
  <2>3. k < e
    BY <2>2
  <2> QED
    BY <2>1, <2>3
<1>5. later \subseteq Nat
  BY <1>1, MarkFacts DEF Genuine
<1>6. PICK l \in later : \A m \in later : l <= m
  BY <1>4, <1>5, LeastNumber
<1>7. Follows(file, k, l)
  <2>1. ASSUME NEW m \in Genuine(file), k < m PROVE ~(m < l)
    <3>1. m \in later /\ l <= m
      BY <1>6, <2>1
    <3>2. m \in Nat /\ l \in Nat
      BY <1>5, <3>1
    <3> HIDE DEF later
    <3> QED
      BY <3>1, <3>2
  <2> QED
    BY <1>2, <1>6, <2>1 DEF Follows
<1>8. BlockLevel = file.marks[k].level
  BY <1>1, <1>2, <1>3 DEF SoundBuild, LevelKnown
<1>9. \E n \in (i + 1)..Len(bl) : IsMark(bl[n], l)
  BY <1>1, <1>2, <1>6 DEF SoundBuild, Remaining
<1> QED
  BY <1>2, <1>3, <1>6, <1>7, <1>8, <1>9

LEMMA SkipEOSIsSound ==
  ASSUME Inv, Undisturbed, LevelInv, SoundBuild, SkipEOS
  PROVE  LevelInv' /\ SoundBuild'
<1>1. /\ Building /\ bl[i].magic = "eos" /\ i' = i + 1 /\ pc = "build" /\ pc' = "build"
      /\ file' = file /\ bl' = bl /\ level' = level /\ lcount' = lcount
  BY DEF SkipEOS, scanVars, Building
<1>2. file \in Files /\ i \in Nat \ {0} /\ Len(bl) \in Nat /\ i < Len(bl)
  BY <1>1, BuildFacts
<1>3. Steps(bl[i], bl[i + 1]) /\ InOrder /\ Remaining /\ LevelKnown /\ LevelsNoted
  BY <1>1, <1>2 DEF Inv, BuildOK, SoundBuild, LevelInv
<1>4. PICK k \in Genuine(file) : IsMark(bl[i], k)
  BY <1>1 DEF Inv, BuildOK
<1>5. i + 1 \in 1..Len(bl)
  BY <1>2
<1>6. PICK l \in Marks(file) : IsMark(bl[i + 1], l)
  BY <1>5 DEF Inv, TypesOK
<1>7. /\ k \in Marks(file) /\ file.marks[k].magic = "eos" /\ file.marks[k].kind # "spurious"
      /\ k \in Nat \ {0} /\ l \in Nat \ {0}
  BY <1>1, <1>2, <1>4, <1>6, MarkFacts DEF IsMark, Genuine
<1>8. l = k \/ l = k + 1
  BY <1>3, <1>4, <1>6, <1>7 DEF Steps
<1>9. Remaining'
  <2>1. ASSUME NEW q \in Genuine(file), NEW m \in Genuine(file), IsMark(bl[i + 1], q), q < m
        PROVE  \E n \in (i + 2)..Len(bl) : IsMark(bl[n], m)
    <3>1. q = l
      BY <1>2, <1>6, <2>1, MarkIsOne
    <3>2. m \in Nat /\ k < m
      BY <1>2, <1>7, <1>8, <2>1, <3>1, MarkFacts DEF Genuine
    <3>3. PICK n \in (i + 1)..Len(bl) : IsMark(bl[n], m)
      BY <1>3, <1>4, <3>2 DEF Remaining
    <3>4. n # i + 1
      <4> SUFFICES ASSUME n = i + 1 PROVE FALSE
        OBVIOUS
      <4>1. m = l
        BY <1>2, <1>6, <3>3, MarkIsOne
      <4> QED
        BY <1>7, <2>1, <3>1, <4>1
    <3>5. n \in (i + 2)..Len(bl)
      BY <1>2, <3>3, <3>4
    <3> QED
      BY <3>3, <3>5
  <2>2. i + 1 + 1 = i + 2
    BY <1>2
  <2> QED
    BY <1>1, <2>1, <2>2 DEF Remaining, IsMark, Marks, Genuine
<1>10. LevelKnown'
  <2>1. level = NoLevel
    BY <1>1, <1>3, <1>4, <1>7 DEF LevelKnown
  <2>2. ASSUME bl[i + 1].magic = "block" PROVE bl[i + 1].level = file.marks[l].level
    <3>1. file.marks[l].magic = "block"
      BY <1>6, <2>2 DEF IsMark
    <3>2. l = k + 1 /\ l - 1 = k
      BY <1>7, <1>8, <3>1
    <3>3. OpensStream(file, l)
      BY <1>7, <3>2 DEF OpensStream
    <3> QED
      BY <1>3, <1>5, <1>6, <3>1, <3>3 DEF LevelsNoted, Openings
  <2>3. ASSUME NEW q \in Marks(file), IsMark(bl[i + 1], q)
        PROVE  bl[i + 1].magic = "block" => bl[i + 1].level = file.marks[q].level
    BY <1>2, <1>6, <2>2, <2>3, MarkIsOne
  <2> QED
    BY <1>1, <2>1, <2>3 DEF LevelKnown, BlockLevel, IsMark, Marks
<1>11. InOrder' /\ LevelInv'
  BY <1>1, <1>3 DEF InOrder, Seam, LevelInv, LevelsNoted, IsMark, Marks, Openings, OpensStream
<1> QED
  BY <1>1, <1>9, <1>10, <1>11 DEF SoundBuild, Ended

(* No block begins where another does: only one at a seam is noted twice.  *)
LEMMA NothingIsEmpty ==
  ASSUME Inv, Undisturbed, SoundBuild, Building, bl[i].magic = "block"
  PROVE  ~ReadsNothing
<1> SUFFICES ASSUME ReadsNothing PROVE FALSE
  OBVIOUS
<1>1. i \in Nat \ {0} /\ Len(bl) \in Nat /\ i < Len(bl) /\ InOrder
  BY BuildFacts DEF SoundBuild, Building
<1>2. PICK k \in Genuine(file) : IsMark(bl[i], k) /\ file.marks[k].magic = "block"
  BY NextIsKnown
<1>3. i \in 1..(Len(bl) - 1)
  BY <1>1
<1>4. Seam(file, bl[i].coff)
  BY <1>1, <1>3 DEF InOrder, ReadsNothing
<1>5. BlockAtSeam(file)
  BY <1>2, <1>4 DEF IsMark, Genuine, BlockAtSeam, ReadsNothing
<1> QED
  BY <1>5 DEF Undisturbed

LEMMA AddBlockIsSound ==
  ASSUME Inv, Undisturbed, LevelInv, SoundBuild, AddBlock
  PROVE  LevelInv' /\ SoundBuild'
<1>1. /\ Building /\ bl[i].magic = "block" /\ i' = i + 1 /\ pc = "build" /\ pc' = "build"
      /\ file' = file /\ bl' = bl /\ lcount' = lcount
      /\ level' = IF bl[i + 1].magic = "eos" THEN NoLevel ELSE BlockLevel
      /\ Decompresses(bl[i], bl[i + 1], BlockLevel)
  BY DEF AddBlock, scanVars, Building
<1>2. /\ file \in Files /\ i \in Nat \ {0} /\ Len(bl) \in Nat /\ i < Len(bl)
      /\ bl[i + 1] \in Boundary /\ InOrder /\ Remaining /\ LevelsNoted
  BY <1>1, BuildFacts DEF SoundBuild, LevelInv
<1>3. PICK k \in Marks(file), l \in Marks(file) :
        /\ Follows(file, k, l)
        /\ file.marks[k].pos = bl[i].coff /\ file.marks[l].pos = bl[i + 1].coff
        /\ file.marks[k].magic = "block" /\ file.marks[k].level = BlockLevel
  BY <1>1 DEF Decompresses
<1>4. IsMark(bl[i], k)
  <2>1. PICK q \in Genuine(file) : IsMark(bl[i], q)
    BY <1>1 DEF Inv, BuildOK
  <2>2. q = k
    BY <1>2, <1>3, <2>1, MarksInOrder DEF IsMark
  <2> QED
    BY <2>1, <2>2
<1>5. IsMark(bl[i + 1], l)
  <2>1. i + 1 \in 1..Len(bl)
    BY <1>2
  <2>2. PICK q \in Marks(file) : IsMark(bl[i + 1], q)
    BY <2>1 DEF Inv, TypesOK
  <2>3. q = l
    BY <1>2, <1>3, <2>2, MarksInOrder DEF IsMark
  <2> QED
    BY <2>2, <2>3
<1>6. Remaining'
  <2>1. ASSUME NEW q \in Genuine(file), NEW m \in Genuine(file), IsMark(bl[i + 1], q), q < m
        PROVE  \E n \in (i + 2)..Len(bl) : IsMark(bl[n], m)
    <3>1. q = l
      BY <1>2, <1>5, <2>1, MarkIsOne
    <3>2. m \in Nat /\ l \in Nat /\ k \in Nat /\ k < l /\ k \in Genuine(file)
      BY <1>2, <1>3, <2>1, MarkFacts DEF Genuine, Follows
    <3>3. k < m
      BY <2>1, <3>1, <3>2
    <3>4. PICK n \in (i + 1)..Len(bl) : IsMark(bl[n], m)
      BY <1>2, <1>4, <3>2, <3>3 DEF Remaining
    <3>5. n # i + 1
      <4> SUFFICES ASSUME n = i + 1 PROVE FALSE
        OBVIOUS
      <4>1. m = l
        BY <1>2, <1>5, <3>4, MarkIsOne
      <4> QED
        BY <2>1, <3>1, <3>2, <4>1
    <3>6. n \in (i + 2)..Len(bl)
      BY <1>2, <3>4, <3>5
    <3> QED
      BY <3>4, <3>6
  <2>2. i + 1 + 1 = i + 2
    BY <1>2
  <2> QED
    BY <1>1, <2>1, <2>2 DEF Remaining, IsMark, Marks, Genuine
<1>7. LevelKnown'
  <2>1. file.marks[l].level = file.marks[k].level /\ file.marks[k].level \in Levels
    BY <1>2, <1>3, FileFacts, MarkFacts DEF WellFormed
  <2>2. ASSUME NEW q \in Marks(file), IsMark(bl[i + 1], q), bl[i + 1].magic = "block"
        PROVE  level' = file.marks[q].level /\ level' # NoLevel
    <3>1. q = l
      BY <1>2, <1>5, <2>2, MarkIsOne
    <3> QED
      BY <1>1, <1>3, <2>1, <2>2, <3>1 DEF Levels, NoLevel
  <2>3. bl[i + 1].magic # "block" => level' = NoLevel
    BY <1>1, <1>2 DEF Boundary
  <2> QED
    BY <1>1, <2>2, <2>3 DEF LevelKnown, BlockLevel, IsMark, Marks
<1>8. InOrder' /\ LevelInv'
  BY <1>1, <1>2 DEF InOrder, Seam, LevelInv, LevelsNoted, IsMark, Marks, Openings, OpensStream
<1> QED
  BY <1>1, <1>6, <1>7, <1>8 DEF SoundBuild, Ended

LEMMA CoffFacts ==
  ASSUME Inv
  PROVE  Len(bl) \in Nat /\ \A n \in 1..Len(bl) : bl[n].coff \in Nat
<1>1. bl \in Seq(Boundary)
  BY DEF Inv, TypesOK
<1>2. \A n \in 1..Len(bl) : bl[n] \in Boundary
  BY <1>1
<1>3. \A b \in Boundary : b.coff \in Nat
  BY DEF Boundary
<1>4. Len(bl) \in Nat
  BY <1>1
<1> QED
  BY <1>2, <1>3, <1>4

(* Boundaries that stand farther apart are in order as well.               *)
LEMMA OrderFacts ==
  ASSUME Inv, InOrder, NEW a \in 1..Len(bl), NEW b \in 1..Len(bl), a <= b
  PROVE  bl[a].coff <= bl[b].coff
<1>1. /\ Len(bl) \in Nat /\ a \in Nat /\ b \in Nat
      /\ \A n \in 1..Len(bl) : bl[n].coff \in Nat
  BY CoffFacts
<1> DEFINE below == {n \in a..b : bl[n].coff < bl[a].coff}
<1> SUFFICES ASSUME b \in below PROVE FALSE
  <2>1. b \in a..b
    BY <1>1
  <2> QED
    BY <1>1, <2>1
<1>2. below \in SUBSET Nat
  BY <1>1
<1>3. PICK n \in below : \A m \in below : n <= m
  BY <1>2, LeastNumber
<1>4. n \in a..b /\ bl[n].coff < bl[a].coff
  BY <1>3
<1>5. n # a
  BY <1>1, <1>4
<1>6. /\ n - 1 \in a..b /\ n - 1 \in 1..(Len(bl) - 1) /\ n - 1 + 1 = n /\ ~(n <= n - 1)
      /\ n - 1 \in 1..Len(bl) /\ n \in 1..Len(bl)
  BY <1>1, <1>4, <1>5
<1>7. ~(n - 1 \in below)
  BY <1>3, <1>6
<1>8. ~(bl[n - 1].coff < bl[a].coff)
  BY <1>6, <1>7
<1>9. bl[n - 1].coff <= bl[n].coff
  BY <1>6 DEF InOrder
<1> HIDE DEF below
<1> QED
  BY <1>1, <1>4, <1>6, <1>8, <1>9

(* What is given up is a boundary before the next genuine one.             *)
LEMMA OnlySpuriousErased ==
  ASSUME Inv, Undisturbed, SoundBuild, EraseBoundary,
         NEW k \in Genuine(file), IsMark(bl[i], k),
         NEW m \in Genuine(file), k < m
  PROVE  ~IsMark(bl[i + 1], m)
<1> SUFFICES ASSUME IsMark(bl[i + 1], m) PROVE FALSE
  OBVIOUS
<1>1. /\ Building /\ bl[i].magic = "block" /\ pc = "build"
      /\ ~Decompresses(bl[i], bl[i + 1], BlockLevel)
  BY DEF EraseBoundary, SpuriousBoundary, Building
<1>2. /\ file \in Files /\ i \in Nat \ {0} /\ Len(bl) \in Nat /\ i < Len(bl) /\ InOrder
  BY <1>1, BuildFacts DEF SoundBuild
<1>3. PICK q \in Genuine(file), l \in Genuine(file) :
        /\ IsMark(bl[i], q)
        /\ Follows(file, q, l) /\ BlockLevel = file.marks[q].level
        /\ file.marks[q].magic = "block" /\ file.marks[q].kind = "true"
        /\ \E n \in (i + 1)..Len(bl) : IsMark(bl[n], l)
  BY <1>1, NextIsKnown
<1>4. q = k /\ k \in Marks(file) /\ l \in Marks(file) /\ m \in Marks(file)
  BY <1>2, <1>3, MarkIsOne DEF Genuine
<1>5. l # m
  BY <1>1, <1>3, <1>4 DEF Decompresses, IsMark
<1>6. l < m
  <2>1. ~(m < l)
    BY <1>3, <1>4 DEF Follows
  <2>2. l \in Nat /\ m \in Nat
    BY <1>2, <1>4, MarkFacts
  <2> QED
    BY <1>5, <2>1, <2>2
<1>7. file.marks[l].pos < file.marks[m].pos
  BY <1>2, <1>4, <1>6, MarksInOrder
<1>8. PICK n \in (i + 1)..Len(bl) : IsMark(bl[n], l)
  BY <1>3
<1>9. i + 1 \in 1..Len(bl) /\ n \in 1..Len(bl) /\ i + 1 <= n
  BY <1>2, <1>8
<1>10. bl[i + 1].coff <= bl[n].coff
  BY <1>2, <1>9, OrderFacts
<1>11. file.marks[l].pos \in Nat /\ file.marks[m].pos \in Nat
  BY <1>2, <1>4, MarkFacts
<1> QED
  BY <1>7, <1>8, <1>10, <1>11 DEF IsMark

LEMMA EraseIsSound ==
  ASSUME Inv, Undisturbed, LevelInv, SoundBuild, EraseBoundary
  PROVE  LevelInv' /\ SoundBuild'
<1>1. /\ Building /\ bl[i].magic = "block" /\ i' = i /\ pc = "build" /\ pc' = "build"
      /\ file' = file /\ lcount' = lcount /\ level' = BlockLevel
  BY DEF EraseBoundary, SpuriousBoundary, scanVars, Building
<1>2. /\ file \in Files /\ i \in Nat \ {0} /\ Len(bl) \in Nat /\ i < Len(bl)
      /\ InOrder /\ Remaining /\ LevelsNoted
      /\ \A n \in 1..Len(bl) : bl[n].coff \in Nat
  BY <1>1, BuildFacts, CoffFacts DEF SoundBuild, LevelInv
<1>3. /\ Len(bl') = Len(bl) - 1
      /\ \A n \in 1..(Len(bl) - 1) : bl'[n] = IF n <= i THEN bl[n] ELSE bl[n + 1]
  BY EraseFacts
<1>4. PICK k \in Genuine(file) :
        /\ IsMark(bl[i], k) /\ BlockLevel = file.marks[k].level
        /\ file.marks[k].magic = "block"
  BY <1>1, NextIsKnown
<1>5. bl'[i] = bl[i]
  BY <1>2, <1>3
<1>6. Remaining'
  <2>1. ASSUME NEW q \in Genuine(file), NEW m \in Genuine(file), IsMark(bl[i], q), q < m
        PROVE  \E n \in (i + 1)..(Len(bl) - 1) : IsMark(bl'[n], m)
    <3>1. PICK n \in (i + 1)..Len(bl) : IsMark(bl[n], m)
      BY <1>2, <2>1 DEF Remaining
    <3>2. n # i + 1
      BY <2>1, <3>1, OnlySpuriousErased
    <3>3. n - 1 \in (i + 1)..(Len(bl) - 1) /\ n - 1 + 1 = n
      BY <1>2, <3>1, <3>2
    <3>4. n - 1 \in 1..(Len(bl) - 1) /\ ~(n - 1 <= i)
      BY <1>2, <3>3
    <3>5. bl'[n - 1] = bl[n]
      BY <1>3, <3>3, <3>4
    <3> QED
      BY <3>1, <3>3, <3>5
  <2> QED
    BY <1>1, <1>3, <1>5, <2>1 DEF Remaining, IsMark, Marks, Genuine
<1>7. LevelKnown'
  <2>1. k \in Marks(file) /\ file.marks[k].level \in Levels
    BY <1>2, MarkFacts DEF Genuine
  <2>2. level' = file.marks[k].level /\ level' # NoLevel
    BY <1>1, <1>4, <2>1 DEF Levels, NoLevel
  <2>3. ASSUME NEW q \in Marks(file), IsMark(bl[i], q) PROVE q = k
    BY <1>2, <1>4, <2>1, <2>3, MarkIsOne
  <2> QED
    BY <1>1, <1>5, <2>2, <2>3 DEF LevelKnown, BlockLevel, IsMark, Marks
<1>8. InOrder'
  <2>1. ASSUME NEW n \in 1..(Len(bl) - 2)
        PROVE  /\ bl'[n].coff <= bl'[n + 1].coff
               /\ bl'[n].coff = bl'[n + 1].coff => Seam(file, bl'[n].coff)
    <3>1. /\ n \in 1..(Len(bl) - 1) /\ n + 1 \in 1..(Len(bl) - 1) /\ n \in 1..Len(bl)
          /\ n + 1 \in 1..Len(bl) /\ n + 2 \in 1..Len(bl) /\ n + 1 + 1 = n + 2
      BY <1>2
    <3>2. /\ bl[n].coff <= bl[n + 1].coff
          /\ bl[n].coff = bl[n + 1].coff => Seam(file, bl[n].coff)
          /\ bl[n + 1].coff <= bl[n + 2].coff
          /\ bl[n + 1].coff = bl[n + 2].coff => Seam(file, bl[n + 1].coff)
      BY <1>2, <3>1 DEF InOrder
    <3>3. CASE n + 1 <= i
      <4>1. n <= i
        BY <1>2, <3>3
      <4>2. bl'[n] = bl[n] /\ bl'[n + 1] = bl[n + 1]
        BY <1>3, <3>1, <3>3, <4>1
      <4> QED
        BY <3>2, <4>2
    <3>4. CASE n = i
      <4>1. n <= i /\ ~(n + 1 <= i)
        BY <1>2, <3>4
      <4>2. bl'[n] = bl[n] /\ bl'[n + 1] = bl[n + 2]
        BY <1>3, <3>1, <4>1
      <4>3. bl[n].coff \in Nat /\ bl[n + 1].coff \in Nat /\ bl[n + 2].coff \in Nat
        BY <1>2, <3>1
      <4>4. bl[n].coff <= bl[n + 2].coff
        BY <3>2, <4>3
      <4>5. bl[n].coff = bl[n + 2].coff => bl[n].coff = bl[n + 1].coff
        BY <3>2, <4>3
      <4> QED
        BY <3>2, <4>2, <4>4, <4>5
    <3>5. CASE n > i
      <4>1. ~(n <= i) /\ ~(n + 1 <= i)
        BY <1>2, <3>5
      <4>2. bl'[n] = bl[n + 1] /\ bl'[n + 1] = bl[n + 2]
        BY <1>3, <3>1, <4>1
      <4> QED
        BY <3>2, <4>2
    <3> QED
      BY <1>2, <3>3, <3>4, <3>5
  <2>2. Len(bl') - 1 = Len(bl) - 2
    BY <1>2, <1>3
  <2> QED
    BY <1>1, <2>1, <2>2 DEF InOrder, Seam
<1>9. LevelsNoted'
  <2>1. ASSUME NEW n \in 1..(Len(bl) - 1), NEW q \in Openings, IsMark(bl'[n], q)
        PROVE  bl'[n].level = file.marks[q].level
    <3>1. n \in 1..Len(bl) /\ n + 1 \in 1..Len(bl)
      BY <1>2
    <3>2. bl'[n] = bl[n] \/ bl'[n] = bl[n + 1]
      BY <1>3
    <3> QED
      BY <1>2, <2>1, <3>1, <3>2 DEF LevelsNoted
  <2> QED
    BY <1>1, <1>3, <2>1 DEF LevelsNoted, IsMark, Marks, Openings, OpensStream
<1> QED
  BY <1>1, <1>2, <1>6, <1>7, <1>8, <1>9 DEF SoundBuild, Ended, LevelInv

(* At the last boundary no genuine one is left, so it is the file's end.   *)
LEMMA FinishIsSound ==
  ASSUME Inv, Undisturbed, LevelInv, SoundBuild, Finish
  PROVE  LevelInv' /\ SoundBuild'
<1>1. /\ pc = "build" /\ pc' = "done" /\ i >= Len(bl)
      /\ file' = file /\ lcount' = lcount /\ mBlocks' = mBlocks
  BY DEF Finish, scanVars
<1>2. file \in Files /\ i \in Nat /\ Len(bl) \in Nat /\ Remaining
  BY <1>1 DEF Inv, TypesOK, SoundBuild
<1>3. PICK k \in Genuine(file) : IsMark(bl[i], k) /\ file.marks[k].uoff = UncompressedSize
  BY <1>1 DEF Inv, BuildOK
<1> DEFINE e == Len(file.marks)
<1>4. e \in Genuine(file)
  BY <1>2, SoundFacts DEF Undisturbed
<1>5. k = e
  <2>1. k \in Nat /\ e \in Nat /\ k <= e
    BY <1>2, MarkFacts, FileFacts DEF Genuine
  <2>2. ~(k < e)
    <3> SUFFICES ASSUME k < e PROVE FALSE
      OBVIOUS
    <3>1. PICK n \in (i + 1)..Len(bl) : IsMark(bl[n], e)
      BY <1>2, <1>3, <1>4 DEF Remaining
    <3> QED
      BY <1>1, <1>2, <3>1
  <2> HIDE DEF e
  <2> QED
    BY <2>1, <2>2
<1>6. Served'
  BY <1>1, <1>3, <1>5 DEF Served, UncompressedSize
<1> QED
  BY <1>1, <1>6 DEF SoundBuild, Ended, LevelInv

LEMMA InitIsSound == ASSUME Init PROVE LevelInv /\ SoundBuild
<1>1. /\ file \in Files /\ bl = <<>> /\ pc = "scan" /\ lcount = MagicSize + 1
      /\ at = 0 /\ rpos = bsz
  BY DEF Init
<1>2. Place = 0
  <2>1. bsz \in Nat
    BY <1>1, SizeFacts, FileFacts DEF Init, Smaller
  <2> QED
    BY <1>1, <2>1 DEF Place
<1>3. ASSUME NEW k \in Openings PROVE Counting(k)
  <2>1. k \in Marks(file) /\ file.marks[k].pos \in Nat
    BY <1>1, MarkFacts DEF Openings
  <2>2. CASE k = 1
    <3>1. file.marks[k].pos = MagicSize + 1
      BY <1>1, <2>2, FileFacts DEF WellFormed
    <3> QED
      BY <1>1, <1>2, <3>1, SizeFacts DEF Counting
  <2>3. CASE k # 1
    <3>1. k - 1 \in Marks(file) /\ k \in Nat
      BY <1>1, <2>1, <2>3, MarkFacts, FileFacts DEF Marks
    <3>2. file.marks[k - 1].pos \in Nat /\ file.marks[k - 1].pos < file.marks[k].pos
      BY <1>1, <2>1, <3>1, MarkFacts, MarksInOrder
    <3> QED
      BY <1>2, <2>1, <2>3, <3>2 DEF Counting, HeaderOf
  <2> QED
    BY <2>2, <2>3
<1>4. lcount \in Nat
  BY <1>1, SizeFacts
<1> QED
  BY <1>1, <1>3, <1>4 DEF LevelInv, LevelsNoted, SoundBuild, Ended

(* SoundUnlessSeam: whatever the data of a sound file look like, and       *)
(* whatever the size of the chunks, Bzip2File::buildIndex serves the file  *)
(* whole unless a boundary or the header between two streams lies where    *)
(* two chunks meet.                                                        *)
THEOREM Bzip2SoundUnlessSeam == Spec => []SoundUnlessSeam
<1>1. Init => SoundInv
  BY InitIsSound DEF SoundInv
<1>2. Inv /\ ScanInv /\ SoundInv /\ [Next]_vars /\ Inv' /\ ScanInv' => SoundInv'
  <2> SUFFICES ASSUME Inv, ScanInv, SoundInv, [Next]_vars, Inv', ScanInv', Undisturbed'
               PROVE  LevelInv' /\ SoundBuild'
    BY DEF SoundInv
  <2>1. file' = file
    BY DEF Next, ScanByte, NextChunk, EndScan, SkipEOS, EmptyRead, AddBlock, EraseBoundary,
           Finish, vars
  <2>2. Undisturbed
    BY <2>1 DEF Undisturbed, Sound, LevelLost, BlockAtSeam, Seam, Marks
  <2>3. LevelInv /\ SoundBuild
    BY <2>2 DEF SoundInv
  <2>4. CASE ScanByte
    <3>1. LevelInv'
      BY <2>2, <2>3, <2>4, ScanByteKeepsLevels
    <3> QED
      BY <2>4, <3>1 DEF ScanByte, SoundBuild, Ended
  <2>5. CASE NextChunk
    <3>1. LevelInv'
      BY <2>2, <2>3, <2>5, NextChunkKeepsLevels
    <3> QED
      BY <2>5, <3>1 DEF NextChunk, SoundBuild, Ended
  <2>6. CASE EndScan
    BY <2>2, <2>3, <2>6, EndScanIsSound
  <2>7. CASE SkipEOS
    BY <2>2, <2>3, <2>7, SkipEOSIsSound
  <2>8. CASE EmptyRead
    BY <2>2, <2>3, <2>8, NothingIsEmpty DEF EmptyRead
  <2>9. CASE AddBlock
    BY <2>2, <2>3, <2>9, AddBlockIsSound
  <2>10. CASE EraseBoundary
    BY <2>2, <2>3, <2>10, EraseIsSound
  <2>11. CASE Finish
    BY <2>2, <2>3, <2>11, FinishIsSound
  <2>12. CASE UNCHANGED vars
    <3>1. LevelInv'
      BY <2>3, <2>12 DEF vars, LevelInv, LevelsNoted, Counting, HasLevel, HeaderOf, Place,
                         Openings, OpensStream, IsMark, Marks
    <3>2. SoundBuild'
      BY <2>3, <2>12 DEF vars, SoundBuild, InOrder, Remaining, LevelKnown, BlockLevel, Seam,
                         Ended, Served, UncompressedSize, IsMark, Marks, Genuine
    <3> QED
      BY <3>1, <3>2
  <2> QED
    BY <2>4, <2>5, <2>6, <2>7, <2>8, <2>9, <2>10, <2>11, <2>12 DEF Next
<1>3. SoundInv => SoundUnlessSeam
  BY DEF SoundInv, Undisturbed, SoundBuild, SoundUnlessSeam
<1> QED
  BY <1>1, <1>2, <1>3, Bzip2Invariant, Bzip2ScanInvariant, PTL DEF Spec
=============================================================================
