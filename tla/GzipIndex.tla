----------------------------- MODULE GzipIndex -----------------------------
(***************************************************************************)
(* How GzipFile::buildIndex (src/GzipFile.cc) finds the places of a gzip   *)
(* file from which it can be decoded.  At every deflate block it tries to  *)
(* decode on without what came before; SavingGzipReader (src/GzipReader.h) *)
(* keeps the decoder it was using, so that the trial can be undone.        *)
(*                                                                         *)
(* A file is the sequence of its pieces: the header, the deflate blocks    *)
(* and the footer of each member.  reach is the first uncompressed byte    *)
(* that a block refers to.  Places in the file (ipos and ibits together)   *)
(* are numbers of pieces.  Pieces of kind "damaged" are data zlib rejects, *)
(* "cut" is where a file ends too early.                                   *)
(***************************************************************************)
EXTENDS Integers, Sequences

CONSTANTS Files,        \* the files, each a sequence of pieces
          WindowSize,
          MinBlock,     \* mBlockFactor * WindowSize
          Longest,      \* the longest deflate block, uncompressed
          USizeLimit,   \* 2^32: usize is 32 bits wide
          Null

Kinds == {"header", "block", "footer", "damaged", "cut"}
Piece == [kind : Kinds, mem : Nat, uoff : Nat, usize : Nat, reach : Nat]

Total(f) == f[Len(f)].uoff + f[Len(f)].usize

(* What the gzip format says of a file, and of the references of deflate.  *)
WellFormed(f) ==
    /\ f \in Seq(Piece) /\ f # <<>>
    /\ f[1].kind = "header" /\ f[1].uoff = 0
    /\ f[Len(f)].kind \in {"footer", "cut"}
    /\ \A p \in 1..Len(f) :
        /\ f[p].usize <= Longest
        /\ f[p].kind \in {"header", "footer", "cut"} => f[p].usize = 0
        /\ f[p].kind = "cut" => p = Len(f)
        /\ f[p].uoff - f[p].reach \in 0..WindowSize
        /\ \E h \in 1..p : /\ f[h].kind = "header" /\ f[h].mem = f[p].mem
                          /\ f[h].uoff <= f[p].reach
    /\ \A p \in 1..(Len(f) - 1) :
        /\ f[p + 1].uoff = f[p].uoff + f[p].usize
        /\ f[p].kind = "footer" <=> f[p + 1].kind = "header"
        /\ f[p].kind # "footer" => f[p + 1].mem = f[p].mem
    /\ \A p, q \in 1..Len(f) : p < q =>
        /\ f[p].uoff + f[p].usize <= f[q].uoff
        /\ f[p].mem <= f[q].mem
        /\ f[p].mem = f[q].mem => f[p].kind # "footer" /\ f[q].kind # "header"

Sound(f) == \A p \in 1..Len(f) : f[p].kind \notin {"damaged", "cut"}

ASSUME GzipAssumption ==
    /\ \A f \in Files : WellFormed(f)
    /\ WindowSize \in Nat \ {0} /\ MinBlock \in Nat /\ Longest \in Nat
    /\ USizeLimit \in Nat /\ MinBlock + Longest < USizeLimit

VARIABLES file,         \* the file being indexed
          rd,           \* the decoder in use
          mSave,        \* the other decoder of the SavingGzipReader
          indep,        \* is rd on trial?
          backtrack,    \* has the trial passed another block?
          uoff, coff,   \* where the trial began
          lastIdx,      \* uncompressed position of the last indexed block
          mBlocks,      \* the blocks found; dict: the first byte it has in its window
          pc            \* "scan", "done", or what it throws: "format", "eof"

vars == <<file, rd, mSave, indep, backtrack, uoff, coff, lastIdx, mBlocks, pc>>

(* A decoder stands before piece at and has put out the bytes from init    *)
(* on, out of them.  It knows the bytes from known on, which references    *)
(* may reach.  It is astray if it takes a footer for a deflate block.      *)
Reader == [at : Nat, wrap : {"Gzip", "Raw"}, init : Nat, out : Nat, known : Nat,
           astray : BOOLEAN]

OPos(r) == r.init + r.out

Init ==
    /\ file \in Files
    /\ rd = [at |-> 1, wrap |-> "Gzip", init |-> 0, out |-> 0, known |-> 0, astray |-> FALSE]
    /\ mSave = Null
    /\ indep = FALSE /\ backtrack = FALSE
    /\ uoff = 0 /\ coff = 1 /\ lastIdx = 0
    /\ mBlocks = <<>>
    /\ pc = "scan"

-----------------------------------------------------------------------------
(* GzipReaderBase::block(): inflate up to the next boundary of blocks; the *)
(* last block of a member ends at a boundary too.  What zlib may answer.   *)
Ok(r) == [err |-> "Z_OK", rd |-> [r EXCEPT !.at = @ + 1, !.out = @ + file[r.at].usize]]
End(r) == [err |-> "Z_STREAM_END",
           rd |-> IF r.wrap = "Gzip" THEN [r EXCEPT !.at = @ + 1] ELSE r]
Error(r) == [err |-> "Z_DATA_ERROR", rd |-> r]
EOF(r) == [err |-> "EOFException", rd |-> r]

(* The checksum, the size and what follows, read as deflate data: whatever *)
(* they look like.  At the end of the file there may be too little of it.  *)
(* Behind a member without bytes they are zeros: no deflate block.         *)
NoBytes(m) == \A p \in 1..Len(file) : file[p].mem = m => file[p].usize = 0

Garbage(r) ==
    {Error(r)} \cup
    IF NoBytes(file[r.at].mem) THEN {}
    ELSE {[err |-> "Z_OK", rd |-> [r EXCEPT !.out = n]] :
             n \in (IF r.out = 0 THEN 0 ELSE r.out + 1)..WindowSize}
         \cup (IF r.out > 0 THEN {End(r)} ELSE {})
         \cup (IF r.at = Len(file) THEN {EOF(r)} ELSE {})

Block(r) ==
    LET piece == file[r.at] IN
    IF r.astray THEN Garbage(r)
    ELSE CASE piece.kind = "header" -> IF r.wrap = "Gzip" THEN {Ok(r)} ELSE {Error(r)}
           [] piece.kind = "block" -> IF piece.reach >= r.known THEN {Ok(r)} ELSE {Error(r)}
           [] piece.kind = "footer" -> {End(r)}
           [] piece.kind = "damaged" -> {Error(r)}
           [] piece.kind = "cut" -> {EOF(r)} \cup (IF indep THEN {Error(r)} ELSE {})

(* save() keeps the decoder and starts another one without its window.  A  *)
(* trial begun at a footer is astray.                                      *)
Trial(r) ==
    [at |-> r.at, wrap |-> "Raw", init |-> OPos(r), out |-> 0, known |-> OPos(r),
     astray |-> file[r.at].kind = "footer"]

SkipFooter(r) == IF r.wrap = "Gzip" THEN r ELSE [r EXCEPT !.at = @ + 1]
Reset(r) == [r EXCEPT !.wrap = "Gzip", !.known = OPos(r)]

(* copyWindow: the last bytes that the decoder has put out.                *)
CopyWindow(r) == IF r.out <= WindowSize THEN r.init ELSE OPos(r) - WindowSize

(* Mutant of SetLastBlockSize: it sizes the first block.                   *)
SetFirstBlockSize(list, u) ==
    IF list = <<>> THEN list
    ELSE [list EXCEPT ![1].usize = (u - list[1].uoff) % USizeLimit]

SetLastBlockSize(list, u) ==
    IF list = <<>> THEN list
    ELSE [list EXCEPT ![Len(list)].usize = (u - list[Len(list)].uoff) % USizeLimit]

AddBlock(list, u, c, d) ==
    Append(SetLastBlockSize(list, u), [usize |-> 0, uoff |-> u, coff |-> c, dict |-> d])

-----------------------------------------------------------------------------
(* What the loop of buildIndex does with each answer of block().           *)
Decoded(res) == res.err \in {"Z_OK", "Z_STREAM_END"}

(* Mutant of Enough: any output will do.                                   *)
AnyOutput(res) == res.rd.out > 0 \/ res.err = "Z_STREAM_END"

(* The trial has filled a window, or reached the end of the member.        *)
Enough(res) == res.rd.out > WindowSize \/ res.err = "Z_STREAM_END"

Finishes(res) == res.err = "Z_STREAM_END" /\ SkipFooter(res.rd).at > Len(file)

(* The rest of the loop when no trial is on: finish, or begin the next     *)
(* member if this one has ended, and start a trial.                        *)
GoOn(res, list) ==
    IF Finishes(res)
    THEN /\ rd' = SkipFooter(res.rd)
         /\ mBlocks' = SetLastBlockSize(list, OPos(res.rd))
         /\ indep' = FALSE
         /\ pc' = "done"
         /\ UNCHANGED <<mSave, backtrack, uoff, coff>>
    ELSE LET here == IF res.err = "Z_STREAM_END" THEN Reset(SkipFooter(res.rd)) ELSE res.rd
         IN  /\ mSave' = here /\ rd' = Trial(here)
             /\ uoff' = OPos(here) /\ coff' = here.at
             /\ indep' = TRUE /\ backtrack' = FALSE
             /\ mBlocks' = list
             /\ UNCHANGED pc

Restore(res) == rd' = mSave /\ mSave' = res.rd

(* No trial on: the block is decoded, the next one will be tried.          *)
NextBlock(res) ==
    /\ ~indep /\ Decoded(res)
    /\ GoOn(res, mBlocks)
    /\ UNCHANGED lastIdx

(* The trial's first block filled the window: go on with its decoder.      *)
AddAndGoOn(res) ==
    /\ indep /\ Decoded(res) /\ Enough(res) /\ ~backtrack
    /\ lastIdx' = uoff
    /\ GoOn(res, AddBlock(mBlocks, uoff, coff, uoff))

(* Mutant of AddAndRewind: lastIdx is where the trial has got to.          *)
AddLateAndRewind(res) ==
    /\ indep /\ Decoded(res) /\ Enough(res) /\ backtrack
    /\ mBlocks' = AddBlock(mBlocks, uoff, coff, uoff)
    /\ lastIdx' = OPos(res.rd)
    /\ indep' = FALSE
    /\ Restore(res)
    /\ UNCHANGED <<backtrack, uoff, coff, pc>>

(* It took more blocks, which may be wanted themselves: go back.           *)
AddAndRewind(res) ==
    /\ indep /\ Decoded(res) /\ Enough(res) /\ backtrack
    /\ mBlocks' = AddBlock(mBlocks, uoff, coff, uoff)
    /\ lastIdx' = uoff
    /\ indep' = FALSE
    /\ Restore(res)
    /\ UNCHANGED <<backtrack, uoff, coff, pc>>

(* Mutant of ZeroLength: without the continue, the block is tried again.   *)
ZeroLengthAgain(res) ==
    /\ indep /\ Decoded(res) /\ ~Enough(res) /\ res.rd.out = 0
    /\ rd' = Trial(mSave)
    /\ UNCHANGED <<mSave, indep, mBlocks, lastIdx, backtrack, uoff, coff, pc>>

(* The block is empty: not worth an entry.                                 *)
ZeroLength(res) ==
    /\ indep /\ Decoded(res) /\ ~Enough(res) /\ res.rd.out = 0
    /\ indep' = FALSE
    /\ Restore(res)
    /\ UNCHANGED <<mBlocks, lastIdx, backtrack, uoff, coff, pc>>

(* The trial goes on with the next block.                                  *)
LookFurther(res) ==
    /\ indep /\ Decoded(res) /\ ~Enough(res) /\ res.rd.out > 0
    /\ rd' = res.rd
    /\ backtrack' = TRUE
    /\ UNCHANGED <<mSave, indep, mBlocks, lastIdx, uoff, coff, pc>>

(* Mutant of TrialFailed: without restore().                               *)
TrialFailedUnrestored(res) ==
    /\ indep /\ res.err = "Z_DATA_ERROR"
    /\ indep' = FALSE
    /\ rd' = res.rd
    /\ UNCHANGED <<mSave, mBlocks, lastIdx, backtrack, uoff, coff, pc>>

(* The trial needs what came before: go back, and if the last entry is far *)
(* behind, make one with the window as a dictionary.                       *)
TrialFailed(res) ==
    /\ indep /\ res.err = "Z_DATA_ERROR"
    /\ indep' = FALSE
    /\ Restore(res)
    /\ IF OPos(mSave) - lastIdx > MinBlock
       THEN /\ mBlocks' = AddBlock(mBlocks, OPos(mSave), mSave.at, CopyWindow(mSave))
            /\ lastIdx' = OPos(mSave)
       ELSE UNCHANGED <<mBlocks, lastIdx>>
    /\ UNCHANGED <<backtrack, uoff, coff, pc>>

(* throwFormat: the file is damaged.                                       *)
BadData(res) ==
    /\ ~indep /\ res.err = "Z_DATA_ERROR"
    /\ pc' = "format"
    /\ UNCHANGED <<rd, mSave, indep, backtrack, uoff, coff, lastIdx, mBlocks>>

(* moreData throws, on trial or not, and nothing in buildIndex catches it. *)
OutOfInput(res) ==
    /\ res.err = "EOFException"
    /\ pc' = "eof"
    /\ UNCHANGED <<rd, mSave, indep, backtrack, uoff, coff, lastIdx, mBlocks>>

Next ==
    /\ pc = "scan"
    /\ \E res \in Block(rd) :
        \/ NextBlock(res) \/ AddAndGoOn(res) \/ AddAndRewind(res) \/ ZeroLength(res)
        \/ LookFurther(res) \/ TrialFailed(res) \/ BadData(res) \/ OutOfInput(res)
    /\ UNCHANGED file

Spec == Init /\ [][Next]_vars
FairSpec == Spec /\ WF_vars(Next)

-----------------------------------------------------------------------------
(* GzipBlockReader::read fills a block's usize bytes: it begins at coff    *)
(* with the dictionary.  It must find nothing but deflate blocks whose     *)
(* references it knows (at a footer it would inflate a finished stream for *)
(* ever), and they must hold the bytes that the entry stands for.          *)
Decodes(b) ==
    /\ b.coff \in 1..Len(file) /\ file[b.coff].uoff = b.uoff
    /\ b.uoff + b.usize <= Total(file)
    /\ \A p \in b.coff..Len(file) :
          file[p].uoff < b.uoff + b.usize =>
             file[p].kind = "block" /\ file[p].reach >= b.dict

(* writeBlock, readBlock: an entry without bytes reads as the index's end. *)
EndsIndex(b) == b.usize = 0

(* buildIndex: however often it went ahead and back, the entries follow    *)
(* one another without gap or overlap, in the order of the file, and in    *)
(* the end they are the whole file and the first is not empty: what        *)
(* LayoutOK of CompressedFile asks.                                        *)
EntriesTile ==
    /\ \A k \in 1..(Len(mBlocks) - 1) :
        /\ mBlocks[k].uoff + mBlocks[k].usize = mBlocks[k + 1].uoff
        /\ mBlocks[k].coff < mBlocks[k + 1].coff
    /\ pc = "done" =>
        IF mBlocks = <<>> THEN Total(file) = 0
        ELSE /\ mBlocks[1].uoff = 0 /\ mBlocks[1].usize > 0
             /\ mBlocks[Len(mBlocks)].uoff + mBlocks[Len(mBlocks)].usize = Total(file)

(* decompressBlock: every entry can be decoded from what is stored with    *)
(* it, and none reaches from one member into the next.                     *)
EntriesDecode == pc = "done" => \A k \in 1..Len(mBlocks) : Decodes(mBlocks[k])

(* blockFactor: no entry is so long that a read has to decompress more     *)
(* than the wanted distance and one deflate block.                         *)
EntriesBounded ==
    \A k \in 1..Len(mBlocks) : mBlocks[k].usize <= MinBlock + Longest

(* throwFormat: a failing trial never makes a sound file look damaged.     *)
SoundIsNotDamaged == pc = "format" => ~Sound(file)

(* buildIndex ends, though it goes back again and again.                   *)
ScanEnds == <>(pc # "scan")

(* README.md:3, 76: the file is seen as if it was uncompressed, from the   *)
(* index that was saved: an entry without bytes cuts nothing off.          *)
IndexHoldsAll ==
    pc = "done" => \A k \in 1..Len(mBlocks) :
                      EndsIndex(mBlocks[k]) => mBlocks[k].uoff = Total(file)
=============================================================================
