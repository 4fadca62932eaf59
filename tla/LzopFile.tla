------------------------------ MODULE LzopFile ------------------------------
(***************************************************************************)
(* How LzopFile (src/LzopFile.cc) indexes a file: it walks from header to  *)
(* header of blocks, over the data, and from member to member.             *)
(*                                                                         *)
(* A file is its size and its fields, in order: the "header" of a member   *)
(* with its flags, a "block" with what is stored of it, the "end" of a     *)
(* member.  A field reaches from pos to pos + len.  Lengths are in words   *)
(* of four bytes, the size of a checksum.                                  *)
(***************************************************************************)
EXTENDS Integers, Sequences

VARIABLES file, pos, flags, coff, mBlocks, pc

lzopVars == <<file, pos, flags, coff, mBlocks, pc>>

Flags == {"CRCDec", "AdlerDec", "CRCComp", "AdlerComp"}

BHeader == 2
One(flag, fl) == IF flag \in fl THEN 1 ELSE 0
USums(fl) == One("CRCDec", fl) + One("AdlerDec", fl)
CSums(fl) == One("CRCComp", fl) + One("AdlerComp", fl)

(* A block that is stored uncompressed has one kind of checksums only.     *)
Sums(fl, b) == IF b.usize = b.csize THEN USums(fl) ELSE USums(fl) + CSums(fl)

(* The header of the member that field k is in.                            *)
Heads(f, h, k) == /\ f.fields[h].what = "header"
                  /\ \A m \in (h + 1)..k : f.fields[m].what # "header"

(* What the lzop format says of a file, which may be cut short anywhere.   *)
WellFormed(f) ==
    \A k \in 1..Len(f.fields) :
        LET g == f.fields[k]
        IN  /\ g.what \in {"header", "block", "end"}
            /\ g.pos \in Nat /\ g.pos < f.size /\ g.len \in Nat \ {0}
            /\ IF k = 1 THEN g.what = "header" /\ g.pos = 0
               ELSE /\ g.pos = f.fields[k - 1].pos + f.fields[k - 1].len
                    /\ g.what = "header" <=> f.fields[k - 1].what = "end"
            /\ g.what = "header" => g.flags \subseteq Flags
            /\ g.what = "block" =>
                  /\ g.usize \in Nat \ {0} /\ g.csize \in Nat
                  /\ \A h \in 1..k : Heads(f, h, k) =>
                        g.len = BHeader + Sums(f.fields[h].flags, g) + g.csize
            /\ g.what = "end" => g.len = 1

Sound(f) ==
    /\ Len(f.fields) > 0
    /\ LET g == f.fields[Len(f.fields)] IN g.what = "end" /\ g.pos + g.len = f.size

(* The blocks of a file, each where its data are.                          *)
Parts(f) ==
    {[usize |-> f.fields[k].usize, csize |-> f.fields[k].csize,
      coff |-> f.fields[k].pos + f.fields[k].len - f.fields[k].csize] :
        k \in {l \in 1..Len(f.fields) : Sound(f) /\ f.fields[l].what = "block"}}

(* The field that begins where the file is to be read.                     *)
Here(what) == {k \in 1..Len(file.fields) :
                  file.fields[k].pos = pos /\ file.fields[k].what = what}

UOff == IF mBlocks = <<>> THEN 0
        ELSE mBlocks[Len(mBlocks)].uoff + mBlocks[Len(mBlocks)].usize

(* readHeaders; too few bytes are a FormatException too.                   *)
ReadHeaders(stage, after) ==
    /\ pc = stage
    /\ \/ \E k \in Here("header") :
            /\ pos + file.fields[k].len <= file.size
            /\ pos' = pos + file.fields[k].len /\ coff' = pos'
            /\ flags' = file.fields[k].flags
            /\ pc' = after
       \/ /\ \A k \in Here("header") : pos + file.fields[k].len > file.size
          /\ pc' = "format"
          /\ UNCHANGED <<pos, coff, flags>>
    /\ UNCHANGED <<file, mBlocks>>

CheckFileType == ReadHeaders("check", "load")
NextMember == ReadHeaders("member", "blocks")

(* Mutant of FindBlock: coff stands still over the data.                   *)
FindBlockStandingStill ==
    /\ pc = "blocks" /\ pos + BHeader <= file.size
    /\ \E k \in Here("block") :
        LET b == file.fields[k]
        IN  /\ mBlocks' = Append(mBlocks, [usize |-> b.usize, csize |-> b.csize,
                                           uoff |-> UOff, coff |-> coff + BHeader + Sums(flags, b)])
            /\ pos' = pos + BHeader + Sums(flags, b) + b.csize
    /\ UNCHANGED <<file, flags, coff, pc>>

(* One iteration of findBlocks; fh.seek past the end does not fail.        *)
FindBlock ==
    /\ pc = "blocks" /\ pos + BHeader <= file.size
    /\ \E k \in Here("block") :
        LET b == file.fields[k]
        IN  /\ mBlocks' = Append(mBlocks, [usize |-> b.usize, csize |-> b.csize,
                                           uoff |-> UOff, coff |-> coff + BHeader + Sums(flags, b)])
            /\ coff' = coff + Sums(flags, b) + b.csize + BHeader
            /\ pos' = pos + BHeader + Sums(flags, b) + b.csize
    /\ UNCHANGED <<file, flags, pc>>

EndMember ==
    /\ pc = "blocks" /\ pos < file.size /\ Here("end") # {}
    /\ pos' = pos + 1
    /\ pc' = IF pos + 1 >= file.size THEN "built" ELSE "member"
    /\ UNCHANGED <<file, flags, coff, mBlocks>>

(* The EOFException of a file that is cut short.                           *)
OutOfFile ==
    /\ pc = "blocks"
    /\ \/ pos >= file.size
       \/ Here("block") # {} /\ pos + BHeader > file.size
    /\ pc' = "error"
    /\ UNCHANGED <<file, pos, flags, coff, mBlocks>>

Next == CheckFileType \/ NextMember \/ FindBlock \/ EndMember \/ OutOfFile
=============================================================================
