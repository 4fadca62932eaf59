------------------------------ MODULE ZstdFile ------------------------------
(***************************************************************************)
(* How ZstdFile (src/ZstdFile.cc) takes its blocks from the seek table at  *)
(* the end of a file.  A file is its size and its fields: "frame" is data, *)
(* "table" the seek table with its entries, the number of them its footer  *)
(* tells, and whether it holds checksums.  Lengths are in bytes.           *)
(***************************************************************************)
EXTENDS Integers, Sequences

VARIABLES file, pos, coff, mBlocks, pc

zstdVars == <<file, pos, coff, mBlocks, pc>>

FooterSize == 9
TableOverhead == 8

Frames == {k \in 1..Len(file.fields) : file.fields[k].what = "frame"}
Tables == {k \in 1..Len(file.fields) : /\ file.fields[k].what = "table"
                                       /\ file.fields[k].pos + file.fields[k].len = file.size}

EntrySize(t) == IF t.checks THEN 12 ELSE 8
TotalSize(t) == EntrySize(t) * t.count

(* findSeekTable: the footer is the end of a table whose head stands where *)
(* its number of entries puts it.                                          *)
Start(t) == file.size - FooterSize - TotalSize(t)
FoundTable == {k \in Tables : Start(file.fields[k]) - TableOverhead = file.fields[k].pos}

(* What the seekable format says of a file: its frames, then the table of  *)
(* them, which may be cut short or tell another number of them.            *)
WellFormed(f) ==
    \A k \in 1..Len(f.fields) :
        LET g == f.fields[k]
        IN  /\ g.what \in {"frame", "table"}
            /\ g.pos \in Nat /\ g.pos < f.size /\ g.len \in Nat \ {0}
            /\ g.pos = IF k = 1 THEN 0 ELSE f.fields[k - 1].pos + f.fields[k - 1].len
            /\ g.what = "table" =>
                  /\ k = Len(f.fields) /\ Len(g.entries) = k - 1
                  /\ g.checks \in BOOLEAN /\ g.count \in Nat
                  /\ g.len = FooterSize + TableOverhead + EntrySize(g) * (k - 1)
                  /\ \A n \in 1..(k - 1) : /\ g.entries[n].usize \in Nat
                                            /\ g.entries[n].csize = f.fields[n].len

Sound(f) ==
    /\ Len(f.fields) > 0
    /\ LET g == f.fields[Len(f.fields)]
       IN  g.what = "table" /\ g.pos + g.len = f.size /\ g.count = Len(g.entries)

(* The frames, each with the size that the table tells.                    *)
Parts(f) ==
    {[usize |-> f.fields[Len(f.fields)].entries[k].usize, csize |-> f.fields[k].len,
      coff |-> f.fields[k].pos] :
        k \in {l \in 1..Len(f.fields) : Sound(f) /\ f.fields[l].what = "frame"}}

UOff == IF mBlocks = <<>> THEN 0
        ELSE mBlocks[Len(mBlocks)].uoff + mBlocks[Len(mBlocks)].usize

CheckFileType ==
    /\ pc = "check"
    /\ pc' = IF \A k \in Frames : file.fields[k].pos # 0 THEN "format"
             ELSE IF FoundTable = {} THEN "error" ELSE "load"
    /\ UNCHANGED <<file, pos, coff, mBlocks>>

(* buildIndex looks for the table again, then reads as many entries as the *)
(* footer tells.                                                           *)
FindTable ==
    /\ pc = "build"
    /\ \E k \in FoundTable : pos' = Start(file.fields[k])
    /\ coff' = 0 /\ pc' = "table"
    /\ UNCHANGED <<file, mBlocks>>

EntryAt(t) == t.entries[(pos - t.pos - TableOverhead) \div EntrySize(t) + 1]

ReadEntry ==
    /\ pc = "table"
    /\ \E k \in FoundTable :
        LET t == file.fields[k]
        IN  /\ Len(mBlocks) < t.count
            /\ mBlocks' = Append(mBlocks, [usize |-> EntryAt(t).usize, csize |-> EntryAt(t).csize,
                                           uoff |-> UOff, coff |-> coff])
            /\ coff' = coff + EntryAt(t).csize
            /\ pos' = pos + EntrySize(t)
    /\ UNCHANGED <<file, pc>>

EndTable ==
    /\ pc = "table"
    /\ \E k \in FoundTable : Len(mBlocks) = file.fields[k].count
    /\ pc' = "loaded"
    /\ UNCHANGED <<file, pos, coff, mBlocks>>

Next == CheckFileType \/ FindTable \/ ReadEntry \/ EndTable
=============================================================================
