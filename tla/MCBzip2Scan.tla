---------------------------- MODULE MCBzip2Scan ----------------------------
(* Bzip2Scan for TLC: files put together from streams of blocks.           *)
EXTENDS Bzip2Scan, SequencesExt, FiniteSets

AsMark(m, p, b, k, lv, u, s) ==
    [magic |-> m, pos |-> p, bits |-> b, kind |-> k, level |-> lv, uoff |-> u, usize |-> s]

Empty == [size |-> 0, marks |-> <<>>, uoff |-> 0]
LastMark(f) == f.marks[Len(f.marks)]

(* A stream is its level and its blocks, a block its kind, its length in   *)
(* bytes, the spare bits at its end, and what is spurious in its data.     *)
WithBlock(f, b, lv) ==
    LET start == f.size
        bits == f.spare
        here == AsMark("block", start, bits, b.kind, lv, f.uoff, b.len)
        false == [n \in 1..Len(b.looks) |->
                    AsMark(b.looks[n], start + n, 3, "spurious", lv, f.uoff, 1)]
    IN  [size |-> start + b.len, marks |-> f.marks \o <<here>> \o false,
         uoff |-> f.uoff + b.len, spare |-> b.bits]

WithStream(f, s) ==
    LET body == FoldLeft(LAMBDA g, b : WithBlock(g, b, s.level),
                         [size |-> f.size + MagicSize + 1, marks |-> f.marks, uoff |-> f.uoff,
                          spare |-> 0], s.blocks)
    IN  [size |-> body.size + FooterSize, uoff |-> body.uoff,
         marks |-> Append(body.marks,
                     AsMark("eos", body.size, body.spare, "true", s.level, body.uoff, 0))]

AsFile(ss) == LET f == FoldLeft(WithStream, Empty, ss) IN [size |-> f.size, marks |-> f.marks]

(* A file cut off at a byte, with what is left of its marks.               *)
CutAt(f, n) == [size |-> n, marks |-> SelectSeq(f.marks, LAMBDA m :
                    IF m.magic = "eos" THEN m.pos + FooterSize <= n ELSE m.pos < n)]

Sub(looks) == [kind : {"true"}, len : 3..9, bits : {0, 3}, looks : looks]
Looks == {<<>>, <<"block">>, <<"eos">>, <<"eos", "block">>}
Stream(lv, blocks) == [level |-> lv, blocks |-> blocks]

OneStream == {AsFile(<<Stream("9", bs)>>) : bs \in UNION {[1..n -> Sub({<<>>})] : n \in 1..2}}
Deceptive == {AsFile(<<Stream("9", <<a, b>>)>>) : a \in Sub(Looks), b \in Sub({<<>>, <<"block">>})}
TwoStreams ==
    {AsFile(<<Stream("9", <<a>>), Stream("1", <<b, c>>)>>) :
        a \in Sub({<<>>}), b \in {s \in Sub({<<>>, <<"eos">>}) : s.len <= 5},
        c \in {s \in Sub({<<>>}) : s.len = 4}}
    \cup {AsFile(<<Stream("9", <<a>>), Stream("1", <<>>), Stream("1", <<a>>)>>) : a \in Sub({<<>>})}
Damaged ==
    {AsFile(<<Stream("9", <<a, [b EXCEPT !.kind = "damaged"]>>), Stream("1", <<b>>)>>) :
        a \in Sub({<<>>}), b \in Sub({<<>>, <<"eos">>})}
Cut == {CutAt(f, n) : f \in {AsFile(<<Stream("9", <<a, a>>), Stream("1", <<a>>)>>) : a \in Sub({<<>>})},
                      n \in 3..30}

MCFiles == OneStream \cup Deceptive \cup TwoStreams \cup Damaged
           \cup {f \in Cut : f.marks # <<>> /\ LastMark(f).pos < f.size}
=============================================================================
