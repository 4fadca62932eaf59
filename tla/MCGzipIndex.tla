---------------------------- MODULE MCGzipIndex ----------------------------
(* GzipIndex for TLC: files put together from lists of deflate blocks.     *)
EXTENDS GzipIndex, SequencesExt

(* A deflate block is its size and how far back its references go.         *)
Deflate == {<<0, 0>>, <<1, 0>>, <<1, 2>>, <<2, 2>>, <<3, 0>>, <<3, 1>>}

AsPiece(k, m, s, u, r) == [kind |-> k, mem |-> m, uoff |-> u, usize |-> s, reach |-> r]

(* Appends a member of the given deflate blocks to a file; tail is what    *)
(* stands in the place of its footer.                                      *)
WithMember(f, blocks, tail) ==
    LET start == IF f = <<>> THEN 0 ELSE Total(f)
        m == IF f = <<>> THEN 1 ELSE f[Len(f)].mem + 1
        Add(g, b) == LET u == Total(g)
                     IN  Append(g, AsPiece("block", m, b[1], u,
                                   IF u - b[2] < start THEN start ELSE u - b[2]))
        body == FoldLeft(Add, Append(f, AsPiece("header", m, 0, start, start)), blocks)
        u == Total(body)
    IN  body \o [i \in 1..Len(tail) |-> AsPiece(tail[i], m, 0, u, u)]

Members(n) == UNION {[1..i -> Deflate] : i \in 1..n}
Whole == <<"footer">>
Broken == {<<"cut">>, <<"damaged", "footer">>}

MCFiles ==
    {WithMember(<<>>, a, Whole) : a \in Members(4)}
    \cup {WithMember(WithMember(<<>>, a, Whole), b, Whole) : a \in Members(2), b \in Members(3)}
    \cup {WithMember(<<>>, a, tail) : a \in Members(3), tail \in Broken}
    \cup {WithMember(WithMember(<<>>, a, Whole), b, tail) :
            a, b \in Members(1), tail \in Broken}
    \cup {WithMember(WithMember(WithMember(<<>>, a, Whole), b, Whole), a, Whole) :
            a, b \in Members(1)}
=============================================================================
