----------------------------- MODULE MCFileList -----------------------------
(* FileList for TLC: files put together from members, streams and frames.  *)
EXTENDS FileList, SequencesExt, FiniteSets

Tiles(bs) == FoldLeft(LAMBDA l, b : Append(l, [b EXCEPT !.uoff =
                 IF l = <<>> THEN 0 ELSE l[Len(l)].uoff + l[Len(l)].usize]), <<>>, bs)
AsBlock(u, c, at) == [usize |-> u, csize |-> c, uoff |-> 0, coff |-> at]
Grown(f, field, blocks) ==
    [size |-> f.size + field.len, fields |-> Append(f.fields, field), list |-> f.list \o blocks]
Nothing == [size |-> 0, fields |-> <<>>, list |-> <<>>]
AsContent(k, f) == [kind |-> k, size |-> f.size, fields |-> f.fields, list |-> Tiles(f.list),
                    scan |-> {}]

Absent == AsContent("absent", Nothing)
Unsound(c, n) == [c EXCEPT !.size = n, !.list = <<>>,
                      !.fields = SelectSeq(@, LAMBDA g : g.pos < n)]

-----------------------------------------------------------------------------
(* lzop: a member is its flags and its blocks, <<usize, csize>> each.      *)
LzopBlock(fl, f, b) ==
    LET sums == Cardinality(fl \cap {"CRCDec", "AdlerDec"})
                + (IF b[1] = b[2] THEN 0 ELSE Cardinality(fl \cap {"CRCComp", "AdlerComp"}))
    IN  Grown(f, [what |-> "block", pos |-> f.size, len |-> 2 + sums + b[2],
                  usize |-> b[1], csize |-> b[2]],
              <<AsBlock(b[1], b[2], f.size + 2 + sums)>>)

LzopMember(f, m) ==
    LET head == Grown(f, [what |-> "header", pos |-> f.size, len |-> 3, flags |-> m[1]], <<>>)
        body == FoldLeft(LAMBDA g, b : LzopBlock(m[1], g, b), head, m[2])
    IN  Grown(body, [what |-> "end", pos |-> body.size, len |-> 1], <<>>)

LzopContent(ms) == AsContent("lzop", FoldLeft(LzopMember, Nothing, ms))

FlagSets == {{}, {"AdlerDec"}, {"CRCComp", "AdlerComp"}, {"AdlerDec", "CRCDec", "AdlerComp"}}
LzopBlocks == UNION {[1..n -> {<<3, 2>>, <<2, 2>>}] : n \in 0..2}
LzopFiles ==
    {LzopContent(<<<<fl, bs>>>>) : fl \in FlagSets, bs \in LzopBlocks}
    \cup {LzopContent(<<<<fl, <<<<3, 2>>>>>>, <<gl, bs>>>>) : fl, gl \in FlagSets, bs \in LzopBlocks}
LzopCut ==
    UNION {{Unsound(c, n) : n \in {0, 2, c.size - 1, c.size - 2, c.size - 4, c.size + 1}} :
        c \in {LzopContent(<<<<fl, <<<<3, 2>>, <<2, 2>>>>>>>>) : fl \in FlagSets}}
    \cup {Unsound(LzopContent(<<<<{}, <<<<3, 2>>>>>>, <<{}, <<<<3, 2>>>>>>>>), n) : n \in {9, 11, 12}}

-----------------------------------------------------------------------------
(* xz: a stream is its blocks, <<usize, csize>> each, and its padding.     *)
XzStream(f, s) ==
    LET data == FoldLeft(LAMBDA l, b : Append(l, AsBlock(b[1], b[2],
                    IF l = <<>> THEN f.size + HeaderSize
                    ELSE l[Len(l)].coff + l[Len(l)].csize)), <<>>, s[1])
        sizes == FoldLeft(LAMBDA n, b : n + b[2], 0, s[1])
        blocks == [n \in 1..Len(s[1]) |->
                      [usize |-> s[1][n][1], csize |-> s[1][n][2], at |-> data[n].coff]]
        body == Grown(f, [what |-> "stream", pos |-> f.size, len |-> sizes + 2 * HeaderSize + 1,
                          blocks |-> blocks], SelectSeq(data, LAMBDA b : b.usize > 0))
    IN  IF s[2] = 0 THEN body
        ELSE Grown(body, [what |-> "padding", pos |-> body.size, len |-> s[2]], <<>>)

XzContent(ss) == AsContent("xz", FoldLeft(XzStream, Nothing, ss))

XzBlocks == {<<>>, <<<<3, 2>>>>, <<<<2, 1>>, <<3, 2>>>>, <<<<0, 1>>, <<2, 1>>>>}
XzStreams == {<<bs, p>> : bs \in XzBlocks, p \in {0, 1, 2, 4, 5}}
XzFiles == {XzContent(<<s>>) : s \in XzStreams}
           \cup {XzContent(<<s, t>>) : s \in XzStreams, t \in {u \in XzStreams : u[2] \in {0, 2, 5}}}
           \cup {XzContent(<<<<<<<<3, 2>>>>, 1>>, s, <<<<<<2, 1>>>>, 4>>>>) : s \in XzStreams}
           \cup {XzContent(<<<<<<<<9, 2>>, <<2, 1>>>>, 0>>>>)}
XzCut == {Unsound(XzContent(<<<<<<<<3, 2>>>>, 0>>>>), n) : n \in 0..6}
         \cup {Unsound([c EXCEPT !.fields = @ \o <<[what |-> "data", pos |-> 7, len |-> 2],
                                                  [what |-> "padding", pos |-> 9, len |-> n]>>], 9 + n) :
                  c \in {XzContent(<<<<<<<<3, 2>>>>, 0>>>>)}, n \in {1, 3}}

-----------------------------------------------------------------------------
(* zstd: frames, <<usize, csize>> each, and the table of them.             *)
ZstdContent(fs, checks, count) ==
    LET data == FoldLeft(LAMBDA f, b : Grown(f,
                    [what |-> "frame", pos |-> f.size, len |-> b[2]],
                    <<AsBlock(b[1], b[2], f.size)>>), Nothing, fs)
        table == [what |-> "table", pos |-> data.size, checks |-> checks, count |-> count,
                  len |-> 17 + (IF checks THEN 12 ELSE 8) * Len(fs),
                  entries |-> [n \in 1..Len(fs) |-> [usize |-> fs[n][1], csize |-> fs[n][2]]]]
        c == AsContent("zstd", Grown(data, table, <<>>))
    IN  IF count = Len(fs) THEN c ELSE Unsound(c, c.size)

ZstdFrames == UNION {[1..n -> {<<3, 2>>, <<2, 4>>, <<0, 1>>}] : n \in 0..3}
ZstdFiles == {ZstdContent(fs, k, Len(fs)) : fs \in ZstdFrames, k \in BOOLEAN}
ZstdCut == {ZstdContent(<<<<3, 2>>, <<2, 4>>>>, k, n) : k \in BOOLEAN, n \in {1, 3}}
           \cup {Unsound(ZstdContent(<<<<3, 2>>>>, k, 1), n) : k \in BOOLEAN, n \in {0, 2, 12}}

-----------------------------------------------------------------------------
Plain(k, us) == [kind |-> k, size |-> 10 * Len(us), fields |-> <<>>, scan |-> {},
                 list |-> Tiles([n \in 1..Len(us) |-> AsBlock(us[n], 10, 10 * (n - 1))])]
Meeting(k, us, troubles) == [Plain(k, us) EXCEPT !.scan = troubles]

At(dir, stem, ext) == [dir |-> dir, name |-> <<stem, ext>>]
ALzo == At("d", "a", "lzo")
AXz == At("d", "a", "xz")
AZst == At("d", "a", "zst")
AGz == At("d", "a", "gz")
ABz2 == At("d", "a", "bz2")
OtherGz == At("locked", "a", "gz")
OtherBz2 == At("locked", "a", "bz2")
ATgz == At("d", "a", "tgz")
DotGz == At("d", "", "gz")
MCSources == {ALzo, AXz, AZst, AGz, ABz2, OtherGz, OtherBz2, DotGz, ATgz}

Only(s, c) == [t \in MCSources |-> IF t = s THEN c ELSE Absent]
Together(ss) == [t \in MCSources |->
    IF t \notin ss THEN Absent
    ELSE CASE t = AGz -> Plain("gzip", <<3, 4>>)
           [] t = ABz2 -> Plain("bzip2", <<5>>)
           [] t = OtherBz2 -> Plain("bzip2", <<4, 4>>)
           [] t = OtherGz -> Plain("gzip", <<1, 1, 1>>)
           [] t = ATgz -> Plain("gzip", <<6>>)
           [] t = DotGz -> Plain("gzip", <<2>>)
           [] t = ALzo -> LzopContent(<<<<{"AdlerDec"}, <<<<3, 2>>>>>>>>)
           [] t = AXz -> XzContent(<<<<<<<<3, 2>>>>, 1>>>>)]

(* The index of a gzip file that holds nothing, in another one's place.    *)
Hollow == [Together({AGz, OtherGz}) EXCEPT ![AGz] = Plain("gzip", <<>>)]

(* What the scans of gzip and bzip2 files may meet; an entry of the first  *)
(* and of the second file holds nothing.                                   *)
GzipScans == {Plain("gzip", <<3, 0, 4>>), Meeting("gzip", <<3, 0>>, {"OutOfInput"}),
              Meeting("gzip", <<>>, {"Damaged"})}
Bzip2Scans == {Meeting("bzip2", <<5, 1, 2>>, t) : t \in
                  {{"Damaged"}, {"LevelLost"}, {"BlockAtSeam"}, {"Damaged", "BlockAtSeam"}}}
Scans == {[Together({AGz, ABz2}) EXCEPT ![AGz] = c] : c \in GzipScans}
         \cup {[Together({AGz, OtherGz}) EXCEPT ![AGz] = c] : c \in GzipScans}
         \cup {[Together({ABz2, OtherBz2}) EXCEPT ![ABz2] = c] : c \in Bzip2Scans}

MCDisks == {Only(ALzo, c) : c \in LzopFiles \cup LzopCut}
           \cup {Only(AXz, c) : c \in XzFiles \cup XzCut}
           \cup {Only(AZst, c) : c \in ZstdFiles \cup ZstdCut}
           \cup {Together({AGz, ABz2}), Together({AGz, OtherGz}), Hollow,
                 Together({OtherGz, ATgz, DotGz, AXz, ALzo})}
           \cup Scans

MCReplacements == [t \in MCSources |->
    CASE t = AGz -> {Plain("gzip", <<8>>)} [] t = ABz2 -> {Absent} [] OTHER -> {}]

MCArgLists == {<<ALzo>>, <<AXz>>, <<AZst>>, <<AGz, ABz2>>, <<ABz2, AGz>>, <<AGz, OtherGz>>, <<AGz>>,
               <<ABz2, OtherBz2>>, <<OtherBz2>>, <<OtherGz, ATgz, DotGz, AXz, ALzo>>}
=============================================================================
