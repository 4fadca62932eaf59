--------------------------- MODULE FileListProofs ---------------------------
(***************************************************************************)
(* What FileList says, for all sources, command lines and mounts, whatever *)
(* the files hold and whoever replaces them: whose list a name is served   *)
(* with, that the list is the file's and sound, and that every source that *)
(* can be served has its name.                                             *)
(***************************************************************************)
EXTENDS FileList, FiniteSetTheorems, NaturalsInduction, WellFoundedInduction, TLAPS

(* Where a source is being opened and no index has been read.              *)
Stages == {"check", "load", "format", "blocks", "member", "build", "built", "table",
           "padding", "footer", "indexed"}

(* Content c is what source s holds, unless somebody replaced it.          *)
Fresh(c, s) == c = disk[s] \/ s \in replaced

(* ... or another source's index has passed for its own.                   *)
OwnOrShared(c, s) ==
    \/ Fresh(c, s)
    \/ indexRoot /\ \E t \in Sources \ {s} : t.name = s.name

Paths(s) == {<<s.dir, s.name>>, <<"root", s.name>>}

TypesOK ==
    /\ DOMAIN disk = Sources /\ DOMAIN index = IndexPaths
    /\ args \in Seq(Sources) /\ arg \in Nat \ {0}
    /\ indexRoot \in BOOLEAN

IndexOK ==
    \A p \in IndexPaths : index[p] # None =>
        \E t \in Sources : p \in Paths(t) /\ Fresh(index[p].made, t)

OpenedOK ==
    /\ pc \in Stages \cup {"loaded"} => Source \in Sources
    /\ pc \in Stages => made = file /\ Fresh(file, Source)
    /\ pc = "loaded" => OwnOrShared(made, Source)

ServedOK ==
    \A d \in DOMAIN mMap :
        mMap[d].source \in Sources /\ OwnOrShared(mMap[d].made, mMap[d].source)

Inv == TypesOK /\ IndexOK /\ OpenedOK /\ ServedOK

-----------------------------------------------------------------------------
LEMMA InitInv == Init => Inv
<1> SUFFICES ASSUME Init PROVE Inv
  OBVIOUS
<1>1. DOMAIN disk = Sources /\ DOMAIN index = IndexPaths
  BY SourcesAssumption DEF Init
<1>2. args = <<>> /\ arg = 1 /\ indexRoot = FALSE /\ mMap = <<>> /\ pc = "down"
  BY DEF Init
<1>3. \A p \in IndexPaths : index[p] = None
  BY DEF Init
<1>4. TypesOK
  <2>1. args \in Seq(Sources)
    BY <1>2
  <2>2. arg \in Nat \ {0}
    BY <1>2
  <2>3. indexRoot \in BOOLEAN
    BY <1>2
  <2> QED
    BY <1>1, <2>1, <2>2, <2>3 DEF TypesOK
<1>5. IndexOK
  BY <1>3 DEF IndexOK
<1>6. OpenedOK
  BY <1>2 DEF OpenedOK, Stages
<1>7. ServedOK
  BY <1>2 DEF ServedOK
<1> QED
  BY <1>4, <1>5, <1>6, <1>7 DEF Inv

(* Steps of a walk leave alone whose content it is.                        *)
LEMMA WalkKeepsInv ==
  ASSUME Inv, pc \in Stages,
         UNCHANGED <<disk, replaced, index, args, indexRoot, arg, file, made, mMap>>
  PROVE  Inv'
<1>1. made = file /\ Fresh(file, Source) /\ Source \in Sources
  BY DEF Inv, OpenedOK
<1>2. OpenedOK'
  BY <1>1 DEF OpenedOK, OwnOrShared, Fresh, Source
<1> QED
  BY <1>2 DEF Inv, TypesOK, IndexOK, ServedOK, OwnOrShared, Fresh, IndexPaths

(* Steps that forget the source being opened, or have none yet.            *)
LEMMA IdleKeepsInv ==
  ASSUME Inv, UNCHANGED <<disk, replaced, index, args, indexRoot, mMap>>,
         arg' \in Nat \ {0}, pc' \notin Stages \cup {"loaded"}
  PROVE  Inv'
BY DEF Inv, TypesOK, IndexOK, OpenedOK, ServedOK, OwnOrShared, Fresh, IndexPaths

LEMMA MountKeepsInv == ASSUME Inv, Mount PROVE Inv'
<1>1. /\ UNCHANGED <<disk, replaced, index>> /\ indexRoot' \in BOOLEAN /\ arg' = 1
      /\ mMap' = <<>> /\ pc' = "next" /\ args' \in Seq(Sources)
  BY SourcesAssumption DEF Mount, stored
<1>2. TypesOK'
  BY <1>1 DEF Inv, TypesOK, IndexPaths
<1>3. IndexOK'
  BY <1>1 DEF Inv, IndexOK, Fresh, IndexPaths
<1>4. OpenedOK'
  BY <1>1 DEF OpenedOK, Stages
<1>5. ServedOK'
  BY <1>1 DEF ServedOK
<1> QED
  BY <1>2, <1>3, <1>4, <1>5 DEF Inv

LEMMA UnmountKeepsInv == ASSUME Inv, Unmount PROVE Inv'
<1>1. /\ UNCHANGED <<disk, replaced, index>> /\ indexRoot' = FALSE /\ arg' = 1
      /\ mMap' = <<>> /\ pc' = "down" /\ args' = <<>>
  BY DEF Unmount, stored
<1>2. args' \in Seq(Sources) /\ arg' \in Nat \ {0}
  BY <1>1
<1>3. indexRoot' \in BOOLEAN
  BY <1>1
<1>4. TypesOK'
  BY <1>1, <1>2, <1>3 DEF Inv, TypesOK, IndexPaths
<1>5. IndexOK'
  BY <1>1 DEF Inv, IndexOK, Fresh, IndexPaths
<1>6. OpenedOK'
  BY <1>1 DEF OpenedOK, Stages
<1>7. ServedOK'
  BY <1>1 DEF ServedOK
<1> QED
  BY <1>4, <1>5, <1>6, <1>7 DEF Inv

LEMMA OpenSourceKeepsInv == ASSUME Inv, OpenSource PROVE Inv'
<1>1. /\ UNCHANGED <<disk, replaced, index, args, indexRoot, arg, mMap>>
      /\ file' = disk[Source] /\ made' = disk[Source] /\ arg <= Len(args)
      /\ pc' \in {"check", "error"}
  BY DEF OpenSource, Holding, stored, command
<1>2. Source \in Sources
  BY <1>1 DEF Inv, TypesOK, Source
<1>3. OpenedOK'
  BY <1>1, <1>2 DEF OpenedOK, Fresh, Source, Stages
<1> QED
  BY <1>1, <1>3 DEF Inv, TypesOK, IndexOK, ServedOK, OwnOrShared, Fresh, IndexPaths

LEMMA NextOpenerKeepsInv == ASSUME Inv, NextOpener PROVE Inv'
<1>1. /\ UNCHANGED <<disk, replaced, index, args, indexRoot, arg, mMap>>
      /\ file' = file /\ made' = file /\ pc = "format" /\ pc' = "check"
  BY DEF NextOpener, Holding, stored, command
<1>2. made = file
  BY <1>1 DEF Inv, OpenedOK, Stages
<1> QED
  BY <1>1, <1>2, WalkKeepsInv DEF Stages

-----------------------------------------------------------------------------
(* An index that is read is the source's own, or that of another source of *)
(* its name in the index root.                                             *)
LEMMA ReadIndexKeepsInv == ASSUME Inv, ReadIndex PROVE Inv'
<1> DEFINE p == IndexPath(Source)
<1>1. /\ UNCHANGED <<disk, replaced, index, args, indexRoot, arg, mMap>>
      /\ pc = "load" /\ pc' = "loaded" /\ index[p] # None /\ made' = index[p].made
  BY DEF ReadIndex, stored, command
<1>2. Source \in Sources
  BY <1>1 DEF Inv, OpenedOK, Stages
<1>3. p \in IndexPaths /\ p \in Paths(Source)
  BY <1>2 DEF IndexPath, IndexPaths, Paths
<1>4. PICK t \in Sources : p \in Paths(t) /\ Fresh(index[p].made, t)
  BY <1>1, <1>3 DEF Inv, IndexOK
<1>5. OwnOrShared(index[p].made, Source)
  <2>1. CASE indexRoot
    <3>1. t.name = Source.name
      BY <1>4, <2>1 DEF Paths, IndexPath
    <3> QED
      BY <1>4, <2>1, <3>1 DEF OwnOrShared
  <2>2. CASE ~indexRoot
    <3>1. t = Source
      BY <1>2, <1>4, <2>2, SourcesAssumption DEF Paths, IndexPath
    <3> QED
      BY <1>4, <3>1 DEF OwnOrShared
  <2> QED
    BY <2>1, <2>2
<1>6. OpenedOK'
  BY <1>1, <1>2, <1>5 DEF OpenedOK, OwnOrShared, Fresh, Source, Stages
<1> QED
  BY <1>1, <1>6 DEF Inv, TypesOK, IndexOK, ServedOK, OwnOrShared, Fresh, IndexPaths

LEMMA WriteIndexKeepsInv == ASSUME Inv, WriteIndex PROVE Inv'
<1> DEFINE p == IndexPath(Source)
<1>1. /\ UNCHANGED <<disk, replaced, args, indexRoot, arg, file, made, mMap>>
      /\ pc = "built"
  BY DEF WriteIndex, command, walk
<1>2. CASE UNCHANGED index
  BY <1>1, <1>2, WalkKeepsInv DEF Stages
<1>3. CASE /\ index' = [index EXCEPT ![p] = [list |-> mBlocks, made |-> made]]
           /\ pc' = "loaded"
  <2>1. made = file /\ Fresh(made, Source) /\ Source \in Sources
    BY <1>1 DEF Inv, OpenedOK, Stages
  <2>2. p \in Paths(Source)
    BY DEF IndexPath, Paths
  <2>3. TypesOK'
    BY <1>1, <1>3 DEF Inv, TypesOK, IndexPaths
  <2>4. IndexOK'
    <3> SUFFICES ASSUME NEW q \in IndexPaths, index'[q] # None
                 PROVE  \E t \in Sources : q \in Paths(t) /\ Fresh(index'[q].made, t)
      BY <1>1 DEF IndexOK, IndexPaths, Paths, Fresh
    <3>1. CASE q = p
      BY <1>3, <2>1, <2>2, <3>1 DEF Inv, TypesOK
    <3>2. CASE q # p
      BY <1>3, <3>2 DEF Inv, TypesOK, IndexOK
    <3> QED
      BY <3>1, <3>2
  <2>5. OpenedOK'
    BY <1>1, <1>3, <2>1 DEF OpenedOK, OwnOrShared, Fresh, Source, Stages
  <2>6. ServedOK'
    BY <1>1 DEF Inv, ServedOK, OwnOrShared, Fresh
  <2> QED
    BY <2>3, <2>4, <2>5, <2>6 DEF Inv
<1> QED
  BY <1>2, <1>3 DEF WriteIndex

LEMMA AddToMapKeepsInv == ASSUME Inv, AddToMap PROVE Inv'
<1> DEFINE d == DestName(Openers[opener], Source.name)
           e == [source |-> Source, list |-> mBlocks, made |-> made]
<1>1. /\ UNCHANGED <<disk, replaced, index, args, indexRoot>> /\ arg' = arg + 1
      /\ pc = "loaded" /\ pc' = "next"
      /\ mMap' = [n \in DOMAIN mMap \cup {d} |-> IF n = d THEN e ELSE mMap[n]]
  BY DEF AddToMap, stored, command
<1> HIDE DEF d
<1>2. Source \in Sources /\ OwnOrShared(made, Source)
  BY <1>1 DEF Inv, OpenedOK
<1>3. e.source \in Sources /\ OwnOrShared(e.made, e.source)
  BY <1>2
<1> HIDE DEF e
<1>4. \A n \in DOMAIN mMap' :
         mMap'[n].source \in Sources /\ OwnOrShared(mMap'[n].made, mMap'[n].source)
  BY <1>1, <1>3 DEF Inv, ServedOK
<1>5. ServedOK'
  BY <1>1, <1>4 DEF ServedOK, OwnOrShared, Fresh
<1> QED
  BY <1>1, <1>5 DEF Inv, TypesOK, IndexOK, OpenedOK, Fresh, IndexPaths, Stages

(* A list may become stale; then its source has been replaced.             *)
LEMMA ReplaceKeepsInv == ASSUME Inv, Replace PROVE Inv'
<1>1. PICK s \in Sources : \E c \in Replacements[s] :
        disk' = [disk EXCEPT ![s] = c] /\ replaced' = replaced \cup {s}
  BY DEF Replace
<1>2. UNCHANGED <<index, args, indexRoot, arg, file, made, mMap, pc>>
  BY DEF Replace, command, walk
<1>3. ASSUME NEW c, NEW t \in Sources, Fresh(c, t) PROVE Fresh(c, t)'
  BY <1>1, <1>3 DEF Inv, TypesOK, Fresh
<1>4. TypesOK'
  BY <1>1, <1>2 DEF Inv, TypesOK, IndexPaths
<1>5. IndexOK'
  BY <1>2, <1>3 DEF Inv, IndexOK, IndexPaths
<1>6. OpenedOK'
  BY <1>2, <1>3 DEF Inv, OpenedOK, OwnOrShared, Source
<1>7. ServedOK'
  BY <1>2, <1>3 DEF Inv, ServedOK, OwnOrShared
<1> QED
  BY <1>4, <1>5, <1>6, <1>7 DEF Inv

-----------------------------------------------------------------------------
(* The walks of the formats.                                               *)
LEMMA LzopKeepsInv == ASSUME Inv, WalkLzop PROVE Inv'
<1>1. Lzop!Next /\ UNCHANGED <<disk, replaced, index, args, indexRoot, arg, made, mMap>>
  BY DEF WalkLzop, stored, command
<1>2. pc \in Stages /\ file' = file
  BY <1>1 DEF Lzop!Next, Lzop!CheckFileType, Lzop!NextMember, Lzop!ReadHeaders,
       Lzop!FindBlock, Lzop!EndMember, Lzop!OutOfFile, Stages
<1> QED
  BY <1>1, <1>2, WalkKeepsInv

LEMMA PixzKeepsInv == ASSUME Inv, WalkPixz PROVE Inv'
<1>1. Pixz!Next /\ UNCHANGED <<disk, replaced, index, args, indexRoot, arg, made, mMap>>
  BY DEF WalkPixz, stored, command
<1>2. pc \in Stages /\ file' = file
  <2>1. CASE Pixz!CheckFileType
    BY <2>1 DEF Pixz!CheckFileType, Stages
  <2>2. CASE Pixz!SkipPadding
    BY <2>2 DEF Pixz!SkipPadding, Stages
  <2>3. CASE Pixz!ReadFooter
    BY <2>3 DEF Pixz!ReadFooter, Stages
  <2>4. CASE Pixz!BadFooter
    BY <2>4 DEF Pixz!BadFooter, Stages
  <2> QED
    BY <1>1, <2>1, <2>2, <2>3, <2>4 DEF Pixz!Next
<1> QED
  BY <1>1, <1>2, WalkKeepsInv

LEMMA ZstdKeepsInv == ASSUME Inv, WalkZstd PROVE Inv'
<1>1. Zstd!Next /\ UNCHANGED <<disk, replaced, index, args, indexRoot, arg, made, mMap>>
  BY DEF WalkZstd, stored, command
<1>2. pc \in Stages /\ file' = file
  BY <1>1 DEF Zstd!Next, Zstd!CheckFileType, Zstd!FindTable, Zstd!ReadEntry,
       Zstd!EndTable, Stages
<1> QED
  BY <1>1, <1>2, WalkKeepsInv

LEMMA AddKeepsInv == ASSUME Inv, Add PROVE Inv'
<1>1. CASE OpenSource
  BY <1>1, OpenSourceKeepsInv
<1>2. CASE CheckFileType
  BY <1>2, WalkKeepsInv DEF CheckFileType, stored, command, walk, Stages
<1>3. CASE WalkLzop \/ WalkPixz \/ WalkZstd
  BY <1>3, LzopKeepsInv, PixzKeepsInv, ZstdKeepsInv
<1>4. CASE NextOpener
  BY <1>4, NextOpenerKeepsInv
<1>5. CASE Skip
  <2>1. /\ UNCHANGED <<disk, replaced, index, args, indexRoot, mMap>>
        /\ arg' = arg + 1 /\ pc' = "next"
    BY <1>5 DEF Skip, stored, command
  <2> QED
    BY <2>1, IdleKeepsInv DEF Inv, TypesOK, Stages
<1>6. CASE ReadIndex
  BY <1>6, ReadIndexKeepsInv
<1>7. CASE StartBuild
  BY <1>7, WalkKeepsInv DEF StartBuild, stored, command, walk, Stages
<1>8. CASE BuildIndex
  BY <1>8, WalkKeepsInv DEF BuildIndex, stored, command, Stages
<1>9. CASE WriteIndex
  BY <1>9, WriteIndexKeepsInv
<1>10. CASE Iterate
  BY <1>10, WalkKeepsInv DEF Iterate, stored, command, Stages
<1>11. CASE NoBlocks
  <2>1. /\ UNCHANGED <<disk, replaced, index, args, indexRoot, arg, mMap>> /\ pc' = "error"
    BY <1>11 DEF NoBlocks, stored, command
  <2> QED
    BY <2>1, IdleKeepsInv DEF Inv, TypesOK, Stages
<1>12. CASE AddToMap
  BY <1>12, AddToMapKeepsInv
<1>13. CASE Serve
  <2>1. /\ UNCHANGED <<disk, replaced, index, args, indexRoot, arg, mMap>> /\ pc' = "serve"
    BY <1>13 DEF Serve, stored, command
  <2> QED
    BY <2>1, IdleKeepsInv DEF Inv, TypesOK, Stages
<1> QED
  BY <1>1, <1>2, <1>3, <1>4, <1>5, <1>6, <1>7, <1>8, <1>9, <1>10, <1>11, <1>12, <1>13 DEF Add

-----------------------------------------------------------------------------
(* Whose content stands behind every index, every source being opened and  *)
(* every name, in all mounts and between them.                             *)
THEOREM FileListInvariant == Spec => []Inv
<1>1. Init => Inv
  BY InitInv
<1>2. Inv /\ [Next]_vars => Inv'
  <2> SUFFICES ASSUME Inv, [Next]_vars PROVE Inv'
    OBVIOUS
  <2>1. CASE Mount
    BY <2>1, MountKeepsInv
  <2>2. CASE Add
    BY <2>2, AddKeepsInv
  <2>3. CASE Unmount
    BY <2>3, UnmountKeepsInv
  <2>4. CASE Replace
    BY <2>4, ReplaceKeepsInv
  <2>5. CASE UNCHANGED vars
    BY <2>5 DEF vars, Inv, TypesOK, IndexOK, OpenedOK, ServedOK, OwnOrShared, Fresh,
         IndexPaths, Source
  <2> QED
    BY <2>1, <2>2, <2>3, <2>4, <2>5 DEF Next
<1> QED
  BY <1>1, <1>2, PTL DEF Spec

(* StaleOnlyWhen: an index is used without a look at the file it is for    *)
(* (src/CompressedFile.cc:100), and yet a source has another content's     *)
(* list only if it was replaced, or shares its index in an index root.     *)
THEOREM ListsAreStaleOnlyWhen == Spec => []StaleOnlyWhen
<1>1. Inv => StaleOnlyWhen
  BY DEF Inv, ServedOK, OwnOrShared, Fresh, StaleOnlyWhen, Served
<1> QED
  BY <1>1, FileListInvariant, PTL
-----------------------------------------------------------------------------
(* Lists.                                                                  *)
LEMMA LeastNumber ==
  ASSUME NEW S \in SUBSET Nat, S # {}
  PROVE  \E n \in S : \A m \in S : n <= m
<1> DEFINE R == OpToRel(<, Nat)
<1>1. \A x, y \in Nat : <<x, y>> \in R <=> x < y
  BY DEF OpToRel
<1>2. IsWellFoundedOn(R, Nat)
  BY NatLessThanWellFounded
<1> HIDE DEF R
<1>3. PICK x \in S : \A y \in S : ~(<<y, x>> \in R)
  BY <1>2, WFMin
<1>4. \A y \in S : ~(y < x)
  BY <1>1, <1>3
<1> QED
  BY <1>4

Entry == [usize : Nat, csize : Nat, uoff : Nat, coff : Nat]

LEMMA EntryFacts ==
  ASSUME NEW l \in Seq(Entry)
  PROVE  /\ Len(l) \in Nat
         /\ \A n \in 1..Len(l) :
              /\ l[n] \in Entry /\ l[n].usize \in Nat /\ l[n].csize \in Nat
              /\ l[n].uoff \in Nat /\ l[n].coff \in Nat
         /\ Size(l) \in Nat
<1>1. Len(l) \in Nat /\ \A n \in 1..Len(l) : l[n] \in Entry
  OBVIOUS
<1>2. \A e \in Entry : e.usize \in Nat /\ e.csize \in Nat /\ e.uoff \in Nat /\ e.coff \in Nat
  BY DEF Entry
<1>3. l # <<>> => Len(l) \in 1..Len(l)
  BY <1>1
<1>4. l # <<>> => l[Len(l)].uoff \in Nat /\ l[Len(l)].usize \in Nat
  BY <1>1, <1>2, <1>3
<1>5. Size(l) \in Nat
  BY <1>4 DEF Size
<1> QED
  BY <1>1, <1>2, <1>5

LEMMA ListedFacts ==
  ASSUME NEW l, NEW blocks, Lists(l, blocks)
  PROVE  /\ l \in Seq(Entry) /\ Len(l) \in Nat
         /\ \A n \in 1..Len(l) :
              /\ l[n] \in Entry /\ l[n].usize \in Nat /\ l[n].csize \in Nat
              /\ l[n].uoff \in Nat /\ l[n].coff \in Nat /\ Part(l[n]) \in blocks
         /\ \A b \in blocks : \E n \in 1..Len(l) : b = Part(l[n])
         /\ Size(l) \in Nat
<1>1. l \in Seq(Entry)
  BY DEF Lists, Entry
<1> QED
  BY <1>1, EntryFacts DEF Lists

LEMMA ListedPlaces ==
  ASSUME NEW l, NEW blocks, Lists(l, blocks), NEW b \in blocks
  PROVE  b.coff \in Nat
<1>1. PICK n \in 1..Len(l) : b = Part(l[n])
  BY ListedFacts
<1>2. l[n].coff \in Nat
  BY ListedFacts
<1> QED
  BY <1>1, <1>2 DEF Part

LEMMA NothingListed == Lists(<<>>, {}) /\ Size(<<>>) = 0
<1>1. <<>> \in Seq(Entry) /\ Len(<<>>) = 0
  OBVIOUS
<1>2. {Part(<<>>[n]) : n \in 1..Len(<<>>)} = {}
  BY <1>1
<1> QED
  BY <1>1, <1>2 DEF Lists, Size, Entry

(* A block farther back in the file is added at the end of a list.         *)
LEMMA ListGrows ==
  ASSUME NEW l, NEW blocks, Lists(l, blocks), NEW b \in Entry,
         b.uoff = Size(l), \A c \in blocks : c.coff < b.coff
  PROVE  Lists(Append(l, b), blocks \cup {Part(b)}) /\ Size(Append(l, b)) = b.uoff + b.usize
<1> DEFINE k == Append(l, b)
<1>1. /\ l \in Seq(Entry) /\ Len(l) \in Nat /\ k \in Seq(Entry) /\ Len(k) = Len(l) + 1
      /\ k[Len(l) + 1] = b /\ \A n \in 1..Len(l) : k[n] = l[n]
  BY ListedFacts
<1> HIDE DEF k
<1>2. {Part(k[n]) : n \in 1..Len(k)} = blocks \cup {Part(b)}
  <2>1. ASSUME NEW n \in 1..Len(k) PROVE Part(k[n]) \in blocks \cup {Part(b)}
    <3>1. n \in 1..Len(l) \/ n = Len(l) + 1
      BY <1>1
    <3> QED
      BY <1>1, <3>1, ListedFacts
  <2>2. ASSUME NEW c \in blocks PROVE \E n \in 1..Len(k) : c = Part(k[n])
    <3>1. PICK n \in 1..Len(l) : c = Part(l[n])
      BY ListedFacts
    <3> QED
      BY <1>1, <3>1
  <2>3. Len(l) + 1 \in 1..Len(k)
    BY <1>1
  <2> QED
    BY <1>1, <2>1, <2>2, <2>3
<1>3. ASSUME NEW m \in 1..Len(k), NEW n \in 1..Len(k), m < n PROVE k[m].coff < k[n].coff
  <2>1. m \in 1..Len(l) /\ (n \in 1..Len(l) \/ n = Len(l) + 1)
    BY <1>1, <1>3
  <2>2. CASE n \in 1..Len(l)
    BY <1>1, <1>3, <2>1, <2>2 DEF Lists
  <2>3. CASE n = Len(l) + 1
    <3>1. Part(l[m]) \in blocks /\ Part(l[m]).coff = l[m].coff
      BY <2>1, ListedFacts DEF Part
    <3> QED
      BY <1>1, <2>1, <2>3, <3>1
  <2> QED
    BY <2>1, <2>2, <2>3
<1>4. ASSUME NEW n \in 1..Len(k)
      PROVE  k[n].uoff = IF n = 1 THEN 0 ELSE k[n - 1].uoff + k[n - 1].usize
  <2>1. CASE n \in 1..Len(l)
    <3>1. k[n] = l[n] /\ (n # 1 => n - 1 \in 1..Len(l) /\ k[n - 1] = l[n - 1])
      BY <1>1, <2>1
    <3> QED
      BY <2>1, <3>1 DEF Lists
  <2>2. CASE n = Len(l) + 1
    <3>1. k[n].uoff = Size(l)
      BY <1>1, <2>2
    <3>2. CASE l = <<>>
      BY <1>1, <2>2, <3>1, <3>2 DEF Size
    <3>3. CASE l # <<>>
      <4>1. n # 1 /\ n - 1 = Len(l) /\ Len(l) \in 1..Len(l)
        BY <1>1, <2>2, <3>3
      <4> QED
        BY <1>1, <3>1, <3>3, <4>1 DEF Size
    <3> QED
      BY <3>2, <3>3
  <2> QED
    BY <1>1, <2>1, <2>2
<1>5. k \in Seq([usize : Nat, csize : Nat, uoff : Nat, coff : Nat])
  BY <1>1 DEF Entry
<1>6. Lists(k, blocks \cup {Part(b)})
  BY <1>2, <1>3, <1>4, <1>5 DEF Lists
<1>7. Size(k) = b.uoff + b.usize
  <2>1. k # <<>>
    BY <1>1
  <2> QED
    BY <1>1, <2>1 DEF Size
<1> QED
  BY <1>6, <1>7 DEF k

(* The blocks of a file make one list only.                                *)
LEMMA OneList ==
  ASSUME NEW l, NEW m, NEW blocks, Lists(l, blocks), Lists(m, blocks)
  PROVE  l = m
<1>1. /\ l \in Seq(Entry) /\ m \in Seq(Entry) /\ Len(l) \in Nat /\ Len(m) \in Nat
      /\ \A n \in 1..Len(l) : l[n].coff \in Nat /\ Part(l[n]) \in blocks /\ l[n] \in Entry
      /\ \A n \in 1..Len(m) : m[n].coff \in Nat /\ Part(m[n]) \in blocks /\ m[n] \in Entry
  BY ListedFacts
<1>2. ASSUME NEW x, NEW y, Lists(x, blocks), Lists(y, blocks),
             x \in Seq(Entry), y \in Seq(Entry), Len(x) \in Nat, Len(y) \in Nat,
             \A n \in 1..Len(x) : x[n].coff \in Nat /\ Part(x[n]) \in blocks /\ x[n] \in Entry,
             \A n \in 1..Len(y) : y[n].coff \in Nat /\ Part(y[n]) \in blocks /\ y[n] \in Entry
      PROVE  \A n \in 1..Len(x) : n \in 1..Len(y) /\ x[n] = y[n]
  <2> DEFINE differ == {n \in 1..Len(x) : ~(n \in 1..Len(y) /\ x[n] = y[n])}
  <2> SUFFICES ASSUME differ # {} PROVE FALSE
    OBVIOUS
  <2>1. differ \in SUBSET Nat
    BY <1>2
  <2>2. PICK n \in differ : \A k \in differ : n <= k
    BY <2>1, LeastNumber
  <2>3. n \in 1..Len(x) /\ ~(n \in 1..Len(y) /\ x[n] = y[n])
    BY <2>2
  <2>4. ASSUME NEW k \in 1..(n - 1) PROVE k \in 1..Len(x) /\ k \in 1..Len(y) /\ x[k] = y[k]
    <3>1. k \in 1..Len(x) /\ ~(n <= k)
      BY <1>2, <2>3
    <3>2. k \notin differ
      BY <2>2, <3>1
    <3> QED
      BY <3>1, <3>2
  <2> HIDE DEF differ
  <2>5. PICK q \in 1..Len(y) : Part(x[n]) = Part(y[q])
    <3>1. Part(x[n]) \in blocks
      BY <1>2, <2>3
    <3> QED
      BY <1>2, <3>1, ListedFacts
  <2>6. q >= n
    <3> SUFFICES ASSUME q < n PROVE FALSE
      BY <1>2, <2>3
    <3>1. q \in 1..(n - 1) /\ q \in 1..Len(x)
      BY <1>2, <2>3
    <3>2. x[q].coff < x[n].coff
      BY <1>2, <2>3, <3>1 DEF Lists
    <3>3. x[q].coff = x[n].coff
      BY <2>4, <2>5, <3>1 DEF Part
    <3> QED
      BY <1>2, <2>3, <3>1, <3>2, <3>3
  <2>7. n \in 1..Len(y)
    BY <1>2, <2>3, <2>6
  <2>8. PICK p \in 1..Len(x) : Part(y[n]) = Part(x[p])
    <3>1. Part(y[n]) \in blocks
      BY <1>2, <2>7
    <3> QED
      BY <1>2, <3>1, ListedFacts
  <2>9. p >= n
    <3> SUFFICES ASSUME p < n PROVE FALSE
      BY <1>2, <2>3
    <3>1. p \in 1..(n - 1) /\ p \in 1..Len(y)
      BY <1>2, <2>3, <2>7
    <3>2. y[p].coff < y[n].coff
      BY <1>2, <2>7, <3>1 DEF Lists
    <3>3. y[p].coff = y[n].coff
      BY <2>4, <2>8, <3>1 DEF Part
    <3> QED
      BY <1>2, <2>7, <3>1, <3>2, <3>3
  <2>10. x[n].coff = y[q].coff /\ y[n].coff = x[p].coff
    BY <2>5, <2>8 DEF Part
  <2>11. x[n].coff \in Nat /\ y[n].coff \in Nat
    BY <1>2, <2>3, <2>7
  <2>12. x[n].coff <= x[p].coff
    <3>1. CASE p = n
      BY <2>11, <3>1
    <3>2. CASE p # n
      <4>1. n < p
        BY <1>2, <2>3, <2>9, <3>2
      <4>2. x[n].coff < x[p].coff
        BY <1>2, <2>3, <4>1 DEF Lists
      <4> QED
        BY <1>2, <2>11, <4>2
    <3> QED
      BY <3>1, <3>2
  <2>13. q = n
    <3> SUFFICES ASSUME q # n PROVE FALSE
      OBVIOUS
    <3>1. n < q
      BY <1>2, <2>6, <2>7
    <3>2. y[n].coff < y[q].coff
      BY <1>2, <2>7, <3>1 DEF Lists
    <3> QED
      BY <2>10, <2>11, <2>12, <3>2
  <2>14. Part(x[n]) = Part(y[n])
    BY <2>5, <2>13
  <2>15. x[n].uoff = y[n].uoff
    <3>1. n # 1 => n - 1 \in 1..(n - 1) /\ n - 1 \in 1..Len(x) /\ n - 1 \in 1..Len(y)
      BY <1>2, <2>3, <2>7
    <3>2. n # 1 => x[n - 1] = y[n - 1]
      BY <2>4, <3>1
    <3>3. n # 1 => x[n].uoff = x[n - 1].uoff + x[n - 1].usize
      BY <1>2, <2>3 DEF Lists
    <3>4. n # 1 => y[n].uoff = y[n - 1].uoff + y[n - 1].usize
      BY <1>2, <2>7 DEF Lists
    <3>5. n = 1 => x[n].uoff = 0 /\ y[n].uoff = 0
      BY <1>2, <2>3, <2>7 DEF Lists
    <3> QED
      BY <3>2, <3>3, <3>4, <3>5
  <2>16. x[n] = y[n]
    <3>1. /\ x[n].usize = y[n].usize /\ x[n].csize = y[n].csize /\ x[n].coff = y[n].coff
      BY <2>14 DEF Part
    <3>2. x[n] \in Entry /\ y[n] \in Entry
      BY <1>2, <2>3, <2>7
    <3> QED
      BY <2>15, <3>1, <3>2 DEF Entry
  <2> QED
    BY <2>3, <2>7, <2>16
<1>3. \A n \in 1..Len(l) : n \in 1..Len(m) /\ l[n] = m[n]
  BY <1>1, <1>2
<1>4. \A n \in 1..Len(m) : n \in 1..Len(l) /\ m[n] = l[n]
  BY <1>1, <1>2
<1>5. Len(l) = Len(m)
  <2>1. Len(l) > 0 => Len(l) \in 1..Len(l)
    BY <1>1
  <2>2. Len(m) > 0 => Len(m) \in 1..Len(m)
    BY <1>1
  <2>3. Len(l) <= Len(m)
    BY <1>1, <1>3, <2>1
  <2>4. Len(m) <= Len(l)
    BY <1>1, <1>4, <2>2
  <2> QED
    BY <1>1, <2>3, <2>4
<1> QED
  BY <1>1, <1>3, <1>5

-----------------------------------------------------------------------------
(* The fields of a file stand one behind the other.                        *)
Place(f, k) == IF k = 1 THEN 0 ELSE f.fields[k - 1].pos + f.fields[k - 1].len

InRow(f) ==
    /\ f.size \in Nat /\ Len(f.fields) \in Nat
    /\ \A k \in 1..Len(f.fields) :
          /\ f.fields[k].pos = Place(f, k)
          /\ f.fields[k].pos \in Nat /\ f.fields[k].pos < f.size
          /\ f.fields[k].len \in Nat \ {0}

LEMMA PlacesAreNumbers ==
  ASSUME NEW f, InRow(f), NEW k \in 1..(Len(f.fields) + 1)
  PROVE  Place(f, k) \in Nat
<1>1. k # 1 => k - 1 \in 1..Len(f.fields)
  BY DEF InRow
<1>2. k # 1 => f.fields[k - 1].pos \in Nat /\ f.fields[k - 1].len \in Nat
  BY <1>1 DEF InRow
<1> QED
  BY <1>2 DEF Place

LEMMA NextPlace ==
  ASSUME NEW f, InRow(f), NEW k \in 1..Len(f.fields)
  PROVE  /\ k + 1 \in 1..(Len(f.fields) + 1) /\ Place(f, k) \in Nat
         /\ Place(f, k + 1) = f.fields[k].pos + f.fields[k].len
         /\ f.fields[k].pos = Place(f, k) /\ Place(f, k) < Place(f, k + 1)
         /\ f.fields[k].len \in Nat \ {0} /\ Place(f, k) < f.size
<1>1. k + 1 \in 1..(Len(f.fields) + 1) /\ k + 1 # 1 /\ (k + 1) - 1 = k
  BY DEF InRow
<1>2. Place(f, k + 1) = f.fields[k].pos + f.fields[k].len
  BY <1>1 DEF Place
<1> QED
  BY <1>1, <1>2 DEF InRow

LEMMA PlacesGrow ==
  ASSUME NEW f, InRow(f), NEW j \in 1..(Len(f.fields) + 1),
         NEW k \in 1..(Len(f.fields) + 1), j < k
  PROVE  Place(f, j) < Place(f, k)
<1> DEFINE wrong == {n \in 1..(Len(f.fields) + 1) : j < n /\ ~(Place(f, j) < Place(f, n))}
<1> SUFFICES ASSUME wrong # {} PROVE FALSE
  OBVIOUS
<1>1. wrong \in SUBSET Nat
  BY DEF InRow
<1>2. PICK n \in wrong : \A m \in wrong : n <= m
  BY <1>1, LeastNumber
<1>3. n \in 1..(Len(f.fields) + 1) /\ j < n /\ ~(Place(f, j) < Place(f, n))
  BY <1>2
<1>4. n - 1 \in 1..Len(f.fields) /\ (n - 1) + 1 = n /\ n - 1 \in 1..(Len(f.fields) + 1)
      /\ ~(n <= n - 1)
  BY <1>3 DEF InRow
<1>5. n - 1 \notin wrong
  BY <1>2, <1>4
<1>6. j = n - 1 \/ Place(f, j) < Place(f, n - 1)
  BY <1>3, <1>4, <1>5 DEF InRow
<1> HIDE DEF wrong
<1>7. Place(f, n - 1) < Place(f, n)
  BY <1>4, NextPlace
<1>8. Place(f, j) \in Nat /\ Place(f, n - 1) \in Nat /\ Place(f, n) \in Nat
  BY <1>3, <1>4, PlacesAreNumbers
<1> QED
  BY <1>3, <1>6, <1>7, <1>8

LEMMA OnePlace ==
  ASSUME NEW f, InRow(f), NEW j \in 1..(Len(f.fields) + 1),
         NEW k \in 1..(Len(f.fields) + 1), Place(f, j) = Place(f, k)
  PROVE  j = k
<1>1. Place(f, j) \in Nat /\ Len(f.fields) \in Nat
  BY PlacesAreNumbers DEF InRow
<1>2. ~(j < k)
  BY <1>1, PlacesGrow
<1>3. ~(k < j)
  BY <1>1, PlacesGrow
<1> QED
  BY <1>1, <1>2, <1>3

(* Only the last field may reach to the end of the file, or beyond it.     *)
LEMMA LastReaches ==
  ASSUME NEW f, InRow(f), NEW k \in 1..Len(f.fields), Place(f, k + 1) >= f.size
  PROVE  k = Len(f.fields)
<1> SUFFICES ASSUME k # Len(f.fields) PROVE FALSE
  OBVIOUS
<1>1. k + 1 \in 1..Len(f.fields)
  BY DEF InRow
<1>2. Place(f, k + 1) < f.size /\ f.size \in Nat /\ Place(f, k + 1) \in Nat
  BY <1>1, NextPlace DEF InRow
<1> QED
  BY <1>2

LEMMA KindsOfContents ==
  ASSUME NEW c \in Contents
  PROVE  /\ c # None /\ c.size \in Nat /\ Len(c.fields) \in Nat
         /\ c.kind \in {"lzop", "gzip", "bzip2", "xz", "zstd", "absent"}
         /\ Lists(c.list, Parts(c)) /\ Size(c.list) <= MaxOffset
         /\ c.kind \notin {"gzip", "zstd"} => \A n \in 1..Len(c.list) : c.list[n].usize > 0
         /\ c.kind = "gzip" /\ c.list # <<>> => c.list[1].usize > 0 /\ "Damaged" \notin c.scan
         /\ c.kind = "lzop" => Lzop!WellFormed(c) /\ Lists(c.list, Lzop!Parts(c))
         /\ c.kind = "xz" => Pixz!WellFormed(c) /\ Lists(c.list, Pixz!Parts(c))
         /\ c.kind = "zstd" => Zstd!WellFormed(c) /\ Lists(c.list, Zstd!Parts(c))
         /\ c.kind \in {"gzip", "bzip2", "absent"} => c.fields = <<>>
         /\ c.kind = "absent" => c.list = <<>>
<1>1. c.kind = "lzop" => Parts(c) = Lzop!Parts(c)
  BY DEF Parts
<1>2. c.kind = "xz" => Parts(c) = Pixz!Parts(c)
  BY DEF Parts
<1>3. c.kind = "zstd" => Parts(c) = Zstd!Parts(c)
  BY DEF Parts
<1> QED
  BY <1>1, <1>2, <1>3, ContentsAssumption

LEMMA ContentsAreInRow ==
  ASSUME NEW c \in Contents
  PROVE  InRow(c)
<1>1. c.size \in Nat /\ Len(c.fields) \in Nat
  BY KindsOfContents
<1>2. CASE c.kind = "lzop"
  BY <1>1, <1>2, KindsOfContents DEF Lzop!WellFormed, InRow, Place
<1>3. CASE c.kind = "xz"
  BY <1>1, <1>3, KindsOfContents DEF Pixz!WellFormed, InRow, Place
<1>4. CASE c.kind = "zstd"
  BY <1>1, <1>4, KindsOfContents DEF Zstd!WellFormed, InRow, Place
<1>5. CASE c.kind \in {"gzip", "bzip2", "absent"}
  BY <1>1, <1>5, KindsOfContents DEF InRow
<1> QED
  BY <1>2, <1>3, <1>4, <1>5, KindsOfContents

(* Which fields a file has tells its format.                               *)
LEMMA FieldsTellKind ==
  ASSUME NEW c \in Contents, NEW k \in 1..Len(c.fields)
  PROVE  /\ c.fields[k].what = "header" => c.kind = "lzop"
         /\ c.fields[k].what = "stream" => c.kind = "xz"
         /\ c.fields[k].what = "frame" => c.kind = "zstd"
<1>1. CASE c.kind = "lzop"
  BY <1>1, KindsOfContents DEF Lzop!WellFormed
<1>2. CASE c.kind = "xz"
  BY <1>2, KindsOfContents DEF Pixz!WellFormed
<1>3. CASE c.kind = "zstd"
  BY <1>3, KindsOfContents DEF Zstd!WellFormed
<1>4. CASE c.kind \in {"gzip", "bzip2", "absent"}
  BY <1>4, KindsOfContents
<1> QED
  BY <1>1, <1>2, <1>3, <1>4, KindsOfContents
-----------------------------------------------------------------------------
(* What a scan, or an index of what it found, may have of a file's list.   *)
OwnList(l, c) ==
    \/ l = c.list
    \/ (Partial(c) \/ EndsEarly(l, c)) /\ IsBeginning(l, c.list)

(* What is known of the source being opened, whatever its format: a stage  *)
(* that only one format has is reached with a file of that format only.    *)
StageOK ==
    /\ pc \in Stages \cup {"loaded"} => file \in Contents /\ opener \in 1..Len(Openers)
    /\ pc \in Stages \cup {"loaded"} /\ pc \notin {"check", "format"} =>
          Openers[opener] = file.kind
    /\ pc = "check" => pos = 0 /\ mBlocks = <<>> /\ mIndex = <<>>
    /\ pc \in {"load", "build"} /\ file.kind = "zstd" => mBlocks = <<>>
    /\ pc = "load" => file.kind # "xz"
    /\ pc \in {"blocks", "member"} => file.kind = "lzop"
    /\ pc = "build" => file.kind \notin {"lzop", "xz"}
    /\ pc = "built" => file.kind \in Indexed /\ OwnList(mBlocks, file)
    /\ pc = "table" => file.kind = "zstd"
    /\ pc \in {"padding", "footer", "indexed"} => file.kind = "xz"

LEMMA NothingToList == ASSUME NEW l, Lists(l, {}) PROVE l = <<>>
<1>1. l \in Seq(Entry) /\ Len(l) \in Nat /\ \A n \in 1..Len(l) : Part(l[n]) \in {}
  BY ListedFacts
<1>2. ~(1 \in 1..Len(l))
  BY <1>1
<1> QED
  BY <1>1, <1>2

(* lzop.                                                                   *)
LzopParts(f, k) ==
    {[usize |-> f.fields[j].usize, csize |-> f.fields[j].csize,
      coff |-> f.fields[j].pos + f.fields[j].len - f.fields[j].csize] :
        j \in {i \in 1..(k - 1) : f.fields[i].what = "block"}}

(* The fields before field k have been read.                               *)
LzopAt(k) ==
    /\ k \in 2..(Len(file.fields) + 1)
    /\ pos = Place(file, k)
    /\ Lists(mBlocks, LzopParts(file, k))

InBlocks(k) ==
    /\ coff = pos
    /\ file.fields[k - 1].what # "end"
    /\ \E h \in 1..(k - 1) : Lzop!Heads(file, h, k - 1) /\ flags = file.fields[h].flags

LzopOK ==
    /\ pc \in {"load", "blocks"} /\ file.kind = "lzop" => \E k \in Nat : LzopAt(k) /\ InBlocks(k)
    /\ pc = "member" => \E k \in Nat : LzopAt(k) /\ file.fields[k - 1].what = "end" /\ pos < file.size

LEMMA LzopFacts ==
  ASSUME NEW c \in Contents, c.kind = "lzop"
  PROVE  /\ InRow(c) /\ Lists(c.list, Lzop!Parts(c)) /\ Len(c.fields) \in Nat /\ c.size \in Nat
         /\ \A k \in 1..Len(c.fields) :
              LET g == c.fields[k]
              IN  /\ g.what \in {"header", "block", "end"}
                  /\ k = 1 => g.what = "header"
                  /\ k > 1 => (g.what = "header" <=> c.fields[k - 1].what = "end")
                  /\ g.what = "block" =>
                        /\ g.usize \in Nat \ {0} /\ g.csize \in Nat
                        /\ \A h \in 1..k : Lzop!Heads(c, h, k) =>
                              g.len = Lzop!BHeader + Lzop!Sums(c.fields[h].flags, g) + g.csize
                  /\ g.what = "end" => g.len = 1
<1>1. Lzop!WellFormed(c)
  BY KindsOfContents
<1>2. Len(c.fields) \in Nat
  BY KindsOfContents
<1>3. \A k \in 1..Len(c.fields) :
              LET g == c.fields[k]
              IN  /\ g.what \in {"header", "block", "end"}
                  /\ k = 1 => g.what = "header"
                  /\ k > 1 => (g.what = "header" <=> c.fields[k - 1].what = "end")
                  /\ g.what = "block" =>
                        /\ g.usize \in Nat \ {0} /\ g.csize \in Nat
                        /\ \A h \in 1..k : Lzop!Heads(c, h, k) =>
                              g.len = Lzop!BHeader + Lzop!Sums(c.fields[h].flags, g) + g.csize
                  /\ g.what = "end" => g.len = 1
  BY <1>1, <1>2 DEF Lzop!WellFormed
<1> QED
  BY <1>2, <1>3, KindsOfContents, ContentsAreInRow

LEMMA SumsAreNumbers == ASSUME NEW fl, NEW b PROVE Lzop!Sums(fl, b) \in Nat
<1>1. \A x : Lzop!One(x, fl) \in Nat
  BY DEF Lzop!One
<1>2. Lzop!USums(fl) \in Nat /\ Lzop!CSums(fl) \in Nat
  BY <1>1 DEF Lzop!USums, Lzop!CSums
<1> QED
  BY <1>2 DEF Lzop!Sums
LEMMA LzopPartsGrow ==
  ASSUME NEW c, NEW k \in Nat \ {0}
  PROVE  /\ c.fields[k].what # "block" => LzopParts(c, k + 1) = LzopParts(c, k)
         /\ c.fields[k].what = "block" =>
               LzopParts(c, k + 1) = LzopParts(c, k) \cup
                   {[usize |-> c.fields[k].usize, csize |-> c.fields[k].csize,
                     coff |-> c.fields[k].pos + c.fields[k].len - c.fields[k].csize]}
<1>1. (k + 1) - 1 = k /\ 1..k = 1..(k - 1) \cup {k}
  OBVIOUS
<1> QED
  BY <1>1 DEF LzopParts

(* The data of a block lie before the next field.                          *)
LEMMA LzopPartsLieBefore ==
  ASSUME NEW c \in Contents, c.kind = "lzop", NEW k \in 1..(Len(c.fields) + 1),
         NEW b \in LzopParts(c, k)
  PROVE  b.coff \in Int /\ b.coff <= Place(c, k)
<1>1. PICK j \in 1..(k - 1) :
         /\ c.fields[j].what = "block"
         /\ b = [usize |-> c.fields[j].usize, csize |-> c.fields[j].csize,
                 coff |-> c.fields[j].pos + c.fields[j].len - c.fields[j].csize]
  BY DEF LzopParts
<1>2. j \in 1..Len(c.fields) /\ j + 1 <= k /\ k \in Nat
  BY LzopFacts
<1>3. c.fields[j].csize \in Nat /\ InRow(c)
  BY <1>1, <1>2, LzopFacts
<1>4. /\ j + 1 \in 1..(Len(c.fields) + 1) /\ Place(c, j + 1) = c.fields[j].pos + c.fields[j].len
      /\ c.fields[j].pos \in Nat /\ c.fields[j].len \in Nat
  BY <1>2, <1>3, NextPlace
<1>5. Place(c, j + 1) <= Place(c, k)
  <2>1. Place(c, j + 1) \in Nat
    BY <1>4
  <2>2. CASE j + 1 = k
    BY <2>1, <2>2
  <2>3. CASE j + 1 < k
    <3>1. Place(c, j + 1) < Place(c, k) /\ Place(c, k) \in Nat
      BY <1>3, <1>4, <2>3, PlacesGrow, PlacesAreNumbers
    <3> QED
      BY <2>1, <3>1
  <2> QED
    BY <1>2, <1>4, <2>2, <2>3
<1>6. b.coff = c.fields[j].pos + c.fields[j].len - c.fields[j].csize
  BY <1>1
<1>7. Place(c, k) \in Nat
  BY <1>3, PlacesAreNumbers
<1>8. b.coff \in Int /\ b.coff <= Place(c, j + 1) /\ Place(c, j + 1) \in Nat
  <2> DEFINE p == c.fields[j].pos
             l == c.fields[j].len
             z == c.fields[j].csize
  <2>1. p \in Nat /\ l \in Nat /\ z \in Nat
    BY <1>3, <1>4
  <2>2. b.coff = p + l - z /\ Place(c, j + 1) = p + l
    BY <1>4, <1>6
  <2> HIDE DEF p, l, z
  <2> QED
    BY <2>1, <2>2
<1> QED
  BY <1>5, <1>7, <1>8

(* The field that begins where the file is read.                           *)
LEMMA LzopHere ==
  ASSUME file \in Contents, file.kind = "lzop", NEW k \in 1..(Len(file.fields) + 1),
         pos = Place(file, k), NEW what
  PROVE  Lzop!Here(what) = IF k <= Len(file.fields) /\ file.fields[k].what = what THEN {k} ELSE {}
<1>1. InRow(file) /\ Len(file.fields) \in Nat
  BY LzopFacts
<1>2. ASSUME NEW i \in Lzop!Here(what)
      PROVE  i = k /\ k <= Len(file.fields) /\ file.fields[k].what = what
  <2>1. i \in 1..Len(file.fields) /\ file.fields[i].pos = pos /\ file.fields[i].what = what
    BY DEF Lzop!Here
  <2>2. Place(file, i) = Place(file, k) /\ i \in 1..(Len(file.fields) + 1)
    BY <1>1, <2>1 DEF InRow
  <2>3. i = k
    BY <1>1, <2>2, OnePlace
  <2> QED
    BY <1>1, <2>1, <2>3
<1>3. ASSUME k <= Len(file.fields), file.fields[k].what = what PROVE k \in Lzop!Here(what)
  <2>1. k \in 1..Len(file.fields)
    BY <1>1, <1>3
  <2> QED
    BY <1>1, <1>3, <2>1 DEF Lzop!Here, InRow
<1> QED
  BY <1>2, <1>3

LEMMA FindBlockLists ==
  ASSUME StageOK, LzopOK, Lzop!FindBlock
  PROVE  pc' = pc /\ file' = file /\ LzopOK'
<1>1. pc = "blocks" /\ pc' = pc /\ file' = file /\ flags' = flags
  BY DEF Lzop!FindBlock
<1>2. file \in Contents /\ file.kind = "lzop"
  BY <1>1 DEF StageOK, Stages
<1>3. PICK k \in Nat : LzopAt(k) /\ InBlocks(k)
  BY <1>1, <1>2 DEF LzopOK
<1>4. /\ InRow(file) /\ Len(file.fields) \in Nat
      /\ k \in 2..(Len(file.fields) + 1) /\ k \in 1..(Len(file.fields) + 1)
      /\ pos = Place(file, k) /\ coff = pos /\ Lists(mBlocks, LzopParts(file, k))
  BY <1>2, <1>3, LzopFacts DEF LzopAt, InBlocks
<1>5. k \in 1..Len(file.fields) /\ file.fields[k].what = "block" /\ Lzop!Here("block") = {k}
  <2>1. Lzop!Here("block") # {}
    BY DEF Lzop!FindBlock
  <2> QED
    BY <1>2, <1>4, <2>1, LzopHere
<1> DEFINE b == file.fields[k]
           sums == Lzop!Sums(flags, b)
           e == [usize |-> b.usize, csize |-> b.csize, uoff |-> Lzop!UOff,
                 coff |-> coff + Lzop!BHeader + sums]
<1>6. /\ mBlocks' = Append(mBlocks, e)
      /\ coff' = coff + sums + b.csize + Lzop!BHeader
      /\ pos' = pos + Lzop!BHeader + sums + b.csize
  BY <1>5 DEF Lzop!FindBlock
<1>7. PICK h \in 1..(k - 1) : Lzop!Heads(file, h, k - 1) /\ flags = file.fields[h].flags
  BY <1>3 DEF InBlocks
<1>8. h \in 1..k /\ Lzop!Heads(file, h, k)
  BY <1>4, <1>5, <1>7 DEF Lzop!Heads
<1>9. b.len = Lzop!BHeader + sums + b.csize /\ b.usize \in Nat \ {0} /\ b.csize \in Nat
  BY <1>2, <1>5, <1>7, <1>8, LzopFacts
<1>10. sums \in Nat /\ Lzop!BHeader = 2
  BY SumsAreNumbers DEF Lzop!BHeader
<1>11. pos \in Nat /\ b.pos = pos /\ Place(file, k + 1) = b.pos + b.len
       /\ k + 1 \in 1..(Len(file.fields) + 1)
  BY <1>4, <1>5, NextPlace
<1> HIDE DEF sums, b
<1>12. pos' = Place(file, k + 1) /\ coff' = pos'
  <2>1. coff = pos /\ pos \in Nat /\ sums \in Nat /\ b.csize \in Nat
    BY <1>4, <1>9, <1>10, <1>11
  <2>2. pos' = pos + 2 + sums + b.csize /\ coff' = pos + sums + b.csize + 2
    BY <1>6, <1>10, <2>1
  <2>3. Place(file, k + 1) = pos + (2 + sums + b.csize)
    BY <1>9, <1>10, <1>11
  <2> QED
    BY <2>1, <2>2, <2>3
<1>13. Lzop!UOff = Size(mBlocks) /\ Size(mBlocks) \in Nat
  BY <1>4, ListedFacts DEF Lzop!UOff, Size
<1>14. e \in Entry /\ e.coff = b.pos + b.len - b.csize /\ e.coff > pos /\ e.uoff = Size(mBlocks)
  <2>1. e.coff = b.pos + b.len - b.csize /\ e.coff > pos /\ e.coff \in Nat
    <3>1. coff = pos /\ pos \in Nat /\ sums \in Nat /\ b.csize \in Nat
      BY <1>4, <1>9, <1>10, <1>11
    <3>2. e.coff = pos + 2 + sums
      BY <1>10, <3>1
    <3>3. b.pos + b.len - b.csize = pos + (2 + sums + b.csize) - b.csize
      BY <1>9, <1>10, <1>11
    <3> HIDE DEF e
    <3> QED
      BY <3>1, <3>2, <3>3
  <2> QED
    BY <1>9, <1>13, <2>1 DEF Entry
<1>15. ASSUME NEW c \in LzopParts(file, k) PROVE c.coff < e.coff
  <2>1. c.coff \in Int /\ c.coff <= pos
    BY <1>2, <1>4, LzopPartsLieBefore
  <2>2. e.coff \in Nat /\ e.coff > pos
    BY <1>14 DEF Entry
  <2> QED
    BY <1>11, <2>1, <2>2
<1>16. LzopParts(file, k) \cup {Part(e)} = LzopParts(file, k + 1)
  BY <1>4, <1>5, <1>14, LzopPartsGrow DEF Part, b
<1> HIDE DEF e
<1>17. Lists(mBlocks', LzopParts(file, k + 1))
  BY <1>4, <1>6, <1>14, <1>15, <1>16, ListGrows
<1>18. k + 1 \in 2..(Len(file.fields) + 1) /\ k + 1 \in Nat /\ (k + 1) - 1 = k
  BY <1>4, <1>11
<1>19. LzopAt(k + 1)'
  BY <1>1, <1>12, <1>17, <1>18 DEF LzopAt
<1>20. InBlocks(k + 1)'
  BY <1>1, <1>5, <1>7, <1>8, <1>12, <1>18 DEF InBlocks
<1> QED
  BY <1>1, <1>18, <1>19, <1>20 DEF LzopOK
LEMMA HeaderLists ==
  ASSUME file \in Contents, file.kind = "lzop", NEW k \in 1..(Len(file.fields) + 1),
         pos = Place(file, k), Lists(mBlocks, LzopParts(file, k)),
         NEW stage, NEW after, Lzop!ReadHeaders(stage, after)
  PROVE  /\ pc = stage /\ file' = file /\ mBlocks' = mBlocks /\ pc' \in {after, "format"}
         /\ pc' # "format" => k + 1 \in Nat /\ LzopAt(k + 1)' /\ InBlocks(k + 1)'
         /\ pc' = "format" /\ after # "format" =>
               \/ k = Len(file.fields) + 1
               \/ file.fields[k].what # "header"
               \/ file.fields[k].pos + file.fields[k].len > file.size
<1>1. /\ pc = stage /\ file' = file /\ mBlocks' = mBlocks /\ pc' \in {after, "format"}
  BY DEF Lzop!ReadHeaders
<1>2. InRow(file) /\ Len(file.fields) \in Nat /\ k \in Nat /\ k - 1 \in Nat
  BY LzopFacts
<1> DEFINE here == k <= Len(file.fields) /\ file.fields[k].what = "header"
<1>3. Lzop!Here("header") = IF here THEN {k} ELSE {}
  BY LzopHere
<1>4. pc' # "format" => /\ here
                        /\ pos' = pos + file.fields[k].len /\ coff' = pos'
                        /\ flags' = file.fields[k].flags
  BY <1>3 DEF Lzop!ReadHeaders
<1>5. ASSUME pc' # "format" PROVE k + 1 \in Nat /\ LzopAt(k + 1)' /\ InBlocks(k + 1)'
  <2>1. k \in 1..Len(file.fields) /\ file.fields[k].what = "header"
    BY <1>2, <1>4, <1>5
  <2>2. /\ k + 1 \in 1..(Len(file.fields) + 1) /\ file.fields[k].pos = pos
        /\ Place(file, k + 1) = file.fields[k].pos + file.fields[k].len
    BY <1>2, <2>1, NextPlace
  <2>3. pos' = Place(file, k + 1)
    BY <1>4, <1>5, <2>2
  <2>4. LzopParts(file, k + 1) = LzopParts(file, k)
    BY <1>2, <2>1, LzopPartsGrow
  <2>5. k + 1 \in 2..(Len(file.fields) + 1) /\ k + 1 \in Nat /\ (k + 1) - 1 = k
    BY <1>2, <2>2
  <2>6. LzopAt(k + 1)'
    BY <1>1, <2>3, <2>4, <2>5 DEF LzopAt
  <2>7. Lzop!Heads(file, k, k) /\ k \in 1..k
    BY <1>2, <2>1 DEF Lzop!Heads
  <2>8. InBlocks(k + 1)'
    BY <1>1, <1>4, <1>5, <2>1, <2>5, <2>7 DEF InBlocks
  <2> QED
    BY <2>5, <2>6, <2>8
<1>6. ASSUME pc' = "format", after # "format", here PROVE file.fields[k].pos + file.fields[k].len > file.size
  <2>1. pos + file.fields[k].len > file.size
    BY <1>3, <1>6 DEF Lzop!ReadHeaders
  <2>2. file.fields[k].pos = pos
    BY <1>2, <1>6 DEF InRow
  <2> QED
    BY <2>1, <2>2
<1>7. ~(k <= Len(file.fields)) => k = Len(file.fields) + 1
  BY <1>2
<1> QED
  BY <1>1, <1>5, <1>6, <1>7

LEMMA EndMemberLists ==
  ASSUME StageOK, LzopOK, Lzop!EndMember
  PROVE  /\ file' = file /\ pc' \in {"built", "member"} /\ LzopOK'
         /\ pc' = "built" => mBlocks' = file.list
<1>1. /\ pc = "blocks" /\ file' = file /\ mBlocks' = mBlocks /\ pos < file.size
      /\ Lzop!Here("end") # {} /\ pos' = pos + 1 /\ flags' = flags
      /\ pc' = IF pos + 1 >= file.size THEN "built" ELSE "member"
  BY DEF Lzop!EndMember
<1>2. file \in Contents /\ file.kind = "lzop"
  BY <1>1 DEF StageOK, Stages
<1>3. PICK k \in Nat : LzopAt(k) /\ InBlocks(k)
  BY <1>1, <1>2 DEF LzopOK
<1>4. /\ InRow(file) /\ Len(file.fields) \in Nat /\ file.size \in Nat
      /\ k \in 2..(Len(file.fields) + 1) /\ k \in 1..(Len(file.fields) + 1)
      /\ pos = Place(file, k) /\ Lists(mBlocks, LzopParts(file, k))
  BY <1>2, <1>3, LzopFacts DEF LzopAt
<1>5. k \in 1..Len(file.fields) /\ file.fields[k].what = "end"
  BY <1>1, <1>2, <1>4, LzopHere
<1>6. file.fields[k].len = 1
  BY <1>2, <1>5, LzopFacts
<1>7. /\ k + 1 \in 1..(Len(file.fields) + 1) /\ file.fields[k].pos = pos /\ pos \in Nat
      /\ Place(file, k + 1) = file.fields[k].pos + file.fields[k].len
  BY <1>4, <1>5, NextPlace
<1>8. pos' = Place(file, k + 1)
  BY <1>1, <1>6, <1>7
<1>9. LzopParts(file, k + 1) = LzopParts(file, k)
  BY <1>4, <1>5, LzopPartsGrow
<1>10. k + 1 \in 2..(Len(file.fields) + 1) /\ k + 1 \in Nat /\ (k + 1) - 1 = k
  BY <1>4, <1>7
<1>11. LzopAt(k + 1)'
  BY <1>1, <1>4, <1>8, <1>9, <1>10 DEF LzopAt
<1>12. CASE pos + 1 >= file.size
  <2>1. Place(file, k + 1) >= file.size /\ pos + 1 = file.size
    BY <1>1, <1>4, <1>7, <1>8, <1>12
  <2>2. k = Len(file.fields)
    BY <1>4, <1>5, <2>1, LastReaches
  <2>3. Lzop!Sound(file)
    BY <1>4, <1>5, <1>6, <1>7, <2>1, <2>2 DEF Lzop!Sound
  <2>4. Lzop!Parts(file) = LzopParts(file, k + 1)
    BY <1>10, <2>2, <2>3 DEF Lzop!Parts, LzopParts
  <2>5. Lists(file.list, LzopParts(file, k + 1))
    BY <1>2, <2>4, LzopFacts
  <2>6. mBlocks = file.list
    BY <1>4, <1>9, <2>5, OneList
  <2> QED
    BY <1>1, <1>12, <2>6 DEF LzopOK
<1>13. CASE ~(pos + 1 >= file.size)
  <2>1. pos' < file.size
    BY <1>1, <1>4, <1>7, <1>13
  <2> QED
    BY <1>1, <1>5, <1>10, <1>11, <1>13, <2>1 DEF LzopOK
<1> QED
  BY <1>12, <1>13

LEMMA LzopListedIsSound ==
  ASSUME NEW c \in Contents, c.kind = "lzop", c.list # <<>>
  PROVE  /\ Lzop!Sound(c) /\ c.fields[Len(c.fields)].what = "end"
         /\ Len(c.fields) \in 1..Len(c.fields)
         /\ Place(c, Len(c.fields) + 1) = c.size
<1>1. Lists(c.list, Lzop!Parts(c)) /\ InRow(c) /\ Len(c.fields) \in Nat
  BY LzopFacts
<1>2. Lzop!Sound(c)
  <2> SUFFICES ASSUME ~Lzop!Sound(c) PROVE FALSE
    OBVIOUS
  <2>1. Lzop!Parts(c) = {}
    BY DEF Lzop!Parts
  <2> QED
    BY <1>1, <2>1, NothingToList
<1>3. Len(c.fields) \in 1..Len(c.fields)
  BY <1>1, <1>2 DEF Lzop!Sound
<1>4. Place(c, Len(c.fields) + 1) = c.fields[Len(c.fields)].pos + c.fields[Len(c.fields)].len
  BY <1>1, <1>3, NextPlace
<1> QED
  BY <1>2, <1>3, <1>4 DEF Lzop!Sound

(* In a sound file there is a header, a block or an end wherever one is    *)
(* looked for, and it is whole.                                            *)
LEMMA LzopFieldIsWhole ==
  ASSUME NEW c \in Contents, c.kind = "lzop", c.list # <<>>,
         NEW k \in 1..Len(c.fields), c.fields[k].what # "end"
  PROVE  k + 1 \in 1..Len(c.fields) /\ c.fields[k].pos + c.fields[k].len < c.size
<1>1. Len(c.fields) \in Nat /\ InRow(c)
  BY LzopFacts
<1>2. k + 1 \in 1..Len(c.fields)
  BY <1>1, LzopListedIsSound
<1>3. Place(c, k + 1) = c.fields[k].pos + c.fields[k].len
  BY <1>1, NextPlace
<1>4. Place(c, k + 1) < c.size
  BY <1>1, <1>2, NextPlace
<1> QED
  BY <1>2, <1>3, <1>4
LEMMA SoundLzopGoesOn ==
  ASSUME StageOK, LzopOK, Lzop!OutOfFile
  PROVE  file.list = <<>>
<1> SUFFICES ASSUME file.list # <<>> PROVE FALSE
  OBVIOUS
<1>1. pc = "blocks" /\ (pos >= file.size \/ (Lzop!Here("block") # {} /\ pos + Lzop!BHeader > file.size))
  BY DEF Lzop!OutOfFile
<1>2. file \in Contents /\ file.kind = "lzop"
  BY <1>1 DEF StageOK, Stages
<1>3. PICK k \in Nat : LzopAt(k) /\ InBlocks(k)
  BY <1>1, <1>2 DEF LzopOK
<1>4. /\ InRow(file) /\ Len(file.fields) \in Nat /\ file.size \in Nat
      /\ k - 1 \in 1..Len(file.fields) /\ k \in 1..(Len(file.fields) + 1) /\ (k - 1) + 1 = k
      /\ pos = Place(file, k) /\ file.fields[k - 1].what # "end"
  BY <1>2, <1>3, LzopFacts DEF LzopAt, InBlocks
<1>5. k \in 1..Len(file.fields)
  BY <1>2, <1>4, LzopFieldIsWhole
<1>6. file.fields[k].pos = pos /\ pos < file.size /\ pos \in Nat
  BY <1>4, <1>5, NextPlace
<1>7. Lzop!Here("block") # {} /\ pos + Lzop!BHeader > file.size
  BY <1>1, <1>4, <1>6
<1>8. file.fields[k].what = "block"
  BY <1>2, <1>4, <1>5, <1>7, LzopHere
<1>9. PICK h \in 1..(k - 1) : Lzop!Heads(file, h, k - 1) /\ flags = file.fields[h].flags
  BY <1>3 DEF InBlocks
<1>10. h \in 1..k /\ Lzop!Heads(file, h, k)
  BY <1>4, <1>8, <1>9 DEF Lzop!Heads
<1> DEFINE b == file.fields[k]
           sums == Lzop!Sums(flags, b)
<1>11. b.len = Lzop!BHeader + sums + b.csize /\ b.csize \in Nat
  BY <1>2, <1>5, <1>8, <1>9, <1>10, LzopFacts
<1>12. b.pos + b.len < file.size
  BY <1>2, <1>5, <1>8, LzopFieldIsWhole
<1>13. sums \in Nat /\ Lzop!BHeader = 2
  BY SumsAreNumbers DEF Lzop!BHeader
<1>14. b.pos = pos
  BY <1>6
<1> HIDE DEF b, sums
<1>15. pos + (2 + sums + b.csize) < file.size
  BY <1>11, <1>12, <1>13, <1>14
<1> QED
  BY <1>4, <1>6, <1>7, <1>11, <1>13, <1>15

(* One step of the walk over an lzop file, and what becomes of a file of   *)
(* another format that LzopFile is the first to see.                       *)
LEMMA LzopWalks ==
  ASSUME StageOK, LzopOK, WalkLzop
  PROVE  /\ StageOK' /\ LzopOK' /\ file' = file /\ opener' = opener
         /\ pc' \in {"load", "blocks", "member", "built", "format", "error"}
         /\ file.list # <<>> => pc' # "error" /\ (pc' = "format" => file.kind # "lzop")
<1>1. /\ Openers[opener] = "lzop" /\ Lzop!Next /\ opener' = opener /\ mIndex' = mIndex
  BY DEF WalkLzop, Opening
<1>2. CASE Lzop!CheckFileType
  <2>1. pc = "check" /\ Lzop!ReadHeaders("check", "load") /\ file' = file /\ mBlocks' = mBlocks
        /\ pc' \in {"load", "format"}
    BY <1>2 DEF Lzop!CheckFileType, Lzop!ReadHeaders
  <2>2. file \in Contents /\ opener \in 1..Len(Openers) /\ pos = 0 /\ mBlocks = <<>>
    BY <2>1 DEF StageOK, Stages
  <2>3. InRow(file) /\ Len(file.fields) \in Nat
    BY <2>2, ContentsAreInRow, KindsOfContents
  <2>4. CASE file.kind # "lzop"
    <3>1. Lzop!Here("header") = {}
      BY <2>2, <2>4, FieldsTellKind DEF Lzop!Here
    <3>2. pc' = "format"
      BY <2>1, <3>1 DEF Lzop!ReadHeaders
    <3>3. StageOK'
      BY <1>1, <2>1, <2>2, <3>2 DEF StageOK, Stages
    <3> QED
      BY <1>1, <2>1, <2>4, <3>2, <3>3 DEF LzopOK
  <2>5. CASE file.kind = "lzop"
    <3>1. 1 \in 1..(Len(file.fields) + 1) /\ pos = Place(file, 1)
      BY <2>2, <2>3 DEF Place
    <3>2. LzopParts(file, 1) = {}
      BY DEF LzopParts
    <3>3. Lists(mBlocks, LzopParts(file, 1))
      BY <2>2, <3>2, NothingListed
    <3> DEFINE one == 1
    <3>4. one \in 1..(Len(file.fields) + 1) /\ pos = Place(file, one) /\ Lists(mBlocks, LzopParts(file, one))
      BY <3>1, <3>3
    <3> HIDE DEF one
    <3>5. /\ pc' # "format" => one + 1 \in Nat /\ LzopAt(one + 1)' /\ InBlocks(one + 1)'
          /\ pc' = "format" => \/ one = Len(file.fields) + 1
                               \/ file.fields[one].what # "header"
                               \/ file.fields[one].pos + file.fields[one].len > file.size
      BY <2>1, <2>2, <2>5, <3>4, HeaderLists
    <3>6. LzopOK'
      BY <2>1, <3>5 DEF LzopOK
    <3>7. StageOK'
      BY <1>1, <2>1, <2>2, <2>5 DEF StageOK, Stages
    <3>8. ASSUME file.list # <<>> PROVE pc' # "format"
      <4>1. 1 \in 1..Len(file.fields)
        BY <2>2, <2>3, <2>5, <3>8, LzopListedIsSound
      <4>2. file.fields[1].what = "header" /\ file.fields[1].what # "end"
        BY <2>2, <2>5, <4>1, LzopFacts
      <4>3. file.fields[1].pos + file.fields[1].len < file.size
        BY <2>2, <2>5, <3>8, <4>1, <4>2, LzopFieldIsWhole
      <4>4. file.size \in Nat /\ file.fields[1].pos \in Nat /\ file.fields[1].len \in Nat
        BY <2>3, <4>1 DEF InRow
      <4> QED
        BY <2>3, <3>5, <4>1, <4>2, <4>3, <4>4 DEF one
    <3> QED
      BY <1>1, <2>1, <3>6, <3>7, <3>8
  <2> QED
    BY <2>4, <2>5
<1>3. CASE Lzop!NextMember
  <2>1. pc = "member" /\ Lzop!ReadHeaders("member", "blocks") /\ file' = file /\ mBlocks' = mBlocks
        /\ pc' \in {"blocks", "format"}
    BY <1>3 DEF Lzop!NextMember, Lzop!ReadHeaders
  <2>2. file \in Contents /\ opener \in 1..Len(Openers) /\ file.kind = "lzop"
    BY <2>1 DEF StageOK, Stages
  <2>3. InRow(file) /\ Len(file.fields) \in Nat
    BY <2>2, LzopFacts
  <2>4. PICK k \in Nat : LzopAt(k) /\ file.fields[k - 1].what = "end" /\ pos < file.size
    BY <2>1 DEF LzopOK
  <2>5. k \in 1..(Len(file.fields) + 1) /\ pos = Place(file, k) /\ Lists(mBlocks, LzopParts(file, k))
    BY <2>3, <2>4 DEF LzopAt
  <2>6. /\ pc' # "format" => k + 1 \in Nat /\ LzopAt(k + 1)' /\ InBlocks(k + 1)'
        /\ pc' = "format" => \/ k = Len(file.fields) + 1
                             \/ file.fields[k].what # "header"
                             \/ file.fields[k].pos + file.fields[k].len > file.size
    BY <2>1, <2>2, <2>5, HeaderLists
  <2>7. LzopOK'
    BY <2>1, <2>6 DEF LzopOK
  <2>8. StageOK'
    BY <1>1, <2>1, <2>2 DEF StageOK, Stages
  <2>9. ASSUME file.list # <<>> PROVE pc' # "format"
    <3>1. k - 1 \in 1..Len(file.fields) /\ (k - 1) + 1 = k /\ k > 1 /\ k \in Nat
      BY <2>3, <2>4 DEF LzopAt
    <3>2. k # Len(file.fields) + 1
      <4> SUFFICES ASSUME k = Len(file.fields) + 1 PROVE FALSE
        OBVIOUS
      <4>1. pos = file.size /\ file.size \in Nat
        BY <2>2, <2>5, <2>9, LzopListedIsSound, KindsOfContents
      <4> QED
        BY <2>4, <4>1
    <3>3. k \in 1..Len(file.fields)
      BY <2>3, <3>1, <3>2
    <3>4. file.fields[k].what = "header" /\ file.fields[k].what # "end"
      BY <2>2, <2>4, <3>1, <3>3, LzopFacts
    <3>5. file.fields[k].pos + file.fields[k].len < file.size
      BY <2>2, <2>9, <3>3, <3>4, LzopFieldIsWhole
    <3>6. file.size \in Nat /\ file.fields[k].pos \in Nat /\ file.fields[k].len \in Nat
      BY <2>3, <3>3 DEF InRow
    <3> QED
      BY <2>6, <3>2, <3>4, <3>5, <3>6
  <2> QED
    BY <1>1, <2>1, <2>7, <2>8, <2>9
<1>4. CASE Lzop!FindBlock
  <2>1. pc = "blocks" /\ pc' = pc /\ file' = file /\ LzopOK'
    BY <1>4, FindBlockLists DEF Lzop!FindBlock
  <2>2. StageOK'
    BY <1>1, <2>1 DEF StageOK, Stages
  <2> QED
    BY <1>1, <2>1, <2>2
<1>5. CASE Lzop!EndMember
  <2>1. pc = "blocks" /\ file' = file /\ LzopOK' /\ pc' \in {"built", "member"}
        /\ (pc' = "built" => mBlocks' = file.list)
    BY <1>5, EndMemberLists DEF Lzop!EndMember
  <2>2. StageOK'
    BY <1>1, <2>1 DEF StageOK, Stages, Indexed, OwnList
  <2> QED
    BY <1>1, <2>1, <2>2
<1>6. CASE Lzop!OutOfFile
  <2>1. pc = "blocks" /\ pc' = "error" /\ file' = file /\ file.list = <<>>
    BY <1>6, SoundLzopGoesOn DEF Lzop!OutOfFile
  <2>2. StageOK'
    BY <2>1 DEF StageOK, Stages
  <2>3. LzopOK'
    BY <2>1 DEF LzopOK
  <2> QED
    BY <1>1, <2>1, <2>2, <2>3
<1> QED
  BY <1>1, <1>2, <1>3, <1>4, <1>5, <1>6 DEF Lzop!Next
-----------------------------------------------------------------------------
(* zstd.                                                                   *)
Table(f) == f.fields[Len(f.fields)]

ZstdParts(f, n) ==
    {[usize |-> Table(f).entries[j].usize, csize |-> f.fields[j].len, coff |-> f.fields[j].pos] :
        j \in 1..n}

(* As many entries as there are blocks have been read.                     *)
ZstdOK ==
    pc = "table" =>
        /\ Zstd!Sound(file)
        /\ Len(mBlocks) < Len(file.fields)
        /\ Lists(mBlocks, ZstdParts(file, Len(mBlocks)))
        /\ coff = Place(file, Len(mBlocks) + 1)
        /\ pos = Table(file).pos + 8 + Len(mBlocks) * Zstd!EntrySize(Table(file))

LEMMA ZstdFacts ==
  ASSUME NEW c \in Contents, c.kind = "zstd"
  PROVE  /\ InRow(c) /\ Lists(c.list, Zstd!Parts(c)) /\ Len(c.fields) \in Nat /\ c.size \in Nat
         /\ \A k \in 1..Len(c.fields) :
              LET g == c.fields[k]
              IN  /\ g.what \in {"frame", "table"}
                  /\ g.what = "table" =>
                        /\ k = Len(c.fields) /\ Len(g.entries) = k - 1
                        /\ g.count \in Nat
                        /\ g.len = 17 + Zstd!EntrySize(g) * (k - 1)
                        /\ \A n \in 1..(k - 1) : /\ g.entries[n].usize \in Nat
                                                 /\ g.entries[n].csize = c.fields[n].len
<1>1. Zstd!WellFormed(c)
  BY KindsOfContents
<1>2. Len(c.fields) \in Nat
  BY KindsOfContents
<1>3. Zstd!FooterSize + Zstd!TableOverhead = 17
  BY DEF Zstd!FooterSize, Zstd!TableOverhead
<1>4. ASSUME NEW k \in 1..Len(c.fields)
      PROVE  LET g == c.fields[k]
              IN  /\ g.what \in {"frame", "table"}
                  /\ g.what = "table" =>
                        /\ k = Len(c.fields) /\ Len(g.entries) = k - 1
                        /\ g.count \in Nat
                        /\ g.len = Zstd!FooterSize + Zstd!TableOverhead + Zstd!EntrySize(g) * (k - 1)
                        /\ \A n \in 1..(k - 1) : /\ g.entries[n].usize \in Nat
                                                 /\ g.entries[n].csize = c.fields[n].len
  BY <1>1, <1>2 DEF Zstd!WellFormed
<1> QED
  BY <1>2, <1>3, <1>4, KindsOfContents, ContentsAreInRow

LEMMA EntrySizes == ASSUME NEW t PROVE Zstd!EntrySize(t) \in {8, 12}
BY DEF Zstd!EntrySize

LEMMA FoundTableIsSound ==
  ASSUME file \in Contents, file.kind = "zstd", NEW k \in Zstd!FoundTable
  PROVE  /\ k = Len(file.fields) /\ k \in 1..Len(file.fields) /\ Zstd!Sound(file)
         /\ Table(file).count = Len(file.fields) - 1
         /\ Zstd!Start(Table(file)) = Table(file).pos + 8
<1> DEFINE t == file.fields[k]
<1>1. /\ k \in 1..Len(file.fields) /\ t.what = "table" /\ t.pos + t.len = file.size
      /\ Zstd!Start(t) - 8 = t.pos
  BY DEF Zstd!FoundTable, Zstd!Tables, Zstd!TableOverhead
<1>2. InRow(file) /\ Len(file.fields) \in Nat /\ file.size \in Nat
  BY ZstdFacts
<1>3. /\ k = Len(file.fields) /\ Len(t.entries) = k - 1 /\ t.count \in Nat
      /\ t.len = 17 + Zstd!EntrySize(t) * (k - 1)
  BY <1>1, ZstdFacts
<1>4. t.pos \in Nat /\ t.len \in Nat /\ k - 1 \in Nat
  BY <1>1, <1>2 DEF InRow
<1> DEFINE p == t.pos
           n == t.count
           e == Zstd!EntrySize(t)
           z == file.size
           s == Zstd!Start(t)
           l == t.len
<1>5. e = 8 \/ e = 12
  BY EntrySizes
<1>6. s = z - 9 - e * n
  BY DEF Zstd!Start, Zstd!TotalSize, Zstd!FooterSize
<1>7. p + l = z /\ s - 8 = p /\ l = 17 + e * (k - 1) /\ p \in Nat /\ n \in Nat /\ k - 1 \in Nat
      /\ z \in Nat
  BY <1>1, <1>2, <1>3, <1>4
<1> HIDE DEF p, n, e, z, s, l
<1>8. n = k - 1
  <2> DEFINE m == k - 1
  <2>1. m \in Nat /\ l = 17 + e * m
    BY <1>7
  <2> HIDE DEF m
  <2>2. n = m
    <3>1. CASE e = 8
      BY <1>6, <1>7, <2>1, <3>1
    <3>2. CASE e = 12
      BY <1>6, <1>7, <2>1, <3>2
    <3> QED
      BY <1>5, <3>1, <3>2
  <2> QED
    BY <2>2 DEF m
<1>9. s = p + 8
  <2>1. s \in Int
    BY <1>5, <1>6, <1>7
  <2> QED
    BY <1>7, <2>1
<1>10. Table(file) = t
  BY <1>3 DEF Table
<1>11. Zstd!Sound(file)
  <2>1. Len(file.fields) > 0
    BY <1>1, <1>2
  <2> QED
    BY <1>1, <1>3, <1>8, <2>1 DEF Zstd!Sound, n
<1>12. Table(file).count = Len(file.fields) - 1
  BY <1>3, <1>8, <1>10 DEF n
<1>13. Zstd!Start(Table(file)) = Table(file).pos + 8
  BY <1>9, <1>10 DEF s, p
<1> QED
  BY <1>1, <1>3, <1>11, <1>12, <1>13

LEMMA SoundTableIsFound ==
  ASSUME file \in Contents, file.kind = "zstd", Zstd!Sound(file)
  PROVE  Len(file.fields) \in Zstd!FoundTable
<1> DEFINE k == Len(file.fields)
           t == file.fields[k]
<1>1. /\ k > 0 /\ t.what = "table" /\ t.pos + t.len = file.size /\ t.count = Len(t.entries)
  BY DEF Zstd!Sound
<1>2. InRow(file) /\ k \in Nat /\ file.size \in Nat
  BY ZstdFacts
<1>3. k \in 1..Len(file.fields)
  BY <1>1, <1>2
<1>4. Len(t.entries) = k - 1 /\ t.len = 17 + Zstd!EntrySize(t) * (k - 1)
  BY <1>1, <1>3, ZstdFacts
<1>5. t.pos \in Nat /\ t.len \in Nat
  BY <1>2, <1>3 DEF InRow
<1> DEFINE p == t.pos
           n == t.count
           e == Zstd!EntrySize(t)
           z == file.size
           s == Zstd!Start(t)
           l == t.len
<1>6. s = z - 9 - e * n
  BY DEF Zstd!Start, Zstd!TotalSize, Zstd!FooterSize
<1>7. p + l = z /\ n = k - 1 /\ n \in Nat /\ l = 17 + e * n /\ p \in Nat /\ z \in Nat
  BY <1>1, <1>2, <1>3, <1>4, <1>5
<1>8. e \in {8, 12}
  BY EntrySizes
<1> HIDE DEF p, n, e, z, s, l
<1>9. s - 8 = p
  <2> DEFINE m == e * n
  <2>1. m \in Nat
    BY <1>7, <1>8
  <2>2. s = z - 9 - m /\ l = 17 + m
    BY <1>6, <1>7
  <2> HIDE DEF m
  <2> QED
    BY <1>7, <2>1, <2>2
<1>10. Zstd!Start(t) - Zstd!TableOverhead = t.pos
  BY <1>9 DEF s, p, Zstd!TableOverhead
<1> QED
  BY <1>1, <1>3, <1>10 DEF Zstd!FoundTable, Zstd!Tables
LEMMA ZstdListedIsSound ==
  ASSUME NEW c \in Contents, c.kind = "zstd", c.list # <<>>
  PROVE  /\ Zstd!Sound(c) /\ 1 \in 1..Len(c.fields) /\ c.fields[1].what = "frame"
         /\ c.fields[1].pos = 0
<1>1. Lists(c.list, Zstd!Parts(c)) /\ InRow(c) /\ Len(c.fields) \in Nat
  BY ZstdFacts
<1>2. Zstd!Parts(c) # {}
  BY <1>1, NothingToList
<1>3. PICK k \in 1..Len(c.fields) : Zstd!Sound(c) /\ c.fields[k].what = "frame"
  BY <1>2 DEF Zstd!Parts
<1>4. Len(c.fields) \in 1..Len(c.fields) /\ c.fields[Len(c.fields)].what = "table"
  BY <1>1, <1>3 DEF Zstd!Sound
<1>5. 1 \in 1..Len(c.fields) /\ Len(c.fields) # 1
  BY <1>1, <1>3, <1>4
<1>6. c.fields[1].what = "frame"
  BY <1>5, ZstdFacts
<1>7. c.fields[1].pos = 0
  BY <1>1, <1>5 DEF InRow, Place
<1> QED
  BY <1>3, <1>5, <1>6, <1>7

LEMMA SoundTableFacts ==
  ASSUME NEW c \in Contents, c.kind = "zstd", Zstd!Sound(c)
  PROVE  /\ InRow(c) /\ Len(c.fields) \in Nat \ {0}
         /\ Table(c).what = "table" /\ Table(c).pos \in Nat
         /\ Table(c).count = Len(c.fields) - 1
         /\ \A n \in 1..(Len(c.fields) - 1) :
              /\ n \in 1..Len(c.fields) /\ c.fields[n].what = "frame"
              /\ Table(c).entries[n].usize \in Nat
              /\ Table(c).entries[n].csize = c.fields[n].len
<1>1. InRow(c) /\ Len(c.fields) \in Nat \ {0} /\ Table(c).what = "table"
      /\ Table(c).count = Len(Table(c).entries)
  BY ZstdFacts DEF Zstd!Sound, Table
<1>2. Len(c.fields) \in 1..Len(c.fields)
  BY <1>1
<1>3. /\ Len(Table(c).entries) = Len(c.fields) - 1
      /\ \A n \in 1..(Len(c.fields) - 1) : /\ Table(c).entries[n].usize \in Nat
                                           /\ Table(c).entries[n].csize = c.fields[n].len
  BY <1>1, <1>2, ZstdFacts DEF Table
<1>4. Table(c).pos \in Nat
  BY <1>1, <1>2 DEF InRow, Table
<1>5. \A n \in 1..(Len(c.fields) - 1) : n \in 1..Len(c.fields) /\ n # Len(c.fields)
  BY <1>1
<1>6. \A n \in 1..(Len(c.fields) - 1) : c.fields[n].what = "frame"
  BY <1>5, ZstdFacts
<1> QED
  BY <1>1, <1>3, <1>4, <1>5, <1>6

LEMMA ReadEntryLists ==
  ASSUME StageOK, ZstdOK, Zstd!ReadEntry
  PROVE  pc = "table" /\ pc' = pc /\ file' = file /\ ZstdOK'
<1> DEFINE n == Len(mBlocks)
           t == Table(file)
<1>1. pc = "table" /\ pc' = pc /\ file' = file
  BY DEF Zstd!ReadEntry
<1>2. file \in Contents /\ file.kind = "zstd"
  BY <1>1 DEF StageOK, Stages
<1>3. /\ Zstd!Sound(file) /\ n < Len(file.fields) /\ Lists(mBlocks, ZstdParts(file, n))
      /\ coff = Place(file, n + 1) /\ pos = t.pos + 8 + n * Zstd!EntrySize(t)
  BY <1>1 DEF ZstdOK
<1> DEFINE a == Zstd!EntryAt(t)
           e == [usize |-> a.usize, csize |-> a.csize, uoff |-> Zstd!UOff, coff |-> coff]
<1>4. /\ n < t.count /\ mBlocks' = Append(mBlocks, e)
      /\ coff' = coff + a.csize /\ pos' = pos + Zstd!EntrySize(t)
  <2>1. PICK k \in Zstd!FoundTable :
          LET g == file.fields[k]
          IN  /\ Len(mBlocks) < g.count
              /\ mBlocks' = Append(mBlocks, [usize |-> Zstd!EntryAt(g).usize,
                               csize |-> Zstd!EntryAt(g).csize, uoff |-> Zstd!UOff, coff |-> coff])
              /\ coff' = coff + Zstd!EntryAt(g).csize
              /\ pos' = pos + Zstd!EntrySize(g)
    BY DEF Zstd!ReadEntry
  <2>2. file.fields[k] = Table(file)
    BY <1>2, FoundTableIsSound DEF Table
  <2> QED
    BY <2>1, <2>2
<1>5. InRow(file) /\ Len(file.fields) \in Nat /\ t.count = Len(file.fields) - 1 /\ t.pos \in Nat
  BY <1>2, <1>3, SoundTableFacts
<1>6. n \in Nat /\ Size(mBlocks) \in Nat /\ Zstd!UOff = Size(mBlocks)
  BY <1>3, ListedFacts DEF Zstd!UOff, Size
<1>7. n + 1 \in 1..(Len(file.fields) - 1) /\ n + 1 \in 1..Len(file.fields)
  BY <1>4, <1>5, <1>6
<1>8. a = t.entries[n + 1]
  <2> DEFINE w == Zstd!EntrySize(t)
             p == t.pos
  <2>1. a = t.entries[(pos - p - 8) \div w + 1]
    BY DEF Zstd!EntryAt, Zstd!TableOverhead
  <2>2. w \in {8, 12} /\ pos = p + 8 + n * w /\ p \in Nat /\ n \in Nat
    BY <1>3, <1>5, <1>6, EntrySizes
  <2> HIDE DEF w, p, n, a
  <2>3. (pos - p - 8) \div w = n
    <3>1. CASE w = 8
      <4>1. pos - p - 8 = n * 8
        BY <2>2, <3>1
      <4>2. (n * 8) \div 8 = n
        BY <2>2
      <4> QED
        BY <3>1, <4>1, <4>2
    <3>2. CASE w = 12
      <4>1. pos - p - 8 = n * 12
        BY <2>2, <3>2
      <4>2. (n * 12) \div 12 = n
        BY <2>2
      <4> QED
        BY <3>2, <4>1, <4>2
    <3> QED
      BY <2>2, <3>1, <3>2
  <2> QED
    BY <2>1, <2>3
<1> HIDE DEF n, t, a
<1>9. /\ a.usize \in Nat /\ a.csize = file.fields[n + 1].len
      /\ file.fields[n + 1].pos = Place(file, n + 1) /\ Place(file, n + 1) \in Nat
      /\ file.fields[n + 1].len \in Nat
      /\ Place(file, (n + 1) + 1) = file.fields[n + 1].pos + file.fields[n + 1].len
      /\ n + 1 \in 1..(Len(file.fields) + 1)
  <2>1. a.usize \in Nat /\ a.csize = file.fields[n + 1].len
    BY <1>2, <1>3, <1>7, <1>8, SoundTableFacts DEF t
  <2>2. /\ file.fields[n + 1].pos = Place(file, n + 1) /\ Place(file, n + 1) \in Nat
        /\ file.fields[n + 1].len \in Nat
        /\ Place(file, (n + 1) + 1) = file.fields[n + 1].pos + file.fields[n + 1].len
    BY <1>5, <1>7, NextPlace
  <2> QED
    BY <1>5, <1>7, <2>1, <2>2
<1>10. e \in Entry /\ e.uoff = Size(mBlocks) /\ e.coff = file.fields[n + 1].pos
  BY <1>3, <1>6, <1>9 DEF Entry
<1>11. Part(e) = [usize |-> t.entries[n + 1].usize, csize |-> file.fields[n + 1].len,
                  coff |-> file.fields[n + 1].pos]
  BY <1>8, <1>9, <1>10 DEF Part
<1>12. ZstdParts(file, n + 1) = ZstdParts(file, n) \cup {Part(e)}
  <2>1. 1..(n + 1) = (1..n) \cup {n + 1}
    BY <1>6
  <2> QED
    BY <1>11, <2>1 DEF ZstdParts, t
<1>13. ASSUME NEW c \in ZstdParts(file, n) PROVE c.coff < e.coff
  <2>1. PICK j \in 1..n : c.coff = file.fields[j].pos
    BY DEF ZstdParts
  <2>2. j \in 1..Len(file.fields) /\ j < n + 1 /\ j \in 1..(Len(file.fields) + 1)
    BY <1>5, <1>6, <1>7
  <2>3. Place(file, j) < Place(file, n + 1)
    BY <1>5, <1>9, <2>2, PlacesGrow
  <2>4. file.fields[j].pos = Place(file, j)
    BY <1>5, <2>2 DEF InRow
  <2> QED
    BY <1>9, <1>10, <2>1, <2>3, <2>4
<1> HIDE DEF e
<1>14. Lists(mBlocks', ZstdParts(file, n + 1)) /\ Len(mBlocks') = n + 1
  <2>1. Lists(Append(mBlocks, e), ZstdParts(file, n) \cup {Part(e)})
    BY <1>3, <1>10, <1>13, ListGrows DEF n
  <2>2. mBlocks \in Seq(Entry)
    BY <1>3, ListedFacts
  <2>3. Len(Append(mBlocks, e)) = n + 1
    BY <2>2 DEF n
  <2> QED
    BY <1>4, <1>12, <2>1, <2>3
<1>15. coff' = Place(file, (n + 1) + 1)
  BY <1>3, <1>4, <1>9
<1>16. pos' = t.pos + 8 + (n + 1) * Zstd!EntrySize(t)
  <2> DEFINE w == Zstd!EntrySize(t)
             p == t.pos
  <2>1. w \in {8, 12} /\ pos = p + 8 + n * w /\ p \in Nat /\ n \in Nat /\ pos' = pos + w
    BY <1>3, <1>4, <1>5, <1>6, EntrySizes DEF t, n
  <2> HIDE DEF w, p
  <2>2. pos' = p + 8 + (n + 1) * w
    <3>1. CASE w = 8
      BY <2>1, <3>1
    <3>2. CASE w = 12
      BY <2>1, <3>2
    <3> QED
      BY <2>1, <3>1, <3>2
  <2> QED
    BY <2>2 DEF w, p
<1>17. n + 1 < Len(file.fields)
  BY <1>5, <1>6, <1>7
<1>18. ZstdOK'
  BY <1>1, <1>3, <1>14, <1>15, <1>16, <1>17 DEF ZstdOK, t
<1> QED
  BY <1>1, <1>18
LEMMA EndTableLists ==
  ASSUME StageOK, ZstdOK, Zstd!EndTable
  PROVE  pc = "table" /\ pc' = "loaded" /\ file' = file /\ mBlocks' = file.list
<1>1. pc = "table" /\ pc' = "loaded" /\ file' = file /\ mBlocks' = mBlocks
  BY DEF Zstd!EndTable
<1>2. file \in Contents /\ file.kind = "zstd"
  BY <1>1 DEF StageOK, Stages
<1>3. Zstd!Sound(file) /\ Lists(mBlocks, ZstdParts(file, Len(mBlocks)))
  BY <1>1 DEF ZstdOK
<1>4. PICK k \in Zstd!FoundTable : Len(mBlocks) = file.fields[k].count
  BY DEF Zstd!EndTable
<1>5. Len(mBlocks) = Len(file.fields) - 1
  BY <1>2, <1>4, FoundTableIsSound DEF Table
<1>6. /\ Len(file.fields) \in Nat \ {0} /\ Table(file).what = "table"
      /\ \A n \in 1..(Len(file.fields) - 1) :
            n \in 1..Len(file.fields) /\ file.fields[n].what = "frame"
  BY <1>2, <1>3, SoundTableFacts
<1>7. {l \in 1..Len(file.fields) : Zstd!Sound(file) /\ file.fields[l].what = "frame"}
        = 1..(Len(file.fields) - 1)
  <2>1. ASSUME NEW l \in 1..Len(file.fields), file.fields[l].what = "frame"
        PROVE  l \in 1..(Len(file.fields) - 1)
    <3>1. l # Len(file.fields)
      BY <1>6, <2>1 DEF Table
    <3> QED
      BY <1>6, <3>1
  <2> QED
    BY <1>3, <1>6, <2>1
<1>8. ZstdParts(file, Len(mBlocks)) = Zstd!Parts(file)
  BY <1>5, <1>7 DEF ZstdParts, Zstd!Parts, Table
<1>9. mBlocks = file.list
  BY <1>2, <1>3, <1>8, ZstdFacts, OneList
<1> QED
  BY <1>1, <1>9

LEMMA ZstdWalks ==
  ASSUME StageOK, ZstdOK, WalkZstd
  PROVE  /\ StageOK' /\ ZstdOK' /\ file' = file /\ opener' = opener
         /\ pc' \in {"load", "table", "loaded", "format", "error"}
         /\ pc' = "loaded" => mBlocks' = file.list
         /\ pc' = "load" => file.kind = "zstd"
         /\ file.list # <<>> => pc' # "error" /\ (pc' = "format" => file.kind # "zstd")
<1>1. /\ Openers[opener] = "zstd" /\ Zstd!Next /\ opener' = opener /\ mIndex' = mIndex
  BY DEF WalkZstd, Opening
<1>2. CASE Zstd!CheckFileType
  <2>1. /\ pc = "check" /\ UNCHANGED <<file, pos, mBlocks>>
        /\ pc' = IF \A k \in Zstd!Frames : file.fields[k].pos # 0 THEN "format"
                 ELSE IF Zstd!FoundTable = {} THEN "error" ELSE "load"
    BY <1>2 DEF Zstd!CheckFileType
  <2>2. file \in Contents /\ opener \in 1..Len(Openers) /\ mBlocks = <<>>
    BY <2>1 DEF StageOK, Stages
  <2>3. pc' # "format" => file.kind = "zstd"
    BY <2>1, <2>2, FieldsTellKind DEF Zstd!Frames
  <2>4. StageOK'
    BY <1>1, <2>1, <2>2, <2>3 DEF StageOK, Stages
  <2>5. ASSUME file.list # <<>>, file.kind = "zstd" PROVE pc' = "load"
    <3>1. /\ Zstd!Sound(file) /\ 1 \in 1..Len(file.fields) /\ file.fields[1].what = "frame"
          /\ file.fields[1].pos = 0
      BY <2>2, <2>5, ZstdListedIsSound
    <3>2. Zstd!FoundTable # {}
      BY <2>2, <2>5, <3>1, SoundTableIsFound
    <3> QED
      BY <2>1, <3>1, <3>2 DEF Zstd!Frames
  <2>6. ZstdOK'
    BY <2>1 DEF ZstdOK
  <2>7. pc' = "error" => file.kind = "zstd"
    BY <2>3
  <2> QED
    BY <1>1, <2>1, <2>3, <2>4, <2>5, <2>6, <2>7
<1>3. CASE Zstd!FindTable
  <2>1. pc = "build" /\ file' = file /\ mBlocks' = mBlocks /\ coff' = 0 /\ pc' = "table"
    BY <1>3 DEF Zstd!FindTable
  <2>2. PICK k \in Zstd!FoundTable : pos' = Zstd!Start(file.fields[k])
    BY <1>3 DEF Zstd!FindTable
  <2>3. file \in Contents /\ opener \in 1..Len(Openers) /\ Openers[opener] = file.kind
    BY <2>1 DEF StageOK, Stages
  <2>4. file.kind = "zstd" /\ mBlocks = <<>>
    BY <1>1, <2>1, <2>3 DEF StageOK
  <2>5. Zstd!Sound(file) /\ pos' = Table(file).pos + 8
    BY <2>2, <2>3, <2>4, FoundTableIsSound DEF Table
  <2>6. Len(file.fields) \in Nat \ {0} /\ Table(file).pos \in Nat
    BY <2>3, <2>4, <2>5, SoundTableFacts
  <2>7. Len(mBlocks') = 0 /\ Lists(mBlocks', {}) /\ 0 < Len(file.fields)
    BY <2>1, <2>4, <2>6, NothingListed
  <2>8. ZstdParts(file, 0) = {} /\ Place(file, 0 + 1) = 0
    BY DEF ZstdParts, Place
  <2>9. pos' = Table(file).pos + 8 + 0 * Zstd!EntrySize(Table(file))
    <3>1. Zstd!EntrySize(Table(file)) \in {8, 12}
      BY EntrySizes
    <3> QED
      BY <2>5, <2>6, <3>1
  <2>10. ZstdOK'
    BY <2>1, <2>5, <2>7, <2>8, <2>9 DEF ZstdOK
  <2>11. StageOK'
    BY <1>1, <2>1, <2>3, <2>4 DEF StageOK, Stages
  <2> QED
    BY <1>1, <2>1, <2>10, <2>11
<1>4. CASE Zstd!ReadEntry
  <2>1. pc = "table" /\ pc' = pc /\ file' = file /\ ZstdOK'
    BY <1>4, ReadEntryLists
  <2>2. StageOK'
    BY <1>1, <2>1 DEF StageOK, Stages
  <2> QED
    BY <1>1, <2>1, <2>2
<1>5. CASE Zstd!EndTable
  <2>1. pc = "table" /\ pc' = "loaded" /\ file' = file /\ mBlocks' = file.list
    BY <1>5, EndTableLists
  <2>2. StageOK'
    BY <1>1, <2>1 DEF StageOK, Stages
  <2>3. ZstdOK'
    BY <2>1 DEF ZstdOK
  <2> QED
    BY <1>1, <2>1, <2>2, <2>3
<1> QED
  BY <1>1, <1>2, <1>3, <1>4, <1>5 DEF Zstd!Next
-----------------------------------------------------------------------------
(* xz.                                                                     *)
PadBehind(f, j) == IF j < Len(f.fields) /\ f.fields[j + 1].what = "padding"
                   THEN f.fields[j + 1].len ELSE 0

AsStream(f, j) == [blocks |-> f.fields[j].blocks, len |-> f.fields[j].len,
                   pad |-> PadBehind(f, j)]

(* The streams behind field k have been read: they are fields g[1], g[2]...*)
XzRest(k, g) ==
    /\ mIndex \in Seq({AsStream(file, j) : j \in 1..Len(file.fields)})
    /\ g \in [1..Len(mIndex) -> (k + 1)..Len(file.fields)]
    /\ \A m, n \in 1..Len(mIndex) : m < n => g[m] < g[n]
    /\ \A n \in 1..Len(mIndex) : /\ file.fields[g[n]].what = "stream"
                                 /\ mIndex[n] = AsStream(file, g[n])
    /\ \A j \in (k + 1)..Len(file.fields) :
          /\ file.fields[j].what # "data"
          /\ file.fields[j].what = "stream" => \E n \in 1..Len(mIndex) : g[n] = j
    /\ k < Len(file.fields) => /\ Place(file, Len(file.fields) + 1) = file.size
                               /\ file.fields[k + 1].what = "stream"

(* Where the fields that are left end.                                     *)
LeftEnd(k) == IF k = Len(file.fields) THEN file.size ELSE Place(file, k + 1)

(* The walk stands behind field k, or in field k, which is padding.        *)
XzAt(k) ==
    /\ k \in 1..Len(file.fields)
    /\ \E g : XzRest(k, g)
    /\ \/ pos = LeftEnd(k) /\ pad = 0
       \/ /\ file.fields[k].what = "padding" /\ Place(file, k + 1) = LeftEnd(k)
          /\ pos \in Place(file, k)..LeftEnd(k) /\ pad = LeftEnd(k) - pos
    /\ pos \in Nat \ {0}

XzOK ==
    /\ pc \in {"padding", "footer", "indexed"} =>
          1 \in 1..Len(file.fields) /\ file.fields[1].what = "stream"
    /\ pc \in {"padding", "footer"} => \E k \in Nat : XzAt(k)
    /\ pc = "footer" => ~Pixz!Zero(pos)
    /\ pc = "indexed" => \E g : XzRest(0, g)

LEMMA XzFacts ==
  ASSUME NEW c \in Contents, c.kind = "xz"
  PROVE  /\ InRow(c) /\ Lists(c.list, Pixz!Parts(c)) /\ Len(c.fields) \in Nat /\ c.size \in Nat
         /\ \A k \in 1..Len(c.fields) :
              LET g == c.fields[k]
              IN  /\ g.what \in {"stream", "padding", "data"}
                  /\ g.what = "padding" =>
                        /\ Place(c, k + 1) <= c.size
                        /\ k > 1 => c.fields[k - 1].what # "padding"
                  /\ g.what = "stream" =>
                        /\ g.len >= 2 * HeaderSize /\ Len(g.blocks) \in Nat
                        /\ \A n \in 1..Len(g.blocks) :
                              /\ g.blocks[n].usize \in Nat /\ g.blocks[n].csize \in Nat \ {0}
                              /\ g.blocks[n].at =
                                    IF n = 1 THEN g.pos + HeaderSize
                                    ELSE g.blocks[n - 1].at + g.blocks[n - 1].csize
                              /\ g.blocks[n].at + g.blocks[n].csize <= g.pos + g.len
<1>1. Pixz!WellFormed(c) /\ Len(c.fields) \in Nat
  BY KindsOfContents
<1>2. InRow(c)
  BY ContentsAreInRow
<1>3. ASSUME NEW k \in 1..Len(c.fields) PROVE Place(c, k + 1) = c.fields[k].pos + c.fields[k].len
  BY <1>2, NextPlace
<1>4. ASSUME NEW k \in 1..Len(c.fields)
      PROVE  LET g == c.fields[k]
             IN   /\ g.what \in {"stream", "padding", "data"}
                  /\ g.what = "padding" =>
                        /\ g.pos + g.len <= c.size
                        /\ k > 1 => c.fields[k - 1].what # "padding"
                  /\ g.what = "stream" =>
                        /\ g.len >= 2 * HeaderSize /\ Len(g.blocks) \in Nat
                        /\ \A n \in 1..Len(g.blocks) :
                              /\ g.blocks[n].usize \in Nat /\ g.blocks[n].csize \in Nat \ {0}
                              /\ g.blocks[n].at =
                                    IF n = 1 THEN g.pos + HeaderSize
                                    ELSE g.blocks[n - 1].at + g.blocks[n - 1].csize
                              /\ g.blocks[n].at + g.blocks[n].csize <= g.pos + g.len
  BY <1>1 DEF Pixz!WellFormed
<1> QED
  BY <1>1, <1>2, <1>3, <1>4, KindsOfContents

(* A zero is in padding: it ends where fields end, and is not the word     *)
(* before padding, or the first of the file.                               *)
LEMMA ZeroPlaces ==
  ASSUME file.kind = "xz", file \in Contents, NEW w \in Nat, Pixz!Zero(w)
  PROVE  \E i \in 1..Len(file.fields) :
            /\ file.fields[i].what = "padding" /\ i + 1 \in 1..(Len(file.fields) + 1)
            /\ Place(file, i) < w /\ w <= Place(file, i + 1)
            /\ Place(file, i) \in Nat /\ Place(file, i + 1) \in Nat
<1>1. PICK i \in Pixz!At("padding") : file.fields[i].pos < w /\ w <= Pixz!EndOf(i)
  BY DEF Pixz!Zero
<1>2. i \in 1..Len(file.fields) /\ file.fields[i].what = "padding"
  BY <1>1 DEF Pixz!At
<1>3. InRow(file)
  BY XzFacts
<1>4. /\ i + 1 \in 1..(Len(file.fields) + 1) /\ Place(file, i) \in Nat
      /\ Place(file, i + 1) = file.fields[i].pos + file.fields[i].len
      /\ file.fields[i].pos = Place(file, i)
  BY <1>2, <1>3, NextPlace
<1>5. Place(file, i + 1) \in Nat
  BY <1>3, <1>4, PlacesAreNumbers
<1> QED
  BY <1>1, <1>2, <1>4, <1>5 DEF Pixz!EndOf

LEMMA PlaceOrder ==
  ASSUME NEW f, InRow(f), NEW j \in 1..(Len(f.fields) + 1), NEW k \in 1..(Len(f.fields) + 1)
  PROVE  /\ Place(f, j) \in Nat /\ Place(f, k) \in Nat
         /\ Place(f, j) < Place(f, k) => j < k
         /\ Place(f, j) <= Place(f, k) => j <= k
         /\ j <= k => Place(f, j) <= Place(f, k)
<1>1. Place(f, j) \in Nat /\ Place(f, k) \in Nat /\ Len(f.fields) \in Nat
  BY PlacesAreNumbers DEF InRow
<1>2. j < k => Place(f, j) < Place(f, k)
  BY PlacesGrow
<1>3. k < j => Place(f, k) < Place(f, j)
  BY PlacesGrow
<1> QED
  BY <1>1, <1>2, <1>3

LEMMA LeftEndFacts ==
  ASSUME file.kind = "xz", file \in Contents, NEW k \in 1..Len(file.fields)
  PROVE  LeftEnd(k) \in Nat \ {0} /\ Place(file, k) < LeftEnd(k) /\ LeftEnd(k) <= file.size
<1>1. InRow(file) /\ Len(file.fields) \in Nat /\ file.size \in Nat
  BY XzFacts
<1>2. Place(file, k) \in Nat /\ Place(file, k) < file.size /\ Place(file, k) < Place(file, k + 1)
      /\ k + 1 \in 1..(Len(file.fields) + 1)
  BY <1>1, NextPlace
<1>3. CASE k = Len(file.fields)
  BY <1>1, <1>2, <1>3 DEF LeftEnd
<1>4. CASE k # Len(file.fields)
  <2>1. k + 1 \in 1..Len(file.fields)
    BY <1>1, <1>4
  <2>2. Place(file, k + 1) < file.size /\ Place(file, k + 1) \in Nat
    BY <1>1, <2>1, NextPlace
  <2>3. LeftEnd(k) = Place(file, k + 1)
    BY <1>4 DEF LeftEnd
  <2> QED
    BY <1>1, <1>2, <2>2, <2>3
<1> QED
  BY <1>3, <1>4

LEMMA ZeroBeforeLeftEnd ==
  ASSUME file.kind = "xz", file \in Contents, NEW k \in 1..Len(file.fields), Pixz!Zero(LeftEnd(k))
  PROVE  file.fields[k].what = "padding" /\ Place(file, k + 1) = LeftEnd(k)
<1>1. InRow(file) /\ Len(file.fields) \in Nat /\ file.size \in Nat
  BY XzFacts
<1>2. LeftEnd(k) \in Nat \ {0} /\ Place(file, k) < LeftEnd(k) /\ LeftEnd(k) <= file.size
  BY LeftEndFacts
<1>3. PICK i \in 1..Len(file.fields) :
            /\ file.fields[i].what = "padding" /\ i + 1 \in 1..(Len(file.fields) + 1)
            /\ Place(file, i) < LeftEnd(k) /\ LeftEnd(k) <= Place(file, i + 1)
            /\ Place(file, i) \in Nat /\ Place(file, i + 1) \in Nat
  BY <1>2, ZeroPlaces
<1>4. k \in 1..(Len(file.fields) + 1) /\ k + 1 \in 1..(Len(file.fields) + 1)
      /\ i \in 1..(Len(file.fields) + 1)
  BY <1>1
<1>5. k < i + 1
  <2>1. Place(file, k) < Place(file, i + 1)
    BY <1>2, <1>3, <1>1, <1>4, PlaceOrder
  <2> QED
    BY <1>1, <1>3, <1>4, <2>1, PlaceOrder
<1>6. i <= k
  <2> SUFFICES ASSUME i > k PROVE FALSE
    BY <1>1
  <2>1. k # Len(file.fields)
    BY <1>1
  <2>2. LeftEnd(k) = Place(file, k + 1)
    BY <2>1 DEF LeftEnd
  <2>3. k + 1 <= i
    BY <1>1
  <2>4. Place(file, k + 1) <= Place(file, i)
    BY <1>1, <1>4, <2>3, PlaceOrder
  <2> QED
    BY <1>2, <1>3, <2>2, <2>4
<1>7. i = k
  BY <1>1, <1>5, <1>6
<1>8. Place(file, k + 1) <= file.size
  BY <1>3, <1>7, XzFacts
<1>9. Place(file, k + 1) = LeftEnd(k)
  BY <1>1, <1>2, <1>3, <1>7, <1>8 DEF LeftEnd
<1> QED
  BY <1>3, <1>7, <1>9

LEMMA NoZeroBeforePadding ==
  ASSUME file.kind = "xz", file \in Contents, NEW k \in 2..Len(file.fields),
         file.fields[k].what = "padding"
  PROVE  ~Pixz!Zero(Place(file, k))
<1> SUFFICES ASSUME Pixz!Zero(Place(file, k)) PROVE FALSE
  OBVIOUS
<1>1. InRow(file) /\ Len(file.fields) \in Nat /\ k \in 1..(Len(file.fields) + 1)
      /\ k \in 1..Len(file.fields) /\ k > 1
  BY XzFacts
<1>2. Place(file, k) \in Nat
  BY <1>1, PlacesAreNumbers
<1>3. PICK i \in 1..Len(file.fields) :
            /\ file.fields[i].what = "padding" /\ i + 1 \in 1..(Len(file.fields) + 1)
            /\ Place(file, i) < Place(file, k) /\ Place(file, k) <= Place(file, i + 1)
  BY <1>2, ZeroPlaces
<1>4. i \in 1..(Len(file.fields) + 1)
  BY <1>1
<1>5. i < k /\ k <= i + 1
  BY <1>1, <1>3, <1>4, PlaceOrder
<1>6. i = k - 1
  BY <1>1, <1>5
<1> QED
  BY <1>1, <1>3, <1>6, XzFacts

LEMMA FirstIsNotZero ==
  ASSUME file.kind = "xz", file \in Contents, 1 \in 1..Len(file.fields),
         file.fields[1].what = "stream"
  PROVE  ~Pixz!Zero(1)
<1> SUFFICES ASSUME Pixz!Zero(1) PROVE FALSE
  OBVIOUS
<1>1. PICK i \in 1..Len(file.fields) :
            file.fields[i].what = "padding" /\ Place(file, i) < 1 /\ Place(file, i) \in Nat
  BY ZeroPlaces
<1>2. InRow(file) /\ Len(file.fields) \in Nat
  BY XzFacts
<1>3. Place(file, i) = Place(file, 1)
  BY <1>1 DEF Place
<1>4. i \in 1..(Len(file.fields) + 1) /\ 1 \in 1..(Len(file.fields) + 1)
  BY <1>2
<1>5. i = 1
  BY <1>2, <1>3, <1>4, OnePlace
<1> QED
  BY <1>1, <1>5
(* What SkipPadding does: it goes back over zeros.                         *)
LEMMA SkipsZeros ==
  ASSUME file.kind = "xz", file \in Contents, 1 \in 1..Len(file.fields),
         file.fields[1].what = "stream", pos \in Nat \ {0}, pad \in Int, Pixz!SkipPadding
  PROVE  /\ pos' \in 1..pos /\ pad' = pad + pos - pos' /\ pc' \in {"padding", "footer"}
         /\ \A w \in (pos' + 1)..pos : Pixz!Zero(w)
         /\ pc' = "footer" => ~Pixz!Zero(pos')
<1> DEFINE s == IF pos <= Chunk THEN pos ELSE Chunk
           data == {w \in (pos - s + 1)..pos : ~Pixz!Zero(w)}
<1>1. /\ pc = "padding"
      /\ IF data = {} THEN pos' = pos - s /\ pad' = pad + s /\ pc' = pc
         ELSE pos' = Pixz!Max(data) /\ pad' = pad + pos - Pixz!Max(data) /\ pc' = "footer"
  BY DEF Pixz!SkipPadding
<1>2. s \in 1..pos /\ Chunk \in Nat \ {0}
  BY ContentsAssumption
<1>3. CASE data = {}
  <2>1. \A w \in (pos - s + 1)..pos : Pixz!Zero(w)
    BY <1>3
  <2>2. s # pos
    <3> SUFFICES ASSUME s = pos PROVE FALSE
      OBVIOUS
    <3>1. 1 \in (pos - s + 1)..pos
      BY <1>2
    <3> QED
      BY <2>1, <3>1, FirstIsNotZero
  <2> HIDE DEF s, data
  <2>3. pos' = pos - s /\ pad' = pad + s /\ pc' = "padding"
    BY <1>1, <1>3
  <2>4. pos' \in 1..pos /\ pad' = pad + pos - pos'
    BY <1>2, <2>2, <2>3
  <2> QED
    BY <2>1, <2>3, <2>4
<1>4. CASE data # {}
  <2> DEFINE m == Pixz!Max(data)
  <2>1. \E x \in data : \A y \in data : x >= y
    <3> DEFINE behind == {pos - w : w \in data}
    <3> HIDE DEF s
    <3>1. behind \in SUBSET Nat /\ behind # {}
      BY <1>2, <1>4
    <3>2. PICK d \in behind : \A b \in behind : d <= b
      BY <3>1, LeastNumber
    <3>3. PICK x \in data : d = pos - x
      BY <3>2
    <3>4. ASSUME NEW y \in data PROVE x >= y
      <4>1. pos - x <= pos - y
        BY <3>2, <3>3
      <4> QED
        BY <1>2, <4>1
    <3> QED
      BY <3>4
  <2>2. m \in data /\ \A y \in data : m >= y
    BY <2>1 DEF Pixz!Max
  <2> HIDE DEF s, m
  <2>3. m \in (pos - s + 1)..pos /\ ~Pixz!Zero(m)
    BY <2>2
  <2>4. \A w \in (m + 1)..pos : Pixz!Zero(w)
    <3> SUFFICES ASSUME NEW w \in (m + 1)..pos, ~Pixz!Zero(w) PROVE FALSE
      OBVIOUS
    <3>1. w \in (pos - s + 1)..pos /\ ~(m >= w)
      BY <1>2, <2>3
    <3> QED
      BY <2>2, <3>1
  <2>5. pos' = m /\ pad' = pad + pos - m /\ pc' = "footer"
    BY <1>1, <1>4 DEF m
  <2>6. m \in 1..pos
    BY <1>2, <2>3
  <2> QED
    BY <2>3, <2>4, <2>5, <2>6
<1> QED
  BY <1>3, <1>4

LEMMA XzSkips ==
  ASSUME StageOK, XzOK, Pixz!SkipPadding
  PROVE  pc = "padding" /\ pc' \in {"padding", "footer"} /\ file' = file /\ mIndex' = mIndex /\ XzOK'
<1>1. pc = "padding" /\ file' = file /\ mIndex' = mIndex
  BY DEF Pixz!SkipPadding
<1>2. file \in Contents /\ file.kind = "xz" /\ 1 \in 1..Len(file.fields)
      /\ file.fields[1].what = "stream"
  BY <1>1 DEF StageOK, Stages, XzOK
<1>3. PICK k \in Nat : XzAt(k)
  BY <1>1 DEF XzOK
<1>4. k \in 1..Len(file.fields) /\ pos \in Nat \ {0}
  BY <1>3 DEF XzAt
<1>5. PICK g : XzRest(k, g)
  BY <1>3 DEF XzAt
<1> DEFINE z == LeftEnd(k)
           here == file.fields[k].what = "padding" /\ Place(file, k + 1) = z
<1>6. z \in Nat \ {0} /\ Place(file, k) < z /\ Place(file, k) \in Nat /\ InRow(file)
      /\ Len(file.fields) \in Nat
  BY <1>2, <1>4, LeftEndFacts, XzFacts, PlaceOrder
<1>7. \/ pos = z /\ pad = 0
      \/ here /\ pos \in Place(file, k)..z /\ pad = z - pos
  BY <1>3 DEF XzAt
<1>8. pad \in Int /\ pad = z - pos /\ pos \in Place(file, k)..z
  <2> HIDE DEF z, here
  <2> QED
    BY <1>4, <1>6, <1>7
<1>9. /\ pos' \in 1..pos /\ pad' = pad + pos - pos' /\ pc' \in {"padding", "footer"}
      /\ \A w \in (pos' + 1)..pos : Pixz!Zero(w)
      /\ pc' = "footer" => ~Pixz!Zero(pos')
  BY <1>2, <1>4, <1>8, SkipsZeros
<1>10. \/ pos' = z /\ pad' = 0
       \/ here /\ pos' \in Place(file, k)..z /\ pad' = z - pos'
  <2> HIDE DEF z, here
  <2>1. CASE pos' = pos
    <3>1. pad' = pad
      BY <1>4, <1>8, <1>9, <2>1
    <3> QED
      BY <1>7, <2>1, <3>1
  <2>2. CASE pos' # pos
    <3>1. pos \in (pos' + 1)..pos
      <4> DEFINE m == pos'
      <4>1. m \in 1..pos /\ m # pos /\ pos \in Nat
        BY <1>4, <1>9, <2>2
      <4> HIDE DEF m
      <4>2. pos \in (m + 1)..pos
        BY <4>1
      <4> QED
        BY <4>2 DEF m
    <3>2. Pixz!Zero(pos)
      BY <1>9, <3>1
    <3>3. here
      <4>1. CASE pos = z
        <5>1. Pixz!Zero(LeftEnd(k))
          BY <3>2, <4>1 DEF z
        <5> QED
          BY <1>2, <1>4, <5>1, ZeroBeforeLeftEnd DEF here, z
      <4> QED
        BY <1>7, <4>1
    <3>4. k # 1
      BY <1>2, <3>3 DEF here
    <3>5. ~Pixz!Zero(Place(file, k))
      <4>1. k \in 2..Len(file.fields)
        BY <1>4, <1>6, <3>4
      <4> QED
        BY <1>2, <3>3, <4>1, NoZeroBeforePadding DEF here
    <3>6. Place(file, k) \notin (pos' + 1)..pos
      BY <1>9, <3>5
    <3>7. Place(file, k) <= pos'
      BY <1>4, <1>6, <1>8, <1>9, <3>6
    <3>8. pad' = z - pos' /\ pos' \in Place(file, k)..z
      BY <1>4, <1>6, <1>8, <1>9, <3>7
    <3> QED
      BY <3>3, <3>8
  <2> QED
    BY <2>1, <2>2
<1>11. LeftEnd(k)' = LeftEnd(k)
  BY <1>1 DEF LeftEnd
<1>12. XzRest(k, g)'
  BY <1>1, <1>5 DEF XzRest
<1>13. pos' \in Nat \ {0}
  BY <1>4, <1>9
<1>14. XzAt(k)'
  BY <1>1, <1>4, <1>10, <1>11, <1>12, <1>13 DEF XzAt
<1>15. XzOK'
  <2>1. (pc = "footer" => ~Pixz!Zero(pos))'
    BY <1>1, <1>9 DEF Pixz!Zero, Pixz!At, Pixz!EndOf
  <2> QED
    BY <1>1, <1>2, <1>9, <1>14, <2>1 DEF XzOK
<1> QED
  BY <1>1, <1>9, <1>15
(* The stream whose footer is read is the last of those that are left.     *)
LEMMA FooterEnds ==
  ASSUME StageOK, XzOK, pc = "footer", NEW k \in Nat, XzAt(k),
         NEW j \in 1..Len(file.fields), file.fields[j].what = "stream", Place(file, j + 1) = pos
  PROVE  /\ j = k \/ (k = j + 1 /\ file.fields[k].what = "padding")
         /\ pad = PadBehind(file, j) /\ Place(file, Len(file.fields) + 1) = file.size
<1>1. file \in Contents /\ file.kind = "xz" /\ ~Pixz!Zero(pos)
  BY DEF StageOK, Stages, XzOK
<1>2. k \in 1..Len(file.fields) /\ pos \in Nat \ {0}
  BY DEF XzAt
<1>3. InRow(file) /\ Len(file.fields) \in Nat /\ file.size \in Nat
      /\ LeftEnd(k) \in Nat \ {0} /\ Place(file, k) < LeftEnd(k) /\ LeftEnd(k) <= file.size
  BY <1>1, <1>2, XzFacts, LeftEndFacts
<1>4. PICK g : XzRest(k, g)
  BY DEF XzAt
<1>5. /\ k \in 1..(Len(file.fields) + 1) /\ k + 1 \in 1..(Len(file.fields) + 1)
      /\ j \in 1..(Len(file.fields) + 1) /\ j + 1 \in 1..(Len(file.fields) + 1)
      /\ Len(file.fields) + 1 \in 1..(Len(file.fields) + 1)
  BY <1>2, <1>3
<1>6. CASE pos = LeftEnd(k) /\ pad = 0
  <2>1. j = k
    <3>1. CASE k = Len(file.fields)
      <4>1. Place(file, j + 1) >= file.size
        BY <1>3, <1>6, <3>1 DEF LeftEnd
      <4> QED
        BY <1>3, <3>1, <4>1, LastReaches
    <3>2. CASE k # Len(file.fields)
      <4>1. Place(file, j + 1) = Place(file, k + 1)
        BY <1>6, <3>2 DEF LeftEnd
      <4>2. j + 1 = k + 1
        BY <1>3, <1>5, <4>1, OnePlace
      <4> QED
        BY <1>2, <4>2
    <3> QED
      BY <3>1, <3>2
  <2>2. PadBehind(file, j) = 0
    <3>1. k < Len(file.fields) => file.fields[k + 1].what = "stream"
      BY <1>4 DEF XzRest
    <3> QED
      BY <2>1, <3>1 DEF PadBehind
  <2>3. Place(file, Len(file.fields) + 1) = file.size
    <3>1. CASE k = Len(file.fields)
      BY <1>6, <2>1, <3>1 DEF LeftEnd
    <3>2. CASE k # Len(file.fields)
      BY <1>2, <1>3, <1>4, <3>2 DEF XzRest
    <3> QED
      BY <3>1, <3>2
  <2> QED
    BY <1>6, <2>1, <2>2, <2>3
<1>7. CASE /\ file.fields[k].what = "padding" /\ Place(file, k + 1) = LeftEnd(k)
           /\ pos \in Place(file, k)..LeftEnd(k) /\ pad = LeftEnd(k) - pos
  <2>1. /\ Place(file, k) \in Nat /\ file.fields[k].pos = Place(file, k)
        /\ Place(file, k + 1) = file.fields[k].pos + file.fields[k].len
        /\ file.fields[k].len \in Nat
    BY <1>2, <1>3, NextPlace
  <2>2. pos = Place(file, k)
    <3>1. k \in Pixz!At("padding") /\ pos <= Pixz!EndOf(k)
      BY <1>2, <1>3, <1>7, <2>1 DEF Pixz!At, Pixz!EndOf
    <3>2. ~(file.fields[k].pos < pos)
      BY <1>1, <3>1 DEF Pixz!Zero
    <3> QED
      BY <1>2, <1>3, <1>7, <2>1, <3>2
  <2>3. j + 1 = k
    BY <1>3, <1>5, <2>2, OnePlace
  <2>4. j < Len(file.fields) /\ PadBehind(file, j) = file.fields[k].len
    BY <1>2, <1>3, <1>7, <2>3 DEF PadBehind
  <2>5. pad = file.fields[k].len
    BY <1>7, <2>1, <2>2
  <2>6. Place(file, Len(file.fields) + 1) = file.size
    <3>1. CASE k = Len(file.fields)
      BY <1>7, <3>1 DEF LeftEnd
    <3>2. CASE k # Len(file.fields)
      BY <1>2, <1>3, <1>4, <3>2 DEF XzRest
    <3> QED
      BY <3>1, <3>2
  <2> QED
    BY <1>7, <2>3, <2>4, <2>5, <2>6
<1> QED
  BY <1>6, <1>7 DEF XzAt

LEMMA FooterLists ==
  ASSUME StageOK, XzOK, Pixz!ReadFooter
  PROVE  pc = "footer" /\ pc' \in {"padding", "indexed"} /\ file' = file /\ XzOK'
<1>1. pc = "footer" /\ file' = file /\ pad' = 0
      /\ pc' = IF pos' = 0 THEN "indexed" ELSE "padding"
  BY DEF Pixz!ReadFooter
<1>2. file \in Contents /\ file.kind = "xz" /\ 1 \in 1..Len(file.fields)
      /\ file.fields[1].what = "stream"
  BY <1>1 DEF StageOK, Stages, XzOK
<1>3. PICK j \in Pixz!At("stream") :
         /\ Pixz!EndOf(j) = pos
         /\ mIndex' = <<[blocks |-> file.fields[j].blocks, len |-> file.fields[j].len,
                         pad |-> pad]>> \o mIndex
         /\ pos' = file.fields[j].pos
  BY DEF Pixz!ReadFooter
<1>4. PICK k \in Nat : XzAt(k)
  BY <1>1 DEF XzOK
<1>5. PICK g : XzRest(k, g)
  BY <1>4 DEF XzAt
<1>6. InRow(file) /\ Len(file.fields) \in Nat /\ file.size \in Nat /\ k \in 1..Len(file.fields)
  BY <1>2, <1>4, XzFacts DEF XzAt
<1>7. j \in 1..Len(file.fields) /\ file.fields[j].what = "stream"
  BY <1>3 DEF Pixz!At
<1>8. Place(file, j + 1) = pos /\ pos' = Place(file, j) /\ Place(file, j) \in Nat
  BY <1>3, <1>6, <1>7, NextPlace DEF Pixz!EndOf
<1>9. /\ j = k \/ (k = j + 1 /\ file.fields[k].what = "padding")
      /\ pad = PadBehind(file, j) /\ Place(file, Len(file.fields) + 1) = file.size
  BY <1>1, <1>2, <1>4, <1>7, <1>8, FooterEnds
<1>10. mIndex' = <<AsStream(file, j)>> \o mIndex
  BY <1>3, <1>9 DEF AsStream
<1> DEFINE S == {AsStream(file, i) : i \in 1..Len(file.fields)}
           N == Len(mIndex)
           L == Len(file.fields)
<1>h. PICK h : h = [n \in 1..(N + 1) |-> IF n = 1 THEN j ELSE g[n - 1]]
  OBVIOUS
<1>11. /\ mIndex \in Seq(S) /\ N \in Nat
       /\ \A n \in 1..N : g[n] \in (k + 1)..L /\ file.fields[g[n]].what = "stream"
                          /\ mIndex[n] = AsStream(file, g[n])
       /\ \A m, n \in 1..N : m < n => g[m] < g[n]
       /\ \A i \in (k + 1)..L : /\ file.fields[i].what # "data"
                                /\ file.fields[i].what = "stream" => \E n \in 1..N : g[n] = i
  <2>1. mIndex \in Seq(S) /\ g \in [1..N -> (k + 1)..L]
    BY <1>5 DEF XzRest
  <2>2. N \in Nat
    BY <2>1
  <2>3. \A n \in 1..N : g[n] \in (k + 1)..L
    BY <2>1
  <2>4. \A n \in 1..N : file.fields[g[n]].what = "stream" /\ mIndex[n] = AsStream(file, g[n])
    BY <1>5 DEF XzRest
  <2>5. /\ \A m, n \in 1..N : m < n => g[m] < g[n]
        /\ \A i \in (k + 1)..L : /\ file.fields[i].what # "data"
                                 /\ file.fields[i].what = "stream" => \E n \in 1..N : g[n] = i
    BY <1>5 DEF XzRest
  <2> QED
    BY <2>1, <2>2, <2>3, <2>4, <2>5
<1>12. AsStream(file, j) \in S
  BY <1>7
<1> HIDE DEF S
<1>13. /\ mIndex' \in Seq(S) /\ Len(mIndex') = N + 1 /\ mIndex'[1] = AsStream(file, j)
       /\ \A n \in 2..(N + 1) : mIndex'[n] = mIndex[n - 1]
  <2> DEFINE r == AsStream(file, j)
  <2> HIDE DEF r
  <2>1. r \in S
    BY <1>12 DEF r
  <2>2. <<r>> \in Seq(S) /\ Len(<<r>>) = 1 /\ <<r>>[1] = r
    BY <2>1
  <2>3. mIndex' = <<r>> \o mIndex
    BY <1>10 DEF r
  <2>4. mIndex' \in Seq(S) /\ Len(mIndex') = N + 1
    BY <1>11, <2>1, <2>3
  <2>5. mIndex'[1] = r
    BY <1>11, <2>1, <2>3
  <2>6. \A n \in 2..(N + 1) : mIndex'[n] = mIndex[n - 1]
    BY <1>11, <2>1, <2>3
  <2> QED
    BY <2>4, <2>5, <2>6 DEF r
<1>14. \A n \in 2..(N + 1) : n - 1 \in 1..N /\ n \in 1..(N + 1)
  BY <1>11
<1> HIDE DEF N
<1>15. j \in Nat /\ k \in Nat /\ L \in Nat /\ j <= k /\ k <= L
  BY <1>6, <1>7, <1>9
<1>16. h[1] = j /\ 1 \in 1..(N + 1)
       /\ \A n \in 2..(N + 1) : h[n] = g[n - 1] /\ h[n] \in (k + 1)..L
  <2>1. 1 \in 1..(N + 1)
    BY <1>11
  <2>2. h[1] = j
    BY <1>h, <2>1
  <2>3. ASSUME NEW n \in 2..(N + 1) PROVE h[n] = g[n - 1]
    BY <1>14, <1>h
  <2> QED
    BY <1>11, <1>14, <2>1, <2>2, <2>3
<1>17. h = [n \in 1..(N + 1) |-> h[n]]
  BY <1>h
<1>18. \A n \in 1..(N + 1) : n = 1 \/ n \in 2..(N + 1)
  BY <1>11
<1>19. h \in [1..(N + 1) -> j..L]
  <2>1. ASSUME NEW n \in 1..(N + 1) PROVE h[n] \in j..L
    <3>1. CASE n = 1
      BY <1>15, <1>16, <3>1
    <3>2. CASE n \in 2..(N + 1)
      <4>1. h[n] \in (k + 1)..L
        BY <1>16, <3>2
      <4> QED
        BY <1>15, <4>1
    <3> QED
      BY <1>18, <3>1, <3>2
  <2> QED
    BY <1>17, <2>1
<1>20. ASSUME NEW m \in 1..(N + 1), NEW n \in 1..(N + 1), m < n PROVE h[m] < h[n]
  <2>1. n \in 2..(N + 1)
    BY <1>11, <1>20
  <2>2. CASE m = 1
    <3>1. h[n] \in (k + 1)..L
      BY <1>16, <2>1
    <3> QED
      BY <1>15, <1>16, <2>2, <3>1
  <2>3. CASE m # 1
    <3>1. m \in 2..(N + 1)
      BY <1>11, <2>3
    <3>2. m - 1 \in 1..N /\ n - 1 \in 1..N /\ m - 1 < n - 1
      BY <1>11, <1>20, <2>1, <3>1
    <3>3. g[m - 1] < g[n - 1]
      BY <1>11, <3>2
    <3> QED
      BY <1>16, <2>1, <3>1, <3>3
  <2> QED
    BY <2>2, <2>3
<1>21. ASSUME NEW n \in 1..(N + 1)
       PROVE  file.fields[h[n]].what = "stream" /\ mIndex'[n] = AsStream(file, h[n])
  <2>1. CASE n = 1
    BY <1>7, <1>13, <1>16, <2>1
  <2>2. CASE n \in 2..(N + 1)
    <3>1. n - 1 \in 1..N
      BY <1>14, <2>2
    <3>2. /\ file.fields[g[n - 1]].what = "stream"
          /\ mIndex[n - 1] = AsStream(file, g[n - 1])
      BY <1>11, <3>1
    <3>3. h[n] = g[n - 1] /\ mIndex'[n] = mIndex[n - 1]
      BY <1>13, <1>16, <2>2
    <3> QED
      BY <3>2, <3>3
  <2> QED
    BY <1>18, <2>1, <2>2
<1>22. ASSUME NEW i \in j..L
       PROVE  /\ file.fields[i].what # "data"
              /\ file.fields[i].what = "stream" => \E n \in 1..(N + 1) : h[n] = i
  <2>1. CASE i = j
    BY <1>7, <1>16, <2>1
  <2>2. CASE i # j /\ i <= k
    <3>1. i = k /\ file.fields[k].what = "padding"
      BY <1>9, <1>15, <2>2
    <3> QED
      BY <3>1
  <2>3. CASE i > k
    <3>1. i \in (k + 1)..L
      BY <1>15, <2>3
    <3>2. ASSUME file.fields[i].what = "stream" PROVE \E n \in 1..(N + 1) : h[n] = i
      <4>1. PICK n \in 1..N : g[n] = i
        BY <1>11, <3>1, <3>2
      <4>2. n + 1 \in 2..(N + 1) /\ (n + 1) - 1 = n /\ n + 1 \in 1..(N + 1)
        BY <1>11
      <4>3. h[n + 1] = i
        BY <1>16, <4>1, <4>2
      <4> QED
        BY <4>2, <4>3
    <3> QED
      BY <1>11, <3>1, <3>2
  <2> QED
    BY <1>15, <2>1, <2>2, <2>3
<1>23. (j - 1) + 1 = j /\ j - 1 < L
  BY <1>7, <1>15
<1>24. XzRest(j - 1, h)'
  <2>1. /\ mIndex' \in Seq({AsStream(file', i) : i \in 1..Len(file'.fields)})
        /\ h \in [1..Len(mIndex') -> ((j - 1) + 1)..Len(file'.fields)]
    BY <1>1, <1>13, <1>19, <1>23 DEF S
  <2>2. \A m, n \in 1..Len(mIndex') : m < n => h[m] < h[n]
    BY <1>13, <1>20
  <2>3. \A n \in 1..Len(mIndex') : /\ file'.fields[h[n]].what = "stream"
                                  /\ mIndex'[n] = AsStream(file', h[n])
    BY <1>1, <1>13, <1>21
  <2>4. \A i \in ((j - 1) + 1)..Len(file'.fields) :
            /\ file'.fields[i].what # "data"
            /\ file'.fields[i].what = "stream" => \E n \in 1..Len(mIndex') : h[n] = i
    BY <1>1, <1>13, <1>22, <1>23
  <2>5. /\ Place(file', Len(file'.fields) + 1) = file'.size
        /\ file'.fields[(j - 1) + 1].what = "stream"
    BY <1>1, <1>7, <1>9, <1>23
  <2> QED
    BY <2>1, <2>2, <2>3, <2>4, <2>5 DEF XzRest
<1>25. CASE pos' = 0
  <2>1. j = 1
    <3>1. Place(file, j) = Place(file, 1)
      BY <1>8, <1>25 DEF Place
    <3>2. j \in 1..(L + 1) /\ 1 \in 1..(L + 1)
      BY <1>7, <1>15
    <3> QED
      BY <1>6, <3>1, <3>2, OnePlace
  <2>2. j - 1 = 0
    BY <2>1
  <2>3. \E i : XzRest(0, i)'
    BY <1>24, <2>2
  <2> QED
    BY <1>1, <1>2, <1>25, <2>3 DEF XzOK
<1>26. CASE pos' # 0
  <2>1. j # 1
    BY <1>8, <1>26 DEF Place
  <2>2. j - 1 \in 1..L /\ j - 1 \in Nat
    BY <1>7, <1>15, <2>1
  <2>3. LeftEnd(j - 1)' = Place(file, j)
    BY <1>1, <1>23 DEF LeftEnd
  <2>4. XzAt(j - 1)'
    BY <1>1, <1>8, <1>24, <1>26, <2>2, <2>3 DEF XzAt
  <2> QED
    BY <1>1, <1>2, <1>26, <2>2, <2>4 DEF XzOK
<1> QED
  BY <1>1, <1>25, <1>26
LEMMA XzListedIsSound ==
  ASSUME NEW c \in Contents, c.kind = "xz", c.list # <<>>
  PROVE  /\ Pixz!Sound(c) /\ 1 \in 1..Len(c.fields) /\ c.fields[1].what = "stream"
         /\ Place(c, Len(c.fields) + 1) = c.size
<1>1. Lists(c.list, Pixz!Parts(c)) /\ InRow(c) /\ Len(c.fields) \in Nat
  BY XzFacts
<1>2. Pixz!Parts(c) # {}
  BY <1>1, NothingToList
<1>3. Pixz!Streams(c) # {}
  BY <1>2 DEF Pixz!Parts
<1>4. Pixz!Sound(c)
  BY <1>3 DEF Pixz!Streams
<1>5. Len(c.fields) \in 1..Len(c.fields) /\ 1 \in 1..Len(c.fields)
  BY <1>1, <1>4 DEF Pixz!Sound
<1>6. Place(c, Len(c.fields) + 1) = c.fields[Len(c.fields)].pos + c.fields[Len(c.fields)].len
  BY <1>1, <1>5, NextPlace
<1> QED
  BY <1>4, <1>5, <1>6 DEF Pixz!Sound

LEMMA XzStarts ==
  ASSUME StageOK, XzOK, Pixz!CheckFileType
  PROVE  /\ pc = "check" /\ pc' \in {"padding", "format"} /\ file' = file /\ mIndex' = mIndex /\ XzOK'
         /\ pc' = "padding" => file.kind = "xz"
         /\ file.list # <<>> /\ pc' = "format" => file.kind # "xz"
<1> DEFINE found == \E k \in Pixz!At("stream") : file.fields[k].pos = 0 /\ HeaderSize <= file.size
<1>1. /\ pc = "check" /\ file' = file /\ mIndex' = mIndex
      /\ IF found THEN pc' = "padding" /\ pos' = file.size /\ pad' = 0 ELSE pc' = "format"
  BY DEF Pixz!CheckFileType
<1>2. file \in Contents /\ mIndex = <<>>
  BY <1>1 DEF StageOK, Stages
<1>3. InRow(file) /\ Len(file.fields) \in Nat /\ file.size \in Nat
  BY <1>2, KindsOfContents, ContentsAreInRow
<1>4. CASE found
  <2>1. PICK k \in 1..Len(file.fields) :
           file.fields[k].what = "stream" /\ file.fields[k].pos = 0
    BY <1>4 DEF Pixz!At
  <2>2. file.kind = "xz"
    BY <1>2, <2>1, FieldsTellKind
  <2>3. Place(file, k) = Place(file, 1) /\ k \in 1..(Len(file.fields) + 1)
        /\ 1 \in 1..(Len(file.fields) + 1)
    BY <1>3, <2>1 DEF InRow, Place
  <2>4. k = 1
    BY <1>3, <2>3, OnePlace
  <2> DEFINE L == Len(file.fields)
             g == [n \in 1..0 |-> 0]
  <2>5. L \in 1..L
    BY <1>3, <2>1
  <2>6. file.size \in Nat \ {0}
    BY <1>3, <2>1, <2>4 DEF InRow
  <2>7. LeftEnd(L) = file.size /\ LeftEnd(L)' = file.size
    BY <1>1 DEF LeftEnd
  <2>8. XzRest(L, g)'
    <3>1. mIndex' = <<>> /\ Len(mIndex') = 0 /\ 1..0 = {} /\ (L + 1)..L = {}
      BY <1>1, <1>2, <1>3
    <3>2. mIndex' \in Seq({AsStream(file, j) : j \in 1..L})
      BY <3>1
    <3>3. g \in [1..Len(mIndex') -> (L + 1)..L]
      BY <3>1
    <3> QED
      BY <1>1, <1>3, <3>1, <3>2, <3>3 DEF XzRest
  <2>9. XzAt(L)'
    BY <1>1, <1>4, <2>5, <2>6, <2>7, <2>8 DEF XzAt
  <2>10. XzOK'
    BY <1>1, <1>3, <1>4, <2>1, <2>4, <2>9 DEF XzOK
  <2> QED
    BY <1>1, <1>4, <2>2, <2>10
<1>5. CASE ~found
  <2>1. ASSUME file.list # <<>>, file.kind = "xz" PROVE FALSE
    <3>1. 1 \in 1..Len(file.fields) /\ file.fields[1].what = "stream"
          /\ Place(file, Len(file.fields) + 1) = file.size
      BY <1>2, <2>1, XzListedIsSound
    <3>2. file.fields[1].pos = 0 /\ file.fields[1].len \in Nat /\ file.fields[1].len >= 2 * HeaderSize
      BY <1>2, <1>3, <2>1, <3>1, XzFacts DEF InRow, Place
    <3>3. Place(file, 1 + 1) = 0 + file.fields[1].len /\ 1 + 1 \in 1..(Len(file.fields) + 1)
      BY <1>3, <3>1, <3>2, NextPlace
    <3>4. Len(file.fields) + 1 \in 1..(Len(file.fields) + 1) /\ 1 + 1 <= Len(file.fields) + 1
      BY <1>3, <3>1
    <3>5. Place(file, 1 + 1) <= file.size
      BY <1>3, <3>1, <3>3, <3>4, PlaceOrder
    <3>6. HeaderSize \in Nat
      BY ContentsAssumption
    <3>7. HeaderSize <= file.size
      BY <1>3, <3>2, <3>3, <3>5, <3>6
    <3> QED
      BY <1>5, <3>1, <3>2, <3>7 DEF Pixz!At
  <2>2. XzOK'
    BY <1>1, <1>5 DEF XzOK
  <2> QED
    BY <1>1, <1>5, <2>1, <2>2
<1> QED
  BY <1>4, <1>5

LEMMA SoundXzGoesOn ==
  ASSUME StageOK, XzOK, Pixz!BadFooter
  PROVE  file.list = <<>>
<1> SUFFICES ASSUME file.list # <<>> PROVE FALSE
  OBVIOUS
<1>1. pc = "footer" /\ \A k \in Pixz!At("stream") : Pixz!EndOf(k) # pos
  BY DEF Pixz!BadFooter
<1>2. file \in Contents /\ file.kind = "xz" /\ ~Pixz!Zero(pos) /\ file.fields[1].what = "stream"
  BY <1>1 DEF StageOK, Stages, XzOK
<1>3. PICK k \in Nat : XzAt(k)
  BY <1>1 DEF XzOK
<1>4. /\ InRow(file) /\ Len(file.fields) \in Nat /\ file.size \in Nat
      /\ k \in 1..Len(file.fields) /\ pos \in Nat \ {0}
      /\ LeftEnd(k) \in Nat \ {0} /\ Place(file, k) < LeftEnd(k)
  BY <1>2, <1>3, XzFacts, LeftEndFacts DEF XzAt
<1>5. Pixz!Sound(file) /\ Place(file, Len(file.fields) + 1) = file.size
  BY <1>2, XzListedIsSound
<1>6. LeftEnd(k) = Place(file, k + 1)
  BY <1>5 DEF LeftEnd
<1>7. ASSUME NEW j \in 1..Len(file.fields), Place(file, j + 1) = pos
      PROVE  file.fields[j].what = "padding"
  <2>1. Pixz!EndOf(j) = pos
    BY <1>4, <1>7, NextPlace DEF Pixz!EndOf
  <2>2. file.fields[j].what # "stream"
    BY <1>1, <2>1 DEF Pixz!At
  <2> QED
    BY <1>2, <1>5, <2>2, XzFacts DEF Pixz!Sound
<1>8. /\ k + 1 \in 1..(Len(file.fields) + 1) /\ Place(file, k) \in Nat
      /\ Place(file, k + 1) = file.fields[k].pos + file.fields[k].len
      /\ file.fields[k].pos = Place(file, k)
  BY <1>4, NextPlace
<1>9. file.fields[k].what = "padding" /\ pos \in Place(file, k)..LeftEnd(k)
  <2>1. CASE pos = LeftEnd(k)
    BY <1>4, <1>6, <1>7, <1>8, <2>1
  <2>2. CASE pos # LeftEnd(k)
    BY <1>3, <2>2 DEF XzAt
  <2> QED
    BY <2>1, <2>2
<1>10. pos = Place(file, k)
  <2>1. k \in Pixz!At("padding") /\ pos <= Pixz!EndOf(k)
    BY <1>4, <1>6, <1>8, <1>9 DEF Pixz!At, Pixz!EndOf
  <2>2. ~(file.fields[k].pos < pos)
    BY <1>2, <2>1 DEF Pixz!Zero
  <2> QED
    BY <1>4, <1>8, <1>9, <2>2
<1>11. k > 1 /\ k - 1 \in 1..Len(file.fields) /\ (k - 1) + 1 = k
  BY <1>2, <1>4, <1>9
<1>12. file.fields[k - 1].what = "padding"
  BY <1>7, <1>10, <1>11
<1> QED
  BY <1>2, <1>4, <1>9, <1>11, <1>12, XzFacts

LEMMA PixzWalks ==
  ASSUME StageOK, XzOK, WalkPixz
  PROVE  /\ StageOK' /\ XzOK' /\ file' = file /\ opener' = opener
         /\ pc' \in {"padding", "footer", "indexed", "format"}
         /\ file.list # <<>> /\ pc' = "format" => file.kind # "xz"
<1>1. /\ Openers[opener] = "xz" /\ Pixz!Next /\ opener' = opener /\ mBlocks' = mBlocks
  BY DEF WalkPixz, Opening
<1>2. CASE Pixz!CheckFileType
  <2>1. /\ pc = "check" /\ pc' \in {"padding", "format"} /\ file' = file /\ mIndex' = mIndex /\ XzOK'
        /\ pc' = "padding" => file.kind = "xz"
        /\ file.list # <<>> /\ pc' = "format" => file.kind # "xz"
    BY <1>2, XzStarts
  <2>2. StageOK'
    BY <1>1, <2>1 DEF StageOK, Stages
  <2> QED
    BY <1>1, <2>1, <2>2
<1>3. CASE Pixz!SkipPadding
  <2>1. pc = "padding" /\ pc' \in {"padding", "footer"} /\ file' = file /\ XzOK'
    BY <1>3, XzSkips
  <2>2. StageOK'
    BY <1>1, <2>1 DEF StageOK, Stages
  <2> QED
    BY <1>1, <2>1, <2>2
<1>4. CASE Pixz!ReadFooter
  <2>1. pc = "footer" /\ pc' \in {"padding", "indexed"} /\ file' = file /\ XzOK'
    BY <1>4, FooterLists
  <2>2. StageOK'
    BY <1>1, <2>1 DEF StageOK, Stages
  <2> QED
    BY <1>1, <2>1, <2>2
<1>5. CASE Pixz!BadFooter
  <2>1. pc = "footer" /\ pc' = "format" /\ file' = file /\ file.list = <<>>
    BY <1>5, SoundXzGoesOn DEF Pixz!BadFooter
  <2>2. StageOK'
    BY <1>1, <2>1 DEF StageOK, Stages
  <2>3. XzOK'
    BY <2>1 DEF XzOK
  <2> QED
    BY <1>1, <2>1, <2>2, <2>3
<1> QED
  BY <1>1, <1>2, <1>3, <1>4, <1>5 DEF Pixz!Next
-----------------------------------------------------------------------------
(* The iterator over liblzma's index: its recursive functions exist.       *)
LEMMA BlocksFold ==
  ASSUME NEW acc, NEW s, Len(s.blocks) \in Nat
  PROVE  \E after :
            /\ after = [n \in 0..Len(s.blocks) |->
                           IF n = 0 THEN [acc EXCEPT !.coff = @ + HeaderSize]
                           ELSE Pixz!AddBlock(after[n - 1], s.blocks[n])]
            /\ Pixz!AddStream(acc, s) = [after[Len(s.blocks)] EXCEPT !.coff = acc.coff + s.len + s.pad]
<1> DEFINE N == Len(s.blocks)
           first == [acc EXCEPT !.coff = @ + HeaderSize]
           Is(f, m) == f = [n \in 0..m |-> IF n = 0 THEN first
                                           ELSE Pixz!AddBlock(f[n - 1], s.blocks[n])]
           without == {m \in 0..N : ~\E f : Is(f, m)}
           chosen == CHOOSE f : Is(f, N)
<1>1. without = {}
  <2> SUFFICES ASSUME without # {} PROVE FALSE
    OBVIOUS
  <2>1. without \in SUBSET Nat
    OBVIOUS
  <2>2. PICK m \in without : \A k \in without : m <= k
    BY <2>1, LeastNumber
  <2>3. m \in 0..N /\ ~\E f : Is(f, m)
    BY <2>2
  <2>4. CASE m = 0
    <3>1. Is([n \in 0..0 |-> first], 0)
      BY SMT
    <3> QED
      BY <2>3, <2>4, <3>1
  <2>5. CASE m # 0
    <3>1. m - 1 \in 0..N /\ ~(m <= m - 1)
      BY <2>3, <2>5
    <3>2. PICK f : Is(f, m - 1)
      BY <2>2, <3>1
    <3> DEFINE h == [n \in 0..m |-> IF n = m THEN Pixz!AddBlock(f[m - 1], s.blocks[m]) ELSE f[n]]
    <3> HIDE DEF first, N
    <3>3. \A n \in 0..m : n # m => n \in 0..(m - 1)
      BY <2>3
    <3>4. \A n \in 0..(m - 1) : f[n] = IF n = 0 THEN first
                                       ELSE Pixz!AddBlock(f[n - 1], s.blocks[n])
      BY <3>2
    <3>5. \A n \in 0..(m - 1) : h[n] = f[n]
      BY <2>3
    <3>6. ASSUME NEW n \in 0..m
          PROVE  h[n] = IF n = 0 THEN first ELSE Pixz!AddBlock(h[n - 1], s.blocks[n])
      <4>1. CASE n = m
        <5>1. m - 1 \in 0..(m - 1)
          BY <2>3, <2>5
        <5>2. h[m - 1] = f[m - 1] /\ h[m] = Pixz!AddBlock(f[m - 1], s.blocks[m])
          BY <2>3, <3>5, <5>1
        <5> QED
          BY <2>5, <4>1, <5>2
      <4>2. CASE n # m
        <5>1. n \in 0..(m - 1) /\ (n # 0 => n - 1 \in 0..(m - 1))
          BY <2>3, <4>2
        <5> QED
          BY <3>4, <3>5, <5>1
      <4> QED
        BY <4>1, <4>2
    <3>7. Is(h, m)
      <4>1. h = [n \in 0..m |-> h[n]]
        OBVIOUS
      <4> HIDE DEF h
      <4> QED
        BY <3>6, <4>1
    <3> QED
      BY <2>3, <3>7
  <2> QED
    BY <2>4, <2>5
<1>2. \E f : Is(f, N)
  BY <1>1
<1>3. Is(chosen, N)
  <2> HIDE DEF Is
  <2> QED
    BY <1>2
<1>4. Pixz!AddStream(acc, s) = [chosen[N] EXCEPT !.coff = acc.coff + s.len + s.pad]
  BY DEF Pixz!AddStream
<1> QED
  BY <1>3, <1>4
LEMMA StreamsFold ==
  ASSUME Len(mIndex) \in Nat
  PROVE  \E after :
            /\ after = [n \in 0..Len(mIndex) |->
                           IF n = 0 THEN [list |-> <<>>, uoff |-> 0, coff |-> 0]
                           ELSE Pixz!AddStream(after[n - 1], mIndex[n])]
            /\ Pixz!IndexedBlocks = after[Len(mIndex)].list
<1> DEFINE N == Len(mIndex)
           first == [list |-> <<>>, uoff |-> 0, coff |-> 0]
           Is(f, m) == f = [n \in 0..m |-> IF n = 0 THEN first
                                           ELSE Pixz!AddStream(f[n - 1], mIndex[n])]
           without == {m \in 0..N : ~\E f : Is(f, m)}
           chosen == CHOOSE f : Is(f, N)
<1>1. without = {}
  <2> SUFFICES ASSUME without # {} PROVE FALSE
    OBVIOUS
  <2>1. without \in SUBSET Nat
    OBVIOUS
  <2>2. PICK m \in without : \A k \in without : m <= k
    BY <2>1, LeastNumber
  <2>3. m \in 0..N /\ ~\E f : Is(f, m)
    BY <2>2
  <2>4. CASE m = 0
    <3>1. Is([n \in 0..0 |-> first], 0)
      BY SMT
    <3> QED
      BY <2>3, <2>4, <3>1
  <2>5. CASE m # 0
    <3>1. m - 1 \in 0..N /\ ~(m <= m - 1)
      BY <2>3, <2>5
    <3>2. PICK f : Is(f, m - 1)
      BY <2>2, <3>1
    <3> DEFINE h == [n \in 0..m |-> IF n = m THEN Pixz!AddStream(f[m - 1], mIndex[m]) ELSE f[n]]
    <3> HIDE DEF first, N
    <3>3. \A n \in 0..m : n # m => n \in 0..(m - 1)
      BY <2>3
    <3>4. \A n \in 0..(m - 1) : f[n] = IF n = 0 THEN first
                                       ELSE Pixz!AddStream(f[n - 1], mIndex[n])
      BY <3>2
    <3>5. \A n \in 0..(m - 1) : h[n] = f[n]
      BY <2>3
    <3>6. ASSUME NEW n \in 0..m
          PROVE  h[n] = IF n = 0 THEN first ELSE Pixz!AddStream(h[n - 1], mIndex[n])
      <4>1. CASE n = m
        <5>1. m - 1 \in 0..(m - 1)
          BY <2>3, <2>5
        <5>2. h[m - 1] = f[m - 1] /\ h[m] = Pixz!AddStream(f[m - 1], mIndex[m])
          BY <2>3, <3>5, <5>1
        <5> QED
          BY <2>5, <4>1, <5>2
      <4>2. CASE n # m
        <5>1. n \in 0..(m - 1) /\ (n # 0 => n - 1 \in 0..(m - 1))
          BY <2>3, <4>2
        <5> QED
          BY <3>4, <3>5, <5>1
      <4> QED
        BY <4>1, <4>2
    <3>7. Is(h, m)
      <4>1. h = [n \in 0..m |-> h[n]]
        OBVIOUS
      <4> HIDE DEF h
      <4> QED
        BY <3>6, <4>1
    <3> QED
      BY <2>3, <3>7
  <2> QED
    BY <2>4, <2>5
<1>2. \E f : Is(f, N)
  BY <1>1
<1>3. Is(chosen, N)
  <2> HIDE DEF Is
  <2> QED
    BY <1>2
<1>4. Pixz!IndexedBlocks = chosen[N].list
  BY DEF Pixz!IndexedBlocks
<1> QED
  BY <1>3, <1>4

(* A list with every size cut to 32 bits.                                  *)
Cut(l) == [n \in 1..Len(l) |-> [l[n] EXCEPT !.usize = @ % USizeLimit]]

LEMMA CutGrows ==
  ASSUME NEW l \in Seq(Entry), NEW b \in Entry
  PROVE  Append(Cut(l), [b EXCEPT !.usize = @ % USizeLimit]) = Cut(Append(l, b))
<1> DEFINE N == Len(l)
           e == [b EXCEPT !.usize = @ % USizeLimit]
           m == Append(l, b)
<1>1. N \in Nat /\ m \in Seq(Entry) /\ Len(m) = N + 1 /\ m[N + 1] = b
      /\ \A n \in 1..N : m[n] = l[n]
  OBVIOUS
<1> HIDE DEF m
<1>2. ASSUME NEW x \in Entry PROVE [x EXCEPT !.usize = @ % USizeLimit] \in Entry
  <2>1. USizeLimit \in Nat \ {0}
    BY ContentsAssumption
  <2>2. x.usize \in Nat
    BY DEF Entry
  <2>3. x.usize % USizeLimit \in Nat
    BY <2>1, <2>2
  <2> QED
    BY <2>3 DEF Entry
<1>3. e \in Entry
  BY <1>2
<1>4. Cut(l) \in Seq(Entry)
  <2>1. \A n \in 1..N : [l[n] EXCEPT !.usize = @ % USizeLimit] \in Entry
    BY <1>2
  <2> QED
    BY <1>1, <2>1 DEF Cut
<1>5. DOMAIN Cut(l) = 1..N
  BY DEF Cut
<1>6. Len(Cut(l)) = N
  BY <1>1, <1>4, <1>5
<1> DEFINE r == Append(Cut(l), e)
<1>7. r = [n \in 1..(N + 1) |-> IF n = N + 1 THEN e ELSE Cut(l)[n]]
  <2> DEFINE c == Cut(l)
  <2> HIDE DEF c, e
  <2>1. c \in Seq(Entry) /\ Len(c) = N
    BY <1>4, <1>6 DEF c
  <2>2. /\ r \in Seq(Entry) /\ Len(r) = N + 1 /\ r[N + 1] = e
        /\ \A n \in 1..N : r[n] = c[n]
    BY <1>3, <2>1 DEF c
  <2> HIDE DEF r
  <2>3. r = [n \in 1..(N + 1) |-> r[n]]
    BY <2>2
  <2>4. ASSUME NEW n \in 1..(N + 1) PROVE r[n] = IF n = N + 1 THEN e ELSE c[n]
    <3>1. n # N + 1 => n \in 1..N
      BY <1>1
    <3> QED
      BY <2>2, <3>1
  <2> QED
    BY <2>3, <2>4 DEF c
<1>8. Cut(m) = [n \in 1..(N + 1) |-> [m[n] EXCEPT !.usize = @ % USizeLimit]]
  BY <1>1 DEF Cut
<1>9. ASSUME NEW n \in 1..(N + 1)
      PROVE  (IF n = N + 1 THEN e ELSE Cut(l)[n]) = [m[n] EXCEPT !.usize = @ % USizeLimit]
  <2>1. CASE n = N + 1
    BY <1>1, <2>1
  <2>2. CASE n # N + 1
    <3>1. n \in 1..N
      BY <1>1, <2>2
    <3> QED
      BY <1>1, <2>2, <3>1 DEF Cut
  <2> QED
    BY <2>1, <2>2
<1> HIDE DEF r, e
<1>10. r = Cut(m)
  BY <1>7, <1>8, <1>9
<1> QED
  BY <1>10 DEF r, e, m

LEMMA CutFacts ==
  ASSUME NEW l \in Seq(Entry)
  PROVE  /\ Cut(l) = <<>> => l = <<>>
         /\ (\A n \in 1..Len(l) : l[n].usize < USizeLimit) => Cut(l) = l
<1>1. Len(l) \in Nat /\ l = [n \in 1..Len(l) |-> l[n]] /\ \A n \in 1..Len(l) : l[n] \in Entry
  OBVIOUS
<1>2. Cut(l) = <<>> => l = <<>>
  <2> SUFFICES ASSUME Cut(l) = <<>> PROVE l = <<>>
    OBVIOUS
  <2>1. 1..Len(l) = {}
    BY DEF Cut
  <2>2. ~(1 \in 1..Len(l))
    BY <2>1
  <2> QED
    BY <1>1, <2>2
<1>3. ASSUME \A n \in 1..Len(l) : l[n].usize < USizeLimit PROVE Cut(l) = l
  <2>1. ASSUME NEW n \in 1..Len(l) PROVE [l[n] EXCEPT !.usize = @ % USizeLimit] = l[n]
    <3>1. l[n] \in Entry /\ l[n].usize \in Nat /\ l[n].usize < USizeLimit /\ USizeLimit \in Nat \ {0}
      BY <1>1, <1>3, ContentsAssumption DEF Entry
    <3>2. l[n].usize % USizeLimit = l[n].usize
      BY <3>1
    <3> QED
      BY <3>1, <3>2 DEF Entry
  <2> QED
    BY <1>1, <2>1 DEF Cut
<1> QED
  BY <1>2, <1>3
(* What the iterator has after some blocks.                                *)
Acc(l, at) == [list |-> Cut(l), uoff |-> Size(l), coff |-> at]

AsPart(b) == [usize |-> b.usize, csize |-> b.csize, coff |-> b.at]

(* The first n blocks of a stream that are not empty.                      *)
BlockParts(s, n) == {AsPart(s.blocks[m]) : m \in {i \in 1..n : s.blocks[i].usize > 0}}

LEMMA AddBlockLists ==
  ASSUME NEW l, NEW parts, Lists(l, parts), NEW at \in Nat, \A c \in parts : c.coff < at,
         NEW b, b.usize \in Nat, b.csize \in Nat \ {0}, b.at = at,
         NEW all, all = IF b.usize > 0 THEN parts \cup {AsPart(b)} ELSE parts
  PROVE  \E m : /\ Lists(m, all)
                /\ Pixz!AddBlock(Acc(l, at), b) = Acc(m, at + b.csize)
<1>1. l \in Seq(Entry) /\ Size(l) \in Nat
  BY ListedFacts
<1> DEFINE e == [usize |-> b.usize, csize |-> b.csize, uoff |-> Size(l), coff |-> at]
           cut == [usize |-> b.usize % USizeLimit, csize |-> b.csize, uoff |-> Size(l), coff |-> at]
<1>2. Pixz!AddBlock(Acc(l, at), b) =
        [list |-> IF b.usize = 0 THEN Cut(l) ELSE Append(Cut(l), cut),
         uoff |-> Size(l) + b.usize, coff |-> at + b.csize]
  <2> DEFINE x == Cut(l)
             y == Size(l)
             a == [list |-> x, uoff |-> y, coff |-> at]
  <2>1. Acc(l, at) = a
    BY DEF Acc
  <2> HIDE DEF x, y
  <2>2. a.list = x /\ a.uoff = y /\ a.coff = at
    OBVIOUS
  <2>3. Pixz!AddBlock(a, b) = [a EXCEPT !.uoff = y + b.usize, !.coff = at + b.csize,
            !.list = IF b.usize = 0 THEN x
                     ELSE Append(x, [usize |-> b.usize % USizeLimit, csize |-> b.csize,
                                     uoff |-> y, coff |-> at])]
    BY <2>2 DEF Pixz!AddBlock
  <2>4. Pixz!AddBlock(a, b) = [list |-> IF b.usize = 0 THEN x
                     ELSE Append(x, [usize |-> b.usize % USizeLimit, csize |-> b.csize,
                                     uoff |-> y, coff |-> at]),
                     uoff |-> y + b.usize, coff |-> at + b.csize]
    BY <2>3
  <2> QED
    BY <2>1, <2>4 DEF x, y
<1>3. CASE b.usize = 0
  <2>1. Size(l) + b.usize = Size(l)
    BY <1>1, <1>3
  <2>2. Pixz!AddBlock(Acc(l, at), b) = Acc(l, at + b.csize)
    BY <1>2, <1>3, <2>1 DEF Acc
  <2>3. ~(b.usize > 0)
    BY <1>3
  <2> QED
    BY <2>2, <2>3
<1>4. CASE b.usize # 0
  <2>1. b.usize > 0
    BY <1>4
  <2>2. e \in Entry /\ e.uoff = Size(l) /\ e.coff = at
    BY <1>1 DEF Entry
  <2>3. Part(e) = AsPart(b)
    BY DEF Part, AsPart
  <2>4. cut = [e EXCEPT !.usize = @ % USizeLimit]
    OBVIOUS
  <2>5. e.usize = b.usize
    OBVIOUS
  <2> HIDE DEF e, cut
  <2>6. Lists(Append(l, e), parts \cup {AsPart(b)}) /\ Size(Append(l, e)) = Size(l) + b.usize
    BY <2>2, <2>3, <2>5, ListGrows
  <2>7. Append(Cut(l), cut) = Cut(Append(l, e))
    BY <1>1, <2>2, <2>4, CutGrows
  <2>8. Pixz!AddBlock(Acc(l, at), b) = Acc(Append(l, e), at + b.csize)
    BY <1>2, <1>4, <2>6, <2>7 DEF Acc
  <2> QED
    BY <2>1, <2>6, <2>8
<1> QED
  BY <1>3, <1>4

(* The same, in one hypothesis and one conclusion.                         *)
MayAdd(l, parts, at, b, all) ==
    /\ Lists(l, parts) /\ at \in Nat /\ \A q \in parts : q.coff < at
    /\ b.usize \in Nat /\ b.csize \in Nat \ {0} /\ b.at = at
    /\ all = IF b.usize > 0 THEN parts \cup {AsPart(b)} ELSE parts

Added(l, at, b, all) ==
    \E m : Lists(m, all) /\ Pixz!AddBlock(Acc(l, at), b) = Acc(m, at + b.csize)

LEMMA BlockAdded ==
  \A l, parts, at, b, all : MayAdd(l, parts, at, b, all) => Added(l, at, b, all)
  BY AddBlockLists DEF MayAdd, Added

LEMMA AddStreamLists ==
  ASSUME NEW c \in Contents, c.kind = "xz", NEW j \in 1..Len(c.fields), c.fields[j].what = "stream",
         NEW l, NEW parts, Lists(l, parts), \A b \in parts : b.coff < Place(c, j) + HeaderSize
  PROVE  LET all == parts \cup BlockParts(c.fields[j], Len(c.fields[j].blocks))
         IN  \E m : /\ Lists(m, all)
                    /\ \A b \in all : b.coff < Place(c, j + 1)
                    /\ Pixz!AddStream(Acc(l, Place(c, j)), AsStream(c, j))
                         = Acc(m, Place(c, j + 1) + PadBehind(c, j))
<1> DEFINE s == c.fields[j]
           N == Len(s.blocks)
           at == [n \in 0..N |-> IF n = 0 THEN s.pos + HeaderSize
                                 ELSE s.blocks[n].at + s.blocks[n].csize]
           acc == Acc(l, Place(c, j))
           parted == [n \in 0..N |-> parts \cup BlockParts(s, n)]
<1>1. /\ s.len >= 2 * HeaderSize /\ N \in Nat /\ HeaderSize \in Nat \ {0}
      /\ \A n \in 1..N :
            /\ s.blocks[n].usize \in Nat /\ s.blocks[n].csize \in Nat \ {0}
            /\ s.blocks[n].at = IF n = 1 THEN s.pos + HeaderSize
                                ELSE s.blocks[n - 1].at + s.blocks[n - 1].csize
            /\ s.blocks[n].at + s.blocks[n].csize <= s.pos + s.len
  BY XzFacts, ContentsAssumption
<1>2. InRow(c) /\ s.pos = Place(c, j) /\ Place(c, j) \in Nat /\ Place(c, j + 1) = s.pos + s.len
      /\ s.len \in Nat
  BY XzFacts, NextPlace
<1>3. ASSUME NEW n \in 1..N
      PROVE  n - 1 \in 0..N /\ at[n - 1] = s.blocks[n].at
             /\ at[n] = s.blocks[n].at + s.blocks[n].csize
  <2>1. n - 1 \in 0..N /\ n \in 0..N /\ n # 0
    BY <1>1
  <2>2. n # 1 => n - 1 # 0
    OBVIOUS
  <2>3. at[n - 1] = IF n - 1 = 0 THEN s.pos + HeaderSize
                    ELSE s.blocks[n - 1].at + s.blocks[n - 1].csize
    BY <2>1
  <2> QED
    BY <1>1, <2>1, <2>2, <2>3
<1>4. at[0] = s.pos + HeaderSize
  BY <1>1
<1> HIDE DEF N, at, parted
<1>5. \A n \in 0..N : at[n] \in Nat
  <2> DEFINE wrong == {n \in 0..N : at[n] \notin Nat}
  <2> SUFFICES ASSUME wrong # {} PROVE FALSE
    OBVIOUS
  <2>6. wrong \in SUBSET Nat
    BY <1>1
  <2>1. PICK n \in wrong : \A m \in wrong : n <= m
    BY <2>6, LeastNumber
  <2>2. n # 0
    BY <1>1, <1>2, <1>4, <2>1
  <2>3. n \in 1..N /\ n - 1 \in 0..N /\ ~(n <= n - 1)
    BY <1>1, <2>1, <2>2
  <2>4. at[n - 1] \in Nat
    BY <2>1, <2>3
  <2>5. at[n] \in Nat
    <3>1. at[n] = at[n - 1] + s.blocks[n].csize /\ s.blocks[n].csize \in Nat
      BY <1>1, <1>3, <2>3
    <3> QED
      BY <2>4, <3>1
  <2> QED
    BY <2>1, <2>5
<1>6. PICK after :
            /\ after = [n \in 0..N |-> IF n = 0 THEN [acc EXCEPT !.coff = @ + HeaderSize]
                                       ELSE Pixz!AddBlock(after[n - 1], s.blocks[n])]
            /\ Pixz!AddStream(acc, AsStream(c, j)) =
                  [after[N] EXCEPT !.coff = acc.coff + s.len + PadBehind(c, j)]
  <2> DEFINE t == AsStream(c, j)
  <2>1. t.blocks = s.blocks /\ t.len = s.len /\ t.pad = PadBehind(c, j)
    BY DEF AsStream
  <2> HIDE DEF t, acc, s
  <2>2. Len(t.blocks) \in Nat
    BY <1>1, <2>1 DEF N
  <2>3. PICK after :
            /\ after = [n \in 0..Len(t.blocks) |-> IF n = 0 THEN [acc EXCEPT !.coff = @ + HeaderSize]
                                       ELSE Pixz!AddBlock(after[n - 1], t.blocks[n])]
            /\ Pixz!AddStream(acc, t) = [after[Len(t.blocks)] EXCEPT !.coff = acc.coff + t.len + t.pad]
    BY <2>2, BlocksFold
  <2>4. Len(t.blocks) = N
    BY <2>1 DEF N
  <2> QED
    BY <2>1, <2>3, <2>4 DEF t
<1> DEFINE Good(n, m) == /\ Lists(m, parted[n]) /\ \A b \in parted[n] : b.coff < at[n]
                         /\ after[n] = Acc(m, at[n])
           wrong == {n \in 0..N : ~\E m : Good(n, m)}
<1>7. wrong = {}
  <2> SUFFICES ASSUME wrong # {} PROVE FALSE
    OBVIOUS
  <2>5. wrong \in SUBSET Nat
    BY <1>1
  <2>1. PICK n \in wrong : \A m \in wrong : n <= m
    BY <2>5, LeastNumber
  <2>2. n \in 0..N /\ ~\E m : Good(n, m)
    BY <2>1
  <2>3. CASE n = 0
    <3>1. after[n] = [acc EXCEPT !.coff = @ + HeaderSize]
      BY <1>6, <2>2, <2>3
    <3>2. after[n] = Acc(l, at[n])
      BY <1>2, <1>4, <2>3, <3>1 DEF Acc
    <3>3. BlockParts(s, n) = {}
      BY <2>3 DEF BlockParts
    <3>4. parted[n] = parts
      BY <2>2, <3>3 DEF parted
    <3>5. Good(n, l)
      BY <1>2, <1>4, <2>3, <3>2, <3>4
    <3> QED
      BY <2>2, <3>5
  <2>4. CASE n # 0
    <3>1. n \in 1..N /\ n - 1 \in 0..N /\ ~(n <= n - 1)
      BY <1>1, <2>2, <2>4
    <3>2. PICK m : Good(n - 1, m)
      BY <2>1, <3>1
    <3> DEFINE b == s.blocks[n]
               here == IF b.usize > 0 THEN parted[n - 1] \cup {AsPart(b)} ELSE parted[n - 1]
    <3>3. /\ b.usize \in Nat /\ b.csize \in Nat \ {0} /\ b.at = at[n - 1]
          /\ at[n] = at[n - 1] + b.csize /\ at[n - 1] \in Nat /\ at[n] \in Nat
      BY <1>1, <1>3, <1>5, <2>2, <3>1
    <3>4. after[n] = Pixz!AddBlock(after[n - 1], b)
      BY <1>6, <2>2, <2>4
    <3> HIDE DEF b
    <3>5. PICK k : /\ Lists(k, here)
                   /\ Pixz!AddBlock(Acc(m, at[n - 1]), b) = Acc(k, at[n - 1] + b.csize)
      <4> DEFINE z == at[n - 1]
                 p == parted[n - 1]
      <4>1. MayAdd(m, p, z, b, here)
        BY <3>2, <3>3 DEF MayAdd
      <4>2. Added(m, z, b, here)
        <5> HIDE DEF z, p, here
        <5> QED
          BY <4>1, BlockAdded
      <4> QED
        BY <4>2 DEF Added
    <3>6. after[n] = Acc(k, at[n])
      BY <3>2, <3>3, <3>4, <3>5
    <3>7. parted[n] = here
      <4>1. 1..n = 1..(n - 1) \cup {n}
        BY <3>1
      <4>2. BlockParts(s, n) = IF b.usize > 0 THEN BlockParts(s, n - 1) \cup {AsPart(b)}
                               ELSE BlockParts(s, n - 1)
        BY <4>1 DEF BlockParts, b
      <4> QED
        BY <2>2, <3>1, <4>2 DEF parted
    <3>8. ASSUME NEW p \in here PROVE p.coff < at[n]
      <4>1. CASE p \in parted[n - 1]
        <5>1. p.coff < at[n - 1]
          BY <3>2, <4>1
        <5>2. p.coff \in Nat
          BY <3>2, <4>1, ListedPlaces
        <5> QED
          BY <3>3, <5>1, <5>2
      <4>2. CASE p = AsPart(b)
        <5>1. p.coff = at[n - 1]
          BY <3>3, <4>2 DEF AsPart
        <5> QED
          BY <3>3, <5>1
      <4> QED
        BY <4>1, <4>2
    <3> HIDE DEF here
    <3>9. Good(n, k)
      BY <3>5, <3>6, <3>7, <3>8
    <3> QED
      BY <2>2, <3>9
  <2> QED
    BY <2>3, <2>4
<1>8. N \in 0..N
  BY <1>1
<1>9. PICK m : Good(N, m)
  BY <1>7, <1>8
<1>10. parted[N] = parts \cup BlockParts(s, N)
  BY <1>8 DEF parted
<1>11. at[N] <= Place(c, j + 1) /\ at[N] \in Nat /\ Place(c, j + 1) \in Nat
  <2>1. CASE N = 0
    BY <1>1, <1>2, <1>4, <2>1
  <2>2. CASE N # 0
    <3>1. N \in 1..N
      BY <1>1, <2>2
    <3>2. at[N] = s.blocks[N].at + s.blocks[N].csize
      BY <1>3, <3>1
    <3> QED
      BY <1>1, <1>2, <1>5, <1>8, <3>1, <3>2
  <2> QED
    BY <2>1, <2>2
<1>12. ASSUME NEW b \in parted[N] PROVE b.coff < Place(c, j + 1)
  <2>1. b.coff < at[N]
    BY <1>9
  <2>2. b.coff \in Nat
    BY <1>9, ListedPlaces
  <2> QED
    BY <1>11, <2>1, <2>2
<1>13. Pixz!AddStream(acc, AsStream(c, j)) = Acc(m, Place(c, j + 1) + PadBehind(c, j))
  <2> DEFINE x == acc.coff + s.len + PadBehind(c, j)
  <2>1. Pixz!AddStream(acc, AsStream(c, j)) = [Acc(m, at[N]) EXCEPT !.coff = x]
    BY <1>6, <1>9
  <2>2. acc.coff = Place(c, j)
    BY DEF Acc
  <2>3. x = Place(c, j + 1) + PadBehind(c, j)
    BY <1>2, <2>2
  <2> HIDE DEF x
  <2>4. [Acc(m, at[N]) EXCEPT !.coff = x] = Acc(m, x)
    BY DEF Acc
  <2> QED
    BY <2>1, <2>3, <2>4
<1> QED
  BY <1>9, <1>10, <1>12, <1>13 DEF N
(* The same, to be cited.                                                  *)
MayAddStream(c, j, l, parts) ==
    /\ c \in Contents /\ c.kind = "xz" /\ j \in 1..Len(c.fields) /\ c.fields[j].what = "stream"
    /\ Lists(l, parts) /\ \A b \in parts : b.coff < Place(c, j) + HeaderSize

StreamParts(c, j) == BlockParts(c.fields[j], Len(c.fields[j].blocks))

StreamAdded(c, j, l, parts) ==
    \E m : /\ Lists(m, parts \cup StreamParts(c, j))
           /\ \A b \in parts \cup StreamParts(c, j) : b.coff < Place(c, j + 1)
           /\ Pixz!AddStream(Acc(l, Place(c, j)), AsStream(c, j))
                = Acc(m, Place(c, j + 1) + PadBehind(c, j))

LEMMA StreamIsAdded ==
  \A c, j, l, parts : MayAddStream(c, j, l, parts) => StreamAdded(c, j, l, parts)
<1> SUFFICES ASSUME NEW c, NEW j, NEW l, NEW parts, MayAddStream(c, j, l, parts)
             PROVE  StreamAdded(c, j, l, parts)
  OBVIOUS
<1>1. /\ c \in Contents /\ c.kind = "xz" /\ j \in 1..Len(c.fields) /\ c.fields[j].what = "stream"
      /\ Lists(l, parts) /\ \A b \in parts : b.coff < Place(c, j) + HeaderSize
  BY DEF MayAddStream
<1> QED
  BY <1>1, AddStreamLists DEF StreamAdded, StreamParts

(* Behind a stream and its padding stands the next stream.                 *)
LEMMA NextStream ==
  ASSUME file.kind = "xz", file \in Contents, NEW g, XzRest(0, g),
         NEW n \in 1..Len(mIndex), n + 1 \in 1..Len(mIndex)
  PROVE  Place(file, g[n] + 1) + PadBehind(file, g[n]) = Place(file, g[n + 1])
<1> DEFINE i == g[n]
           h == g[n + 1]
           L == Len(file.fields)
           N == Len(mIndex)
<1>1. InRow(file) /\ L \in Nat /\ N \in Nat
  BY XzFacts DEF XzRest
<1>2. /\ \A x, y \in 1..N : x < y => g[x] < g[y]
      /\ \A x \in 1..N : g[x] \in 1..L /\ file.fields[g[x]].what = "stream"
      /\ \A j \in 1..L :
            /\ file.fields[j].what # "data"
            /\ file.fields[j].what = "stream" => \E x \in 1..N : g[x] = j
  <2>1. 0 + 1 = 1
    OBVIOUS
  <2> QED
    BY <2>1 DEF XzRest
<1>3. /\ i \in 1..L /\ h \in 1..L /\ i < h /\ n < n + 1 /\ n \in 1..N /\ n + 1 \in 1..N
      /\ file.fields[i].what = "stream" /\ file.fields[h].what = "stream"
  <2>1. n < n + 1
    BY <1>1
  <2> QED
    BY <1>2, <2>1
<1>4. ASSUME NEW j \in 1..L, i < j, j <= h, file.fields[j].what = "stream"
      PROVE  j = h
  <2>1. PICK m \in 1..N : g[m] = j
    BY <1>2, <1>4
  <2> DEFINE n1 == n + 1
  <2> HIDE DEF N, i, h, n1
  <2>2. m < n => j < i
    BY <1>2, <1>3, <2>1 DEF i
  <2>3. m = n => j = i
    BY <2>1 DEF i
  <2>4. n1 < m => h < j
    BY <1>2, <1>3, <2>1 DEF h, n1
  <2>5. m = n1 => j = h
    BY <2>1 DEF h, n1
  <2>6. m < n \/ m = n \/ m = n1 \/ n1 < m
    BY <1>1, <2>1 DEF n1
  <2>7. i \in Nat /\ h \in Nat /\ j \in Nat
    BY <1>3
  <2> QED
    BY <1>4, <2>2, <2>3, <2>4, <2>5, <2>6, <2>7
<1> DEFINE k == i + 1
           k2 == k + 1
<1>5. /\ k \in 1..L /\ i < k /\ k <= h /\ k > 1 /\ k - 1 = i /\ i < L
      /\ k # h => k2 \in 1..L /\ i < k2 /\ k2 <= h /\ k2 > 1 /\ k2 - 1 = k
  <2> HIDE DEF i, h, L
  <2> QED
    BY <1>1, <1>3
<1>6. PadBehind(file, i) = IF file.fields[k].what = "padding" THEN file.fields[k].len ELSE 0
  BY <1>5 DEF PadBehind
<1>7. Place(file, k) \in Nat /\ Place(file, k2) = Place(file, k) + file.fields[k].len
  <2>1. k \in 1..L
    BY <1>5
  <2> HIDE DEF k
  <2> QED
    BY <1>1, <2>1, NextPlace
<1>8. \A x \in 1..L : file.fields[x].what \in {"stream", "padding", "data"}
  BY XzFacts
<1> HIDE DEF i, h, L, N, k, k2
<1>9. file.fields[k].what = "stream" \/ file.fields[k].what = "padding"
  BY <1>2, <1>5, <1>8
<1>10. CASE file.fields[k].what = "stream"
  <2>1. k = h
    BY <1>4, <1>5, <1>10
  <2>2. PadBehind(file, i) = 0
    BY <1>6, <1>10
  <2>3. Place(file, k) + PadBehind(file, i) = Place(file, h)
    BY <1>7, <2>1, <2>2
  <2> QED
    BY <2>3 DEF k, h, i
<1>11. CASE file.fields[k].what = "padding"
  <2>1. k # h
    BY <1>3, <1>11
  <2>2. file.fields[k2].what # "padding"
    BY <1>5, <1>11, <2>1, XzFacts DEF L
  <2>3. file.fields[k2].what = "stream"
    BY <1>2, <1>5, <1>8, <2>1, <2>2
  <2>4. k2 = h
    BY <1>4, <1>5, <2>1, <2>3
  <2>5. Place(file, k) + PadBehind(file, i) = Place(file, h)
    BY <1>6, <1>7, <1>11, <2>4
  <2> QED
    BY <2>5 DEF k, h, i
<1> QED
  BY <1>9, <1>10, <1>11

(* An index that is complete is that of a sound file.                      *)
LEMMA IndexedIsSound ==
  ASSUME file.kind = "xz", file \in Contents, NEW g, XzRest(0, g),
         1 \in 1..Len(file.fields), file.fields[1].what = "stream"
  PROVE  Pixz!Sound(file) /\ Len(mIndex) \in Nat /\ 1 \in 1..Len(mIndex) /\ g[1] = 1
<1> DEFINE L == Len(file.fields)
<1>1. InRow(file) /\ L \in Nat /\ L \in 1..L /\ 0 < L /\ Len(mIndex) \in Nat
  BY XzFacts DEF XzRest
<1>2. Place(file, L + 1) = file.size
  BY <1>1 DEF XzRest
<1>3. Place(file, L + 1) = file.fields[L].pos + file.fields[L].len
  BY <1>1, NextPlace
<1>4. \A k \in 1..L : file.fields[k].what # "data"
  BY DEF XzRest
<1>5. Pixz!Sound(file)
  BY <1>1, <1>2, <1>3, <1>4 DEF Pixz!Sound
<1>6. PICK n \in 1..Len(mIndex) : g[n] = 1
  BY DEF XzRest
<1>7. 1 \in 1..Len(mIndex)
  BY <1>1, <1>6
<1>8. n = 1
  <2> SUFFICES ASSUME n # 1 PROVE FALSE
    OBVIOUS
  <2>1. 1 < n
    BY <1>1, <1>6
  <2>2. g[1] < g[n] /\ g[1] \in 1..L
    BY <1>7, <2>1 DEF XzRest
  <2> QED
    BY <1>1, <1>6, <2>2
<1> QED
  BY <1>1, <1>5, <1>6, <1>7, <1>8

(* The blocks of all streams are those of the file.                        *)
LEMMA AllStreamsParts ==
  ASSUME file.kind = "xz", file \in Contents, NEW g, XzRest(0, g), Pixz!Sound(file)
  PROVE  UNION {StreamParts(file, g[m]) : m \in 1..Len(mIndex)} = Pixz!Parts(file)
<1> DEFINE L == Len(file.fields)
           all == UNION {StreamParts(file, g[m]) : m \in 1..Len(mIndex)}
           Of(k) == {[usize |-> b.usize, csize |-> b.csize, coff |-> b.at] :
               b \in {c \in {file.fields[k].blocks[n] : n \in 1..Len(file.fields[k].blocks)} :
                         c.usize > 0}}
<1>1. Pixz!Parts(file) = UNION {Of(k) : k \in Pixz!Streams(file)}
  BY DEF Pixz!Parts
<1>2. Pixz!Streams(file) = {k \in 1..L : file.fields[k].what = "stream"}
  BY DEF Pixz!Streams
<1>3. ASSUME NEW k PROVE StreamParts(file, k) = Of(k)
  <2> DEFINE blocks == file.fields[k].blocks
  <2>1. \A x : x \in StreamParts(file, k) <=>
                \E n \in 1..Len(blocks) : blocks[n].usize > 0 /\ x = AsPart(blocks[n])
    BY DEF StreamParts, BlockParts
  <2>2. \A x : x \in Of(k) <=>
                \E n \in 1..Len(blocks) : blocks[n].usize > 0 /\ x = AsPart(blocks[n])
    BY DEF AsPart
  <2> HIDE DEF Of, blocks
  <2> QED
    BY <2>1, <2>2
<1>4. \A m \in 1..Len(mIndex) : g[m] \in Pixz!Streams(file)
  BY <1>2 DEF XzRest
<1>5. \A k \in Pixz!Streams(file) : \E m \in 1..Len(mIndex) : g[m] = k
  BY <1>2 DEF XzRest
<1> HIDE DEF Of
<1>6. all = UNION {Of(g[m]) : m \in 1..Len(mIndex)}
  BY <1>3
<1>7. UNION {Of(g[m]) : m \in 1..Len(mIndex)} = UNION {Of(k) : k \in Pixz!Streams(file)}
  BY <1>4, <1>5
<1> QED
  BY <1>1, <1>6, <1>7
LEMMA OneMore ==
  ASSUME NEW g, NEW A, NEW B, NEW n, A = B \cup {n}
  PROVE  UNION {StreamParts(file, g[m]) : m \in A} =
           (UNION {StreamParts(file, g[m]) : m \in B}) \cup StreamParts(file, g[n])
<1> DEFINE all == UNION {StreamParts(file, g[m]) : m \in A}
           most == UNION {StreamParts(file, g[m]) : m \in B}
<1>1. \A x : x \in all <=> \E m \in A : x \in StreamParts(file, g[m])
  OBVIOUS
<1>2. \A x : x \in most <=> \E m \in B : x \in StreamParts(file, g[m])
  OBVIOUS
<1> HIDE DEF all, most
<1>3. \A x : x \in all <=> x \in most \cup StreamParts(file, g[n])
  BY <1>1, <1>2
<1>4. all = most \cup StreamParts(file, g[n])
  BY <1>3
<1> QED
  BY <1>4 DEF all, most

(* What the iterator tells are the blocks of the file, their sizes cut.    *)
LEMMA IndexedIsCut ==
  ASSUME file.kind = "xz", file \in Contents, NEW g, XzRest(0, g),
         1 \in 1..Len(file.fields), file.fields[1].what = "stream"
  PROVE  Pixz!IndexedBlocks = Cut(file.list)
<1> DEFINE N == Len(mIndex)
           L == Len(file.fields)
           at == [n \in 0..N |-> IF n = 0 THEN 0
                                 ELSE Place(file, g[n] + 1) + PadBehind(file, g[n])]
           got == [n \in 0..N |-> UNION {StreamParts(file, g[m]) : m \in 1..n}]
<1>1. Pixz!Sound(file) /\ N \in Nat /\ 1 \in 1..N /\ g[1] = 1
  BY IndexedIsSound
<1>2. InRow(file) /\ L \in Nat /\ HeaderSize \in Nat \ {0}
  BY XzFacts, ContentsAssumption
<1>3. \A n \in 1..N : /\ g[n] \in 1..L /\ file.fields[g[n]].what = "stream"
                      /\ mIndex[n] = AsStream(file, g[n])
  <2>1. 0 + 1 = 1
    OBVIOUS
  <2> QED
    BY <2>1 DEF XzRest
<1>4. \A k \in 1..L : PadBehind(file, k) \in Nat
  <2> TAKE k \in 1..L
  <2>1. k < L => k + 1 \in 1..L
    BY <1>2
  <2> QED
    BY <1>2, <2>1 DEF PadBehind, InRow
<1>5. ASSUME NEW n \in 1..N
      PROVE  /\ n - 1 \in 0..N /\ n \in 0..N /\ n # 0 /\ ~(n <= n - 1)
             /\ at[n - 1] = Place(file, g[n])
             /\ at[n] = Place(file, g[n] + 1) + PadBehind(file, g[n])
             /\ Place(file, g[n]) \in Nat /\ Place(file, g[n] + 1) \in Nat
             /\ PadBehind(file, g[n]) \in Nat
  <2>1. n - 1 \in 0..N /\ n \in 0..N /\ n # 0 /\ ~(n <= n - 1)
    BY <1>1
  <2>2. at[n - 1] = Place(file, g[n])
    <3>1. CASE n = 1
      <4>1. at[n - 1] = 0
        BY <2>1, <3>1
      <4>2. Place(file, g[n]) = 0
        BY <1>1, <3>1 DEF Place
      <4> QED
        BY <4>1, <4>2
    <3>2. CASE n # 1
      <4> DEFINE m == n - 1
      <4>1. m \in 1..N /\ m + 1 \in 1..N /\ m + 1 = n /\ m # 0
        BY <1>1, <3>2
      <4>2. at[m] = Place(file, g[m] + 1) + PadBehind(file, g[m])
        BY <2>1, <4>1
      <4>3. Place(file, g[m] + 1) + PadBehind(file, g[m]) = Place(file, g[m + 1])
        BY <4>1, NextStream
      <4> QED
        BY <4>1, <4>2, <4>3
    <3> QED
      BY <3>1, <3>2
  <2>3. /\ Place(file, g[n]) \in Nat /\ Place(file, g[n] + 1) \in Nat
        /\ PadBehind(file, g[n]) \in Nat
    BY <1>2, <1>3, <1>4, NextPlace, PlacesAreNumbers
  <2> QED
    BY <2>1, <2>2, <2>3
<1>6. at[0] = 0 /\ got[0] = {}
  <2>1. 0 \in 0..N /\ 1..0 = {}
    BY <1>1
  <2> QED
    BY <2>1
<1>7. ASSUME NEW n \in 1..N
      PROVE  got[n] = got[n - 1] \cup StreamParts(file, g[n])
  <2>1. n - 1 \in 0..N /\ n \in 0..N
    BY <1>5
  <2>2. 1..n = 1..(n - 1) \cup {n}
    BY <1>1
  <2>3. UNION {StreamParts(file, g[m]) : m \in 1..n} =
          (UNION {StreamParts(file, g[m]) : m \in 1..(n - 1)}) \cup StreamParts(file, g[n])
    BY <2>2, OneMore
  <2> QED
    BY <2>1, <2>3
<1>8. N \in 0..N /\ got[N] = Pixz!Parts(file)
  <2>1. N \in 0..N
    BY <1>1
  <2> QED
    BY <1>1, <2>1, AllStreamsParts
<1>9. PICK after :
        /\ after = [n \in 0..N |-> IF n = 0 THEN [list |-> <<>>, uoff |-> 0, coff |-> 0]
                                   ELSE Pixz!AddStream(after[n - 1], mIndex[n])]
        /\ Pixz!IndexedBlocks = after[N].list
  BY <1>1, StreamsFold
<1> HIDE DEF N, L, at, got
<1> DEFINE Good(n, l) == /\ Lists(l, got[n]) /\ \A b \in got[n] : b.coff < at[n]
                         /\ after[n] = Acc(l, at[n])
           wrong == {n \in 0..N : ~\E l : Good(n, l)}
<1>10. wrong = {}
  <2> SUFFICES ASSUME wrong # {} PROVE FALSE
    OBVIOUS
  <2>1. wrong \in SUBSET Nat
    BY <1>1
  <2>2. PICK n \in wrong : \A m \in wrong : n <= m
    BY <2>1, LeastNumber
  <2>3. n \in 0..N /\ ~\E l : Good(n, l)
    BY <2>2
  <2>4. CASE n = 0
    <3>1. after[n] = [list |-> <<>>, uoff |-> 0, coff |-> 0]
      BY <1>9, <2>3, <2>4
    <3>2. Cut(<<>>) = <<>>
      BY DEF Cut
    <3>3. after[n] = Acc(<<>>, at[n])
      BY <1>6, <2>4, <3>1, <3>2, NothingListed DEF Acc
    <3>4. Good(n, <<>>)
      BY <1>6, <2>4, <3>3, NothingListed
    <3> QED
      BY <2>3, <3>4
  <2>5. CASE n # 0
    <3>1. n \in 1..N
      BY <1>1, <2>3, <2>5
    <3>2. n - 1 \in 0..N /\ ~(n <= n - 1)
      BY <1>5, <3>1
    <3>3. PICK l : Good(n - 1, l)
      BY <2>2, <3>2
    <3> DEFINE j == g[n]
               z == Place(file, j)
               y == Place(file, j + 1)
               p == got[n - 1]
               w == PadBehind(file, j)
    <3>4. /\ j \in 1..L /\ file.fields[j].what = "stream" /\ mIndex[n] = AsStream(file, j)
          /\ z = at[n - 1] /\ z \in Nat /\ y \in Nat /\ w \in Nat /\ at[n] = y + w
      BY <1>3, <1>5, <3>1
    <3>5. /\ Lists(l, p) /\ \A b \in p : b.coff < z
          /\ after[n - 1] = Acc(l, z)
      BY <3>3, <3>4
    <3>6. \A b \in p : b.coff \in Nat
      BY <3>5, ListedPlaces
    <3>7. MayAddStream(file, j, l, p)
      <4>1. ASSUME NEW b \in p PROVE b.coff < z + HeaderSize
        <5>1. b.coff < z /\ b.coff \in Nat /\ z \in Nat
          BY <3>4, <3>5, <3>6
        <5> HIDE DEF z, p
        <5> QED
          BY <1>2, <5>1
      <4> QED
        BY <3>4, <3>5, <4>1 DEF MayAddStream, L
    <3>8. StreamAdded(file, j, l, p)
      <4> HIDE DEF j, p
      <4> QED
        BY <3>7, StreamIsAdded
    <3>9. PICK k : /\ Lists(k, p \cup StreamParts(file, j))
                   /\ \A b \in p \cup StreamParts(file, j) : b.coff < y
                   /\ Pixz!AddStream(Acc(l, z), AsStream(file, j)) = Acc(k, y + w)
      BY <3>8 DEF StreamAdded
    <3>10. got[n] = p \cup StreamParts(file, j)
      BY <1>7, <3>1
    <3>11. after[n] = Acc(k, at[n])
      <4>1. after[n] = Pixz!AddStream(after[n - 1], mIndex[n])
        BY <1>9, <2>3, <2>5
      <4> QED
        BY <3>4, <3>5, <3>9, <4>1
    <3>12. ASSUME NEW b \in got[n] PROVE b.coff < at[n]
      <4>1. b.coff < y
        BY <3>9, <3>10
      <4>2. b.coff \in Nat
        BY <3>9, <3>10, ListedPlaces
      <4> HIDE DEF y, w
      <4> QED
        BY <3>4, <4>1, <4>2
    <3>13. Lists(k, got[n])
      BY <3>9, <3>10
    <3> HIDE DEF j, z, y, p, w
    <3>14. Good(n, k)
      BY <3>11, <3>12, <3>13
    <3> QED
      BY <2>3, <3>14
  <2> QED
    BY <2>4, <2>5
<1>11. PICK l : Good(N, l)
  BY <1>8, <1>10
<1>12. l = file.list
  <2>1. Lists(l, Pixz!Parts(file))
    BY <1>8, <1>11
  <2>2. Lists(file.list, Pixz!Parts(file))
    BY XzFacts
  <2> QED
    BY <2>1, <2>2, OneList
<1>13. Pixz!IndexedBlocks = Cut(l)
  BY <1>9, <1>11 DEF Acc
<1> QED
  BY <1>12, <1>13
-----------------------------------------------------------------------------
(* What is loaded, stored and served is a file's own list, or as much of it*)
(* as the scan or the index has.                                           *)
ListOf(l, c) == c \in Contents /\ (OwnList(l, c) \/ (c.kind = "xz" /\ l = Cut(c.list)))

DiskOK == \A s \in Sources : disk[s] \in Contents

StoredOK ==
    \A p \in IndexPaths : index[p] # None =>
        ListOf(index[p].list, index[p].made) /\ index[p].made.kind \in Indexed

LoadedOK == pc = "loaded" => ListOf(mBlocks, made)

ServedListOK == \A d \in DOMAIN mMap : ListOf(mMap[d].list, mMap[d].made) /\ mMap[d].list # <<>>

WalkOK == StageOK /\ LzopOK /\ ZstdOK /\ XzOK /\ LoadedOK

ContentInv == DiskOK /\ StoredOK /\ ServedListOK /\ WalkOK

(* The walk that a stage belongs to, and what holds outside of a walk.     *)
LEMMA NoWalk ==
  ASSUME pc' \notin {"load", "blocks", "member", "table", "padding", "footer", "indexed"}
  PROVE  LzopOK' /\ ZstdOK' /\ XzOK'
BY DEF LzopOK, ZstdOK, XzOK

LEMMA NotOpening ==
  ASSUME pc' \notin Stages \cup {"loaded"}
  PROVE  WalkOK'
<1>1. pc' \notin {"check", "load", "format", "blocks", "member", "build", "built", "table",
                  "padding", "footer", "indexed", "loaded"}
  BY DEF Stages
<1>2. StageOK'
  BY <1>1 DEF StageOK, Stages
<1>3. LoadedOK'
  BY <1>1 DEF LoadedOK
<1> QED
  BY <1>1, <1>2, <1>3, NoWalk DEF WalkOK

LEMMA OthersKeep ==
  ASSUME ContentInv, UNCHANGED <<disk, index, mMap>>, WalkOK'
  PROVE  ContentInv'
BY DEF ContentInv, DiskOK, StoredOK, ServedListOK, ListOf, OwnList, IndexPaths

-----------------------------------------------------------------------------
LEMMA InitContent == Init => ContentInv
<1> SUFFICES ASSUME Init PROVE ContentInv
  OBVIOUS
<1>1. disk \in Disks /\ mMap = <<>> /\ pc = "down" /\ \A p \in IndexPaths : index[p] = None
  BY DEF Init
<1>2. DiskOK
  BY <1>1 DEF DiskOK, Contents
<1>3. StoredOK
  BY <1>1 DEF StoredOK
<1>4. ServedListOK
  BY <1>1 DEF ServedListOK
<1>5. StageOK /\ LzopOK /\ ZstdOK /\ XzOK /\ LoadedOK
  BY <1>1 DEF StageOK, LzopOK, ZstdOK, XzOK, LoadedOK, Stages
<1> QED
  BY <1>2, <1>3, <1>4, <1>5 DEF ContentInv, WalkOK

(* Nothing of the source being opened changes.                             *)
LEMMA SameWalk ==
  ASSUME WalkOK, UNCHANGED <<opener, file, pos, flags, coff, mBlocks, pad, mIndex, made, pc>>
  PROVE  WalkOK'
<1>1. StageOK'
  BY DEF WalkOK, StageOK, OwnList
<1>2. LzopOK'
  BY DEF WalkOK, LzopOK, LzopAt, InBlocks
<1>3. ZstdOK'
  BY DEF WalkOK, ZstdOK
<1>4. XzOK'
  <2>1. \A k, g : XzRest(k, g) => XzRest(k, g)'
    BY DEF XzRest
  <2>2. \A k : LeftEnd(k)' = LeftEnd(k)
    BY DEF LeftEnd
  <2>3. \A k : XzAt(k) => XzAt(k)'
    BY <2>1, <2>2 DEF XzAt
  <2>4. Pixz!Zero(pos)' = Pixz!Zero(pos)
    BY DEF Pixz!Zero, Pixz!At, Pixz!EndOf
  <2> QED
    BY <2>1, <2>3, <2>4 DEF WalkOK, XzOK
<1>5. LoadedOK'
  BY DEF WalkOK, LoadedOK, ListOf, OwnList
<1> QED
  BY <1>1, <1>2, <1>3, <1>4, <1>5 DEF WalkOK

LEMMA OpenSourceContent == ASSUME Inv, ContentInv, OpenSource PROVE ContentInv'
<1>1. /\ UNCHANGED <<disk, index, mMap>> /\ opener' = 1 /\ file' = disk[Source]
      /\ pos' = 0 /\ mBlocks' = <<>> /\ mIndex' = <<>> /\ arg <= Len(args)
      /\ pc' \in {"check", "error"}
  BY DEF OpenSource, Holding, stored
<1>2. Source \in Sources
  BY <1>1 DEF Inv, TypesOK, Source
<1>3. file' \in Contents
  BY <1>1, <1>2 DEF ContentInv, DiskOK
<1>4. opener' \in 1..Len(Openers)
  BY <1>1 DEF Openers
<1>5. StageOK'
  BY <1>1, <1>3, <1>4 DEF StageOK, Stages
<1>6. LoadedOK'
  BY <1>1 DEF LoadedOK
<1>7. WalkOK'
  BY <1>1, <1>5, <1>6, NoWalk DEF WalkOK
<1> QED
  BY <1>1, <1>7, OthersKeep

LEMMA NextOpenerContent == ASSUME ContentInv, NextOpener PROVE ContentInv'
<1>1. /\ UNCHANGED <<disk, index, mMap>> /\ opener' = opener + 1 /\ file' = file
      /\ pos' = 0 /\ mBlocks' = <<>> /\ mIndex' = <<>> /\ opener < Len(Openers)
      /\ pc = "format" /\ pc' = "check"
  BY DEF NextOpener, Holding, stored
<1>2. file \in Contents /\ opener \in 1..Len(Openers)
  BY <1>1 DEF ContentInv, WalkOK, StageOK, Stages
<1>3. opener' \in 1..Len(Openers)
  <2>1. Len(Openers) = 5
    BY DEF Openers
  <2> QED
    BY <1>1, <1>2, <2>1
<1>4. StageOK'
  BY <1>1, <1>2, <1>3 DEF StageOK, Stages
<1>5. LoadedOK'
  BY <1>1 DEF LoadedOK
<1>6. WalkOK'
  BY <1>1, <1>4, <1>5, NoWalk DEF WalkOK
<1> QED
  BY <1>1, <1>6, OthersKeep

LEMMA CheckFileTypeContent == ASSUME ContentInv, CheckFileType PROVE ContentInv'
<1>1. /\ UNCHANGED <<disk, index, mMap, opener, file, mBlocks>>
      /\ pc = "check" /\ Openers[opener] \in {"gzip", "bzip2"}
      /\ pc' = IF file.kind = Openers[opener] THEN "load" ELSE "format"
  BY DEF CheckFileType, Opening, stored, walk
<1>2. file \in Contents /\ opener \in 1..Len(Openers)
  BY <1>1 DEF ContentInv, WalkOK, StageOK, Stages
<1>3. StageOK'
  BY <1>1, <1>2 DEF StageOK, Stages
<1>4. LzopOK' /\ ZstdOK' /\ XzOK' /\ LoadedOK'
  BY <1>1 DEF LzopOK, ZstdOK, XzOK, LoadedOK
<1>5. WalkOK'
  BY <1>3, <1>4 DEF WalkOK
<1> QED
  BY <1>1, <1>5, OthersKeep

LEMMA WalksContent == ASSUME Inv, ContentInv, WalkLzop \/ WalkPixz \/ WalkZstd PROVE ContentInv'
<1>1. StageOK /\ LzopOK /\ ZstdOK /\ XzOK
  BY DEF ContentInv, WalkOK
<1>2. UNCHANGED <<disk, index, mMap, made>>
  BY DEF WalkLzop, WalkPixz, WalkZstd, stored
<1>3. CASE WalkLzop
  <2>1. /\ StageOK' /\ LzopOK'
        /\ pc' \in {"load", "blocks", "member", "built", "format", "error"}
    BY <1>1, <1>3, LzopWalks
  <2>2. ZstdOK' /\ XzOK' /\ LoadedOK'
    BY <2>1 DEF ZstdOK, XzOK, LoadedOK
  <2> QED
    BY <1>2, <2>1, <2>2, OthersKeep DEF WalkOK
<1>4. CASE WalkPixz
  <2>1. StageOK' /\ XzOK' /\ pc' \in {"padding", "footer", "indexed", "format"}
    BY <1>1, <1>4, PixzWalks
  <2>2. LzopOK' /\ ZstdOK' /\ LoadedOK'
    BY <2>1 DEF LzopOK, ZstdOK, LoadedOK
  <2> QED
    BY <1>2, <2>1, <2>2, OthersKeep DEF WalkOK
<1>5. CASE WalkZstd
  <2>1. /\ StageOK' /\ ZstdOK' /\ file' = file
        /\ pc' \in {"load", "table", "loaded", "format", "error"}
        /\ pc' = "loaded" => mBlocks' = file.list
        /\ pc' = "load" => file.kind = "zstd"
    BY <1>1, <1>5, ZstdWalks
  <2>2. LzopOK' /\ XzOK'
    BY <2>1 DEF LzopOK, XzOK
  <2>3. pc \in Stages
    BY <1>5 DEF WalkZstd, Zstd!Next, Zstd!CheckFileType, Zstd!FindTable, Zstd!ReadEntry,
         Zstd!EndTable, Stages
  <2>4. made = file /\ file \in Contents
    BY <1>1, <2>3 DEF Inv, OpenedOK, StageOK
  <2>5. LoadedOK'
    BY <1>2, <2>1, <2>4 DEF LoadedOK, ListOf, OwnList
  <2> QED
    BY <1>2, <2>1, <2>2, <2>5, OthersKeep DEF WalkOK
<1> QED
  BY <1>3, <1>4, <1>5

(* A beginning of a list, and of a beginning.                              *)
LEMMA BeginningFacts ==
  ASSUME NEW S, NEW l \in Seq(S), NEW n \in 0..Len(l)
  PROVE  LET b == Beginning(l, n)
         IN  /\ b \in Seq(S) /\ Len(b) = n /\ \A k \in 1..n : b[k] = l[k]
             /\ n = Len(l) => b = l
             /\ \A m \in 0..n : Beginning(b, m) = Beginning(l, m)
<1>1. \A s \in Seq(S) : \A m \in 0..Len(s) :
        /\ Beginning(s, m) \in Seq(S) /\ Len(Beginning(s, m)) = m
        /\ \A k \in 1..m : Beginning(s, m)[k] = s[k]
  BY DEF Beginning
<1> DEFINE b == Beginning(l, n)
<1>2. b \in Seq(S) /\ Len(b) = n /\ \A k \in 1..n : b[k] = l[k]
  BY <1>1
<1>3. ASSUME n = Len(l) PROVE b = l
  <2> HIDE DEF b
  <2> QED
    BY <1>2, <1>3
<1>4. ASSUME NEW m \in 0..n PROVE Beginning(b, m) = Beginning(l, m)
  <2> HIDE DEF b
  <2>1. m \in 0..Len(l) /\ m \in 0..Len(b)
    BY <1>2
  <2> DEFINE x == Beginning(b, m)
             y == Beginning(l, m)
  <2>2. /\ x \in Seq(S) /\ Len(x) = m /\ y \in Seq(S) /\ Len(y) = m
        /\ \A k \in 1..m : x[k] = b[k] /\ y[k] = l[k]
    BY <1>1, <1>2, <2>1
  <2>4. \A k \in 1..m : b[k] = l[k]
    BY <1>2
  <2> HIDE DEF x, y
  <2>3. x = y
    BY <2>2, <2>4
  <2> QED
    BY <2>3 DEF x, y
<1> QED
  BY <1>2, <1>3, <1>4

(* An index that is read back ends where it did, or at an empty entry.     *)
LEMMA ReadBack ==
  ASSUME NEW l, NEW c, ListOf(l, c), c.kind \in Indexed, NEW n \in 0..Len(l), EndsAt(l, n)
  PROVE  ListOf(Beginning(l, n), c)
<1> DEFINE b == Beginning(l, n)
           w == c.list
<1>1. c \in Contents /\ OwnList(l, c)
  BY DEF ListOf, Indexed
<1>2. w \in Seq(Entry) /\ Len(w) \in Nat
  BY <1>1, KindsOfContents, ListedFacts
<1>3. PICK k \in 0..Len(w) : l = Beginning(w, k)
  <2>1. CASE l = w
    BY <1>2, <2>1, BeginningFacts
  <2>2. CASE IsBeginning(l, w)
    BY <2>2 DEF IsBeginning
  <2> QED
    BY <1>1, <2>1, <2>2 DEF OwnList
<1>4. /\ l \in Seq(Entry) /\ Len(l) = k /\ n \in 0..k /\ n \in 0..Len(w)
      /\ \A m \in 1..k : l[m] = w[m]
  BY <1>2, <1>3, BeginningFacts
<1>5. b = Beginning(w, n) /\ Len(b) = n
  BY <1>2, <1>3, <1>4, BeginningFacts
<1>6. IsBeginning(b, w)
  BY <1>4, <1>5 DEF IsBeginning
<1>7. CASE n = k
  BY <1>1, <1>3, <1>5, <1>7 DEF ListOf
<1>8. CASE n # k
  <2>1. n < k /\ n + 1 \in 1..k /\ n < Len(w) /\ n + 1 \in 1..Len(w)
    BY <1>2, <1>4, <1>8
  <2>2. w[n + 1].usize = 0
    BY <1>4, <2>1 DEF EndsAt
  <2>3. Partial(c) \/ EndsEarly(b, c)
    <3>1. c.kind = "gzip" => EndsEarly(b, c)
      BY <1>5, <2>1, <2>2 DEF EndsEarly
    <3>2. c.kind \notin {"gzip", "zstd"} => w[n + 1].usize > 0
      BY <1>1, <2>1, KindsOfContents
    <3>3. c.kind = "gzip"
      BY <2>2, <3>2 DEF Indexed
    <3> QED
      BY <3>1, <3>3
  <2> QED
    BY <1>1, <1>6, <2>3 DEF ListOf, OwnList
<1> QED
  BY <1>7, <1>8

LEMMA ReadIndexContent == ASSUME Inv, ContentInv, ReadIndex PROVE ContentInv'
<1> DEFINE p == IndexPath(Source)
<1>1. /\ UNCHANGED <<disk, index, mMap, opener, file>> /\ pc = "load" /\ pc' = "loaded"
      /\ index[p] # None /\ made' = index[p].made
      /\ \E n \in 0..Len(index[p].list) :
            EndsAt(index[p].list, n) /\ mBlocks' = Beginning(index[p].list, n)
  BY DEF ReadIndex, stored
<1>2. Source \in Sources
  BY <1>1 DEF Inv, OpenedOK, Stages
<1>3. p \in IndexPaths
  BY <1>2 DEF IndexPath, IndexPaths
<1>4. ListOf(index[p].list, index[p].made) /\ index[p].made.kind \in Indexed
  BY <1>1, <1>3 DEF ContentInv, StoredOK
<1>8. ListOf(mBlocks', made')
  BY <1>1, <1>4, ReadBack
<1>5. LoadedOK'
  BY <1>8 DEF LoadedOK, ListOf, OwnList
<1>6. StageOK'
  BY <1>1 DEF ContentInv, WalkOK, StageOK, Stages
<1>7. WalkOK'
  BY <1>1, <1>5, <1>6, NoWalk DEF WalkOK
<1> QED
  BY <1>1, <1>7, OthersKeep

LEMMA StartBuildContent == ASSUME ContentInv, StartBuild PROVE ContentInv'
<1>1. /\ UNCHANGED <<disk, index, mMap, opener, file, pos, flags, coff, mBlocks, made>>
      /\ pc = "load" /\ pc' = IF Openers[opener] = "lzop" THEN "blocks" ELSE "build"
  BY DEF StartBuild, Opening, stored, walk
<1>2. StageOK /\ LzopOK
  BY DEF ContentInv, WalkOK
<1>3. file \in Contents /\ opener \in 1..Len(Openers) /\ Openers[opener] = file.kind
      /\ file.kind # "xz" /\ (file.kind = "zstd" => mBlocks = <<>>)
  BY <1>1, <1>2 DEF StageOK, Stages
<1>4. StageOK'
  BY <1>1, <1>3 DEF StageOK, Stages
<1>5. LzopOK'
  BY <1>1, <1>2, <1>3 DEF LzopOK, LzopAt, InBlocks
<1>6. ZstdOK' /\ XzOK' /\ LoadedOK'
  BY <1>1 DEF ZstdOK, XzOK, LoadedOK
<1>7. WalkOK'
  BY <1>4, <1>5, <1>6 DEF WalkOK
<1> QED
  BY <1>1, <1>7, OthersKeep

LEMMA BuildIndexContent == ASSUME ContentInv, BuildIndex PROVE ContentInv'
<1>1. /\ UNCHANGED <<disk, index, mMap, opener, file>> /\ pc = "build"
      /\ Openers[opener] \in {"gzip", "bzip2"}
      /\ \/ /\ pc' = "built"
            /\ \E n \in 0..Len(file.list) :
                  (n = Len(file.list) \/ Partial(file)) /\ mBlocks' = Beginning(file.list, n)
         \/ pc' \in {"format", "error"}
  BY DEF BuildIndex, Opening, stored
<1>5. file \in Contents /\ opener \in 1..Len(Openers) /\ Openers[opener] = file.kind
  BY <1>1 DEF ContentInv, WalkOK, StageOK, Stages
<1>2. CASE pc' = "error"
  BY <1>1, <1>2, NotOpening, OthersKeep DEF Stages
<1>4. CASE pc' = "format"
  <2>1. StageOK'
    BY <1>1, <1>4, <1>5 DEF StageOK, Stages
  <2>2. LoadedOK'
    BY <1>4 DEF LoadedOK
  <2>3. WalkOK'
    BY <1>4, <2>1, <2>2, NoWalk DEF WalkOK
  <2> QED
    BY <1>1, <2>3, OthersKeep
<1>3. CASE /\ pc' = "built"
           /\ \E n \in 0..Len(file.list) :
                 (n = Len(file.list) \/ Partial(file)) /\ mBlocks' = Beginning(file.list, n)
  <2>1. OwnList(mBlocks', file)
    <3>1. PICK n \in 0..Len(file.list) :
            (n = Len(file.list) \/ Partial(file)) /\ mBlocks' = Beginning(file.list, n)
      BY <1>3
    <3>2. file.list \in Seq(Entry)
      BY <1>5, KindsOfContents, ListedFacts
    <3>3. n = Len(file.list) => mBlocks' = file.list
      BY <3>1, <3>2, BeginningFacts
    <3> QED
      BY <3>1, <3>3 DEF OwnList, IsBeginning
  <2>2. StageOK'
    BY <1>1, <1>3, <1>5, <2>1 DEF StageOK, Stages, Indexed, OwnList
  <2>3. LoadedOK'
    BY <1>3 DEF LoadedOK
  <2>4. WalkOK'
    BY <1>3, <2>2, <2>3, NoWalk DEF WalkOK
  <2> QED
    BY <1>1, <2>4, OthersKeep
<1> QED
  BY <1>1, <1>2, <1>3, <1>4

LEMMA WriteIndexContent == ASSUME Inv, ContentInv, WriteIndex PROVE ContentInv'
<1> DEFINE p == IndexPath(Source)
           e == [list |-> mBlocks, made |-> made]
<1>1. UNCHANGED <<disk, mMap, opener, file, mBlocks, made>> /\ pc = "built"
  BY DEF WriteIndex, walk
<1>2. /\ file \in Contents /\ opener \in 1..Len(Openers) /\ Openers[opener] = file.kind
      /\ OwnList(mBlocks, file) /\ made = file /\ file.kind \in Indexed
  BY <1>1 DEF ContentInv, WalkOK, StageOK, Inv, OpenedOK, Stages
<1>3. CASE UNCHANGED index /\ pc' = "error"
  BY <1>1, <1>3, NotOpening, OthersKeep DEF Stages
<1>4. CASE index' = [index EXCEPT ![p] = e] /\ pc' = "loaded"
  <2>1. ListOf(mBlocks, made) /\ made.kind \in Indexed
    BY <1>2 DEF ListOf
  <2>2. StoredOK'
    <3>1. DOMAIN index = IndexPaths
      BY DEF Inv, TypesOK
    <3>2. ListOf(e.list, e.made) /\ e.made.kind \in Indexed
      BY <2>1
    <3> HIDE DEF p, e
    <3>3. \A q \in IndexPaths : index'[q] # None =>
            ListOf(index'[q].list, index'[q].made) /\ index'[q].made.kind \in Indexed
      BY <1>4, <3>1, <3>2 DEF ContentInv, StoredOK
    <3> QED
      BY <3>3 DEF StoredOK, ListOf, OwnList, IndexPaths
  <2>3. LoadedOK'
    BY <1>1, <2>1 DEF LoadedOK, ListOf, OwnList
  <2>4. StageOK'
    BY <1>1, <1>2, <1>4 DEF StageOK, Stages
  <2>5. WalkOK'
    BY <1>4, <2>3, <2>4, NoWalk DEF WalkOK
  <2> QED
    BY <1>1, <2>2, <2>5 DEF ContentInv, DiskOK, ServedListOK, ListOf, OwnList
<1> QED
  BY <1>3, <1>4 DEF WriteIndex

LEMMA IterateContent == ASSUME Inv, ContentInv, Iterate PROVE ContentInv'
<1>1. /\ UNCHANGED <<disk, index, mMap, opener, file, made>> /\ pc = "indexed" /\ pc' = "loaded"
      /\ mBlocks' = Pixz!IndexedBlocks
  BY DEF Iterate, stored
<1>2. /\ file \in Contents /\ opener \in 1..Len(Openers) /\ Openers[opener] = file.kind
      /\ file.kind = "xz" /\ made = file
  BY <1>1 DEF ContentInv, WalkOK, StageOK, Inv, OpenedOK, Stages
<1>3. 1 \in 1..Len(file.fields) /\ file.fields[1].what = "stream" /\ \E g : XzRest(0, g)
  BY <1>1 DEF ContentInv, WalkOK, XzOK
<1>4. mBlocks' = Cut(file.list)
  BY <1>1, <1>2, <1>3, IndexedIsCut
<1>5. LoadedOK'
  BY <1>1, <1>2, <1>4 DEF LoadedOK, ListOf, OwnList
<1>6. StageOK'
  BY <1>1, <1>2 DEF StageOK, Stages
<1>7. WalkOK'
  BY <1>1, <1>5, <1>6, NoWalk DEF WalkOK
<1> QED
  BY <1>1, <1>7, OthersKeep

LEMMA AddToMapContent == ASSUME ContentInv, AddToMap PROVE ContentInv'
<1> DEFINE d == DestName(Openers[opener], Source.name)
           e == [source |-> Source, list |-> mBlocks, made |-> made]
<1>1. /\ UNCHANGED <<disk, index>> /\ pc = "loaded" /\ pc' = "next" /\ mBlocks # <<>>
      /\ mMap' = [n \in DOMAIN mMap \cup {d} |-> IF n = d THEN e ELSE mMap[n]]
  BY DEF AddToMap, stored
<1>2. ListOf(mBlocks, made)
  BY <1>1 DEF ContentInv, WalkOK, LoadedOK
<1>3. ListOf(e.list, e.made) /\ e.list # <<>>
  BY <1>1, <1>2
<1> HIDE DEF d, e
<1>4. \A n \in DOMAIN mMap' : ListOf(mMap'[n].list, mMap'[n].made) /\ mMap'[n].list # <<>>
  BY <1>1, <1>3 DEF ContentInv, ServedListOK
<1>5. ServedListOK'
  BY <1>4 DEF ServedListOK, ListOf, OwnList
<1>6. WalkOK'
  BY <1>1, NotOpening DEF Stages
<1> QED
  BY <1>1, <1>5, <1>6 DEF ContentInv, DiskOK, StoredOK, ListOf, OwnList, IndexPaths

LEMMA ReplaceContent == ASSUME Inv, ContentInv, Replace PROVE ContentInv'
<1>1. PICK s \in Sources : \E c \in Replacements[s] : disk' = [disk EXCEPT ![s] = c]
  BY DEF Replace
<1>2. UNCHANGED <<index, opener, file, pos, flags, coff, mBlocks, pad, mIndex, made, mMap, pc>>
  BY DEF Replace, walk
<1>3. DiskOK'
  BY <1>1 DEF Inv, TypesOK, ContentInv, DiskOK, Contents
<1>4. WalkOK'
  BY <1>2, SameWalk DEF ContentInv
<1> QED
  BY <1>2, <1>3, <1>4 DEF ContentInv, StoredOK, ServedListOK, ListOf, OwnList, IndexPaths

LEMMA NextContent == ASSUME Inv, ContentInv, Next PROVE ContentInv'
<1>1. CASE Mount
  <2>1. UNCHANGED <<disk, index>> /\ mMap' = <<>> /\ pc' = "next"
    BY <1>1 DEF Mount, stored
  <2>2. WalkOK'
    BY <2>1, NotOpening DEF Stages
  <2> QED
    BY <2>1, <2>2 DEF ContentInv, DiskOK, StoredOK, ServedListOK, ListOf, OwnList, IndexPaths
<1>2. CASE Unmount
  <2>1. UNCHANGED <<disk, index>> /\ mMap' = <<>> /\ pc' = "down"
    BY <1>2 DEF Unmount, stored
  <2>2. WalkOK'
    BY <2>1, NotOpening DEF Stages
  <2> QED
    BY <2>1, <2>2 DEF ContentInv, DiskOK, StoredOK, ServedListOK, ListOf, OwnList, IndexPaths
<1>3. CASE Replace
  BY <1>3, ReplaceContent
<1>4. CASE Skip \/ NoBlocks \/ Serve
  <2>1. UNCHANGED <<disk, index, mMap>> /\ pc' \in {"next", "error", "serve"}
    BY <1>4 DEF Skip, NoBlocks, Serve, stored
  <2> QED
    BY <2>1, NotOpening, OthersKeep DEF Stages
<1>5. CASE Add /\ ~(Skip \/ NoBlocks \/ Serve)
  BY <1>5, OpenSourceContent, CheckFileTypeContent, WalksContent, NextOpenerContent,
     ReadIndexContent, StartBuildContent, BuildIndexContent, WriteIndexContent, IterateContent,
     AddToMapContent DEF Add
<1> QED
  BY <1>1, <1>2, <1>3, <1>4, <1>5 DEF Next

(* What the indexes, the walks and the names hold, in all mounts: blocks   *)
(* of one file, from its first on, at their places.  All of them, but for  *)
(* what Partial, EndsEarly and Cut name: a bzip2 scan that stops at damage *)
(* or after a level is lost (src/Bzip2File.cc:207), a gzip index read back *)
(* to its first empty entry (src/CompressedFile.cc:138), and an xz block   *)
(* whose size is cut to 32 bits (src/PixzFile.cc:204).                     *)
THEOREM FileContentsInvariant == Spec => [](Inv /\ ContentInv)
<1>1. Init => ContentInv
  BY InitContent
<1>2. Inv /\ ContentInv /\ [Next]_vars => ContentInv'
  <2> SUFFICES ASSUME Inv, ContentInv, [Next]_vars PROVE ContentInv'
    OBVIOUS
  <2>1. CASE Next
    BY <2>1, NextContent
  <2>2. CASE UNCHANGED vars
    <3>1. UNCHANGED <<disk, index, opener, file, pos, flags, coff, mBlocks, pad, mIndex, made,
                      mMap, pc>>
      BY <2>2 DEF vars
    <3>2. WalkOK'
      BY <3>1, SameWalk DEF ContentInv
    <3> QED
      BY <3>1, <3>2, OthersKeep
  <2> QED
    BY <2>1, <2>2
<1> QED
  BY <1>1, <1>2, FileListInvariant, PTL DEF Spec

(* ListsAreTheFiles: whether its list comes from the walk from the front   *)
(* (src/LzopFile.cc:94), from the back (src/PixzFile.cc:39) or along the   *)
(* seek table (src/ZstdFile.cc:109), from a scan, or from an index that    *)
(* this mount or an earlier one wrote (src/CompressedFile.cc:90), a name   *)
(* is served with the blocks of one file, all of them, in order and at     *)
(* their places.  Of a bzip2 file that is damaged, cut short or loses its  *)
(* level (src/Bzip2File.cc:207), and where a gzip index has an empty entry *)
(* (src/CompressedFile.cc:138), it has a beginning of them; an xz block of *)
(* 2^32 bytes or more has part of its size (src/PixzFile.cc:204).           *)
THEOREM ListsAreAlwaysTheFiles == Spec => []ListsAreTheFiles
<1>1. ContentInv => ListsAreTheFiles
  <2> SUFFICES ASSUME ContentInv, NEW d \in DOMAIN mMap
               PROVE  OwnList(mMap[d].list, mMap[d].made) \/ TooLong(mMap[d].made)
    BY DEF ListsAreTheFiles, Served, OwnList
  <2> DEFINE c == mMap[d].made
             l == mMap[d].list
  <2>1. c \in Contents /\ (OwnList(l, c) \/ (c.kind = "xz" /\ l = Cut(c.list)))
    BY DEF ContentInv, ServedListOK, ListOf
  <2>2. c.list \in Seq(Entry) /\ Len(c.list) \in Nat /\ \A n \in 1..Len(c.list) : c.list[n].usize \in Nat
    BY <2>1, KindsOfContents, ListedFacts
  <2>3. USizeLimit \in Nat
    BY ContentsAssumption
  <2>4. CASE c.kind = "xz" /\ l = Cut(c.list)
    <3>1. TooLong(c) \/ \A n \in 1..Len(c.list) : c.list[n].usize < USizeLimit
      BY <2>2, <2>3, <2>4 DEF TooLong
    <3>2. TooLong(c) \/ Cut(c.list) = c.list
      BY <2>2, <3>1, CutFacts
    <3> QED
      BY <2>4, <3>2 DEF OwnList
  <2> QED
    BY <2>1, <2>4
<1> QED
  BY <1>1, FileContentsInvariant, PTL

(* A list of blocks is in order and leaves no gap.                         *)
LEMMA BlocksFollow ==
  ASSUME NEW l, NEW parts, Lists(l, parts), NEW a \in 1..Len(l), NEW b \in 1..Len(l), a < b
  PROVE  l[a].uoff + l[a].usize <= l[b].uoff
<1>1. Len(l) \in Nat /\ \A n \in 1..Len(l) : l[n].uoff \in Nat /\ l[n].usize \in Nat
  BY ListedFacts
<1>2. \A n \in 1..Len(l) : l[n].uoff = IF n = 1 THEN 0 ELSE l[n - 1].uoff + l[n - 1].usize
  BY DEF Lists
<1>3. l[a].uoff + l[a].usize \in Nat
  <2> DEFINE u == l[a].uoff
             s == l[a].usize
  <2>1. u \in Nat /\ s \in Nat
    BY <1>1
  <2> HIDE DEF u, s
  <2>2. u + s \in Nat
    BY <2>1
  <2> QED
    BY <2>2 DEF u, s
<1> DEFINE End(n) == l[n].uoff + l[n].usize
           wrong == {n \in 1..Len(l) : a < n /\ ~(End(a) <= l[n].uoff)}
<1> SUFFICES ASSUME wrong # {} PROVE FALSE
  OBVIOUS
<1>4. wrong \in SUBSET Nat
  BY <1>1
<1>5. PICK n \in wrong : \A m \in wrong : n <= m
  BY <1>4, LeastNumber
<1>6. n \in 1..Len(l) /\ a < n /\ ~(End(a) <= l[n].uoff)
  BY <1>5
<1>7. n - 1 \in 1..Len(l) /\ n # 1 /\ ~(n <= n - 1) /\ (a = n - 1 \/ a < n - 1)
  BY <1>1, <1>6
<1>8. l[n].uoff = End(n - 1)
  BY <1>2, <1>6, <1>7
<1>9. a < n - 1 => End(a) <= l[n - 1].uoff
  BY <1>5, <1>7
<1>10. /\ l[n - 1].uoff \in Nat /\ l[n - 1].usize \in Nat /\ End(a) \in Nat
      /\ End(n - 1) = l[n - 1].uoff + l[n - 1].usize
  BY <1>1, <1>7, <1>3
<1> HIDE DEF wrong
<1>11. CASE a = n - 1
  BY <1>6, <1>8, <1>10, <1>11
<1>12. CASE a < n - 1
  <2>1. End(a) <= l[n - 1].uoff
    BY <1>9, <1>12
  <2> HIDE DEF End
  <2> QED
    BY <1>6, <1>8, <1>10, <2>1
<1> QED
  BY <1>7, <1>11, <1>12

LEMMA EveryByteHasABlock ==
  ASSUME NEW l, NEW parts, Lists(l, parts), l # <<>>, NEW o \in Nat, o < Size(l)
  PROVE  \E b \in 1..Len(l) : l[b].uoff <= o /\ o < l[b].uoff + l[b].usize
<1>1. Len(l) \in Nat /\ \A n \in 1..Len(l) : l[n].uoff \in Nat /\ l[n].usize \in Nat
  BY ListedFacts
<1>2. \A n \in 1..Len(l) : l[n].uoff = IF n = 1 THEN 0 ELSE l[n - 1].uoff + l[n - 1].usize
  BY DEF Lists
<1>3. Len(l) \in 1..Len(l)
  <2>1. l \in Seq(Entry)
    BY ListedFacts
  <2> QED
    BY <1>1, <2>1
<1> DEFINE End(n) == l[n].uoff + l[n].usize
           behind == {n \in 1..Len(l) : o < End(n)}
<1>4. behind # {}
  BY <1>3 DEF Size
<1>5. behind \in SUBSET Nat
  BY <1>1
<1>6. PICK b \in behind : \A m \in behind : b <= m
  BY <1>4, <1>5, LeastNumber
<1>7. b \in 1..Len(l) /\ o < End(b)
  BY <1>6
<1>8. CASE b = 1
  <2>1. l[b].uoff = 0
    BY <1>2, <1>7, <1>8
  <2> QED
    BY <1>7, <2>1
<1>9. CASE b # 1
  <2>1. b - 1 \in 1..Len(l) /\ ~(b <= b - 1)
    BY <1>1, <1>7, <1>9
  <2>2. ~(o < End(b - 1))
    BY <1>6, <2>1
  <2>3. l[b].uoff = End(b - 1) /\ End(b - 1) \in Nat
    BY <1>1, <1>2, <1>7, <1>9, <2>1
  <2>4. l[b].uoff <= o
    <3> HIDE DEF End
    <3> QED
      BY <2>2, <2>3
  <2> QED
    BY <1>7, <2>4
<1> QED
  BY <1>8, <1>9

LEMMA ListLayout ==
  ASSUME NEW e \in Served, NEW parts, Lists(e.list, parts), e.list # <<>>,
         e.list[1].usize > 0, Size(e.list) <= MaxOffset
  PROVE  Layout!LayoutOK(e)
<1> DEFINE l == e.list
           N == Len(l)
           F == [f \in Served |-> [n \in 1..Len(f.list) |->
                  [usize |-> f.list[n].usize, uoff |-> f.list[n].uoff, coff |-> f.list[n].coff]]]
           m == [n \in 1..N |-> [usize |-> l[n].usize, uoff |-> l[n].uoff, coff |-> l[n].coff]]
           U == [usize : Nat, uoff : Nat, coff : Nat]
<1>1. /\ N \in Nat /\ l \in Seq(Entry)
      /\ \A n \in 1..N : l[n].uoff \in Nat /\ l[n].usize \in Nat /\ l[n].coff \in Nat
  BY ListedFacts
<1>2. F[e] = m
  OBVIOUS
<1>3. m \in Seq(U) /\ Len(m) = N
  <2>1. ASSUME NEW n \in 1..N
        PROVE  [usize |-> l[n].usize, uoff |-> l[n].uoff, coff |-> l[n].coff] \in U
    BY <1>1
  <2> HIDE DEF N, U, l
  <2>2. m \in [1..N -> U]
    BY <2>1
  <2> HIDE DEF m
  <2> QED
    BY <1>1, <2>2
<1>4. \A n \in 1..N : m[n].usize = l[n].usize /\ m[n].uoff = l[n].uoff /\ m[n].coff = l[n].coff
  OBVIOUS
<1>5. 1 \in 1..N /\ N \in 1..N
  <2> HIDE DEF N
  <2>1. N # 0
    BY <1>1 DEF N
  <2> QED
    BY <1>1, <2>1
<1>6. m # <<>>
  <2> HIDE DEF N, m
  <2> QED
    BY <1>3, <1>5
<1>7. \A f, n : Layout!UOff(f, n) = F[f][n].uoff /\ Layout!UEnd(f, n) = F[f][n].uoff + F[f][n].usize
  BY DEF Layout!UOff, Layout!UEnd
<1>8. Layout!UncompressedSize(e) = IF F[e] = <<>> THEN 0 ELSE Layout!UEnd(e, Len(F[e]))
  BY DEF Layout!UncompressedSize
<1>9. Layout!Blocks(e) = 1..Len(F[e])
  BY DEF Layout!Blocks
<1>10. Layout!LayoutOK(e) <=>
    /\ F[e] \in Seq(U)
    /\ F[e] # <<>>
    /\ Layout!UOff(e, 1) = 0 /\ Layout!UEnd(e, 1) > 0
    /\ Layout!UncompressedSize(e) <= MaxOffset
    /\ \A a, b \in Layout!Blocks(e) : a < b => Layout!UEnd(e, a) <= Layout!UOff(e, b)
    /\ \A o \in 0..Layout!UncompressedSize(e) - 1 :
          \E b \in Layout!Blocks(e) : Layout!UOff(e, b) <= o /\ o < Layout!UEnd(e, b)
    /\ \A a, b \in Layout!Blocks(e) : F[e][a].coff = F[e][b].coff => a = b
  BY DEF Layout!LayoutOK
<1>11. \A n \in 1..N : Layout!UOff(e, n) = l[n].uoff /\ Layout!UEnd(e, n) = l[n].uoff + l[n].usize
  <2> HIDE DEF F, m, N, l
  <2> QED
    BY <1>2, <1>4, <1>7
<1>12. Layout!Blocks(e) = 1..N
  <2> HIDE DEF F, m, N
  <2> QED
    BY <1>2, <1>3, <1>9
<1>13. Layout!UncompressedSize(e) = Size(l)
  <2>1. Size(l) = l[N].uoff + l[N].usize
    BY DEF Size
  <2> HIDE DEF F, m, N, l
  <2> QED
    BY <1>2, <1>3, <1>5, <1>6, <1>8, <1>11, <2>1
<1>14. Layout!UOff(e, 1) = 0 /\ Layout!UEnd(e, 1) > 0
  <2>1. l[1].uoff = 0 /\ l[1].usize > 0 /\ l[1].usize \in Nat
    BY <1>1, <1>5 DEF Lists
  <2> HIDE DEF l, N
  <2> QED
    BY <1>5, <1>11, <2>1
<1>15. ASSUME NEW a \in 1..N, NEW b \in 1..N, a < b
       PROVE  Layout!UEnd(e, a) <= Layout!UOff(e, b)
  <2>1. l[a].uoff + l[a].usize <= l[b].uoff
    BY <1>15, BlocksFollow
  <2> HIDE DEF l, N
  <2> QED
    BY <1>11, <2>1
<1>16. ASSUME NEW o \in 0..Size(l) - 1
       PROVE  \E b \in 1..N : Layout!UOff(e, b) <= o /\ o < Layout!UEnd(e, b)
  <2>1. Size(l) \in Nat
    BY ListedFacts
  <2>2. o \in Nat /\ o < Size(l)
    <3> DEFINE s == Size(l)
    <3> HIDE DEF s
    <3> QED
      BY <2>1 DEF s
  <2>3. PICK b \in 1..N : l[b].uoff <= o /\ o < l[b].uoff + l[b].usize
    BY <2>2, EveryByteHasABlock
  <2> HIDE DEF l, N
  <2> QED
    BY <1>11, <2>3
<1>17. ASSUME NEW a \in 1..N, NEW b \in 1..N, F[e][a].coff = F[e][b].coff PROVE a = b
  <2>1. l[a].coff = l[b].coff
    <3> HIDE DEF F, m, N, l
    <3> QED
      BY <1>2, <1>4, <1>17
  <2>2. \A x, y \in 1..N : x < y => l[x].coff < l[y].coff
    BY DEF Lists
  <2>3. l[a].coff \in Nat /\ l[b].coff \in Nat
    BY <1>1
  <2> HIDE DEF l, N
  <2>4. ~(a < b) /\ ~(b < a)
    BY <2>1, <2>2, <2>3
  <2> QED
    BY <1>1, <2>4
<1>18. Size(l) <= MaxOffset
  OBVIOUS
<1> HIDE DEF F, m, N, U, l
<1> QED
  BY <1>2, <1>3, <1>6, <1>10, <1>12, <1>13, <1>14, <1>15, <1>16, <1>17, <1>18

(* So is a beginning of one.                                               *)
LEMMA BeginningLists ==
  ASSUME NEW l, NEW parts, Lists(l, parts), NEW n \in 0..Len(l)
  PROVE  LET b == Beginning(l, n)
         IN  Lists(b, {Part(b[k]) : k \in 1..Len(b)}) /\ Size(b) <= Size(l)
<1> DEFINE b == Beginning(l, n)
<1>1. /\ l \in Seq(Entry) /\ Len(l) \in Nat /\ Size(l) \in Nat
      /\ \A k \in 1..Len(l) : l[k].uoff \in Nat /\ l[k].usize \in Nat
  BY ListedFacts
<1>2. b \in Seq(Entry) /\ Len(b) = n /\ \A k \in 1..n : b[k] = l[k]
  BY <1>1, BeginningFacts
<1>3. n \in 0..Len(l) /\ 1..n \subseteq 1..Len(l)
  BY <1>1
<1>4. n # Len(l) \/ b = l
  BY <1>1, BeginningFacts
<1> HIDE DEF b
<1>5. Lists(b, {Part(b[k]) : k \in 1..Len(b)})
  <2>1. \A m, k \in 1..Len(b) : m < k => b[m].coff < b[k].coff
    BY <1>2, <1>3 DEF Lists
  <2>2. ASSUME NEW k \in 1..Len(b)
        PROVE  b[k].uoff = IF k = 1 THEN 0 ELSE b[k - 1].uoff + b[k - 1].usize
    <3>1. k \in 1..Len(l) /\ b[k] = l[k]
      BY <1>2, <1>3, <2>2
    <3>2. k # 1 => k - 1 \in 1..n
      BY <1>2, <1>3, <2>2
    <3>3. k # 1 => b[k - 1] = l[k - 1]
      BY <1>2, <3>2
    <3>4. l[k].uoff = IF k = 1 THEN 0 ELSE l[k - 1].uoff + l[k - 1].usize
      BY <3>1 DEF Lists
    <3> QED
      BY <3>1, <3>3, <3>4
  <2> QED
    BY <1>2, <2>1, <2>2 DEF Lists, Entry
<1>6. Size(b) <= Size(l)
  <2>1. CASE b = <<>>
    BY <1>1, <2>1 DEF Size
  <2>2. CASE b # <<>> /\ n = Len(l)
    BY <1>1, <1>4, <2>2
  <2>3. CASE b # <<>> /\ n # Len(l)
    <3>1. n \in 1..Len(l) /\ Len(l) \in 1..Len(l) /\ n < Len(l) /\ n \in 1..n /\ l # <<>>
      BY <1>1, <1>2, <1>3, <2>3
    <3>2. l[n].uoff + l[n].usize <= l[Len(l)].uoff
      BY <3>1, BlocksFollow
    <3>3. /\ Size(b) = l[n].uoff + l[n].usize
          /\ Size(l) = l[Len(l)].uoff + l[Len(l)].usize
      BY <1>2, <2>3, <3>1 DEF Size
    <3>4. /\ l[n].uoff \in Nat /\ l[n].usize \in Nat
          /\ l[Len(l)].uoff \in Nat /\ l[Len(l)].usize \in Nat
      BY <1>1, <3>1
    <3> QED
      BY <3>2, <3>3, <3>4
  <2> QED
    BY <2>1, <2>2, <2>3
<1> QED
  BY <1>5, <1>6 DEF b

(* LayoutsOK: findBlock's search (src/CompressedFile.cc:69) and the read   *)
(* path get lists in which each byte has one block and each block a place  *)
(* of its own, from every walk, scan and index, where only a beginning is  *)
(* served too.                                                             *)
THEOREM LayoutsAreSound == Spec => []LayoutsOK
<1>1. ContentInv /\ ListsAreTheFiles => LayoutsOK
  <2> SUFFICES ASSUME ContentInv, ListsAreTheFiles, NEW e \in Served,
                      ~(e.made.kind = "zstd" /\ e.list[1].usize = 0), ~TooLong(e.made)
               PROVE  Layout!LayoutOK(e)
    BY DEF LayoutsOK
  <2> DEFINE c == e.made
             w == c.list
  <2>1. c \in Contents /\ e.list # <<>>
    BY DEF ContentInv, ServedListOK, ListOf, Served
  <2>2. Lists(w, Parts(c)) /\ Size(w) <= MaxOffset /\ w \in Seq(Entry)
        /\ Len(w) \in Nat /\ Size(w) \in Nat /\ MaxOffset \in Nat
    BY <2>1, KindsOfContents, ListedFacts, ContentsAssumption
  <2>3. PICK n \in 0..Len(w) : e.list = Beginning(w, n)
    <3>1. CASE e.list = w
      BY <2>2, <3>1, BeginningFacts
    <3>2. CASE IsBeginning(e.list, w)
      BY <3>2 DEF IsBeginning
    <3> QED
      BY <3>1, <3>2 DEF ListsAreTheFiles
  <2> DEFINE parts == {Part(e.list[k]) : k \in 1..Len(e.list)}
  <2>4. Lists(e.list, parts) /\ Size(e.list) <= Size(w)
    BY <2>2, <2>3, BeginningLists
  <2>5. Size(e.list) <= MaxOffset
    <3>1. Size(e.list) \in Nat
      BY <2>4, ListedFacts
    <3> QED
      BY <2>2, <2>4, <3>1
  <2>6. e.list[1].usize > 0
    <3>1. e.list \in Seq(Entry) /\ Len(e.list) = n /\ \A k \in 1..n : e.list[k] = w[k]
      BY <2>2, <2>3, BeginningFacts
    <3>2. 1 \in 1..n /\ 1 \in 1..Len(w) /\ w # <<>>
      BY <2>1, <2>2, <3>1
    <3>3. e.list[1] = w[1] /\ w[1].usize \in Nat
      BY <2>2, <3>1, <3>2, ListedFacts
    <3> QED
      BY <2>1, <3>2, <3>3, KindsOfContents
  <2> QED
    BY <2>1, <2>4, <2>5, <2>6, ListLayout
<1> QED
  BY <1>1, ListsAreAlwaysTheFiles, FileContentsInvariant, PTL
-----------------------------------------------------------------------------
(* What becomes of the sources of a command line.                          *)
Busy == Stages \cup {"loaded", "error"}

(* An index that may be read for s is that of a source t.                  *)
MayLend(t, s, kind) ==
    t = s \/ (indexRoot /\ t.name = s.name /\ kind \in Indexed)

LoadedFrom ==
    pc = "loaded" =>
        /\ Fresh(file, Source)
        /\ \E t \in Sources : MayLend(t, Source, file.kind) /\ Fresh(made, t)

(* A format that the file has not been refused by is not behind the one    *)
(* that is tried; who is usable is never refused.                          *)
ProgressOK ==
    /\ pc \in Busy => arg \in 1..Len(args)
    /\ pc = "serve" => arg > Len(args)
    /\ pc = "down" => args = <<>>
    /\ pc \in {"check", "format"} /\ file.list # <<>> =>
          \A o \in 1..Len(Openers) :
              o < opener \/ (pc = "format" /\ o = opener) => Openers[o] # file.kind
    /\ pc = "error" => ~Usable(Source)

(* Of the sources so far, each that is usable has its name or has lost it  *)
(* to the last that wants it.                                              *)
NamedSoFar(n, m) ==
    /\ m \in n..Len(args) /\ m < arg
    /\ NameOf(args[n]) \in DOMAIN mMap /\ mMap[NameOf(args[n])].source = args[m]
    /\ \A k \in (m + 1)..Len(args) :
          k < arg /\ Usable(args[k]) => NameOf(args[k]) # NameOf(args[n])

NamedOK ==
    \A n \in 1..Len(args) : n < arg /\ Usable(args[n]) => \E m \in 1..Len(args) : NamedSoFar(n, m)

NamedInv == LoadedFrom /\ ProgressOK /\ NamedOK

LEMMA InitNamed == Init => NamedInv
<1> SUFFICES ASSUME Init PROVE NamedInv
  OBVIOUS
<1>1. args = <<>> /\ pc = "down"
  BY DEF Init
<1>2. LoadedFrom /\ ProgressOK
  BY <1>1 DEF LoadedFrom, ProgressOK, Busy, Stages
<1>3. NamedOK
  BY <1>1 DEF NamedOK
<1> QED
  BY <1>2, <1>3 DEF NamedInv

(* A step that changes neither what is stored nor the names.               *)
LEMMA NamesStay ==
  ASSUME NamedOK, UNCHANGED <<disk, replaced, args, indexRoot, arg, mMap>>
  PROVE  NamedOK'
<1>1. \A s : Usable(s)' <=> Usable(s)
  BY DEF Usable, IndexPath, MayShareNoBlocks
<1>2. \A s : NameOf(s)' = NameOf(s)
  BY DEF NameOf
<1>3. \A n, m : NamedSoFar(n, m) => NamedSoFar(n, m)'
  BY <1>1, <1>2 DEF NamedSoFar
<1> QED
  BY <1>1, <1>3 DEF NamedOK

(* The source being opened, when it is usable, is what it was.             *)
LEMMA UsableIsFile ==
  ASSUME Usable(Source), Fresh(file, Source)
  PROVE  file = disk[Source] /\ file.list # <<>>
BY DEF Usable, Fresh

LEMMA StagesAreBusy == ASSUME pc \in Stages PROVE pc \in Busy
BY DEF Busy

(* A source that is refused by all formats has no block.                   *)
LEMMA ThrownIsNotUsable ==
  ASSUME Inv, ContentInv, NamedInv, Thrown
  PROVE  ~Usable(Source) /\ arg \in 1..Len(args)
<1>1. pc \in {"error", "format"}
  BY DEF Thrown
<1>2. arg \in 1..Len(args)
  BY <1>1 DEF NamedInv, ProgressOK, Busy, Stages
<1>3. CASE pc = "error"
  BY <1>2, <1>3 DEF NamedInv, ProgressOK
<1>4. CASE pc = "format" /\ opener = Len(Openers)
  <2>1. Fresh(file, Source) /\ file \in Contents
    BY <1>4 DEF Inv, OpenedOK, ContentInv, WalkOK, StageOK, Stages
  <2>2. file.list # <<>> => \A o \in 1..Len(Openers) : Openers[o] # file.kind
    <3>1. Len(Openers) = 5
      BY DEF Openers
    <3>2. \A o \in 1..5 : o < 5 \/ o = 5
      OBVIOUS
    <3> QED
      BY <1>4, <3>1, <3>2 DEF NamedInv, ProgressOK
  <2>3. \A kind \in {"lzop", "gzip", "bzip2", "xz", "zstd"} :
           \E o \in 1..Len(Openers) : Openers[o] = kind
    <3>1. Len(Openers) = 5 /\ Openers[1] = "lzop" /\ Openers[2] = "gzip" /\ Openers[3] = "bzip2"
          /\ Openers[4] = "xz" /\ Openers[5] = "zstd"
      BY DEF Openers
    <3>2. 1 \in 1..5 /\ 2 \in 1..5 /\ 3 \in 1..5 /\ 4 \in 1..5 /\ 5 \in 1..5
      OBVIOUS
    <3> QED
      BY <3>1, <3>2
  <2>4. file.list = <<>>
    BY <2>1, <2>2, <2>3, KindsOfContents
  <2> QED
    BY <1>2, <2>1, <2>4, UsableIsFile
<1> QED
  BY <1>3, <1>4 DEF Thrown

(* The list of a usable source has a block, even if it is another source's *)
(* index that was read.                                                    *)
LEMMA UsableHasBlocks ==
  ASSUME ContentInv, NamedInv, pc = "loaded", Usable(Source)
  PROVE  mBlocks # <<>>
<1>1. Fresh(file, Source) /\ ListOf(mBlocks, made)
  BY DEF NamedInv, LoadedFrom, ContentInv, WalkOK, LoadedOK
<1>2. file = disk[Source] /\ file.list # <<>>
  BY <1>1, UsableIsFile
<1>3. PICK t \in Sources : MayLend(t, Source, file.kind) /\ Fresh(made, t)
  BY DEF NamedInv, LoadedFrom
<1>4. made.list # <<>> /\ ~Partial(made)
  <2>1. CASE t = Source
    BY <1>3, <2>1 DEF Usable, Fresh, Partial
  <2>2. CASE t # Source
    <3>1. indexRoot /\ t.name = Source.name /\ disk[Source].kind \in Indexed
      BY <1>2, <1>3, <2>2 DEF MayLend
    <3>2. disk[t].list # <<>> /\ ~Partial(disk[t]) /\ t \notin replaced
      BY <2>2, <3>1 DEF Usable, MayShareNoBlocks
    <3> QED
      BY <1>3, <3>2 DEF Fresh
  <2> QED
    BY <2>1, <2>2
<1>5. /\ made \in Contents
      /\ mBlocks = made.list \/ EndsEarly(mBlocks, made) \/ mBlocks = Cut(made.list)
  BY <1>1, <1>4 DEF ListOf, OwnList
<1>6. made.list \in Seq(Entry) /\ Len(made.list) \in Nat
  BY <1>5, KindsOfContents, ListedFacts
<1>7. ASSUME EndsEarly(mBlocks, made) PROVE mBlocks # <<>>
  <2>1. made.kind = "gzip"
    BY <1>7 DEF EndsEarly
  <2>2. made.list[1].usize > 0
    BY <1>4, <1>5, <2>1, KindsOfContents
  <2> QED
    BY <1>7, <2>2 DEF EndsEarly
<1> QED
  BY <1>4, <1>5, <1>6, <1>7, CutFacts
-----------------------------------------------------------------------------
(* The names after one more source.                                        *)
LEMMA UsableStays ==
  ASSUME UNCHANGED <<disk, replaced, indexRoot>>
  PROVE  /\ \A s : Usable(s)' <=> Usable(s)
         /\ \A s : NameOf(s)' = NameOf(s)
BY DEF Usable, IndexPath, MayShareNoBlocks, NameOf

LEMMA SkipNamed == ASSUME Inv, ContentInv, NamedInv, Skip PROVE NamedInv'
<1>1. /\ UNCHANGED <<disk, replaced, args, indexRoot, mMap>> /\ arg' = arg + 1 /\ pc' = "next"
      /\ Thrown
  BY DEF Skip, stored, command
<1>2. ~Usable(args[arg]) /\ arg \in 1..Len(args) /\ Len(args) \in Nat
  BY <1>1, ThrownIsNotUsable DEF Source, Inv, TypesOK
<1>3. \A s : (Usable(s)' <=> Usable(s)) /\ NameOf(s)' = NameOf(s)
  BY <1>1, UsableStays
<1>4. \A k \in 1..Len(args) : k < arg' => k < arg \/ k = arg
  BY <1>1, <1>2
<1>5. \A k \in 1..Len(args) : k < arg => k < arg'
  BY <1>1, <1>2
<1>6. ASSUME NEW n \in 1..Len(args), NEW m \in 1..Len(args), NamedSoFar(n, m)
      PROVE  NamedSoFar(n, m)'
  <2>1. \A k \in (m + 1)..Len(args) : k \in 1..Len(args)
    BY <1>2
  <2>2. \A k \in (m + 1)..Len(args) :
          k < arg' /\ Usable(args[k]) => NameOf(args[k]) # NameOf(args[n])
    BY <1>2, <1>4, <1>6, <2>1 DEF NamedSoFar
  <2> QED
    BY <1>1, <1>3, <1>5, <1>6, <2>2 DEF NamedSoFar
<1>7. ASSUME NEW n \in 1..Len(args), n < arg', Usable(args[n])
      PROVE  \E m \in 1..Len(args) : NamedSoFar(n, m)'
  <2>1. n < arg
    BY <1>2, <1>4, <1>7
  <2> QED
    BY <1>6, <1>7, <2>1 DEF NamedInv, NamedOK
<1>8. NamedOK'
  BY <1>1, <1>3, <1>7 DEF NamedOK
<1>9. LoadedFrom' /\ ProgressOK'
  BY <1>1 DEF LoadedFrom, ProgressOK, Busy, Stages
<1> QED
  BY <1>8, <1>9 DEF NamedInv

LEMMA AddToMapNamed == ASSUME Inv, ContentInv, NamedInv, AddToMap PROVE NamedInv'
<1> DEFINE d == DestName(Openers[opener], Source.name)
           e == [source |-> Source, list |-> mBlocks, made |-> made]
<1>1. /\ UNCHANGED <<disk, replaced, args, indexRoot>> /\ arg' = arg + 1 /\ pc' = "next"
      /\ pc = "loaded"
      /\ mMap' = [n \in DOMAIN mMap \cup {d} |-> IF n = d THEN e ELSE mMap[n]]
  BY DEF AddToMap, stored, command
<1>2. arg \in 1..Len(args) /\ Len(args) \in Nat
  BY <1>1 DEF NamedInv, ProgressOK, Busy, Inv, TypesOK
<1>3. \A s : (Usable(s)' <=> Usable(s)) /\ NameOf(s)' = NameOf(s)
  BY <1>1, UsableStays
<1>4. \A k \in 1..Len(args) : k < arg' => k < arg \/ k = arg
  BY <1>1, <1>2
<1>5. arg < arg' /\ \A k \in 1..Len(args) : k < arg => k < arg'
  BY <1>1, <1>2
<1>6. Usable(args[arg]) => NameOf(args[arg]) = d
  <2>1. Fresh(file, Source) /\ Openers[opener] = file.kind
    BY <1>1 DEF NamedInv, LoadedFrom, ContentInv, WalkOK, StageOK
  <2> QED
    BY <2>1, UsableIsFile DEF NameOf, Source
<1>7. e.source = args[arg]
  BY DEF Source
<1> HIDE DEF d, e
<1>8. ASSUME NEW n \in 1..Len(args), NEW m \in 1..Len(args), NamedSoFar(n, m),
             NameOf(args[n]) # d
      PROVE  NamedSoFar(n, m)'
  <2>1. \A k \in (m + 1)..Len(args) : k \in 1..Len(args)
    BY <1>2
  <2>2. \A k \in (m + 1)..Len(args) :
          k < arg' /\ Usable(args[k]) => NameOf(args[k]) # NameOf(args[n])
    BY <1>2, <1>4, <1>6, <1>8, <2>1 DEF NamedSoFar
  <2>3. NameOf(args[n]) \in DOMAIN mMap' /\ mMap'[NameOf(args[n])].source = args[m]
    BY <1>1, <1>8 DEF NamedSoFar
  <2>4. m \in n..Len(args) /\ m < arg'
    BY <1>5, <1>8 DEF NamedSoFar
  <2> QED
    BY <1>1, <1>3, <2>2, <2>3, <2>4 DEF NamedSoFar
<1>9. ASSUME NEW n \in 1..Len(args), n < arg', NameOf(args[n]) = d
      PROVE  \E m \in 1..Len(args) : NamedSoFar(n, m)'
  <2>1. PICK a : a = arg
    OBVIOUS
  <2>2. d \in DOMAIN mMap' /\ mMap'[d].source = args[a]
    BY <1>1, <1>7, <2>1
  <2>3. a \in n..Len(args) /\ a < arg' /\ a \in 1..Len(args)
    BY <1>1, <1>2, <1>9, <2>1
  <2>4. \A k \in (a + 1)..Len(args) : ~(k < arg')
    BY <1>1, <1>2, <2>1
  <2>5. NameOf(args[n])' = d
    BY <1>1, <1>3, <1>9
  <2>6. NamedSoFar(n, a)'
    BY <1>1, <2>2, <2>3, <2>4, <2>5 DEF NamedSoFar
  <2> QED
    BY <2>3, <2>6
<1>10. ASSUME NEW n \in 1..Len(args), n < arg', Usable(args[n])
       PROVE  \E m \in 1..Len(args) : NamedSoFar(n, m)'
  <2>1. CASE NameOf(args[n]) = d
    BY <1>9, <1>10, <2>1
  <2>2. CASE NameOf(args[n]) # d
    <3>1. n < arg
      BY <1>4, <1>6, <1>10, <2>2
    <3> QED
      BY <1>8, <1>10, <2>2, <3>1 DEF NamedInv, NamedOK
  <2> QED
    BY <2>1, <2>2
<1>11. NamedOK'
  BY <1>1, <1>3, <1>10 DEF NamedOK
<1>12. LoadedFrom' /\ ProgressOK'
  BY <1>1 DEF LoadedFrom, ProgressOK, Busy, Stages
<1> QED
  BY <1>11, <1>12 DEF NamedInv

(* A replaced source is usable no more.                                    *)
LEMMA ReplaceNamed == ASSUME Inv, ContentInv, NamedInv, Replace PROVE NamedInv'
<1>1. PICK s \in Sources : \E c \in Replacements[s] :
        disk' = [disk EXCEPT ![s] = c] /\ replaced' = replaced \cup {s}
  BY DEF Replace
<1>2. UNCHANGED <<args, indexRoot, arg, opener, file, made, mMap, pc>>
  BY DEF Replace, command, walk
<1>3. DOMAIN disk = Sources
  BY DEF Inv, TypesOK
<1>4. ASSUME NEW c, NEW t \in Sources, Fresh(c, t) PROVE Fresh(c, t)'
  BY <1>1, <1>3, <1>4 DEF Fresh
<1>5. ASSUME NEW t \in Sources, Usable(t)' PROVE Usable(t) /\ disk'[t] = disk[t]
  <2>1. t # s /\ t \notin replaced /\ disk'[t] = disk[t]
    BY <1>1, <1>3, <1>5 DEF Usable
  <2>2. disk[t].list # <<>> /\ disk[t].scan = {}
    BY <1>5, <2>1 DEF Usable
  <2>3. ~MayShareNoBlocks(t)' => ~MayShareNoBlocks(t)
    <3> SUFFICES ASSUME MayShareNoBlocks(t) PROVE MayShareNoBlocks(t)'
      OBVIOUS
    <3>1. PICK u \in Sources \ {t} :
            u.name = t.name /\ (disk[u].list = <<>> \/ Partial(disk[u]) \/ u \in replaced)
      BY DEF MayShareNoBlocks
    <3>2. disk'[u].list = <<>> \/ Partial(disk'[u]) \/ u \in replaced'
      BY <1>1, <1>3, <3>1
    <3> QED
      BY <1>2, <3>1, <3>2 DEF MayShareNoBlocks, Partial
  <2>4. disk[t].kind \in Indexed => IndexPath(t)[1] \notin ReadOnly /\ ~MayShareNoBlocks(t)
    BY <1>2, <1>5, <2>1, <2>3 DEF Usable, IndexPath
  <2> QED
    BY <2>1, <2>2, <2>4 DEF Usable
<1>6. \A n \in 1..Len(args) : args[n] \in Sources
  BY DEF Inv, TypesOK
<1>7. ASSUME NEW n \in 1..Len(args), Usable(args[n])' PROVE NameOf(args[n])' = NameOf(args[n])
  BY <1>2, <1>5, <1>6, <1>7 DEF NameOf
<1>8. ASSUME NEW n \in 1..Len(args), NEW m \in 1..Len(args), NamedSoFar(n, m), Usable(args[n])'
      PROVE  NamedSoFar(n, m)'
  <2>1. Len(args) \in Nat
    BY DEF Inv, TypesOK
  <2>2. ASSUME NEW k \in (m + 1)..Len(args), k < arg', Usable(args[k])'
        PROVE  NameOf(args[k])' # NameOf(args[n])'
    <3>1. k \in 1..Len(args)
      BY <2>1
    <3>2. Usable(args[k])
      BY <1>2, <1>5, <1>6, <2>2, <3>1
    <3>3. NameOf(args[k]) # NameOf(args[n])
      BY <1>2, <1>8, <2>2, <3>2 DEF NamedSoFar
    <3> QED
      BY <1>7, <1>8, <2>2, <3>1, <3>3
  <2>3. NameOf(args[n])' = NameOf(args[n])
    BY <1>7, <1>8
  <2> QED
    BY <1>2, <1>8, <2>2, <2>3 DEF NamedSoFar
<1>9. NamedOK'
  <2> SUFFICES ASSUME NEW n \in 1..Len(args'), n < arg', Usable(args[n])'
               PROVE  \E m \in 1..Len(args') : NamedSoFar(n, m)'
    BY DEF NamedOK
  <2>1. n \in 1..Len(args) /\ Usable(args[n])
    BY <1>2, <1>5, <1>6
  <2>2. PICK m \in 1..Len(args) : NamedSoFar(n, m)
    BY <1>2, <2>1 DEF NamedInv, NamedOK
  <2> QED
    BY <1>2, <1>8, <2>1, <2>2
<1>10. ASSUME pc \in Stages \cup {"loaded", "error"}
       PROVE  Source \in Sources /\ Source' = Source
  BY <1>2, <1>6, <1>10 DEF NamedInv, ProgressOK, Busy, Source
<1>11. LoadedFrom'
  <2> SUFFICES ASSUME pc = "loaded" PROVE LoadedFrom'
    BY <1>2 DEF LoadedFrom
  <2>1. Source \in Sources /\ Source' = Source
    BY <1>10
  <2>2. Fresh(file, Source)
    BY DEF NamedInv, LoadedFrom
  <2>3. PICK t \in Sources : MayLend(t, Source, file.kind) /\ Fresh(made, t)
    BY DEF NamedInv, LoadedFrom
  <2>4. Fresh(file, Source)'
    BY <1>2, <1>4, <2>1, <2>2 DEF Fresh
  <2>5. MayLend(t, Source, file.kind)' /\ Fresh(made, t)'
    BY <1>2, <1>4, <2>1, <2>3 DEF MayLend, Fresh
  <2> QED
    BY <2>4, <2>5 DEF LoadedFrom
<1>12. ProgressOK'
  <2>1. pc = "error" => ~Usable(Source)'
    <3> SUFFICES ASSUME pc = "error", Usable(Source)' PROVE FALSE
      OBVIOUS
    <3>1. PICK s0 \in Sources : s0 = Source /\ Source' = s0
      BY <1>10
    <3>2. Usable(s0)'
      BY <3>1 DEF Usable, IndexPath, MayShareNoBlocks
    <3>3. Usable(s0)
      BY <1>5, <3>2
    <3> QED
      BY <3>1, <3>3 DEF NamedInv, ProgressOK
  <2> QED
    BY <1>2, <2>1 DEF NamedInv, ProgressOK
<1> QED
  BY <1>9, <1>11, <1>12 DEF NamedInv
(* Steps that open a source: what is to be known of where they lead.       *)
LEMMA StageNamed ==
  ASSUME NamedInv, UNCHANGED <<disk, replaced, args, indexRoot, arg, mMap>>,
         pc \in Busy, pc' \in Busy, LoadedFrom', pc' = "error" => ~Usable(Source),
         pc' \in {"check", "format"} /\ file'.list # <<>> =>
            \A o \in 1..Len(Openers) :
               o < opener' \/ (pc' = "format" /\ o = opener') => Openers[o] # file'.kind
  PROVE  NamedInv'
<1>1. NamedOK'
  BY NamesStay DEF NamedInv
<1>2. pc' # "serve" /\ pc' # "down"
  BY DEF Busy, Stages
<1>3. pc' = "error" => ~Usable(Source)'
  BY DEF Usable, IndexPath, MayShareNoBlocks, Source
<1>4. ProgressOK'
  BY <1>2, <1>3 DEF NamedInv, ProgressOK
<1> QED
  BY <1>1, <1>4 DEF NamedInv

(* What a stage knows of the source, and what follows for where it leads.  *)
LEMMA StageFacts ==
  ASSUME Inv, ContentInv, NamedInv, pc \in Stages
  PROVE  /\ Source \in Sources /\ made = file /\ Fresh(file, Source)
         /\ file \in Contents /\ opener \in 1..Len(Openers)
         /\ pc \notin {"check", "format"} => Openers[opener] = file.kind
         /\ Usable(Source) => file = disk[Source] /\ file.list # <<>>
<1>1. Source \in Sources /\ made = file /\ Fresh(file, Source)
  BY DEF Inv, OpenedOK
<1>2. /\ file \in Contents /\ opener \in 1..Len(Openers)
      /\ pc \notin {"check", "format"} => Openers[opener] = file.kind
  BY DEF ContentInv, WalkOK, StageOK
<1> QED
  BY <1>1, <1>2, UsableIsFile

LEMMA Refused ==
  ASSUME Inv, ContentInv, NamedInv, pc \in Stages, pc # "format", file.list # <<>>,
         file.kind # Openers[opener]
  PROVE  \A o \in 1..Len(Openers) : o < opener \/ o = opener => Openers[o] # file.kind
<1>1. pc = "check"
  BY StageFacts
<1> QED
  BY <1>1 DEF NamedInv, ProgressOK

LEMMA OwnListNamed ==
  ASSUME Inv, ContentInv, NamedInv, pc \in Stages,
         UNCHANGED <<disk, replaced, args, indexRoot, arg, file, made, mMap>>
  PROVE  LoadedFrom'
<1>1. PICK s \in Sources : s = Source /\ Source' = s
  BY StageFacts DEF Source
<1>2. made = file /\ Fresh(file, s)
  BY <1>1, StageFacts
<1>3. Fresh(file, s)' /\ Fresh(made, s)' /\ MayLend(s, s, file.kind)'
  BY <1>2 DEF Fresh, MayLend
<1>4. Fresh(file, Source)'
  BY <1>1, <1>3 DEF Fresh
<1>5. MayLend(s, Source, file.kind)' /\ Fresh(made, s)'
  BY <1>1, <1>3 DEF Fresh, MayLend
<1> QED
  BY <1>4, <1>5 DEF LoadedFrom

LEMMA WalksNamed == ASSUME Inv, ContentInv, NamedInv, WalkLzop \/ WalkPixz \/ WalkZstd PROVE NamedInv'
<1>1. StageOK /\ LzopOK /\ ZstdOK /\ XzOK
  BY DEF ContentInv, WalkOK
<1>2. UNCHANGED <<disk, replaced, args, indexRoot, arg, made, mMap>>
  BY DEF WalkLzop, WalkPixz, WalkZstd, stored, command
<1>3. pc \in Stages /\ pc # "format"
  <2>1. CASE WalkLzop
    BY <2>1 DEF WalkLzop, Lzop!Next, Lzop!CheckFileType, Lzop!NextMember, Lzop!ReadHeaders,
         Lzop!FindBlock, Lzop!EndMember, Lzop!OutOfFile, Stages
  <2>2. CASE WalkPixz
    BY <2>2 DEF WalkPixz, Pixz!Next, Pixz!CheckFileType, Pixz!SkipPadding, Pixz!ReadFooter,
         Pixz!BadFooter, Stages
  <2>3. CASE WalkZstd
    BY <2>3 DEF WalkZstd, Zstd!Next, Zstd!CheckFileType, Zstd!FindTable, Zstd!ReadEntry,
         Zstd!EndTable, Stages
  <2> QED
    BY <2>1, <2>2, <2>3
<1>4. /\ file' = file /\ opener' = opener /\ pc' \in Busy /\ pc' # "check"
      /\ file.list # <<>> => pc' # "error"
      /\ file.list # <<>> /\ pc' = "format" => file.kind # Openers[opener]
  <2>1. CASE WalkLzop
    <3>1. Openers[opener] = "lzop"
      BY <2>1 DEF WalkLzop, Opening
    <3> QED
      BY <1>1, <2>1, <3>1, LzopWalks DEF Busy, Stages
  <2>2. CASE WalkPixz
    <3>1. Openers[opener] = "xz"
      BY <2>2 DEF WalkPixz, Opening
    <3> QED
      BY <1>1, <2>2, <3>1, PixzWalks DEF Busy, Stages
  <2>3. CASE WalkZstd
    <3>1. Openers[opener] = "zstd"
      BY <2>3 DEF WalkZstd, Opening
    <3> QED
      BY <1>1, <2>3, <3>1, ZstdWalks DEF Busy, Stages
  <2> QED
    BY <2>1, <2>2, <2>3
<1>5. LoadedFrom'
  BY <1>2, <1>3, <1>4, OwnListNamed
<1>6. pc' = "error" => ~Usable(Source)
  BY <1>3, <1>4, StageFacts
<1>7. pc' \in {"check", "format"} /\ file'.list # <<>> =>
            \A o \in 1..Len(Openers) :
               o < opener' \/ (pc' = "format" /\ o = opener') => Openers[o] # file'.kind
  BY <1>3, <1>4, Refused
<1> QED
  BY <1>2, <1>3, <1>4, <1>5, <1>6, <1>7, StageNamed, StagesAreBusy

LEMMA OpenSourceNamed == ASSUME Inv, ContentInv, NamedInv, OpenSource PROVE NamedInv'
<1>1. /\ UNCHANGED <<disk, replaced, args, indexRoot, arg, mMap>> /\ opener' = 1
      /\ arg <= Len(args) /\ file' = disk[Source]
      /\ pc' = IF disk[Source].kind = "absent" THEN "error" ELSE "check"
  BY DEF OpenSource, Holding, stored, command
<1>2. arg \in 1..Len(args) /\ Source \in Sources
  BY <1>1 DEF Inv, TypesOK, Source
<1>3. NamedOK'
  BY <1>1, NamesStay DEF NamedInv
<1>4. disk[Source].kind = "absent" => ~Usable(Source)
  BY <1>2, KindsOfContents DEF Usable, ContentInv, DiskOK
<1>5. pc' = "error" => ~Usable(Source)'
  BY <1>1, <1>4 DEF Usable, IndexPath, MayShareNoBlocks, Source
<1>6. \A o \in 1..Len(Openers) : ~(o < 1)
  OBVIOUS
<1>7. ProgressOK'
  BY <1>1, <1>2, <1>5, <1>6 DEF ProgressOK
<1>8. LoadedFrom'
  BY <1>1 DEF LoadedFrom
<1> QED
  BY <1>3, <1>7, <1>8 DEF NamedInv

LEMMA NextOpenerNamed == ASSUME Inv, ContentInv, NamedInv, NextOpener PROVE NamedInv'
<1>1. /\ UNCHANGED <<disk, replaced, args, indexRoot, arg, mMap>> /\ opener' = opener + 1
      /\ file' = file /\ pc = "format" /\ pc' = "check"
  BY DEF NextOpener, Holding, stored, command
<1>2. opener \in 1..Len(Openers) /\ Len(Openers) = 5
  BY <1>1, StageFacts DEF Stages, Openers
<1>3. \A o \in 1..Len(Openers) : o < opener + 1 => o < opener \/ o = opener
  BY <1>2
<1>4. file'.list # <<>> => \A o \in 1..Len(Openers) : o < opener' => Openers[o] # file'.kind
  BY <1>1, <1>3 DEF NamedInv, ProgressOK
<1>5. LoadedFrom'
  BY <1>1 DEF LoadedFrom
<1>6. pc \in Busy /\ pc' \in Busy
  BY <1>1 DEF Busy, Stages
<1> QED
  BY <1>1, <1>4, <1>5, <1>6, StageNamed

LEMMA CheckFileTypeNamed == ASSUME Inv, ContentInv, NamedInv, CheckFileType PROVE NamedInv'
<1>1. /\ UNCHANGED <<disk, replaced, args, indexRoot, arg, file, opener, made, mMap>>
      /\ pc = "check" /\ pc' = IF file.kind = Openers[opener] THEN "load" ELSE "format"
  BY DEF CheckFileType, stored, command, walk
<1>2. pc \in Stages /\ pc \in Busy /\ pc' \in Busy
  BY <1>1 DEF Busy, Stages
<1>3. pc' = "format" /\ file'.list # <<>> =>
        \A o \in 1..Len(Openers) : o < opener' \/ o = opener' => Openers[o] # file'.kind
  BY <1>1, <1>2, Refused
<1>4. LoadedFrom'
  BY <1>1 DEF LoadedFrom
<1> QED
  BY <1>1, <1>2, <1>3, <1>4, StageNamed

LEMMA ReadIndexNamed == ASSUME Inv, ContentInv, NamedInv, ReadIndex PROVE NamedInv'
<1>1. /\ UNCHANGED <<disk, replaced, args, indexRoot, arg, file, mMap>>
      /\ pc = "load" /\ pc' = "loaded" /\ Openers[opener] \in Indexed
      /\ index[IndexPath(Source)] # None /\ made' = index[IndexPath(Source)].made
  BY DEF ReadIndex, stored, command
<1>2. pc \in Stages /\ pc \in Busy /\ pc' \in Busy
  BY <1>1 DEF Busy, Stages
<1>3. PICK s \in Sources : s = Source /\ Source' = s
  BY <1>1, <1>2, StageFacts DEF Source
<1>4. PICK p \in IndexPaths : p = IndexPath(Source) /\ p \in Paths(s)
  BY <1>3 DEF IndexPath, IndexPaths, Paths
<1>5. PICK t \in Sources : p \in Paths(t) /\ Fresh(index[p].made, t)
  BY <1>1, <1>4 DEF Inv, IndexOK
<1>6. Fresh(file, s) /\ file.kind \in Indexed
  BY <1>1, <1>2, <1>3, StageFacts
<1>7. MayLend(t, s, file.kind)
  <2>1. CASE indexRoot
    <3>1. t.name = s.name
      BY <1>3, <1>4, <1>5, <2>1 DEF Paths, IndexPath
    <3> QED
      BY <1>6, <2>1, <3>1 DEF MayLend
  <2>2. CASE ~indexRoot
    <3>1. t = s
      BY <1>3, <1>4, <1>5, <2>2, SourcesAssumption DEF Paths, IndexPath
    <3> QED
      BY <3>1 DEF MayLend
  <2> QED
    BY <2>1, <2>2
<1>8. Fresh(file, Source)'
  BY <1>1, <1>3, <1>6 DEF Fresh
<1>9. MayLend(t, Source, file.kind)'
  BY <1>1, <1>3, <1>7 DEF MayLend
<1>10. Fresh(made, t)'
  BY <1>1, <1>4, <1>5 DEF Fresh
<1>11. LoadedFrom'
  BY <1>8, <1>9, <1>10 DEF LoadedFrom
<1> QED
  BY <1>1, <1>2, <1>11, StageNamed

LEMMA StartBuildNamed == ASSUME NamedInv, StartBuild PROVE NamedInv'
<1>1. /\ UNCHANGED <<disk, replaced, args, indexRoot, arg, mMap>> /\ pc = "load"
      /\ pc' \in {"blocks", "build"}
  BY DEF StartBuild, stored, command
<1>2. pc \in Busy /\ pc' \in Busy /\ LoadedFrom'
  BY <1>1 DEF Busy, Stages, LoadedFrom
<1> QED
  BY <1>1, <1>2, StageNamed

LEMMA BuildIndexNamed == ASSUME Inv, ContentInv, NamedInv, BuildIndex PROVE NamedInv'
<1>1. /\ UNCHANGED <<disk, replaced, args, indexRoot, arg, opener, file, mMap>> /\ pc = "build"
      /\ pc' \in {"built", "format", "error"}
      /\ pc' = "format" => Rejected(file)
      /\ pc' = "error" => Rejected(file) \/ RunsOut(file)
  BY DEF BuildIndex, stored, command
<1>2. pc \in Stages /\ pc \in Busy /\ pc' \in Busy /\ LoadedFrom'
  BY <1>1 DEF Busy, Stages, LoadedFrom
<1>3. pc' = "error" => ~Usable(Source)
  <2> SUFFICES ASSUME Usable(Source) PROVE ~Rejected(file) /\ ~RunsOut(file)
    BY <1>1
  <2>1. file.scan = {}
    BY <1>2, StageFacts DEF Usable
  <2> QED
    BY <2>1 DEF Rejected, RunsOut
<1>4. pc' = "format" => file'.list = <<>>
  <2>1. file \in Contents
    BY <1>2, StageFacts
  <2> QED
    BY <1>1, <2>1, KindsOfContents DEF Rejected
<1>5. pc' # "check"
  BY <1>1
<1> QED
  BY <1>1, <1>2, <1>3, <1>4, <1>5, StageNamed

LEMMA WriteIndexNamed == ASSUME Inv, ContentInv, NamedInv, WriteIndex PROVE NamedInv'
<1>1. /\ UNCHANGED <<disk, replaced, args, indexRoot, arg, file, made, mMap>> /\ pc = "built"
      /\ pc' = IF IndexPath(Source)[1] \in ReadOnly THEN "error" ELSE "loaded"
  BY DEF WriteIndex, command, walk
<1>2. pc \in Stages /\ pc \in Busy /\ pc' \in Busy
  BY <1>1 DEF Busy, Stages
<1>3. file.kind \in Indexed
  BY <1>1 DEF ContentInv, WalkOK, StageOK
<1>4. IndexPath(Source)[1] \in ReadOnly => ~Usable(Source)
  <2> SUFFICES ASSUME Usable(Source) PROVE IndexPath(Source)[1] \notin ReadOnly
    OBVIOUS
  <2>1. disk[Source].kind \in Indexed
    BY <1>2, <1>3, StageFacts
  <2> QED
    BY <2>1 DEF Usable
<1>5. LoadedFrom'
  BY <1>1, <1>2, OwnListNamed
<1> QED
  BY <1>1, <1>2, <1>4, <1>5, StageNamed

LEMMA IterateNamed == ASSUME Inv, ContentInv, NamedInv, Iterate PROVE NamedInv'
<1>1. /\ UNCHANGED <<disk, replaced, args, indexRoot, arg, file, made, mMap>> /\ pc = "indexed"
      /\ pc' = "loaded"
  BY DEF Iterate, stored, command
<1>2. pc \in Stages /\ pc \in Busy /\ pc' \in Busy
  BY <1>1 DEF Busy, Stages
<1>3. LoadedFrom'
  BY <1>1, <1>2, OwnListNamed
<1> QED
  BY <1>1, <1>2, <1>3, StageNamed

LEMMA NoBlocksNamed == ASSUME Inv, ContentInv, NamedInv, NoBlocks PROVE NamedInv'
<1>1. /\ UNCHANGED <<disk, replaced, args, indexRoot, arg, mMap>> /\ pc = "loaded"
      /\ pc' = "error" /\ mBlocks = <<>>
  BY DEF NoBlocks, stored, command
<1>2. pc \in Busy /\ pc' \in Busy /\ LoadedFrom'
  BY <1>1 DEF Busy, LoadedFrom
<1>3. ~Usable(Source)
  BY <1>1, UsableHasBlocks
<1> QED
  BY <1>1, <1>2, <1>3, StageNamed

LEMMA NextNamed == ASSUME Inv, ContentInv, NamedInv, Next PROVE NamedInv'
<1>1. CASE Mount
  <2>1. arg' = 1 /\ pc' = "next" /\ args' \in Seq(Sources)
    BY <1>1, SourcesAssumption DEF Mount
  <2>2. \A n \in 1..Len(args') : ~(n < arg')
    BY <2>1
  <2>3. NamedOK'
    BY <2>2 DEF NamedOK
  <2>4. LoadedFrom' /\ ProgressOK'
    BY <2>1 DEF LoadedFrom, ProgressOK, Busy, Stages
  <2> QED
    BY <2>3, <2>4 DEF NamedInv
<1>2. CASE Unmount
  <2>1. args' = <<>> /\ pc' = "down"
    BY <1>2 DEF Unmount
  <2>2. NamedOK'
    BY <2>1 DEF NamedOK
  <2>3. LoadedFrom' /\ ProgressOK'
    BY <2>1 DEF LoadedFrom, ProgressOK, Busy, Stages
  <2> QED
    BY <2>2, <2>3 DEF NamedInv
<1>3. CASE Serve
  <2>1. /\ UNCHANGED <<disk, replaced, args, indexRoot, arg, mMap>> /\ arg > Len(args)
        /\ pc' = "serve"
    BY <1>3 DEF Serve, stored, command
  <2>2. NamedOK'
    BY <2>1, NamesStay DEF NamedInv
  <2>3. LoadedFrom' /\ ProgressOK'
    BY <2>1 DEF LoadedFrom, ProgressOK, Busy, Stages
  <2> QED
    BY <2>2, <2>3 DEF NamedInv
<1>4. CASE Replace
  BY <1>4, ReplaceNamed
<1>5. CASE Add /\ ~Serve
  BY <1>5, OpenSourceNamed, CheckFileTypeNamed, WalksNamed, NextOpenerNamed, SkipNamed,
     ReadIndexNamed, StartBuildNamed, BuildIndexNamed, WriteIndexNamed, IterateNamed,
     NoBlocksNamed, AddToMapNamed DEF Add
<1> QED
  BY <1>1, <1>2, <1>3, <1>4, <1>5 DEF Next

LEMMA IdleNamed == ASSUME Inv, ContentInv, NamedInv, UNCHANGED vars PROVE NamedInv'
<1>1. UNCHANGED <<disk, replaced, args, indexRoot, arg, opener, file, made, mMap, pc>>
  BY DEF vars
<1>2. NamedOK'
  BY <1>1, NamesStay DEF NamedInv
<1>3. LoadedFrom'
  BY <1>1 DEF NamedInv, LoadedFrom, Fresh, MayLend, Source
<1>4. ProgressOK'
  BY <1>1 DEF NamedInv, ProgressOK, Usable, IndexPath, MayShareNoBlocks, Source
<1> QED
  BY <1>2, <1>3, <1>4 DEF NamedInv

(* AllAreNamed: FileList::add's catch clauses (src/FileList.cc:59 and 72)  *)
(* keep what goes wrong with one source from the others, on every command  *)
(* line; no class before its own takes a file, and its own refuses no file *)
(* that is Usable; of those that want one name the last is served          *)
(* (src/FileList.cc:71).  Usable leaves out the sound files that the code  *)
(* may skip: gzip and bzip2 files whose scan runs out of input             *)
(* (src/GzipFile.cc:55, src/Bzip2File.cc:121) or loses blocks at a seam    *)
(* (src/Bzip2File.cc:74), and who finds an index without a block.          *)
THEOREM AllSourcesAreNamed == Spec => []AllAreNamed
<1>1. Init => NamedInv
  BY InitNamed
<1>2. Inv /\ ContentInv /\ NamedInv /\ [Next]_vars => NamedInv'
  BY NextNamed, IdleNamed
<1>3. Inv /\ NamedInv => AllAreNamed
  <2> SUFFICES ASSUME Inv, NamedInv, pc = "serve", NEW n \in 1..Len(args), Usable(args[n])
               PROVE  /\ NameOf(args[n]) \in DOMAIN mMap
                      /\ \E m \in n..Len(args) :
                            /\ mMap[NameOf(args[n])].source = args[m]
                            /\ \A k \in (m + 1)..Len(args) :
                                  Usable(args[k]) => NameOf(args[k]) # NameOf(args[n])
    BY DEF AllAreNamed
  <2>1. arg > Len(args) /\ Len(args) \in Nat /\ arg \in Nat
    BY DEF NamedInv, ProgressOK, Inv, TypesOK
  <2>2. n < arg
    BY <2>1
  <2>3. PICK m \in 1..Len(args) : NamedSoFar(n, m)
    BY <2>2 DEF NamedInv, NamedOK
  <2>4. \A k \in (m + 1)..Len(args) : k < arg
    BY <2>1
  <2> QED
    BY <2>3, <2>4 DEF NamedSoFar
<1> QED
  BY <1>1, <1>2, <1>3, FileContentsInvariant, PTL DEF Spec
=============================================================================
