-------------------------- MODULE GzipIndexProofs --------------------------
(***************************************************************************)
(* Proofs about GzipIndex, for all well-formed files, windows and block    *)
(* factors.  The decoder that counts is Main: the saved one during a       *)
(* trial.  The invariant relates the list to it, and the trial to both.    *)
(***************************************************************************)
EXTENDS GzipIndex, SequenceTheorems, TLAPS

Entry == [usize : Nat, uoff : Nat, coff : Nat, dict : Nat]
Limit == MinBlock + Longest
Main == IF indep THEN mSave ELSE rd

(* The blocks of p's member from p on refer to nothing before low.         *)
Enclosed(f, p, low) ==
    \A q \in p..Len(f) :
        f[q].kind = "block" /\ f[q].mem = f[p].mem => f[q].reach >= low

(* A decoder that has come through the whole file to where it stands.      *)
DecoderOK(f, r) ==
    /\ r \in Reader /\ ~r.astray
    /\ r.at \in 1..Len(f)
    /\ OPos(r) = f[r.at].uoff
    /\ f[r.at].kind = "header" => r.wrap = "Gzip"
    /\ Enclosed(f, r.at, r.known)
    /\ r.init = 0 \/ r.out > WindowSize
    /\ \A p \in 1..(r.at - 1) : f[p].kind \notin {"damaged", "cut"}

(* An entry stands where the file has its byte, with a sufficient window.  *)
EntryOK(f, b) ==
    /\ b.coff \in 1..Len(f)
    /\ f[b.coff].uoff = b.uoff
    /\ Enclosed(f, b.coff, b.dict)

(* Decodes, for any file.                                                  *)
DecodesIn(f, b) ==
    /\ b.coff \in 1..Len(f) /\ f[b.coff].uoff = b.uoff
    /\ b.uoff + b.usize <= Total(f)
    /\ \A p \in b.coff..Len(f) :
          f[p].uoff < b.uoff + b.usize =>
             f[p].kind = "block" /\ f[p].reach >= b.dict

(* The list: all entries but the last have their size.                     *)
ListOK(f, list, last) ==
    /\ list \in Seq(Entry)
    /\ IF list = <<>> THEN last = 0 ELSE list[Len(list)].uoff = last
    /\ \A k \in 1..Len(list) : EntryOK(f, list[k]) /\ list[k].usize <= Limit
    /\ \A k \in 1..(Len(list) - 1) :
        /\ list[k].uoff + list[k].usize = list[k + 1].uoff
        /\ list[k].coff < list[k + 1].coff
        /\ Sound(f) => DecodesIn(f, list[k])
    /\ Sound(f) /\ list # <<>> => list[1].uoff = 0

(* The pieces from the last entry up to p, without it, belong to one       *)
(* member and are all blocks.                                              *)
Within(f, list, p) ==
    /\ list # <<>>
    /\ \A q \in list[Len(list)].coff..(p - 1) :
        f[q].kind = "block" /\ f[q].mem = f[list[Len(list)].coff].mem

(* What the last entry stands for, when the decoder is at piece p.         *)
LastOK(f, list, p) ==
    /\ list = <<>> => f[p].uoff = 0
    /\ list # <<>> => \A q \in list[Len(list)].coff..(p - 1) :
        f[q].uoff < f[p].uoff =>
            f[q].kind = "block" /\ f[q].mem = f[list[Len(list)].coff].mem

(* Once bytes of a member have been put out, the last entry is in it.      *)
Opened(f, list, p) ==
    \A h \in 1..p :
        f[h].kind = "header" /\ f[h].mem = f[p].mem /\ f[h].uoff < f[p].uoff =>
            Within(f, list, p)

(* Between trials: the next piece may be passed.                           *)
Passable(f, list, last, r) ==
    /\ OPos(r) + f[r.at].usize - last <= Limit
    /\ list # <<>> => list[Len(list)].coff <= r.at
    /\ Sound(f) /\ f[r.at].usize > 0 => Within(f, list, r.at + 1)

(* Before a trial: the last entry is behind and not too far.               *)
Triable(f, list, last, r) ==
    /\ OPos(r) - last <= Limit
    /\ list # <<>> => list[Len(list)].coff < r.at

(* A trial that has come from the saved decoder's place to its own.        *)
TrialOK(f, s, t, u, c, back) ==
    /\ t \in Reader /\ t.wrap = "Raw"
    /\ u = OPos(s) /\ c = s.at /\ t.init = u /\ t.known = u
    /\ IF back THEN t.out \in 1..WindowSize ELSE t.out = 0 /\ t.at = c
    /\ t.astray <=> f[c].kind = "footer"
    /\ t.astray => t.at = c
    /\ ~t.astray =>
        /\ t.at \in c..Len(f) /\ OPos(t) = f[t.at].uoff
        /\ f[t.at].mem = f[c].mem
        /\ \A p \in c..(t.at - 1) : f[p].kind = "block" /\ f[p].reach >= u

ScanInv ==
    pc = "scan" =>
        /\ DecoderOK(file, Main)
        /\ lastIdx <= OPos(Main)
        /\ Sound(file) => LastOK(file, mBlocks, Main.at) /\ Opened(file, mBlocks, Main.at)
        /\ IF indep
           THEN /\ Triable(file, mBlocks, lastIdx, mSave)
                /\ TrialOK(file, mSave, rd, uoff, coff, backtrack)
           ELSE Passable(file, mBlocks, lastIdx, rd)

DoneInv ==
    pc = "done" => /\ Sound(file)
                   /\ LastOK(file, mBlocks, Len(file))
                   /\ mBlocks # <<>> => lastIdx + mBlocks[Len(mBlocks)].usize = Total(file)

Inv ==
    /\ file \in Files
    /\ indep \in BOOLEAN /\ backtrack \in BOOLEAN
    /\ pc \in {"scan", "done", "format", "eof"}
    /\ ListOK(file, mBlocks, lastIdx)
    /\ ScanInv /\ DoneInv
    /\ pc = "format" => ~Sound(file)

-----------------------------------------------------------------------------
(* What the assumption says of a file and of its pieces.                   *)
LEMMA FileFacts ==
  ASSUME NEW f \in Files
  PROVE  /\ f \in Seq(Piece) /\ Len(f) \in Nat \ {0}
         /\ Total(f) = f[Len(f)].uoff
         /\ \A p \in 1..Len(f) :
              /\ f[p].kind \in Kinds /\ f[p].mem \in Nat /\ f[p].uoff \in Nat
              /\ f[p].usize \in Nat /\ f[p].reach \in Nat
              /\ f[p].uoff + f[p].usize <= Total(f)
<1>1. WellFormed(f)
  BY GzipAssumption
<1>2. f \in Seq(Piece) /\ Len(f) \in Nat \ {0}
  BY <1>1 DEF WellFormed
<1>3. \A p \in 1..Len(f) : f[p] \in Piece
  BY <1>2, ElementOfSeq
<1>4. \A p \in 1..Len(f) :
        /\ f[p].kind \in Kinds /\ f[p].mem \in Nat /\ f[p].uoff \in Nat
        /\ f[p].usize \in Nat /\ f[p].reach \in Nat
  BY <1>3 DEF Piece
<1>5. Total(f) = f[Len(f)].uoff
  <2>1. f[Len(f)].usize = 0
    BY <1>1, <1>2 DEF WellFormed
  <2> QED
    BY <2>1, <1>2, <1>4 DEF Total
<1>6. ASSUME NEW p \in 1..Len(f)
      PROVE  f[p].uoff + f[p].usize <= Total(f)
  <2>1. p < Len(f) \/ p = Len(f)
    BY <1>2
  <2>2. p < Len(f) => f[p].uoff + f[p].usize <= f[Len(f)].uoff
    BY <1>1, <1>2 DEF WellFormed
  <2> QED
    BY <2>1, <2>2, <1>4, <1>5 DEF Total
<1> QED
  BY <1>2, <1>4, <1>5, <1>6

(* What the format says of one piece, of neighbours, and of any two.       *)
LEMMA PieceFacts ==
  ASSUME NEW f \in Files, NEW p \in 1..Len(f)
  PROVE  /\ f[p].usize <= Longest
         /\ f[p].kind \in {"header", "footer", "cut"} => f[p].usize = 0
         /\ f[p].kind = "cut" => p = Len(f)
         /\ f[p].uoff - f[p].reach \in 0..WindowSize
         /\ \E h \in 1..p : /\ f[h].kind = "header" /\ f[h].mem = f[p].mem
                           /\ f[h].uoff <= f[p].reach
<1>1. WellFormed(f)
  BY GzipAssumption
<1> QED
  BY <1>1 DEF WellFormed

LEMMA NextFacts ==
  ASSUME NEW f \in Files, NEW p \in 1..(Len(f) - 1)
  PROVE  /\ f[p + 1].uoff = f[p].uoff + f[p].usize
         /\ f[p].kind = "footer" <=> f[p + 1].kind = "header"
         /\ f[p].kind # "footer" => f[p + 1].mem = f[p].mem
<1>1. WellFormed(f)
  BY GzipAssumption
<1> QED
  BY <1>1 DEF WellFormed

LEMMA OrderFacts ==
  ASSUME NEW f \in Files, NEW p \in 1..Len(f), NEW q \in 1..Len(f), p < q
  PROVE  /\ f[p].uoff + f[p].usize <= f[q].uoff
         /\ f[p].mem <= f[q].mem
         /\ f[p].mem = f[q].mem => f[p].kind # "footer" /\ f[q].kind # "header"
<1>1. WellFormed(f)
  BY GzipAssumption
<1> QED
  BY <1>1 DEF WellFormed

(* A number that fits is not cut.                                          *)
LEMMA FitsUSize ==
  ASSUME NEW x \in Nat, NEW n \in Nat, x < n
  PROVE  x % n = x
OBVIOUS

(* SetLastBlockSize, when the next entry or the end is at piece p.         *)
LEMMA SizeLast ==
  ASSUME NEW f \in Files, NEW list, NEW last \in Nat, NEW p \in 1..Len(f),
         ListOK(f, list, last), list # <<>>,
         last <= f[p].uoff, f[p].uoff - last <= Limit,
         Sound(f) => LastOK(f, list, p)
  PROVE  LET s == SetLastBlockSize(list, f[p].uoff)
             n == Len(list)
         IN  /\ s \in Seq(Entry) /\ Len(s) = n /\ n \in Nat \ {0}
             /\ \A k \in 1..(n - 1) : s[k] = list[k]
             /\ s[n] = [list[n] EXCEPT !.usize = f[p].uoff - last]
             /\ EntryOK(f, s[n]) /\ s[n].usize <= Limit
             /\ s[n].uoff + s[n].usize = f[p].uoff
             /\ Sound(f) => DecodesIn(f, s[n])
<1> DEFINE s == SetLastBlockSize(list, f[p].uoff)
           n == Len(list)
           e == [list[n] EXCEPT !.usize = f[p].uoff - last]
<1>1. list \in Seq(Entry) /\ n \in Nat \ {0}
  BY DEF ListOK
<1>2. list[n] \in Entry /\ list[n].uoff = last /\ EntryOK(f, list[n])
  BY <1>1, ElementOfSeq DEF ListOK
<1>3. /\ f[p].uoff \in Nat /\ f[p].uoff <= Total(f) /\ Total(f) \in Nat
      /\ f[p].uoff - last \in Nat
  <2>1. f[p].uoff \in Nat /\ f[p].usize \in Nat /\ f[p].uoff + f[p].usize <= Total(f)
    BY FileFacts
  <2>2. Total(f) \in Nat
    BY FileFacts
  <2> QED
    BY <2>1, <2>2
<1>4. (f[p].uoff - list[n].uoff) % USizeLimit = f[p].uoff - last
  <2>1. f[p].uoff - last < USizeLimit /\ USizeLimit \in Nat
    BY <1>3, GzipAssumption DEF Limit
  <2> QED
    BY <2>1, <1>2, <1>3, FitsUSize
<1>5. s = [list EXCEPT ![n] = e]
  BY <1>4 DEF SetLastBlockSize
<1>6. e \in Entry /\ e.usize = f[p].uoff - last /\ e.uoff = last
      /\ e.coff = list[n].coff /\ e.dict = list[n].dict
  BY <1>2, <1>3 DEF Entry
<1>7. s \in Seq(Entry) /\ Len(s) = n /\ s[n] = e /\ \A k \in 1..(n - 1) : s[k] = list[k]
  BY <1>1, <1>5, <1>6
<1>8. EntryOK(f, e)
  BY <1>2, <1>6 DEF EntryOK
<1>9. ASSUME Sound(f)
      PROVE  DecodesIn(f, e)
  <2>1. ASSUME NEW q \in e.coff..Len(f), f[q].uoff < e.uoff + e.usize
        PROVE  f[q].kind = "block" /\ f[q].reach >= e.dict
    <3>1. e.coff \in 1..Len(f) /\ Len(f) \in Nat
      BY <1>8, FileFacts DEF EntryOK
    <3>2. q \in 1..Len(f) /\ f[q].uoff < f[p].uoff
      BY <2>1, <3>1, <1>3, <1>6, SMTT(60)
    <3>3. ~(p < q)
      <4>1. SUFFICES ASSUME p < q PROVE FALSE
        OBVIOUS
      <4>2. f[p].uoff + f[p].usize <= f[q].uoff
        BY <4>1, <3>2, <1>3, OrderFacts
      <4>3. f[p].usize \in Nat /\ f[q].uoff \in Nat /\ f[p].uoff \in Nat
        BY <3>2, <1>3, FileFacts
      <4> DEFINE here == f[p].uoff
                 size == f[p].usize
                 there == f[q].uoff
      <4>4. here + size <= there /\ size \in Nat /\ there \in Nat /\ here \in Nat /\ there < here
        BY <4>2, <4>3, <3>2
      <4> HIDE DEF here, size, there
      <4> QED
        BY <4>4
    <3>4. q # p
      BY <3>2, <1>3
    <3>5. q \in list[n].coff..(p - 1)
      BY <3>1, <3>3, <3>4, <1>6
    <3>6. f[q].kind = "block" /\ f[q].mem = f[list[n].coff].mem
      BY <1>9, <3>2, <3>5 DEF LastOK
    <3> QED
      BY <3>6, <1>8, <1>6 DEF EntryOK, Enclosed
  <2> QED
    BY <2>1, <1>3, <1>6, <1>8, SMTT(60) DEF DecodesIn, EntryOK
<1> QED
  BY <1>1, <1>3, <1>6, <1>7, <1>8, <1>9

(* AddBlock at the decoder's place keeps the list, and the next piece may  *)
(* then be passed.                                                         *)
LEMMA AddEntry ==
  ASSUME NEW f \in Files, NEW list, NEW last \in Nat, NEW r, NEW d \in Nat,
         DecoderOK(f, r), ListOK(f, list, last), last <= OPos(r),
         Triable(f, list, last, r), Sound(f) => LastOK(f, list, r.at),
         Enclosed(f, r.at, d)
  PROVE  LET new == AddBlock(list, OPos(r), r.at, d)
         IN  /\ ListOK(f, new, OPos(r))
             /\ Sound(f) => LastOK(f, new, r.at) /\ Opened(f, new, r.at)
             /\ Passable(f, new, OPos(r), r)
             /\ new # <<>> /\ new[Len(new)].coff = r.at
<1> DEFINE p == r.at
           u == OPos(r)
           s == SetLastBlockSize(list, u)
           e == [usize |-> 0, uoff |-> u, coff |-> p, dict |-> d]
           new == AddBlock(list, u, p, d)
           n == Len(list)
<1>1. p \in 1..Len(f) /\ u = f[p].uoff /\ u \in Nat /\ Len(f) \in Nat \ {0}
  BY FileFacts DEF DecoderOK
<1>2. list \in Seq(Entry)
  BY DEF ListOK
<1>3. /\ s \in Seq(Entry) /\ Len(s) = n /\ n \in Nat
      /\ \A k \in 1..(n - 1) : s[k] = list[k]
      /\ list # <<>> =>
          /\ n \in Nat \ {0}
          /\ EntryOK(f, s[n]) /\ s[n].usize <= Limit
          /\ s[n].uoff = list[n].uoff /\ s[n].coff = list[n].coff
          /\ s[n].uoff + s[n].usize = u
          /\ Sound(f) => DecodesIn(f, s[n])
  <2>1. CASE list = <<>>
    BY <2>1, <1>2 DEF SetLastBlockSize
  <2>2. CASE list # <<>>
    <3>1. u - last <= Limit
      BY DEF Triable
    <3>2. /\ s \in Seq(Entry) /\ Len(s) = n /\ n \in Nat \ {0}
          /\ \A k \in 1..(n - 1) : s[k] = list[k]
          /\ s[n] = [list[n] EXCEPT !.usize = u - last]
          /\ EntryOK(f, s[n]) /\ s[n].usize <= Limit
          /\ s[n].uoff + s[n].usize = u
          /\ Sound(f) => DecodesIn(f, s[n])
      BY <2>2, <1>1, <3>1, SizeLast, SMTT(60)
    <3>3. list[n] \in Entry
      BY <1>2, <3>2, ElementOfSeq
    <3>4. s[n].uoff = list[n].uoff /\ s[n].coff = list[n].coff
      BY <3>2, <3>3 DEF Entry
    <3> QED
      BY <3>2, <3>4
  <2> QED
    BY <2>1, <2>2
<1>4. e \in Entry
  BY <1>1 DEF Entry
<1>5. /\ new \in Seq(Entry) /\ Len(new) = n + 1 /\ new[n + 1] = e /\ new # <<>>
      /\ \A k \in 1..n : new[k] = s[k]
  <2>1. new = Append(s, e)
    BY DEF AddBlock
  <2> QED
    BY <2>1, <1>3, <1>4
<1>6. EntryOK(f, e)
  BY <1>1 DEF EntryOK
<1>7. Limit \in Nat
  BY GzipAssumption DEF Limit
<1>8. ListOK(f, new, u)
  <2>1. \A k \in 1..Len(new) : EntryOK(f, new[k]) /\ new[k].usize <= Limit
    <3> SUFFICES ASSUME NEW k \in 1..(n + 1)
                 PROVE  EntryOK(f, new[k]) /\ new[k].usize <= Limit
      BY <1>5
    <3>1. CASE k = n + 1
      BY <3>1, <1>5, <1>6, <1>7
    <3>2. CASE k = n
      <4>1. list # <<>>
        BY <3>2, <1>2
      <4> QED
        BY <4>1, <3>2, <1>3, <1>5
    <3>3. CASE k \in 1..(n - 1)
      BY <3>3, <1>3, <1>5 DEF ListOK
    <3> QED
      BY <3>1, <3>2, <3>3, <1>3
  <2>2. ASSUME NEW k \in 1..n
        PROVE  /\ new[k].uoff + new[k].usize = new[k + 1].uoff
               /\ new[k].coff < new[k + 1].coff
               /\ Sound(f) => DecodesIn(f, new[k])
    <3>1. list # <<>>
      BY <1>2, <1>3
    <3>2. CASE k = n
      <4>1. new[k] = s[n] /\ new[k + 1] = e
        BY <3>2, <1>5
      <4>2. list[n].coff < p
        BY <3>1 DEF Triable
      <4> QED
        BY <3>1, <4>1, <4>2, <1>3
    <3>3. CASE k \in 1..(n - 1)
      <4>1. /\ list[k].uoff + list[k].usize = list[k + 1].uoff
            /\ list[k].coff < list[k + 1].coff
            /\ Sound(f) => DecodesIn(f, list[k])
        BY <3>3 DEF ListOK
      <4>2. new[k] = list[k] /\ k + 1 \in 1..n
        BY <3>3, <1>3, <1>5
      <4>3. new[k + 1].uoff = list[k + 1].uoff /\ new[k + 1].coff = list[k + 1].coff
        <5>1. k + 1 = n \/ k + 1 \in 1..(n - 1)
          BY <4>2
        <5> QED
          BY <5>1, <4>2, <3>1, <1>3, <1>5
      <4> QED
        BY <4>1, <4>2, <4>3
    <3> QED
      BY <3>2, <3>3, <1>3
  <2>3. Sound(f) => new[1].uoff = 0
    <3>1. CASE list = <<>>
      BY <3>1, <1>1, <1>5 DEF LastOK
    <3>2. CASE list # <<>>
      <4>1. n = 1 \/ 1 \in 1..(n - 1)
        BY <3>2, <1>3
      <4>2. Sound(f) => list[1].uoff = 0
        BY <3>2 DEF ListOK
      <4> QED
        BY <3>2, <4>1, <4>2, <1>3, <1>5
    <3> QED
      BY <3>1, <3>2
  <2> QED
    BY <2>1, <2>2, <2>3, <1>3, <1>5 DEF ListOK
<1>9. Sound(f) => LastOK(f, new, p) /\ Opened(f, new, p)
  <2>1. Within(f, new, p)
    BY <1>1, <1>5, <1>3 DEF Within
  <2> QED
    BY <2>1, <1>1, <1>3, <1>5 DEF LastOK, Opened, Within
<1>10. Passable(f, new, u, r)
  <2>1. f[p].usize \in Nat /\ f[p].usize <= Longest /\ Longest \in Nat /\ MinBlock \in Nat
    BY <1>1, FileFacts, GzipAssumption DEF WellFormed
  <2>2. ASSUME Sound(f), f[p].usize > 0
        PROVE  Within(f, new, p + 1)
    <3>1. f[p].kind = "block"
      <4>1. f[p].kind \in Kinds /\ f[p].kind \notin {"damaged", "cut"}
        BY <2>2, <1>1, FileFacts DEF Sound
      <4>2. f[p].kind \notin {"header", "footer", "cut"}
        BY <2>2, <1>1, PieceFacts
      <4> QED
        BY <4>1, <4>2 DEF Kinds
    <3> QED
      BY <3>1, <1>1, <1>3, <1>5 DEF Within
  <2> QED
    BY <2>1, <2>2, <1>1, <1>3, <1>5, SMTT(60) DEF Passable, Limit
<1> QED
  BY <1>3, <1>5, <1>8, <1>9, <1>10

(* The decoder passes a piece that is no footer: what the last entry       *)
(* stands for grows, and the next trial may begin.                         *)
LEMMA PassPiece ==
  ASSUME NEW f \in Files, NEW list, NEW last \in Nat, NEW r, NEW r2,
         DecoderOK(f, r), ListOK(f, list, last), last <= OPos(r),
         Sound(f) => LastOK(f, list, r.at) /\ Opened(f, list, r.at),
         Passable(f, list, last, r),
         r.at < Len(f), r2.at = r.at + 1, OPos(r2) = OPos(r) + f[r.at].usize
  PROVE  /\ last <= OPos(r2) /\ OPos(r2) = f[r2.at].uoff
         /\ Sound(f) => LastOK(f, list, r2.at) /\ Opened(f, list, r2.at)
         /\ Triable(f, list, last, r2)
<1> DEFINE p == r.at
           n == Len(list)
<1>1. /\ p \in 1..Len(f) /\ p + 1 \in 1..Len(f) /\ Len(f) \in Nat
      /\ OPos(r) = f[p].uoff
      /\ f[p].uoff \in Nat /\ f[p].usize \in Nat
  BY FileFacts DEF DecoderOK
<1>2. f[p + 1].uoff = f[p].uoff + f[p].usize
  <2>1. p \in 1..(Len(f) - 1)
    BY <1>1
  <2> QED
    BY <2>1, NextFacts
<1>3. list # <<>> => n \in Nat \ {0} /\ list[n].coff \in 1..p /\ list[n].coff \in 1..Len(f)
  BY <1>1 DEF ListOK, EntryOK, Passable
<1>4. Triable(f, list, last, r2)
  <2>1. OPos(r2) - last <= Limit
    <3>1. OPos(r) + f[r.at].usize - last <= Limit
      BY DEF Passable
    <3> DEFINE here == OPos(r)
               size == f[r.at].usize
               there == OPos(r2)
    <3>2. there = here + size /\ here \in Nat /\ size \in Nat
      BY <1>1
    <3>3. Limit \in Nat
      BY GzipAssumption DEF Limit
    <3> HIDE DEF here, size, there
    <3>4. there - last <= Limit
      BY <3>1, <3>2, <3>3, SMTT(60) DEF here, size
    <3> QED
      BY <3>4 DEF there
  <2>2. list # <<>> => list[n].coff < r2.at
    BY <1>1, <1>3, SMTT(60)
  <2> QED
    BY <2>1, <2>2 DEF Triable
<1>5. ASSUME Sound(f), f[p].usize > 0
      PROVE  LastOK(f, list, p + 1) /\ Opened(f, list, p + 1)
  <2>1. Within(f, list, p + 1)
    BY <1>5 DEF Passable
  <2> QED
    BY <2>1, <1>1 DEF LastOK, Opened, Within
<1>6. ASSUME Sound(f), f[p].usize = 0
      PROVE  LastOK(f, list, p + 1)
  <2>1. f[p + 1].uoff = f[p].uoff
    BY <1>1, <1>2, <1>6
  <2>2. LastOK(f, list, p)
    BY <1>6
  <2>3. list = <<>> => f[p + 1].uoff = 0
    BY <2>1, <2>2 DEF LastOK
  <2>4. ASSUME list # <<>>, NEW q \in list[n].coff..p, f[q].uoff < f[p].uoff
        PROVE  f[q].kind = "block" /\ f[q].mem = f[list[n].coff].mem
    <3>1. q # p
      BY <2>4, <1>1
    <3>2. q \in list[n].coff..(p - 1)
      BY <2>4, <3>1, <1>1, <1>3
    <3> QED
      BY <2>2, <2>4, <3>2 DEF LastOK
  <2> QED
    BY <2>1, <2>3, <2>4, <1>1 DEF LastOK
<1>7. ASSUME Sound(f), f[p].usize = 0
      PROVE  Opened(f, list, p + 1)
  <2> SUFFICES ASSUME NEW h \in 1..(p + 1), f[h].kind = "header", f[h].mem = f[p + 1].mem,
                      f[h].uoff < f[p + 1].uoff
               PROVE  Within(f, list, p + 1)
    BY DEF Opened
  <2>1. f[h].uoff < f[p].uoff /\ h # p + 1 /\ h # p
    BY <1>1, <1>2, <1>7
  <2>2. h \in 1..p /\ h < p
    BY <2>1, <1>1
  <2>3. f[p + 1].kind # "header" /\ f[p].kind # "footer"
    <3>1. h \in 1..Len(f) /\ h < p + 1
      BY <2>2, <1>1
    <3>2. f[p + 1].kind # "header"
      BY <3>1, <1>1, OrderFacts
    <3>3. f[p].kind = "footer" <=> f[p + 1].kind = "header"
      <4>1. p \in 1..(Len(f) - 1)
        BY <1>1
      <4> QED
        BY <4>1, NextFacts
    <3> QED
      BY <3>2, <3>3
  <2>4. f[p + 1].mem = f[p].mem
    <3>1. p \in 1..(Len(f) - 1)
      BY <1>1
    <3> QED
      BY <3>1, <2>3, NextFacts
  <2>5. Within(f, list, p)
    BY <1>7, <2>1, <2>2, <2>4 DEF Opened
  <2>6. list # <<>> /\ list[n].coff \in 1..p
    BY <2>5, <1>3 DEF Within
  <2>7. f[p].kind = "block"
    <3>1. f[p].kind # "header"
      <4>1. h \in 1..Len(f) /\ h < p
        BY <2>2, <1>1
      <4> QED
        BY <4>1, <2>4, <1>1, OrderFacts
    <3>2. f[p].kind \notin {"damaged", "cut"} /\ f[p].kind \in Kinds
      BY <1>1, <1>7, FileFacts DEF Sound
    <3> QED
      BY <3>1, <3>2, <2>3 DEF Kinds
  <2>8. f[p].mem = f[list[n].coff].mem
    <3>1. CASE list[n].coff = p
      BY <3>1
    <3>2. CASE list[n].coff # p
      <4>1. p - 1 \in list[n].coff..(p - 1) /\ p - 1 \in 1..(Len(f) - 1)
        <5> DEFINE c == list[n].coff
        <5>1. c \in 1..p /\ c # p /\ p \in 1..Len(f) /\ p + 1 \in 1..Len(f) /\ Len(f) \in Nat
          BY <3>2, <2>6, <1>1
        <5> HIDE DEF c, p
        <5>2. p - 1 \in c..(p - 1) /\ p - 1 \in 1..(Len(f) - 1)
          BY <5>1
        <5> QED
          BY <5>2 DEF c
      <4>2. f[p - 1].kind = "block" /\ f[p - 1].mem = f[list[n].coff].mem
        BY <4>1, <2>5 DEF Within
      <4>3. f[(p - 1) + 1].mem = f[p - 1].mem
        BY <4>1, <4>2, NextFacts
      <4>4. (p - 1) + 1 = p
        BY <1>1
      <4> QED
        BY <4>2, <4>3, <4>4
    <3> QED
      BY <3>1, <3>2
  <2> QED
    <3> SUFFICES ASSUME NEW q \in list[n].coff..p
                 PROVE  f[q].kind = "block" /\ f[q].mem = f[list[n].coff].mem
      BY <2>6, <1>1 DEF Within
    <3>1. q = p \/ q \in list[n].coff..(p - 1)
      BY <2>6, <1>1
    <3> QED
      BY <3>1, <2>5, <2>7, <2>8 DEF Within
<1> QED
  BY <1>1, <1>2, <1>4, <1>5, <1>6, <1>7

-----------------------------------------------------------------------------
(* A decoder that passes a header or a block.                              *)
LEMMA DecoderPasses ==
  ASSUME NEW f \in Files, NEW r, DecoderOK(f, r), f[r.at].kind \in {"header", "block"}
  PROVE  LET r2 == [r EXCEPT !.at = @ + 1, !.out = @ + f[r.at].usize]
         IN  /\ r.at < Len(f) /\ DecoderOK(f, r2)
             /\ r2.at = r.at + 1 /\ OPos(r2) = OPos(r) + f[r.at].usize
<1> DEFINE p == r.at
           r2 == [r EXCEPT !.at = @ + 1, !.out = @ + f[p].usize]
<1>1. /\ p \in 1..Len(f) /\ Len(f) \in Nat \ {0} /\ f[p].usize \in Nat
      /\ r \in Reader /\ OPos(r) = f[p].uoff
  BY FileFacts DEF DecoderOK
<1>2. p < Len(f)
  <2>1. p # Len(f)
    BY GzipAssumption DEF WellFormed
  <2> QED
    BY <2>1, <1>1
<1>3. /\ f[p + 1].uoff = f[p].uoff + f[p].usize
      /\ f[p + 1].kind # "header" /\ f[p + 1].mem = f[p].mem
  <2>1. p \in 1..(Len(f) - 1)
    BY <1>1, <1>2
  <2> QED
    BY <2>1, NextFacts
<1>4. /\ r2 \in Reader /\ r2.at = p + 1 /\ r2.out = r.out + f[p].usize
      /\ r2.init = r.init /\ r2.known = r.known /\ r2.wrap = r.wrap /\ r2.astray = r.astray
      /\ r.init \in Nat /\ r.out \in Nat /\ WindowSize \in Nat
  <2>1. r.at + 1 \in Nat /\ r.out + f[p].usize \in Nat /\ r.init \in Nat /\ r.out \in Nat
    BY <1>1 DEF Reader
  <2>2. r2 \in Reader
    BY <2>1, <1>1, Zenon DEF Reader
  <2>3. /\ r2.at = p + 1 /\ r2.out = r.out + f[p].usize
        /\ r2.init = r.init /\ r2.known = r.known /\ r2.wrap = r.wrap
    BY <1>1 DEF Reader
  <2>4. r2.astray = r.astray
    BY <1>1 DEF Reader
  <2> QED
    BY <2>1, <2>2, <2>3, <2>4, GzipAssumption
<1>5. OPos(r2) = OPos(r) + f[p].usize
  BY <1>1, <1>4 DEF OPos
<1>6. Enclosed(f, p + 1, r2.known)
  BY <1>1, <1>3, <1>4 DEF DecoderOK, Enclosed
<1>7. \A q \in 1..p : f[q].kind \notin {"damaged", "cut"}
  BY <1>1 DEF DecoderOK
<1>8. r2.init = 0 \/ r2.out > WindowSize
  BY <1>1, <1>4 DEF DecoderOK
<1>9. ~r2.astray /\ r2.at \in 1..Len(f)
  BY <1>1, <1>2, <1>4 DEF DecoderOK
<1> QED
  BY <1>1, <1>2, <1>3, <1>4, <1>5, <1>6, <1>7, <1>8, <1>9 DEF DecoderOK

(* A decoder that goes on with the next member.                            *)
LEMMA DecoderResets ==
  ASSUME NEW f \in Files, NEW r, DecoderOK(f, r), f[r.at].kind = "footer", r.at < Len(f)
  PROVE  LET r2 == [r EXCEPT !.at = @ + 1, !.wrap = "Gzip", !.known = OPos(r)]
         IN  DecoderOK(f, r2) /\ r2.at = r.at + 1 /\ OPos(r2) = OPos(r) + f[r.at].usize
<1> DEFINE p == r.at
           r2 == [r EXCEPT !.at = @ + 1, !.wrap = "Gzip", !.known = OPos(r)]
<1>1. /\ p \in 1..(Len(f) - 1) /\ p \in 1..Len(f) /\ p + 1 \in 1..Len(f) /\ Len(f) \in Nat
      /\ f[p].usize = 0 /\ r \in Reader /\ OPos(r) = f[p].uoff /\ f[p].uoff \in Nat
  BY FileFacts, PieceFacts, SMTT(60) DEF DecoderOK
<1>2. /\ f[p + 1].uoff = f[p].uoff /\ f[p + 1].kind = "header"
  BY <1>1, NextFacts
<1>3. /\ r2 \in Reader /\ r2.at = p + 1 /\ r2.out = r.out /\ r2.init = r.init
      /\ r2.known = OPos(r) /\ r2.wrap = "Gzip" /\ r2.astray = r.astray
  <2>1. r.at + 1 \in Nat /\ OPos(r) \in Nat
    BY <1>1
  <2>2. r2 \in Reader
    BY <2>1, <1>1, Zenon DEF Reader
  <2>3. /\ r2.at = p + 1 /\ r2.out = r.out /\ r2.init = r.init
        /\ r2.known = OPos(r) /\ r2.wrap = "Gzip"
    BY <1>1 DEF Reader
  <2>4. r2.astray = r.astray
    BY <1>1 DEF Reader
  <2> QED
    BY <2>2, <2>3, <2>4
<1>4. OPos(r2) = OPos(r)
  BY <1>3 DEF OPos
<1>5. Enclosed(f, p + 1, OPos(r))
  <2> SUFFICES ASSUME NEW q \in (p + 1)..Len(f), f[q].mem = f[p + 1].mem
               PROVE  f[q].reach >= OPos(r)
    BY DEF Enclosed
  <2>1. q \in 1..Len(f)
    BY <1>1
  <2>2. PICK h \in 1..q : /\ f[h].kind = "header" /\ f[h].mem = f[q].mem
                          /\ f[h].uoff <= f[q].reach
    BY <2>1, PieceFacts
  <2>3. h \in 1..Len(f)
    BY <2>1, <1>1
  <2>4. ~(h < p + 1)
    BY <2>2, <2>3, <1>1, <1>2, OrderFacts
  <2>5. ~(p + 1 < h)
    BY <2>2, <2>3, <1>1, <1>2, OrderFacts
  <2>6. h = p + 1
    BY <2>3, <2>4, <2>5, <1>1
  <2> QED
    BY <2>2, <2>6, <1>1, <1>2
<1>6. \A q \in 1..p : f[q].kind \notin {"damaged", "cut"}
  BY <1>1 DEF DecoderOK
<1>7. ~r2.astray /\ (r2.init = 0 \/ r2.out > WindowSize)
  BY <1>3 DEF DecoderOK
<1> QED
  BY <1>1, <1>2, <1>3, <1>4, <1>5, <1>6, <1>7 DEF DecoderOK

(* Behind a block longer than the window nothing refers to before it: the  *)
(* decoder of the trial is as good as the saved one.                       *)
LEMMA DecoderAdopted ==
  ASSUME NEW f \in Files, NEW s, NEW t,
         DecoderOK(f, s), t \in Reader, ~t.astray,
         t.at = s.at, t.out = 0, t.init = OPos(s), t.known = OPos(s),
         f[s.at].kind = "block", f[s.at].usize > WindowSize
  PROVE  LET r2 == [t EXCEPT !.at = @ + 1, !.out = @ + f[t.at].usize]
         IN  /\ s.at < Len(f) /\ DecoderOK(f, r2)
             /\ r2.at = s.at + 1 /\ OPos(r2) = OPos(s) + f[s.at].usize
<1> DEFINE p == s.at
           r2 == [t EXCEPT !.at = @ + 1, !.out = @ + f[t.at].usize]
           s2 == [s EXCEPT !.at = @ + 1, !.out = @ + f[s.at].usize]
<1>1. /\ s.at < Len(f) /\ DecoderOK(f, s2) /\ s2.at = p + 1 /\ OPos(s2) = OPos(s) + f[p].usize
  BY DecoderPasses
<1>2. /\ p \in 1..Len(f) /\ Len(f) \in Nat \ {0} /\ f[p].usize \in Nat
      /\ OPos(s) \in Nat /\ WindowSize \in Nat
  BY FileFacts, GzipAssumption DEF DecoderOK
<1>3. /\ r2 \in Reader /\ r2.at = p + 1 /\ r2.out = f[p].usize /\ r2.init = OPos(s)
      /\ r2.known = OPos(s) /\ ~r2.astray
  <2>1. t.at + 1 \in Nat /\ t.out + f[t.at].usize \in Nat
    BY <1>2
  <2>2. r2 \in Reader
    BY <2>1, Zenon DEF Reader
  <2>3. /\ r2.at = p + 1 /\ r2.out = f[p].usize /\ r2.init = OPos(s) /\ r2.known = OPos(s)
    BY <1>2 DEF Reader
  <2>4. ~r2.astray
    BY DEF Reader
  <2> QED
    BY <2>2, <2>3, <2>4
<1>4. OPos(r2) = OPos(s) + f[p].usize
  BY <1>2, <1>3 DEF OPos
<1>5. Enclosed(f, p + 1, OPos(s))
  <2> SUFFICES ASSUME NEW q \in (p + 1)..Len(f) PROVE f[q].reach >= OPos(s)
    BY DEF Enclosed
  <2>1. q \in 1..Len(f) /\ p < q
    BY <1>2
  <2>2. f[p].uoff + f[p].usize <= f[q].uoff /\ f[p].uoff = OPos(s)
    BY <2>1, <1>2, OrderFacts DEF DecoderOK
  <2>3. f[q].uoff - f[q].reach <= WindowSize /\ f[q].uoff \in Nat /\ f[q].reach \in Nat
    BY <2>1, <1>2, PieceFacts, FileFacts
  <2> DEFINE here == OPos(s)
             size == f[p].usize
             there == f[q].uoff
             reach == f[q].reach
  <2>4. /\ here \in Nat /\ size \in Nat /\ there \in Nat /\ reach \in Nat /\ WindowSize \in Nat
        /\ here + size <= there /\ there - reach <= WindowSize /\ size > WindowSize
    BY <2>2, <2>3, <1>2
  <2> HIDE DEF here, size, there, reach
  <2>5. reach >= here
    BY <2>4
  <2> QED
    BY <2>5 DEF reach, here
<1>6. f[p + 1].kind # "header"
  <2>1. p \in 1..(Len(f) - 1)
    BY <1>1, <1>2
  <2> QED
    BY <2>1, NextFacts
<1>7. /\ p + 1 \in 1..Len(f) /\ OPos(s2) = f[p + 1].uoff
      /\ \A q \in 1..p : f[q].kind \notin {"damaged", "cut"}
  BY <1>1, <1>2 DEF DecoderOK
<1> QED
  BY <1>1, <1>2, <1>3, <1>4, <1>5, <1>6, <1>7 DEF DecoderOK

(* How a trial starts.                                                     *)
LEMMA TrialStarts ==
  ASSUME file \in Files, NEW r, DecoderOK(file, r)
  PROVE  TrialOK(file, r, Trial(r), OPos(r), r.at, FALSE)
<1>1. OPos(r) \in Nat /\ r.at \in 1..Len(file) /\ Len(file) \in Nat /\ OPos(r) = file[r.at].uoff
  BY FileFacts DEF DecoderOK
<1> DEFINE t == Trial(r)
<1>2. t \in Reader
  BY <1>1 DEF Trial, Reader
<1>3. /\ t.at = r.at /\ t.wrap = "Raw" /\ t.init = OPos(r) /\ t.out = 0 /\ t.known = OPos(r)
      /\ t.astray <=> file[r.at].kind = "footer"
  BY DEF Trial
<1>4. OPos(t) = file[r.at].uoff
  BY <1>1, <1>3 DEF OPos
<1>5. t.at \in r.at..Len(file) /\ \A p \in r.at..(t.at - 1) : FALSE
  BY <1>1, <1>3
<1> HIDE DEF t
<1>6. TrialOK(file, r, t, OPos(r), r.at, FALSE)
  BY <1>1, <1>2, <1>3, <1>4, <1>5 DEF TrialOK
<1> QED
  BY <1>6 DEF t

(* What a decoder is after each answer of block().                         *)
LEMMA OkFacts ==
  ASSUME NEW r \in Reader, file[r.at].usize \in Nat
  PROVE  /\ Ok(r).err = "Z_OK"
         /\ Ok(r).rd = [r EXCEPT !.at = @ + 1, !.out = @ + file[r.at].usize]
         /\ Ok(r).rd \in Reader
         /\ Ok(r).rd.at = r.at + 1 /\ Ok(r).rd.out = r.out + file[r.at].usize
         /\ Ok(r).rd.init = r.init /\ Ok(r).rd.known = r.known /\ Ok(r).rd.wrap = r.wrap
         /\ Ok(r).rd.astray <=> r.astray
<1> DEFINE r2 == [r EXCEPT !.at = @ + 1, !.out = @ + file[r.at].usize]
<1>1. Ok(r).err = "Z_OK"
  BY DEF Ok
<1>2. Ok(r).rd = r2
  BY DEF Ok
<1>3. r.at + 1 \in Nat /\ r.out + file[r.at].usize \in Nat
  BY DEF Reader
<1>4. r2 \in Reader
  BY <1>3, Zenon DEF Reader
<1>5. /\ r2.at = r.at + 1 /\ r2.out = r.out + file[r.at].usize
      /\ r2.init = r.init /\ r2.known = r.known /\ r2.wrap = r.wrap
  BY DEF Reader
<1>6. r2.astray <=> r.astray
  BY DEF Reader
<1> QED
  BY <1>1, <1>2, <1>4, <1>5, <1>6, Zenon

LEMMA EndFacts ==
  ASSUME NEW r \in Reader
  PROVE  /\ End(r).err = "Z_STREAM_END"
         /\ End(r).rd.out = r.out /\ OPos(End(r).rd) = OPos(r)
         /\ SkipFooter(End(r).rd) = [r EXCEPT !.at = @ + 1]
<1> DEFINE r2 == [r EXCEPT !.at = @ + 1]
<1>1. r2.out = r.out /\ r2.init = r.init /\ r2.wrap = r.wrap
  BY DEF Reader
<1>2. CASE r.wrap = "Gzip"
  <2>1. End(r).err = "Z_STREAM_END" /\ End(r).rd = r2
    BY <1>2 DEF End
  <2> QED
    BY <1>1, <1>2, <2>1 DEF SkipFooter, OPos
<1>3. CASE r.wrap # "Gzip"
  <2>1. End(r).err = "Z_STREAM_END" /\ End(r).rd = r
    BY <1>3 DEF End
  <2> QED
    BY <1>3, <2>1 DEF SkipFooter, OPos
<1> QED
  BY <1>2, <1>3

(* What block() answers a decoder that counts, and one on trial.           *)
LEMMA MainBlock ==
  ASSUME file \in Files, NEW r, DecoderOK(file, r), NEW res \in Block(r)
  PROVE  \/ res = Ok(r) /\ file[r.at].kind \in {"header", "block"}
         \/ res = End(r) /\ file[r.at].kind = "footer"
         \/ res = Error(r) /\ (file[r.at].kind \in {"damaged", "cut"})
         \/ res = EOF(r)
<1>1. r.at \in 1..Len(file) /\ ~r.astray /\ Len(file) \in Nat
  BY FileFacts DEF DecoderOK
<1>2. file[r.at].kind \in Kinds
  BY <1>1, FileFacts
<1>3. file[r.at].kind = "header" => r.wrap = "Gzip"
  BY DEF DecoderOK
<1>4. file[r.at].kind = "block" => file[r.at].reach >= r.known
  BY <1>1 DEF DecoderOK, Enclosed
<1> QED
  BY <1>1, <1>2, <1>3, <1>4 DEF Block, Kinds

LEMMA TrialBlock ==
  ASSUME file \in Files, NEW s, NEW t, NEW u, NEW c, NEW back, DecoderOK(file, s),
         TrialOK(file, s, t, u, c, back), NEW res \in Block(t), ~t.astray
  PROVE  \/ /\ res = Ok(t) /\ file[t.at].kind = "block" /\ file[t.at].reach >= u
         \/ /\ res = End(t) /\ file[t.at].kind = "footer"
         \/ /\ res = Error(t)
            /\ \/ file[t.at].kind \in {"header", "damaged", "cut"}
               \/ file[t.at].kind = "block" /\ file[t.at].reach < u
         \/ res = EOF(t)
<1>1. t.at \in 1..Len(file) /\ t.wrap = "Raw" /\ t.known = u /\ u \in Nat
  BY FileFacts DEF TrialOK, DecoderOK
<1>2. file[t.at].kind \in Kinds /\ file[t.at].reach \in Nat
  BY <1>1, FileFacts
<1> QED
  BY <1>1, <1>2 DEF Block, Kinds

(* A trial that went well has seen, or left a window behind, everything    *)
(* that its member still refers to.                                        *)
LEMMA TrialEncloses ==
  ASSUME file \in Files, NEW s, NEW t, NEW u, NEW c, NEW back, DecoderOK(file, s),
         TrialOK(file, s, t, u, c, back), NEW res \in Block(t), Decoded(res), Enough(res)
  PROVE  Enclosed(file, c, u)
<1>1. /\ c \in 1..Len(file) /\ Len(file) \in Nat /\ u \in Nat /\ u = file[c].uoff
      /\ WindowSize \in Nat
  BY FileFacts, GzipAssumption DEF TrialOK, DecoderOK
<1> SUFFICES ASSUME NEW q \in c..Len(file),
                    file[q].kind = "block", file[q].mem = file[c].mem
             PROVE  file[q].reach >= u
  BY DEF Enclosed
<1>2. q \in 1..Len(file) /\ (c = q \/ c < q)
  BY <1>1
<1>3. CASE t.astray
  <2>1. file[c].kind = "footer"
    BY <1>3 DEF TrialOK
  <2> QED
    BY <2>1, <1>1, <1>2, OrderFacts
<1>4. CASE ~t.astray
  <2>1. /\ t.at \in c..Len(file) /\ t.at \in 1..Len(file) /\ OPos(t) = file[t.at].uoff
        /\ file[t.at].mem = file[c].mem
        /\ \A p \in c..(t.at - 1) : file[p].kind = "block" /\ file[p].reach >= u
        /\ t.init = u /\ t.out \in Nat
    <3>1. t \in Reader
      BY DEF TrialOK
    <3>2. t.out \in Nat
      BY <3>1 DEF Reader
    <3> QED
      BY <3>2, <1>1, <1>4, SMTT(60) DEF TrialOK
  <2>2. q < t.at => q \in c..(t.at - 1)
    BY <2>1
  <2>3. CASE res = Ok(t) /\ file[t.at].kind = "block" /\ file[t.at].reach >= u
    <3>1. res.rd.out = t.out + file[t.at].usize /\ res.err = "Z_OK"
      <4>1. t \in Reader
        BY DEF TrialOK
      <4>2. file[t.at].usize \in Nat
        BY <2>1, FileFacts
      <4> QED
        BY <4>1, <4>2, <2>3, OkFacts
    <3>2. t.out + file[t.at].usize > WindowSize
      BY <3>1 DEF Enough
    <3>3. CASE t.at < q
      <4>1. file[t.at].uoff + file[t.at].usize <= file[q].uoff
        BY <3>3, <2>1, <1>2, OrderFacts
      <4>2. /\ file[q].uoff - file[q].reach <= WindowSize
            /\ file[q].uoff \in Nat /\ file[q].reach \in Nat /\ file[t.at].usize \in Nat
        BY <1>2, <2>1, PieceFacts, FileFacts, SMTT(60)
      <4>3. file[t.at].uoff = u + t.out
        BY <2>1 DEF OPos
      <4>4. t.out \in Nat
        BY <2>1
      <4>5. file[q].uoff > u + WindowSize
        <5> DEFINE out == t.out
                   size == file[t.at].usize
                   here == file[t.at].uoff
                   there == file[q].uoff
        <5>1. /\ out \in Nat /\ size \in Nat /\ there \in Nat /\ u \in Nat /\ WindowSize \in Nat
              /\ here + size <= there /\ here = u + out /\ out + size > WindowSize
          BY <4>1, <4>2, <4>3, <4>4, <3>2, <1>1
        <5> HIDE DEF out, size, here, there
        <5>2. there > u + WindowSize
          BY <5>1
        <5> QED
          BY <5>2 DEF there
      <4> QED
        BY <4>2, <4>5, <1>1, SMTT(60)
    <3> QED
      BY <3>3, <2>1, <2>2, <2>3, <1>2
  <2>4. CASE file[t.at].kind = "footer"
    <3>1. ~(t.at < q)
      BY <2>1, <2>4, <1>2, OrderFacts
    <3>2. q # t.at
      BY <2>4
    <3> QED
      BY <3>1, <3>2, <2>1, <2>2, <1>2
  <2>5. res # EOF(t) /\ res # Error(t)
    BY DEF Decoded, EOF, Error
  <2> QED
    BY <2>3, <2>4, <2>5, <1>4, TrialBlock
<1> QED
  BY <1>3, <1>4

(* The window of a decoder that counts holds all that may be referred to.  *)
LEMMA WindowEncloses ==
  ASSUME NEW f \in Files, NEW r, DecoderOK(f, r)
  PROVE  CopyWindow(r) \in Nat /\ Enclosed(f, r.at, CopyWindow(r))
<1>1. /\ r.at \in 1..Len(f) /\ Len(f) \in Nat /\ OPos(r) = f[r.at].uoff /\ OPos(r) \in Nat
      /\ WindowSize \in Nat
  BY FileFacts, GzipAssumption DEF DecoderOK
<1>2. r.init \in Nat /\ r.out \in Nat
  BY DEF DecoderOK, Reader
<1>3. CASE r.out <= WindowSize
  <2>1. CopyWindow(r) = 0
    BY <1>1, <1>2, <1>3 DEF CopyWindow, DecoderOK
  <2>2. \A q \in r.at..Len(f) : f[q].reach \in Nat
    BY <1>1, FileFacts
  <2> QED
    BY <2>1, <2>2 DEF Enclosed
<1>4. CASE r.out > WindowSize
  <2>1. CopyWindow(r) = OPos(r) - WindowSize /\ CopyWindow(r) \in Nat
    BY <1>1, <1>2, <1>4 DEF CopyWindow, OPos
  <2>2. ASSUME NEW q \in r.at..Len(f)
        PROVE  f[q].reach >= OPos(r) - WindowSize
    <3>1. q \in 1..Len(f) /\ (r.at = q \/ r.at < q)
      BY <1>1
    <3>2. /\ f[q].uoff - f[q].reach <= WindowSize
          /\ f[q].uoff \in Nat /\ f[q].reach \in Nat /\ f[r.at].usize \in Nat
      BY <1>1, <3>1, PieceFacts, FileFacts, SMTT(60)
    <3>3. r.at < q => f[r.at].uoff + f[r.at].usize <= f[q].uoff
      BY <1>1, <3>1, OrderFacts
    <3> DEFINE here == f[r.at].uoff
               size == f[r.at].usize
               there == f[q].uoff
               reach == f[q].reach
    <3>4. /\ here \in Nat /\ size \in Nat /\ there \in Nat /\ reach \in Nat
          /\ there - reach <= WindowSize /\ OPos(r) = here
      BY <1>1, <3>2
    <3>5. here <= there
      <4>1. CASE r.at = q
        BY <4>1, <3>4
      <4>2. CASE r.at < q
        <5>1. here + size <= there
          BY <4>2, <3>3
        <5> HIDE DEF here, size, there
        <5> QED
          BY <5>1, <3>4
      <4> QED
        BY <3>1, <4>1, <4>2
    <3>6. reach >= here - WindowSize
      <4> HIDE DEF here, size, there, reach
      <4> QED
        BY <3>4, <3>5, <1>1
    <3> QED
      BY <3>4, <3>6
  <2> QED
    BY <2>1, <2>2 DEF Enclosed
<1> QED
  BY <1>1, <1>2, <1>3, <1>4

(* A trial that failed at a block with bytes of a sound file: something    *)
(* before it in its member has an entry.                                   *)
LEMMA FailedIsPassable ==
  ASSUME file \in Files, NEW s, NEW t, NEW u, NEW c, NEW back, NEW list, NEW last,
         DecoderOK(file, s), TrialOK(file, s, t, u, c, back), NEW res \in Block(t),
         res.err = "Z_DATA_ERROR", ListOK(file, list, last), Triable(file, list, last, s),
         Sound(file), Opened(file, list, s.at), file[c].usize > 0
  PROVE  Within(file, list, c + 1)
<1>1. /\ c \in 1..Len(file) /\ Len(file) \in Nat /\ u \in Nat /\ u = file[c].uoff /\ c = s.at
  BY FileFacts DEF TrialOK, DecoderOK
<1>2. file[c].kind = "block"
  <2>1. file[c].kind \in Kinds /\ file[c].kind \notin {"damaged", "cut"}
    BY <1>1, FileFacts DEF Sound
  <2>2. file[c].kind \notin {"header", "footer", "cut"}
    BY <1>1, FileFacts, PieceFacts
  <2> QED
    BY <2>1, <2>2 DEF Kinds
<1>3. ~t.astray
  BY <1>2 DEF TrialOK
<1>4. /\ t.at \in c..Len(file) /\ t.at \in 1..Len(file)
      /\ file[t.at].mem = file[c].mem
      /\ \A p \in c..(t.at - 1) : file[p].kind = "block"
  BY <1>1, <1>3 DEF TrialOK
<1>5. file[t.at].kind \notin {"damaged", "cut"}
  BY <1>4 DEF Sound
<1>6. file[t.at].kind # "header"
  <2>1. c < t.at => file[t.at].kind # "header"
    BY <1>1, <1>4, OrderFacts
  <2> QED
    BY <2>1, <1>1, <1>2, <1>4
<1>7. file[t.at].reach < u
  <2>1. res # Ok(t) /\ res # End(t) /\ res # EOF(t)
    BY DEF Ok, End, EOF
  <2> QED
    BY <2>1, <1>3, <1>5, <1>6, TrialBlock
<1>8. PICK h \in 1..t.at : /\ file[h].kind = "header" /\ file[h].mem = file[t.at].mem
                           /\ file[h].uoff <= file[t.at].reach
  BY <1>4, PieceFacts
<1>9. h \in 1..Len(file) /\ file[h].uoff \in Nat /\ file[t.at].reach \in Nat
  BY <1>1, <1>4, FileFacts
<1>10. ~(c < h)
  BY <1>1, <1>4, <1>8, <1>9, OrderFacts
<1>11. Within(file, list, c)
  <2>1. h \in 1..c /\ file[h].mem = file[c].mem /\ file[h].uoff < file[c].uoff
    BY <1>1, <1>4, <1>7, <1>8, <1>9, <1>10, SMTT(60)
  <2> QED
    BY <2>1, <1>1, <1>8 DEF Opened
<1> DEFINE l == list[Len(list)].coff
<1>12. list # <<>> /\ l \in 1..(c - 1)
  <2>1. list # <<>> /\ list \in Seq(Entry)
    BY <1>11 DEF Within, ListOK
  <2>2. Len(list) \in 1..Len(list)
    BY <2>1
  <2>3. l \in 1..Len(file)
    BY <2>2 DEF ListOK, EntryOK
  <2> QED
    BY <2>1, <2>3, <1>1 DEF Triable
<1>13. file[c].mem = file[l].mem
  <2>1. c - 1 \in l..(c - 1) /\ c - 1 \in 1..(Len(file) - 1)
    BY <1>1, <1>12
  <2>2. file[c - 1].kind = "block" /\ file[c - 1].mem = file[l].mem
    BY <2>1, <1>11 DEF Within
  <2>3. file[(c - 1) + 1].mem = file[c - 1].mem
    BY <2>1, <2>2, NextFacts
  <2> QED
    BY <2>2, <2>3, <1>1
<1>14. ASSUME NEW q \in l..c
       PROVE  file[q].kind = "block" /\ file[q].mem = file[l].mem
  <2>1. q = c \/ q \in l..(c - 1)
    BY <1>1, <1>12
  <2> QED
    BY <2>1, <1>2, <1>11, <1>13 DEF Within
<1> QED
  BY <1>1, <1>12, <1>14, SMTT(60) DEF Within

-----------------------------------------------------------------------------
(* The three ways in which an iteration of the loop ends: with a new trial,*)
(* with the saved decoder back in use, and with the file finished.         *)
LEMMA NewTrial ==
  ASSUME file \in Files, NEW here, NEW list, NEW last,
         DecoderOK(file, here), ListOK(file, list, last), last <= OPos(here),
         Sound(file) => LastOK(file, list, here.at) /\ Opened(file, list, here.at),
         Triable(file, list, last, here),
         file' = file, rd' = Trial(here), mSave' = here, uoff' = OPos(here), coff' = here.at,
         indep' = TRUE, backtrack' = FALSE, mBlocks' = list, lastIdx' = last, pc' = "scan"
  PROVE  Inv'
<1>1. TrialOK(file, here, Trial(here), OPos(here), here.at, FALSE)
  BY TrialStarts
<1>2. TrialOK(file', mSave', rd', uoff', coff', backtrack')
  BY <1>1
<1>3. Main' = here
  BY DEF Main
<1>4. ScanInv'
  BY <1>2, <1>3 DEF ScanInv
<1>5. DoneInv'
  BY DEF DoneInv
<1> QED
  BY <1>4, <1>5 DEF Inv

LEMMA BackAgain ==
  ASSUME file \in Files, NEW s, NEW list, NEW last,
         DecoderOK(file, s), ListOK(file, list, last), last <= OPos(s),
         Sound(file) => LastOK(file, list, s.at) /\ Opened(file, list, s.at),
         Passable(file, list, last, s), backtrack \in BOOLEAN,
         file' = file, rd' = s, indep' = FALSE, backtrack' = backtrack,
         mBlocks' = list, lastIdx' = last, pc' = "scan"
  PROVE  Inv'
<1>1. Main' = s
  BY DEF Main
<1>2. ScanInv'
  BY <1>1 DEF ScanInv
<1>3. DoneInv'
  BY DEF DoneInv
<1> QED
  BY <1>2, <1>3 DEF Inv

LEMMA FileFinished ==
  ASSUME file \in Files, DecoderOK(file, rd), ListOK(file, mBlocks, lastIdx),
         lastIdx <= OPos(rd), lastIdx \in Nat,
         Sound(file) => LastOK(file, mBlocks, rd.at),
         Passable(file, mBlocks, lastIdx, rd),
         rd.at = Len(file), file[rd.at].kind = "footer", backtrack \in BOOLEAN,
         file' = file, mBlocks' = SetLastBlockSize(mBlocks, OPos(rd)), lastIdx' = lastIdx,
         indep' = FALSE, backtrack' = backtrack, pc' = "done"
  PROVE  Inv'
<1> DEFINE p == rd.at
           n == Len(mBlocks)
           s == mBlocks'
<1>1. /\ p \in 1..Len(file) /\ Len(file) \in Nat \ {0} /\ OPos(rd) = file[p].uoff
      /\ file[p].uoff = Total(file) /\ file[p].uoff \in Nat /\ file[p].usize = 0
  BY FileFacts, PieceFacts DEF DecoderOK
<1>2. Sound(file)
  <2>1. ASSUME NEW q \in 1..Len(file)
        PROVE  file[q].kind \notin {"damaged", "cut"}
    <3>1. q = p \/ q \in 1..(p - 1)
      BY <1>1
    <3> QED
      BY <3>1 DEF DecoderOK
  <2> QED
    BY <2>1 DEF Sound
<1>3. CASE mBlocks = <<>>
  <2>1. s = <<>>
    BY <1>3 DEF SetLastBlockSize
  <2>2. ListOK(file, s, lastIdx)
    BY <2>1, <1>3
  <2>3. LastOK(file, s, Len(file))
    BY <2>1, <1>2, <1>3
  <2>4. DoneInv'
    BY <2>1, <2>3, <1>2 DEF DoneInv
  <2> QED
    BY <2>2, <2>4 DEF Inv, ScanInv
<1>4. CASE mBlocks # <<>>
  <2>1. OPos(rd) - lastIdx <= Limit
    BY <1>1 DEF Passable
  <2>2. /\ s \in Seq(Entry) /\ Len(s) = n /\ n \in Nat \ {0}
        /\ \A k \in 1..(n - 1) : s[k] = mBlocks[k]
        /\ s[n] = [mBlocks[n] EXCEPT !.usize = OPos(rd) - lastIdx]
        /\ EntryOK(file, s[n]) /\ s[n].usize <= Limit
        /\ s[n].uoff + s[n].usize = OPos(rd)
        /\ Sound(file) => DecodesIn(file, s[n])
    BY <1>1, <1>4, <2>1, SizeLast, SMTT(60)
  <2>3. mBlocks[n] \in Entry /\ mBlocks[n].uoff = lastIdx
    BY <2>2, <1>4, ElementOfSeq DEF ListOK
  <2>4. s[n].uoff = mBlocks[n].uoff /\ s[n].coff = mBlocks[n].coff
    BY <2>2, <2>3 DEF Entry
  <2>5. ASSUME NEW k \in 1..n
        PROVE  /\ EntryOK(file, s[k]) /\ s[k].usize <= Limit
               /\ s[k].uoff = mBlocks[k].uoff /\ s[k].coff = mBlocks[k].coff
    <3>1. k = n \/ k \in 1..(n - 1)
      BY <2>2
    <3> QED
      BY <3>1, <2>2, <2>4 DEF ListOK
  <2>6. ASSUME NEW k \in 1..(n - 1)
        PROVE  /\ s[k].uoff + s[k].usize = s[k + 1].uoff
               /\ s[k].coff < s[k + 1].coff
               /\ Sound(file) => DecodesIn(file, s[k])
    <3>1. k + 1 \in 1..n /\ s[k] = mBlocks[k]
      BY <2>2
    <3>2. s[k + 1].uoff = mBlocks[k + 1].uoff /\ s[k + 1].coff = mBlocks[k + 1].coff
      BY <3>1, <2>5
    <3> QED
      BY <3>1, <3>2 DEF ListOK
  <2>7. s # <<>> /\ s[1].uoff = 0
    <3>1. 1 \in 1..n
      BY <2>2
    <3> QED
      BY <3>1, <2>2, <2>5, <1>2, <1>4 DEF ListOK
  <2>8. ListOK(file, s, lastIdx)
    BY <2>2, <2>3, <2>4, <2>5, <2>6, <2>7 DEF ListOK
  <2>9. LastOK(file, s, Len(file))
    BY <2>2, <2>4, <2>7, <1>2, <1>4 DEF LastOK
  <2>10. lastIdx + s[n].usize = Total(file)
    BY <2>2, <2>3, <2>4, <1>1
  <2>11. DoneInv'
    BY <2>2, <2>9, <2>10, <1>2 DEF DoneInv
  <2> QED
    BY <2>8, <2>11 DEF Inv, ScanInv
<1> QED
  BY <1>3, <1>4

-----------------------------------------------------------------------------
(* What the invariant gives to the branches of the loop.                   *)
LEMMA BetweenTrials ==
  ASSUME Inv, pc = "scan", ~indep
  PROVE  /\ file \in Files /\ backtrack \in BOOLEAN /\ lastIdx \in Nat
         /\ DecoderOK(file, rd) /\ ListOK(file, mBlocks, lastIdx) /\ lastIdx <= OPos(rd)
         /\ Sound(file) => LastOK(file, mBlocks, rd.at) /\ Opened(file, mBlocks, rd.at)
         /\ Passable(file, mBlocks, lastIdx, rd)
<1>1. Main = rd
  BY DEF Main
<1>2. lastIdx \in Nat
  <2>1. CASE mBlocks = <<>>
    BY <2>1 DEF Inv, ListOK
  <2>2. CASE mBlocks # <<>>
    <3>1. mBlocks \in Seq(Entry) /\ mBlocks[Len(mBlocks)].uoff = lastIdx
      BY <2>2 DEF Inv, ListOK
    <3>2. mBlocks[Len(mBlocks)] \in Entry
      BY <3>1, <2>2, ElementOfSeq
    <3> QED
      BY <3>1, <3>2 DEF Entry
  <2> QED
    BY <2>1, <2>2
<1> QED
  BY <1>1, <1>2 DEF Inv, ScanInv

LEMMA OnTrial ==
  ASSUME Inv, pc = "scan", indep
  PROVE  /\ file \in Files /\ backtrack \in BOOLEAN /\ lastIdx \in Nat
         /\ DecoderOK(file, mSave) /\ ListOK(file, mBlocks, lastIdx) /\ lastIdx <= OPos(mSave)
         /\ Sound(file) => LastOK(file, mBlocks, mSave.at) /\ Opened(file, mBlocks, mSave.at)
         /\ Triable(file, mBlocks, lastIdx, mSave)
         /\ TrialOK(file, mSave, rd, uoff, coff, backtrack)
<1>1. Main = mSave
  BY DEF Main
<1>2. lastIdx \in Nat
  <2>1. CASE mBlocks = <<>>
    BY <2>1 DEF Inv, ListOK
  <2>2. CASE mBlocks # <<>>
    <3>1. mBlocks \in Seq(Entry) /\ mBlocks[Len(mBlocks)].uoff = lastIdx
      BY <2>2 DEF Inv, ListOK
    <3>2. mBlocks[Len(mBlocks)] \in Entry
      BY <3>1, <2>2, ElementOfSeq
    <3> QED
      BY <3>1, <3>2 DEF Entry
  <2> QED
    BY <2>1, <2>2
<1> QED
  BY <1>1, <1>2 DEF Inv, ScanInv

(* ~indep: the decoder passes a piece, ends a member or the file.          *)
LEMMA NextBlockKeeps ==
  ASSUME Inv, pc = "scan", NEW res \in Block(rd), NextBlock(res), file' = file
  PROVE  Inv'
<1>1. /\ file \in Files /\ backtrack \in BOOLEAN /\ lastIdx \in Nat
      /\ DecoderOK(file, rd) /\ ListOK(file, mBlocks, lastIdx) /\ lastIdx <= OPos(rd)
      /\ Sound(file) => LastOK(file, mBlocks, rd.at) /\ Opened(file, mBlocks, rd.at)
      /\ Passable(file, mBlocks, lastIdx, rd)
  BY BetweenTrials DEF NextBlock
<1>2. GoOn(res, mBlocks) /\ lastIdx' = lastIdx /\ Decoded(res)
  BY DEF NextBlock
<1>3. /\ rd.at \in 1..Len(file) /\ Len(file) \in Nat /\ file[rd.at].usize \in Nat
      /\ rd \in Reader
  BY <1>1, FileFacts DEF DecoderOK
<1>4. CASE res = Ok(rd) /\ file[rd.at].kind \in {"header", "block"}
  <2> DEFINE here == [rd EXCEPT !.at = @ + 1, !.out = @ + file[rd.at].usize]
  <2>1. res.err = "Z_OK" /\ res.rd = here
    BY <1>3, <1>4, OkFacts
  <2>2. /\ rd.at < Len(file) /\ DecoderOK(file, here)
        /\ here.at = rd.at + 1 /\ OPos(here) = OPos(rd) + file[rd.at].usize
    BY <1>1, <1>4, DecoderPasses
  <2> HIDE DEF here
  <2>3. /\ lastIdx <= OPos(here)
        /\ Sound(file) => LastOK(file, mBlocks, here.at) /\ Opened(file, mBlocks, here.at)
        /\ Triable(file, mBlocks, lastIdx, here)
    BY <1>1, <2>2, PassPiece
  <2>4. /\ mSave' = here /\ rd' = Trial(here) /\ uoff' = OPos(here) /\ coff' = here.at
        /\ indep' = TRUE /\ backtrack' = FALSE /\ mBlocks' = mBlocks /\ pc' = "scan"
    BY <1>2, <2>1 DEF GoOn, Finishes
  <2> QED
    BY <1>1, <1>2, <2>2, <2>3, <2>4, NewTrial
<1>5. CASE res = End(rd) /\ file[rd.at].kind = "footer" /\ rd.at < Len(file)
  <2> DEFINE next == [rd EXCEPT !.at = @ + 1]
             here == [rd EXCEPT !.at = @ + 1, !.wrap = "Gzip", !.known = OPos(rd)]
  <2>1. res.err = "Z_STREAM_END" /\ SkipFooter(res.rd) = next
    BY <1>3, <1>5, EndFacts
  <2>2. next.at = rd.at + 1 /\ OPos(next) = OPos(rd)
    BY <1>3 DEF Reader, OPos
  <2>3. Reset(next) = here
    BY <2>2, <1>3 DEF Reset, Reader
  <2>4. ~Finishes(res)
    BY <2>1, <2>2, <1>3, <1>5 DEF Finishes
  <2>5. /\ DecoderOK(file, here)
        /\ here.at = rd.at + 1 /\ OPos(here) = OPos(rd) + file[rd.at].usize
    BY <1>1, <1>5, DecoderResets
  <2> HIDE DEF next, here
  <2>6. /\ lastIdx <= OPos(here)
        /\ Sound(file) => LastOK(file, mBlocks, here.at) /\ Opened(file, mBlocks, here.at)
        /\ Triable(file, mBlocks, lastIdx, here)
    BY <1>1, <1>5, <2>5, PassPiece
  <2>7. /\ mSave' = here /\ rd' = Trial(here) /\ uoff' = OPos(here) /\ coff' = here.at
        /\ indep' = TRUE /\ backtrack' = FALSE /\ mBlocks' = mBlocks /\ pc' = "scan"
    BY <1>2, <2>1, <2>3, <2>4 DEF GoOn
  <2> QED
    BY <1>1, <1>2, <2>5, <2>6, <2>7, NewTrial
<1>6. CASE res = End(rd) /\ file[rd.at].kind = "footer" /\ ~(rd.at < Len(file))
  <2> DEFINE next == [rd EXCEPT !.at = @ + 1]
  <2>1. /\ res.err = "Z_STREAM_END" /\ SkipFooter(res.rd) = next
        /\ OPos(res.rd) = OPos(rd)
    BY <1>3, <1>6, EndFacts
  <2>2. next.at = rd.at + 1
    BY <1>3 DEF Reader
  <2>3. rd.at = Len(file) /\ Finishes(res)
    BY <2>1, <2>2, <1>3, <1>6 DEF Finishes
  <2>4. /\ mBlocks' = SetLastBlockSize(mBlocks, OPos(rd)) /\ indep' = FALSE
        /\ backtrack' = backtrack /\ pc' = "done"
    BY <1>2, <2>1, <2>3 DEF GoOn
  <2> QED
    BY <1>1, <1>2, <1>6, <2>3, <2>4, FileFinished
<1>7. res # Error(rd) /\ res # EOF(rd)
  BY <1>2 DEF Decoded, Error, EOF
<1> QED
  BY <1>1, <1>4, <1>5, <1>6, <1>7, MainBlock

(* What a trial knows at every answer of block().                          *)
LEMMA TrialFacts ==
  ASSUME Inv, pc = "scan", indep
  PROVE  /\ rd \in Reader /\ rd.out \in Nat /\ rd.at \in 1..Len(file) /\ Len(file) \in Nat
         /\ uoff = OPos(mSave) /\ coff = mSave.at /\ uoff \in Nat /\ coff \in 1..Len(file)
         /\ uoff = file[coff].uoff /\ file[rd.at].usize \in Nat /\ WindowSize \in Nat
         /\ IF backtrack THEN rd.out \in 1..WindowSize ELSE rd.out = 0 /\ rd.at = coff
         /\ rd.astray <=> file[coff].kind = "footer"
<1>1. /\ file \in Files /\ DecoderOK(file, mSave)
      /\ TrialOK(file, mSave, rd, uoff, coff, backtrack)
  BY OnTrial
<1>2. /\ coff = mSave.at /\ uoff = OPos(mSave) /\ rd \in Reader
      /\ IF backtrack THEN rd.out \in 1..WindowSize ELSE rd.out = 0 /\ rd.at = coff
      /\ rd.astray <=> file[coff].kind = "footer"
  BY <1>1 DEF TrialOK
<1>3. coff \in 1..Len(file) /\ Len(file) \in Nat /\ uoff = file[coff].uoff /\ uoff \in Nat
  BY <1>1, <1>2, FileFacts DEF DecoderOK
<1>4. rd.at \in 1..Len(file)
  <2>1. CASE rd.astray
    BY <2>1, <1>1, <1>3 DEF TrialOK
  <2>2. CASE ~rd.astray
    BY <2>2, <1>1, <1>3 DEF TrialOK
  <2> QED
    BY <2>1, <2>2
<1>5. rd.out \in Nat
  BY <1>2 DEF Reader
<1>6. file[rd.at].usize \in Nat
  BY <1>1, <1>4, FileFacts
<1> QED
  BY <1>2, <1>3, <1>4, <1>5, <1>6, GzipAssumption

(* A trial whose first block fills the window has met a deflate block.     *)
LEMMA KeptTrial ==
  ASSUME Inv, pc = "scan", NEW res \in Block(rd), AddAndGoOn(res)
  PROVE  /\ ~rd.astray /\ res = Ok(rd) /\ file[rd.at].kind = "block"
         /\ res.err = "Z_OK" /\ res.rd = [rd EXCEPT !.at = @ + 1, !.out = @ + file[rd.at].usize]
         /\ file[coff].usize > WindowSize
<1> DEFINE here == [rd EXCEPT !.at = @ + 1, !.out = @ + file[rd.at].usize]
<1>1. indep /\ Decoded(res) /\ Enough(res) /\ ~backtrack
  BY DEF AddAndGoOn
<1>2. /\ file \in Files /\ DecoderOK(file, mSave)
      /\ TrialOK(file, mSave, rd, uoff, coff, backtrack)
  BY <1>1, OnTrial
<1>3. /\ rd \in Reader /\ rd.out = 0 /\ rd.at = coff /\ coff \in 1..Len(file)
      /\ file[rd.at].usize \in Nat /\ WindowSize \in Nat
      /\ rd.astray <=> file[coff].kind = "footer"
  BY <1>1, TrialFacts
<1>4. ~rd.astray
  <2> SUFFICES ASSUME rd.astray PROVE FALSE
    OBVIOUS
  <2>1. res \in Garbage(rd)
    BY DEF Block
  <2>2. \/ \E n \in 0..WindowSize : res = [err |-> "Z_OK", rd |-> [rd EXCEPT !.out = n]]
        \/ res = EOF(rd) \/ res = Error(rd)
    BY <2>1, <1>3 DEF Garbage
  <2>3. PICK n \in 0..WindowSize : res = [err |-> "Z_OK", rd |-> [rd EXCEPT !.out = n]]
    BY <2>2, <1>1 DEF Decoded, EOF, Error
  <2>4. res.err = "Z_OK" /\ res.rd.out = n
    BY <2>3, <1>3 DEF Reader
  <2> QED
    BY <2>4, <1>1, <1>3 DEF Enough
<1>5. res = Ok(rd) /\ file[rd.at].kind = "block"
  <2>1. res # Error(rd) /\ res # EOF(rd)
    BY <1>1 DEF Decoded, EOF, Error
  <2> QED
    BY <2>1, <1>2, <1>3, <1>4, TrialBlock
<1>6. res.err = "Z_OK" /\ res.rd = here /\ res.rd.out = file[rd.at].usize
  <2>1. res.err = "Z_OK" /\ res.rd = here /\ res.rd.out = rd.out + file[rd.at].usize
    BY <1>3, <1>5, OkFacts
  <2> HIDE DEF here
  <2> QED
    BY <2>1, <1>3, SMTT(60)
<1>7. file[coff].usize > WindowSize
  BY <1>1, <1>3, <1>6 DEF Enough
<1> QED
  BY <1>4, <1>5, <1>6, <1>7

(* The first block of a trial fills the window: its decoder is kept.       *)
LEMMA AddAndGoOnKeeps ==
  ASSUME Inv, pc = "scan", NEW res \in Block(rd), AddAndGoOn(res), file' = file
  PROVE  Inv'
<1> DEFINE new == AddBlock(mBlocks, uoff, coff, uoff)
           here == [rd EXCEPT !.at = @ + 1, !.out = @ + file[rd.at].usize]
<1>1. /\ indep /\ Decoded(res) /\ Enough(res) /\ ~backtrack
      /\ lastIdx' = uoff /\ GoOn(res, new)
  BY DEF AddAndGoOn
<1>2. /\ file \in Files /\ backtrack \in BOOLEAN /\ lastIdx \in Nat
      /\ DecoderOK(file, mSave) /\ ListOK(file, mBlocks, lastIdx) /\ lastIdx <= OPos(mSave)
      /\ Sound(file) => LastOK(file, mBlocks, mSave.at) /\ Opened(file, mBlocks, mSave.at)
      /\ Triable(file, mBlocks, lastIdx, mSave)
      /\ TrialOK(file, mSave, rd, uoff, coff, backtrack)
  BY <1>1, OnTrial
<1>3. /\ rd \in Reader /\ rd.out = 0 /\ rd.at = coff /\ coff \in 1..Len(file)
      /\ Len(file) \in Nat /\ uoff = OPos(mSave) /\ coff = mSave.at /\ uoff \in Nat
      /\ file[rd.at].usize \in Nat /\ WindowSize \in Nat
      /\ rd.astray <=> file[coff].kind = "footer"
  BY <1>1, TrialFacts
<1>4. ~rd.astray /\ file[rd.at].kind = "block" /\ file[coff].usize > WindowSize
  BY KeptTrial
<1>5. res.err = "Z_OK" /\ res.rd = here
  BY KeptTrial
<1>6. rd.init = OPos(mSave) /\ rd.known = OPos(mSave)
  BY <1>2, <1>3, SMTT(60) DEF TrialOK
<1>7. /\ mSave.at < Len(file) /\ DecoderOK(file, here)
      /\ here.at = mSave.at + 1 /\ OPos(here) = OPos(mSave) + file[mSave.at].usize
  <2>1. /\ rd \in Reader /\ ~rd.astray /\ rd.at = mSave.at /\ rd.out = 0
        /\ file[mSave.at].kind = "block" /\ file[mSave.at].usize > WindowSize
    BY <1>3, <1>4
  <2>3. file \in Files /\ DecoderOK(file, mSave)
    BY <1>2
  <2> HIDE DEF here
  <2>2. here = [rd EXCEPT !.at = @ + 1, !.out = @ + file[rd.at].usize]
    BY DEF here
  <2> QED
    BY <2>1, <2>2, <2>3, <1>6, DecoderAdopted
<1>8. Enclosed(file, coff, uoff)
  BY <1>1, <1>2, TrialEncloses
<1>9. /\ ListOK(file, new, uoff)
      /\ Sound(file) => LastOK(file, new, mSave.at) /\ Opened(file, new, mSave.at)
      /\ Passable(file, new, uoff, mSave)
  BY <1>2, <1>3, <1>8, AddEntry
<1> HIDE DEF new, here
<1>10. /\ uoff <= OPos(here)
       /\ Sound(file) => LastOK(file, new, here.at) /\ Opened(file, new, here.at)
       /\ Triable(file, new, uoff, here)
  <2>1. uoff \in Nat /\ uoff <= OPos(mSave)
    BY <1>3
  <2>2. file \in Files /\ DecoderOK(file, mSave)
    BY <1>2
  <2> QED
    BY <2>1, <2>2, <1>7, <1>9, PassPiece
<1>11. /\ mSave' = here /\ rd' = Trial(here) /\ uoff' = OPos(here) /\ coff' = here.at
       /\ indep' = TRUE /\ backtrack' = FALSE /\ mBlocks' = new /\ pc' = "scan"
  BY <1>1, <1>5 DEF GoOn, Finishes
<1>12. file \in Files /\ DecoderOK(file, here) /\ ListOK(file, new, uoff) /\ lastIdx' = uoff
  BY <1>1, <1>2, <1>7, <1>9
<1> QED
  BY <1>10, <1>11, <1>12, NewTrial

(* More blocks were needed: the entry is added and the trial undone.       *)
LEMMA AddAndRewindKeeps ==
  ASSUME Inv, pc = "scan", NEW res \in Block(rd), AddAndRewind(res), file' = file
  PROVE  Inv'
<1> DEFINE new == AddBlock(mBlocks, uoff, coff, uoff)
<1>1. /\ indep /\ Decoded(res) /\ Enough(res)
      /\ lastIdx' = uoff /\ mBlocks' = new /\ indep' = FALSE /\ rd' = mSave
      /\ backtrack' = backtrack /\ pc' = "scan"
  BY DEF AddAndRewind, Restore
<1>2. /\ file \in Files /\ backtrack \in BOOLEAN /\ lastIdx \in Nat
      /\ DecoderOK(file, mSave) /\ ListOK(file, mBlocks, lastIdx) /\ lastIdx <= OPos(mSave)
      /\ Sound(file) => LastOK(file, mBlocks, mSave.at) /\ Opened(file, mBlocks, mSave.at)
      /\ Triable(file, mBlocks, lastIdx, mSave)
      /\ TrialOK(file, mSave, rd, uoff, coff, backtrack)
  BY <1>1, OnTrial
<1>3. uoff = OPos(mSave) /\ coff = mSave.at /\ uoff \in Nat
  BY <1>1, TrialFacts
<1>4. Enclosed(file, coff, uoff)
  BY <1>1, <1>2, TrialEncloses
<1>5. /\ ListOK(file, new, uoff)
      /\ Sound(file) => LastOK(file, new, mSave.at) /\ Opened(file, new, mSave.at)
      /\ Passable(file, new, uoff, mSave)
  BY <1>2, <1>3, <1>4, AddEntry
<1>6. uoff <= OPos(mSave)
  BY <1>3
<1> HIDE DEF new
<1> QED
  BY <1>1, <1>2, <1>5, <1>6, BackAgain

(* The block is empty: the decoder that counts may pass it.                *)
LEMMA ZeroLengthKeeps ==
  ASSUME Inv, pc = "scan", NEW res \in Block(rd), ZeroLength(res), file' = file
  PROVE  Inv'
<1>1. /\ indep /\ Decoded(res) /\ ~Enough(res) /\ res.rd.out = 0
      /\ lastIdx' = lastIdx /\ mBlocks' = mBlocks /\ indep' = FALSE /\ rd' = mSave
      /\ backtrack' = backtrack /\ pc' = "scan"
  BY DEF ZeroLength, Restore
<1>2. /\ file \in Files /\ backtrack \in BOOLEAN /\ lastIdx \in Nat
      /\ DecoderOK(file, mSave) /\ ListOK(file, mBlocks, lastIdx) /\ lastIdx <= OPos(mSave)
      /\ Sound(file) => LastOK(file, mBlocks, mSave.at) /\ Opened(file, mBlocks, mSave.at)
      /\ Triable(file, mBlocks, lastIdx, mSave)
      /\ TrialOK(file, mSave, rd, uoff, coff, backtrack)
  BY <1>1, OnTrial
<1>3. /\ rd \in Reader /\ rd.out \in Nat /\ coff = mSave.at /\ coff \in 1..Len(file)
      /\ Len(file) \in Nat /\ file[rd.at].usize \in Nat
      /\ IF backtrack THEN rd.out \in 1..WindowSize ELSE rd.out = 0 /\ rd.at = coff
      /\ rd.astray <=> file[coff].kind = "footer"
      /\ uoff = OPos(mSave) /\ uoff \in Nat
  BY <1>1, TrialFacts
<1>4. file[coff].usize = 0
  <2>1. CASE rd.astray
    BY <2>1, <1>2, <1>3, PieceFacts
  <2>2. CASE ~rd.astray
    <3>1. res # Error(rd) /\ res # EOF(rd) /\ res # End(rd)
      BY <1>1 DEF Decoded, Enough, EOF, Error, End
    <3>2. res = Ok(rd)
      BY <3>1, <2>2, <1>2, TrialBlock
    <3>3. res.rd.out = rd.out + file[rd.at].usize
      BY <3>2, <1>3, OkFacts
    <3> QED
      BY <3>3, <1>1, <1>3, SMTT(60)
  <2> QED
    BY <2>1, <2>2
<1>5. Passable(file, mBlocks, lastIdx, mSave)
  <2>1. mBlocks # <<>> => mBlocks[Len(mBlocks)].coff \in Nat
    BY <1>2 DEF ListOK, EntryOK
  <2> QED
    BY <2>1, <1>2, <1>3, <1>4 DEF Passable, Triable
<1> QED
  BY <1>1, <1>2, <1>5, BackAgain

(* The trial goes on behind a block, or somewhere in a footer.             *)
LEMMA LookFurtherKeeps ==
  ASSUME Inv, pc = "scan", NEW res \in Block(rd), LookFurther(res), file' = file
  PROVE  Inv'
<1>1. /\ indep /\ Decoded(res) /\ ~Enough(res) /\ res.rd.out > 0
      /\ lastIdx' = lastIdx /\ mBlocks' = mBlocks /\ indep' = indep /\ rd' = res.rd
      /\ mSave' = mSave /\ uoff' = uoff /\ coff' = coff /\ backtrack' = TRUE /\ pc' = "scan"
  BY DEF LookFurther
<1>2. /\ file \in Files /\ DecoderOK(file, mSave)
      /\ TrialOK(file, mSave, rd, uoff, coff, backtrack)
  BY <1>1, OnTrial
<1>3. /\ rd \in Reader /\ rd.out \in Nat /\ rd.at \in 1..Len(file) /\ Len(file) \in Nat \ {0}
      /\ coff = mSave.at /\ coff \in 1..Len(file) /\ uoff = OPos(mSave) /\ uoff \in Nat
      /\ file[rd.at].usize \in Nat /\ WindowSize \in Nat
      /\ rd.astray <=> file[coff].kind = "footer"
  BY <1>1, <1>2, TrialFacts, FileFacts
<1>4. rd.wrap = "Raw" /\ rd.init = uoff /\ rd.known = uoff
  BY <1>2 DEF TrialOK
<1>5. ASSUME rd.astray
      PROVE  TrialOK(file, mSave, res.rd, uoff, coff, TRUE)
  <2>1. res \in Garbage(rd) /\ res # End(rd) /\ res # EOF(rd) /\ res # Error(rd)
    BY <1>1, <1>5 DEF Block, Decoded, Enough, EOF, Error, End
  <2>2. PICK n \in (IF rd.out = 0 THEN 0 ELSE rd.out + 1)..WindowSize :
              res = [err |-> "Z_OK", rd |-> [rd EXCEPT !.out = n]]
    BY <2>1 DEF Garbage
  <2> DEFINE t == [rd EXCEPT !.out = n]
  <2>3. res.rd = t /\ n \in Nat
    BY <2>2, <1>3
  <2>4. t \in Reader
    BY <2>3, <1>3, Zenon DEF Reader
  <2>5. t.at = rd.at /\ t.out = n /\ t.init = rd.init /\ t.known = rd.known /\ t.wrap = rd.wrap
    BY <1>3 DEF Reader
  <2>6. t.astray <=> rd.astray
    BY <1>3 DEF Reader
  <2> HIDE DEF t
  <2>7. t.out \in 1..WindowSize
    BY <2>2, <2>3, <2>5, <1>1, <1>3
  <2>8. t.at = coff
    BY <2>5, <1>2, <1>5 DEF TrialOK
  <2>9. TrialOK(file, mSave, t, uoff, coff, TRUE)
    BY <2>4, <2>5, <2>6, <2>7, <2>8, <1>3, <1>4, <1>5 DEF TrialOK
  <2> QED
    BY <2>3, <2>9
<1>6. ASSUME ~rd.astray
      PROVE  TrialOK(file, mSave, res.rd, uoff, coff, TRUE)
  <2>1. res # Error(rd) /\ res # EOF(rd) /\ res # End(rd)
    BY <1>1 DEF Decoded, Enough, EOF, Error, End
  <2>2. res = Ok(rd) /\ file[rd.at].kind = "block" /\ file[rd.at].reach >= uoff
    BY <2>1, <1>2, <1>6, TrialBlock
  <2> DEFINE t == Ok(rd).rd
  <2>3. /\ res.rd = t /\ t \in Reader /\ t.at = rd.at + 1
        /\ t.out = rd.out + file[rd.at].usize
        /\ t.init = rd.init /\ t.known = rd.known /\ t.wrap = rd.wrap
    BY <2>2, <1>3, OkFacts, ZenonT(60)
  <2>4. ~t.astray
    BY <1>3, <1>6, OkFacts
  <2> HIDE DEF t
  <2>5. t.out \in 1..WindowSize
    <3>1. ~(t.out > WindowSize) /\ t.out > 0
      BY <2>3, <1>1 DEF Enough
    <3>2. t.out \in Nat
      BY <2>3 DEF Reader
    <3> QED
      BY <3>1, <3>2, <1>3
  <2>6. /\ rd.at \in coff..Len(file) /\ OPos(rd) = file[rd.at].uoff
        /\ file[rd.at].mem = file[coff].mem
        /\ \A p \in coff..(rd.at - 1) : file[p].kind = "block" /\ file[p].reach >= uoff
    BY <1>2, <1>6 DEF TrialOK
  <2>7. rd.at \in 1..(Len(file) - 1)
    <3>1. rd.at # Len(file)
      BY <2>2, <1>2, GzipAssumption DEF WellFormed
    <3> QED
      BY <3>1, <1>3
  <2>8. /\ file[rd.at + 1].uoff = file[rd.at].uoff + file[rd.at].usize
        /\ file[rd.at + 1].mem = file[rd.at].mem
    BY <2>2, <2>7, <1>2, NextFacts
  <2>9. OPos(t) = file[t.at].uoff
    <3>1. OPos(t) = OPos(rd) + file[rd.at].usize
      BY <2>3, <1>3, <1>4 DEF OPos
    <3> QED
      BY <3>1, <2>3, <2>6, <2>8
  <2>10. \A p \in coff..(t.at - 1) : file[p].kind = "block" /\ file[p].reach >= uoff
    <3>1. \A p \in coff..(t.at - 1) : p = rd.at \/ p \in coff..(rd.at - 1)
      BY <2>3, <2>6, <1>3
    <3> QED
      BY <3>1, <2>2, <2>6
  <2>11. t.at \in coff..Len(file) /\ file[t.at].mem = file[coff].mem
    BY <2>3, <2>6, <2>7, <2>8, <1>3
  <2>12. file[coff].kind # "footer"
    BY <1>3, <1>6
  <2>13. TrialOK(file, mSave, t, uoff, coff, TRUE)
    BY <2>3, <2>4, <2>5, <2>9, <2>10, <2>11, <2>12, <1>3, <1>4 DEF TrialOK
  <2> QED
    BY <2>3, <2>13
<1>7. TrialOK(file, mSave, res.rd, uoff, coff, TRUE)
  BY <1>5, <1>6
<1>8. Main' = mSave /\ Main = mSave
  BY <1>1 DEF Main
<1>9. ScanInv'
  BY <1>1, <1>7, <1>8 DEF Inv, ScanInv
<1>10. DoneInv'
  BY <1>1 DEF DoneInv
<1> QED
  BY <1>1, <1>9, <1>10 DEF Inv

(* The trial fails: an entry with a dictionary, or none yet.               *)
LEMMA TrialFailedKeeps ==
  ASSUME Inv, pc = "scan", NEW res \in Block(rd), TrialFailed(res), file' = file
  PROVE  Inv'
<1>1. /\ indep /\ res.err = "Z_DATA_ERROR" /\ indep' = FALSE /\ rd' = mSave
      /\ backtrack' = backtrack /\ pc' = "scan"
  BY DEF TrialFailed, Restore
<1>2. /\ file \in Files /\ backtrack \in BOOLEAN /\ lastIdx \in Nat
      /\ DecoderOK(file, mSave) /\ ListOK(file, mBlocks, lastIdx) /\ lastIdx <= OPos(mSave)
      /\ Sound(file) => LastOK(file, mBlocks, mSave.at) /\ Opened(file, mBlocks, mSave.at)
      /\ Triable(file, mBlocks, lastIdx, mSave)
      /\ TrialOK(file, mSave, rd, uoff, coff, backtrack)
  BY <1>1, OnTrial
<1>3. /\ uoff = OPos(mSave) /\ coff = mSave.at /\ uoff \in Nat /\ coff \in 1..Len(file)
      /\ Len(file) \in Nat
  BY <1>1, TrialFacts
<1>4. CASE OPos(mSave) - lastIdx > MinBlock
  <2> DEFINE new == AddBlock(mBlocks, OPos(mSave), mSave.at, CopyWindow(mSave))
  <2>1. mBlocks' = new /\ lastIdx' = OPos(mSave)
    BY <1>4 DEF TrialFailed
  <2>2. CopyWindow(mSave) \in Nat /\ Enclosed(file, mSave.at, CopyWindow(mSave))
    BY <1>2, WindowEncloses
  <2>3. /\ ListOK(file, new, OPos(mSave))
        /\ Sound(file) => LastOK(file, new, mSave.at) /\ Opened(file, new, mSave.at)
        /\ Passable(file, new, OPos(mSave), mSave)
    BY <1>2, <2>2, AddEntry
  <2>4. OPos(mSave) <= OPos(mSave)
    BY <1>3
  <2> HIDE DEF new
  <2> QED
    BY <1>1, <1>2, <2>1, <2>3, <2>4, BackAgain
<1>5. CASE ~(OPos(mSave) - lastIdx > MinBlock)
  <2>1. mBlocks' = mBlocks /\ lastIdx' = lastIdx
    BY <1>5 DEF TrialFailed
  <2>2. /\ file[coff].usize \in Nat /\ file[coff].usize <= Longest
        /\ Longest \in Nat /\ MinBlock \in Nat
    BY <1>2, <1>3, FileFacts, PieceFacts, GzipAssumption
  <2>3. uoff + file[coff].usize - lastIdx <= Limit
    BY <2>2, <1>2, <1>3, <1>5, SMTT(60) DEF Limit
  <2>4. mBlocks # <<>> => mBlocks[Len(mBlocks)].coff <= coff
    <3>1. mBlocks # <<>> => mBlocks[Len(mBlocks)].coff \in Nat
      BY <1>2 DEF ListOK, EntryOK
    <3> QED
      BY <3>1, <1>2, <1>3 DEF Triable
  <2>5. ASSUME Sound(file), file[coff].usize > 0
        PROVE  Within(file, mBlocks, coff + 1)
    BY <2>5, <1>1, <1>2, <1>3, FailedIsPassable
  <2>6. Passable(file, mBlocks, lastIdx, mSave)
    BY <2>3, <2>4, <2>5, <1>3 DEF Passable
  <2> QED
    BY <1>1, <1>2, <2>1, <2>6, BackAgain
<1> QED
  BY <1>4, <1>5

(* What it throws.                                                         *)
LEMMA BadDataKeeps ==
  ASSUME Inv, pc = "scan", NEW res \in Block(rd), BadData(res), file' = file
  PROVE  Inv'
<1>1. /\ ~indep /\ res.err = "Z_DATA_ERROR"
      /\ indep' = indep /\ backtrack' = backtrack
      /\ mBlocks' = mBlocks /\ lastIdx' = lastIdx /\ pc' = "format"
  BY DEF BadData
<1>2. file \in Files /\ DecoderOK(file, rd)
  BY <1>1, BetweenTrials
<1>3. rd.at \in 1..Len(file)
  BY <1>2 DEF DecoderOK
<1>4. file[rd.at].kind \in {"damaged", "cut"}
  <2>1. res # Ok(rd) /\ res # End(rd) /\ res # EOF(rd)
    BY <1>1 DEF Ok, End, EOF
  <2> QED
    BY <2>1, <1>2, MainBlock
<1>5. ~Sound(file)
  BY <1>3, <1>4 DEF Sound
<1> QED
  BY <1>1, <1>5 DEF Inv, ScanInv, DoneInv

LEMMA OutOfInputKeeps ==
  ASSUME Inv, pc = "scan", NEW res \in Block(rd), OutOfInput(res), file' = file
  PROVE  Inv'
<1>1. /\ indep' = indep /\ backtrack' = backtrack
      /\ mBlocks' = mBlocks /\ lastIdx' = lastIdx /\ pc' = "eof"
  BY DEF OutOfInput
<1> QED
  BY <1>1 DEF Inv, ScanInv, DoneInv

-----------------------------------------------------------------------------
LEMMA InvInit == Init => Inv
<1> SUFFICES ASSUME Init PROVE Inv
  OBVIOUS
<1>1. /\ file \in Files /\ mBlocks = <<>> /\ lastIdx = 0 /\ pc = "scan"
      /\ indep = FALSE /\ backtrack = FALSE
      /\ rd = [at |-> 1, wrap |-> "Gzip", init |-> 0, out |-> 0, known |-> 0, astray |-> FALSE]
  BY DEF Init
<1>2. ListOK(file, mBlocks, lastIdx)
  BY <1>1 DEF ListOK
<1>3. /\ rd \in Reader /\ rd.at = 1 /\ rd.wrap = "Gzip" /\ rd.init = 0 /\ rd.out = 0
      /\ rd.known = 0 /\ ~rd.astray
  BY <1>1 DEF Reader
<1>4. /\ Len(file) \in Nat \ {0} /\ 1 \in 1..Len(file)
      /\ file[1].kind = "header" /\ file[1].uoff = 0 /\ file[1].usize = 0
  <2>1. Len(file) \in Nat \ {0} /\ 1 \in 1..Len(file)
    BY <1>1, FileFacts
  <2>2. file[1].kind = "header" /\ file[1].uoff = 0
    BY <1>1, GzipAssumption DEF WellFormed
  <2> QED
    BY <2>1, <2>2, <1>1, PieceFacts
<1>5. OPos(rd) = 0
  BY <1>3 DEF OPos
<1>6. Enclosed(file, 1, 0)
  <2>1. \A q \in 1..Len(file) : file[q].reach \in Nat
    BY <1>1, FileFacts
  <2> QED
    BY <2>1, <1>4 DEF Enclosed
<1>7. DecoderOK(file, rd)
  BY <1>3, <1>4, <1>5, <1>6 DEF DecoderOK
<1>8. LastOK(file, mBlocks, 1) /\ Opened(file, mBlocks, 1)
  BY <1>1, <1>4 DEF LastOK, Opened
<1>9. Passable(file, mBlocks, lastIdx, rd)
  <2>1. Limit \in Nat
    BY GzipAssumption DEF Limit
  <2> QED
    BY <2>1, <1>1, <1>3, <1>4, <1>5 DEF Passable
<1>10. Main = rd
  BY <1>1 DEF Main
<1>11. ScanInv /\ DoneInv
  BY <1>1, <1>3, <1>5, <1>7, <1>8, <1>9, <1>10 DEF ScanInv, DoneInv
<1> QED
  BY <1>1, <1>2, <1>11 DEF Inv

LEMMA InvNext == Inv /\ [Next]_vars => Inv'
<1> SUFFICES ASSUME Inv, [Next]_vars PROVE Inv'
  OBVIOUS
<1>1. CASE UNCHANGED vars
  BY <1>1 DEF vars, Inv, ScanInv, DoneInv, Main
<1>2. CASE Next
  <2>1. pc = "scan" /\ file' = file
    BY <1>2 DEF Next
  <2>2. PICK res \in Block(rd) :
          \/ NextBlock(res) \/ AddAndGoOn(res) \/ AddAndRewind(res) \/ ZeroLength(res)
          \/ LookFurther(res) \/ TrialFailed(res) \/ BadData(res) \/ OutOfInput(res)
    BY <1>2 DEF Next
  <2>3. CASE NextBlock(res)
    BY <2>1, <2>3, NextBlockKeeps
  <2>4. CASE AddAndGoOn(res)
    BY <2>1, <2>4, AddAndGoOnKeeps
  <2>5. CASE AddAndRewind(res)
    BY <2>1, <2>5, AddAndRewindKeeps
  <2>6. CASE ZeroLength(res)
    BY <2>1, <2>6, ZeroLengthKeeps
  <2>7. CASE LookFurther(res)
    BY <2>1, <2>7, LookFurtherKeeps
  <2>8. CASE TrialFailed(res)
    BY <2>1, <2>8, TrialFailedKeeps
  <2>9. CASE BadData(res)
    BY <2>1, <2>9, BadDataKeeps
  <2>10. CASE OutOfInput(res)
    BY <2>1, <2>10, OutOfInputKeeps
  <2> QED
    BY <2>2, <2>3, <2>4, <2>5, <2>6, <2>7, <2>8, <2>9, <2>10
<1> QED
  BY <1>1, <1>2

(* The list, the decoder that counts and the one on trial always fit the   *)
(* file as Inv says, whatever block() answers.                             *)
THEOREM GzipInvariant == Spec => []Inv
<1>1. Init => Inv
  BY InvInit
<1>2. Inv /\ [Next]_vars => Inv'
  BY InvNext
<1> QED
  BY <1>1, <1>2, PTL DEF Spec

(* The first entry of a sound file has bytes: it stands at a piece with    *)
(* bytes, which a trial that is not over already has passed.               *)
FirstOK ==
    Sound(file) =>
        /\ mBlocks # <<>> => file[mBlocks[1].coff].usize > 0
        /\ pc = "scan" /\ indep /\ backtrack /\ mBlocks = <<>> => file[coff].usize > 0

(* Whatever is done to the list but for a first entry, that stays where it *)
(* is.                                                                     *)
LEMMA FirstStays ==
  ASSUME NEW list \in Seq(Entry), NEW u, NEW c, NEW d
  PROVE  LET s == SetLastBlockSize(list, u)
             new == AddBlock(list, u, c, d)
         IN  /\ list = <<>> => s = <<>> /\ new # <<>> /\ new[1].coff = c
             /\ list # <<>> => s # <<>> /\ new # <<>>
                               /\ s[1].coff = list[1].coff /\ new[1].coff = list[1].coff
<1> DEFINE s == SetLastBlockSize(list, u)
           n == Len(list)
           e == [usize |-> 0, uoff |-> u, coff |-> c, dict |-> d]
<1>1. n \in Nat
  OBVIOUS
<1>4. e.coff = c /\ AddBlock(list, u, c, d) = Append(s, e)
  BY DEF AddBlock
<1>2. CASE list = <<>>
  <2>1. s = <<>>
    BY <1>2 DEF SetLastBlockSize
  <2> HIDE DEF s, e
  <2>2. AddBlock(list, u, c, d) = Append(<<>>, e)
    BY <1>4, <2>1
  <2>3. Append(<<>>, e) # <<>> /\ Append(<<>>, e)[1] = e
    OBVIOUS
  <2> QED
    BY <1>2, <1>4, <2>1, <2>2, <2>3 DEF s
<1>3. CASE list # <<>>
  <2> DEFINE x == (u - list[n].uoff) % USizeLimit
           last == [list[n] EXCEPT !.usize = x]
  <2>1. n \in Nat \ {0} /\ s = [list EXCEPT ![n] = last]
    BY <1>3 DEF SetLastBlockSize
  <2>2. \A k \in 1..n : list[k] \in [usize : Nat, uoff : Nat, coff : Nat, dict : Nat]
    BY <1>1, ElementOfSeq DEF Entry
  <2>3. list[1] \in [usize : Nat, uoff : Nat, coff : Nat, dict : Nat]
    BY <2>1, <2>2
  <2> HIDE DEF x
  <2>4. n = 1 => last.coff = list[1].coff
    BY <2>3
  <2> HIDE DEF last, s
  <2>5. s \in Seq(Entry \cup {last}) /\ Len(s) = n /\ s[1] = IF n = 1 THEN last ELSE list[1]
    BY <2>1
  <2>6. Len(s) = n /\ s[1].coff = list[1].coff
    BY <2>4, <2>5
  <2> HIDE DEF e
  <2>8. Append(s, e) # <<>> /\ Append(s, e)[1] = s[1]
    BY <2>1, <2>5
  <2> QED
    BY <1>3, <1>4, <2>1, <2>6, <2>8 DEF s
<1> QED
  BY <1>2, <1>3

(* Before the first entry of a sound file nothing has been put out, so that*)
(* a footer is that of a member without bytes.                             *)
LEMMA BeforeFirst ==
  ASSUME Inv, pc = "scan", indep, Sound(file), mBlocks = <<>>
  PROVE  /\ OPos(mSave) = 0 /\ lastIdx = 0
         /\ rd.astray => Garbage(rd) = {Error(rd)}
<1>1. /\ file \in Files /\ DecoderOK(file, mSave) /\ ListOK(file, mBlocks, lastIdx)
      /\ LastOK(file, mBlocks, mSave.at) /\ TrialOK(file, mSave, rd, uoff, coff, backtrack)
  BY OnTrial
<1>2. /\ coff = mSave.at /\ coff \in 1..Len(file) /\ uoff = OPos(mSave) /\ uoff = file[coff].uoff
      /\ rd.astray <=> file[coff].kind = "footer"
  BY TrialFacts
<1>3. file[coff].uoff = 0 /\ lastIdx = 0
  BY <1>1, <1>2 DEF LastOK, ListOK
<1>4. ASSUME rd.astray
      PROVE  Garbage(rd) = {Error(rd)}
  <2>1. rd.at = coff /\ file[coff].kind = "footer"
    BY <1>1, <1>2, <1>4 DEF TrialOK
  <2>2. ASSUME NEW p \in 1..Len(file), file[p].mem = file[coff].mem
        PROVE  file[p].usize = 0
    <3>1. CASE p < coff
      <4>1. file[p].uoff + file[p].usize <= file[coff].uoff
        BY <3>1, <1>1, <1>2, OrderFacts
      <4>2. file[p].uoff \in Nat /\ file[p].usize \in Nat
        BY <1>1, FileFacts
      <4> QED
        BY <4>1, <4>2, <1>3
    <3>2. CASE p = coff
      BY <3>2, <2>1, <1>1, PieceFacts
    <3>3. CASE coff < p
      BY <3>3, <2>1, <2>2, <1>1, <1>2, OrderFacts
    <3>4. p \in Nat /\ coff \in Nat
      BY <1>1, <1>2, FileFacts
    <3> QED
      BY <3>1, <3>2, <3>3, <3>4
  <2>3. NoBytes(file[rd.at].mem)
    BY <2>1, <2>2 DEF NoBytes
  <2> QED
    BY <2>3 DEF Garbage
<1> QED
  BY <1>2, <1>3, <1>4

LEMMA ListsStayLists ==
  ASSUME Inv, pc = "scan", indep, NEW res \in Block(rd), Enough(res), Decoded(res)
  PROVE  AddBlock(mBlocks, uoff, coff, uoff) \in Seq(Entry)
<1>1. /\ file \in Files /\ backtrack \in BOOLEAN /\ lastIdx \in Nat
      /\ DecoderOK(file, mSave) /\ ListOK(file, mBlocks, lastIdx) /\ lastIdx <= OPos(mSave)
      /\ Sound(file) => LastOK(file, mBlocks, mSave.at) /\ Opened(file, mBlocks, mSave.at)
      /\ Triable(file, mBlocks, lastIdx, mSave)
      /\ TrialOK(file, mSave, rd, uoff, coff, backtrack)
  BY OnTrial
<1>2. uoff = OPos(mSave) /\ coff = mSave.at /\ uoff \in Nat
  BY TrialFacts
<1>3. Enclosed(file, coff, uoff)
  BY <1>1, TrialEncloses
<1>4. ListOK(file, AddBlock(mBlocks, uoff, coff, uoff), uoff)
  BY <1>1, <1>2, <1>3, AddEntry
<1> QED
  BY <1>4 DEF ListOK

LEMMA FirstNext == Inv /\ FirstOK /\ [Next]_vars => FirstOK'
<1> SUFFICES ASSUME Inv, FirstOK, [Next]_vars, Sound(file)'
             PROVE  /\ mBlocks' # <<>> => file'[mBlocks'[1].coff].usize > 0
                    /\ pc' = "scan" /\ indep' /\ backtrack' /\ mBlocks' = <<>> =>
                          file'[coff'].usize > 0
  BY DEF FirstOK
<1>1. CASE UNCHANGED vars
  BY <1>1 DEF vars, FirstOK, Sound
<1>2. CASE Next
  <2>1. pc = "scan" /\ file' = file /\ Sound(file)
    BY <1>2 DEF Next, Sound
  <2>2. mBlocks \in Seq(Entry)
    BY DEF Inv, ListOK
  <2>3. PICK res \in Block(rd) :
          \/ NextBlock(res) \/ AddAndGoOn(res) \/ AddAndRewind(res) \/ ZeroLength(res)
          \/ LookFurther(res) \/ TrialFailed(res) \/ BadData(res) \/ OutOfInput(res)
    BY <1>2 DEF Next
  <2>4. ASSUME NEW list \in Seq(Entry), GoOn(res, list),
               list # <<>> => file[list[1].coff].usize > 0
        PROVE  /\ mBlocks' # <<>> => file[mBlocks'[1].coff].usize > 0
               /\ ~(pc' = "scan" /\ indep' /\ backtrack')
    <3>1. CASE Finishes(res)
      <4>1. mBlocks' = SetLastBlockSize(list, OPos(res.rd)) /\ pc' = "done"
        BY <2>4, <3>1 DEF GoOn
      <4> QED
        BY <4>1, <2>4, FirstStays
    <3>2. CASE ~Finishes(res)
      BY <2>4, <3>2 DEF GoOn
    <3> QED
      BY <3>1, <3>2
  <2>5. CASE NextBlock(res)
    BY <2>1, <2>2, <2>4, <2>5 DEF NextBlock, FirstOK
  <2>6. CASE AddAndGoOn(res)
    <3> DEFINE new == AddBlock(mBlocks, uoff, coff, uoff)
    <3>1. indep /\ GoOn(res, new)
      BY <2>6 DEF AddAndGoOn
    <3>2. file[coff].usize > WindowSize /\ WindowSize \in Nat
      BY <2>1, <2>6, KeptTrial, GzipAssumption
    <3>3. file[coff].usize \in Nat
      BY <2>1, <3>1, TrialFacts, FileFacts DEF Inv
    <3>4. new # <<>> /\ file[new[1].coff].usize > 0
      BY <2>1, <2>2, <3>2, <3>3, FirstStays DEF FirstOK
    <3>5. new \in Seq(Entry)
      BY <2>1, <2>6, ListsStayLists DEF AddAndGoOn
    <3> HIDE DEF new
    <3> QED
      BY <2>1, <2>4, <3>1, <3>4, <3>5
  <2>7. CASE AddAndRewind(res)
    <3>1. /\ mBlocks' = AddBlock(mBlocks, uoff, coff, uoff) /\ indep /\ backtrack
          /\ indep' = FALSE
      BY <2>7 DEF AddAndRewind
    <3>2. mBlocks' # <<>> /\ file[mBlocks'[1].coff].usize > 0
      BY <2>1, <2>2, <3>1, FirstStays DEF FirstOK
    <3> QED
      BY <2>1, <3>1, <3>2
  <2>8. CASE ZeroLength(res)
    BY <2>1, <2>8 DEF ZeroLength, FirstOK
  <2>9. CASE LookFurther(res)
    <3>1. /\ indep /\ mBlocks' = mBlocks /\ coff' = coff /\ Decoded(res) /\ res.rd.out > 0
      BY <2>9 DEF LookFurther
    <3>2. ASSUME mBlocks = <<>>, ~backtrack
          PROVE  file[coff].usize > 0
      <4>1. res # Error(rd) /\ res # EOF(rd)
        BY <3>1 DEF Decoded, Error, EOF
      <4>2. ~rd.astray
        BY <2>1, <3>1, <3>2, <4>1, BeforeFirst DEF Block
      <4>3. /\ rd \in Reader /\ rd.out = 0 /\ rd.at = coff /\ file[rd.at].usize \in Nat
            /\ rd.astray <=> file[coff].kind = "footer"
        BY <2>1, <3>1, <3>2, TrialFacts
      <4>4. res = Ok(rd)
        BY <2>1, <3>1, <4>1, <4>2, <4>3, OnTrial, TrialBlock
      <4>5. res.rd.out = rd.out + file[rd.at].usize
        BY <4>3, <4>4, OkFacts
      <4> DEFINE size == file[rd.at].usize
      <4>6. size > 0
        <5>1. res.rd.out = size /\ size \in Nat
          BY <4>3, <4>5
        <5> HIDE DEF size
        <5> QED
          BY <5>1, <3>1
      <4> QED
        BY <4>3, <4>6
    <3> QED
      BY <2>1, <3>1, <3>2 DEF FirstOK
  <2>10. CASE TrialFailed(res)
    <3>1. indep /\ indep' = FALSE
      BY <2>10 DEF TrialFailed
    <3>2. CASE OPos(mSave) - lastIdx > MinBlock
      <4>1. mBlocks' = AddBlock(mBlocks, OPos(mSave), mSave.at, CopyWindow(mSave))
        BY <2>10, <3>2 DEF TrialFailed
      <4>2. mBlocks # <<>>
        BY <2>1, <3>1, <3>2, BeforeFirst, GzipAssumption
      <4>3. mBlocks'[1].coff = mBlocks[1].coff
        BY <2>2, <4>1, <4>2, FirstStays
      <4> QED
        BY <2>1, <3>1, <4>2, <4>3 DEF FirstOK
    <3>3. CASE ~(OPos(mSave) - lastIdx > MinBlock)
      BY <2>1, <2>10, <3>1, <3>3 DEF TrialFailed, FirstOK
    <3> QED
      BY <3>2, <3>3
  <2>11. CASE BadData(res) \/ OutOfInput(res)
    BY <2>1, <2>11 DEF BadData, OutOfInput, FirstOK
  <2> QED
    BY <2>3, <2>5, <2>6, <2>7, <2>8, <2>9, <2>10, <2>11
<1> QED
  BY <1>1, <1>2

(* The entries tile the file, though the scan goes back and forth: each    *)
(* ends where the next begins, and in the end they hold the whole file,    *)
(* the first of them not nothing.                                          *)
THEOREM GzipEntriesTile == Spec => []EntriesTile
<1>1. Inv /\ FirstOK => EntriesTile
  <2> SUFFICES ASSUME Inv, FirstOK PROVE EntriesTile
    OBVIOUS
  <2>1. file \in Files /\ ListOK(file, mBlocks, lastIdx)
    BY DEF Inv
  <2>2. \A k \in 1..(Len(mBlocks) - 1) :
          /\ mBlocks[k].uoff + mBlocks[k].usize = mBlocks[k + 1].uoff
          /\ mBlocks[k].coff < mBlocks[k + 1].coff
    BY <2>1 DEF ListOK
  <2>3. ASSUME pc = "done", mBlocks = <<>>
        PROVE  Total(file) = 0
    BY <2>1, <2>3, FileFacts DEF Inv, DoneInv, LastOK
  <2>4. ASSUME pc = "done", mBlocks # <<>>
        PROVE  /\ mBlocks[1].uoff = 0
               /\ mBlocks[Len(mBlocks)].uoff + mBlocks[Len(mBlocks)].usize = Total(file)
    BY <2>1, <2>4 DEF Inv, DoneInv, ListOK
  <2>5. ASSUME pc = "done", mBlocks # <<>>
        PROVE  mBlocks[1].usize > 0
    <3>1. file[mBlocks[1].coff].usize > 0
      BY <2>5 DEF Inv, DoneInv, FirstOK
    <3>2. mBlocks \in Seq(Entry) /\ Len(mBlocks) \in Nat \ {0}
      BY <2>1, <2>5 DEF ListOK
    <3>3. 1 \in 1..Len(mBlocks)
      BY <3>2
    <3>4. mBlocks[1].coff \in 1..Len(file) /\ file[mBlocks[1].coff].uoff = 0
      BY <2>1, <2>4, <2>5, <3>3 DEF ListOK, EntryOK
    <3>5. mBlocks[1] \in Entry
      BY <3>2, <3>3, ElementOfSeq
    <3>6. mBlocks[1].usize \in Nat
      BY <3>5 DEF Entry
    <3>7. CASE Len(mBlocks) = 1
      <4>1. file[mBlocks[1].coff].uoff + file[mBlocks[1].coff].usize <= Total(file)
        BY <2>1, <3>4, FileFacts
      <4>2. mBlocks[1].uoff + mBlocks[1].usize = Total(file)
        BY <2>4, <2>5, <3>7
      <4>3. mBlocks[1].usize = Total(file) /\ file[mBlocks[1].coff].usize <= Total(file)
        BY <4>1, <4>2, <3>4, <2>4, <2>5, <3>6, <3>1, FileFacts, <2>1
      <4> QED
        BY <4>3, <3>1, <3>4, <3>6, <2>1, FileFacts
    <3>8. CASE Len(mBlocks) # 1
      <4>1. 1 \in 1..(Len(mBlocks) - 1) /\ 2 \in 1..Len(mBlocks)
        BY <3>2, <3>8
      <4> DEFINE c == mBlocks[1].coff
                 d == mBlocks[2].coff
      <4>2. mBlocks[1].uoff + mBlocks[1].usize = mBlocks[2].uoff /\ c < d
        BY <2>2, <4>1
      <4>3. d \in 1..Len(file) /\ file[d].uoff = mBlocks[2].uoff
        BY <2>1, <4>1 DEF ListOK, EntryOK
      <4>4. file[c].uoff + file[c].usize <= file[d].uoff
        BY <2>1, <3>4, <4>2, <4>3, OrderFacts
      <4>5. file[c].usize \in Nat /\ file[d].uoff \in Nat
        BY <2>1, <3>4, <4>3, FileFacts
      <4>6. mBlocks[1].usize = file[d].uoff /\ file[c].uoff = 0
        BY <2>4, <2>5, <3>4, <3>6, <4>2, <4>3
      <4> HIDE DEF c, d
      <4>7. file[c].usize > 0
        BY <3>1 DEF c
      <4> DEFINE x == file[c].usize
                 y == file[d].uoff
      <4>8. 0 + x <= y /\ x \in Nat /\ y \in Nat /\ x > 0
        BY <4>4, <4>5, <4>6, <4>7
      <4> HIDE DEF x, y
      <4>9. y > 0
        BY <4>8
      <4> QED
        BY <4>6, <4>9 DEF y
    <3> QED
      BY <3>7, <3>8
  <2> QED
    BY <2>2, <2>3, <2>4, <2>5 DEF EntriesTile
<1>2. Init => FirstOK
  BY DEF Init, FirstOK
<1> QED
  BY <1>1, <1>2, FirstNext, InvInit, InvNext, PTL DEF Spec

(* Every entry of a finished index decodes from its place, with its        *)
(* dictionary, to its bytes, within one member.                            *)
THEOREM GzipEntriesDecode == Spec => []EntriesDecode
<1>1. Inv => EntriesDecode
  <2> SUFFICES ASSUME Inv, pc = "done", NEW k \in 1..Len(mBlocks) PROVE Decodes(mBlocks[k])
    BY DEF EntriesDecode
  <2> DEFINE n == Len(mBlocks)
             b == mBlocks[n]
  <2>1. /\ file \in Files /\ ListOK(file, mBlocks, lastIdx) /\ Sound(file)
        /\ LastOK(file, mBlocks, Len(file))
        /\ mBlocks # <<>> => lastIdx + mBlocks[Len(mBlocks)].usize = Total(file)
    BY DEF Inv, DoneInv
  <2>2. CASE k \in 1..(n - 1)
    BY <2>1, <2>2 DEF ListOK, DecodesIn, Decodes
  <2>3. CASE k = n
    <3>1. mBlocks # <<>> /\ mBlocks \in Seq(Entry) /\ n \in Nat
      BY <2>1 DEF ListOK
    <3>2. EntryOK(file, b) /\ b.uoff + b.usize = Total(file)
      BY <2>1, <2>3, <3>1 DEF ListOK
    <3>3. /\ b.coff \in 1..Len(file) /\ Len(file) \in Nat /\ Total(file) \in Nat
          /\ Total(file) = file[Len(file)].uoff /\ file[b.coff].uoff = b.uoff
      <4>1. b.coff \in 1..Len(file) /\ file[b.coff].uoff = b.uoff
        BY <3>2 DEF EntryOK
      <4>2. Len(file) \in Nat \ {0} /\ Total(file) = file[Len(file)].uoff
        BY <2>1, FileFacts
      <4>3. file[Len(file)].uoff \in Nat
        BY <2>1, <4>2, FileFacts
      <4> QED
        BY <4>1, <4>2, <4>3
    <3>4. ASSUME NEW p \in b.coff..Len(file), file[p].uoff < Total(file)
          PROVE  file[p].kind = "block" /\ file[p].reach >= b.dict
      <4>1. p # Len(file)
        BY <3>3, <3>4
      <4>2. p \in b.coff..(Len(file) - 1)
        BY <4>1, <3>3
      <4>3. file[p].kind = "block" /\ file[p].mem = file[b.coff].mem
        BY <4>2, <3>1, <3>3, <3>4, <2>1 DEF LastOK
      <4> QED
        BY <4>3, <3>2 DEF EntryOK, Enclosed
    <3>5. b.uoff + b.usize <= Total(file)
      BY <3>2, <3>3
    <3> QED
      BY <2>3, <3>2, <3>3, <3>4, <3>5 DEF Decodes
  <2>4. n \in Nat
    BY <2>1 DEF ListOK
  <2> QED
    BY <2>2, <2>3, <2>4
<1> QED
  BY <1>1, GzipInvariant, PTL

(* The wanted distance and one deflate block bound every entry, so that    *)
(* the size of none is cut off at 32 bits.                                 *)
THEOREM GzipEntriesBounded == Spec => []EntriesBounded
<1>1. Inv => EntriesBounded
  BY DEF Inv, ListOK, EntriesBounded, Limit
<1> QED
  BY <1>1, GzipInvariant, PTL

(* No sound file is called damaged because a trial of it failed.           *)
THEOREM GzipSoundIsNotDamaged == Spec => []SoundIsNotDamaged
<1>1. Inv => SoundIsNotDamaged
  BY DEF Inv, SoundIsNotDamaged
<1> QED
  BY <1>1, GzipInvariant, PTL
=============================================================================
