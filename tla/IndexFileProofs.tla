-------------------------- MODULE IndexFileProofs --------------------------
(***************************************************************************)
(* Proofs about IndexFile, for any number of mounts and sources and for    *)
(* block lists of any length, when no two sources share an index path.     *)
(*                                                                         *)
(* The invariant: an index holds no number but the right ones and zeros    *)
(* (CellsOK); a reader's offset agrees with the blocks it has (ReadersOK); *)
(* as long as no two mounts wrote an index at once, what it holds is a     *)
(* prefix of the whole index and readers have a prefix of the list (SoleOK,*)
(* ReadersFaithful); as long as nothing failed, a number that is missing or*)
(* wrong has a writer that is still to come to it (CoveredOK).             *)
(***************************************************************************)
EXTENDS IndexFile, SequenceTheorems, TLAPS

Distinct == \A f, g \in Sources : Index[f] = Index[g] => f = g

Idx(f) == idx[Index[f]]

CellsOK == \A f \in Sources : Idx(f) # Null =>
    /\ Len(Idx(f)) <= Size(f)
    /\ \A i \in 1..Len(Idx(f)) : Idx(f)[i] = Number(f, i) \/ Idx(f)[i] = 0

WritersOK == \A m \in Mounts :
    /\ pc[m] \in {"off", "open"} => mBlocks[m] = <<>>
    /\ pc[m] \in {"create", "write"} => mBlocks[m] = Built[file[m]]

ReadersOK == \A m \in Mounts :
    /\ pc[m] = "read" => /\ pos[m] = 2 * Len(mBlocks[m]) + 1
                         /\ Len(mBlocks[m]) <= Len(Built[file[m]])
    /\ pc[m] = "readRest" => /\ pos[m] = 2 * Len(mBlocks[m]) + 2
                             /\ Len(mBlocks[m]) < Len(Built[file[m]])

SoleOK == \A f \in Sources : Index[f] \notin shared /\ Idx(f) # Null =>
    /\ \A i \in 1..Len(Idx(f)) : Idx(f)[i] = Number(f, i)
    /\ \A m, n \in Mounts : Writes(m, f) /\ Writes(n, f) => m = n
    /\ \A m \in Mounts : Writes(m, f) => pos[m] = Len(Idx(f)) + 1

ReadersFaithful == \A m \in Mounts :
    pc[m] \in {"read", "readRest"} /\ Index[file[m]] \notin shared =>
        /\ \A k \in 1..Len(mBlocks[m]) : mBlocks[m][k] = Built[file[m]][k]
        /\ pc[m] = "readRest" => usize[m] = Built[file[m]][Len(mBlocks[m]) + 1].usize

CoveredOK == ~harm => \A f \in Sources : Idx(f) # Null =>
    \A i \in 1..Size(f) :
        \/ i <= Len(Idx(f)) /\ Idx(f)[i] = Number(f, i)
        \/ \E m \in Mounts : Writes(m, f) /\ pos[m] <= i

Inv == /\ TypeOK /\ CellsOK /\ WritersOK /\ ReadersOK
       /\ SoleOK /\ ReadersFaithful /\ CoveredOK /\ ServesWholeFile

-----------------------------------------------------------------------------
(* The numbers of an index: usize and coff of each block in turn, then 0.  *)
LEMMA Numbers ==
    ASSUME NEW f \in Sources
    PROVE  /\ Size(f) \in Nat /\ Size(f) >= 3
           /\ Len(Built[f]) \in Nat /\ Size(f) = 2 * Len(Built[f]) + 1
           /\ Number(f, Size(f)) = 0
           /\ \A k \in 1..Len(Built[f]) :
                 /\ Number(f, 2 * k - 1) = Built[f][k].usize
                 /\ Number(f, 2 * k) = Built[f][k].coff
                 /\ Built[f][k] \in Block /\ Built[f][k].usize # 0
           /\ \A i \in 1..Size(f) : Number(f, i) \in Nat
<1> DEFINE n == Len(Built[f])
<1>1. Built[f] \in Seq(Block) /\ Len(Built[f]) >= 1
  BY IndexAssumption
<1>2. n \in Nat /\ n >= 1 /\ \A k \in 1..n : Built[f][k] \in Block /\ Built[f][k].usize # 0
  BY <1>1, IndexAssumption
<1>3. ASSUME NEW k \in 1..n
      PROVE  Number(f, 2 * k - 1) = Built[f][k].usize /\ Number(f, 2 * k) = Built[f][k].coff
  <2> k \in Nat
    BY <1>2
  <2>1. (2 * k - 1) % 2 = 1 /\ ((2 * k - 1) + 1) \div 2 = k /\ 2 * k - 1 # 2 * n + 1
    BY <1>2
  <2>2. (2 * k) % 2 = 0 /\ (2 * k) \div 2 = k /\ 2 * k # 2 * n + 1
    BY <1>2
  <2> QED
    BY <2>1, <2>2 DEF Number, Size
<1>4. ASSUME NEW i \in 1..Size(f)  PROVE Number(f, i) \in Nat
  <2>1. i = 2 * n + 1 \/ \E k \in 1..n : i = 2 * k - 1 \/ i = 2 * k
    <3>1. i \in 1..(2 * n + 1)
      BY DEF Size
    <3>2. CASE i % 2 = 0
      <4>1. i \div 2 \in 1..n /\ i = 2 * (i \div 2)
        BY <1>2, <3>1, <3>2
      <4> QED
        BY <4>1
    <3>3. CASE i % 2 = 1 /\ i # 2 * n + 1
      <4>1. (i + 1) \div 2 \in 1..n /\ i = 2 * ((i + 1) \div 2) - 1
        BY <1>2, <3>1, <3>3
      <4> QED
        BY <4>1
    <3> QED
      BY <1>2, <3>1, <3>2, <3>3
  <2>2. CASE i = 2 * n + 1
    BY <2>2 DEF Number, Size
  <2>3. ASSUME NEW k \in 1..n, i = 2 * k - 1 \/ i = 2 * k  PROVE Number(f, i) \in Nat
    BY <1>2, <1>3, <2>3 DEF Block
  <2> QED
    BY <2>1, <2>2, <2>3
<1>5. Size(f) = 2 * n + 1 /\ Number(f, Size(f)) = 0
  BY DEF Size, Number
<1> QED
  BY <1>2, <1>3, <1>4, <1>5

(* A write at offset i: a gap reads as zeros, the rest stays.              *)
LEMMA PutLemma ==
    ASSUME NEW s \in Seq(Nat), NEW i \in Nat \ {0}, NEW n \in Nat
    PROVE  /\ Put(s, i, n) \in Seq(Nat)
           /\ Len(Put(s, i, n)) = IF i <= Len(s) THEN Len(s) ELSE i
           /\ \A k \in 1..Len(Put(s, i, n)) :
                 Put(s, i, n)[k] = IF k = i THEN n ELSE IF k <= Len(s) THEN s[k] ELSE 0
<1>1. Len(s) \in Nat /\ \A k \in 1..Len(s) : s[k] \in Nat
  OBVIOUS
<1>2. (IF i <= Len(s) THEN Len(s) ELSE i) \in Nat
  BY <1>1
<1> QED
  BY <1>1, <1>2 DEF Put

LEMMA InitInv == Init => Inv
<1> SUFFICES ASSUME Init PROVE Inv
  OBVIOUS
<1>1. \A m \in Mounts : pc[m] = "off" /\ file[m] = Null /\ mBlocks[m] = <<>>
  BY DEF Init
<1>2. \A f \in Sources : Idx(f) = Null
  BY DEF Init, Idx, Paths
<1>3. TypeOK
  <2>1. mBlocks \in [Mounts -> Seq(Block)]
    BY DEF Init
  <2>2. harm \in BOOLEAN /\ shared \subseteq Paths
    BY DEF Init
  <2> QED
    BY <1>1, <2>1, <2>2 DEF Init, TypeOK, Places
<1> QED
  BY <1>1, <1>2, <1>3 DEF Inv, CellsOK, WritersOK, ReadersOK, SoleOK, ReadersFaithful,
     CoveredOK, ServesWholeFile

-----------------------------------------------------------------------------
(* A mount that reads or writes an index has one.                          *)
LEMMA HereType ==
    ASSUME TypeOK, NEW m \in Mounts, pc[m] \in {"read", "readRest", "write"}
    PROVE  /\ file[m] \in Sources /\ Index[file[m]] \in Paths
           /\ Here(m) \in Seq(Nat) /\ Here(m) = Idx(file[m]) /\ Idx(file[m]) # Null
           /\ pos[m] \in Nat \ {0}
           /\ pos[m] <= Len(Here(m)) => Here(m)[pos[m]] \in Nat
<1>1. file[m] \in Sources /\ Here(m) # Null /\ pos[m] \in Nat \ {0}
  BY DEF TypeOK, Places
<1>2. Index[file[m]] \in Paths
  BY <1>1 DEF Paths
<1>3. Here(m) \in Seq(Nat)
  BY <1>1, <1>2 DEF TypeOK, Here
<1> QED
  BY <1>1, <1>2, <1>3 DEF Idx, Here

(* What the steps that write do to the index files.                        *)
LEMMA IdxAfterWrite ==
    ASSUME TypeOK, NEW m \in Mounts, WriteNumber(m)
    PROVE  /\ file[m] \in Sources /\ Here(m) \in Seq(Nat) /\ pos[m] \in 1..Size(file[m])
           /\ idx' \in [Paths -> Seq(Nat) \cup {Null}]
           /\ \A p \in Paths : idx'[p] = IF p = Index[file[m]]
                                         THEN Put(idx[p], pos[m], Number(file[m], pos[m])) ELSE idx[p]
           /\ \A p \in Paths : idx[p] # Null => idx'[p] # Null
<1>1. file[m] \in Sources /\ pos[m] \in 1..Size(file[m]) /\ Here(m) # Null
  BY DEF WriteNumber, TypeOK, Places
<1>2. Index[file[m]] \in Paths
  BY <1>1 DEF Paths
<1>3. Here(m) \in Seq(Nat)
  BY <1>1, <1>2 DEF TypeOK, Here
<1>4. Put(Here(m), pos[m], Number(file[m], pos[m])) \in Seq(Nat)
  <2>1. Number(file[m], pos[m]) \in Nat /\ pos[m] \in Nat \ {0}
    BY <1>1, Numbers
  <2> QED
    BY <1>3, <2>1, PutLemma
<1>5. Put(Here(m), pos[m], Number(file[m], pos[m])) # Null
  BY <1>4, IndexAssumption
<1>6. idx' = [idx EXCEPT ![Index[file[m]]] = Put(Here(m), pos[m], Number(file[m], pos[m]))]
  BY DEF WriteNumber, Here
<1> QED
  BY <1>1, <1>2, <1>3, <1>4, <1>5, <1>6 DEF TypeOK, Here

LEMMA IdxAfterCreate ==
    ASSUME TypeOK, NEW m \in Mounts, CreateIndex(m)
    PROVE  /\ file[m] \in Sources /\ Index[file[m]] \in Paths
           /\ idx' \in [Paths -> Seq(Nat) \cup {Null}]
           /\ \A p \in Paths : idx'[p] = IF p = Index[file[m]] THEN <<>> ELSE idx[p]
           /\ <<>> # Null
<1>1. file[m] \in Sources
  BY DEF CreateIndex, TypeOK
<1>2. Index[file[m]] \in Paths
  BY <1>1 DEF Paths
<1>3. <<>> \in Seq(Nat)
  OBVIOUS
<1>4. <<>> # Null
  BY <1>3, IndexAssumption
<1> QED
  BY <1>1, <1>2, <1>3, <1>4 DEF CreateIndex, TypeOK

LEMMA TypeStep == TypeOK /\ [Next]_vars => TypeOK'
<1> SUFFICES ASSUME TypeOK, [Next]_vars PROVE TypeOK'
  OBVIOUS
<1> USE DEF TypeOK, Places, Here
<1>1. ASSUME NEW m \in Mounts, NEW f \in Sources, Open(m, f)  PROVE TypeOK'
  BY <1>1, IndexAssumption DEF Open
<1>2. ASSUME NEW m \in Mounts, LookForIndex(m)  PROVE TypeOK'
  BY <1>2 DEF LookForIndex
<1>3. ASSUME NEW m \in Mounts, IndexUnreadable(m)  PROVE TypeOK'
  BY <1>3 DEF IndexUnreadable
<1>4. ASSUME NEW m \in Mounts, ReadUsize(m)  PROVE TypeOK'
  <2>1. Here(m)[pos[m]] \in Nat
    BY <1>4, HereType DEF ReadUsize
  <2> QED
    <3>1. /\ usize' \in [Mounts -> Nat] /\ pos' \in [Mounts -> Nat \ {0}]
          /\ \A n \in Mounts \ {m} : pos'[n] = pos[n]
      BY <1>4, <2>1 DEF ReadUsize
    <3>2. /\ pc' \in [Mounts -> Places] /\ pc'[m] \in {"ready", "skipped", "readRest"}
          /\ \A n \in Mounts \ {m} : pc'[n] = pc[n]
      BY <1>4 DEF ReadUsize, Outcome
    <3> QED
      BY <1>4, <3>1, <3>2 DEF ReadUsize
<1>5. ASSUME NEW m \in Mounts, ReadRest(m)  PROVE TypeOK'
  <2>1. Here(m)[pos[m]] \in Nat
    BY <1>5, HereType DEF ReadRest
  <2>2. mBlocks' \in [Mounts -> Seq(Block)]
    <3>1. [usize |-> usize[m], coff |-> Here(m)[pos[m]]] \in Block
      BY <2>1 DEF Block
    <3> QED
      BY <1>5, <3>1 DEF ReadRest
  <2>3. pc'[m] = "read" /\ pc' \in [Mounts -> Places] /\ \A n \in Mounts \ {m} : pc'[n] = pc[n] /\ pos'[n] = pos[n]
    BY <1>5 DEF ReadRest
  <2> QED
    BY <1>5, <2>2, <2>3, SMTT(60) DEF ReadRest
<1>6. ASSUME NEW m \in Mounts, ReadEOF(m)  PROVE TypeOK'
  BY <1>6 DEF ReadEOF
<1>7. ASSUME NEW m \in Mounts, BuildIndex(m)  PROVE TypeOK'
  BY <1>7, IndexAssumption DEF BuildIndex
<1>8. ASSUME NEW m \in Mounts, CreateIndex(m)  PROVE TypeOK'
  <2>1. /\ file[m] \in Sources /\ Index[file[m]] \in Paths
        /\ idx' \in [Paths -> Seq(Nat) \cup {Null}]
        /\ \A p \in Paths : idx[p] # Null => idx'[p] # Null
        /\ idx'[Index[file[m]]] # Null
    BY <1>8, IdxAfterCreate
  <2>2. 1 \in 1..Size(file[m])
    BY <2>1, Numbers
  <2>3. shared' \subseteq Paths
    BY <1>8, <2>1 DEF CreateIndex
  <2> QED
    BY <1>8, <2>1, <2>2, <2>3 DEF CreateIndex, Paths
<1>9. ASSUME NEW m \in Mounts, WriteNumber(m)  PROVE TypeOK'
  <2>1. /\ file[m] \in Sources /\ pos[m] \in 1..Size(file[m])
        /\ idx' \in [Paths -> Seq(Nat) \cup {Null}]
        /\ \A p \in Paths : idx[p] # Null => idx'[p] # Null
    BY <1>9, IdxAfterWrite
  <2>2. Size(file[m]) \in Nat
    BY <2>1, Numbers
  <2>3. /\ pc'[m] \in {"ready", "skipped", "write"} /\ pc' \in [Mounts -> Places]
        /\ pc'[m] = "write" => pos[m] # Size(file[m])
        /\ \A n \in Mounts \ {m} : pc'[n] = pc[n] /\ pos'[n] = pos[n]
    BY <1>9 DEF WriteNumber, Outcome
  <2>4. pos' \in [Mounts -> Nat \ {0}] /\ pos'[m] = pos[m] + 1
    BY <1>9, <2>1 DEF WriteNumber
  <2>5. pc'[m] = "write" => pos'[m] \in 1..Size(file[m])
    BY <2>1, <2>2, <2>3, <2>4
  <2>6. \A n \in Mounts : pc'[n] \in {"read", "readRest", "write"} => Here(n)' # Null
    <3> SUFFICES ASSUME NEW n \in Mounts, pc'[n] \in {"read", "readRest", "write"}
                 PROVE  Here(n)' # Null
      OBVIOUS
    <3>1. pc[n] \in {"read", "readRest", "write"} /\ file' = file
      BY <1>9, <2>3 DEF WriteNumber
    <3>2. file[n] \in Sources /\ Index[file[n]] \in Paths /\ Here(n) # Null
      BY <3>1, HereType DEF Idx
    <3> QED
      BY <2>1, <3>1, <3>2
  <2> QED
    BY <1>9, <2>1, <2>3, <2>4, <2>5, <2>6 DEF WriteNumber
<1>10. ASSUME NEW m \in Mounts, IOFails(m)  PROVE TypeOK'
  BY <1>10 DEF IOFails
<1>11. ASSUME NEW m \in Mounts, Unmount(m) \/ Crash(m)  PROVE TypeOK'
  <2>1. harm' \in BOOLEAN
    BY <1>11 DEF Unmount, Crash
  <2>2. mBlocks' \in [Mounts -> Seq(Block)]
    <3>1. <<>> \in Seq(Block)
      OBVIOUS
    <3> QED
      BY <1>11, <3>1 DEF Unmount, Crash, Forget
  <2>3. shared' \subseteq Paths /\ idx' = idx
    BY <1>11 DEF Unmount, Crash, Forget
  <2>4. /\ pc' \in [Mounts -> Places] /\ file' \in [Mounts -> Sources \cup {Null}]
        /\ pos' \in [Mounts -> Nat \ {0}] /\ usize' \in [Mounts -> Nat]
    <3>1. Forget(m)
      BY <1>11 DEF Unmount, Crash
    <3>2. pc' \in [Mounts -> Places]
      BY <3>1 DEF Forget
    <3>3. file' \in [Mounts -> Sources \cup {Null}]
      BY <3>1 DEF Forget
    <3>4. pos' \in [Mounts -> Nat \ {0}] /\ usize' \in [Mounts -> Nat]
      BY <3>1 DEF Forget
    <3> QED
      BY <3>2, <3>3, <3>4
  <2>5. pc'[m] = "off" /\ file'[m] = Null
    BY <1>11 DEF Unmount, Crash, Forget
  <2>6. \A n \in Mounts \ {m} : pc'[n] = pc[n] /\ file'[n] = file[n] /\ pos'[n] = pos[n]
    BY <1>11 DEF Unmount, Crash, Forget
  <2> QED
    BY <2>1, <2>2, <2>3, <2>4, <2>5, <2>6, ZenonT(60)
<1>12. CASE UNCHANGED vars
  BY <1>12 DEF vars
<1> QED
  BY <1>1, <1>2, <1>3, <1>4, <1>5, <1>6, <1>7, <1>8, <1>9, <1>10, <1>11, <1>12 DEF Next

(* Writers, and mounts about to write, hold the list they built.           *)
LEMMA WritersStep == TypeOK /\ WritersOK /\ [Next]_vars => WritersOK'
<1> SUFFICES ASSUME TypeOK, WritersOK, [Next]_vars PROVE WritersOK'
  OBVIOUS
<1> USE DEF WritersOK, TypeOK
<1>1. ASSUME NEW m \in Mounts, NEW f \in Sources, Open(m, f)  PROVE WritersOK'
  BY <1>1 DEF Open
<1>2. ASSUME NEW m \in Mounts,
             LookForIndex(m) \/ IndexUnreadable(m) \/ ReadUsize(m) \/ ReadEOF(m)
      PROVE  WritersOK'
  BY <1>2 DEF LookForIndex, IndexUnreadable, ReadUsize, ReadEOF, Outcome
<1>3. ASSUME NEW m \in Mounts, ReadRest(m)  PROVE WritersOK'
  BY <1>3 DEF ReadRest
<1>4. ASSUME NEW m \in Mounts, BuildIndex(m) \/ CreateIndex(m)  PROVE WritersOK'
  BY <1>4 DEF BuildIndex, CreateIndex
<1>5. ASSUME NEW m \in Mounts, WriteNumber(m) \/ IOFails(m)  PROVE WritersOK'
  BY <1>5 DEF WriteNumber, IOFails, Outcome
<1>6. ASSUME NEW m \in Mounts, Unmount(m) \/ Crash(m)  PROVE WritersOK'
  <2>1. Forget(m)
    BY <1>6 DEF Unmount, Crash
  <2>2. pc'[m] = "off" /\ mBlocks'[m] = <<>> /\ \A n \in Mounts \ {m} :
           pc'[n] = pc[n] /\ file'[n] = file[n] /\ mBlocks'[n] = mBlocks[n]
    BY <2>1 DEF Forget
  <2> QED
    BY <2>2
<1>7. CASE UNCHANGED vars
  BY <1>7 DEF vars
<1> QED
  BY <1>1, <1>2, <1>3, <1>4, <1>5, <1>6, <1>7 DEF Next

-----------------------------------------------------------------------------
(* Seen from one source, when no other source has its index file.          *)
LEMMA IdxSteps ==
    ASSUME [Next]_vars
    PROVE  idx' = idx \/ \E m \in Mounts : CreateIndex(m) \/ WriteNumber(m)
  BY DEF Next, vars, Open, LookForIndex, IndexUnreadable, ReadUsize, ReadRest, ReadEOF,
         BuildIndex, IOFails, Unmount, Crash, Forget

LEMMA CreateAt ==
    ASSUME Distinct, TypeOK, NEW m \in Mounts, CreateIndex(m), NEW f \in Sources
    PROVE  /\ f = file[m] => Idx(f)' = <<>>
           /\ f # file[m] => Idx(f)' = Idx(f)
<1>1. Index[f] \in Paths /\ (f # file[m] => Index[f] # Index[file[m]])
  BY IdxAfterCreate DEF Paths, Distinct
<1> QED
  BY <1>1, IdxAfterCreate DEF Idx

LEMMA WriteAt ==
    ASSUME Distinct, TypeOK, NEW m \in Mounts, WriteNumber(m), NEW f \in Sources
    PROVE  /\ f # file[m] => Idx(f)' = Idx(f)
           /\ f = file[m] =>
                /\ Idx(f) # Null /\ Len(Idx(f)) \in Nat /\ pos[m] \in 1..Size(f)
                /\ Len(Idx(f)') = IF pos[m] <= Len(Idx(f)) THEN Len(Idx(f)) ELSE pos[m]
                /\ \A k \in 1..Len(Idx(f)') :
                     Idx(f)'[k] = IF k = pos[m] THEN Number(f, k)
                                  ELSE IF k <= Len(Idx(f)) THEN Idx(f)[k] ELSE 0
<1>1. Index[f] \in Paths /\ (f # file[m] => Index[f] # Index[file[m]])
  BY IdxAfterWrite DEF Paths, Distinct
<1>2. CASE f # file[m]
  BY <1>1, <1>2, IdxAfterWrite DEF Idx
<1>3. CASE f = file[m]
  <2>1. Idx(f) \in Seq(Nat) /\ pos[m] \in 1..Size(f) /\ Idx(f) = Here(m)
    BY <1>3, IdxAfterWrite DEF Idx, Here
  <2>2. Number(f, pos[m]) \in Nat /\ pos[m] \in Nat \ {0} /\ Idx(f) # Null
    BY <2>1, Numbers, IndexAssumption
  <2>3. Idx(f)' = Put(Idx(f), pos[m], Number(f, pos[m]))
    BY <1>1, <1>3, IdxAfterWrite DEF Idx
  <2> DEFINE s == Idx(f)
             t == Put(s, pos[m], Number(f, pos[m]))
  <2>4. /\ Len(t) = IF pos[m] <= Len(s) THEN Len(s) ELSE pos[m]
        /\ \A k \in 1..Len(t) :
             t[k] = IF k = pos[m] THEN Number(f, pos[m]) ELSE IF k <= Len(s) THEN s[k] ELSE 0
    BY <2>1, <2>2, PutLemma, SMTT(60)
  <2>5. Idx(f)' = t /\ Len(s) \in Nat
    BY <2>1, <2>3
  <2> HIDE DEF t
  <2> QED
    BY <1>3, <2>1, <2>2, <2>4, <2>5
<1> QED
  BY <1>2, <1>3

LEMMA CellsStep == Distinct /\ TypeOK /\ CellsOK /\ [Next]_vars => CellsOK'
<1> SUFFICES ASSUME Distinct, TypeOK, CellsOK, [Next]_vars,
                    NEW f \in Sources, Idx(f)' # Null
             PROVE  /\ Len(Idx(f)') <= Size(f)
                    /\ \A i \in 1..Len(Idx(f)') : Idx(f)'[i] = Number(f, i) \/ Idx(f)'[i] = 0
  BY DEF CellsOK
<1>1. CASE idx' = idx
  BY <1>1 DEF CellsOK, Idx
<1>2. ASSUME NEW m \in Mounts, CreateIndex(m)
      PROVE  /\ Len(Idx(f)') <= Size(f)
             /\ \A i \in 1..Len(Idx(f)') : Idx(f)'[i] = Number(f, i) \/ Idx(f)'[i] = 0
  BY <1>2, CreateAt, Numbers DEF CellsOK
<1>3. ASSUME NEW m \in Mounts, WriteNumber(m)
      PROVE  /\ Len(Idx(f)') <= Size(f)
             /\ \A i \in 1..Len(Idx(f)') : Idx(f)'[i] = Number(f, i) \/ Idx(f)'[i] = 0
  <2>1. CASE f # file[m]
    BY <1>3, <2>1, WriteAt DEF CellsOK
  <2>2. CASE f = file[m]
    BY <1>3, <2>2, WriteAt, Numbers, SMTT(60) DEF CellsOK
  <2> QED
    BY <2>1, <2>2
<1> QED
  BY <1>1, <1>2, <1>3, IdxSteps

(* A reader stops at the last number of an index at the latest: it is 0,   *)
(* written or not.                                                         *)
LEMMA ReadersStep == TypeOK /\ CellsOK /\ WritersOK /\ ReadersOK /\ [Next]_vars => ReadersOK'
<1> SUFFICES ASSUME TypeOK, CellsOK, WritersOK, ReadersOK, [Next]_vars PROVE ReadersOK'
  OBVIOUS
<1> USE DEF ReadersOK
<1>1. ASSUME NEW m \in Mounts, NEW f \in Sources, Open(m, f)  PROVE ReadersOK'
  BY <1>1 DEF Open, TypeOK
<1>2. ASSUME NEW m \in Mounts, LookForIndex(m)  PROVE ReadersOK'
  <2>1. file[m] \in Sources /\ mBlocks[m] = <<>>
    BY <1>2 DEF LookForIndex, TypeOK, WritersOK
  <2>2. Len(Built[file[m]]) >= 0 /\ Len(mBlocks[m]) = 0
    BY <2>1, Numbers
  <2>3. pos'[m] = 1 /\ pc'[m] # "readRest"
    BY <1>2 DEF LookForIndex, TypeOK
  <2> QED
    BY <1>2, <2>2, <2>3 DEF LookForIndex, TypeOK
<1>3. ASSUME NEW m \in Mounts, ReadUsize(m)  PROVE ReadersOK'
  <2>1. /\ file[m] \in Sources /\ pos[m] \in 1..Len(Idx(file[m])) /\ Idx(file[m]) # Null
        /\ pc[m] = "read" /\ Here(m) = Idx(file[m])
    BY <1>3, HereType DEF ReadUsize
  <2>2. pc'[m] = "readRest" => Idx(file[m])[pos[m]] # 0
    BY <1>3, <2>1 DEF ReadUsize, TypeOK, Outcome
  <2>3. Idx(file[m])[pos[m]] # 0 => pos[m] # Size(file[m])
    BY <2>1, Numbers DEF CellsOK
  <2>4. pos'[m] = pos[m] + 1 /\ mBlocks' = mBlocks /\ file' = file
    BY <1>3 DEF ReadUsize, TypeOK
  <2>5. pc'[m] # "read" /\ Len(mBlocks[m]) \in Nat
    BY <1>3 DEF ReadUsize, TypeOK, Outcome
  <2>6. \A n \in Mounts \ {m} : pc'[n] = pc[n] /\ pos'[n] = pos[n]
    BY <1>3 DEF ReadUsize, TypeOK
  <2>7. Len(Built[file[m]]) \in Nat /\ Size(file[m]) = 2 * Len(Built[file[m]]) + 1
    BY <2>1, Numbers
  <2>8. pos[m] = 2 * Len(mBlocks[m]) + 1 /\ Len(mBlocks[m]) <= Len(Built[file[m]])
    BY <2>1
  <2>9. pc'[m] = "readRest" => Len(mBlocks[m]) < Len(Built[file[m]])
    BY <2>2, <2>3, <2>5, <2>7, <2>8, SMTT(60)
  <2>10. pos'[m] = 2 * Len(mBlocks[m]) + 2
    BY <2>4, <2>5, <2>8
  <2> QED
    <3> SUFFICES ASSUME NEW n \in Mounts
                 PROVE  /\ pc'[n] = "read" => /\ pos'[n] = 2 * Len(mBlocks[n]) + 1
                                              /\ Len(mBlocks[n]) <= Len(Built[file[n]])
                        /\ pc'[n] = "readRest" => /\ pos'[n] = 2 * Len(mBlocks[n]) + 2
                                                  /\ Len(mBlocks[n]) < Len(Built[file[n]])
      BY <2>4
    <3>1. CASE n = m
      BY <2>5, <2>9, <2>10, <3>1
    <3>2. CASE n # m
      BY <2>6, <3>2
    <3> QED
      BY <3>1, <3>2
<1>4. ASSUME NEW m \in Mounts, ReadRest(m)  PROVE ReadersOK'
  <2>1. file' = file /\ pc[m] = "readRest" /\ pc'[m] = "read" /\ pos'[m] = pos[m] + 1
    BY <1>4 DEF ReadRest, TypeOK
  <2>2. mBlocks[m] \in Seq(Block) /\ Len(mBlocks[m]) \in Nat /\ file[m] \in Sources
    BY <2>1, HereType DEF TypeOK
  <2>3. Len(mBlocks'[m]) = Len(mBlocks[m]) + 1
    BY <1>4, <2>2 DEF ReadRest, TypeOK
  <2>4. Len(Built[file[m]]) \in Nat
    BY <2>2, Numbers
  <2>5. \A n \in Mounts \ {m} : pc'[n] = pc[n] /\ pos'[n] = pos[n] /\ mBlocks'[n] = mBlocks[n]
    BY <1>4 DEF ReadRest, TypeOK
  <2>6. /\ pos'[m] = 2 * Len(mBlocks'[m]) + 1
        /\ Len(mBlocks'[m]) <= Len(Built[file[m]])
    BY <2>1, <2>2, <2>3, <2>4
  <2> QED
    BY <2>1, <2>5, <2>6
<1>5. ASSUME NEW m \in Mounts,
             IndexUnreadable(m) \/ ReadEOF(m) \/ BuildIndex(m) \/ CreateIndex(m)
                \/ WriteNumber(m) \/ IOFails(m) \/ Unmount(m) \/ Crash(m)
      PROVE  ReadersOK'
  <2>1. pc'[m] \notin {"read", "readRest"}
    BY <1>5 DEF TypeOK, IndexUnreadable, ReadEOF, BuildIndex, CreateIndex, WriteNumber, Outcome,
                IOFails, Unmount, Crash, Forget
  <2>2. \A n \in Mounts \ {m} : /\ pc'[n] = pc[n] /\ pos'[n] = pos[n]
                                /\ file'[n] = file[n] /\ mBlocks'[n] = mBlocks[n]
    BY <1>5 DEF TypeOK, IndexUnreadable, ReadEOF, BuildIndex, CreateIndex, WriteNumber,
                IOFails, Unmount, Crash, Forget
  <2> QED
    BY <2>1, <2>2
<1>6. CASE UNCHANGED vars
  BY <1>6 DEF vars
<1> QED
  BY <1>1, <1>2, <1>3, <1>4, <1>5, <1>6 DEF Next

-----------------------------------------------------------------------------
(* What happens to a mount that writes, while nothing fails; and nothing   *)
(* is forgotten by harm and shared.                                        *)
LEMMA WriterStays ==
    ASSUME TypeOK, [Next]_vars, ~harm', NEW n \in Mounts, pc[n] = "write", ~WriteNumber(n)
    PROVE  pc'[n] = "write" /\ file'[n] = file[n] /\ pos'[n] = pos[n]
<1> DEFINE Goal == pc'[n] = "write" /\ file'[n] = file[n] /\ pos'[n] = pos[n]
<1> USE DEF TypeOK
<1>1. ASSUME NEW m \in Mounts, NEW f \in Sources, Open(m, f)  PROVE Goal
  BY <1>1 DEF Open
<1>2. ASSUME NEW m \in Mounts, LookForIndex(m) \/ IndexUnreadable(m) \/ ReadUsize(m)
      PROVE  Goal
  BY <1>2 DEF LookForIndex, IndexUnreadable, ReadUsize
<1>3. ASSUME NEW m \in Mounts, ReadRest(m) \/ ReadEOF(m) \/ BuildIndex(m) \/ CreateIndex(m)
      PROVE  Goal
  BY <1>3 DEF ReadRest, ReadEOF, BuildIndex, CreateIndex
<1>4. ASSUME NEW m \in Mounts, WriteNumber(m) \/ Unmount(m)  PROVE Goal
  BY <1>4 DEF WriteNumber, Unmount, Forget
<1>5. ASSUME NEW m \in Mounts, IOFails(m) \/ Crash(m)  PROVE  FALSE
  BY <1>5 DEF IOFails, Crash
<1>6. CASE UNCHANGED vars
  BY <1>6 DEF vars
<1> QED
  BY <1>1, <1>2, <1>3, <1>4, <1>5, <1>6 DEF Next

LEMMA History == [Next]_vars => (harm => harm') /\ shared \subseteq shared'
<1> SUFFICES ASSUME [Next]_vars PROVE (harm => harm') /\ shared \subseteq shared'
  OBVIOUS
<1>1. shared' = shared \/ \E m \in Mounts : CreateIndex(m)
  BY DEF Next, vars, Open, LookForIndex, IndexUnreadable, ReadUsize, ReadRest, ReadEOF,
         BuildIndex, WriteNumber, IOFails, Unmount, Crash, Forget
<1>2. ASSUME NEW m \in Mounts, CreateIndex(m)  PROVE shared \subseteq shared'
  BY <1>2 DEF CreateIndex
<1>3. harm' = harm \/ harm' = TRUE
  BY DEF Next, vars, Open, LookForIndex, IndexUnreadable, ReadUsize, ReadRest, ReadEOF,
         BuildIndex, CreateIndex, WriteNumber, IOFails, Unmount, Crash, Forget
<1>4. harm => harm'
  BY <1>3, Zenon
<1> QED
  BY <1>1, <1>2, <1>4

LEMMA CoveredStep ==
    Distinct /\ TypeOK /\ CellsOK /\ CoveredOK /\ [Next]_vars => CoveredOK'
<1> DEFINE Right(f, i) == i <= Len(Idx(f)) /\ Idx(f)[i] = Number(f, i)
           Cover(f, i) == \E m \in Mounts : Writes(m, f) /\ pos[m] <= i
<1> SUFFICES ASSUME Distinct, TypeOK, CellsOK, CoveredOK, [Next]_vars, ~harm',
                    NEW f \in Sources, Idx(f)' # Null, NEW i \in 1..Size(f)
             PROVE  Right(f, i)' \/ Cover(f, i)'
  BY DEF CoveredOK
<1>1. Idx(f) # Null => Right(f, i) \/ Cover(f, i)
  BY History DEF CoveredOK
<1>2. ASSUME NEW n \in Mounts, Writes(n, f), pos[n] <= i, ~WriteNumber(n)
      PROVE  Cover(f, i)'
  <2>1. pc'[n] = "write" /\ file'[n] = file[n] /\ pos'[n] = pos[n]
    BY <1>2, WriterStays DEF Writes
  <2> QED
    BY <1>2, <2>1 DEF Writes
<1>3. CASE \A m \in Mounts : ~CreateIndex(m) /\ ~WriteNumber(m)
  <2>1. Idx(f)' = Idx(f)
    BY <1>3, IdxSteps DEF Idx
  <2> QED
    BY <1>1, <1>2, <1>3, <2>1
<1>4. ASSUME NEW m \in Mounts, CreateIndex(m)  PROVE Right(f, i)' \/ Cover(f, i)'
  <2>1. CASE f = file[m]
    <3>1. pc'[m] = "write" /\ file'[m] = f /\ pos'[m] = 1
      BY <1>4, <2>1 DEF CreateIndex, TypeOK
    <3> QED
      BY <3>1 DEF Writes
  <2>2. CASE f # file[m]
    <3>1. Idx(f)' = Idx(f)
      BY <1>4, <2>2, CreateAt
    <3>2. \A n \in Mounts : ~WriteNumber(n) \/ ~Writes(n, f)
      <4> SUFFICES ASSUME NEW n \in Mounts, WriteNumber(n) PROVE FALSE
        OBVIOUS
      <4>1. pc'[m] = "write" /\ pc[m] = "create" /\ pc[n] = "write"
        BY <1>4 DEF CreateIndex, WriteNumber, TypeOK
      <4>2. pc'[m] = pc[m]
        BY <4>1 DEF WriteNumber, TypeOK
      <4> QED
        BY <4>1, <4>2
    <3> QED
      BY <1>1, <1>2, <3>1, <3>2
  <2> QED
    BY <2>1, <2>2
<1>5. ASSUME NEW m \in Mounts, WriteNumber(m)  PROVE Right(f, i)' \/ Cover(f, i)'
  <2>0. pc[m] = "write" /\ file[m] \in Sources
    BY <1>5, IdxAfterWrite DEF WriteNumber
  <2>1. \A n \in Mounts \ {m} :
           pc'[n] = pc[n] /\ file'[n] = file[n] /\ pos'[n] = pos[n]
    BY <1>5 DEF WriteNumber, TypeOK
  <2>2. CASE f # file[m]
    <3>1. Idx(f)' = Idx(f)
      BY <1>5, <2>2, WriteAt
    <3>2. ~Writes(m, f)
      BY <2>0, <2>2 DEF Writes, Distinct
    <3> QED
      BY <1>1, <2>1, <3>1, <3>2 DEF Writes
  <2>3. CASE f = file[m]
    <3>1. /\ Idx(f) # Null /\ Len(Idx(f)) \in Nat /\ pos[m] \in 1..Size(f)
          /\ Len(Idx(f)') = IF pos[m] <= Len(Idx(f)) THEN Len(Idx(f)) ELSE pos[m]
          /\ \A k \in 1..Len(Idx(f)') :
                Idx(f)'[k] = IF k = pos[m] THEN Number(f, k)
                             ELSE IF k <= Len(Idx(f)) THEN Idx(f)[k] ELSE 0
      BY <1>5, <2>3, WriteAt
    <3>2. CASE i = pos[m]
      BY <3>1, <3>2
    <3>3. CASE i # pos[m] /\ Right(f, i)
      BY <3>1, <3>3, Numbers
    <3>4. ASSUME NEW n \in Mounts \ {m}, Writes(n, f), pos[n] <= i  PROVE Cover(f, i)'
      BY <2>1, <3>4 DEF Writes
    <3>5. CASE i # pos[m] /\ pos[m] <= i
      <4>1. pos[m] # Size(f) /\ pos[m] + 1 <= i
        BY <3>1, <3>5, Numbers
      <4>2. pc'[m] = "write" /\ file'[m] = file[m] /\ pos'[m] = pos[m] + 1
        BY <1>5, <2>3, <4>1 DEF WriteNumber, TypeOK
      <4> QED
        BY <2>3, <4>1, <4>2 DEF Writes
    <3> QED
      BY <1>1, <3>1, <3>2, <3>3, <3>4, <3>5
  <2> QED
    BY <2>2, <2>3
<1> QED
  BY <1>3, <1>4, <1>5

-----------------------------------------------------------------------------
(* As long as no two mounts wrote it at once, an index holds a prefix of   *)
(* the whole one, and its writer stands behind that prefix.                *)
LEMMA SoleStep == Distinct /\ TypeOK /\ SoleOK /\ [Next]_vars => SoleOK'
<1> DEFINE Sole(f) ==
        /\ \A i \in 1..Len(Idx(f)) : Idx(f)[i] = Number(f, i)
        /\ \A m, n \in Mounts : Writes(m, f) /\ Writes(n, f) => m = n
        /\ \A m \in Mounts : Writes(m, f) => pos[m] = Len(Idx(f)) + 1
<1> SUFFICES ASSUME Distinct, TypeOK, SoleOK, [Next]_vars,
                    NEW f \in Sources, Index[f] \notin shared', Idx(f)' # Null
             PROVE  Sole(f)'
  BY DEF SoleOK
<1>1. Idx(f) # Null => Sole(f)
  BY History DEF SoleOK
<1>2. CASE \A m \in Mounts : ~CreateIndex(m) /\ ~WriteNumber(m)
  <2>1. Idx(f)' = Idx(f)
    BY <1>2, IdxSteps DEF Idx
  <2>2. \A n \in Mounts : Writes(n, f)' => Writes(n, f) /\ pos'[n] = pos[n]
    <3> SUFFICES ASSUME NEW n \in Mounts, Writes(n, f)'
                 PROVE  Writes(n, f) /\ pos'[n] = pos[n]
      OBVIOUS
    <3> USE DEF TypeOK, Writes
    <3>1. ASSUME NEW m \in Mounts, NEW g \in Sources, Open(m, g)
          PROVE  Writes(n, f) /\ pos'[n] = pos[n]
      BY <3>1 DEF Open
    <3>2. ASSUME NEW m \in Mounts, LookForIndex(m) \/ IndexUnreadable(m) \/ ReadUsize(m)
          PROVE  Writes(n, f) /\ pos'[n] = pos[n]
      BY <3>2 DEF LookForIndex, IndexUnreadable, ReadUsize, Outcome
    <3>3. ASSUME NEW m \in Mounts, ReadRest(m) \/ ReadEOF(m) \/ BuildIndex(m) \/ IOFails(m)
          PROVE  Writes(n, f) /\ pos'[n] = pos[n]
      BY <3>3 DEF ReadRest, ReadEOF, BuildIndex, IOFails
    <3>4. ASSUME NEW m \in Mounts, Unmount(m) \/ Crash(m)
          PROVE  Writes(n, f) /\ pos'[n] = pos[n]
      BY <3>4 DEF Unmount, Crash, Forget
    <3>5. CASE UNCHANGED vars
      BY <3>5 DEF vars
    <3> QED
      BY <1>2, <3>1, <3>2, <3>3, <3>4, <3>5 DEF Next
  <2> QED
    BY <1>1, <2>1, <2>2
<1>3. ASSUME NEW m \in Mounts, CreateIndex(m)  PROVE Sole(f)'
  <2>1. \A n \in Mounts \ {m} : pc'[n] = pc[n] /\ file'[n] = file[n] /\ pos'[n] = pos[n]
    BY <1>3 DEF CreateIndex, TypeOK
  <2>2. file' = file /\ pos'[m] = 1 /\ file[m] \in Sources
    BY <1>3, IdxAfterCreate DEF CreateIndex, TypeOK
  <2>3. CASE f = file[m]
    <3>1. \A n \in Mounts \ {m} : ~Writes(n, f)
      BY <1>3, <2>3 DEF CreateIndex
    <3>2. Idx(f)' = <<>>
      BY <1>3, <2>3, CreateAt
    <3>3. \A n \in Mounts \ {m} : ~Writes(n, f)'
      BY <2>1, <3>1 DEF Writes
    <3> QED
      BY <2>2, <3>2, <3>3
  <2>4. CASE f # file[m]
    <3>1. ~Writes(m, f)'
      BY <2>2, <2>4 DEF Writes, Distinct
    <3>2. Idx(f)' = Idx(f)
      BY <1>3, <2>4, CreateAt
    <3>3. \A n \in Mounts : Writes(n, f)' => Writes(n, f) /\ pos'[n] = pos[n]
      BY <2>1, <3>1 DEF Writes
    <3> QED
      BY <1>1, <3>2, <3>3
  <2> QED
    BY <2>3, <2>4
<1>4. ASSUME NEW m \in Mounts, WriteNumber(m)  PROVE Sole(f)'
  <2>1. \A n \in Mounts \ {m} : pc'[n] = pc[n] /\ file'[n] = file[n] /\ pos'[n] = pos[n]
    BY <1>4 DEF WriteNumber, TypeOK
  <2>2. file' = file /\ pos'[m] = pos[m] + 1 /\ file[m] \in Sources /\ pc[m] = "write"
    BY <1>4, IdxAfterWrite DEF WriteNumber, TypeOK
  <2>3. \A n \in Mounts : Writes(n, f)' => Writes(n, f)
    BY <2>1, <2>2 DEF Writes
  <2>4. CASE f = file[m]
    <3>1. /\ Idx(f) # Null /\ Len(Idx(f)) \in Nat /\ pos[m] \in 1..Size(f)
          /\ Len(Idx(f)') = IF pos[m] <= Len(Idx(f)) THEN Len(Idx(f)) ELSE pos[m]
          /\ \A k \in 1..Len(Idx(f)') :
                Idx(f)'[k] = IF k = pos[m] THEN Number(f, k)
                             ELSE IF k <= Len(Idx(f)) THEN Idx(f)[k] ELSE 0
      BY <1>4, <2>4, WriteAt
    <3>2. Writes(m, f) /\ pos[m] = Len(Idx(f)) + 1
      BY <1>1, <2>2, <2>4, <3>1 DEF Writes
    <3>3. Len(Idx(f)') = Len(Idx(f)) + 1
      BY <3>1, <3>2
    <3>4. \A i \in 1..Len(Idx(f)') : Idx(f)'[i] = Number(f, i)
      BY <1>1, <3>1, <3>2, <3>3
    <3>5. \A n \in Mounts : Writes(n, f)' => n = m
      BY <1>1, <2>3, <3>1, <3>2
    <3> QED
      BY <2>2, <3>2, <3>3, <3>4, <3>5
  <2>5. CASE f # file[m]
    <3>1. ~Writes(m, f)'
      BY <2>2, <2>5 DEF Writes, Distinct
    <3>2. Idx(f)' = Idx(f)
      BY <1>4, <2>5, WriteAt
    <3>3. \A n \in Mounts : Writes(n, f)' => Writes(n, f) /\ pos'[n] = pos[n]
      BY <2>1, <3>1 DEF Writes
    <3> QED
      BY <1>1, <3>2, <3>3
  <2> QED
    BY <2>4, <2>5
<1> QED
  BY <1>2, <1>3, <1>4

-----------------------------------------------------------------------------
(* What a reader meets in an index that no two mounts wrote at once.       *)
LEMMA NextNumber ==
    ASSUME TypeOK, ReadersOK, SoleOK, NEW m \in Mounts, Index[file[m]] \notin shared,
           pc[m] \in {"read", "readRest"}, pos[m] <= Len(Here(m))
    PROVE  LET n == Len(mBlocks[m])
               v == Here(m)[pos[m]]
           IN  /\ pc[m] = "read" /\ v = 0 => n = Len(Built[file[m]])
               /\ pc[m] = "read" /\ v # 0 =>
                     n + 1 \in 1..Len(Built[file[m]]) /\ v = Built[file[m]][n + 1].usize
               /\ pc[m] = "readRest" =>
                     n + 1 \in 1..Len(Built[file[m]]) /\ v = Built[file[m]][n + 1].coff
<1> DEFINE f == file[m]
           n == Len(mBlocks[m])
           v == Here(m)[pos[m]]
<1>1. f \in Sources /\ pos[m] \in 1..Len(Here(m)) /\ Here(m) = Idx(f) /\ Idx(f) # Null
  BY HereType
<1>2. v = Number(f, pos[m])
  BY <1>1 DEF SoleOK
<1>3. n \in Nat /\ Len(Built[f]) \in Nat
  BY <1>1, Numbers DEF TypeOK
<1>4. \A k \in 1..Len(Built[f]) : /\ Number(f, 2 * k - 1) = Built[f][k].usize
                                  /\ Number(f, 2 * k) = Built[f][k].coff
                                  /\ Built[f][k].usize # 0
  BY <1>1, Numbers
<1>5. CASE pc[m] = "read"
  <2>1. pos[m] = 2 * n + 1 /\ n <= Len(Built[f])
    BY <1>5 DEF ReadersOK
  <2>2. CASE n = Len(Built[f])
    <3>1. v = 0
      BY <1>1, <1>2, <2>1, <2>2, Numbers
    <3> QED
      BY <1>5, <2>2, <3>1
  <2>3. CASE n < Len(Built[f])
    <3>1. n + 1 \in 1..Len(Built[f]) /\ 2 * (n + 1) - 1 = pos[m]
      BY <1>3, <2>1, <2>3
    <3>2. v = Built[f][n + 1].usize /\ v # 0
      BY <1>2, <1>4, <3>1
    <3> QED
      BY <1>5, <3>1, <3>2
  <2> QED
    BY <1>3, <2>1, <2>2, <2>3
<1>6. CASE pc[m] = "readRest"
  <2>1. n + 1 \in 1..Len(Built[f]) /\ 2 * (n + 1) = pos[m]
    BY <1>3, <1>6 DEF ReadersOK
  <2>2. v = Built[f][n + 1].coff
    BY <1>2, <1>4, <2>1
  <2> QED
    BY <1>6, <2>1, <2>2
<1> QED
  BY <1>5, <1>6

LEMMA FaithfulStep ==
    TypeOK /\ WritersOK /\ ReadersOK /\ SoleOK /\ ReadersFaithful /\ [Next]_vars => ReadersFaithful'
<1> DEFINE Faithful(m) ==
        pc[m] \in {"read", "readRest"} /\ Index[file[m]] \notin shared =>
            /\ \A k \in 1..Len(mBlocks[m]) : mBlocks[m][k] = Built[file[m]][k]
            /\ pc[m] = "readRest" => usize[m] = Built[file[m]][Len(mBlocks[m]) + 1].usize
<1> SUFFICES ASSUME TypeOK, WritersOK, ReadersOK, SoleOK, ReadersFaithful, [Next]_vars
             PROVE  \A n \in Mounts : Faithful(n)'
  BY DEF ReadersFaithful
<1>0. shared \subseteq shared' /\ \A n \in Mounts : Faithful(n)
  BY History DEF ReadersFaithful
<1>1. ASSUME NEW m \in Mounts, LookForIndex(m)  PROVE \A n \in Mounts : Faithful(n)'
  <2>1. mBlocks' = mBlocks /\ Len(mBlocks[m]) = 0 /\ file' = file /\ usize' = usize
    BY <1>1 DEF LookForIndex, WritersOK
  <2>2. pc'[m] # "readRest" /\ \A n \in Mounts \ {m} : pc'[n] = pc[n]
    BY <1>1 DEF LookForIndex, TypeOK
  <2> QED
    BY <1>0, <2>1, <2>2
<1>2. ASSUME NEW m \in Mounts, ReadUsize(m)  PROVE \A n \in Mounts : Faithful(n)'
  <2>1. /\ pc[m] = "read" /\ pos[m] <= Len(Here(m)) /\ usize'[m] = Here(m)[pos[m]]
        /\ mBlocks' = mBlocks /\ file' = file /\ shared' = shared
    BY <1>2 DEF ReadUsize, TypeOK
  <2>2. pc'[m] # "read" /\ (pc'[m] = "readRest" => Here(m)[pos[m]] # 0)
    BY <1>2 DEF ReadUsize, TypeOK, Outcome
  <2>3. \A n \in Mounts \ {m} : pc'[n] = pc[n] /\ usize'[n] = usize[n]
    BY <1>2 DEF ReadUsize, TypeOK
  <2>4. Faithful(m)'
    BY <1>0, <2>1, <2>2, NextNumber
  <2> QED
    BY <1>0, <2>1, <2>3, <2>4
<1>3. ASSUME NEW m \in Mounts, ReadRest(m)  PROVE \A n \in Mounts : Faithful(n)'
  <2> DEFINE b == [usize |-> usize[m], coff |-> Here(m)[pos[m]]]
             n1 == Len(mBlocks[m]) + 1
  <2>1. /\ pc[m] = "readRest" /\ pos[m] <= Len(Here(m))
        /\ pc'[m] = "read" /\ usize' = usize /\ file' = file /\ shared' = shared
        /\ mBlocks'[m] = Append(mBlocks[m], b)
    BY <1>3 DEF ReadRest, TypeOK
  <2>2. \A n \in Mounts \ {m} : pc'[n] = pc[n] /\ mBlocks'[n] = mBlocks[n]
    BY <1>3 DEF ReadRest, TypeOK
  <2>3. ASSUME Index[file[m]] \notin shared
        PROVE  \A k \in 1..Len(mBlocks'[m]) : mBlocks'[m][k] = Built[file[m]][k]
    <3>1. /\ n1 \in 1..Len(Built[file[m]]) /\ usize[m] = Built[file[m]][n1].usize
          /\ Here(m)[pos[m]] = Built[file[m]][n1].coff
      BY <1>0, <2>1, <2>3, NextNumber
    <3>2. b = Built[file[m]][n1]
      BY <2>1, <3>1, HereType, Numbers DEF Block
    <3>3. mBlocks[m] \in Seq(Block) /\ b \in Block
      BY <2>1, <3>1, <3>2, HereType, Numbers, SMTT(60) DEF TypeOK
    <3> HIDE DEF b
    <3>4. Len(mBlocks'[m]) = n1 /\ mBlocks'[m][n1] = b
          /\ \A k \in 1..Len(mBlocks[m]) : mBlocks'[m][k] = mBlocks[m][k]
      BY <2>1, <3>3
    <3>5. \A k \in 1..Len(mBlocks[m]) : mBlocks[m][k] = Built[file[m]][k]
      BY <1>0, <2>1, <2>3
    <3>6. \A k \in 1..n1 : k = n1 \/ k \in 1..Len(mBlocks[m])
      BY <3>3
    <3> QED
      BY <3>2, <3>4, <3>5, <3>6
  <2>4. Faithful(m)'
    BY <2>1, <2>3
  <2> QED
    <3> SUFFICES ASSUME NEW n \in Mounts \ {m} PROVE Faithful(n)'
      BY <2>4
    <3> HIDE DEF b
    <3> QED
      BY <1>0, <2>1, <2>2
<1>4. ASSUME NEW m \in Mounts, NEW f \in Sources, Open(m, f)
      PROVE  \A n \in Mounts : Faithful(n)'
  <2>1. mBlocks' = mBlocks /\ usize' = usize /\ shared' = shared /\ pc'[m] = "open"
        /\ \A n \in Mounts \ {m} : pc'[n] = pc[n] /\ file'[n] = file[n]
    BY <1>4 DEF Open, TypeOK
  <2> QED
    BY <1>0, <2>1
<1>5. ASSUME NEW m \in Mounts,
             IndexUnreadable(m) \/ ReadEOF(m) \/ BuildIndex(m) \/ CreateIndex(m)
                \/ WriteNumber(m) \/ IOFails(m) \/ Unmount(m) \/ Crash(m)
      PROVE  \A n \in Mounts : Faithful(n)'
  <2>1. pc'[m] \notin {"read", "readRest"}
    BY <1>5 DEF TypeOK, IndexUnreadable, ReadEOF, BuildIndex, CreateIndex, WriteNumber, Outcome,
                IOFails, Unmount, Crash, Forget
  <2>2. \A n \in Mounts \ {m} : /\ pc'[n] = pc[n] /\ usize'[n] = usize[n]
                                /\ file'[n] = file[n] /\ mBlocks'[n] = mBlocks[n]
    BY <1>5 DEF TypeOK, IndexUnreadable, ReadEOF, BuildIndex, CreateIndex, WriteNumber,
                IOFails, Unmount, Crash, Forget
  <2> QED
    <3> SUFFICES ASSUME NEW n \in Mounts, n # m PROVE Faithful(n)'
      BY <2>1
    <3>1. /\ pc'[n] = pc[n] /\ usize'[n] = usize[n]
          /\ file'[n] = file[n] /\ mBlocks'[n] = mBlocks[n]
      BY <2>2
    <3>2. Faithful(n) /\ (Index[file[n]] \notin shared' => Index[file[n]] \notin shared)
      BY <1>0
    <3> QED
      BY <3>1, <3>2
<1>6. CASE UNCHANGED vars
  BY <1>0, <1>6 DEF vars
<1> QED
  BY <1>1, <1>2, <1>3, <1>4, <1>5, <1>6 DEF Next

LEMMA ServesStep ==
    ASSUME TypeOK, WritersOK, ReadersOK, SoleOK, ReadersFaithful, ServesWholeFile, [Next]_vars
    PROVE  ServesWholeFile'
<1> DEFINE Serves(m) ==
        pc[m] = "ready" /\ Index[file[m]] \notin shared => mBlocks[m] = Built[file[m]]
<1> SUFFICES \A n \in Mounts : Serves(n)'
  BY DEF ServesWholeFile
<1>0. shared \subseteq shared' /\ \A n \in Mounts : Serves(n)
  BY History DEF ServesWholeFile
<1>1. ASSUME NEW m \in Mounts, ReadUsize(m)  PROVE \A n \in Mounts : Serves(n)'
  <2>1. /\ pc[m] = "read" /\ pos[m] <= Len(Here(m))
        /\ mBlocks' = mBlocks /\ file' = file /\ shared' = shared
    BY <1>1 DEF ReadUsize, TypeOK
  <2>2. pc'[m] = "ready" => Here(m)[pos[m]] = 0
    BY <1>1 DEF ReadUsize, TypeOK, Outcome
  <2>3. \A n \in Mounts \ {m} : pc'[n] = pc[n]
    BY <1>1 DEF ReadUsize, TypeOK
  <2>4. ASSUME pc'[m] = "ready", Index[file[m]] \notin shared
        PROVE  mBlocks[m] = Built[file[m]]
    <3>1. Len(mBlocks[m]) = Len(Built[file[m]])
      BY <2>1, <2>2, <2>4, NextNumber
    <3>2. \A k \in 1..Len(mBlocks[m]) : mBlocks[m][k] = Built[file[m]][k]
      BY <2>1, <2>4 DEF ReadersFaithful
    <3>3. mBlocks[m] \in Seq(Block) /\ Built[file[m]] \in Seq(Block)
      BY <2>1, HereType, IndexAssumption DEF TypeOK
    <3> QED
      BY <3>1, <3>2, <3>3, SeqEqual
  <2> QED
    BY <1>0, <2>1, <2>3, <2>4
<1>2. ASSUME NEW m \in Mounts, WriteNumber(m)  PROVE \A n \in Mounts : Serves(n)'
  <2>1. /\ mBlocks' = mBlocks /\ file' = file /\ shared' = shared
        /\ mBlocks[m] = Built[file[m]]
        /\ \A n \in Mounts \ {m} : pc'[n] = pc[n]
    BY <1>2 DEF WriteNumber, TypeOK, WritersOK
  <2> QED
    BY <1>0, <2>1
<1>3. ASSUME NEW m \in Mounts, NEW f \in Sources, Open(m, f)
      PROVE  \A n \in Mounts : Serves(n)'
  <2>1. mBlocks' = mBlocks /\ shared' = shared /\ pc'[m] = "open"
        /\ \A n \in Mounts \ {m} : pc'[n] = pc[n] /\ file'[n] = file[n]
    BY <1>3 DEF Open, TypeOK
  <2> QED
    BY <1>0, <2>1
<1>4. ASSUME NEW m \in Mounts,
             LookForIndex(m) \/ IndexUnreadable(m) \/ ReadRest(m) \/ ReadEOF(m) \/ BuildIndex(m)
                \/ CreateIndex(m) \/ IOFails(m) \/ Unmount(m) \/ Crash(m)
      PROVE  \A n \in Mounts : Serves(n)'
  <2>1. pc'[m] # "ready"
    BY <1>4 DEF TypeOK, LookForIndex, IndexUnreadable, ReadRest, ReadEOF, BuildIndex, CreateIndex,
                IOFails, Unmount, Crash, Forget
  <2>2. \A n \in Mounts \ {m} :
           pc'[n] = pc[n] /\ file'[n] = file[n] /\ mBlocks'[n] = mBlocks[n]
    BY <1>4 DEF TypeOK, LookForIndex, IndexUnreadable, ReadRest, ReadEOF, BuildIndex, CreateIndex,
                IOFails, Unmount, Crash, Forget
  <2> QED
    BY <1>0, <2>1, <2>2
<1>5. CASE UNCHANGED vars
  BY <1>0, <1>5 DEF vars
<1> QED
  BY <1>1, <1>2, <1>3, <1>4, <1>5 DEF Next

-----------------------------------------------------------------------------
(* The invariant, for any number of mounts, killed and failing at will.    *)
THEOREM IndexInvariant == ASSUME Distinct PROVE Spec => []Inv
<1>1. Inv /\ [Next]_vars => Inv'
  BY TypeStep, CellsStep, WritersStep, ReadersStep, SoleStep, FaithfulStep, CoveredStep, ServesStep
     DEF Inv
<1> QED
  BY InitInv, <1>1, PTL DEF Spec

(* Whatever mounts share, a mount that reads or writes an index has a file *)
(* there and an offset in it (loadIndex in src/CompressedFile.cc).         *)
THEOREM IndexTypes == Spec => []TypeOK
<1>1. Init => TypeOK
  BY InitInv DEF Inv
<1> QED
  BY <1>1, TypeStep, PTL DEF Spec

(* A half-written index is never taken for a whole one, unless two mounts  *)
(* have written it at once.                                                *)
THEOREM SourcesAreServedWhole == ASSUME Distinct PROVE Spec => []ServesWholeFile
  BY IndexInvariant, PTL DEF Inv

(* Mounts that write one index over one another leave it whole.            *)
THEOREM IndexesAreLeftWhole == ASSUME Distinct PROVE Spec => []IndexLeftWhole
<1>1. Inv => IndexLeftWhole
  <2> SUFFICES ASSUME Inv, ~harm, NEW f \in Sources, Idx(f) # Null,
                      \A m \in Mounts : ~Writes(m, f)
               PROVE  Idx(f) = Whole(f)
    BY DEF IndexLeftWhole, Idx
  <2>1. Idx(f) \in Seq(Nat) /\ Size(f) \in Nat
    BY Numbers DEF Inv, TypeOK, Idx, Paths
  <2>2. \A i \in 1..Size(f) : i <= Len(Idx(f)) /\ Idx(f)[i] = Number(f, i)
    BY DEF Inv, CoveredOK
  <2>3. Len(Idx(f)) = Size(f)
    <3>1. Size(f) \in 1..Size(f)
      BY Numbers
    <3> QED
      BY <2>1, <2>2, <3>1 DEF Inv, CellsOK
  <2>4. Whole(f) \in Seq(Nat) /\ Len(Whole(f)) = Size(f)
        /\ \A i \in 1..Size(f) : Whole(f)[i] = Number(f, i)
    BY <2>1, Numbers DEF Whole
  <2> QED
    BY <2>1, <2>2, <2>3, <2>4, SeqEqual
<1> QED
  BY IndexInvariant, <1>1, PTL

(* As long as nothing fails, a source is only skipped while another mount  *)
(* writes its index.                                                       *)
THEOREM SkipsOnlyBesideWriters == ASSUME Distinct PROVE Spec => SkipsOnlyBesideWriter
<1> DEFINE Beside(m) == \E n \in Mounts \ {m} : Writes(n, file[m])
           Harmless == \A m \in Mounts :
                          pc[m] # "skipped" /\ pc'[m] = "skipped" /\ ~harm' => Beside(m)
<1>1. ASSUME Inv, [Next]_vars  PROVE Harmless
  <2> SUFFICES ASSUME NEW m \in Mounts, pc[m] # "skipped", pc'[m] = "skipped", ~harm'
               PROVE  Beside(m)
    OBVIOUS
  <2> USE DEF Inv
  <2>1. ~harm
    BY <1>1, History
  <2>2. ASSUME pc[m] \in {"read", "readRest"}, NEW i \in 1..Size(file[m]),
               i > Len(Here(m)) \/ Here(m)[i] # Number(file[m], i)
        PROVE  Beside(m)
    <3>1. file[m] \in Sources /\ Here(m) = Idx(file[m]) /\ Idx(file[m]) # Null
          /\ Len(Here(m)) \in Nat /\ Size(file[m]) \in Nat
      BY <1>1, <2>2, HereType, Numbers
    <3>2. PICK n \in Mounts : Writes(n, file[m])
      BY <1>1, <2>1, <2>2, <3>1 DEF CoveredOK
    <3>3. n # m
      BY <2>2, <3>2 DEF Writes
    <3> QED
      BY <3>2, <3>3
  <2>3. CASE pc[m] = "read" /\ mBlocks[m] = <<>> /\ Here(m)[pos[m]] = 0
    <3>1. file[m] \in Sources /\ pos[m] = 1 /\ 1 \in 1..Size(file[m])
      BY <1>1, <2>3, HereType, Numbers DEF ReadersOK
    <3>2. Number(file[m], 1) # 0
      <4>1. 1 \in 1..Len(Built[file[m]]) /\ 2 * 1 - 1 = 1
        BY <3>1, IndexAssumption
      <4> QED
        BY <3>1, <4>1, Numbers
    <3> QED
      BY <2>2, <2>3, <3>1, <3>2
  <2>4. CASE pc[m] \in {"read", "readRest"} /\ pos[m] > Len(Here(m))
    <3>1. pos[m] \in 1..Size(file[m])
      <4>1. file[m] \in Sources /\ pos[m] \in Nat \ {0} /\ Len(mBlocks[m]) \in Nat
        BY <1>1, <2>4, HereType DEF TypeOK
      <4>2. Len(Built[file[m]]) \in Nat /\ Size(file[m]) = 2 * Len(Built[file[m]]) + 1
        BY <4>1, Numbers
      <4> QED
        BY <1>1, <2>4, <4>1, <4>2 DEF ReadersOK
    <3> QED
      BY <2>2, <2>4, <3>1
  <2>5. ASSUME NEW n \in Mounts, ReadUsize(n)  PROVE Beside(m)
    <3>1. n = m /\ pc[m] = "read" /\ Here(m)[pos[m]] = 0 /\ mBlocks[m] = <<>>
      BY <1>1, <2>5 DEF ReadUsize, Outcome, TypeOK
    <3> QED
      BY <2>3, <3>1
  <2>6. ASSUME NEW n \in Mounts, ReadEOF(n)  PROVE Beside(m)
    <3>1. n = m /\ pc[m] \in {"read", "readRest"} /\ pos[m] > Len(Here(m))
      BY <1>1, <2>6 DEF ReadEOF, TypeOK
    <3> QED
      BY <2>4, <3>1
  <2>7. ASSUME NEW n \in Mounts, WriteNumber(n)  PROVE FALSE
    <3>1. mBlocks[n] = Built[file[n]] /\ file[n] \in Sources
      BY <1>1, <2>7, IdxAfterWrite DEF WriteNumber, WritersOK
    <3>2. mBlocks[n] # <<>>
      BY <3>1, IndexAssumption
    <3> QED
      BY <1>1, <2>7, <3>2 DEF WriteNumber, Outcome, TypeOK
  <2>8. ASSUME NEW n \in Mounts,
               (\E f \in Sources : Open(n, f)) \/ LookForIndex(n) \/ IndexUnreadable(n)
                  \/ ReadRest(n) \/ BuildIndex(n) \/ CreateIndex(n) \/ Unmount(n)
        PROVE  FALSE
    BY <1>1, <2>8 DEF TypeOK, Open, LookForIndex, IndexUnreadable, ReadRest, BuildIndex,
                      CreateIndex, Unmount, Forget
  <2>9. ASSUME NEW n \in Mounts, IOFails(n) \/ Crash(n)  PROVE FALSE
    BY <2>9 DEF IOFails, Crash
  <2>10. CASE UNCHANGED vars
    BY <2>10 DEF vars
  <2> QED
    BY <1>1, <2>5, <2>6, <2>7, <2>8, <2>9, <2>10 DEF Next
<1>2. Inv /\ [Next]_vars => [Harmless]_vars
  BY <1>1
<1> QED
  BY IndexInvariant, <1>2, PTL DEF Spec, SkipsOnlyBesideWriter
=============================================================================
