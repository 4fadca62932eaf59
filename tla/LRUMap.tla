------------------------------ MODULE LRUMap ------------------------------
(***************************************************************************)
(* The weighted LRU map of src/LRUMap.h: a list of entries, most recently  *)
(* used first, and a hash map from each key to its list node.              *)
(*                                                                         *)
(* A list node is represented by the entry it holds: list iterators stay   *)
(* valid while nodes move, so mMap[k] is the entry itself.                 *)
(***************************************************************************)
EXTENDS Integers, Sequences, Functions

CONSTANTS Keys, Values,
          Weights       \* the weights callers give entries and limits

ASSUME LRUAssumption == Weights \subseteq Nat

VARIABLES mLRU,         \* sequence of entries, most recent first
          mMap,         \* key -> entry, for the keys present
          mWeight,      \* running total of the entries' weights
          mMaxWeight    \* the limit

lruVars == <<mLRU, mMap, mWeight, mMaxWeight>>

Entry == [key : Keys, value : Values, weight : Weights]

TypeOK ==
    /\ mLRU \in Seq(Entry)
    /\ DOMAIN mMap \subseteq Keys
    /\ \A k \in DOMAIN mMap : mMap[k] \in Entry
    /\ mWeight \in Nat
    /\ mMaxWeight \in Nat

(* LRUMap(maxWeight)                                                       *)
Init ==
    /\ mLRU = <<>>
    /\ mMap = <<>>
    /\ mWeight = 0
    /\ mMaxWeight \in Weights

-----------------------------------------------------------------------------
(* Total weight of the entries at positions i..j.                          *)
WeightOf(i, j) ==
    SumFunctionOnSet([n \in DOMAIN mLRU |-> mLRU[n].weight], i..j)

(* Mutants of KeepsFirst: it stops one entry early; it evicts on equality. *)
KeepsOneTooMany(n, room) ==
    /\ n = 0 \/ n = Len(mLRU) \/ mWeight - WeightOf(n + 2, Len(mLRU)) <= room
    /\ \A m \in n+1..Len(mLRU) : mWeight - WeightOf(m + 1, Len(mLRU)) > room
KeepsOneTooFew(n, room) ==
    /\ n = 0 \/ mWeight - WeightOf(n + 1, Len(mLRU)) < room
    /\ \A m \in n+1..Len(mLRU) : mWeight - WeightOf(m + 1, Len(mLRU)) >= room

(* makeRoom pops entries off the back while the total exceeds the room: it *)
(* stops with the first n entries left.                                    *)
KeepsFirst(n, room) ==
    /\ n = 0 \/ mWeight - WeightOf(n + 1, Len(mLRU)) <= room
    /\ \A m \in n+1..Len(mLRU) : mWeight - WeightOf(m + 1, Len(mLRU)) > room

(* Mutant of MapOfFirst: the hash map keeps the popped keys.               *)
MapOfAll(n) == mMap

(* The keys that makeRoom leaves in the hash map with the first n entries. *)
MapOfFirst(n) ==
    LET gone == {mLRU[i].key : i \in n+1..Len(mLRU)}
    IN  [k \in DOMAIN mMap \ gone |-> mMap[k]]

(* Mutant of MarkNew: the node stays where it is.                          *)
MarkNothing(k) == UNCHANGED lruVars

(* markNew: splice the node of k to the front.                             *)
MarkNew(k) ==
    \E i \in 1..Len(mLRU) :
        /\ mLRU[i] = mMap[k]
        /\ mLRU' = [j \in 1..Len(mLRU) |->
                       IF j = 1 THEN mLRU[i]
                       ELSE IF j <= i THEN mLRU[j - 1] ELSE mLRU[j]]
        /\ UNCHANGED <<mMap, mWeight, mMaxWeight>>

Find(k) ==
    IF k \in DOMAIN mMap THEN MarkNew(k) ELSE UNCHANGED lruVars

(* add() of a new key that fits: make room, then push it to the front.     *)
Insert(k, v, w) ==
    LET e == [key |-> k, value |-> v, weight |-> w]
    IN  \E n \in 0..Len(mLRU) :
            /\ KeepsFirst(n, mMaxWeight - w)
            /\ mLRU' = <<e>> \o SubSeq(mLRU, 1, n)
            /\ mMap' = [x \in DOMAIN MapOfFirst(n) \cup {k} |->
                           IF x = k THEN e ELSE mMap[x]]
            /\ mWeight' = mWeight - WeightOf(n + 1, Len(mLRU)) + w
            /\ UNCHANGED mMaxWeight

(* add(): a key already present counts as a read; an entry heavier than    *)
(* the limit is refused (OverWeight) and nothing changes.                  *)
Add(k, v, w) ==
    IF k \in DOMAIN mMap THEN MarkNew(k)
    ELSE IF w > mMaxWeight THEN UNCHANGED lruVars
    ELSE Insert(k, v, w)

(* maxWeight(w)                                                            *)
SetMaxWeight(w) ==
    \E n \in 0..Len(mLRU) :
        /\ KeepsFirst(n, w)
        /\ mLRU' = SubSeq(mLRU, 1, n)
        /\ mMap' = MapOfFirst(n)
        /\ mWeight' = mWeight - WeightOf(n + 1, Len(mLRU))
        /\ mMaxWeight' = w

Next ==
    \/ \E k \in Keys : Find(k)
    \/ \E k \in Keys, v \in Values, w \in Weights : Add(k, v, w)
    \/ \E w \in Weights : SetMaxWeight(w)

Spec == Init /\ [][Next]_lruVars

-----------------------------------------------------------------------------
(* List and hash map describe the same entries: every list node is the one *)
(* its key maps to, no key is listed twice, no key maps to a node that has *)
(* been popped (find() would follow a dangling iterator).                  *)
MapMatchesList ==
    /\ \A i \in 1..Len(mLRU) : mLRU[i].key \in DOMAIN mMap /\ mMap[mLRU[i].key] = mLRU[i]
    /\ \A i, j \in 1..Len(mLRU) : mLRU[i].key = mLRU[j].key => i = j
    /\ \A k \in DOMAIN mMap : \E i \in 1..Len(mLRU) : mLRU[i].key = k

(* The running total never drifts from the list, and never exceeds the     *)
(* limit, also when the limit is lowered below what the map holds.         *)
WeightBounded ==
    /\ mWeight = WeightOf(1, Len(mLRU))
    /\ mWeight <= mMaxWeight
=============================================================================
