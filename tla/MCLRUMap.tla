----------------------------- MODULE MCLRUMap -----------------------------
(***************************************************************************)
(* LRUMap with a history variable: since[k] is the set of keys used since  *)
(* key k was, or all keys if k never was.  A key is used when it is found, *)
(* added, or added again; a failed lookup or a refused entry uses nothing. *)
(***************************************************************************)
EXTENDS LRUMap

VARIABLE since

mcVars == <<mLRU, mMap, mWeight, mMaxWeight, since>>

MCInit == Init /\ since = [k \in Keys |-> Keys]

Use(k) == since' = [x \in Keys |-> IF x = k THEN {} ELSE since[x] \cup {k}]

FindPresent(k) == k \in DOMAIN mMap /\ Find(k) /\ Use(k)
FindAbsent(k)  == k \notin DOMAIN mMap /\ Find(k) /\ UNCHANGED since
AddFitting(k, v, w) == (k \in DOMAIN mMap \/ w <= mMaxWeight) /\ Add(k, v, w) /\ Use(k)
AddRefused(k, v, w) ==
    k \notin DOMAIN mMap /\ w > mMaxWeight /\ Add(k, v, w) /\ UNCHANGED since

MCNext ==
    \/ \E k \in Keys : FindPresent(k) \/ FindAbsent(k)
    \/ \E k \in Keys, v \in Values, w \in Weights : AddFitting(k, v, w) \/ AddRefused(k, v, w)
    \/ \E w \in Weights : SetMaxWeight(w) /\ UNCHANGED since

MCSpec == MCInit /\ [][MCNext]_mcVars

(* What makes it an LRU map: it always holds exactly the most recently     *)
(* used keys, in order of use.  The keys used since one in the list are    *)
(* those before it; whatever was evicted, by add() or by a lower limit,    *)
(* was used less recently than everything still held.                      *)
HoldsMostRecentlyUsed ==
    /\ \A i \in 1..Len(mLRU) : since[mLRU[i].key] = {mLRU[j].key : j \in 1..(i - 1)}
    /\ \A k \in Keys \ DOMAIN mMap : DOMAIN mMap \subseteq since[k]

(* Nothing is evicted for its own sake: when makeRoom drops an entry, that *)
(* entry and all more recent ones together with what is being added would  *)
(* not fit within the limit.                                               *)
EvictsOnlyForRoom ==
    [][\A i \in 1..Len(mLRU) :
           mLRU[i].key \notin DOMAIN mMap' =>
               WeightOf(1, i)
                   + (IF mMaxWeight' = mMaxWeight THEN mLRU'[1].weight ELSE 0)
                 > mMaxWeight']_mcVars
=============================================================================
