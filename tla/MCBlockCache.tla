--------------------------- MODULE MCBlockCache ---------------------------
(***************************************************************************)
(* BlockCache for TLC: two files whose compressed offsets coincide, so that*)
(* a key needs both of its parts, and whose blocks have unequal sizes.     *)
(***************************************************************************)
EXTENDS BlockCache, TLC

CONSTANTS f1, f2

MCFiles == {f1, f2}

(* f1 has an empty block in the middle, as formats with frames allow.      *)
MCBlocks ==
    f1 :> << [usize |-> 2, uoff |-> 0, coff |-> 0],
             [usize |-> 0, uoff |-> 2, coff |-> 3],
             [usize |-> 1, uoff |-> 2, coff |-> 4] >>
    @@ f2 :> << [usize |-> 1, uoff |-> 0, coff |-> 0], [usize |-> 2, uoff |-> 1, coff |-> 3] >>

(* Inside one block; from the middle of the first block over the empty one *)
(* to the last; more than the file has.                                    *)
MCRequests == { [file |-> f1, off |-> 1, size |-> 1],
                [file |-> f1, off |-> 1, size |-> 2],
                [file |-> f2, off |-> 0, size |-> 4] }

MCRequestsLive == { [file |-> f2, off |-> 0, size |-> 2], [file |-> f2, off |-> 2, size |-> 1] }

(* For the run with faults: a read of two sound blocks that ends where a   *)
(* damaged one begins, one across the damaged block, which is empty, and   *)
(* one that starts behind the end of the file.                             *)
MCBlocksFaults ==
    f1 :> << [usize |-> 1, uoff |-> 0, coff |-> 0], [usize |-> 1, uoff |-> 1, coff |-> 3],
             [usize |-> 0, uoff |-> 2, coff |-> 4], [usize |-> 1, uoff |-> 2, coff |-> 5] >>

MCRequestsFaults == { [file |-> f1, off |-> 0, size |-> 2],
                      [file |-> f1, off |-> 1, size |-> 2],
                      [file |-> f1, off |-> 3, size |-> 1] }

MCCorrupt == { <<f1, 3>> }

Symmetric == Permutations(Readers) \cup Permutations(Workers)
=============================================================================
