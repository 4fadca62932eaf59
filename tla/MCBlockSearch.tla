--------------------------- MODULE MCBlockSearch ---------------------------
(***************************************************************************)
(* BlockSearch for TLC: a "file" is a list of block sizes, and every list  *)
(* of up to five sizes is a file; uoff is the running sum, as every        *)
(* buildIndex computes it.                                                 *)
(***************************************************************************)
EXTENDS BlockSearch, SequencesExt

Sizes == 0..2

RunningSum(sizes, n) == FoldLeft(LAMBDA a, b : a + b, 0, SubSeq(sizes, 1, n))

(* Files whose first block holds something (see LayoutOK).                 *)
MCFiles == {s \in BoundedSeq(Sizes, 5) : s # <<>> /\ s[1] > 0}

MCBlocks ==
    [s \in Files |-> [i \in 1..Len(s) |->
        [usize |-> s[i], uoff |-> RunningSum(s, i - 1), coff |-> i]]]

ASSUME LayoutsOK == \A f \in Files : LayoutOK(f)
=============================================================================
