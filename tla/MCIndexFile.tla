---------------------------- MODULE MCIndexFile ----------------------------
(* IndexFile for TLC: two sources with two and one blocks.                 *)
EXTENDS IndexFile, TLC

CONSTANTS s1, s2

MCSources == {s1, s2}

MCBuilt == s1 :> << [usize |-> 2, coff |-> 1], [usize |-> 1, coff |-> 4] >>
        @@ s2 :> << [usize |-> 3, coff |-> 1] >>

(* Index files next to the sources.                                        *)
MCIndex == s1 :> "i1" @@ s2 :> "i2"

Symmetric == Permutations(Mounts)
=============================================================================
