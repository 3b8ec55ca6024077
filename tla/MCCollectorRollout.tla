------------------------- MODULE MCCollectorRollout -------------------------
(***************************************************************************)
(* Instances of CollectorRollout for TLC: servers are numbers, and the     *)
(* order of a version is that of the numbers, or the reverse.              *)
(***************************************************************************)
EXTENDS CollectorRollout, TLC

MCBucket == [v \in Targets |->
                [s \in Servers |-> IF v % 2 = 1 THEN s ELSE 10 - s]]

Symmetry == Permutations(Instances)
=============================================================================
