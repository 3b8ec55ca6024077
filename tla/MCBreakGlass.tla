---------------------------- MODULE MCBreakGlass ----------------------------
(***************************************************************************)
(* Instances of BreakGlass for TLC.                                        *)
(***************************************************************************)
EXTENDS BreakGlass, TLC

Symmetry == Permutations(Challenges) \cup Permutations(Requests)
              \cup Permutations(Workers)

\* Without restarts, to show what does not need one.
CrashFreeSpec == Init /\ [][Next /\ ~Restart]_vars
=============================================================================
