-------------------------- MODULE MCRefreshTokens --------------------------
(***************************************************************************)
(* Instances of RefreshTokens for TLC.                                     *)
(***************************************************************************)
EXTENDS RefreshTokens, TLC

Symmetry == Permutations(Tokens) \cup Permutations(Families)
              \cup Permutations(Workers)

\* Without restarts, to show what does not need one.
CrashFreeSpec == Init /\ [][Next /\ ~Restart]_vars
=============================================================================
