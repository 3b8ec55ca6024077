------------------------------ MODULE MCSignIn ------------------------------
(***************************************************************************)
(* Instances of SignIn for TLC: two sets of backup codes, one after the    *)
(* other.                                                                  *)
(***************************************************************************)
EXTENDS SignIn, TLC

CONSTANTS b1, b2, b3

MCBackupSets == {{b1, b2}, {b3}}
MCOneSet == {{b1}}
MCTwoSets == {{b1}, {b3}}

Symmetry == Permutations(Workers) \cup Permutations(Mails)

\* No process stops.
SteadySpec == Init /\ [][Next /\ ~Restart]_vars /\ Fairness
=============================================================================
