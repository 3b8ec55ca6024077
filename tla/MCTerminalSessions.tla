------------------------- MODULE MCTerminalSessions -------------------------
(***************************************************************************)
(* Instances of TerminalSessions for TLC.                                  *)
(***************************************************************************)
EXTENDS TerminalSessions, TLC

Symmetry == Permutations(Sessions) \cup Permutations(Sockets)
=============================================================================
