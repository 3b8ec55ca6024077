-------------------------- MODULE MCDirectorySync --------------------------
(***************************************************************************)
(* Instances of DirectorySync for TLC.                                     *)
(***************************************************************************)
EXTENDS DirectorySync, TLC

Symmetry == Permutations(Processes)

(***************************************************************************)
(* No action looks at cutOff: states that differ in nothing else go on     *)
(* alike, and where no property is about it one of them stands for all.    *)
(***************************************************************************)
Seen == <<now, directory, badReads, status, edit, finding, lastGood, lock, run>>
=============================================================================
