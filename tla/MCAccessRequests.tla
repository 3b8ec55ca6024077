-------------------------- MODULE MCAccessRequests --------------------------
(***************************************************************************)
(* Instances of AccessRequests for TLC.  One or two requests, three users  *)
(* and two handlers in flight are enough for every pair of operations on a *)
(* request to interleave, with a sweep between them; two certificates are  *)
(* the least for which a request has an earlier and a later one.           *)
(***************************************************************************)
EXTENDS AccessRequests, TLC

Symmetry == Permutations(Users) \cup Permutations(Workers)
              \cup Permutations(Certs)

\* Bound: no more than one of the three accounts is disabled.
OneDisabled == Cardinality(Users \ enabled) <= 1

\* The same system without crashes, for counterexamples that need none.
CrashFreeSpec == Init /\ [][Next /\ ~Restart]_vars
=============================================================================
