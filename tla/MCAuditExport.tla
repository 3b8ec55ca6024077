--------------------------- MODULE MCAuditExport ---------------------------
(***************************************************************************)
(* Instances of AuditExport for TLC.                                       *)
(***************************************************************************)
EXTENDS AuditExport, TLC

MCAll == [k \in Sinks |-> Rows]

Symmetry == Permutations(Instances)

\* Without what would excuse a second delivery.
SmoothSpec ==
    Init /\ [][Next /\ ~\E i \in Instances :
                          \/ CrashRun(i) \/ RunUnlocked(i)
                          \/ \E p \in BOOLEAN : DeliverFails(i, p)
                          \/ \E k \in Sinks : LockExpires(k)]_vars

\* No administrator stops a sink.
SteadySpec ==
    Init /\ [][Next /\ ~\E k \in Sinks : DeactivateSink(k)]_vars
=============================================================================
