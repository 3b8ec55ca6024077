------------------------------- MODULE Grants -------------------------------
(***************************************************************************)
(* What the access-request lifecycle promises, without handlers, jobs or   *)
(* tables: somebody asks, the request is granted at most once and for a    *)
(* time that is fixed then, once over it is over for good, and every key   *)
(* belongs to one grant and is honoured, where it is asked about, no       *)
(* longer than that.  The key itself may last longer: nothing is promised  *)
(* about a lock that opens without asking.  AccessRequests implements it.  *)
(***************************************************************************)
EXTENDS Naturals

CONSTANTS
    Requests, \* requests for access
    Keys,     \* keys (certificates) that may be issued
    Nobody    \* of a key that does not exist yet

VARIABLES
    stage,    \* of every request
    until,    \* end of its grant, 0 when there was none
    holder,   \* the request a key was issued for
    honoured, \* until when the key is honoured
    lasts,    \* the end that is cut into the key itself
    dead      \* keys that were withdrawn or have run out

vars == <<stage, until, holder, honoured, lasts, dead>>

Init ==
    /\ stage = [r \in Requests |-> "new"]
    /\ until = [r \in Requests |-> 0]
    /\ holder = [k \in Keys |-> Nobody]
    /\ honoured = [k \in Keys |-> 0]
    /\ lasts = [k \in Keys |-> 0]
    /\ dead = {}

Ask(r) ==
    /\ stage[r] = "new"
    /\ stage' = [stage EXCEPT ![r] = "asked"]
    /\ UNCHANGED <<until, holder, honoured, lasts, dead>>

\* After a decision, or at once where the policy asks for none.
Grant(r) ==
    /\ stage[r] \in {"new", "asked"}
    /\ stage' = [stage EXCEPT ![r] = "granted"]
    /\ until'[r] \in Nat
    /\ until' = [until EXCEPT ![r] = until'[r]]
    /\ UNCHANGED <<holder, honoured, lasts, dead>>

\* Denied, withdrawn, revoked or run out, several at a time perhaps.
Close(S) ==
    /\ \A r \in S : stage[r] \in {"asked", "granted"}
    /\ stage' = [r \in Requests |-> IF r \in S THEN "over" ELSE stage[r]]
    /\ UNCHANGED <<until, holder, honoured, lasts, dead>>

\* A grant that was just closed may still get a key, none honoured longer;
\* no key is honoured longer than it lasts.
Issue(k, r) ==
    /\ holder[k] = Nobody /\ stage[r] \in {"granted", "over"}
    /\ holder' = [holder EXCEPT ![k] = r]
    /\ honoured'[k] \in 0..until[r]
    /\ honoured' = [honoured EXCEPT ![k] = honoured'[k]]
    /\ lasts'[k] \in Nat /\ lasts'[k] >= honoured'[k]
    /\ lasts' = [lasts EXCEPT ![k] = lasts'[k]]
    /\ UNCHANGED <<stage, until, dead>>

Kill(S) ==
    /\ \A k \in S : holder[k] # Nobody
    /\ dead' = dead \cup S
    /\ UNCHANGED <<stage, until, holder, honoured, lasts>>

Next ==
    \/ \E r \in Requests : Ask(r) \/ Grant(r)
    \/ \E S \in SUBSET Requests : Close(S)
    \/ \E k \in Keys, r \in Requests : Issue(k, r)
    \/ \E S \in SUBSET Keys : Kill(S)

Spec == Init /\ [][Next]_vars
=============================================================================
