---------------------------- MODULE AuditExport ----------------------------
(***************************************************************************)
(* The audit log of one organization on its way out: streaming sinks that  *)
(* ship it in order behind a cursor (services/audit/sinkService.js,        *)
(* jobs/auditExport.js), and retention, which archives and deletes whole   *)
(* days that no active sink still owes (services/audit/retentionService.js,*)
(* jobs/auditArchive.js).                                                  *)
(*                                                                         *)
(* A row becomes visible some time after the instant in its created_at,    *)
(* at most ReadLag later; ids say nothing of the order rows were written.  *)
(***************************************************************************)
EXTENDS Naturals, FiniteSets

CONSTANTS
    Rows,        \* ids of AuditLog rows, numbers: they break ties
    Sinks,       \* ids of streaming AuditSink rows
    Matches,     \* the rows that pass the filters of each sink
    Instances,   \* backend processes that run the export job
    ReadLag,     \* READ_LAG_MS
    Day,         \* ticks in a day
    Retention,   \* AuditSettings.retentionDays, in ticks
    BatchSize,   \* AuditSink.batchSize
    MaxBatches,  \* MAX_BATCHES_PER_RUN
    MaxFailures, \* MAX_CONSECUTIVE_FAILURES
    MaxTime      \* bound on the clock; rows are written while they can
                 \* still be read

ASSUME AuditAssumption ==
    /\ Rows \subseteq Nat \ {0} /\ IsFiniteSet(Rows)
    /\ Matches \in [Sinks -> SUBSET Rows]
    /\ ReadLag \in Nat \ {0} /\ Day \in Nat \ {0} /\ Retention \in Nat
    /\ ReadLag <= Retention
    /\ BatchSize \in Nat \ {0} /\ MaxBatches \in Nat \ {0}
    /\ MaxFailures \in Nat \ {0} /\ MaxTime \in Nat

VARIABLES
    now,       \* the clock
    row,       \* status of every AuditLog row
    at,        \* AuditLog.createdAt
    sink,      \* the AuditSink rows
    start,     \* cursor a sink was created with (history)
    steady,    \* sinks that never stopped since they were created (history)
    got,       \* rows each destination has received (history)
    lock,      \* sinks whose redis lock is set
    run,       \* local state of the export job in each instance
    archived,  \* rows in an archive object
    waived,    \* rows deleted under deleteWithoutArchive (history)
    retain     \* local state of the retention job

logVars == <<row, at>>
sinkVars == <<sink, start, steady>>
retVars == <<archived, waived, retain>>
vars == <<now, logVars, sinkVars, got, lock, run, retVars>>

Times == 0..MaxTime
Cursors == [t : Times, id : Nat]
Idle == [at |-> "idle"]
NoSink == [state |-> "none", cursor |-> [t |-> 0, id |-> 0],
           failures |-> 0]

TypeOK ==
    /\ now \in Times
    /\ row \in [Rows -> {"unused", "written", "visible", "deleted"}]
    /\ at \in [Rows -> Times]
    /\ sink \in [Sinks -> [state : {"none", "active", "off", "gaveUp"},
                           cursor : Cursors, failures : 0..MaxFailures]]
    /\ start \in [Sinks -> Times] /\ steady \subseteq Sinks
    /\ got \in [Sinks -> SUBSET Rows]
    /\ lock \subseteq Sinks
    /\ \A i \in Instances : run[i].at \in
          {"idle", "due", "read", "deliver", "advance"}
    /\ archived \subseteq Rows /\ waived \subseteq Rows
    /\ retain.at \in {"idle", "day", "delete"}

Init ==
    /\ now = 0
    /\ row = [r \in Rows |-> "unused"] /\ at = [r \in Rows |-> 0]
    /\ sink = [k \in Sinks |-> NoSink] /\ start = [k \in Sinks |-> 0]
    /\ steady = {}
    /\ got = [k \in Sinks |-> {}]
    /\ lock = {}
    /\ run = [i \in Instances |-> Idle]
    /\ archived = {} /\ waived = {} /\ retain = Idle

-----------------------------------------------------------------------------
At(i, where) == run[i].at = where

Goto(i, p) == run' = [run EXCEPT ![i] = p]

Active(k) == sink[k].state = "active"

Minus(a, b) == IF a > b THEN a - b ELSE 0

\* The order of the log: (createdAt, id).
Follows(r, c) == at[r] > c.t \/ (at[r] = c.t /\ r > c.id)

Position(r) == [t |-> at[r], id |-> r]

(***************************************************************************)
(* auditService.log: an INSERT takes its created_at at once and is seen    *)
(* when its transaction commits.                                           *)
(***************************************************************************)
Write(r) ==
    /\ row[r] = "unused" /\ now + ReadLag <= MaxTime
    /\ row' = [row EXCEPT ![r] = "written"]
    /\ at' = [at EXCEPT ![r] = now]
    /\ UNCHANGED <<now, sinkVars, got, lock, run, retVars>>

Commit(r) ==
    /\ row[r] = "written"
    /\ row' = [row EXCEPT ![r] = "visible"]
    /\ UNCHANGED <<now, at, sinkVars, got, lock, run, retVars>>

\* Every commit comes before the reading lag is over.
Tick ==
    /\ now < MaxTime
    /\ \A r \in Rows : row[r] = "written" => now + 1 < at[r] + ReadLag
    /\ now' = now + 1
    /\ UNCHANGED <<logVars, sinkVars, got, lock, run, retVars>>

-----------------------------------------------------------------------------
(***************************************************************************)
(* Configuration of sinks.  A new sink starts from now, or from an earlier *)
(* instant it was asked to replay from.                                    *)
(***************************************************************************)
CreateSink(k, from) ==
    /\ sink[k].state = "none"
    /\ sink' = [sink EXCEPT ![k] =
          [NoSink EXCEPT !.state = "active", !.cursor.t = from]]
    /\ start' = [start EXCEPT ![k] = from]
    /\ steady' = IF from = now THEN steady \cup {k} ELSE steady
    /\ UNCHANGED <<now, logVars, got, lock, run, retVars>>

ActivateSink(k) ==
    /\ sink[k].state \in {"off", "gaveUp"}
    /\ sink' = [sink EXCEPT ![k].state = "active", ![k].failures = 0]
    /\ UNCHANGED <<now, logVars, start, steady, got, lock, run, retVars>>

DeactivateSink(k) ==
    /\ Active(k)
    /\ sink' = [sink EXCEPT ![k].state = "off"]
    /\ steady' = steady \ {k}
    /\ UNCHANGED <<now, logVars, start, got, lock, run, retVars>>

-----------------------------------------------------------------------------
(***************************************************************************)
(* The export job.  runDueSinks reads the rows of the sinks that are due;  *)
(* later it takes the lock of one and works on the row as it was read.  A  *)
(* sink whose backoffUntil is not over is one that is found later.         *)
(***************************************************************************)
FindDue(i, k) ==
    /\ At(i, "idle") /\ Active(k)
    /\ Goto(i, [at |-> "due", of |-> k, cursor |-> sink[k].cursor,
                failures |-> sink[k].failures])
    /\ UNCHANGED <<now, logVars, sinkVars, got, lock, retVars>>

Begin(i, held) ==
    Goto(i, [at |-> "read", of |-> run[i].of, cursor |-> run[i].cursor,
             failures |-> run[i].failures, left |-> MaxBatches,
             held |-> held])

TakeLock(i) ==
    /\ At(i, "due")
    /\ IF run[i].of \in lock
       THEN Goto(i, Idle) /\ UNCHANGED lock
       ELSE Begin(i, TRUE) /\ lock' = lock \cup {run[i].of}
    /\ UNCHANGED <<now, logVars, sinkVars, got, retVars>>

\* Redis does not answer: the lock fails open.
RunUnlocked(i) ==
    /\ At(i, "due")
    /\ Begin(i, FALSE)
    /\ UNCHANGED <<now, logVars, sinkVars, got, lock, retVars>>

\* Mutant: the reader walks right up to the present.
AnyWritten(r) == TRUE

\* stream: how far it reads.
BelowCeiling(r) == at[r] + ReadLag <= now

\* The rows a reader at cursor c has still to read.
Owed(k, c) ==
    {r \in Matches[k] : row[r] = "visible" /\ Follows(r, c)
                            /\ BelowCeiling(r)}

\* The first n rows of S in the order of the log.
FirstRows(S, n) ==
    {r \in S : Cardinality({u \in S : Follows(r, Position(u))}) < n}

LastRow(S) == CHOOSE r \in S : \A u \in S : ~Follows(u, Position(r))

\* A run is over: the lock's key is deleted, whoever set it last.
Finish(i) ==
    /\ lock' = IF run[i].held THEN lock \ {run[i].of} ELSE lock
    /\ Goto(i, Idle)

BatchOf(i) == FirstRows(Owed(run[i].of, run[i].cursor), BatchSize)

ReadBatch(i) ==
    /\ At(i, "read") /\ run[i].left > 0 /\ BatchOf(i) # {}
    /\ LET p == run[i] IN
       Goto(i, [at |-> "deliver", of |-> p.of, cursor |-> p.cursor,
                failures |-> p.failures, left |-> p.left, held |-> p.held,
                batch |-> BatchOf(i)])
    /\ UNCHANGED <<now, logVars, sinkVars, got, lock, retVars>>

NothingOwed(i) ==
    /\ At(i, "read") /\ (run[i].left = 0 \/ BatchOf(i) = {})
    /\ Finish(i)
    /\ UNCHANGED <<now, logVars, sinkVars, got, retVars>>

Deliver(i) ==
    /\ At(i, "deliver")
    /\ got' = [got EXCEPT ![run[i].of] = @ \cup run[i].batch]
    /\ Goto(i, [run[i] EXCEPT !.at = "advance"])
    /\ UNCHANGED <<now, logVars, sinkVars, lock, retVars>>

\* The cursor moves only now, to the last row of the batch.
Advance(i) ==
    /\ At(i, "advance")
    /\ LET p == run[i]
           c == Position(LastRow(p.batch))
       IN  /\ sink' = [sink EXCEPT ![p.of].cursor = c,
                                   ![p.of].failures = 0]
           /\ Goto(i, [at |-> "read", of |-> p.of, cursor |-> c,
                       failures |-> p.failures, left |-> p.left - 1,
                       held |-> p.held])
    /\ UNCHANGED <<now, logVars, start, steady, got, lock, retVars>>

\* Mutant: only a permanent error stops a sink.
OnlyPermanent(permanent, failures) == permanent

GiveUp(permanent, failures) == permanent \/ failures >= MaxFailures

\* The adapter throws, whether or not the destination has the batch, or the
\* transaction that moves the cursor fails.  failures is counted from the row
\* as it was read, not from the table.
DeliverFails(i, permanent) ==
    /\ At(i, "deliver") \/ At(i, "advance")
    /\ LET k == run[i].of
           failures == run[i].failures + 1
           giveUp == GiveUp(permanent, failures)
       IN  /\ sink' = [sink EXCEPT
                 ![k].failures = failures,
                 ![k].state = IF giveUp THEN "gaveUp" ELSE @]
           /\ steady' = IF giveUp THEN steady \ {k} ELSE steady
    /\ Finish(i)
    /\ UNCHANGED <<now, logVars, start, got, retVars>>

\* The lock outlives any plausible run.
Holders(k) ==
    {i \in Instances :
        ~At(i, "idle") /\ ~At(i, "due") /\ run[i].of = k /\ run[i].held}

LockExpires(k) ==
    /\ k \in lock
    /\ Holders(k) = {}
    /\ lock' = lock \ {k}
    /\ UNCHANGED <<now, logVars, sinkVars, got, run, retVars>>

CrashRun(i) ==
    /\ ~At(i, "idle")
    /\ Goto(i, Idle)
    /\ UNCHANGED <<now, logVars, sinkVars, got, lock, retVars>>

-----------------------------------------------------------------------------
(***************************************************************************)
(* Retention.  A pass reads the settings, the floor of the sinks and the   *)
(* oldest row once; then day after day is archived and deleted.            *)
(***************************************************************************)
\* Mutant: a sink that is behind does not hold retention back.
NoFloor(cutoff) == cutoff

\* sinkFloor: the least cursor of the active sinks.
Limit(cutoff) ==
    LET S == {cutoff} \cup {sink[k].cursor.t : k \in {j \in Sinks : Active(j)}}
    IN  CHOOSE m \in S : \A n \in S : m <= n

DayOf(t) == (t \div Day) * Day

\* The rows of the day that starts at d, except those not yet committed.
RowsOf(d) ==
    {r \in Rows : row[r] = "visible" /\ at[r] >= d /\ at[r] < d + Day}

\* Settings are changed in single updates and read only here, so a pass finds
\* any of those an administrator may have chosen.
ApplyRetention(archive, without) ==
    /\ retain = Idle
    /\ LET limit == Limit(Minus(now, Retention))
           old == {r \in Rows : row[r] = "visible" /\ at[r] < limit}
       IN  /\ old # {}
           /\ retain' =
                [at |-> "day", archive |-> archive, without |-> without,
                 limit |-> limit,
                 day |-> DayOf(CHOOSE t \in {at[r] : r \in old} :
                                  \A r \in old : t <= at[r])]
    /\ UNCHANGED <<now, logVars, sinkVars, got, lock, run, archived, waived>>

\* Whole days only.
DayIsDue == retain.at = "day" /\ retain.day + Day <= retain.limit

RetentionDone ==
    /\ retain.at = "day" /\ ~DayIsDue
    /\ retain' = Idle
    /\ UNCHANGED <<now, logVars, sinkVars, got, lock, run, archived, waived>>

\* The object of a day is written as a whole, over the one it had.
ArchiveDay ==
    /\ DayIsDue /\ retain.archive
    /\ archived' =
          IF RowsOf(retain.day) = {} THEN archived
          ELSE {r \in archived : DayOf(at[r]) # retain.day}
                  \cup RowsOf(retain.day)
    /\ retain' = [retain EXCEPT !.at = "delete"]
    /\ UNCHANGED <<now, logVars, sinkVars, got, lock, run, waived>>

\* Mutant: a day whose archive failed is deleted all the same.
AfterFailure == [retain EXCEPT !.at = "delete"]

\* An archive failure stops the deletion; so does a setting that asks for
\* neither an archive nor a deletion without one.
AfterArchiveFailure == Idle

ArchiveFails ==
    /\ DayIsDue /\ retain.archive
    /\ retain' = AfterArchiveFailure
    /\ UNCHANGED <<now, logVars, sinkVars, got, lock, run, archived, waived>>

SkipArchive ==
    /\ DayIsDue /\ ~retain.archive
    /\ retain' = IF retain.without
                 THEN [retain EXCEPT !.at = "delete"] ELSE Idle
    /\ UNCHANGED <<now, logVars, sinkVars, got, lock, run, archived, waived>>

DeleteDay ==
    /\ retain.at = "delete"
    /\ row' = [r \in Rows |->
                  IF r \in RowsOf(retain.day) THEN "deleted" ELSE row[r]]
    /\ waived' = IF retain.archive THEN waived
                 ELSE waived \cup RowsOf(retain.day)
    /\ retain' = [retain EXCEPT !.at = "day", !.day = @ + Day]
    /\ UNCHANGED <<now, at, sinkVars, got, lock, run, archived>>

CrashRetention ==
    /\ retain # Idle
    /\ retain' = Idle
    /\ UNCHANGED <<now, logVars, sinkVars, got, lock, run, archived, waived>>

-----------------------------------------------------------------------------
RunSink(i) ==
    \/ TakeLock(i) \/ ReadBatch(i) \/ NothingOwed(i) \/ Deliver(i)
    \/ \E permanent \in BOOLEAN : DeliverFails(i, permanent)
    \/ Advance(i)

Retain ==
    \/ RetentionDone \/ ArchiveDay \/ ArchiveFails
    \/ SkipArchive \/ DeleteDay

Next ==
    \/ \E r \in Rows : Write(r) \/ Commit(r)
    \/ \E k \in Sinks :
          \/ \E from \in {0, now} : CreateSink(k, from)
          \/ ActivateSink(k) \/ DeactivateSink(k) \/ LockExpires(k)
    \/ \E i \in Instances :
          \/ \E k \in Sinks : FindDue(i, k)
          \/ RunUnlocked(i) \/ RunSink(i) \/ CrashRun(i)
    \/ \E archive, without \in BOOLEAN : ApplyRetention(archive, without)
    \/ Retain \/ CrashRetention
    \/ Tick

Spec == Init /\ [][Next]_vars

(***************************************************************************)
(* The jobs are repeated and are not killed in the same place for ever; a  *)
(* lock expires, transactions commit and time passes.                      *)
(* Nothing is assumed of destinations, object storage or administrators.   *)
(***************************************************************************)
Fairness ==
    /\ \A i \in Instances :
          /\ \A k \in Sinks : SF_vars(FindDue(i, k))
          /\ SF_vars(TakeLock(i)) /\ SF_vars(ReadBatch(i))
          /\ SF_vars(Deliver(i) \/ \E p \in BOOLEAN : DeliverFails(i, p))
          /\ SF_vars(Advance(i) \/ \E p \in BOOLEAN : DeliverFails(i, p))
          /\ WF_vars(NothingOwed(i))
    /\ \A k \in Sinks : WF_vars(LockExpires(k))
    /\ \A r \in Rows : WF_vars(Commit(r))
    /\ WF_vars(Tick)

FairSpec == Spec /\ Fairness

-----------------------------------------------------------------------------
\* A row that belongs to sink k: it passes the filters and was not written
\* before the instant the sink started from.
Belongs(r, k) == r \in Matches[k] /\ row[r] # "unused" /\ at[r] >= start[k]

(***************************************************************************)
(* sinkService.js: delivery is at least once.  Whatever a sink's cursor    *)
(* has passed, its destination has received, crashes, failures, stale      *)
(* cursors of another instance and late commits notwithstanding; unless    *)
(* the sink was stopped in between and the row has been deleted since.     *)
(***************************************************************************)
NothingSkipped ==
    \A k \in Sinks, r \in Rows :
        Belongs(r, k) /\ ~Follows(r, sink[k].cursor) =>
            r \in got[k] \/ (row[r] = "deleted" /\ k \notin steady)

(***************************************************************************)
(* retentionService.js, rule 2: a row is not deleted before every sink     *)
(* that was active all the while has shipped it.                           *)
(***************************************************************************)
OwedIsKept ==
    \A k \in steady, r \in Rows :
        Belongs(r, k) /\ row[r] = "deleted" => r \in got[k]

(***************************************************************************)
(* retentionService.js, rule 3: nothing is deleted without an archive, not *)
(* after a failure or a crash half-way, unless deleteWithoutArchive was    *)
(* set at some time.                                                       *)
(***************************************************************************)
DeletedIsArchived ==
    {r \in Rows : row[r] = "deleted"} \subseteq archived \cup waived

(***************************************************************************)
(* A sink that stays active ships every row that belongs to it: stale      *)
(* cursors of the instances do not send each other back for ever.          *)
(***************************************************************************)
EverythingShips ==
    \A k \in Sinks, r \in Rows :
        []<>(k \in steady /\ Belongs(r, k) => r \in got[k])

(***************************************************************************)
(* sinkService.js:36 "Give up after this many failures in a row": the sink *)
(* had failed as often since its last delivery when it was stopped.        *)
(***************************************************************************)
GivesUpAfterFailures ==
    [][\A i \in Instances : DeliverFails(i, FALSE) =>
          LET k == run[i].of IN
          Active(k) /\ sink'[k].state = "gaveUp" =>
             sink[k].failures + 1 >= MaxFailures]_vars

(***************************************************************************)
(* retentionService.js:11: an active streaming sink's cursor is a hard     *)
(* floor; no row an active sink still owes is deleted.                     *)
(***************************************************************************)
FloorIsHard ==
    [][\A k \in Sinks, r \in Rows :
          row[r] = "visible" /\ row'[r] = "deleted" =>
             ~(Active(k) /\ r \in Matches[k]
                  /\ Follows(r, sink[k].cursor))]_vars

(***************************************************************************)
(* auditExport.js:11: the lock keeps a sink from being delivered the same  *)
(* batch twice by two instances; here neither a crash nor a failure nor a  *)
(* lock that expired or did not answer is needed for that.                 *)
(***************************************************************************)
NotDeliveredTwice ==
    [][\A i \in Instances :
          At(i, "deliver") /\ run'[i].at = "advance" =>
             run[i].batch \cap got[run[i].of] = {}]_vars

(***************************************************************************)
(* What the last two rely on: one instance at a time works for a sink,     *)
(* from reading its row to its last batch.  Beyond that, NotDeliveredTwice *)
(* needs that what was delivered is recorded, and FloorIsHard that no sink *)
(* becomes active behind the limit of a pass that is under way.            *)
(***************************************************************************)
OneRunPerSink ==
    \A i, j \in Instances :
        /\ ~At(i, "idle") /\ ~At(j, "idle")
        /\ run[i].of = run[j].of
        => i = j

DeliveriesAreRecorded ==
    [][\A i \in Instances :
          At(i, "advance") =>
             ~CrashRun(i) /\ \A p \in BOOLEAN : ~DeliverFails(i, p)]_vars

NoLateSink ==
    [][\A k \in Sinks :
          retain # Idle /\ ~Active(k) /\ sink'[k].state = "active"
             => retain.limit <= sink'[k].cursor.t]_vars
=============================================================================
