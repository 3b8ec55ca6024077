------------------------- MODULE AuditExport_proofs -------------------------
(***************************************************************************)
(* Proofs about AuditExport, for any number of rows, sinks and instances   *)
(* of the job: nothing is skipped, nothing an active sink owes is deleted, *)
(* and nothing is deleted that is in no archive.  Then, that instances     *)
(* which overlap are what delivers a batch twice or moves a floor.         *)
(***************************************************************************)
EXTENDS AuditExport, FiniteSetTheorems, WellFoundedInduction, TLAPS

(***************************************************************************)
(* A set of natural numbers has a least one.                               *)
(***************************************************************************)
LEMMA LeastExists ==
    ASSUME NEW S \in SUBSET Nat, S # {}
    PROVE  \E m \in S : \A n \in S : m <= n
<1> DEFINE less == OpToRel(<, Nat)
<1>1. IsWellFoundedOn(less, Nat)
  BY NatLessThanWellFounded
<1> HIDE DEF less
<1>2. PICK m \in S : \A n \in S : ~(<<n, m>> \in less)
  BY <1>1, WFMin
<1>3. \A n \in S : m <= n
  <2> SUFFICES ASSUME NEW n \in S PROVE m <= n
    OBVIOUS
  <2>1. n \in Nat /\ m \in Nat /\ ~(<<n, m>> \in less)
    BY <1>2
  <2>2. ~(n < m)
    BY <2>1 DEF less, OpToRel
  <2> QED
    BY <2>1, <2>2
<1> QED
  BY <1>3

-----------------------------------------------------------------------------
(***************************************************************************)
(* Days: every instant lies in one, and they do not overlap.               *)
(***************************************************************************)
IsDay(d) == d \in Nat /\ \E q \in Nat : d = q * Day

LEMMA DayOfInstant ==
    ASSUME NEW t \in Nat
    PROVE  IsDay(DayOf(t)) /\ DayOf(t) <= t /\ t < DayOf(t) + Day
<1>1. Day \in Nat /\ Day > 0
  BY AuditAssumption
<1> DEFINE q == t \div Day
<1>2. q \in Nat /\ q * Day <= t /\ t < q * Day + Day
  BY <1>1
<1>3. q * Day \in Nat
  BY <1>1, <1>2
<1> QED
  BY <1>2, <1>3 DEF IsDay, DayOf

LEMMA DaysApart ==
    ASSUME NEW p \in Nat, NEW q \in Nat, p < q
    PROVE  p * Day + Day <= q * Day
<1>1. Day \in Nat
  BY AuditAssumption
<1>2. PICK n \in Nat : q = p + 1 + n
  <2>1. q - p - 1 \in Nat
    OBVIOUS
  <2> QED
    BY <2>1
<1>3. q * Day = p * Day + Day + n * Day
  BY <1>1, <1>2
<1>4. n * Day \in Nat
  BY <1>1
<1> QED
  BY <1>1, <1>3, <1>4

LEMMA SameDay ==
    ASSUME NEW d, IsDay(d), NEW t \in Nat
    PROVE  (d <= t /\ t < d + Day) <=> DayOf(t) = d
<1>1. Day \in Nat
  BY AuditAssumption
<1>2. PICK p \in Nat : d = p * Day
  BY DEF IsDay
<1>3. PICK q \in Nat : DayOf(t) = q * Day
  BY DayOfInstant DEF IsDay
<1>4. DayOf(t) <= t /\ t < DayOf(t) + Day
  BY DayOfInstant
<1>5. d \in Nat /\ DayOf(t) \in Nat
  BY DayOfInstant DEF IsDay
<1>6. CASE p = q
  BY <1>2, <1>3, <1>4, <1>6
<1>7. CASE p < q
  <2>1. d + Day <= DayOf(t)
    BY <1>2, <1>3, <1>7, DaysApart
  <2>2. d # DayOf(t)
    BY <1>1, <1>5, <2>1, AuditAssumption
  <2> QED
    BY <1>1, <1>4, <1>5, <2>1, <2>2
<1>8. CASE q < p
  <2>1. DayOf(t) + Day <= d
    BY <1>2, <1>3, <1>8, DaysApart
  <2>2. d # DayOf(t)
    BY <1>1, <1>5, <2>1, AuditAssumption
  <2> QED
    BY <1>1, <1>4, <1>5, <2>1, <2>2
<1> QED
  BY <1>6, <1>7, <1>8

LEMMA NextDay == ASSUME NEW d, IsDay(d) PROVE IsDay(d + Day)
<1>1. Day \in Nat
  BY AuditAssumption
<1>2. PICK q \in Nat : d = q * Day
  BY DEF IsDay
<1>3. d + Day = (q + 1) * Day
  BY <1>1, <1>2
<1> QED
  BY <1>1, <1>3 DEF IsDay

-----------------------------------------------------------------------------
(***************************************************************************)
(* The order of the log.                                                   *)
(***************************************************************************)
Instants == at \in [Rows -> Nat]

LEMMA Order ==
    ASSUME Instants, NEW r \in Rows, NEW u \in Rows, NEW w \in Rows
    PROVE  /\ ~Follows(r, Position(r))
           /\ Follows(r, Position(u)) /\ Follows(u, Position(w))
                => Follows(r, Position(w))
           /\ r # u => Follows(r, Position(u)) \/ Follows(u, Position(r))
           /\ ~Follows(r, Position(u)) => at[r] <= at[u]
  BY AuditAssumption DEF Instants, Follows, Position

(***************************************************************************)
(* The first rows of a set form an initial segment of it.                  *)
(***************************************************************************)
LEMMA FirstRowsSegment ==
    ASSUME Instants, NEW S \in SUBSET Rows, NEW n \in Nat \ {0},
           NEW b \in FirstRows(S, n), NEW r \in S, ~Follows(r, Position(b))
    PROVE  r \in FirstRows(S, n)
<1> DEFINE before(x) == {u \in S : Follows(x, Position(u))}
<1>1. b \in S /\ Cardinality(before(b)) < n
  BY DEF FirstRows
<1>2. before(r) \subseteq before(b)
  <2> SUFFICES ASSUME NEW u \in S, Follows(r, Position(u))
               PROVE  Follows(b, Position(u))
    OBVIOUS
  <2>1. CASE r = b
    BY <2>1
  <2>2. CASE r # b
    <3>1. Follows(b, Position(r))
      BY <1>1, <2>2, Order
    <3> QED
      BY <1>1, <3>1, Order
  <2> QED
    BY <2>1, <2>2
<1>3. IsFiniteSet(before(b)) /\ IsFiniteSet(before(r))
  BY FS_Subset, AuditAssumption
<1>4. Cardinality(before(r)) <= Cardinality(before(b))
  BY <1>2, <1>3, FS_Subset
<1>5. Cardinality(before(r)) \in Nat /\ Cardinality(before(b)) \in Nat
  BY <1>3, FS_CardinalityType
<1>6. Cardinality(before(r)) < n
  <2> HIDE DEF before
  <2> QED
    BY <1>1, <1>4, <1>5
<1> QED
  BY <1>6 DEF FirstRows

(***************************************************************************)
(* A set of rows has a last one.                                           *)
(***************************************************************************)
LEMMA LastRowIsLast ==
    ASSUME Instants, NEW S \in SUBSET Rows, S # {}
    PROVE  /\ LastRow(S) \in S
           /\ \A u \in S : ~Follows(u, Position(LastRow(S)))
<1> DEFINE after(x) == {u \in S : Follows(u, Position(x))}
           counts == {Cardinality(after(x)) : x \in S}
<1>1. \A x \in S : IsFiniteSet(after(x)) /\ Cardinality(after(x)) \in Nat
  BY FS_Subset, FS_CardinalityType, AuditAssumption
<1>2. counts \in SUBSET Nat /\ counts # {}
  BY <1>1
<1>3. PICK m \in counts : \A n \in counts : m <= n
  BY <1>2, LeastExists
<1>4. PICK r \in S : Cardinality(after(r)) = m
  BY <1>3
<1>5. ASSUME NEW u \in S, Follows(u, Position(r)) PROVE FALSE
  <2>1. after(u) \subseteq after(r)
    BY <1>5, Order
  <2>2. u \in after(r) /\ u \notin after(u)
    BY <1>5, Order
  <2>3. /\ Cardinality(after(u)) <= Cardinality(after(r))
        /\ Cardinality(after(r)) # Cardinality(after(u))
    BY <1>1, <2>1, <2>2, FS_Subset
  <2>4. m <= Cardinality(after(u))
    BY <1>3
  <2>5. Cardinality(after(u)) \in Nat /\ Cardinality(after(r)) \in Nat
    BY <1>1
  <2> HIDE DEF after
  <2> QED
    BY <1>4, <2>3, <2>4, <2>5
<1>6. \E x \in S : \A u \in S : ~Follows(u, Position(x))
  BY <1>5
<1> QED
  BY <1>6 DEF LastRow

-----------------------------------------------------------------------------
(***************************************************************************)
(* The invariant.                                                          *)
(***************************************************************************)
Positions == [t : Times, id : Nat]
Failures == 0..(MaxFailures - 1)
Runs == {Idle}
    \cup [at : {"due"}, of : Sinks, cursor : Positions, failures : Failures]
    \cup [at : {"read"}, of : Sinks, cursor : Positions,
          failures : Failures, left : Int, held : BOOLEAN]
    \cup [at : {"deliver", "advance"}, of : Sinks, cursor : Positions,
          failures : Failures, left : Int, held : BOOLEAN,
          batch : SUBSET Rows]

\* No row is written behind such a cursor any more.
Low(c) == c.t + ReadLag <= now \/ (c.id = 0 /\ c.t <= now)

\* Sink k may start from c without leaving out a row, once extra is shipped.
Covered(k, c, extra) ==
    \A r \in Rows : Belongs(r, k) /\ ~Follows(r, c) =>
        r \in got[k] \cup extra \/ (row[r] = "deleted" /\ k \notin steady)

\* A row is committed within the lag, and deleted with its whole day, which
\* is over.
LogSound ==
    /\ \A r \in Rows :
          /\ row[r] # "unused" => at[r] <= now
          /\ row[r] = "written" => now < at[r] + ReadLag
          /\ row[r] = "deleted" => DayOf(at[r]) + Day <= now
    /\ \A r, u \in Rows :
          row[r] = "deleted" /\ row[u] # "unused"
             /\ DayOf(at[r]) = DayOf(at[u]) => row[u] = "deleted"

SinksSound ==
    \A k \in Sinks :
        /\ k \in steady => Active(k)
        /\ Active(k) => sink[k].failures \in Failures
        /\ sink[k].cursor \in Positions
        /\ Low(sink[k].cursor) /\ Covered(k, sink[k].cursor, {})

\* What a run was told when it began stays good enough to go on from.
RunSound(i) ==
    ~At(i, "idle") =>
        /\ sink[run[i].of].state # "none"
        /\ Low(run[i].cursor) /\ Covered(run[i].of, run[i].cursor, {})
        /\ At(i, "deliver") \/ At(i, "advance") =>
              /\ run[i].batch # {}
              /\ \A b \in run[i].batch :
                    /\ row[b] \in {"visible", "deleted"}
                    /\ at[b] + ReadLag <= now
                    /\ Covered(run[i].of, Position(b), run[i].batch)
        /\ At(i, "advance") => run[i].batch \subseteq got[run[i].of]

\* Below the limit of a pass everything is committed, and no steady sink
\* owes any of it.
RetainSound ==
    \/ retain = Idle
    \/ /\ retain \in [at : {"day", "delete"}, archive : BOOLEAN,
                      without : BOOLEAN, limit : Nat, day : Nat]
       /\ IsDay(retain.day)
       /\ retain.limit = 0 \/ retain.limit + ReadLag <= now
       /\ retain.at = "delete" => retain.day + Day <= retain.limit
       /\ \A k \in steady, r \in Rows :
             Belongs(r, k) /\ at[r] < retain.limit => r \in got[k]
       /\ retain.at = "delete" /\ retain.archive
             => RowsOf(retain.day) \subseteq archived

Inv ==
    /\ TypeOK /\ run \in [Instances -> Runs]
    /\ LogSound /\ SinksSound /\ RetainSound
    /\ \A i \in Instances : RunSound(i)
    /\ OwedIsKept /\ DeletedIsArchived

(***************************************************************************)
(* Types, without the arithmetic of the bounds.                            *)
(***************************************************************************)
LEMMA TypeParts ==
    ASSUME TypeOK
    PROVE  /\ now \in Nat /\ now <= MaxTime
           /\ row \in [Rows -> {"unused", "written", "visible", "deleted"}]
           /\ Instants
           /\ sink \in [Sinks ->
                 [state : {"none", "active", "off", "gaveUp"},
                  cursor : Positions, failures : 0..MaxFailures]]
           /\ start \in [Sinks -> Times] /\ steady \subseteq Sinks
           /\ got \in [Sinks -> SUBSET Rows]
           /\ lock \subseteq Sinks
           /\ archived \subseteq Rows /\ waived \subseteq Rows
  BY AuditAssumption DEF TypeOK, Instants, Times, Positions, Cursors

LEMMA RunKinds ==
    ASSUME Inv, NEW i \in Instances
    PROVE  /\ run[i] \in Runs
           /\ ~At(i, "idle") => /\ run[i].of \in Sinks
                                /\ run[i].cursor \in Positions
                                /\ run[i].failures \in Failures
           /\ ~At(i, "idle") /\ ~At(i, "due") =>
                 run[i].held \in BOOLEAN /\ run[i].left \in Int
           /\ At(i, "deliver") \/ At(i, "advance") =>
                 /\ run[i].batch \in SUBSET Rows
                 /\ run[i] \in [at : {"deliver", "advance"}, of : Sinks,
                                cursor : Positions, failures : Failures,
                                left : Int, held : BOOLEAN,
                                batch : SUBSET Rows]
  BY DEF Inv, Runs, Idle, At

(***************************************************************************)
(* How the log may move: rows are written now, and go on to be visible and *)
(* deleted; destinations keep what they have.                              *)
(***************************************************************************)
LogGrows ==
    /\ now' \in Nat /\ now <= now'
    /\ \A r \in Rows :
          /\ at'[r] \in Nat
          /\ row[r] # "unused" => row'[r] # "unused"
          /\ row[r] # "unused" => at'[r] = at[r]
          /\ row[r] = "unused" /\ row'[r] # "unused" => at'[r] = now
          /\ row[r] = "deleted" => row'[r] = "deleted"
          /\ row[r] \in {"visible", "deleted"}
                => row'[r] \in {"visible", "deleted"}
    /\ \A k \in Sinks : got[k] \subseteq got'[k]

KeepsSink(k) == start'[k] = start[k] /\ (k \in steady' => k \in steady)

LEMMA LowStays ==
    ASSUME TypeOK, LogGrows, NEW c \in Positions, Low(c)
    PROVE  Low(c)'
  BY TypeParts, AuditAssumption DEF Low, LogGrows, Positions, Times

LEMMA CoveredStays ==
    ASSUME TypeOK, LogGrows, NEW k \in Sinks, KeepsSink(k),
           NEW c \in Positions, Low(c), NEW extra, Covered(k, c, extra)
    PROVE  Covered(k, c, extra)'
<1> SUFFICES ASSUME NEW r \in Rows, r \in Matches[k], row'[r] # "unused",
                    at'[r] >= start'[k],
                    ~(at'[r] > c.t \/ (at'[r] = c.t /\ r > c.id))
             PROVE  \/ r \in got'[k] \cup extra
                    \/ row'[r] = "deleted" /\ k \notin steady'
  BY DEF Covered, Belongs, Follows
<1>0. /\ now \in Nat /\ at[r] \in Nat /\ at'[r] \in Nat
      /\ c.t \in Nat /\ c.id \in Nat /\ r \in Nat /\ r > 0 /\ ReadLag > 0
      /\ ReadLag \in Nat
  BY TypeParts, AuditAssumption DEF Instants, Positions, Times, LogGrows
<1>1. row[r] # "unused"
  <2> SUFFICES ASSUME row[r] = "unused" PROVE FALSE
    OBVIOUS
  <2>1. at'[r] = now
    BY DEF LogGrows
  <2> QED
    BY <1>0, <2>1 DEF Low
<1>2. at'[r] = at[r] /\ start'[k] = start[k]
  BY <1>1 DEF LogGrows, KeepsSink
<1>3. Belongs(r, k) /\ ~Follows(r, c)
  BY <1>1, <1>2 DEF Belongs, Follows
<1>4. r \in got[k] \cup extra \/ (row[r] = "deleted" /\ k \notin steady)
  BY <1>3 DEF Covered
<1> QED
  BY <1>4 DEF LogGrows, KeepsSink

(***************************************************************************)
(* A run that does not move stays sound.                                   *)
(***************************************************************************)
LEMMA RunStays ==
    ASSUME Inv, LogGrows, NEW i \in Instances, run'[i] = run[i],
           \A k \in Sinks : sink[k].state # "none" =>
                             sink'[k].state # "none" /\ KeepsSink(k)
    PROVE  RunSound(i)'
<1> SUFFICES ASSUME ~At(i, "idle")
             PROVE  RunSound(i)'
  BY DEF RunSound, At
<1>1. /\ run[i].of \in Sinks /\ run[i].cursor \in Positions
      /\ sink[run[i].of].state # "none" /\ TypeOK
      /\ Low(run[i].cursor) /\ Covered(run[i].of, run[i].cursor, {})
  BY RunKinds DEF Inv, RunSound
<1>2. /\ sink'[run[i].of].state # "none" /\ KeepsSink(run[i].of)
      /\ Low(run[i].cursor)' /\ Covered(run[i].of, run[i].cursor, {})'
  <2> DEFINE k == run[i].of  c == run[i].cursor
  <2>1. PICK K \in Sinks, C \in Positions : K = k /\ C = c
    BY <1>1
  <2> HIDE DEF k, c
  <2>2. KeepsSink(K) /\ sink'[K].state # "none"
    BY <1>1, <2>1 DEF k
  <2>3. Low(C) /\ Covered(K, C, {})
    BY <1>1, <2>1 DEF k, c
  <2>4. Low(C)' /\ Covered(K, C, {})'
    BY <1>1, <2>2, <2>3, LowStays, CoveredStays
  <2>5. K = run[i].of /\ C = run[i].cursor
    BY <2>1 DEF k, c
  <2>6. run'[i].of = K /\ run'[i].cursor = C
    BY <2>5
  <2> QED
    BY <2>2, <2>4, <2>5, <2>6 DEF Low, Covered, KeepsSink
<1>3. CASE ~(At(i, "deliver") \/ At(i, "advance"))
  BY <1>2, <1>3 DEF RunSound, At
<1>4. CASE At(i, "deliver") \/ At(i, "advance")
  <2>1. /\ run[i].batch \in SUBSET Rows /\ run[i].batch # {}
        /\ At(i, "advance") => run[i].batch \subseteq got[run[i].of]
    BY <1>1, <1>4, RunKinds DEF Inv, RunSound
  <2>2. ASSUME NEW b \in run[i].batch
        PROVE  /\ row'[b] \in {"visible", "deleted"}
               /\ at'[b] + ReadLag <= now'
               /\ Covered(run[i].of, Position(b), run[i].batch)'
    <3>1. /\ row[b] \in {"visible", "deleted"} /\ at[b] + ReadLag <= now
          /\ Covered(run[i].of, Position(b), run[i].batch) /\ b \in Rows
      BY <1>4, <2>1, <2>2 DEF Inv, RunSound
    <3>2. at'[b] = at[b] /\ row'[b] \in {"visible", "deleted"}
      BY <3>1 DEF LogGrows
    <3>3. /\ at[b] \in Nat /\ now \in Nat /\ now' \in Nat /\ now <= now'
          /\ ReadLag \in Nat
      BY <1>1, <3>1, TypeParts, AuditAssumption DEF Instants, LogGrows
    <3>4. Position(b) \in Positions /\ Low(Position(b))
      BY <1>1, <3>1, AuditAssumption
         DEF Position, Positions, Low, TypeOK
    <3>5. PICK K \in Sinks, C \in Positions, B \in SUBSET Rows :
             K = run[i].of /\ C = Position(b) /\ B = run[i].batch
      BY <1>1, <2>1, <3>4
    <3>6. KeepsSink(K) /\ Low(C) /\ Covered(K, C, B)
      BY <1>1, <3>1, <3>4, <3>5
    <3>7. Covered(K, C, B)'
      BY <1>1, <3>6, CoveredStays
    <3>8. /\ run'[i].of = K /\ run'[i].batch = B
          /\ C.t = at'[b] /\ C.id = b
      BY <3>2, <3>5 DEF Position
    <3> QED
      BY <3>2, <3>3, <3>1, <3>7, <3>8
         DEF Covered, Belongs, Follows, Position
  <2>3. /\ run'[i].batch = run[i].batch /\ run'[i].of = run[i].of
        /\ got[run[i].of] \subseteq got'[run[i].of]
    BY <1>1 DEF LogGrows
  <2> QED
    BY <1>2, <2>1, <2>2, <2>3 DEF RunSound, At
<1> QED
  BY <1>3, <1>4

(***************************************************************************)
(* What the sinks were told stays good enough.                             *)
(***************************************************************************)
LEMMA SinkStays ==
    ASSUME Inv, LogGrows, NEW k \in Sinks, sink'[k].cursor = sink[k].cursor,
           KeepsSink(k)
    PROVE  /\ sink'[k].cursor \in Positions
           /\ Low(sink[k].cursor)' /\ Covered(k, sink[k].cursor, {})'
<1>1. PICK C \in Positions : C = sink[k].cursor
  BY DEF Inv, SinksSound
<1>2. Low(C) /\ Covered(k, C, {}) /\ TypeOK
  BY <1>1 DEF Inv, SinksSound
<1>3. Low(C)' /\ Covered(k, C, {})'
  BY <1>2, LowStays, CoveredStays
<1>4. sink'[k].cursor = C
  BY <1>1
<1> QED
  BY <1>1, <1>3, <1>4 DEF Low, Covered

(***************************************************************************)
(* A pass that does not move stays sound: nothing is written, or committed *)
(* any more, below its limit.                                              *)
(***************************************************************************)
LEMMA BelowLimit ==
    ASSUME Inv, LogGrows, retain # Idle, NEW r \in Rows,
           row'[r] # "unused", at'[r] < retain.limit
    PROVE  row[r] \in {"visible", "deleted"} /\ at'[r] = at[r]
<1>1. /\ retain.limit \in Nat
      /\ retain.limit = 0 \/ retain.limit + ReadLag <= now
  BY DEF Inv, RetainSound
<1>2. /\ now \in Nat /\ at[r] \in Nat /\ at'[r] \in Nat /\ ReadLag \in Nat
      /\ row[r] \in {"unused", "written", "visible", "deleted"}
  BY TypeParts, AuditAssumption DEF Inv, Instants, LogGrows
<1>3. row[r] # "unused"
  <2> SUFFICES ASSUME row[r] = "unused" PROVE FALSE
    OBVIOUS
  <2>1. at'[r] = now
    BY DEF LogGrows
  <2> QED
    BY <1>1, <1>2, <2>1
<1>4. at'[r] = at[r]
  BY <1>3 DEF LogGrows
<1>5. row[r] # "written"
  BY <1>1, <1>2, <1>4 DEF Inv, LogSound
<1> QED
  BY <1>2, <1>3, <1>4, <1>5

LEMMA RetainStays ==
    ASSUME Inv, LogGrows, retain' = retain, archived \subseteq archived',
           steady' \subseteq Sinks,
           \A k \in Sinks : \/ KeepsSink(k)
                            \/ start'[k] = now \/ k \notin steady'
    PROVE  RetainSound'
<1>1. CASE retain = Idle
  BY <1>1 DEF RetainSound
<1>2. CASE retain # Idle
  <2>1. /\ retain \in [at : {"day", "delete"}, archive : BOOLEAN,
                       without : BOOLEAN, limit : Nat, day : Nat]
        /\ IsDay(retain.day)
        /\ retain.limit = 0 \/ retain.limit + ReadLag <= now
        /\ retain.at = "delete" => retain.day + Day <= retain.limit
    BY <1>2 DEF Inv, RetainSound
  <2>2. /\ now \in Nat /\ now' \in Nat /\ now <= now' /\ ReadLag \in Nat
        /\ Day \in Nat /\ retain.limit \in Nat /\ retain.day \in Nat
    BY <2>1, TypeParts, AuditAssumption DEF Inv, LogGrows
  <2>3. retain.limit = 0 \/ retain.limit + ReadLag <= now'
    BY <2>1, <2>2
  <2>4. ASSUME NEW k \in Sinks, k \in steady', NEW r \in Rows,
               row'[r] # "unused", at'[r] >= start'[k],
               r \in Matches[k], at'[r] < retain.limit
        PROVE  r \in got'[k]
    <3>1. row[r] # "unused" /\ at'[r] = at[r]
      BY <1>2, <2>4, BelowLimit
    <3>2. KeepsSink(k)
      <4>1. at[r] \in Nat
        BY TypeParts DEF Inv, Instants
      <4>2. start'[k] # now
        BY <2>1, <2>2, <2>4, <3>1, <4>1
      <4> QED
        BY <2>4, <4>2
    <3>3. r \in got[k]
      BY <1>2, <2>4, <3>1, <3>2
         DEF Inv, RetainSound, Belongs, KeepsSink
    <3> QED
      BY <3>3 DEF LogGrows
  <2>5. ASSUME retain.at = "delete", retain.archive, NEW r \in Rows,
               row'[r] = "visible", at'[r] >= retain.day,
               at'[r] < retain.day + Day
        PROVE  r \in archived'
    <3>1. at'[r] \in Nat /\ at'[r] < retain.limit
      BY <2>1, <2>2, <2>5 DEF LogGrows
    <3>2. row[r] \in {"visible", "deleted"} /\ at'[r] = at[r]
      BY <1>2, <2>5, <3>1, BelowLimit
    <3>3. row[r] = "visible"
      BY <2>5, <3>2 DEF LogGrows
    <3>4. r \in RowsOf(retain.day)
      BY <2>5, <3>2, <3>3 DEF RowsOf
    <3> QED
      BY <1>2, <2>5, <3>4 DEF Inv, RetainSound
  <2>6. \A k \in steady', r \in Rows :
           r \in Matches[k] /\ row'[r] # "unused" /\ at'[r] >= start'[k]
              /\ at'[r] < retain'.limit => r \in got'[k]
    BY <2>4
  <2>7. retain'.at = "delete" /\ retain'.archive =>
           \A r \in Rows : row'[r] = "visible" /\ at'[r] >= retain'.day
                              /\ at'[r] < retain'.day + Day
                              => r \in archived'
    BY <2>5
  <2> QED
    BY <2>1, <2>3, <2>6, <2>7 DEF RetainSound, Belongs, RowsOf, IsDay
<1> QED
  BY <1>1, <1>2

-----------------------------------------------------------------------------
(***************************************************************************)
(* Steps that leave the log alone.                                         *)
(***************************************************************************)
LEMMA QuietLog ==
    ASSUME Inv, UNCHANGED <<now, logVars>>,
           \A k \in Sinks : got[k] \subseteq got'[k]
    PROVE  LogGrows /\ LogSound'
<1>1. now \in Nat /\ at \in [Rows -> Nat]
  BY TypeParts DEF Inv, Instants
<1>2. LogGrows
  BY <1>1 DEF LogGrows, logVars
<1>3. LogSound'
  BY DEF Inv, LogSound, logVars, DayOf
<1> QED
  BY <1>2, <1>3

LEMMA QuietSinks ==
    ASSUME Inv, LogGrows, UNCHANGED sinkVars
    PROVE  SinksSound'
<1> SUFFICES ASSUME NEW k \in Sinks
             PROVE  /\ k \in steady' => Active(k)'
                    /\ Active(k)' => sink'[k].failures \in Failures
                    /\ sink'[k].cursor \in Positions
                    /\ Low(sink[k].cursor)' /\ Covered(k, sink[k].cursor, {})'
  BY DEF SinksSound, Failures, Positions, Times
<1>1. KeepsSink(k) /\ sink' = sink /\ steady' = steady
  BY DEF KeepsSink, sinkVars
<1>2. /\ sink'[k].cursor \in Positions
      /\ Low(sink[k].cursor)' /\ Covered(k, sink[k].cursor, {})'
  BY <1>1, SinkStays
<1>3. /\ k \in steady => Active(k)
      /\ Active(k) => sink[k].failures \in Failures
  BY DEF Inv, SinksSound
<1> QED
  BY <1>1, <1>2, <1>3 DEF Active

(***************************************************************************)
(* Time passes, rows are written and committed.                            *)
(***************************************************************************)
LEMMA LogStep ==
    ASSUME Inv, LogGrows, LogSound', now' \in Times,
           row' \in [Rows -> {"unused", "written", "visible", "deleted"}],
           at' \in [Rows -> Times],
           UNCHANGED <<sinkVars, got, lock, run, retVars>>,
           \A r \in Rows : row'[r] = "deleted" => row[r] = "deleted"
    PROVE  Inv'
<1>1. TypeOK' /\ run' \in [Instances -> Runs]
  BY DEF Inv, TypeOK, sinkVars, retVars, Runs, Positions, Failures, Idle
<1>2. SinksSound'
  BY QuietSinks
<1>3. \A k \in Sinks : KeepsSink(k) /\ sink'[k] = sink[k]
  BY DEF KeepsSink, sinkVars
<1>4. \A i \in Instances : RunSound(i)'
  BY <1>3, RunStays
<1>5. RetainSound'
  BY <1>1, <1>3, RetainStays DEF retVars, TypeOK
<1>6. OwedIsKept'
  BY DEF Inv, OwedIsKept, Belongs, LogGrows, sinkVars
<1>7. DeletedIsArchived'
  BY DEF Inv, DeletedIsArchived, retVars
<1> QED
  BY <1>1, <1>2, <1>4, <1>5, <1>6, <1>7 DEF Inv

LEMMA LogSteps ==
    ASSUME Inv, (\E r \in Rows : Write(r) \/ Commit(r)) \/ Tick
    PROVE  Inv'
<1> USE DEF logVars
<1>0. /\ now \in Times /\ now \in Nat /\ MaxTime \in Nat /\ ReadLag \in Nat
      /\ ReadLag > 0 /\ Day \in Nat /\ Day > 0
      /\ row \in [Rows -> {"unused", "written", "visible", "deleted"}]
      /\ at \in [Rows -> Times] /\ at \in [Rows -> Nat]
  BY TypeParts, AuditAssumption DEF Inv, TypeOK, Instants
<1>00. \A r \in Rows : DayOf(at[r]) \in Nat
  BY <1>0, DayOfInstant DEF IsDay
<1>1. ASSUME NEW r \in Rows, Write(r) PROVE Inv'
  <2>1. /\ row[r] = "unused" /\ now' = now
        /\ \A u \in Rows : /\ row'[u] = IF u = r THEN "written" ELSE row[u]
                           /\ at'[u] = IF u = r THEN now ELSE at[u]
        /\ UNCHANGED <<sinkVars, got, lock, run, retVars>>
        /\ row' \in [Rows -> {"unused", "written", "visible", "deleted"}]
        /\ at' \in [Rows -> Times]
    BY <1>0, <1>1 DEF Write
  <2>2. LogGrows
    BY <1>0, <2>1 DEF LogGrows
  <2>3. ASSUME NEW u \in Rows, row[u] = "deleted"
        PROVE  DayOf(at[u]) # DayOf(now)
    <3>1. DayOf(at[u]) + Day <= now
      BY <2>3 DEF Inv, LogSound
    <3>2. now < DayOf(now) + Day /\ DayOf(now) \in Nat
      BY <1>0, DayOfInstant DEF IsDay
    <3> HIDE DEF DayOf
    <3> QED
      BY <1>0, <1>00, <3>1, <3>2
  <2>4. LogSound'
    <3>1. ASSUME NEW u \in Rows
          PROVE  /\ row'[u] # "unused" => at'[u] <= now
                 /\ row'[u] = "written" => now < at'[u] + ReadLag
                 /\ row'[u] = "deleted" => DayOf(at'[u]) + Day <= now
      BY <1>0, <2>1 DEF Inv, LogSound
    <3>2. ASSUME NEW u \in Rows, NEW w \in Rows, row'[u] = "deleted",
                 row'[w] # "unused", DayOf(at'[u]) = DayOf(at'[w])
          PROVE  row'[w] = "deleted"
      <4>1. row[u] = "deleted" /\ at'[u] = at[u]
        BY <2>1, <3>2
      <4>2. w # r
        BY <2>1, <2>3, <3>2, <4>1
      <4> QED
        BY <2>1, <3>2, <4>1, <4>2 DEF Inv, LogSound
    <3> QED
      BY <2>1, <3>1, <3>2 DEF LogSound, DayOf
  <2> QED
    BY <1>0, <2>1, <2>2, <2>4, LogStep
<1>2. ASSUME NEW r \in Rows, Commit(r) PROVE Inv'
  <2>1. /\ row[r] = "written" /\ now' = now /\ at' = at
        /\ \A u \in Rows : row'[u] = IF u = r THEN "visible" ELSE row[u]
        /\ UNCHANGED <<sinkVars, got, lock, run, retVars>>
        /\ row' \in [Rows -> {"unused", "written", "visible", "deleted"}]
    BY <1>0, <1>2 DEF Commit
  <2>2. LogGrows
    BY <1>0, <2>1 DEF LogGrows
  <2>3. LogSound'
    BY <2>1 DEF Inv, LogSound, DayOf
  <2> QED
    BY <1>0, <2>1, <2>2, <2>3, LogStep
<1>3. CASE Tick
  <2>1. /\ now' = now + 1 /\ now' \in Times /\ row' = row /\ at' = at
        /\ \A r \in Rows : row[r] = "written" => now' < at[r] + ReadLag
        /\ UNCHANGED <<sinkVars, got, lock, run, retVars>>
    BY <1>0, <1>3 DEF Tick, Times
  <2>2. LogGrows
    BY <1>0, <2>1 DEF LogGrows
  <2>3. LogSound'
    <3>1. ASSUME NEW u \in Rows
          PROVE  /\ row[u] # "unused" => at[u] <= now'
                 /\ row[u] = "deleted" => DayOf(at[u]) + Day <= now'
      <4>1. /\ row[u] # "unused" => at[u] <= now
            /\ row[u] = "deleted" => DayOf(at[u]) + Day <= now
        BY DEF Inv, LogSound
      <4> HIDE DEF DayOf
      <4> QED
        BY <1>0, <1>00, <2>1, <4>1
    <3>2. \A u, w \in Rows :
             row[u] = "deleted" /\ row[w] # "unused"
                /\ DayOf(at[u]) = DayOf(at[w]) => row[w] = "deleted"
      BY DEF Inv, LogSound
    <3> QED
      BY <2>1, <3>1, <3>2 DEF LogSound, DayOf
  <2> QED
    BY <1>0, <2>1, <2>2, <2>3, LogStep
<1> QED
  BY <1>1, <1>2, <1>3

-----------------------------------------------------------------------------
(***************************************************************************)
(* The export job.                                                         *)
(***************************************************************************)
LEMMA JobStep ==
    ASSUME Inv, NEW i \in Instances,
           UNCHANGED <<now, logVars, start, retVars>>,
           steady' \subseteq steady,
           got' \in [Sinks -> SUBSET Rows],
           \A k \in Sinks : got[k] \subseteq got'[k],
           sink' \in [Sinks -> [state : {"none", "active", "off", "gaveUp"},
                          cursor : Positions, failures : 0..MaxFailures]],
           \A k \in Sinks : sink[k].state # "none" => sink'[k].state # "none",
           SinksSound', lock' \subseteq Sinks,
           run' \in [Instances -> Runs],
           \A j \in Instances \ {i} : run'[j] = run[j],
           RunSound(i)'
    PROVE  Inv'
<1> USE DEF retVars, logVars
<1>1. LogGrows /\ LogSound'
  BY QuietLog
<1>2. TypeOK'
  <2>1. \A j \in Instances : run'[j].at \in
           {"idle", "due", "read", "deliver", "advance"}
    <3> SUFFICES ASSUME NEW j \in Instances
                 PROVE  run'[j].at \in
                           {"idle", "due", "read", "deliver", "advance"}
      OBVIOUS
    <3>1. run'[j] \in Runs
      OBVIOUS
    <3> QED
      BY <3>1 DEF Runs, Idle
  <2> QED
    BY <2>1 DEF Inv, TypeOK, Positions, Cursors
<1>3. \A k \in Sinks : KeepsSink(k)
  BY DEF KeepsSink
<1>4. \A j \in Instances : RunSound(j)'
  <2> SUFFICES ASSUME NEW j \in Instances, j # i PROVE RunSound(j)'
    OBVIOUS
  <2> QED
    BY <1>1, <1>3, RunStays
<1>5. RetainSound'
  BY <1>1, <1>2, <1>3, RetainStays DEF TypeOK
<1>6. OwedIsKept'
  <2> SUFFICES ASSUME NEW k \in steady', NEW r \in Rows,
                      r \in Matches[k], row[r] = "deleted",
                      at[r] >= start[k]
               PROVE  r \in got'[k]
    BY DEF OwedIsKept, Belongs
  <2>1. k \in steady /\ k \in Sinks
    BY TypeParts DEF Inv
  <2>2. r \in got[k]
    BY <2>1 DEF Inv, OwedIsKept, Belongs
  <2> QED
    BY <2>1, <2>2
<1>7. DeletedIsArchived'
  BY DEF Inv, DeletedIsArchived
<1> QED
  BY <1>1, <1>2, <1>4, <1>5, <1>6, <1>7 DEF Inv

\* Steps of a run that tell the sinks nothing.
LEMMA InnerStep ==
    ASSUME Inv, NEW i \in Instances,
           UNCHANGED <<now, logVars, sinkVars, got, retVars>>,
           lock' \subseteq Sinks, run' = [run EXCEPT ![i] = run'[i]],
           run'[i] \in Runs, RunSound(i)'
    PROVE  Inv'
<1>1. LogGrows
  BY QuietLog
<1>2. SinksSound'
  BY <1>1, QuietSinks
<1>3. /\ run \in [Instances -> Runs]
      /\ got \in [Sinks -> SUBSET Rows]
      /\ sink \in [Sinks -> [state : {"none", "active", "off", "gaveUp"},
                     cursor : Positions, failures : 0..MaxFailures]]
  BY TypeParts DEF Inv
<1>4. /\ run' \in [Instances -> Runs]
      /\ \A j \in Instances \ {i} : run'[j] = run[j]
  BY <1>3
<1> QED
  BY <1>2, <1>3, <1>4, JobStep DEF sinkVars

LEMMA RunEnds ==
    ASSUME Inv, NEW i \in Instances,
           UNCHANGED <<now, logVars, sinkVars, got, retVars>>,
           lock' \subseteq Sinks, Goto(i, Idle)
    PROVE  Inv'
<1>1. run' = [run EXCEPT ![i] = Idle] /\ run'[i] = Idle
  BY DEF Goto, Inv
<1>2. run'[i] \in Runs /\ RunSound(i)'
  BY <1>1 DEF Runs, RunSound, At, Idle
<1> QED
  BY <1>1, <1>2, InnerStep

LEMMA FinishSteps ==
    ASSUME Inv, NEW i \in Instances, NothingOwed(i) \/ CrashRun(i)
    PROVE  Inv'
<1>1. lock \subseteq Sinks
  BY TypeParts DEF Inv
<1>2. lock' \subseteq Sinks /\ Goto(i, Idle)
  BY <1>1 DEF NothingOwed, CrashRun, Finish
<1> QED
  BY <1>2, RunEnds DEF NothingOwed, CrashRun

LEMMA FindDueStep ==
    ASSUME Inv, NEW i \in Instances, NEW k \in Sinks, FindDue(i, k)
    PROVE  Inv'
<1> DEFINE p == [at |-> "due", of |-> k, cursor |-> sink[k].cursor,
                 failures |-> sink[k].failures]
<1>1. /\ Active(k) /\ run' = [run EXCEPT ![i] = p] /\ run'[i] = p
      /\ UNCHANGED <<now, logVars, sinkVars, got, lock, retVars>>
  BY DEF FindDue, Goto, Inv
<1>2. /\ sink[k].cursor \in Positions /\ sink[k].failures \in Failures
      /\ Low(sink[k].cursor) /\ Covered(k, sink[k].cursor, {})
      /\ sink[k].state # "none"
  BY <1>1 DEF Inv, SinksSound, Active
<1>3. p \in Runs
  BY <1>2 DEF Runs
<1>4. RunSound(i)'
  <2>1. /\ run'[i].at = "due" /\ run'[i].of = k
        /\ run'[i].cursor = sink[k].cursor
    BY <1>1
  <2> QED
    BY <1>1, <1>2, <2>1
       DEF RunSound, At, Low, Covered, Belongs, Follows, sinkVars, logVars
<1>5. lock' \subseteq Sinks
  BY <1>1, TypeParts DEF Inv
<1> HIDE DEF p
<1> QED
  BY <1>1, <1>3, <1>4, <1>5, InnerStep

LEMMA BeginStep ==
    ASSUME Inv, NEW i \in Instances, NEW held \in BOOLEAN, At(i, "due"),
           Begin(i, held), lock' \subseteq Sinks,
           UNCHANGED <<now, logVars, sinkVars, got, retVars>>
    PROVE  Inv'
<1> DEFINE p == [at |-> "read", of |-> run[i].of, cursor |-> run[i].cursor,
                 failures |-> run[i].failures, left |-> MaxBatches,
                 held |-> held]
<1>1. run' = [run EXCEPT ![i] = p] /\ run'[i] = p
  BY DEF Begin, Goto, Inv
<1>2. /\ run[i].of \in Sinks /\ run[i].cursor \in Positions
      /\ run[i].failures \in Failures
  BY RunKinds DEF At
<1>3. p \in Runs
  BY <1>2, AuditAssumption DEF Runs
<1>4. RunSound(i)'
  <2>1. /\ run'[i].at = "read" /\ run'[i].of = run[i].of
        /\ run'[i].cursor = run[i].cursor
    BY <1>1
  <2>2. RunSound(i) /\ ~At(i, "idle")
    BY DEF Inv, At
  <2> QED
    BY <2>1, <2>2
       DEF RunSound, At, Low, Covered, Belongs, Follows, sinkVars, logVars
<1> HIDE DEF p
<1> QED
  BY <1>1, <1>3, <1>4, InnerStep

LEMMA StartSteps ==
    ASSUME Inv, NEW i \in Instances, TakeLock(i) \/ RunUnlocked(i)
    PROVE  Inv'
<1>1. lock \subseteq Sinks
  BY TypeParts DEF Inv
<1>2. CASE TakeLock(i) /\ run[i].of \in lock
  BY <1>1, <1>2, RunEnds DEF TakeLock
<1>3. CASE TakeLock(i) /\ run[i].of \notin lock
  <2>1. run[i].of \in Sinks
    BY <1>3, RunKinds DEF TakeLock, At
  <2> QED
    BY <1>1, <1>3, <2>1, BeginStep DEF TakeLock
<1>4. CASE RunUnlocked(i)
  BY <1>1, <1>4, BeginStep DEF RunUnlocked
<1> QED
  BY <1>2, <1>3, <1>4

(***************************************************************************)
(* A batch is an initial segment of what a run owes, so once it is shipped *)
(* the run may go on from any of its rows.                                 *)
(***************************************************************************)
LEMMA BatchCovers ==
    ASSUME Inv, NEW i \in Instances, At(i, "read"), NEW b \in BatchOf(i)
    PROVE  /\ BatchOf(i) \in SUBSET Rows
           /\ row[b] = "visible" /\ at[b] + ReadLag <= now
           /\ Covered(run[i].of, Position(b), BatchOf(i))
<1> DEFINE k == run[i].of
           S == Owed(k, run[i].cursor)
<1>1. /\ k \in Sinks /\ Covered(k, run[i].cursor, {}) /\ Instants
      /\ now \in Nat /\ ReadLag \in Nat
      /\ row \in [Rows -> {"unused", "written", "visible", "deleted"}]
  BY RunKinds, TypeParts, AuditAssumption DEF Inv, RunSound, At
<1>2. S \in SUBSET Rows
  BY <1>1, AuditAssumption DEF Owed
<1>3. BatchOf(i) = FirstRows(S, BatchSize) /\ BatchOf(i) \subseteq S
  BY DEF BatchOf, FirstRows
<1>4. b \in S /\ b \in Rows
  BY <1>2, <1>3
<1>5. row[b] = "visible" /\ at[b] + ReadLag <= now
  BY <1>4 DEF Owed, BelowCeiling
<1>6. ASSUME NEW r \in Rows, Belongs(r, k), ~Follows(r, Position(b))
      PROVE  \/ r \in got[k] \cup BatchOf(i)
             \/ row[r] = "deleted" /\ k \notin steady
  <2>1. CASE ~Follows(r, run[i].cursor)
    BY <1>1, <1>6, <2>1 DEF Covered
  <2>2. CASE Follows(r, run[i].cursor)
    <3>1. at[r] <= at[b] /\ at[r] \in Nat /\ at[b] \in Nat
      BY <1>1, <1>4, <1>6, Order DEF Instants
    <3>2. BelowCeiling(r)
      BY <1>1, <1>5, <3>1 DEF BelowCeiling
    <3>3. row[r] # "written" /\ row[r] # "unused"
      BY <1>1, <1>6, <3>1, <3>2
         DEF Inv, LogSound, BelowCeiling, Belongs
    <3>4. CASE row[r] = "deleted"
      BY <1>1, <1>6, <3>4 DEF Inv, OwedIsKept
    <3>5. CASE row[r] = "visible"
      <4>1. r \in S
        BY <1>6, <2>2, <3>2, <3>5 DEF Owed, Belongs
      <4>2. BatchSize \in Nat \ {0} /\ b \in FirstRows(S, BatchSize)
        BY <1>3, AuditAssumption
      <4> HIDE DEF S
      <4>3. r \in FirstRows(S, BatchSize)
        BY <1>1, <1>2, <1>6, <4>1, <4>2, FirstRowsSegment
      <4> QED
        BY <1>3, <4>3
    <3> QED
      BY <1>1, <3>3, <3>4, <3>5
  <2> QED
    BY <2>1, <2>2
<1> QED
  BY <1>2, <1>3, <1>5, <1>6 DEF Covered

LEMMA ReadBatchStep ==
    ASSUME Inv, NEW i \in Instances, ReadBatch(i)
    PROVE  Inv'
<1> DEFINE p == [at |-> "deliver", of |-> run[i].of, cursor |-> run[i].cursor,
                 failures |-> run[i].failures, left |-> run[i].left,
                 held |-> run[i].held, batch |-> BatchOf(i)]
<1>1. /\ At(i, "read") /\ BatchOf(i) # {}
      /\ run' = [run EXCEPT ![i] = p] /\ run'[i] = p
      /\ UNCHANGED <<now, logVars, sinkVars, got, lock, retVars>>
  BY DEF ReadBatch, Goto, Inv
<1>2. /\ run[i].of \in Sinks /\ run[i].cursor \in Positions
      /\ run[i].failures \in Failures /\ run[i].held \in BOOLEAN
      /\ run[i].left \in Int
  BY <1>1, RunKinds DEF At
<1>3. PICK B \in SUBSET Rows : B = BatchOf(i)
  BY <1>1, BatchCovers
<1>4. \A b \in B : /\ row[b] = "visible" /\ at[b] + ReadLag <= now
                   /\ Covered(run[i].of, Position(b), B)
  BY <1>1, <1>3, BatchCovers
<1>5. p \in Runs
  <2>1. BatchOf(i) \in SUBSET Rows
    BY <1>3
  <2> QED
    BY <1>2, <2>1 DEF Runs
<1>6. RunSound(i)'
  <2>1. /\ run'[i].at = "deliver" /\ run'[i].of = run[i].of
        /\ run'[i].cursor = run[i].cursor /\ run'[i].batch = B
    BY <1>1, <1>3
  <2>2. RunSound(i) /\ ~At(i, "idle") /\ B # {}
    BY <1>1, <1>3 DEF Inv, At
  <2> QED
    BY <1>1, <1>4, <2>1, <2>2
       DEF RunSound, At, Low, Covered, Belongs, Follows, Position, sinkVars,
           logVars
<1>7. lock' \subseteq Sinks
  BY <1>1, TypeParts DEF Inv
<1> HIDE DEF p
<1> QED
  BY <1>1, <1>5, <1>6, <1>7, InnerStep

\* A step that leaves the cursors where they are and stops no sink.
LEMMA CursorsStay ==
    ASSUME Inv, UNCHANGED <<now, logVars, start>>, steady' \subseteq steady,
           \A k \in Sinks : got[k] \subseteq got'[k],
           \A k \in Sinks : /\ sink'[k].cursor = sink[k].cursor
                            /\ k \in steady' => Active(k)'
                            /\ Active(k)' => sink'[k].failures \in Failures
    PROVE  SinksSound'
<1>1. LogGrows
  BY QuietLog
<1> SUFFICES ASSUME NEW k \in Sinks
             PROVE  /\ k \in steady' => Active(k)'
                    /\ Active(k)' => sink'[k].failures \in Failures
                    /\ sink'[k].cursor \in Positions
                    /\ Low(sink[k].cursor)' /\ Covered(k, sink[k].cursor, {})'
  BY DEF SinksSound, Failures, Positions, Times
<1>2. KeepsSink(k)
  BY DEF KeepsSink
<1> QED
  BY <1>1, <1>2, SinkStays

LEMMA DeliverStep ==
    ASSUME Inv, NEW i \in Instances, Deliver(i)
    PROVE  Inv'
<1> DEFINE p == [run[i] EXCEPT !.at = "advance"]
           k == run[i].of
<1>1. /\ At(i, "deliver")
      /\ run' = [run EXCEPT ![i] = p] /\ run'[i] = p
      /\ got' = [got EXCEPT ![k] = got[k] \cup run[i].batch]
      /\ UNCHANGED <<now, logVars, sinkVars, lock, retVars>>
  BY DEF Deliver, Goto, Inv
<1>2. /\ run[i] \in [at : {"deliver", "advance"}, of : Sinks,
                     cursor : Positions, failures : Failures,
                     left : Int, held : BOOLEAN, batch : SUBSET Rows]
      /\ ~At(i, "idle") /\ RunSound(i)
  BY <1>1, RunKinds DEF At, Inv
<1>3. p \in Runs
  BY <1>2 DEF Runs
<1>4. /\ got' \in [Sinks -> SUBSET Rows]
      /\ \A j \in Sinks : got[j] \subseteq got'[j]
      /\ run[i].batch \subseteq got'[k]
  BY <1>1, <1>2, TypeParts DEF Inv
<1>5. RunSound(i)'
  <2>1. /\ run'[i].at = "advance" /\ run'[i].of = k
        /\ run'[i].cursor = run[i].cursor /\ run'[i].batch = run[i].batch
    BY <1>1, <1>2
  <2>2. /\ sink[k].state # "none" /\ run[i].batch # {} /\ k \in Sinks
        /\ Low(run[i].cursor) /\ Covered(k, run[i].cursor, {})
        /\ \A b \in run[i].batch :
              /\ row[b] \in {"visible", "deleted"} /\ at[b] + ReadLag <= now
              /\ Covered(k, Position(b), run[i].batch)
    BY <1>1, <1>2 DEF RunSound
  <2>3. got[k] \subseteq got'[k]
    BY <1>4, <2>2
  <2> HIDE DEF k, p
  <2>4. Low(run[i].cursor)' /\ sink'[run'[i].of].state # "none"
    BY <1>1, <2>1, <2>2 DEF Low, sinkVars
  <2>5. Covered(run[i].of, run[i].cursor, {})'
    BY <1>1, <2>1, <2>2, <2>3
       DEF Covered, Belongs, Follows, sinkVars, logVars, k
  <2>6. \A b \in run'[i].batch :
           /\ row'[b] \in {"visible", "deleted"} /\ at'[b] + ReadLag <= now'
           /\ Covered(run[i].of, Position(b), run[i].batch)'
    BY <1>1, <2>1, <2>2, <2>3
       DEF Covered, Belongs, Follows, Position, sinkVars, logVars, k
  <2> QED
    BY <1>4, <2>1, <2>2, <2>4, <2>5, <2>6 DEF RunSound, At, Low, k
<1>6. SinksSound'
  BY <1>1, <1>4, CursorsStay DEF sinkVars, Inv, SinksSound, Active
<1>7. /\ run' \in [Instances -> Runs] /\ lock' \subseteq Sinks
      /\ \A j \in Instances \ {i} : run'[j] = run[j]
      /\ sink' \in [Sinks -> [state : {"none", "active", "off", "gaveUp"},
                      cursor : Positions, failures : 0..MaxFailures]]
  BY <1>1, <1>3, TypeParts DEF Inv, sinkVars
<1> HIDE DEF p, k
<1> QED
  BY <1>1, <1>4, <1>5, <1>6, <1>7, JobStep DEF sinkVars

(***************************************************************************)
(* The cursor moves to the last row of a batch that has arrived.           *)
(***************************************************************************)
LEMMA AdvanceStep ==
    ASSUME Inv, NEW i \in Instances, Advance(i)
    PROVE  Inv'
<1> DEFINE k == run[i].of
           c == Position(LastRow(run[i].batch))
           p == [at |-> "read", of |-> k, cursor |-> c,
                 failures |-> run[i].failures, left |-> run[i].left - 1,
                 held |-> run[i].held]
<1>1. /\ At(i, "advance")
      /\ sink' = [sink EXCEPT ![k] = [sink[k] EXCEPT !.cursor = c,
                                                    !.failures = 0]]
      /\ run' = [run EXCEPT ![i] = p] /\ run'[i] = p
      /\ UNCHANGED <<now, logVars, start, steady, got, lock, retVars>>
  BY DEF Advance, Goto, Inv
<1>2. /\ k \in Sinks /\ run[i].failures \in Failures
      /\ run[i].held \in BOOLEAN /\ run[i].left \in Int
      /\ run[i].batch \in SUBSET Rows /\ ~At(i, "idle")
  BY <1>1, RunKinds DEF At
<1>3. /\ sink[k].state # "none" /\ run[i].batch # {}
      /\ run[i].batch \subseteq got[k]
      /\ \A b \in run[i].batch :
            /\ at[b] + ReadLag <= now
            /\ Covered(k, Position(b), run[i].batch)
  BY <1>1, <1>2 DEF Inv, RunSound
<1>4. LastRow(run[i].batch) \in run[i].batch
  BY <1>2, <1>3, LastRowIsLast, TypeParts DEF Inv
<1>5. PICK b \in Rows : b = LastRow(run[i].batch)
  BY <1>2, <1>4
<1>6. /\ c.t = at[b] /\ c.id = b /\ c \in Positions
      /\ at[b] + ReadLag <= now /\ Covered(k, Position(b), {})
  <2>1. at[b] \in Times /\ b \in Nat
    BY AuditAssumption DEF Inv, TypeOK
  <2>2. Covered(k, Position(b), run[i].batch)
    BY <1>3, <1>4, <1>5
  <2> QED
    BY <1>3, <1>4, <1>5, <2>1, <2>2 DEF Position, Positions, Covered
<1>7. sink \in [Sinks -> [state : {"none", "active", "off", "gaveUp"},
                         cursor : Positions, failures : 0..MaxFailures]]
  BY TypeParts DEF Inv
<1>8. /\ sink'[k].cursor = c /\ sink'[k].failures = 0
      /\ sink'[k].state = sink[k].state
      /\ \A j \in Sinks \ {k} : sink'[j] = sink[j]
  BY <1>1, <1>2, <1>7
<1>9. 0 \in Failures /\ 0 \in 0..MaxFailures
  BY AuditAssumption DEF Failures
<1>10. sink' \in [Sinks -> [state : {"none", "active", "off", "gaveUp"},
                           cursor : Positions, failures : 0..MaxFailures]]
  <2> HIDE DEF c
  <2> QED
    BY <1>1, <1>2, <1>6, <1>7, <1>9
<1>11. p \in Runs
  <2> HIDE DEF c
  <2> QED
    BY <1>2, <1>6 DEF Runs
<1>12. /\ run' \in [Instances -> Runs] /\ lock' \subseteq Sinks
       /\ \A j \in Instances \ {i} : run'[j] = run[j]
  BY <1>1, <1>11, TypeParts DEF Inv
<1>13. RunSound(i)'
  <2>1. run'[i].at = "read" /\ run'[i].of = k /\ run'[i].cursor = c
    BY <1>1
  <2> HIDE DEF p, c
  <2>2. sink'[run'[i].of].state # "none"
    BY <1>3, <1>8, <2>1
  <2>3. Low(run[i].cursor)'
    BY <1>1, <1>6, <2>1 DEF Low
  <2>4. \A r \in Rows : Belongs(r, run[i].of)' /\ ~Follows(r, run[i].cursor)'
          => \/ r \in got'[run'[i].of]
             \/ row'[r] = "deleted" /\ run'[i].of \notin steady'
    BY <1>1, <1>6, <2>1
       DEF Covered, Belongs, Follows, Position, logVars
  <2> QED
    BY <2>1, <2>2, <2>3, <2>4 DEF RunSound, At, Low, Covered
<1>14. SinksSound'
  <2> SUFFICES ASSUME NEW j \in Sinks
               PROVE  /\ j \in steady' => Active(j)'
                      /\ Active(j)' => sink'[j].failures \in Failures
                      /\ sink'[j].cursor \in Positions
                      /\ Low(sink[j].cursor)'
                      /\ Covered(j, sink[j].cursor, {})'
    BY DEF SinksSound, Failures, Positions, Times
  <2>1. /\ j \in steady => Active(j)
        /\ Active(j) => sink[j].failures \in Failures
    BY DEF Inv, SinksSound
  <2>2. CASE j # k
    <3>1. LogGrows /\ KeepsSink(j) /\ sink'[j] = sink[j]
      BY <1>1, <1>8, <2>2, QuietLog DEF KeepsSink
    <3> QED
      BY <1>1, <2>1, <3>1, SinkStays DEF Active
  <2>3. CASE j = k
    <3>1. /\ sink'[j].cursor = c /\ sink'[j].failures \in Failures
          /\ sink'[j].state = sink[j].state
      BY <1>8, <1>9, <2>3
    <3> HIDE DEF c, k
    <3>2. Low(sink[j].cursor)'
      BY <1>1, <1>6, <3>1 DEF Low
    <3>3. \A r \in Rows : Belongs(r, j)' /\ ~Follows(r, sink[j].cursor)'
            => \/ r \in got'[j]
               \/ row'[r] = "deleted" /\ j \notin steady'
      BY <1>1, <1>6, <2>3, <3>1
         DEF Covered, Belongs, Follows, Position, logVars
    <3> QED
      BY <1>1, <1>6, <2>1, <3>1, <3>2, <3>3 DEF Active, Low, Covered
  <2> QED
    BY <2>2, <2>3
<1>15. /\ got' \in [Sinks -> SUBSET Rows]
       /\ \A j \in Sinks : got[j] \subseteq got'[j]
       /\ \A j \in Sinks : sink[j].state # "none" => sink'[j].state # "none"
       /\ steady' \subseteq steady
  BY <1>1, <1>3, <1>8, TypeParts DEF Inv
<1> HIDE DEF p, k, c
<1> QED
  BY <1>1, <1>10, <1>12, <1>13, <1>14, <1>15, JobStep

LEMMA DeliverFailsStep ==
    ASSUME Inv, NEW i \in Instances, NEW permanent \in BOOLEAN,
           DeliverFails(i, permanent)
    PROVE  Inv'
<1> DEFINE k == run[i].of
           n == run[i].failures + 1
           giveUp == permanent \/ n >= MaxFailures
<1>1. /\ At(i, "deliver") \/ At(i, "advance")
      /\ sink' = [sink EXCEPT ![k] =
                     [sink[k] EXCEPT !.failures = n,
                         !.state = IF giveUp THEN "gaveUp"
                                   ELSE sink[k].state]]
      /\ steady' = IF giveUp THEN steady \ {k} ELSE steady
      /\ lock' = IF run[i].held THEN lock \ {k} ELSE lock
      /\ Goto(i, Idle)
      /\ UNCHANGED <<now, logVars, start, got, retVars>>
  BY DEF DeliverFails, Finish, GiveUp
<1>2. /\ k \in Sinks /\ run[i].failures \in Failures
      /\ sink[k].state # "none"
  BY <1>1, RunKinds DEF Inv, RunSound, At
<1>3. n \in 0..MaxFailures /\ (~giveUp => n \in Failures)
  BY <1>2, AuditAssumption DEF Failures
<1>4. sink \in [Sinks -> [state : {"none", "active", "off", "gaveUp"},
                         cursor : Positions, failures : 0..MaxFailures]]
  BY TypeParts DEF Inv
<1> HIDE DEF n, giveUp
<1>5. /\ sink'[k].failures = n /\ sink'[k].cursor = sink[k].cursor
      /\ sink'[k].state = IF giveUp THEN "gaveUp" ELSE sink[k].state
      /\ \A j \in Sinks \ {k} : sink'[j] = sink[j]
      /\ sink' \in [Sinks -> [state : {"none", "active", "off", "gaveUp"},
                      cursor : Positions, failures : 0..MaxFailures]]
  BY <1>1, <1>2, <1>3, <1>4
<1>6. run' = [run EXCEPT ![i] = Idle] /\ run'[i] = Idle
  BY <1>1 DEF Goto, Inv
<1>7. RunSound(i)'
  BY <1>6 DEF RunSound, At, Idle
<1>8. /\ run' \in [Instances -> Runs] /\ lock' \subseteq Sinks
      /\ \A j \in Instances \ {i} : run'[j] = run[j]
  BY <1>1, <1>6, TypeParts DEF Inv, Runs
<1>9. SinksSound'
  <2>1. ASSUME NEW j \in Sinks
        PROVE  /\ sink'[j].cursor = sink[j].cursor
               /\ j \in steady' => Active(j)'
               /\ Active(j)' => sink'[j].failures \in Failures
    BY <1>1, <1>2, <1>3, <1>5 DEF Active, Inv, SinksSound
  <2>2. steady' \subseteq steady
    BY <1>1
  <2> QED
    BY <1>1, <2>1, <2>2, CursorsStay
<1>10. /\ got' \in [Sinks -> SUBSET Rows]
       /\ \A j \in Sinks : got[j] \subseteq got'[j]
       /\ \A j \in Sinks : sink[j].state # "none" => sink'[j].state # "none"
       /\ steady' \subseteq steady
  BY <1>1, <1>2, <1>5, TypeParts DEF Inv
<1> QED
  BY <1>1, <1>5, <1>7, <1>8, <1>9, <1>10, JobStep

-----------------------------------------------------------------------------
(***************************************************************************)
(* The configuration of sinks, and locks that expire.                      *)
(***************************************************************************)
LEMMA ConfigStep ==
    ASSUME Inv, NEW k \in Sinks,
           UNCHANGED <<now, logVars, got, run, retVars>>,
           lock' \subseteq Sinks,
           sink' \in [Sinks -> [state : {"none", "active", "off", "gaveUp"},
                          cursor : Positions, failures : 0..MaxFailures]],
           start' \in [Sinks -> Times], steady' \subseteq Sinks,
           \A j \in Sinks : sink[j].state # "none" =>
                             sink'[j].state # "none" /\ KeepsSink(j),
           \A j \in Sinks : \/ KeepsSink(j)
                            \/ start'[j] = now \/ j \notin steady',
           SinksSound', OwedIsKept'
    PROVE  Inv'
<1> USE DEF retVars, logVars
<1>1. LogGrows /\ LogSound'
  BY QuietLog
<1>2. TypeOK' /\ run' \in [Instances -> Runs]
  BY DEF Inv, TypeOK, Positions, Cursors, Runs, Failures, Idle, Times
<1>3. \A j \in Instances : RunSound(j)'
  BY <1>1, RunStays
<1>4. RetainSound'
  BY <1>1, RetainStays
<1>5. DeletedIsArchived'
  BY DEF Inv, DeletedIsArchived
<1> QED
  BY <1>1, <1>2, <1>3, <1>4, <1>5 DEF Inv

LEMMA SwitchSteps ==
    ASSUME Inv, NEW k \in Sinks,
           ActivateSink(k) \/ DeactivateSink(k) \/ LockExpires(k)
    PROVE  Inv'
<1>1. /\ UNCHANGED <<now, logVars, start, got, run, retVars>>
      /\ steady' \subseteq steady /\ lock' \subseteq Sinks
  BY TypeParts DEF Inv, ActivateSink, DeactivateSink, LockExpires, sinkVars
<1>2. /\ sink \in [Sinks -> [state : {"none", "active", "off", "gaveUp"},
                        cursor : Positions, failures : 0..MaxFailures]]
      /\ start \in [Sinks -> Times] /\ steady \subseteq Sinks
  BY TypeParts DEF Inv
<1>3. 0 \in Failures /\ 0 \in 0..MaxFailures
  BY AuditAssumption DEF Failures
<1>4. /\ sink' \in [Sinks -> [state : {"none", "active", "off", "gaveUp"},
                         cursor : Positions, failures : 0..MaxFailures]]
      /\ \A j \in Sinks :
            /\ sink[j].state # "none" => sink'[j].state # "none"
            /\ sink'[j].cursor = sink[j].cursor
            /\ j \in steady' => Active(j)'
            /\ Active(j)' => sink'[j].failures \in Failures
  <2>1. CASE ActivateSink(k)
    BY <1>2, <1>3, <2>1 DEF ActivateSink, Active, Inv, SinksSound
  <2>2. CASE DeactivateSink(k)
    BY <1>2, <2>2 DEF DeactivateSink, Active, Inv, SinksSound
  <2>3. CASE LockExpires(k)
    BY <1>2, <2>3 DEF LockExpires, sinkVars, Active, Inv, SinksSound
  <2> QED
    BY <2>1, <2>2, <2>3
<1>5. SinksSound'
  <2>1. \A j \in Sinks : got[j] \subseteq got'[j]
    BY <1>1
  <2> QED
    BY <1>1, <1>4, <2>1, CursorsStay
<1>6. \A j \in Sinks : KeepsSink(j)
  BY <1>1 DEF KeepsSink
<1>7. OwedIsKept'
  <2> SUFFICES ASSUME NEW j \in steady', NEW r \in Rows,
                      r \in Matches[j], row[r] = "deleted",
                      at[r] >= start[j]
               PROVE  r \in got[j]
    BY <1>1 DEF OwedIsKept, Belongs, logVars
  <2> QED
    BY <1>1 DEF Inv, OwedIsKept, Belongs
<1> QED
  BY <1>1, <1>2, <1>4, <1>5, <1>6, <1>7, ConfigStep

LEMMA CreateSinkStep ==
    ASSUME Inv, NEW k \in Sinks, NEW from \in {0, now}, CreateSink(k, from)
    PROVE  Inv'
<1> DEFINE c == [t |-> from, id |-> 0]
<1>1. /\ sink[k].state = "none"
      /\ sink' = [sink EXCEPT ![k] =
                     [NoSink EXCEPT !.state = "active", !.cursor.t = from]]
      /\ start' = [start EXCEPT ![k] = from]
      /\ steady' = IF from = now THEN steady \cup {k} ELSE steady
      /\ UNCHANGED <<now, logVars, got, lock, run, retVars>>
  BY DEF CreateSink
<1>2. /\ sink \in [Sinks -> [state : {"none", "active", "off", "gaveUp"},
                        cursor : Positions, failures : 0..MaxFailures]]
      /\ start \in [Sinks -> Times] /\ steady \subseteq Sinks
      /\ now \in Nat /\ now \in Times /\ at \in [Rows -> Nat]
      /\ lock' \subseteq Sinks
  BY <1>1, TypeParts DEF Inv, TypeOK, Instants
<1>3. 0 \in Failures /\ 0 \in 0..MaxFailures /\ from \in Times /\ from \in Nat
  BY <1>2, AuditAssumption DEF Failures, Times
<1>4. k \notin steady
  BY <1>1 DEF Inv, SinksSound, Active
<1>5. [NoSink EXCEPT !.state = "active", !.cursor.t = from]
         = [state |-> "active", cursor |-> c, failures |-> 0]
  <2> DEFINE zero == [t |-> 0, id |-> 0]
             base == [state |-> "active", cursor |-> zero, failures |-> 0]
  <2>1. [zero EXCEPT !.t = from] = c
    OBVIOUS
  <2>2. [NoSink EXCEPT !.state = "active"] = base
    BY DEF NoSink
  <2>3. base.cursor = zero
    OBVIOUS
  <2> HIDE DEF zero, c
  <2>4. [base EXCEPT !.cursor = c]
           = [state |-> "active", cursor |-> c, failures |-> 0]
    OBVIOUS
  <2> HIDE DEF base
  <2> QED
    BY <2>1, <2>2, <2>3, <2>4
<1>6. c \in Positions
  BY <1>3 DEF Positions
<1>7. /\ sink'[k].state = "active" /\ sink'[k].cursor = c
      /\ sink'[k].failures = 0 /\ start'[k] = from
      /\ \A j \in Sinks \ {k} : sink'[j] = sink[j] /\ KeepsSink(j)
      /\ \A j \in Sinks \ {k} : j \in steady' => j \in steady
  BY <1>1, <1>2, <1>5 DEF KeepsSink
<1>8. /\ sink' \in [Sinks -> [state : {"none", "active", "off", "gaveUp"},
                         cursor : Positions, failures : 0..MaxFailures]]
      /\ start' \in [Sinks -> Times] /\ steady' \subseteq Sinks
  <2>1. [state |-> "active", cursor |-> c, failures |-> 0]
           \in [state : {"none", "active", "off", "gaveUp"},
               cursor : Positions, failures : 0..MaxFailures]
    BY <1>3, <1>6
  <2> HIDE DEF c
  <2> QED
    BY <1>1, <1>2, <1>3, <1>5, <2>1
<1>9. LogGrows
  BY <1>1, QuietLog
<1>10. SinksSound'
  <2> SUFFICES ASSUME NEW j \in Sinks
               PROVE  /\ j \in steady' => Active(j)'
                      /\ Active(j)' => sink'[j].failures \in Failures
                      /\ sink'[j].cursor \in Positions
                      /\ Low(sink[j].cursor)'
                      /\ Covered(j, sink[j].cursor, {})'
    BY DEF SinksSound, Failures, Positions, Times
  <2>1. CASE j # k
    <3>1. /\ sink'[j].cursor = sink[j].cursor /\ KeepsSink(j)
          /\ sink'[j] = sink[j]
          /\ j \in steady' => j \in steady
      BY <1>7, <2>1
    <3>2. /\ j \in steady => Active(j)
          /\ Active(j) => sink[j].failures \in Failures
      BY DEF Inv, SinksSound
    <3>3. /\ sink'[j].cursor \in Positions
          /\ Low(sink[j].cursor)' /\ Covered(j, sink[j].cursor, {})'
      BY <1>9, <3>1, SinkStays
    <3>4. /\ j \in steady' => Active(j)'
          /\ Active(j)' => sink'[j].failures \in Failures
      BY <3>1, <3>2 DEF Active
    <3> QED
      BY <3>3, <3>4
  <2>2. CASE j = k
    <3>1. /\ sink'[j].cursor = c /\ sink'[j].failures \in Failures
          /\ Active(j)'
      BY <1>3, <1>7, <2>2 DEF Active
    <3>2. Low(sink[j].cursor)'
      BY <1>1, <1>2, <1>3, <3>1, AuditAssumption DEF Low
    <3>3. ASSUME NEW r \in Rows, Belongs(r, j)'
          PROVE  Follows(r, sink[j].cursor)'
      <4>1. at[r] >= from /\ at[r] \in Nat /\ r \in Nat /\ r > 0
        BY <1>1, <1>2, <1>7, <2>2, <3>3, AuditAssumption
           DEF Belongs, logVars
      <4>2. (sink[j].cursor)'.t = from /\ (sink[j].cursor)'.id = 0
        BY <3>1
      <4> QED
        BY <1>1, <1>3, <4>1, <4>2 DEF Follows, logVars
    <3> QED
      BY <1>6, <3>1, <3>2, <3>3 DEF Covered
  <2> QED
    BY <2>1, <2>2
<1>11. OwedIsKept'
  <2> SUFFICES ASSUME NEW j \in steady', NEW r \in Rows,
                      r \in Matches[j], row[r] = "deleted",
                      at[r] >= start'[j]
               PROVE  r \in got[j]
    BY <1>1 DEF OwedIsKept, Belongs, logVars
  <2>1. CASE j # k
    <3>1. j \in steady /\ start'[j] = start[j]
      BY <1>7, <1>8, <2>1 DEF KeepsSink
    <3> QED
      BY <3>1 DEF Inv, OwedIsKept, Belongs
  <2>2. CASE j = k
    <3>1. start'[j] = now
      BY <1>1, <1>4, <1>7, <2>2
    <3>2. DayOf(at[r]) + Day <= now
      BY DEF Inv, LogSound
    <3>3. at[r] < DayOf(at[r]) + Day /\ DayOf(at[r]) \in Nat
      BY <1>2, DayOfInstant DEF IsDay
    <3>4. at[r] \in Nat /\ Day \in Nat
      BY <1>2, AuditAssumption
    <3> HIDE DEF DayOf
    <3> QED
      BY <1>2, <3>1, <3>2, <3>3, <3>4
  <2> QED
    BY <2>1, <2>2
<1>12. /\ \A j \in Sinks : sink[j].state # "none" =>
                             sink'[j].state # "none" /\ KeepsSink(j)
       /\ \A j \in Sinks : \/ KeepsSink(j)
                            \/ start'[j] = now \/ j \notin steady'
  <2>1. k \in steady' => start'[k] = now
    BY <1>1, <1>4, <1>7
  <2> QED
    BY <1>1, <1>7, <2>1
<1> HIDE DEF c
<1> QED
  BY <1>1, <1>2, <1>8, <1>10, <1>11, <1>12, ConfigStep

-----------------------------------------------------------------------------
(***************************************************************************)
(* Retention.  sinkFloor and the cutoff bound the limit of a pass.         *)
(***************************************************************************)
LEMMA LimitBounds ==
    ASSUME Inv
    PROVE  LET limit == Limit(Minus(now, Retention)) IN
           /\ limit \in Nat
           /\ limit = 0 \/ limit + ReadLag <= now
           /\ \A k \in Sinks : Active(k) => limit <= sink[k].cursor.t
<1> DEFINE cutoff == Minus(now, Retention)
           S == {cutoff}
                   \cup {sink[k].cursor.t : k \in {j \in Sinks : Active(j)}}
           limit == Limit(cutoff)
<1>1. /\ now \in Nat /\ Retention \in Nat /\ ReadLag \in Nat
      /\ ReadLag <= Retention
  BY TypeParts, AuditAssumption DEF Inv
<1>2. /\ cutoff \in Nat /\ (cutoff = 0 \/ cutoff + Retention <= now)
  BY <1>1 DEF Minus
<1>3. \A k \in Sinks : sink[k].cursor.t \in Nat
  BY AuditAssumption DEF Inv, SinksSound, Positions, Times
<1> HIDE DEF cutoff
<1>4. S \in SUBSET Nat /\ S # {}
  BY <1>2, <1>3
<1>5. limit = CHOOSE m \in S : \A n \in S : m <= n
  BY DEF Limit
<1> HIDE DEF limit
<1>6. limit \in S /\ \A n \in S : limit <= n
  <2> HIDE DEF S
  <2> QED
    BY <1>4, <1>5, LeastExists
<1>7. limit \in Nat /\ limit <= cutoff
  BY <1>4, <1>6
<1>8. limit = 0 \/ limit + ReadLag <= now
  BY <1>1, <1>2, <1>7
<1>9. \A k \in Sinks : Active(k) => limit <= sink[k].cursor.t
  BY <1>6
<1> QED
  BY <1>7, <1>8, <1>9 DEF limit, cutoff

LEMMA RetainStep ==
    ASSUME Inv, UNCHANGED <<now, logVars, sinkVars, got, lock, run, waived>>,
           archived' \subseteq Rows, RetainSound', DeletedIsArchived'
    PROVE  Inv'
<1>1. LogGrows /\ LogSound'
  BY QuietLog
<1>2. TypeOK' /\ run' \in [Instances -> Runs]
  <2>1. retain'.at \in {"idle", "day", "delete"}
    BY DEF RetainSound, Idle
  <2> QED
    BY <2>1 DEF Inv, TypeOK, logVars, sinkVars, Runs, Positions, Failures, Idle
<1>3. SinksSound'
  BY <1>1, QuietSinks
<1>4. \A i \in Instances : RunSound(i)'
  <2>1. \A k \in Sinks : KeepsSink(k) /\ sink'[k] = sink[k]
    BY DEF KeepsSink, sinkVars
  <2> QED
    BY <1>1, <2>1, RunStays
<1>5. OwedIsKept'
  BY DEF Inv, OwedIsKept, Belongs, logVars, sinkVars
<1> QED
  BY <1>1, <1>2, <1>3, <1>4, <1>5 DEF Inv

LEMMA IdleRetention ==
    ASSUME Inv, UNCHANGED <<now, logVars, sinkVars, got, lock, run, archived,
                            waived>>, retain' = Idle
    PROVE  Inv'
<1>1. RetainSound' /\ DeletedIsArchived'
  BY DEF RetainSound, Inv, DeletedIsArchived, logVars
<1>2. archived' \subseteq Rows
  BY TypeParts DEF Inv
<1> QED
  BY <1>1, <1>2, RetainStep

Passes == [at : {"day", "delete"}, archive : BOOLEAN, without : BOOLEAN,
           limit : Nat, day : Nat]

(***************************************************************************)
(* A pass begins: whatever lies below the least cursor of the active       *)
(* sinks, they have shipped.                                               *)
(***************************************************************************)
LEMMA ApplyRetentionStep ==
    ASSUME Inv, NEW archive \in BOOLEAN, NEW without \in BOOLEAN,
           ApplyRetention(archive, without)
    PROVE  Inv'
<1> DEFINE limit == Limit(Minus(now, Retention))
           old == {r \in Rows : row[r] = "visible" /\ at[r] < limit}
           oldest == CHOOSE t \in {at[r] : r \in old} :
                        \A r \in old : t <= at[r]
<1>1. /\ old # {}
      /\ retain' = [at |-> "day", archive |-> archive, without |-> without,
                    limit |-> limit, day |-> DayOf(oldest)]
      /\ UNCHANGED <<now, logVars, sinkVars, got, lock, run, archived, waived>>
  BY DEF ApplyRetention
<1>2. at \in [Rows -> Nat] /\ steady \subseteq Sinks /\ archived \subseteq Rows
  BY TypeParts DEF Inv, Instants
<1>3. /\ limit \in Nat /\ (limit = 0 \/ limit + ReadLag <= now)
      /\ \A k \in Sinks : Active(k) => limit <= sink[k].cursor.t
  BY LimitBounds
<1> HIDE DEF limit
<1>4. oldest \in Nat
  <2> DEFINE S == {at[r] : r \in old}
  <2>1. S \in SUBSET Nat /\ S # {}
    BY <1>1, <1>2
  <2>2. PICK m \in S : \A n \in S : m <= n
    BY <2>1, LeastExists
  <2>3. \A r \in old : m <= at[r]
    BY <2>2
  <2>4. oldest = CHOOSE t \in S : \A r \in old : t <= at[r]
    OBVIOUS
  <2> HIDE DEF S, oldest, old
  <2> QED
    BY <2>1, <2>3, <2>4
<1>5. IsDay(DayOf(oldest)) /\ DayOf(oldest) \in Nat
  BY <1>4, DayOfInstant DEF IsDay
<1> HIDE DEF oldest
<1>6. ASSUME NEW k \in steady, NEW r \in Rows, Belongs(r, k), at[r] < limit
      PROVE  r \in got[k]
  <2>1. k \in Sinks /\ Active(k)
    BY <1>2 DEF Inv, SinksSound
  <2>2. /\ limit <= sink[k].cursor.t /\ sink[k].cursor.t \in Nat
        /\ Covered(k, sink[k].cursor, {})
    BY <1>3, <2>1, AuditAssumption DEF Inv, SinksSound, Positions, Times
  <2>3. ~Follows(r, sink[k].cursor)
    BY <1>2, <1>3, <1>6, <2>2 DEF Follows
  <2> QED
    BY <1>6, <2>2, <2>3 DEF Covered
<1>7. RetainSound'
  <2>1. /\ retain' \in Passes /\ retain'.at = "day" /\ retain'.limit = limit
        /\ retain'.day = DayOf(oldest)
    BY <1>1, <1>3, <1>5 DEF Passes
  <2>2. \A k \in steady', r \in Rows :
           Belongs(r, k)' /\ at'[r] < limit => r \in got'[k]
    BY <1>1, <1>6 DEF Belongs, logVars, sinkVars
  <2> HIDE DEF old
  <2> QED
    BY <1>1, <1>3, <1>5, <2>1, <2>2 DEF RetainSound, Passes, IsDay
<1>8. DeletedIsArchived'
  BY <1>1 DEF Inv, DeletedIsArchived, logVars
<1>9. archived' \subseteq Rows
  BY <1>1, <1>2
<1> QED
  BY <1>1, <1>7, <1>8, <1>9, RetainStep

(***************************************************************************)
(* A day is due: it lies below the limit of the pass.                      *)
(***************************************************************************)
LEMMA PassMoves ==
    ASSUME Inv, retain # Idle, NEW where \in {"day", "delete"},
           retain' = [retain EXCEPT !.at = where],
           where = "delete" => retain.day + Day <= retain.limit,
           archived' \subseteq Rows,
           where = "delete" /\ retain.archive
              => RowsOf(retain.day) \subseteq archived',
           DeletedIsArchived',
           UNCHANGED <<now, logVars, sinkVars, got, lock, run, waived>>
    PROVE  Inv'
<1>1. retain \in Passes
  BY DEF Inv, RetainSound, Passes
<1>2. /\ retain' \in Passes /\ retain'.at = where
      /\ retain'.day = retain.day /\ retain'.limit = retain.limit
      /\ retain'.archive = retain.archive
  BY <1>1 DEF Passes
<1>3. /\ IsDay(retain.day)
      /\ retain.limit = 0 \/ retain.limit + ReadLag <= now
      /\ \A k \in steady, r \in Rows :
            Belongs(r, k) /\ at[r] < retain.limit => r \in got[k]
  BY DEF Inv, RetainSound
<1>4. \A k \in steady', r \in Rows :
         Belongs(r, k)' /\ at'[r] < retain'.limit => r \in got'[k]
  BY <1>2, <1>3 DEF Belongs, logVars, sinkVars
<1>5. retain'.at = "delete" /\ retain'.archive =>
         RowsOf(retain.day)' \subseteq archived'
  BY <1>2 DEF RowsOf, logVars
<1>6. RetainSound'
  BY <1>2, <1>3, <1>4, <1>5 DEF RetainSound, Passes, IsDay
<1> QED
  BY <1>6, RetainStep

LEMMA ArchiveSteps ==
    ASSUME Inv, ArchiveDay \/ SkipArchive
    PROVE  Inv'
<1>1. /\ retain.at = "day" /\ retain.day + Day <= retain.limit
      /\ retain # Idle /\ IsDay(retain.day)
      /\ UNCHANGED <<now, logVars, sinkVars, got, lock, run, waived>>
  BY DEF ArchiveDay, SkipArchive, DayIsDue, Inv, RetainSound, Idle
<1>2. archived \subseteq Rows /\ at \in [Rows -> Nat]
  BY TypeParts DEF Inv, Instants
<1>3. CASE ArchiveDay
  <2> DEFINE today == RowsOf(retain.day)
  <2>1. /\ archived' = IF today = {} THEN archived
                       ELSE {r \in archived : DayOf(at[r]) # retain.day}
                               \cup today
        /\ retain' = [retain EXCEPT !.at = "delete"]
    BY <1>3 DEF ArchiveDay
  <2>2. today \subseteq Rows
    BY DEF RowsOf
  <2>3. archived' \subseteq Rows /\ today \subseteq archived'
    <3> HIDE DEF today
    <3> QED
      BY <1>2, <2>1, <2>2
  <2>4. DeletedIsArchived'
    <3> SUFFICES ASSUME NEW r \in Rows, row[r] = "deleted"
                 PROVE  r \in archived' \cup waived
      BY <1>1 DEF DeletedIsArchived, logVars
    <3>1. r \in archived \cup waived
      BY DEF Inv, DeletedIsArchived
    <3>2. CASE DayOf(at[r]) # retain.day \/ today = {}
      BY <2>1, <3>1, <3>2
    <3>3. CASE DayOf(at[r]) = retain.day /\ today # {}
      <4>1. PICK u \in today : TRUE
        BY <3>3
      <4>2. /\ u \in Rows /\ row[u] = "visible" /\ at[u] \in Nat
            /\ retain.day <= at[u] /\ at[u] < retain.day + Day
        <5>1. at[u] >= retain.day /\ retain.day \in Nat /\ u \in Rows
          BY <1>1, <4>1 DEF RowsOf, IsDay
        <5> QED
          BY <1>2, <4>1, <5>1 DEF RowsOf
      <4>3. DayOf(at[u]) = retain.day
        BY <1>1, <4>2, SameDay
      <4> QED
        BY <3>3, <4>2, <4>3 DEF Inv, LogSound
    <3> QED
      BY <3>2, <3>3
  <2> HIDE DEF today
  <2>5. RowsOf(retain.day) \subseteq archived'
    BY <2>3 DEF today
  <2> QED
    BY <1>1, <2>1, <2>3, <2>4, <2>5, PassMoves
<1>4. CASE SkipArchive /\ retain.without
  <2>1. /\ retain' = [retain EXCEPT !.at = "delete"] /\ archived' = archived
        /\ ~retain.archive
    BY <1>4 DEF SkipArchive
  <2>2. DeletedIsArchived'
    BY <1>1, <2>1 DEF Inv, DeletedIsArchived, logVars
  <2> QED
    BY <1>1, <1>2, <2>1, <2>2, PassMoves
<1>5. CASE SkipArchive /\ ~retain.without
  BY <1>5, IdleRetention DEF SkipArchive
<1> QED
  BY <1>3, <1>4, <1>5

(***************************************************************************)
(* A day is deleted: all of it, and nothing that is owed.                  *)
(***************************************************************************)
LEMMA DeleteDayStep == ASSUME Inv, DeleteDay PROVE Inv'
<1> DEFINE today == RowsOf(retain.day)
<1>1. /\ retain.at = "delete"
      /\ \A r \in Rows :
            row'[r] = IF r \in today THEN "deleted" ELSE row[r]
      /\ waived' = IF retain.archive THEN waived ELSE waived \cup today
      /\ retain' = [retain EXCEPT !.at = "day", !.day = retain.day + Day]
      /\ UNCHANGED <<now, at, sinkVars, got, lock, run, archived>>
  BY DEF DeleteDay
<1>2. /\ retain \in Passes /\ retain # Idle /\ IsDay(retain.day)
      /\ retain.day + Day <= retain.limit
      /\ retain.limit = 0 \/ retain.limit + ReadLag <= now
      /\ \A k \in steady, r \in Rows :
            Belongs(r, k) /\ at[r] < retain.limit => r \in got[k]
      /\ retain.archive => today \subseteq archived
  BY <1>1 DEF Inv, RetainSound, Passes, Idle
<1>3. /\ now \in Nat /\ at \in [Rows -> Nat] /\ Day \in Nat /\ Day > 0
      /\ ReadLag \in Nat /\ retain.limit \in Nat /\ retain.day \in Nat
      /\ archived \subseteq Rows /\ waived \subseteq Rows
      /\ steady \subseteq Sinks
      /\ row \in [Rows -> {"unused", "written", "visible", "deleted"}]
  BY <1>2, TypeParts, AuditAssumption DEF Inv, Instants, Passes
<1>4. retain.limit + ReadLag <= now /\ retain.day + Day <= now
  BY <1>2, <1>3
<1>5. \A r \in Rows : r \in today <=>
         row[r] = "visible" /\ DayOf(at[r]) = retain.day
  <2> SUFFICES ASSUME NEW r \in Rows
               PROVE  (at[r] >= retain.day /\ at[r] < retain.day + Day)
                         <=> DayOf(at[r]) = retain.day
    BY DEF RowsOf
  <2>1. at[r] \in Nat
    BY <1>3
  <2>2. (retain.day <= at[r] /\ at[r] < retain.day + Day)
           <=> DayOf(at[r]) = retain.day
    BY <1>2, <2>1, SameDay
  <2> HIDE DEF DayOf
  <2> QED
    BY <1>3, <2>1, <2>2
<1>6. today \subseteq Rows /\ \A r \in today : at[r] < retain.limit
  <2>1. \A r \in today : r \in Rows /\ at[r] < retain.day + Day
    BY DEF RowsOf
  <2> HIDE DEF today
  <2> QED
    BY <1>2, <1>3, <2>1
<1> HIDE DEF today
<1>7. LogGrows
  BY <1>1, <1>3, <1>5 DEF LogGrows
<1>8. LogSound'
  <2>1. ASSUME NEW r \in Rows
        PROVE  /\ row'[r] # "unused" => at'[r] <= now'
               /\ row'[r] = "written" => now' < at'[r] + ReadLag
               /\ row'[r] = "deleted" => DayOf(at[r]) + Day <= now'
    BY <1>1, <1>4, <1>5 DEF Inv, LogSound
  <2>2. ASSUME NEW r \in Rows, NEW u \in Rows, row'[r] = "deleted",
               row'[u] # "unused", DayOf(at[r]) = DayOf(at[u])
        PROVE  row'[u] = "deleted"
    <3>1. CASE row[r] = "deleted"
      <4>1. row[u] # "unused"
        BY <1>1, <1>5, <2>2
      <4> QED
        BY <1>1, <2>2, <3>1, <4>1 DEF Inv, LogSound
    <3>2. CASE row[r] # "deleted"
      <4>1. DayOf(at[u]) = retain.day
        BY <1>1, <1>5, <2>2, <3>2
      <4>2. at[u] \in Nat /\ at[u] < retain.day + Day
        BY <1>2, <1>3, <4>1, SameDay
      <4>3. at[u] + ReadLag <= now
        BY <1>2, <1>3, <1>4, <4>2
      <4>4. row[u] # "written"
        BY <1>3, <4>2, <4>3 DEF Inv, LogSound
      <4> QED
        BY <1>1, <1>3, <1>5, <2>2, <4>1, <4>4
    <3> QED
      BY <3>1, <3>2
  <2>3. \A r \in Rows : DayOf(at[r])' = DayOf(at[r])
    BY <1>1 DEF DayOf
  <2> QED
    BY <1>1, <2>1, <2>2, <2>3 DEF LogSound
<1>9. SinksSound'
  BY <1>1, <1>7, QuietSinks
<1>10. \A i \in Instances : RunSound(i)'
  <2>1. \A k \in Sinks : KeepsSink(k) /\ sink'[k] = sink[k]
    BY <1>1 DEF KeepsSink, sinkVars
  <2> QED
    BY <1>1, <1>7, <2>1, RunStays
<1>11. OwedIsKept'
  <2> SUFFICES ASSUME NEW k \in steady, NEW r \in Rows, r \in Matches[k],
                      row'[r] = "deleted", at[r] >= start[k]
               PROVE  r \in got[k]
    BY <1>1 DEF OwedIsKept, Belongs, sinkVars
  <2>1. CASE r \in today
    BY <1>2, <1>5, <1>6, <2>1 DEF Belongs
  <2>2. CASE r \notin today
    BY <1>1, <2>2 DEF Inv, OwedIsKept, Belongs
  <2> QED
    BY <2>1, <2>2
<1>12. DeletedIsArchived'
  BY <1>1, <1>2 DEF Inv, DeletedIsArchived
<1>13. RetainSound'
  <2>1. /\ retain' \in Passes /\ retain'.at = "day"
        /\ retain'.day = retain.day + Day /\ retain'.limit = retain.limit
    <3>1. /\ retain' = [retain EXCEPT !.at = "day", !.day = retain.day + Day]
          /\ retain \in Passes /\ retain.day + Day \in Nat
      BY <1>1, <1>2, <1>3
    <3> QED
      BY <3>1 DEF Passes
  <2>2. IsDay(retain.day + Day)
    BY <1>2, NextDay
  <2>3. \A k \in steady', r \in Rows :
           Belongs(r, k)' /\ at'[r] < retain'.limit => r \in got'[k]
    <3> SUFFICES ASSUME NEW k \in steady, NEW r \in Rows, r \in Matches[k],
                        row'[r] # "unused", at[r] >= start[k],
                        at[r] < retain.limit
                 PROVE  r \in got[k]
      BY <1>1, <2>1 DEF Belongs, sinkVars
    <3>1. row[r] # "unused"
      BY <1>1, <1>5
    <3> QED
      BY <1>2, <3>1 DEF Belongs
  <2> QED
    BY <1>1, <1>4, <2>1, <2>2, <2>3 DEF RetainSound, Passes, IsDay
<1>14. TypeOK'
  <2>1. row' \in [Rows -> {"unused", "written", "visible", "deleted"}]
    BY <1>1, <1>3 DEF DeleteDay
  <2>2. retain'.at \in {"idle", "day", "delete"} /\ waived' \subseteq Rows
    BY <1>1, <1>3, <1>6, <1>13 DEF RetainSound, Idle
  <2> QED
    BY <1>1, <2>1, <2>2 DEF Inv, TypeOK, sinkVars
<1> QED
  BY <1>1, <1>8, <1>9, <1>10, <1>11, <1>12, <1>13, <1>14
     DEF Inv, Runs, Positions, Failures, Idle, Times

-----------------------------------------------------------------------------
(***************************************************************************)
(* Every step keeps the invariant.                                         *)
(***************************************************************************)
LEMMA RetainMoves == ASSUME Inv, Retain \/ CrashRetention PROVE Inv'
<1>1. CASE RetentionDone \/ CrashRetention
  BY <1>1, IdleRetention DEF RetentionDone, CrashRetention
<1>2. CASE ArchiveFails
  BY <1>2, IdleRetention DEF ArchiveFails, AfterArchiveFailure
<1>3. CASE ArchiveDay \/ SkipArchive
  BY <1>3, ArchiveSteps
<1>4. CASE DeleteDay
  BY <1>4, DeleteDayStep
<1> QED
  BY <1>1, <1>2, <1>3, <1>4 DEF Retain

LEMMA RunMoves ==
    ASSUME Inv, NEW i \in Instances,
           RunSink(i) \/ RunUnlocked(i) \/ CrashRun(i)
    PROVE  Inv'
<1>1. CASE TakeLock(i) \/ RunUnlocked(i)
  BY <1>1, StartSteps
<1>2. CASE ReadBatch(i)
  BY <1>2, ReadBatchStep
<1>3. CASE NothingOwed(i) \/ CrashRun(i)
  BY <1>3, FinishSteps
<1>4. CASE Deliver(i)
  BY <1>4, DeliverStep
<1>5. CASE Advance(i)
  BY <1>5, AdvanceStep
<1>6. CASE \E permanent \in BOOLEAN : DeliverFails(i, permanent)
  BY <1>6, DeliverFailsStep
<1> QED
  BY <1>1, <1>2, <1>3, <1>4, <1>5, <1>6 DEF RunSink

LEMMA InvStep == ASSUME Inv, [Next]_vars PROVE Inv'
<1>1. CASE UNCHANGED vars
  <2>1. /\ retain' = retain
        /\ UNCHANGED <<now, logVars, sinkVars, got, lock, run>>
        /\ UNCHANGED <<archived, waived>>
    BY <1>1 DEF vars, retVars
  <2>2. RetainSound' /\ DeletedIsArchived'
    BY <2>1 DEF Inv, RetainSound, DeletedIsArchived, RowsOf, Belongs,
                logVars, sinkVars
  <2>3. archived' \subseteq Rows
    BY <2>1, TypeParts DEF Inv
  <2> QED
    BY <2>1, <2>2, <2>3, RetainStep
<1>2. CASE (\E r \in Rows : Write(r) \/ Commit(r)) \/ Tick
  BY <1>2, LogSteps
<1>3. ASSUME NEW k \in Sinks,
             \/ \E from \in {0, now} : CreateSink(k, from)
             \/ ActivateSink(k) \/ DeactivateSink(k) \/ LockExpires(k)
      PROVE  Inv'
  BY <1>3, CreateSinkStep, SwitchSteps
<1>4. ASSUME NEW i \in Instances, NEW k \in Sinks, FindDue(i, k)
      PROVE  Inv'
  BY <1>4, FindDueStep
<1>5. ASSUME NEW i \in Instances,
             RunSink(i) \/ RunUnlocked(i) \/ CrashRun(i)
      PROVE  Inv'
  BY <1>5, RunMoves
<1>6. ASSUME NEW archive \in BOOLEAN, NEW without \in BOOLEAN,
             ApplyRetention(archive, without)
      PROVE  Inv'
  BY <1>6, ApplyRetentionStep
<1>7. CASE Retain \/ CrashRetention
  BY <1>7, RetainMoves
<1> QED
  BY <1>1, <1>2, <1>3, <1>4, <1>5, <1>6, <1>7 DEF Next

LEMMA InitInv == ASSUME Init PROVE Inv
<1>1. /\ 0 \in Times /\ NoSink.cursor \in Positions
      /\ 0 \in Failures /\ 0 \in 0..MaxFailures
  BY AuditAssumption DEF Times, Positions, NoSink, Failures
<1>2. TypeOK
  BY <1>1, AuditAssumption DEF Init, TypeOK, Cursors, Positions, NoSink, Idle
<1>3. run \in [Instances -> Runs]
  BY DEF Init, Runs
<1>4. LogSound
  BY AuditAssumption DEF Init, LogSound
<1>5. SinksSound
  <2> SUFFICES ASSUME NEW k \in Sinks
               PROVE  /\ ~Active(k) /\ sink[k].cursor \in Positions
                      /\ Low(sink[k].cursor) /\ Covered(k, sink[k].cursor, {})
    BY DEF Init, SinksSound
  <2>1. sink[k] = NoSink
    BY DEF Init
  <2>2. Low(sink[k].cursor)
    BY <2>1, AuditAssumption DEF Init, Low, NoSink
  <2>3. Covered(k, sink[k].cursor, {})
    BY DEF Init, Covered, Belongs
  <2> QED
    BY <1>1, <2>1, <2>2, <2>3 DEF Active, NoSink
<1>6. RetainSound /\ \A i \in Instances : RunSound(i)
  BY DEF Init, RetainSound, RunSound, At, Idle
<1>7. OwedIsKept /\ DeletedIsArchived
  BY DEF Init, OwedIsKept, DeletedIsArchived
<1> QED
  BY <1>2, <1>3, <1>4, <1>5, <1>6, <1>7 DEF Inv

THEOREM Invariance == Spec => []Inv
  BY InitInv, InvStep, PTL DEF Spec

(***************************************************************************)
(* Types are kept.                                                         *)
(***************************************************************************)
THEOREM TypeCorrect == Spec => []TypeOK
<1>1. Inv => TypeOK
  BY DEF Inv
<1> QED
  BY <1>1, Invariance, PTL

(***************************************************************************)
(* Delivery is at least once: whatever the cursor of a sink has passed,    *)
(* its destination has received.                                           *)
(***************************************************************************)
THEOREM NothingIsSkipped == Spec => []NothingSkipped
<1>1. Inv => NothingSkipped
  BY DEF Inv, SinksSound, Covered, NothingSkipped
<1> QED
  BY <1>1, Invariance, PTL

(***************************************************************************)
(* Retention deletes nothing a sink that stayed active has not shipped.    *)
(***************************************************************************)
THEOREM OwedRowsAreKept == Spec => []OwedIsKept
<1>1. Inv => OwedIsKept
  BY DEF Inv
<1> QED
  BY <1>1, Invariance, PTL

(***************************************************************************)
(* Retention deletes nothing that is in no archive, unless it was told to. *)
(***************************************************************************)
THEOREM ArchivedBeforeDeleted == Spec => []DeletedIsArchived
<1>1. Inv => DeletedIsArchived
  BY DEF Inv
<1> QED
  BY <1>1, Invariance, PTL

-----------------------------------------------------------------------------
(***************************************************************************)
(* One run per sink.  How cursors move: a sink's own by Advance, a run's   *)
(* when it begins and with the sink's.                                     *)
(***************************************************************************)
Delivering(i) == At(i, "deliver") \/ At(i, "advance")

StartsOver(i) ==
    /\ run'[i].at = "due" /\ run'[i].cursor = sink[run'[i].of].cursor
    /\ sink' = sink

GoesOn(i) ==
    /\ ~At(i, "idle")
    /\ run'[i].of = run[i].of /\ run'[i].cursor = run[i].cursor

Advances(i) ==
    /\ Advance(i)
    /\ run'[i].at = "read" /\ run'[i].of = run[i].of
    /\ run'[i].cursor = sink'[run[i].of].cursor
    /\ run'[i].cursor = Position(LastRow(run[i].batch))

LEMMA AdvanceMoves ==
    ASSUME Inv, NEW i \in Instances, Advance(i) PROVE Advances(i)
<1> DEFINE c == Position(LastRow(run[i].batch))
<1>1. /\ run'[i].at = "read" /\ run'[i].of = run[i].of
      /\ run'[i].cursor = c
  BY DEF Advance, Goto, Inv
<1>2. run[i].of \in Sinks
  BY RunKinds DEF Advance, At
<1>3. sink'[run[i].of].cursor = c
  BY <1>2, TypeParts DEF Inv, Advance
<1> QED
  BY <1>1, <1>3 DEF Advances

\* What a step makes of a run that is not over after it.
LEMMA RunCursorMoves ==
    ASSUME Inv, [Next]_vars, NEW i \in Instances, run'[i].at # "idle"
    PROVE  StartsOver(i) \/ GoesOn(i) \/ Advances(i)
<1>0. run \in [Instances -> Runs]
  BY DEF Inv
<1>1. run'[i] = run[i] => GoesOn(i)
  BY DEF GoesOn, At
<1>2. ASSUME NEW j \in Instances, NEW k \in Sinks, FindDue(j, k)
      PROVE  StartsOver(i) \/ GoesOn(i)
  <2>1. j # i => run'[i] = run[i]
    BY <1>0, <1>2 DEF FindDue, Goto
  <2>2. j = i => /\ run'[i].at = "due" /\ run'[i].of = k
                 /\ run'[i].cursor = sink[k].cursor /\ sink' = sink
    BY <1>0, <1>2 DEF FindDue, Goto, sinkVars
  <2> QED
    BY <1>1, <2>1, <2>2 DEF StartsOver
<1>3. ASSUME NEW j \in Instances,
             RunSink(j) \/ RunUnlocked(j) \/ CrashRun(j)
      PROVE  GoesOn(i) \/ Advances(i)
  <2>2. ~Goto(i, Idle)
    BY <1>0 DEF Goto, Idle
  <2>3. CASE j # i
    <3>1. run'[i] = run[i]
      BY <1>0, <1>3, <2>3
         DEF RunSink, TakeLock, RunUnlocked, Begin, ReadBatch, NothingOwed,
             Deliver, DeliverFails, Advance, Finish, CrashRun, Goto
    <3> QED
      BY <1>1, <3>1
  <2>4. CASE j = i /\ (TakeLock(i) \/ RunUnlocked(i))
    <3>1. At(i, "due") /\ \E held \in BOOLEAN : Begin(i, held)
      BY <2>2, <2>4 DEF TakeLock, RunUnlocked
    <3>2. PICK held \in BOOLEAN : Begin(i, held)
      BY <3>1
    <3>3. run'[i].of = run[i].of /\ run'[i].cursor = run[i].cursor
      BY <1>0, <3>2 DEF Begin, Goto
    <3> QED
      BY <3>1, <3>3 DEF GoesOn, At
  <2>5. CASE j = i /\ ReadBatch(i)
    <3>1. run'[i].of = run[i].of /\ run'[i].cursor = run[i].cursor
      BY <1>0, <2>5 DEF ReadBatch, Goto
    <3> QED
      BY <2>5, <3>1 DEF GoesOn, ReadBatch, At
  <2>6. CASE j = i /\ Deliver(i)
    <3>1. run'[i] = [run[i] EXCEPT !.at = "advance"] /\ At(i, "deliver")
      BY <1>0, <2>6 DEF Deliver, Goto
    <3>2. run'[i].of = run[i].of /\ run'[i].cursor = run[i].cursor
      BY <3>1, RunKinds
    <3> QED
      BY <3>1, <3>2 DEF GoesOn, At
  <2>7. CASE j = i /\ Advance(i)
    BY <2>7, AdvanceMoves
  <2>8. CASE j = i /\ \/ NothingOwed(i) \/ CrashRun(i)
                      \/ \E p \in BOOLEAN : DeliverFails(i, p)
    BY <2>2, <2>8 DEF NothingOwed, CrashRun, DeliverFails, Finish
  <2> QED
    BY <1>3, <2>3, <2>4, <2>5, <2>6, <2>7, <2>8 DEF RunSink
<1>4. \/ run' = run
      \/ \E j \in Instances, k \in Sinks : FindDue(j, k)
      \/ \E j \in Instances : RunSink(j) \/ RunUnlocked(j) \/ CrashRun(j)
  BY DEF Next, vars, Write, Commit, Tick, CreateSink, ActivateSink,
         DeactivateSink, LockExpires, ApplyRetention, Retain, RetentionDone,
         ArchiveDay, ArchiveFails, SkipArchive, DeleteDay, CrashRetention
<1> QED
  BY <1>1, <1>2, <1>3, <1>4

\* What a step makes of the cursor of a sink.
LEMMA SinkCursorMoves ==
    ASSUME Inv, [Next]_vars, NEW k \in Sinks
    PROVE  \/ sink'[k].cursor = sink[k].cursor
           \/ sink[k].state = "none"
           \/ \E i \in Instances : Advance(i) /\ run[i].of = k
<1>0. sink \in [Sinks -> [state : {"none", "active", "off", "gaveUp"},
                          cursor : Positions, failures : 0..MaxFailures]]
  BY TypeParts DEF Inv
<1>1. CASE sink' = sink
  BY <1>1
<1>2. ASSUME NEW j \in Sinks, NEW from \in {0, now}, CreateSink(j, from)
      PROVE  sink'[k] = sink[k] \/ sink[k].state = "none"
  BY <1>0, <1>2 DEF CreateSink
<1>3. ASSUME NEW j \in Sinks, ActivateSink(j) \/ DeactivateSink(j)
      PROVE  sink'[k].cursor = sink[k].cursor
  BY <1>0, <1>3 DEF ActivateSink, DeactivateSink
<1>4. ASSUME NEW i \in Instances, NEW p \in BOOLEAN, DeliverFails(i, p)
      PROVE  sink'[k].cursor = sink[k].cursor
  BY <1>0, <1>4 DEF DeliverFails
<1>5. ASSUME NEW i \in Instances, Advance(i), run[i].of # k
      PROVE  sink'[k] = sink[k]
  BY <1>0, <1>5 DEF Advance
<1>6. \/ sink' = sink
      \/ \E j \in Sinks : \/ \E from \in {0, now} : CreateSink(j, from)
                          \/ ActivateSink(j) \/ DeactivateSink(j)
      \/ \E i \in Instances : \/ \E p \in BOOLEAN : DeliverFails(i, p)
                              \/ Advance(i)
  BY DEF Next, vars, sinkVars, Write, Commit, Tick, LockExpires, FindDue,
         RunSink, TakeLock, RunUnlocked, ReadBatch, NothingOwed, Deliver,
         CrashRun, ApplyRetention, Retain, RetentionDone, ArchiveDay,
         ArchiveFails, SkipArchive, DeleteDay, CrashRetention
<1> QED
  BY <1>1, <1>2, <1>3, <1>4, <1>5, <1>6

(***************************************************************************)
(* Alone, a run works on the cursor the sink still has.                    *)
(***************************************************************************)
CursorIsCurrent ==
    \A i \in Instances :
        ~At(i, "idle") => run[i].cursor = sink[run[i].of].cursor

LEMMA CursorStep ==
    ASSUME Inv, [Next]_vars, CursorIsCurrent, OneRunPerSink
    PROVE  CursorIsCurrent'
<1> SUFFICES ASSUME NEW i \in Instances, run'[i].at # "idle"
             PROVE  run'[i].cursor = sink'[run'[i].of].cursor
  BY DEF CursorIsCurrent, At
<1>1. CASE StartsOver(i)
  BY <1>1 DEF StartsOver
<1>2. CASE Advances(i)
  BY <1>2 DEF Advances
<1>3. CASE GoesOn(i) /\ ~Advances(i)
  <2> DEFINE k == run[i].of
  <2>1. /\ ~At(i, "idle") /\ k \in Sinks /\ sink[k].state # "none"
        /\ run[i].cursor = sink[k].cursor
    BY <1>3, RunKinds DEF GoesOn, CursorIsCurrent, Inv, RunSound
  <2>2. ASSUME NEW j \in Instances, Advance(j), run[j].of = k PROVE FALSE
    <3>1. j = i
      BY <2>1, <2>2 DEF OneRunPerSink, Advance, At
    <3> QED
      BY <1>3, <2>2, <3>1, AdvanceMoves
  <2>3. sink'[k].cursor = sink[k].cursor
    BY <2>1, <2>2, SinkCursorMoves
  <2> QED
    BY <1>3, <2>1, <2>3 DEF GoesOn
<1> QED
  BY <1>1, <1>2, <1>3, RunCursorMoves

(***************************************************************************)
(* What a run has in hand lies ahead of the cursor it began from.          *)
(***************************************************************************)
TakenAhead ==
    \A i \in Instances :
        Delivering(i) => \A r \in run[i].batch : Follows(r, run[i].cursor)

LEMMA RowsKeepTheirTime ==
    ASSUME Inv, [Next]_vars, NEW r \in Rows, row[r] # "unused"
    PROVE  row'[r] # "unused" /\ at'[r] = at[r]
<1>0. /\ row \in [Rows -> {"unused", "written", "visible", "deleted"}]
      /\ at \in [Rows -> Nat]
  BY TypeParts DEF Inv, Instants
<1>1. CASE row' = row /\ at' = at
  BY <1>1
<1>2. ASSUME NEW u \in Rows, Write(u) \/ Commit(u)
      PROVE  row'[r] # "unused" /\ at'[r] = at[r]
  BY <1>0, <1>2 DEF Write, Commit
<1>3. CASE DeleteDay
  BY <1>0, <1>3 DEF DeleteDay
<1>4. \/ row' = row /\ at' = at
      \/ \E u \in Rows : Write(u) \/ Commit(u)
      \/ DeleteDay
  BY DEF Next, vars, logVars, Tick, CreateSink, ActivateSink, DeactivateSink,
         LockExpires, FindDue, RunSink, TakeLock, RunUnlocked, ReadBatch,
         NothingOwed, Deliver, DeliverFails, Advance, CrashRun,
         ApplyRetention, Retain, RetentionDone, ArchiveDay, ArchiveFails,
         SkipArchive, CrashRetention
<1> QED
  BY <1>1, <1>2, <1>3, <1>4

\* Where the batch of a run comes from.
LEMMA BatchMoves ==
    ASSUME Inv, [Next]_vars, NEW i \in Instances, Delivering(i)'
    PROVE  /\ GoesOn(i)
           /\ \/ Delivering(i) /\ run'[i].batch = run[i].batch
              \/ at' = at /\ run'[i].batch = BatchOf(i)
<1> DEFINE Goal == /\ GoesOn(i)
                   /\ \/ Delivering(i) /\ run'[i].batch = run[i].batch
                      \/ at' = at /\ run'[i].batch = BatchOf(i)
<1>0. run \in [Instances -> Runs] /\ run'[i].at \in {"deliver", "advance"}
  BY DEF Inv, Delivering, At
<1>1. GoesOn(i)
  BY <1>0, RunCursorMoves DEF StartsOver, Advances
<1>2. CASE run'[i] = run[i]
  BY <1>0, <1>1, <1>2 DEF Delivering, At
<1>3. ASSUME NEW j \in Instances, NEW k \in Sinks, FindDue(j, k)
      PROVE  run'[i] = run[i]
  BY <1>0, <1>3 DEF FindDue, Goto
<1>4. ASSUME NEW j \in Instances,
             RunSink(j) \/ RunUnlocked(j) \/ CrashRun(j), j # i
      PROVE  run'[i] = run[i]
  BY <1>0, <1>4
     DEF RunSink, TakeLock, RunUnlocked, Begin, ReadBatch, NothingOwed,
         Deliver, DeliverFails, Advance, Finish, CrashRun, Goto
<1>5. CASE RunSink(i) \/ RunUnlocked(i) \/ CrashRun(i)
  <2>1. ~Goto(i, Idle) /\ \A held \in BOOLEAN : ~Begin(i, held)
    BY <1>0 DEF Goto, Idle, Begin
  <2>2. ReadBatch(i) \/ Deliver(i)
    BY <1>0, <1>5, <2>1, AdvanceMoves
       DEF RunSink, TakeLock, RunUnlocked, NothingOwed, DeliverFails, Finish,
           CrashRun, Advances
  <2>3. CASE ReadBatch(i)
    BY <1>0, <1>1, <2>3 DEF ReadBatch, Goto, logVars
  <2>4. CASE Deliver(i)
    <3>1. run'[i] = [run[i] EXCEPT !.at = "advance"] /\ At(i, "deliver")
      BY <1>0, <2>4 DEF Deliver, Goto
    <3>2. run'[i].batch = run[i].batch
      BY <3>1, RunKinds
    <3> QED
      BY <1>1, <3>1, <3>2 DEF Delivering
  <2> QED
    BY <2>2, <2>3, <2>4
<1>6. \/ run' = run
      \/ \E j \in Instances, k \in Sinks : FindDue(j, k)
      \/ \E j \in Instances : RunSink(j) \/ RunUnlocked(j) \/ CrashRun(j)
  BY DEF Next, vars, Write, Commit, Tick, CreateSink, ActivateSink,
         DeactivateSink, LockExpires, ApplyRetention, Retain, RetentionDone,
         ArchiveDay, ArchiveFails, SkipArchive, DeleteDay, CrashRetention
<1> QED
  BY <1>2, <1>3, <1>4, <1>5, <1>6

LEMMA TakenStep ==
    ASSUME Inv, [Next]_vars, TakenAhead PROVE TakenAhead'
<1> SUFFICES ASSUME NEW i \in Instances, Delivering(i)',
                    NEW r \in run'[i].batch
             PROVE  Follows(r, run[i].cursor)'
  BY DEF TakenAhead
<1>1. run'[i].cursor = run[i].cursor
  BY BatchMoves DEF GoesOn
<1>2. CASE Delivering(i) /\ run'[i].batch = run[i].batch
  <2>1. Follows(r, run[i].cursor) /\ r \in run[i].batch /\ r \in Rows
    BY <1>2, RunKinds DEF TakenAhead, Delivering
  <2>2. row[r] # "unused"
    BY <1>2, <2>1 DEF Inv, RunSound, Delivering, At
  <2> QED
    BY <1>1, <2>1, <2>2, RowsKeepTheirTime DEF Follows
<1>3. CASE at' = at /\ run'[i].batch = BatchOf(i)
  BY <1>1, <1>3 DEF BatchOf, FirstRows, Owed, Follows
<1> QED
  BY <1>2, <1>3, BatchMoves

\* The last row of what a run has in hand is ahead of the cursor it had.
LEMMA LastIsAhead ==
    ASSUME Inv, TakenAhead, CursorIsCurrent, NEW i \in Instances, Advance(i)
    PROVE  LET b == LastRow(run[i].batch) IN
           /\ run[i].of \in Sinks /\ b \in Rows
           /\ Follows(b, sink[run[i].of].cursor)
           /\ \A r \in run[i].batch : r \in Rows /\ ~Follows(r, Position(b))
           /\ sink'[run[i].of].cursor = Position(b)
<1>1. At(i, "advance") /\ ~At(i, "idle") /\ Delivering(i)
  BY DEF Advance, Delivering, At
<1>2. /\ run[i].of \in Sinks /\ run[i].batch \in SUBSET Rows
      /\ run[i].batch # {} /\ Instants
  BY <1>1, RunKinds, TypeParts DEF Inv, RunSound
<1>3. /\ LastRow(run[i].batch) \in run[i].batch
      /\ \A r \in run[i].batch : ~Follows(r, Position(LastRow(run[i].batch)))
  BY <1>2, LastRowIsLast
<1>4. Follows(LastRow(run[i].batch), sink[run[i].of].cursor)
  BY <1>1, <1>3 DEF TakenAhead, CursorIsCurrent
<1> QED
  BY <1>2, <1>3, <1>4, AdvanceMoves DEF Advances

-----------------------------------------------------------------------------
(***************************************************************************)
(* What a destination has is behind the cursor of its sink, or in the hand *)
(* of the run that is about to move it.                                    *)
(***************************************************************************)
InHand(k, r) ==
    \E i \in Instances :
        At(i, "advance") /\ run[i].of = k /\ r \in run[i].batch

Recorded ==
    \A k \in Sinks, r \in Rows :
        r \in got[k] =>
            /\ sink[k].state # "none" /\ row[r] # "unused"
            /\ Follows(r, sink[k].cursor) => InHand(k, r)

\* How a row comes to a destination.
LEMMA GotMoves ==
    ASSUME Inv, [Next]_vars, NEW k \in Sinks, NEW r \in got'[k]
    PROVE  \/ r \in got[k]
           \/ \E i \in Instances :
                 Deliver(i) /\ run[i].of = k /\ r \in run[i].batch
<1>1. ASSUME NEW i \in Instances, Deliver(i), r \notin got[k]
      PROVE  run[i].of = k /\ r \in run[i].batch
  BY <1>1, TypeParts DEF Inv, Deliver
<1>2. got' = got \/ \E i \in Instances : Deliver(i)
  BY DEF Next, vars, Write, Commit, Tick, CreateSink, ActivateSink,
         DeactivateSink, LockExpires, FindDue, RunSink, TakeLock,
         RunUnlocked, ReadBatch, NothingOwed, DeliverFails, Advance,
         CrashRun, ApplyRetention, Retain, RetentionDone, ArchiveDay,
         ArchiveFails, SkipArchive, DeleteDay, CrashRetention
<1> QED
  BY <1>1, <1>2

LEMMA SinksStay ==
    ASSUME Inv, [Next]_vars, NEW k \in Sinks, sink[k].state # "none"
    PROVE  sink'[k].state # "none"
<1>0. sink \in [Sinks -> [state : {"none", "active", "off", "gaveUp"},
                          cursor : Positions, failures : 0..MaxFailures]]
  BY TypeParts DEF Inv
<1>1. ASSUME NEW j \in Sinks,
             \/ \E from \in {0, now} : CreateSink(j, from)
             \/ ActivateSink(j) \/ DeactivateSink(j)
      PROVE  sink'[k].state # "none"
  BY <1>0, <1>1 DEF CreateSink, ActivateSink, DeactivateSink, NoSink
<1>2. ASSUME NEW i \in Instances, NEW p \in BOOLEAN, DeliverFails(i, p)
      PROVE  sink'[k].state # "none"
  BY <1>0, <1>2 DEF DeliverFails
<1>3. ASSUME NEW i \in Instances, Advance(i) PROVE sink'[k].state # "none"
  BY <1>0, <1>3 DEF Advance
<1>4. \/ sink' = sink
      \/ \E j \in Sinks : \/ \E from \in {0, now} : CreateSink(j, from)
                          \/ ActivateSink(j) \/ DeactivateSink(j)
      \/ \E i \in Instances : \/ \E p \in BOOLEAN : DeliverFails(i, p)
                              \/ Advance(i)
  BY DEF Next, vars, sinkVars, Write, Commit, Tick, LockExpires, FindDue,
         RunSink, TakeLock, RunUnlocked, ReadBatch, NothingOwed, Deliver,
         CrashRun, ApplyRetention, Retain, RetentionDone, ArchiveDay,
         ArchiveFails, SkipArchive, DeleteDay, CrashRetention
<1> QED
  BY <1>1, <1>2, <1>3, <1>4

\* What becomes of a run that has delivered and not yet advanced.
LEMMA AdvancingMoves ==
    ASSUME Inv, [Next]_vars, NEW i \in Instances, At(i, "advance")
    PROVE  \/ run'[i] = run[i] \/ Advance(i) \/ CrashRun(i)
           \/ \E p \in BOOLEAN : DeliverFails(i, p)
<1>0. run \in [Instances -> Runs]
  BY DEF Inv
<1>1. ASSUME NEW j \in Instances, NEW k \in Sinks, FindDue(j, k)
      PROVE  run'[i] = run[i]
  BY <1>0, <1>1 DEF FindDue, Goto, At
<1>2. ASSUME NEW j \in Instances,
             RunSink(j) \/ RunUnlocked(j) \/ CrashRun(j), j # i
      PROVE  run'[i] = run[i]
  BY <1>0, <1>2
     DEF RunSink, TakeLock, RunUnlocked, Begin, ReadBatch, NothingOwed,
         Deliver, DeliverFails, Advance, Finish, CrashRun, Goto
<1>3. CASE RunSink(i) \/ RunUnlocked(i) \/ CrashRun(i)
  BY <1>3 DEF RunSink, TakeLock, RunUnlocked, ReadBatch, NothingOwed, Deliver,
              At
<1>4. \/ run' = run
      \/ \E j \in Instances, k \in Sinks : FindDue(j, k)
      \/ \E j \in Instances : RunSink(j) \/ RunUnlocked(j) \/ CrashRun(j)
  BY DEF Next, vars, Write, Commit, Tick, CreateSink, ActivateSink,
         DeactivateSink, LockExpires, ApplyRetention, Retain, RetentionDone,
         ArchiveDay, ArchiveFails, SkipArchive, DeleteDay, CrashRetention
<1> QED
  BY <1>1, <1>2, <1>3, <1>4

LEMMA RecordedStep ==
    ASSUME Inv, [Next]_vars, CursorIsCurrent, TakenAhead, OneRunPerSink,
           Recorded,
           [\A i \in Instances :
               At(i, "advance") =>
                  ~CrashRun(i) /\ \A p \in BOOLEAN : ~DeliverFails(i, p)]_vars
    PROVE  Recorded'
<1> SUFFICES ASSUME NEW k \in Sinks, NEW r \in Rows, r \in got'[k]
             PROVE  /\ sink'[k].state # "none" /\ row'[r] # "unused"
                    /\ Follows(r, sink[k].cursor)' => InHand(k, r)'
  BY DEF Recorded
<1>1. CASE r \in got[k]
  <2>1. /\ sink[k].state # "none" /\ row[r] # "unused"
        /\ Follows(r, sink[k].cursor) => InHand(k, r)
    BY <1>1 DEF Recorded
  <2>2. sink'[k].state # "none" /\ row'[r] # "unused" /\ at'[r] = at[r]
    BY <2>1, SinksStay, RowsKeepTheirTime
  <2>3. CASE ~Follows(r, sink[k].cursor)
    <3>1. CASE sink'[k].cursor = sink[k].cursor
      BY <2>2, <2>3, <3>1 DEF Follows
    <3>2. ASSUME NEW i \in Instances, Advance(i), run[i].of = k
          PROVE  ~Follows(r, sink[k].cursor)'
      <4>1. PICK b \in Rows : /\ Follows(b, sink[k].cursor)
                               /\ sink'[k].cursor = Position(b)
        BY <3>2, LastIsAhead
      <4>2. ~Follows(r, Position(b))
        <5>0. at \in [Rows -> Nat] /\ sink[k].cursor \in Positions
          BY TypeParts DEF Inv, Instants, SinksSound
        <5>1. /\ at \in [Rows -> Nat] /\ r \in Nat /\ b \in Nat
              /\ sink[k].cursor.t \in Nat /\ sink[k].cursor.id \in Nat
          BY <5>0, AuditAssumption DEF Positions, Times
        <5> QED
          BY <2>3, <4>1, <5>1 DEF Follows, Position
      <4> QED
        BY <2>2, <4>1, <4>2 DEF Follows, Position
    <3> QED
      BY <2>1, <2>2, <3>1, <3>2, SinkCursorMoves
  <2>4. CASE InHand(k, r)
    <3>1. PICK i \in Instances :
                 At(i, "advance") /\ run[i].of = k /\ r \in run[i].batch
      BY <2>4 DEF InHand
    <3>2. CASE run'[i] = run[i]
      BY <2>2, <3>1, <3>2 DEF InHand, At
    <3>3. CASE Advance(i)
      <4>1. /\ ~Follows(r, Position(LastRow(run[i].batch)))
            /\ sink'[k].cursor = Position(LastRow(run[i].batch))
            /\ LastRow(run[i].batch) \in Rows
            /\ Follows(LastRow(run[i].batch), sink[k].cursor)
        BY <3>1, <3>3, LastIsAhead
      <4>2. at'[r] = at[r]
        BY <2>2
      <4> QED
        BY <2>2, <4>1, <4>2 DEF Follows, Position
    <3>4. CASE CrashRun(i) \/ \E p \in BOOLEAN : DeliverFails(i, p)
      <4>1. run'[i] = run[i]
        BY <3>1, <3>4 DEF vars
      <4> QED
        BY <3>2, <4>1
    <3> QED
      BY <3>1, <3>2, <3>3, <3>4, AdvancingMoves
  <2> QED
    BY <2>1, <2>3, <2>4
<1>2. ASSUME NEW i \in Instances, Deliver(i), run[i].of = k,
             r \in run[i].batch
      PROVE  /\ sink'[k].state # "none" /\ row'[r] # "unused"
             /\ InHand(k, r)'
  <2>1. ~At(i, "idle") /\ At(i, "deliver")
    BY <1>2 DEF Deliver, At
  <2>2. sink[k].state # "none" /\ row[r] \in {"visible", "deleted"}
    BY <1>2, <2>1 DEF Inv, RunSound
  <2>3. sink'[k].state # "none" /\ row'[r] # "unused"
    BY <2>2, SinksStay, RowsKeepTheirTime
  <2>4. run'[i] = [run[i] EXCEPT !.at = "advance"]
    BY <1>2 DEF Deliver, Goto, Inv
  <2>5. /\ run'[i].at = "advance" /\ run'[i].of = run[i].of
        /\ run'[i].batch = run[i].batch
    BY <2>1, <2>4, RunKinds
  <2> QED
    BY <1>2, <2>3, <2>5 DEF InHand, At
<1> QED
  BY <1>1, <1>2, GotMoves

(***************************************************************************)
(* No batch is delivered twice, as long as one instance at a time works    *)
(* for a sink and no run is lost, and no transaction fails, between        *)
(* delivering a batch and recording it.                                    *)
(***************************************************************************)
THEOREM OnceWithoutOverlap ==
    Spec /\ []OneRunPerSink /\ DeliveriesAreRecorded => NotDeliveredTwice
<1> DEFINE Records == \A i \in Instances :
                        At(i, "advance") =>
                          ~CrashRun(i) /\ \A p \in BOOLEAN : ~DeliverFails(i, p)
           Once == \A i \in Instances :
                      At(i, "deliver") /\ run'[i].at = "advance" =>
                         run[i].batch \cap got[run[i].of] = {}
           Ahead == CursorIsCurrent /\ TakenAhead /\ Recorded
<1>1. Init => Ahead
  BY DEF Init, CursorIsCurrent, TakenAhead, Recorded, Delivering, At, Idle
<1>2. Inv /\ Ahead /\ OneRunPerSink /\ [Next]_vars /\ [Records]_vars => Ahead'
  BY CursorStep, TakenStep, RecordedStep
<1>3. Inv /\ Ahead /\ OneRunPerSink => [Once]_vars
  <2> SUFFICES ASSUME Inv, Ahead, OneRunPerSink, NEW i \in Instances,
                      At(i, "deliver"), NEW r \in run[i].batch,
                      r \in got[run[i].of]
               PROVE  FALSE
    OBVIOUS
  <2>1. /\ run[i].of \in Sinks /\ r \in Rows
        /\ ~At(i, "idle") /\ ~At(i, "advance") /\ Delivering(i)
    BY RunKinds DEF At, Delivering
  <2>2. Follows(r, sink[run[i].of].cursor)
    BY <2>1 DEF TakenAhead, CursorIsCurrent
  <2>3. PICK j \in Instances : At(j, "advance") /\ run[j].of = run[i].of
    BY <2>1, <2>2 DEF Recorded, InHand
  <2> QED
    BY <2>1, <2>3 DEF OneRunPerSink, At
<1> QED
  BY <1>1, <1>2, <1>3, Invariance, PTL
     DEF Spec, DeliveriesAreRecorded, NotDeliveredTwice

-----------------------------------------------------------------------------
(***************************************************************************)
(* The floor.  Cursors of active sinks stay at or above the limit of the   *)
(* pass that is under way.                                                 *)
(***************************************************************************)
AboveLimit ==
    retain # Idle =>
        \A k \in Sinks : Active(k) => retain.limit <= sink[k].cursor.t

\* Where the limit of a pass comes from.
LEMMA LimitMoves ==
    ASSUME Inv, [Next]_vars, retain' # Idle
    PROVE  \/ retain # Idle /\ retain'.limit = retain.limit
           \/ sink' = sink /\ retain'.limit = Limit(Minus(now, Retention))
<1>1. CASE retain' = retain
  BY <1>1
<1>2. ASSUME NEW archive \in BOOLEAN, NEW without \in BOOLEAN,
             ApplyRetention(archive, without)
      PROVE  sink' = sink /\ retain'.limit = Limit(Minus(now, Retention))
  BY <1>2 DEF ApplyRetention, sinkVars
<1>3. CASE Retain \/ CrashRetention
  <2>1. retain # Idle
    BY <1>3 DEF Retain, RetentionDone, ArchiveDay, ArchiveFails, SkipArchive,
                DeleteDay, CrashRetention, DayIsDue, Idle
  <2>2. retain \in [at : {"day", "delete"}, archive : BOOLEAN,
                    without : BOOLEAN, limit : Nat, day : Nat]
    BY <2>1 DEF Inv, RetainSound
  <2>3. retain'.limit = retain.limit
    BY <1>3, <2>2
       DEF Retain, RetentionDone, ArchiveDay, ArchiveFails, SkipArchive,
           DeleteDay, CrashRetention, AfterArchiveFailure
  <2> QED
    BY <2>1, <2>3
<1>4. \/ retain' = retain
      \/ \E archive, without \in BOOLEAN : ApplyRetention(archive, without)
      \/ Retain \/ CrashRetention
  BY DEF Next, vars, retVars, Write, Commit, Tick, CreateSink, ActivateSink,
         DeactivateSink, LockExpires, FindDue, RunSink, TakeLock,
         RunUnlocked, ReadBatch, NothingOwed, Deliver, DeliverFails,
         Advance, CrashRun
<1> QED
  BY <1>1, <1>2, <1>3, <1>4

LEMMA AboveLimitStep ==
    ASSUME Inv, [Next]_vars, CursorIsCurrent, TakenAhead, AboveLimit,
           [\A k \in Sinks :
               retain # Idle /\ ~Active(k) /\ sink'[k].state = "active"
                  => retain.limit <= sink'[k].cursor.t]_vars
    PROVE  AboveLimit'
<1> SUFFICES ASSUME retain' # Idle, NEW k \in Sinks,
                    sink'[k].state = "active"
             PROVE  retain'.limit <= sink'[k].cursor.t
  BY DEF AboveLimit, Active
<1>1. CASE sink' = sink /\ retain'.limit = Limit(Minus(now, Retention))
  BY <1>1, LimitBounds DEF Active
<1>2. CASE retain # Idle /\ retain'.limit = retain.limit
  <2>1. CASE ~Active(k)
    BY <1>2, <2>1 DEF Active, vars, sinkVars
  <2>2. CASE Active(k)
    <3>1. retain.limit <= sink[k].cursor.t /\ sink[k].state # "none"
      BY <1>2, <2>2 DEF AboveLimit, Active
    <3>2. CASE sink'[k].cursor = sink[k].cursor
      BY <1>2, <3>1, <3>2
    <3>3. ASSUME NEW i \in Instances, Advance(i), run[i].of = k
          PROVE  retain.limit <= sink'[k].cursor.t
      <4>1. PICK b \in Rows : /\ Follows(b, sink[k].cursor)
                               /\ sink'[k].cursor = Position(b)
        BY <3>3, LastIsAhead
      <4>2. at \in [Rows -> Nat] /\ sink[k].cursor \in Positions
        BY TypeParts DEF Inv, Instants, SinksSound
      <4>3. retain.limit \in Nat
        BY <1>2 DEF Inv, RetainSound
      <4>4. at[b] \in Nat /\ sink[k].cursor.t \in Nat
        BY <4>2, AuditAssumption DEF Positions, Times
      <4>5. sink[k].cursor.t <= at[b]
        BY <4>1, <4>4 DEF Follows
      <4>6. sink'[k].cursor.t = at[b]
        BY <4>1 DEF Position
      <4> QED
        BY <3>1, <4>3, <4>4, <4>5, <4>6
    <3> QED
      BY <1>2, <3>1, <3>2, <3>3, SinkCursorMoves
  <2> QED
    BY <2>1, <2>2
<1> QED
  BY <1>1, <1>2, LimitMoves

(***************************************************************************)
(* The cursor of an active sink is a hard floor, as long as one instance   *)
(* at a time works for a sink, so that no cursor goes back, and no sink    *)
(* becomes active behind the limit of a pass that is under way.            *)
(***************************************************************************)
THEOREM FloorHoldsWithoutLateSinks ==
    Spec /\ []OneRunPerSink /\ NoLateSink => FloorIsHard
<1> DEFINE InTime == \A k \in Sinks :
                       retain # Idle /\ ~Active(k) /\ sink'[k].state = "active"
                          => retain.limit <= sink'[k].cursor.t
           Kept == \A k \in Sinks, r \in Rows :
                      row[r] = "visible" /\ row'[r] = "deleted" =>
                         ~(Active(k) /\ r \in Matches[k]
                              /\ Follows(r, sink[k].cursor))
           Above == CursorIsCurrent /\ TakenAhead /\ AboveLimit
<1>1. Init => Above
  BY DEF Init, CursorIsCurrent, TakenAhead, AboveLimit, Delivering, At, Idle
<1>2. Inv /\ Above /\ OneRunPerSink /\ [Next]_vars /\ [InTime]_vars => Above'
  BY CursorStep, TakenStep, AboveLimitStep
<1>3. Inv /\ Above /\ [Next]_vars => [Kept]_vars
  <2> SUFFICES ASSUME Inv, Above, [Next]_vars, NEW k \in Sinks, NEW r \in Rows,
                      row[r] = "visible", row'[r] = "deleted", Active(k)
               PROVE  ~Follows(r, sink[k].cursor)
    OBVIOUS
  <2>0. row \in [Rows -> {"unused", "written", "visible", "deleted"}]
    BY TypeParts DEF Inv
  <2>1. DeleteDay
    <3>1. ASSUME NEW u \in Rows, Write(u) \/ Commit(u) PROVE FALSE
      BY <2>0, <3>1 DEF Write, Commit
    <3> QED
      BY <3>1
         DEF Next, vars, logVars, Tick, CreateSink, ActivateSink,
             DeactivateSink, LockExpires, FindDue, RunSink, TakeLock,
             RunUnlocked, ReadBatch, NothingOwed, Deliver, DeliverFails,
             Advance, CrashRun, ApplyRetention, Retain, RetentionDone,
             ArchiveDay, ArchiveFails, SkipArchive, CrashRetention
  <2>2. /\ retain.at = "delete" /\ retain # Idle
        /\ at[r] < retain.day + Day
    BY <2>1 DEF DeleteDay, RowsOf, Idle
  <2>3. /\ retain.day + Day <= retain.limit
        /\ retain.day \in Nat /\ retain.limit \in Nat
    BY <2>2 DEF Inv, RetainSound
  <2>4. retain.limit <= sink[k].cursor.t
    BY <2>2 DEF AboveLimit
  <2>5. at \in [Rows -> Nat] /\ sink[k].cursor \in Positions
    BY TypeParts DEF Inv, Instants, SinksSound
  <2>6. /\ at[r] \in Nat /\ Day \in Nat
        /\ sink[k].cursor.t \in Nat
    BY <2>5, AuditAssumption DEF Positions, Times
  <2>7. at[r] < sink[k].cursor.t
    BY <2>2, <2>3, <2>4, <2>6
  <2> QED
    BY <2>6, <2>7 DEF Follows
<1> QED
  BY <1>1, <1>2, <1>3, Invariance, PTL DEF Spec, NoLateSink, FloorIsHard
=============================================================================
