---------------------------- MODULE OfficeProofs ----------------------------
(***************************************************************************)
(* Proofs about the back office, for any number of rows, requests, days and  *)
(* amounts.  Induction over numbers and over the length of a sequence goes   *)
(* by the least number of a set.                                            *)
(***************************************************************************)
EXTENDS Office, FiniteSetTheorems, FunctionTheorems, SequenceTheorems, WellFoundedInduction, TLAPS

-----------------------------------------------------------------------------
\* Induction

\* A set of natural numbers has a least one.
LEMMA LeastNumber ==
    ASSUME NEW T \in SUBSET Nat, T # {}
    PROVE  \E m \in T : \A k \in T : m <= k
<1> DEFINE F == {0..k : k \in T}
<1> DEFINE P == StrictSubsetOrdering(Nat)
<1> DEFINE S == FiniteSubsetsOf(Nat)
<1>1. IsWellFoundedOn(P, S)
    BY FS_StrictSubsetOrderingWellFounded
<1>2. F \subseteq S
    <2>1. ASSUME NEW k \in T PROVE IsFiniteSet(0..k) /\ 0..k \subseteq Nat
        BY FS_Interval
    <2> QED
        BY <2>1 DEF FiniteSubsetsOf
<1>3. F # {}
    OBVIOUS
<1> HIDE DEF P, S, F
<1>4. PICK x \in F : \A y \in F : ~(<<y, x>> \in P)
    BY <1>1, <1>2, <1>3, WFMin
<1>5. PICK m \in T : x = 0..m
    BY DEF F
<1>6. ASSUME NEW k \in T, k < m PROVE FALSE
    <2>1. 0..k \in F /\ 0..k \subseteq 0..m /\ m \notin 0..k /\ m \in 0..m
        BY <1>6 DEF F
    <2>2. <<0..k, 0..m>> \in P
        BY <2>1 DEF P, StrictSubsetOrdering
    <2> QED
        BY <1>4, <1>5, <2>1, <2>2
<1> QED
    BY <1>6

\* What holds of 0, and of a number if it holds of the one before, holds of all.
LEMMA Induction ==
    ASSUME NEW T \in SUBSET Nat, 0 \in T, \A n \in Nat : n \in T => n + 1 \in T
    PROVE  T = Nat
<1> SUFFICES ASSUME Nat \ T # {} PROVE FALSE
    OBVIOUS
<1>1. PICK m \in Nat \ T : \A k \in Nat \ T : m <= k
    BY LeastNumber
<1>2. m # 0 /\ m - 1 \in Nat /\ m - 1 \in T
    BY <1>1
<1> QED
    BY <1>1, <1>2

-----------------------------------------------------------------------------
\* Sequences

\* FlattenSeq of k of the sequences.
Flattens(seqs, k, f) ==
    f = [i \in 1..k |-> IF i = 1 THEN seqs[i] ELSE f[i - 1] \o seqs[i]]

LEMMA FlattensExists ==
    ASSUME NEW S, NEW seqs \in Seq(Seq(S)), NEW n \in 0..Len(seqs)
    PROVE  \E f : Flattens(seqs, n, f)
<1> DEFINE T == {k \in Nat : k <= Len(seqs) => \E f : Flattens(seqs, k, f)}
<1>1. 0 \in T
    <2>1. Flattens(seqs, 0, [i \in 1..0 |-> 0])
        BY DEF Flattens
    <2> QED
        BY <2>1
<1>2. ASSUME NEW k \in T, k + 1 <= Len(seqs) PROVE \E f : Flattens(seqs, k + 1, f)
    <2>1. PICK f : Flattens(seqs, k, f)
        BY <1>2
    <2> DEFINE last == IF k + 1 = 1 THEN seqs[k + 1] ELSE f[k] \o seqs[k + 1]
    <2> DEFINE g == [i \in 1..(k + 1) |-> IF i = k + 1 THEN last ELSE f[i]]
    <2> HIDE DEF last
    <2>2. g[k + 1] = last /\ \A i \in 1..k : g[i] = f[i]
        OBVIOUS
    <2>3. ASSUME NEW i \in 1..(k + 1)
          PROVE  g[i] = IF i = 1 THEN seqs[i] ELSE g[i - 1] \o seqs[i]
        <3>1. CASE i = k + 1
            BY <2>2, <3>1 DEF last
        <3>2. CASE i # k + 1
            <4>1. i \in 1..k /\ (i # 1 => i - 1 \in 1..k)
                BY <3>2
            <4>2. f[i] = IF i = 1 THEN seqs[i] ELSE f[i - 1] \o seqs[i]
                BY <2>1, <4>1 DEF Flattens
            <4> QED
                BY <2>2, <4>1, <4>2
        <3> QED
            BY <3>1, <3>2
    <2>4. g = [i \in 1..(k + 1) |-> IF i = 1 THEN seqs[i] ELSE g[i - 1] \o seqs[i]]
        BY <2>3
    <2> HIDE DEF g
    <2> QED
        BY <2>4 DEF Flattens
<1>3. T = Nat
    <2> HIDE DEF T
    <2>1. T \in SUBSET Nat
        BY DEF T
    <2>2. ASSUME NEW k \in Nat, k \in T PROVE k + 1 \in T
        <3>1. k + 1 <= Len(seqs) => \E f : Flattens(seqs, k + 1, f)
            BY <1>2, <2>2
        <3> QED
            BY <3>1 DEF T
    <2> QED
        BY <1>1, <2>1, <2>2, Induction
<1> QED
    BY <1>3

\* A flattened sequence has the elements of its parts.
LEMMA Flattened ==
    ASSUME NEW S, NEW seqs \in Seq(Seq(S))
    PROVE  /\ FlattenSeq(seqs) \in Seq(S)
           /\ \A x : x \in Range(FlattenSeq(seqs)) <=> \E i \in 1..Len(seqs) : x \in Range(seqs[i])
<1> DEFINE n == Len(seqs)
<1>1. CASE n = 0
    BY <1>1, EmptySeq DEF FlattenSeq, Range
<1>2. CASE n # 0
    <2> DEFINE f == CHOOSE g : Flattens(seqs, n, g)
    <2>1. Flattens(seqs, n, f)
        BY FlattensExists
    <2>2. FlattenSeq(seqs) = f[n]
        BY <1>2 DEF FlattenSeq, Flattens
    <2> HIDE DEF f
    <2>3. \A i \in 1..n : f[i] = IF i = 1 THEN seqs[i] ELSE f[i - 1] \o seqs[i]
        BY <2>1 DEF Flattens
    <2> DEFINE Good(i) == /\ f[i] \in Seq(S)
                          /\ \A x : x \in Range(f[i]) <=> \E j \in 1..i : x \in Range(seqs[j])
    <2> DEFINE T == {k \in Nat : k + 1 <= n => Good(k + 1)}
    <2>4. 0 \in T
        BY <1>2, <2>3
    <2>5. ASSUME NEW k \in T, k + 2 <= n PROVE Good(k + 2)
        <3>1. f[k + 2] = f[k + 1] \o seqs[k + 2]
            <4>1. k + 2 \in 1..n /\ k + 2 # 1 /\ (k + 2) - 1 = k + 1
                BY <2>5
            <4> QED
                BY <2>3, <4>1
        <3>2. Good(k + 1) /\ seqs[k + 2] \in Seq(S)
            BY <2>5
        <3>3. Range(f[k + 2]) = Range(f[k + 1]) \cup Range(seqs[k + 2])
            BY <3>1, <3>2, RangeConcatenation
        <3>4. f[k + 2] \in Seq(S)
            BY <3>1, <3>2
        <3>5. ASSUME NEW x
              PROVE  x \in Range(f[k + 2]) <=> \E j \in 1..(k + 2) : x \in Range(seqs[j])
            <4>1. 1..(k + 2) = 1..(k + 1) \cup {k + 2}
                OBVIOUS
            <4> HIDE DEF T
            <4> QED
                BY <3>2, <3>3, <4>1
        <3> QED
            BY <3>4, <3>5
    <2>6. T = Nat
        <3> HIDE DEF T, Good
        <3>1. T \in SUBSET Nat
            BY DEF T
        <3>2. ASSUME NEW k \in Nat, k \in T PROVE k + 1 \in T
            <4>1. (k + 1) + 1 = k + 2
                OBVIOUS
            <4>2. k + 2 <= n => Good(k + 2)
                BY <2>5, <3>2
            <4> QED
                BY <4>1, <4>2 DEF T
        <3> QED
            BY <2>4, <3>1, <3>2, Induction
    <2>7. Good(n)
        <3>1. n - 1 \in Nat /\ (n - 1) + 1 = n
            BY <1>2
        <3>2. n - 1 \in T
            BY <2>6, <3>1
        <3> HIDE DEF Good
        <3> QED
            BY <3>1, <3>2
    <2> QED
        BY <1>2, <2>2, <2>7
<1> QED
    BY <1>1, <1>2

\* An order of a finite set has its elements.
LEMMA Ordered ==
    ASSUME NEW S, IsFiniteSet(S), NEW order \in SetToSeqs(S)
    PROVE  /\ order \in Seq(S) /\ Len(order) = Cardinality(S)
           /\ \A x \in S : \E i \in 1..Len(order) : order[i] = x
<1> DEFINE n == Cardinality(S)
<1>1. n \in Nat
    BY FS_CardinalityType
<1> HIDE DEF n
<1>2. order \in [1..n -> S] /\ \A i, j \in 1..n : i # j => order[i] # order[j]
    BY DEF SetToSeqs, n
<1>3. order \in Injection(1..n, S)
    BY <1>2, Fun_IsInj
<1>4. IsFiniteSet(1..n) /\ Cardinality(1..n) = n
    BY <1>1, FS_Interval
<1>5. order \in Surjection(1..n, S)
    BY <1>3, <1>4, FS_Injection DEF n
<1>6. \A x \in S : \E i \in 1..n : order[i] = x
    BY <1>5 DEF Surjection
<1>7. order \in Seq(S) /\ Len(order) = n
    BY <1>1, <1>2
<1> QED
    BY <1>6, <1>7 DEF n

-----------------------------------------------------------------------------
\* The fleet

LEMMA RestType == Rest \in Job
<1>1. 0 \in Readings /\ 0 \in Days /\ <<>> \in Seq(Statement(Targets))
    BY FleetAssumption DEF Readings, Days
<1>2. NoVehicle \in VehicleRow
    BY <1>1 DEF NoVehicle, VehicleRow
<1> QED
    BY <1>1, <1>2 DEF Rest, Job

LEMMA RestStays == Rest = [Rest EXCEPT !.step = "rest"]
<1>1. Rest.step = "rest" /\ "step" \in DOMAIN Rest
    BY DEF Rest
<1>2. Rest = [f \in DOMAIN Rest |-> Rest[f]]
    BY DEF Rest
<1> QED
    BY <1>1, <1>2

\* What a resync still has to do, once it has read what it judges by.
LEMMA DocumentsAgenda ==
    ASSUME NEW day \in Days, NEW order \in SetToSeqs({d \in Documents : vehicle.expiry[d] # None})
    PROVE  LET agenda == FlattenSeq([i \in DOMAIN order |-> DocumentPlan(order[i], day)])
           IN  /\ agenda \in Seq(Statement(Targets))
               /\ \A x : x \in Range(agenda) <=>
                    \E d \in Documents : vehicle.expiry[d] # None /\ x \in Range(DocumentPlan(d, day))
<1> DEFINE S == {d \in Documents : vehicle.expiry[d] # None}
<1> DEFINE seqs == [i \in DOMAIN order |-> DocumentPlan(order[i], day)]
<1>1. IsFiniteSet(S)
    BY FleetAssumption, FS_Subset
<1>2. /\ order \in Seq(S) /\ DOMAIN order = 1..Len(order) /\ Len(order) \in Nat
      /\ \A x \in S : \E i \in 1..Len(order) : order[i] = x
    BY <1>1, Ordered
<1>3. ASSUME NEW d \in Documents PROVE DocumentPlan(d, day) \in Seq(Statement(Targets))
    <2>1. OfDocument(d) \in Targets
        BY DEF Targets
    <2>2. Raise(OfDocument(d)) \in Statement(Targets) /\ Settle(OfDocument(d)) \in Statement(Targets)
        BY <2>1 DEF Raise, Settle, Statement
    <2> QED
        BY <2>2 DEF DocumentPlan
<1>4. seqs \in Seq(Seq(Statement(Targets))) /\ Len(seqs) = Len(order)
    <2>1. seqs \in [1..Len(order) -> Seq(Statement(Targets))]
        BY <1>2, <1>3
    <2> QED
        BY <1>2, <2>1
<1>5. \A i \in 1..Len(order) : seqs[i] = DocumentPlan(order[i], day) /\ order[i] \in S
    BY <1>2
<1> HIDE DEF seqs
<1>6. FlattenSeq(seqs) \in Seq(Statement(Targets))
    BY <1>4, Flattened
<1>7. \A x : x \in Range(FlattenSeq(seqs)) <=> \E i \in 1..Len(seqs) : x \in Range(seqs[i])
    BY <1>4, Flattened
<1>8. ASSUME NEW x
      PROVE  x \in Range(FlattenSeq(seqs)) <=> \E d \in S : x \in Range(DocumentPlan(d, day))
    <2>1. ASSUME NEW i \in 1..Len(seqs), x \in Range(seqs[i])
          PROVE  \E d \in S : x \in Range(DocumentPlan(d, day))
        <3>1. order[i] \in S /\ seqs[i] = DocumentPlan(order[i], day)
            BY <1>4, <1>5
        <3> QED
            BY <2>1, <3>1
    <2>2. ASSUME NEW d \in S, x \in Range(DocumentPlan(d, day))
          PROVE  \E i \in 1..Len(seqs) : x \in Range(seqs[i])
        <3>1. PICK i \in 1..Len(order) : order[i] = d
            BY <1>2
        <3>2. seqs[i] = DocumentPlan(d, day) /\ i \in 1..Len(seqs)
            BY <1>4, <1>5, <3>1
        <3> QED
            BY <2>2, <3>2
    <2> QED
        BY <1>7, <2>1, <2>2
<1> QED
    BY <1>6, <1>8 DEF seqs

LEMMA SchedulesAgenda ==
    ASSUME NEW km, NEW day, NEW planned \in SUBSET Schedules, NEW order \in SetToSeqs(planned)
    PROVE  LET agenda == FlattenSeq([i \in DOMAIN order |-> SchedulePlan(order[i], km, day)])
           IN  /\ agenda \in Seq(Statement(Targets))
               /\ \A x : x \in Range(agenda) <=>
                    \E t \in planned : x \in Range(SchedulePlan(t, km, day))
<1> DEFINE seqs == [i \in DOMAIN order |-> SchedulePlan(order[i], km, day)]
<1>1. IsFiniteSet(planned)
    BY FleetAssumption, FS_Subset
<1>2. /\ order \in Seq(planned) /\ DOMAIN order = 1..Len(order) /\ Len(order) \in Nat
      /\ \A x \in planned : \E i \in 1..Len(order) : order[i] = x
    BY <1>1, Ordered
<1>3. ASSUME NEW t \in Schedules PROVE SchedulePlan(t, km, day) \in Seq(Statement(Targets))
    <2>1. Late(t) \in Targets /\ Due(t) \in Targets
        BY DEF Targets
    <2>2. /\ Raise(Late(t)) \in Statement(Targets) /\ Settle(Late(t)) \in Statement(Targets)
          /\ Raise(Due(t)) \in Statement(Targets) /\ Settle(Due(t)) \in Statement(Targets)
        BY <2>1 DEF Raise, Settle, Statement
    <2> QED
        BY <2>2 DEF SchedulePlan
<1>4. seqs \in Seq(Seq(Statement(Targets))) /\ Len(seqs) = Len(order)
    <2>1. seqs \in [1..Len(order) -> Seq(Statement(Targets))]
        BY <1>2, <1>3
    <2> QED
        BY <1>2, <2>1
<1>5. \A i \in 1..Len(order) : seqs[i] = SchedulePlan(order[i], km, day) /\ order[i] \in planned
    BY <1>2
<1> HIDE DEF seqs
<1>6. FlattenSeq(seqs) \in Seq(Statement(Targets))
    BY <1>4, Flattened
<1>7. \A x : x \in Range(FlattenSeq(seqs)) <=> \E i \in 1..Len(seqs) : x \in Range(seqs[i])
    BY <1>4, Flattened
<1>8. ASSUME NEW x
      PROVE  x \in Range(FlattenSeq(seqs)) <=> \E t \in planned : x \in Range(SchedulePlan(t, km, day))
    <2>1. ASSUME NEW i \in 1..Len(seqs), x \in Range(seqs[i])
          PROVE  \E t \in planned : x \in Range(SchedulePlan(t, km, day))
        <3>1. order[i] \in planned /\ seqs[i] = SchedulePlan(order[i], km, day)
            BY <1>4, <1>5
        <3> QED
            BY <2>1, <3>1
    <2>2. ASSUME NEW t \in planned, x \in Range(SchedulePlan(t, km, day))
          PROVE  \E i \in 1..Len(seqs) : x \in Range(seqs[i])
        <3>1. PICK i \in 1..Len(order) : order[i] = t
            BY <1>2
        <3>2. seqs[i] = SchedulePlan(t, km, day) /\ i \in 1..Len(seqs)
            BY <1>4, <1>5, <3>1
        <3> QED
            BY <2>2, <3>2
    <2> QED
        BY <1>7, <2>1, <2>2
<1> QED
    BY <1>6, <1>8 DEF seqs

\* Steps of one request: what the others hold stays.
JobMoves(q) == \E j \in Job : job' = [job EXCEPT ![q] = j]

LEMMA MaintenanceTyped ==
    ASSUME FleetTypeOK, NEW q \in Mechanics, MaintenanceStep(q)
    PROVE  FleetTypeOK' /\ JobMoves(q)
<1> USE RestType
<1>1. CASE \E type \in Types, km \in Readings : CreateRecord(q, type, km)
    <2>1. PICK type \in Types, km \in Readings : CreateRecord(q, type, km)
        BY <1>1
    <2> DEFINE j == [Rest EXCEPT !.step = "record", !.type = type, !.km = km, !.seen = vehicle]
    <2>2. j \in Job
        BY DEF Job, FleetTypeOK
    <2>3. job' = [job EXCEPT ![q] = j] /\ UNCHANGED <<today, vehicle, schedule, open>>
        BY <2>1 DEF CreateRecord, Arrive
    <2> HIDE DEF j
    <2> QED
        BY <2>2, <2>3 DEF FleetTypeOK, JobMoves
<1>2. CASE CommitRecord(q)
    <2> DEFINE j == [Rest EXCEPT !.step = "sync"]
    <2>1. j \in Job /\ job' = [job EXCEPT ![q] = j] /\ UNCHANGED <<today, open>>
        BY <1>2 DEF Job, CommitRecord, Proceed
    <2>2. vehicle' \in VehicleRow
        BY <1>2 DEF CommitRecord, FleetTypeOK, VehicleRow, Job
    <2>3. schedule' \in [Schedules -> ScheduleRow]
        <3>1. ASSUME NEW s \in Schedules
              PROVE  [schedule[s] EXCEPT !.status = "COMPLETED"] \in ScheduleRow
                     /\ schedule[s] \in ScheduleRow
            BY DEF FleetTypeOK, ScheduleRow
        <3> QED
            BY <1>2, <3>1 DEF CommitRecord
    <2> HIDE DEF j
    <2> QED
        BY <2>1, <2>2, <2>3 DEF FleetTypeOK, JobMoves
<1>3. CASE CreateSchedule(q)
    <2> DEFINE j == [Rest EXCEPT !.step = "insert"]
    <2>1. j \in Job /\ job' = [job EXCEPT ![q] = j] /\ UNCHANGED <<today, vehicle, schedule, open>>
        BY <1>3 DEF Job, CreateSchedule, Arrive
    <2> HIDE DEF j
    <2> QED
        BY <2>1 DEF FleetTypeOK, JobMoves
<1>4. CASE \E s \in Schedules, type \in Types, due \in Dates \cup {None},
              km \in 0..(MaxKm - 1) \cup {None}, critical \in BOOLEAN :
                InsertSchedule(q, s, type, due, km, critical)
    <2> DEFINE j == [Rest EXCEPT !.step = "sync"]
    <2>1. PICK s \in Schedules, type \in Types, due \in Dates \cup {None},
              km \in 0..(MaxKm - 1) \cup {None}, critical \in BOOLEAN :
                InsertSchedule(q, s, type, due, km, critical)
        BY <1>4
    <2>2. j \in Job /\ job' = [job EXCEPT ![q] = j] /\ UNCHANGED <<today, vehicle, open>>
        BY <2>1 DEF Job, InsertSchedule, Proceed
    <2>3. schedule' \in [Schedules -> ScheduleRow]
        <3>1. [status |-> "SCHEDULED", type |-> type, due |-> due, km |-> km, critical |-> critical]
                \in ScheduleRow
            BY FleetAssumption DEF ScheduleRow, Readings
        <3> QED
            BY <2>1, <3>1 DEF InsertSchedule, FleetTypeOK
    <2> HIDE DEF j
    <2> QED
        BY <2>2, <2>3 DEF FleetTypeOK, JobMoves
<1>5. CASE \E s \in Schedules : CancelSchedule(q, s)
    <2> DEFINE j == [Rest EXCEPT !.step = "sync"]
    <2>1. PICK s \in Schedules : CancelSchedule(q, s)
        BY <1>5
    <2>2. j \in Job /\ job' = [job EXCEPT ![q] = j] /\ UNCHANGED <<today, vehicle, open>>
        BY <2>1 DEF Job, CancelSchedule
    <2>3. schedule' \in [Schedules -> ScheduleRow]
        BY <2>1 DEF CancelSchedule, FleetTypeOK, ScheduleRow
    <2> HIDE DEF j
    <2> QED
        BY <2>2, <2>3 DEF FleetTypeOK, JobMoves
<1> QED
    BY <1>1, <1>2, <1>3, <1>4, <1>5 DEF MaintenanceStep

LEMMA VehicleTyped ==
    ASSUME FleetTypeOK, NEW q \in Mechanics,
           VehicleStep(q) \/ ContractStep(q) \/ ResyncVehicle(q) \/ AnswerSync(q) \/ Break(q)
    PROVE  FleetTypeOK' /\ JobMoves(q)
<1> USE RestType
<1>1. CASE UpdateVehicle(q) \/ ResyncVehicle(q) \/ AnswerSync(q) \/ Break(q)
    <2>1. PICK to \in {"rest", "patch", "sync"} :
            /\ job' = [job EXCEPT ![q] = [Rest EXCEPT !.step = to]]
            /\ UNCHANGED <<today, vehicle, schedule, open>>
        <3>1. Rest = [Rest EXCEPT !.step = "rest"]
            BY RestStays
        <3>2. CASE UpdateVehicle(q)
            BY <3>2 DEF UpdateVehicle, Arrive
        <3>3. CASE ResyncVehicle(q)
            BY <3>3 DEF ResyncVehicle, Arrive
        <3>4. CASE AnswerSync(q) \/ Break(q)
            <4>1. job' = [job EXCEPT ![q] = Rest] /\ UNCHANGED <<today, vehicle, schedule, open>>
                BY <3>4 DEF AnswerSync, Break
            <4> QED
                BY <3>1, <4>1
        <3> QED
            BY <1>1, <3>2, <3>3, <3>4
    <2> DEFINE j == [Rest EXCEPT !.step = to]
    <2>2. j \in Job
        BY DEF Job
    <2> HIDE DEF j
    <2> QED
        BY <2>1, <2>2 DEF FleetTypeOK, JobMoves, j
<1>2. CASE \E km \in Readings, papers \in [Documents -> Dates \cup {None}] : WriteVehicle(q, km, papers)
    <2> DEFINE j == [Rest EXCEPT !.step = "sync"]
    <2>1. PICK km \in Readings, papers \in [Documents -> Dates \cup {None}] : WriteVehicle(q, km, papers)
        BY <1>2
    <2>2. j \in Job /\ job' = [job EXCEPT ![q] = j] /\ UNCHANGED <<today, schedule, open>>
        BY <2>1 DEF Job, WriteVehicle, Proceed
    <2>3. vehicle' \in VehicleRow
        <3> DEFINE e == [d \in Documents |-> IF papers[d] = None THEN vehicle.expiry[d] ELSE papers[d]]
        <3>1. e \in [Documents -> Dates \cup {None}]
            BY DEF FleetTypeOK, VehicleRow
        <3>2. vehicle' = IF ~vehicle.alive THEN vehicle ELSE [vehicle EXCEPT !.km = km, !.expiry = e]
            BY <2>1 DEF WriteVehicle
        <3> HIDE DEF e
        <3> QED
            BY <3>1, <3>2 DEF FleetTypeOK, VehicleRow
    <2> HIDE DEF j
    <2> QED
        BY <2>2, <2>3 DEF FleetTypeOK, JobMoves
<1>3. CASE \E km \in Readings : CompleteContract(q, km)
    <2>1. PICK km \in Readings : CompleteContract(q, km)
        BY <1>3
    <2> DEFINE j == [Rest EXCEPT !.step = "return", !.km = km]
    <2>2. j \in Job /\ job' = [job EXCEPT ![q] = j] /\ UNCHANGED <<today, vehicle, schedule, open>>
        BY <2>1 DEF Job, CompleteContract
    <2> HIDE DEF j
    <2> QED
        BY <2>2 DEF FleetTypeOK, JobMoves
<1>4. CASE CommitReturn(q)
    <2> DEFINE j == [Rest EXCEPT !.step = "rest"]
    <2>1. j \in Job /\ job' = [job EXCEPT ![q] = j] /\ UNCHANGED <<today, schedule, open>>
        BY <1>4 DEF Job, CommitReturn, Proceed
    <2>2. vehicle' \in VehicleRow
        BY <1>4 DEF CommitReturn, FleetTypeOK, VehicleRow, Job
    <2> HIDE DEF j
    <2> QED
        BY <2>1, <2>2 DEF FleetTypeOK, JobMoves
<1> QED
    BY <1>1, <1>2, <1>3, <1>4 DEF VehicleStep, ContractStep
-----------------------------------------------------------------------------
\* The inductive invariant of the fleet

Create(t) == [do |-> "create", target |-> t]

\* What a resync that read `seen' on that day means to say of a document, and of
\* a schedule whose row is r.
Judged(d, seen, day) ==
    IF seen.expiry[d] - Window <= day THEN Raise(OfDocument(d)) ELSE Settle(OfDocument(d))

IsLate(r, km, day) ==
    \/ r.due # None /\ r.due <= day
    \/ r.km # None /\ r.km < km

IsSoon(r, day) == r.due # None /\ r.due - Window <= day

JudgedSchedule(s, r, km, day) ==
    IF IsLate(r, km, day) THEN {Raise(Late(s))}
    ELSE IF IsSoon(r, day) THEN {Raise(Due(s))}
    ELSE {Settle(Late(s)), Settle(Due(s))}

Wanted(j, rows) ==
    {Judged(d, j.seen, j.day) : d \in {x \in Documents : j.seen.expiry[x] # None}}
    \cup UNION {JudgedSchedule(s, rows[s], j.seen.km, j.day) : s \in j.listed}

Said(st, alerts) == alerts[st.target] = IF st.do = "raise" THEN 1 ELSE 0

\* Nothing on the agenda is unwanted, and an insert about to be made is of an
\* alert that is not there.
Sound(agenda, wanted, alerts) ==
    agenda # <<>> =>
        /\ \/ Head(agenda) \in wanted
           \/ \E t \in Targets : /\ Head(agenda) = Create(t)
                                 /\ alerts[t] = 0 /\ Raise(t) \in wanted
        /\ Range(Tail(agenda)) \subseteq wanted

\* What is wanted is true already or still to be done.
Complete(agenda, wanted, alerts) ==
    \A st \in wanted :
        \/ Said(st, alerts)
        \/ st \in Range(agenda)
        \/ agenda # <<>> /\ st.do = "raise" /\ Head(agenda) = Create(st.target)

SyncOK(j, rows, alerts) ==
    /\ j.step \notin {"documents", "schedules"} => j.agenda = <<>>
    /\ j.step # "schedules" => j.listed = {}
    /\ \A s \in j.listed : rows[s].status # "ABSENT"
    /\ j.step \in {"documents", "schedules"} =>
        /\ Sound(j.agenda, Wanted(j, rows), alerts)
        /\ Complete(j.agenda, Wanted(j, rows), alerts)

OneSync == \A p, q \in Mechanics : p # q => ~(Syncing(p) /\ Syncing(q))

OneWriter ==
    \A p, q \in Mechanics : p # q => ~({job[p].step, job[q].step} \subseteq {"record", "patch", "return"})

FreshReading == \A q \in Mechanics : job[q].step = "record" => job[q].seen.km = vehicle.km

FleetInv ==
    /\ FleetTypeOK
    /\ open \in [Targets -> {0, 1}]
    /\ OneSync
    /\ OneWriter
    /\ FreshReading
    /\ \A q \in Mechanics : SyncOK(job[q], schedule, open)
LEMMA Agendas ==
    ASSUME NEW S, NEW a \in Seq(S), a # <<>>
    PROVE  /\ Head(a) \in S /\ Tail(a) \in Seq(S) /\ Range(a) = {Head(a)} \cup Range(Tail(a))
           /\ \A x \in S : LET b == <<x>> \o Tail(a)
                           IN  /\ b \in Seq(S) /\ b # <<>> /\ Head(b) = x /\ Tail(b) = Tail(a)
                               /\ Range(b) = {x} \cup Range(Tail(a))
<1>1. Head(a) \in S /\ Tail(a) \in Seq(S) /\ Len(a) \in Nat \ {0} /\ Len(Tail(a)) = Len(a) - 1
    OBVIOUS
<1>2. \A i \in 1..(Len(a) - 1) : Tail(a)[i] = a[i + 1]
    OBVIOUS
<1>3. Range(a) = {Head(a)} \cup Range(Tail(a))
    <2>1. Range(a) = {a[i] : i \in 1..Len(a)} /\ Range(Tail(a)) = {Tail(a)[i] : i \in 1..(Len(a) - 1)}
        <3>1. DOMAIN a = 1..Len(a)
            OBVIOUS
        <3>2. DOMAIN Tail(a) = 1..(Len(a) - 1)
            <4> DEFINE t == Tail(a)
            <4>1. t \in Seq(S) /\ Len(t) = Len(a) - 1
                BY <1>1
            <4> HIDE DEF t
            <4>2. DOMAIN t = 1..Len(t)
                BY <4>1
            <4> QED
                BY <4>1, <4>2 DEF t
        <3> QED
            BY <3>1, <3>2 DEF Range
    <2>2. Head(a) = a[1]
        OBVIOUS
    <2>3. \A i \in 1..Len(a) : i = 1 \/ (i - 1 \in 1..(Len(a) - 1) /\ Tail(a)[i - 1] = a[i])
        BY <1>1, <1>2
    <2>4. \A i \in 1..(Len(a) - 1) : i + 1 \in 1..Len(a)
        BY <1>1
    <2>5. Range(a) \subseteq {Head(a)} \cup Range(Tail(a))
        BY <2>1, <2>2, <2>3
    <2>6. \A i \in 1..(Len(a) - 1) : Tail(a)[i] \in Range(a)
        BY <1>2, <2>1, <2>4
    <2>7. Head(a) \in Range(a)
        BY <1>1, <2>1, <2>2
    <2> QED
        BY <2>1, <2>5, <2>6, <2>7
<1>4. ASSUME NEW x \in S
      PROVE  LET b == <<x>> \o Tail(a)
             IN  /\ b \in Seq(S) /\ b # <<>> /\ Head(b) = x /\ Tail(b) = Tail(a)
                 /\ Range(b) = {x} \cup Range(Tail(a))
    <2> DEFINE t == Tail(a)
    <2>1. t \in Seq(S)
        BY <1>1
    <2> HIDE DEF t
    <2>2. <<x>> \in Seq(S) /\ Range(<<x>>) = {x}
        BY DEF Range
    <2>3. Range(<<x>> \o t) = {x} \cup Range(t)
        <3>1. Range(<<x>> \o t) = Range(<<x>>) \cup Range(t)
            <4> DEFINE u == <<x>>
            <4>1. u \in Seq(S)
                BY <2>2
            <4> HIDE DEF u
            <4>2. Range(u \o t) = Range(u) \cup Range(t)
                BY <2>1, <4>1, RangeConcatenation
            <4> QED
                BY <4>2 DEF u
        <3> QED
            BY <2>2, <3>1
    <2>4. <<x>> \o t \in Seq(S) /\ <<x>> \o t # <<>> /\ Head(<<x>> \o t) = x
        BY <2>1, <2>2
    <2>5. Tail(<<x>> \o t) = t
        BY <2>1, <2>2
    <2> QED
        BY <2>3, <2>4, <2>5 DEF t
<1> QED
    BY <1>1, <1>3, <1>4
\* One statement of a sync: what it was wanted for becomes true, and no other
\* target is touched.
LEMMA SyncStep ==
    ASSUME NEW W,
           \A st \in W : \E t \in Targets : st = Raise(t) \/ st = Settle(t),
           \A x, y \in W : x.target = y.target => x = y,
           NEW agenda \in Seq(Statement(Targets)), agenda # <<>>,
           NEW alerts \in [Targets -> {0, 1}],
           Sound(agenda, W, alerts), Complete(agenda, W, alerts)
    PROVE  /\ OpenAfter(alerts, agenda) \in [Targets -> {0, 1}]
           /\ AgendaAfter(alerts, agenda) \in Seq(Statement(Targets))
           /\ Sound(AgendaAfter(alerts, agenda), W, OpenAfter(alerts, agenda))
           /\ Complete(AgendaAfter(alerts, agenda), W, OpenAfter(alerts, agenda))
<1> DEFINE rest == Tail(agenda)
<1> DEFINE h == Head(agenda)
<1>1. /\ h \in Statement(Targets) /\ rest \in Seq(Statement(Targets))
      /\ Range(agenda) = {h} \cup Range(rest)
    BY Agendas
<1>2. Range(rest) \subseteq W
    BY DEF Sound
<1>3. ASSUME NEW x \in Statement(Targets)
      PROVE  LET b == <<x>> \o rest
             IN  /\ b \in Seq(Statement(Targets)) /\ b # <<>> /\ Head(b) = x /\ Tail(b) = rest
                 /\ Range(b) = {x} \cup Range(rest)
    BY Agendas
<1>4. Sound(rest, W, alerts) /\ \A other : Sound(rest, W, other)
    <2>1. ASSUME rest # <<>> PROVE Head(rest) \in W /\ Range(Tail(rest)) \subseteq W
        <3>1. Range(rest) = {Head(rest)} \cup Range(Tail(rest))
            BY <1>1, <2>1, Agendas
        <3> QED
            BY <1>2, <3>1
    <2> QED
        BY <2>1 DEF Sound
<1>5. ASSUME NEW st \in W PROVE Said(st, alerts) \/ st = h \/ st \in Range(rest)
                                \/ (st.do = "raise" /\ h = Create(st.target))
    BY <1>1 DEF Complete
<1>6. PICK t \in Targets : \/ h \in W /\ (h = Raise(t) \/ h = Settle(t))
                           \/ h = Create(t) /\ alerts[t] = 0 /\ Raise(t) \in W
    BY DEF Sound
<1> DEFINE count(u) == IF h.do = "create" THEN alerts[u] + 1
                       ELSE IF h.do = "resolve" THEN 0 ELSE alerts[u]
<1>7. OpenAfter(alerts, agenda) = [alerts EXCEPT ![h.target] = count(h.target)]
    BY DEF OpenAfter
<1>8. AgendaAfter(alerts, agenda) = IF h.do = "raise" /\ alerts[h.target] = 0
                                    THEN <<[h EXCEPT !.do = "create"]>> \o rest ELSE rest
    BY DEF AgendaAfter
<1> HIDE DEF h, rest
<1>a. CASE h = Settle(t)
    <2>1. OpenAfter(alerts, agenda) = [alerts EXCEPT ![t] = 0] /\ AgendaAfter(alerts, agenda) = rest
        <3>1. h.do = "resolve" /\ h.target = t /\ count(h.target) = 0
            BY <1>a DEF Settle
        <3> HIDE DEF count
        <3> QED
            BY <1>7, <1>8, <3>1
    <2>2. h \in W
        BY <1>a, <1>6 DEF Settle, Create
    <2> DEFINE after == [alerts EXCEPT ![t] = 0]
    <2>3. ASSUME NEW st \in W PROVE Said(st, after) \/ st \in Range(rest)
        <3>1. PICK u \in Targets : st = Raise(u) \/ st = Settle(u)
            OBVIOUS
        <3>2. CASE u = t
            <4>1. st = h
                BY <1>a, <2>2, <3>1, <3>2 DEF Raise, Settle
            <4> QED
                BY <1>a, <4>1 DEF Said, Settle
        <3>3. CASE u # t
            <4>1. st # h /\ h.do # "create" /\ st.target = u /\ after[u] = alerts[u]
                BY <1>a, <3>1, <3>3 DEF Raise, Settle
            <4>2. h # Create(st.target)
                BY <4>1 DEF Create
            <4> QED
                BY <1>5, <4>1, <4>2 DEF Said
        <3> QED
            BY <3>2, <3>3
    <2> QED
        BY <1>1, <1>4, <2>1, <2>3 DEF Complete
<1>b. CASE h = Raise(t) /\ alerts[t] = 0
    <2> DEFINE b == <<Create(t)>> \o rest
    <2>1. OpenAfter(alerts, agenda) = alerts
        <3>1. OpenAfter(alerts, agenda) = [alerts EXCEPT ![t] = alerts[t]]
            <4>1. h.do = "raise" /\ h.target = t /\ count(t) = alerts[t]
                BY <1>b DEF Raise
            <4> HIDE DEF count
            <4> QED
                BY <1>7, <4>1
        <3> QED
            BY <3>1
    <2>2. AgendaAfter(alerts, agenda) = b
        <3>1. [Raise(t) EXCEPT !.do = "create"] = Create(t)
            BY DEF Raise, Create
        <3>2. AgendaAfter(alerts, agenda) = <<[h EXCEPT !.do = "create"]>> \o rest
            BY <1>8, <1>b DEF Raise
        <3> QED
            BY <1>b, <3>1, <3>2
    <2>3. Create(t) \in Statement(Targets) /\ Raise(t) \in W
        BY <1>b, <1>6 DEF Create, Statement, Raise
    <2>4. /\ b \in Seq(Statement(Targets)) /\ b # <<>> /\ Head(b) = Create(t) /\ Tail(b) = rest
          /\ Range(b) = {Create(t)} \cup Range(rest)
        BY <1>3, <2>3
    <2> HIDE DEF b
    <2>5. Sound(b, W, alerts)
        BY <1>b, <1>2, <2>3, <2>4 DEF Sound
    <2>6. Complete(b, W, alerts)
        <3>1. h.do = "raise" /\ h.target = t
            BY <1>b DEF Raise
        <3>2. \A st \in W : h # Create(st.target)
            BY <3>1 DEF Create
        <3> QED
            BY <1>5, <2>4, <3>1, <3>2 DEF Complete
    <2> QED
        BY <2>1, <2>2, <2>4, <2>5, <2>6
<1>c. CASE h = Raise(t) /\ alerts[t] # 0
    <2>1. AgendaAfter(alerts, agenda) = rest /\ OpenAfter(alerts, agenda) = alerts
        <3>1. OpenAfter(alerts, agenda) = [alerts EXCEPT ![t] = alerts[t]]
            <4>1. h.do = "raise" /\ h.target = t /\ count(t) = alerts[t]
                BY <1>c DEF Raise
            <4> HIDE DEF count
            <4> QED
                BY <1>7, <4>1
        <3>2. AgendaAfter(alerts, agenda) = rest
            BY <1>8, <1>c DEF Raise
        <3> QED
            BY <3>1, <3>2
    <2>2. h.do = "raise" /\ h.target = t /\ alerts[t] = 1
        BY <1>c DEF Raise
    <2>3. Said(h, alerts) /\ \A st \in W : h # Create(st.target)
        BY <2>2 DEF Said, Create
    <2> QED
        BY <1>1, <1>4, <1>5, <2>1, <2>3 DEF Complete
<1>d. CASE h = Create(t) /\ alerts[t] = 0 /\ Raise(t) \in W
    <2> DEFINE after == [alerts EXCEPT ![t] = 1]
    <2>1. OpenAfter(alerts, agenda) = after /\ AgendaAfter(alerts, agenda) = rest
        <3>1. h.do = "create" /\ h.target = t /\ count(t) = 1
            BY <1>d DEF Create
        <3> HIDE DEF count
        <3> QED
            BY <1>7, <1>8, <3>1
    <2>2. ASSUME NEW st \in W PROVE Said(st, after) \/ st \in Range(rest)
        <3>1. PICK u \in Targets : st = Raise(u) \/ st = Settle(u)
            OBVIOUS
        <3>2. CASE u = t
            <4>1. st = Raise(t)
                BY <1>d, <3>1, <3>2 DEF Raise, Settle
            <4> QED
                BY <4>1 DEF Said, Raise
        <3>3. CASE u # t
            <4>1. st # h /\ st.target = u /\ after[u] = alerts[u]
                BY <1>d, <3>1, <3>3 DEF Raise, Settle, Create
            <4>2. h # Create(st.target)
                BY <1>d, <3>3, <4>1 DEF Create
            <4> QED
                BY <1>5, <4>1, <4>2 DEF Said
        <3> QED
            BY <3>2, <3>3
    <2>3. after \in [Targets -> {0, 1}]
        OBVIOUS
    <2> QED
        BY <1>1, <1>4, <2>1, <2>2, <2>3 DEF Complete
<1> QED
    BY <1>6, <1>a, <1>b, <1>c, <1>d
LEMMA OneWish ==
    ASSUME NEW j, NEW rows
    PROVE  /\ \A st \in Wanted(j, rows) : j.listed \subseteq Schedules =>
                \E t \in Targets : st = Raise(t) \/ st = Settle(t)
           /\ \A x, y \in Wanted(j, rows) : x.target = y.target => x = y
<1> DEFINE D == {d \in Documents : j.seen.expiry[d] # None}
<1> DEFINE told(d) == Judged(d, j.seen, j.day)
<1> DEFINE judged(s) == JudgedSchedule(s, rows[s], j.seen.km, j.day)
<1>1. ASSUME NEW d \in Documents
      PROVE  told(d).target = <<d, "VEHICLE">> /\ \E t \in Targets : told(d) = Raise(t) \/ told(d) = Settle(t)
    <2>1. OfDocument(d) \in Targets
        BY DEF Targets
    <2> QED
        BY <2>1 DEF Judged, Raise, Settle, OfDocument
<1>2. ASSUME NEW s, NEW st \in judged(s)
      PROVE  /\ st.target \in {<<s, "MAINTENANCE_DUE">>, <<s, "MAINTENANCE_OVERDUE">>}
             /\ s \in Schedules => \E t \in Targets : st = Raise(t) \/ st = Settle(t)
    <2>1. s \in Schedules => Late(s) \in Targets /\ Due(s) \in Targets
        BY DEF Targets
    <2>2. st \in {Raise(Late(s)), Raise(Due(s)), Settle(Late(s)), Settle(Due(s))}
        BY DEF JudgedSchedule
    <2>3. st.target \in {Late(s), Due(s)}
        BY <2>2 DEF Raise, Settle
    <2>4. s \in Schedules => \E t \in Targets : st = Raise(t) \/ st = Settle(t)
        BY <2>1, <2>2
    <2> QED
        BY <2>3, <2>4 DEF Late, Due
<1>3. ASSUME NEW s, NEW x \in judged(s), NEW y \in judged(s), x.target = y.target PROVE x = y
    <2>1. Late(s) # Due(s)
        BY DEF Late, Due
    <2>2. CASE judged(s) = {Raise(Late(s))} \/ judged(s) = {Raise(Due(s))}
        BY <2>2
    <2>3. CASE judged(s) = {Settle(Late(s)), Settle(Due(s))}
        BY <1>3, <2>1, <2>3 DEF Settle
    <2> QED
        BY <2>2, <2>3 DEF JudgedSchedule
<1>4. \A st \in Wanted(j, rows) : (\E d \in D : st = told(d)) \/ \E s \in j.listed : st \in judged(s)
    BY DEF Wanted
<1> HIDE DEF told, judged
<1>5. \A st \in Wanted(j, rows) : j.listed \subseteq Schedules =>
            \E t \in Targets : st = Raise(t) \/ st = Settle(t)
    BY <1>1, <1>2, <1>4
<1>6. ASSUME NEW x \in Wanted(j, rows), NEW y \in Wanted(j, rows), x.target = y.target PROVE x = y
    <2>1. CASE \E d \in D : x = told(d)
        <3>1. PICK d \in D : x = told(d)
            BY <2>1
        <3>2. x.target = <<d, "VEHICLE">>
            BY <1>1, <3>1
        <3>3. ASSUME NEW s \in j.listed, y \in judged(s) PROVE FALSE
            <4>1. y.target \in {<<s, "MAINTENANCE_DUE">>, <<s, "MAINTENANCE_OVERDUE">>}
                BY <1>2, <3>3
            <4>2. x.target = y.target
                BY <1>6
            <4> QED
                BY <3>2, <4>1, <4>2
        <3>4. PICK e \in D : y = told(e)
            BY <1>4, <3>3
        <3>5. d = e
            <4>1. y.target = <<e, "VEHICLE">>
                BY <1>1, <3>4
            <4>2. x.target = y.target
                BY <1>6
            <4> QED
                BY <3>2, <4>1, <4>2
        <3> QED
            BY <3>1, <3>4, <3>5
    <2>2. CASE \E s \in j.listed : x \in judged(s)
        <3>1. PICK s \in j.listed : x \in judged(s)
            BY <2>2
        <3>2. x.target \in {<<s, "MAINTENANCE_DUE">>, <<s, "MAINTENANCE_OVERDUE">>}
            BY <1>2, <3>1
        <3>3. ASSUME NEW d \in D, y = told(d) PROVE FALSE
            BY <1>1, <1>6, <3>2, <3>3
        <3>4. PICK r \in j.listed : y \in judged(r)
            BY <1>4, <3>3
        <3>5. s = r
            BY <1>2, <1>6, <3>2, <3>4
        <3> QED
            BY <1>3, <1>6, <3>1, <3>4, <3>5
    <2> QED
        BY <1>4, <2>1, <2>2
<1> QED
    BY <1>5, <1>6
-----------------------------------------------------------------------------
\* The steps of the fleet

\* A resync reads of a schedule only what nobody changes.
LEMMA RowsKept ==
    ASSUME NEW j, NEW rows, NEW rows2, NEW alerts, SyncOK(j, rows, alerts),
           \A s \in j.listed : /\ rows2[s].status # "ABSENT"
                               /\ rows2[s].due = rows[s].due /\ rows2[s].km = rows[s].km
    PROVE  SyncOK(j, rows2, alerts)
<1>1. ASSUME NEW s \in j.listed
      PROVE  JudgedSchedule(s, rows2[s], j.seen.km, j.day) = JudgedSchedule(s, rows[s], j.seen.km, j.day)
    BY DEF JudgedSchedule, IsLate, IsSoon
<1>2. Wanted(j, rows2) = Wanted(j, rows)
    BY <1>1 DEF Wanted
<1> QED
    BY <1>2 DEF SyncOK

AtEase(j) == j.step \notin {"documents", "schedules"} /\ j.agenda = <<>> /\ j.listed = {}

LEMMA EaseOK ==
    ASSUME NEW j, NEW rows, NEW alerts, AtEase(j)
    PROVE  SyncOK(j, rows, alerts)
    BY DEF AtEase, SyncOK

\* Who is at ease does not care for the alerts.
LEMMA EaseKept ==
    ASSUME NEW j, NEW rows, NEW alerts, SyncOK(j, rows, alerts), j.step \notin {"documents", "schedules"}
    PROVE  AtEase(j)
    BY DEF AtEase, SyncOK

\* Once a schedule is there, its date and its reading stay.
LEMMA SchedulesKept ==
    ASSUME FleetTypeOK, NEW q \in Mechanics, MaintenanceStep(q), NEW s \in Schedules,
           schedule[s].status # "ABSENT"
    PROVE  /\ schedule'[s].status # "ABSENT"
           /\ schedule'[s].due = schedule[s].due /\ schedule'[s].km = schedule[s].km
<1>0. schedule[s] \in ScheduleRow /\ s \in DOMAIN schedule
    BY DEF FleetTypeOK
<1>1. CASE (\E type \in Types, km \in Readings : CreateRecord(q, type, km)) \/ CreateSchedule(q)
    BY <1>1 DEF CreateRecord, CreateSchedule, Arrive
<1>2. CASE CommitRecord(q)
    <2>1. schedule'[s] = IF schedule[s].status = "SCHEDULED" /\ schedule[s].type = job[q].type
                         THEN [schedule[s] EXCEPT !.status = "COMPLETED"] ELSE schedule[s]
        BY <1>2 DEF CommitRecord
    <2> QED
        BY <1>0, <2>1 DEF ScheduleRow
<1>3. CASE \E r \in Schedules, type \in Types, due \in Dates \cup {None},
              km \in 0..(MaxKm - 1) \cup {None}, critical \in BOOLEAN :
                InsertSchedule(q, r, type, due, km, critical)
    <2>1. PICK r \in Schedules, type \in Types, due \in Dates \cup {None},
              km \in 0..(MaxKm - 1) \cup {None}, critical \in BOOLEAN :
                InsertSchedule(q, r, type, due, km, critical)
        BY <1>3
    <2>2. schedule'[s] = schedule[s]
        BY <2>1, <1>0 DEF InsertSchedule
    <2> QED
        BY <2>2
<1>4. CASE \E r \in Schedules : CancelSchedule(q, r)
    <2>1. PICK r \in Schedules : CancelSchedule(q, r)
        BY <1>4
    <2>2. schedule' = [schedule EXCEPT ![r].status = "CANCELLED"]
        BY <2>1 DEF CancelSchedule
    <2>3. schedule'[s] = schedule[s] \/ schedule'[s] = [schedule[s] EXCEPT !.status = "CANCELLED"]
        BY <1>0, <2>2
    <2> QED
        BY <1>0, <2>3 DEF ScheduleRow
<1> QED
    BY <1>1, <1>2, <1>3, <1>4 DEF MaintenanceStep

\* The steps of a request that is not going through an agenda.
Errand(q) ==
    MaintenanceStep(q) \/ VehicleStep(q) \/ ContractStep(q) \/ ResyncVehicle(q) \/ AnswerSync(q) \/ Break(q)

\* What such a step leaves: no agenda, the alerts as they were, and a reading
\* that was read just now.
LEMMA ErrandDone ==
    ASSUME FleetTypeOK, NEW q \in Mechanics, Errand(q)
    PROVE  /\ AtEase(job[q])'
           /\ open' = open
           /\ \A p \in Mechanics : p # q => job'[p] = job[p]
           /\ job'[q].step = "record" => job'[q].seen = vehicle /\ vehicle' = vehicle
           /\ \/ vehicle' = vehicle
              \/ job[q].step \in {"record", "patch", "return"} /\ job'[q].step # "record"
           /\ schedule' = schedule \/ MaintenanceStep(q)
<1> USE DEF AtEase
<1>0. DOMAIN job = Mechanics
    BY DEF FleetTypeOK
<1>1. CASE \E type \in Types, km \in Readings : CreateRecord(q, type, km)
    BY <1>0, <1>1 DEF CreateRecord, Arrive, Rest, MaintenanceStep
<1>2. CASE CommitRecord(q)
    BY <1>0, <1>2 DEF CommitRecord, Proceed, Rest, MaintenanceStep
<1>3. CASE CreateSchedule(q)
    BY <1>0, <1>3 DEF CreateSchedule, Arrive, Rest
<1>4. CASE \E s \in Schedules, type \in Types, due \in Dates \cup {None},
              km \in 0..(MaxKm - 1) \cup {None}, critical \in BOOLEAN :
                InsertSchedule(q, s, type, due, km, critical)
    BY <1>0, <1>4 DEF InsertSchedule, Proceed, Rest, MaintenanceStep
<1>5. CASE \E s \in Schedules : CancelSchedule(q, s)
    BY <1>0, <1>5 DEF CancelSchedule, Rest, MaintenanceStep
<1>6. CASE UpdateVehicle(q)
    BY <1>0, <1>6 DEF UpdateVehicle, Arrive, Rest
<1>7. CASE \E km \in Readings, papers \in [Documents -> Dates \cup {None}] : WriteVehicle(q, km, papers)
    BY <1>0, <1>7 DEF WriteVehicle, Proceed, Rest
<1>8. CASE ResyncVehicle(q)
    BY <1>0, <1>8 DEF ResyncVehicle, Arrive, Rest
<1>9. CASE AnswerSync(q) \/ Break(q)
    BY <1>0, <1>9 DEF AnswerSync, Break, Rest
<1>10. CASE \E km \in Readings : CompleteContract(q, km)
    BY <1>0, <1>10 DEF CompleteContract, Rest
<1>11. CASE CommitReturn(q)
    BY <1>0, <1>11 DEF CommitReturn, Proceed, Rest
<1> QED
    BY <1>1, <1>2, <1>3, <1>4, <1>5, <1>6, <1>7, <1>8, <1>9, <1>10, <1>11
       DEF Errand, MaintenanceStep, VehicleStep, ContractStep
LEMMA RulesHold ==
    ASSUME FleetRule
    PROVE  OneSync' /\ OneWriter'
<1>1. OneSync'
    BY DEF FleetRule, OneSync, Syncing
<1>2. OneWriter'
    BY DEF FleetRule, OneWriter
<1> QED
    BY <1>1, <1>2

LEMMA ErrandKeeps ==
    ASSUME FleetInv, FleetRule, NEW q \in Mechanics, Errand(q)
    PROVE  FleetInv'
<1>1. FleetTypeOK'
    BY MaintenanceTyped, VehicleTyped DEF FleetInv, Errand
<1>2. /\ AtEase(job[q])'
      /\ open' = open
      /\ \A p \in Mechanics : p # q => job'[p] = job[p]
      /\ job'[q].step = "record" => job'[q].seen = vehicle /\ vehicle' = vehicle
      /\ \/ vehicle' = vehicle
         \/ job[q].step \in {"record", "patch", "return"} /\ job'[q].step # "record"
      /\ schedule' = schedule \/ MaintenanceStep(q)
    BY ErrandDone DEF FleetInv
<1>3. OneSync' /\ OneWriter'
    BY RulesHold
<1>4. FreshReading'
    <2> SUFFICES ASSUME NEW p \in Mechanics, job'[p].step = "record" PROVE job'[p].seen.km = vehicle'.km
        BY DEF FreshReading
    <2>1. CASE p = q
        BY <1>2, <2>1
    <2>2. CASE p # q
        <3>1. job[p].step = "record" /\ job'[p] = job[p] /\ job[p].seen.km = vehicle.km
            BY <1>2, <2>2 DEF FleetInv, FreshReading
        <3>2. job[q].step \notin {"record", "patch", "return"}
            BY <2>2, <3>1 DEF FleetInv, OneWriter
        <3> QED
            BY <1>2, <3>1, <3>2
    <2> QED
        BY <2>1, <2>2
<1>5. ASSUME NEW p \in Mechanics PROVE SyncOK(job[p], schedule, open)'
    <2>1. CASE p = q
        <3>1. SyncOK(job'[q], schedule', open')
            BY <1>2, EaseOK
        <3> QED
            BY <2>1, <3>1
    <2>2. CASE p # q
        <3>1. SyncOK(job[p], schedule, open)
            BY DEF FleetInv
        <3>2. job[p].listed \subseteq Schedules
            BY DEF FleetInv, FleetTypeOK, Job
        <3>3. \A s \in job[p].listed : schedule[s].status # "ABSENT"
            BY <3>1 DEF SyncOK
        <3>4. \A s \in job[p].listed :
                /\ schedule'[s].status # "ABSENT"
                /\ schedule'[s].due = schedule[s].due /\ schedule'[s].km = schedule[s].km
            <4>1. CASE schedule' = schedule
                BY <3>3, <4>1
            <4>2. CASE MaintenanceStep(q)
                BY <3>2, <3>3, <4>2, SchedulesKept DEF FleetInv
            <4> QED
                BY <1>2, <4>1, <4>2
        <3>5. SyncOK(job[p], schedule', open)
            BY <3>1, <3>4, RowsKept
        <3>6. job'[p] = job[p] /\ open' = open
            BY <1>2, <2>2
        <3> QED
            BY <3>5, <3>6
    <2> QED
        BY <2>1, <2>2
<1> QED
    BY <1>1, <1>2, <1>3, <1>4, <1>5 DEF FleetInv

LEMMA ReadVehicleKeeps ==
    ASSUME FleetInv, FleetRule, NEW q \in Mechanics, ReadVehicle(q)
    PROVE  FleetInv'
<1>0. FleetTypeOK /\ q \in DOMAIN job /\ vehicle \in VehicleRow /\ today \in Days
    BY DEF FleetInv, FleetTypeOK
<1>1. PICK order \in SetToSeqs({d \in Documents : vehicle.expiry[d] # None}) :
        job' = [job EXCEPT ![q] =
            IF vehicle.alive
            THEN [Rest EXCEPT !.step = "documents", !.seen = vehicle, !.day = today,
                    !.agenda = FlattenSeq([i \in DOMAIN order |-> DocumentPlan(order[i], today)])]
            ELSE Rest]
    BY DEF ReadVehicle
<1> DEFINE agenda == FlattenSeq([i \in DOMAIN order |-> DocumentPlan(order[i], today)])
<1> DEFINE j == IF vehicle.alive
                THEN [Rest EXCEPT !.step = "documents", !.seen = vehicle, !.day = today, !.agenda = agenda]
                ELSE Rest
<1>2. /\ agenda \in Seq(Statement(Targets))
      /\ \A x : x \in Range(agenda) <=>
            \E d \in Documents : vehicle.expiry[d] # None /\ x \in Range(DocumentPlan(d, today))
    BY <1>0, DocumentsAgenda
<1>3. \A d \in Documents : Range(DocumentPlan(d, today)) = {Judged(d, vehicle, today)}
    BY DEF DocumentPlan, Judged, Range
<1> HIDE DEF agenda
<1>4. j \in Job
    BY <1>0, <1>2, RestType DEF Job
<1>5. job' = [job EXCEPT ![q] = j] /\ UNCHANGED <<today, vehicle, schedule, open>>
    BY <1>1 DEF ReadVehicle, agenda
<1>6. SyncOK(j, schedule, open)
    <2>1. CASE ~vehicle.alive
        BY <2>1, EaseOK DEF AtEase, Rest
    <2>2. CASE vehicle.alive
        <3>1. /\ j.step = "documents" /\ j.listed = {} /\ j.agenda = agenda
              /\ j.seen = vehicle /\ j.day = today
            BY <2>2 DEF Rest
        <3> HIDE DEF j
        <3>2. Wanted(j, schedule) =
                {Judged(d, vehicle, today) : d \in {x \in Documents : vehicle.expiry[x] # None}}
            BY <3>1 DEF Wanted
        <3>3. \A x : x \in Range(agenda) <=> x \in Wanted(j, schedule)
            BY <1>2, <1>3, <3>2
        <3>4. Sound(agenda, Wanted(j, schedule), open)
            <4>1. ASSUME agenda # <<>> PROVE Range(agenda) = {Head(agenda)} \cup Range(Tail(agenda))
                BY <1>2, <4>1, Agendas
            <4> QED
                BY <3>3, <4>1 DEF Sound
        <3>5. Complete(agenda, Wanted(j, schedule), open)
            BY <3>3 DEF Complete
        <3> QED
            BY <3>1, <3>4, <3>5 DEF SyncOK
    <2> QED
        BY <2>1, <2>2
<1>7. j.step # "record"
    BY DEF Rest
<1> HIDE DEF j
<1>8. FleetTypeOK'
    BY <1>4, <1>5 DEF FleetInv, FleetTypeOK
<1>9. OneSync' /\ OneWriter'
    BY RulesHold
<1>10. \A p \in Mechanics : job'[p] = IF p = q THEN j ELSE job[p]
    BY <1>0, <1>5 DEF FleetTypeOK
<1>11. FreshReading'
    BY <1>5, <1>7, <1>10 DEF FleetInv, FreshReading
<1>12. \A p \in Mechanics : SyncOK(job[p], schedule, open)'
    BY <1>5, <1>6, <1>10 DEF FleetInv
<1> QED
    BY <1>5, <1>8, <1>9, <1>11, <1>12 DEF FleetInv
LEMMA ReadSchedulesKeeps ==
    ASSUME FleetInv, FleetRule, NEW q \in Mechanics, ReadSchedules(q)
    PROVE  FleetInv'
<1>0. FleetTypeOK /\ q \in DOMAIN job /\ job[q] \in Job /\ SyncOK(job[q], schedule, open)
    BY DEF FleetInv, FleetTypeOK
<1> DEFINE planned == {s \in Schedules : schedule[s].status = "SCHEDULED"}
<1>1. PICK order \in SetToSeqs(planned) :
        job' = [job EXCEPT ![q] = [job[q] EXCEPT !.step = "schedules", !.listed = planned,
                !.agenda = FlattenSeq([i \in DOMAIN order |->
                    SchedulePlan(order[i], job[q].seen.km, job[q].day)])]]
    BY DEF ReadSchedules
<1> DEFINE agenda == FlattenSeq([i \in DOMAIN order |-> SchedulePlan(order[i], job[q].seen.km, job[q].day)])
<1> DEFINE j == [job[q] EXCEPT !.step = "schedules", !.listed = planned, !.agenda = agenda]
<1>2. /\ agenda \in Seq(Statement(Targets))
      /\ \A x : x \in Range(agenda) <=>
            \E s \in planned : x \in Range(SchedulePlan(s, job[q].seen.km, job[q].day))
    BY SchedulesAgenda
<1>3. \A s \in Schedules : Range(SchedulePlan(s, job[q].seen.km, job[q].day)) =
                           JudgedSchedule(s, schedule[s], job[q].seen.km, job[q].day)
    BY DEF SchedulePlan, JudgedSchedule, Range, OverdueBy, Soon, IsLate, IsSoon
<1> HIDE DEF agenda
<1>4. /\ j.step = "schedules" /\ j.listed = planned /\ j.agenda = agenda
      /\ j.seen = job[q].seen /\ j.day = job[q].day
    BY <1>0 DEF Job
<1>5. j \in Job
    BY <1>0, <1>2 DEF Job
<1>6. job' = [job EXCEPT ![q] = j] /\ UNCHANGED <<today, vehicle, schedule, open>>
    BY <1>1 DEF ReadSchedules, agenda
<1> HIDE DEF j
<1>7. SyncOK(j, schedule, open)
    <2> DEFINE old == Wanted(job[q], schedule)
    <2> DEFINE new == Wanted(j, schedule)
    <2>1. job[q].step = "documents" /\ job[q].agenda = <<>> /\ job[q].listed = {}
        BY <1>0 DEF ReadSchedules, SyncOK
    <2>2. \A st \in old : Said(st, open)
        <3>1. Complete(<<>>, old, open)
            BY <1>0, <2>1 DEF SyncOK
        <3>2. Range(<<>>) = {}
            BY DEF Range
        <3> HIDE DEF old
        <3> QED
            BY <3>1, <3>2 DEF Complete
    <2>3. \A x : x \in new <=> x \in old \/ x \in Range(agenda)
        <3>1. new = old \cup UNION {JudgedSchedule(s, schedule[s], job[q].seen.km, job[q].day) : s \in planned}
            BY <1>4, <2>1 DEF Wanted
        <3> HIDE DEF new, old
        <3>2. \A x : x \in Range(agenda) <=>
                \E s \in planned : x \in JudgedSchedule(s, schedule[s], job[q].seen.km, job[q].day)
            BY <1>2, <1>3
        <3> QED
            BY <3>1, <3>2
    <2> HIDE DEF new, old
    <2>4. Sound(agenda, new, open)
        <3>1. ASSUME agenda # <<>> PROVE Range(agenda) = {Head(agenda)} \cup Range(Tail(agenda))
            BY <1>2, <3>1, Agendas
        <3> QED
            BY <2>3, <3>1 DEF Sound
    <2>5. Complete(agenda, new, open)
        BY <2>2, <2>3 DEF Complete
    <2> QED
        BY <1>4, <2>4, <2>5 DEF SyncOK, new
<1>8. FleetTypeOK'
    BY <1>0, <1>5, <1>6 DEF FleetTypeOK
<1>9. OneSync' /\ OneWriter'
    BY RulesHold
<1>10. \A p \in Mechanics : job'[p] = IF p = q THEN j ELSE job[p]
    BY <1>0, <1>6 DEF FleetTypeOK
<1>11. FreshReading'
    BY <1>4, <1>6, <1>10 DEF FleetInv, FreshReading
<1>12. \A p \in Mechanics : SyncOK(job[p], schedule, open)'
    BY <1>6, <1>7, <1>10 DEF FleetInv
<1> QED
    BY <1>6, <1>8, <1>9, <1>11, <1>12 DEF FleetInv

LEMMA PerformSyncKeeps ==
    ASSUME FleetInv, FleetRule, NEW q \in Mechanics, PerformSync(q)
    PROVE  FleetInv'
<1>0. FleetTypeOK /\ q \in DOMAIN job /\ job[q] \in Job /\ SyncOK(job[q], schedule, open)
    BY DEF FleetInv, FleetTypeOK
<1> DEFINE agenda == job[q].agenda
<1> DEFINE W == Wanted(job[q], schedule)
<1> DEFINE left == AgendaAfter(open, agenda)
<1> DEFINE j == [job[q] EXCEPT !.agenda = left]
<1>1. agenda # <<>> /\ agenda \in Seq(Statement(Targets)) /\ open \in [Targets -> {0, 1}]
    BY <1>0 DEF PerformSync, FleetInv, Job
<1>2. Syncing(q) /\ Sound(agenda, W, open) /\ Complete(agenda, W, open)
    BY <1>0, <1>1 DEF SyncOK, Syncing
<1>3. \A st \in W : \E t \in Targets : st = Raise(t) \/ st = Settle(t)
    BY <1>0, OneWish DEF Job
<1>4. \A x, y \in W : x.target = y.target => x = y
    BY OneWish
<1>5. /\ open' = OpenAfter(open, agenda) /\ job' = [job EXCEPT ![q].agenda = left]
      /\ UNCHANGED <<today, vehicle, schedule>>
    BY DEF PerformSync
<1>6. /\ open' \in [Targets -> {0, 1}] /\ left \in Seq(Statement(Targets))
      /\ Sound(left, W, open') /\ Complete(left, W, open')
    <2> HIDE DEF agenda, W
    <2> QED
        BY <1>1, <1>2, <1>3, <1>4, <1>5, SyncStep
<1> HIDE DEF left
<1>7. j \in Job /\ j.step = job[q].step /\ j.listed = job[q].listed /\ j.agenda = left
      /\ j.seen = job[q].seen /\ j.day = job[q].day
    BY <1>0, <1>6 DEF Job
<1>8. \A p \in Mechanics : job'[p] = IF p = q THEN j ELSE job[p]
    BY <1>0, <1>5 DEF FleetTypeOK
<1> HIDE DEF j
<1>9. SyncOK(j, schedule, open')
    <2>1. Wanted(j, schedule) = W
        BY <1>7 DEF Wanted
    <2> QED
        BY <1>0, <1>2, <1>6, <1>7, <2>1 DEF SyncOK, Syncing
<1>10. FleetTypeOK'
    <2>1. open' \in [Targets -> Nat]
        BY <1>6
    <2>2. job' \in [Mechanics -> Job]
        <3>1. job' = [p \in Mechanics |-> job'[p]]
            BY <1>0, <1>5 DEF FleetTypeOK
        <3>2. \A p \in Mechanics : job'[p] \in Job
            BY <1>0, <1>7, <1>8 DEF FleetTypeOK
        <3> QED
            BY <3>1, <3>2
    <2> QED
        BY <1>0, <1>5, <2>1, <2>2 DEF FleetTypeOK
<1>11. OneSync' /\ OneWriter'
    BY RulesHold
<1>12. FreshReading'
    BY <1>5, <1>7, <1>8 DEF FleetInv, FreshReading
<1>13. ASSUME NEW p \in Mechanics PROVE SyncOK(job[p], schedule, open)'
    <2>1. CASE p = q
        BY <1>5, <1>8, <1>9, <2>1
    <2>2. CASE p # q
        <3>1. job'[p] = job[p] /\ SyncOK(job[p], schedule, open) /\ ~Syncing(p)
            BY <1>2, <1>8, <2>2 DEF FleetInv, OneSync
        <3>2. AtEase(job[p])
            BY <3>1, EaseKept DEF Syncing
        <3>3. SyncOK(job[p], schedule', open')
            BY <3>2, EaseOK
        <3> QED
            BY <3>1, <3>3
    <2> QED
        BY <2>1, <2>2
<1> QED
    BY <1>6, <1>10, <1>11, <1>12, <1>13 DEF FleetInv
LEMMA FleetStart == OfficeInit => FleetInv
<1> SUFFICES ASSUME FleetInit PROVE FleetInv
    BY DEF OfficeInit
<1>1. 0 \in Readings /\ 0 \in Days
    BY FleetAssumption DEF Readings, Days
<1>2. vehicle \in VehicleRow /\ today \in Days
    BY <1>1 DEF FleetInit, VehicleRow
<1>3. schedule \in [Schedules -> ScheduleRow]
    <2>1. (CHOOSE t \in Types : TRUE) \in Types
        BY FleetAssumption
    <2> DEFINE type == CHOOSE t \in Types : TRUE
    <2> HIDE DEF type
    <2>2. [status |-> "ABSENT", type |-> type, due |-> None, km |-> None, critical |-> FALSE] \in ScheduleRow
        BY <2>1 DEF ScheduleRow, type
    <2> QED
        BY <2>2 DEF FleetInit, type
<1>4. open \in [Targets -> {0, 1}] /\ open \in [Targets -> Nat]
    BY DEF FleetInit
<1>5. job = [q \in Mechanics |-> Rest]
    BY DEF FleetInit
<1>6. job \in [Mechanics -> Job] /\ \A q \in Mechanics : AtEase(job[q]) /\ job[q].step = "rest"
    BY <1>5, RestType DEF AtEase, Rest
<1>7. \A q \in Mechanics : SyncOK(job[q], schedule, open)
    BY <1>6, EaseOK
<1> QED
    BY <1>2, <1>3, <1>4, <1>6, <1>7 DEF FleetInv, FleetTypeOK, OneSync, OneWriter, FreshReading, Syncing

\* What does not touch a request: the days, the deletions, and the user who
\* resolves an alert.
LEMMA AsideKeeps ==
    ASSUME FleetInv, FleetRule,
           NextDay \/ DeleteVehicle \/ RestoreVehicle \/ \E t \in Targets : ResolveByHand(t)
    PROVE  FleetInv'
<1>1. job' = job /\ schedule' = schedule
    BY DEF NextDay, DeleteVehicle, RestoreVehicle, ResolveByHand
<1>2. today' \in Days
    BY FleetAssumption DEF NextDay, DeleteVehicle, RestoreVehicle, ResolveByHand, FleetInv, FleetTypeOK, Days
<1>3. vehicle' \in VehicleRow /\ vehicle'.km = vehicle.km
    BY DEF NextDay, DeleteVehicle, RestoreVehicle, ResolveByHand, FleetInv, FleetTypeOK, VehicleRow
<1>4. open' \in [Targets -> {0, 1}]
    <2>1. CASE \E t \in Targets : ResolveByHand(t)
        <3>1. PICK t \in Targets : ResolveByHand(t)
            BY <2>1
        <3>2. open[t] = 1 /\ open' = [open EXCEPT ![t] = open[t] - 1]
            BY <3>1 DEF ResolveByHand, FleetInv
        <3> QED
            BY <3>2 DEF FleetInv
    <2>2. CASE ~\E t \in Targets : ResolveByHand(t)
        BY <2>2 DEF NextDay, DeleteVehicle, RestoreVehicle, FleetInv
    <2> QED
        BY <2>1, <2>2
<1>5. FleetTypeOK'
    BY <1>1, <1>2, <1>3, <1>4 DEF FleetInv, FleetTypeOK
<1>6. OneSync' /\ OneWriter' /\ FreshReading'
    BY <1>1, <1>3, RulesHold DEF FleetInv, FreshReading
<1>7. ASSUME NEW q \in Mechanics PROVE SyncOK(job[q], schedule, open)'
    <2>0. SyncOK(job[q], schedule, open)
        BY DEF FleetInv
    <2>1. CASE Syncing(q)
        <3>1. open' = open
            BY <1>1, <2>1 DEF FleetRule
        <3> QED
            BY <1>1, <2>0, <3>1
    <2>2. CASE ~Syncing(q)
        <3>1. SyncOK(job[q], schedule', open')
            BY <2>0, <2>2, EaseKept, EaseOK DEF Syncing
        <3> QED
            BY <1>1, <3>1
    <2> QED
        BY <2>1, <2>2
<1> QED
    BY <1>4, <1>5, <1>6, <1>7 DEF FleetInv

LEMMA FleetKept == FleetInv /\ [OfficeNext]_vars => FleetInv'
<1> SUFFICES ASSUME FleetInv, [OfficeNext]_vars PROVE FleetInv'
    OBVIOUS
<1>1. CASE FleetScene
    <2>1. FleetNext /\ FleetRule
        BY <1>1 DEF FleetScene
    <2>2. CASE NextDay \/ DeleteVehicle \/ RestoreVehicle \/ \E t \in Targets : ResolveByHand(t)
        BY <2>1, <2>2, AsideKeeps
    <2>3. CASE \E q \in Mechanics : Errand(q) \/ ReadVehicle(q) \/ ReadSchedules(q) \/ PerformSync(q)
        BY <2>1, <2>3, ErrandKeeps, ReadVehicleKeeps, ReadSchedulesKeeps, PerformSyncKeeps
    <2> QED
        BY <2>1, <2>2, <2>3 DEF FleetNext, Errand
<1>2. CASE UNCHANGED fleetVars
    <2>1. today' = today /\ vehicle' = vehicle /\ schedule' = schedule /\ open' = open /\ job' = job
        BY <1>2 DEF fleetVars
    <2> QED
        BY <2>1 DEF FleetInv, FleetTypeOK, OneSync, OneWriter, FreshReading, Syncing
<1> QED
    BY <1>1, <1>2 DEF OfficeNext, CreditScene, RegistryScene, NumbersScene, BackupScene, vars

LEMMA FleetHolds == OfficeSpec => []FleetInv
<1>1. OfficeInit => FleetInv
    BY FleetStart
<1>2. FleetInv /\ [OfficeNext]_vars => FleetInv'
    BY FleetKept
<1> QED
    BY <1>1, <1>2, PTL DEF OfficeSpec

\* When nothing is left to do, what was wanted is said.
LEMMA NothingLeft ==
    ASSUME FleetInv, NEW q \in Mechanics, job[q].step = "schedules", job[q].agenda = <<>>
    PROVE  \A st \in Wanted(job[q], schedule) : Said(st, open)
<1> DEFINE W == Wanted(job[q], schedule)
<1>1. Complete(<<>>, W, open)
    BY DEF FleetInv, SyncOK
<1>2. Range(<<>>) = {}
    BY DEF Range
<1> HIDE DEF W
<1>3. \A st \in W : Said(st, open)
    BY <1>1, <1>2 DEF Complete
<1> QED
    BY <1>3 DEF W

\* When a resync has gone through its list, the alerts say of the documents and
\* of the listed schedules what the rows it read say (syncVehicleAlerts).
THEOREM AlertsTrue == OfficeSpec => []AlertsTellTruth
<1>1. FleetInv => AlertsTellTruth
    <2> SUFFICES ASSUME FleetInv, NEW q \in Mechanics, job[q].step = "schedules", job[q].agenda = <<>>
                 PROVE  /\ \A d \in Documents : job[q].seen.expiry[d] # None =>
                            open[OfDocument(d)] = IF job[q].seen.expiry[d] - Window <= job[q].day THEN 1 ELSE 0
                        /\ \A s \in job[q].listed : ScheduleTold(s, job[q].seen.km, job[q].day)
        BY DEF AlertsTellTruth
    <2>1. \A st \in Wanted(job[q], schedule) : Said(st, open)
        BY NothingLeft
    <2>2. ASSUME NEW d \in Documents, job[q].seen.expiry[d] # None
          PROVE  open[OfDocument(d)] = IF job[q].seen.expiry[d] - Window <= job[q].day THEN 1 ELSE 0
        <3>1. Judged(d, job[q].seen, job[q].day) \in Wanted(job[q], schedule)
            BY <2>2 DEF Wanted
        <3>2. Said(Judged(d, job[q].seen, job[q].day), open)
            BY <2>1, <3>1
        <3> QED
            BY <3>2 DEF Said, Judged, Raise, Settle
    <2>3. ASSUME NEW s \in job[q].listed PROVE ScheduleTold(s, job[q].seen.km, job[q].day)
        <3> DEFINE told == JudgedSchedule(s, schedule[s], job[q].seen.km, job[q].day)
        <3>1. \A st \in told : st \in Wanted(job[q], schedule)
            BY DEF Wanted
        <3>2. \A st \in told : Said(st, open)
            BY <2>1, <3>1
        <3> QED
            BY <3>2 DEF Said, JudgedSchedule, Raise, Settle, ScheduleTold, OverdueBy, Soon, IsLate, IsSoon
    <2> QED
        BY <2>2, <2>3
<1> QED
    BY <1>1, FleetHolds, PTL

\* Whatever makes a booking answer 409 has an open alert, if nothing has changed
\* since the resync read it (getBookingBlockers, syncVehicleAlerts).
THEOREM RefusalsExplained == OfficeSpec => []RefusalIsExplained
<1>1. FleetInv => RefusalIsExplained
    <2> SUFFICES ASSUME FleetInv, NEW q \in Mechanics, job[q].step = "schedules", job[q].agenda = <<>>,
                        job[q].seen = vehicle, job[q].day = today, NEW t \in Blockers
                 PROVE  open[t] > 0 \/ \E s \in Schedules \ job[q].listed : t = Late(s)
        BY DEF RefusalIsExplained
    <2>1. \A st \in Wanted(job[q], schedule) : Said(st, open)
        BY NothingLeft
    <2>2. ASSUME NEW d \in Documents, vehicle.expiry[d] # None, vehicle.expiry[d] <= today, t = OfDocument(d)
          PROVE  open[t] > 0
        <3>1. Judged(d, vehicle, today) \in Wanted(job[q], schedule)
            BY <2>2 DEF Wanted
        <3>2. Said(Judged(d, vehicle, today), open)
            BY <2>1, <3>1
        <3>3. vehicle.expiry[d] \in Int /\ today \in Int
            <4>1. vehicle.expiry \in [Documents -> Dates \cup {None}] /\ today \in Days
                BY DEF FleetInv, FleetTypeOK, VehicleRow
            <4>2. vehicle.expiry[d] \in Dates /\ Dates \subseteq Int
                BY <2>2, <4>1, FleetAssumption
            <4>3. today \in Int
                BY <4>1, FleetAssumption DEF Days
            <4> QED
                BY <4>2, <4>3
        <3>4. vehicle.expiry[d] - Window <= today
            BY <2>2, <3>3, FleetAssumption
        <3>5. open[t] = 1
            BY <2>2, <3>2, <3>4 DEF Said, Judged, Raise
        <3> QED
            BY <3>5
    <2>3. ASSUME NEW s \in CriticalOverdue, t = Late(s), s \in job[q].listed PROVE open[t] > 0
        <3>1. JudgedSchedule(s, schedule[s], vehicle.km, today) = {Raise(Late(s))}
            BY DEF CriticalOverdue, JudgedSchedule, IsLate
        <3>2. Raise(Late(s)) \in Wanted(job[q], schedule)
            BY <2>3, <3>1 DEF Wanted
        <3>3. Said(Raise(Late(s)), open)
            BY <2>1, <3>2
        <3>4. open[t] = 1
            BY <2>3, <3>3 DEF Said, Raise
        <3> QED
            BY <3>4
    <2> QED
        BY <2>2, <2>3 DEF Blockers, CriticalOverdue
<1> QED
    BY <1>1, FleetHolds, PTL

\* The odometer goes back only by a PATCH of the vehicle or the completion of a
\* contract, with one writer at a time (MaintenanceService, VehiclesService,
\* ContractsService).
THEOREM OdometerHolds == OfficeSpec => OdometerKept
<1> DEFINE Kept == vehicle'.km < vehicle.km => \E q \in Mechanics : job[q].step \in {"patch", "return"}
<1>1. FleetInv /\ [OfficeNext]_vars => Kept
    <2> SUFFICES ASSUME FleetInv, [OfficeNext]_vars PROVE Kept
        OBVIOUS
    <2>0. vehicle \in VehicleRow /\ vehicle.km \in Int
        BY FleetAssumption DEF FleetInv, FleetTypeOK, VehicleRow, Readings
    <2>1. CASE vehicle'.km = vehicle.km
        BY <2>0, <2>1
    <2>2. CASE \E q \in Mechanics : CommitRecord(q)
        <3>1. PICK q \in Mechanics : CommitRecord(q)
            BY <2>2
        <3>2. job[q] \in Job /\ job[q].km \in Int /\ job[q].seen.km = vehicle.km
            BY <3>1, FleetAssumption
               DEF CommitRecord, Proceed, FleetInv, FreshReading, FleetTypeOK, Job, Readings
        <3>3. vehicle'.km = IF job[q].km > vehicle.km THEN job[q].km ELSE vehicle.km
            BY <2>0, <3>1, <3>2 DEF CommitRecord, VehicleRow
        <3> QED
            BY <2>0, <3>2, <3>3
    <2>3. CASE \E q \in Mechanics, km \in Readings, papers \in [Documents -> Dates \cup {None}] :
                    WriteVehicle(q, km, papers)
        BY <2>3 DEF WriteVehicle, Proceed
    <2>4. CASE \E q \in Mechanics : CommitReturn(q)
        BY <2>4 DEF CommitReturn, Proceed
    <2>5. CASE FleetScene
        <3>1. FleetNext
            BY <2>5 DEF FleetScene
        <3>2. CASE NextDay \/ DeleteVehicle \/ RestoreVehicle \/ \E t \in Targets : ResolveByHand(t)
            <4>1. vehicle'.km = vehicle.km
                BY <2>0, <3>2 DEF NextDay, DeleteVehicle, RestoreVehicle, ResolveByHand, VehicleRow
            <4> QED
                BY <2>1, <4>1
        <3>3. CASE \E q \in Mechanics : MaintenanceStep(q) \/ VehicleStep(q)
            <4>1. \/ UNCHANGED vehicle
                  \/ \E q \in Mechanics : CommitRecord(q)
                  \/ \E q \in Mechanics, km \in Readings, papers \in [Documents -> Dates \cup {None}] :
                        WriteVehicle(q, km, papers)
                BY <3>3 DEF MaintenanceStep, VehicleStep, CreateRecord, CreateSchedule, Arrive,
                            InsertSchedule, CancelSchedule, UpdateVehicle
            <4> QED
                BY <2>1, <2>2, <2>3, <4>1
        <3>4. CASE \E q \in Mechanics : \/ ResyncVehicle(q) \/ ReadVehicle(q) \/ ReadSchedules(q)
                                        \/ PerformSync(q) \/ AnswerSync(q) \/ Break(q)
            <4>1. vehicle' = vehicle
                BY <3>4 DEF ResyncVehicle, Arrive, ReadVehicle, ReadSchedules, PerformSync, AnswerSync, Break
            <4> QED
                BY <2>1, <4>1
        <3>5. CASE \E q \in Mechanics : ContractStep(q)
            <4>1. UNCHANGED vehicle \/ \E q \in Mechanics : CommitReturn(q)
                BY <3>5 DEF ContractStep, CompleteContract
            <4> QED
                BY <2>1, <2>4, <4>1
        <3> QED
            BY <3>1, <3>2, <3>3, <3>4, <3>5 DEF FleetNext
    <2>6. CASE UNCHANGED fleetVars
        <3>1. vehicle' = vehicle
            BY <2>6 DEF fleetVars
        <3> QED
            BY <2>1, <3>1
    <2> QED
        BY <2>5, <2>6 DEF OfficeNext, CreditScene, RegistryScene, NumbersScene, BackupScene, vars
<1> QED
    BY <1>1, FleetHolds, PTL DEF OfficeSpec, OdometerKept
-----------------------------------------------------------------------------
\* The digits of a number

DigitsFrom(n, f) ==
    f = [m \in 0..n |-> IF m < Base THEN <<m>> ELSE Append(f[m \div Base], m % Base)]

LEMMA Quotients ==
    ASSUME NEW m \in Nat
    PROVE  /\ m \div Base \in Nat /\ m % Base \in 0..(Base - 1) /\ m = Base * (m \div Base) + (m % Base)
           /\ m >= Base => m \div Base >= 1 /\ m \div Base < m
           /\ \A n \in Nat : m < n => /\ m \div Base <= n \div Base
                                      /\ m \div Base = n \div Base => m % Base < n % Base
<1>1. Base \in Nat \ {0, 1}
    BY OfficeAssumption
<1>2. m \div Base \in Nat /\ m % Base \in 0..(Base - 1) /\ m = Base * (m \div Base) + (m % Base)
    BY <1>1
<1>3. m >= Base => m \div Base >= 1 /\ m \div Base < m
    BY <1>1
<1>4. ASSUME NEW n \in Nat, m < n PROVE m \div Base <= n \div Base
    BY <1>1, <1>4
<1>5. ASSUME NEW n \in Nat, m < n, m \div Base = n \div Base PROVE m % Base < n % Base
    BY <1>1, <1>5
<1> QED
    BY <1>2, <1>3, <1>4, <1>5

LEMMA DigitsExist ==
    ASSUME NEW n \in Nat
    PROVE  \E f : DigitsFrom(n, f)
<1> DEFINE T == {k \in Nat : \E f : DigitsFrom(k, f)}
<1>1. 0 \in T
    <2>1. DigitsFrom(0, [m \in 0..0 |-> <<m>>])
        BY OfficeAssumption DEF DigitsFrom
    <2> QED
        BY <2>1
<1>2. ASSUME NEW k \in Nat, k \in T PROVE k + 1 \in T
    <2>1. PICK f : DigitsFrom(k, f)
        BY <1>2
    <2> DEFINE last == IF k + 1 < Base THEN <<k + 1>> ELSE Append(f[(k + 1) \div Base], (k + 1) % Base)
    <2> DEFINE g == [m \in 0..(k + 1) |-> IF m = k + 1 THEN last ELSE f[m]]
    <2> HIDE DEF last
    <2>2. g[k + 1] = last /\ \A m \in 0..k : g[m] = f[m]
        OBVIOUS
    <2>3. ASSUME NEW m \in 0..(k + 1)
          PROVE  g[m] = IF m < Base THEN <<m>> ELSE Append(g[m \div Base], m % Base)
        <3>0. m \in Nat /\ (m >= Base => m \div Base \in 0..k)
            BY Quotients
        <3>1. CASE m = k + 1
            <4>1. CASE m < Base
                BY <2>2, <3>1, <4>1 DEF last
            <4>2. CASE ~(m < Base)
                <5>1. g[m \div Base] = f[m \div Base]
                    BY <2>2, <3>0, <4>2, OfficeAssumption
                <5> HIDE DEF g
                <5> QED
                    BY <2>2, <3>1, <4>2, <5>1 DEF last
            <4> QED
                BY <4>1, <4>2
        <3>2. CASE m # k + 1
            <4>1. m \in 0..k
                BY <3>2
            <4>2. f[m] = IF m < Base THEN <<m>> ELSE Append(f[m \div Base], m % Base)
                BY <2>1, <4>1 DEF DigitsFrom
            <4>3. g[m] = f[m] /\ (~(m < Base) => g[m \div Base] = f[m \div Base])
                BY <2>2, <3>0, <4>1, OfficeAssumption
            <4> HIDE DEF g
            <4> QED
                BY <4>2, <4>3
        <3> QED
            BY <3>1, <3>2
    <2>4. g = [m \in 0..(k + 1) |-> IF m < Base THEN <<m>> ELSE Append(g[m \div Base], m % Base)]
        BY <2>3
    <2> HIDE DEF g
    <2>5. DigitsFrom(k + 1, g)
        BY <2>4 DEF DigitsFrom
    <2> QED
        BY <2>5
<1>3. T = Nat
    <2> HIDE DEF T
    <2>1. T \in SUBSET Nat
        BY DEF T
    <2> QED
        BY <1>1, <1>2, <2>1, Induction
<1> QED
    BY <1>3

LEMMA DigitsAgree ==
    ASSUME NEW n \in Nat, NEW f, DigitsFrom(n, f), NEW k \in 0..n, NEW g, DigitsFrom(k, g),
           NEW m \in 0..k
    PROVE  f[m] = g[m]
<1> DEFINE T == {i \in 0..k : f[i] # g[i]}
<1>1. SUFFICES ASSUME T # {} PROVE FALSE
    OBVIOUS
<1>2. T \in SUBSET Nat
    OBVIOUS
<1>3. PICK i \in T : \A j \in T : i <= j
    <2> HIDE DEF T
    <2> QED
        BY <1>1, <1>2, LeastNumber
<1>4. i \in Nat /\ i \in 0..k /\ i \in 0..n
    OBVIOUS
<1>5. f[i] = IF i < Base THEN <<i>> ELSE Append(f[i \div Base], i % Base)
    BY <1>4 DEF DigitsFrom
<1>6. g[i] = IF i < Base THEN <<i>> ELSE Append(g[i \div Base], i % Base)
    BY <1>4 DEF DigitsFrom
<1>7. CASE i < Base
    BY <1>5, <1>6, <1>7
<1>8. CASE ~(i < Base)
    <2>1. i \div Base \in 0..k /\ i \div Base < i
        <3>1. Base \in Nat /\ i >= Base
            BY <1>4, <1>8, OfficeAssumption
        <3>2. i \div Base \in Nat /\ i \div Base < i
            BY <1>4, <3>1, Quotients
        <3> QED
            BY <1>4, <3>2
    <2>2. f[i \div Base] = g[i \div Base]
        BY <1>3, <2>1
    <2> QED
        BY <1>5, <1>6, <1>8, <2>2
<1> QED
    BY <1>7, <1>8

\* The last digit is the remainder, and the others are those of the quotient.
LEMMA DigitsUnfold ==
    ASSUME NEW n \in Nat
    PROVE  R!Digits(n) = IF n < Base THEN <<n>> ELSE Append(R!Digits(n \div Base), n % Base)
<1> DEFINE F(m) == CHOOSE f : DigitsFrom(m, f)
<1>1. ASSUME NEW m \in Nat PROVE DigitsFrom(m, F(m)) /\ R!Digits(m) = F(m)[m]
    <2>1. DigitsFrom(m, F(m))
        BY DigitsExist
    <2>2. R!Digits(m) = F(m)[m]
        BY DEF R!Digits, DigitsFrom
    <2> QED
        BY <2>1, <2>2
<1> HIDE DEF F
<1>2. F(n)[n] = IF n < Base THEN <<n>> ELSE Append(F(n)[n \div Base], n % Base)
    <2>1. DigitsFrom(n, F(n)) /\ n \in 0..n
        BY <1>1
    <2> QED
        BY <2>1 DEF DigitsFrom
<1>3. CASE n < Base
    BY <1>1, <1>2, <1>3
<1>4. CASE ~(n < Base)
    <2>1. n \div Base \in Nat /\ n \div Base \in 0..n
        BY <1>4, Quotients, OfficeAssumption
    <2>2. F(n)[n \div Base] = F(n \div Base)[n \div Base]
        BY <1>1, <2>1, DigitsAgree
    <2> QED
        BY <1>1, <1>2, <1>4, <2>1, <2>2
<1> QED
    BY <1>3, <1>4
\* No number but zero begins with a zero.
LEMMA DigitsTyped ==
    ASSUME NEW n \in Nat
    PROVE  /\ R!Digits(n) \in Seq(Nat) /\ Len(R!Digits(n)) \in Nat \ {0}
           /\ n > 0 => R!Digits(n)[1] > 0
<1> DEFINE Fine(k) == /\ R!Digits(k) \in Seq(Nat) /\ Len(R!Digits(k)) \in Nat \ {0}
                      /\ k > 0 => R!Digits(k)[1] > 0
<1> DEFINE T == {k \in Nat : ~Fine(k)}
<1>1. SUFFICES ASSUME T # {} PROVE FALSE
    OBVIOUS
<1>2. PICK k \in T : \A j \in T : k <= j
    <2>1. T \in SUBSET Nat
        OBVIOUS
    <2> HIDE DEF T
    <2> QED
        BY <1>1, <2>1, LeastNumber
<1>3. k \in Nat /\ ~Fine(k) /\ \A j \in Nat : j < k => Fine(j)
    BY <1>2
<1> HIDE DEF T
<1>4. CASE k < Base
    <2>1. R!Digits(k) = <<k>>
        BY <1>3, <1>4, DigitsUnfold
    <2> QED
        BY <1>3, <2>1
<1>5. CASE ~(k < Base)
    <2> DEFINE q == k \div Base
    <2> DEFINE r == k % Base
    <2>1. Base \in Nat /\ k >= Base
        BY <1>3, <1>5, OfficeAssumption
    <2>2. q \in Nat /\ q < k /\ q > 0 /\ r \in Nat
        BY <1>3, <2>1, Quotients
    <2>3. R!Digits(k) = Append(R!Digits(q), r)
        BY <1>3, <1>5, DigitsUnfold
    <2> HIDE DEF q, r
    <2>4. R!Digits(q) \in Seq(Nat) /\ Len(R!Digits(q)) \in Nat \ {0} /\ R!Digits(q)[1] > 0
        BY <1>3, <2>2
    <2> DEFINE s == R!Digits(q)
    <2>5. s \in Seq(Nat) /\ Len(s) \in Nat \ {0} /\ s[1] > 0
        BY <2>4
    <2> HIDE DEF s
    <2>6. Append(s, r) \in Seq(Nat) /\ Len(Append(s, r)) = Len(s) + 1 /\ Append(s, r)[1] = s[1]
        BY <2>2, <2>5
    <2>7. R!Digits(k) = Append(s, r)
        BY <2>3 DEF s
    <2> QED
        BY <1>3, <2>5, <2>6, <2>7
<1> QED
    BY <1>4, <1>5

\* Where two sequences part: t goes on there with more than s, or s has ended.
Parts(s, t, i) ==
    /\ \A j \in 1..(i - 1) : s[j] = t[j]
    /\ i <= Len(t)
    /\ i = Len(s) + 1 \/ (i <= Len(s) /\ s[i] < t[i])

\* The greater number has more digits, or as many and greater ones.
LEMMA DigitsOrder ==
    ASSUME NEW n \in Nat, NEW m \in 0..(n - 1)
    PROVE  \/ Len(R!Digits(m)) < Len(R!Digits(n))
           \/ /\ Len(R!Digits(m)) = Len(R!Digits(n))
              /\ \E i \in 1..Len(R!Digits(m)) : Parts(R!Digits(m), R!Digits(n), i)
<1> DEFINE Below(a, b) ==
        \/ Len(R!Digits(a)) < Len(R!Digits(b))
        \/ /\ Len(R!Digits(a)) = Len(R!Digits(b))
           /\ \E i \in 1..Len(R!Digits(a)) : Parts(R!Digits(a), R!Digits(b), i)
<1> DEFINE T == {b \in Nat : \E a \in 0..(b - 1) : ~Below(a, b)}
<1>1. SUFFICES ASSUME T # {} PROVE FALSE
    OBVIOUS
<1>2. PICK b \in T : \A j \in T : b <= j
    <2>1. T \in SUBSET Nat
        OBVIOUS
    <2> HIDE DEF T
    <2> QED
        BY <1>1, <2>1, LeastNumber
<1>3. b \in Nat /\ \A j \in Nat : j < b => \A a \in 0..(j - 1) : Below(a, j)
    BY <1>2
<1>4. PICK a \in 0..(b - 1) : ~Below(a, b)
    BY <1>2
<1> HIDE DEF T
<1>5. Base \in Nat \ {0, 1} /\ a \in Nat /\ b \in Nat /\ a < b
    BY <1>3, OfficeAssumption
<1> DEFINE qa == a \div Base
<1> DEFINE ra == a % Base
<1> DEFINE qb == b \div Base
<1> DEFINE rb == b % Base
<1>6. qa \in Nat /\ qb \in Nat /\ ra \in Nat /\ rb \in Nat /\ qa <= qb /\ (qa = qb => ra < rb)
    <2>1. qa \in Nat /\ ra \in Nat
        <3>1. a \in Nat
            BY <1>5
        <3>2. a \div Base \in Nat /\ a % Base \in 0..(Base - 1)
            BY <3>1, Quotients
        <3> QED
            BY <3>2
    <2>2. qb \in Nat /\ rb \in Nat
        <3>1. b \in Nat
            BY <1>5
        <3>2. b \div Base \in Nat /\ b % Base \in 0..(Base - 1)
            BY <3>1, Quotients
        <3> QED
            BY <3>2
    <2>3. qa <= qb /\ (qa = qb => ra < rb)
        BY <1>3, <1>5, Quotients
    <2> QED
        BY <2>1, <2>2, <2>3
<1>7. b >= Base => qb < b
    BY <1>3, Quotients
<1>8. R!Digits(a) = (IF a < Base THEN <<a>> ELSE Append(R!Digits(qa), ra))
    BY <1>5, DigitsUnfold
<1>9. R!Digits(b) = (IF b < Base THEN <<b>> ELSE Append(R!Digits(qb), rb))
    BY <1>3, DigitsUnfold
<1> HIDE DEF qa, qb, ra, rb
<1>10. CASE b < Base
    <2>1. R!Digits(a) = <<a>> /\ R!Digits(b) = <<b>>
        BY <1>3, <1>5, <1>8, <1>9, <1>10
    <2>2. Parts(<<a>>, <<b>>, 1)
        BY <1>5 DEF Parts
    <2> QED
        BY <1>4, <2>1, <2>2
<1>11. CASE a < Base /\ ~(b < Base)
    <2>1. R!Digits(qb) \in Seq(Nat) /\ Len(R!Digits(qb)) \in Nat \ {0}
        BY <1>6, DigitsTyped
    <2>2. Len(R!Digits(a)) = 1 /\ Len(R!Digits(b)) = Len(R!Digits(qb)) + 1
        BY <1>8, <1>9, <1>11, <2>1
    <2> QED
        BY <1>4, <2>1, <2>2
<1>12. CASE ~(a < Base)
    <2> DEFINE s == R!Digits(qa)
    <2> DEFINE t == R!Digits(qb)
    <2>1. ~(b < Base) /\ qb < b
        BY <1>3, <1>5, <1>7, <1>12
    <2>2. R!Digits(a) = Append(s, ra) /\ R!Digits(b) = Append(t, rb)
        BY <1>8, <1>9, <1>12, <2>1
    <2>3. s \in Seq(Nat) /\ t \in Seq(Nat) /\ Len(s) \in Nat /\ Len(t) \in Nat
        BY <1>6, DigitsTyped
    <2>4. CASE qa = qb
        <3>1. s = t
            BY <2>4
        <3> HIDE DEF s, t
        <3>2. Parts(Append(s, ra), Append(t, rb), Len(s) + 1)
            <4>1. ra < rb
                BY <1>6, <2>4
            <4> QED
                BY <1>6, <2>3, <3>1, <4>1 DEF Parts
        <3>3. Len(Append(s, ra)) = Len(s) + 1 /\ Len(Append(t, rb)) = Len(s) + 1
            BY <1>6, <2>3, <3>1
        <3> QED
            BY <1>4, <2>2, <2>3, <3>2, <3>3
    <2>5. CASE qa # qb
        <3>1. Below(qa, qb)
            <4>1. qa \in 0..(qb - 1)
                BY <1>6, <2>5
            <4> HIDE DEF Below
            <4> QED
                BY <1>3, <1>6, <2>1, <4>1
        <3>2. Len(s) < Len(t) \/ (Len(s) = Len(t) /\ \E i \in 1..Len(s) : Parts(s, t, i))
            BY <3>1
        <3> HIDE DEF s, t
        <3>3. Len(Append(s, ra)) = Len(s) + 1 /\ Len(Append(t, rb)) = Len(t) + 1
            BY <1>6, <2>3
        <3>4. CASE Len(s) < Len(t)
            BY <1>4, <2>2, <2>3, <3>3, <3>4
        <3>5. CASE Len(s) = Len(t) /\ \E i \in 1..Len(s) : Parts(s, t, i)
            <4>1. PICK i \in 1..Len(s) : Parts(s, t, i)
                BY <3>5
            <4>2. \A j \in 1..Len(s) : Append(s, ra)[j] = s[j] /\ Append(t, rb)[j] = t[j]
                BY <1>6, <2>3, <3>5
            <4>3. i \in Nat /\ i <= Len(s) /\ s[i] < t[i] /\ \A j \in 1..(i - 1) : s[j] = t[j]
                BY <2>3, <4>1 DEF Parts
            <4>4. Parts(Append(s, ra), Append(t, rb), i)
                <5>1. \A j \in 1..(i - 1) : j \in 1..Len(s)
                    BY <2>3, <4>3
                <5>2. \A j \in 1..(i - 1) : Append(s, ra)[j] = Append(t, rb)[j]
                    BY <4>2, <4>3, <5>1
                <5>3. Append(s, ra)[i] < Append(t, rb)[i]
                    BY <4>1, <4>2, <4>3
                <5> QED
                    BY <2>3, <3>3, <3>5, <4>3, <5>2, <5>3 DEF Parts
            <4>5. i \in 1..Len(Append(s, ra))
                BY <2>3, <3>3
            <4> QED
                BY <1>4, <2>2, <3>3, <3>5, <4>4, <4>5
        <3> QED
            BY <3>2, <3>4, <3>5
    <2> QED
        BY <2>4, <2>5
<1> QED
    BY <1>10, <1>11, <1>12
-----------------------------------------------------------------------------
\* The order of texts

LEMMA PartsMade ==
    ASSUME NEW s, NEW t, NEW i, \A j \in 1..(i - 1) : s[j] = t[j], i <= Len(t),
           i = Len(s) + 1 \/ (i <= Len(s) /\ s[i] < t[i])
    PROVE  Parts(s, t, i)
    BY DEF Parts

LEMMA TextParts ==
    ASSUME NEW s \in Seq(Nat), NEW t \in Seq(Nat)
    PROVE  R!TextBefore(s, t) <=> \E i \in Nat \ {0} : Parts(s, t, i)
<1>0. /\ Len(s) \in Nat /\ DOMAIN s = 1..Len(s)
      /\ Len(t) \in Nat /\ DOMAIN t = 1..Len(t)
    OBVIOUS
<1>1. ASSUME R!IsStrictPrefix(s, t) PROVE Parts(s, t, Len(s) + 1)
    <2>1. Len(s) <= Len(t) /\ SubSeq(s, 1, Len(s)) = SubSeq(t, 1, Len(s)) /\ s # t
        BY <1>1 DEF R!IsStrictPrefix, R!IsPrefix
    <2>2. ASSUME NEW j \in 1..Len(s) PROVE s[j] = t[j]
        <3>1. SubSeq(s, 1, Len(s))[j] = s[j] /\ SubSeq(t, 1, Len(s))[j] = t[j]
            BY <1>0, <2>1
        <3> QED
            BY <2>1, <3>1
    <2>3. Len(s) # Len(t)
        <3>1. SUFFICES ASSUME Len(s) = Len(t) PROVE s = t
            BY <2>1
        <3> QED
            BY <2>2, <3>1, SeqEqual
    <2>4. Len(s) + 1 <= Len(t) /\ (Len(s) + 1) - 1 = Len(s)
        <3> DEFINE m == Len(s)
        <3> DEFINE n == Len(t)
        <3>1. m <= n
            BY <2>1
        <3>2. m \in Nat /\ n \in Nat /\ m # n
            BY <1>0, <2>3
        <3> HIDE DEF m, n
        <3>3. m + 1 <= n /\ (m + 1) - 1 = m
            BY <3>1, <3>2
        <3> QED
            BY <3>3 DEF m, n
    <2> DEFINE i == Len(s) + 1
    <2>5. i <= Len(t) /\ \A j \in 1..(i - 1) : s[j] = t[j]
        BY <2>2, <2>4
    <2>6. i = Len(s) + 1
        OBVIOUS
    <2> HIDE DEF i
    <2>7. Parts(s, t, i)
        BY <2>5, <2>6, PartsMade
    <2> QED
        BY <2>6, <2>7
<1>2. ASSUME NEW i \in Nat \ {0}, Parts(s, t, i), i = Len(s) + 1 PROVE R!IsStrictPrefix(s, t)
    <2>1. Len(s) < Len(t) /\ \A j \in 1..Len(s) : s[j] = t[j]
        BY <1>0, <1>2 DEF Parts
    <2>2. SubSeq(s, 1, Len(s)) = SubSeq(t, 1, Len(s))
        BY <1>0, <2>1
    <2> QED
        BY <1>0, <2>1, <2>2 DEF R!IsStrictPrefix, R!IsPrefix
<1>3. ASSUME NEW i \in (DOMAIN s) \cap (DOMAIN t), s[i] < t[i], \A j \in 1..(i - 1) : s[j] = t[j]
      PROVE  Parts(s, t, i) /\ i \in Nat \ {0}
    BY <1>0, <1>3 DEF Parts
<1>4. ASSUME NEW i \in Nat \ {0}, Parts(s, t, i), i # Len(s) + 1
      PROVE  /\ i \in (DOMAIN s) \cap (DOMAIN t)
             /\ s[i] < t[i] /\ \A j \in 1..(i - 1) : s[j] = t[j]
    BY <1>0, <1>4 DEF Parts
<1>5. ASSUME R!TextBefore(s, t) PROVE \E i \in Nat \ {0} : Parts(s, t, i)
    <2>1. CASE R!IsStrictPrefix(s, t)
        <3>1. Len(s) + 1 \in Nat \ {0}
            BY <1>0
        <3> QED
            BY <1>1, <2>1, <3>1
    <2>2. CASE \E i \in (DOMAIN s) \cap (DOMAIN t) : s[i] < t[i] /\ \A j \in 1..(i - 1) : s[j] = t[j]
        <3>1. PICK i \in (DOMAIN s) \cap (DOMAIN t) : s[i] < t[i] /\ \A j \in 1..(i - 1) : s[j] = t[j]
            BY <2>2
        <3> QED
            BY <1>3, <3>1
    <2> QED
        BY <1>5, <2>1, <2>2 DEF R!TextBefore
<1>6. ASSUME NEW i \in Nat \ {0}, Parts(s, t, i) PROVE R!TextBefore(s, t)
    <2>1. CASE i = Len(s) + 1
        <3>1. R!IsStrictPrefix(s, t)
            BY <1>2, <1>6, <2>1
        <3> QED
            BY <3>1 DEF R!TextBefore
    <2>2. CASE i # Len(s) + 1
        <3>1. /\ i \in (DOMAIN s) \cap (DOMAIN t)
              /\ s[i] < t[i] /\ \A j \in 1..(i - 1) : s[j] = t[j]
            BY <1>4, <1>6, <2>2
        <3> QED
            BY <3>1 DEF R!TextBefore
    <2> QED
        BY <2>1, <2>2
<1> QED
    BY <1>5, <1>6

LEMMA PartsOnce ==
    ASSUME NEW s \in Seq(Nat), NEW t \in Seq(Nat), NEW i \in Nat \ {0}, Parts(s, t, i),
           NEW j \in Nat \ {0}, Parts(t, s, j)
    PROVE  FALSE
<1>0. /\ Len(s) \in Nat /\ Len(t) \in Nat
      /\ \A k \in 1..Len(s) : s[k] \in Nat
      /\ \A k \in 1..Len(t) : t[k] \in Nat
    OBVIOUS
<1>1. CASE i < j
    <2>1. i \in 1..(j - 1) /\ j <= Len(s)
        BY <1>1 DEF Parts
    <2>2. i <= Len(s) /\ s[i] < t[i] /\ s[i] = t[i]
        BY <1>0, <2>1 DEF Parts
    <2> QED
        BY <1>0, <2>2
<1>2. CASE j < i
    <2>1. j \in 1..(i - 1) /\ i <= Len(t)
        BY <1>2 DEF Parts
    <2>2. j <= Len(t) /\ t[j] < s[j] /\ s[j] = t[j]
        BY <1>0, <2>1 DEF Parts
    <2> QED
        BY <1>0, <2>2
<1>3. CASE i = j
    <2>1. i <= Len(s) /\ i <= Len(t) /\ s[i] < t[i] /\ t[i] < s[i]
        BY <1>0, <1>3 DEF Parts
    <2> QED
        BY <1>0, <2>1
<1> QED
    BY <1>1, <1>2, <1>3

LEMMA PartsChain ==
    ASSUME NEW s \in Seq(Nat), NEW t \in Seq(Nat), NEW u \in Seq(Nat),
           NEW i \in Nat \ {0}, Parts(s, t, i), NEW j \in Nat \ {0}, Parts(t, u, j)
    PROVE  \E k \in Nat \ {0} : Parts(s, u, k)
<1>0. /\ Len(s) \in Nat /\ Len(t) \in Nat /\ Len(u) \in Nat
      /\ \A k \in 1..Len(s) : s[k] \in Nat
      /\ \A k \in 1..Len(t) : t[k] \in Nat
      /\ \A k \in 1..Len(u) : u[k] \in Nat
    OBVIOUS
<1>1. i <= Len(t) /\ (i = Len(s) + 1 \/ (i <= Len(s) /\ s[i] < t[i]))
    BY DEF Parts
<1>2. \A k \in 1..(i - 1) : s[k] = t[k]
    BY DEF Parts
<1>3. j <= Len(u) /\ (j = Len(t) + 1 \/ (j <= Len(t) /\ t[j] < u[j]))
    BY DEF Parts
<1>4. \A k \in 1..(j - 1) : t[k] = u[k]
    BY DEF Parts
<1>5. CASE i < j
    <2>1. i \in 1..(j - 1) /\ i <= Len(u) /\ \A k \in 1..(i - 1) : k \in 1..(j - 1)
        BY <1>0, <1>3, <1>5
    <2>2. t[i] = u[i] /\ \A k \in 1..(i - 1) : s[k] = u[k]
        BY <1>2, <1>4, <2>1
    <2>3. Parts(s, u, i)
        BY <1>1, <2>1, <2>2 DEF Parts
    <2> QED
        BY <2>3
<1>6. CASE j < i
    <2>1. j \in 1..(i - 1) /\ j <= Len(s) /\ j <= Len(t) /\ \A k \in 1..(j - 1) : k \in 1..(i - 1)
        BY <1>0, <1>1, <1>6
    <2>2. s[j] = t[j] /\ \A k \in 1..(j - 1) : s[k] = u[k]
        BY <1>2, <1>4, <2>1
    <2>3. t[j] < u[j]
        BY <1>0, <1>3, <2>1
    <2>4. Parts(s, u, j)
        BY <1>3, <2>1, <2>2, <2>3 DEF Parts
    <2> QED
        BY <2>4
<1>7. CASE i = j
    <2>1. \A k \in 1..(i - 1) : s[k] = u[k]
        BY <1>2, <1>4, <1>7
    <2>2. t[i] < u[i] /\ i <= Len(u)
        BY <1>0, <1>1, <1>3, <1>7
    <2>3. ASSUME i <= Len(s), s[i] < t[i] PROVE s[i] < u[i]
        <3>1. i \in 1..Len(s) /\ i \in 1..Len(t) /\ i \in 1..Len(u)
            BY <1>0, <1>1, <2>2, <2>3
        <3>2. s[i] \in Nat /\ t[i] \in Nat /\ u[i] \in Nat
            BY <1>0, <3>1
        <3> QED
            BY <2>2, <2>3, <3>2
    <2>4. i = Len(s) + 1 \/ (i <= Len(s) /\ s[i] < u[i])
        BY <1>1, <2>3
    <2>5. Parts(s, u, i)
        BY <2>1, <2>2, <2>4, PartsMade
    <2> QED
        BY <2>5
<1> QED
    BY <1>5, <1>6, <1>7

LEMMA PartsSome ==
    ASSUME NEW s \in Seq(Nat), NEW t \in Seq(Nat), s # t
    PROVE  \E i \in Nat \ {0} : Parts(s, t, i) \/ Parts(t, s, i)
<1>0. /\ Len(s) \in Nat /\ Len(t) \in Nat
      /\ \A k \in 1..Len(s) : s[k] \in Nat
      /\ \A k \in 1..Len(t) : t[k] \in Nat
    OBVIOUS
<1> DEFINE T == {i \in Nat \ {0} : i > Len(s) \/ i > Len(t) \/ s[i] # t[i]}
<1>1. Len(s) + 1 \in T
    BY <1>0
<1>2. PICK i \in T : \A j \in T : i <= j
    <2>1. T \in SUBSET Nat
        OBVIOUS
    <2> HIDE DEF T
    <2> QED
        BY <1>1, <2>1, LeastNumber
<1>3. i \in Nat \ {0} /\ \A j \in 1..(i - 1) : j <= Len(s) /\ j <= Len(t) /\ s[j] = t[j]
    <2>1. i \in Nat \ {0}
        OBVIOUS
    <2>2. ASSUME NEW j \in 1..(i - 1) PROVE j <= Len(s) /\ j <= Len(t) /\ s[j] = t[j]
        <3>1. j \in Nat \ {0} /\ j < i
            BY <2>1
        <3>2. j \notin T
            BY <1>2, <2>1, <3>1
        <3> QED
            BY <1>0, <3>1, <3>2
    <2> QED
        BY <2>1, <2>2
<1>4. i > Len(s) \/ i > Len(t) \/ s[i] # t[i]
    BY <1>2
<1>5. i <= Len(s) + 1 /\ i <= Len(t) + 1
    BY <1>0, <1>3
<1> HIDE DEF T
<1>6. CASE i > Len(s) /\ i > Len(t)
    <2>1. Len(s) = Len(t)
        BY <1>0, <1>3, <1>5, <1>6
    <2> QED
        BY <1>0, <1>3, <1>5, <1>6, <2>1
<1>7. CASE i > Len(s) /\ ~(i > Len(t))
    <2>1. i = Len(s) + 1 /\ i <= Len(t)
        BY <1>0, <1>3, <1>5, <1>7
    <2>2. Parts(s, t, i)
        BY <1>3, <2>1, PartsMade
    <2> QED
        BY <1>3, <2>2
<1>8. CASE ~(i > Len(s)) /\ i > Len(t)
    <2>1. i = Len(t) + 1 /\ i <= Len(s)
        BY <1>0, <1>3, <1>5, <1>8
    <2>2. \A j \in 1..(i - 1) : t[j] = s[j]
        BY <1>3
    <2>3. Parts(t, s, i)
        BY <2>1, <2>2, PartsMade
    <2> QED
        BY <1>3, <2>3
<1>9. CASE ~(i > Len(s)) /\ ~(i > Len(t))
    <2>1. s[i] # t[i] /\ s[i] \in Nat /\ t[i] \in Nat /\ i <= Len(s) /\ i <= Len(t)
        BY <1>0, <1>3, <1>4, <1>9
    <2>2. s[i] < t[i] \/ t[i] < s[i]
        BY <2>1
    <2> QED
        BY <1>3, <2>1, <2>2 DEF Parts
<1> QED
    BY <1>6, <1>7, <1>8, <1>9
LEMMA PaddedShape ==
    ASSUME NEW n \in Nat
    PROVE  /\ R!Padded(n) \in Seq(Nat)
           /\ Len(R!Digits(n)) > Width => R!Padded(n) = R!Digits(n)
           /\ Len(R!Digits(n)) <= Width =>
                /\ Len(R!Padded(n)) = Width
                /\ \A i \in 1..(Width - Len(R!Digits(n))) : R!Padded(n)[i] = 0
                /\ \A i \in 1..Len(R!Digits(n)) :
                        R!Padded(n)[(Width - Len(R!Digits(n))) + i] = R!Digits(n)[i]
<1> DEFINE D == R!Digits(n)
<1> DEFINE P == R!Padded(n)
<1> DEFINE k == Width - Len(D)
<1> DEFINE zeros == [i \in 1..k |-> 0]
<1>1. D \in Seq(Nat) /\ Len(D) \in Nat \ {0} /\ Width \in Nat
    BY DigitsTyped, OfficeAssumption
<1>2. P = IF Len(D) >= Width THEN D ELSE zeros \o D
    BY DEF R!Padded
<1> HIDE DEF D, P
<1>3. CASE Len(D) >= Width
    <2>1. P = D
        BY <1>2, <1>3
    <2>2. Len(D) <= Width => k = 0
        BY <1>1, <1>3
    <2> HIDE DEF k
    <2>3. Len(D) <= Width => Len(P) = Width
        BY <1>1, <1>3, <2>1
    <2>4. \A i \in 1..Len(D) : 0 + i = i
        BY <1>1
    <2>5. Len(D) <= Width => \A i \in 1..k : P[i] = 0
        BY <2>2
    <2>6. Len(D) <= Width => \A i \in 1..Len(D) : P[k + i] = D[i]
        BY <2>1, <2>2, <2>4
    <2> QED
        BY <1>1, <2>1, <2>3, <2>5, <2>6 DEF D, P, k
<1>4. CASE ~(Len(D) >= Width)
    <2>1. k \in Nat /\ k + Len(D) = Width
        BY <1>1, <1>4
    <2> HIDE DEF k
    <2>2. zeros \in Seq(Nat) /\ Len(zeros) = k /\ \A i \in 1..k : zeros[i] = 0
        <3>1. zeros \in [1..k -> Nat]
            OBVIOUS
        <3> QED
            BY <2>1, <3>1
    <2> HIDE DEF zeros
    <2>3. P = zeros \o D
        BY <1>2, <1>4
    <2>4. /\ zeros \o D \in Seq(Nat) /\ Len(zeros \o D) = Len(zeros) + Len(D)
          /\ \A i \in 1..(Len(zeros) + Len(D)) :
                (zeros \o D)[i] = IF i <= Len(zeros) THEN zeros[i] ELSE D[i - Len(zeros)]
        BY <1>1, <2>2, ConcatProperties
    <2>5. P \in Seq(Nat) /\ Len(P) = Width
        BY <2>1, <2>2, <2>3, <2>4
    <2>6. \A i \in 1..Width : P[i] = IF i <= k THEN zeros[i] ELSE D[i - k]
        BY <2>1, <2>2, <2>3, <2>4
    <2>7. ASSUME NEW i \in 1..k PROVE P[i] = 0
        <3>1. i \in 1..Width /\ i <= k
            BY <1>1, <2>1
        <3> QED
            BY <2>2, <2>6, <3>1
    <2>8. ASSUME NEW i \in 1..Len(D) PROVE P[k + i] = D[i]
        <3>1. k + i \in 1..Width /\ ~(k + i <= k) /\ (k + i) - k = i
            BY <1>1, <2>1
        <3> QED
            BY <2>6, <3>1
    <2>9. ~(Len(D) > Width)
        BY <1>1, <1>4
    <2> QED
        BY <2>5, <2>7, <2>8, <2>9 DEF D, P, k
<1> QED
    BY <1>3, <1>4

\* As long as it has no more digits than are padded, the greater number has the
\* greater text.
LEMMA PaddedOrder ==
    ASSUME NEW n \in Nat, NEW m \in 0..(n - 1), Len(R!Digits(n)) <= Width
    PROVE  \E i \in Nat \ {0} : Parts(R!Padded(m), R!Padded(n), i)
<1> DEFINE s == R!Digits(m)
<1> DEFINE t == R!Digits(n)
<1> DEFINE p == R!Padded(m)
<1> DEFINE q == R!Padded(n)
<1>0. m \in Nat /\ n > 0 /\ Width \in Nat
    BY OfficeAssumption
<1>1. s \in Seq(Nat) /\ t \in Seq(Nat) /\ Len(s) \in Nat \ {0} /\ Len(t) \in Nat \ {0} /\ t[1] > 0
    BY <1>0, DigitsTyped
<1>2. Len(s) < Len(t) \/ (Len(s) = Len(t) /\ \E i \in 1..Len(s) : Parts(s, t, i))
    BY DigitsOrder
<1>3. Len(t) <= Width
    OBVIOUS
<1>4. /\ p \in Seq(Nat)
      /\ Len(s) <= Width =>
            /\ Len(p) = Width
            /\ \A i \in 1..(Width - Len(s)) : p[i] = 0
            /\ \A i \in 1..Len(s) : p[(Width - Len(s)) + i] = s[i]
    BY <1>0, PaddedShape
<1>5. /\ q \in Seq(Nat) /\ Len(q) = Width
      /\ \A i \in 1..(Width - Len(t)) : q[i] = 0
      /\ \A i \in 1..Len(t) : q[(Width - Len(t)) + i] = t[i]
    BY <1>3, PaddedShape
<1> DEFINE a == Len(s)
<1> DEFINE b == Len(t)
<1>6. a \in Nat \ {0} /\ b \in Nat \ {0} /\ a <= b /\ a <= Width /\ b <= Width
    BY <1>0, <1>1, <1>2, <1>3
<1>7. Len(p) = Width /\ Len(q) = Width
    BY <1>4, <1>5, <1>6
<1>8. (\A i \in 1..(Width - a) : p[i] = 0) /\ (\A i \in 1..(Width - b) : q[i] = 0)
    BY <1>4, <1>5, <1>6
<1>9. (\A i \in 1..a : p[(Width - a) + i] = s[i]) /\ (\A i \in 1..b : q[(Width - b) + i] = t[i])
    BY <1>4, <1>5, <1>6
<1>10. a < b \/ (a = b /\ \E i \in 1..a : Parts(s, t, i))
    BY <1>2
<1>11. \A i \in 1..a : i = a + 1 => FALSE
    BY <1>6
<1>12. ASSUME NEW k \in 1..a, Parts(s, t, k)
       PROVE  s[k] < t[k] /\ \A j \in 1..(k - 1) : s[j] = t[j]
    BY <1>11, <1>12 DEF Parts
<1> HIDE DEF s, t, p, q, a, b
<1>13. CASE a < b
    <2> DEFINE i == (Width - b) + 1
    <2>1. i \in Nat \ {0} /\ i <= Width /\ i \in 1..(Width - a) /\ i - 1 = Width - b
        BY <1>0, <1>6, <1>13
    <2>2. p[i] = 0
        BY <1>8, <2>1
    <2>3. q[i] = t[1]
        BY <1>6, <1>9
    <2>4. \A j \in 1..(i - 1) : j \in 1..(Width - a) /\ j \in 1..(Width - b)
        BY <1>0, <1>6, <1>13, <2>1
    <2>5. \A j \in 1..(i - 1) : p[j] = q[j]
        BY <1>8, <2>4
    <2> HIDE DEF i
    <2>6. p[i] < q[i]
        BY <1>1, <2>2, <2>3
    <2>7. Parts(p, q, i)
        BY <1>7, <2>1, <2>5, <2>6, PartsMade
    <2> QED
        BY <2>1, <2>7 DEF p, q
<1>14. CASE a = b /\ \E i \in 1..a : Parts(s, t, i)
    <2>1. PICK k \in 1..a : Parts(s, t, k)
        BY <1>14
    <2>2. s[k] < t[k] /\ \A j \in 1..(k - 1) : s[j] = t[j]
        BY <1>12, <2>1
    <2> DEFINE i == (Width - a) + k
    <2>3. i \in Nat \ {0} /\ i <= Width
        BY <1>0, <1>6
    <2>4. p[i] = s[k] /\ q[i] = t[k]
        BY <1>9, <1>14
    <2>5. ASSUME NEW j \in 1..(i - 1) PROVE p[j] = q[j]
        <3>1. CASE j \in 1..(Width - a)
            BY <1>8, <1>14, <3>1
        <3>2. CASE j \notin 1..(Width - a)
            <4> DEFINE l == j - (Width - a)
            <4>1. l \in 1..(k - 1) /\ l \in 1..a /\ l \in 1..b /\ j = (Width - a) + l /\ j = (Width - b) + l
                BY <1>0, <1>6, <1>14, <3>2
            <4> HIDE DEF l
            <4>2. p[j] = s[l] /\ q[j] = t[l]
                BY <1>9, <4>1
            <4> QED
                BY <2>2, <4>1, <4>2
        <3> QED
            BY <3>1, <3>2
    <2> HIDE DEF i
    <2>6. Parts(p, q, i)
        BY <1>7, <2>2, <2>3, <2>4, <2>5, PartsMade
    <2> QED
        BY <2>3, <2>6 DEF p, q
<1> QED
    BY <1>10, <1>13, <1>14

\* Two numbers have two texts, whatever they are padded to.
LEMMA PaddedDiffer ==
    ASSUME NEW n \in Nat, NEW m \in 0..(n - 1)
    PROVE  R!Padded(m) # R!Padded(n)
<1>0. m \in Nat /\ Width \in Nat
    BY OfficeAssumption
<1>1. /\ R!Padded(m) \in Seq(Nat) /\ R!Padded(n) \in Seq(Nat)
      /\ R!Digits(m) \in Seq(Nat) /\ Len(R!Digits(m)) \in Nat
      /\ R!Digits(n) \in Seq(Nat) /\ Len(R!Digits(n)) \in Nat
    BY <1>0, PaddedShape, DigitsTyped
<1>2. ASSUME NEW s \in Seq(Nat), NEW i \in Nat \ {0}, Parts(s, s, i) PROVE FALSE
    BY <1>2, PartsOnce
<1>3. CASE Len(R!Digits(n)) <= Width
    <2>1. PICK i \in Nat \ {0} : Parts(R!Padded(m), R!Padded(n), i)
        BY <1>3, PaddedOrder
    <2> QED
        BY <1>1, <1>2, <2>1
<1>4. CASE ~(Len(R!Digits(n)) <= Width) /\ Len(R!Digits(m)) <= Width
    <2>1. R!Padded(n) = R!Digits(n) /\ Len(R!Padded(m)) = Width
        BY <1>0, <1>1, <1>4, PaddedShape
    <2> QED
        BY <1>0, <1>1, <1>4, <2>1
<1>5. CASE ~(Len(R!Digits(n)) <= Width) /\ ~(Len(R!Digits(m)) <= Width)
    <2>0. Len(R!Digits(n)) > Width /\ Len(R!Digits(m)) > Width
        BY <1>0, <1>1, <1>5
    <2>1. R!Padded(n) = R!Digits(n) /\ R!Padded(m) = R!Digits(m)
        <3>1. R!Padded(n) = R!Digits(n)
            BY <2>0, PaddedShape
        <3>2. R!Padded(m) = R!Digits(m)
            BY <1>0, <2>0, PaddedShape
        <3> QED
            BY <3>1, <3>2
    <2>2. SUFFICES ASSUME R!Digits(m) = R!Digits(n) PROVE FALSE
        BY <2>1
    <2>3. PICK i \in 1..Len(R!Digits(m)) : Parts(R!Digits(m), R!Digits(n), i)
        <3>1. ~(Len(R!Digits(m)) < Len(R!Digits(n)))
            BY <1>1, <2>2
        <3> QED
            BY <3>1, DigitsOrder
    <2>4. i \in Nat \ {0}
        BY <1>1
    <2> QED
        BY <1>1, <1>2, <2>2, <2>3, <2>4
<1> QED
    BY <1>3, <1>4, <1>5
\* The order in which the database puts two numbers.
Earlier(m, n) == R!TextBefore(R!Padded(m), R!Padded(n))

LEMMA EarlierOnce ==
    ASSUME NEW m \in Nat, NEW n \in Nat, Earlier(m, n), Earlier(n, m)
    PROVE  FALSE
<1>1. R!Padded(m) \in Seq(Nat) /\ R!Padded(n) \in Seq(Nat)
    BY PaddedShape
<1>2. PICK i \in Nat \ {0} : Parts(R!Padded(m), R!Padded(n), i)
    BY <1>1, TextParts DEF Earlier
<1>3. PICK j \in Nat \ {0} : Parts(R!Padded(n), R!Padded(m), j)
    BY <1>1, TextParts DEF Earlier
<1> QED
    BY <1>1, <1>2, <1>3, PartsOnce

LEMMA EarlierChain ==
    ASSUME NEW l \in Nat, NEW m \in Nat, NEW n \in Nat, Earlier(l, m), Earlier(m, n)
    PROVE  Earlier(l, n)
<1>1. R!Padded(l) \in Seq(Nat) /\ R!Padded(m) \in Seq(Nat) /\ R!Padded(n) \in Seq(Nat)
    BY PaddedShape
<1>2. PICK i \in Nat \ {0} : Parts(R!Padded(l), R!Padded(m), i)
    BY <1>1, TextParts DEF Earlier
<1>3. PICK j \in Nat \ {0} : Parts(R!Padded(m), R!Padded(n), j)
    BY <1>1, TextParts DEF Earlier
<1>4. \E k \in Nat \ {0} : Parts(R!Padded(l), R!Padded(n), k)
    BY <1>1, <1>2, <1>3, PartsChain
<1> QED
    BY <1>1, <1>4, TextParts DEF Earlier

LEMMA EarlierSome ==
    ASSUME NEW m \in Nat, NEW n \in Nat, m # n
    PROVE  Earlier(m, n) \/ Earlier(n, m)
<1>1. R!Padded(m) \in Seq(Nat) /\ R!Padded(n) \in Seq(Nat)
    BY PaddedShape
<1>2. R!Padded(m) # R!Padded(n)
    <2>1. m \in 0..(n - 1) \/ n \in 0..(m - 1)
        OBVIOUS
    <2> QED
        BY <2>1, PaddedDiffer
<1>3. PICK i \in Nat \ {0} : Parts(R!Padded(m), R!Padded(n), i) \/ Parts(R!Padded(n), R!Padded(m), i)
    BY <1>1, <1>2, PartsSome
<1>4. Earlier(m, n) <=> \E k \in Nat \ {0} : Parts(R!Padded(m), R!Padded(n), k)
    BY <1>1, TextParts DEF Earlier
<1>5. Earlier(n, m) <=> \E k \in Nat \ {0} : Parts(R!Padded(n), R!Padded(m), k)
    BY <1>1, TextParts DEF Earlier
<1> QED
    BY <1>3, <1>4, <1>5

\* Some number of any that are taken comes last.
LEMMA LastText ==
    ASSUME NEW top \in Nat, NEW S \in SUBSET (1..top), S # {}
    PROVE  \E n \in S : \A m \in S \ {n} : Earlier(m, n)
<1> DEFINE Latest(U) == \E n \in U : \A m \in U \ {n} : Earlier(m, n)
<1> DEFINE T == {k \in Nat : \A U \in SUBSET (1..k) : U # {} => Latest(U)}
<1>1. 0 \in T
    <2>1. 1..0 = {}
        OBVIOUS
    <2> HIDE DEF Latest
    <2> QED
        BY <2>1
<1>2. ASSUME NEW k \in Nat, k \in T PROVE k + 1 \in T
    <2> SUFFICES ASSUME NEW U \in SUBSET (1..(k + 1)), U # {} PROVE Latest(U)
        OBVIOUS
    <2>1. CASE k + 1 \notin U
        <3>1. U \in SUBSET (1..k)
            BY <2>1
        <3> QED
            BY <1>2, <3>1
    <2>2. CASE k + 1 \in U /\ U \ {k + 1} = {}
        BY <2>2
    <2>3. CASE k + 1 \in U /\ U \ {k + 1} # {}
        <3> DEFINE V == U \ {k + 1}
        <3>1. V \in SUBSET (1..k) /\ V # {}
            BY <2>3
        <3>2. PICK n \in V : \A m \in V \ {n} : Earlier(m, n)
            BY <1>2, <3>1
        <3>3. n \in Nat /\ k + 1 \in Nat /\ n # k + 1 /\ V \subseteq Nat /\ U = V \cup {k + 1}
            BY <2>3, <3>1
        <3> HIDE DEF V, T
        <3>4. CASE Earlier(n, k + 1)
            <4>1. \A m \in V : Earlier(m, k + 1)
                BY <3>2, <3>3, <3>4, EarlierChain
            <4>2. \A m \in U \ {k + 1} : Earlier(m, k + 1)
                BY <3>3, <4>1
            <4> QED
                BY <2>3, <4>2
        <3>5. CASE Earlier(k + 1, n)
            <4>1. \A m \in U \ {n} : Earlier(m, n)
                BY <3>2, <3>3, <3>5
            <4> QED
                BY <3>2, <3>3, <4>1
        <3> QED
            BY <3>3, <3>4, <3>5, EarlierSome
    <2> QED
        BY <2>1, <2>2, <2>3
<1>3. T = Nat
    <2> HIDE DEF T
    <2>1. T \in SUBSET Nat
        BY DEF T
    <2> QED
        BY <1>1, <1>2, <2>1, Induction
<1> QED
    BY <1>3

\* The next number is one more than a number that is taken, or the first.
LEMMA NextTyped ==
    ASSUME NEW top \in Nat, NEW S \in SUBSET (1..top)
    PROVE  /\ R!NextNumber(S) \in 1..(top + 1)
           /\ S # {} => /\ R!NextNumber(S) - 1 \in S
                        /\ \A m \in S \ {R!NextNumber(S) - 1} : Earlier(m, R!NextNumber(S) - 1)
<1>1. CASE S = {}
    BY <1>1 DEF R!NextNumber
<1>2. CASE S # {}
    <2> DEFINE n == CHOOSE x \in S : \A m \in S \ {x} : Earlier(m, x)
    <2>1. n \in S /\ \A m \in S \ {n} : Earlier(m, n)
        BY <1>2, LastText
    <2>2. R!NextNumber(S) = 1 + n
        BY <1>2 DEF R!NextNumber, Earlier
    <2> HIDE DEF n
    <2>3. n \in 1..top /\ (1 + n) - 1 = n
        BY <2>1
    <2> QED
        BY <2>1, <2>2, <2>3
<1> QED
    BY <1>1, <1>2

\* Until a number has more digits than are padded, the next one is the number of
\* those that are taken plus one.
LEMMA NextOfInterval ==
    ASSUME NEW k \in Nat, \A n \in 1..k : Len(R!Digits(n)) <= Width
    PROVE  R!NextNumber(1..k) = k + 1
<1>1. CASE k = 0
    BY <1>1 DEF R!NextNumber
<1>2. CASE k # 0
    <2> DEFINE n == R!NextNumber(1..k) - 1
    <2>0. 1..k # {} /\ 1..k \in SUBSET (1..k)
        BY <1>2
    <2>1. R!NextNumber(1..k) \in 1..(k + 1) /\ n \in 1..k /\ \A m \in (1..k) \ {n} : Earlier(m, n)
        BY <2>0, NextTyped
    <2> HIDE DEF n
    <2>2. n = k
        <3> SUFFICES ASSUME n # k PROVE FALSE
            OBVIOUS
        <3>1. k \in (1..k) \ {n} /\ n \in 0..(k - 1) /\ Len(R!Digits(k)) <= Width
            BY <1>2, <2>1
        <3>2. Earlier(k, n)
            BY <2>1, <3>1
        <3>3. PICK i \in Nat \ {0} : Parts(R!Padded(n), R!Padded(k), i)
            BY <3>1, PaddedOrder
        <3>4. R!Padded(n) \in Seq(Nat) /\ R!Padded(k) \in Seq(Nat)
            BY <2>1, PaddedShape
        <3>5. Earlier(n, k)
            BY <3>3, <3>4, TextParts DEF Earlier
        <3> QED
            BY <2>1, <3>2, <3>5, EarlierOnce
    <2> QED
        BY <2>1, <2>2 DEF n
<1> QED
    BY <1>1, <1>2
-----------------------------------------------------------------------------
\* The registry

\* Only users and vehicles have a limit to ask for, and a number that waits to
\* be stored was drawn.
Asked(c) ==
    /\ c.step = "plan" => kind \in {"user", "vehicle"}
    /\ c.step = "store" => c.number \in 1..MaxNumber

RegistryInv == R!RegistryTypeOK /\ \A q \in Clerks : Asked(clerk[q])

LEMMA IdleType == R!Idle \in R!Request
<1>1. (CHOOSE k \in Keys : TRUE) \in Keys
    BY OfficeAssumption
<1> DEFINE key == CHOOSE k \in Keys : TRUE
<1> HIDE DEF key
<1>2. [step |-> "idle", key |-> key, quota |-> Unlimited, number |-> 0] \in R!Request
    BY <1>1 DEF R!Request, key
<1> QED
    BY <1>2 DEF R!Idle, key

LEMMA RequestOf ==
    ASSUME NEW c \in R!Request
    PROVE  /\ c.step \in {"idle", "plan", "count", "unique", "insert", "store"} /\ c.key \in Keys
           /\ c.quota \in Nat \cup {Unlimited} /\ c.number \in Nat
    BY DEF R!Request

\* What a step makes of a request.
RegistryFrame(q, c) ==
    /\ clerk' = [clerk EXCEPT ![q] = c]
    /\ kind' = kind /\ plan' = plan

LEMMA RegistryFrameKeeps ==
    ASSUME RegistryInv, NEW q \in Clerks, NEW c \in R!Request, Asked(c), RegistryFrame(q, c),
           row' \in [Keys -> {"ABSENT", "LIVE", "DELETED"}], used' \subseteq 1..MaxNumber,
           answer' \in {201, 403, 409, 500}
    PROVE  RegistryInv'
<1>1. clerk \in [Clerks -> R!Request]
    BY DEF RegistryInv, R!RegistryTypeOK
<1>2. clerk' \in [Clerks -> R!Request] /\ \A p \in Clerks : clerk'[p] = IF p = q THEN c ELSE clerk[p]
    BY <1>1 DEF RegistryFrame
<1>3. R!RegistryTypeOK'
    BY <1>2 DEF RegistryInv, R!RegistryTypeOK, RegistryFrame
<1>4. \A p \in Clerks : Asked(clerk[p])'
    BY <1>2 DEF RegistryInv, RegistryFrame, Asked
<1> QED
    BY <1>3, <1>4 DEF RegistryInv

LEMMA RegistryKept ==
    ASSUME RegistryInv, R!RegistryNext
    PROVE  RegistryInv'
<1>0. /\ kind \in R!Kinds /\ plan \in Plans /\ row \in [Keys -> {"ABSENT", "LIVE", "DELETED"}]
      /\ used \subseteq 1..MaxNumber /\ clerk \in [Clerks -> R!Request]
      /\ answer \in {201, 403, 409, 500}
    BY DEF RegistryInv, R!RegistryTypeOK
<1>1. \A q \in Clerks : clerk[q] \in R!Request /\ Asked(clerk[q])
    BY <1>0 DEF RegistryInv
<1>2. ASSUME NEW q \in Clerks, NEW key \in Keys, R!Create(q, key) PROVE RegistryInv'
    <2> DEFINE to == IF kind \in {"user", "vehicle"} THEN "plan" ELSE "unique"
    <2> DEFINE c == [R!Idle EXCEPT !.key = key, !.step = to]
    <2>1. c \in R!Request /\ c.step = to
        BY IdleType DEF R!Request
    <2>2. Asked(c)
        BY <2>1 DEF Asked
    <2>3. RegistryFrame(q, c) /\ UNCHANGED <<row, used, answer>>
        BY <1>2 DEF R!Create, RegistryFrame
    <2> HIDE DEF c
    <2> QED
        BY <1>0, <2>1, <2>2, <2>3, RegistryFrameKeeps
<1>3. ASSUME NEW q \in Clerks, R!ReadPlan(q) PROVE RegistryInv'
    <2> DEFINE limit == Quota[plan][kind]
    <2> DEFINE to == IF limit = Unlimited THEN "unique" ELSE "count"
    <2> DEFINE c == [clerk[q] EXCEPT !.quota = limit, !.step = to]
    <2>1. kind \in {"user", "vehicle"}
        BY <1>1, <1>3 DEF R!ReadPlan, R!Step, Asked
    <2>2. limit \in Nat \cup {Unlimited}
        BY <1>0, <2>1, OfficeAssumption
    <2>3. RegistryFrame(q, c) /\ UNCHANGED <<row, used, answer>>
        <3>1. clerk' = [clerk EXCEPT ![q].quota = limit, ![q].step = to]
            BY <1>3 DEF R!ReadPlan
        <3> HIDE DEF limit, to
        <3> DEFINE mid == [clerk EXCEPT ![q].quota = limit]
        <3> DEFINE half == [clerk[q] EXCEPT !.quota = limit]
        <3>a. clerk' = [mid EXCEPT ![q].step = to]
            BY <3>1
        <3>b. mid = [clerk EXCEPT ![q] = half] /\ c = [half EXCEPT !.step = to]
            BY <1>1 DEF R!Request
        <3> HIDE DEF mid, half, c
        <3>c. mid[q] = half
            BY <1>0, <3>b
        <3>d. clerk' = [mid EXCEPT ![q] = c]
            BY <3>a, <3>b, <3>c
        <3>2. clerk' = [clerk EXCEPT ![q] = c]
            BY <1>0, <3>b, <3>d
        <3> QED
            BY <1>3, <3>2 DEF R!ReadPlan, RegistryFrame
    <2>4. to \in {"unique", "count"}
        OBVIOUS
    <2> HIDE DEF limit, to
    <2>5. c \in R!Request /\ c.step = to
        BY <1>1, <2>2, <2>4 DEF R!Request
    <2>6. Asked(c)
        BY <2>4, <2>5 DEF Asked
    <2> HIDE DEF c
    <2> QED
        BY <1>0, <2>3, <2>5, <2>6, RegistryFrameKeeps
<1>4. ASSUME NEW q \in Clerks, R!CountRows(q) \/ R!FindSame(q) \/ R!InsertRow(q) PROVE RegistryInv'
    <2>1. PICK to \in {"idle", "unique", "insert"} :
                \/ RegistryFrame(q, [clerk[q] EXCEPT !.step = to])
                \/ RegistryFrame(q, R!Idle)
        BY <1>0, <1>4 DEF R!CountRows, R!FindSame, R!InsertRow, R!Reply, R!Goto, RegistryFrame
    <2>2. used' = used /\ answer' \in {201, 403, 409, 500}
        BY <1>0, <1>4 DEF R!CountRows, R!FindSame, R!InsertRow, R!Reply, R!Goto
    <2>3. row' \in [Keys -> {"ABSENT", "LIVE", "DELETED"}]
        BY <1>0, <1>4 DEF R!CountRows, R!FindSame, R!InsertRow
    <2> DEFINE c == [clerk[q] EXCEPT !.step = to]
    <2>4. c \in R!Request /\ c.step = to
        BY <1>1 DEF R!Request
    <2>5. Asked(c)
        BY <2>4 DEF Asked
    <2> HIDE DEF c
    <2>6. Asked(R!Idle)
        BY DEF Asked, R!Idle
    <2>7. RegistryFrame(q, c) \/ RegistryFrame(q, R!Idle)
        BY <2>1 DEF c
    <2> QED
        BY <1>0, <2>2, <2>3, <2>4, <2>5, <2>6, <2>7, IdleType, RegistryFrameKeeps
<1>5. ASSUME NEW q \in Clerks, R!DrawNumber(q) PROVE RegistryInv'
    <2> DEFINE n == R!NextNumber(used)
    <2> DEFINE c == [R!Idle EXCEPT !.step = "store", !.number = n]
    <2>1. n \in 1..MaxNumber
        <3>1. n \in 1..(MaxNumber + 1)
            BY <1>0, NextTyped, OfficeAssumption
        <3>2. n <= MaxNumber
            BY <1>5 DEF R!DrawNumber
        <3> HIDE DEF n
        <3> QED
            BY <3>1, <3>2, OfficeAssumption
    <2>2. RegistryFrame(q, c) /\ UNCHANGED <<row, used, answer>>
        BY <1>5 DEF R!DrawNumber, RegistryFrame
    <2> HIDE DEF n
    <2>3. c \in R!Request /\ c.number = n
        <3>1. n \in Nat
            BY <2>1, OfficeAssumption
        <3> QED
            BY <3>1, IdleType DEF R!Request
    <2>4. Asked(c)
        BY <2>1, <2>3, IdleType DEF Asked, R!Request
    <2> HIDE DEF c
    <2> QED
        BY <1>0, <2>2, <2>3, <2>4, RegistryFrameKeeps
<1>6. ASSUME NEW q \in Clerks, R!StoreNumbered(q) PROVE RegistryInv'
    <2>1. clerk[q].number \in 1..MaxNumber
        BY <1>1, <1>6 DEF R!StoreNumbered, R!Step, Asked
    <2>2. RegistryFrame(q, R!Idle) /\ row' = row
        BY <1>6 DEF R!StoreNumbered, R!Reply, RegistryFrame
    <2>3. used' \subseteq 1..MaxNumber /\ answer' \in {201, 403, 409, 500}
        <3>1. used' = used \cup {clerk[q].number}
            BY <1>6 DEF R!StoreNumbered
        <3>2. answer' = IF clerk[q].number \in used THEN 500 ELSE 201
            BY <1>6 DEF R!StoreNumbered, R!Reply
        <3>3. used' \subseteq 1..MaxNumber
            <4> DEFINE all == 1..MaxNumber
            <4> DEFINE n == clerk[q].number
            <4>1. used \subseteq all /\ n \in all /\ used' = used \cup {n}
                BY <1>0, <2>1, <3>1
            <4> HIDE DEF all, n
            <4>2. used' \subseteq all
                BY <4>1
            <4> QED
                BY <4>2 DEF all
        <3> QED
            BY <3>2, <3>3
    <2>4. Asked(R!Idle)
        BY DEF Asked, R!Idle
    <2> QED
        BY <1>0, <2>2, <2>3, <2>4, IdleType, RegistryFrameKeeps
<1>7. ASSUME \/ \E key \in Keys : R!Delete(key) \/ R!Restore(key)
             \/ \E from, to \in Keys : R!Reregister(from, to)
             \/ \E to \in Plans : R!ChangePlan(to)
      PROVE  RegistryInv'
    <2>1. UNCHANGED <<kind, used, clerk, answer>>
        BY <1>7 DEF R!Delete, R!Restore, R!Reregister, R!ChangePlan
    <2>2. row' \in [Keys -> {"ABSENT", "LIVE", "DELETED"}] /\ plan' \in Plans
        BY <1>0, <1>7 DEF R!Delete, R!Restore, R!Reregister, R!ChangePlan
    <2> QED
        BY <1>0, <2>1, <2>2 DEF RegistryInv, R!RegistryTypeOK, Asked
<1> QED
    BY <1>2, <1>3, <1>4, <1>5, <1>6, <1>7 DEF R!RegistryNext

LEMMA RegistryStart == OfficeInit => RegistryInv
<1> SUFFICES ASSUME R!RegistryInit PROVE RegistryInv
    BY DEF OfficeInit
<1>1. clerk = [q \in Clerks |-> R!Idle]
    BY DEF R!RegistryInit
<1>2. R!RegistryTypeOK
    BY <1>1, IdleType DEF R!RegistryInit, R!RegistryTypeOK
<1> QED
    BY <1>1, <1>2 DEF RegistryInv, Asked, R!Idle

LEMMA RegistryHolds == OfficeSpec => []RegistryInv
<1>1. RegistryInv /\ [OfficeNext]_vars => RegistryInv'
    <2> SUFFICES ASSUME RegistryInv, [OfficeNext]_vars PROVE RegistryInv'
        OBVIOUS
    <2>1. CASE RegistryScene \/ NumbersScene
        BY <2>1, RegistryKept DEF RegistryScene, NumbersScene
    <2>2. CASE UNCHANGED registryVars
        BY <2>2 DEF registryVars, RegistryInv, R!RegistryTypeOK, Asked
    <2> QED
        BY <2>1, <2>2 DEF OfficeNext, FleetScene, CreditScene, BackupScene, vars
<1> QED
    BY <1>1, RegistryStart, PTL DEF OfficeSpec
\* A request that was let in and has inserted nothing yet.
LetIn == {q \in Clerks : clerk[q].step \in {"unique", "insert"}}

Limited == kind \in {"user", "vehicle"} /\ Quota[plan][kind] # Unlimited

\* While nothing is restored and the plan stays, the sum grows only by a request
\* that found room and was not among those let in.
QuotaInv ==
    scene = "registry" /\ Limited =>
        /\ \A q \in Clerks : clerk[q].step \in {"count", "unique", "insert"} =>
                clerk[q].quota = Quota[plan][kind]
        /\ IsFiniteSet(R!Live)
        /\ Cardinality(R!Live) + Cardinality(LetIn) < Quota[plan][kind] + Cardinality(Clerks)

\* The ways in which a step changes the rows that are live and the requests that
\* are let in.
Shrinks(L, L2, P, P2) == L2 \subseteq L /\ P2 \subseteq P
LetsIn(L, L2, P, P2, limit) ==
    L2 = L /\ Cardinality(L) < limit /\ \E q \in Clerks \ P : P2 = P \cup {q}
Inserts(L, L2, P, P2) == \E q \in P, k \in Keys : L2 = L \cup {k} /\ P2 = P \ {q}
Swaps(L, L2, P, P2) == P2 = P /\ \E from \in L, to \in Keys : L2 = (L \ {from}) \cup {to}

LEMMA RoomKept ==
    ASSUME NEW limit \in Nat, NEW L, IsFiniteSet(L), NEW P \in SUBSET Clerks, NEW L2, NEW P2,
           Cardinality(L) + Cardinality(P) < limit + Cardinality(Clerks),
           \/ Shrinks(L, L2, P, P2) \/ LetsIn(L, L2, P, P2, limit)
           \/ Inserts(L, L2, P, P2) \/ Swaps(L, L2, P, P2)
    PROVE  IsFiniteSet(L2) /\ Cardinality(L2) + Cardinality(P2) < limit + Cardinality(Clerks)
<1>1. IsFiniteSet(Clerks) /\ Cardinality(Clerks) \in Nat
    BY OfficeAssumption, FS_CardinalityType
<1>2. IsFiniteSet(P) /\ Cardinality(P) <= Cardinality(Clerks) /\ (Cardinality(P) = Cardinality(Clerks) => P = Clerks)
    BY <1>1, FS_Subset
<1>3. Cardinality(L) \in Nat /\ Cardinality(P) \in Nat
    BY <1>2, FS_CardinalityType
<1>4. CASE Shrinks(L, L2, P, P2)
    <2>1. IsFiniteSet(L2) /\ Cardinality(L2) <= Cardinality(L) /\ Cardinality(L2) \in Nat
        BY <1>4, FS_Subset, FS_CardinalityType DEF Shrinks
    <2>2. Cardinality(P2) <= Cardinality(P) /\ Cardinality(P2) \in Nat
        BY <1>2, <1>4, FS_Subset, FS_CardinalityType DEF Shrinks
    <2> QED
        BY <1>1, <1>3, <2>1, <2>2
<1>5. CASE LetsIn(L, L2, P, P2, limit)
    <2>1. PICK q \in Clerks \ P : P2 = P \cup {q}
        BY <1>5 DEF LetsIn
    <2>2. Cardinality(P2) = Cardinality(P) + 1
        BY <1>2, <2>1, FS_AddElement
    <2>3. L2 = L /\ Cardinality(L) < limit /\ P # Clerks
        BY <1>5, <2>1 DEF LetsIn
    <2> QED
        BY <1>1, <1>2, <1>3, <2>2, <2>3
<1>6. CASE Inserts(L, L2, P, P2)
    <2>1. PICK q \in P, k \in Keys : L2 = L \cup {k} /\ P2 = P \ {q}
        BY <1>6 DEF Inserts
    <2>2. IsFiniteSet(L2) /\ Cardinality(L2) \in {Cardinality(L), Cardinality(L) + 1}
        BY <2>1, FS_AddElement
    <2>3. Cardinality(P2) = Cardinality(P) - 1
        BY <1>2, <2>1, FS_RemoveElement
    <2> QED
        BY <1>1, <1>3, <2>2, <2>3
<1>7. CASE Swaps(L, L2, P, P2)
    <2>1. PICK from \in L, to \in Keys : P2 = P /\ L2 = (L \ {from}) \cup {to}
        BY <1>7 DEF Swaps
    <2>2. IsFiniteSet(L \ {from}) /\ Cardinality(L \ {from}) = Cardinality(L) - 1
        BY <2>1, FS_RemoveElement
    <2>3. IsFiniteSet(L2) /\ Cardinality(L2) \in {Cardinality(L) - 1, Cardinality(L)}
        BY <1>3, <2>1, <2>2, FS_AddElement
    <2> QED
        BY <1>1, <1>3, <2>1, <2>3
<1> QED
    BY <1>4, <1>5, <1>6, <1>7

LEMMA SameCardinality == \A S : R!Cardinality(S) = Cardinality(S)
    BY DEF R!Cardinality, Cardinality

LEMMA QuotaStep ==
    ASSUME RegistryInv, QuotaInv, RegistryScene, scene = "registry", Limited
    PROVE  /\ \/ Shrinks(R!Live, R!Live', LetIn, LetIn')
              \/ LetsIn(R!Live, R!Live', LetIn, LetIn', Quota[plan][kind])
              \/ Inserts(R!Live, R!Live', LetIn, LetIn')
              \/ Swaps(R!Live, R!Live', LetIn, LetIn')
           /\ \A q \in Clerks : clerk'[q].step \in {"count", "unique", "insert"} =>
                clerk'[q].quota = Quota[plan][kind]
<1> DEFINE limit == Quota[plan][kind]
<1> DEFINE L == R!Live
<1> DEFINE P == LetIn
<1> DEFINE Bound(c) == c.step \in {"count", "unique", "insert"} => c.quota = limit
<1>0. /\ row \in [Keys -> {"ABSENT", "LIVE", "DELETED"}] /\ clerk \in [Clerks -> R!Request]
      /\ \A q \in Clerks : Bound(clerk[q])
      /\ kind \in {"user", "vehicle"} /\ limit # Unlimited
    BY DEF RegistryInv, R!RegistryTypeOK, QuotaInv, Limited
<1>1. R!RegistryNext /\ plan' = plan /\ \A key \in Keys : row[key] = "DELETED" => row'[key] # "LIVE"
    BY DEF RegistryScene, RegistryRule
<1>2. R!Live = {k \in Keys : row[k] = "LIVE"} /\ R!Live' = {k \in Keys : row'[k] = "LIVE"}
    BY DEF R!Live
<1>3. LetIn = {q \in Clerks : clerk[q].step \in {"unique", "insert"}}
      /\ LetIn' = {q \in Clerks : clerk'[q].step \in {"unique", "insert"}}
    BY DEF LetIn
<1>4. R!Idle.step = "idle" /\ R!Idle \in R!Request
    BY IdleType DEF R!Idle
<1> HIDE DEF limit
\* a step of one request, which becomes c
<1>5. ASSUME NEW q \in Clerks, NEW c, clerk' = [clerk EXCEPT ![q] = c], Bound(c)
      PROVE  /\ \A p \in Clerks : Bound(clerk'[p])
             /\ LetIn' = IF c.step \in {"unique", "insert"} THEN LetIn \cup {q} ELSE LetIn \ {q}
    <2>1. \A p \in Clerks : clerk'[p] = IF p = q THEN c ELSE clerk[p]
        BY <1>0, <1>5
    <2>2. \A p \in Clerks : Bound(clerk'[p])
        BY <1>0, <1>5, <2>1
    <2>3. CASE c.step \in {"unique", "insert"}
        <3>1. \A p \in Clerks : clerk'[p].step \in {"unique", "insert"} <=>
                    p = q \/ clerk[p].step \in {"unique", "insert"}
            BY <2>1, <2>3
        <3> QED
            BY <1>3, <2>2, <2>3, <3>1
    <2>4. CASE c.step \notin {"unique", "insert"}
        <3>1. \A p \in Clerks : clerk'[p].step \in {"unique", "insert"} <=>
                    p # q /\ clerk[p].step \in {"unique", "insert"}
            BY <2>1, <2>4
        <3> QED
            BY <1>3, <2>2, <2>4, <3>1
    <2> QED
        BY <2>3, <2>4
<1>6. row' = row => R!Live' = R!Live
    BY <1>2
<1>7. ASSUME NEW q \in Clerks, NEW c \in R!Request, clerk' = [clerk EXCEPT ![q] = c], row' = row,
             c.step \notin {"count", "unique", "insert"}
      PROVE  Shrinks(R!Live, R!Live', LetIn, LetIn') /\ \A p \in Clerks : Bound(clerk'[p])
    BY <1>5, <1>6, <1>7 DEF Shrinks
<1>a. ASSUME NEW q \in Clerks, NEW key \in Keys, R!Create(q, key)
      PROVE  Shrinks(R!Live, R!Live', LetIn, LetIn') /\ \A p \in Clerks : Bound(clerk'[p])
    <2> DEFINE c == [R!Idle EXCEPT !.key = key, !.step = "plan"]
    <2>1. c \in R!Request /\ c.step = "plan"
        BY <1>4 DEF R!Request
    <2>2. clerk' = [clerk EXCEPT ![q] = c] /\ row' = row
        BY <1>0, <1>a DEF R!Create
    <2> HIDE DEF c
    <2> QED
        BY <1>7, <2>1, <2>2
<1>b. ASSUME NEW q \in Clerks, R!ReadPlan(q)
      PROVE  Shrinks(R!Live, R!Live', LetIn, LetIn') /\ \A p \in Clerks : Bound(clerk'[p])
    <2>1. \A p \in Clerks \ {q} : clerk'[p] = clerk[p]
        BY <1>0, <1>b DEF R!ReadPlan
    <2>2. clerk'[q].step = "count" /\ clerk'[q].quota = limit /\ clerk[q].step = "plan" /\ row' = row
        BY <1>0, <1>b DEF R!ReadPlan, R!Step, R!Request, limit
    <2>3. \A p \in Clerks : Bound(clerk'[p])
        BY <1>0, <2>1, <2>2
    <2>4. LetIn' \subseteq LetIn
        BY <1>3, <2>1, <2>2
    <2> QED
        BY <1>6, <2>2, <2>3, <2>4 DEF Shrinks
<1>c. ASSUME NEW q \in Clerks, R!CountRows(q)
      PROVE  /\ Shrinks(R!Live, R!Live', LetIn, LetIn') \/ LetsIn(R!Live, R!Live', LetIn, LetIn', limit)
             /\ \A p \in Clerks : Bound(clerk'[p])
    <2>1. clerk[q].step = "count" /\ clerk[q].quota = limit /\ row' = row /\ q \notin LetIn
        BY <1>0, <1>3, <1>c DEF R!CountRows, R!Step
    <2>2. CASE Cardinality(R!Live) >= clerk[q].quota
        <3>1. clerk' = [clerk EXCEPT ![q] = R!Idle]
            BY <1>c, <2>2, SameCardinality DEF R!CountRows, R!Reply
        <3> QED
            BY <1>4, <1>7, <2>1, <3>1
    <2>3. CASE ~(Cardinality(R!Live) >= clerk[q].quota)
        <3> DEFINE c == [clerk[q] EXCEPT !.step = "unique"]
        <3>1. clerk' = [clerk EXCEPT ![q] = c]
            BY <1>c, <2>3, SameCardinality DEF R!CountRows, R!Goto
        <3>2. c.step = "unique" /\ c.quota = limit
            BY <1>0, <2>1 DEF R!Request
        <3> HIDE DEF c
        <3>3. LetIn' = LetIn \cup {q} /\ \A p \in Clerks : Bound(clerk'[p])
            BY <1>5, <3>1, <3>2
        <3>4. Cardinality(R!Live) < limit
            <4>1. limit \in Nat
                BY <1>0, OfficeAssumption DEF RegistryInv, R!RegistryTypeOK, limit
            <4>2. Cardinality(R!Live) \in Nat
                BY FS_CardinalityType DEF QuotaInv
            <4> QED
                BY <2>1, <2>3, <4>1, <4>2
        <3> QED
            BY <1>6, <2>1, <3>3, <3>4 DEF LetsIn
    <2> QED
        BY <2>2, <2>3
<1>d. ASSUME NEW q \in Clerks, R!FindSame(q)
      PROVE  Shrinks(R!Live, R!Live', LetIn, LetIn') /\ \A p \in Clerks : Bound(clerk'[p])
    <2>1. clerk[q].step = "unique" /\ clerk[q].quota = limit /\ row' = row /\ q \in LetIn
        BY <1>0, <1>3, <1>d DEF R!FindSame, R!Step
    <2> DEFINE c == [clerk[q] EXCEPT !.step = "insert"]
    <2>2. c.step = "insert" /\ c.quota = limit
        BY <1>0, <2>1 DEF R!Request
    <2>3. clerk' = [clerk EXCEPT ![q] = R!Idle] \/ clerk' = [clerk EXCEPT ![q] = c]
        BY <1>d DEF R!FindSame, R!Reply, R!Goto
    <2> HIDE DEF c
    <2>4. CASE clerk' = [clerk EXCEPT ![q] = R!Idle]
        BY <1>4, <1>7, <2>1, <2>4
    <2>5. CASE clerk' = [clerk EXCEPT ![q] = c]
        <3>1. LetIn' = LetIn \cup {q} /\ \A p \in Clerks : Bound(clerk'[p])
            BY <1>5, <2>2, <2>5
        <3> QED
            BY <1>6, <2>1, <3>1 DEF Shrinks
    <2> QED
        BY <2>3, <2>4, <2>5
<1>e. ASSUME NEW q \in Clerks, R!InsertRow(q)
      PROVE  /\ Shrinks(R!Live, R!Live', LetIn, LetIn') \/ Inserts(R!Live, R!Live', LetIn, LetIn')
             /\ \A p \in Clerks : Bound(clerk'[p])
    <2>1. q \in LetIn /\ clerk' = [clerk EXCEPT ![q] = R!Idle]
        BY <1>3, <1>e DEF R!InsertRow, R!Step, R!Reply
    <2>2. LetIn' = LetIn \ {q} /\ \A p \in Clerks : Bound(clerk'[p])
        <3>1. Bound(R!Idle) /\ R!Idle.step \notin {"unique", "insert"}
            BY <1>4
        <3> QED
            BY <1>5, <2>1, <3>1
    <2>3. CASE row' = row
        BY <1>6, <2>2, <2>3 DEF Shrinks
    <2>4. CASE row' # row
        <3> DEFINE k == clerk[q].key
        <3>1. k \in Keys /\ row' = [row EXCEPT ![k] = "LIVE"]
            BY <1>0, <1>e, <2>4, RequestOf DEF R!InsertRow
        <3> HIDE DEF k
        <3>2. R!Live' = R!Live \cup {k}
            BY <1>0, <1>2, <3>1
        <3> QED
            BY <2>1, <2>2, <3>1, <3>2 DEF Inserts
    <2> QED
        BY <2>3, <2>4
<1>f. ASSUME NEW q \in Clerks, R!DrawNumber(q) \/ R!StoreNumbered(q)
      PROVE  Shrinks(R!Live, R!Live', LetIn, LetIn') /\ \A p \in Clerks : Bound(clerk'[p])
    <2> DEFINE c == [R!Idle EXCEPT !.step = "store", !.number = R!NextNumber(used)]
    <2>1. row' = row /\ (clerk' = [clerk EXCEPT ![q] = c] \/ clerk' = [clerk EXCEPT ![q] = R!Idle])
        BY <1>f DEF R!DrawNumber, R!StoreNumbered, R!Reply
    <2>2. c.step = "store"
        BY DEF R!Idle
    <2> HIDE DEF c
    <2>3. CASE clerk' = [clerk EXCEPT ![q] = R!Idle]
        BY <1>4, <1>7, <2>1, <2>3
    <2>4. CASE clerk' = [clerk EXCEPT ![q] = c]
        <3>1. LetIn' = LetIn \ {q} /\ \A p \in Clerks : Bound(clerk'[p])
            BY <1>5, <2>2, <2>4
        <3> QED
            BY <1>6, <2>1, <3>1 DEF Shrinks
    <2> QED
        BY <2>1, <2>3, <2>4
<1>g. ASSUME clerk' = clerk
      PROVE  LetIn' = LetIn /\ \A p \in Clerks : Bound(clerk'[p])
    BY <1>0, <1>3, <1>g
<1>h. ASSUME NEW key \in Keys, R!Delete(key) \/ R!Restore(key)
      PROVE  Shrinks(R!Live, R!Live', LetIn, LetIn') /\ clerk' = clerk
    <2>1. CASE R!Delete(key)
        <3>1. row' = [row EXCEPT ![key] = "DELETED"] /\ clerk' = clerk
            BY <2>1 DEF R!Delete
        <3>2. R!Live' \subseteq R!Live
            BY <1>0, <1>2, <3>1
        <3> QED
            BY <1>g, <3>1, <3>2 DEF Shrinks
    <2>2. CASE R!Restore(key)
        <3>1. row[key] = "DELETED" /\ row' = [row EXCEPT ![key] = "LIVE"]
            BY <2>2 DEF R!Restore
        <3>2. row'[key] = "LIVE"
            BY <1>0, <3>1
        <3> QED
            BY <1>1, <3>1, <3>2
    <2> QED
        BY <1>h, <2>1, <2>2
<1>i. ASSUME NEW from \in Keys, NEW to \in Keys, R!Reregister(from, to)
      PROVE  Swaps(R!Live, R!Live', LetIn, LetIn') /\ clerk' = clerk
    <2>1. /\ row[from] = "LIVE" /\ row[to] = "ABSENT" /\ clerk' = clerk
          /\ row' = [row EXCEPT ![from] = "ABSENT", ![to] = "LIVE"]
        BY <1>i DEF R!Reregister
    <2>2. \A k \in Keys : row'[k] = IF k = to THEN "LIVE" ELSE IF k = from THEN "ABSENT" ELSE row[k]
        BY <1>0, <2>1
    <2>3. R!Live' = (R!Live \ {from}) \cup {to} /\ from \in R!Live
        BY <1>2, <2>1, <2>2
    <2> QED
        BY <1>g, <2>1, <2>3 DEF Swaps
<1>j. ASSUME NEW to \in Plans, R!ChangePlan(to) PROVE FALSE
    BY <1>1, <1>j DEF R!ChangePlan
<1> QED
    BY <1>1, <1>a, <1>b, <1>c, <1>d, <1>e, <1>f, <1>g, <1>h, <1>i, <1>j DEF R!RegistryNext, limit
LEMMA QuotaHolds == OfficeSpec => []QuotaInv
<1>1. OfficeInit => QuotaInv
    <2> SUFFICES ASSUME R!RegistryInit, Limited, plan \in Plans
                 PROVE  /\ \A q \in Clerks : clerk[q].step \notin {"count", "unique", "insert"}
                        /\ IsFiniteSet(R!Live)
                        /\ Cardinality(R!Live) + Cardinality(LetIn) < Quota[plan][kind] + Cardinality(Clerks)
        BY DEF OfficeInit, QuotaInv, R!RegistryInit
    <2>1. \A q \in Clerks : clerk[q].step = "idle"
        BY DEF R!RegistryInit, R!Idle
    <2>2. R!Live = {} /\ LetIn = {}
        BY <2>1 DEF R!RegistryInit, R!Live, LetIn
    <2>3. IsFiniteSet({}) /\ Cardinality({}) = 0
        BY FS_EmptySet
    <2>4. Cardinality(Clerks) \in Nat \ {0}
        BY OfficeAssumption, FS_EmptySet, FS_CardinalityType
    <2>5. Quota[plan][kind] \in Nat
        BY OfficeAssumption DEF Limited
    <2> QED
        BY <2>1, <2>2, <2>3, <2>4, <2>5
<1>2. RegistryInv /\ QuotaInv /\ [OfficeNext]_vars => QuotaInv'
    <2> SUFFICES ASSUME RegistryInv, QuotaInv, [OfficeNext]_vars, scene' = "registry", Limited'
                 PROVE  /\ \A q \in Clerks : clerk'[q].step \in {"count", "unique", "insert"} =>
                                clerk'[q].quota = Quota[plan'][kind']
                        /\ IsFiniteSet(R!Live')
                        /\ Cardinality(R!Live') + Cardinality(LetIn') < Quota[plan'][kind'] + Cardinality(Clerks)
        BY DEF QuotaInv
    <2>1. scene = "registry" /\ (RegistryScene \/ UNCHANGED registryVars)
        BY DEF OfficeNext, FleetScene, CreditScene, RegistryScene, NumbersScene, BackupScene, vars
    <2>2. CASE RegistryScene
        <3>1. plan' = plan /\ kind' = kind
            BY <2>1, <2>2 DEF RegistryScene, RegistryRule, R!RegistryNext, R!Create, R!ReadPlan, R!CountRows,
                              R!FindSame, R!InsertRow, R!DrawNumber, R!StoreNumbered, R!Delete, R!Restore,
                              R!Reregister, R!ChangePlan
        <3>2. Limited
            BY <3>1 DEF Limited
        <3>3. /\ IsFiniteSet(R!Live) /\ Quota[plan][kind] \in Nat /\ LetIn \in SUBSET Clerks
              /\ Cardinality(R!Live) + Cardinality(LetIn) < Quota[plan][kind] + Cardinality(Clerks)
            BY <2>1, <3>2, OfficeAssumption DEF QuotaInv, Limited, LetIn, RegistryInv, R!RegistryTypeOK
        <3>4. /\ \/ Shrinks(R!Live, R!Live', LetIn, LetIn')
                 \/ LetsIn(R!Live, R!Live', LetIn, LetIn', Quota[plan][kind])
                 \/ Inserts(R!Live, R!Live', LetIn, LetIn')
                 \/ Swaps(R!Live, R!Live', LetIn, LetIn')
              /\ \A q \in Clerks : clerk'[q].step \in {"count", "unique", "insert"} =>
                    clerk'[q].quota = Quota[plan][kind]
            BY <2>1, <2>2, <3>2, QuotaStep
        <3>5. /\ IsFiniteSet(R!Live')
              /\ Cardinality(R!Live') + Cardinality(LetIn') < Quota[plan][kind] + Cardinality(Clerks)
            BY <3>3, <3>4, RoomKept
        <3> QED
            BY <3>1, <3>4, <3>5
    <2>3. CASE UNCHANGED registryVars
        <3>1. kind' = kind /\ plan' = plan /\ row' = row /\ clerk' = clerk
            BY <2>3 DEF registryVars
        <3>2. R!Live' = R!Live /\ LetIn' = LetIn /\ Limited
            BY <3>1 DEF R!Live, LetIn, Limited
        <3> QED
            BY <2>1, <3>1, <3>2 DEF QuotaInv
    <2> QED
        BY <2>1, <2>2, <2>3
<1> QED
    BY <1>1, <1>2, RegistryHolds, PTL DEF OfficeSpec

\* However creations race, a tenant has at most one row too many for each further
\* request in flight, as long as nothing is restored and the plan stays (enforce).
THEOREM OvershootHolds == OfficeSpec => []OvershootBounded
<1>1. RegistryInv /\ QuotaInv => OvershootBounded
    <2> SUFFICES ASSUME RegistryInv, QuotaInv, scene = "registry", Limited
                 PROVE  Cardinality(R!Live) < Quota[plan][kind] + Cardinality(Clerks)
        BY DEF OvershootBounded, Limited
    <2>1. /\ IsFiniteSet(R!Live)
          /\ Cardinality(R!Live) + Cardinality(LetIn) < Quota[plan][kind] + Cardinality(Clerks)
        BY DEF QuotaInv
    <2>2. Cardinality(R!Live) \in Nat
        BY <2>1, FS_CardinalityType
    <2>3. IsFiniteSet(Clerks) /\ LetIn \in SUBSET Clerks
        BY OfficeAssumption DEF LetIn
    <2>4. Cardinality(LetIn) \in Nat /\ Cardinality(Clerks) \in Nat
        BY <2>3, FS_Subset, FS_CardinalityType
    <2>5. Quota[plan][kind] \in Nat
        BY OfficeAssumption DEF Limited, RegistryInv, R!RegistryTypeOK
    <2> QED
        BY <2>1, <2>2, <2>4, <2>5
<1> QED
    BY <1>1, QuotaHolds, RegistryHolds, PTL
-----------------------------------------------------------------------------
\* Numbers

LEMMA AtMostOne ==
    ASSUME NEW S, IsFiniteSet(S), Cardinality(S) <= 1, NEW p \in S, NEW q \in S
    PROVE  p = q
<1> SUFFICES ASSUME p # q PROVE FALSE
    OBVIOUS
<1>1. IsFiniteSet(S) /\ Cardinality(S) \in Nat
    BY FS_CardinalityType
<1>2. IsFiniteSet({p}) /\ Cardinality({p}) = 1
    BY FS_Singleton
<1>3. Cardinality({p} \cup {q}) = 2
    <2>1. q \notin {p}
        OBVIOUS
    <2>2. Cardinality({p} \cup {q}) = 1 + 1
        BY ONLY <1>2, <2>1, FS_AddElement
    <2> QED
        BY <2>2
<1>4. Cardinality({p} \cup {q}) <= Cardinality(S)
    BY <1>1, FS_Subset
<1> QED
    BY <1>1, <1>3, <1>4

\* As long as no number has outgrown its digits, those that are taken are the
\* first ones and the one that waits is the next.
InOrder ==
    (\A n \in used : Len(R!Digits(n)) <= Width) =>
        \E k \in Nat : /\ used = 1..k
                       /\ \A q \in Clerks : clerk[q].step = "store" => clerk[q].number = k + 1

NumbersInv ==
    scene = "numbers" =>
        /\ \A p, q \in Clerks : p # q => clerk[p] = R!Idle \/ clerk[q] = R!Idle
        /\ InOrder

LEMMA NumbersStep ==
    ASSUME RegistryInv, NumbersInv, NumbersScene
    PROVE  NumbersInv'
<1>0. scene = "numbers" /\ scene' = scene /\ InOrder
    BY DEF NumbersScene, NumbersInv
<1>1. clerk \in [Clerks -> R!Request]
    BY DEF RegistryInv, R!RegistryTypeOK
<1>2. \A p, q \in Clerks : p # q => clerk'[p] = R!Idle \/ clerk'[q] = R!Idle
    <2> SUFFICES ASSUME NEW p \in Clerks, NEW q \in Clerks, p # q, clerk'[p] # R!Idle, clerk'[q] # R!Idle
                 PROVE  FALSE
        OBVIOUS
    <2> DEFINE S == {x \in Clerks : clerk'[x] # R!Idle}
    <2>1. Cardinality(S) <= 1 /\ S \in SUBSET Clerks /\ p \in S /\ q \in S
        BY DEF NumbersScene, NumbersRule
    <2> HIDE DEF S
    <2>2. IsFiniteSet(S)
        BY <2>1, OfficeAssumption, FS_Subset
    <2> QED
        BY <2>1, <2>2, AtMostOne
<1>3. ASSUME used' = used, \A q \in Clerks : clerk'[q].step = "store" => clerk'[q] = clerk[q]
      PROVE  InOrder'
    BY <1>0, <1>3 DEF InOrder
<1>4. ASSUME NEW q \in Clerks, R!DrawNumber(q) PROVE InOrder'
    <2> SUFFICES ASSUME \A n \in used : Len(R!Digits(n)) <= Width
                 PROVE  \E k \in Nat : /\ used = 1..k
                                       /\ \A p \in Clerks : clerk'[p].step = "store" => clerk'[p].number = k + 1
        BY <1>4 DEF InOrder, R!DrawNumber
    <2>1. PICK k \in Nat : used = 1..k
        BY <1>0 DEF InOrder
    <2>2. R!NextNumber(used) = k + 1
        BY <2>1, NextOfInterval
    <2> DEFINE c == [R!Idle EXCEPT !.step = "store", !.number = k + 1]
    <2>3. clerk' = [clerk EXCEPT ![q] = c]
        BY <1>4, <2>2 DEF R!DrawNumber
    <2>4. c.step = "store" /\ c.number = k + 1
        BY IdleType DEF R!Request
    <2>5. R!Idle.step = "idle"
        BY DEF R!Idle
    <2> HIDE DEF c
    <2>6. clerk'[q] = c
        BY <1>1, <2>3
    <2>7. \A p \in Clerks \ {q} : clerk'[p] = R!Idle
        BY <1>2, <2>4, <2>5, <2>6
    <2>8. \A p \in Clerks : clerk'[p].step = "store" => clerk'[p].number = k + 1
        BY <2>4, <2>5, <2>6, <2>7
    <2> QED
        BY <2>1, <2>8
<1>5. ASSUME NEW q \in Clerks, R!StoreNumbered(q) PROVE InOrder'
    <2> DEFINE n == clerk[q].number
    <2>1. clerk[q].step = "store" /\ used' = used \cup {n} /\ clerk' = [clerk EXCEPT ![q] = R!Idle]
        BY <1>5 DEF R!StoreNumbered, R!Step, R!Reply
    <2>2. R!Idle.step = "idle"
        BY DEF R!Idle
    <2>3. \A p \in Clerks : clerk'[p].step # "store"
        BY <1>0, <1>1, <2>1, <2>2 DEF NumbersInv
    <2> SUFFICES ASSUME \A m \in used' : Len(R!Digits(m)) <= Width
                 PROVE  \E k \in Nat : used' = 1..k
        BY <2>3 DEF InOrder
    <2>4. \A m \in used : Len(R!Digits(m)) <= Width
        BY <2>1
    <2>5. PICK k \in Nat : used = 1..k /\ n = k + 1
        BY <1>0, <2>1, <2>4 DEF InOrder
    <2> HIDE DEF n
    <2>6. used' = 1..(k + 1)
        BY <2>1, <2>5
    <2> QED
        BY <2>6
<1>6. ASSUME NEW q \in Clerks,
             \/ \E key \in Keys : R!Create(q, key)
             \/ R!ReadPlan(q) \/ R!CountRows(q) \/ R!FindSame(q) \/ R!InsertRow(q)
      PROVE  InOrder'
    <2>1. used' = used
        BY <1>6 DEF R!Create, R!ReadPlan, R!CountRows, R!FindSame, R!InsertRow
    <2>2. \A p \in Clerks \ {q} : clerk'[p] = clerk[p]
        <3>1. \/ \E c : clerk' = [clerk EXCEPT ![q] = c]
              \/ \E to : clerk' = [clerk EXCEPT ![q].step = to]
              \/ \E quota, to : clerk' = [clerk EXCEPT ![q].quota = quota, ![q].step = to]
            <4>1. CASE \E key \in Keys : R!Create(q, key)
                BY <4>1 DEF R!Create
            <4>2. CASE R!ReadPlan(q)
                BY <4>2 DEF R!ReadPlan
            <4>3. CASE R!CountRows(q) \/ R!FindSame(q) \/ R!InsertRow(q)
                BY <4>3 DEF R!CountRows, R!FindSame, R!InsertRow, R!Reply, R!Goto
            <4> QED
                BY <1>6, <4>1, <4>2, <4>3
        <3> QED
            BY <1>1, <3>1
    <2>3. clerk'[q].step # "store"
        <3>1. clerk[q] \in R!Request
            BY <1>1
        <3>2. R!Idle.step = "idle" /\ R!Idle \in R!Request
            BY IdleType DEF R!Idle
        <3>3. CASE \E key \in Keys : R!Create(q, key)
            BY <1>1, <3>2, <3>3 DEF R!Create, R!Request
        <3>4. CASE R!ReadPlan(q)
            BY <1>1, <3>1, <3>4 DEF R!ReadPlan, R!Request
        <3>5. CASE R!CountRows(q) \/ R!FindSame(q) \/ R!InsertRow(q)
            BY <1>1, <3>1, <3>2, <3>5 DEF R!CountRows, R!FindSame, R!InsertRow, R!Reply, R!Goto, R!Request
        <3> QED
            BY <1>6, <3>3, <3>4, <3>5
    <2>4. \A p \in Clerks : clerk'[p].step = "store" => clerk'[p] = clerk[p]
        BY <2>2, <2>3
    <2> QED
        BY <1>3, <2>1, <2>4
<1>7. ASSUME \/ \E key \in Keys : R!Delete(key) \/ R!Restore(key)
             \/ \E from, to \in Keys : R!Reregister(from, to)
             \/ \E to \in Plans : R!ChangePlan(to)
      PROVE  InOrder'
    <2>1. used' = used /\ clerk' = clerk
        BY <1>7 DEF R!Delete, R!Restore, R!Reregister, R!ChangePlan
    <2> QED
        BY <1>3, <2>1
<1>8. InOrder'
    BY <1>4, <1>5, <1>6, <1>7 DEF NumbersScene, R!RegistryNext
<1> QED
    BY <1>0, <1>2, <1>8 DEF NumbersInv

LEMMA NumbersHolds == OfficeSpec => []NumbersInv
<1>1. OfficeInit => NumbersInv
    <2> SUFFICES ASSUME R!RegistryInit PROVE NumbersInv
        BY DEF OfficeInit
    <2>1. clerk = [q \in Clerks |-> R!Idle] /\ used = {} /\ R!Idle.step = "idle"
        BY DEF R!RegistryInit, R!Idle
    <2>2. \A q \in Clerks : clerk[q] = R!Idle
        BY <2>1
    <2>3. used = 1..0
        BY <2>1
    <2>4. InOrder
        BY <2>1, <2>2, <2>3 DEF InOrder
    <2> QED
        BY <2>2, <2>4 DEF NumbersInv
<1>2. RegistryInv /\ NumbersInv /\ [OfficeNext]_vars => NumbersInv'
    <2> SUFFICES ASSUME RegistryInv, NumbersInv, [OfficeNext]_vars PROVE NumbersInv'
        OBVIOUS
    <2>1. CASE NumbersScene
        BY <2>1, NumbersStep
    <2>2. CASE RegistryScene
        BY <2>2 DEF RegistryScene, NumbersInv
    <2>3. CASE UNCHANGED <<scene, registryVars>>
        BY <2>3 DEF registryVars, NumbersInv, InOrder
    <2> QED
        BY <2>1, <2>2, <2>3 DEF OfficeNext, FleetScene, CreditScene, BackupScene, vars
<1> QED
    BY <1>1, <1>2, RegistryHolds, PTL DEF OfficeSpec

\* A number that waits to be stored is not taken, as long as a number is stored
\* before the next is drawn and none has outgrown its digits: the greatest text
\* is then the greatest number (generateCode and its like).
THEOREM NumbersFresh == OfficeSpec => []NumbersAreFresh
<1>1. NumbersInv => NumbersAreFresh
    <2> SUFFICES ASSUME scene = "numbers", InOrder, \A n \in used : Len(R!Digits(n)) <= Width,
                        NEW q \in Clerks, clerk[q].step = "store"
                 PROVE  clerk[q].number \notin used
        BY DEF NumbersInv, NumbersAreFresh
    <2>1. PICK k \in Nat : used = 1..k /\ clerk[q].number = k + 1
        BY DEF InOrder
    <2> QED
        BY <2>1
<1> QED
    BY <1>1, NumbersHolds, PTL
-----------------------------------------------------------------------------
\* The backups

\* An archive that is gone is of the day the retention ends or older, and as long
\* as the pruning of the last job is the latest word, none that is older is left.
Pruned(a) ==
    a # B!NoArchive =>
        /\ ~a.stored => a.age >= Retention
        /\ pruned /\ a.stored => a.age <= Retention

BackupInv ==
    /\ B!BackupTypeOK
    /\ \A c \in B!Categories, n \in Nights : Pruned(archive[c][n])

LEMMA ArchiveOf ==
    ASSUME NEW a \in B!Archive
    PROVE  /\ a.stored \in BOOLEAN /\ a.age \in 0..(Retention + 1) /\ a.age \in Nat
           /\ a.content \in {"whole", "part"} /\ a.digest \in {<<>>, <<"whole">>, <<"part">>}
BY OfficeAssumption DEF B!Archive

\* What a part of the job writes is an archive of that day.
LEMMA StoreKeeps ==
    ASSUME BackupInv, NEW content \in {"whole", "part"}, NEW digest \in {<<>>, <<"whole">>, <<"part">>},
           phase \in B!Categories, B!Store(phase, content, digest), pruned' = pruned \/ pruned' = FALSE
    PROVE  /\ archive' \in [B!Categories -> [Nights -> B!Archive]]
           /\ \A c \in B!Categories, n \in Nights : Pruned(archive[c][n])'
<1> DEFINE new == [stored |-> TRUE, age |-> 0, content |-> content, digest |-> digest]
<1> DEFINE night == backup.night
<1>1. archive \in [B!Categories -> [Nights -> B!Archive]] /\ night \in Nights
    BY DEF BackupInv, B!BackupTypeOK
<1>2. new \in B!Archive /\ new.stored = TRUE /\ new.age = 0
    BY OfficeAssumption DEF B!Archive
<1>3. archive' = [archive EXCEPT ![phase][night] = new]
    BY DEF B!Store
<1> HIDE DEF new, night
<1>4. archive' \in [B!Categories -> [Nights -> B!Archive]]
    BY <1>1, <1>2, <1>3
<1>5. \A c \in B!Categories, n \in Nights :
        archive'[c][n] = IF c = phase /\ n = night THEN new ELSE archive[c][n]
    BY <1>1, <1>3
<1>6. ASSUME NEW c \in B!Categories, NEW n \in Nights PROVE Pruned(archive[c][n])'
    <2>1. CASE c = phase /\ n = night
        <3>1. archive'[c][n] = new
            BY <1>5, <2>1
        <3> QED
            BY <1>2, <3>1, OfficeAssumption DEF Pruned
    <2>2. CASE ~(c = phase /\ n = night)
        <3>1. archive'[c][n] = archive[c][n] /\ Pruned(archive[c][n])
            BY <1>5, <2>2 DEF BackupInv
        <3> QED
            BY <3>1 DEF Pruned
    <2> QED
        BY <2>1, <2>2
<1> QED
    BY <1>4, <1>6

LEMMA BackupKept ==
    ASSUME BackupInv, B!BackupNext
    PROVE  BackupInv'
<1>1. /\ archive \in [B!Categories -> [Nights -> B!Archive]]
      /\ phase \in B!Categories \cup {"asleep", "prune"}
      /\ backup \in [night : Nights, parts : SUBSET B!Categories]
      /\ pruned \in BOOLEAN
      /\ database \in {"live", "whole", "part", "refused"}
    BY DEF BackupInv, B!BackupTypeOK
<1>2. \A c \in B!Categories, n \in Nights : archive[c][n] \in B!Archive /\ Pruned(archive[c][n])
    BY <1>1 DEF BackupInv
<1>3. ASSUME NEW n \in Nights, NEW parts \in {B!Categories} \cup {{c} : c \in B!Categories},
             B!StartBackup(n, parts)
      PROVE  BackupInv'
    <2>1. archive' = archive /\ pruned' = pruned /\ database' = database
        BY <1>3 DEF B!StartBackup
    <2>2. backup' \in [night : Nights, parts : SUBSET B!Categories]
        BY <1>3 DEF B!StartBackup
    <2>3. parts # {} /\ parts \subseteq B!Categories
        BY DEF B!Categories
    <2>4. (CHOOSE c \in parts : TRUE) \in B!Categories
        BY <2>3
    <2>5. phase' \in B!Categories
        BY <1>3, <2>4 DEF B!StartBackup, B!Categories
    <2> QED
        BY <1>1, <1>2, <2>1, <2>2, <2>5 DEF BackupInv, B!BackupTypeOK, Pruned
\* a part of the job, done or not
<1>4. ASSUME phase \in B!Categories PROVE B!Following(phase) \in B!Categories \cup {"asleep", "prune"}
    BY <1>4 DEF B!Following, B!Categories
<1>5. ASSUME NEW content \in {"whole", "part"}, NEW digest \in {<<>>, <<"whole">>, <<"part">>},
             phase \in B!Categories, B!Store(phase, content, digest),
             phase' \in B!Categories \cup {"asleep", "prune"},
             pruned' \in {pruned, FALSE}, UNCHANGED <<backup, database>>
      PROVE  BackupInv'
    <2>1. /\ archive' \in [B!Categories -> [Nights -> B!Archive]]
          /\ \A c \in B!Categories, n \in Nights : Pruned(archive[c][n])'
        BY <1>5, StoreKeeps
    <2> QED
        BY <1>1, <1>5, <2>1 DEF BackupInv, B!BackupTypeOK
<1>6. ASSUME NEW content \in {"whole", "part"}, B!BackupDatabase(content) PROVE BackupInv'
    <2>1. phase = "database" /\ phase \in B!Categories
        BY <1>6 DEF B!BackupDatabase, B!Categories
    <2>2. B!Logged(content) = <<content>>
        <3> DEFINE whole == <<content, "rest">>
        <3> DEFINE half == SubSeq(whole, 1, 1)
        <3>1. \A i \in 1..1 : whole[i] \in {content}
            OBVIOUS
        <3> HIDE DEF whole
        <3>2. half \in Seq({content}) /\ Len(half) = 1 /\ half[1] = whole[1]
            BY <3>1, SubSeqProperties
        <3>3. B!Logged(content) = half
            BY DEF B!Logged, B!Sha256, whole
        <3> HIDE DEF half
        <3>4. half[1] = content
            BY <3>2 DEF whole
        <3> QED
            BY <3>2, <3>3, <3>4
    <2>3. B!Logged(content) \in {<<>>, <<"whole">>, <<"part">>}
        BY <2>2
    <2>4. /\ B!Store(phase, content, B!Logged(content)) /\ phase' = B!Following(phase)
          /\ pruned' = pruned /\ UNCHANGED <<backup, database>>
        BY <1>6, <2>1 DEF B!BackupDatabase
    <2> QED
        BY <1>4, <1>5, <2>1, <2>3, <2>4
<1>7. ASSUME B!BackupFiles \/ B!BackupLogs \/ B!FailPart PROVE BackupInv'
    <2>1. phase \in B!Categories
        BY <1>7 DEF B!BackupFiles, B!BackupLogs, B!FailPart, B!Categories
    <2>2. PICK content \in {"whole", "part"} : B!Store(phase, content, <<>>)
        BY <1>7 DEF B!BackupFiles, B!BackupLogs, B!FailPart
    <2>3. phase' = B!Following(phase) /\ pruned' = pruned /\ UNCHANGED <<backup, database>>
        BY <1>7 DEF B!BackupFiles, B!BackupLogs, B!FailPart
    <2> QED
        BY <1>4, <1>5, <2>1, <2>2, <2>3
\* files are removed, by the pruning or by one that is killed
<1> DEFINE Gone(x) == /\ archive[x[1]][x[2]].stored
                      /\ archive[x[1]][x[2]].age >= Retention
<1>8. ASSUME NEW gone \in SUBSET (B!Expired \cup B!AtLimit), B!Remove(gone)
      PROVE  /\ archive' \in [B!Categories -> [Nights -> B!Archive]]
             /\ \A c \in B!Categories, n \in Nights :
                    /\ archive'[c][n] # B!NoArchive /\ ~archive'[c][n].stored => archive'[c][n].age >= Retention
                    /\ archive'[c][n].stored => archive[c][n].stored /\ <<c, n>> \notin gone
                    /\ archive'[c][n].age = archive[c][n].age
    <2>1. \A x \in gone : Gone(x)
        BY <1>2, ArchiveOf, OfficeAssumption DEF B!Expired, B!AtLimit, B!Files, B!TooOld
    <2>2. archive' = [c \in B!Categories |-> [n \in Nights |->
            IF <<c, n>> \in gone THEN [archive[c][n] EXCEPT !.stored = FALSE] ELSE archive[c][n]]]
        BY <1>8 DEF B!Remove
    <2>3. ASSUME NEW c \in B!Categories, NEW n \in Nights
          PROVE  /\ archive'[c][n] \in B!Archive
                 /\ archive'[c][n] # B!NoArchive /\ ~archive'[c][n].stored => archive'[c][n].age >= Retention
                 /\ archive'[c][n].stored => archive[c][n].stored /\ <<c, n>> \notin gone
                 /\ archive'[c][n].age = archive[c][n].age
        <3> DEFINE a == archive[c][n]
        <3>1. a \in B!Archive /\ Pruned(a) /\ a.stored \in BOOLEAN
            BY <1>2, ArchiveOf
        <3>2. archive'[c][n] = IF <<c, n>> \in gone THEN [a EXCEPT !.stored = FALSE] ELSE a
            BY <2>2
        <3>3. <<c, n>> \in gone => a.age >= Retention
            BY <2>1
        <3> HIDE DEF a
        <3>4. CASE <<c, n>> \in gone
            <4>1. archive'[c][n] \in B!Archive /\ archive'[c][n].stored = FALSE /\ archive'[c][n].age = a.age
                BY <3>1, <3>2, <3>4 DEF B!Archive
            <4> QED
                BY <3>3, <3>4, <4>1 DEF a
        <3>5. CASE <<c, n>> \notin gone
            BY <3>1, <3>2, <3>5 DEF Pruned, a
        <3> QED
            BY <3>4, <3>5
    <2>4. archive' \in [B!Categories -> [Nights -> B!Archive]]
        <3>1. \A c \in B!Categories : [n \in Nights |-> archive'[c][n]] \in [Nights -> B!Archive]
            BY <2>3
        <3>2. archive' = [c \in B!Categories |-> [n \in Nights |-> archive'[c][n]]]
            BY <2>2
        <3> QED
            BY <3>1, <3>2
    <2> QED
        BY <2>3, <2>4
<1> HIDE DEF Gone
<1>12. ASSUME B!Prune PROVE BackupInv'
    <2>1. PICK late \in SUBSET B!AtLimit : B!Remove(B!Expired \cup late)
        BY <1>12 DEF B!Prune
    <2>2. UNCHANGED <<backup, database>> /\ phase' = "asleep" /\ pruned' = TRUE
        BY <1>12 DEF B!Prune
    <2> DEFINE gone == B!Expired \cup late
    <2>3. gone \in SUBSET (B!Expired \cup B!AtLimit) /\ B!Remove(gone)
        BY <2>1
    <2>4. ASSUME NEW c \in B!Categories, NEW n \in Nights, archive[c][n].stored, <<c, n>> \notin gone
          PROVE  archive[c][n].age <= Retention
        <3>1. ~B!TooOld(archive[c][n])
            BY <2>4 DEF B!Expired, B!Files
        <3> QED
            BY <1>2, <3>1, ArchiveOf, OfficeAssumption DEF B!TooOld
    <2> HIDE DEF gone
    <2>5. \A c \in B!Categories, n \in Nights : Pruned(archive[c][n])'
        BY <1>8, <2>2, <2>3, <2>4 DEF Pruned
    <2> QED
        BY <1>1, <1>8, <2>2, <2>3, <2>5 DEF BackupInv, B!BackupTypeOK
<1>9. ASSUME B!Kill PROVE BackupInv'
    <2>1. phase' = "asleep" /\ pruned' = FALSE /\ UNCHANGED <<backup, database>>
        BY <1>9 DEF B!Kill
    <2>2. CASE archive' = archive
        BY <1>1, <1>2, <2>1, <2>2 DEF BackupInv, B!BackupTypeOK, Pruned
    <2>3. CASE phase \in B!Categories /\ B!Store(phase, "part", <<>>)
        BY <1>5, <2>1, <2>3
    <2>4. CASE phase = "prune" /\ \E gone \in SUBSET (B!Expired \cup B!AtLimit) : B!Remove(gone)
        BY <1>1, <1>8, <2>1, <2>4 DEF BackupInv, B!BackupTypeOK, Pruned
    <2> QED
        BY <1>9, <2>2, <2>3, <2>4 DEF B!Kill
<1>10. ASSUME B!DayPasses PROVE BackupInv'
    <2> DEFINE Older(a) == [a EXCEPT !.age = IF a = B!NoArchive \/ a.age > Retention THEN a.age ELSE a.age + 1]
    <2>1. archive' = [c \in B!Categories |-> [n \in Nights |-> Older(archive[c][n])]]
        BY <1>10 DEF B!DayPasses
    <2>2. UNCHANGED <<phase, backup, database>> /\ pruned' = FALSE
        BY <1>10 DEF B!DayPasses
    <2>3. ASSUME NEW c \in B!Categories, NEW n \in Nights
          PROVE  Older(archive[c][n]) \in B!Archive /\ Pruned(archive[c][n])'
        <3> DEFINE a == archive[c][n]
        <3>1. a \in B!Archive /\ Pruned(a)
            BY <1>2
        <3>2. archive'[c][n] = Older(a)
            BY <2>1
        <3>3. a.stored \in BOOLEAN /\ a.age \in 0..(Retention + 1) /\ a.age \in Nat
            BY <3>1, ArchiveOf
        <3> HIDE DEF a
        <3>4. CASE a = B!NoArchive \/ a.age > Retention
            <4>1. Older(a) = a
                BY <3>1, <3>4 DEF B!Archive
            <4> HIDE DEF Older
            <4> QED
                BY <2>2, <3>1, <3>2, <4>1 DEF Pruned, a
        <3>5. CASE a # B!NoArchive /\ ~(a.age > Retention)
            <4>1. a.age + 1 \in 0..(Retention + 1)
                BY <3>3, <3>5, OfficeAssumption
            <4>2. Older(a) = [a EXCEPT !.age = a.age + 1]
                BY <3>5
            <4>3. Older(a) \in B!Archive /\ Older(a).stored = a.stored
                BY <3>1, <4>1, <4>2 DEF B!Archive
            <4> HIDE DEF Older
            <4>4. Older(a).age = a.age + 1 /\ (~a.stored => a.age >= Retention)
                BY <3>1, <3>5, <4>2 DEF Pruned, B!Archive
            <4> QED
                BY <2>2, <3>2, <3>3, <4>3, <4>4, OfficeAssumption DEF Pruned, a
        <3> QED
            BY <3>4, <3>5
    <2> HIDE DEF Older
    <2>4. archive' \in [B!Categories -> [Nights -> B!Archive]]
        <3>1. \A c \in B!Categories : [n \in Nights |-> Older(archive[c][n])] \in [Nights -> B!Archive]
            BY <2>3
        <3> QED
            BY <2>1, <3>1
    <2> QED
        BY <1>1, <2>2, <2>3, <2>4 DEF BackupInv, B!BackupTypeOK
<1>11. ASSUME NEW n \in Nights, B!RestoreDatabase(n) PROVE BackupInv'
    <2>1. UNCHANGED <<archive, phase, backup, pruned>>
        BY <1>11 DEF B!RestoreDatabase
    <2>2. archive["database"][n] \in B!Archive
        BY <1>2 DEF B!Categories
    <2>3. database' \in {"live", "whole", "part", "refused"}
        BY <1>11, <2>2, ArchiveOf DEF B!RestoreDatabase
    <2> QED
        BY <1>1, <1>2, <2>1, <2>3 DEF BackupInv, B!BackupTypeOK, Pruned
<1> QED
    BY <1>3, <1>6, <1>7, <1>9, <1>10, <1>11, <1>12 DEF B!BackupNext

LEMMA BackupHolds == OfficeSpec => []BackupInv
<1>1. OfficeInit => BackupInv
    <2> SUFFICES ASSUME B!BackupInit PROVE BackupInv
        BY DEF OfficeInit
    <2>1. B!NoArchive \in B!Archive
        BY OfficeAssumption DEF B!NoArchive, B!Archive
    <2>2. \A c \in B!Categories, n \in Nights : archive[c][n] = B!NoArchive
        BY DEF B!BackupInit
    <2>3. archive \in [B!Categories -> [Nights -> B!Archive]]
        BY <2>1 DEF B!BackupInit
    <2>4. \A c \in B!Categories, n \in Nights : Pruned(archive[c][n])
        BY <2>2 DEF Pruned
    <2> QED
        BY <2>3, <2>4 DEF B!BackupInit, BackupInv, B!BackupTypeOK
<1>2. BackupInv /\ [OfficeNext]_vars => BackupInv'
    <2> SUFFICES ASSUME BackupInv, [OfficeNext]_vars PROVE BackupInv'
        OBVIOUS
    <2>1. CASE BackupScene
        BY <2>1, BackupKept DEF BackupScene
    <2>2. CASE UNCHANGED backupVars
        BY <2>2 DEF backupVars, BackupInv, B!BackupTypeOK, Pruned
    <2> QED
        BY <2>1, <2>2 DEF OfficeNext, FleetScene, CreditScene, RegistryScene, NumbersScene, vars
<1> QED
    BY <1>1, <1>2, PTL DEF OfficeSpec

\* No file is missing before the day its retention ends, and after a full backup
\* none of an earlier day is left, whichever part of the job failed and whenever the
\* process was killed (prune).
THEOREM RetentionKept == OfficeSpec => []RetentionHolds
<1>1. BackupInv => RetentionHolds
    BY DEF BackupInv, Pruned, RetentionHolds
<1> QED
    BY <1>1, BackupHolds, PTL
-----------------------------------------------------------------------------
\* Sums over the installments

Pick(s) == CHOOSE x \in s : TRUE

\* What some installments repay, one after the other.
Repays(inst, S, g) ==
    g = [s \in SUBSET S |-> IF s = {} THEN 0 ELSE inst[Pick(s)].portion + g[s \ {Pick(s)}]]

Total(inst, S) == (CHOOSE g : Repays(inst, S, g))[S]

LEMMA RepaidIsTotal == \A S : Repaid(S) = Total(installment, S)
BY DEF Repaid, Total, Repays, Pick, FoldSet, MapThenFoldSet

\* Of the finite sets that are bad, one has no bad set inside.
LEMMA SmallestSet ==
    ASSUME NEW S, IsFiniteSet(S), NEW Bad \in SUBSET (SUBSET S), Bad # {}
    PROVE  \E s \in Bad : \A t \in SUBSET s : t # s => t \notin Bad
<1> DEFINE T == {Cardinality(s) : s \in Bad}
<1>1. \A s \in Bad : IsFiniteSet(s) /\ Cardinality(s) \in Nat
    BY FS_Subset, FS_CardinalityType
<1>2. T \in SUBSET Nat /\ T # {}
    BY <1>1
<1>3. PICK n \in T : \A m \in T : n <= m
    <2> HIDE DEF T
    <2> QED
        BY <1>2, LeastNumber
<1>4. PICK s \in Bad : Cardinality(s) = n
    BY <1>3
<1>5. ASSUME NEW t \in SUBSET s, t # s, t \in Bad PROVE FALSE
    <2>1. IsFiniteSet(s) /\ Cardinality(s) \in Nat /\ Cardinality(t) \in Nat
        BY <1>1, <1>5
    <2>2. Cardinality(t) <= Cardinality(s) /\ (Cardinality(t) = Cardinality(s) => t = s)
        BY <2>1, FS_Subset
    <2>3. n <= Cardinality(t)
        BY <1>3, <1>5
    <2> QED
        BY <1>4, <1>5, <2>1, <2>2, <2>3
<1> QED
    BY <1>5

LEMMA PickIn == \A s : s # {} => Pick(s) \in s
BY DEF Pick

LEMMA RepaysExist ==
    ASSUME NEW inst, NEW S, IsFiniteSet(S)
    PROVE  \E g : Repays(inst, S, g)
<1> DEFINE Step(s, g) == IF s = {} THEN 0 ELSE inst[Pick(s)].portion + g[s \ {Pick(s)}]
<1> DEFINE Part(k, g) == \A s \in SUBSET S : Cardinality(s) <= k => g[s] = Step(s, g)
<1> DEFINE T == {k \in Nat : \E g : Part(k, g)}
<1>1. \A s \in SUBSET S : IsFiniteSet(s) /\ Cardinality(s) \in Nat /\ Cardinality(s) <= Cardinality(S)
    BY FS_Subset, FS_CardinalityType
<1>2. \A s \in SUBSET S : s # {} =>
        /\ s \ {Pick(s)} \in SUBSET S
        /\ Cardinality(s \ {Pick(s)}) = Cardinality(s) - 1
    <2> SUFFICES ASSUME NEW s \in SUBSET S, s # {} PROVE Cardinality(s \ {Pick(s)}) = Cardinality(s) - 1
        OBVIOUS
    <2>1. Pick(s) \in s /\ IsFiniteSet(s)
        BY <1>1, PickIn
    <2> QED
        BY <2>1, FS_RemoveElement
<1>3. \A s \in SUBSET S : Cardinality(s) = 0 <=> s = {}
    BY <1>1, FS_EmptySet
<1>4. 0 \in T
    <2> DEFINE g == [s \in SUBSET S |-> 0]
    <2>1. Part(0, g)
        <3> SUFFICES ASSUME NEW s \in SUBSET S, Cardinality(s) <= 0 PROVE g[s] = Step(s, g)
            OBVIOUS
        <3>1. s = {}
            BY <1>1, <1>3
        <3> QED
            BY <3>1
    <2> QED
        BY <2>1
<1>5. ASSUME NEW k \in Nat, k \in T PROVE k + 1 \in T
    <2>1. PICK g : Part(k, g)
        BY <1>5
    <2> DEFINE h == [s \in SUBSET S |-> IF Cardinality(s) <= k THEN g[s] ELSE Step(s, g)]
    <2>2. \A s \in SUBSET S : h[s] = IF Cardinality(s) <= k THEN g[s] ELSE Step(s, g)
        OBVIOUS
    <2> HIDE DEF h
    <2>3. ASSUME NEW s \in SUBSET S, Cardinality(s) <= k + 1 PROVE h[s] = Step(s, h)
        <3>1. CASE s = {}
            <4>1. Cardinality(s) <= k
                BY <1>3, <3>1
            <4> QED
                BY <2>1, <2>2, <3>1, <4>1
        <3>2. CASE s # {}
            <4> DEFINE t == s \ {Pick(s)}
            <4>1. t \in SUBSET S /\ Cardinality(t) <= k
                BY <1>1, <1>2, <2>3, <3>2
            <4>2. h[t] = g[t]
                BY <2>2, <4>1
            <4>3. h[s] = Step(s, g)
                BY <2>1, <2>2
            <4> QED
                BY <3>2, <4>2, <4>3
        <3> QED
            BY <3>1, <3>2
    <2>4. Part(k + 1, h)
        BY <2>3
    <2> HIDE DEF Part
    <2>5. k + 1 \in Nat
        OBVIOUS
    <2> QED
        BY <2>4, <2>5
<1>6. T = Nat
    <2> HIDE DEF T
    <2>1. T \in SUBSET Nat
        BY DEF T
    <2> QED
        BY <1>4, <1>5, <2>1, Induction
<1>7. PICK g : Part(Cardinality(S), g)
    <2>1. Cardinality(S) \in Nat
        BY FS_CardinalityType
    <2> QED
        BY <1>6, <2>1
<1> DEFINE h == [s \in SUBSET S |-> g[s]]
<1>8. \A s \in SUBSET S : h[s] = Step(s, h)
    <2> SUFFICES ASSUME NEW s \in SUBSET S PROVE h[s] = Step(s, h)
        OBVIOUS
    <2>1. h[s] = Step(s, g)
        BY <1>1, <1>7
    <2>2. s # {} => s \ {Pick(s)} \in SUBSET S
        OBVIOUS
    <2> QED
        BY <2>1, <2>2
<1>9. Repays(inst, S, h)
    <2>1. h = [s \in SUBSET S |-> h[s]]
        OBVIOUS
    <2> HIDE DEF h
    <2> QED
        BY <1>8, <2>1 DEF Repays
<1> QED
    BY <1>9

LEMMA RepaysAgree ==
    ASSUME NEW inst, NEW S, IsFiniteSet(S), NEW g, Repays(inst, S, g),
           NEW U \in SUBSET S, NEW h, Repays(inst, U, h)
    PROVE  g[U] = h[U]
<1> DEFINE Bad == {s \in SUBSET U : g[s] # h[s]}
<1>1. SUFFICES ASSUME Bad # {} PROVE FALSE
    OBVIOUS
<1>2. IsFiniteSet(U)
    BY FS_Subset
<1>3. PICK s \in Bad : \A t \in SUBSET s : t # s => t \notin Bad
    <2>1. Bad \in SUBSET (SUBSET U)
        OBVIOUS
    <2> HIDE DEF Bad
    <2> QED
        BY <1>1, <1>2, <2>1, SmallestSet
<1>4. s \in SUBSET U /\ s \in SUBSET S /\ g[s] # h[s]
    OBVIOUS
<1>5. g[s] = IF s = {} THEN 0 ELSE inst[Pick(s)].portion + g[s \ {Pick(s)}]
    BY <1>4 DEF Repays
<1>6. h[s] = IF s = {} THEN 0 ELSE inst[Pick(s)].portion + h[s \ {Pick(s)}]
    BY <1>4 DEF Repays
<1>7. s # {} => g[s \ {Pick(s)}] = h[s \ {Pick(s)}]
    <2> SUFFICES ASSUME s # {} PROVE g[s \ {Pick(s)}] = h[s \ {Pick(s)}]
        OBVIOUS
    <2>1. Pick(s) \in s
        BY PickIn
    <2>2. s \ {Pick(s)} \in SUBSET s /\ s \ {Pick(s)} # s /\ s \ {Pick(s)} \in SUBSET U
        BY <1>4, <2>1
    <2> QED
        BY <1>3, <2>2
<1> QED
    BY <1>4, <1>5, <1>6, <1>7

LEMMA TotalUnfold ==
    ASSUME NEW inst, NEW S, IsFiniteSet(S)
    PROVE  Total(inst, S) = IF S = {} THEN 0 ELSE inst[Pick(S)].portion + Total(inst, S \ {Pick(S)})
<1> DEFINE G(U) == CHOOSE g : Repays(inst, U, g)
<1>1. \A U : Total(inst, U) = G(U)[U]
    BY DEF Total
<1>2. \A U \in SUBSET S : Repays(inst, U, G(U))
    BY FS_Subset, RepaysExist
<1> HIDE DEF G
<1>3. G(S)[S] = IF S = {} THEN 0 ELSE inst[Pick(S)].portion + G(S)[S \ {Pick(S)}]
    BY <1>2 DEF Repays
<1>4. G(S)[S \ {Pick(S)}] = G(S \ {Pick(S)})[S \ {Pick(S)}]
    <2> DEFINE U == S \ {Pick(S)}
    <2>1. U \in SUBSET S /\ S \in SUBSET S
        OBVIOUS
    <2>2. Repays(inst, U, G(U)) /\ Repays(inst, S, G(S))
        BY <1>2, <2>1
    <2> HIDE DEF U
    <2>3. G(S)[U] = G(U)[U]
        BY <2>1, <2>2, RepaysAgree
    <2> QED
        BY <2>3 DEF U
<1> QED
    BY <1>1, <1>3, <1>4
\* Portions that are integers sum up to an integer, and none that is negative
\* to a negative one.
LEMMA TotalTyped ==
    ASSUME NEW inst, NEW S, IsFiniteSet(S), \A x \in S : inst[x].portion \in Int
    PROVE  /\ Total(inst, S) \in Int
           /\ (\A x \in S : inst[x].portion >= 0) => Total(inst, S) >= 0
<1> DEFINE Fine(s) == Total(inst, s) \in Int
                      /\ ((\A x \in s : inst[x].portion >= 0) => Total(inst, s) >= 0)
<1> DEFINE Bad == {s \in SUBSET S : ~Fine(s)}
<1>1. SUFFICES ASSUME Bad # {} PROVE FALSE
    OBVIOUS
<1>2. PICK s \in Bad : \A t \in SUBSET s : t # s => t \notin Bad
    <2>1. Bad \in SUBSET (SUBSET S)
        OBVIOUS
    <2> HIDE DEF Bad
    <2> QED
        BY <1>1, <2>1, SmallestSet
<1>3. s \in SUBSET S /\ ~Fine(s) /\ IsFiniteSet(s)
    BY FS_Subset
<1>4. Total(inst, s) = IF s = {} THEN 0 ELSE inst[Pick(s)].portion + Total(inst, s \ {Pick(s)})
    BY <1>3, TotalUnfold
<1>5. s # {}
    BY <1>3, <1>4
<1>6. Pick(s) \in s /\ inst[Pick(s)].portion \in Int
    BY <1>3, <1>5, PickIn
<1>7. Fine(s \ {Pick(s)})
    <2>1. s \ {Pick(s)} \in SUBSET s /\ s \ {Pick(s)} # s /\ s \ {Pick(s)} \in SUBSET S
        BY <1>3, <1>6
    <2> QED
        BY <1>2, <2>1
<1> QED
    BY <1>3, <1>4, <1>5, <1>6, <1>7

\* It does not matter which installment is taken first.
LEMMA TotalAdd ==
    ASSUME NEW inst, NEW S, IsFiniteSet(S), \A x \in S : inst[x].portion \in Int
    PROVE  \A x \in S : Total(inst, S) = inst[x].portion + Total(inst, S \ {x})
<1> DEFINE Fine(s) == \A x \in s : Total(inst, s) = inst[x].portion + Total(inst, s \ {x})
<1> DEFINE Bad == {s \in SUBSET S : ~Fine(s)}
<1>1. SUFFICES ASSUME Bad # {} PROVE FALSE
    OBVIOUS
<1>2. PICK s \in Bad : \A t \in SUBSET s : t # s => t \notin Bad
    <2>1. Bad \in SUBSET (SUBSET S)
        OBVIOUS
    <2> HIDE DEF Bad
    <2> QED
        BY <1>1, <2>1, SmallestSet
<1>3. s \in SUBSET S /\ ~Fine(s) /\ IsFiniteSet(s)
    BY FS_Subset
<1>4. PICK x \in s : Total(inst, s) # inst[x].portion + Total(inst, s \ {x})
    BY <1>3
<1> DEFINE y == Pick(s)
<1>5. y \in s
    BY <1>4, PickIn
<1>6. Total(inst, s) = inst[y].portion + Total(inst, s \ {y})
    BY <1>3, <1>5, TotalUnfold
<1> HIDE DEF y
<1>7. x # y
    BY <1>4, <1>6
<1>8. \A t \in SUBSET s : t # s => Fine(t)
    BY <1>2, <1>3
<1>9. Total(inst, s \ {y}) = inst[x].portion + Total(inst, (s \ {y}) \ {x})
    <2>1. s \ {y} \in SUBSET s /\ s \ {y} # s /\ x \in s \ {y}
        BY <1>4, <1>5, <1>7
    <2> QED
        BY <1>8, <2>1
<1>10. Total(inst, s \ {x}) = inst[y].portion + Total(inst, (s \ {x}) \ {y})
    <2>1. s \ {x} \in SUBSET s /\ s \ {x} # s /\ y \in s \ {x}
        BY <1>4, <1>5, <1>7
    <2> QED
        BY <1>8, <2>1
<1>11. (s \ {x}) \ {y} = (s \ {y}) \ {x}
    OBVIOUS
<1>12. Total(inst, (s \ {y}) \ {x}) \in Int
    <2>1. (s \ {y}) \ {x} \in SUBSET S
        BY <1>3
    <2>2. IsFiniteSet((s \ {y}) \ {x})
        BY <2>1, FS_Subset
    <2> QED
        BY <2>1, <2>2, TotalTyped
<1>13. inst[x].portion \in Int /\ inst[y].portion \in Int
    BY <1>3, <1>4, <1>5
<1> DEFINE all == Total(inst, s)
<1> DEFINE others == Total(inst, s \ {x})
<1> DEFINE rest == Total(inst, (s \ {y}) \ {x})
<1> DEFINE a == inst[x].portion
<1> DEFINE b == inst[y].portion
<1>14. all # a + others /\ all = b + (a + rest) /\ others = b + rest
    BY <1>4, <1>6, <1>9, <1>10, <1>11
<1>15. rest \in Int /\ a \in Int /\ b \in Int
    BY <1>12, <1>13
<1> HIDE DEF all, others, rest, a, b
<1> QED
    BY <1>14, <1>15

LEMMA TotalNothing == \A inst : Total(inst, {}) = 0
BY TotalUnfold, FS_EmptySet

\* Paying an installment leaves what it repays as it is.
LEMMA TotalSame ==
    ASSUME NEW inst, NEW other, NEW S, IsFiniteSet(S),
           \A x \in S : inst[x].portion = other[x].portion
    PROVE  Total(inst, S) = Total(other, S)
<1> DEFINE Bad == {s \in SUBSET S : Total(inst, s) # Total(other, s)}
<1>1. SUFFICES ASSUME Bad # {} PROVE FALSE
    OBVIOUS
<1>2. PICK s \in Bad : \A t \in SUBSET s : t # s => t \notin Bad
    <2>1. Bad \in SUBSET (SUBSET S)
        OBVIOUS
    <2> HIDE DEF Bad
    <2> QED
        BY <1>1, <2>1, SmallestSet
<1>3. s \in SUBSET S /\ Total(inst, s) # Total(other, s) /\ IsFiniteSet(s)
    BY FS_Subset
<1>4. Total(inst, s) = IF s = {} THEN 0 ELSE inst[Pick(s)].portion + Total(inst, s \ {Pick(s)})
    BY <1>3, TotalUnfold
<1>5. Total(other, s) = IF s = {} THEN 0 ELSE other[Pick(s)].portion + Total(other, s \ {Pick(s)})
    BY <1>3, TotalUnfold
<1>6. s # {}
    BY <1>3, <1>4, <1>5
<1>7. Pick(s) \in s /\ inst[Pick(s)].portion = other[Pick(s)].portion
    BY <1>3, <1>6, PickIn
<1>8. Total(inst, s \ {Pick(s)}) = Total(other, s \ {Pick(s)})
    <2>1. s \ {Pick(s)} \in SUBSET s /\ s \ {Pick(s)} # s /\ s \ {Pick(s)} \in SUBSET S
        BY <1>3, <1>7
    <2> QED
        BY <1>2, <2>1
<1> QED
    BY <1>3, <1>4, <1>5, <1>6, <1>7, <1>8
-----------------------------------------------------------------------------
\* Powers and rounding

PowersOf(base, n, f) == f = [i \in 0..n |-> IF i = 0 THEN 1 ELSE base * f[i - 1]]

LEMMA PowersExist ==
    ASSUME NEW base, NEW n \in Nat
    PROVE  \E f : PowersOf(base, n, f)
<1> DEFINE T == {k \in Nat : \E f : PowersOf(base, k, f)}
<1>1. 0 \in T
    <2>1. PowersOf(base, 0, [i \in 0..0 |-> 1])
        BY DEF PowersOf
    <2> QED
        BY <2>1
<1>2. ASSUME NEW k \in Nat, k \in T PROVE k + 1 \in T
    <2>1. PICK f : PowersOf(base, k, f)
        BY <1>2
    <2> DEFINE g == [i \in 0..(k + 1) |-> IF i = k + 1 THEN base * f[k] ELSE f[i]]
    <2>2. g[k + 1] = base * f[k] /\ \A i \in 0..k : g[i] = f[i]
        OBVIOUS
    <2>3. ASSUME NEW i \in 0..(k + 1) PROVE g[i] = IF i = 0 THEN 1 ELSE base * g[i - 1]
        <3>1. CASE i = k + 1
            <4>1. i - 1 = k /\ k \in 0..k /\ i # 0
                BY <3>1
            <4> HIDE DEF g
            <4> QED
                BY <2>2, <3>1, <4>1
        <3>2. CASE i # k + 1
            <4>1. i \in 0..k /\ (i # 0 => i - 1 \in 0..k)
                BY <3>2
            <4>2. f[i] = IF i = 0 THEN 1 ELSE base * f[i - 1]
                BY <2>1, <4>1 DEF PowersOf
            <4> HIDE DEF g
            <4> QED
                BY <2>2, <4>1, <4>2
        <3> QED
            BY <3>1, <3>2
    <2>4. g = [i \in 0..(k + 1) |-> IF i = 0 THEN 1 ELSE base * g[i - 1]]
        BY <2>3
    <2> HIDE DEF g
    <2>5. PowersOf(base, k + 1, g)
        BY <2>4 DEF PowersOf
    <2> QED
        BY <2>5
<1>3. T = Nat
    <2> HIDE DEF T
    <2>1. T \in SUBSET Nat
        BY DEF T
    <2> QED
        BY <1>1, <1>2, <2>1, Induction
<1> QED
    BY <1>3

LEMMA PowersAgree ==
    ASSUME NEW base, NEW n \in Nat, NEW f, PowersOf(base, n, f), NEW k \in 0..n,
           NEW g, PowersOf(base, k, g)
    PROVE  f[k] = g[k]
<1> DEFINE T == {i \in 0..k : f[i] # g[i]}
<1>1. SUFFICES ASSUME T # {} PROVE FALSE
    OBVIOUS
<1>2. T \in SUBSET Nat
    OBVIOUS
<1>3. PICK i \in T : \A j \in T : i <= j
    <2> HIDE DEF T
    <2> QED
        BY <1>1, <1>2, LeastNumber
<1>4. i \in Nat /\ i \in 0..k /\ i \in 0..n /\ f[i] # g[i]
    OBVIOUS
<1>5. f[i] = IF i = 0 THEN 1 ELSE base * f[i - 1]
    BY <1>4 DEF PowersOf
<1>6. g[i] = IF i = 0 THEN 1 ELSE base * g[i - 1]
    BY <1>4 DEF PowersOf
<1>7. i # 0 => f[i - 1] = g[i - 1]
    <2> SUFFICES ASSUME i # 0, f[i - 1] # g[i - 1] PROVE FALSE
        OBVIOUS
    <2>1. i - 1 \in 0..k /\ i - 1 < i
        BY <1>4
    <2> QED
        BY <1>3, <1>4, <2>1
<1> QED
    BY <1>4, <1>5, <1>6, <1>7

LEMMA PowerUnfold ==
    ASSUME NEW base, NEW n \in Nat
    PROVE  C!Power(base, 0) = 1 /\ C!Power(base, n + 1) = base * C!Power(base, n)
<1> DEFINE G(k) == CHOOSE f : PowersOf(base, k, f)
<1>1. \A k \in Nat : C!Power(base, k) = G(k)[k]
    BY DEF C!Power, PowersOf
<1>2. \A k \in Nat : PowersOf(base, k, G(k))
    BY PowersExist
<1> HIDE DEF G
<1>3. G(0)[0] = 1
    BY <1>2 DEF PowersOf
<1>4. G(n + 1)[n + 1] = base * G(n + 1)[n]
    <2>1. n + 1 \in Nat /\ n + 1 \in 0..(n + 1) /\ (n + 1) - 1 = n /\ n + 1 # 0
        OBVIOUS
    <2>2. PowersOf(base, n + 1, G(n + 1))
        BY <1>2, <2>1
    <2> QED
        BY <2>1, <2>2 DEF PowersOf
<1>5. G(n + 1)[n] = G(n)[n]
    <2>1. n + 1 \in Nat /\ n \in 0..(n + 1)
        OBVIOUS
    <2> QED
        BY <1>2, <2>1, PowersAgree
<1> QED
    BY <1>1, <1>3, <1>4, <1>5

\* Multiplying leaves the order of two numbers.
LEMMA TimesLess ==
    /\ \A a, b \in Nat \ {0} : a * b \in Nat \ {0} /\ a * b >= a
    /\ \A a, b, x, y \in Nat : a <= b /\ x <= y => a * x <= b * y
    /\ \A a, b, x \in Nat \ {0} : a < b => a * x < b * x
<1>1. ASSUME NEW a \in Nat \ {0}, NEW b \in Nat \ {0} PROVE a * b \in Nat \ {0} /\ a * b >= a
    BY <1>1
<1>2. ASSUME NEW a \in Nat, NEW b \in Nat, NEW x \in Nat, NEW y \in Nat, a <= b, x <= y
      PROVE  a * x <= b * y
    <2>1. a * x <= b * x
        BY <1>2
    <2>2. b * x <= b * y
        BY <1>2
    <2>3. a * x \in Nat /\ b * x \in Nat /\ b * y \in Nat
        OBVIOUS
    <2> QED
        BY <2>1, <2>2, <2>3
<1>3. ASSUME NEW a \in Nat \ {0}, NEW b \in Nat \ {0}, NEW x \in Nat \ {0}, a < b
      PROVE  a * x < b * x
    BY <1>3
<1> QED
    BY <1>1, <1>2, <1>3

\* The greater base has the greater powers.
LEMMA PowerOrder ==
    ASSUME NEW a \in Nat \ {0}, NEW b \in Nat \ {0}, a < b
    PROVE  \A n \in Nat : /\ C!Power(a, n) \in Nat \ {0} /\ C!Power(b, n) \in Nat \ {0}
                          /\ C!Power(a, n + 1) < C!Power(b, n + 1)
                          /\ C!Power(a, n) <= C!Power(b, n)
<1> DEFINE T == {n \in Nat : /\ C!Power(a, n) \in Nat \ {0} /\ C!Power(b, n) \in Nat \ {0}
                             /\ C!Power(a, n + 1) < C!Power(b, n + 1)
                             /\ C!Power(a, n) <= C!Power(b, n)}
<1>1. 0 \in T
    <2>1. /\ C!Power(a, 0) = 1 /\ C!Power(b, 0) = 1
          /\ C!Power(a, 0 + 1) = a * C!Power(a, 0) /\ C!Power(b, 0 + 1) = b * C!Power(b, 0)
        BY PowerUnfold
    <2>2. C!Power(a, 0 + 1) = a /\ C!Power(b, 0 + 1) = b
        BY <2>1
    <2> QED
        BY <2>1, <2>2
<1>2. ASSUME NEW n \in Nat, n \in T PROVE n + 1 \in T
    <2> DEFINE x == C!Power(a, n)
    <2> DEFINE y == C!Power(b, n)
    <2> DEFINE u == C!Power(a, n + 1)
    <2> DEFINE v == C!Power(b, n + 1)
    <2>1. x \in Nat \ {0} /\ y \in Nat \ {0} /\ u < v /\ u = a * x /\ v = b * y
        BY <1>2, PowerUnfold
    <2>2. u \in Nat \ {0} /\ v \in Nat \ {0}
        <3> HIDE DEF x, y, u, v
        <3> QED
            BY <2>1, TimesLess
    <2>3. n + 1 \in Nat /\ C!Power(a, (n + 1) + 1) = a * u /\ C!Power(b, (n + 1) + 1) = b * v
        BY PowerUnfold
    <2>4. a * u < b * v
        <3> HIDE DEF x, y, u, v
        <3>1. a * u < b * u
            BY <2>2, TimesLess
        <3>2. b * u <= b * v
            BY <2>1, <2>2, TimesLess
        <3>3. a * u \in Nat /\ b * u \in Nat /\ b * v \in Nat
            BY <2>2
        <3> QED
            BY <3>1, <3>2, <3>3
    <2>5. u <= v
        <3> HIDE DEF x, y, u, v
        <3> QED
            BY <2>1, <2>2
    <2> QED
        BY <2>2, <2>3, <2>4, <2>5
<1>3. T = Nat
    <2> HIDE DEF T
    <2>1. T \in SUBSET Nat
        BY DEF T
    <2> QED
        BY <1>1, <1>2, <2>1, Induction
<1> QED
    BY <1>3

LEMMA Quotient ==
    ASSUME NEW a \in Int, NEW b \in Nat \ {0}
    PROVE  /\ a \div b \in Int /\ b * (a \div b) <= a /\ a < b * (a \div b) + b
           /\ \A q \in Int : b * q <= a => q <= a \div b
<1> DEFINE d == a \div b
<1>1. d \in Int /\ b * d <= a /\ a < b * d + b
    OBVIOUS
<1>2. ASSUME NEW q \in Int, b * q <= a PROVE q <= d
    <2> HIDE DEF d
    <2> SUFFICES ASSUME q >= d + 1 PROVE FALSE
        BY <1>1
    <2>1. b * q >= b * (d + 1)
        BY <1>1
    <2>2. b * (d + 1) = b * d + b
        BY <1>1
    <2> QED
        BY <1>1, <1>2, <2>1, <2>2
<1> QED
    BY <1>1, <1>2
LEMMA RoundedTyped ==
    ASSUME NEW a \in Int, NEW b \in Nat \ {0}
    PROVE  C!Rounded(a, b) \in Int /\ (a >= 0 => C!Rounded(a, b) >= 0)
<1>1. 2 * a + b \in Int /\ 2 * b \in Nat \ {0}
    OBVIOUS
<1>2. (2 * a + b) \div (2 * b) \in Int
    BY <1>1, Quotient
<1>3. a >= 0 => (2 * a + b) \div (2 * b) >= 0
    <2> SUFFICES ASSUME a >= 0 PROVE (2 * a + b) \div (2 * b) >= 0
        OBVIOUS
    <2>1. (2 * b) * 0 <= 2 * a + b
        OBVIOUS
    <2> QED
        BY <1>1, <2>1, Quotient
<1> QED
    BY <1>2, <1>3 DEF C!Rounded

\* Of two quotients with one divisor, the greater rounds to no less.
LEMMA RoundedOrder ==
    ASSUME NEW a \in Int, NEW c \in Int, a <= c, NEW b \in Nat \ {0}
    PROVE  C!Rounded(a, b) <= C!Rounded(c, b)
<1> DEFINE q == (2 * a + b) \div (2 * b)
<1>1. 2 * a + b \in Int /\ 2 * c + b \in Int /\ 2 * b \in Nat \ {0} /\ 2 * a + b <= 2 * c + b
    OBVIOUS
<1>2. q \in Int /\ (2 * b) * q <= 2 * a + b
    BY <1>1, Quotient
<1> HIDE DEF q
<1>3. (2 * b) * q <= 2 * c + b
    <2>1. (2 * b) * q \in Int
        BY <1>1, <1>2
    <2> QED
        BY <1>1, <1>2, <2>1
<1>4. q <= (2 * c + b) \div (2 * b)
    BY <1>1, <1>2, <1>3, Quotient
<1> QED
    BY <1>4 DEF C!Rounded, q

\* A quotient that grows rounds to no less.
LEMMA RoundedScale ==
    ASSUME NEW a \in Nat, NEW b \in Nat \ {0}, NEW x \in Nat \ {0}, NEW d \in Nat \ {0}, d <= x
    PROVE  C!Rounded(a, b) <= C!Rounded(a * x, b * d)
<1> DEFINE q == (2 * a + b) \div (2 * b)
<1>1. 2 * a + b \in Int /\ 2 * b \in Nat \ {0}
    OBVIOUS
<1>2. a * x \in Nat /\ b * d \in Nat \ {0} /\ a * d \in Nat /\ a * d <= a * x
    BY TimesLess
<1>3. 2 * (a * x) + b * d \in Int /\ 2 * (b * d) \in Nat \ {0}
    BY <1>2
<1>4. q \in Int /\ (2 * b) * q <= 2 * a + b /\ q >= 0
    <2>1. q \in Int /\ (2 * b) * q <= 2 * a + b
        BY <1>1, Quotient
    <2>2. q = C!Rounded(a, b)
        BY DEF C!Rounded
    <2>3. C!Rounded(a, b) >= 0
        BY RoundedTyped
    <2> QED
        BY <2>1, <2>2, <2>3
<1> HIDE DEF q
<1>5. ((2 * b) * q) * d <= (2 * a + b) * d
    <2>1. (2 * b) * q \in Nat /\ 2 * a + b \in Nat
        BY <1>4
    <2> QED
        BY <1>4, <2>1, TimesLess
<1>6. ((2 * b) * q) * d = (2 * (b * d)) * q
    BY <1>4
<1>7. (2 * a + b) * d = 2 * (a * d) + b * d
    OBVIOUS
<1>8. (2 * (b * d)) * q <= 2 * (a * x) + b * d
    <2>1. (2 * (b * d)) * q \in Int
        BY <1>2, <1>4
    <2> QED
        BY <1>2, <1>5, <1>6, <1>7, <2>1
<1>9. q <= (2 * (a * x) + b * d) \div (2 * (b * d))
    BY <1>3, <1>4, <1>8, Quotient
<1> QED
    BY <1>9 DEF C!Rounded, q

\* The payment is enough for the interest on all that is financed.
LEMMA PaymentCovers ==
    ASSUME NEW principal \in Nat, NEW num \in Nat, NEW den \in Nat \ {0}, NEW n \in Nat \ {0}
    PROVE  /\ C!MonthlyPayment(principal, num, den, n) \in Nat
           /\ C!Rounded(principal * num, den) <= C!MonthlyPayment(principal, num, den, n)
<1>1. CASE num = 0
    <2>1. C!MonthlyPayment(principal, num, den, n) = C!Rounded(principal, n)
        BY <1>1 DEF C!MonthlyPayment
    <2>2. C!Rounded(principal, n) \in Nat
        BY RoundedTyped
    <2>3. C!Rounded(principal * num, den) = 0
        <3>1. principal * num = 0
            BY <1>1
        <3>2. (2 * 0 + den) \div (2 * den) = 0
            <4> DEFINE q == (2 * 0 + den) \div (2 * den)
            <4>1. 2 * den \in Nat \ {0} /\ 2 * 0 + den = den /\ den \in Int
                OBVIOUS
            <4>2. q \in Int /\ (2 * den) * q <= den /\ den < (2 * den) * q + 2 * den
                BY <4>1, Quotient
            <4> HIDE DEF q
            <4>3. q < 1
                <5> SUFFICES ASSUME q >= 1 PROVE FALSE
                    BY <4>2
                <5>1. 2 * den <= (2 * den) * q
                    BY <4>2
                <5> QED
                    BY <4>1, <4>2, <5>1
            <4>4. q > -1
                <5> SUFFICES ASSUME q <= -1 PROVE FALSE
                    BY <4>2
                <5>1. (2 * den) * q <= -(2 * den)
                    BY <4>2
                <5> QED
                    BY <4>1, <4>2, <5>1
            <4> QED
                BY <4>2, <4>3, <4>4 DEF q
        <3> QED
            BY <3>1, <3>2 DEF C!Rounded
    <2> QED
        BY <2>1, <2>2, <2>3
<1>2. CASE num # 0
    <2> DEFINE x == C!Power(num + den, n)
    <2> DEFINE y == C!Power(den, n)
    <2> DEFINE d == x - y
    <2> DEFINE a == principal * num
    <2>1. C!MonthlyPayment(principal, num, den, n) = C!Rounded(a * x, den * d)
        BY <1>2 DEF C!MonthlyPayment
    <2>2. x \in Nat \ {0} /\ y \in Nat \ {0} /\ y < x
        <3>1. num + den \in Nat \ {0} /\ den < num + den /\ n - 1 \in Nat /\ (n - 1) + 1 = n
            BY <1>2
        <3>2. C!Power(den, (n - 1) + 1) < C!Power(num + den, (n - 1) + 1)
            BY <3>1, PowerOrder
        <3>3. C!Power(den, n) \in Nat \ {0} /\ C!Power(num + den, n) \in Nat \ {0}
            BY <3>1, PowerOrder
        <3> QED
            BY <3>1, <3>2, <3>3
    <2> HIDE DEF x, y
    <2>3. d \in Nat \ {0} /\ d <= x
        BY <2>2
    <2>4. a \in Nat
        OBVIOUS
    <2> HIDE DEF d, a
    <2>5. C!Rounded(a, den) <= C!Rounded(a * x, den * d)
        BY <2>2, <2>3, <2>4, RoundedScale
    <2>6. C!Rounded(a * x, den * d) \in Nat
        <3>1. a * x \in Nat /\ den * d \in Nat \ {0}
            BY <2>2, <2>3, <2>4, TimesLess
        <3> QED
            BY <3>1, RoundedTyped
    <2> QED
        BY <2>1, <2>5, <2>6 DEF a
<1> QED
    BY <1>1, <1>2
-----------------------------------------------------------------------------
\* The schedule of a credit

\* The row after a balance, the last row of n repaying all of it.
RowAfter(payment, num, den, n, i, left) ==
    LET interest == C!Rounded(left * num, den)
        portion == IF i = n THEN left ELSE payment - interest
    IN  C!Installment(portion, interest, left)

RowsOf(principal, payment, num, den, n, k, f) ==
    f = [i \in 0..k |-> IF i = 0 THEN C!Installment(0, 0, principal)
                        ELSE RowAfter(payment, num, den, n, i, f[i - 1].balance)]

LEMMA RowsExist ==
    ASSUME NEW principal, NEW payment, NEW num, NEW den, NEW n, NEW m \in Nat
    PROVE  \E f : RowsOf(principal, payment, num, den, n, m, f)
<1> DEFINE First == C!Installment(0, 0, principal)
<1> DEFINE After(i, r) == RowAfter(payment, num, den, n, i, r.balance)
<1> DEFINE Rows(k, f) == f = [i \in 0..k |-> IF i = 0 THEN First ELSE After(i, f[i - 1])]
<1> DEFINE T == {k \in Nat : \E f : Rows(k, f)}
<1> HIDE DEF First, After
<1>1. 0 \in T
    <2>1. Rows(0, [i \in 0..0 |-> First])
        OBVIOUS
    <2> QED
        BY <2>1
<1>2. ASSUME NEW k \in Nat, k \in T PROVE k + 1 \in T
    <2>1. PICK f : Rows(k, f)
        BY <1>2
    <2> DEFINE g == [i \in 0..(k + 1) |-> IF i = k + 1 THEN After(k + 1, f[k]) ELSE f[i]]
    <2>2. g[k + 1] = After(k + 1, f[k]) /\ \A i \in 0..k : g[i] = f[i]
        OBVIOUS
    <2>3. ASSUME NEW i \in 0..(k + 1) PROVE g[i] = IF i = 0 THEN First ELSE After(i, g[i - 1])
        <3>1. CASE i = k + 1
            <4>1. i - 1 = k /\ k \in 0..k /\ i # 0
                BY <3>1
            <4> HIDE DEF g
            <4> QED
                BY <2>2, <3>1, <4>1
        <3>2. CASE i # k + 1
            <4>1. i \in 0..k /\ (i # 0 => i - 1 \in 0..k)
                BY <3>2
            <4>2. f[i] = IF i = 0 THEN First ELSE After(i, f[i - 1])
                BY <2>1, <4>1
            <4> HIDE DEF g
            <4> QED
                BY <2>2, <4>1, <4>2
        <3> QED
            BY <3>1, <3>2
    <2>4. g = [i \in 0..(k + 1) |-> IF i = 0 THEN First ELSE After(i, g[i - 1])]
        BY <2>3
    <2> HIDE DEF g
    <2>5. Rows(k + 1, g)
        BY <2>4
    <2> HIDE DEF Rows
    <2>6. k + 1 \in Nat
        OBVIOUS
    <2> QED
        BY <2>5, <2>6
<1>3. T = Nat
    <2> HIDE DEF T
    <2>1. T \in SUBSET Nat
        BY DEF T
    <2> QED
        BY <1>1, <1>2, <2>1, Induction
<1>4. PICK f : Rows(m, f)
    BY <1>3
<1> QED
    BY <1>4 DEF RowsOf, First, After

\* The rows lead from what is financed to nothing.
Leads(rows, principal, num, den, n, left) ==
    /\ left[0] = principal /\ left[n] = 0 /\ \A i \in 0..n : left[i] \in Int
    /\ \A i \in 1..n :
        /\ rows[i].portion = left[i - 1] - left[i]
        /\ rows[i].interest = C!Rounded(left[i - 1] * num, den)
        /\ i < n => rows[i].portion = C!MonthlyPayment(principal, num, den, n) - rows[i].interest

LEMMA ScheduleShape ==
    ASSUME NEW principal \in Nat, NEW num \in Nat, NEW den \in Nat \ {0}, NEW n \in Nat \ {0}
    PROVE  \E left : Leads(C!AmortizationSchedule(principal, num, den, n), principal, num, den, n, left)
<1> DEFINE payment == C!MonthlyPayment(principal, num, den, n)
<1> DEFINE rows == C!AmortizationSchedule(principal, num, den, n)
<1> DEFINE Rows(f) == RowsOf(principal, payment, num, den, n, n, f)
<1> DEFINE line == CHOOSE f : Rows(f)
<1>1. Rows(line)
    <2>1. \E f : Rows(f)
        BY RowsExist
    <2> HIDE DEF Rows
    <2> QED
        BY <2>1
<1>2. rows = [i \in 1..n |-> line[i]]
    BY DEF C!AmortizationSchedule, RowsOf, RowAfter
<1>0. payment \in Int
    BY PaymentCovers
<1> HIDE DEF line, rows, payment
<1>3. line[0] = C!Installment(0, 0, principal)
    BY <1>1 DEF RowsOf
<1>4. \A i \in 1..n : line[i] = RowAfter(payment, num, den, n, i, line[i - 1].balance)
    <2> SUFFICES ASSUME NEW i \in 1..n PROVE line[i] = RowAfter(payment, num, den, n, i, line[i - 1].balance)
        OBVIOUS
    <2>1. i \in 0..n /\ i # 0
        OBVIOUS
    <2> QED
        BY <1>1, <2>1 DEF RowsOf
<1> HIDE DEF Rows
<1> DEFINE left == [i \in 0..n |-> line[i].balance]
<1>5. \A i \in 0..n : left[i] = line[i].balance
    OBVIOUS
<1> HIDE DEF left
<1>6. \A i \in 1..n : i - 1 \in 0..n /\ i \in 0..n
    OBVIOUS
<1>7. ASSUME NEW i \in 1..n, left[i - 1] \in Int
      PROVE  /\ left[i] \in Int
             /\ i = n => left[i] = 0
             /\ line[i].portion = left[i - 1] - left[i]
             /\ line[i].interest = C!Rounded(left[i - 1] * num, den)
             /\ i < n => line[i].portion = payment - line[i].interest
    <2> DEFINE x == left[i - 1]
    <2> DEFINE interest == C!Rounded(x * num, den)
    <2> DEFINE portion == IF i = n THEN x ELSE payment - interest
    <2>1. x \in Int /\ interest \in Int
        <3>1. x * num \in Int
            BY <1>7
        <3> QED
            BY <1>7, <3>1, RoundedTyped
    <2>2. payment \in Int
        BY <1>0
    <2>3. line[i] = C!Installment(portion, interest, x)
        BY <1>4, <1>5, <1>6 DEF RowAfter
    <2> HIDE DEF x, interest
    <2>4. portion \in Int /\ (i = n => portion = x) /\ (i < n => portion = payment - interest)
        BY <2>1, <2>2
    <2> HIDE DEF portion
    <2>5. line[i].portion = portion /\ line[i].interest = interest /\ line[i].balance = x - portion
        BY <2>3 DEF C!Installment
    <2>6. left[i] = x - portion
        BY <1>5, <1>6, <2>5
    <2>7. left[i] \in Int /\ (i = n => left[i] = 0) /\ portion = x - left[i]
        BY <2>1, <2>4, <2>6
    <2> QED
        BY <2>4, <2>5, <2>7 DEF x, interest
<1>8. left[0] = principal
    BY <1>3, <1>5 DEF C!Installment
<1>9. \A i \in 0..n : left[i] \in Int
    <2> DEFINE T == {i \in Nat : i <= n => left[i] \in Int}
    <2>1. 0 \in T
        BY <1>8
    <2>2. ASSUME NEW i \in Nat, i \in T PROVE i + 1 \in T
        <3>1. i + 1 \in Nat /\ (i + 1) - 1 = i
            OBVIOUS
        <3>2. i + 1 <= n => i + 1 \in 1..n /\ left[i] \in Int
            BY <2>2
        <3> QED
            BY <1>7, <3>1, <3>2
    <2>3. T = Nat
        <3> HIDE DEF T
        <3>1. T \in SUBSET Nat
            BY DEF T
        <3> QED
            BY <2>1, <2>2, <3>1, Induction
    <2> QED
        BY <2>3
<1>10. \A i \in 1..n : rows[i] = line[i]
    BY <1>2
<1>11. n \in 1..n
    OBVIOUS
<1> QED
    <2>1. left[n] = 0
        BY <1>6, <1>7, <1>9, <1>11
    <2>2. \A i \in 1..n :
            /\ rows[i].portion = left[i - 1] - left[i]
            /\ rows[i].interest = C!Rounded(left[i - 1] * num, den)
            /\ i < n => rows[i].portion = payment - rows[i].interest
        BY <1>6, <1>7, <1>9, <1>10
    <2>3. Leads(rows, principal, num, den, n, left)
        BY <1>8, <1>9, <2>1, <2>2 DEF Leads, payment
    <2> QED
        BY <2>3 DEF rows
\* The rows repay what is financed, only the last can take a negative part of
\* it, and the interest never grows.
Amortizes(rows, principal, n) ==
    /\ \A i \in 1..n : rows[i].portion \in Int /\ rows[i].interest \in Int
    /\ \A i \in 1..n : i < n => rows[i].portion >= 0
    /\ \A i, j \in 1..n : i < j => rows[i].interest >= rows[j].interest
    /\ Total(rows, 1..n) = principal

LEMMA ScheduleSound ==
    ASSUME NEW principal \in Nat, NEW num \in Nat, NEW den \in Nat \ {0}, NEW n \in Nat \ {0}
    PROVE  Amortizes(C!AmortizationSchedule(principal, num, den, n), principal, n)
<1> DEFINE rows == C!AmortizationSchedule(principal, num, den, n)
<1> DEFINE payment == C!MonthlyPayment(principal, num, den, n)
<1>0. PICK left : Leads(rows, principal, num, den, n, left)
    BY ScheduleShape
<1>1. /\ left[0] = principal /\ left[n] = 0 /\ \A i \in 0..n : left[i] \in Int
      /\ \A i \in 1..n :
          /\ rows[i].portion = left[i - 1] - left[i]
          /\ rows[i].interest = C!Rounded(left[i - 1] * num, den)
          /\ i < n => rows[i].portion = payment - rows[i].interest
    <2> HIDE DEF rows
    <2> QED
        BY <1>0 DEF Leads
<1>2. payment \in Nat /\ C!Rounded(principal * num, den) <= payment
    BY PaymentCovers
<1> HIDE DEF payment, rows
<1>3. \A i \in 1..n : /\ i - 1 \in 0..n /\ i \in 0..n
                      /\ left[i - 1] \in Int /\ left[i] \in Int /\ left[i - 1] * num \in Int
    <2> SUFFICES ASSUME NEW i \in 1..n
                 PROVE  /\ i - 1 \in 0..n /\ i \in 0..n
                        /\ left[i - 1] \in Int /\ left[i] \in Int /\ left[i - 1] * num \in Int
        OBVIOUS
    <2>1. i - 1 \in 0..n /\ i \in 0..n
        OBVIOUS
    <2>2. left[i - 1] \in Int /\ left[i] \in Int
        BY <1>1, <2>1
    <2> QED
        BY <2>1, <2>2
<1>4. \A i \in 1..n : rows[i].portion \in Int /\ rows[i].interest \in Int
    <2> SUFFICES ASSUME NEW i \in 1..n PROVE rows[i].portion \in Int /\ rows[i].interest \in Int
        OBVIOUS
    <2> DEFINE x == left[i - 1]
    <2> DEFINE y == left[i]
    <2>1. x \in Int /\ y \in Int /\ x * num \in Int
        BY <1>3
    <2>2. rows[i].portion = x - y /\ rows[i].interest = C!Rounded(x * num, den)
        BY <1>1
    <2> HIDE DEF x, y
    <2>3. C!Rounded(x * num, den) \in Int
        BY <2>1, RoundedTyped
    <2> QED
        BY <2>1, <2>2, <2>3
<1>5. ASSUME NEW i \in 1..n, NEW j \in 1..n, left[i - 1] >= left[j - 1]
      PROVE  rows[i].interest >= rows[j].interest
    <2> DEFINE x == left[i - 1]
    <2> DEFINE y == left[j - 1]
    <2>1. x \in Int /\ y \in Int /\ x >= y
        BY <1>3, <1>5
    <2>2. rows[i].interest = C!Rounded(x * num, den) /\ rows[j].interest = C!Rounded(y * num, den)
        BY <1>1
    <2> HIDE DEF x, y
    <2>3. y * num <= x * num /\ x * num \in Int /\ y * num \in Int
        BY <2>1
    <2>4. C!Rounded(y * num, den) <= C!Rounded(x * num, den)
        BY <2>3, RoundedOrder
    <2>5. C!Rounded(y * num, den) \in Int /\ C!Rounded(x * num, den) \in Int
        BY <2>3, RoundedTyped
    <2> QED
        BY <2>2, <2>4, <2>5
<1>6. ASSUME NEW i \in 1..n, left[i - 1] <= principal, i < n
      PROVE  rows[i].portion >= 0 /\ left[i] <= left[i - 1]
    <2>1. 1 \in 1..n /\ left[1 - 1] = principal
        BY <1>1
    <2>2. rows[1].interest >= rows[i].interest
        BY <1>5, <1>6, <2>1
    <2>3. rows[1].interest = C!Rounded(principal * num, den)
        BY <1>1, <2>1
    <2>4. rows[1].interest \in Int /\ rows[i].interest \in Int
        BY <1>4, <2>1
    <2>5. rows[i].portion = payment - rows[i].interest /\ rows[i].portion = left[i - 1] - left[i]
        BY <1>1, <1>6
    <2>6. left[i - 1] \in Int /\ left[i] \in Int
        BY <1>3
    <2> QED
        BY <1>2, <2>2, <2>3, <2>4, <2>5, <2>6
<1>7. \A i \in Nat : i < n => left[i] <= principal
    <2> DEFINE T == {i \in Nat : i < n => left[i] <= principal}
    <2>1. 0 \in T
        BY <1>1
    <2>2. ASSUME NEW i \in Nat, i \in T PROVE i + 1 \in T
        <3> SUFFICES ASSUME i + 1 < n PROVE left[i + 1] <= principal
            OBVIOUS
        <3>1. i + 1 \in 1..n /\ (i + 1) - 1 = i
            OBVIOUS
        <3>2. left[i] <= principal
            BY <2>2
        <3>3. left[i + 1] <= left[i] /\ left[i] \in Int /\ left[i + 1] \in Int
            BY <1>3, <1>6, <3>1, <3>2
        <3> QED
            BY <3>2, <3>3
    <2>3. T = Nat
        <3> HIDE DEF T
        <3>1. T \in SUBSET Nat
            BY DEF T
        <3> QED
            BY <2>1, <2>2, <3>1, Induction
    <2> QED
        BY <2>3
<1>8. \A i \in 1..n : left[i - 1] <= principal
    <2> SUFFICES ASSUME NEW i \in 1..n PROVE left[i - 1] <= principal
        OBVIOUS
    <2>1. i - 1 \in Nat /\ i - 1 < n
        OBVIOUS
    <2> QED
        BY <1>7, <2>1
<1>9. \A i \in 1..n : i < n => rows[i].portion >= 0 /\ left[i] <= left[i - 1]
    BY <1>6, <1>8
<1>10. \A i \in Nat : \A j \in Nat : j <= i /\ i < n => left[i] <= left[j]
    <2> DEFINE T == {i \in Nat : \A j \in Nat : j <= i /\ i < n => left[i] <= left[j]}
    <2>1. 0 \in T
        <3> SUFFICES ASSUME NEW j \in Nat, j <= 0 PROVE left[0] <= left[j]
            OBVIOUS
        <3>1. j = 0
            OBVIOUS
        <3> QED
            BY <1>1, <3>1
    <2>2. ASSUME NEW i \in Nat, i \in T PROVE i + 1 \in T
        <3> SUFFICES ASSUME NEW j \in Nat, j <= i + 1, i + 1 < n PROVE left[i + 1] <= left[j]
            OBVIOUS
        <3>1. i + 1 \in 1..n /\ (i + 1) - 1 = i /\ j \in 0..n
            OBVIOUS
        <3>2. left[i + 1] \in Int /\ left[i] \in Int /\ left[j] \in Int /\ left[i + 1] <= left[i]
            BY <1>1, <1>3, <1>9, <3>1
        <3>3. CASE j = i + 1
            BY <3>2, <3>3
        <3>4. CASE j # i + 1
            <4>1. left[i] <= left[j]
                BY <2>2, <3>4
            <4> QED
                BY <3>2, <4>1
        <3> QED
            BY <3>3, <3>4
    <2>3. T = Nat
        <3> HIDE DEF T
        <3>1. T \in SUBSET Nat
            BY DEF T
        <3> QED
            BY <2>1, <2>2, <3>1, Induction
    <2> QED
        BY <2>3
<1>11. ASSUME NEW i \in 1..n, NEW j \in 1..n, i < j PROVE rows[i].interest >= rows[j].interest
    <2>1. i - 1 \in Nat /\ j - 1 \in Nat /\ i - 1 <= j - 1 /\ j - 1 < n
        BY <1>11
    <2>2. left[j - 1] <= left[i - 1]
        BY <1>10, <2>1
    <2> QED
        BY <1>3, <1>5, <2>2
<1>12. \A i \in Nat : i <= n => Total(rows, 1..i) = principal - left[i]
    <2> DEFINE T == {i \in Nat : i <= n => Total(rows, 1..i) = principal - left[i]}
    <2>1. 0 \in T
        <3>1. 1..0 = {}
            OBVIOUS
        <3> QED
            BY <1>1, <3>1, TotalNothing
    <2>2. ASSUME NEW i \in Nat, i \in T PROVE i + 1 \in T
        <3> SUFFICES ASSUME i + 1 <= n PROVE Total(rows, 1..(i + 1)) = principal - left[i + 1]
            OBVIOUS
        <3>1. i + 1 \in 1..n /\ (i + 1) - 1 = i
            OBVIOUS
        <3>2. Total(rows, 1..i) = principal - left[i]
            BY <2>2
        <3>3. IsFiniteSet(1..(i + 1)) /\ i + 1 \in 1..(i + 1) /\ (1..(i + 1)) \ {i + 1} = 1..i
            <4>1. 1 \in Int /\ i + 1 \in Int
                OBVIOUS
            <4>2. IsFiniteSet(1..(i + 1))
                BY <4>1, FS_Interval
            <4>3. i + 1 \in 1..(i + 1) /\ (1..(i + 1)) \ {i + 1} = 1..i
                OBVIOUS
            <4> QED
                BY <4>2, <4>3
        <3>4. \A x \in 1..(i + 1) : rows[x].portion \in Int
            BY <1>4
        <3>5. Total(rows, 1..(i + 1)) = rows[i + 1].portion + Total(rows, 1..i)
            <4> DEFINE S == 1..(i + 1)
            <4>1. IsFiniteSet(S) /\ i + 1 \in S /\ \A x \in S : rows[x].portion \in Int
                BY <3>3, <3>4
            <4>2. S \ {i + 1} = 1..i
                BY <3>3
            <4> HIDE DEF S
            <4>3. Total(rows, S) = rows[i + 1].portion + Total(rows, S \ {i + 1})
                BY <4>1, TotalAdd
            <4> QED
                BY <4>2, <4>3 DEF S
        <3>6. rows[i + 1].portion = left[i] - left[i + 1] /\ left[i] \in Int /\ left[i + 1] \in Int
            BY <1>1, <1>3, <3>1
        <3> QED
            BY <3>2, <3>5, <3>6
    <2>3. T = Nat
        <3> HIDE DEF T
        <3>1. T \in SUBSET Nat
            BY DEF T
        <3> QED
            BY <2>1, <2>2, <3>1, Induction
    <2> QED
        BY <2>3
<1>13. Total(rows, 1..n) = principal
    BY <1>1, <1>12
<1>14. Amortizes(rows, principal, n)
    BY <1>4, <1>9, <1>11, <1>13 DEF Amortizes
<1> QED
    BY <1>14 DEF rows
\* Without installments that are negative, less of them is no more to repay.
LEMMA TotalLess ==
    ASSUME NEW inst, NEW S, IsFiniteSet(S), NEW x,
           \A y \in S : inst[y].portion \in Int /\ inst[y].portion >= 0
    PROVE  Total(inst, S \ {x}) <= Total(inst, S)
<1>1. IsFiniteSet(S \ {x}) /\ S \ {x} \in SUBSET S
    BY FS_Subset
<1>2. Total(inst, S) \in Int /\ Total(inst, S \ {x}) \in Int
    BY <1>1, TotalTyped
<1>3. CASE x \in S
    <2>1. Total(inst, S) = inst[x].portion + Total(inst, S \ {x})
        BY <1>3, TotalAdd
    <2> QED
        BY <1>2, <1>3, <2>1
<1>4. CASE x \notin S
    <2>1. S \ {x} = S
        BY <1>4
    <2> QED
        BY <1>2, <2>1
<1> QED
    BY <1>3, <1>4

-----------------------------------------------------------------------------
\* Credits

\* No installment takes a negative part of what is financed.
Even == installment[Len(installment)].portion >= 0

\* What is left to repay, and what a request pays that is about to commit.
Owed == Total(installment, C!Unpaid)
OwedWith(i) == Total(installment, C!Unpaid \cup {i})

\* The installments of a credit are those of a schedule.
Scheduled ==
    /\ credit.status = "ABSENT" => credit = C!NoCredit /\ installment = <<>>
    /\ credit.status # "ABSENT" =>
        /\ installment # <<>>
        /\ credit.financed = Total(installment, DOMAIN installment)
        /\ \A i \in DOMAIN installment : i < Len(installment) => installment[i].portion >= 0
        /\ \A i, j \in DOMAIN installment : i < j => installment[i].interest >= installment[j].interest

\* A request that pays goes by a balance no less than what was left then, the
\* installment it is about to pay included.
Informed(c) ==
    c.step \in {"installment", "commit"} =>
        /\ credit.status # "ABSENT" /\ c.seen.status # "ABSENT" /\ c.number \in DOMAIN installment
        /\ Even => /\ c.seen.balance >= Owed
                   /\ c.step = "commit" => c.seen.balance >= OwedWith(c.number)

\* It goes by the credit as it is.
UpToDate(c) ==
    /\ c.step \in {"installment", "commit"} => c.seen = credit
    /\ c.step = "commit" => c.number \in C!Unpaid

\* No two requests are in flight together.
Alone == \A p, q \in Payers : call[p] # C!Hung /\ call[q] # C!Hung => p = q

Exact ==
    /\ Alone
    /\ \A q \in Payers : UpToDate(call[q])
    /\ credit.paid = cashed
    /\ credit.status # "ABSENT" /\ Even =>
        /\ credit.balance = Owed
        /\ (credit.status = "PAID_OFF") <=> (credit.balance = 0)

CreditInv ==
    /\ C!CreditTypeOK
    /\ Scheduled
    /\ credit.status # "ABSENT" /\ Even => credit.balance >= Owed
    /\ \A q \in Payers : Informed(call[q])
    /\ scene = "credit" => Exact

LEMMA HungType == C!Hung \in C!Call /\ C!NoCredit \in C!CreditRow
<1>1. C!NoCredit \in C!CreditRow
    BY DEF C!NoCredit, C!CreditRow
<1>2. <<>> \in Seq(C!Statement({"alert"}))
    OBVIOUS
<1> QED
    BY <1>1, <1>2 DEF C!Hung, C!Call

LEMMA CallOf ==
    ASSUME NEW c \in C!Call
    PROVE  /\ c.step \in {"hung", "insert", "installment", "commit", "sync", "next", "perform"}
           /\ c.number \in Nat /\ c.sum \in Nat /\ c.agenda \in Seq(C!Statement({"alert"}))
           /\ c.seen.status \in {"ABSENT", "ACTIVE", "PAID_OFF"}
           /\ c.seen.balance \in Nat /\ c.seen.paid \in Nat
BY DEF C!Call, C!CreditRow

LEMMA InstallmentsTyped ==
    ASSUME CreditInv
    PROVE  /\ Len(installment) \in Nat /\ DOMAIN installment = 1..Len(installment)
           /\ IsFiniteSet(DOMAIN installment)
           /\ \A i \in DOMAIN installment :
               /\ installment[i] \in [portion : Int, interest : Int, paid : BOOLEAN]
               /\ installment[i].portion \in Int /\ installment[i].interest \in Int
               /\ installment[i].paid \in BOOLEAN
               /\ credit.status # "ABSENT" /\ Even => installment[i].portion >= 0
           /\ C!Unpaid \in SUBSET (DOMAIN installment) /\ IsFiniteSet(C!Unpaid)
<1>1. installment \in Seq([portion : Int, interest : Int, paid : BOOLEAN])
    BY DEF CreditInv, C!CreditTypeOK
<1>2. Len(installment) \in Nat /\ DOMAIN installment = 1..Len(installment)
    BY <1>1
<1>3. IsFiniteSet(DOMAIN installment)
    BY <1>2, FS_Interval
<1>4. \A i \in DOMAIN installment : installment[i] \in [portion : Int, interest : Int, paid : BOOLEAN]
    <2> DEFINE S == [portion : Int, interest : Int, paid : BOOLEAN]
    <2>1. installment \in Seq(S)
        BY <1>1
    <2> HIDE DEF S
    <2>2. \A i \in DOMAIN installment : installment[i] \in S
        BY <2>1
    <2> QED
        BY <2>2 DEF S
<1>5. ASSUME NEW i \in DOMAIN installment, credit.status # "ABSENT", Even
      PROVE  installment[i].portion >= 0
    <2>1. i < Len(installment) \/ i = Len(installment)
        BY <1>2
    <2> QED
        BY <1>5, <2>1 DEF CreditInv, Scheduled, Even
<1>6. C!Unpaid \in SUBSET (DOMAIN installment)
    BY DEF C!Unpaid
<1>7. IsFiniteSet(C!Unpaid)
    BY <1>3, <1>6, FS_Subset
<1> QED
    BY <1>2, <1>3, <1>4, <1>5, <1>6, <1>7

\* One request that changes leaves no two in flight.
LEMMA StaysAlone ==
    ASSUME CreditInv, scene = "credit", CreditRule, NEW q \in Payers, NEW c,
           call' = [call EXCEPT ![q] = c]
    PROVE  Alone'
<1> DEFINE S == {p \in Payers : call'[p] # C!Hung}
<1> DEFINE L == {p \in Payers : call[p] # C!Hung}
<1>1. Cardinality(S) <= 1
    BY DEF CreditRule
<1>2. IsFiniteSet(L)
    <2>1. CASE L = {}
        BY <2>1, FS_EmptySet
    <2>2. CASE L # {}
        <3>1. PICK p : p \in L
            BY <2>2
        <3>2. L = {p}
            BY <3>1 DEF CreditInv, Exact, Alone
        <3> HIDE DEF L
        <3> QED
            BY <3>2, FS_Singleton
    <2> QED
        BY <2>1, <2>2
<1>3. S \in SUBSET (L \cup {q})
    <2>1. call \in [Payers -> C!Call]
        BY DEF CreditInv, C!CreditTypeOK
    <2> QED
        BY <2>1
<1>4. \A p \in Payers : call'[p] # C!Hung => p \in S
    OBVIOUS
<1> HIDE DEF S, L
<1>5. IsFiniteSet(L \cup {q})
    <2>1. IsFiniteSet({q})
        BY FS_Singleton
    <2> QED
        BY <1>2, <2>1, FS_Union
<1>6. IsFiniteSet(S)
    BY <1>3, <1>5, FS_Subset
<1>7. \A p, r \in S : p = r
    BY <1>1, <1>6, AtMostOne
<1> QED
    BY <1>4, <1>7 DEF Alone

\* What a step makes of a request, the credit being left as it is.
CallFrame(q, c) ==
    /\ call' = [call EXCEPT ![q] = c]
    /\ UNCHANGED <<scene, credit, installment, cashed>>

LEMMA CallFrameKeeps ==
    ASSUME CreditInv, NEW q \in Payers, NEW c \in C!Call, Informed(c), CallFrame(q, c),
           scene = "credit" => CreditRule /\ UpToDate(c),
           date' \in 0..LastDay, dunning' \in [{"alert"} -> Nat]
    PROVE  CreditInv'
<1>1. call \in [Payers -> C!Call]
    BY DEF CreditInv, C!CreditTypeOK
<1>2. call' \in [Payers -> C!Call] /\ \A p \in Payers : call'[p] = IF p = q THEN c ELSE call[p]
    BY <1>1 DEF CallFrame
<1>3. UNCHANGED <<scene, credit, installment, cashed>>
    BY DEF CallFrame
<1>4. C!CreditTypeOK'
    BY <1>2, <1>3 DEF CreditInv, C!CreditTypeOK
<1>5. UNCHANGED <<Even, Owed, C!Unpaid>> /\ \A i : OwedWith(i)' = OwedWith(i)
    BY <1>3 DEF Even, Owed, OwedWith, C!Unpaid
<1>6. Scheduled'
    BY <1>3 DEF CreditInv, Scheduled
<1>7. (credit.status # "ABSENT" /\ Even => credit.balance >= Owed)'
    BY <1>3, <1>5 DEF CreditInv
<1>8. ASSUME NEW p \in Payers PROVE Informed(call[p])'
    <2>1. Informed(IF p = q THEN c ELSE call[p])
        BY DEF CreditInv
    <2> QED
        BY <1>2, <1>3, <1>5, <2>1 DEF Informed
<1>9. ASSUME scene = "credit" PROVE Exact'
    <2>1. Alone'
        BY <1>9, StaysAlone DEF CallFrame
    <2>2. ASSUME NEW p \in Payers PROVE UpToDate(call[p])'
        <3>1. UpToDate(IF p = q THEN c ELSE call[p])
            BY <1>9 DEF CreditInv, Exact
        <3> QED
            BY <1>2, <1>3, <1>5, <3>1 DEF UpToDate
    <2> QED
        BY <1>3, <1>5, <1>9, <2>1, <2>2 DEF CreditInv, Exact
<1> QED
    BY <1>3, <1>4, <1>6, <1>7, <1>8, <1>9 DEF CreditInv
\* The transaction that writes a credit and its schedule.
LEMMA InsertKeeps ==
    ASSUME CreditInv, scene' = scene, scene = "credit" => CreditRule,
           NEW q \in Payers, NEW financed \in Financed, NEW rate \in Rates, NEW term \in Terms,
           C!InsertCredit(q, financed, rate, term)
    PROVE  CreditInv'
<1>1. /\ financed \in Nat \ {0} /\ term \in Nat \ {0} /\ rate[1] \in Nat /\ rate[2] \in Nat \ {0}
      /\ C!NoCredit.status = "ABSENT" /\ C!NoCredit.paid = 0
    BY OfficeAssumption DEF C!NoCredit
<1>2. call \in [Payers -> C!Call] /\ call[q] \in C!Call /\ date \in 0..LastDay
      /\ dunning \in [{"alert"} -> Nat] /\ cashed \in Nat
    BY DEF CreditInv, C!CreditTypeOK
<1>3. credit = C!NoCredit /\ credit.status = "ABSENT" /\ UNCHANGED <<date, dunning, cashed>>
    BY <1>1 DEF C!InsertCredit
<1> DEFINE c == [call[q] EXCEPT !.step = "sync"]
<1>4. call' = [call EXCEPT ![q] = c] /\ c \in C!Call /\ c.step = "sync"
    BY <1>2 DEF C!InsertCredit, C!Move, C!Call
<1> HIDE DEF c
<1>5. call' \in [Payers -> C!Call] /\ \A p \in Payers : call'[p] = IF p = q THEN c ELSE call[p]
    BY <1>2, <1>4
<1>6. credit' \in C!CreditRow
      /\ credit'.status = "ACTIVE" /\ credit'.financed = financed
      /\ credit'.balance = financed /\ credit'.paid = 0
    BY <1>1 DEF C!InsertCredit, C!CreditRow
<1> DEFINE rows == C!AmortizationSchedule(financed, rate[1], rate[2], term)
<1>7. /\ \A i \in 1..term : rows[i].portion \in Int /\ rows[i].interest \in Int
      /\ \A i \in 1..term : i < term => rows[i].portion >= 0
      /\ \A i, j \in 1..term : i < j => rows[i].interest >= rows[j].interest
      /\ Total(rows, 1..term) = financed
    <2> DEFINE num == rate[1]
    <2> DEFINE den == rate[2]
    <2>1. num \in Nat /\ den \in Nat \ {0}
        BY <1>1
    <2>2. Amortizes(rows, financed, term)
        <3> HIDE DEF num, den
        <3> QED
            BY <1>1, <2>1, ScheduleSound
    <2> HIDE DEF rows
    <2> QED
        BY <2>2 DEF Amortizes
<1>8. installment' = [i \in 1..term |-> [portion |-> rows[i].portion,
                                         interest |-> rows[i].interest, paid |-> FALSE]]
    BY DEF C!InsertCredit
<1> HIDE DEF rows
<1>9. \A i \in 1..term : /\ installment'[i].portion = rows[i].portion
                         /\ installment'[i].interest = rows[i].interest
                         /\ installment'[i].paid = FALSE
                         /\ installment'[i] \in [portion : Int, interest : Int, paid : BOOLEAN]
    BY <1>7, <1>8
<1>10. /\ installment' \in Seq([portion : Int, interest : Int, paid : BOOLEAN])
       /\ Len(installment') = term /\ DOMAIN installment' = 1..term /\ installment' # <<>>
    <2>1. installment' \in [1..term -> [portion : Int, interest : Int, paid : BOOLEAN]]
        BY <1>8, <1>9
    <2>2. DOMAIN installment' = 1..term
        BY <2>1
    <2>3. installment' \in Seq([portion : Int, interest : Int, paid : BOOLEAN])
        <3> DEFINE S == [portion : Int, interest : Int, paid : BOOLEAN]
        <3>1. installment' \in [1..term -> S] /\ term \in Nat
            BY <1>1, <2>1
        <3> HIDE DEF S
        <3>2. installment' \in Seq(S)
            BY <3>1
        <3> QED
            BY <3>2 DEF S
    <2>4. Len(installment') = term
        BY <1>1, <2>2, <2>3
    <2>5. installment' # <<>>
        BY <1>1, <2>4
    <2> QED
        BY <2>2, <2>3, <2>4, <2>5
<1>11. IsFiniteSet(1..term)
    BY <1>1, FS_Interval
<1>12. Total(installment', 1..term) = financed
    <2>1. Total(installment', 1..term) = Total(rows, 1..term)
        <3> DEFINE S == 1..term
        <3>1. \A x \in S : installment'[x].portion = rows[x].portion
            BY <1>9
        <3>2. IsFiniteSet(S)
            BY <1>11
        <3> HIDE DEF S
        <3>3. Total(installment', S) = Total(rows, S)
            BY <3>1, <3>2, TotalSame
        <3> QED
            BY <3>3 DEF S
    <2> QED
        BY <1>7, <2>1
<1>13. C!Unpaid' = 1..term
    BY <1>9, <1>10 DEF C!Unpaid
<1>14. Scheduled'
    BY <1>6, <1>7, <1>9, <1>10, <1>12 DEF Scheduled
<1>15. Owed' = financed
    BY <1>12, <1>13 DEF Owed
<1>16. C!CreditTypeOK'
    BY <1>2, <1>3, <1>5, <1>6, <1>10 DEF C!CreditTypeOK
<1>17. \A p \in Payers : call'[p].step \notin {"installment", "commit"}
    BY <1>3, <1>4, <1>5 DEF CreditInv, Informed
<1>18. \A p \in Payers : Informed(call[p])'
    BY <1>17 DEF Informed
<1>19. ASSUME scene = "credit" PROVE Exact'
    <2>1. Alone'
        BY <1>4, <1>19, StaysAlone
    <2>2. \A p \in Payers : UpToDate(call[p])'
        BY <1>17 DEF UpToDate
    <2>3. credit'.paid = cashed'
        BY <1>1, <1>3, <1>6, <1>19 DEF CreditInv, Exact
    <2> QED
        BY <1>1, <1>6, <1>15, <2>1, <2>2, <2>3 DEF Exact
<1>20. credit'.balance >= Owed'
    BY <1>1, <1>6, <1>15
<1> QED
    BY <1>14, <1>16, <1>18, <1>19, <1>20 DEF CreditInv

\* The transaction that pays an installment takes its principal off the balance
\* that was read; what is left to repay is less by as much.
LEMMA CommitKeeps ==
    ASSUME CreditInv, scene' = scene, scene = "credit" => CreditRule,
           NEW q \in Payers, C!CommitInstallment(q)
    PROVE  CreditInv'
<1> DEFINE seen == call[q].seen
<1> DEFINE i == call[q].number
<1> DEFINE sum == call[q].sum
<1> DEFINE left == C!BalanceAfter(seen, i, sum)
<1> DEFINE portion == installment[i].portion
<1> DEFINE c == [call[q] EXCEPT !.step = "sync"]
<1>1. /\ call[q].step = "commit" /\ call' = [call EXCEPT ![q] = c]
      /\ installment' = [installment EXCEPT ![i].paid = TRUE]
      /\ credit' = [credit EXCEPT !.paid = seen.paid + sum, !.balance = left,
                                  !.status = IF left = 0 THEN "PAID_OFF" ELSE seen.status]
      /\ cashed' = cashed + sum
      /\ UNCHANGED <<date, dunning>>
    BY DEF C!CommitInstallment, C!Move
<1>2. call \in [Payers -> C!Call] /\ call[q] \in C!Call /\ date \in 0..LastDay
      /\ dunning \in [{"alert"} -> Nat] /\ cashed \in Nat /\ credit \in C!CreditRow
      /\ installment \in Seq([portion : Int, interest : Int, paid : BOOLEAN])
    BY DEF CreditInv, C!CreditTypeOK
<1>3. /\ i \in Nat /\ sum \in Nat /\ seen.balance \in Nat /\ seen.paid \in Nat
      /\ seen.status \in {"ABSENT", "ACTIVE", "PAID_OFF"}
    BY <1>2, CallOf
<1>4. /\ credit.status # "ABSENT" /\ seen.status # "ABSENT" /\ i \in DOMAIN installment
      /\ Even => seen.balance >= Owed /\ seen.balance >= OwedWith(i)
    BY <1>1 DEF CreditInv, Informed
<1>5. portion \in Int /\ (Even => portion >= 0)
    BY <1>4, InstallmentsTyped
<1>6. left = IF portion < seen.balance THEN seen.balance - portion ELSE 0
    BY DEF C!BalanceAfter
<1>7. c \in C!Call /\ c.step = "sync"
    BY <1>2 DEF C!Call
<1>8. call' \in [Payers -> C!Call] /\ \A p \in Payers : call'[p] = IF p = q THEN c ELSE call[p]
    BY <1>1, <1>2, <1>7
<1>9. scene = "credit" => seen = credit /\ i \in C!Unpaid
    BY <1>1 DEF CreditInv, Exact, UpToDate
<1> HIDE DEF c, seen, sum, left, portion, i
<1>10. left \in Nat
    BY <1>3, <1>5, <1>6
<1>11. /\ credit' \in C!CreditRow
       /\ credit'.paid = seen.paid + sum /\ credit'.balance = left
       /\ credit'.status = IF left = 0 THEN "PAID_OFF" ELSE seen.status
       /\ credit'.financed = credit.financed
    <2> DEFINE status == IF left = 0 THEN "PAID_OFF" ELSE seen.status
    <2> DEFINE paid == seen.paid + sum
    <2>1. status \in {"ABSENT", "ACTIVE", "PAID_OFF"} /\ paid \in Nat
        BY <1>3
    <2>2. credit' = [credit EXCEPT !.paid = paid, !.balance = left, !.status = status]
        BY <1>1
    <2> HIDE DEF status, paid
    <2>3. credit' \in C!CreditRow
          /\ credit'.paid = paid /\ credit'.balance = left
          /\ credit'.status = status /\ credit'.financed = credit.financed
        BY <1>2, <1>10, <2>1, <2>2 DEF C!CreditRow
    <2> QED
        BY <2>3 DEF status, paid
<1>12. credit'.status # "ABSENT"
    BY <1>4, <1>11
<1>13. /\ DOMAIN installment' = DOMAIN installment /\ Len(installment') = Len(installment)
       /\ installment' \in Seq([portion : Int, interest : Int, paid : BOOLEAN])
       /\ installment' # <<>>
    <2> DEFINE r == [installment[i] EXCEPT !.paid = TRUE]
    <2>1. r \in [portion : Int, interest : Int, paid : BOOLEAN]
        BY <1>4, InstallmentsTyped
    <2>2. installment' = [installment EXCEPT ![i] = r]
        BY <1>1
    <2> HIDE DEF r
    <2>3. i \in 1..Len(installment)
        BY <1>2, <1>4
    <2> QED
        BY <1>2, <2>1, <2>2, <2>3
<1>14. \A j \in DOMAIN installment :
            /\ installment'[j].portion = installment[j].portion
            /\ installment'[j].interest = installment[j].interest
            /\ installment'[j].paid = IF j = i THEN TRUE ELSE installment[j].paid
    <2> SUFFICES ASSUME NEW j \in DOMAIN installment
                 PROVE  /\ installment'[j].portion = installment[j].portion
                        /\ installment'[j].interest = installment[j].interest
                        /\ installment'[j].paid = IF j = i THEN TRUE ELSE installment[j].paid
        OBVIOUS
    <2>1. installment[j] \in [portion : Int, interest : Int, paid : BOOLEAN]
        BY InstallmentsTyped
    <2>2. installment'[j] = IF j = i THEN [installment[j] EXCEPT !.paid = TRUE] ELSE installment[j]
        BY <1>1, <1>2
    <2> QED
        BY <2>1, <2>2
<1>15. C!Unpaid' = C!Unpaid \ {i}
    BY <1>13, <1>14 DEF C!Unpaid
<1>16. \A S \in SUBSET (DOMAIN installment) : IsFiniteSet(S) /\ Total(installment', S) = Total(installment, S)
    <2> SUFFICES ASSUME NEW S \in SUBSET (DOMAIN installment)
                 PROVE  IsFiniteSet(S) /\ Total(installment', S) = Total(installment, S)
        OBVIOUS
    <2>1. IsFiniteSet(S)
        BY InstallmentsTyped, FS_Subset
    <2>2. \A x \in S : installment'[x].portion = installment[x].portion
        BY <1>14
    <2> QED
        BY <2>1, <2>2, TotalSame
<1>17. Even' = Even
    <2>1. Len(installment) \in DOMAIN installment
        <3>1. Len(installment) \in Nat /\ DOMAIN installment = 1..Len(installment) /\ i \in DOMAIN installment
            BY <1>4, InstallmentsTyped
        <3> QED
            BY <3>1
    <2> QED
        BY <1>13, <1>14, <2>1 DEF Even
<1>18. Scheduled'
    <2>1. credit.financed = Total(installment, DOMAIN installment)
        BY <1>4 DEF CreditInv, Scheduled
    <2>2. credit'.financed = Total(installment', DOMAIN installment')
        BY <1>11, <1>13, <1>16, <2>1
    <2>3. /\ \A j \in DOMAIN installment : j < Len(installment) => installment[j].portion >= 0
          /\ \A j, k \in DOMAIN installment : j < k => installment[j].interest >= installment[k].interest
        BY <1>4 DEF CreditInv, Scheduled
    <2> QED
        BY <1>12, <1>13, <1>14, <2>2, <2>3 DEF Scheduled
<1> DEFINE U == C!Unpaid \cup {i}
<1>19. U \in SUBSET (DOMAIN installment) /\ IsFiniteSet(U) /\ i \in U /\ U \ {i} = C!Unpaid'
    <2>1. U \in SUBSET (DOMAIN installment)
        BY <1>4, InstallmentsTyped
    <2> QED
        BY <1>15, <1>16, <2>1
<1>20. Owed' = Total(installment, C!Unpaid') /\ Owed' \in Int
    <2>1. C!Unpaid' \in SUBSET (DOMAIN installment)
        BY <1>19
    <2>2. Total(installment', C!Unpaid') = Total(installment, C!Unpaid') /\ IsFiniteSet(C!Unpaid')
        BY <1>16, <2>1
    <2>3. Total(installment, C!Unpaid') \in Int
        BY <2>1, <2>2, InstallmentsTyped, TotalTyped
    <2> QED
        BY <2>2, <2>3 DEF Owed
<1>21. OwedWith(i) = portion + Owed' /\ OwedWith(i) \in Int
    <2>1. \A x \in U : installment[x].portion \in Int
        BY <1>19, InstallmentsTyped
    <2>2. OwedWith(i) = Total(installment, U)
        BY DEF OwedWith
    <2> HIDE DEF U
    <2>3. Total(installment, U) = installment[i].portion + Total(installment, U \ {i})
        BY <1>19, <2>1, TotalAdd
    <2> QED
        BY <1>5, <1>19, <1>20, <2>2, <2>3 DEF portion
<1>22. Even => Owed' >= 0
    <2> SUFFICES ASSUME Even PROVE Owed' >= 0
        OBVIOUS
    <2>1. C!Unpaid' \in SUBSET (DOMAIN installment) /\ IsFiniteSet(C!Unpaid')
        BY <1>16, <1>19
    <2>2. \A x \in C!Unpaid' : installment[x].portion \in Int /\ installment[x].portion >= 0
        BY <1>4, <2>1, InstallmentsTyped
    <2> DEFINE S == C!Unpaid'
    <2>3. IsFiniteSet(S) /\ \A x \in S : installment[x].portion \in Int /\ installment[x].portion >= 0
        BY <2>1, <2>2
    <2>4. Owed' = Total(installment, S)
        BY <1>20
    <2> HIDE DEF S
    <2>5. Total(installment, S) >= 0
        BY <2>3, TotalTyped
    <2> QED
        BY <2>4, <2>5
<1>23. Even => left >= Owed'
    BY <1>3, <1>4, <1>5, <1>6, <1>20, <1>21
<1>24. ASSUME NEW p \in Payers PROVE Informed(call[p])'
    <2>1. CASE p = q
        BY <1>7, <1>8, <2>1 DEF Informed
    <2>2. CASE p # q
        <3> DEFINE d == call[p]
        <3>1. call'[p] = d /\ Informed(d)
            BY <1>8, <2>2 DEF CreditInv
        <3> SUFFICES ASSUME d.step \in {"installment", "commit"}
                     PROVE  /\ d.seen.status # "ABSENT" /\ d.number \in DOMAIN installment
                            /\ Even => /\ d.seen.balance >= Owed'
                                       /\ d.step = "commit" => d.seen.balance >= OwedWith(d.number)'
            BY <1>12, <1>13, <1>17, <3>1 DEF Informed
        <3>2. /\ d.seen.status # "ABSENT" /\ d.number \in DOMAIN installment
              /\ Even => /\ d.seen.balance >= Owed
                         /\ d.step = "commit" => d.seen.balance >= OwedWith(d.number)
            BY <3>1 DEF Informed
        <3>3. d.seen.balance \in Nat
            BY <1>2, CallOf
        <3> SUFFICES ASSUME Even
                     PROVE  /\ d.seen.balance >= Owed'
                            /\ d.step = "commit" => d.seen.balance >= OwedWith(d.number)'
            BY <3>2
        <3>4. \A S \in SUBSET (DOMAIN installment) :
                /\ Total(installment, S) \in Int /\ Total(installment, S \ {i}) \in Int
                /\ Total(installment, S \ {i}) <= Total(installment, S)
            <4> SUFFICES ASSUME NEW S \in SUBSET (DOMAIN installment)
                         PROVE  /\ Total(installment, S) \in Int /\ Total(installment, S \ {i}) \in Int
                                /\ Total(installment, S \ {i}) <= Total(installment, S)
                OBVIOUS
            <4>1. IsFiniteSet(S) /\ S \ {i} \in SUBSET (DOMAIN installment) /\ IsFiniteSet(S \ {i})
                BY <1>16
            <4>2. \A y \in S : installment[y].portion \in Int /\ installment[y].portion >= 0
                BY <1>4, InstallmentsTyped
            <4> QED
                BY <4>1, <4>2, TotalTyped, TotalLess
        <3>5. d.seen.balance >= Owed'
            <4>1. C!Unpaid \in SUBSET (DOMAIN installment)
                BY InstallmentsTyped
            <4>2. Owed' <= Owed /\ Owed \in Int
                BY <1>15, <1>20, <3>4, <4>1 DEF Owed
            <4> QED
                BY <1>20, <3>2, <3>3, <4>2
        <3>6. ASSUME d.step = "commit" PROVE d.seen.balance >= OwedWith(d.number)'
            <4> DEFINE k == d.number
            <4> DEFINE V == C!Unpaid \cup {k}
            <4>1. V \in SUBSET (DOMAIN installment)
                BY <3>2, InstallmentsTyped
            <4>2. d.seen.balance >= Total(installment, V)
                BY <3>2, <3>6 DEF OwedWith
            <4>3. OwedWith(k)' = Total(installment, (C!Unpaid \ {i}) \cup {k})
                <5>1. (C!Unpaid \ {i}) \cup {k} \in SUBSET (DOMAIN installment)
                    BY <4>1
                <5>2. Total(installment', (C!Unpaid \ {i}) \cup {k}) = Total(installment, (C!Unpaid \ {i}) \cup {k})
                    BY <1>16, <5>1
                <5>3. OwedWith(k)' = Total(installment', (C!Unpaid \ {i}) \cup {k})
                    <6>1. OwedWith(k)' = Total(installment', C!Unpaid' \cup {k'})
                        BY DEF OwedWith
                    <6>2. k' = k
                        BY <3>1
                    <6> QED
                        BY <1>15, <6>1, <6>2
                <5> QED
                    BY <5>2, <5>3
            <4>4. CASE k = i
                <5>1. (C!Unpaid \ {i}) \cup {k} = V
                    BY <4>4
                <5> QED
                    BY <4>2, <4>3, <5>1
            <4>5. CASE k # i
                <5>1. (C!Unpaid \ {i}) \cup {k} = V \ {i}
                    BY <4>5
                <5>2. Total(installment, V \ {i}) <= Total(installment, V)
                      /\ Total(installment, V) \in Int /\ Total(installment, V \ {i}) \in Int
                    BY <3>4, <4>1
                <5> QED
                    BY <3>3, <4>2, <4>3, <5>1, <5>2
            <4> QED
                BY <4>4, <4>5
        <3> QED
            BY <3>5, <3>6
    <2> QED
        BY <2>1, <2>2
<1>25. ASSUME scene = "credit" PROVE Exact'
    <2>1. Alone'
        BY <1>1, <1>25, StaysAlone
    <2>2. seen = credit /\ i \in C!Unpaid
        BY <1>9, <1>25
    <2>3. \A p \in Payers : call'[p].step \notin {"installment", "commit"}
        <3>1. C!Hung.step = "hung"
            BY DEF C!Hung
        <3>2. \A p \in Payers : p # q => call[p] = C!Hung
            BY <1>1, <1>25, <3>1 DEF CreditInv, Exact, Alone
        <3> QED
            BY <1>7, <1>8, <3>1, <3>2
    <2>4. \A p \in Payers : UpToDate(call[p])'
        BY <2>3 DEF UpToDate
    <2>5. credit'.paid = cashed'
        <3>1. credit.paid = cashed
            BY <1>25 DEF CreditInv, Exact
        <3> QED
            BY <1>1, <1>11, <2>2, <3>1
    <2>6. ASSUME Even PROVE credit'.balance = Owed' /\ ((credit'.status = "PAID_OFF") <=> (credit'.balance = 0))
        <3>1. credit.balance = Owed /\ ((credit.status = "PAID_OFF") <=> (credit.balance = 0))
            BY <1>4, <1>25, <2>6 DEF CreditInv, Exact
        <3>2. OwedWith(i) = Owed
            <4>1. C!Unpaid \cup {i} = C!Unpaid
                BY <2>2
            <4> QED
                BY <4>1 DEF OwedWith, Owed
        <3>3. seen.balance = portion + Owed'
            BY <1>21, <2>2, <3>1, <3>2
        <3>4. left = Owed'
            BY <1>3, <1>5, <1>6, <1>20, <1>22, <2>6, <3>3
        <3>5. left # 0 => seen.status # "PAID_OFF"
            BY <1>3, <1>5, <1>6, <2>2, <2>6, <3>1
        <3> QED
            BY <1>11, <3>4, <3>5
    <2> QED
        BY <1>17, <2>1, <2>4, <2>5, <2>6 DEF Exact
<1>26. C!CreditTypeOK'
    <2>1. cashed' \in Nat
        BY <1>1, <1>2, <1>3
    <2> QED
        BY <1>1, <1>2, <1>8, <1>11, <1>13, <2>1 DEF C!CreditTypeOK
<1>27. (credit.status # "ABSENT" /\ Even => credit.balance >= Owed)'
    BY <1>11, <1>17, <1>23
<1> QED
    BY <1>18, <1>24, <1>25, <1>26, <1>27 DEF CreditInv
\* One statement of a resync.
LEMMA DunningTyped ==
    ASSUME NEW raised \in [{"alert"} -> Nat], NEW a \in Seq(C!Statement({"alert"})), a # <<>>
    PROVE  /\ C!OpenAfter(raised, a) \in [{"alert"} -> Nat]
           /\ C!AgendaAfter(raised, a) \in Seq(C!Statement({"alert"}))
<1> DEFINE S == C!Statement({"alert"})
<1> DEFINE op == Head(a)
<1>1. op \in S /\ Tail(a) \in Seq(S)
    <2>1. a \in Seq(S)
        OBVIOUS
    <2> HIDE DEF S
    <2> QED
        BY <2>1, Agendas
<1>2. op.target \in {"alert"}
    BY <1>1 DEF C!Statement
<1>3. [op EXCEPT !.do = "create"] \in S
    BY <1>1 DEF C!Statement
<1> HIDE DEF op
<1>4. raised[op.target] \in Nat /\ raised[op.target] + 1 \in Nat
    BY <1>2
<1>5. C!OpenAfter(raised, a) \in [{"alert"} -> Nat]
    BY <1>2, <1>4 DEF C!OpenAfter, op
<1>6. <<[op EXCEPT !.do = "create"]>> \o Tail(a) \in Seq(S)
    <2> DEFINE x == [op EXCEPT !.do = "create"]
    <2>1. x \in S /\ a \in Seq(S)
        BY <1>3
    <2> HIDE DEF x, S
    <2> QED
        BY <2>1, Agendas DEF x
<1>7. C!AgendaAfter(raised, a) \in Seq(S)
    BY <1>1, <1>6 DEF C!AgendaAfter, op
<1> QED
    BY <1>5, <1>7

LEMMA CreditKept ==
    ASSUME CreditInv, CreditScene
    PROVE  CreditInv'
<1>1. /\ call \in [Payers -> C!Call] /\ date \in 0..LastDay /\ dunning \in [{"alert"} -> Nat]
      /\ credit \in C!CreditRow
    BY DEF CreditInv, C!CreditTypeOK
<1>2. C!CreditNext /\ scene' = scene /\ (scene = "credit" => CreditRule)
    BY DEF CreditScene
<1>3. \A q \in Payers : call[q] \in C!Call /\ Informed(call[q]) /\ (scene = "credit" => UpToDate(call[q]))
    BY <1>1 DEF CreditInv, Exact
<1>4. /\ C!Hung \in C!Call /\ C!Hung.step = "hung"
      /\ C!NoCredit \in C!CreditRow /\ C!NoCredit.status = "ABSENT"
    BY HungType DEF C!Hung, C!NoCredit
\* The request becomes one that is not paying.
<1>5. ASSUME NEW q \in Payers, NEW c \in C!Call, c.step \notin {"installment", "commit"},
             call' = [call EXCEPT ![q] = c], UNCHANGED <<credit, installment, cashed>>,
             date' = date, dunning' \in [{"alert"} -> Nat]
      PROVE  CreditInv'
    <2>1. Informed(c) /\ UpToDate(c)
        BY <1>5 DEF Informed, UpToDate
    <2>2. CallFrame(q, c)
        BY <1>2, <1>5 DEF CallFrame
    <2>3. date' \in 0..LastDay
        BY <1>1, <1>5
    <2> QED
        BY <1>2, <1>5, <2>1, <2>2, <2>3, CallFrameKeeps
\* So does one that moves to another step.
<1>6. ASSUME NEW q \in Payers, NEW from, NEW to \in {"insert", "sync"}, C!Move(q, from, to),
             UNCHANGED <<date, credit, installment, dunning, cashed>>
      PROVE  CreditInv'
    <2> DEFINE c == [call[q] EXCEPT !.step = to]
    <2>1. c \in C!Call /\ c.step = to
        BY <1>3 DEF C!Call
    <2>2. call' = [call EXCEPT ![q] = c]
        BY <1>6 DEF C!Move
    <2> HIDE DEF c
    <2>3. c.step \notin {"installment", "commit"}
        BY <2>1
    <2> QED
        BY <1>1, <1>5, <1>6, <2>1, <2>2, <2>3
<1>7. ASSUME C!Midnight PROVE CreditInv'
    <2>1. UNCHANGED <<scene, credit, installment, dunning, cashed, call>> /\ date' = date + 1 /\ date < LastDay
        BY <1>2, <1>7 DEF C!Midnight
    <2>2. date' \in 0..LastDay
        BY <1>1, <2>1, OfficeAssumption
    <2>3. C!CreditTypeOK'
        BY <2>1, <2>2 DEF CreditInv, C!CreditTypeOK
    <2>4. UNCHANGED <<Even, Owed, C!Unpaid, Alone>> /\ \A i : OwedWith(i)' = OwedWith(i)
        BY <2>1 DEF Even, Owed, OwedWith, C!Unpaid, Alone
    <2>5. Scheduled'
        BY <2>1 DEF CreditInv, Scheduled
    <2>6. \A q \in Payers : Informed(call[q])' /\ (UpToDate(call[q])' <=> UpToDate(call[q]))
        BY <1>3, <2>1, <2>4 DEF Informed, UpToDate
    <2>7. scene = "credit" => Exact'
        BY <1>3, <2>1, <2>4, <2>6 DEF CreditInv, Exact
    <2> QED
        BY <2>1, <2>3, <2>4, <2>5, <2>6, <2>7 DEF CreditInv
<1>8. ASSUME NEW q \in Payers, C!CreateCredit(q) PROVE CreditInv'
    BY <1>6, <1>8 DEF C!CreateCredit
<1>9. ASSUME NEW q \in Payers, NEW financed \in Financed, NEW rate \in Rates, NEW term \in Terms,
              C!InsertCredit(q, financed, rate, term)
       PROVE  CreditInv'
    BY <1>2, <1>9, InsertKeeps
<1>10. ASSUME NEW q \in Payers, NEW i \in DOMAIN installment, NEW sum \in Sums, C!ReadCredit(q, i, sum)
       PROVE  CreditInv'
    <2> DEFINE c == [C!Hung EXCEPT !.step = "installment", !.number = i, !.sum = sum, !.seen = credit]
    <2>1. i \in Nat /\ sum \in Nat
        BY InstallmentsTyped, OfficeAssumption
    <2>2. c \in C!Call /\ c.step = "installment" /\ c.number = i /\ c.seen = credit
        BY <1>1, <1>4, <2>1 DEF C!Call
    <2>3. call' = [call EXCEPT ![q] = c] /\ credit # C!NoCredit
          /\ UNCHANGED <<date, credit, installment, dunning, cashed>>
        BY <1>10 DEF C!ReadCredit
    <2> HIDE DEF c
    <2>4. credit.status # "ABSENT"
        BY <2>3 DEF CreditInv, Scheduled
    <2>5. Informed(c) /\ UpToDate(c)
        BY <2>2, <2>4 DEF CreditInv, Informed, UpToDate
    <2>6. CallFrame(q, c)
        BY <1>2, <2>3 DEF CallFrame
    <2>7. date' \in 0..LastDay /\ dunning' \in [{"alert"} -> Nat]
        BY <1>1, <2>3
    <2> QED
        BY <1>2, <2>2, <2>5, <2>6, <2>7, CallFrameKeeps
<1>11. ASSUME NEW q \in Payers, C!ReadInstallment(q) PROVE CreditInv'
    <2>1. call[q].step = "installment" /\ UNCHANGED <<date, credit, installment, dunning, cashed>>
        BY <1>11 DEF C!ReadInstallment
    <2> DEFINE i == call[q].number
    <2>2. i \in DOMAIN installment
        BY <1>3, <2>1 DEF Informed
    <2>3. CASE installment[i].paid
        <3>1. call' = [call EXCEPT ![q] = C!Hung]
            BY <1>11, <2>3 DEF C!ReadInstallment
        <3> QED
            BY <1>1, <1>4, <1>5, <2>1, <3>1
    <2>4. CASE ~installment[i].paid
        <3> DEFINE c == [call[q] EXCEPT !.step = "commit"]
        <3>1. call' = [call EXCEPT ![q] = c]
            BY <1>11, <2>4 DEF C!ReadInstallment
        <3>2. c \in C!Call /\ c.step = "commit" /\ c.number = i /\ c.seen = call[q].seen
            BY <1>3 DEF C!Call
        <3> HIDE DEF c
        <3>3. i \in C!Unpaid
            BY <2>2, <2>4 DEF C!Unpaid
        <3>4. C!Unpaid \cup {i} = C!Unpaid
            BY <3>3
        <3>5. Informed(c) /\ (scene = "credit" => UpToDate(c))
            <4>1. Informed(call[q]) /\ (scene = "credit" => UpToDate(call[q]))
                BY <1>3
            <4>2. OwedWith(i) = Owed
                BY <3>4 DEF OwedWith, Owed
            <4> QED
                BY <2>1, <3>2, <3>3, <4>1, <4>2 DEF Informed, UpToDate
        <3>6. CallFrame(q, c)
            BY <1>2, <2>1, <3>1 DEF CallFrame
        <3>7. date' \in 0..LastDay /\ dunning' \in [{"alert"} -> Nat]
            BY <1>1, <2>1
        <3> QED
            BY <1>2, <3>2, <3>5, <3>6, <3>7, CallFrameKeeps
    <2> QED
        BY <2>3, <2>4
<1>12. ASSUME NEW q \in Payers, C!CommitInstallment(q) PROVE CreditInv'
    BY <1>2, <1>12, CommitKeeps
<1>13. ASSUME NEW q \in Payers, C!ResyncCredit(q) PROVE CreditInv'
    BY <1>6, <1>13 DEF C!ResyncCredit
<1>14. ASSUME NEW q \in Payers, C!ReadForSync(q) PROVE CreditInv'
    <2> DEFINE c == IF credit.status = "ACTIVE" THEN [C!Hung EXCEPT !.step = "next"] ELSE C!Hung
    <2>1. c \in C!Call /\ c.step \in {"hung", "next"}
        BY <1>4 DEF C!Call
    <2>2. call' = [call EXCEPT ![q] = c] /\ UNCHANGED <<date, credit, installment, dunning, cashed>>
        BY <1>14 DEF C!ReadForSync
    <2> HIDE DEF c
    <2>3. c.step \notin {"installment", "commit"}
        BY <2>1
    <2> QED
        BY <1>1, <1>5, <2>1, <2>2, <2>3
<1>15. ASSUME NEW q \in Payers, C!FindNext(q) PROVE CreditInv'
    <2> DEFINE c == [call[q] EXCEPT !.step = "perform", !.agenda = C!CreditPlan]
    <2>1. C!Raise("alert") \in C!Statement({"alert"}) /\ C!Settle("alert") \in C!Statement({"alert"})
        BY DEF C!Raise, C!Settle, C!Statement
    <2>2. C!CreditPlan \in Seq(C!Statement({"alert"}))
        <3> DEFINE S == C!Statement({"alert"})
        <3> DEFINE x == C!Raise("alert")
        <3> DEFINE y == C!Settle("alert")
        <3>1. C!CreditPlan = <<x>> \/ C!CreditPlan = <<y>>
            BY DEF C!CreditPlan
        <3>2. x \in S /\ y \in S
            BY <2>1
        <3> HIDE DEF S, x, y
        <3>3. <<x>> \in Seq(S) /\ <<y>> \in Seq(S)
            BY <3>2
        <3>4. C!CreditPlan \in Seq(S)
            BY <3>1, <3>3
        <3> QED
            BY <3>4 DEF S
    <2>3. c \in C!Call /\ c.step = "perform"
        BY <1>3, <2>2 DEF C!Call
    <2>4. call' = [call EXCEPT ![q] = c] /\ UNCHANGED <<date, credit, installment, dunning, cashed>>
        BY <1>15 DEF C!FindNext
    <2> HIDE DEF c
    <2>5. c.step \notin {"installment", "commit"}
        BY <2>3
    <2> QED
        BY <1>1, <1>5, <2>3, <2>4, <2>5
<1>16. ASSUME NEW q \in Payers, C!PerformDunning(q) PROVE CreditInv'
    <2> DEFINE a == call[q].agenda
    <2>1. a \in Seq(C!Statement({"alert"})) /\ a # <<>>
        BY <1>3, <1>16, CallOf DEF C!PerformDunning
    <2> DEFINE rest == C!AgendaAfter(dunning, a)
    <2>2. rest \in Seq(C!Statement({"alert"})) /\ C!OpenAfter(dunning, a) \in [{"alert"} -> Nat]
        BY <1>1, <2>1, DunningTyped
    <2> DEFINE c == IF rest = <<>> THEN C!Hung ELSE [call[q] EXCEPT !.agenda = rest]
    <2>3. /\ call' = [call EXCEPT ![q] = c] /\ dunning' = C!OpenAfter(dunning, a)
          /\ UNCHANGED <<date, credit, installment, cashed>>
        BY <1>16 DEF C!PerformDunning
    <2> HIDE DEF rest
    <2>4. [call[q] EXCEPT !.agenda = rest] \in C!Call
          /\ [call[q] EXCEPT !.agenda = rest].step = call[q].step
          /\ [call[q] EXCEPT !.agenda = rest].seen = call[q].seen
          /\ [call[q] EXCEPT !.agenda = rest].number = call[q].number
        BY <1>3, <2>2 DEF C!Call
    <2>5. c \in C!Call
        BY <1>4, <2>4
    <2>6. Informed(c) /\ (scene = "credit" => UpToDate(c))
        <3>1. CASE rest = <<>>
            BY <1>4, <3>1 DEF Informed, UpToDate
        <3>2. CASE rest # <<>>
            <4> DEFINE d == [call[q] EXCEPT !.agenda = rest]
            <4>1. d.step = call[q].step /\ d.seen = call[q].seen /\ d.number = call[q].number /\ c = d
                BY <2>4, <3>2
            <4> HIDE DEF d, c
            <4> QED
                BY <1>3, <4>1 DEF Informed, UpToDate
        <3> QED
            BY <3>1, <3>2
    <2>7. CallFrame(q, c)
        BY <1>2, <2>3 DEF CallFrame
    <2>8. date' \in 0..LastDay /\ dunning' \in [{"alert"} -> Nat]
        BY <1>1, <2>2, <2>3
    <2> HIDE DEF c
    <2> QED
        BY <1>2, <2>5, <2>6, <2>7, <2>8, CallFrameKeeps
<1>17. ASSUME NEW q \in Payers, C!HangUp(q) PROVE CreditInv'
    <2>1. call' = [call EXCEPT ![q] = C!Hung] /\ UNCHANGED <<date, credit, installment, dunning, cashed>>
        BY <1>17 DEF C!HangUp
    <2> QED
        BY <1>1, <1>4, <1>5, <2>1
<1> QED
    BY <1>2, <1>7, <1>8, <1>9, <1>10, <1>11, <1>12, <1>13, <1>14, <1>15, <1>16, <1>17 DEF C!CreditNext

LEMMA CreditHolds == OfficeSpec => []CreditInv
<1>1. OfficeInit => CreditInv
    <2> SUFFICES ASSUME C!CreditInit PROVE CreditInv
        BY DEF OfficeInit
    <2>1. /\ date = 0 /\ credit = C!NoCredit /\ installment = <<>> /\ dunning = [alert |-> 0]
          /\ cashed = 0 /\ call = [q \in Payers |-> C!Hung]
        BY DEF C!CreditInit
    <2>2. C!NoCredit.status = "ABSENT" /\ C!NoCredit.paid = 0 /\ C!Hung.step = "hung"
        BY DEF C!NoCredit, C!Hung
    <2>3. dunning \in [{"alert"} -> Nat]
        BY <2>1
    <2>4. C!CreditTypeOK
        BY <2>1, <2>3, HungType, OfficeAssumption DEF C!CreditTypeOK
    <2>5. Scheduled
        BY <2>1, <2>2 DEF Scheduled
    <2>6. \A q \in Payers : call[q] = C!Hung
        BY <2>1
    <2>7. \A q \in Payers : Informed(call[q]) /\ UpToDate(call[q])
        BY <2>2, <2>6 DEF Informed, UpToDate
    <2>8. Exact
        BY <2>1, <2>2, <2>6, <2>7 DEF Exact, Alone
    <2> QED
        BY <2>1, <2>2, <2>4, <2>5, <2>7, <2>8 DEF CreditInv
<1>2. CreditInv /\ [OfficeNext]_vars => CreditInv'
    <2> SUFFICES ASSUME CreditInv, [OfficeNext]_vars PROVE CreditInv'
        OBVIOUS
    <2>1. CASE CreditScene
        BY <2>1, CreditKept
    <2>2. CASE UNCHANGED <<scene, creditVars>>
        BY <2>2 DEF creditVars, CreditInv, C!CreditTypeOK, Scheduled, Even, Owed, OwedWith, C!Unpaid,
                    Informed, UpToDate, Alone, Exact
    <2> QED
        BY <2>1, <2>2 DEF OfficeNext, FleetScene, RegistryScene, NumbersScene, BackupScene, vars
<1> QED
    BY <1>1, <1>2, PTL DEF OfficeSpec

\* The installments of a credit repay what it finances, for any amount, rate and
\* term, and what it owes is never less than its unpaid installments, nor other
\* than them if payments do not race (buildAmortizationSchedule, recordPayment).
THEOREM CreditsAddUp == OfficeSpec => []CreditAddsUp
<1>1. CreditInv => CreditAddsUp
    <2> SUFFICES ASSUME CreditInv, credit.status # "ABSENT"
                 PROVE  /\ Even => /\ credit.balance >= Owed
                                   /\ scene = "credit" => /\ credit.balance = Owed
                                                          /\ credit.paid = cashed
                                                          /\ (credit.status = "PAID_OFF") <=> (credit.balance = 0)
                        /\ Scheduled
        BY RepaidIsTotal DEF CreditAddsUp, BalanceTellsInstallments, ScheduleAmortizes, Even, Owed, Scheduled
    <2> QED
        BY DEF CreditInv, Exact
<1> QED
    BY <1>1, CreditHolds, PTL

\* Every row, count and request of the back office is one of its kind.
THEOREM OfficeTyped == OfficeSpec => []TypeOK
<1>1. FleetInv => FleetTypeOK
    BY DEF FleetInv
<1>2. CreditInv => C!CreditTypeOK
    BY DEF CreditInv
<1>3. RegistryInv => R!RegistryTypeOK
    BY DEF RegistryInv
<1>4. BackupInv => B!BackupTypeOK
    BY DEF BackupInv
<1>5. FleetInv /\ CreditInv /\ RegistryInv /\ BackupInv => TypeOK
    BY <1>1, <1>2, <1>3, <1>4 DEF TypeOK
<1> QED
    BY <1>5, FleetHolds, CreditHolds, RegistryHolds, BackupHolds, PTL
=============================================================================
