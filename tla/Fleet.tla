------------------------------- MODULE Fleet -------------------------------
(***************************************************************************)
(* A vehicle, its maintenance and its alerts: MaintenanceService, the writes *)
(* of VehiclesService and ContractsService to the odometer and the documents, *)
(* and the vehicle part of AlertsService.  Vehicles share no row, so there is *)
(* one.                                                                    *)
(*                                                                         *)
(* Every writing request but the completion of a contract ends in            *)
(* syncVehicleAlerts, which reads the vehicle,                               *)
(* goes through its documents, reads the schedules, and goes through them,   *)
(* one statement at a time and outside every transaction.  A date is the     *)
(* midnight that begins its day.                                             *)
(***************************************************************************)
EXTENDS AlertSync, SequencesExt

CONSTANTS
    Schedules,    \* ids of maintenance schedules
    Mechanics,    \* requests that can be in flight together
    Types,        \* maintenance types
    Documents,    \* kinds of documents a vehicle has, see Blocking
    Dates,        \* the dates users enter
    Window,       \* how many days ahead a warning is given
    MaxKm,        \* bound: the highest reading of the odometer
    Horizon,      \* bound: the last day of a behaviour
    None

ASSUME FleetAssumption ==
    /\ IsFiniteSet(Schedules) /\ IsFiniteSet(Documents)
    /\ Types # {}
    /\ Dates \subseteq Int /\ None \notin Int /\ None \notin Types
    /\ Window \in Nat /\ MaxKm \in Nat /\ Horizon \in Nat

VARIABLES
    today,
    vehicle,    \* the row
    schedule,   \* schedule[s]: the row, "ABSENT" until it is inserted
    open,       \* open[t]: alerts of target t that are not RESOLVED
    job         \* job[q]: the request in flight, or Rest

fleetVars == <<today, vehicle, schedule, open, job>>

Days == 0..Horizon
Readings == 0..MaxKm

\* An expired vignette blocks no booking.
Blocking == {"INSURANCE_EXPIRY", "TECHNICAL_VISIT_EXPIRY"}

\* The targets of alerts: a document of the vehicle, a schedule that is due or
\* overdue.
OfDocument(d) == <<d, "VEHICLE">>
Due(s) == <<s, "MAINTENANCE_DUE">>
Late(s) == <<s, "MAINTENANCE_OVERDUE">>
Targets == {OfDocument(d) : d \in Documents} \cup {Due(s) : s \in Schedules}
           \cup {Late(s) : s \in Schedules}

VehicleRow == [alive : BOOLEAN, km : Readings, expiry : [Documents -> Dates \cup {None}]]

ScheduleRow == [status : {"ABSENT", "SCHEDULED", "COMPLETED", "CANCELLED"},
                type : Types, due : Dates \cup {None}, km : Readings \cup {None},
                critical : BOOLEAN]

\* step: the statement that comes next; type, km: what the user sent; seen, day:
\* the vehicle and the day as the request read them; listed: the schedules a
\* resync found; agenda: what it still has to do.
Job == [step : {"rest", "record", "insert", "patch", "return", "sync", "documents", "schedules"},
        type : Types \cup {None}, km : Readings, seen : VehicleRow, day : Days,
        listed : SUBSET Schedules, agenda : Seq(Statement(Targets))]

NoVehicle == [alive |-> FALSE, km |-> 0, expiry |-> [d \in Documents |-> None]]

Rest == [step |-> "rest", type |-> None, km |-> 0, seen |-> NoVehicle, day |-> 0,
         listed |-> {}, agenda |-> <<>>]

FleetInit ==
    /\ today = 0
    /\ \E papers \in [Documents -> Dates \cup {None}] :
        vehicle = [alive |-> TRUE, km |-> 0, expiry |-> papers]
    /\ schedule = [s \in Schedules |-> [status |-> "ABSENT", type |-> CHOOSE t \in Types : TRUE,
                                        due |-> None, km |-> None, critical |-> FALSE]]
    /\ open = [t \in Targets |-> 0]
    /\ job = [q \in Mechanics |-> Rest]

NextDay ==
    /\ today < Horizon
    /\ today' = today + 1
    /\ UNCHANGED <<vehicle, schedule, open, job>>

\* A request begins by reading the vehicle; a deleted one is not found.
Arrive(q, call) ==
    /\ job[q] = Rest
    /\ vehicle.alive
    /\ job' = [job EXCEPT ![q] = call]
    /\ UNCHANGED <<today, vehicle, schedule, open>>

Proceed(q, from, to) ==
    /\ job[q].step = from
    /\ job' = [job EXCEPT ![q] = [Rest EXCEPT !.step = to]]

-----------------------------------------------------------------------------
\* MaintenanceService

CreateRecord(q, type, km) ==
    Arrive(q, [Rest EXCEPT !.step = "record", !.type = type, !.km = km, !.seen = vehicle])

\* Mutant: the reading of a record is always taken over.
CommitAnyReading(q) ==
    /\ Proceed(q, "record", "sync")
    /\ vehicle' = [vehicle EXCEPT !.km = job[q].km]
    /\ schedule' = [s \in Schedules |->
            IF schedule[s].status = "SCHEDULED" /\ schedule[s].type = job[q].type
            THEN [schedule[s] EXCEPT !.status = "COMPLETED"] ELSE schedule[s]]
    /\ UNCHANGED <<today, open>>

\* The transaction: the record, the odometer if the record reports more than was
\* read, and every schedule of the type, due or not.
CommitRecord(q) ==
    /\ Proceed(q, "record", "sync")
    /\ vehicle' = IF job[q].km > job[q].seen.km THEN [vehicle EXCEPT !.km = job[q].km] ELSE vehicle
    /\ schedule' = [s \in Schedules |->
            IF schedule[s].status = "SCHEDULED" /\ schedule[s].type = job[q].type
            THEN [schedule[s] EXCEPT !.status = "COMPLETED"] ELSE schedule[s]]
    /\ UNCHANGED <<today, open>>

CreateSchedule(q) == Arrive(q, [Rest EXCEPT !.step = "insert"])

InsertSchedule(q, s, type, due, km, critical) ==
    /\ Proceed(q, "insert", "sync")
    /\ schedule[s].status = "ABSENT"
    /\ schedule' = [schedule EXCEPT ![s] = [status |-> "SCHEDULED", type |-> type, due |-> due,
                                            km |-> km, critical |-> critical]]
    /\ UNCHANGED <<today, vehicle, open>>

CancelSchedule(q, s) ==
    /\ job[q] = Rest
    /\ schedule[s].status = "SCHEDULED"
    /\ schedule' = [schedule EXCEPT ![s].status = "CANCELLED"]
    /\ job' = [job EXCEPT ![q] = [Rest EXCEPT !.step = "sync"]]
    /\ UNCHANGED <<today, vehicle, open>>

-----------------------------------------------------------------------------
\* VehiclesService

UpdateVehicle(q) == Arrive(q, [Rest EXCEPT !.step = "patch"])

\* A PATCH may set any reading and renew a document; it cannot remove a date.
WriteVehicle(q, km, papers) ==
    /\ Proceed(q, "patch", "sync")
    /\ vehicle' = IF ~vehicle.alive THEN vehicle
                  ELSE [vehicle EXCEPT !.km = km, !.expiry =
                        [d \in Documents |-> IF papers[d] = None THEN @[d] ELSE papers[d]]]
    /\ UNCHANGED <<today, schedule, open>>

-----------------------------------------------------------------------------
\* ContractsService.complete: the reading at the return is compared with that of
\* the start only, which a user entered too, and a deleted vehicle is not refused.
\* The contracts are in Booking.

CompleteContract(q, km) ==
    /\ job[q] = Rest
    /\ job' = [job EXCEPT ![q] = [Rest EXCEPT !.step = "return", !.km = km]]
    /\ UNCHANGED <<today, vehicle, schedule, open>>

\* Nothing is synchronised.
CommitReturn(q) ==
    /\ Proceed(q, "return", "rest")
    /\ vehicle' = [vehicle EXCEPT !.km = job[q].km]
    /\ UNCHANGED <<today, schedule, open>>

-----------------------------------------------------------------------------
\* VehiclesService: soft deletion and restoration synchronise nothing.

DeleteVehicle ==
    /\ vehicle.alive
    /\ vehicle' = [vehicle EXCEPT !.alive = FALSE]
    /\ UNCHANGED <<today, schedule, open, job>>

RestoreVehicle ==
    /\ ~vehicle.alive
    /\ vehicle' = [vehicle EXCEPT !.alive = TRUE]
    /\ UNCHANGED <<today, schedule, open, job>>

-----------------------------------------------------------------------------
\* AlertsService

\* POST /alerts/resync goes through the vehicles; nothing else runs on a clock.
ResyncVehicle(q) == Arrive(q, [Rest EXCEPT !.step = "sync"])

DocumentPlan(d, day) ==
    IF vehicle.expiry[d] - Window <= day THEN <<Raise(OfDocument(d))>>
    ELSE <<Settle(OfDocument(d))>>

\* Mutant: the odometer makes no schedule late.
OverdueByDate(s, km, day) == schedule[s].due # None /\ schedule[s].due <= day

\* The date or the odometer has passed what the schedule says.
OverdueBy(s, km, day) ==
    \/ schedule[s].due # None /\ schedule[s].due <= day
    \/ schedule[s].km # None /\ schedule[s].km < km

Soon(s, day) == schedule[s].due # None /\ schedule[s].due - Window <= day

\* Mutant: once a schedule is neither late nor soon its late alert stays.
SchedulePlanHalf(s, km, day) ==
    IF OverdueBy(s, km, day) THEN <<Raise(Late(s))>>
    ELSE IF Soon(s, day) THEN <<Raise(Due(s))>>
    ELSE <<Settle(Due(s))>>

\* A schedule that is late keeps the alert that said it would be due.
SchedulePlan(s, km, day) ==
    IF OverdueBy(s, km, day) THEN <<Raise(Late(s))>>
    ELSE IF Soon(s, day) THEN <<Raise(Due(s))>>
    ELSE <<Settle(Late(s)), Settle(Due(s))>>

ReadVehicle(q) ==
    /\ job[q].step = "sync"
    /\ \E order \in SetToSeqs({d \in Documents : vehicle.expiry[d] # None}) :
        job' = [job EXCEPT ![q] =
            IF vehicle.alive
            THEN [Rest EXCEPT !.step = "documents", !.seen = vehicle, !.day = today,
                    !.agenda = FlattenSeq([i \in DOMAIN order |-> DocumentPlan(order[i], today)])]
            ELSE Rest]
    /\ UNCHANGED <<today, vehicle, schedule, open>>

ReadSchedules(q) ==
    /\ job[q].step = "documents" /\ job[q].agenda = <<>>
    /\ LET planned == {s \in Schedules : schedule[s].status = "SCHEDULED"}
       IN  \E order \in SetToSeqs(planned) :
            job' = [job EXCEPT ![q] = [job[q] EXCEPT !.step = "schedules", !.listed = planned,
                !.agenda = FlattenSeq([i \in DOMAIN order |->
                    SchedulePlan(order[i], job[q].seen.km, job[q].day)])]]
    /\ UNCHANGED <<today, vehicle, schedule, open>>

\* One statement of upsertAlert or of resolveMatching.
PerformSync(q) ==
    /\ job[q].agenda # <<>>
    /\ open' = OpenAfter(open, job[q].agenda)
    /\ job' = [job EXCEPT ![q].agenda = AgendaAfter(open, job[q].agenda)]
    /\ UNCHANGED <<today, vehicle, schedule>>

AnswerSync(q) ==
    /\ job[q].step = "schedules" /\ job[q].agenda = <<>>
    /\ job' = [job EXCEPT ![q] = Rest]
    /\ UNCHANGED <<today, vehicle, schedule, open>>

\* A user resolves one alert, whatever became of its reason.
ResolveByHand(t) ==
    /\ open[t] > 0
    /\ open' = [open EXCEPT ![t] = open[t] - 1]
    /\ UNCHANGED <<today, vehicle, schedule, job>>

\* A statement fails or the server restarts.
Break(q) ==
    /\ job[q] # Rest
    /\ job' = [job EXCEPT ![q] = Rest]
    /\ UNCHANGED <<today, vehicle, schedule, open>>

\* getBookingBlockers makes a judgement of its own.
CriticalOverdue ==
    {s \in Schedules : /\ schedule[s].status = "SCHEDULED"
                       /\ schedule[s].critical
                       /\ \/ schedule[s].due # None /\ schedule[s].due <= today
                          \/ schedule[s].km # None /\ schedule[s].km < vehicle.km}

\* What makes a booking of the vehicle answer 409.
Blockers ==
    {OfDocument(d) : d \in {x \in Documents \cap Blocking :
        vehicle.expiry[x] # None /\ vehicle.expiry[x] <= today}}
    \cup {Late(s) : s \in CriticalOverdue}

-----------------------------------------------------------------------------

MaintenanceStep(q) ==
    \/ \E type \in Types, km \in Readings : CreateRecord(q, type, km)
    \/ CommitRecord(q)
    \/ CreateSchedule(q)
    \/ \E s \in Schedules, type \in Types, due \in Dates \cup {None},
          km \in 0..(MaxKm - 1) \cup {None}, critical \in BOOLEAN :
            InsertSchedule(q, s, type, due, km, critical)
    \/ \E s \in Schedules : CancelSchedule(q, s)

VehicleStep(q) ==
    \/ UpdateVehicle(q)
    \/ \E km \in Readings, papers \in [Documents -> Dates \cup {None}] : WriteVehicle(q, km, papers)

ContractStep(q) ==
    \/ \E km \in Readings : CompleteContract(q, km)
    \/ CommitReturn(q)

Syncing(q) == job[q].step \in {"documents", "schedules"}

FleetNext ==
    \/ NextDay
    \/ DeleteVehicle
    \/ RestoreVehicle
    \/ \E t \in Targets : ResolveByHand(t)
    \/ \E q \in Mechanics :
        \/ MaintenanceStep(q)
        \/ VehicleStep(q)
        \/ ContractStep(q)
        \/ ResyncVehicle(q)
        \/ ReadVehicle(q)
        \/ ReadSchedules(q)
        \/ PerformSync(q)
        \/ AnswerSync(q)
        \/ Break(q)

FleetTypeOK ==
    /\ today \in Days
    /\ vehicle \in VehicleRow
    /\ schedule \in [Schedules -> ScheduleRow]
    /\ open \in [Targets -> Nat]
    /\ job \in [Mechanics -> Job]
=============================================================================
