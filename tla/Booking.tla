------------------------------ MODULE Booking ------------------------------
(***************************************************************************)
(* Reservations, rental contracts and the status of the vehicles they are  *)
(* for: ReservationsService, ContractsService, VehiclesRepository and the  *)
(* overdue sweeper.                                                        *)
(*                                                                         *)
(* Every "await this.prisma..." of the code is a statement of its own: an  *)
(* HTTP request first reads (does the row exist, is its status right, does *)
(* another booking overlap?) and writes some statements later, on the      *)
(* strength of what it read.  Requests of several users and the sweeper    *)
(* interleave between any two statements.  A request in flight is a record *)
(* req[q] that says which reads it still has to make; a prisma             *)
(* $transaction is one step, for nothing it writes is seen before it       *)
(* commits.                                                                *)
(***************************************************************************)
EXTENDS Naturals, FiniteSets

CONSTANTS
    Vehicles,             \* the vehicles of a tenant
    Reservations,         \* ids of reservation rows
    Contracts,            \* ids of rental contract rows
    Requests,             \* requests that can be in flight together
    Sweepers,             \* runs of the overdue sweep: the cron job, POST overdue/sweep
    MaxDay,               \* bound: bookings lie in 0..MaxDay
    Horizon,              \* bound: the last day of a behaviour
    PatchedStatus,        \* the statuses users send in PATCH /reservations/:id
    PatchedVehicleStatus, \* the statuses users send in PATCH /vehicles/:id
    None                  \* an absent column

VehicleStatus == {"AVAILABLE", "RENTED", "MAINTENANCE", "INACTIVE"}

ReservationStatus == {"PENDING", "CONFIRMED", "CANCELLED", "CONVERTED",
                      "NO_SHOW", "OVERDUE", "COMPLETED"}

ContractStatus == {"DRAFT", "ACTIVE", "RETURNED", "COMPLETED", "CANCELLED",
                   "OVERDUE"}

Days == 0..MaxDay
Windows == {w \in Days \X Days : w[1] < w[2]}

ASSUME BookingAssumption ==
    /\ MaxDay \in Nat
    /\ Horizon \in Nat
    /\ PatchedStatus \subseteq ReservationStatus
    /\ PatchedVehicleStatus \subseteq VehicleStatus
    /\ None \notin Vehicles \cup Reservations \cup Contracts \cup Windows
                   \cup ReservationStatus

VARIABLES
    now,          \* the day
    vehicle,      \* vehicle[v]: the status column
    reservation,  \* reservation[r]: the row, "ABSENT" until it is inserted
    contract,     \* contract[c]: the row, "ABSENT" until it is inserted
    req,          \* req[q]: the request in flight, or Idle
    sweep         \* sweep[s]: the phase of a sweep and the rows it has loaded

vars == <<now, vehicle, reservation, contract, req, sweep>>

-----------------------------------------------------------------------------

\* The statuses hasOverlap counts; the statuses of a car that is still out.
BlockingReservation == {"PENDING", "CONFIRMED"}
BlockingContract == {"DRAFT", "ACTIVE"}
LiveContract == {"ACTIVE", "OVERDUE"}
ClosedContract == {"COMPLETED", "CANCELLED"}

Overlap(a, b) == a[1] < b[2] /\ b[1] < a[2]

Reads == {"contractOf", "vehicle", "reservations", "contracts"}
OverlapReads == {"reservations", "contracts"}

Ops == {"none", "createReservation", "updateReservation", "createContract",
        "completeContract", "cancelContract"}

ReservationRow == [status : ReservationStatus \cup {"ABSENT"},
                   vehicle : Vehicles \cup {None},
                   window : Windows \cup {None}]

ContractRow == [status : ContractStatus \cup {"ABSENT"},
                vehicle : Vehicles \cup {None},
                window : Windows \cup {None},
                reservation : Reservations \cup {None}]

Request == [op : Ops,
            unread : SUBSET Reads,
            vehicle : Vehicles \cup {None},
            window : Windows \cup {None},
            reservation : Reservations \cup {None},
            contract : Contracts \cup {None},
            status : PatchedStatus \cup {None}]

Idle == [op |-> "none", unread |-> {}, vehicle |-> None, window |-> None,
         reservation |-> None, contract |-> None, status |-> None]

SweepPhase == {"idle", "reservations", "contracts"}

Init ==
    /\ now = 0
    /\ vehicle = [v \in Vehicles |-> "AVAILABLE"]
    /\ reservation = [r \in Reservations |->
                        [status |-> "ABSENT", vehicle |-> None, window |-> None]]
    /\ contract = [c \in Contracts |->
                        [status |-> "ABSENT", vehicle |-> None,
                         window |-> None, reservation |-> None]]
    /\ req = [q \in Requests |-> Idle]
    /\ sweep = [s \in Sweepers |-> [phase |-> "idle", batch |-> {}]]

Tick ==
    /\ now < Horizon
    /\ now' = now + 1
    /\ UNCHANGED <<vehicle, reservation, contract, req, sweep>>

-----------------------------------------------------------------------------
\* The reads of a request.  Each one either fails the request with 409, which
\* ends it, or lets it go on to the next.

Begin(q, call) ==
    /\ req[q] = Idle
    /\ req' = [req EXCEPT ![q] = call]
    /\ UNCHANGED <<now, vehicle, reservation, contract, sweep>>

\* A read finds what it must find (ok) and is done, or the request is over.
Read(q, what, ok) ==
    /\ what \in req[q].unread
    /\ req' = [req EXCEPT ![q] = 
                    IF ok THEN [req[q] EXCEPT !.unread = req[q].unread \ {what}]
                          ELSE Idle]
    /\ UNCHANGED <<now, vehicle, reservation, contract, sweep>>

\* convertToContract looks for a contract of the reservation.
ReadContractOf(q) ==
    Read(q, "contractOf",
         \A c \in Contracts : contract[c].reservation # req[q].reservation)

\* A contract needs a vehicle that is not in the workshop or withdrawn; one
\* that is RENTED will do.
ReadVehicle(q) ==
    /\ "contractOf" \notin req[q].unread
    /\ Read(q, "vehicle",
            vehicle[req[q].vehicle] \notin {"MAINTENANCE", "INACTIVE"})

\* Mutant: only a booking that begins inside an existing one is seen.
ReservationStartsInside(q, r) ==
    /\ r # req[q].reservation
    /\ reservation[r].status \in BlockingReservation
    /\ reservation[r].vehicle = req[q].vehicle
    /\ reservation[r].window[1] <= req[q].window[1]
    /\ req[q].window[1] < reservation[r].window[2]

\* hasOverlap runs its two counts concurrently: they are separate statements,
\* in either order.
ReservationOverlaps(q, r) ==
    /\ r # req[q].reservation
    /\ reservation[r].status \in BlockingReservation
    /\ reservation[r].vehicle = req[q].vehicle
    /\ Overlap(reservation[r].window, req[q].window)

ContractOverlaps(q, c) ==
    /\ contract[c].status \in BlockingContract
    /\ contract[c].vehicle = req[q].vehicle
    /\ Overlap(contract[c].window, req[q].window)

ReadReservations(q) ==
    /\ req[q].unread \subseteq OverlapReads
    /\ Read(q, "reservations",
            \A r \in Reservations : ~ReservationOverlaps(q, r))

ReadContracts(q) ==
    /\ req[q].unread \subseteq OverlapReads
    /\ Read(q, "contracts", \A c \in Contracts : ~ContractOverlaps(q, c))

\* A request can fail at any statement, for reasons the model leaves out: a
\* plan limit, a blacklisted client, an unfit vehicle, two requests that drew
\* the same code, a PATCH that names another vehicle or client (updateMany
\* takes no relation), a lost connection, a restart of the server.
Abort(q) ==
    /\ req[q] # Idle
    /\ req' = [req EXCEPT ![q] = Idle]
    /\ UNCHANGED <<now, vehicle, reservation, contract, sweep>>

-----------------------------------------------------------------------------
\* ReservationsService

CreateReservation(q, v, w) ==
    Begin(q, [Idle EXCEPT !.op = "createReservation", !.vehicle = v,
                          !.window = w, !.unread = OverlapReads])

InsertReservation(q) ==
    /\ req[q].op = "createReservation"
    /\ req[q].unread = {}
    /\ \E r \in Reservations :
        /\ reservation[r].status = "ABSENT"
        /\ reservation' = [reservation EXCEPT ![r] =
                            [status |-> "PENDING", vehicle |-> req[q].vehicle,
                             window |-> req[q].window]]
    /\ req' = [req EXCEPT ![q] = Idle]
    /\ UNCHANGED <<now, vehicle, contract, sweep>>

\* Mutant: new dates are not checked.
UpdateReservationUnchecked(q, r, w, s) ==
    /\ reservation[r].status \notin {"ABSENT", "CONVERTED"}
    /\ <<w, s>> # <<None, None>>
    /\ Begin(q, [Idle EXCEPT !.op = "updateReservation", !.reservation = r,
                             !.vehicle = reservation[r].vehicle,
                             !.window = w, !.status = s])

\* PATCH /reservations/:id with new dates w, a new status s, or both.  Only a
\* change of dates has the overlap checked.  POST :id/cancel is the PATCH with
\* status CANCELLED.
UpdateReservation(q, r, w, s) ==
    /\ reservation[r].status \notin {"ABSENT", "CONVERTED"}
    /\ <<w, s>> # <<None, None>>
    /\ Begin(q, [Idle EXCEPT !.op = "updateReservation", !.reservation = r,
                             !.vehicle = reservation[r].vehicle,
                             !.window = w, !.status = s,
                             !.unread = IF w = None THEN {} ELSE OverlapReads])

\* A PATCH leaves the columns it does not carry.
Given(new, old) == IF new = None THEN old ELSE new

\* Mutant: a status the PATCH does not carry is cleared.
WriteReservationWhole(q) ==
    /\ req[q].op = "updateReservation"
    /\ req[q].unread = {}
    /\ reservation' = [reservation EXCEPT
            ![req[q].reservation].window = Given(req[q].window, @),
            ![req[q].reservation].status = req[q].status]
    /\ req' = [req EXCEPT ![q] = Idle]
    /\ UNCHANGED <<now, vehicle, contract, sweep>>

\* The row as it is now gets the columns of the PATCH, whatever its status has
\* become since it was read.
WriteReservation(q) ==
    /\ req[q].op = "updateReservation"
    /\ req[q].unread = {}
    /\ reservation' = [reservation EXCEPT
            ![req[q].reservation].window = Given(req[q].window, @),
            ![req[q].reservation].status = Given(req[q].status, @)]
    /\ req' = [req EXCEPT ![q] = Idle]
    /\ UNCHANGED <<now, vehicle, contract, sweep>>

\* The contract is created for the vehicle and dates the reservation had when
\* it was read.
ConvertToContract(q, r) ==
    /\ reservation[r].status \notin {"ABSENT", "CANCELLED", "CONVERTED"}
    /\ Begin(q, [Idle EXCEPT !.op = "createContract", !.reservation = r,
                             !.vehicle = reservation[r].vehicle,
                             !.window = reservation[r].window,
                             !.unread = Reads])

-----------------------------------------------------------------------------
\* ContractsService

\* POST /contracts may name any reservation, of this vehicle or of another.
CreateContract(q, v, w, r) ==
    /\ r # None => reservation[r].status # "ABSENT"
    /\ Begin(q, [Idle EXCEPT !.op = "createContract", !.reservation = r,
                             !.vehicle = v, !.window = w,
                             !.unread = {"vehicle"} \cup OverlapReads])

\* The rows the transaction writes: the contract, the vehicle, and as CONVERTED
\* the reservations named.
ContractRows(q, converted) ==
    /\ req[q].op = "createContract"
    /\ req[q].unread = {}
    /\ \E c \in Contracts :
        /\ contract[c].status = "ABSENT"
        /\ contract' = [contract EXCEPT ![c] =
                            [status |-> "ACTIVE", vehicle |-> req[q].vehicle,
                             window |-> req[q].window,
                             reservation |-> req[q].reservation]]
    /\ vehicle' = [vehicle EXCEPT ![req[q].vehicle] = "RENTED"]
    /\ reservation' = [r \in Reservations |->
                            IF r \in converted
                            THEN [reservation[r] EXCEPT !.status = "CONVERTED"]
                            ELSE reservation[r]]
    /\ req' = [req EXCEPT ![q] = Idle]
    /\ UNCHANGED <<now, sweep>>

\* Mutant: the column reservationId is not unique.
InsertContractTwice(q) == ContractRows(q, {req[q].reservation})

\* Mutant: the reservation is not marked.
InsertContractKeepingReservation(q) == ContractRows(q, {})

\* Mutant: no transaction, the reservation is written first and then the
\* contract fails.
InsertContractPartly(q) ==
    \/ ContractRows(q, {req[q].reservation})
    \/ /\ req[q].op = "createContract"
       /\ req[q].unread = {}
       /\ req[q].reservation # None
       /\ reservation' = [reservation EXCEPT ![req[q].reservation].status = "CONVERTED"]
       /\ req' = [req EXCEPT ![q] = Idle]
       /\ UNCHANGED <<now, vehicle, contract, sweep>>

\* The column reservationId is unique: a second contract for a reservation rolls
\* everything back.
InsertContract(q) ==
    /\ req[q].reservation # None =>
            \A c \in Contracts : contract[c].reservation # req[q].reservation
    /\ ContractRows(q, {req[q].reservation})

CompleteContract(q, c) ==
    /\ contract[c].status = "ACTIVE"
    /\ Begin(q, [Idle EXCEPT !.op = "completeContract", !.contract = c])

\* A contract that is CANCELLED already can be cancelled again.
CancelContract(q, c) ==
    /\ contract[c].status \notin {"ABSENT", "COMPLETED"}
    /\ Begin(q, [Idle EXCEPT !.op = "cancelContract", !.contract = c])

\* The transaction of complete and of cancel: the contract row is written
\* whatever its status has become, and its vehicle is AVAILABLE.
CloseContract(q, op, closed) ==
    LET c == req[q].contract
    IN  /\ req[q].op = op
        /\ contract' = [contract EXCEPT ![c].status = closed]
        /\ vehicle' = [vehicle EXCEPT ![contract[c].vehicle] = "AVAILABLE"]
        /\ req' = [req EXCEPT ![q] = Idle]
        /\ UNCHANGED <<now, reservation, sweep>>

WriteCompleted(q) == CloseContract(q, "completeContract", "COMPLETED")

\* Mutant: cancelling does not bring the vehicle back.
WriteCancelledOnly(q) ==
    /\ req[q].op = "cancelContract"
    /\ contract' = [contract EXCEPT ![req[q].contract].status = "CANCELLED"]
    /\ req' = [req EXCEPT ![q] = Idle]
    /\ UNCHANGED <<now, vehicle, reservation, sweep>>

WriteCancelled(q) == CloseContract(q, "cancelContract", "CANCELLED")

\* PATCH /vehicles/:id sets any status whatever the contracts of the vehicle.
PatchVehicle(v, s) ==
    /\ vehicle' = [vehicle EXCEPT ![v] = s]
    /\ UNCHANGED <<now, reservation, contract, req, sweep>>

-----------------------------------------------------------------------------
\* OverdueReservationsSweeper: load the candidates, then write them one by one.

LateReservations == {r \in Reservations :
                        /\ reservation[r].status \in BlockingReservation
                        /\ reservation[r].window[2] < now}

\* Mutant: late from the first day of the rental.
StartedContracts == {c \in Contracts :
                        /\ contract[c].status = "ACTIVE"
                        /\ contract[c].window[1] < now}

LateContracts == {c \in Contracts :
                        /\ contract[c].status = "ACTIVE"
                        /\ contract[c].window[2] < now}

Load(s, from, to, rows) ==
    /\ sweep[s] = [phase |-> from, batch |-> {}]
    /\ sweep' = [sweep EXCEPT ![s] = [phase |-> to, batch |-> rows]]
    /\ UNCHANGED <<now, vehicle, reservation, contract, req>>

\* Mutant: only PENDING reservations are looked for.
LoadPending(s) ==
    Load(s, "idle", "reservations",
         {r \in LateReservations : reservation[r].status = "PENDING"})

\* Mutant: contracts without a reservation are left out.
LoadConverted(s) ==
    Load(s, "reservations", "contracts",
         {c \in LateContracts : contract[c].reservation # None})

LoadReservations(s) == Load(s, "idle", "reservations", LateReservations)
LoadContracts(s) == Load(s, "reservations", "contracts", LateContracts)
EndSweep(s) == Load(s, "contracts", "idle", {})

\* updateMany keeps the status in its where clause: a row that has moved on
\* since it was loaded is skipped.
SweepReservation(s, r) ==
    /\ sweep[s].phase = "reservations"
    /\ r \in sweep[s].batch
    /\ reservation' = IF reservation[r].status \in BlockingReservation
                      THEN [reservation EXCEPT ![r].status = "OVERDUE"]
                      ELSE reservation
    /\ sweep' = [sweep EXCEPT ![s].batch = @ \ {r}]
    /\ UNCHANGED <<now, vehicle, contract, req>>

\* Mutant: the row is written by its id alone.
SweepContractById(s, c) ==
    /\ sweep[s].phase = "contracts"
    /\ c \in sweep[s].batch
    /\ contract' = [contract EXCEPT ![c].status = "OVERDUE"]
    /\ sweep' = [sweep EXCEPT ![s].batch = @ \ {c}]
    /\ UNCHANGED <<now, vehicle, reservation, req>>

SweepContract(s, c) ==
    /\ sweep[s].phase = "contracts"
    /\ c \in sweep[s].batch
    /\ contract' = IF contract[c].status = "ACTIVE"
                   THEN [contract EXCEPT ![c].status = "OVERDUE"]
                   ELSE contract
    /\ sweep' = [sweep EXCEPT ![s].batch = @ \ {c}]
    /\ UNCHANGED <<now, vehicle, reservation, req>>

\* A statement or a notification throws, or the server restarts, before the
\* sweep is through: the rest of the batch is dropped, and with it the contracts
\* if reservations were being swept.
AbandonSweep(s) ==
    /\ sweep[s].phase = "reservations" \/ sweep[s].batch # {}
    /\ sweep' = [sweep EXCEPT ![s] = [phase |-> "idle", batch |-> {}]]
    /\ UNCHANGED <<now, vehicle, reservation, contract, req>>

-----------------------------------------------------------------------------

ReadStep(q) ==
    \/ ReadContractOf(q)
    \/ ReadVehicle(q)
    \/ ReadReservations(q)
    \/ ReadContracts(q)

WriteStep(q) ==
    \/ InsertReservation(q)
    \/ WriteReservation(q)
    \/ InsertContract(q)
    \/ WriteCompleted(q)
    \/ WriteCancelled(q)

BeginStep(q) ==
    \/ \E v \in Vehicles, w \in Windows : CreateReservation(q, v, w)
    \/ \E r \in Reservations, w \in Windows \cup {None},
          s \in PatchedStatus \cup {None} : UpdateReservation(q, r, w, s)
    \/ \E r \in Reservations : ConvertToContract(q, r)
    \/ \E v \in Vehicles, w \in Windows, r \in Reservations \cup {None} :
          CreateContract(q, v, w, r)
    \/ \E c \in Contracts : CompleteContract(q, c)
    \/ \E c \in Contracts : CancelContract(q, c)

SweepStep(s) ==
    \/ LoadReservations(s)
    \/ \E r \in Reservations : SweepReservation(s, r)
    \/ LoadContracts(s)
    \/ \E c \in Contracts : SweepContract(s, c)
    \/ EndSweep(s)

Next ==
    \/ Tick
    \/ \E q \in Requests : BeginStep(q) \/ ReadStep(q) \/ WriteStep(q) \/ Abort(q)
    \/ \E v \in Vehicles, s \in PatchedVehicleStatus : PatchVehicle(v, s)
    \/ \E s \in Sweepers : SweepStep(s) \/ AbandonSweep(s)

Spec == Init /\ [][Next]_vars

\* The cron job runs every day and works through its lists, and from some day on
\* no sweep is cut short.  Nothing is assumed of users, nor that a request is ever
\* made or finished.
SweepFairness ==
    /\ \A s \in Sweepers : WF_vars(SweepStep(s))
    /\ <>[][\A s \in Sweepers : ~AbandonSweep(s)]_vars

FairSpec == Spec /\ SweepFairness
-----------------------------------------------------------------------------
\* Every variable holds the values its column, request or batch can hold.
TypeOK ==
    /\ now \in 0..Horizon
    /\ vehicle \in [Vehicles -> VehicleStatus]
    /\ reservation \in [Reservations -> ReservationRow]
    /\ contract \in [Contracts -> ContractRow]
    /\ req \in [Requests -> Request]
    /\ sweep \in [Sweepers -> [phase : SweepPhase,
                               batch : SUBSET (Reservations \cup Contracts)]]

\* A reservation yields at most one contract, however many conversions and
\* POST /contracts of it are in flight together (schema.prisma: "@unique").
OneContractPerReservation ==
    \A c, d \in Contracts :
        (contract[c].reservation # None
            /\ contract[c].reservation = contract[d].reservation) => c = d

\* A reservation is CONVERTED only together with the contract it became: no
\* interleaving of conversion, PATCH and sweep leaves one without the other
\* (unless a user may set CONVERTED by hand, which the DTO allows).
ConvertedHasContract ==
    "CONVERTED" \notin PatchedStatus =>
        \A r \in Reservations : reservation[r].status = "CONVERTED" =>
            \E c \in Contracts : contract[c].reservation = r

\* No vehicle stays RENTED when the last contract that could bring it back is
\* closed: while it is RENTED some contract of it is ACTIVE or OVERDUE, whose
\* completion or cancellation makes it AVAILABLE (unless a user may set RENTED
\* by hand).
RentedMeansOut ==
    "RENTED" \notin PatchedVehicleStatus =>
        \A v \in Vehicles : vehicle[v] = "RENTED" =>
            \E c \in Contracts : /\ contract[c].vehicle = v
                                 /\ contract[c].status \in LiveContract

\* Customers are chased for a contract only when its return date has passed.
OverdueIsLate ==
    \A c \in Contracts : contract[c].status = "OVERDUE" => contract[c].window[2] < now

\* A contract that was completed or cancelled never runs again: in particular
\* a sweep that loaded it while it was ACTIVE does not make it OVERDUE.
ClosedStaysClosed ==
    [][\A c \in Contracts : contract[c].status \in ClosedContract =>
            contract'[c].status \in ClosedContract]_vars

\* No two bookings that hold a vehicle overlap (PRD.md: "Prevent double
\* booking").
ReservationsApart ==
    \A r, t \in Reservations :
        (/\ r # t
         /\ reservation[r].status \in BlockingReservation
         /\ reservation[t].status \in BlockingReservation
         /\ reservation[r].vehicle = reservation[t].vehicle)
        => ~Overlap(reservation[r].window, reservation[t].window)

ContractsApart ==
    \A c, d \in Contracts :
        (/\ c # d
         /\ contract[c].status \in BlockingContract
         /\ contract[d].status \in BlockingContract
         /\ contract[c].vehicle = contract[d].vehicle)
        => ~Overlap(contract[c].window, contract[d].window)

ReservationsApartFromContracts ==
    \A r \in Reservations, c \in Contracts :
        (/\ reservation[r].status \in BlockingReservation
         /\ contract[c].status \in BlockingContract
         /\ reservation[r].vehicle = contract[c].vehicle)
        => ~Overlap(reservation[r].window, contract[c].window)

NoDoubleBooking ==
    ReservationsApart /\ ContractsApart /\ ReservationsApartFromContracts

\* A contract past its return date does not stay ACTIVE for ever: the sweep
\* flags it unless it is closed first, whatever requests do meanwhile.
LateContractFlagged ==
    \A c \in Contracts : c \in LateContracts ~> c \notin LateContracts

\* A booking past its end date does not hold its vehicle for ever: the sweep
\* releases it unless a user moves or settles it first.
LateReservationReleased ==
    \A r \in Reservations : r \in LateReservations ~> r \notin LateReservations
-----------------------------------------------------------------------------
\* What the safety properties rest on: a row that exists has its columns, so has
\* a request its arguments and the rows it names; an id not yet used names no
\* reservation; what a sweep has loaded from the contracts is past its end.
RowsFilled ==
    /\ \A r \in Reservations : reservation[r].status # "ABSENT" =>
            reservation[r].vehicle \in Vehicles /\ reservation[r].window \in Windows
    /\ \A c \in Contracts : contract[c].status # "ABSENT" =>
            contract[c].vehicle \in Vehicles /\ contract[c].window \in Windows

CallsFilled ==
    \A q \in Requests :
        /\ req[q].op \in {"createReservation", "createContract"} =>
                req[q].vehicle \in Vehicles /\ req[q].window \in Windows
        /\ req[q].op = "updateReservation" =>
                /\ req[q].reservation \in Reservations
                /\ reservation[req[q].reservation].status # "ABSENT"
                /\ reservation[req[q].reservation].vehicle = req[q].vehicle
        /\ req[q].op \in {"completeContract", "cancelContract"} =>
                /\ req[q].contract \in Contracts
                /\ contract[req[q].contract].status # "ABSENT"

UnusedIdsEmpty ==
    \A c \in Contracts : contract[c].status = "ABSENT" => contract[c].reservation = None

SweptIsLate ==
    \A s \in Sweepers : sweep[s].phase = "contracts" =>
        \A c \in sweep[s].batch \cap Contracts :
            contract[c].status # "ABSENT" /\ contract[c].window[2] < now

BookingInv == RowsFilled /\ CallsFilled /\ UnusedIdsEmpty /\ SweptIsLate
=============================================================================
