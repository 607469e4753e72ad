--------------------------- MODULE BookingProofs ---------------------------
(***************************************************************************)
(* What Booking guarantees of every number of vehicles, rows, requests and   *)
(* sweeps, however they interleave.                                          *)
(***************************************************************************)
EXTENDS Booking, TLAPS

LEMMA IdleType == Idle \in Request
  BY DEF Idle, Request, Ops

LEMMA InitType == Init => TypeOK
  <1> SUFFICES ASSUME Init PROVE TypeOK
    OBVIOUS
  <1>1. now \in 0..Horizon
    BY BookingAssumption DEF Init
  <1>2. req \in [Requests -> Request]
    BY IdleType DEF Init
  <1>3. QED
    BY <1>1, <1>2 DEF Init, TypeOK, VehicleStatus, ReservationRow, ContractRow, SweepPhase

\* Whatever a request reads, it only loses the read or ends.
LEMMA ReadType ==
  ASSUME TypeOK, NEW q \in Requests, NEW what, NEW ok, Read(q, what, ok)
  PROVE  TypeOK'
  <1>1. [req[q] EXCEPT !.unread = req[q].unread \ {what}] \in Request
    BY DEF TypeOK, Request
  <1>2. req' \in [Requests -> Request]
    BY <1>1, IdleType DEF TypeOK, Read
  <1>3. QED
    BY <1>2 DEF TypeOK, Read

LEMMA BeginType ==
  ASSUME TypeOK, NEW q \in Requests, NEW call \in Request, Begin(q, call)
  PROVE  TypeOK'
  BY DEF TypeOK, Begin

LEMMA BeginStepType ==
  ASSUME TypeOK, NEW q \in Requests, BeginStep(q)
  PROVE  TypeOK'
  <1> USE DEF Request, Idle, Ops, Reads, OverlapReads
  <1>1. ASSUME NEW v \in Vehicles, NEW w \in Windows, CreateReservation(q, v, w)
        PROVE  TypeOK'
    BY <1>1, BeginType DEF CreateReservation
  <1>2. ASSUME NEW r \in Reservations, NEW w \in Windows \cup {None},
               NEW s \in PatchedStatus \cup {None}, UpdateReservation(q, r, w, s)
        PROVE  TypeOK'
    <2>1. reservation[r].vehicle \in Vehicles \cup {None}
      BY DEF TypeOK, ReservationRow
    <2>2. QED
      BY <1>2, <2>1, BeginType DEF UpdateReservation
  <1>3. ASSUME NEW r \in Reservations, ConvertToContract(q, r)
        PROVE  TypeOK'
    <2>1. /\ reservation[r].vehicle \in Vehicles \cup {None}
          /\ reservation[r].window \in Windows \cup {None}
      BY DEF TypeOK, ReservationRow
    <2>2. QED
      BY <1>3, <2>1, BeginType DEF ConvertToContract
  <1>4. ASSUME NEW v \in Vehicles, NEW w \in Windows,
               NEW r \in Reservations \cup {None}, CreateContract(q, v, w, r)
        PROVE  TypeOK'
    BY <1>4, BeginType DEF CreateContract
  <1>5. ASSUME NEW c \in Contracts, CompleteContract(q, c)
        PROVE  TypeOK'
    BY <1>5, BeginType DEF CompleteContract
  <1>6. ASSUME NEW c \in Contracts, CancelContract(q, c)
        PROVE  TypeOK'
    BY <1>6, BeginType DEF CancelContract
  <1>7. QED
    BY <1>1, <1>2, <1>3, <1>4, <1>5, <1>6 DEF BeginStep

LEMMA WriteStepType ==
  ASSUME TypeOK, NEW q \in Requests, WriteStep(q)
  PROVE  TypeOK'
  <1>0. req[q] \in Request
    BY DEF TypeOK
  <1>1. CASE InsertReservation(q)
    <2>1. PICK r \in Reservations :
            reservation' = [reservation EXCEPT ![r] =
                              [status |-> "PENDING", vehicle |-> req[q].vehicle,
                               window |-> req[q].window]]
      BY <1>1 DEF InsertReservation
    <2>2. [status |-> "PENDING", vehicle |-> req[q].vehicle,
           window |-> req[q].window] \in ReservationRow
      BY <1>0 DEF Request, ReservationRow, ReservationStatus
    <2>3. QED
      BY <1>1, <2>1, <2>2, IdleType DEF TypeOK, InsertReservation
  <1>2. CASE WriteReservation(q)
    <2>1. /\ \A old \in Windows \cup {None} :
                Given(req[q].window, old) \in Windows \cup {None}
          /\ \A old \in ReservationStatus \cup {"ABSENT"} :
                Given(req[q].status, old) \in ReservationStatus \cup {"ABSENT"}
      BY <1>0, BookingAssumption DEF Request, Given
    <2>2. \A old \in ReservationRow :
            [old EXCEPT !.window = Given(req[q].window, old.window),
                        !.status = Given(req[q].status, old.status)] \in ReservationRow
      BY <2>1 DEF ReservationRow
    <2>3. ASSUME NEW r \in Reservations
          PROVE  reservation'[r] \in ReservationRow
      <3>1. CASE r = req[q].reservation
        <4>1. reservation'[r] = [reservation[r] EXCEPT
                    !.window = Given(req[q].window, reservation[r].window),
                    !.status = Given(req[q].status, reservation[r].status)]
          BY <1>2, <3>1 DEF TypeOK, WriteReservation
        <4>2. reservation[r] \in ReservationRow
          BY DEF TypeOK
        <4>3. QED
          BY <2>2, <4>1, <4>2
      <3>2. CASE r # req[q].reservation
        BY <1>2, <3>2 DEF TypeOK, WriteReservation
      <3>3. QED
        BY <3>1, <3>2
    <2>4. reservation' \in [Reservations -> ReservationRow]
      BY <1>2, <2>3 DEF TypeOK, WriteReservation
    <2>5. QED
      BY <1>2, <2>4, IdleType DEF TypeOK, WriteReservation
  <1>3. CASE InsertContract(q)
    <2>1. PICK c \in Contracts :
            contract' = [contract EXCEPT ![c] =
                            [status |-> "ACTIVE", vehicle |-> req[q].vehicle,
                             window |-> req[q].window,
                             reservation |-> req[q].reservation]]
      BY <1>3 DEF InsertContract, ContractRows
    <2>2. [status |-> "ACTIVE", vehicle |-> req[q].vehicle, window |-> req[q].window,
           reservation |-> req[q].reservation] \in ContractRow
      BY <1>0 DEF Request, ContractRow, ContractStatus
    <2>3. contract' \in [Contracts -> ContractRow]
      BY <2>1, <2>2 DEF TypeOK
    <2>4. vehicle' \in [Vehicles -> VehicleStatus]
      BY <1>3 DEF TypeOK, InsertContract, ContractRows, VehicleStatus
    <2>5. reservation' \in [Reservations -> ReservationRow]
      BY <1>3 DEF TypeOK, InsertContract, ContractRows, ReservationRow, ReservationStatus
    <2>6. QED
      BY <1>3, <2>3, <2>4, <2>5, IdleType DEF TypeOK, InsertContract, ContractRows
  <1>4. ASSUME NEW op, NEW closed \in ContractStatus, CloseContract(q, op, closed)
        PROVE  TypeOK'
    <2>1. contract' \in [Contracts -> ContractRow]
      BY <1>4 DEF TypeOK, CloseContract, ContractRow
    <2>2. vehicle' \in [Vehicles -> VehicleStatus]
      BY <1>4 DEF TypeOK, CloseContract, VehicleStatus
    <2>3. QED
      BY <1>4, <2>1, <2>2, IdleType DEF TypeOK, CloseContract
  <1>5. CASE WriteCompleted(q)
    BY <1>4, <1>5 DEF WriteCompleted, ContractStatus
  <1>6. CASE WriteCancelled(q)
    BY <1>4, <1>6 DEF WriteCancelled, ContractStatus
  <1>7. QED
    BY <1>1, <1>2, <1>3, <1>5, <1>6 DEF WriteStep

LEMMA SweepStepType ==
  ASSUME TypeOK, NEW s \in Sweepers, SweepStep(s) \/ AbandonSweep(s)
  PROVE  TypeOK'
  <1> DEFINE Batch == SUBSET (Reservations \cup Contracts)
  <1>1. ASSUME NEW from, NEW to \in SweepPhase, NEW rows \in Batch, Load(s, from, to, rows)
        PROVE  TypeOK'
    BY <1>1 DEF TypeOK, Load
  <1>2. CASE LoadReservations(s)
    BY <1>1, <1>2 DEF LoadReservations, LateReservations, SweepPhase
  <1>3. CASE LoadContracts(s)
    BY <1>1, <1>3 DEF LoadContracts, LateContracts, SweepPhase
  <1>4. CASE EndSweep(s)
    BY <1>1, <1>4 DEF EndSweep, SweepPhase
  <1>5. ASSUME NEW r \in Reservations, SweepReservation(s, r)
        PROVE  TypeOK'
    <2>1. reservation' \in [Reservations -> ReservationRow]
      BY <1>5 DEF TypeOK, SweepReservation, ReservationRow, ReservationStatus
    <2>2. QED
      BY <1>5, <2>1 DEF TypeOK, SweepReservation
  <1>6. ASSUME NEW c \in Contracts, SweepContract(s, c)
        PROVE  TypeOK'
    <2>1. contract' \in [Contracts -> ContractRow]
      BY <1>6 DEF TypeOK, SweepContract, ContractRow, ContractStatus
    <2>2. QED
      BY <1>6, <2>1 DEF TypeOK, SweepContract
  <1>7. CASE AbandonSweep(s)
    BY <1>7 DEF TypeOK, AbandonSweep, SweepPhase
  <1>8. QED
    BY <1>2, <1>3, <1>4, <1>5, <1>6, <1>7 DEF SweepStep

LEMMA NextType == TypeOK /\ [Next]_vars => TypeOK'
  <1> SUFFICES ASSUME TypeOK, [Next]_vars PROVE TypeOK'
    OBVIOUS
  <1>1. CASE Tick
    BY <1>1, BookingAssumption DEF TypeOK, Tick
  <1>2. ASSUME NEW q \in Requests, ReadStep(q)
        PROVE  TypeOK'
    BY <1>2, ReadType DEF ReadStep, ReadContractOf, ReadVehicle, ReadReservations,
                          ReadContracts
  <1>3. ASSUME NEW q \in Requests, Abort(q)
        PROVE  TypeOK'
    BY <1>3, IdleType DEF TypeOK, Abort
  <1>4. ASSUME NEW v \in Vehicles, NEW s \in PatchedVehicleStatus, PatchVehicle(v, s)
        PROVE  TypeOK'
    BY <1>4, BookingAssumption DEF TypeOK, PatchVehicle
  <1>5. CASE UNCHANGED vars
    BY <1>5 DEF TypeOK, vars
  <1>6. QED
    BY <1>1, <1>2, <1>3, <1>4, <1>5, BeginStepType, WriteStepType, SweepStepType DEF Next

\* Rows, requests and sweeps are always of their types.
THEOREM TypeCorrect == Spec => []TypeOK
  BY InitType, NextType, PTL DEF Spec
-----------------------------------------------------------------------------
\* The steps that write rows.
Closes(q) == WriteCompleted(q) \/ WriteCancelled(q)

LEMMA RowSteps ==
  ASSUME [Next]_vars
  PROVE  \/ UNCHANGED <<vehicle, reservation, contract>>
         \/ \E q \in Requests : InsertReservation(q) \/ WriteReservation(q)
         \/ \E q \in Requests : InsertContract(q)
         \/ \E q \in Requests : Closes(q)
         \/ \E v \in Vehicles, s \in PatchedVehicleStatus : PatchVehicle(v, s)
         \/ \E s \in Sweepers, r \in Reservations : SweepReservation(s, r)
         \/ \E s \in Sweepers, c \in Contracts : SweepContract(s, c)
  <1> DEFINE Same == UNCHANGED <<vehicle, reservation, contract>>
  <1>1. CASE UNCHANGED vars
    BY <1>1 DEF vars
  <1>2. CASE Tick
    BY <1>2 DEF Tick
  <1>3. ASSUME NEW q \in Requests, BeginStep(q)
        PROVE  Same
    BY <1>3 DEF BeginStep, Begin, CreateReservation, UpdateReservation,
                ConvertToContract, CreateContract, CompleteContract, CancelContract
  <1>4. ASSUME NEW q \in Requests, ReadStep(q) \/ Abort(q)
        PROVE  Same
    BY <1>4 DEF ReadStep, Read, ReadContractOf, ReadVehicle, ReadReservations,
                ReadContracts, Abort
  <1>5. ASSUME NEW q \in Requests, WriteStep(q)
        PROVE  InsertReservation(q) \/ WriteReservation(q) \/ InsertContract(q) \/ Closes(q)
    BY <1>5 DEF WriteStep, Closes
  <1>6. ASSUME NEW s \in Sweepers, SweepStep(s) \/ AbandonSweep(s)
        PROVE  \/ Same
               \/ \E r \in Reservations : SweepReservation(s, r)
               \/ \E c \in Contracts : SweepContract(s, c)
    BY <1>6 DEF SweepStep, AbandonSweep, Load, LoadReservations, LoadContracts, EndSweep
  <1>7. QED
    BY <1>1, <1>2, <1>3, <1>4, <1>5, <1>6 DEF Next

\* What a step can do to the contracts: nothing, insert one under an unused id,
\* close one, or flag an ACTIVE one as OVERDUE.
LEMMA ContractSteps ==
  ASSUME [Next]_vars
  PROVE  \/ UNCHANGED contract
         \/ \E q \in Requests : InsertContract(q)
         \/ \E q \in Requests : Closes(q)
         \/ \E s \in Sweepers, c \in Contracts : SweepContract(s, c)
  BY RowSteps DEF InsertReservation, WriteReservation, PatchVehicle, SweepReservation

\* The contract written by each of these steps, and that all others are kept.
Inserted(q, c) ==
    /\ contract[c].status = "ABSENT"
    /\ contract'[c].status = "ACTIVE"
    /\ contract'[c].vehicle = req[q].vehicle
    /\ contract'[c].window = req[q].window
    /\ contract'[c].reservation = req[q].reservation
    /\ \A d \in Contracts \ {c} : contract'[d] = contract[d]

LEMMA InsertedContract ==
  ASSUME TypeOK, NEW q \in Requests, InsertContract(q)
  PROVE  \E c \in Contracts : Inserted(q, c)
  BY DEF TypeOK, InsertContract, ContractRows, Inserted

LEMMA ClosedContractRow ==
  ASSUME TypeOK, NEW q \in Requests, Closes(q)
  PROVE  \A d \in Contracts :
            /\ d # req[q].contract => contract'[d] = contract[d]
            /\ d = req[q].contract =>
                    /\ contract'[d].status \in ClosedContract
                    /\ contract'[d].vehicle = contract[d].vehicle
                    /\ contract'[d].window = contract[d].window
                    /\ contract'[d].reservation = contract[d].reservation
  BY DEF TypeOK, ContractRow, Closes, WriteCompleted, WriteCancelled, CloseContract,
         ClosedContract

LEMMA SweptContractRow ==
  ASSUME TypeOK, NEW s \in Sweepers, NEW c \in Contracts, SweepContract(s, c)
  PROVE  \A d \in Contracts :
            \/ contract'[d] = contract[d]
            \/ /\ d = c
               /\ contract[d].status = "ACTIVE"
               /\ contract'[d].status = "OVERDUE"
               /\ contract'[d].vehicle = contract[d].vehicle
               /\ contract'[d].window = contract[d].window
               /\ contract'[d].reservation = contract[d].reservation
  BY DEF TypeOK, ContractRow, SweepContract

\* No interleaving gives a reservation two contracts: the unique column refuses
\* the second one whatever was read before.
THEOREM OneContract == Spec => []OneContractPerReservation
  <1>1. Init => OneContractPerReservation
    BY DEF Init, OneContractPerReservation
  <1>2. TypeOK /\ OneContractPerReservation /\ [Next]_vars => OneContractPerReservation'
    <2> SUFFICES ASSUME TypeOK, OneContractPerReservation, [Next]_vars
                 PROVE  OneContractPerReservation'
      OBVIOUS
    <2>1. CASE UNCHANGED contract
      BY <2>1 DEF OneContractPerReservation
    <2>2. ASSUME NEW q \in Requests, InsertContract(q)
          PROVE  OneContractPerReservation'
      <3>0. PICK c \in Contracts : Inserted(q, c)
        BY <2>2, InsertedContract
      <3>2. req[q].reservation # None =>
              \A d \in Contracts : contract[d].reservation # req[q].reservation
        BY <2>2 DEF InsertContract
      <3>3. QED
        BY <3>0, <3>2 DEF OneContractPerReservation, Inserted
    <2>3. ASSUME NEW q \in Requests, Closes(q)
          PROVE  OneContractPerReservation'
      BY <2>3, ClosedContractRow DEF OneContractPerReservation
    <2>4. ASSUME NEW s \in Sweepers, NEW c \in Contracts, SweepContract(s, c)
          PROVE  OneContractPerReservation'
      BY <2>4, SweptContractRow DEF OneContractPerReservation
    <2>5. QED
      BY <2>1, <2>2, <2>3, <2>4, ContractSteps
  <1>3. QED
    BY <1>1, <1>2, TypeCorrect, PTL DEF Spec

\* Completion and cancellation are final, against every sweep and every stale
\* request.
THEOREM ClosedIsFinal == Spec => ClosedStaysClosed
  <1>1. TypeOK /\ [Next]_vars =>
          [\A c \in Contracts : contract[c].status \in ClosedContract =>
              contract'[c].status \in ClosedContract]_vars
    <2> SUFFICES ASSUME TypeOK, [Next]_vars, NEW c \in Contracts,
                        contract[c].status \in ClosedContract
                 PROVE  contract'[c].status \in ClosedContract
      OBVIOUS
    <2>1. ASSUME NEW q \in Requests, InsertContract(q)
          PROVE  contract'[c] = contract[c]
      BY <2>1, InsertedContract DEF ClosedContract, Inserted
    <2>2. ASSUME NEW q \in Requests, Closes(q)
          PROVE  contract'[c].status \in ClosedContract
      BY <2>2, ClosedContractRow
    <2>3. ASSUME NEW s \in Sweepers, NEW d \in Contracts, SweepContract(s, d)
          PROVE  contract'[c] = contract[c]
      BY <2>3, SweptContractRow DEF ClosedContract
    <2>4. QED
      BY <2>1, <2>2, <2>3, ContractSteps
  <1>2. QED
    BY <1>1, TypeCorrect, PTL DEF Spec, ClosedStaysClosed
-----------------------------------------------------------------------------
\* A vehicle is RENTED from the insertion of a contract until the closing of one,
\* so the contract that can bring it back is still there.
THEOREM RentedIsOut == Spec => []RentedMeansOut
  <1>1. Init => RentedMeansOut
    BY DEF Init, RentedMeansOut
  <1>2. TypeOK /\ RentedMeansOut /\ [Next]_vars => RentedMeansOut'
    <2> SUFFICES ASSUME TypeOK, RentedMeansOut, [Next]_vars,
                        "RENTED" \notin PatchedVehicleStatus,
                        NEW v \in Vehicles, vehicle'[v] = "RENTED"
                 PROVE  \E c \in Contracts : /\ contract'[c].vehicle = v
                                             /\ contract'[c].status \in LiveContract
      BY DEF RentedMeansOut
    <2>0. vehicle[v] = "RENTED" =>
            \E c \in Contracts : contract[c].vehicle = v /\ contract[c].status \in LiveContract
      BY DEF RentedMeansOut
    <2>1. CASE UNCHANGED <<vehicle, contract>>
      BY <2>0, <2>1
    <2>2. ASSUME NEW q \in Requests, InsertContract(q)
          PROVE  \E c \in Contracts : /\ contract'[c].vehicle = v
                                      /\ contract'[c].status \in LiveContract
      <3>1. PICK c \in Contracts : Inserted(q, c)
        BY <2>2, InsertedContract
      <3>2. CASE v = req[q].vehicle
        BY <3>1, <3>2 DEF LiveContract, Inserted
      <3>3. CASE v # req[q].vehicle
        <4>1. vehicle[v] = "RENTED"
          BY <2>2, <3>3 DEF TypeOK, InsertContract, ContractRows
        <4>2. QED
          BY <2>0, <3>1, <4>1 DEF LiveContract, Inserted
      <3>4. QED
        BY <3>2, <3>3
    <2>3. ASSUME NEW q \in Requests, Closes(q)
          PROVE  \E c \in Contracts : /\ contract'[c].vehicle = v
                                      /\ contract'[c].status \in LiveContract
      <3>1. vehicle' = [vehicle EXCEPT ![contract[req[q].contract].vehicle] = "AVAILABLE"]
        BY <2>3 DEF Closes, WriteCompleted, WriteCancelled, CloseContract
      <3>2. vehicle[v] = "RENTED" /\ v # contract[req[q].contract].vehicle
        BY <3>1 DEF TypeOK
      <3>3. PICK c \in Contracts : contract[c].vehicle = v /\ contract[c].status \in LiveContract
        BY <2>0, <3>2
      <3>4. contract'[c] = contract[c]
        BY <2>3, <3>2, <3>3, ClosedContractRow
      <3>5. QED
        BY <3>3, <3>4
    <2>4. ASSUME NEW s \in Sweepers, NEW d \in Contracts, SweepContract(s, d)
          PROVE  \E c \in Contracts : /\ contract'[c].vehicle = v
                                      /\ contract'[c].status \in LiveContract
      <3>1. vehicle[v] = "RENTED"
        BY <2>4 DEF SweepContract
      <3>2. QED
        BY <2>0, <2>4, <3>1, SweptContractRow DEF LiveContract
    <2>5. ASSUME NEW u \in Vehicles, NEW s \in PatchedVehicleStatus, PatchVehicle(u, s)
          PROVE  vehicle[v] = "RENTED" /\ contract' = contract
      BY <2>5 DEF TypeOK, PatchVehicle
    <2>6. QED
      BY <2>0, <2>1, <2>2, <2>3, <2>4, <2>5, RowSteps
         DEF InsertReservation, WriteReservation, SweepReservation
  <1>3. QED
    BY <1>1, <1>2, TypeCorrect, PTL DEF Spec

\* An id that is not in use names no reservation.
LEMMA UnusedIds == Spec => []UnusedIdsEmpty
  <1>1. Init => UnusedIdsEmpty
    BY DEF Init, UnusedIdsEmpty
  <1>2. TypeOK /\ UnusedIdsEmpty /\ [Next]_vars => UnusedIdsEmpty'
    <2> SUFFICES ASSUME TypeOK, UnusedIdsEmpty, [Next]_vars, NEW d \in Contracts,
                        contract'[d].status = "ABSENT"
                 PROVE  contract'[d].reservation = None
      BY DEF UnusedIdsEmpty
    <2>1. ASSUME NEW q \in Requests, InsertContract(q)
          PROVE  contract'[d] = contract[d]
      BY <2>1, InsertedContract DEF Inserted
    <2>2. ASSUME NEW q \in Requests, Closes(q)
          PROVE  contract'[d] = contract[d]
      <3>1. contract'[d].status \notin ClosedContract
        BY DEF ClosedContract
      <3>2. QED
        BY <2>2, <3>1, ClosedContractRow
    <2>3. ASSUME NEW s \in Sweepers, NEW c \in Contracts, SweepContract(s, c)
          PROVE  contract'[d] = contract[d]
      BY <2>3, SweptContractRow
    <2>4. QED
      BY <2>1, <2>2, <2>3, ContractSteps DEF UnusedIdsEmpty
  <1>3. QED
    BY <1>1, <1>2, TypeCorrect, PTL DEF Spec

\* CONVERTED is written in the transaction that inserts the contract, and no step
\* takes a contract from its reservation.
THEOREM ConvertedIsContracted == Spec => []ConvertedHasContract
  <1>1. Init => ConvertedHasContract
    BY DEF Init, ConvertedHasContract
  <1>2. TypeOK /\ UnusedIdsEmpty /\ ConvertedHasContract /\ [Next]_vars
            => ConvertedHasContract'
    <2> SUFFICES ASSUME TypeOK, UnusedIdsEmpty, ConvertedHasContract, [Next]_vars,
                        "CONVERTED" \notin PatchedStatus,
                        NEW r \in Reservations, reservation'[r].status = "CONVERTED"
                 PROVE  \E c \in Contracts : contract'[c].reservation = r
      BY DEF ConvertedHasContract
    <2> DEFINE Done == \E c \in Contracts : contract'[c].reservation = r
    <2>0. reservation[r].status = "CONVERTED" =>
            \E c \in Contracts : contract[c].reservation = r
      BY DEF ConvertedHasContract
    <2>1. CASE UNCHANGED <<vehicle, reservation, contract>>
      BY <2>0, <2>1
    <2>2. ASSUME NEW q \in Requests, InsertReservation(q)
          PROVE  Done
      <3>1. reservation[r].status = "CONVERTED" /\ contract' = contract
        BY <2>2 DEF TypeOK, InsertReservation
      <3>2. QED
        BY <2>0, <3>1
    <2>3. ASSUME NEW q \in Requests, WriteReservation(q)
          PROVE  Done
      <3>1. req[q].status # "CONVERTED"
        BY BookingAssumption DEF TypeOK, Request, ReservationStatus
      <3>2. reservation[r].status = "CONVERTED" /\ contract' = contract
        BY <2>3, <3>1 DEF TypeOK, ReservationRow, WriteReservation, Given
      <3>3. QED
        BY <2>0, <3>2
    <2>4. ASSUME NEW q \in Requests, InsertContract(q)
          PROVE  Done
      <3>1. PICK c \in Contracts : Inserted(q, c)
        BY <2>4, InsertedContract
      <3>2. CASE r = req[q].reservation
        BY <3>1, <3>2 DEF Inserted
      <3>3. CASE r # req[q].reservation
        <4>1. reservation[r].status = "CONVERTED"
          BY <2>4, <3>3 DEF InsertContract, ContractRows
        <4>2. contract[c].reservation # r
          BY <3>1, BookingAssumption DEF UnusedIdsEmpty, Inserted
        <4>3. QED
          BY <2>0, <3>1, <4>1, <4>2 DEF Inserted
      <3>4. QED
        BY <3>2, <3>3
    <2>5. ASSUME NEW q \in Requests, Closes(q)
          PROVE  Done
      <3>1. reservation' = reservation
        BY <2>5 DEF Closes, WriteCompleted, WriteCancelled, CloseContract
      <3>2. \A c \in Contracts : contract'[c].reservation = contract[c].reservation
        BY <2>5, ClosedContractRow
      <3>3. QED
        BY <2>0, <3>1, <3>2
    <2>6. ASSUME NEW s \in Sweepers, NEW t \in Reservations, SweepReservation(s, t)
          PROVE  Done
      <3>1. reservation[r].status = "CONVERTED" /\ contract' = contract
        BY <2>6 DEF TypeOK, SweepReservation
      <3>2. QED
        BY <2>0, <3>1
    <2>7. ASSUME NEW s \in Sweepers, NEW d \in Contracts, SweepContract(s, d)
          PROVE  Done
      <3>1. reservation' = reservation
        BY <2>7 DEF SweepContract
      <3>2. \A c \in Contracts : contract'[c].reservation = contract[c].reservation
        BY <2>7, SweptContractRow
      <3>3. QED
        BY <2>0, <3>1, <3>2
    <2>8. QED
      BY <2>0, <2>1, <2>2, <2>3, <2>4, <2>5, <2>6, <2>7, RowSteps DEF PatchVehicle
  <1>3. QED
    BY <1>1, <1>2, TypeCorrect, UnusedIds, PTL DEF Spec
-----------------------------------------------------------------------------
\* A row that exists goes on to exist, with its vehicle; a contract also keeps its
\* window.
LEMMA RowsStay ==
  ASSUME TypeOK, [Next]_vars
  PROVE  /\ \A r \in Reservations : reservation[r].status # "ABSENT" =>
                /\ reservation'[r].status # "ABSENT"
                /\ reservation'[r].vehicle = reservation[r].vehicle
         /\ \A c \in Contracts : contract[c].status # "ABSENT" =>
                /\ contract'[c].status # "ABSENT"
                /\ contract'[c].vehicle = contract[c].vehicle
                /\ contract'[c].window = contract[c].window
  <1>1. ASSUME NEW r \in Reservations, reservation[r].status # "ABSENT"
        PROVE  /\ reservation'[r].status # "ABSENT"
               /\ reservation'[r].vehicle = reservation[r].vehicle
    <2>1. CASE UNCHANGED reservation
      BY <1>1, <2>1
    <2>2. ASSUME NEW q \in Requests, InsertReservation(q)
          PROVE  reservation'[r] = reservation[r]
      BY <1>1, <2>2 DEF TypeOK, InsertReservation
    <2>3. ASSUME NEW q \in Requests, WriteReservation(q)
          PROVE  /\ reservation'[r].status # "ABSENT"
                 /\ reservation'[r].vehicle = reservation[r].vehicle
      <3>1. Given(req[q].status, reservation[r].status) # "ABSENT"
        BY <1>1, BookingAssumption DEF TypeOK, Request, ReservationStatus, Given
      <3>2. QED
        BY <1>1, <2>3, <3>1 DEF TypeOK, ReservationRow, WriteReservation
    <2>4. ASSUME NEW q \in Requests, InsertContract(q)
          PROVE  /\ reservation'[r].status # "ABSENT"
                 /\ reservation'[r].vehicle = reservation[r].vehicle
      BY <1>1, <2>4 DEF TypeOK, ReservationRow, InsertContract, ContractRows
    <2>5. ASSUME NEW s \in Sweepers, NEW t \in Reservations, SweepReservation(s, t)
          PROVE  /\ reservation'[r].status # "ABSENT"
                 /\ reservation'[r].vehicle = reservation[r].vehicle
      BY <1>1, <2>5 DEF TypeOK, ReservationRow, SweepReservation
    <2>6. QED
      BY <2>1, <2>2, <2>3, <2>4, <2>5, <1>1, RowSteps
         DEF Closes, WriteCompleted, WriteCancelled, CloseContract, PatchVehicle, SweepContract
  <1>2. ASSUME NEW c \in Contracts, contract[c].status # "ABSENT"
        PROVE  /\ contract'[c].status # "ABSENT"
               /\ contract'[c].vehicle = contract[c].vehicle
               /\ contract'[c].window = contract[c].window
    <2>1. ASSUME NEW q \in Requests, InsertContract(q)
          PROVE  contract'[c] = contract[c]
      BY <1>2, <2>1, InsertedContract DEF Inserted
    <2>2. QED
      BY <1>2, <2>1, ContractSteps, ClosedContractRow, SweptContractRow DEF ClosedContract
  <1>3. QED
    BY <1>1, <1>2

\* What a step can do to a request: nothing, end it, take a read from those it has
\* before it, or begin it.
GoesOn(q) == ReadStep(q) /\ req'[q] = [req[q] EXCEPT !.unread = req'[q].unread]

LEMMA CallSteps ==
  ASSUME TypeOK, [Next]_vars, NEW p \in Requests
  PROVE  req'[p] = req[p] \/ req'[p] = Idle \/ GoesOn(p) \/ BeginStep(p)
  <1> DEFINE Goal == req'[p] = req[p] \/ req'[p] = Idle \/ GoesOn(p) \/ BeginStep(p)
  <1>1. ASSUME NEW q \in Requests, BeginStep(q)
        PROVE  Goal
    <2>1. q # p => req'[p] = req[p]
      BY <1>1 DEF BeginStep, Begin, CreateReservation, UpdateReservation, ConvertToContract,
                  CreateContract, CompleteContract, CancelContract, TypeOK
    <2>2. QED
      BY <1>1, <2>1
  <1>2. ASSUME NEW q \in Requests, ReadStep(q)
        PROVE  Goal
    <2>1. PICK what, ok : Read(q, what, ok)
      BY <1>2 DEF ReadStep, ReadContractOf, ReadVehicle, ReadReservations, ReadContracts
    <2>2. q # p => req'[p] = req[p]
      BY <2>1 DEF Read, TypeOK
    <2>3. \/ req'[q] = Idle
          \/ req'[q] = [req[q] EXCEPT !.unread = req[q].unread \ {what}]
      BY <2>1 DEF Read, TypeOK
    <2>4. req[q] \in Request
      BY DEF TypeOK
    <2>5. req'[q] = Idle \/ req'[q] = [req[q] EXCEPT !.unread = req'[q].unread]
      BY <2>3, <2>4 DEF Request
    <2>6. QED
      BY <1>2, <2>2, <2>5 DEF GoesOn
  <1>3. ASSUME NEW q \in Requests, WriteStep(q) \/ Abort(q)
        PROVE  req'[p] = req[p] \/ req'[p] = Idle
    BY <1>3 DEF WriteStep, InsertReservation, WriteReservation, InsertContract, ContractRows,
                WriteCompleted, WriteCancelled, CloseContract, Abort, TypeOK
  <1>4. ASSUME NEW s \in Sweepers, SweepStep(s) \/ AbandonSweep(s)
        PROVE  req' = req
    BY <1>4 DEF SweepStep, Load, LoadReservations, LoadContracts, EndSweep, SweepReservation,
                SweepContract, AbandonSweep
  <1>5. CASE Tick \/ (\E v \in Vehicles, s \in PatchedVehicleStatus : PatchVehicle(v, s))
             \/ UNCHANGED vars
    BY <1>5 DEF Tick, PatchVehicle, vars
  <1>6. QED
    BY <1>1, <1>2, <1>3, <1>4, <1>5 DEF Next

\* Whom a booking names: a creation no reservation, a contract one that exists.
CallsRefer ==
    \A q \in Requests :
        /\ req[q].op = "createReservation" => req[q].reservation = None
        /\ req[q].op = "createContract" /\ req[q].reservation # None =>
                reservation[req[q].reservation].status # "ABSENT"

Filled == TypeOK /\ RowsFilled /\ CallsFilled /\ CallsRefer

LEMMA InitFilled == Init => Filled
  <1> SUFFICES ASSUME Init PROVE Filled
    OBVIOUS
  <1>1. RowsFilled
    BY DEF Init, RowsFilled
  <1>2. CallsFilled /\ CallsRefer
    BY DEF Init, CallsFilled, CallsRefer, Idle
  <1>3. QED
    BY <1>1, <1>2, InitType DEF Filled

LEMMA NextRowsFilled ==
  ASSUME Filled, [Next]_vars
  PROVE  RowsFilled'
  <1> USE DEF Filled
  <1>1. ASSUME NEW r \in Reservations, reservation'[r].status # "ABSENT"
        PROVE  reservation'[r].vehicle \in Vehicles /\ reservation'[r].window \in Windows
    <2> DEFINE Goal == reservation'[r].vehicle \in Vehicles /\ reservation'[r].window \in Windows
    <2>0. reservation[r].status # "ABSENT" =>
                reservation[r].vehicle \in Vehicles /\ reservation[r].window \in Windows
      BY DEF RowsFilled
    <2>1. CASE UNCHANGED reservation
      BY <1>1, <2>0, <2>1
    <2>2. ASSUME NEW q \in Requests, InsertReservation(q)
          PROVE  Goal
      <3>1. req[q].vehicle \in Vehicles /\ req[q].window \in Windows
        BY <2>2 DEF InsertReservation, CallsFilled
      <3>2. \/ reservation'[r] = reservation[r]
            \/ reservation'[r].vehicle = req[q].vehicle /\ reservation'[r].window = req[q].window
        BY <2>2 DEF InsertReservation, TypeOK
      <3>3. QED
        BY <1>1, <2>0, <3>1, <3>2
    <2>3. ASSUME NEW q \in Requests, WriteReservation(q)
          PROVE  Goal
      <3>1. CASE r = req[q].reservation
        <4>1. reservation[r].status # "ABSENT"
          BY <2>3, <3>1 DEF WriteReservation, CallsFilled
        <4>2. /\ reservation'[r].vehicle = reservation[r].vehicle
              /\ reservation'[r].window = Given(req[q].window, reservation[r].window)
          BY <2>3, <3>1 DEF WriteReservation, TypeOK, ReservationRow
        <4>3. req[q].window \in Windows \cup {None}
          BY DEF TypeOK, Request
        <4>4. QED
          BY <2>0, <4>1, <4>2, <4>3 DEF Given
      <3>2. CASE r # req[q].reservation
        <4>1. reservation'[r] = reservation[r]
          BY <2>3, <3>2 DEF WriteReservation, TypeOK
        <4>2. QED
          BY <1>1, <2>0, <4>1
      <3>3. QED
        BY <3>1, <3>2
    <2>4. ASSUME NEW q \in Requests, InsertContract(q)
          PROVE  Goal
      <3>1. reservation[r].status # "ABSENT"
        <4>1. CASE r = req[q].reservation
          BY <2>4, <4>1, BookingAssumption DEF InsertContract, ContractRows, CallsRefer
        <4>2. CASE r # req[q].reservation
          BY <1>1, <2>4, <4>2 DEF InsertContract, ContractRows
        <4>3. QED
          BY <4>1, <4>2
      <3>2. /\ reservation'[r].vehicle = reservation[r].vehicle
            /\ reservation'[r].window = reservation[r].window
        BY <2>4 DEF InsertContract, ContractRows, TypeOK, ReservationRow
      <3>3. QED
        BY <2>0, <3>1, <3>2
    <2>5. ASSUME NEW s \in Sweepers, NEW t \in Reservations, SweepReservation(s, t)
          PROVE  Goal
      <3>1. /\ reservation'[r].vehicle = reservation[r].vehicle
            /\ reservation'[r].window = reservation[r].window
            /\ reservation[r].status # "ABSENT"
        BY <1>1, <2>5 DEF SweepReservation, TypeOK, ReservationRow, BlockingReservation
      <3>2. QED
        BY <2>0, <3>1
    <2>6. QED
      BY <2>1, <2>2, <2>3, <2>4, <2>5, RowSteps
         DEF Closes, WriteCompleted, WriteCancelled, CloseContract, PatchVehicle, SweepContract
  <1>2. ASSUME NEW c \in Contracts, contract'[c].status # "ABSENT"
        PROVE  contract'[c].vehicle \in Vehicles /\ contract'[c].window \in Windows
    <2> DEFINE Goal == contract'[c].vehicle \in Vehicles /\ contract'[c].window \in Windows
    <2>0. contract[c].status # "ABSENT" =>
                contract[c].vehicle \in Vehicles /\ contract[c].window \in Windows
      BY DEF RowsFilled
    <2>1. ASSUME NEW q \in Requests, InsertContract(q)
          PROVE  Goal
      <3>1. req[q].vehicle \in Vehicles /\ req[q].window \in Windows
        BY <2>1 DEF InsertContract, ContractRows, CallsFilled
      <3>2. PICK d \in Contracts : Inserted(q, d)
        BY <2>1, InsertedContract
      <3>3. QED
        BY <1>2, <2>0, <3>1, <3>2 DEF Inserted
    <2>2. ASSUME NEW q \in Requests, Closes(q)
          PROVE  Goal
      <3>1. contract[req[q].contract].status # "ABSENT" /\ req[q].contract \in Contracts
        BY <2>2 DEF Closes, WriteCompleted, WriteCancelled, CloseContract, CallsFilled
      <3>2. QED
        BY <1>2, <2>0, <2>2, <3>1, ClosedContractRow
    <2>3. ASSUME NEW s \in Sweepers, NEW d \in Contracts, SweepContract(s, d)
          PROVE  Goal
      BY <1>2, <2>0, <2>3, SweptContractRow
    <2>4. QED
      BY <1>2, <2>0, <2>1, <2>2, <2>3, ContractSteps
  <1>3. QED
    BY <1>1, <1>2 DEF RowsFilled

FilledCall(q) ==
    /\ req[q].op \in {"createReservation", "createContract"} =>
            req[q].vehicle \in Vehicles /\ req[q].window \in Windows
    /\ req[q].op = "createReservation" => req[q].reservation = None
    /\ req[q].op = "createContract" /\ req[q].reservation # None =>
            reservation[req[q].reservation].status # "ABSENT"
    /\ req[q].op = "updateReservation" =>
            /\ req[q].reservation \in Reservations
            /\ reservation[req[q].reservation].status # "ABSENT"
            /\ reservation[req[q].reservation].vehicle = req[q].vehicle
    /\ req[q].op \in {"completeContract", "cancelContract"} =>
            req[q].contract \in Contracts /\ contract[req[q].contract].status # "ABSENT"

LEMMA BegunCall ==
  ASSUME Filled, NEW q \in Requests, BeginStep(q)
  PROVE  FilledCall(q)'
  <1> USE DEF Filled
  <1>0. q \in DOMAIN req
    BY DEF TypeOK
  <1>1. ASSUME NEW v \in Vehicles, NEW w \in Windows, CreateReservation(q, v, w)
        PROVE  FilledCall(q)'
    <2>1. /\ req'[q].op = "createReservation" /\ req'[q].vehicle = v /\ req'[q].window = w
          /\ req'[q].reservation = None
      BY <1>0, <1>1 DEF CreateReservation, Begin, Idle
    <2>2. QED
      BY <2>1 DEF FilledCall
  <1>2. ASSUME NEW r \in Reservations, NEW w \in Windows \cup {None},
               NEW s \in PatchedStatus \cup {None}, UpdateReservation(q, r, w, s)
        PROVE  FilledCall(q)'
    <2>1. /\ req'[q].op = "updateReservation" /\ req'[q].reservation = r
          /\ req'[q].vehicle = reservation[r].vehicle
          /\ reservation[r].status # "ABSENT" /\ reservation' = reservation
      BY <1>0, <1>2 DEF UpdateReservation, Begin, Idle
    <2>2. QED
      BY <2>1 DEF FilledCall
  <1>3. ASSUME NEW v, NEW w, NEW r, NEW unread, Begin(q, [Idle EXCEPT
                    !.op = "createContract", !.reservation = r, !.vehicle = v,
                    !.window = w, !.unread = unread]),
               v \in Vehicles, w \in Windows, r # None => reservation[r].status # "ABSENT"
        PROVE  FilledCall(q)'
    <2>1. /\ req'[q].op = "createContract" /\ req'[q].reservation = r
          /\ req'[q].vehicle = v /\ req'[q].window = w /\ reservation' = reservation
      BY <1>0, <1>3 DEF Begin, Idle
    <2>2. QED
      BY <1>3, <2>1 DEF FilledCall
  <1>4. ASSUME NEW r \in Reservations, ConvertToContract(q, r)
        PROVE  FilledCall(q)'
    <2>1. /\ reservation[r].status # "ABSENT"
          /\ reservation[r].vehicle \in Vehicles /\ reservation[r].window \in Windows
      BY <1>4 DEF ConvertToContract, RowsFilled
    <2>2. QED
      BY <1>3, <1>4, <2>1 DEF ConvertToContract
  <1>5. ASSUME NEW v \in Vehicles, NEW w \in Windows, NEW r \in Reservations \cup {None},
               CreateContract(q, v, w, r)
        PROVE  FilledCall(q)'
    BY <1>3, <1>5 DEF CreateContract
  <1>6. ASSUME NEW c \in Contracts, CompleteContract(q, c) \/ CancelContract(q, c)
        PROVE  FilledCall(q)'
    <2>1. /\ req'[q].op \in {"completeContract", "cancelContract"} /\ req'[q].contract = c
          /\ contract[c].status # "ABSENT" /\ contract' = contract
      BY <1>0, <1>6 DEF CompleteContract, CancelContract, Begin, Idle
    <2>2. QED
      BY <2>1 DEF FilledCall
  <1>7. QED
    BY <1>1, <1>2, <1>4, <1>5, <1>6 DEF BeginStep

LEMMA NextCallsFilled ==
  ASSUME Filled, [Next]_vars
  PROVE  CallsFilled' /\ CallsRefer'
  <1> USE DEF Filled
  <1>1. ASSUME NEW q \in Requests, req'[q].op = req[q].op, req'[q].vehicle = req[q].vehicle,
               req'[q].window = req[q].window, req'[q].reservation = req[q].reservation,
               req'[q].contract = req[q].contract
        PROVE  FilledCall(q)'
    <2>1. FilledCall(q)
      BY DEF FilledCall, CallsFilled, CallsRefer
    <2>2. req[q].reservation \in Reservations \cup {None}
      BY DEF TypeOK, Request
    <2>3. QED
      BY <1>1, <2>1, <2>2, RowsStay DEF FilledCall
  <1>2. ASSUME NEW q \in Requests
        PROVE  FilledCall(q)'
    <2>1. CASE req'[q] = Idle
      BY <2>1 DEF FilledCall, Idle
    <2>2. CASE GoesOn(q)
      <3>1. req[q] \in Request
        BY DEF TypeOK
      <3>2. /\ req'[q].op = req[q].op /\ req'[q].vehicle = req[q].vehicle
            /\ req'[q].window = req[q].window /\ req'[q].reservation = req[q].reservation
            /\ req'[q].contract = req[q].contract
        BY <2>2, <3>1 DEF GoesOn, Request
      <3>3. QED
        BY <1>1, <3>2
    <2>3. QED
      BY <1>1, <2>1, <2>2, BegunCall, CallSteps
  <1>3. QED
    BY <1>2 DEF FilledCall, CallsFilled, CallsRefer

LEMMA NextFilled == Filled /\ [Next]_vars => Filled'
  BY NextType, NextRowsFilled, NextCallsFilled DEF Filled

\* A contract that is late stays late, for days only pass.
LEMMA LateStays ==
  ASSUME Filled, [Next]_vars, NEW c \in Contracts, contract[c].status # "ABSENT",
         contract[c].window[2] < now
  PROVE  contract'[c].status # "ABSENT" /\ contract'[c].window[2] < now'
  <1> USE DEF Filled
  <1>0. now \in Nat /\ now' \in Nat /\ now <= now'
    <2>1. now \in Nat /\ now' \in Nat
      BY NextType, BookingAssumption DEF TypeOK
    <2>2. now' = now \/ now' = now + 1
      BY DEF Next, Tick, BeginStep, Begin, CreateReservation, UpdateReservation,
             ConvertToContract, CreateContract, CompleteContract, CancelContract, ReadStep, Read,
             ReadContractOf, ReadVehicle, ReadReservations, ReadContracts, WriteStep,
             InsertReservation, WriteReservation, InsertContract, ContractRows, WriteCompleted,
             WriteCancelled, CloseContract, Abort, PatchVehicle, SweepStep, Load,
             LoadReservations, LoadContracts, EndSweep, SweepReservation, SweepContract,
             AbandonSweep, vars
    <2>3. QED
      BY <2>1, <2>2
  <1>1. contract[c].window \in Windows /\ contract'[c].window = contract[c].window
    BY RowsStay DEF RowsFilled
  <1>2. contract[c].window[2] \in Nat
    BY <1>1, BookingAssumption DEF Windows, Days
  <1>3. QED
    BY <1>0, <1>1, <1>2, RowsStay

LEMMA NextSweptIsLate ==
  ASSUME Filled, SweptIsLate, [Next]_vars
  PROVE  SweptIsLate'
  <1> USE DEF Filled
  <1>2. ASSUME NEW s \in Sweepers, sweep'[s].phase = "contracts",
               NEW c \in sweep'[s].batch \cap Contracts
        PROVE  contract[c].status # "ABSENT" /\ contract[c].window[2] < now
    <2>1. CASE sweep'[s] = sweep[s]
      BY <1>2, <2>1 DEF SweptIsLate
    <2>2. CASE LoadContracts(s)
      BY <1>2, <2>2 DEF LoadContracts, Load, LateContracts, TypeOK
    <2>3. ASSUME NEW d \in Contracts, SweepContract(s, d)
          PROVE  contract[c].status # "ABSENT" /\ contract[c].window[2] < now
      <3>1. sweep[s].phase = "contracts" /\ c \in sweep[s].batch
        BY <1>2, <2>3 DEF SweepContract, TypeOK
      <3>2. QED
        BY <1>2, <3>1 DEF SweptIsLate
    <2>4. CASE \/ LoadReservations(s) \/ EndSweep(s) \/ AbandonSweep(s)
               \/ \E r \in Reservations : SweepReservation(s, r)
      <3>1. sweep'[s].phase # "contracts"
        BY <2>4 DEF LoadReservations, EndSweep, Load, AbandonSweep, SweepReservation, TypeOK
      <3>2. QED
        BY <1>2, <3>1
    <2>5. ASSUME NEW t \in Sweepers \ {s}, SweepStep(t) \/ AbandonSweep(t)
          PROVE  sweep'[s] = sweep[s]
      BY <2>5 DEF SweepStep, Load, LoadReservations, LoadContracts, EndSweep, SweepReservation,
                  SweepContract, AbandonSweep, TypeOK
    <2>6. CASE sweep' = sweep
      BY <2>1, <2>6
    <2>7. \/ sweep' = sweep
          \/ \E t \in Sweepers : SweepStep(t) \/ AbandonSweep(t)
      BY DEF Next, Tick, BeginStep, Begin, CreateReservation, UpdateReservation,
             ConvertToContract, CreateContract, CompleteContract, CancelContract, ReadStep, Read,
             ReadContractOf, ReadVehicle, ReadReservations, ReadContracts, WriteStep,
             InsertReservation, WriteReservation, InsertContract, ContractRows, WriteCompleted,
             WriteCancelled, CloseContract, Abort, PatchVehicle, vars
    <2>8. QED
      BY <2>1, <2>2, <2>3, <2>4, <2>5, <2>6, <2>7 DEF SweepStep
  <1>3. QED
    BY <1>2, LateStays DEF SweptIsLate

\* Only contracts whose return date has passed are flagged, whatever becomes of
\* them between the load of a sweep and its writes.
THEOREM FlaggedIsLate == Spec => []OverdueIsLate
  <1>1. Init => Filled /\ SweptIsLate /\ OverdueIsLate
    BY InitFilled DEF Init, SweptIsLate, OverdueIsLate
  <1>2. Filled /\ SweptIsLate /\ OverdueIsLate /\ [Next]_vars
            => (Filled /\ SweptIsLate /\ OverdueIsLate)'
    <2> SUFFICES ASSUME Filled, SweptIsLate, OverdueIsLate, [Next]_vars,
                        NEW c \in Contracts, contract'[c].status = "OVERDUE"
                 PROVE  contract'[c].window[2] < now'
      BY NextFilled, NextSweptIsLate DEF OverdueIsLate
    <2>1. contract[c].status # "ABSENT" /\ contract[c].window[2] < now
      <3>1. CASE contract'[c] = contract[c]
        BY <3>1 DEF OverdueIsLate
      <3>2. ASSUME NEW q \in Requests, InsertContract(q)
            PROVE  contract'[c] = contract[c]
        BY <3>2, InsertedContract DEF Filled, Inserted
      <3>3. ASSUME NEW q \in Requests, Closes(q)
            PROVE  contract'[c] = contract[c]
        BY <3>3, ClosedContractRow DEF Filled, ClosedContract
      <3>4. ASSUME NEW s \in Sweepers, NEW d \in Contracts, SweepContract(s, d)
            PROVE  \/ contract'[c] = contract[c]
                   \/ contract[c].status # "ABSENT" /\ contract[c].window[2] < now
        <4>1. sweep[s].phase = "contracts" /\ d \in sweep[s].batch \cap Contracts
          BY <3>4 DEF SweepContract
        <4>2. contract[d].status # "ABSENT" /\ contract[d].window[2] < now
          BY <4>1 DEF SweptIsLate
        <4>3. CASE c = d
          BY <4>2, <4>3
        <4>4. CASE c # d
          BY <3>4, <4>4, SweptContractRow DEF Filled
        <4>5. QED
          BY <4>3, <4>4
      <3>5. QED
        BY <3>1, <3>2, <3>3, <3>4, ContractSteps
    <2>2. QED
      BY <2>1, LateStays DEF Filled
  <1>3. QED
    BY <1>1, <1>2, PTL DEF Spec
=============================================================================
