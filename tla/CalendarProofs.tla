--------------------------- MODULE CalendarProofs ---------------------------
(***************************************************************************)
(* Under the two rules of BookingSerial no vehicle is booked twice, and the  *)
(* reservation and contract tables implement a calendar, for every number of *)
(* vehicles, rows, requests and sweeps.  What the proof rests on is that the *)
(* rows a request has counted cannot change under it: whoever writes a row   *)
(* for its vehicle would be a second booking of that vehicle in flight.      *)
(***************************************************************************)
EXTENDS BookingSerial, BookingProofs

\* A step takes nothing new from the calendar with this row.
ReservationKept(r) ==
    reservation'[r].status \in BlockingReservation =>
        /\ reservation[r].status \in BlockingReservation
        /\ reservation'[r].vehicle = reservation[r].vehicle
        /\ reservation'[r].window = reservation[r].window

ContractKept(c) ==
    contract'[c].status \in BlockingContract =>
        /\ contract[c].status \in BlockingContract
        /\ contract'[c].vehicle = contract[c].vehicle
        /\ contract'[c].window = contract[c].window

\* A booking that has made its checks is written, as a reservation or a contract.
Books(q) ==
    /\ Booking(q)
    /\ req[q].unread = {}
    /\ req[q].vehicle \in Vehicles
    /\ req[q].window \in Windows
    /\ req'[q] = Idle

NothingBooked ==
    /\ \A r \in Reservations : ReservationKept(r)
    /\ \A c \in Contracts : ContractKept(c)

BooksReservation(q, r) ==
    /\ Books(q)
    /\ reservation'[r].vehicle = req[q].vehicle
    /\ reservation'[r].window = req[q].window
    /\ \A t \in Reservations \ {r} : t # req[q].reservation /\ ReservationKept(t)
    /\ \A c \in Contracts : ContractKept(c)

BooksContract(q, c) ==
    /\ Books(q)
    /\ contract'[c].vehicle = req[q].vehicle
    /\ contract'[c].window = req[q].window
    /\ \A t \in Reservations :
            /\ ReservationKept(t)
            /\ t = req[q].reservation => reservation'[t].status \notin BlockingReservation
    /\ \A d \in Contracts \ {c} : ContractKept(d)

LEMMA BookedReservation ==
  ASSUME Filled, NEW q \in Requests, InsertReservation(q)
  PROVE  \E r \in Reservations : BooksReservation(q, r)
  <1>1. PICK r \in Reservations :
            /\ reservation[r].status = "ABSENT"
            /\ reservation' = [reservation EXCEPT ![r] =
                                [status |-> "PENDING", vehicle |-> req[q].vehicle,
                                 window |-> req[q].window]]
    BY DEF InsertReservation
  <1>2. Books(q) /\ req[q].reservation = None
    BY DEF InsertReservation, Filled, CallsFilled, CallsRefer, TypeOK, Books, Booking
  <1>3. \A t \in Reservations : t # req[q].reservation
    BY <1>2, BookingAssumption
  <1>4. \A t \in Reservations \ {r} : reservation'[t] = reservation[t]
    BY <1>1 DEF Filled, TypeOK
  <1>5. /\ reservation'[r].vehicle = req[q].vehicle
        /\ reservation'[r].window = req[q].window
    BY <1>1 DEF Filled, TypeOK
  <1>6. contract' = contract
    BY DEF InsertReservation
  <1>7. BooksReservation(q, r)
    BY <1>2, <1>3, <1>4, <1>5, <1>6 DEF BooksReservation, ReservationKept, ContractKept
  <1>8. QED
    BY <1>7

\* New dates are written on the strength of the checks; a status alone takes
\* nothing that was free.
LEMMA PatchedReservation ==
  ASSUME Filled, NEW q \in Requests, WriteReservation(q), NoReopening
  PROVE  NothingBooked \/ \E r \in Reservations : BooksReservation(q, r)
  <1> DEFINE r == req[q].reservation
  <1>1. /\ r \in Reservations
        /\ reservation[r].status # "ABSENT"
        /\ reservation[r].vehicle = req[q].vehicle
        /\ reservation[r].vehicle \in Vehicles
    BY DEF WriteReservation, Filled, CallsFilled, RowsFilled
  <1>2. \A t \in Reservations \ {r} : reservation'[t] = reservation[t]
    BY DEF WriteReservation, Filled, TypeOK
  <1>3. /\ reservation'[r].vehicle = reservation[r].vehicle
        /\ reservation'[r].window = Given(req[q].window, reservation[r].window)
        /\ reservation'[r].status = Given(req[q].status, reservation[r].status)
    BY <1>1 DEF WriteReservation, Filled, TypeOK, ReservationRow
  <1>4. contract' = contract /\ req'[q] = Idle /\ req[q].unread = {} /\ Booking(q)
    BY DEF WriteReservation, Filled, TypeOK, Booking
  <1>5. CASE req[q].window = None
    <2>1. req[q].status \in BlockingReservation
            => reservation[r].status \in BlockingReservation
      BY <1>5 DEF WriteReservation, NoReopening, ReopensUnchecked
    <2>2. ReservationKept(r)
      BY <1>3, <1>5, <2>1 DEF ReservationKept, Given
    <2>3. NothingBooked
      BY <1>2, <1>4, <2>2 DEF NothingBooked, ReservationKept, ContractKept
    <2>4. QED
      BY <2>3
  <1>6. CASE req[q].window # None
    <2>1. req[q].window \in Windows
      BY <1>6 DEF Filled, TypeOK, Request
    <2>2. reservation'[r].window = req[q].window
      BY <1>3, <1>6 DEF Given
    <2>3. Books(q)
      BY <1>1, <1>4, <2>1 DEF Books
    <2>4. BooksReservation(q, r)
      BY <1>1, <1>2, <1>3, <1>4, <2>2, <2>3
         DEF BooksReservation, ReservationKept, ContractKept
    <2>5. QED
      BY <1>1, <2>4
  <1>7. QED
    BY <1>5, <1>6

LEMMA BookedContract ==
  ASSUME Filled, NEW q \in Requests, InsertContract(q)
  PROVE  \E c \in Contracts : Inserted(q, c) /\ BooksContract(q, c)
  <1>1. PICK c \in Contracts : Inserted(q, c)
    BY InsertedContract DEF Filled
  <1>2. Books(q)
    BY DEF InsertContract, ContractRows, Filled, CallsFilled, TypeOK, Books, Booking
  <1>3. \A t \in Reservations :
            /\ t = req[q].reservation => reservation'[t].status = "CONVERTED"
            /\ t # req[q].reservation => reservation'[t] = reservation[t]
    BY DEF InsertContract, ContractRows, Filled, TypeOK, ReservationRow
  <1>4. \A t \in Reservations :
            /\ ReservationKept(t)
            /\ t = req[q].reservation => reservation'[t].status \notin BlockingReservation
    BY <1>3 DEF ReservationKept, BlockingReservation
  <1>5. \A d \in Contracts \ {c} : ContractKept(d)
    BY <1>1 DEF Inserted, ContractKept
  <1>6. QED
    BY <1>1, <1>2, <1>4, <1>5 DEF BooksContract, Inserted

\* Every step books nothing, or writes one booking that has made its checks.
LEMMA BookingSteps ==
  ASSUME Filled, [Next /\ OneBookingPerVehicle' /\ NoReopening]_vars
  PROVE  \/ NothingBooked
         \/ \E q \in Requests, r \in Reservations : BooksReservation(q, r)
         \/ \E q \in Requests, c \in Contracts : BooksContract(q, c)
  <1>1. CASE UNCHANGED <<reservation, contract>>
    BY <1>1 DEF NothingBooked, ReservationKept, ContractKept
  <1>2. ASSUME NEW q \in Requests, WriteReservation(q)
        PROVE  NothingBooked \/ \E r \in Reservations : BooksReservation(q, r)
    <2>1. CASE UNCHANGED vars
      BY <1>1, <2>1 DEF vars, NothingBooked, ReservationKept, ContractKept
    <2>2. QED
      BY <1>2, <2>1, PatchedReservation
  <1>3. ASSUME NEW q \in Requests, Closes(q)
        PROVE  NothingBooked
    <2>1. reservation' = reservation
      BY <1>3 DEF Closes, WriteCompleted, WriteCancelled, CloseContract
    <2>2. \A c \in Contracts : ContractKept(c)
      BY <1>3, ClosedContractRow DEF Filled, ContractKept, ClosedContract, BlockingContract
    <2>3. QED
      BY <2>1, <2>2 DEF NothingBooked, ReservationKept
  <1>4. ASSUME NEW s \in Sweepers, NEW t \in Reservations, SweepReservation(s, t)
        PROVE  NothingBooked
    <2>1. contract' = contract
      BY <1>4 DEF SweepReservation
    <2>2. ASSUME NEW r \in Reservations
          PROVE  ReservationKept(r)
      <3>1. reservation'[r] = reservation[r] \/ reservation'[r].status = "OVERDUE"
        BY <1>4 DEF SweepReservation, Filled, TypeOK, ReservationRow
      <3>2. QED
        BY <3>1 DEF ReservationKept, BlockingReservation
    <2>3. QED
      BY <2>1, <2>2 DEF NothingBooked, ContractKept
  <1>5. ASSUME NEW s \in Sweepers, NEW d \in Contracts, SweepContract(s, d)
        PROVE  NothingBooked
    <2>1. reservation' = reservation
      BY <1>5 DEF SweepContract
    <2>2. \A c \in Contracts : ContractKept(c)
      BY <1>5, SweptContractRow DEF Filled, ContractKept, BlockingContract
    <2>3. QED
      BY <2>1, <2>2 DEF NothingBooked, ReservationKept
  <1>6. QED
    BY <1>1, <1>2, <1>3, <1>4, <1>5, RowSteps, BookedReservation, BookedContract
       DEF PatchVehicle
-----------------------------------------------------------------------------
\* A booking overlaps a row that was kept only if it did before.
LEMMA OverlapsBefore ==
  ASSUME NEW p \in Requests, req'[p].vehicle = req[p].vehicle,
         req'[p].window = req[p].window, req'[p].reservation = req[p].reservation
  PROVE  /\ \A r \in Reservations : ReservationKept(r) /\ ReservationOverlaps(p, r)'
                => ReservationOverlaps(p, r)
         /\ \A c \in Contracts : ContractKept(c) /\ ContractOverlaps(p, c)'
                => ContractOverlaps(p, c)
  BY DEF ReservationKept, ReservationOverlaps, ContractKept, ContractOverlaps

\* What a request that goes on has checked is so when it checks it, and stays so
\* while another request writes a booking: that one is of another vehicle.
LEMMA NextChecksHold ==
  ASSUME Filled, OneBookingPerVehicle, ChecksHold,
         [Next /\ OneBookingPerVehicle' /\ NoReopening]_vars
  PROVE  ChecksHold'
  <1> SUFFICES ASSUME NEW p \in Requests, Booking(p)', req'[p].window # None
               PROVE  /\ "reservations" \notin req'[p].unread =>
                            \A r \in Reservations : ~ReservationOverlaps(p, r)'
                      /\ "contracts" \notin req'[p].unread =>
                            \A c \in Contracts : ~ContractOverlaps(p, c)'
    BY DEF ChecksHold
  <1>1. CASE req'[p] = req[p]
    <2>1. Booking(p) /\ req[p].window # None
      BY <1>1 DEF Booking
    <2>2. ASSUME NEW q \in Requests, Books(q)
          PROVE  req[q].vehicle # req[p].vehicle
      <3>1. q # p
        BY <2>1, <2>2, <1>1 DEF Books, Booking, Idle
      <3>2. QED
        BY <2>1, <2>2, <3>1 DEF OneBookingPerVehicle, Books
    <2>3. ASSUME NEW r \in Reservations
          PROVE  ReservationKept(r) \/ reservation'[r].vehicle # req[p].vehicle
      BY <2>2, BookingSteps DEF NothingBooked, BooksReservation, BooksContract
    <2>4. ASSUME NEW c \in Contracts
          PROVE  ContractKept(c) \/ contract'[c].vehicle # req[p].vehicle
      BY <2>2, BookingSteps DEF NothingBooked, BooksReservation, BooksContract
    <2>5. ASSUME NEW r \in Reservations, ReservationOverlaps(p, r)'
          PROVE  ReservationOverlaps(p, r)
      BY <1>1, <2>3, <2>5, OverlapsBefore DEF ReservationOverlaps
    <2>6. ASSUME NEW c \in Contracts, ContractOverlaps(p, c)'
          PROVE  ContractOverlaps(p, c)
      BY <1>1, <2>4, <2>6, OverlapsBefore DEF ContractOverlaps
    <2>7. QED
      BY <1>1, <2>1, <2>5, <2>6 DEF ChecksHold
  <1>2. CASE req'[p] = Idle
    BY <1>2 DEF Booking, Idle
  <1>3. CASE GoesOn(p)
    <2>1. UNCHANGED <<reservation, contract>>
      BY <1>3 DEF GoesOn, ReadStep, ReadContractOf, ReadVehicle, ReadReservations,
                  ReadContracts, Read
    <2>2. req[p] \in Request
      BY DEF Filled, TypeOK
    <2>3. /\ req'[p].op = req[p].op
          /\ req'[p].vehicle = req[p].vehicle
          /\ req'[p].window = req[p].window
          /\ req'[p].reservation = req[p].reservation
      BY <1>3, <2>2 DEF GoesOn, Request
    <2>4. Booking(p) /\ req[p].window # None
      BY <2>3 DEF Booking
    <2>5. req'[p] # Idle
      BY <2>3, <2>4 DEF Booking, Idle
    <2>6. /\ \A r \in Reservations : ReservationOverlaps(p, r)' => ReservationOverlaps(p, r)
          /\ \A c \in Contracts : ContractOverlaps(p, c)' => ContractOverlaps(p, c)
      BY <2>1, <2>3, OverlapsBefore DEF ReservationKept, ContractKept
    <2>7. CASE ReadContractOf(p) \/ ReadVehicle(p)
      <3>1. req'[p].unread \cap OverlapReads = req[p].unread \cap OverlapReads
        BY <2>2, <2>5, <2>7
           DEF ReadContractOf, ReadVehicle, Read, Request, Filled, TypeOK, OverlapReads
      <3>2. QED
        BY <2>4, <2>6, <3>1 DEF ChecksHold, OverlapReads
    <2>8. CASE ReadReservations(p)
      <3>1. /\ \A r \in Reservations : ~ReservationOverlaps(p, r)
            /\ req'[p].unread = req[p].unread \ {"reservations"}
        BY <2>2, <2>5, <2>8 DEF ReadReservations, Read, Request, Filled, TypeOK
      <3>2. QED
        BY <2>4, <2>6, <3>1 DEF ChecksHold
    <2>9. CASE ReadContracts(p)
      <3>1. /\ \A c \in Contracts : ~ContractOverlaps(p, c)
            /\ req'[p].unread = req[p].unread \ {"contracts"}
        BY <2>2, <2>5, <2>9 DEF ReadContracts, Read, Request, Filled, TypeOK
      <3>2. QED
        BY <2>4, <2>6, <3>1 DEF ChecksHold
    <2>10. QED
      BY <1>3, <2>7, <2>8, <2>9 DEF GoesOn, ReadStep
  <1>4. CASE BeginStep(p)
    <2>1. ASSUME NEW call, Begin(p, call)
          PROVE  req'[p] = call
      BY <2>1 DEF Begin, Filled, TypeOK
    <2>2. ASSUME NEW v \in Vehicles, NEW w \in Windows, CreateReservation(p, v, w)
          PROVE  OverlapReads \subseteq req'[p].unread
      BY <2>1, <2>2 DEF CreateReservation, Idle
    <2>3. ASSUME NEW r \in Reservations, NEW w \in Windows \cup {None},
                 NEW s \in PatchedStatus \cup {None}, UpdateReservation(p, r, w, s)
          PROVE  OverlapReads \subseteq req'[p].unread
      <3>1. req'[p] = [Idle EXCEPT !.op = "updateReservation", !.reservation = r,
                                   !.vehicle = reservation[r].vehicle,
                                   !.window = w, !.status = s,
                                   !.unread = IF w = None THEN {} ELSE OverlapReads]
        BY <2>1, <2>3 DEF UpdateReservation
      <3>2. w # None
        BY <3>1 DEF Idle
      <3>3. QED
        BY <3>1, <3>2 DEF Idle
    <2>4. ASSUME NEW r \in Reservations, ConvertToContract(p, r)
          PROVE  OverlapReads \subseteq req'[p].unread
      <3>1. req'[p] = [Idle EXCEPT !.op = "createContract", !.reservation = r,
                                   !.vehicle = reservation[r].vehicle,
                                   !.window = reservation[r].window, !.unread = Reads]
        BY <2>1, <2>4 DEF ConvertToContract
      <3>2. QED
        BY <3>1 DEF Idle, Reads, OverlapReads
    <2>5. ASSUME NEW v \in Vehicles, NEW w \in Windows, NEW r \in Reservations \cup {None},
                 CreateContract(p, v, w, r)
          PROVE  OverlapReads \subseteq req'[p].unread
      <3>1. req'[p] = [Idle EXCEPT !.op = "createContract", !.reservation = r,
                                   !.vehicle = v, !.window = w,
                                   !.unread = {"vehicle"} \cup OverlapReads]
        BY <2>1, <2>5 DEF CreateContract
      <3>2. QED
        BY <3>1 DEF Idle
    <2>6. ASSUME NEW c \in Contracts, CompleteContract(p, c) \/ CancelContract(p, c)
          PROVE  FALSE
      BY <2>1, <2>6 DEF CompleteContract, CancelContract, Idle, Booking
    <2>7. OverlapReads \subseteq req'[p].unread
      BY <1>4, <2>2, <2>3, <2>4, <2>5, <2>6 DEF BeginStep
    <2>8. QED
      BY <2>7 DEF OverlapReads
  <1>5. [Next]_vars
    OBVIOUS
  <1>6. QED
    BY <1>1, <1>2, <1>3, <1>4, <1>5, CallSteps DEF Filled

\* The rows that hold a vehicle are the kept ones and the one just written, which
\* overlaps none of them.
LEMMA NextNoDouble ==
  ASSUME Filled, ChecksHold, NoDoubleBooking,
         [Next /\ OneBookingPerVehicle' /\ NoReopening]_vars
  PROVE  NoDoubleBooking'
  <1> USE DEF NoDoubleBooking, ReservationsApart, ContractsApart,
              ReservationsApartFromContracts
  <1>1. ASSUME NEW q \in Requests, Books(q)
        PROVE  /\ \A r \in Reservations : ~ReservationOverlaps(q, r)
               /\ \A c \in Contracts : ~ContractOverlaps(q, c)
    BY <1>1, BookingAssumption DEF Books, ChecksHold
  <1>2. CASE NothingBooked
    BY <1>2 DEF NothingBooked, ReservationKept, ContractKept
  <1>3. ASSUME NEW q \in Requests, NEW r \in Reservations, BooksReservation(q, r)
        PROVE  NoDoubleBooking'
    <2>1. /\ \A t \in Reservations : ~ReservationOverlaps(q, t)
          /\ \A c \in Contracts : ~ContractOverlaps(q, c)
      BY <1>1, <1>3 DEF BooksReservation
    <2>2. \A t \in Reservations \ {r} :
            /\ reservation'[t].status \in BlockingReservation
            /\ reservation'[t].vehicle = reservation'[r].vehicle
            => /\ ~Overlap(reservation'[t].window, reservation'[r].window)
               /\ ~Overlap(reservation'[r].window, reservation'[t].window)
      BY <1>3, <2>1 DEF BooksReservation, ReservationKept, ReservationOverlaps, Overlap
    <2>3. \A c \in Contracts :
            /\ contract'[c].status \in BlockingContract
            /\ contract'[c].vehicle = reservation'[r].vehicle
            => ~Overlap(reservation'[r].window, contract'[c].window)
      BY <1>3, <2>1 DEF BooksReservation, ContractKept, ContractOverlaps, Overlap
    <2>4. ReservationsApart'
      BY <1>3, <2>2 DEF BooksReservation, ReservationKept
    <2>5. ContractsApart'
      BY <1>3 DEF BooksReservation, ContractKept
    <2>6. ReservationsApartFromContracts'
      BY <1>3, <2>3 DEF BooksReservation, ReservationKept, ContractKept
    <2>7. QED
      BY <2>4, <2>5, <2>6
  <1>4. ASSUME NEW q \in Requests, NEW c \in Contracts, BooksContract(q, c)
        PROVE  NoDoubleBooking'
    <2>1. /\ \A t \in Reservations : ~ReservationOverlaps(q, t)
          /\ \A d \in Contracts : ~ContractOverlaps(q, d)
      BY <1>1, <1>4 DEF BooksContract
    <2>2. \A d \in Contracts \ {c} :
            /\ contract'[d].status \in BlockingContract
            /\ contract'[d].vehicle = contract'[c].vehicle
            => /\ ~Overlap(contract'[d].window, contract'[c].window)
               /\ ~Overlap(contract'[c].window, contract'[d].window)
      BY <1>4, <2>1 DEF BooksContract, ContractKept, ContractOverlaps, Overlap
    <2>3. \A t \in Reservations :
            /\ reservation'[t].status \in BlockingReservation
            /\ reservation'[t].vehicle = contract'[c].vehicle
            => ~Overlap(reservation'[t].window, contract'[c].window)
      BY <1>4, <2>1 DEF BooksContract, ReservationKept, ReservationOverlaps
    <2>4. ReservationsApart'
      BY <1>4 DEF BooksContract, ReservationKept
    <2>5. ContractsApart'
      BY <1>4, <2>2 DEF BooksContract, ContractKept
    <2>6. ReservationsApartFromContracts'
      BY <1>4, <2>3 DEF BooksContract, ReservationKept, ContractKept
    <2>7. QED
      BY <2>4, <2>5, <2>6
  <1>5. QED
    BY <1>2, <1>3, <1>4, BookingSteps

SerialInv == Filled /\ OneBookingPerVehicle /\ ChecksHold /\ NoDoubleBooking

LEMMA SerialHolds == SerialSpec => []SerialInv
  <1>1. Init => SerialInv
    <2> SUFFICES ASSUME Init PROVE SerialInv
      OBVIOUS
    <2>1. Filled
      BY InitFilled
    <2>2. OneBookingPerVehicle /\ ChecksHold
      BY DEF Init, OneBookingPerVehicle, ChecksHold, Booking, Idle
    <2>3. NoDoubleBooking
      BY DEF Init, NoDoubleBooking, ReservationsApart, ContractsApart,
             ReservationsApartFromContracts, BlockingReservation, BlockingContract
    <2>4. QED
      BY <2>1, <2>2, <2>3 DEF SerialInv
  <1>2. SerialInv /\ [Next /\ OneBookingPerVehicle' /\ NoReopening]_vars => SerialInv'
    <2> SUFFICES ASSUME SerialInv, [Next /\ OneBookingPerVehicle' /\ NoReopening]_vars
                 PROVE  SerialInv'
      OBVIOUS
    <2>1. Filled'
      BY NextFilled DEF SerialInv
    <2>2. OneBookingPerVehicle'
      BY DEF SerialInv, vars, OneBookingPerVehicle, Booking
    <2>3. ChecksHold'
      BY NextChecksHold DEF SerialInv
    <2>4. NoDoubleBooking'
      BY NextNoDouble DEF SerialInv
    <2>5. QED
      BY <2>1, <2>2, <2>3, <2>4 DEF SerialInv
  <1>3. QED
    BY <1>1, <1>2, PTL DEF SerialSpec

\* Between a request's overlap check and its write no booking appears that the
\* check would have found.
THEOREM NothingMissed == SerialSpec => []ChecksHold
  BY SerialHolds, PTL DEF SerialInv

\* No vehicle is promised to two bookings for one time, however many requests,
\* sweeps and closings interleave, as long as users keep to the two rules.
THEOREM NeverDoubleBooked == SerialSpec => []NoDoubleBooking
  BY SerialHolds, PTL DEF SerialInv
-----------------------------------------------------------------------------
\* Which rows stand for a slot.
ReservationSlot(r) == Slot(r, reservation[r])
ContractSlot(c) == Slot(c, contract[c])

LEMMA BookedSlots ==
  ASSUME NEW slot
  PROVE  slot \in booked <=>
            \/ \E r \in Reservations : /\ reservation[r].status \in BlockingReservation
                                       /\ slot = ReservationSlot(r)
            \/ \E c \in Contracts : /\ contract[c].status \in BlockingContract
                                    /\ slot = ContractSlot(c)
  BY DEF booked, ReservationSlot, ContractSlot

\* A row that holds a vehicle is one of the calendar's slots.
LEMMA SlotTypes ==
  ASSUME Filled
  PROVE  /\ \A r \in Reservations : reservation[r].status \in BlockingReservation
                => ReservationSlot(r) \in Slots
         /\ \A c \in Contracts : contract[c].status \in BlockingContract
                => ContractSlot(c) \in Slots
  BY DEF Filled, RowsFilled, BlockingReservation, BlockingContract, ReservationSlot,
         ContractSlot, Slot, Slots

\* A reservation and a contract never stand for one slot, even under one id.
LEMMA SlotsDiffer ==
  ASSUME Filled, NoDoubleBooking, NEW r \in Reservations, NEW c \in Contracts,
         reservation[r].status \in BlockingReservation,
         contract[c].status \in BlockingContract
  PROVE  ReservationSlot(r) # ContractSlot(c)
  <1> SUFFICES ASSUME ReservationSlot(r) = ContractSlot(c) PROVE FALSE
    OBVIOUS
  <1>1. reservation[r].vehicle = contract[c].vehicle /\ reservation[r].window = contract[c].window
    BY DEF ReservationSlot, ContractSlot, Slot
  <1>2. ~Overlap(reservation[r].window, reservation[r].window)
    BY <1>1 DEF NoDoubleBooking, ReservationsApartFromContracts
  <1>3. reservation[r].window \in Windows
    BY DEF Filled, RowsFilled, BlockingReservation
  <1>4. QED
    BY <1>2, <1>3, BookingAssumption DEF Overlap, Windows, Days

\* A calendar that loses at most one slot and gains at most one that fits takes a
\* step of its specification, or none.
LEMMA CalendarStep ==
  ASSUME NEW lost, NEW gained,
         lost = {} \/ \E old \in booked : lost = {old},
         gained = {} \/ \E slot \in Slots : gained = {slot},
         booked' = (booked \ lost) \cup gained,
         \A slot \in gained, other \in booked \ lost : ~SameTime(slot, other)
  PROVE  [Calendar!Next]_booked
  <1> SUFFICES ASSUME booked' # booked PROVE Calendar!Next
    OBVIOUS
  <1> USE DEF Calendar!Next, Calendar!Take, Calendar!GiveBack, Calendar!Exchange, Calendar!Fits
  <1>1. CASE lost = {}
    BY <1>1
  <1>2. CASE gained = {}
    BY <1>2
  <1>3. ASSUME NEW old \in booked, lost = {old}, NEW slot \in Slots, gained = {slot}
        PROVE  Calendar!Next
    BY <1>3
  <1>4. QED
    BY <1>1, <1>2, <1>3

LEMMA NextBookedSlots ==
  ASSUME NEW slot
  PROVE  slot \in booked' <=>
            \/ \E r \in Reservations : /\ reservation'[r].status \in BlockingReservation
                                       /\ slot = Slot(r, reservation'[r])
            \/ \E c \in Contracts : /\ contract'[c].status \in BlockingContract
                                    /\ slot = Slot(c, contract'[c])
  BY DEF booked, Slot

\* One reservation is written: its old slot, if it had one, is given back for its
\* new one, if it has one.
LEMMA ReservationStep ==
  ASSUME Filled, Filled', NoDoubleBooking, NoDoubleBooking', NEW r \in Reservations,
         \A t \in Reservations \ {r} : reservation'[t] = reservation[t],
         contract' = contract
  PROVE  [Calendar!Next]_booked
  <1> DEFINE lost == IF reservation[r].status \in BlockingReservation
                     THEN {ReservationSlot(r)} ELSE {}
             gained == IF reservation'[r].status \in BlockingReservation
                       THEN {Slot(r, reservation'[r])} ELSE {}
  <1>1. lost = {} \/ \E old \in booked : lost = {old}
    BY BookedSlots
  <1>2. gained = {} \/ \E slot \in Slots : gained = {slot}
    BY DEF Filled, RowsFilled, BlockingReservation, Slots, Slot
  <1>3. ASSUME NEW slot
        PROVE  slot \in booked \ lost <=>
                \/ \E t \in Reservations \ {r} :
                        /\ reservation[t].status \in BlockingReservation
                        /\ slot = ReservationSlot(t)
                \/ \E c \in Contracts : /\ contract[c].status \in BlockingContract
                                        /\ slot = ContractSlot(c)
    <2>1. \A t \in Reservations : t # r => ReservationSlot(t) # ReservationSlot(r)
      BY DEF ReservationSlot, Slot
    <2>2. QED
      BY <2>1, BookedSlots, SlotsDiffer
  <1>4. booked' = (booked \ lost) \cup gained
    <2>1. ASSUME NEW slot
          PROVE  slot \in booked' <=> slot \in booked \ lost \/ slot \in gained
      BY <1>3, NextBookedSlots DEF ReservationSlot, ContractSlot
    <2>2. QED
      BY <2>1
  <1>5. ASSUME NEW slot \in gained, NEW other \in booked \ lost
        PROVE  ~SameTime(slot, other)
    <2>1. slot = Slot(r, reservation'[r]) /\ reservation'[r].status \in BlockingReservation
      OBVIOUS
    <2>2. ASSUME NEW t \in Reservations \ {r}, other = ReservationSlot(t),
                 reservation[t].status \in BlockingReservation
          PROVE  ~SameTime(slot, other)
      BY <2>1, <2>2 DEF NoDoubleBooking, ReservationsApart, SameTime, Slot, ReservationSlot
    <2>3. ASSUME NEW c \in Contracts, other = ContractSlot(c),
                 contract[c].status \in BlockingContract
          PROVE  ~SameTime(slot, other)
      BY <2>1, <2>3 DEF NoDoubleBooking, ReservationsApartFromContracts, SameTime, Slot,
                        ContractSlot
    <2>4. QED
      BY <1>3, <2>2, <2>3
  <1> HIDE DEF lost, gained
  <1>6. QED
    BY <1>1, <1>2, <1>4, <1>5, CalendarStep

\* One contract that held its vehicle, or one that did not, does so no longer.
LEMMA ContractStep ==
  ASSUME Filled, NoDoubleBooking, NEW c \in Contracts,
         \A d \in Contracts \ {c} : contract'[d] = contract[d],
         contract'[c].status \notin BlockingContract, reservation' = reservation
  PROVE  [Calendar!Next]_booked
  <1> DEFINE lost == IF contract[c].status \in BlockingContract
                     THEN {ContractSlot(c)} ELSE {}
             gained == {}
  <1>1. lost = {} \/ \E old \in booked : lost = {old}
    BY BookedSlots
  <1>2. \A d \in Contracts : d # c => ContractSlot(d) # ContractSlot(c)
    BY DEF ContractSlot, Slot
  <1>3. booked' = booked \ lost
    <2>1. ASSUME NEW slot
          PROVE  slot \in booked' <=> slot \in booked \ lost
      BY <1>2, BookedSlots, NextBookedSlots, SlotsDiffer DEF ReservationSlot, ContractSlot
    <2>2. QED
      BY <2>1
  <1>4. /\ gained = {}
        /\ booked' = (booked \ lost) \cup gained
        /\ \A slot \in gained, other \in booked \ lost : ~SameTime(slot, other)
    BY <1>3
  <1> HIDE DEF lost, gained
  <1>5. QED
    BY <1>1, <1>4, CalendarStep

\* A contract is inserted: it takes over the slot of its reservation, if that held
\* one, and else takes one of its own.
LEMMA HandoverStep ==
  ASSUME Filled, Filled', NoDoubleBooking, NoDoubleBooking', NEW q \in Requests,
         NEW c \in Contracts, Inserted(q, c), InsertContract(q)
  PROVE  [Calendar!Next]_booked
  <1> DEFINE lost == {ReservationSlot(r) : r \in {t \in Reservations :
                        /\ t = req[q].reservation
                        /\ reservation[t].status \in BlockingReservation}}
             gained == {Slot(c, contract'[c])}
  <1>1. lost = {} \/ \E old \in booked : lost = {old}
    BY BookedSlots
  <1>2. contract'[c].status \in BlockingContract /\ contract[c].status \notin BlockingContract
    BY DEF Inserted, BlockingContract
  <1>3. gained = {} \/ \E slot \in Slots : gained = {slot}
    BY <1>2 DEF Filled, RowsFilled, BlockingContract, Slots, Slot
  <1>4. \A t \in Reservations :
            /\ t = req[q].reservation => reservation'[t].status \notin BlockingReservation
            /\ t # req[q].reservation => reservation'[t] = reservation[t]
    BY DEF InsertContract, ContractRows, Filled, TypeOK, ReservationRow, BlockingReservation
  <1>5. \A d \in Contracts \ {c} : contract'[d] = contract[d]
    BY DEF Inserted
  <1>6. ASSUME NEW slot
        PROVE  slot \in booked \ lost <=>
                \/ \E t \in Reservations : /\ t # req[q].reservation
                                           /\ reservation[t].status \in BlockingReservation
                                           /\ slot = ReservationSlot(t)
                \/ \E d \in Contracts : /\ contract[d].status \in BlockingContract
                                        /\ slot = ContractSlot(d)
    <2>1. \A t, r \in Reservations : t # r => ReservationSlot(t) # ReservationSlot(r)
      BY DEF ReservationSlot, Slot
    <2>2. QED
      BY <2>1, BookedSlots, SlotsDiffer
  <1>7. booked' = (booked \ lost) \cup gained
    <2>1. ASSUME NEW slot
          PROVE  slot \in booked' <=> slot \in booked \ lost \/ slot \in gained
      BY <1>2, <1>4, <1>5, <1>6, NextBookedSlots DEF ReservationSlot, ContractSlot
    <2>2. QED
      BY <2>1
  <1>8. ASSUME NEW slot \in gained, NEW other \in booked \ lost
        PROVE  ~SameTime(slot, other)
    <2>1. slot = Slot(c, contract'[c])
      OBVIOUS
    <2>2. ASSUME NEW t \in Reservations, t # req[q].reservation,
                 other = ReservationSlot(t), reservation[t].status \in BlockingReservation
          PROVE  ~SameTime(slot, other)
      <3>1. reservation'[t] = reservation[t]
        BY <1>4, <2>2
      <3>2. ~Overlap(reservation[t].window, contract'[c].window)
               \/ reservation[t].vehicle # contract'[c].vehicle
        BY <1>2, <2>2, <3>1 DEF NoDoubleBooking, ReservationsApartFromContracts
      <3>3. QED
        BY <2>1, <2>2, <3>2 DEF SameTime, Slot, ReservationSlot, Overlap
    <2>3. ASSUME NEW d \in Contracts, other = ContractSlot(d),
                 contract[d].status \in BlockingContract
          PROVE  ~SameTime(slot, other)
      <3>1. d # c /\ contract'[d] = contract[d]
        BY <1>2, <1>5, <2>3
      <3>2. ~Overlap(contract'[c].window, contract[d].window)
               \/ contract'[c].vehicle # contract[d].vehicle
        BY <1>2, <2>3, <3>1 DEF NoDoubleBooking, ContractsApart
      <3>3. QED
        BY <2>1, <2>3, <3>2 DEF SameTime, Slot, ContractSlot
    <2>4. QED
      BY <1>6, <2>2, <2>3
  <1> HIDE DEF lost, gained
  <1>9. QED
    BY <1>1, <1>3, <1>7, <1>8, CalendarStep

LEMMA NextCalendar ==
  ASSUME SerialInv, SerialInv', [Next]_vars
  PROVE  [Calendar!Next]_booked
  <1> USE DEF SerialInv
  <1>1. CASE UNCHANGED <<reservation, contract>>
    BY <1>1 DEF booked
  <1>2. ASSUME NEW q \in Requests, InsertReservation(q)
        PROVE  [Calendar!Next]_booked
    <2>1. /\ contract' = contract
          /\ \E r \in Reservations : \A t \in Reservations \ {r} :
                reservation'[t] = reservation[t]
      BY <1>2 DEF InsertReservation, Filled, TypeOK
    <2>2. QED
      BY <2>1, ReservationStep
  <1>3. ASSUME NEW q \in Requests, WriteReservation(q)
        PROVE  [Calendar!Next]_booked
    <2>1. /\ contract' = contract
          /\ req[q].reservation \in Reservations
          /\ \A t \in Reservations \ {req[q].reservation} : reservation'[t] = reservation[t]
      BY <1>3 DEF WriteReservation, Filled, TypeOK, CallsFilled
    <2>2. QED
      BY <2>1, ReservationStep
  <1>4. ASSUME NEW s \in Sweepers, NEW r \in Reservations, SweepReservation(s, r)
        PROVE  [Calendar!Next]_booked
    <2>1. /\ contract' = contract
          /\ \A t \in Reservations \ {r} : reservation'[t] = reservation[t]
      BY <1>4 DEF SweepReservation, Filled, TypeOK
    <2>2. QED
      BY <2>1, ReservationStep
  <1>5. ASSUME NEW q \in Requests, InsertContract(q)
        PROVE  [Calendar!Next]_booked
    BY <1>5, InsertedContract, HandoverStep DEF Filled
  <1>6. ASSUME NEW q \in Requests, Closes(q)
        PROVE  [Calendar!Next]_booked
    <2>1. /\ reservation' = reservation
          /\ req[q].contract \in Contracts
      BY <1>6 DEF Closes, WriteCompleted, WriteCancelled, CloseContract, Filled, CallsFilled
    <2>2. /\ \A d \in Contracts \ {req[q].contract} : contract'[d] = contract[d]
          /\ contract'[req[q].contract].status \notin BlockingContract
      BY <1>6, <2>1, ClosedContractRow DEF Filled, ClosedContract, BlockingContract
    <2>3. QED
      BY <2>1, <2>2, ContractStep
  <1>7. ASSUME NEW s \in Sweepers, NEW c \in Contracts, SweepContract(s, c)
        PROVE  [Calendar!Next]_booked
    <2>1. reservation' = reservation
      BY <1>7 DEF SweepContract
    <2>2. CASE contract' = contract
      BY <1>1, <2>1, <2>2
    <2>3. CASE contract' # contract
      <3>1. contract' = [contract EXCEPT ![c].status = "OVERDUE"]
        BY <1>7, <2>3 DEF SweepContract
      <3>2. /\ \A d \in Contracts \ {c} : contract'[d] = contract[d]
            /\ contract'[c].status \notin BlockingContract
        BY <3>1 DEF Filled, TypeOK, ContractRow, BlockingContract
      <3>3. QED
        BY <2>1, <3>2, ContractStep
    <2>4. QED
      BY <2>2, <2>3
  <1>8. QED
    BY <1>1, <1>2, <1>3, <1>4, <1>5, <1>6, <1>7, RowSteps DEF PatchVehicle

\* The two tables implement the calendar: each step takes, gives back or exchanges
\* one slot, or leaves the calendar alone.
THEOREM TablesAreACalendar == SerialSpec => ImplementsCalendar
  <1>1. Init => Calendar!Init
    BY DEF Init, Calendar!Init, booked, BlockingReservation, BlockingContract
  <1>2. SerialInv /\ SerialInv' /\ [Next /\ OneBookingPerVehicle' /\ NoReopening]_vars
            => [Calendar!Next]_booked
    BY NextCalendar
  <1>3. QED
    BY <1>1, <1>2, SerialHolds, PTL DEF SerialSpec, ImplementsCalendar, Calendar!Spec
=============================================================================
