--------------------------- MODULE BookingSerial ---------------------------
(***************************************************************************)
(* When the booking services do keep bookings apart.  The code takes no lock *)
(* between the overlap check and the write, and PATCH sets any status        *)
(* without a check, so NoDoubleBooking fails of Spec.  It holds when users   *)
(* keep to two rules, stated here as conditions on the steps of Booking,     *)
(* whose actions are unchanged:                                              *)
(*   - OneBookingPerVehicle: no two requests that book the same vehicle are  *)
(*     in flight together;                                                   *)
(*   - NoReopening: a reservation that released its vehicle is not set back  *)
(*     to PENDING or CONFIRMED without its dates, which is what skips the    *)
(*     overlap check.                                                        *)
(* Sweeps, completions, cancellations, changes of vehicle status, and        *)
(* bookings of other vehicles interleave freely.                             *)
(***************************************************************************)
EXTENDS Booking

Booking(q) == req[q].op \in {"createReservation", "updateReservation", "createContract"}

OneBookingPerVehicle ==
    \A p, q \in Requests :
        (p # q /\ Booking(p) /\ Booking(q)) => req[p].vehicle # req[q].vehicle

ReopensUnchecked(q) ==
    /\ req[q].window = None
    /\ req[q].status \in BlockingReservation
    /\ reservation[req[q].reservation].status \notin BlockingReservation

NoReopening ==
    \A q \in Requests :
        req[q].op = "updateReservation" /\ ReopensUnchecked(q) => ~WriteReservation(q)

SerialSpec == Init /\ [][Next /\ OneBookingPerVehicle' /\ NoReopening]_vars

\* What a request has read of other bookings is still so: a count that found no
\* overlap cannot have missed one since.
ChecksHold ==
    \A q \in Requests :
        (Booking(q) /\ req[q].window # None) =>
            /\ "reservations" \notin req[q].unread =>
                    \A r \in Reservations : ~ReservationOverlaps(q, r)
            /\ "contracts" \notin req[q].unread =>
                    \A c \in Contracts : ~ContractOverlaps(q, c)

\* The calendar the two tables stand for.
Slot(owner, row) == [owner |-> owner, vehicle |-> row.vehicle, window |-> row.window]

Slots == [owner : Reservations \cup Contracts, vehicle : Vehicles, window : Windows]

SameTime(a, b) == a.vehicle = b.vehicle /\ Overlap(a.window, b.window)

booked ==
    {Slot(r, reservation[r]) :
        r \in {t \in Reservations : reservation[t].status \in BlockingReservation}}
    \cup
    {Slot(c, contract[c]) :
        c \in {d \in Contracts : contract[d].status \in BlockingContract}}

Calendar == INSTANCE RentalCalendar WITH
                calendar <- booked, Slots <- Slots, Conflicts <- SameTime

\* Under the two rules the reservation and contract tables implement a calendar
\* without conflicts: every write takes, gives back or exchanges one slot, and a
\* conversion hands the slot of the reservation to the contract in one step.
ImplementsCalendar == Calendar!Spec
=============================================================================
