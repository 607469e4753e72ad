----------------------------- MODULE MCBooking -----------------------------
(***************************************************************************)
(* Small instances of Booking.  Ids of rows and requests are interchangeable. *)
(***************************************************************************)
EXTENDS Booking, TLC

Symmetry == Permutations(Reservations) \cup Permutations(Contracts)
                \cup Permutations(Requests)
=============================================================================
