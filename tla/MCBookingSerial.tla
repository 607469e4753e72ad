-------------------------- MODULE MCBookingSerial --------------------------
(***************************************************************************)
(* Small instances of BookingSerial.  Ids of rows and requests are           *)
(* interchangeable.                                                          *)
(***************************************************************************)
EXTENDS BookingSerial, TLC

Symmetry == Permutations(Reservations) \cup Permutations(Contracts)
                \cup Permutations(Requests)
=============================================================================
