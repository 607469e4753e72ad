--------------------------- MODULE RentalCalendar ---------------------------
(***************************************************************************)
(* What the booking services promise: a calendar of slots, each holding one  *)
(* vehicle for one window, in which no two slots conflict.  A slot is taken, *)
(* given back, or exchanged for another in one step: the exchange is what a  *)
(* change of dates and the conversion of a reservation into a contract look  *)
(* like, so the vehicle is never free in between.                            *)
(***************************************************************************)
CONSTANTS
    Slots,
    Conflicts(_, _)   \* do two slots want one vehicle at one time?

VARIABLE calendar

Init == calendar = {}

Fits(slot, others) == \A other \in others : ~Conflicts(slot, other)

Take(slot) ==
    /\ Fits(slot, calendar)
    /\ calendar' = calendar \cup {slot}

GiveBack(slot) == calendar' = calendar \ {slot}

Exchange(old, slot) ==
    /\ Fits(slot, calendar \ {old})
    /\ calendar' = (calendar \ {old}) \cup {slot}

\* What changes a calendar.
Next ==
    /\ calendar' # calendar
    /\ \/ \E slot \in Slots : Take(slot)
       \/ \E slot \in calendar : GiveBack(slot)
       \/ \E old \in calendar, slot \in Slots : Exchange(old, slot)

Spec == Init /\ [][Next]_calendar
=============================================================================
