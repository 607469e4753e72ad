SPECIFICATION SerialSpec
CONSTANTS
    v1 = v1
    r1 = r1
    r2 = r2
    c1 = c1
    q1 = q1
    q2 = q2
    cron = cron
    None = None
    Vehicles = {v1}
    Reservations = {r1,r2}
    Contracts = {c1}
    Requests = {q1,q2}
    Sweepers = {cron}
    MaxDay = 2
    Horizon = 2
    PatchedStatus = {"CONFIRMED"}
    PatchedVehicleStatus = {}
SYMMETRY Symmetry
INVARIANTS
    NoDoubleBooking
    ChecksHold
PROPERTIES
    ImplementsCalendar
