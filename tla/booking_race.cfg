SPECIFICATION Spec
CONSTANTS
    v1 = v1
    r1 = r1
    r2 = r2
    c1 = c1
    q1 = q1
    q2 = q2
    None = None
    Vehicles = {v1}
    Reservations = {r1,r2}
    Contracts = {c1}
    Requests = {q1,q2}
    Sweepers = {}
    MaxDay = 1
    Horizon = 0
    PatchedStatus = {"CONFIRMED"}
    PatchedVehicleStatus = {}
INVARIANTS
    NoDoubleBooking
