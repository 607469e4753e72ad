SPECIFICATION Spec
CONSTANTS
    v1 = v1
    r1 = r1
    c1 = c1
    c2 = c2
    q1 = q1
    q2 = q2
    cron = cron
    None = None
    Vehicles = {v1}
    Reservations = {r1}
    Contracts = {c1,c2}
    Requests = {q1,q2}
    Sweepers = {cron}
    MaxDay = 1
    Horizon = 2
    PatchedStatus = {"CONFIRMED", "CANCELLED"}
    PatchedVehicleStatus = {"AVAILABLE", "MAINTENANCE"}
SYMMETRY Symmetry
INVARIANTS
    TypeOK
    OverdueIsLate
    OneContractPerReservation
    ConvertedHasContract
    RentedMeansOut
PROPERTIES
    ClosedStaysClosed
