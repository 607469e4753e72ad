SPECIFICATION FairSpec
CONSTANTS
    v1 = v1
    r1 = r1
    r2 = r2
    c1 = c1
    q1 = q1
    cron = cron
    None = None
    Vehicles = {v1}
    Reservations = {r1,r2}
    Contracts = {c1}
    Requests = {q1}
    Sweepers = {cron}
    MaxDay = 1
    Horizon = 2
    PatchedStatus = {"CONFIRMED"}
    PatchedVehicleStatus = {}
PROPERTIES
    LateContractFlagged
    LateReservationReleased
