SPECIFICATION CallsSpec
CONSTANTS
    b1 = b1
    b2 = b2
    b3 = b3
    Bookings = {b1}
    Sessions = {s1, s2}
    Colliding = {}
    Minute = 1
    ReturnGraceMinutes = 15
    CollectionLeadHours = 1
    Instants <- MCInstants
    DueSoonHours = 1
    Day = 60
    Zones <- MCZones
    NoDay = NoDay
    NoBooking = NoBooking
PROPERTY
    OutBelongsToTheWorkflows
