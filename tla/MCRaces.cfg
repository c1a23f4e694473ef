SPECIFICATION CallsSpec
CONSTANTS
    b1 = b1
    b2 = b2
    b3 = b3
    Bookings <- MCBookings
    Sessions = {s1, s2}
    Colliding <- MCColliding
    Minute = 1
    ReturnGraceMinutes = 15
    CollectionLeadHours = 1
    Instants <- MCInstants
    DueSoonHours = 1
    Day = 60
    Zones <- MCZones
    NoDay = NoDay
    NoBooking = NoBooking
SYMMETRY Interchangeable
INVARIANT
    NoCollidingHolds
PROPERTY
    CompletionsOverwriteNothing
