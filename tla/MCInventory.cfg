SPECIFICATION ScenesSpec
CONSTANTS
    k1 = k1
    k2 = k2
    a1 = a1
    a2 = a2
    b1 = b1
    b2 = b2
    c1 = c1
    c2 = c2
    None = None
    Kits <- MCKits
    Assets <- MCAssets
    Bookings <- MCBookings
    Clerks <- MCClerks
    AssetStatuses = {"AVAILABLE", "CHECKED_OUT", "DAMAGED", "RETIRED"}
    KitStatuses = {"AVAILABLE", "RESERVED", "CHECKED_OUT", "MAINTENANCE", "DAMAGED", "RETIRED"}
    Stock = {}
    MaxCrossings = 0
SYMMETRY Interchangeable
CHECK_DEADLOCK FALSE
INVARIANTS
    MembershipsAreSound
    CheckedOutWithItsKit
PROPERTIES
    AvailableAfterReturnIsFit
    ContentsAreFrozen
