SPECIFICATION ScenesSpec
CONSTANTS
    k1 = k1
    k2 = k2
    a1 = a1
    a2 = a2
    b1 = b1
    b2 = b2
    c1 = c1
    c2 = c2
    None = None
    Kits = {k1}
    Assets <- MCAssets
    Bookings = {b1}
    Clerks = {c1}
    AssetStatuses = {"AVAILABLE", "CHECKED_OUT"}
    KitStatuses = {"AVAILABLE", "RESERVED", "CHECKED_OUT", "MAINTENANCE", "DAMAGED"}
    Stock <- MCAssets
    MaxCrossings = 0
CHECK_DEADLOCK FALSE
INVARIANT SignedAgainstContents
