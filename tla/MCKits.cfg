SPECIFICATION KitsSpec
CONSTANTS
    Bookings = {b1, b2}
    Kits = {k1, k2}
    Editors = {e1}
    Windows <- MCWindows
    Minute = 1
    ReturnGraceMinutes = 15
    CollectionLeadHours = 24
    NoKit = NoKit
    NoWindow = NoWindow
    NoEditor = NoEditor
SYMMETRY InterchangeableKits
CHECK_DEADLOCK FALSE
INVARIANTS
    TypeOK
    NoOverlappingHolds
    PagesKeepTheirWord
    DocumentsMatchStatus
    ReturnNeverBlocked
    CommitmentsKept
PROPERTIES
    ImplementsCustody
