SPECIFICATION Spec
CONSTANTS
    Bookings = {b1}
    Kits = {k1}
    Editors = {e1}
    Windows <- MCOneWindow
    Minute = 1
    ReturnGraceMinutes = 15
    CollectionLeadHours = 24
    NoKit = NoKit
    NoWindow = NoWindow
    NoEditor = NoEditor
PROPERTY
    ReservingIsChecked
CHECK_DEADLOCK FALSE
