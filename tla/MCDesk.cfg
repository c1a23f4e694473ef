SPECIFICATION DeskScenesSpec
CONSTANTS
    camera = camera
    tripod = tripod
    charger = charger
    battery = battery
    Items <- MCItems
    Required <- MCRequired
    Desks = {d1, d2}
    EquipmentInputs <- MCInputs
    CheckInputs = {"PASS", "FAIL"}
    MaxImages <- MCMaxImages
    MaxStray = 1
    Gear = {camera, tripod}
    Attached <- MCAttached
    Checklist = {battery}
    Must = {camera, battery}
    MaxGestures = 2
    MaxPosts = 2
    MaxElsewhere = 1
SYMMETRY Interchangeable
CHECK_DEADLOCK FALSE
INVARIANTS
    SettledAsSigned
    LeavesWholeAndSigned
    ReturnAccountsForAll
    ImagesMatchSignatures
    OffersHold
PROPERTIES
    StoredAsPutDown
