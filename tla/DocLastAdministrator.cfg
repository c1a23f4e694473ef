SPECIFICATION AccessSpec
CONSTANTS
    local = local
    corporate = corporate
    Users <- MCUsers
    Callers = {c1, c2}
    LocalUsers = {local}
    Administrators <- MCUsers
    Newcomers = {corporate}
    Grantable = {"ENGINEER"}
    Settable = {"ACTIVE"}
    GroupRoles <- MCNoGroups
    AutoProvision = TRUE
    DefaultRole = "EDITOR"
    MaxLoginAttempts = 2
    LoginLockout = 1
    MaxTime = 0
    MaxVersion <- MCMaxVersion
    MaxWrongs = 0
    NoUser = NoUser
    desk = desk
    editor = editor
    Records = {1, 2}
    Profiles = {p1}
    Accounts <- MCAccounts
    Unlinked = Unlinked
    RoleOf <- MCRoleOf
    PageSize = 1
    Now = 2
    Today = {1, 2}
    BookingStarts = {0}
    BookingDates = {1}
    DueSoonHours = 1
    PanelLimit = 1
    WalkedTabs = {"all"}
    MaxWrites = 0
    Minute = 1
    ReturnGraceMinutes = 15
    CollectionLeadHours = 24
SYMMETRY Interchangeable
CHECK_DEADLOCK FALSE
INVARIANT
    RoleCanBeGrantedBack
