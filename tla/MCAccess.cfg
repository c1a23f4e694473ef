SPECIFICATION AccessSpec
CONSTANTS
    local = local
    corporate = corporate
    Users <- MCUsers
    Callers = {c1, c2}
    LocalUsers = {local}
    Administrators <- MCUsers
    Newcomers = {corporate}
    Grantable = {"ADMIN", "ENGINEER"}
    Settable = {"ACTIVE", "SUSPENDED"}
    GroupRoles <- MCGroupRoles
    AutoProvision = TRUE
    DefaultRole = "EDITOR"
    MaxLoginAttempts = 2
    LoginLockout = 1
    MaxTime = 1
    MaxVersion <- MCMaxVersion
    MaxWrongs = 2
    NoUser = NoUser
    desk = desk
    editor = editor
    Records = {1, 2}
    Profiles = {p1}
    Accounts <- MCAccounts
    Unlinked = Unlinked
    RoleOf <- MCRoleOf
    PageSize = 1
    Now = 2
    Today = {1, 2}
    BookingStarts = {0, 1}
    BookingDates = {1, 2, 100}
    DueSoonHours = 1
    PanelLimit = 1
    WalkedTabs = {"all", "checked-out"}
    MaxWrites = 1
    Minute = 1
    ReturnGraceMinutes = 15
    CollectionLeadHours = 24
SYMMETRY Interchangeable
CHECK_DEADLOCK FALSE
INVARIANTS
    RevokedIsSignedOut
    SomeAdministrator
    LockoutsAreEarned
    BreakGlassStaysLocal
    PagesCoverTheList
    NumbersAgree
    DoorsAgree
