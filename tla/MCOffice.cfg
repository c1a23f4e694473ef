SPECIFICATION OfficeSpec
CONSTANTS
    Editors = {e1, e2}
    People = {u1}
    DirectoryCalls = {c1, c2}
    Nobody = Nobody
    MaxCrossedProfiles = 1
    Reported = {i1}
    Engineers = {g1, g2}
    IssueCalls = {c1, c2}
    Unassigned = Unassigned
    MaxCrossedIssues = 1
    Scopes = {ISSUE, ASSET}
    GlobalScopes = {ASSET}
    Years <- MCYears
    Takers = {c1, c2}
    MaxNumber = 3
    NoScope = NoScope
    Templates = {t1, t2}
    TemplateCalls = {c1, c2}
    NoTemplate = NoTemplate
    MaxCrossedChanges = 0
    Photos = {p1, p2, p3, p4}
    PhotoLimit = 2
    Addresses = {ip}
    Names = {n1, n2}
    Attempts = {c1, c2}
    NoKey = NoKey
    MaxAttempts = 2
    Window = 2
    MaxClock = 3
    MaxFailures = 3
    Minute = 1
    ReturnGraceMinutes = 15
    CollectionLeadHours = 1
    Day = 1440
    Kinds <- MCKinds
    Zones <- MCZones
    Readings <- MCReadings
    MaxTyped = 1
    MaxSaves = 2
    TrailBookings = {1, 2}
    TrailLimits = {1, 2, 3}
    LastInstant = 6
    ann = ann
    bob = bob
    smith = smith
    jones = jones
    corp = corp
    partner = partner
    w1 = w1
    w2 = w2
    Persons <- MCPersons
    Logins = {smith, jones}
    Domains = {corp, partner}
    Suffix = corp
    Passwords = {w1, w2}
    SignIns = {s1}
    EntryInputs <- MCEntryInputs
    TypedDomains = {corp, partner, NoDomain}
    MaxChanges = 1
    Empty = Empty
    Gibberish = Gibberish
    NoDomain = NoDomain
    NoAddress = NoAddress
    NoOne = NoOne
SYMMETRY Interchangeable
CHECK_DEADLOCK FALSE
INVARIANTS
    ProfilesConsistent
    FinishedIsExplained
    NoGapsInNumbers
    DefaultIsUsable
    EvidenceHolds
    LimiterHolds
    TrailsTellThePast
    IdentityIsProved
    FaultsAreNotBlamed
PROPERTY
    SavesAreFaithful
