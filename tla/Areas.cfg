SPECIFICATION AreasSpec
CONSTANTS
    PortalUsers = {u1, u2}
    PortalTrainees = {t1, t2}
    LinkEditors = {e1}
    Messages = {m1, m2}
    MessageTasks = {k1, k2}
    Clerks = {c1, c2}
    Entries = {x1}
    Slots = {s1}
    Curators = {q1, q2}
    MaxAge = 2
    Items = {i1}
    Editors = {d1, d2}
    Holders = {h1}
    Pictures = {p1}
    MaxSize = 2
    Academies = {a1, a2}
    Addresses = {w1}
    Registrars = {r1, r2}
    Tenant = {a1, a2}
    Offices = {o1, o2}
    Staff = {f1, f2}
    Operators = {z1, z2}
    Notes = {n1, n2}
    Readers = {l1, l2}
    Devices = {v1, v2}
    Branches = {b1}
    Ranked = {j1, j2}
    Scorers = {y1, y2}
    Points = {1, 2}
    Keys = {g1}
    Instances = {b2, b3}
    PlatformAdmins = {pa1, pa2}
    Values = {val1, val2}
    ScreenTable <- Pages
    Presses = {press1, press2}
    MaxChanges = 1
    Overlapping <- OverlappingPages
    Reopening <- ReopeningPages
    Unordered <- UnorderedPages
SYMMETRY Symmetry
CONSTRAINT FewStaff
INVARIANTS
    AreasTypeOK
    LinkFitsAccount
    AttachmentsMatch
    ResolvedClosesTask
    AgesInOrder
    FilesMatchItems
    PartFits
    AddressesApart
    AccountsComplete
    MessagesOnce
    ScoreRowFound
    OneSubmission
    DialogsKept
PROPERTIES
    PrimarySurvives
    SettingsOutliveBoots
    NeverOlder
CHECK_DEADLOCK FALSE
