CONSTANTS
    None = None
    Requests = {p1, p2}
    MaxChanges = 1
    Orgs = {o1, o2, o3}
    Accounts = {a1, a2, a3}
    Sessions = {s1, s2, s3, s4}
    Roles = {r1, r2, r3, r4, r5, r6, r7, r8, r9, r10, r11, r12, r13, r14, r15}
    MaxRate = 3
    Emails = {e1, e2, e3}
    Resets = {re1, re2}
    Invitations = {i1, i2}
    RoleNames = {"Owner", "Admin", "Manager", "Staff", "Viewer", "Sales"}
    SessionDays = 1
    TokenDays = 1
    Entities = {x1, x2, x3, x4}
    Files = {f1, f2, f3}
    Resources = {"lead"}
    MaxWorkspaces = 2
    WorkspaceDays = 1
    BatchSize = 1
    Messages = {g1, g2, g3, g4}
    Threads = {th1, th2, th3, th4}
    Mailboxes = {m1, m2}
    MailJobs = {b1, b2, b3}
    Templates = {t1, t2, t3}
    TemplateNames = {"A", "B", "C"}
    Keys = {k1}
    MailIds = {id1, id2}
    MaxUid = 3
    MailAttempts = 2
    FetchSize = 2
    SyncAttempts = 2
    Quota <- MCQuota
    Grants <- MCGrants
    Scenarios <- AllScenarios
    o1 = o1
    o2 = o2
    a1 = a1
    a2 = a2
    a3 = a3
    r1 = r1
    r2 = r2
    r3 = r3
    s1 = s1
    s2 = s2
    t1 = t1
    x1 = x1
    x2 = x2
    x3 = x3
    f1 = f1
    m1 = m1
    th1 = th1
    g1 = g1
    id1 = id1
    e1 = e1
    e2 = e2
    e3 = e3
SPECIFICATION Spec
INVARIANTS
    TypeOK
    InvitationsMatchAccounts
    OpenSessionsAreCurrent
    DownloadsAreStored
    DemoStaysWithinLimits
    CursorCoversMessages
    SentWasAccepted
    InboxIsConsistent
CHECK_DEADLOCK FALSE
