CONSTANTS
    None = None
    Requests = {p1, p2}
    MaxChanges = 1
    Users = {u1, u2}
    Companies = {c1, c2}
    Contacts = {k1, k2}
    Pipelines = {lp, lp2, dp}
    Stages = {s1, s2, s3, s4, s5, s6, s7, s8, s9}
    Leads = {l1, l2}
    FollowUps = {f1, f2}
    Deals = {d1, d2}
    Projects = {j1, j2}
    Tasks = {t1, t2, t3}
    Cases = {q1, q2}
    Activities = {a1, a2}
    Payments = {m1, m2}
    Comments = {o1, o2}
    Categories = {g1, g2}
    Items = {i1, i2}
    Tags = {tg1, tg2}
    Fields = {fd1, fd2, fd3}
    Views = {v1, v2}
    Forms = {fm1, fm2}
    Submissions = {sb1, sb2}
    Imports = {im1}
    Keys = {key1}
    JobAttempts = 2
    MaxRows = 2
    MaxMappings = 2
    MonthDays = 2
    TagNames = {n1, n2}
    Layouts <- MCLayouts
    CompanyNames = {n1}
    CategoryNames = {n1}
    ViewNames = {n1}
    Emails = {e1}
    Skus = {sku1}
    Currencies = {EUR, USD}
    DefaultCurrency = EUR
    Amounts = {1, 2}
    ProjectStatuses = {"PLANNED", "IN_PROGRESS", "IN_REVIEW", "ON_HOLD", "COMPLETED"}
    Connections = {w1, w2}
    Hooks = {h1, h2}
    Mappings = {mp1, mp2}
    ConnectionNames = {n1, n2}
    HookNames = {n1, n2}
    EventTypes = {"lead.created", "task.created"}
    ExternalIds = {y1}
    Rules = {r1, r2}
    RuleNames = {n1, n2}
    Runs = {x1, x2, x3}
    Scenarios <- DataScenarios
    u1 = u1
    u2 = u2
    c1 = c1
    c2 = c2
    k1 = k1
    k2 = k2
    lp = lp
    lp2 = lp2
    dp = dp
    s1 = s1
    s2 = s2
    s3 = s3
    s4 = s4
    s5 = s5
    s6 = s6
    s7 = s7
    l1 = l1
    f1 = f1
    d1 = d1
    j1 = j1
    t1 = t1
    q1 = q1
    a1 = a1
    m1 = m1
    o1 = o1
    i1 = i1
    g1 = g1
    tg1 = tg1
    v1 = v1
    fm1 = fm1
    sb1 = sb1
    fd1 = fd1
    fd2 = fd2
    EUR = EUR
    USD = USD
    n1 = n1
    e1 = e1
    w1 = w1
    h1 = h1
    r1 = r1
SPECIFICATION Spec
INVARIANTS
    TypeOK
    PositionsContiguous
    NextFollowUpIsEarliest
    StagesFit
    FormsMatchGraphs
    ChainsAreBounded
    ReportsAgree
    OneLeadPerSubmission
CHECK_DEADLOCK FALSE
