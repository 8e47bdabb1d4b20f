------------------------------- MODULE Reports -------------------------------
(***************************************************************************)
(* What is counted and summed up of the records, in apps/api/src: reports, *)
(* forecast, dashboard and search.  No operation here writes.              *)
(*                                                                         *)
(* A report is an operator on the tables.  Money is summed per currency;   *)
(* percentages, averages, pages and the order of rows are left out, and so *)
(* are estimated values of leads and the probabilities of deals.           *)
(***************************************************************************)
EXTENDS DataTools
LOCAL INSTANCE FiniteSetsExt

CONSTANT MonthDays   \* days of a month; a quarter has three months

\* A filter of None lets everything through.
Matches(x, filter) == filter = None \/ x = filter
CountIf(S, P(_)) == Cardinality({x \in S : P(x)})

-----------------------------------------------------------------------------
(* reports.service.ts *)

\* Faulty variant of StagesOfKind: without the archived pipelines.
LiveStagesOfKind(kind) ==
    {s \in DOMAIN db.stages : db.stages[s].pipeline \in LivePipelines(kind)}

StagesOfKind(kind) == {s \in DOMAIN db.stages : db.pipelines[db.stages[s].pipeline].kind = kind}
DealAmount(d) == AmountOf(db.deals[d].amount)

\* Per stage, of archived pipelines too, the unarchived records in it.
LeadPipeline(owner) ==
    [s \in StagesOfKind("LEAD") |->
        {l \in Live(db.leads) : db.leads[l].stage = s /\ Matches(db.leads[l].owner, owner)}]
DealPipeline(owner) ==
    [s \in StagesOfKind("DEAL") |->
        LET deals == {d \in Live(db.deals) :
                         db.deals[d].stage = s /\ Matches(db.deals[d].owner, owner)}
        IN  [deals |-> deals,
             values |-> [c \in {db.deals[d].currency : d \in deals} |->
                            Total(DealAmount, {d \in deals : db.deals[d].currency = c})]]]

\* What won and lost are of the records that are either.
LeadConversion(owner) ==
    LET of(outcome) == {l \in Live(db.leads) :
                           OutcomeOf(l) = outcome /\ Matches(db.leads[l].owner, owner)}
    IN  [won |-> of("won"), lost |-> of("lost")]
DealConversion(owner) ==
    LET of(outcome) == {d \in Live(db.deals) :
                           DealOutcome(d) = outcome /\ Matches(db.deals[d].owner, owner)}
    IN  [won |-> of("won"), lost |-> of("lost")]
LeadToDeal(owner) ==
    LET leads == {l \in Live(db.leads) : Matches(db.leads[l].owner, owner)}
    IN  [leads |-> leads,
         converted |-> {l \in leads : \E d \in DOMAIN db.deals : db.deals[d].source = l}]

ProjectValue(j) == AmountOf(db.projects[j].value)
ProjectsByStatus(company) ==
    [x \in ProjectStatuses \X Currencies |->
        LET projects == {j \in Live(db.projects) :
                            /\ db.projects[j].status = x[1] /\ db.projects[j].currency = x[2]
                            /\ Matches(db.projects[j].company, company)}
        IN  [count |-> Cardinality(projects), value |-> Total(ProjectValue, projects)]]
TasksByStatus(assignee, project) ==
    [s \in TaskStatuses |->
        {t \in Live(db.tasks) :
            /\ db.tasks[t].status = s /\ Matches(db.tasks[t].assignee, assignee)
            /\ Matches(db.tasks[t].project, project)}]

\* Tasks of archived projects too, which TaskList leaves out.
Incomplete == {t \in Live(db.tasks) : db.tasks[t].status # "COMPLETED"}
OverdueTasks(assignee, project) ==
    {t \in Incomplete :
        /\ db.tasks[t].due # None /\ db.tasks[t].due < db.today
        /\ Matches(db.tasks[t].assignee, assignee) /\ Matches(db.tasks[t].project, project)}

PaidAmount(m) == db.payments[m].amount
PaymentTotals(company, project) ==
    LET rows == {m \in Live(db.payments) :
                    /\ Matches(db.payments[m].company, company)
                    /\ Matches(db.payments[m].project, project)}
    IN  [c \in {db.payments[m].currency : m \in rows} |->
            Total(PaidAmount, {m \in rows : db.payments[m].currency = c})]

\* A row of outstandingBalances: payments in other currencies do not count.
Outstanding(j) ==
    ProjectValue(j)
    - Total(PaidAmount, {m \in PaymentsOf(j) : db.payments[m].currency = db.projects[j].currency})
OutstandingBalances(company, project) ==
    [j \in {k \in Live(db.projects) :
               Matches(db.projects[k].company, company) /\ Matches(k, project)} |-> Outstanding(j)]

-----------------------------------------------------------------------------
(* forecast.service.ts *)

Within(day, range) == day # None /\ day >= range[1] /\ day < range[2]
ThisMonth == LET start == MonthDays * (db.today \div MonthDays) IN <<start, start + MonthDays>>
ThisQuarter ==
    LET length == 3 * MonthDays
        start == length * (db.today \div length)
    IN  <<start, start + length>>

\* ownerScope: the owners whose deals the caller may ask for.
OwnerScope(all, user, owner) == IF all THEN owner ELSE user

\* The deals in scope, and of these the open ones expected in a range and the
\* ones that were won or lost in it.  A deal counts as won only with a day.
InScope(owner, pipeline, stage) ==
    {d \in Live(db.deals) :
        /\ Matches(db.deals[d].owner, owner) /\ Matches(db.deals[d].pipeline, pipeline)
        /\ Matches(db.deals[d].stage, stage)}
Expected(scope, range) ==
    {d \in scope : DealOutcome(d) = "open" /\ Within(db.deals[d].close, range)}
WonIn(scope, range) == {d \in scope : DealOutcome(d) = "won" /\ Within(db.deals[d].won, range)}
LostIn(scope, range) == {d \in scope : DealOutcome(d) = "lost" /\ Within(db.deals[d].lost, range)}
In(deals, currency) == {d \in deals : db.deals[d].currency = currency}

ForecastSummary(scope) ==
    [c \in {db.deals[d].currency : d \in scope} |->
        [open |-> Total(DealAmount, In({d \in scope : DealOutcome(d) = "open"}, c)),
         thisMonth |-> Total(DealAmount, In(Expected(scope, ThisMonth), c)),
         thisQuarter |-> Total(DealAmount, In(Expected(scope, ThisQuarter), c)),
         wonThisMonth |-> Total(DealAmount, In(WonIn(scope, ThisMonth), c)),
         lostThisMonth |-> Total(DealAmount, In(LostIn(scope, ThisMonth), c))]]

\* The rows of a grouping: the deals and value per group and currency.
Grouped(deals, by(_)) ==
    [x \in {<<by(d), db.deals[d].currency>> : d \in deals} |->
        LET rows == {d \in deals : by(d) = x[1] /\ db.deals[d].currency = x[2]}
        IN  [deals |-> Cardinality(rows), value |-> Total(DealAmount, rows)]]
ForecastByStage(scope, range) ==
    LET stage(d) == db.deals[d].stage IN Grouped(Expected(scope, range), stage)
ForecastTimeline(scope, range) ==
    LET month(d) == db.deals[d].close \div MonthDays IN Grouped(Expected(scope, range), month)
ForecastByOwner(scope, range) ==
    LET owner(d) == db.deals[d].owner
    IN  [open |-> Grouped(Expected(scope, range), owner),
         won |-> Grouped(WonIn(scope, range), owner), lost |-> Grouped(LostIn(scope, range), owner)]

\* dealRows: what is listed below the figures.
ForecastDeals(scope, range, state) ==
    {d \in scope : Within(db.deals[d].close, range) /\ (state = "all" \/ DealOutcome(d) = state)}

-----------------------------------------------------------------------------
(* dashboard.service.ts: what a caller does not have the permission for is  *)
(* None; everybody's records with `wide`, else the caller's own.            *)

OutstandingByCurrency ==
    LET valued == {j \in Live(db.projects) : db.projects[j].value # None}
    IN  [c \in {db.projects[j].currency : j \in valued} |->
            Total(Outstanding, {j \in valued : db.projects[j].currency = c})]

Summary(user, can, wide) ==
    LET own(u) == wide \/ u = user
        shown(permission, figure) == IF permission \in can THEN figure ELSE None
        pending == {f \in DOMAIN db.followUps :
                       db.followUps[f].status = "PENDING" /\ own(db.followUps[f].assignee)}
    IN  [openLeads |-> shown("lead.read",
             {l \in Live(db.leads) : OutcomeOf(l) = "open" /\ own(db.leads[l].owner)}),
         activeProjects |-> shown("project.read", ProjectList("active")),
         dueToday |-> shown("task.read",
             {t \in Incomplete : db.tasks[t].due = db.today /\ own(db.tasks[t].assignee)}),
         overdue |-> shown("task.read",
             {t \in OverdueTasks(None, None) : own(db.tasks[t].assignee)}),
         followUps |-> shown("activity.read", {f \in pending : db.followUps[f].due < db.today + 8}),
         overdueFollowUps |-> shown("activity.read", {f \in pending : db.followUps[f].due < db.today}),
         balances |-> shown("payment.read", OutstandingByCurrency),
         activities |-> shown("activity.read",
             {a \in DOMAIN db.activities :
                 /\ db.activities[a].status = "PLANNED" /\ db.activities[a].start = db.today
                 /\ own(db.activities[a].owner)}),
         cases |-> shown("case.read", CaseMetrics(user)),
         forecast |-> shown("forecast.read",
             ForecastSummary(InScope(OwnerScope("forecast.read_all" \in can, user, None), None, None)))]

MyTasks(user) == {t \in Incomplete : db.tasks[t].assignee = user /\ db.tasks[t].due # None}
MyFollowUps(user, wide) ==
    {f \in DOMAIN db.followUps :
        db.followUps[f].status = "PENDING" /\ (wide \/ db.followUps[f].assignee = user)}

\* search.service.ts, without the text: what is found is not archived.
Searched(can) ==
    [companies |-> IF "company.read" \in can THEN Live(db.companies) ELSE {},
     contacts |-> IF "contact.read" \in can THEN Live(db.contacts) ELSE {},
     leads |-> IF "lead.read" \in can THEN Live(db.leads) ELSE {},
     deals |-> IF "deal.read" \in can THEN Live(db.deals) ELSE {},
     projects |-> IF "project.read" \in can THEN Live(db.projects) ELSE {},
     tasks |-> IF "task.read" \in can THEN Live(db.tasks) ELSE {},
     quotations |-> IF "quotation.read" \in can THEN Live(db.quotes) ELSE {}]

-----------------------------------------------------------------------------
(* Properties *)

EveryPermission ==
    {"lead.read", "project.read", "task.read", "activity.read", "payment.read", "case.read",
     "forecast.read", "forecast.read_all", "company.read", "contact.read", "deal.read",
     "quotation.read"}
Everything(user) == Summary(user, EveryPermission, TRUE)

\* Every record is counted by the report of its kind, archived pipelines and
\* all, and the conversion reports have the records of the won lists; leads
\* that were converted are on a list of their own.
PipelineReportsCountAll ==
    /\ UNION {LeadPipeline(None)[s] : s \in StagesOfKind("LEAD")} = Live(db.leads)
    /\ UNION {DealPipeline(None)[s].deals : s \in StagesOfKind("DEAL")} = Live(db.deals)
    /\ DealConversion(None).won = DealList("won", None, None, None)
    /\ LeadConversion(None).won \ LeadList("converted", None) = LeadList("won", None)
    /\ LeadToDeal(None).converted \subseteq LeadList("converted", None)
    /\ \A d \in DOMAIN db.deals : Cardinality(DealDetail(d).project) <= 1
    /\ \A t \in Live(db.tasks) : \E s \in TaskStatuses : t \in TasksByStatus(None, None)[s]

\* The balances on the dashboard are the report's when every project has a
\* value; a project's page has the same when its payments are in its currency;
\* and they are what the report of projects and the totals of payments leave.
BalancesAgree ==
    LET rows == OutstandingBalances(None, None)
        balance(j) == rows[j]
        in(c) == {j \in DOMAIN rows : db.projects[j].currency = c}
        paid(c) == LET of(j) == LET sums == PaymentTotals(None, j)
                                IN  IF c \in DOMAIN sums THEN sums[c] ELSE 0
                   IN  Total(of, in(c))
        valued(c) == LET of(status) == ProjectsByStatus(None)[<<status, c>>].value
                     IN  Total(of, ProjectStatuses)
    IN  /\ (\A j \in Live(db.projects) : db.projects[j].value # None) =>
              \A c \in DOMAIN OutstandingByCurrency : OutstandingByCurrency[c] = Total(balance, in(c))
        /\ \A j \in Live(db.projects) :
              (\A m \in PaymentsOf(j) : db.payments[m].currency = db.projects[j].currency)
                  => ProjectBalance(j) = Outstanding(j)
        /\ \A c \in Currencies : Total(balance, in(c)) = valued(c) - paid(c)

\* The groupings of a forecast share out the same deals, the summary adds up
\* to them, and they are the ones listed below it.
ForecastsAgree ==
    LET scope == InScope(None, None, None)
        value(rows, c) == LET of(x) == rows[x].value IN Total(of, {x \in DOMAIN rows : x[2] = c})
        month == Expected(scope, ThisMonth)
    IN  /\ ForecastDeals(scope, ThisMonth, "open") = month
        /\ month \subseteq DealList("open", None, None, None)
        /\ WonIn(scope, ThisQuarter) \subseteq DealConversion(None).won
        /\ \A c \in DOMAIN ForecastSummary(scope) :
              \A rows \in {ForecastByStage(scope, ThisMonth), ForecastTimeline(scope, ThisMonth),
                           ForecastByOwner(scope, ThisMonth).open} :
                 value(rows, c) = ForecastSummary(scope)[c].thisMonth

\* The figures of the dashboard are as many as the lists they lead to hold.
DashboardAgrees ==
    \A user \in DOMAIN db.users :
        LET figures == Everything(user)
            feed(view) == ActivityFeed(view, user)
        IN  /\ figures.overdueFollowUps = FollowUpList("overdue")
            /\ MyFollowUps(user, TRUE)
                  = UNION {FollowUpList(scope) : scope \in {"today", "overdue", "upcoming"}}
            /\ figures.activities = ActivityFeed("today", None).scheduled
            /\ figures.cases.overdue = CaseList("overdue", None)
            /\ CaseReport.overdue = Cardinality(figures.cases.overdue)
            /\ MyTasks(user) = UNION {feed(view).tasks : view \in {"today", "overdue", "upcoming"}}
            /\ figures.openLeads \ LeadList("converted", None)
                  = LeadList("all", None) \ UNION {LeadList(view, None) :
                                                      view \in {"converted", "won", "lost"}}
            /\ \A c \in Live(db.companies) :
                  /\ CompanyDetail(c).openLeads \subseteq figures.openLeads
                  /\ CompanyDetail(c).contacts = ContactList(c)

\* What the search finds is what the lists show and an export holds, and what
\* may be duplicates is among it.
ListsAgree ==
    LET found == Searched(EveryPermission)
    IN  /\ found.companies = CompanyList(FALSE) /\ found.companies = ExportRows("COMPANY")
        /\ found.contacts = ContactList(None) /\ found.contacts = ExportRows("CONTACT")
        /\ found.leads = LeadList("all", None) /\ found.leads = ExportRows("LEAD")
        /\ found.projects = ProjectList("all") /\ found.tasks = ExportRows("TASK")
        /\ CatalogList(None) = ExportRows("CATALOG")
        /\ found.quotations = PaymentChoices.quotations
        /\ \A kind \in {"COMPANY", "CONTACT", "LEAD"} :
              \A group \in Duplicates(kind) : group \subseteq ExportRows(kind)
        /\ \A kind \in EntityKinds : \A f \in FieldsOf(kind) :
              MatchingFields(kind, {f}) = {x[2] : x \in {y \in DOMAIN db.values : y[1] = f}}
        /\ \A t \in DOMAIN db.tags :
              MatchingTag(t) \subseteq UNION {DOMAIN Records(kind) : kind \in EntityKinds}
        /\ Live(db.projects) = DOMAIN db.projects =>
              OverdueTasks(None, None) = TaskList("overdue", None)

\* The resolution times of the report are of cases whose days go with their
\* status: a resolved case has a day of resolution, a closed one a day of
\* closing, and a reopened one neither, whatever updates overlap.
CasesAreDated ==
    \A k \in DOMAIN db.cases :
        /\ db.cases[k].status = "CLOSED" <=> db.cases[k].closed # None
        /\ db.cases[k].status = "RESOLVED" => db.cases[k].resolved # None
        /\ db.cases[k].resolved # None => db.cases[k].status \in Terminal

\* The figures that two screens show of the same thing agree, through
\* conversions, web forms, imports, merges and replaced stages.
ReportsAgree ==
    /\ PipelineReportsCountAll /\ BalancesAgree /\ ForecastsAgree /\ DashboardAgrees /\ ListsAgree
    /\ CasesAreDated
=============================================================================
