---------------------------- MODULE MCCrmRecords ----------------------------
(* Small instances of CrmRecords for TLC: scenarios of a few operations each. *)
EXTENDS CrmRecords

CONSTANTS u1, u2, c1, c2, k1, k2, lp, lp2, dp, s1, s2, s3, s4, s5, s6, s7, l1, f1, d1, j1,
          t1, q1, a1, m1, o1, i1, g1, tg1, v1, fm1, sb1, fd1, fd2, EUR, USD, n1, e1, w1, h1, r1

MCLayouts == {<<"open", "won", "lost">>, <<"won", "lost">>}

NoRows == <<>>
Empty ==
    [users |-> (u1 :> "ACTIVE"), companies |-> NoRows, contacts |-> NoRows, pipelines |-> NoRows,
     stages |-> NoRows, leads |-> NoRows, followUps |-> NoRows, deals |-> NoRows,
     projects |-> NoRows, members |-> NoRows, tasks |-> NoRows, comments |-> NoRows,
     notices |-> NoRows, cases |-> NoRows, caseNumber |-> 0, activities |-> NoRows,
     payments |-> NoRows, quotes |-> NoRows, tags |-> NoRows, tagged |-> {}, fields |-> NoRows,
     values |-> NoRows, items |-> NoRows, categories |-> NoRows, views |-> NoRows,
     forms |-> NoRows, submissions |-> NoRows, jobs |-> NoRows, imports |-> NoRows,
     connections |-> NoRows, hooks |-> NoRows, mappings |-> NoRows, rules |-> NoRows, runs |-> NoRows,
     limits |-> [actions |-> 2, runs |-> 3, depth |-> 2], today |-> 0]

Stage(pl, i, outcome) == [pipeline |-> pl, position |-> i, outcome |-> outcome]
Pipeline(kind, default) == [kind |-> kind, archived |-> FALSE, default |-> default]
LeadStages == s1 :> Stage(lp, 0, "open") @@ s2 :> Stage(lp, 1, "won") @@ s3 :> Stage(lp, 2, "lost")
DealStages == s4 :> Stage(dp, 0, "open") @@ s5 :> Stage(dp, 1, "won") @@ s6 :> Stage(dp, 2, "lost")
Selling == [Empty EXCEPT !.pipelines = lp :> Pipeline("LEAD", TRUE) @@ dp :> Pipeline("DEAL", TRUE),
                         !.stages = LeadStages @@ DealStages]

Company == [archived |-> FALSE, name |-> n1, owner |-> None]
Contact(company) == [archived |-> FALSE, company |-> company, email |-> e1, primary |-> FALSE]
Lead == [archived |-> FALSE, converted |-> FALSE, company |-> None, contact |-> None,
         owner |-> u1, pipeline |-> lp, stage |-> s1, lost |-> FALSE, next |-> None, last |-> 0,
         email |-> e1, form |-> None]
Deal(stage) == [archived |-> FALSE, company |-> c1, contact |-> None, owner |-> u1,
                pipeline |-> dp, stage |-> stage, source |-> None, reason |-> FALSE, won |-> None,
                lost |-> None, amount |-> 2, currency |-> EUR, close |-> 0, items |-> {}]
Project == [archived |-> FALSE, company |-> c1, manager |-> u1, deal |-> None, lead |-> None,
            status |-> "IN_PROGRESS", deadline |-> 1, value |-> 2, currency |-> EUR]
Task == [archived |-> FALSE, project |-> None, case |-> None, assignee |-> u1,
         status |-> "TODO", due |-> 0, completed |-> None]
Case == [archived |-> FALSE, number |-> 0, status |-> "OPEN", priority |-> "NORMAL",
         assignee |-> u1, about |-> None, due |-> 0, resolved |-> None, closed |-> None]
Activity == [status |-> "PLANNED", owner |-> u1, start |-> 1, end |-> None, reminder |-> 0,
             about |-> c1]
Payment == [archived |-> FALSE, recorder |-> u1, company |-> c1, project |-> j1, quotation |-> None, amount |-> 2,
            currency |-> EUR]
Quote == [archived |-> FALSE, company |-> c1, project |-> None, currency |-> EUR]
Item == [category |-> None, sku |-> None, currency |-> EUR, active |-> TRUE, archived |-> FALSE]
Field(position) == [kind |-> "LEAD", type |-> "TEXT", required |-> FALSE, active |-> TRUE,
                    position |-> position]
Form == [active |-> TRUE, pipeline |-> lp, stage |-> s1, owner |-> None, tags |-> {},
         mappings |-> <<>>, secret |-> "first"]

Connection == [name |-> n1, status |-> "ACTIVE", direction |-> "BOTH", secret |-> "first"]
Hook == [connection |-> w1, name |-> n1, active |-> TRUE, events |-> {"lead.created"}]

\* A rule of one part, as the form draws it.
Rule(form) == [name |-> n1, active |-> TRUE, creator |-> u1] @@ Drawn(form)
Doing(trigger, actions) == [BlankForm(KindOf(trigger), trigger) EXCEPT !.actions = actions]

\* One after another, unless `Together`.
Calling(ops, calls) == [ops |-> ops, calls |-> calls, faults |-> 0, days |-> 0, serial |-> TRUE]
Together(ops, calls) == [Calling(ops, calls) EXCEPT !.serial = FALSE]
Scenario(tables, environment) == [db |-> tables, env |-> environment]

WithCompany(tables) == [tables EXCEPT !.companies = c1 :> Company]
WithLead(tables) == [tables EXCEPT !.leads = l1 :> Lead]
WithDeal(tables, stage) == [WithCompany(tables) EXCEPT !.deals = d1 :> Deal(stage)]


\* Labels of records.
Labelling == Scenario([Selling EXCEPT !.tags = tg1 :> n1, !.leads = l1 :> Lead],
    Together({"tag.create", "tag.update", "tag.remove", "tag.attach", "tag.detach"}, 3))
Fielding == Scenario([WithLead(Selling) EXCEPT !.fields = fd1 :> Field(0)],
    Together({"field.create", "field.update", "field.reorder"}, 2))
Labelled == Scenario([WithLead(Selling) EXCEPT !.fields = fd1 :> Field(0), !.tags = tg1 :> n1],
    Together({"tag.remove", "field.update", "lead.update"}, 2))

\* Pipelines, and the records in their stages.
Pipelining == Scenario([Selling EXCEPT !.pipelines[dp].default = FALSE],
    Together({"pipeline.ensure", "pipeline.create", "pipeline.update", "pipeline.archive"}, 2))
Staging == Scenario([WithLead(Selling) EXCEPT !.stages = s7 :> Stage(lp, 3, "open") @@ @],
    Together({"pipeline.stages", "lead.stage"}, 2))
Moving == Scenario(
    [WithDeal(WithLead(Selling), s4) EXCEPT !.pipelines = lp2 :> Pipeline("LEAD", FALSE) @@ @,
                                            !.stages = s7 :> Stage(lp2, 0, "open") @@ @],
    Together({"pipeline.archive", "lead.stage", "deal.stage", "deal.archive"}, 2))

\* Leads and follow-ups.
Following == Scenario(WithLead(Selling),
    [Calling({"followup.create", "followup.reschedule", "followup.finish"}, 3) EXCEPT !.days = 1])
Racing == Scenario([WithLead(Selling) EXCEPT
                        !.followUps = f1 :> [lead |-> l1, due |-> 0, assignee |-> u1,
                                             status |-> "PENDING"],
                        !.leads[l1].next = 0],
    Together({"followup.reschedule", "followup.finish", "lead.archive", "lead.activity",
              "lead.owner"}, 2))
NewLeads == Scenario([WithCompany(Selling) EXCEPT !.contacts = k1 :> Contact(c1)],
    Calling({"lead.create"}, 1))
Converting == Scenario([WithLead(Selling) EXCEPT !.contacts = k1 :> Contact(None)],
    Together({"lead.convert"}, 2))
Adopting == Scenario([WithLead(WithCompany(Selling)) EXCEPT !.contacts = k1 :> Contact(None)],
    Calling({"lead.convert"}, 1))


\* Companies and contacts, the catalog and saved views.
Visiting == Scenario([WithCompany(Empty) EXCEPT !.contacts = k1 :> Contact(c1)],
    Together({"company.create", "company.update", "company.archive", "contact.create",
              "contact.update", "contact.archive"}, 2))
Stocking == Scenario([Empty EXCEPT !.items = i1 :> Item],
    Together({"item.create", "item.update", "item.archive", "category.create",
              "category.update"}, 2))
Viewing == Scenario([Empty EXCEPT !.users = @ @@ u2 :> "ACTIVE"],
    Calling({"view.create", "view.update", "view.remove"}, 3))

\* Deals, and the projects of won ones.
Dealing == Scenario([WithDeal(Selling, s5) EXCEPT !.items = i1 :> Item],
    [Together({"deal.update", "deal.items", "deal.stage", "deal.owner", "deal.project",
               "project.archive"}, 2) EXCEPT !.days = 1])
NewDeals == Scenario([WithCompany(Selling) EXCEPT !.contacts = k1 :> Contact(None)],
    Calling({"deal.create"}, 1))

\* Projects, tasks and comments.
Projecting == Scenario(
    [WithDeal(Selling, s5) EXCEPT !.users = @ @@ u2 :> "ACTIVE", !.projects = j1 :> Project,
                                  !.members = <<j1, u1>> :> "Project Manager"],
    Together({"project.update", "member.add", "member.remove"}, 2))
NewProjects == Scenario([WithDeal(Selling, s5) EXCEPT !.leads = l1 :> [Lead EXCEPT !.stage = s2,
                                                                                   !.company = c1]],
    Calling({"project.create"}, 1))
Working == Scenario([Empty EXCEPT !.users = @ @@ u2 :> "ACTIVE", !.tasks = t1 :> Task],
    Together({"task.update", "task.archive", "comment.create", "comment.delete", "bulk"}, 2))
NewTasks == Scenario([WithCompany(Empty) EXCEPT !.projects = j1 :> Project],
    Calling({"task.create", "task.update"}, 2))

\* Cases, activities, payments and notifications.
Serving == Scenario([Empty EXCEPT !.cases = q1 :> Case, !.caseNumber = 1],
    Together({"case.update"}, 3))
Reassigning == Scenario([Empty EXCEPT !.users = @ @@ u2 :> "ACTIVE", !.cases = q1 :> Case,
                                      !.caseNumber = 1],
    Together({"case.update", "case.archive", "case.comment"}, 2))
NewCases == Scenario(WithCompany(Empty), Calling({"case.create"}, 1))
Scheduling == Scenario([WithCompany(Empty) EXCEPT !.activities = a1 :> Activity],
    Together({"activity.create", "activity.update", "activity.finish", "activity.remove"}, 2))
Paying == Scenario(
    [WithCompany(Empty) EXCEPT !.users = @ @@ u2 :> "ACTIVE", !.projects = j1 :> Project,
                               !.quotes = m1 :> Quote, !.payments = m1 :> Payment],
    Together({"payment.create", "payment.update", "payment.archive"}, 2))
Telling == Scenario(
    [WithCompany(Empty) EXCEPT !.activities = a1 :> Activity, !.cases = q1 :> Case,
                               !.tasks = t1 :> Task, !.projects = j1 :> Project,
                               !.leads = l1 :> [Lead EXCEPT !.next = 0], !.pipelines = lp :> Pipeline("LEAD", TRUE),
                               !.stages = LeadStages,
                               !.followUps = f1 :> [lead |-> l1, due |-> 0, assignee |-> u1,
                                                    status |-> "PENDING"], !.caseNumber = 1],
    [Together({"notify", "notice.read", "notice.readall"}, 2) EXCEPT !.days = 1])

\* Web forms.
Receiving == Scenario([Selling EXCEPT !.forms = fm1 :> Form],
    [Together({"form.receive", "form.job", "form.retry", "form.recover"}, 2) EXCEPT !.faults = 1])
Repeating == Scenario([Selling EXCEPT !.forms = fm1 :> Form],
    [Calling({"form.receive", "form.job"}, 3) EXCEPT !.faults = 1])
Configuring == Scenario([Selling EXCEPT !.forms = fm1 :> [Form EXCEPT !.tags = {tg1}],
                                        !.tags = tg1 :> n1],
    Together({"tag.remove", "pipeline.archive", "form.receive", "form.job"}, 2))
\* A form that maps, and one whose mappings are being edited.
FromCustom(target, id) == [source |-> "custom", fixed |-> None, target |-> target, id |-> id]
Mapped == Scenario([Selling EXCEPT !.fields = fd1 :> [Field(0) EXCEPT !.type = "SELECT"],
                                   !.tags = tg1 :> n1,
                                   !.forms = fm1 :> [Form EXCEPT
                                       !.mappings = <<FromCustom("LEAD_TAG", tg1),
                                                      FromCustom("LEAD_CUSTOM_FIELD", fd1)>>]],
    Together({"form.receive", "form.job", "form.rotate", "field.update", "tag.remove"}, 2))
NewForms == Scenario([Selling EXCEPT !.tags = tg1 :> n1, !.fields = fd1 :> Field(0)],
    Calling({"form.create"}, 1))
MappingEdited == Scenario([Selling EXCEPT !.fields = fd1 :> [Field(0) EXCEPT !.type = "SELECT"],
                                          !.tags = tg1 :> n1, !.forms = fm1 :> Form],
    Together({"form.update", "field.update", "form.receive", "form.job"}, 2))

\* Imports, merges and bulk updates.
Importing == Scenario([Selling EXCEPT !.companies = c1 :> Company],
    [Calling({"import"}, 1) EXCEPT !.faults = 1])
Merging == Scenario(
    [Selling EXCEPT !.companies = c1 :> Company @@ c2 :> Company,
                    !.contacts = k1 :> [Contact(c1) EXCEPT !.primary = TRUE]
                              @@ k2 :> [Contact(c2) EXCEPT !.primary = TRUE],
                    !.leads = l1 :> [Lead EXCEPT !.company = c1, !.contact = k1],
                    !.deals = d1 :> Deal(s4)],
    Together({"merge.companies", "merge.contacts", "contact.update", "bulk"}, 2))

\* Integrations.
Connecting == Scenario([WithLead(Selling) EXCEPT !.connections = w1 :> Connection,
                                                 !.hooks = h1 :> Hook],
    Together({"connection.create", "connection.update", "connection.rotate", "hook.create",
              "hook.update", "mapping.create"}, 2))

\* Rules, as forms and as graphs.
WithRule(tables, form) == [tables EXCEPT !.rules = r1 :> Rule(form)]
Drawing == Scenario([WithLead(Selling) EXCEPT !.tags = tg1 :> n1, !.connections = w1 :> Connection,
                                              !.hooks = h1 :> Hook, !.fields = fd1 :> Field(0)],
    Calling({"rule.create"}, 1))
Ruling == Scenario(
    WithRule([WithLead(Selling) EXCEPT !.tags = tg1 :> n1],
        [Doing("lead.stage_changed", <<BlankAction, [type |-> "ADD_TAG", tagId |-> tg1]>>)
            EXCEPT !.config.to = s2]),
    Calling({"rule.update"}, 1))

\* Two editors of one rule.
Editing == Scenario(WithRule(Empty, BlankForm("PAYMENT", "payment.created")),
    Together({"rule.update"}, 2))

\* Runs: rules that start themselves, that act on what started them, and that
\* find something changed by then.
Chaining == Scenario(
    WithRule([WithCompany(Empty) EXCEPT !.projects = j1 :> Project],
        Doing("task.created", <<[type |-> "CREATE_TASK"]>>)),
    [Together({"task.create", "rule.publish", "rule.run"}, 1) EXCEPT !.faults = 1])
Acted ==
    {<<"lead.owner_changed", "lead.owner",
       <<[type |-> "ADD_TAG", tagId |-> tg1], [type |-> "CREATE_FOLLOW_UP"]>> >>,
     <<"lead.stage_changed", "lead.stage",
       <<[type |-> "SEND_EMAIL", source |-> "LEAD_EMAIL"], [type |-> "TRIGGER_WEBHOOK", hook |-> h1]>> >>,
     <<"deal.stage_changed", "deal.stage",
       <<[type |-> "ASSIGN_OWNER", ownerId |-> u2], [type |-> "CREATE_SCHEDULED_ACTIVITY"]>> >>,
     <<"case.assigned", "case.update",
       <<[type |-> "CHANGE_PRIORITY", priority |-> "URGENT"], [type |-> "CREATE_NOTIFICATION"]>> >>}
ActOn(case) == Scenario(
    WithRule([WithDeal(WithLead(Selling), s4) EXCEPT
                  !.users = @ @@ u2 :> "ACTIVE", !.tags = tg1 :> n1, !.cases = q1 :> Case,
                  !.caseNumber = 1, !.connections = w1 :> Connection, !.hooks = h1 :> Hook,
                  !.limits.runs = 1],
        Doing(case[1], case[3])),
    Together({case[2], "rule.publish", "rule.run", "tag.remove", "lead.archive", "hook.update"}, 2))
Automating == {ActOn(case) : case \in Acted}

\* A rule that waits for cases to be closed.
CaseChanging == Scenario(
    [Empty EXCEPT !.cases = q1 :> Case, !.caseNumber = 1,
                  !.rules = r1 :> Rule([BlankForm("CASE", "case.status_changed") EXCEPT
                                            !.config.to = "CLOSED"])],
    Calling({"case.update", "rule.publish", "rule.run"}, 1))
CaseScenarios == {CaseChanging}

\* Only the replacement of stages.
StageScenarios == {Staging}

DataScenarios == {Labelling, Fielding, Labelled, Pipelining, Staging, Moving, Following, Racing,
                  NewLeads, Converting, Adopting, Visiting, Stocking, Viewing, Dealing, NewDeals,
                  Projecting, NewProjects, Working, NewTasks, Serving, Reassigning, NewCases, Scheduling,
                  Paying, Telling, Receiving, Repeating, Configuring, Mapped, NewForms, MappingEdited, Importing, Merging,
                  Connecting, Drawing, Ruling, Editing, Chaining} \cup Automating
=============================================================================
