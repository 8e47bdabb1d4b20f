---------------------------- MODULE AccessControl ----------------------------
(***************************************************************************)
(* Who may call what: the permissions of the default roles, the routes of  *)
(* every controller with the permissions they require, and the guards that *)
(* a request passes before its handler: apps/api/src/auth, the controllers *)
(* and demo/demo-capability.service.ts.                                    *)
(*                                                                         *)
(* A route is a controller and a handler of it.  The rows of Role and      *)
(* RolePermission are joined; a default role has the permissions of its    *)
(* name, which nobody can change.                                          *)
(***************************************************************************)
EXTENDS RequestStore

CONSTANTS Orgs, Accounts, Sessions, Roles,
          MaxRate \* calls of one scope per window

-----------------------------------------------------------------------------
(* The default roles: each has what the one before it has. *)

ViewerPermissions ==
    {"activity.read", "attachment.read", "calendar.read", "case.read", "catalog.read",
     "company.read", "contact.read", "custom_field.read", "dashboard.read", "deal.read",
     "email.read", "forecast.read", "inbox.read", "lead.read", "mail.read",
     "notifications.read", "payment.read", "pipeline.read", "project.read", "quotation.read",
     "reports.read", "saved_view.read", "security.sessions.read", "security.sessions.revoke",
     "settings.read", "tag.read", "task.comment.read", "task.read"}

StaffPermissions ==
    ViewerPermissions \cup
    {"activity.assign", "activity.create", "activity.update", "attachment.create",
     "attachment.delete", "case.comment", "case.create", "case.update", "company.bulk_update",
     "company.create", "company.update", "contact.bulk_update", "contact.create",
     "contact.update", "data.export", "deal.convert", "deal.create", "deal.stage.update",
     "deal.update", "email.send", "inbox.assign", "inbox.note", "inbox.reply",
     "lead.bulk_update", "lead.create", "lead.stage.update", "lead.update", "mail.send",
     "project.bulk_update", "project.create", "project.update", "quotation.create",
     "quotation.update", "saved_view.create", "saved_view.delete", "saved_view.update",
     "task.assign", "task.bulk_update", "task.comment.create", "task.create", "task.update"}

ManagerPermissions ==
    StaffPermissions \cup
    {"activity.delete", "automation.read", "automation.runs.read", "case.assign", "case.delete",
     "case.resolve", "catalog.create", "catalog.update", "data.duplicates.read", "data.import",
     "data.merge", "deal.assign", "deal.delete", "email_template.read", "forecast.read_all",
     "inbox.priority.update", "inbox.status.update", "integration.logs.read",
     "integration.manage", "integration.read", "integration.retry", "lead.assign", "mail.link",
     "mailbox.read", "payment.create", "payment.delete", "payment.update", "project.delete",
     "project.manage_members", "quotation.accept", "quotation.delete", "quotation.reject",
     "quotation.send", "role.read", "task.delete", "user.read"}

AllPermissions ==
    ManagerPermissions \cup
    {"automation.manage", "automation.retry", "catalog.delete", "company.delete",
     "contact.delete", "custom_field.manage", "email_template.manage", "lead.delete",
     "mailbox.manage", "pipeline.manage", "role.manage", "settings.update", "tag.manage",
     "user.disable", "user.invite", "user.update", "webhook.manage"}

DefaultRoles == [Owner |-> AllPermissions, Admin |-> AllPermissions, Manager |-> ManagerPermissions,
                 Staff |-> StaffPermissions, Viewer |-> ViewerPermissions]

-----------------------------------------------------------------------------
(* The routes *)

Anyone == {"nobody is asked"}
Route(method, needs) == [method |-> method, needs |-> needs]
Get(needs) == Route("GET", needs)
Post(needs) == Route("POST", needs)
Change(needs) == Route("PATCH", needs)
Put(needs) == Route("PUT", needs)
Delete(needs) == Route("DELETE", needs)

ActivitiesRoutes ==
    [list |-> Get({"activity.read"}), get |-> Get({"activity.read"}),
     create |-> Post({"activity.create"}), update |-> Change({"activity.update"}),
     complete |-> Post({"activity.update"}), cancel |-> Post({"activity.delete"}),
     remove |-> Delete({"activity.delete"})]

AttachmentsRoutes ==
    [ProjectAttachments |->
        [list |-> Get({"attachment.read"}), upload |-> Post({"attachment.create"})],
     TaskAttachments |->
        [list |-> Get({"attachment.read"}), upload |-> Post({"attachment.create"})],
     CaseAttachments |->
        [list |-> Get({"case.read", "attachment.read"}),
         upload |-> Post({"case.update", "attachment.create"})],
     Attachments |->
        [download |-> Get({"attachment.read"}), delete |-> Delete({"attachment.delete"})]]

AuthRoutes ==
    [login |-> Post(Anyone), logout |-> Post({}), me |-> Get({}),
     sessions |-> Get({"security.sessions.read"}),
     revoke |-> Delete({"security.sessions.revoke"}),
     logoutAll |-> Post({"security.sessions.revoke"}), forgotPassword |-> Post(Anyone),
     resetPassword |-> Post(Anyone)]

AutomationsRoutes ==
    [list |-> Get({"automation.read"}), referenceData |-> Get({"automation.read"}),
     get |-> Get({"automation.read"}), create |-> Post({"automation.manage"}),
     update |-> Change({"automation.manage"}), runs |-> Get({"automation.runs.read"}),
     retry |-> Post({"automation.retry"})]

CasesRoutes ==
    [list |-> Get({"case.read"}), metrics |-> Get({"case.read"}),
     reports |-> Get({"case.read"}), create |-> Post({"case.create"}),
     get |-> Get({"case.read"}), update |-> Change({"case.update"}),
     archive |-> Delete({"case.delete"}), comment |-> Post({"case.comment"}),
     task |-> Post({"case.update", "task.create"})]

CatalogRoutes ==
    [list |-> Get({"catalog.read"}), referenceData |-> Get({"catalog.read"}),
     categories |-> Get({"catalog.read"}), createCategory |-> Post({"catalog.create"}),
     updateCategory |-> Change({"catalog.update"}), create |-> Post({"catalog.create"}),
     get |-> Get({"catalog.read"}), update |-> Change({"catalog.update"}),
     archive |-> Delete({"catalog.delete"})]

CompaniesRoutes ==
    [list |-> Get({"company.read"}), create |-> Post({"company.create"}),
     get |-> Get({"company.read"}), update |-> Change({"company.update"}),
     archive |-> Delete({"company.delete"})]

ContactsRoutes ==
    [list |-> Get({"contact.read"}), create |-> Post({"contact.create"}),
     get |-> Get({"contact.read"}), update |-> Change({"contact.update"}),
     archive |-> Delete({"contact.delete"})]

CustomFieldsRoutes ==
    [list |-> Get({"custom_field.read"}), create |-> Post({"custom_field.manage"}),
     update |-> Change({"custom_field.manage"}), reorder |-> Post({"custom_field.manage"})]

DashboardRoutes ==
    [summary |-> Get({"dashboard.read"}), tasks |-> Get({"dashboard.read"}),
     followUps |-> Get({"dashboard.read"}), activity |-> Get({"dashboard.read"})]

DataManagementRoutes ==
    [jobs |-> Get({"settings.read"}), previewImport |-> Post({"data.import"}),
     importData |-> Post({"data.import"}), exportData |-> Post({"data.export"}),
     downloadExport |-> Get({"data.export"}), duplicates |-> Get({"data.duplicates.read"}),
     merge |-> Post({"data.merge"}), bulkUpdateCompanies |-> Post({"company.bulk_update"}),
     bulkUpdateContacts |-> Post({"contact.bulk_update"}),
     bulkUpdateLeads |-> Post({"lead.bulk_update"}),
     bulkUpdateProjects |-> Post({"project.bulk_update"}),
     bulkUpdateTasks |-> Post({"task.bulk_update"})]

DealsRoutes ==
    [list |-> Get({"deal.read"}), create |-> Post({"deal.create"}), get |-> Get({"deal.read"}),
     update |-> Change({"deal.update"}), archive |-> Delete({"deal.delete"}),
     stage |-> Change({"deal.stage.update"}), owner |-> Change({"deal.assign"}),
     createProject |-> Post({"project.create"}), items |-> Change({"deal.update"})]

DemoRoutes ==
    [start |-> Post(Anyone), restart |-> Post({})]

CrmEmailRoutes ==
    [EmailTemplates |->
        [list |-> Get({"email_template.read"}), create |-> Post({"email_template.manage"}),
         update |-> Change({"email_template.manage"}), duplicate |-> Post({"email_template.manage"}),
         preview |-> Post({"email_template.read"}), test |-> Post({"email_template.manage"})],
     EmailSettings |->
        [get |-> Get({"email_template.read"}), update |-> Change({"email_template.manage"})],
     CrmEmails |->
        [history |-> Get({"email.read"}), context |-> Get({"email.read"}),
         detail |-> Get({"email.read"}), send |-> Post({"email.send"})]]

EmailRoutes ==
    [list |-> Get(Anyone)]

ForecastRoutes ==
    [get |-> Get({"forecast.read"})]

HealthRoutes ==
    [check |-> Get(Anyone), live |-> Get(Anyone), ready |-> Get(Anyone)]

IntegrationsRoutes ==
    [connections |-> Get({"integration.read"}),
     createConnection |-> Post({"integration.manage"}),
     updateConnection |-> Change({"integration.manage"}),
     rotateSecret |-> Post({"integration.manage"}), inbound |-> Post(Anyone),
     events |-> Get({"integration.logs.read"}), retryEvent |-> Post({"integration.retry"}),
     subscriptions |-> Get({"integration.read"}),
     createSubscription |-> Post({"webhook.manage"}),
     updateSubscription |-> Change({"webhook.manage"}),
     deliveries |-> Get({"integration.logs.read"}),
     retryDelivery |-> Post({"integration.retry"}), mappings |-> Get({"integration.read"}),
     createMapping |-> Post({"integration.manage"})]

FollowUpsRoutes ==
    [list |-> Get({"activity.read"})]

LeadsRoutes ==
    [list |-> Get({"lead.read"}), create |-> Post({"lead.create"}), get |-> Get({"lead.read"}),
     update |-> Change({"lead.update"}), archive |-> Delete({"lead.delete"}),
     stage |-> Change({"lead.stage.update"}), owner |-> Change({"lead.assign"}),
     convert |-> Post({"deal.convert"}), activities |-> Get({"activity.read"}),
     addActivity |-> Post({"activity.create"}), createFollowUp |-> Post({"activity.create"}),
     reschedule |-> Change({"activity.create"}), complete |-> Post({"activity.create"}),
     cancel |-> Post({"activity.create"})]

MailboxesRoutes ==
    [list |-> Get({"mailbox.read"}), create |-> Post({"mailbox.manage"}),
     update |-> Change({"mailbox.manage"}), testImap |-> Post({"mailbox.manage"}),
     testSmtp |-> Post({"mailbox.manage"}), sync |-> Post({"mailbox.manage"})]

MailRoutes ==
    [conversations |-> Get({"inbox.read"}), collaborators |-> Get({"inbox.read"}),
     availableMailboxes |-> Get({"mail.read"}), list |-> Get({"mail.read"}),
     thread |-> Get({"mail.read"}), link |-> Post({"mail.link"}),
     reply |-> Post({"mail.send", "inbox.reply"}), assign |-> Change({"inbox.assign"}),
     updateStatus |-> Change({"inbox.status.update"}),
     updatePriority |-> Change({"inbox.priority.update"}), setRead |-> Change({"inbox.read"}),
     addNote |-> Post({"inbox.note"}), createLead |-> Post({"inbox.read", "lead.create"}),
     createTask |-> Post({"inbox.read", "task.create"}),
     createCase |-> Post({"inbox.read", "case.create"}), download |-> Get({"mail.read"})]

NotificationsRoutes ==
    [list |-> Get({"notifications.read"}), unread |-> Get({"notifications.read"}),
     read |-> Change({"notifications.read"}), readAll |-> Post({"notifications.read"})]

OrganizationsRoutes ==
    [get |-> Get({"settings.read"}), remove |-> Delete({"settings.update"}),
     update |-> Change({"settings.update"})]

PaymentsRoutes ==
    [list |-> Get({"payment.read"}), referenceData |-> Get({"payment.read"}),
     create |-> Post({"payment.create"}), get |-> Get({"payment.read"}),
     update |-> Change({"payment.update"}), archive |-> Delete({"payment.delete"})]

PipelinesRoutes ==
    [list |-> Get({"pipeline.read"}), create |-> Post({"pipeline.manage"}),
     stages |-> Get({"pipeline.read"}), update |-> Change({"pipeline.manage"}),
     replaceStages |-> Put({"pipeline.manage"}), archive |-> Delete({"pipeline.manage"})]

ProjectsRoutes ==
    [list |-> Get({"project.read"}), users |-> Get({"project.read"}),
     create |-> Post({"project.create"}), get |-> Get({"project.read"}),
     update |-> Change({"project.update"}), archive |-> Delete({"project.delete"}),
     members |-> Get({"project.read"}), addMember |-> Post({"project.manage_members"}),
     removeMember |-> Delete({"project.manage_members"}), listTasks |-> Get({"task.read"})]

QuotationsRoutes ==
    [list |-> Get({"quotation.read"}), referenceData |-> Get({"quotation.read"}),
     create |-> Post({"quotation.create"}), get |-> Get({"quotation.read"}),
     update |-> Change({"quotation.update"}), archive |-> Delete({"quotation.delete"}),
     send |-> Post({"quotation.send"}), accept |-> Post({"quotation.accept"}),
     reject |-> Post({"quotation.reject"}), pdf |-> Get({"quotation.read"})]

ReportsRoutes ==
    [pipeline |-> Get({"lead.read"}), conversion |-> Get({"lead.read"}),
     dealPipeline |-> Get({"deal.read"}), dealConversion |-> Get({"deal.read"}),
     forecastByOwner |-> Get({"forecast.read"}), forecastByStage |-> Get({"forecast.read"}),
     leadToDeal |-> Get({"deal.read"}), sources |-> Get({"lead.read"}),
     projects |-> Get({"project.read"}), tasks |-> Get({"task.read"}),
     overdue |-> Get({"task.read"}), payments |-> Get({"payment.read"}),
     outstanding |-> Get({"payment.read"})]

RolesRoutes ==
    [Roles |->
        [list |-> Get({"role.read"}), create |-> Post({"role.manage"}),
         update |-> Change({"role.manage"})],
     Permissions |->
        [list |-> Get({"role.read"})]]

SavedViewsRoutes ==
    [list |-> Get({"saved_view.read"}), create |-> Post({"saved_view.create"}),
     update |-> Change({"saved_view.update"}), remove |-> Delete({"saved_view.delete"})]

SearchRoutes ==
    [search |-> Get({})]

TagsRoutes ==
    [list |-> Get({"tag.read"}), create |-> Post({"tag.manage"}),
     update |-> Change({"tag.manage"}), remove |-> Delete({"tag.manage"}),
     attach |-> Post({"tag.read"}), detach |-> Delete({"tag.read"})]

TasksRoutes ==
    [list |-> Get({"task.read"}), create |-> Post({"task.create"}), get |-> Get({"task.read"}),
     update |-> Change({"task.update"}), archive |-> Delete({"task.delete"}),
     comments |-> Get({"task.comment.read"}), createComment |-> Post({"task.comment.create"}),
     updateComment |-> Change({"task.comment.create"}),
     deleteComment |-> Delete({"task.comment.create"})]

UsersRoutes ==
    [invite |-> Post({"user.invite"}), resendInvitation |-> Post({"user.invite"}),
     cancelInvitation |-> Delete({"user.invite"}), validateInvitation |-> Get(Anyone),
     acceptInvitation |-> Post(Anyone), list |-> Get({"user.read"}), get |-> Get({"user.read"}),
     update |-> Change({"user.update"})]

WebToLeadRoutes ==
    [list |-> Get({"integration.read"}), references |-> Get({"integration.read"}),
     get |-> Get({"integration.read"}), create |-> Post({"integration.manage"}),
     update |-> Change({"integration.manage"}), rotateSecret |-> Post({"integration.manage"}),
     logs |-> Get({"integration.logs.read"}), test |-> Post({"integration.manage"}),
     receive |-> Post(Anyone)]

Routes ==
    [Activities |-> ActivitiesRoutes,
     ProjectAttachments |-> AttachmentsRoutes.ProjectAttachments,
     TaskAttachments |-> AttachmentsRoutes.TaskAttachments,
     CaseAttachments |-> AttachmentsRoutes.CaseAttachments,
     Attachments |-> AttachmentsRoutes.Attachments, Auth |-> AuthRoutes,
     Automations |-> AutomationsRoutes, Cases |-> CasesRoutes, Catalog |-> CatalogRoutes,
     Companies |-> CompaniesRoutes, Contacts |-> ContactsRoutes,
     CustomFields |-> CustomFieldsRoutes, Dashboard |-> DashboardRoutes,
     DataManagement |-> DataManagementRoutes, Deals |-> DealsRoutes, Demo |-> DemoRoutes,
     EmailTemplates |-> CrmEmailRoutes.EmailTemplates,
     EmailSettings |-> CrmEmailRoutes.EmailSettings, CrmEmails |-> CrmEmailRoutes.CrmEmails,
     Email |-> EmailRoutes, Forecast |-> ForecastRoutes, Health |-> HealthRoutes,
     Integrations |-> IntegrationsRoutes, FollowUps |-> FollowUpsRoutes, Leads |-> LeadsRoutes,
     Mailboxes |-> MailboxesRoutes, Mail |-> MailRoutes, Notifications |-> NotificationsRoutes,
     Organizations |-> OrganizationsRoutes, Payments |-> PaymentsRoutes,
     Pipelines |-> PipelinesRoutes, Projects |-> ProjectsRoutes, Quotations |-> QuotationsRoutes,
     Reports |-> ReportsRoutes, Roles |-> RolesRoutes.Roles,
     Permissions |-> RolesRoutes.Permissions, SavedViews |-> SavedViewsRoutes,
     Search |-> SearchRoutes, Tags |-> TagsRoutes, Tasks |-> TasksRoutes, Users |-> UsersRoutes,
     WebToLead |-> WebToLeadRoutes]
RouteOf(route) == Routes[route[1]][route[2]]

Public(route) == RouteOf(route).needs = Anyone
Mutates(route) == RouteOf(route).method # "GET"

\* What a demo never does, whoever asks.
DemoBlocks(route) ==
    \/ route[1] \in {"Email", "DataManagement"}
    \/ route \in {<<"Auth", "forgotPassword">>, <<"Auth", "resetPassword">>}
    \/ /\ Mutates(route)
       /\ route[1] \in {"Users", "Roles", "Permissions", "Mailboxes", "Integrations",
                        "WebToLead", "Organizations", "EmailSettings"}

-----------------------------------------------------------------------------
(* The guards *)

Runtime == db.runtime
OrgOf(account) == db.accounts[account].org
Expired(org) == db.orgs[org].demo /\ db.orgs[org].expires <= db.today
RolesOf(org) == {r \in DOMAIN db.roles : db.roles[r].org = org}

PermissionsOf(account) ==
    UNION {IF db.roles[r].system THEN DefaultRoles[db.roles[r].name]
           ELSE db.roles[r].permissions : r \in db.accounts[account].roles}

\* The session is open, its user active, its organization active, of this
\* runtime, and not an expired demo.
Authenticated(s) ==
    LET session == db.sessions[s]
        org == OrgOf(session.account)
    IN  /\ ~session.revoked /\ session.expires > db.today
        /\ db.accounts[session.account].status = "ACTIVE"
        /\ db.orgs[org].active /\ ~Expired(org)
        /\ db.orgs[org].demo <=> Runtime = "demo"

\* The token of the form must be the session's, for all that is not a read.
CsrfValid(route, token) == Mutates(route) => token = "the session's"

Permitted(account, route) == RouteOf(route).needs \subseteq PermissionsOf(account)

\* The sessions that get through to the handler of a route.
Callers(route) ==
    {s \in DOMAIN db.sessions :
        /\ Authenticated(s)
        /\ Runtime = "demo" => ~DemoBlocks(route)
        /\ \E token \in {"the session's", "another"} : CsrfValid(route, token)
        /\ Permitted(db.sessions[s].account, route)}
Open(route) == Public(route) /\ (Runtime = "demo" => ~DemoBlocks(route))

-----------------------------------------------------------------------------
(* Rate limits *)

\* Redis counts the calls of a window, the refused ones too.  The window of
\* a scope is a day here, and all calls come from one address.
ByAddress(scope) == <<scope, None>>
Window(scope) == <<scope[1], scope[2], db.today>>
Counted(tables, scope) ==
    LET w == Window(scope)
    IN  [tables EXCEPT !.rates = Insert(@, w, IF w \in DOMAIN @ THEN @[w] + 1 ELSE 1)]
WithinRate(scope) == Window(scope) \in DOMAIN db.rates => db.rates[Window(scope)] < MaxRate

\* A call that counts: it goes on, or is one too many or not valid.
CallCounted(p, scope, op, arg) ==
    WithinRate(scope) /\ BeginWriting(p, Counted(db, scope), op, arg)
TurnedAway(p, scope) == BeginWriting(p, Counted(db, scope), "none", None)
=============================================================================
