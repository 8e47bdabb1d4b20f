--------------------------- MODULE ProjectRecords ---------------------------
(***************************************************************************)
(* Projects with their members, and tasks with their comments:             *)
(* apps/api/src/projects/projects.service.ts and                           *)
(* apps/api/src/tasks/tasks.service.ts.                                    *)
(*                                                                         *)
(* db.projects, db.tasks and db.comments are tables; db.members maps       *)
(* <<project, user>> to the member's role; db.notices maps a notification, *)
(* <<user, type, record, stamp>> as its deduplication key has it, to       *)
(* whether it was read.                                                    *)
(***************************************************************************)
EXTENDS DealRecords

CONSTANT Comments

ProjectRow == [archived : BOOLEAN, company : Companies, manager : OrNone(Users),
               deal : OrNone(Deals), lead : OrNone(Leads), status : ProjectStatuses,
               deadline : OrNone(Nat), value : OrNone(Amounts), currency : Currencies]
Roles == {"Project Manager", "Project manager", None}

\* validateSourceLead, validateSourceDeal: won, unarchived, of the company.
WonLeads(company) ==
    {l \in Live(db.leads) : OutcomeOf(l) = "won" /\ db.leads[l].company = company}
WonDeals(company) ==
    {d \in Live(db.deals) : DealOutcome(d) = "won" /\ db.deals[d].company = company}

CreateProject(p) ==
    \/ /\ Called(p, "project.create")
       /\ \E company \in Live(db.companies), manager \in OrNone(ActiveUsers),
          status \in ProjectStatuses, deadline \in OrNone(Dates),
          value \in OrNone(Amounts), currency \in Currencies, labels \in Labels("PROJECT") :
          \E lead \in OrNone(WonLeads(company)), deal \in OrNone(WonDeals(company)) :
             Begin(p, "project.create",
                [row |-> [archived |-> FALSE, company |-> company, manager |-> manager,
                          deal |-> deal, lead |-> lead, status |-> status,
                          deadline |-> deadline, value |-> value, currency |-> currency],
                 labels |-> labels])
    \/ /\ At(p, "project.create") /\ HasRoom(Projects, db.projects)
       /\ LET j == Fresh(Projects, db.projects)
              tables == WithNewProject(db, Arg(p).row, "Project Manager")
          IN  CommitIf(p,
                 SourcesUnique(tables.projects) /\ LabelsValid("PROJECT", j, Arg(p).labels),
                 WithLabels(tables, j, Arg(p).labels), << <<"project.created", j>> >>)

\* The manager's place among the members: the old one, as it was read, loses
\* the role when it is spelled as this service spells it.
MoveManager(members, project, old, new) ==
    LET demoted == IF <<project, old>> \in DOMAIN members /\ members[<<project, old>>] = "Project Manager"
                   THEN [members EXCEPT ![<<project, old>>] = None] ELSE members
    IN  IF new = None THEN demoted ELSE Insert(demoted, <<project, new>>, "Project Manager")

ProjectChanges ==
    Changes([company |-> Live(db.companies), manager |-> OrNone(ActiveUsers),
             deal |-> OrNone(Live(db.deals)), lead |-> OrNone(Live(db.leads)),
             status |-> ProjectStatuses, deadline |-> OrNone(Dates), value |-> Amounts,
             currency |-> Currencies])

UpdateProject(p) ==
    \/ /\ Called(p, "project.update")
       /\ \E j \in Live(db.projects), labels \in Labels("PROJECT"),
          change \in ProjectChanges :
          LET company == Given(change, "company", db.projects[j].company)
          IN  /\ Given(change, "lead", None) \in OrNone(WonLeads(company))
              /\ Given(change, "deal", None) \in OrNone(WonDeals(company))
              /\ Begin(p, "project.update",
                    [project |-> j, change |-> change, labels |-> labels,
                     was |-> db.projects[j]])
    \/ /\ At(p, "project.update")
       /\ LET arg == Arg(p)
              j == arg.project
              manager == Given(arg.change, "manager", arg.was.manager)
              projects == Patch(db.projects, j, arg.change)
              tables == [db EXCEPT
                  !.projects = projects,
                  !.members = IF manager = arg.was.manager THEN @
                              ELSE MoveManager(@, j, arg.was.manager, manager)]
          IN  CommitIf(p, SourcesUnique(projects) /\ LabelsValid("PROJECT", j, arg.labels),
                 WithLabels(tables, j, arg.labels),
                 << <<"project.updated", j>> >>
                 \o IF projects[j].status # arg.was.status
                    THEN << <<"project.status_changed", j>> >> ELSE <<>>)

ArchiveProject(p) ==
    \/ /\ Called(p, "project.archive")
       /\ \E j \in Live(db.projects) : Begin(p, "project.archive", j)
    \/ /\ At(p, "project.archive")
       /\ Commit(p, [db EXCEPT !.projects[Arg(p)].archived = TRUE], <<>>)

AddMember(p) ==
    \/ /\ Called(p, "member.add")
       /\ \E j \in Live(db.projects), u \in ActiveUsers : Begin(p, "member.add", <<j, u>>)
    \/ /\ At(p, "member.add")
       /\ CommitIf(p, Arg(p) \notin DOMAIN db.members,
             [db EXCEPT !.members = Insert(@, Arg(p), None)], <<>>)

\* The manager, as it was read, cannot be removed; the row is, by its id.
RemoveMember(p) ==
    \/ /\ Called(p, "member.remove")
       /\ \E m \in DOMAIN db.members :
          /\ m[1] \in Live(db.projects) /\ db.projects[m[1]].manager # m[2]
          /\ Begin(p, "member.remove", m)
    \/ /\ At(p, "member.remove")
       /\ CommitIf(p, Arg(p) \in DOMAIN db.members,
             [db EXCEPT !.members = Without(@, {Arg(p)})], <<>>)

ProjectList(view) ==
    LET shown == [active |-> {"IN_PROGRESS", "IN_REVIEW"}, planned |-> {"PLANNED"},
                  onHold |-> {"ON_HOLD"}, completed |-> {"COMPLETED"}, all |-> ProjectStatuses]
    IN  {j \in Live(db.projects) : db.projects[j].status \in shown[view]}

AmountOf(x) == IF x = None THEN 0 ELSE x
PaymentsOf(j) == {m \in Live(db.payments) : db.payments[m].project = j}

\* The balance on a project's page: of all its payments, in any currency.
ProjectBalance(j) ==
    LET paid(m) == db.payments[m].amount
    IN  AmountOf(db.projects[j].value) - Total(paid, PaymentsOf(j))

-----------------------------------------------------------------------------
(* Tasks *)

TaskStatuses == {"TODO", "COMPLETED"}
TaskRow == [archived : BOOLEAN, project : OrNone(Projects), case : OrNone(Cases),
            assignee : OrNone(Users), status : TaskStatuses, due : OrNone(Nat),
            completed : OrNone(Nat)]

\* notifications.create: one row per deduplication key, which keeps its state.
Notify(tables, user, type, id, stamp) ==
    [tables EXCEPT !.notices = @ @@ (<<user, type, id, stamp>> :> FALSE)]
NotifyAssignee(tables, caller, assignee, type, id, stamp) ==
    IF assignee \in {None, caller} THEN tables ELSE Notify(tables, assignee, type, id, stamp)

\* A case's task is created the same way.
CreateTask(p) ==
    \/ /\ Called(p, "task.create")
       /\ \E project \in LiveOrNone(db.projects), case \in LiveOrNone(db.cases),
             assignee \in OrNone(ActiveUsers), caller \in ActiveUsers,
             status \in TaskStatuses, due \in OrNone(Dates) :
             Begin(p, "task.create",
                [caller |-> caller,
                 row |-> [archived |-> FALSE, project |-> project, case |-> case,
                          assignee |-> assignee, status |-> status, due |-> due,
                          completed |-> None]])
    \/ /\ At(p, "task.create") /\ HasRoom(Tasks, db.tasks)
       /\ LET t == Fresh(Tasks, db.tasks)
              row == [Arg(p).row EXCEPT
                         !.completed = IF Arg(p).row.status = "COMPLETED" THEN db.today ELSE None]
          IN  Commit(p,
                 NotifyAssignee([db EXCEPT !.tasks = Insert(@, t, row)],
                    Arg(p).caller, row.assignee, "TASK_ASSIGNED", t, None),
                 << <<"task.created", t>> >>)

TaskChanges ==
    Changes([project |-> LiveOrNone(db.projects), case |-> LiveOrNone(db.cases),
             assignee |-> OrNone(ActiveUsers), status |-> TaskStatuses,
             due |-> OrNone(Dates)])

\* The day of completion is kept when the row that was read had one.
UpdateTask(p) ==
    \/ /\ Called(p, "task.update")
       /\ \E t \in Live(db.tasks), caller \in ActiveUsers,
          change \in TaskChanges :
          Begin(p, "task.update",
             [task |-> t, caller |-> caller, change |-> change, was |-> db.tasks[t]])
    \/ /\ At(p, "task.update")
       /\ LET arg == Arg(p)
              t == arg.task
              status == Given(arg.change, "status", arg.was.status)
              day == IF status # "COMPLETED" THEN None
                     ELSE IF arg.was.completed # None THEN arg.was.completed ELSE db.today
              stamped == IF "status" \in DOMAIN arg.change
                         THEN [completed |-> day] @@ arg.change ELSE arg.change
              written == [db EXCEPT !.tasks = Patch(@, t, stamped)]
              assignee == Given(arg.change, "assignee", arg.was.assignee)
              tables == IF assignee = arg.was.assignee THEN written
                        ELSE NotifyAssignee(written, arg.caller, assignee, "TASK_ASSIGNED", t, None)
              done == status = "COMPLETED" /\ arg.was.status # "COMPLETED"
          IN  Commit(p, tables,
                 << <<IF done THEN "task.completed" ELSE "task.updated", t>> >>
                 \o IF written.tasks[t].status # arg.was.status
                    THEN << <<"task.status_changed", t>> >> ELSE <<>>)

ArchiveTask(p) ==
    \/ /\ Called(p, "task.archive")
       /\ \E t \in Live(db.tasks) : Begin(p, "task.archive", t)
    \/ /\ At(p, "task.archive")
       /\ Commit(p, [db EXCEPT !.tasks[Arg(p)].archived = TRUE], <<>>)

CommentRow == [record : Tasks \cup Cases, author : Users]
CreateComment(p) ==
    \/ /\ Called(p, "comment.create")
       /\ \E t \in Live(db.tasks), caller \in ActiveUsers :
          Begin(p, "comment.create", [record |-> t, author |-> caller])
    \/ /\ At(p, "comment.create") /\ HasRoom(Comments, db.comments)
       /\ Commit(p, [db EXCEPT !.comments = Insert(@, Fresh(Comments, @), Arg(p))], <<>>)

\* By its author, or whoever may delete tasks; of archived tasks too.
DeleteComment(p) ==
    \/ /\ Called(p, "comment.delete")
       /\ \E c \in DOMAIN db.comments :
          db.comments[c].record \in DOMAIN db.tasks /\ Begin(p, "comment.delete", c)
    \/ /\ At(p, "comment.delete")
       /\ CommitIf(p, Arg(p) \in DOMAIN db.comments,
             [db EXCEPT !.comments = Without(@, {Arg(p)})], <<>>)

\* Tasks of archived projects are not listed.
TaskList(view, user) ==
    {t \in Live(db.tasks) :
        /\ db.tasks[t].project \in LiveOrNone(db.projects)
        /\ view = "mine" => db.tasks[t].assignee = user
        /\ view = "dueToday" => db.tasks[t].due = db.today
        /\ view = "overdue" => /\ db.tasks[t].due # None /\ db.tasks[t].due < db.today
                               /\ db.tasks[t].status # "COMPLETED"}

-----------------------------------------------------------------------------
ProjectsStep(p) ==
    \/ CreateProject(p) \/ UpdateProject(p) \/ ArchiveProject(p) \/ AddMember(p)
    \/ RemoveMember(p) \/ CreateTask(p) \/ UpdateTask(p) \/ ArchiveTask(p)
    \/ CreateComment(p) \/ DeleteComment(p)

ProjectRowsOK ==
    /\ DOMAIN db.projects \subseteq Projects /\ DOMAIN db.tasks \subseteq Tasks
    /\ \A j \in DOMAIN db.projects : db.projects[j] \in ProjectRow
    /\ SourcesUnique(db.projects)
    /\ db.members \in [DOMAIN db.members -> Roles]
    /\ DOMAIN db.members \subseteq (DOMAIN db.projects) \X Users
    /\ \A t \in DOMAIN db.tasks : db.tasks[t] \in TaskRow
    /\ \A c \in DOMAIN db.comments : db.comments[c] \in CommentRow
    /\ db.notices \in [DOMAIN db.notices -> BOOLEAN]
=============================================================================
