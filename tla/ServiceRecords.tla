--------------------------- MODULE ServiceRecords ---------------------------
(***************************************************************************)
(* Cases, scheduled activities, payments, and the notifications that a     *)
(* repeated job derives from all of them: apps/api/src/cases,              *)
(* apps/api/src/activities, apps/api/src/payments and                      *)
(* apps/api/src/notifications.                                             *)
(*                                                                         *)
(* db.cases, db.activities and db.payments are tables; db.quotes has what  *)
(* a payment reads of a quotation and db.caseNumber the next number.       *)
(***************************************************************************)
EXTENDS ProjectRecords

-----------------------------------------------------------------------------
(* Cases *)

CaseStatuses == {"OPEN", "IN_PROGRESS", "WAITING_FOR_CUSTOMER", "WAITING_INTERNAL",
                 "RESOLVED", "CLOSED"}
Terminal == {"RESOLVED", "CLOSED"}
Waiting == {"WAITING_FOR_CUSTOMER", "WAITING_INTERNAL"}
Priorities == {"NORMAL", "URGENT"}

\* Of the records that a case may refer to, one.
CaseRow == [archived : BOOLEAN, number : Nat, status : CaseStatuses, priority : Priorities,
            assignee : OrNone(Users), about : OrNone(Leads \cup Deals \cup Companies \cup Contacts),
            due : OrNone(Nat), resolved : OrNone(Nat), closed : OrNone(Nat)]
CaseSubjects ==
    OrNone(Live(db.leads) \cup Live(db.deals) \cup Live(db.companies) \cup Live(db.contacts))

\* validateTransition
Allowed(from) ==
    CASE from = "CLOSED" -> {"OPEN"}
      [] from = "RESOLVED" -> {"OPEN", "IN_PROGRESS", "CLOSED"}
      [] OTHER -> CaseStatuses \ {from}

\* The number comes from a counter that is raised in the same transaction.
CreateCase(p) ==
    \/ /\ Called(p, "case.create")
       /\ \E input \in [status : CaseStatuses, priority : Priorities, due : OrNone(Dates),
                        assignee : OrNone(ActiveUsers), about : CaseSubjects] :
          Begin(p, "case.create",
             [archived |-> FALSE, number |-> 0, resolved |-> None, closed |-> None] @@ input)
    \/ /\ At(p, "case.create") /\ HasRoom(Cases, db.cases)
       /\ LET k == Fresh(Cases, db.cases)
              row == [Arg(p) EXCEPT
                         !.number = db.caseNumber,
                         !.resolved = IF Arg(p).status = "RESOLVED" THEN db.today ELSE None,
                         !.closed = IF Arg(p).status = "CLOSED" THEN db.today ELSE None]
          IN  Commit(p,
                 NotifyAssignee([db EXCEPT !.cases = Insert(@, k, row), !.caseNumber = @ + 1],
                    None, row.assignee, "CASE_ASSIGNED", k, db.today),
                 << <<"case.created", k>> >>
                 \o IF row.assignee # None THEN << <<"case.assigned", k>> >> ELSE <<>>)

\* The days that go with a status.
CaseDays(status) ==
    CASE status = "RESOLVED" -> [resolved |-> db.today, closed |-> None]
      [] status = "CLOSED" -> [closed |-> db.today]
      [] OTHER -> [resolved |-> None, closed |-> None]

CaseChanges ==
    Changes([status |-> CaseStatuses, priority |-> Priorities,
             assignee |-> OrNone(ActiveUsers), about |-> CaseSubjects,
             due |-> OrNone(Dates)])

\* The row as it was read decides whether the move is allowed, who is told
\* and what is announced.
UpdateCase(p) ==
    \/ /\ Called(p, "case.update")
       /\ \E k \in Live(db.cases),
          change \in CaseChanges :
          /\ LET from == db.cases[k].status
             IN  Given(change, "status", from) \in {from} \cup Allowed(from)
          /\ Begin(p, "case.update", [case |-> k, change |-> change, was |-> db.cases[k]])
    \/ /\ At(p, "case.update")
       /\ LET arg == Arg(p)
              k == arg.case
              new(field) == Given(arg.change, field, arg.was[field])
              moved == new("status") # arg.was.status
              assigned == new("assignee") # arg.was.assignee
              dated == IF "status" \in DOMAIN arg.change
                       THEN CaseDays(arg.change.status) @@ arg.change ELSE arg.change
              written == [db EXCEPT !.cases = Patch(@, k, dated)]
              told == IF assigned
                      THEN NotifyAssignee(written, None, new("assignee"), "CASE_ASSIGNED", k, db.today)
                      ELSE written
              reopened == moved /\ arg.was.status \in Terminal /\ new("status") \notin Terminal
          IN  Commit(p,
                 IF reopened
                 THEN NotifyAssignee(told, None, written.cases[k].assignee, "CASE_REOPENED", k, db.today)
                 ELSE told,
                 (IF assigned THEN << <<"case.assigned", k>> >> ELSE <<>>)
                 \o (IF new("priority") # arg.was.priority
                     THEN << <<"case.priority_changed", k>> >> ELSE <<>>)
                 \o (IF moved THEN << <<"case.status_changed", k>> >> ELSE <<>>)
                 \o (IF moved /\ new("status") = "RESOLVED"
                     THEN << <<"case.resolved", k>> >> ELSE <<>>))

ArchiveCase(p) ==
    \/ /\ Called(p, "case.archive")
       /\ \E k \in Live(db.cases) : Begin(p, "case.archive", k)
    \/ /\ At(p, "case.archive")
       /\ Commit(p, [db EXCEPT !.cases[Arg(p)].archived = TRUE], <<>>)

CommentCase(p) ==
    \/ /\ Called(p, "case.comment")
       /\ \E k \in Live(db.cases), u \in ActiveUsers :
          Begin(p, "case.comment", [record |-> k, author |-> u])
    \/ /\ At(p, "case.comment") /\ HasRoom(Comments, db.comments)
       /\ Commit(p, [db EXCEPT !.comments = Insert(@, Fresh(Comments, @), Arg(p))], <<>>)

LateCase(k) ==
    db.cases[k].due # None /\ db.cases[k].due < db.today /\ db.cases[k].status \notin Terminal
CaseList(view, user) ==
    {k \in Live(db.cases) :
        /\ view = "mine" => db.cases[k].assignee = user
        /\ view = "unassigned" => db.cases[k].assignee = None
        /\ view = "open" => db.cases[k].status \in {"OPEN", "IN_PROGRESS"}
        /\ view = "waiting" => db.cases[k].status \in Waiting
        /\ view = "overdue" => LateCase(k)
        /\ view = "resolved" => db.cases[k].status \in Terminal}

CaseMetrics(user) ==
    LET unsettled == {k \in Live(db.cases) : db.cases[k].status \notin Terminal}
    IN  [open |-> unsettled, mine |-> {k \in unsettled : db.cases[k].assignee = user},
         overdue |-> {k \in Live(db.cases) : LateCase(k)}]

CaseReport ==
    [byStatus |-> [s \in CaseStatuses |->
                      Cardinality({k \in Live(db.cases) : db.cases[k].status = s})],
     byAssignee |-> [u \in OrNone(Users) |->
                      Cardinality({k \in Live(db.cases) : db.cases[k].assignee = u})],
     overdue |-> Cardinality({k \in Live(db.cases) : LateCase(k)}),
     resolved |-> Cardinality({k \in Live(db.cases) : db.cases[k].resolved # None})]

-----------------------------------------------------------------------------
(* Scheduled activities *)

ActivityRow == [status : {"PLANNED", "COMPLETED", "CANCELLED"}, owner : Users,
                start : Nat, end : OrNone(Nat), reminder : OrNone(Nat),
                about : Leads \cup Deals \cup Companies \cup Contacts]

\* validateDates, which the columns' constraints repeat.
DatesInOrder(start, end, reminder) ==
    /\ end # None => end >= start
    /\ reminder # None => reminder <= start

NewActivities ==
    {input \in [owner : ActiveUsers, about : CaseSubjects \ {None}, start : Dates,
                end : OrNone(Dates), reminder : OrNone(Dates)] :
        DatesInOrder(input.start, input.end, input.reminder)}

CreateActivity(p) ==
    \/ /\ Called(p, "activity.create")
       /\ \E input \in NewActivities :
          Begin(p, "activity.create", [status |-> "PLANNED"] @@ input)
    \/ /\ At(p, "activity.create") /\ HasRoom(Activities, db.activities)
       /\ Commit(p, [db EXCEPT !.activities = Insert(@, Fresh(Activities, @), Arg(p))], <<>>)

ActivityChanges ==
    Changes([owner |-> ActiveUsers, start |-> Dates, end |-> OrNone(Dates),
             reminder |-> OrNone(Dates)])

\* All three dates are written, the ones left out as they were read.  Any
\* activity can be rescheduled, a completed one too.
UpdateActivity(p) ==
    \/ /\ Called(p, "activity.update")
       /\ \E a \in DOMAIN db.activities,
          change \in ActivityChanges :
          LET row == db.activities[a]
              dates == [start |-> Given(change, "start", row.start),
                        end |-> Given(change, "end", row.end),
                        reminder |-> Given(change, "reminder", row.reminder)]
          IN  /\ DatesInOrder(dates.start, dates.end, dates.reminder)
              /\ Begin(p, "activity.update", [activity |-> a, change |-> dates @@ change])
    \/ /\ At(p, "activity.update")
       /\ CommitIf(p, Arg(p).activity \in DOMAIN db.activities,
             [db EXCEPT !.activities =
                 IF Arg(p).activity \in DOMAIN @ THEN Patch(@, Arg(p).activity, Arg(p).change) ELSE @],
             <<>>)

FinishActivity(p) ==
    \/ /\ Called(p, "activity.finish")
       /\ \E a \in DOMAIN db.activities, status \in {"COMPLETED", "CANCELLED"} :
          /\ db.activities[a].status = "PLANNED"
          /\ Begin(p, "activity.finish", [activity |-> a, status |-> status])
    \/ /\ At(p, "activity.finish")
       /\ CommitIf(p, Arg(p).activity \in DOMAIN db.activities,
             [db EXCEPT !.activities =
                 IF Arg(p).activity \in DOMAIN @
                 THEN Patch(@, Arg(p).activity, [status |-> Arg(p).status]) ELSE @],
             <<>>)

RemoveActivity(p) ==
    \/ /\ Called(p, "activity.remove")
       /\ \E a \in DOMAIN db.activities : Begin(p, "activity.remove", a)
    \/ /\ At(p, "activity.remove")
       /\ CommitIf(p, Arg(p) \in DOMAIN db.activities,
             [db EXCEPT !.activities = Without(@, {Arg(p)})], <<>>)

\* The feed of one user's or everybody's activities: what is scheduled, the
\* tasks and projects with a date, and the follow-ups.
InView(view, day) ==
    /\ view = "today" => day = db.today
    /\ view = "upcoming" => day > db.today
    /\ view = "overdue" => day < db.today
ActivityFeed(view, owner) ==
    LET mine(u) == owner = None \/ u = owner
        done == view = "completed"
    IN  [scheduled |-> {a \in DOMAIN db.activities :
                           /\ mine(db.activities[a].owner) /\ InView(view, db.activities[a].start)
                           /\ done => db.activities[a].status = "COMPLETED"
                           /\ view \in {"today", "upcoming", "overdue"} =>
                                  db.activities[a].status = "PLANNED"},
         tasks |-> {t \in Live(db.tasks) :
                       /\ db.tasks[t].due # None /\ InView(view, db.tasks[t].due)
                       /\ mine(db.tasks[t].assignee)
                       /\ done <=> db.tasks[t].status = "COMPLETED"},
         followUps |-> {f \in DOMAIN db.followUps :
                       /\ InView(view, db.followUps[f].due) /\ mine(db.followUps[f].assignee)
                       /\ db.followUps[f].status = IF done THEN "COMPLETED" ELSE "PENDING"},
         projects |-> {j \in Live(db.projects) :
                       /\ ~done /\ db.projects[j].deadline # None
                       /\ InView(view, db.projects[j].deadline) /\ mine(db.projects[j].manager)
                       /\ db.projects[j].status \notin {"COMPLETED", "CANCELLED"}}]

-----------------------------------------------------------------------------
(* Payments *)

PaymentRow == [archived : BOOLEAN, recorder : Users, company : Companies, project : OrNone(Projects),
               quotation : OrNone(DOMAIN db.quotes), amount : Amounts, currency : Currencies]

\* validateAssociations
AssociationsValid(company, currency, project, quotation) ==
    /\ company \in Live(db.companies)
    /\ project # None =>
          /\ project \in Live(db.projects)
          /\ db.projects[project].company = company
          /\ db.projects[project].currency = currency
    /\ quotation # None =>
          /\ quotation \in Live(db.quotes)
          /\ db.quotes[quotation].company = company
          /\ db.quotes[quotation].currency = currency
          /\ project # None => db.quotes[quotation].project \in {None, project}

\* The project's manager is told, as the project is at the commit.
CreatePayment(p) ==
    \/ /\ Called(p, "payment.create")
       /\ \E company \in Live(db.companies), project \in LiveOrNone(db.projects),
          quotation \in LiveOrNone(db.quotes), amount \in Amounts \ {0},
          currency \in Currencies, caller \in ActiveUsers :
          /\ AssociationsValid(company, currency, project, quotation)
          /\ Begin(p, "payment.create",
                [archived |-> FALSE, recorder |-> caller, company |-> company, project |-> project,
                 quotation |-> quotation, amount |-> amount, currency |-> currency])
    \/ /\ At(p, "payment.create") /\ HasRoom(Payments, db.payments)
       /\ LET m == Fresh(Payments, db.payments)
              row == Arg(p)
              manager == IF row.project = None THEN None ELSE db.projects[row.project].manager
          IN  Commit(p,
                 NotifyAssignee([db EXCEPT !.payments = Insert(@, m, row)],
                    row.recorder, manager, "PAYMENT_RECORDED", m, None),
                 << <<"payment.created", m>> >>)

PaymentChanges ==
    Changes([company |-> Live(db.companies), project |-> LiveOrNone(db.projects),
             quotation |-> LiveOrNone(db.quotes), amount |-> Amounts \ {0},
             currency |-> Currencies])

UpdatePayment(p) ==
    \/ /\ Called(p, "payment.update")
       /\ \E m \in Live(db.payments),
          change \in PaymentChanges :
          LET new(field) == Given(change, field, db.payments[m][field])
          IN  /\ AssociationsValid(new("company"), new("currency"), new("project"), new("quotation"))
              /\ Begin(p, "payment.update", [payment |-> m, change |-> change])
    \/ /\ At(p, "payment.update")
       /\ Commit(p, [db EXCEPT !.payments = Patch(@, Arg(p).payment, Arg(p).change)], <<>>)

ArchivePayment(p) ==
    \/ /\ Called(p, "payment.archive")
       /\ \E m \in Live(db.payments) : Begin(p, "payment.archive", m)
    \/ /\ At(p, "payment.archive")
       /\ Commit(p, [db EXCEPT !.payments[Arg(p)].archived = TRUE], <<>>)

PaymentChoices ==
    [companies |-> Live(db.companies), projects |-> Live(db.projects), quotations |-> Live(db.quotes)]

-----------------------------------------------------------------------------
(* Notifications *)

\* generateScheduled: who is to be told of what, as it is read at once; the
\* due conversations of the shared inbox are left out.
DueNotices ==
    LET open == {t \in Live(db.tasks) : /\ db.tasks[t].assignee # None /\ db.tasks[t].due # None
                                        /\ db.tasks[t].status # "COMPLETED"}
        kept(S) == {x \in S : x[1] # None}
    IN  kept({<<db.tasks[t].assignee, "TASK_OVERDUE", t, None>> :
                 t \in {u \in open : db.tasks[u].due < db.today}}
        \cup {<<db.tasks[t].assignee, "TASK_DUE_SOON", t, db.tasks[t].due>> :
                 t \in {u \in open : db.tasks[u].due = db.today + 1}}
        \cup {<<db.followUps[f].assignee, "FOLLOW_UP_DUE", f, None>> :
                 f \in {g \in DOMAIN db.followUps :
                           db.followUps[g].status = "PENDING" /\ db.followUps[g].due <= db.today + 1}}
        \cup {<<db.projects[j].manager, "PROJECT_DEADLINE_SOON", j, db.projects[j].deadline>> :
                 j \in {i \in Live(db.projects) :
                           /\ db.projects[i].deadline \in {db.today, db.today + 1}
                           /\ db.projects[i].status \in {"PLANNED", "IN_PROGRESS", "IN_REVIEW"}}}
        \cup {<<db.activities[a].owner, "ACTIVITY_REMINDER", a, db.activities[a].reminder>> :
                 a \in {b \in DOMAIN db.activities :
                           /\ db.activities[b].status = "PLANNED" /\ db.activities[b].reminder # None
                           /\ db.activities[b].reminder <= db.today}}
        \cup {<<db.cases[k].assignee,
                IF db.cases[k].due <= db.today THEN "CASE_OVERDUE" ELSE "CASE_DUE",
                k, db.cases[k].due>> :
                 k \in {c \in Live(db.cases) :
                           /\ db.cases[c].due # None /\ db.cases[c].due <= db.today + 1
                           /\ db.cases[c].status \notin Terminal}})

\* The rows are written one by one, in any order; an overdue task is
\* announced as well.  One that is there already stays as it is.
GenerateScheduled(p) ==
    \/ /\ Called(p, "notify")
       /\ DueNotices # {} /\ Begin(p, "notify", DueNotices)
    \/ /\ At(p, "notify")
       /\ \E n \in Arg(p) :
             /\ db' = Notify(db, n[1], n[2], n[3], n[4])
             /\ announced' = announced \cup
                   (IF n[2] = "TASK_OVERDUE" THEN {<<"task.overdue", n[3]>>} ELSE {})
             /\ request' = [request EXCEPT
                   ![p] = IF Arg(p) = {n} THEN Idle ELSE [@ EXCEPT !.arg = @ \ {n}]]
             /\ UNCHANGED env

\* The latest of a user's notices, and how many of them are new.
NoticeList(user, unread) ==
    {n \in DOMAIN db.notices : n[1] = user /\ (unread => ~db.notices[n])}

MarkRead(p) ==
    \/ /\ Called(p, "notice.read")
       /\ \E u \in ActiveUsers : \E n \in NoticeList(u, FALSE) : Begin(p, "notice.read", n)
    \/ /\ At(p, "notice.read")
       /\ Commit(p, [db EXCEPT !.notices[Arg(p)] = TRUE], <<>>)

MarkAllRead(p) ==
    \/ /\ Called(p, "notice.readall")
       /\ \E u \in ActiveUsers : Begin(p, "notice.readall", u)
    \/ /\ At(p, "notice.readall")
       /\ Commit(p, [db EXCEPT !.notices = [n \in DOMAIN @ |-> @[n] \/ n[1] = Arg(p)]], <<>>)

-----------------------------------------------------------------------------
ServiceStep(p) ==
    \/ CreateCase(p) \/ UpdateCase(p) \/ ArchiveCase(p) \/ CommentCase(p)
    \/ CreateActivity(p) \/ UpdateActivity(p) \/ FinishActivity(p) \/ RemoveActivity(p)
    \/ CreatePayment(p) \/ UpdatePayment(p) \/ ArchivePayment(p)
    \/ GenerateScheduled(p) \/ MarkRead(p) \/ MarkAllRead(p)

ServiceRowsOK ==
    /\ \A k \in DOMAIN db.cases : db.cases[k] \in CaseRow /\ db.cases[k].number < db.caseNumber
    /\ \A k, l \in DOMAIN db.cases : db.cases[k].number = db.cases[l].number => k = l
    /\ \A a \in DOMAIN db.activities :
          /\ db.activities[a] \in ActivityRow
          /\ DatesInOrder(db.activities[a].start, db.activities[a].end, db.activities[a].reminder)
    /\ \A m \in DOMAIN db.payments : db.payments[m] \in PaymentRow
=============================================================================
