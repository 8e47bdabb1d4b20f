----------------------------- MODULE SharedInbox -----------------------------
(***************************************************************************)
(* Working on conversations together: apps/api/src/mailboxes/              *)
(* shared-inbox.service.ts.  The events of a conversation are announced,   *)
(* as <<event, conversation>>.                                             *)
(***************************************************************************)
EXTENDS Mailboxes

Terminal(status) == status \in {"RESOLVED", "CLOSED"}
ActiveAccounts(org) == {a \in AccountsOf(org) : db.accounts[a].status = "ACTIVE"}
Told(colleague, s, t) ==
    IF colleague \notin {None, CallerAccount(s)} THEN <<<<"notification", t>>>> ELSE <<>>

-----------------------------------------------------------------------------

\* Assigning opens it again; the assignee is told.
Assignment(t, assignee) ==
    [db EXCEPT !.threads = Patch(@, t,
        [assignee |-> assignee, resolved |-> FALSE,
         status |-> IF assignee = None THEN "UNASSIGNED" ELSE "OPEN"])]

Assign(p) ==
    \/ /\ Called(p, "inbox.assign")
       /\ \E st \in RequireThread(<<"Mail", "assign">>) :
          \E assignee \in OrNone(ActiveAccounts(CallerOrg(st[1]))) :
          LET old == db.threads[st[2]].assignee
              event == IF assignee = None THEN "UNASSIGNED"
                       ELSE IF old = None THEN "ASSIGNED" ELSE "REASSIGNED"
          IN  /\ old # assignee
              /\ Begin(p, "inbox.assign",
                    [thread |-> st[2], assignee |-> assignee,
                     events |-> <<<<event, st[2]>>>> \o Told(assignee, st[1], st[2])])
    \/ /\ At(p, "inbox.assign")
       /\ Commit(p, Assignment(Arg(p).thread, Arg(p).assignee), Arg(p).events)

\* Faulty variant of StatusWritten: the day it was resolved is kept.
StatusWrittenOnly(t, status, due) ==
    [db EXCEPT !.threads = Patch(@, t,
        [status |-> status, due |-> due, resolved |-> Terminal(status) \/ @[t].resolved,
         assignee |-> IF status = "UNASSIGNED" THEN None ELSE @[t].assignee])]

StatusWritten(t, status, due) ==
    [db EXCEPT !.threads = Patch(@, t,
        [status |-> status, due |-> due, resolved |-> Terminal(status),
         assignee |-> IF status = "UNASSIGNED" THEN None ELSE @[t].assignee])]

\* Of the status and the day it is due, what is left out is written as read.
UpdateStatus(p) ==
    \/ /\ Called(p, "inbox.status")
       /\ \E st \in RequireThread(<<"Mail", "updateStatus">>),
             change \in Changes([status |-> {"UNASSIGNED", "OPEN", "WAITING", "RESOLVED", "CLOSED"},
                                 due |-> BOOLEAN]) :
          LET old == db.threads[st[2]]
              status == Given(change, "status", old.status)
              due == Given(change, "due", old.due)
              moved == IF Terminal(status) THEN "RESOLVED"
                       ELSE IF Terminal(old.status) THEN "REOPENED" ELSE "STATUS_CHANGED"
          IN  /\ change # <<>>
              /\ Begin(p, "inbox.status",
                    [thread |-> st[2], status |-> status, due |-> due,
                     events |-> (IF status # old.status THEN <<<<moved, st[2]>>>> ELSE <<>>)
                                \o (IF due # old.due THEN <<<<"DUE_AT_CHANGED", st[2]>>>> ELSE <<>>)])
    \/ /\ At(p, "inbox.status")
       /\ Commit(p, StatusWritten(Arg(p).thread, Arg(p).status, Arg(p).due), Arg(p).events)

UpdatePriority(p) ==
    \/ /\ Called(p, "inbox.priority")
       /\ \E st \in RequireThread(<<"Mail", "updatePriority">>), priority \in {"NORMAL", "URGENT"} :
          LET old == db.threads[st[2]]
          IN  /\ old.priority # priority
              /\ Begin(p, "inbox.priority",
                    [thread |-> st[2], priority |-> priority,
                     events |-> <<<<"PRIORITY_CHANGED", st[2]>>>>
                                \o (IF priority = "URGENT" THEN Told(old.assignee, st[1], st[2])
                                    ELSE <<>>)])
    \/ /\ At(p, "inbox.priority")
       /\ Commit(p, [db EXCEPT !.threads = Patch(@, Arg(p).thread, [priority |-> Arg(p).priority])],
             Arg(p).events)

\* Whoever may read marks it as read, or not, for everybody.
SetRead(p) ==
    \/ /\ Called(p, "inbox.read")
       /\ \E st \in RequireThread(<<"Mail", "setRead">>), unread \in BOOLEAN :
             Begin(p, "inbox.read", [thread |-> st[2], unread |-> unread])
    \/ /\ At(p, "inbox.read")
       /\ Commit(p, [db EXCEPT !.threads = Patch(@, Arg(p).thread, [unread |-> Arg(p).unread])], <<>>)

AddNote(p) ==
    \/ /\ Called(p, "inbox.note")
       /\ \E st \in RequireThread(<<"Mail", "addNote">>) : Begin(p, "inbox.note", st[2])
    \/ At(p, "inbox.note") /\ Commit(p, db, <<<<"NOTE_ADDED", Arg(p)>>>>)

-----------------------------------------------------------------------------
(* Records made from a conversation *)

NewEntity(org, kind, about) ==
    [org |-> org, kind |-> kind, archived |-> FALSE, within |-> None, email |-> about]

\* LeadsService.create commits the lead; then the conversation is linked to
\* it, to whatever it was linked before.
CreateLead(p) ==
    \/ /\ Called(p, "inbox.lead")
       /\ \E st \in RequireThread(<<"Mail", "createLead">>) :
          InboundOf(st[2]) # {} /\ \E email \in Emails :
             Begin(p, "inbox.lead", [thread |-> st[2], org |-> CallerOrg(st[1]), email |-> email])
    \/ /\ At(p, "inbox.lead") /\ HasRoom(Unused(Entities), db.entities)
       /\ LET x == Fresh(Unused(Entities), db.entities)
          IN  Proceed(p, [db EXCEPT !.entities = Insert(@, x, NewEntity(Arg(p).org, "lead", Arg(p).email))],
                 "inbox.link", [thread |-> Arg(p).thread, entity |-> x], 0)
    \/ /\ At(p, "inbox.link")
       /\ Commit(p, Linked(db, Arg(p).thread, Arg(p).entity), <<<<"CRM_LINKED", Arg(p).thread>>>>)

\* createTask and createCase: the event is a step of its own.
CreateWork(p) ==
    \/ /\ Called(p, "inbox.work")
       /\ \E kind \in {"task", "case"} :
          \E st \in RequireThread(<<"Mail", IF kind = "task" THEN "createTask" ELSE "createCase">>) :
          /\ InboundOf(st[2]) # {}
          /\ Begin(p, "inbox.work", [thread |-> st[2], org |-> CallerOrg(st[1]), kind |-> kind])
    \/ /\ At(p, "inbox.work") /\ HasRoom(Unused(Entities), db.entities)
       /\ Commit(p,
             [db EXCEPT !.entities = Insert(@, Fresh(Unused(Entities), @),
                 NewEntity(Arg(p).org, Arg(p).kind, None))],
             <<<<"CRM_LINKED", Arg(p).thread>>>>)

-----------------------------------------------------------------------------
(* What callers see *)

\* listMessages of MailboxesService.
MessageView(s, view) ==
    {x \in OfOrg(db.messages, CallerOrg(s)) :
        LET row == db.messages[x]
        IN  /\ row.direction = (IF view = "SENT" THEN "OUTBOUND" ELSE "INBOUND")
            /\ view = "UNMATCHED" => row.related = None}

\* The conversations of a view.
View(s, view) ==
    LET all == OfOrg(db.threads, CallerOrg(s))
        with(statuses) == {t \in all : db.threads[t].status \in statuses}
        mine == {t \in all : db.threads[t].assignee = CallerAccount(s)}
    IN  CASE view = "UNASSIGNED" -> {t \in with({"UNASSIGNED"}) : db.threads[t].assignee = None}
          [] view = "MINE" -> mine \ with({"RESOLVED", "CLOSED"})
          [] view \in {"OPEN", "WAITING", "RESOLVED"} -> with({view})
          [] view = "UNMATCHED" -> {t \in all : db.threads[t].related = None}
          [] view = "SENT" -> {t \in all : MessagesIn(t) \cap MessageView(s, "SENT") # {}}
          [] OTHER -> with({"UNASSIGNED", "OPEN", "WAITING"})

-----------------------------------------------------------------------------

InboxStep(p) ==
    \/ Assign(p) \/ UpdateStatus(p) \/ UpdatePriority(p) \/ SetRead(p) \/ AddNote(p)
    \/ CreateLead(p) \/ CreateWork(p)

\* However colleagues overlap: a conversation nobody has begun is nobody's and
\* in nobody's list, one that is done is in nobody's list and has the day it
\* was resolved, and no other has one (shared-inbox.service.ts:156-262).
InboxIsConsistent ==
    /\ \A t \in DOMAIN db.threads : Terminal(db.threads[t].status) <=> db.threads[t].resolved
    /\ \A s \in Callers(<<"Mail", "conversations">>) :
          /\ View(s, "UNASSIGNED") \cup View(s, "MINE") \subseteq View(s, "ALL")
          /\ View(s, "UNASSIGNED") = {t \in View(s, "ALL") : db.threads[t].status = "UNASSIGNED"}
          /\ View(s, "MINE") \cap View(s, "UNASSIGNED") = {}
=============================================================================
