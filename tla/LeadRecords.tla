----------------------------- MODULE LeadRecords -----------------------------
(***************************************************************************)
(* Leads, their follow-ups and their conversion:                           *)
(* apps/api/src/leads/leads.service.ts.                                    *)
(*                                                                         *)
(* db.leads and db.followUps are the tables.  Of a lead's texts only the   *)
(* address is kept, which conversion looks contacts up by; `next` is       *)
(* nextFollowUpAt, `last` the day of lastActivityAt and `lost` whether a   *)
(* lost reason is stored; `form` is the web form submission it came from.  *)
(***************************************************************************)
EXTENDS SalesPipelines

CONSTANTS CompanyNames, Emails, DefaultCurrency

LeadRow == [archived : BOOLEAN, converted : BOOLEAN, company : OrNone(Companies),
            contact : OrNone(Contacts), owner : OrNone(Users), pipeline : Pipelines,
            stage : Stages, lost : BOOLEAN, next : OrNone(Nat), last : Nat,
            email : OrNone(Emails), form : OrNone(Submissions)]
FollowUpRow == [lead : Leads, due : Nat, assignee : OrNone(Users),
                status : {"PENDING", "COMPLETED", "CANCELLED"}]

\* requireLead, and what most operations ask on top of it.
OpenLeads == {l \in Live(db.leads) : ~db.leads[l].converted}
Dates == 0..(db.today + 1)

Touch(tables, l) == [tables EXCEPT !.leads[l].last = db.today]
PendingOf(tables, l) ==
    {f \in DOMAIN tables.followUps :
        tables.followUps[f].lead = l /\ tables.followUps[f].status = "PENDING"}
EarliestDue(tables, l, otherwise) ==
    LET dues == {tables.followUps[f].due : f \in PendingOf(tables, l)}
    IN  IF dues = {} THEN otherwise ELSE CHOOSE d \in dues : \A e \in dues : d <= e

\* A new lead as any service writes it, with its follow-up when it has one.
WithNewLead(tables, row) ==
    LET l == Fresh(Leads, tables.leads)
        f == Fresh(FollowUps, tables.followUps)
    IN  [tables EXCEPT
            !.leads = Insert(@, l, row),
            !.followUps = IF row.next = None THEN @
                          ELSE Insert(@, f, [lead |-> l, due |-> row.next,
                                             assignee |-> row.owner, status |-> "PENDING"])]

NewLead(company, contact, owner, start, next, email) ==
    [archived |-> FALSE, converted |-> FALSE, company |-> company, contact |-> contact,
     owner |-> owner, pipeline |-> start[1], stage |-> start[2], lost |-> FALSE,
     next |-> next, last |-> db.today, email |-> email, form |-> None]

\* The stage must still be there for the foreign key; tags and fields are
\* checked inside the transaction.  An unowned lead's follow-up is assigned
\* to the caller: the assignee None stands for that.
CreateLead(p) ==
    \/ /\ Called(p, "lead.create")
       /\ \E company \in LiveOrNone(db.companies), contact \in LiveOrNone(db.contacts),
          owner \in OrNone(ActiveUsers), start \in StartingPoints("LEAD"),
          next \in OrNone(Dates), email \in OrNone(Emails),
          tags \in TagInputs, values \in ValueInputs("LEAD") :
          /\ RelationsValid(company, contact, owner)
          /\ Begin(p, "lead.create",
                [row |-> NewLead(company, contact, owner, start, next, email),
                 tags |-> tags, values |-> values])
    \/ /\ At(p, "lead.create")
       /\ HasRoom(Leads, db.leads) /\ HasRoom(FollowUps, db.followUps)
       /\ LET l == Fresh(Leads, db.leads)
              arg == Arg(p)
          IN  CommitIf(p,
                 /\ arg.row.stage \in DOMAIN db.stages
                 /\ TagsValid(arg.tags) /\ ValuesValid("LEAD", l, arg.values),
                 SyncTags(SaveValues(WithNewLead(db, arg.row), l, arg.values), l, arg.tags),
                 << <<"lead.created", l>> >>)

LeadChanges ==
    Changes([company |-> LiveOrNone(db.companies), contact |-> LiveOrNone(db.contacts),
             email |-> Emails])

UpdateLead(p) ==
    \/ /\ Called(p, "lead.update")
       /\ \E l \in OpenLeads, tags \in TagInputs, values \in ValueInputs("LEAD"),
          change \in LeadChanges :
          /\ RelationsValid(Given(change, "company", db.leads[l].company),
                            Given(change, "contact", db.leads[l].contact), None)
          /\ Begin(p, "lead.update",
                [lead |-> l, change |-> change, tags |-> tags, values |-> values,
                 moved |-> Given(change, "company", db.leads[l].company) # db.leads[l].company])
    \/ /\ At(p, "lead.update")
       /\ LET arg == Arg(p)
              l == arg.lead
              written == [db EXCEPT !.leads = Patch(@, l, arg.change)]
              touched == IF arg.moved THEN Touch(written, l) ELSE written
          IN  CommitIf(p, TagsValid(arg.tags) /\ ValuesValid("LEAD", l, arg.values),
                 SyncTags(SaveValues(touched, l, arg.values), l, arg.tags),
                 << <<"lead.updated", l>> >>)

\* The pending follow-ups are cancelled with the lead; `next` stays.
ArchiveLead(p) ==
    \/ /\ Called(p, "lead.archive")
       /\ \E l \in Live(db.leads) : Begin(p, "lead.archive", l)
    \/ /\ At(p, "lead.archive")
       /\ Commit(p,
             [db EXCEPT !.leads[Arg(p)].archived = TRUE,
                        !.followUps = [f \in DOMAIN @ |->
                            IF f \in PendingOf(db, Arg(p))
                            THEN [@[f] EXCEPT !.status = "CANCELLED"] ELSE @[f]]],
             <<>>)

\* Faulty variant of MovedLead: a stage of another pipeline leaves the lead's.
MovedStageOnly(arg) == [stage |-> arg.stage, lost |-> arg.lost]

\* Pipeline and stage are written together.
MovedLead(arg) == [pipeline |-> arg.pipeline, stage |-> arg.stage, lost |-> arg.lost]

\* Another stage, of the lead's pipeline or of another live one; a lost one
\* needs a reason.
ChangeLeadStage(p) ==
    \/ /\ Called(p, "lead.stage")
       /\ \E l \in OpenLeads, s \in DOMAIN db.stages :
          /\ db.stages[s].pipeline \in LivePipelines("LEAD")
          /\ s # db.leads[l].stage
          /\ Begin(p, "lead.stage",
                [lead |-> l, stage |-> s, pipeline |-> db.stages[s].pipeline,
                 lost |-> db.stages[s].outcome = "lost"])
    \/ /\ At(p, "lead.stage")
       /\ LET arg == Arg(p)
              written == [db EXCEPT !.leads = Patch(@, arg.lead, MovedLead(arg))]
          IN  CommitIf(p, arg.stage \in DOMAIN db.stages, Touch(written, arg.lead),
                 << <<"lead.stage_changed", arg.lead>> >>)

ChangeLeadOwner(p) ==
    \/ /\ Called(p, "lead.owner")
       /\ \E l \in OpenLeads, owner \in OrNone(ActiveUsers) :
          /\ owner # db.leads[l].owner
          /\ Begin(p, "lead.owner", [lead |-> l, owner |-> owner])
    \/ /\ At(p, "lead.owner")
       /\ Commit(p, Touch([db EXCEPT !.leads[Arg(p).lead].owner = Arg(p).owner], Arg(p).lead),
             << <<"lead.owner_changed", Arg(p).lead>> >>)

\* The later of the day of the activity and the last day, as it was read.
AddLeadActivity(p) ==
    \/ /\ Called(p, "lead.activity")
       /\ \E l \in Live(db.leads), day \in Dates :
          Begin(p, "lead.activity",
                [lead |-> l, last |-> IF day > db.leads[l].last THEN day ELSE db.leads[l].last])
    \/ /\ At(p, "lead.activity")
       /\ Commit(p, [db EXCEPT !.leads[Arg(p).lead].last = Arg(p).last], <<>>)

-----------------------------------------------------------------------------
(* Follow-ups *)

\* After a follow-up was written: the earliest pending one is the lead's next.
WithNextFollowUp(tables, l, otherwise) ==
    Touch([tables EXCEPT !.leads[l].next = EarliestDue(tables, l, otherwise)], l)

CreateFollowUp(p) ==
    \/ /\ Called(p, "followup.create")
       /\ \E l \in Live(db.leads), due \in Dates, user \in OrNone(ActiveUsers) :
          Begin(p, "followup.create",
                [lead |-> l, due |-> due, assignee |-> user, status |-> "PENDING"])
    \/ /\ At(p, "followup.create") /\ HasRoom(FollowUps, db.followUps)
       /\ Commit(p,
             WithNextFollowUp(
                [db EXCEPT !.followUps = Insert(@, Fresh(FollowUps, @), Arg(p))],
                Arg(p).lead, Arg(p).due),
             <<>>)

\* Pending when it was read; the transaction names it by its id only.
RescheduleFollowUp(p) ==
    \/ /\ Called(p, "followup.reschedule")
       /\ \E f \in DOMAIN db.followUps, due \in Dates,
          change \in Changes([assignee |-> OrNone(ActiveUsers)]) :
          /\ db.followUps[f].status = "PENDING"
          /\ Begin(p, "followup.reschedule",
                [followUp |-> f, due |-> due, change |-> change])
    \/ /\ At(p, "followup.reschedule")
       /\ LET arg == Arg(p)
          IN  Commit(p,
                 WithNextFollowUp(
                    [db EXCEPT !.followUps = Patch(@, arg.followUp, [due |-> arg.due] @@ arg.change)],
                    db.followUps[arg.followUp].lead, arg.due),
                 <<>>)

\* Faulty variant of FinishFollowUp: the lead's next follow-up is not set.
FinishFollowUpOnly(p) ==
    \/ /\ Called(p, "followup.finish")
       /\ \E f \in DOMAIN db.followUps, status \in {"COMPLETED", "CANCELLED"} :
          /\ db.followUps[f].status = "PENDING"
          /\ Begin(p, "followup.finish", [followUp |-> f, status |-> status])
    \/ /\ At(p, "followup.finish")
       /\ Commit(p, [db EXCEPT !.followUps[Arg(p).followUp].status = Arg(p).status], <<>>)

FinishFollowUp(p) ==
    \/ /\ Called(p, "followup.finish")
       /\ \E f \in DOMAIN db.followUps, status \in {"COMPLETED", "CANCELLED"} :
          /\ db.followUps[f].status = "PENDING"
          /\ Begin(p, "followup.finish", [followUp |-> f, status |-> status])
    \/ /\ At(p, "followup.finish")
       /\ LET f == Arg(p).followUp
          IN  Commit(p,
                 WithNextFollowUp([db EXCEPT !.followUps[f].status = Arg(p).status],
                    db.followUps[f].lead, None),
                 <<>>)

-----------------------------------------------------------------------------
(* Conversion *)

\* Index contacts_one_primary_per_company.
OnePrimary(contacts) ==
    \A k, m \in Live(contacts) :
        /\ contacts[k].primary /\ contacts[m].primary
        /\ contacts[k].company = contacts[m].company /\ contacts[k].company # None
        => k = m

\* What the request asks for: a company by id or by name, a contact by id or
\* by address, whether it is given a contact's name, and the starting point
\* of the deal to create, if any.
ConversionInputs ==
    [company : LiveOrNone(db.companies), contact : LiveOrNone(db.contacts),
     name : OrNone(CompanyNames), email : OrNone(Emails), named : BOOLEAN,
     start : OrNone(StartingPoints("DEAL"))]

\* A new deal: won and lost are the days wonAt and lostAt, which only a
\* change of stage sets, `reason` whether a lost reason is stored.
NewDeal(company, contact, owner, start, source) ==
    [archived |-> FALSE, company |-> company, contact |-> contact, owner |-> owner,
     pipeline |-> start[1], stage |-> start[2], source |-> source, reason |-> FALSE,
     won |-> None, lost |-> None, amount |-> None, currency |-> DefaultCurrency,
     close |-> None, items |-> {}]

CompaniesNamed(name) == {c \in Live(db.companies) : db.companies[c].name = name}
ContactsAt(email) == {k \in Live(db.contacts) : db.contacts[k].email = email}

\* One row with the name or address, whichever the database returns first.
OneOf(S) == IF S = {} THEN {None} ELSE S

ConvertLead(p) ==
    \/ /\ Called(p, "lead.convert")
       /\ \E l \in OpenLeads, input \in ConversionInputs :
          Begin(p, "lead.convert", [lead |-> l, input |-> input])

       \* Inside the transaction the lead, and what matches, is read again.
    \/ /\ At(p, "lead.convert")
       /\ LET arg == Arg(p)
              in == arg.input
              lead == db.leads[arg.lead]
              byId == IF in.company # None THEN in.company ELSE lead.company
              email == IF in.email # None THEN in.email ELSE lead.email
              byName == IF byId = None /\ in.name # None THEN OneOf(CompaniesNamed(in.name)) ELSE {byId}
          IN  \E company \in byName :
                LET creates == company = None /\ in.name # None
                    hasCompany == company # None \/ creates
                    knownContact == IF in.contact # None THEN in.contact ELSE lead.contact
                IN  \E match \in IF knownContact = None /\ email # None
                                 THEN OneOf(ContactsAt(email)) ELSE {None} :
                      IF \/ lead.archived \/ lead.converted
                         \/ in.start # None /\ ~hasCompany
                         \/ /\ hasCompany /\ match # None
                            /\ db.contacts[match].company \notin {None, company}
                      THEN Reject(p)
                      ELSE Continue(p, "lead.convert.write",
                              [lead |-> arg.lead, start |-> in.start, company |-> company,
                               name |-> IF creates THEN in.name ELSE None,
                               adopt |-> hasCompany /\ match # None
                                         /\ db.contacts[match].company = None,
                               contact |-> IF knownContact # None THEN knownContact ELSE match,
                               email |-> email, named |-> in.named, owner |-> lead.owner])

    \/ /\ At(p, "lead.convert.write")
       /\ HasRoom(Companies, db.companies) /\ HasRoom(Contacts, db.contacts)
       /\ HasRoom(Deals, db.deals)
       /\ LET arg == Arg(p)
              deal == Fresh(Deals, db.deals)
              company == IF arg.name # None THEN Fresh(Companies, db.companies) ELSE arg.company
              newContact == arg.contact = None /\ (arg.named \/ arg.email # None)
              contact == IF newContact THEN Fresh(Contacts, db.contacts) ELSE arg.contact
              companies == IF arg.name = None THEN db.companies
                           ELSE Insert(db.companies, company,
                                   [archived |-> FALSE, name |-> arg.name, owner |-> arg.owner])
              contacts == IF newContact
                          THEN Insert(db.contacts, contact,
                                  [archived |-> FALSE, company |-> company, email |-> arg.email,
                                   primary |-> FALSE])
                          ELSE IF arg.adopt
                          THEN Patch(db.contacts, contact, [company |-> company])
                          ELSE db.contacts
              leads == Patch(db.leads, arg.lead,
                          [company |-> company, contact |-> contact, converted |-> TRUE,
                           last |-> db.today])
              deals == IF arg.start = None THEN db.deals
                       ELSE Insert(db.deals, deal,
                               NewDeal(company, contact, arg.owner, arg.start, arg.lead))
          IN  CommitIf(p,
                 /\ OnePrimary(contacts)
                 /\ arg.start # None =>
                       /\ arg.start[2] \in DOMAIN db.stages
                       /\ \A d \in DOMAIN db.deals : db.deals[d].source # arg.lead,
                 [db EXCEPT !.companies = companies, !.contacts = contacts,
                            !.leads = leads, !.deals = deals],
                 IF arg.start = None THEN <<>> ELSE << <<"deal.created", deal>> >>)

-----------------------------------------------------------------------------
(* What the lists show *)

OutcomeOf(l) == db.stages[db.leads[l].stage].outcome
LeadList(view, user) ==
    {l \in Live(db.leads) :
        /\ view # "all" => (db.leads[l].converted <=> view = "converted")
        /\ view = "mine" => db.leads[l].owner = user
        /\ view = "won" => OutcomeOf(l) = "won"
        /\ view = "lost" => OutcomeOf(l) = "lost"
        /\ view = "followUpDue" =>
              \E f \in PendingOf(db, l) : db.followUps[f].due <= db.today}

\* listFollowUps
FollowUpList(scope) ==
    {f \in DOMAIN db.followUps :
        /\ db.followUps[f].status = "PENDING"
        /\ scope = "today" => db.followUps[f].due = db.today
        /\ scope = "overdue" => db.followUps[f].due < db.today
        /\ scope = "upcoming" => db.followUps[f].due > db.today}

-----------------------------------------------------------------------------
LeadsStep(p) ==
    \/ CreateLead(p) \/ UpdateLead(p) \/ ArchiveLead(p) \/ ChangeLeadStage(p)
    \/ ChangeLeadOwner(p) \/ AddLeadActivity(p) \/ CreateFollowUp(p)
    \/ RescheduleFollowUp(p) \/ FinishFollowUp(p) \/ ConvertLead(p)

LeadRowsOK ==
    /\ DOMAIN db.leads \subseteq Leads /\ DOMAIN db.followUps \subseteq FollowUps
    /\ \A l \in DOMAIN db.leads : db.leads[l] \in LeadRow
    /\ \A f \in DOMAIN db.followUps : db.followUps[f] \in FollowUpRow

(* Properties *)

\* The next follow-up that a lead shows is the earliest pending one, and it
\* shows none when none is pending.  Said of requests made one at a time: two
\* transactions that write follow-ups of one lead may each miss the other's.
\* The follow-ups that automations create are not counted by the code at all.
NextFollowUpIsEarliest ==
    Serial /\ "rule.run" \notin env.ops =>
        \A l \in Live(db.leads) : db.leads[l].next = EarliestDue(db, l, None)
=============================================================================
