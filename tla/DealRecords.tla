----------------------------- MODULE DealRecords -----------------------------
(***************************************************************************)
(* Deals: apps/api/src/deals/deals.service.ts.                             *)
(*                                                                         *)
(* db.deals is the table, with the catalog items of a deal's lines.  Deals *)
(* also come from leads (LeadRecords.ConvertLead) and from imports.        *)
(***************************************************************************)
EXTENDS Directory

CONSTANTS Amounts, ProjectStatuses

DealRow == [archived : BOOLEAN, company : Companies, contact : OrNone(Contacts),
            owner : OrNone(Users), pipeline : Pipelines, stage : Stages,
            source : OrNone(Leads), reason : BOOLEAN, won : OrNone(Nat), lost : OrNone(Nat),
            amount : OrNone(Amounts), currency : Currencies, close : OrNone(Nat),
            items : SUBSET Items]

DealOutcome(d) == db.stages[db.deals[d].stage].outcome

CreateDeal(p) ==
    \/ /\ Called(p, "deal.create")
       /\ \E company \in Live(db.companies), contact \in LiveOrNone(db.contacts),
          owner \in OrNone(ActiveUsers), start \in StartingPoints("DEAL"),
          amount \in OrNone(Amounts), close \in OrNone(Dates), labels \in Labels("DEAL") :
          /\ RelationsValid(company, contact, owner)
          /\ Begin(p, "deal.create",
                [row |-> [amount |-> amount, close |-> close]
                         @@ NewDeal(company, contact, owner, start, None),
                 labels |-> labels])
    \/ /\ At(p, "deal.create") /\ HasRoom(Deals, db.deals)
       /\ LET d == Fresh(Deals, db.deals)
          IN  CommitIf(p,
                 Arg(p).row.stage \in DOMAIN db.stages /\ LabelsValid("DEAL", d, Arg(p).labels),
                 WithLabels([db EXCEPT !.deals = Insert(@, d, Arg(p).row)], d, Arg(p).labels),
                 << <<"deal.created", d>> >>)

\* The items are compared with the deal's currency before they replace the
\* old ones; UpdateDeal does not look at them when it changes the currency.
UpdateDealItems(p) ==
    \/ /\ Called(p, "deal.items")
       /\ \E d \in Live(db.deals) :
          \E items \in SUBSET {i \in CatalogList(TRUE) : db.items[i].currency = db.deals[d].currency} :
             Begin(p, "deal.items", [deal |-> d, items |-> items])
    \/ /\ At(p, "deal.items")
       /\ Commit(p, [db EXCEPT !.deals[Arg(p).deal].items = Arg(p).items], <<>>)

DealChanges ==
    Changes([company |-> Live(db.companies), contact |-> LiveOrNone(db.contacts),
             owner |-> OrNone(ActiveUsers), amount |-> Amounts, currency |-> Currencies,
             close |-> Dates])

UpdateDeal(p) ==
    \/ /\ Called(p, "deal.update")
       /\ \E d \in Live(db.deals), labels \in Labels("DEAL"),
          change \in DealChanges :
          /\ RelationsValid(Given(change, "company", db.deals[d].company),
                            Given(change, "contact", db.deals[d].contact),
                            Given(change, "owner", db.deals[d].owner))
          /\ Begin(p, "deal.update", [deal |-> d, change |-> change, labels |-> labels])
    \/ /\ At(p, "deal.update")
       /\ LET d == Arg(p).deal
          IN  CommitIf(p, LabelsValid("DEAL", d, Arg(p).labels),
                 WithLabels([db EXCEPT !.deals = Patch(@, d, Arg(p).change)], d, Arg(p).labels), <<>>)

ArchiveDeal(p) ==
    \/ /\ Called(p, "deal.archive")
       /\ \E d \in Live(db.deals) : Begin(p, "deal.archive", d)
    \/ /\ At(p, "deal.archive")
       /\ Commit(p, [db EXCEPT !.deals[Arg(p)].archived = TRUE], <<>>)

\* The target stage as it was read decides the days, the reason and the events.
ChangeDealStage(p) ==
    \/ /\ Called(p, "deal.stage")
       /\ \E d \in Live(db.deals), s \in DOMAIN db.stages :
          /\ db.stages[s].pipeline \in LivePipelines("DEAL")
          /\ s # db.deals[d].stage
          /\ Begin(p, "deal.stage",
                [deal |-> d, stage |-> s, pipeline |-> db.stages[s].pipeline,
                 outcome |-> db.stages[s].outcome])
    \/ /\ At(p, "deal.stage")
       /\ LET arg == Arg(p)
              change == [pipeline |-> arg.pipeline, stage |-> arg.stage,
                         reason |-> arg.outcome = "lost",
                         won |-> IF arg.outcome = "won" THEN db.today ELSE None,
                         lost |-> IF arg.outcome = "lost" THEN db.today ELSE None]
              closing == [won |-> << <<"deal.won", arg.deal>> >>,
                          lost |-> << <<"deal.lost", arg.deal>> >>, open |-> <<>>]
          IN  CommitIf(p, arg.stage \in DOMAIN db.stages,
                 [db EXCEPT !.deals = Patch(@, arg.deal, change)],
                 << <<"deal.stage_changed", arg.deal>> >> \o closing[arg.outcome])

ChangeDealOwner(p) ==
    \/ /\ Called(p, "deal.owner")
       /\ \E d \in Live(db.deals), owner \in OrNone(ActiveUsers) :
          /\ owner # db.deals[d].owner
          /\ RelationsValid(db.deals[d].company, db.deals[d].contact, owner)
          /\ Begin(p, "deal.owner", [deal |-> d, owner |-> owner])
    \/ /\ At(p, "deal.owner")
       /\ Commit(p, [db EXCEPT !.deals[Arg(p).deal].owner = Arg(p).owner],
             << <<"deal.owner_changed", Arg(p).deal>> >>)

-----------------------------------------------------------------------------
(* Projects of won deals *)

\* Index projects.source_lead_id and projects.source_deal_id.
SourcesUnique(projects) ==
    \A j, k \in DOMAIN projects : j # k =>
        /\ projects[j].deal # projects[k].deal \/ projects[j].deal = None
        /\ projects[j].lead # projects[k].lead \/ projects[j].lead = None

\* The manager becomes a member, in a role that the two services spell
\* differently.
WithNewProject(tables, row, role) ==
    LET j == Fresh(Projects, tables.projects)
    IN  [tables EXCEPT
            !.projects = Insert(@, j, row),
            !.members = IF row.manager = None THEN @ ELSE Insert(@, <<j, row.manager>>, role)]

\* A manager who is named must be active; the deal's owner, who takes the
\* place of one who is not, need not be.
CreateDealProject(p) ==
    \/ /\ Called(p, "deal.project")
       /\ \E d \in Live(db.deals), named \in OrNone(ActiveUsers), status \in ProjectStatuses :
          /\ DealOutcome(d) = "won"
          /\ \A j \in DOMAIN db.projects : db.projects[j].deal # d
          /\ named # None => RelationsValid(db.deals[d].company, db.deals[d].contact, named)
          /\ Begin(p, "deal.project",
                [archived |-> FALSE, company |-> db.deals[d].company,
                 manager |-> IF named # None THEN named ELSE db.deals[d].owner,
                 deal |-> d, lead |-> None, status |-> status, deadline |-> None,
                 value |-> db.deals[d].amount, currency |-> db.deals[d].currency])
    \/ /\ At(p, "deal.project") /\ HasRoom(Projects, db.projects)
       /\ LET tables == WithNewProject(db, Arg(p), "Project manager")
          IN  CommitIf(p, SourcesUnique(tables.projects), tables,
                 << <<"project.created", Fresh(Projects, db.projects)>> >>)

-----------------------------------------------------------------------------
DealList(view, user, from, to) ==
    {d \in Live(db.deals) :
        /\ view = "mine" => db.deals[d].owner = user
        /\ view \in Outcomes => DealOutcome(d) = view
        /\ from # None => db.deals[d].close # None /\ db.deals[d].close >= from
        /\ to # None => db.deals[d].close # None /\ db.deals[d].close <= to}

DealDetail(d) == [project |-> {j \in DOMAIN db.projects : db.projects[j].deal = d},
                  items |-> db.deals[d].items]

DealsStep(p) ==
    \/ CreateDeal(p) \/ UpdateDealItems(p) \/ UpdateDeal(p) \/ ArchiveDeal(p)
    \/ ChangeDealStage(p) \/ ChangeDealOwner(p) \/ CreateDealProject(p)

\* The source of a deal is a lead no other deal has.
DealRowsOK ==
    /\ DOMAIN db.deals \subseteq Deals
    /\ \A d \in DOMAIN db.deals : db.deals[d] \in DealRow
    /\ \A d, e \in DOMAIN db.deals :
          db.deals[d].source = db.deals[e].source /\ db.deals[d].source # None => d = e

(* Properties *)

\* The stage of every lead and every deal is one of its own pipeline, however
\* changes of stage, conversions and replaced stages interleave.
StagesFit ==
    /\ \A l \in DOMAIN db.leads : db.leads[l].stage \in StagesOf(db.leads[l].pipeline)
    /\ \A d \in DOMAIN db.deals : db.deals[d].stage \in StagesOf(db.deals[d].pipeline)
=============================================================================
