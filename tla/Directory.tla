------------------------------ MODULE Directory ------------------------------
(***************************************************************************)
(* The records that others refer to, in apps/api/src: companies and        *)
(* contacts (companies/companies.service.ts, contacts/contacts.service.ts),*)
(* the catalog (catalog/catalog.service.ts) and the saved views of lists   *)
(* (saved-views/saved-views.service.ts).                                   *)
(***************************************************************************)
EXTENDS LeadRecords

CONSTANTS Currencies, Skus, CategoryNames, ViewNames

-----------------------------------------------------------------------------
(* Companies *)

\* A web form may map anything to the name of a company.
CompanyRow == [archived : BOOLEAN, name : CompanyNames \cup Emails \cup Texts,
               owner : OrNone(Users)]

\* An operation writes tags and custom fields in the transaction of the record.
Labels(kind) == [tags : TagInputs, values : ValueInputs(kind)]
LabelsValid(kind, id, labels) == TagsValid(labels.tags) /\ ValuesValid(kind, id, labels.values)
WithLabels(tables, id, labels) ==
    SyncTags(SaveValues(tables, id, labels.values), id, labels.tags)

CreateCompany(p) ==
    \/ /\ Called(p, "company.create")
       /\ \E name \in CompanyNames, owner \in OrNone(ActiveUsers), labels \in Labels("COMPANY") :
          Begin(p, "company.create",
                [row |-> [archived |-> FALSE, name |-> name, owner |-> owner], labels |-> labels])
    \/ /\ At(p, "company.create") /\ HasRoom(Companies, db.companies)
       /\ LET c == Fresh(Companies, db.companies)
          IN  CommitIf(p, LabelsValid("COMPANY", c, Arg(p).labels),
                 WithLabels([db EXCEPT !.companies = Insert(@, c, Arg(p).row)], c, Arg(p).labels),
                 << <<"company.created", c>> >>)

CompanyChanges ==
    Changes([name |-> CompanyNames, owner |-> OrNone(ActiveUsers)])

UpdateCompany(p) ==
    \/ /\ Called(p, "company.update")
       /\ \E c \in Live(db.companies), labels \in Labels("COMPANY"),
          change \in CompanyChanges :
          Begin(p, "company.update", [company |-> c, change |-> change, labels |-> labels])
    \/ /\ At(p, "company.update")
       /\ LET c == Arg(p).company
          IN  CommitIf(p, LabelsValid("COMPANY", c, Arg(p).labels),
                 WithLabels([db EXCEPT !.companies = Patch(@, c, Arg(p).change)], c, Arg(p).labels),
                 << <<"company.updated", c>> >>)

\* Nothing that refers to the company is looked at.
ArchiveCompany(p) ==
    \/ /\ Called(p, "company.archive")
       /\ \E c \in Live(db.companies) : Begin(p, "company.archive", c)
    \/ /\ At(p, "company.archive")
       /\ Commit(p, [db EXCEPT !.companies[Arg(p)].archived = TRUE], <<>>)

CompanyList(archived) == {c \in DOMAIN db.companies : db.companies[c].archived = archived}

\* What the company's page lists of it.
CompanyDetail(c) ==
    [openLeads |-> {l \in Live(db.leads) :
                       db.leads[l].company = c /\ OutcomeOf(l) = "open"},
     contacts |-> {k \in Live(db.contacts) : db.contacts[k].company = c},
     projects |-> {j \in Live(db.projects) : db.projects[j].company = c},
     payments |-> {m \in Live(db.payments) : db.payments[m].company = c}]

-----------------------------------------------------------------------------
(* Contacts *)

ContactRow == [archived : BOOLEAN, company : OrNone(Companies), email : OrNone(Emails),
               primary : BOOLEAN]

\* The other contacts of the company stop being its primary one.
ClearPrimary(contacts, company, except) ==
    [k \in DOMAIN contacts |->
        IF contacts[k].company = company /\ company # None /\ k # except
        THEN [contacts[k] EXCEPT !.primary = FALSE] ELSE contacts[k]]

CreateContact(p) ==
    \/ /\ Called(p, "contact.create")
       /\ \E company \in LiveOrNone(db.companies), email \in OrNone(Emails), primary \in BOOLEAN,
          labels \in Labels("CONTACT") :
          Begin(p, "contact.create",
                [row |-> [archived |-> FALSE, company |-> company, email |-> email,
                          primary |-> primary], labels |-> labels])
    \/ /\ At(p, "contact.create") /\ HasRoom(Contacts, db.contacts)
       /\ LET arg == Arg(p)
              k == Fresh(Contacts, db.contacts)
              cleared == IF arg.row.primary THEN ClearPrimary(db.contacts, arg.row.company, None)
                         ELSE db.contacts
          IN  CommitIf(p, LabelsValid("CONTACT", k, arg.labels),
                 WithLabels([db EXCEPT !.contacts = Insert(cleared, k, arg.row)], k, arg.labels),
                 << <<"contact.created", k>> >>)

ContactChanges ==
    Changes([company |-> LiveOrNone(db.companies), email |-> Emails, primary |-> BOOLEAN])

\* Company and primary flag as they were read decide whom to clear; a
\* contact moved meanwhile may meet another primary one at the index.
UpdateContact(p) ==
    \/ /\ Called(p, "contact.update")
       /\ \E k \in Live(db.contacts), labels \in Labels("CONTACT"),
          change \in ContactChanges :
          Begin(p, "contact.update",
                [contact |-> k, labels |-> labels,
                 company |-> Given(change, "company", db.contacts[k].company),
                 primary |-> Given(change, "primary", db.contacts[k].primary),
                 change |-> IF Given(change, "company", Companies) = None
                            THEN [primary |-> FALSE] @@ change ELSE change])
    \/ /\ At(p, "contact.update")
       /\ LET arg == Arg(p)
              k == arg.contact
              cleared == IF arg.primary THEN ClearPrimary(db.contacts, arg.company, k)
                         ELSE db.contacts
              contacts == Patch(cleared, k, arg.change)
          IN  CommitIf(p, OnePrimary(contacts) /\ LabelsValid("CONTACT", k, arg.labels),
                 WithLabels([db EXCEPT !.contacts = contacts], k, arg.labels),
                 << <<"contact.updated", k>> >>)

ArchiveContact(p) ==
    \/ /\ Called(p, "contact.archive")
       /\ \E k \in Live(db.contacts) : Begin(p, "contact.archive", k)
    \/ /\ At(p, "contact.archive")
       /\ Commit(p, [db EXCEPT !.contacts = Patch(@, Arg(p), [archived |-> TRUE, primary |-> FALSE])],
             <<>>)

ContactList(company) ==
    {k \in Live(db.contacts) : company # None => db.contacts[k].company = company}

-----------------------------------------------------------------------------
(* Catalog *)

ItemRow == [category : OrNone(Categories), sku : OrNone(Skus), currency : Currencies,
            active : BOOLEAN, archived : BOOLEAN]
CategoryRow == [name : CategoryNames, active : BOOLEAN]

SkuFree(sku, item) == sku = None \/ \A i \in DOMAIN db.items \ {item} : db.items[i].sku # sku
UsableCategories == {g \in DOMAIN db.categories : db.categories[g].active}

CreateItem(p) ==
    \/ /\ Called(p, "item.create")
       /\ \E category \in OrNone(UsableCategories), sku \in OrNone(Skus), currency \in Currencies,
          active \in BOOLEAN :
          Begin(p, "item.create",
                [category |-> category, sku |-> sku, currency |-> currency,
                 active |-> active, archived |-> FALSE])
    \/ /\ At(p, "item.create") /\ HasRoom(Items, db.items)
       /\ CommitIf(p, SkuFree(Arg(p).sku, None),
             [db EXCEPT !.items = Insert(@, Fresh(Items, @), Arg(p))], <<>>)

ItemChanges(i) ==
    Changes([category |-> {None, db.items[i].category} \cup UsableCategories,
             sku |-> OrNone(Skus), currency |-> Currencies, active |-> BOOLEAN])

\* The category may stay an inactive one.  An archived item can be updated.
UpdateItem(p) ==
    \/ /\ Called(p, "item.update")
       /\ \E i \in DOMAIN db.items :
          \E change \in ItemChanges(i) :
             Begin(p, "item.update", [item |-> i, change |-> change])
    \/ /\ At(p, "item.update")
       /\ LET i == Arg(p).item
          IN  CommitIf(p, SkuFree(Given(Arg(p).change, "sku", None), i),
                 [db EXCEPT !.items = Patch(@, i, Arg(p).change)], <<>>)

ArchiveItem(p) ==
    \/ /\ Called(p, "item.archive")
       /\ \E i \in Live(db.items) : Begin(p, "item.archive", i)
    \/ /\ At(p, "item.archive")
       /\ Commit(p, [db EXCEPT !.items = Patch(@, Arg(p), [active |-> FALSE, archived |-> TRUE])], <<>>)

CategoryNameFree(name, category) ==
    \A g \in DOMAIN db.categories \ {category} : db.categories[g].name # name

CreateCategory(p) ==
    \/ /\ Called(p, "category.create")
       /\ \E name \in CategoryNames :
          Begin(p, "category.create", [name |-> name, active |-> TRUE])
    \/ /\ At(p, "category.create") /\ HasRoom(Categories, db.categories)
       /\ CommitIf(p, CategoryNameFree(Arg(p).name, None),
             [db EXCEPT !.categories = Insert(@, Fresh(Categories, @), Arg(p))], <<>>)

UpdateCategory(p) ==
    \/ /\ Called(p, "category.update")
       /\ \E g \in DOMAIN db.categories,
          change \in Changes([name |-> CategoryNames, active |-> BOOLEAN]) :
          Begin(p, "category.update", [category |-> g, change |-> change])
    \/ /\ At(p, "category.update")
       /\ LET g == Arg(p).category
          IN  CommitIf(p,
                 "name" \in DOMAIN Arg(p).change => CategoryNameFree(Arg(p).change.name, g),
                 [db EXCEPT !.categories = Patch(@, g, Arg(p).change)], <<>>)

CatalogList(active) ==
    {i \in Live(db.items) : active # None => db.items[i].active = active}

-----------------------------------------------------------------------------
(* Saved views *)

ViewRow == [kind : {"LEAD", "TASK"}, name : ViewNames, user : OrNone(Users), default : BOOLEAN]

\* An organization's view belongs to no user; a private one to its owner.
Mutable(v, user) == db.views[v].user \in {None, user}
ViewList(user) == {v \in DOMAIN db.views : Mutable(v, user)}
ViewNameFree(kind, name, user, view) ==
    \A v \in DOMAIN db.views \ {view} :
        ~(db.views[v].kind = kind /\ db.views[v].name = name /\ db.views[v].user = user)
ClearDefaultViews(views, user, kind, except) ==
    [v \in DOMAIN views |->
        IF views[v].user = user /\ views[v].kind = kind /\ v # except
        THEN [views[v] EXCEPT !.default = FALSE] ELSE views[v]]

\* Only a private view may be a default.  The name is compared before the
\* transaction, and no index repeats the comparison.
CreateView(p) ==
    \/ /\ Called(p, "view.create")
       /\ \E user \in ActiveUsers, row \in ViewRow :
          /\ row.user \in {None, user}
          /\ row.default => row.user = user
          /\ ViewNameFree(row.kind, row.name, row.user, None)
          /\ Begin(p, "view.create", [row |-> row])
    \/ /\ At(p, "view.create") /\ HasRoom(Views, db.views)
       /\ LET row == Arg(p).row
              cleared == IF row.default THEN ClearDefaultViews(db.views, row.user, row.kind, None)
                         ELSE db.views
          IN  Commit(p, [db EXCEPT !.views = Insert(cleared, Fresh(Views, @), row)], <<>>)

\* Visibility and default are written as they were read when they are left
\* out.  A private view belongs to whoever made it private.
UpdateView(p) ==
    \/ /\ Called(p, "view.update")
       /\ \E user \in ActiveUsers : \E v \in ViewList(user) :
          \E owner \in {None, user}, default \in BOOLEAN, name \in ViewNames :
             /\ default => owner = user
             /\ name # db.views[v].name \/ owner # db.views[v].user =>
                    ViewNameFree(db.views[v].kind, name, owner, v)
             /\ Begin(p, "view.update",
                   [view |-> v, change |-> [name |-> name, user |-> owner, default |-> default]])
    \/ /\ At(p, "view.update")
       /\ LET v == Arg(p).view
              change == Arg(p).change
              cleared == IF v \in DOMAIN db.views /\ change.default
                         THEN ClearDefaultViews(db.views, change.user, db.views[v].kind, v)
                         ELSE db.views
          IN  IF v \in DOMAIN db.views
              THEN Commit(p, [db EXCEPT !.views = Patch(cleared, v, change)], <<>>)
              ELSE Reject(p)

RemoveView(p) ==
    \/ /\ Called(p, "view.remove")
       /\ \E user \in ActiveUsers : \E v \in ViewList(user) :
          Begin(p, "view.remove", v)
    \/ /\ At(p, "view.remove")
       /\ CommitIf(p, Arg(p) \in DOMAIN db.views,
             [db EXCEPT !.views = Without(@, {Arg(p)})], <<>>)

-----------------------------------------------------------------------------
DirectoryStep(p) ==
    \/ CreateCompany(p) \/ UpdateCompany(p) \/ ArchiveCompany(p)
    \/ CreateContact(p) \/ UpdateContact(p) \/ ArchiveContact(p)
    \/ CreateItem(p) \/ UpdateItem(p) \/ ArchiveItem(p)
    \/ CreateCategory(p) \/ UpdateCategory(p)
    \/ CreateView(p) \/ UpdateView(p) \/ RemoveView(p)

\* A primary contact is the only one of its company; a default view is its
\* owner's, and private.
DirectoryRowsOK ==
    /\ DOMAIN db.companies \subseteq Companies /\ DOMAIN db.contacts \subseteq Contacts
    /\ \A c \in DOMAIN db.companies : db.companies[c] \in CompanyRow
    /\ \A k \in DOMAIN db.contacts : db.contacts[k] \in ContactRow
    /\ OnePrimary(db.contacts)
    /\ \A i \in DOMAIN db.items : db.items[i] \in ItemRow
    /\ \A g \in DOMAIN db.categories : db.categories[g] \in CategoryRow
    /\ \A v \in DOMAIN db.views :
          db.views[v] \in ViewRow /\ (db.views[v].default => db.views[v].user # None)
=============================================================================
