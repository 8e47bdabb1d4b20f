------------------------------ MODULE DataTools ------------------------------
(***************************************************************************)
(* Imports, exports, duplicates, merges and bulk updates:                  *)
(* apps/api/src/data-management/data-management.service.ts.                *)
(*                                                                         *)
(* db.imports are the import jobs.  None of these operations announces a   *)
(* business event or tells anyone.                                         *)
(***************************************************************************)
EXTENDS WebForms
LOCAL INSTANCE FiniteSetsExt
LOCAL INSTANCE Functions

CONSTANT MaxRows   \* bound: rows of an imported file

ImportKinds == {"COMPANY", "CONTACT", "CATALOG", "LEAD"}
ImportRow == [kind : ImportKinds, total : Nat, success : Nat,
              status : {"PROCESSING", "COMPLETED", "COMPLETED_WITH_ERRORS", "FAILED"}]

-----------------------------------------------------------------------------
(* Imports: one job row, then the rows of the file one after another, each  *)
(* a write of its own, then the job's counts.                               *)

CommitImport(p) ==
    \/ /\ Called(p, "import")
       /\ \E kind \in ImportKinds, rows \in 1..MaxRows :
          Begin(p, "import", [kind |-> kind, rows |-> rows])
    \/ /\ At(p, "import") /\ HasRoom(Imports, db.imports)
       /\ Proceed(p,
             [db EXCEPT !.imports = Insert(@, Fresh(Imports, @),
                 [kind |-> Arg(p).kind, total |-> Arg(p).rows, success |-> 0,
                  status |-> "PROCESSING"])],
             "import.row",
             [job |-> Fresh(Imports, db.imports), left |-> Arg(p).rows, success |-> 0], 0)

\* What a row of each kind may leave behind; nothing when it is not valid.
ImportedCompany ==
    IF HasRoom(Companies, db.companies)
    THEN {[db EXCEPT !.companies =
              Insert(@, Fresh(Companies, @), [archived |-> FALSE, name |-> name, owner |-> None])] :
              name \in CompanyNames}
    ELSE {}
ImportedContact ==
    IF HasRoom(Contacts, db.contacts)
    THEN {tables \in {[db EXCEPT !.contacts =
              Insert(@, Fresh(Contacts, @),
                 [archived |-> FALSE, company |-> company, email |-> email, primary |-> primary])] :
              company \in LiveOrNone(db.companies), email \in OrNone(Emails), primary \in BOOLEAN} :
              OnePrimary(tables.contacts)}
    ELSE {}
ImportedItem ==
    IF HasRoom(Items, db.items) /\ HasRoom(Categories, db.categories)
    THEN LET named(name) == {g \in DOMAIN db.categories : db.categories[g].name = name}
             row(category, sku, currency, active) ==
                [category |-> category, sku |-> sku, currency |-> currency,
                 active |-> active, archived |-> FALSE]
             new == Fresh(Categories, db.categories)
         IN  {IF name = None \/ named(name) # {}
              THEN [db EXCEPT !.items = Insert(@, Fresh(Items, @),
                       row(IF name = None THEN None ELSE CHOOSE g \in named(name) : TRUE,
                           sku, currency, active))]
              ELSE [db EXCEPT
                       !.categories = Insert(@, new, [name |-> name, active |-> TRUE]),
                       !.items = Insert(@, Fresh(Items, @), row(new, sku, currency, active))] :
              name \in OrNone(CategoryNames), sku \in {k \in OrNone(Skus) : SkuFree(k, None)},
              currency \in Currencies, active \in BOOLEAN}
    ELSE {}

\* An imported lead starts where the default pipeline does.  Its company and
\* contact are looked up, and not compared with each other.
ImportedLead ==
    IF HasRoom(Leads, db.leads)
    THEN {WithNewLead(db, NewLead(company, contact, None, <<pl, FirstStage(pl)>>, None, email)) :
              company \in LiveOrNone(db.companies), contact \in LiveOrNone(db.contacts),
              email \in OrNone(Emails), pl \in {d \in Defaults(db, "LEAD") : HasStage(d)}}
    ELSE {}

ImportRowOf(p) ==
    /\ At(p, "import.row") /\ Arg(p).left > 0
    /\ LET kind == db.imports[Arg(p).job].kind
           outcomes == CASE kind = "COMPANY" -> ImportedCompany
                         [] kind = "CONTACT" -> ImportedContact
                         [] kind = "CATALOG" -> ImportedItem
                         [] kind = "LEAD" -> ImportedLead
       IN  \/ \E tables \in outcomes :
                 Proceed(p, tables, "import.row",
                    [Arg(p) EXCEPT !.left = @ - 1, !.success = @ + 1], 0)
           \/ Proceed(p, db, "import.row", [Arg(p) EXCEPT !.left = @ - 1], 0)

FinishImport(p) ==
    /\ At(p, "import.row") /\ Arg(p).left = 0
    /\ LET job == db.imports[Arg(p).job]
       IN  Commit(p,
              [db EXCEPT !.imports = Patch(@, Arg(p).job,
                  [success |-> Arg(p).success,
                   status |-> IF Arg(p).success = job.total THEN "COMPLETED"
                              ELSE IF Arg(p).success > 0 THEN "COMPLETED_WITH_ERRORS"
                              ELSE "FAILED"])],
              <<>>)

\* What an export holds, and what a later download of it holds then.
ExportRows(kind) ==
    CASE kind = "COMPANY" -> Live(db.companies) [] kind = "CONTACT" -> Live(db.contacts)
      [] kind = "LEAD" -> Live(db.leads) [] kind = "PROJECT" -> Live(db.projects)
      [] kind = "CATALOG" -> Live(db.items) [] kind = "TASK" -> Live(db.tasks)

\* groupDuplicates: the rows that share a key; `keys` maps a row to its keys.
DuplicateGroups(keys) ==
    {group \in {{x \in DOMAIN keys : key \in keys[x]} : key \in UNION Range(keys)} :
        Cardinality(group) > 1}
Duplicates(kind) ==
    DuplicateGroups(
        CASE kind = "COMPANY" -> [c \in Live(db.companies) |-> {db.companies[c].name}]
          [] kind = "CONTACT" -> [k \in Live(db.contacts) |-> {db.contacts[k].email} \ {None}]
          [] kind = "LEAD" -> [l \in Live(db.leads) |-> {db.leads[l].email} \ {None}])

-----------------------------------------------------------------------------
(* Merges *)

\* updateMany of one column: every row that has the old value gets the new.
Repoint(table, field, old, new) ==
    [x \in DOMAIN table |-> IF table[x][field] = old THEN [table[x] EXCEPT ![field] = new] ELSE table[x]]

\* Both were live when they were read.  Deals, cases and activities stay
\* with the company that is archived.
MergeCompanies(p) ==
    \/ /\ Called(p, "merge.companies")
       /\ \E source, target \in Live(db.companies) :
          source # target /\ Begin(p, "merge.companies", <<source, target>>)
    \/ /\ At(p, "merge.companies")
       /\ LET moved(table) == Repoint(table, "company", Arg(p)[1], Arg(p)[2])
          IN  CommitIf(p, OnePrimary(moved(db.contacts)),
                 [db EXCEPT !.contacts = moved(@), !.leads = moved(@), !.projects = moved(@),
                            !.quotes = moved(@), !.payments = moved(@),
                            !.companies[Arg(p)[1]].archived = TRUE],
                 <<>>)

\* A primary source, as it was read, hands its place and company on.
MergeContacts(p) ==
    \/ /\ Called(p, "merge.contacts")
       /\ \E source, target \in Live(db.contacts) :
          source # target
          /\ Begin(p, "merge.contacts",
                [source |-> source, target |-> target, company |-> db.contacts[source].company,
                 primary |-> db.contacts[source].primary])
    \/ /\ At(p, "merge.contacts")
       /\ LET arg == Arg(p)
              archived == Patch(db.contacts, arg.source, [archived |-> TRUE, primary |-> FALSE])
              contacts == IF arg.primary /\ arg.company # None
                          THEN Patch(archived, arg.target, [company |-> arg.company, primary |-> TRUE])
                          ELSE archived
          IN  CommitIf(p, OnePrimary(contacts),
                 [db EXCEPT !.leads = Repoint(@, "contact", arg.source, arg.target),
                            !.contacts = contacts],
                 <<>>)

-----------------------------------------------------------------------------
(* Bulk updates *)

BulkSpec(entity) ==
    CASE entity = "companies" -> [owner |-> OrNone(ActiveUsers)]
      [] entity = "contacts" -> [company |-> LiveOrNone(db.companies)]
      [] entity = "leads" -> [owner |-> OrNone(ActiveUsers), company |-> LiveOrNone(db.companies)]
      [] entity = "projects" -> [status |-> ProjectStatuses, manager |-> OrNone(ActiveUsers)]
      [] entity = "tasks" -> [status |-> TaskStatuses, assignee |-> OrNone(ActiveUsers)]

\* The rows and what refers to them are read in the transaction that writes
\* all of them; nothing else of them is looked at or written, neither a
\* project's members nor a task's day of completion.
BulkUpdate(p) ==
    \/ /\ Called(p, "bulk")
       /\ \E entity \in {"companies", "contacts", "leads", "projects", "tasks"} :
          \E ids \in (SUBSET Live(db[entity])) \ {{}}, change \in Changes(BulkSpec(entity)) :
             /\ change # <<>>
             /\ Begin(p, "bulk", [entity |-> entity, ids |-> ids, change |-> change])
    \/ /\ At(p, "bulk")
       /\ LET arg == Arg(p)
              written == [x \in DOMAIN db[arg.entity] |->
                             IF x \in arg.ids THEN arg.change @@ db[arg.entity][x]
                             ELSE db[arg.entity][x]]
          IN  CommitIf(p,
                 /\ arg.ids \subseteq Live(db[arg.entity])
                 /\ "company" \in DOMAIN arg.change => arg.change.company \in LiveOrNone(db.companies)
                 /\ \A field \in {"owner", "manager", "assignee"} \cap DOMAIN arg.change :
                       arg.change[field] \in OrNone(ActiveUsers)
                 /\ arg.entity = "contacts" => OnePrimary(written),
                 [db EXCEPT ![arg.entity] = written], <<>>)

-----------------------------------------------------------------------------
DataStep(p) ==
    \/ CommitImport(p) \/ ImportRowOf(p) \/ FinishImport(p) \/ MergeCompanies(p)
    \/ MergeContacts(p) \/ BulkUpdate(p)

ImportRowsOK ==
    \A i \in DOMAIN db.imports : db.imports[i] \in ImportRow /\ db.imports[i].success <= db.imports[i].total
=============================================================================
