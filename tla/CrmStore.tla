------------------------------ MODULE CrmStore ------------------------------
(***************************************************************************)
(* The tables of the CRM's records, and the check that most services make  *)
(* of what a new row refers to.  Who may call what is modelled in          *)
(* AccessControl.                                                          *)
(***************************************************************************)
EXTENDS RequestStore

CONSTANTS Users, Companies, Contacts, Pipelines, Stages, Leads, FollowUps, Deals,
          Projects, Tasks, Cases, Activities, Payments, Categories, Items, Tags,
          Fields, Views, Forms, Submissions, Imports

Ids == UNION {Users, Companies, Contacts, Pipelines, Stages, Leads, FollowUps,
              Deals, Projects, Tasks, Cases, Activities, Payments, Categories,
              Items, Tags, Fields, Views, Forms, Submissions, Imports}

ActiveUsers == {u \in DOMAIN db.users : db.users[u] = "ACTIVE"}

\* The rows named must be there and unarchived, the owner active, and a
\* contact that has a company must have the one named.
RelationsValid(company, contact, owner) ==
    /\ company \in LiveOrNone(db.companies)
    /\ contact \in LiveOrNone(db.contacts)
    /\ owner \in OrNone(ActiveUsers)
    /\ company # None /\ contact # None =>
           db.contacts[contact].company \in {None, company}
=============================================================================
