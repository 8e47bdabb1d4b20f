----------------------------- MODULE Attachments -----------------------------
(***************************************************************************)
(* Files attached to projects, tasks and cases, and the storage they are   *)
(* kept in: apps/api/src/attachments and RedisService.reserveBounded.      *)
(*                                                                         *)
(* db.entities are the records files are attached to and mail is about: a  *)
(* task has a project or none (`within`), a person or company an address   *)
(* or none.  db.stored are the keys the storage has, in db.reserved Redis  *)
(* counts what the quotas of a demo have let through.                      *)
(***************************************************************************)
EXTENDS Accounts

CONSTANTS Entities, Files,
          Quota \* per kind of record, and for attachments: how many a demo may have

ASSUME AttachmentsAssumption ==
    /\ None \notin Orgs \cup Accounts \cup Entities \cup Files \cup Nat
    /\ IsFiniteSet(Files)
    /\ "attachment" \in DOMAIN Quota /\ \A kind \in DOMAIN Quota : Quota[kind] \in Nat

Attachable == {"project", "task", "case"}
Addressable == {"lead", "contact", "company"}
EntityRow == [org : Orgs, kind : Attachable \cup Addressable, archived : BOOLEAN,
              within : OrNone(Entities), email : OrNone(Emails)]
\* `answered`, no column: the API has learnt that the row was committed.
AttachmentRow == [org : Orgs, parent : Entities, answered : BOOLEAN]

LiveEntities(org, kinds) ==
    {x \in DOMAIN db.entities :
        LET row == db.entities[x]
        IN  /\ row.org = org /\ row.kind \in kinds /\ ~row.archived
            /\ row.within # None => ~db.entities[row.within].archived}
FilesOf(org) == {f \in DOMAIN db.attachments : db.attachments[f].org = org}

FreeKeys == Unused(Files) \ (DOMAIN db.attachments \cup DOMAIN db.mailFiles \cup db.stored)

UploadRoute(kind) ==
    CASE kind = "project" -> <<"ProjectAttachments", "upload">>
      [] kind = "task" -> <<"TaskAttachments", "upload">>
      [] kind = "case" -> <<"CaseAttachments", "upload">>

-----------------------------------------------------------------------------
(* Quotas *)

\* Faulty variant of Reserve: what was counted is compared, not what Redis has.
ReserveCounted(p, kind, op) ==
    IF Arg(p).count < Quota[kind] THEN Continue(p, op, Arg(p)) ELSE Reject(p)

\* reserveBounded: the first reservation starts from the count it brings, the
\* others from what was reserved; nothing is given back.
Reserve(p, kind, op) ==
    LET key == <<Arg(p).org, kind>>
        current == IF key \in DOMAIN db.reserved THEN db.reserved[key] ELSE Arg(p).count
        reserved(n) == [db EXCEPT !.reserved = Insert(@, key, n)]
    IN  IF current >= Quota[kind] THEN Commit(p, reserved(current), <<>>)
        ELSE Proceed(p, reserved(current + 1), op, Arg(p), 0)

-----------------------------------------------------------------------------
(* Uploading: the file is stored before its row is written. *)

\* The type, size, signature or name of a file may refuse it, the name only
\* after the quota was reserved.
Upload(p) ==
    \/ /\ Called(p, "file.upload")
       /\ \E kind \in Attachable : \E s \in Callers(UploadRoute(kind)) :
          \E x \in LiveEntities(CallerOrg(s), {kind}) :
             LET org == CallerOrg(s)
                 scope == <<"upload", CallerAccount(s)>>
             IN  \/ TurnedAway(p, scope)
                 \/ CallCounted(p, scope,
                       IF db.orgs[org].demo THEN "file.reserve" ELSE "file.put",
                       [org |-> org, parent |-> x, count |-> Cardinality(FilesOf(org))])
    \/ At(p, "file.reserve") /\ Reserve(p, "attachment", "file.put")
    \/ At(p, "file.put") /\ Reject(p)

\* Faulty variant of PutFile: a failure of the storage is not waited for.
PutFileUnawaited(p) ==
    /\ At(p, "file.put")
    /\ \E f \in FreeKeys :
          \/ Proceed(p, [db EXCEPT !.stored = @ \cup {f}], "file.insert",
                Over([file |-> f], Arg(p)), 0)
          \/ Proceed(p, db, "file.insert", Over([file |-> f], Arg(p)), 1)

PutFile(p) ==
    /\ At(p, "file.put")
    /\ \E f \in FreeKeys :
          \/ Proceed(p, [db EXCEPT !.stored = @ \cup {f}], "file.insert",
                Over([file |-> f], Arg(p)), 0)
          \/ Proceed(p, db, "none", None, 1)

\* A commit whose answer is lost is taken for a failure: the row is there, and
\* its file is deleted.
InsertRow(p) ==
    /\ At(p, "file.insert")
    /\ LET arg == Arg(p)
           Written(answered) ==
               [db EXCEPT !.attachments = Insert(@, arg.file,
                    [org |-> arg.org, parent |-> arg.parent, answered |-> answered])]
       IN  \/ /\ arg.parent \in DOMAIN db.entities
              /\ \/ Commit(p, Written(TRUE), <<>>)
                 \/ Proceed(p, Written(FALSE), "file.remove", arg.file, 1)
           \/ arg.parent \notin DOMAIN db.entities /\ Continue(p, "file.remove", arg.file)
           \/ Proceed(p, db, "file.remove", arg.file, 1)

\* After an upload that failed or was taken for failed, or when a row was deleted.
RemoveFile(p) ==
    /\ At(p, "file.remove")
    /\ \/ Commit(p, [db EXCEPT !.stored = @ \ {Arg(p)}], <<>>)
       \/ Proceed(p, db, "none", None, 1)

DeleteAttachment(p) ==
    \/ /\ Called(p, "file.delete")
       /\ \E s \in Callers(<<"Attachments", "delete">>) : \E f \in FilesOf(CallerOrg(s)) :
          /\ db.entities[db.attachments[f].parent].kind = "case" =>
                "case.update" \in PermissionsOf(CallerAccount(s))
          /\ Begin(p, "file.delete", f)
    \/ /\ At(p, "file.delete")
       /\ IF Arg(p) \in DOMAIN db.attachments
          THEN Proceed(p, Deleting([db EXCEPT !.attachments = Without(@, {Arg(p)})]),
                       "file.remove", Arg(p), 0)
          ELSE Reject(p)

\* What a caller may download, and whether the storage still has it.
Downloads(s) ==
    [f \in {f \in FilesOf(CallerOrg(s)) :
               db.entities[db.attachments[f].parent].kind = "case" =>
                   "case.read" \in PermissionsOf(CallerAccount(s))} |-> f \in db.stored]

-----------------------------------------------------------------------------

AttachmentsStep(p) ==
    Upload(p) \/ PutFile(p) \/ InsertRow(p) \/ RemoveFile(p) \/ DeleteAttachment(p)

AttachmentRowsOK(tables) ==
    /\ RowsOf(tables.entities, Entities, EntityRow)
    /\ RowsOf(tables.attachments, Files, AttachmentRow)
    /\ RowsOf(tables.reserved, Orgs \X (DOMAIN Quota), Nat)
    /\ tables.stored \subseteq Files
=============================================================================
