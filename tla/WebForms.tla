------------------------------ MODULE WebForms ------------------------------
(***************************************************************************)
(* Leads from web forms: apps/api/src/web-to-lead/web-to-lead.service.ts,  *)
(* and what integrations.service.ts does with the same events.             *)
(*                                                                         *)
(* db.forms are the integrations.  db.submissions joins the rows of        *)
(* IntegrationEvent (event, retryable, attempts) and WebToLeadSubmission   *)
(* (status, lead); `forced` says that the event's status was overwritten   *)
(* by someone who did not look at it.  db.jobs maps a submission whose job *)
(* was added to the attempts the job has left; its id keeps a second job   *)
(* from being added.  A worker is a request too.                           *)
(***************************************************************************)
EXTENDS ServiceRecords
LOCAL INSTANCE FiniteSetsExt
LOCAL INSTANCE SequencesExt

CONSTANTS Keys,        \* idempotency keys; a refused request without one gets a digest
          JobAttempts, \* attempts of a job: 5 in the code
          MaxMappings  \* bound: mappings of a form

\* What a sender may fill in, and what a mapping may write; the fields that
\* only carry text are left out.
SourceFields == {"company", "email", "custom"}
Targets == {"COMPANY_NAME", "CONTACT_EMAIL", "LEAD_EMAIL", "LEAD_CUSTOM_FIELD", "LEAD_TAG"}
Payload == [company : OrNone(CompanyNames), email : OrNone(Emails), custom : OrNone(Texts)]
MappingOf == [target : Targets, id : OrNone(Fields \cup Tags), source : OrNone(SourceFields),
              fixed : OrNone({""} \cup Texts)]

FormRow == [active : BOOLEAN, pipeline : Pipelines, stage : Stages, owner : OrNone(Users),
            tags : SUBSET Tags, mappings : UNION {[1..n -> MappingOf] : n \in 0..MaxMappings},
            secret : {"first", "second"}]
SubmissionRow == [form : Forms, key : Keys, payload : Payload, attempts : Nat, retryable : BOOLEAN,
                  event : {"RECEIVED", "PROCESSING", "PROCESSED", "FAILED", "IGNORED"},
                  status : {"RECEIVED", "PROCESSING", "ACCEPTED", "FAILED"},
                  lead : OrNone(Leads), forced : BOOLEAN]

\* references: what the editor offers.
FormChoices ==
    [starts |-> {<<pl, s>> \in LivePipelines("LEAD") \X DOMAIN db.stages : s \in StagesOf(pl)},
     owners |-> ActiveUsers, tags |-> DOMAIN db.tags, fields |-> ActiveFields("LEAD")]

-----------------------------------------------------------------------------
(* The editor of mappings: web-to-lead-settings.tsx.                        *)

SourceOptions == SourceFields \ {"custom"}
EmptyMapping == [source |-> "email", fixed |-> None, target |-> "LEAD_EMAIL", id |-> None]

\* A row that is changed: its source, its fixed text, its target, or the
\* field or tag of its target.
ChangedMapping(m) ==
    {[m EXCEPT !.source = source, !.fixed = None] : source \in SourceOptions}
    \cup {[m EXCEPT !.source = None, !.fixed = ""]}
    \cup {[m EXCEPT !.fixed = text] : text \in IF m.source = None THEN Texts ELSE {}}
    \cup {[m EXCEPT !.target = target, !.id = None] : target \in Targets}
    \cup {[m EXCEPT !.id = id] : id \in CASE m.target = "LEAD_CUSTOM_FIELD" -> FormChoices.fields
                                         [] m.target = "LEAD_TAG" -> FormChoices.tags
                                         [] OTHER -> {}}

\* The editor shows a form without mappings an empty one, which it saves.
ShownMappings(mappings) == IF mappings = <<>> THEN <<EmptyMapping>> ELSE mappings
EditedOnce(mappings) ==
    {mappings}
    \cup (IF Len(mappings) < MaxMappings THEN {Append(mappings, EmptyMapping)} ELSE {})
    \cup {RemoveAt(mappings, i) : i \in DOMAIN mappings}
    \cup UNION {{[mappings EXCEPT ![i] = m] : m \in ChangedMapping(mappings[i])} :
                   i \in DOMAIN mappings}
Edited(mappings) == UNION {EditedOnce(m) : m \in EditedOnce(ShownMappings(mappings))}

-----------------------------------------------------------------------------
(* Forms *)

MappingsValid(mappings) ==
    /\ \A i \in DOMAIN mappings :
          LET m == mappings[i]
          IN  /\ (m.source = None) # (m.fixed = None)
              /\ m.target = "LEAD_CUSTOM_FIELD" => m.id \in ActiveFields("LEAD")
              /\ m.target = "LEAD_TAG" => m.id \in DOMAIN db.tags
    /\ \A i, j \in DOMAIN mappings :
          mappings[i].target = mappings[j].target /\ mappings[i].id = mappings[j].id => i = j

\* validateConfiguration
ConfigurationValid(form) ==
    /\ form.pipeline \in LivePipelines("LEAD") /\ form.stage \in StagesOf(form.pipeline)
    /\ form.owner \in OrNone(ActiveUsers)
    /\ form.tags \subseteq DOMAIN db.tags
    /\ MappingsValid(form.mappings)

FormInputs ==
    {[active |-> TRUE, pipeline |-> start[1], stage |-> start[2], owner |-> owner, tags |-> tags,
      mappings |-> mappings, secret |-> "first"] :
        start \in FormChoices.starts, owner \in OrNone(FormChoices.owners),
        tags \in SUBSET FormChoices.tags, mappings \in EditedOnce(<<EmptyMapping>>)}

CreateForm(p) ==
    \/ /\ Called(p, "form.create")
       /\ \E form \in FormInputs : ConfigurationValid(form) /\ Begin(p, "form.create", form)
    \/ /\ At(p, "form.create") /\ HasRoom(Forms, db.forms)
       /\ CommitIf(p, Arg(p).stage \in DOMAIN db.stages,
             [db EXCEPT !.forms = Insert(@, Fresh(Forms, @), Arg(p))], <<>>)

FormChanges(form) ==
    Changes([active |-> BOOLEAN, pipeline |-> DOMAIN db.pipelines, stage |-> DOMAIN db.stages,
             owner |-> OrNone(ActiveUsers), tags |-> SUBSET DOMAIN db.tags,
             mappings |-> Edited(form.mappings)])

\* What is left out is validated as it was read: a form whose configuration
\* has become invalid cannot even be switched off.
UpdateForm(p) ==
    \/ /\ Called(p, "form.update")
       /\ \E f \in DOMAIN db.forms : \E change \in FormChanges(db.forms[f]) :
          /\ ConfigurationValid(change @@ db.forms[f])
          /\ Begin(p, "form.update", [form |-> f, change |-> change])
    \/ /\ At(p, "form.update")
       /\ CommitIf(p, Given(Arg(p).change, "stage", db.forms[Arg(p).form].stage) \in DOMAIN db.stages,
             [db EXCEPT !.forms = Patch(@, Arg(p).form, Arg(p).change)], <<>>)

RotateFormSecret(p) ==
    \/ /\ Called(p, "form.rotate")
       /\ \E f \in DOMAIN db.forms, secret \in {"first", "second"} :
          Begin(p, "form.rotate", [form |-> f, secret |-> secret])
    \/ /\ At(p, "form.rotate")
       /\ Commit(p, [db EXCEPT !.forms[Arg(p).form].secret = Arg(p).secret], <<>>)

-----------------------------------------------------------------------------
(* Receiving *)

KeyTaken(form, key) ==
    \E s \in DOMAIN db.submissions :
        db.submissions[s].form = form /\ db.submissions[s].key = key

WithJob(tables, s) ==
    [tables EXCEPT !.jobs = IF s \in DOMAIN @ THEN @ ELSE Insert(@, s, JobAttempts)]

\* A sender signs with the secret it was given.
SignatureValid(form, secret) == secret = form.secret

ReceivedRow(form, key, payload) ==
    [form |-> form, key |-> key, payload |-> payload, attempts |-> 0, retryable |-> TRUE,
     lead |-> None, forced |-> FALSE, event |-> "RECEIVED", status |-> "RECEIVED"]
RejectedRow(form, key, payload) ==
    [ReceivedRow(form, key, payload) EXCEPT
        !.retryable = FALSE, !.event = "IGNORED", !.status = "FAILED"]

\* A request that is refused for its contents is recorded too, if its key is new.  A test signs for itself and sends no custom fields;
\* bound: neither does a sender whose form maps none.
ReceiveSubmission(p) ==
    \/ /\ Called(p, "form.receive")
       /\ \E f \in DOMAIN db.forms, key \in Keys, payload \in Payload, valid \in BOOLEAN,
          test \in BOOLEAN, secret \in {"first", "second"} :
          /\ db.forms[f].active /\ SignatureValid(db.forms[f], secret)
          /\ payload.custom # None =>
                ~test /\ \E i \in DOMAIN db.forms[f].mappings : db.forms[f].mappings[i].source = "custom"
          /\ Begin(p, "form.receive",
                [valid |-> valid, test |-> test,
                 row |-> IF valid THEN ReceivedRow(f, key, payload) ELSE RejectedRow(f, key, payload)])
    \/ /\ At(p, "form.receive") /\ HasRoom(Submissions, db.submissions)
       /\ LET s == Fresh(Submissions, db.submissions)
              arg == Arg(p)
              tables == [db EXCEPT !.submissions = Insert(@, s, arg.row)]
          IN  IF KeyTaken(arg.row.form, arg.row.key) THEN Reject(p)
              ELSE IF arg.valid
              THEN Proceed(p, tables, "form.enqueue", [submission |-> s, test |-> arg.test], 0)
              ELSE Commit(p, tables, <<>>)

\* test processes the event itself once it is queued.
AfterEnqueue(arg) ==
    IF arg.test THEN [op |-> "form.read", arg |-> [submission |-> arg.submission, job |-> FALSE]]
    ELSE Idle

\* A failed add may have reached the queue nevertheless.
EnqueueSubmission(p) ==
    /\ At(p, "form.enqueue")
    /\ LET s == Arg(p).submission
           next == AfterEnqueue(Arg(p))
       IN  \/ Proceed(p, WithJob(db, s), next.op, next.arg, 0)
           \/ \E reached \in BOOLEAN :
                 Proceed(p, IF reached THEN WithJob(db, s) ELSE db, "form.enqueue.failed",
                    [submission |-> s], 1)

FailEnqueue(p) ==
    /\ At(p, "form.enqueue.failed")
    /\ LET s == Arg(p).submission
           read == db.submissions[s]
       IN  Commit(p,
              [db EXCEPT !.submissions = Patch(@, s,
                  [event |-> "FAILED", retryable |-> TRUE, status |-> "FAILED",
                   forced |-> read.forced \/ read.event # "RECEIVED"])],
              <<>>)

\* IntegrationsService.retryEvent, and its sweep of the events received: a
\* job that was added before, finished or not, keeps a new one out.
SubmissionLog(f) == {s \in DOMAIN db.submissions : db.submissions[s].form = f}

RetrySubmission(p) ==
    \/ /\ Called(p, "form.retry")
       /\ \E f \in DOMAIN db.forms : \E s \in SubmissionLog(f) :
          /\ db.submissions[s].event = "FAILED" /\ db.submissions[s].retryable
          /\ Begin(p, "form.retry", s)
    \/ /\ At(p, "form.retry")
       /\ LET read == db.submissions[Arg(p)]
          IN  Commit(p,
                 WithJob([db EXCEPT !.submissions = Patch(@, Arg(p),
                            [event |-> "RECEIVED",
                             forced |-> read.forced \/ read.event # "FAILED"])],
                         Arg(p)),
                 <<>>)

RecoverSubmissions(p) ==
    \/ /\ Called(p, "form.recover")
       /\ \E s \in DOMAIN db.submissions :
          db.submissions[s].event = "RECEIVED" /\ Begin(p, "form.recover", s)
    \/ At(p, "form.recover") /\ Commit(p, WithJob(db, Arg(p)), <<>>)

-----------------------------------------------------------------------------
(* Mapping: what a submission becomes *)

MappedValue(payload, m) == IF m.source # None THEN payload[m.source] ELSE m.fixed

\* The mappings that write to one of the targets; the last has the last word.
Writing(payload, mappings, targets) ==
    {i \in DOMAIN mappings : /\ mappings[i].target \in targets
                             /\ MappedValue(payload, mappings[i]) \notin {None, ""}}
LastWritten(payload, mappings, targets) ==
    LET writing == Writing(payload, mappings, targets)
    IN  MappedValue(payload, mappings[Max(writing)])
MapPayload(payload, mappings) ==
    LET text(targets, given) ==
            IF Writing(payload, mappings, targets) = {} THEN given
            ELSE LastWritten(payload, mappings, targets)
        of(target) == {mappings[i] : i \in Writing(payload, mappings, {target})}
    IN  [company |-> text({"COMPANY_NAME"}, payload.company),
         email |-> text({"CONTACT_EMAIL", "LEAD_EMAIL"}, payload.email),
         tags |-> {m.id : m \in of("LEAD_TAG")},
         values |-> {<<m.id, MappedValue(payload, m)>> : m \in of("LEAD_CUSTOM_FIELD")}]

\* An address that is none is refused for good.
MappedValid(mapped) ==
    /\ mapped.email \in OrNone(Emails)
    /\ \A x \in mapped.values : x[1] \in ActiveFields("LEAD")
FieldAccepts(f, value) == db.fields[f].type = "SELECT" => value = "option"

-----------------------------------------------------------------------------
(* Processing: processEvent *)

WorkedOn(s) ==
    \E q \in Requests :
        /\ request[q].op \in {"form.read", "form.claim", "form.work", "form.write", "form.publish"}
        /\ Arg(q).submission = s /\ Arg(q).job

StartJob(p) ==
    /\ At(p, "none") /\ "form.job" \in env.ops
    /\ Serial => Quiet
    /\ \E s \in DOMAIN db.jobs :
          /\ db.jobs[s] > 0 /\ ~WorkedOn(s)
          /\ Continue(p, "form.read", [submission |-> s, job |-> TRUE])

\* The job is done, or has failed and is tried again.
Done(p, tables) ==
    Proceed(p, IF Arg(p).job THEN [tables EXCEPT !.jobs[Arg(p).submission] = 0] ELSE tables,
       "none", None, 0)
Throw(p, tables, faults) ==
    Proceed(p, IF Arg(p).job THEN [tables EXCEPT !.jobs[Arg(p).submission] = @ - 1] ELSE tables,
       "none", None, faults)
Written(s, change) == [db EXCEPT !.submissions = Patch(@, s, change)]

ReadEvent(p) ==
    /\ At(p, "form.read")
    /\ LET row == db.submissions[Arg(p).submission]
       IN  IF row.event \notin {"RECEIVED", "FAILED"} THEN Done(p, db)
           ELSE Continue(p, "form.claim",
                   [event |-> row.event, attempts |-> row.attempts, lead |-> row.lead,
                    form |-> db.forms[row.form], payload |-> row.payload] @@ Arg(p))

\* Faulty variant of ClaimEvent: the row as it was read is not compared.
ClaimEventUnchecked(p) ==
    /\ At(p, "form.claim")
    /\ LET s == Arg(p).submission
       IN  Proceed(p, Written(s, [event |-> "PROCESSING", status |-> "PROCESSING",
                                  attempts |-> db.submissions[s].attempts + 1]),
              "form.work", Arg(p), 0)

ClaimEvent(p) ==
    /\ At(p, "form.claim")
    /\ LET s == Arg(p).submission
           row == db.submissions[s]
       IN  IF row.event = Arg(p).event /\ row.attempts = Arg(p).attempts
           THEN Proceed(p, Written(s, [event |-> "PROCESSING", status |-> "PROCESSING",
                                       attempts |-> row.attempts + 1]),
                   "form.work", Arg(p), 0)
           ELSE Done(p, db)

\* The catch of processEvent, when no lead was committed.
FailEvent(p, retryable, faults) ==
    LET failed == Written(Arg(p).submission,
                     [event |-> "FAILED", retryable |-> retryable, status |-> "FAILED"])
    IN  IF retryable THEN Throw(p, failed, faults) ELSE Done(p, failed)

\* An event whose lead exists is only published again; another is checked
\* and mapped with the form as it was read with the event.
WorkOnEvent(p) ==
    /\ At(p, "form.work")
    /\ LET mapped == MapPayload(Arg(p).payload, Arg(p).form.mappings)
       IN  IF Arg(p).lead # None THEN Continue(p, "form.publish", [settles |-> TRUE] @@ Arg(p))
           ELSE IF ConfigurationValid(Arg(p).form) /\ MappedValid(mapped)
           THEN Continue(p, "form.write", [payload |-> mapped] @@ Arg(p))
           ELSE FailEvent(p, FALSE, 0)

\* The transaction: the company is found by name or created, the contact by
\* its address, and the lead is placed where the form says.  Custom fields that
\* are required or do not fit, and tags that are gone, refuse it for good, a
\* foreign key or the database for now.
WriteLead(p) ==
    /\ At(p, "form.write")
    /\ HasRoom(Companies, db.companies) /\ HasRoom(Contacts, db.contacts) /\ HasRoom(Leads, db.leads)
    /\ LET form == Arg(p).form
           s == Arg(p).submission
           row == Arg(p).payload
           l == Fresh(Leads, db.leads)
           values == [set |-> {x[1] : x \in row.values}, clear |-> {}]
           tags == form.tags \cup row.tags
       IN  \/ \E known \in IF row.company = None THEN {None} ELSE OneOf(CompaniesNamed(row.company)),
                 match \in IF row.email = None THEN {None} ELSE OneOf(ContactsAt(row.email)) :
                 LET newCompany == row.company # None /\ known = None
                     company == IF newCompany THEN Fresh(Companies, db.companies) ELSE known
                     contact == IF match = None THEN Fresh(Contacts, db.contacts) ELSE match
                     companies == IF newCompany
                                  THEN Insert(db.companies, company,
                                          [archived |-> FALSE, name |-> row.company, owner |-> None])
                                  ELSE db.companies
                     contacts == IF match = None
                                 THEN Insert(db.contacts, contact,
                                         [archived |-> FALSE, company |-> company,
                                          email |-> row.email, primary |-> FALSE])
                                 ELSE IF company # None /\ db.contacts[match].company = None
                                 THEN Patch(db.contacts, contact, [company |-> company])
                                 ELSE db.contacts
                     lead == [NewLead(company, contact, form.owner,
                                 <<form.pipeline, form.stage>>, None, row.email)
                              EXCEPT !.form = s]
                     written == [db EXCEPT
                         !.companies = companies, !.contacts = contacts,
                         !.leads = Insert(@, l, lead),
                         !.submissions = Patch(@, s, [event |-> "PROCESSED", retryable |-> FALSE,
                                                      status |-> "ACCEPTED", lead |-> l])]
                 IN  IF \/ ~ValuesValid("LEAD", l, values) \/ ~TagsValid(tags)
                        \/ \E x \in row.values : ~FieldAccepts(x[1], x[2])
                     THEN FailEvent(p, FALSE, 0)
                     ELSE IF form.stage \notin DOMAIN db.stages \/ ~OnePrimary(contacts)
                     THEN FailEvent(p, TRUE, 0)
                     ELSE Proceed(p, SyncTags(SaveValues(written, l, values), l, tags), "form.publish",
                             [settles |-> FALSE, lead |-> l] @@ [x \in {"submission", "job"} |-> Arg(p)[x]], 0)
           \/ FailEvent(p, TRUE, 1)

\* After the commit.  When the event cannot be published the job throws, and
\* its next attempt finds the lead.
PublishLead(p) ==
    /\ At(p, "form.publish")
    /\ LET s == Arg(p).submission
       IN  \/ /\ announced' = announced \cup {<<"lead.created", Arg(p).lead>>}
              /\ db' = LET tables == IF Arg(p).settles
                                     THEN Written(s, [event |-> "PROCESSED", retryable |-> FALSE,
                                                      status |-> "ACCEPTED"])
                                     ELSE db
                       IN  IF Arg(p).job THEN [tables EXCEPT !.jobs[s] = 0] ELSE tables
              /\ request' = [request EXCEPT ![p] = Idle]
              /\ UNCHANGED env
           \/ Throw(p, Written(s, [event |-> "FAILED", retryable |-> TRUE,
                                   status |-> "PROCESSING"]), 1)

-----------------------------------------------------------------------------
FormsStep(p) ==
    \/ CreateForm(p) \/ UpdateForm(p) \/ RotateFormSecret(p) \/ ReceiveSubmission(p) \/ EnqueueSubmission(p)
    \/ FailEnqueue(p) \/ RetrySubmission(p) \/ RecoverSubmissions(p) \/ StartJob(p)
    \/ ReadEvent(p) \/ ClaimEvent(p) \/ WorkOnEvent(p) \/ WriteLead(p) \/ PublishLead(p)

FormRowsOK ==
    /\ \A f \in DOMAIN db.forms : db.forms[f] \in FormRow
    /\ \A s \in DOMAIN db.submissions : db.submissions[s] \in SubmissionRow
    /\ db.jobs \in [DOMAIN db.jobs -> 0..JobAttempts] /\ DOMAIN db.jobs \subseteq DOMAIN db.submissions

(* Properties *)

\* A submission makes one lead at most, and shows the one it made, whatever
\* its job, a test that processes it as well, retries, faults and deaths do,
\* as long as no one overwrote the state of its event unseen.
OneLeadPerSubmission ==
    \A s \in DOMAIN db.submissions :
        ~db.submissions[s].forced =>
            {l \in DOMAIN db.leads : db.leads[l].form = s}
                = {db.submissions[s].lead} \ {None}
=============================================================================
