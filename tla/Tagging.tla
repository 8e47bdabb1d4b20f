------------------------------- MODULE Tagging -------------------------------
(***************************************************************************)
(* Tags and custom fields, which every record can carry:                   *)
(* apps/api/src/tags/tags.service.ts and                                   *)
(* apps/api/src/custom-fields/custom-fields.service.ts.                    *)
(***************************************************************************)
EXTENDS CrmStore

CONSTANTS TagNames

EntityKinds == {"LEAD", "DEAL", "COMPANY", "CONTACT", "PROJECT"}
FieldTypes == {"TEXT", "SELECT"}
Texts == {"text", "option"}   \* what is not an option of any select field, and what is of all
Records(kind) ==
    CASE kind = "LEAD" -> db.leads [] kind = "DEAL" -> db.deals
      [] kind = "COMPANY" -> db.companies [] kind = "CONTACT" -> db.contacts
      [] kind = "PROJECT" -> db.projects

-----------------------------------------------------------------------------
(* Tags: db.tags maps a tag to its normalized name, db.tagged is the set of *)
(* <<tag, record>>.                                                         *)

TagNameFree(name, tag) == \A t \in DOMAIN db.tags \ {tag} : db.tags[t] # name

CreateTag(p) ==
    \/ /\ Called(p, "tag.create")
       /\ \E name \in TagNames : Begin(p, "tag.create", name)
    \/ /\ At(p, "tag.create") /\ HasRoom(Tags, db.tags)
       /\ CommitIf(p, TagNameFree(Arg(p), None),
             [db EXCEPT !.tags = Insert(@, Fresh(Tags, @), Arg(p))], <<>>)

UpdateTag(p) ==
    \/ /\ Called(p, "tag.update")
       /\ \E t \in DOMAIN db.tags, name \in TagNames :
          Begin(p, "tag.update", [tag |-> t, name |-> name])
    \/ /\ At(p, "tag.update")
       /\ LET t == Arg(p).tag
          IN  CommitIf(p, t \in DOMAIN db.tags /\ TagNameFree(Arg(p).name, t),
                 [db EXCEPT !.tags = [@ EXCEPT ![t] = Arg(p).name]], <<>>)

\* The database removes the assignments of a deleted tag.
RemoveTag(p) ==
    \/ /\ Called(p, "tag.remove")
       /\ \E t \in DOMAIN db.tags : Begin(p, "tag.remove", t)
    \/ /\ At(p, "tag.remove")
       /\ CommitIf(p, Arg(p) \in DOMAIN db.tags,
             [db EXCEPT !.tags = Without(@, {Arg(p)}),
                        !.tagged = {x \in @ : x[1] # Arg(p)}], <<>>)

AttachTag(p) ==
    \/ /\ Called(p, "tag.attach")
       /\ \E t \in DOMAIN db.tags, kind \in EntityKinds :
          \E x \in Live(Records(kind)) : Begin(p, "tag.attach", <<t, x>>)
    \/ /\ At(p, "tag.attach")
       /\ CommitIf(p, Arg(p)[1] \in DOMAIN db.tags,
             [db EXCEPT !.tagged = @ \cup {Arg(p)}], <<>>)

DetachTag(p) ==
    \/ /\ Called(p, "tag.detach")
       /\ \E x \in db.tagged : Begin(p, "tag.detach", x)
    \/ /\ At(p, "tag.detach")
       /\ CommitIf(p, Arg(p) \in db.tagged, [db EXCEPT !.tagged = @ \ {Arg(p)}], <<>>)

\* sync, inside the transaction that writes the record; None: not given.
TagInputs == {None} \cup SUBSET DOMAIN db.tags
TagsValid(tags) == tags = None \/ tags \subseteq DOMAIN db.tags
SyncTags(tables, id, tags) ==
    IF tags = None THEN tables
    ELSE [tables EXCEPT !.tagged = {x \in @ : x[2] # id} \cup tags \X {id}]

MatchingTag(tag) == {x[2] : x \in {y \in db.tagged : y[1] = tag}}

-----------------------------------------------------------------------------
(* Custom fields: db.fields has the definitions, db.values maps             *)
(* <<field, record>> to the type the stored value was validated against.    *)

FieldsOf(kind) == {f \in DOMAIN db.fields : db.fields[f].kind = kind}
ActiveFields(kind) == {f \in FieldsOf(kind) : db.fields[f].active}
\* Faulty variant of PositionsUnique: there is no such index.
PositionsAsGiven(fields, kind) == TRUE

\* Index custom_field_definitions (organization, entity, position).
PositionsUnique(fields, kind) ==
    \A f, g \in {h \in DOMAIN fields : fields[h].kind = kind} :
        fields[f].position = fields[g].position => f = g

\* The position is the number of definitions counted before the transaction;
\* the database refuses a position that is taken.
NewFields == [kind : {"LEAD", "DEAL"}, type : FieldTypes, required : BOOLEAN]

CreateField(p) ==
    \/ /\ Called(p, "field.create")
       /\ \E input \in NewFields :
          Begin(p, "field.create",
                [active |-> TRUE, position |-> Cardinality(FieldsOf(input.kind))] @@ input)
    \/ /\ At(p, "field.create") /\ HasRoom(Fields, db.fields)
       /\ LET fields == Insert(db.fields, Fresh(Fields, db.fields), Arg(p))
          IN  CommitIf(p, PositionsUnique(fields, Arg(p).kind),
                 [db EXCEPT !.fields = fields], <<>>)

FieldChanges ==
    Changes([type |-> FieldTypes, required |-> BOOLEAN, active |-> BOOLEAN])

\* The type cannot change once values are stored; they are counted before.
UpdateField(p) ==
    \/ /\ Called(p, "field.update")
       /\ \E f \in DOMAIN db.fields,
          change \in FieldChanges :
          /\ Given(change, "type", db.fields[f].type) # db.fields[f].type =>
                \A x \in DOMAIN db.values : x[1] # f
          /\ Begin(p, "field.update", [field |-> f, change |-> change])
    \/ /\ At(p, "field.update")
       /\ Commit(p, [db EXCEPT !.fields = Patch(@, Arg(p).field, Arg(p).change)], <<>>)

\* The request names every field that was there when it was checked, with
\* positions from zero; they are first moved out of the way.
ReorderFields(p) ==
    \/ /\ Called(p, "field.reorder")
       /\ \E kind \in {"LEAD", "DEAL"} :
          \E order \in [FieldsOf(kind) -> 0..(Cardinality(FieldsOf(kind)) - 1)] :
             /\ \A f, g \in FieldsOf(kind) : order[f] = order[g] => f = g
             /\ Begin(p, "field.reorder", [kind |-> kind, order |-> order])
    \/ /\ At(p, "field.reorder")
       /\ LET order == Arg(p).order
              fields == [f \in DOMAIN db.fields |->
                            IF f \in DOMAIN order
                            THEN [db.fields[f] EXCEPT !.position = order[f]]
                            ELSE db.fields[f]]
          IN  CommitIf(p, PositionsUnique(fields, Arg(p).kind),
                 [db EXCEPT !.fields = fields], <<>>)

\* saveValues, inside the transaction that writes the record: only active
\* fields can be set or cleared, and a required one must have a value.
ValueInputs(kind) ==
    {v \in [set : SUBSET ActiveFields(kind), clear : SUBSET ActiveFields(kind)] :
        v.set \cap v.clear = {}}
ValuesValid(kind, id, input) ==
    /\ input.set \cup input.clear \subseteq ActiveFields(kind)
    /\ \A f \in ActiveFields(kind) :
          db.fields[f].required =>
             f \notin input.clear /\ (f \in input.set \/ <<f, id>> \in DOMAIN db.values)
SaveValues(tables, id, input) ==
    [tables EXCEPT !.values =
        [x \in (DOMAIN @ \cup input.set \X {id}) \ (input.clear \X {id}) |->
            IF x \in input.set \X {id} THEN db.fields[x[1]].type ELSE @[x]]]

MatchingFields(kind, filter) ==
    {x \in DOMAIN Records(kind) :
        \A f \in filter : <<f, x>> \in DOMAIN db.values}

-----------------------------------------------------------------------------
TaggingStep(p) ==
    \/ CreateTag(p) \/ UpdateTag(p) \/ RemoveTag(p) \/ AttachTag(p) \/ DetachTag(p)
    \/ CreateField(p) \/ UpdateField(p) \/ ReorderFields(p)

TaggingRowsOK ==
    /\ db.tags \in [DOMAIN db.tags -> TagNames] /\ DOMAIN db.tags \subseteq Tags
    /\ \A t, u \in DOMAIN db.tags : db.tags[t] = db.tags[u] => t = u
    /\ db.tagged \subseteq (DOMAIN db.tags) \X Ids
    /\ DOMAIN db.fields \subseteq Fields
    /\ \A f \in DOMAIN db.fields :
          db.fields[f] \in [kind : EntityKinds, type : FieldTypes, required : BOOLEAN,
                            active : BOOLEAN, position : Nat]
    /\ \A x \in DOMAIN db.values : x[1] \in DOMAIN db.fields /\ db.values[x] \in FieldTypes

(* Properties *)

\* The positions of an entity's custom fields are 0, 1, 2, ... without a gap
\* or a tie, whatever requests create and reorder them at the same time.
PositionsContiguous ==
    \A kind \in EntityKinds :
        {db.fields[f].position : f \in FieldsOf(kind)} = 0..(Cardinality(FieldsOf(kind)) - 1)
=============================================================================
