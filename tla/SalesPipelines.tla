--------------------------- MODULE SalesPipelines ---------------------------
(***************************************************************************)
(* Sales pipelines and their stages:                                       *)
(* apps/api/src/pipelines/pipelines.service.ts.                            *)
(*                                                                         *)
(* db.pipelines and db.stages are the tables.  A stage is "open", "won" or *)
(* "lost": validateStages lets no stage be both.                           *)
(***************************************************************************)
EXTENDS Tagging

CONSTANT Layouts   \* the sequences of stage kinds that requests ask for

Kinds == {"LEAD", "DEAL"}
Outcomes == {"open", "won", "lost"}

\* validateStages: exactly one won and one lost stage; the positions are the
\* indexes and the names, which are as good as the ids, are distinct.
ValidLayout(layout) ==
    \A outcome \in {"won", "lost"} :
        Cardinality({i \in DOMAIN layout : layout[i] = outcome}) = 1

ASSUME LayoutsAreRequests == \A layout \in Layouts : layout \in Seq(Outcomes)

StagesOf(pl) == {s \in DOMAIN db.stages : db.stages[s].pipeline = pl}
FirstStage(pl) ==
    CHOOSE s \in StagesOf(pl) :
        \A t \in StagesOf(pl) : db.stages[s].position <= db.stages[t].position
HasStage(pl) == StagesOf(pl) # {}
LivePipelines(kind) == {pl \in Live(db.pipelines) : db.pipelines[pl].kind = kind}
Defaults(tables, kind) ==
    {pl \in Live(tables.pipelines) :
        tables.pipelines[pl].kind = kind /\ tables.pipelines[pl].default}

\* Index pipelines_one_active_default.
OneDefault(tables) == \A kind \in Kinds : Cardinality(Defaults(tables, kind)) <= 1

\* The stages of a layout, under the ids given.
StageRows(pl, ids, layout) ==
    [s \in {ids[i] : i \in DOMAIN layout} |->
        LET i == CHOOSE i \in DOMAIN layout : ids[i] = s
        IN  [pipeline |-> pl, position |-> i - 1, outcome |-> layout[i]]]

\* Sequences of different ids, as long as the layout.
IdSequences(ids, layout) ==
    {s \in [DOMAIN layout -> ids] : \A i, j \in DOMAIN layout : s[i] = s[j] => i = j}
FreshStages(layout) ==
    CHOOSE s \in IdSequences(Stages \ DOMAIN db.stages, layout) : TRUE
StageRoom(layout) == Cardinality(Stages \ DOMAIN db.stages) >= Len(layout)

WithNewPipeline(tables, kind, default, layout) ==
    LET pl == Fresh(Pipelines, tables.pipelines)
    IN  [tables EXCEPT
            !.pipelines = Insert(@, pl, [kind |-> kind, archived |-> FALSE, default |-> default]),
            !.stages = StageRows(pl, FreshStages(layout), layout) @@ @]

-----------------------------------------------------------------------------
\* DEFAULT_STAGES and DEFAULT_DEAL_STAGES, cut down to one stage of each kind.
DefaultLayout == <<"open", "won", "lost">>

\* ensureDefault when no default was found: the oldest live pipeline becomes
\* the default, or one is created.  list does this, and so does a request
\* that leaves the pipeline open, before it goes on.
EnsureDefault(p) ==
    \/ /\ Called(p, "pipeline.ensure")
       /\ \E kind \in Kinds :
          /\ Defaults(db, kind) = {}
          /\ \E fallback \in IF LivePipelines(kind) = {} THEN {None} ELSE LivePipelines(kind) :
                Begin(p, "pipeline.ensure", [kind |-> kind, fallback |-> fallback])
    \/ /\ At(p, "pipeline.ensure")
       /\ HasRoom(Pipelines, db.pipelines) /\ StageRoom(DefaultLayout)
       /\ LET tables == IF Arg(p).fallback = None
                        THEN WithNewPipeline(db, Arg(p).kind, TRUE, DefaultLayout)
                        ELSE [db EXCEPT !.pipelines[Arg(p).fallback].default = TRUE]
          IN  CommitIf(p, OneDefault(tables), tables, <<>>)

\* The pipeline and stage a new record starts in: the ones named, which are
\* given together, or the first stage of the default pipeline.
StartingPoints(kind) ==
    {x \in LivePipelines(kind) \X DOMAIN db.stages : x[2] \in StagesOf(x[1])}
    \cup {<<pl, FirstStage(pl)>> : pl \in {d \in Defaults(db, kind) : HasStage(d)}}

\* Faulty variant of ClearDefaults: the old default stays.
KeepDefaults(tables, kind) == tables

ClearDefaults(tables, kind) ==
    [tables EXCEPT !.pipelines = [pl \in DOMAIN @ |->
        IF pl \in Defaults(tables, kind) THEN [@[pl] EXCEPT !.default = FALSE] ELSE @[pl]]]

CreatePipeline(p) ==
    \/ /\ Called(p, "pipeline.create")
       /\ \E kind \in Kinds, default \in BOOLEAN, layout \in {l \in Layouts : ValidLayout(l)} :
          Begin(p, "pipeline.create", [kind |-> kind, default |-> default, layout |-> layout])
    \/ /\ At(p, "pipeline.create")
       /\ HasRoom(Pipelines, db.pipelines) /\ StageRoom(Arg(p).layout)
       /\ LET arg == Arg(p)
              cleared == IF arg.default THEN ClearDefaults(db, arg.kind) ELSE db
          IN  Commit(p, WithNewPipeline(cleared, arg.kind, arg.default, arg.layout), <<>>)

\* The default flag only moves by being given to another pipeline.
UpdatePipeline(p) ==
    \/ /\ Called(p, "pipeline.update")
       /\ \E pl \in Live(db.pipelines), change \in Changes([default |-> BOOLEAN]) :
          /\ ~(db.pipelines[pl].default /\ ~Given(change, "default", TRUE))
          /\ Begin(p, "pipeline.update",
                [pipeline |-> pl, change |-> change, was |-> db.pipelines[pl]])
    \/ /\ At(p, "pipeline.update")
       /\ LET arg == Arg(p)
              cleared == IF Given(arg.change, "default", FALSE) /\ ~arg.was.default
                         THEN ClearDefaults(db, arg.was.kind) ELSE db
              tables == [cleared EXCEPT !.pipelines = Patch(@, arg.pipeline, arg.change)]
          IN  CommitIf(p, OneDefault(tables), tables, <<>>)

ArchivePipeline(p) ==
    \/ /\ Called(p, "pipeline.archive")
       /\ \E pl \in Live(db.pipelines) :
          /\ ~db.pipelines[pl].default
          /\ \A l \in Live(db.leads) : db.leads[l].pipeline # pl
          /\ \A d \in Live(db.deals) : db.deals[d].pipeline # pl
          /\ Begin(p, "pipeline.archive", pl)
    \/ /\ At(p, "pipeline.archive")
       /\ Commit(p, [db EXCEPT !.pipelines[Arg(p)].archived = TRUE], <<>>)

\* Foreign keys keep the stage of a record or a form from being deleted.
InUse(s) ==
    \/ \E l \in DOMAIN db.leads : db.leads[l].stage = s
    \/ \E d \in DOMAIN db.deals : db.deals[d].stage = s
    \/ \E f \in DOMAIN db.forms : db.forms[f].stage = s

\* The stages a request sends: ids it keeps, and None for the new ones.
StageInputs(pl, layout) ==
    {s \in [DOMAIN layout -> OrNone(StagesOf(pl))] :
        \A i, j \in DOMAIN layout : s[i] = s[j] /\ s[i] # None => i = j}

\* What replaceStages leaves behind: every stage of the pipeline that the
\* request does not keep by its id is deleted, the ones it has just created
\* among them.
StagesWritten(arg) ==
    LET kept == {arg.ids[i] : i \in DOMAIN arg.ids} \ {None}
    IN  [s \in kept |->
            LET i == CHOOSE i \in DOMAIN arg.ids : arg.ids[i] = s
            IN  [pipeline |-> arg.pipeline, position |-> i - 1, outcome |-> arg.layout[i]]]
        @@ Without(db.stages, StagesOf(arg.pipeline))

\* The records of a stage are counted before the transaction.  It fails when
\* a stage it read is gone, when a position is taken by one it did not read,
\* and when a stage to delete has got a record or a form.
ReplaceStages(p) ==
    \/ /\ Called(p, "pipeline.stages")
       /\ \E pl \in Live(db.pipelines), layout \in {l \in Layouts : ValidLayout(l)} :
          \E ids \in StageInputs(pl, layout) :
             /\ \A s \in StagesOf(pl) \ {ids[i] : i \in DOMAIN ids} :
                   /\ \A l \in DOMAIN db.leads : db.leads[l].stage # s
                   /\ \A d \in DOMAIN db.deals : db.deals[d].stage # s
             /\ Begin(p, "pipeline.stages",
                   [pipeline |-> pl, layout |-> layout, ids |-> ids, read |-> StagesOf(pl)])
    \/ /\ At(p, "pipeline.stages")
       /\ LET arg == Arg(p)
              stages == StagesWritten(arg)
          IN  CommitIf(p,
                 /\ arg.read \subseteq StagesOf(arg.pipeline)
                 /\ \A s \in StagesOf(arg.pipeline) \ arg.read :
                       db.stages[s].position >= Len(arg.layout)
                 /\ \A s \in DOMAIN db.stages \ DOMAIN stages : ~InUse(s),
                 [db EXCEPT !.stages = stages], <<>>)

-----------------------------------------------------------------------------
PipelinesStep(p) ==
    \/ EnsureDefault(p) \/ CreatePipeline(p) \/ UpdatePipeline(p)
    \/ ArchivePipeline(p) \/ ReplaceStages(p)

PipelineRowsOK ==
    /\ DOMAIN db.pipelines \subseteq Pipelines /\ DOMAIN db.stages \subseteq Stages
    /\ \A pl \in DOMAIN db.pipelines :
          db.pipelines[pl] \in [kind : Kinds, archived : BOOLEAN, default : BOOLEAN]
    /\ \A s \in DOMAIN db.stages :
          db.stages[s] \in [pipeline : DOMAIN db.pipelines, position : Nat, outcome : Outcomes]
    /\ OneDefault(db)

(* Properties *)

\* "A pipeline requires exactly one won stage and one lost stage" (the check
\* of validateStages), said of the pipelines that requests can work with.
PipelinesCanBeWonAndLost ==
    \A pl \in Live(db.pipelines), outcome \in {"won", "lost"} :
        Cardinality({s \in StagesOf(pl) : db.stages[s].outcome = outcome}) = 1
=============================================================================
