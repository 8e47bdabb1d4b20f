--------------------------- MODULE AutomationRules ---------------------------
(***************************************************************************)
(* Automation rules: apps/api/src/automations/automations.service.ts, from *)
(* the definition a caller sends to the row that is stored.                *)
(*                                                                         *)
(* db.rules is the table; db.limits are the runtime's: actions of a rule,  *)
(* runs of an organization, and the depth of a chain of rules.  A rule is  *)
(* drawn as a graph or filled in as a form, and stored as both.            *)
(***************************************************************************)
EXTENDS RuleBuilder

CONSTANTS Rules, RuleNames

-----------------------------------------------------------------------------
(* From a graph to a definition: compileGraph *)

GraphValid(graph) ==
    LET nodes == graph.nodes
        Count(type) == Cardinality({i \in DOMAIN nodes : nodes[i].type = type})
    IN  /\ Cardinality(NodeIds(graph)) = Len(nodes)
        /\ Count("trigger") = 1 /\ Count("action") > 0
        /\ \A e \in DOMAIN graph.edges :
              /\ graph.edges[e].source \in NodeIds(graph)
              /\ graph.edges[e].target
                     \in NodeIds(graph) \ {graph.edges[e].source, nodes[TriggerAt(graph)].id}
              /\ graph.edges[e].handle # "false"
        /\ \A id \in NodeIds(graph) : Cardinality(EdgesFrom(graph, id)) <= 1
        /\ {Path(graph)[n] : n \in DOMAIN nodes} = DOMAIN nodes
        /\ Len(graph.edges) = Len(nodes) - 1
        /\ \A m, n \in DOMAIN nodes :
              m < n /\ nodes[Path(graph)[m]].type = "action" => nodes[Path(graph)[n]].type = "action"

Compiled(graph) ==
    [conditions |-> PartsOf(graph, "condition"), actions |-> PartsOf(graph, "action"),
     graph |-> graph] @@ graph.nodes[TriggerAt(graph)].data

\* A form's graph is drawn for it.
Drawn(form) == [graph |-> GraphOf(form)] @@ form

-----------------------------------------------------------------------------
(* validateDefinition *)

\* Stages of archived pipelines are accepted too.
TransitionValues(trigger) ==
    IF trigger \in {"lead.stage_changed", "deal.stage_changed"}
    THEN StagesOfKind(KindOf(trigger)) ELSE TransitionChoices(trigger)
ConfigValid(trigger, config) ==
    config # None => {config.from, config.to} \ {None} \subseteq TransitionValues(trigger)

\* A check of tags for emptiness names no tag, and is refused for that.
ConditionValid(kind, c) ==
    /\ c.field \in ConditionFields[kind]
    /\ c.op \in Empties <=> c.value = None /\ c.number = None
    /\ c.op \in Comparisons => c.field \in NumericFields
    /\ c.op = "CONTAINS" => c.field \in {"tagIds", "customField"}
    /\ c.definition \in IF c.field = "customField" THEN ActiveFields(kind) ELSE {None}
    /\ c.field = "tagIds" => c.value \in DOMAIN db.tags
    /\ c.value # None =>
           c.value \in CASE c.field = "stageId" -> DOMAIN db.stages
                         [] c.field = "pipelineId" -> Live(db.pipelines)
                         [] OTHER -> ConditionValues(kind, c.field)

ActionKinds(type) ==
    CASE type \in {"ADD_TAG", "REMOVE_TAG"} -> Tagged
      [] type \in {"ASSIGN_OWNER", "CHANGE_PRIORITY"} -> Tagged \cup {"TASK", "CASE"}
      [] type = "CREATE_FOLLOW_UP" -> {"LEAD"}
      [] type = "CREATE_SCHEDULED_ACTIVITY" -> {"LEAD", "DEAL"}
      [] type = "SEND_EMAIL" -> {"LEAD", "CASE"}
      [] OTHER -> RuleKinds
AllowedKeys(type) ==
    CASE type \in {"ADD_TAG", "REMOVE_TAG"} -> {"tagId"}
      [] type \in {"ASSIGN_OWNER", "CREATE_FOLLOW_UP", "CREATE_NOTIFICATION"} -> {"ownerId"}
      [] type \in {"CREATE_TASK", "CREATE_SCHEDULED_ACTIVITY"} -> {"ownerId", "priority"}
      [] type = "CHANGE_PRIORITY" -> {"priority"}
      [] type = "TRIGGER_WEBHOOK" -> {"hook"}
      [] type = "SEND_EMAIL" -> {"source"}

\* What an action that creates something leaves out has a default.  The
\* priority of a new task is looked at when the rule runs.
ActionValid(kind, a) ==
    LET given == DOMAIN a \ {"type"}
    IN  /\ kind \in ActionKinds(a.type)
        /\ given \subseteq AllowedKeys(a.type)
        /\ a.type \in {"CREATE_TASK", "CREATE_FOLLOW_UP", "CREATE_SCHEDULED_ACTIVITY",
                       "CREATE_NOTIFICATION"} \/ given = AllowedKeys(a.type)
        /\ "tagId" \in given => a.tagId \in DOMAIN db.tags
        /\ "ownerId" \in given => a.ownerId \in ActiveUsers
        /\ "hook" \in given => a.hook \in UsableHooks
        /\ a.type = "CHANGE_PRIORITY" => a.priority \in PrioritiesOf(kind)
        /\ a.type = "SEND_EMAIL" =>
               (a.source = "CONTACT_EMAIL") = (kind = "CASE")

DefinitionValid(d) ==
    /\ d.trigger \in TriggersOf[d.kind]
    /\ ConfigValid(d.trigger, d.config)
    /\ \A i \in DOMAIN d.conditions : ConditionValid(d.kind, d.conditions[i])
    /\ \A i \in DOMAIN d.actions : ActionValid(d.kind, d.actions[i])
    /\ Len(d.actions) <= db.limits.actions

-----------------------------------------------------------------------------
(* The rules *)

\* A graph, when there is one, is what counts.
CreateRule(p) ==
    \/ /\ Called(p, "rule.create")
       /\ \E name \in RuleNames, active \in BOOLEAN, creator \in ActiveUsers,
          form \in OfferedForms :
          LET definition == Drawn(form)
          IN  /\ DefinitionValid(definition)
              /\ Begin(p, "rule.create",
                    [name |-> name, active |-> active, creator |-> creator] @@ definition)
    \/ /\ At(p, "rule.create") /\ HasRoom(Rules, db.rules)
       /\ CommitIf(p, NameFree(db.rules, Arg(p).name, None),
             [db EXCEPT !.rules = Insert(@, Fresh(Rules, @), Arg(p))], <<>>)

\* Faulty variant of RuleWritten: a configuration that asks for any change is
\* taken for one that is left out.
RuleWrittenOver(row, definition) ==
    [config |-> IF definition.config \in {None, AnyChange} THEN row.config ELSE definition.config]
    @@ definition @@ row

\* A configuration that the definition does not have leaves the old one.
RuleWritten(row, definition) ==
    [config |-> IF definition.config = None THEN row.config ELSE definition.config]
    @@ definition @@ row

\* Without a graph the form is drawn anew: what the body leaves out is as
\* it was read, and validated with the rest.
DefinitionOf(row, body) ==
    IF "graph" \in DOMAIN body THEN Compiled(body.graph) ELSE Drawn(FormOf(body @@ row))
BodyValid(row, body) ==
    /\ "graph" \in DOMAIN body => GraphValid(body.graph)
    /\ DefinitionValid(DefinitionOf(row, body))

RuleList == DOMAIN db.rules

\* From the editor, or from a list that renames rules and switches them.
UpdateRule(p) ==
    \/ /\ Called(p, "rule.update")
       /\ \E r \in RuleList :
          LET row == db.rules[r]
          IN  \E body \in {SavedBody(page) : page \in Pages(row)}
                          \cup Changes([name |-> RuleNames, active |-> BOOLEAN]) :
                 /\ BodyValid(row, body)
                 /\ Begin(p, "rule.update",
                       [rule |-> r,
                        definition |-> [name |-> Given(body, "name", row.name),
                                        active |-> Given(body, "active", row.active)]
                                       @@ DefinitionOf(row, body)])
    \/ /\ At(p, "rule.update")
       /\ LET r == Arg(p).rule
          IN  CommitIf(p, NameFree(db.rules, Arg(p).definition.name, r),
                 [db EXCEPT !.rules[r] = RuleWritten(@, Arg(p).definition)], <<>>)

-----------------------------------------------------------------------------
RulesStep(p) == CreateRule(p) \/ UpdateRule(p)

RuleRowsOK ==
    \A r \in DOMAIN db.rules :
        LET row == db.rules[r]
        IN  /\ DOMAIN row = {"name", "active", "creator", "kind", "trigger", "config",
                             "conditions", "actions", "graph"}
            /\ row.name \in RuleNames /\ row.active \in BOOLEAN /\ row.creator \in Users
            /\ NameFree(db.rules, row.name, r)
            /\ row.trigger \in TriggersOf[row.kind]

(* Properties *)

\* The editor shows the graph, while events are matched against the trigger
\* and its configuration, and a run executes the conditions and the actions:
\* however a rule is edited, as a form or as a graph, both are the same rule.
\* Excused is the configuration of a graph that has none, which only a client
\* other than the builder sends: the code keeps the one of the form.
FormsMatchGraphs ==
    \A r \in DOMAIN db.rules :
        LET row == db.rules[r]
            drawn == Compiled(row.graph)
        IN  /\ GraphValid(row.graph)
            /\ <<row.kind, row.trigger, row.conditions, row.actions>>
                   = <<drawn.kind, drawn.trigger, drawn.conditions, drawn.actions>>
            /\ drawn.config # None => row.config = drawn.config
=============================================================================
