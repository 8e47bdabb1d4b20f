----------------------------- MODULE RuleBuilder -----------------------------
(***************************************************************************)
(* The editor of automation rules: what it offers, and the graphs that its *)
(* visual builder draws                                                    *)
(* (apps/web/src/components/settings/automations-settings.tsx, and the     *)
(* reference data it loads from automations.service.ts).                   *)
(*                                                                         *)
(* A trigger is named by its event: the code has one for each.  A node of  *)
(* a graph is [id, type, data], an edge [source, target, handle].  Titles, *)
(* notes and delays of actions, e-mail templates and the places of nodes   *)
(* are left out.  Absent is None.                                          *)
(***************************************************************************)
EXTENDS IntegrationSettings

TriggersOf ==
    "LEAD" :> {"lead.created", "lead.stage_changed", "lead.owner_changed"}
    @@ "DEAL" :> {"deal.created", "deal.stage_changed", "deal.owner_changed", "deal.won", "deal.lost"}
    @@ "PROJECT" :> {"project.created", "project.status_changed"}
    @@ "TASK" :> {"task.created", "task.status_changed", "task.overdue"}
    @@ "QUOTATION" :> {"quotation.created", "quotation.status_changed"}
    @@ "PAYMENT" :> {"payment.created"}
    @@ "CASE" :> {"case.created", "case.assigned", "case.status_changed", "case.priority_changed",
                  "case.resolved"}
RuleKinds == DOMAIN TriggersOf
Triggers == UNION {TriggersOf[kind] : kind \in RuleKinds}
KindOf(trigger) == CHOOSE kind \in RuleKinds : trigger \in TriggersOf[kind]

ConditionFields ==
    "LEAD" :> {"stageId", "ownerId", "priority", "tagIds", "pipelineId", "estimatedValue",
               "customField"}
    @@ "DEAL" :> {"stageId", "ownerId", "priority", "tagIds", "pipelineId", "amount", "customField"}
    @@ "PROJECT" :> {"status", "ownerId", "priority", "tagIds", "amount", "customField"}
    @@ "TASK" :> {"status", "ownerId", "priority"}
    @@ "QUOTATION" :> {"status", "ownerId", "amount"}
    @@ "PAYMENT" :> {"ownerId", "amount"}
    @@ "CASE" :> {"status", "ownerId", "priority"}
Empties == {"IS_EMPTY", "IS_NOT_EMPTY"}
Comparisons == {"GREATER_THAN", "LESS_THAN"}
NumericFields == {"amount", "estimatedValue"}

Tagged == {"LEAD", "DEAL", "PROJECT"}
StatusesOf(kind) ==
    CASE kind = "CASE" -> CaseStatuses
      [] kind = "PROJECT" -> ProjectStatuses
      [] kind = "TASK" -> TaskStatuses
      [] OTHER -> {"DRAFT", "SENT", "ACCEPTED", "REJECTED", "EXPIRED"}
WorkPriorities == {"MEDIUM", "URGENT"}
PrioritiesOf(kind) == IF kind = "CASE" THEN Priorities ELSE WorkPriorities

\* referenceData
Choices(kind) ==
    [users |-> ActiveUsers,
     tags |-> IF kind \in Tagged THEN DOMAIN db.tags ELSE {},
     pipelines |-> IF kind \in Kinds THEN LivePipelines(kind) ELSE {},
     customFields |-> IF kind \in Tagged THEN ActiveFields(kind) ELSE {},
     hooks |-> UsableHooks]

-----------------------------------------------------------------------------
(* The form *)

OperatorsFor(field) ==
    Empties \cup
    CASE field = "tagIds" -> {"CONTAINS"}
      [] field \in NumericFields -> {"EQUALS", "NOT_EQUALS"} \cup Comparisons
      [] field = "customField" -> {"EQUALS", "NOT_EQUALS", "CONTAINS"}
      [] OTHER -> {"EQUALS", "NOT_EQUALS"}

\* A custom field of choices offers its options; text is free.
ConditionValues(kind, field) ==
    CASE field = "ownerId" -> Choices(kind).users
      [] field = "tagIds" -> Choices(kind).tags
      [] field = "pipelineId" -> Choices(kind).pipelines
      [] field = "stageId" -> UNION {StagesOf(pl) : pl \in Choices(kind).pipelines}
      [] field = "priority" -> PrioritiesOf(kind)
      [] field = "status" -> StatusesOf(kind)
      [] field = "customField" -> {"option"}

\* An emptiness check has no value; a number is kept apart.
OfferedConditions(kind) ==
    UNION {UNION {[field : {field}, op : {op},
                   value : IF op \in Empties \/ field \in NumericFields THEN {None}
                           ELSE ConditionValues(kind, field),
                   number : IF op \in Empties \/ field \notin NumericFields THEN {None} ELSE Amounts,
                   definition : IF field = "customField" THEN Choices(kind).customFields ELSE {None}]
                  : op \in OperatorsFor(field)}
           : field \in ConditionFields[kind]}

\* Every type is offered for every kind; `None` for an owner is the record's.
OfferedActions(kind) ==
    [type : {"ADD_TAG", "REMOVE_TAG"}, tagId : Choices(kind).tags]
    \cup [type : {"ASSIGN_OWNER"}, ownerId : Choices(kind).users]
    \cup [type : {"CHANGE_PRIORITY"}, priority : PrioritiesOf(kind)]
    \cup [type : {"TRIGGER_WEBHOOK"}, hook : Choices(kind).hooks]
    \cup [type : {"SEND_EMAIL"},
          source : IF kind = "CASE" THEN {"CONTACT_EMAIL"} ELSE {"LEAD_EMAIL", "PRIMARY_CONTACT"}]
    \cup {[type |-> type] : type \in {"CREATE_TASK", "CREATE_FOLLOW_UP",
                                      "CREATE_SCHEDULED_ACTIVITY", "CREATE_NOTIFICATION"}}
    \cup [type : {"CREATE_TASK", "CREATE_FOLLOW_UP", "CREATE_NOTIFICATION"},
          ownerId : Choices(kind).users]

TransitionChoices(trigger) ==
    CASE trigger \in {"lead.stage_changed", "deal.stage_changed"} ->
            UNION {StagesOf(pl) : pl \in Choices(KindOf(trigger)).pipelines}
      [] trigger \in {"lead.owner_changed", "deal.owner_changed"} -> ActiveUsers
      [] trigger \in {"project.status_changed", "task.status_changed", "quotation.status_changed",
                      "case.status_changed"} -> StatusesOf(KindOf(trigger))
      [] OTHER -> {}
AnyChange == [from |-> None, to |-> None]

\* For a change of priority the editor offers the statuses, which the API
\* refuses.
OfferedTransitions(trigger) ==
    IF trigger = "case.priority_changed" THEN StatusesOf("CASE") ELSE TransitionChoices(trigger)
OfferedConfigs(trigger) ==
    [from : OrNone(OfferedTransitions(trigger)), to : OrNone(OfferedTransitions(trigger))]

BlankAction == [type |-> "CREATE_NOTIFICATION"]
BlankForm(kind, trigger) ==
    [kind |-> kind, trigger |-> trigger, config |-> AnyChange, conditions |-> <<>>,
     actions |-> <<BlankAction>>]

FormOf(x) == [part \in {"kind", "trigger", "config", "conditions", "actions"} |-> x[part]]

\* A new form with one part filled in.
OfferedForms ==
    UNION {
        UNION {{[BlankForm(kind, trigger) EXCEPT !.config = c] : c \in OfferedConfigs(trigger)}
               : trigger \in TriggersOf[kind]}
        \cup UNION {{[BlankForm(kind, trigger) EXCEPT !.conditions = <<c>>]
                       : c \in OfferedConditions(kind)}
                    \cup {[BlankForm(kind, trigger) EXCEPT !.actions = <<a>>]
                            : a \in OfferedActions(kind)}
                    : trigger \in {CHOOSE t \in TriggersOf[kind] : TRUE}}
        : kind \in RuleKinds}

-----------------------------------------------------------------------------
(* The visual builder *)

TriggerNode(form) ==
    [id |-> <<"trigger", 0>>, type |-> "trigger",
     data |-> [kind |-> form.kind, trigger |-> form.trigger, config |-> form.config]]
NodesOf(type, parts) ==
    [i \in DOMAIN parts |-> [id |-> <<type, i>>, type |-> type, data |-> parts[i]]]
Edge(source, target) == [source |-> source, target |-> target, handle |-> "true"]

\* The trigger, the conditions and the actions, one after another.
GraphOf(form) ==
    LET nodes == <<TriggerNode(form)>> \o NodesOf("condition", form.conditions)
                 \o NodesOf("action", form.actions)
    IN  [nodes |-> nodes,
         edges |-> [i \in 1..Len(nodes) - 1 |-> Edge(nodes[i].id, nodes[i + 1].id)]]

NodeIds(graph) == {graph.nodes[i].id : i \in DOMAIN graph.nodes}

\* A new node hangs on the one that was added last.
WithNode(graph, type, part) ==
    LET id == CHOOSE x \in {type} \X (1..Len(graph.nodes) + 1) : x \notin NodeIds(graph)
        last == graph.nodes[Len(graph.nodes)].id
    IN  [nodes |-> Append(graph.nodes, [id |-> id, type |-> type, data |-> part]),
         edges |-> Append(graph.edges, Edge(last, id))]

\* Its edges go with it, and what came after it is left alone.
WithoutNode(graph, id) ==
    [nodes |-> SelectSeq(graph.nodes, LAMBDA n : n.id # id),
     edges |-> SelectSeq(graph.edges, LAMBDA e : id \notin {e.source, e.target})]

\* A node leads to one other at most.
Connect(graph, source, target) ==
    [graph EXCEPT !.edges =
        Append(SelectSeq(@, LAMBDA e : e.source # source), Edge(source, target))]

WithTrigger(graph, kind, trigger, config) ==
    [graph EXCEPT !.nodes =
        [i \in DOMAIN @ |->
            IF @[i].type = "trigger"
            THEN [@[i] EXCEPT !.data = [kind |-> kind, trigger |-> trigger, config |-> config]]
            ELSE @[i]]]

\* One edit away.  A client other than the builder may leave out the
\* configuration of the trigger.
EditedGraphs(kind, graph) ==
    {WithNode(graph, "condition", c) : c \in OfferedConditions(kind)}
    \cup {WithNode(graph, "action", a) : a \in OfferedActions(kind)}
    \cup {WithoutNode(graph, id) : id \in NodeIds(graph) \ {<<"trigger", 0>>}}
    \cup {Connect(graph, e[1], e[2]) : e \in NodeIds(graph) \X NodeIds(graph)}
    \cup {WithTrigger(graph, KindOf(trigger), trigger, config) :
            trigger \in Triggers, config \in {AnyChange, None}}

\* The nodes on the way from the trigger, as positions; 0 once it has ended.
TriggerAt(graph) == CHOOSE i \in DOMAIN graph.nodes : graph.nodes[i].type = "trigger"
EdgesFrom(graph, id) == {e \in DOMAIN graph.edges : graph.edges[e].source = id}
Path(graph) ==
    LET After(i) ==
            LET out == EdgesFrom(graph, graph.nodes[i].id)
                last == CHOOSE e \in out : \A other \in out : other <= e
            IN  IF out = {} THEN 0
                ELSE CHOOSE j \in DOMAIN graph.nodes : graph.nodes[j].id = graph.edges[last].target
        path[n \in DOMAIN graph.nodes] ==
            IF n = 1 THEN TriggerAt(graph) ELSE IF path[n - 1] = 0 THEN 0 ELSE After(path[n - 1])
    IN  path

\* The parts along the path, up to where it ends or comes back.
PartsOf(graph, type) ==
    LET path == Path(graph)
        On(n) == /\ path[n] # 0 /\ \A m \in 1..n - 1 : path[m] # path[n]
                 /\ graph.nodes[path[n]].type = type
        places == SelectSeq([n \in DOMAIN path |-> n], On)
    IN  [i \in DOMAIN places |-> graph.nodes[path[places[i]]].data]
FormFrom(graph) ==
    LET actions == PartsOf(graph, "action")
    IN  [conditions |-> PartsOf(graph, "condition"),
         actions |-> IF actions = <<>> THEN <<BlankAction>> ELSE actions]
        @@ graph.nodes[TriggerAt(graph)].data

-----------------------------------------------------------------------------
(* The page: a form and a graph of one rule, of which one is shown *)

Loaded(row) == [mode |-> "visual", form |-> FormOf(row), graph |-> row.graph]

\* A tab that is opened is filled from the other one.  The history is a tab
\* too, and leaves both alone; the form is filled anew even when it is shown.
SwitchTo(page, mode) ==
    CASE mode = "visual" ->
            [page EXCEPT !.mode = mode, !.graph = IF page.mode = "form" THEN GraphOf(page.form) ELSE @]
      [] mode = "form" -> [page EXCEPT !.mode = mode, !.form = FormFrom(page.graph)]
      [] mode = "history" -> [page EXCEPT !.mode = mode]

\* Another kind clears the conditions, another trigger its configuration.
EditedForms(form) ==
    {[form EXCEPT !.kind = kind, !.trigger = CHOOSE t \in TriggersOf[kind] : TRUE,
                  !.config = AnyChange, !.conditions = <<>>] : kind \in RuleKinds}
    \cup {[form EXCEPT !.trigger = trigger, !.config = AnyChange] : trigger \in TriggersOf[form.kind]}
    \cup {[form EXCEPT !.config = config] : config \in OfferedConfigs(form.trigger)}
    \cup {[form EXCEPT !.conditions = Append(@, c)] : c \in OfferedConditions(form.kind)}
    \cup {[form EXCEPT !.conditions = <<>>]}
    \cup {[form EXCEPT !.actions = <<a>>] : a \in OfferedActions(form.kind)}

\* One edit, and the tabs before and after it.
Pages(row) ==
    LET drawn == {[Loaded(row) EXCEPT !.graph = g] : g \in EditedGraphs(row.kind, row.graph)}
        form == SwitchTo(Loaded(row), "form")
        filled == {[form EXCEPT !.form = f] : f \in EditedForms(form.form)}
    IN  drawn \cup filled
        \cup {SwitchTo(page, "form") : page \in drawn}
        \cup {SwitchTo(page, mode) : page \in filled, mode \in {"form", "visual", "history"}}

\* The configuration is sent with a trigger that is some change; the graph,
\* unless the form is shown.
IsChange(trigger) == OfferedTransitions(trigger) # {}
SavedBody(page) ==
    LET form == page.form
    IN  [kind |-> form.kind, trigger |-> form.trigger, conditions |-> form.conditions,
         actions |-> form.actions]
        @@ (IF IsChange(form.trigger) THEN [config |-> form.config] ELSE <<>>)
        @@ (IF page.mode = "form" THEN <<>> ELSE [graph |-> page.graph])
=============================================================================
