----------------------------- MODULE CrmRecords -----------------------------
(***************************************************************************)
(* The records of the CRM together: any request may run any operation of   *)
(* the modules this one extends, between the steps of the others.  A       *)
(* scenario says which tables there are to begin with and which operations *)
(* its requests are drawn from.                                            *)
(***************************************************************************)
EXTENDS RuleRuns

RequestStep(p) ==
    \/ TaggingStep(p) \/ PipelinesStep(p) \/ LeadsStep(p) \/ DirectoryStep(p)
    \/ DealsStep(p) \/ ProjectsStep(p) \/ ServiceStep(p) \/ FormsStep(p) \/ DataStep(p)
    \/ IntegrationsStep(p) \/ RulesStep(p) \/ RunsStep(p)
    \/ ("rule.publish" \notin env.ops /\ Announce(p)) \/ Die(p)

Next == NextDay \/ \E p \in Requests : RequestStep(p)

\* A request may never be made, and one that is may never get further: no
\* fairness is asked for, and nothing is promised but what a state shows.
Spec == Init /\ [][Next]_vars

\* Every row of every table is one that its module describes.
TypeOK ==
    /\ TaggingRowsOK /\ PipelineRowsOK /\ LeadRowsOK /\ DirectoryRowsOK /\ DealRowsOK
    /\ ProjectRowsOK /\ ServiceRowsOK /\ FormRowsOK /\ ImportRowsOK
    /\ IntegrationRowsOK /\ RuleRowsOK /\ RunRowsOK
=============================================================================
