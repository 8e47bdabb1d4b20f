--------------------------- MODULE MCAutomationRuns ---------------------------
(* Small instances of AutomationRuns for TLC. *)
EXTENDS AutomationRuns

Lists == {<<"task">>, <<"task", "upsert">>, <<"create", "upsert">>}

AllFaults == [kinds |-> {"queue", "database", "business", "worker"}, switching |-> FALSE,
              actions |-> <<"task">>, edits |-> {}, limit |-> 3,
              maxRetries |-> 0, maxFaults |-> 2, retries |-> 0, faults |-> 0]
Retrying == [AllFaults EXCEPT !.maxRetries = 1, !.maxFaults = 1]
TwoActions == [AllFaults EXCEPT !.actions = <<"task", "upsert">>]
Editing == [AllFaults EXCEPT !.kinds = {"database", "business"},
                             !.edits = {<<"create", "upsert">>}, !.limit = 1]
Switching == [AllFaults EXCEPT !.switching = TRUE, !.maxFaults = 1]

\* Each behaviour is in one of these environments.
RunEnvironments == {Retrying, TwoActions, Editing, Switching}
=============================================================================
