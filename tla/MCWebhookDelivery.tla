-------------------------- MODULE MCWebhookDelivery --------------------------
(* Small instances of WebhookDelivery for TLC. *)
EXTENDS WebhookDelivery, TLC

\* Workers and job slots are interchangeable in the safety run.
Symmetric == Permutations(Workers) \cup Permutations(Jobs)

Quiescent == [demo |-> FALSE, settings |-> {}, retries |-> 0, faults |-> 0,
              maxRetries |-> 0, maxFaults |-> 0]
Retrying == [Quiescent EXCEPT !.maxRetries = 1]
Failing == [Quiescent EXCEPT !.maxFaults = 1, !.settings = EndpointStates]
Demonstrating == [Quiescent EXCEPT !.maxRetries = 1, !.maxFaults = 1, !.demo = TRUE]

\* Each behaviour is in one of these environments.
SafetyEnvironments == {Quiescent, Retrying, Failing, Demonstrating}
LivenessEnvironments ==
    {Quiescent, Retrying, [Failing EXCEPT !.settings = {"live", "off"}]}
=============================================================================
