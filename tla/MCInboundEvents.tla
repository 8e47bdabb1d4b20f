--------------------------- MODULE MCInboundEvents ---------------------------
(* Small instances of InboundEvents for TLC. *)
EXTENDS InboundEvents, TLC

NoWorkerDies == [kinds |-> {"queue", "database", "api"}, retries |-> 0, faults |-> 0,
                 maxRetries |-> 0, maxFaults |-> 2]
OneFault == [NoWorkerDies EXCEPT !.maxFaults = 1]
AllFaults == [NoWorkerDies EXCEPT !.kinds = @ \cup {"worker"}, !.maxRetries = 1]

\* Each behaviour is in one of these environments.
AllEnvironments == {NoWorkerDies, OneFault, AllFaults}
RetryEnvironments == {[OneFault EXCEPT !.maxRetries = 1]}
=============================================================================
