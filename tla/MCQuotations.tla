---------------------------- MODULE MCQuotations ----------------------------
(* Small instances of Quotations for TLC. *)
EXTENDS Quotations

NoFaults == [kinds |-> {}, maxFaults |-> 0, faults |-> 0]
DatabaseFaults == [NoFaults EXCEPT !.kinds = {"database"}, !.maxFaults = 1]
OtherFaults == [NoFaults EXCEPT !.kinds = {"storage", "process"}, !.maxFaults = 1]
PublishFaults == [NoFaults EXCEPT !.kinds = {"publish"}, !.maxFaults = 1]

\* Each behaviour is in one of these environments.
AllEnvironments == {NoFaults, DatabaseFaults, OtherFaults, PublishFaults}
CalmEnvironments == {NoFaults}
FailingPublish == {PublishFaults}
=============================================================================
