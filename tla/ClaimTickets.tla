---------------------------- MODULE ClaimTickets ----------------------------
(***************************************************************************)
(* What claiming a row before working on it promises, whatever the number  *)
(* of queue jobs, workers, retries and crashes: the work of an item is     *)
(* done under a ticket, tickets are numbered 1, 2, ..., one at a time, and *)
(* each is used at most once.  An attempt counter that only a successful   *)
(* compare-and-set increments is the ticket dispenser.                     *)
(***************************************************************************)
EXTENDS Naturals, Bags

CONSTANT Items

VARIABLES issued,  \* item -> number of the last ticket
          used     \* item -> the bag of tickets the work was done under

tvars == <<issued, used>>

Init ==
    /\ issued = [i \in Items |-> 0]
    /\ used = [i \in Items |-> EmptyBag]

Issue(i) ==
    /\ issued' = [issued EXCEPT ![i] = @ + 1]
    /\ UNCHANGED used

Use(i) ==
    /\ \E n \in (1..issued[i]) \ BagToSet(used[i]) :
          used' = [used EXCEPT ![i] = @ (+) SetToBag({n})]
    /\ UNCHANGED issued

Next == \E i \in Items : Issue(i) \/ Use(i)

Spec == Init /\ [][Next]_tvars
=============================================================================
