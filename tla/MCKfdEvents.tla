---------------------------- MODULE MCKfdEvents ----------------------------
(* Instances of KfdEvents for TLC. *)
EXTENDS KfdEvents, TLC

CONSTANT w1

(* Signal events whose ids have the same low bits. *)
MCPartialId == [e \in SigIds |-> 1]

(* Every waiter names all the events. *)
MCWaitAll == [w \in Waiters |-> {Ids}]

(* Every waiter names the first signal event only. *)
MCWaitFirst == [w \in Waiters |-> {{1}}]
=============================================================================
