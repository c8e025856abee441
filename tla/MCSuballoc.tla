----------------------------- MODULE MCSuballoc -----------------------------
(* Instances of Suballoc for TLC. *)
EXTENDS Suballoc

CONSTANTS t1, t2

(* One thread asks for small ranges, the other for large ones too. *)
MCWant == [t \in Threads |-> IF t = t1 THEN {1} ELSE {1, 3}]
=============================================================================
