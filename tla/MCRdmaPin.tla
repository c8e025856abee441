----------------------------- MODULE MCRdmaPin -----------------------------
(* Instances of RdmaPin for TLC. *)
EXTENDS RdmaPin, TLC

CONSTANTS b1, b2, c1, c2, c3

(* A BO of two units and, under the same limit, one of one unit. *)
MCSize == [b \in BOs |-> IF b = b2 THEN 1 ELSE 2]
CtxSymmetry == Permutations(Ctxs)
=============================================================================
