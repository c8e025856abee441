------------------------------- MODULE IbPool -------------------------------
(***************************************************************************)
(* What drm_suballoc promises its callers: a pool of Size units from which *)
(* aligned ranges are taken.  A range belongs to the thread that asked for *)
(* it, then to the GPU job it was handed to; it comes back when the thread *)
(* returns it or some time after the job has finished, and no two ranges   *)
(* overlap.                                                                *)
(***************************************************************************)
EXTENDS Integers, Functions

CONSTANTS
    Sas,            \* names of suballocations
    Size,           \* length of the pool
    Align           \* alignment of every range

VARIABLES
    range,          \* the ranges taken, each from lo up to, not with, hi
    handed,         \* those that were handed to a job ...
    finished,       \* ... that has finished
    closed          \* the pool was torn down

vars == <<range, handed, finished, closed>>

Ranges == {r \in [lo : 0 .. Size, hi : 0 .. Size] :
              r.lo < r.hi /\ r.lo % Align = 0}

Disjoint(a, b) == a.hi <= b.lo \/ b.hi <= a.lo

Init == range = <<>> /\ handed = {} /\ finished = {} /\ closed = FALSE

Take(s, r) ==
    /\ ~closed /\ s \notin DOMAIN range
    /\ \A u \in DOMAIN range : Disjoint(r, range[u])
    /\ range' = [u \in DOMAIN range \cup {s} |->
                    IF u = s THEN r ELSE range[u]]
    /\ UNCHANGED <<handed, finished, closed>>

(* The thread is done with its range and no job uses it. *)
Return(s) ==
    /\ s \in DOMAIN range \ handed
    /\ range' = Restrict(range, DOMAIN range \ {s})
    /\ UNCHANGED <<handed, finished, closed>>

Hand(s) ==
    /\ s \in DOMAIN range \ handed
    /\ handed' = handed \cup {s}
    /\ UNCHANGED <<range, finished, closed>>

Finish(s) ==
    /\ s \in handed \ finished
    /\ finished' = finished \cup {s}
    /\ UNCHANGED <<range, handed, closed>>

Reclaim(s) ==
    /\ s \in finished
    /\ range' = Restrict(range, DOMAIN range \ {s})
    /\ handed' = handed \ {s} /\ finished' = finished \ {s}
    /\ UNCHANGED closed

(* No thread has a range any more. *)
Close ==
    /\ ~closed /\ DOMAIN range = handed
    /\ closed' = TRUE
    /\ range' = <<>> /\ handed' = {} /\ finished' = {}

Next ==
    \/ \E s \in Sas, r \in Ranges : Take(s, r)
    \/ \E s \in Sas : Return(s) \/ Hand(s) \/ Finish(s) \/ Reclaim(s)
    \/ Close

Spec == Init /\ [][Next]_vars
=============================================================================
