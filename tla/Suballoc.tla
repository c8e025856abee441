------------------------------ MODULE Suballoc ------------------------------
(***************************************************************************)
(* The suballocator of the IB pools (amdkcl/kcl_drm_suballoc.c, used by    *)
(* amdgpu_sa.c).  Suballocations are kept in a list ordered by offset;     *)
(* "hole" points at the last one allocated, and the next is tried behind   *)
(* it.  One that is freed stays in the list until its fence has signalled  *)
(* and a later allocation removes it.  An allocation that finds no room    *)
(* waits for a fence, or for a free when there is no fence, each time at   *)
(* most suballoc_timeout_ms.                                               *)
(*                                                                         *)
(* Between spin_lock and spin_unlock of wq.lock every pass of a loop is a  *)
(* step, as fences signal meanwhile.                                       *)
(***************************************************************************)
EXTENDS Integers, Sequences, FiniteSets, SequencesExt

CONSTANTS
    Threads,        \* callers
    Sas,            \* names for the drm_suballoc structures (bound)
    Queues,         \* the lists flist[i] (DRM_SUBALLOC_MAX_QUEUES)
    Size,           \* sa_manager->size
    Align,          \* sa_manager->align; callers pass align = 0
    Want,           \* Want[t]: the sizes that t may ask for
    Intr,           \* threads that wait interruptibly
    NoOne           \* no holder of wq.lock; no queue

ASSUME PoolAssumption ==
    /\ Sas \subseteq Nat
    /\ Size \in Nat \ {0} /\ Align \in Nat \ {0}
    /\ Want \in [Threads -> SUBSET (1 .. Size)]
    /\ Intr \subseteq Threads
    /\ NoOne \notin Threads /\ NoOne \notin Queues

VARIABLES
    olist,          \* all suballocations, in the order of the list
    hole,           \* position of sa_manager->hole in olist, 0 for the head
    soffset,        \* sa->soffset
    eoffset,        \* sa->eoffset
    fence,          \* the queue of sa->fence, or NoOne without a fence
    signaled,       \* suballocations whose fence has signalled
    flist,          \* freed suballocations with a fence, one list per queue
    lock,           \* the holder of wq.lock
    tries,          \* tries[i] of the holder
    pc, sa, size,   \* of each thread: place, its suballocation, its request
    waitset,        \* the fences that a thread waits for
    fini            \* the manager was torn down

listVars == <<olist, hole, soffset, eoffset>>
fenceVars == <<fence, signaled, flist>>
callVars == <<sa, size, fini>>
vars == <<listVars, fenceVars, lock, tries, pc, callVars, waitset>>

NoTries == [q \in Queues |-> 0]

Init ==
    /\ olist = <<>> /\ hole = 0
    /\ soffset = [s \in Sas |-> 0] /\ eoffset = [s \in Sas |-> 0]
    /\ fence = [s \in Sas |-> NoOne] /\ signaled = {}
    /\ flist = [q \in Queues |-> <<>>]
    /\ lock = NoOne /\ tries = NoTries
    /\ pc = [t \in Threads |-> "idle"]
    /\ sa = [t \in Threads |-> 0] /\ size = [t \in Threads |-> 1]
    /\ waitset = [t \in Threads |-> {}]
    /\ fini = FALSE

Goto(t, where) == pc' = [pc EXCEPT ![t] = where]

Unlock == lock' = NoOne /\ tries' = NoTries

(* The thread forgets its suballocation. *)
Forget(t) ==
    /\ sa' = [sa EXCEPT ![t] = 0]
    /\ size' = [size EXCEPT ![t] = 1]
    /\ UNCHANGED fini

-----------------------------------------------------------------------------
(* The list and the hole. *)

Index(s) == CHOOSE i \in 1 .. Len(olist) : olist[i] = s

Position(s, q) == CHOOSE i \in 1 .. Len(flist[q]) : flist[q][i] = s

(* Mutant: the entry stays in the list of its fence's queue. *)
RemoveKeepsFence(s, base) ==
    /\ olist' = RemoveAt(olist, Index(s))
    /\ hole' = IF base >= Index(s) THEN base - 1 ELSE base
    /\ soffset' = [soffset EXCEPT ![s] = 0]
    /\ eoffset' = [eoffset EXCEPT ![s] = 0]
    /\ fence' = [fence EXCEPT ![s] = NoOne]
    /\ signaled' = signaled \ {s}
    /\ UNCHANGED flist

(* Mutant: the hole stays at its place in the list. *)
RemoveKeepsHole(s, base) ==
    /\ olist' = RemoveAt(olist, Index(s))
    /\ hole' = base
    /\ soffset' = [soffset EXCEPT ![s] = 0]
    /\ eoffset' = [eoffset EXCEPT ![s] = 0]
    /\ fence' = [fence EXCEPT ![s] = NoOne]
    /\ signaled' = signaled \ {s}
    /\ flist' = IF fence[s] = NoOne THEN flist
                ELSE [flist EXCEPT ![fence[s]] =
                                       RemoveAt(@, Position(s, fence[s]))]

(* drm_suballoc_remove_locked, with the hole at base: the hole moves to the  *)
(* predecessor when it pointed at s, and s is given back with kfree.         *)
RemoveLocked(s, base) ==
    /\ olist' = RemoveAt(olist, Index(s))
    /\ hole' = IF base >= Index(s) THEN base - 1 ELSE base
    /\ soffset' = [soffset EXCEPT ![s] = 0]
    /\ eoffset' = [eoffset EXCEPT ![s] = 0]
    /\ fence' = [fence EXCEPT ![s] = NoOne]
    /\ signaled' = signaled \ {s}
    /\ flist' = IF fence[s] = NoOne THEN flist
                ELSE [flist EXCEPT ![fence[s]] =
                                       RemoveAt(@, Position(s, fence[s]))]

HoleSoffset == IF hole = 0 THEN 0 ELSE eoffset[olist[hole]]

HoleEoffset == IF hole < Len(olist) THEN soffset[olist[hole + 1]] ELSE Size

RoundUp(n) == ((n + Align - 1) \div Align) * Align

Wasted == RoundUp(HoleSoffset) - HoleSoffset

Fits(n) == HoleEoffset - HoleSoffset >= n + Wasted

(* __drm_suballoc_event *)
Event(t) == (\E q \in Queues : flist[q] # <<>>) \/ Fits(size[t])

-----------------------------------------------------------------------------
(* drm_suballoc_new *)

InList(s) == \E i \in 1 .. Len(olist) : olist[i] = s

Unused == {s \in Sas : ~InList(s) /\ \A t \in Threads :
                           pc[t] \notin {"idle", "hold"} => sa[t] # s}

(* The structure is allocated; names are used again, smallest first. *)
New(t) ==
    /\ pc[t] = "idle" /\ ~fini
    /\ \E n \in Want[t] : size' = [size EXCEPT ![t] = n]
    /\ \E s \in Unused : /\ \A u \in Unused : s <= u
                         /\ sa' = [sa EXCEPT ![t] = s]
    /\ Goto(t, "lock")
    /\ UNCHANGED <<listVars, fenceVars, lock, tries, waitset, fini>>

Lock(t) ==
    /\ pc[t] = "lock" /\ lock = NoOne
    /\ lock' = t
    /\ Goto(t, "free")
    /\ UNCHANGED <<tries, listVars, fenceVars, callVars, waitset>>

(* One pass of drm_suballoc_try_free. *)
TryFree(t) ==
    /\ pc[t] = "free"
    /\ IF hole < Len(olist) /\ olist[hole + 1] \in signaled
         THEN /\ RemoveLocked(olist[hole + 1], hole)
              /\ UNCHANGED pc
         ELSE /\ Goto(t, "alloc")
              /\ UNCHANGED <<listVars, fenceVars>>
    /\ UNCHANGED <<lock, tries, callVars, waitset>>

(* Mutant: the room is measured without the alignment. *)
TryAllocUnaligned(t) ==
    /\ pc[t] = "alloc"
    /\ IF HoleEoffset - HoleSoffset >= size[t]
         THEN /\ soffset' = [soffset EXCEPT ![sa[t]] = HoleSoffset + Wasted]
              /\ eoffset' = [eoffset EXCEPT ![sa[t]] =
                                 HoleSoffset + Wasted + size[t]]
              /\ olist' = InsertAt(olist, hole + 1, sa[t])
              /\ hole' = hole + 1
              /\ Unlock
              /\ Goto(t, "hold")
         ELSE /\ Goto(t, "next")
              /\ UNCHANGED <<listVars, lock, tries>>
    /\ UNCHANGED <<fenceVars, callVars, waitset>>

(* drm_suballoc_try_alloc *)
TryAlloc(t) ==
    /\ pc[t] = "alloc"
    /\ IF Fits(size[t])
         THEN /\ soffset' = [soffset EXCEPT ![sa[t]] = HoleSoffset + Wasted]
              /\ eoffset' = [eoffset EXCEPT ![sa[t]] =
                                 HoleSoffset + Wasted + size[t]]
              /\ olist' = InsertAt(olist, hole + 1, sa[t])
              /\ hole' = hole + 1
              /\ Unlock
              /\ Goto(t, "hold")
         ELSE /\ Goto(t, "next")
              /\ UNCHANGED <<listVars, lock, tries>>
    /\ UNCHANGED <<fenceVars, callVars, waitset>>

(* drm_suballoc_next_hole: at the end of the list go back to its beginning,  *)
(* ...                                                                       *)
NextHoleWrap(t) ==
    /\ pc[t] = "next" /\ hole = Len(olist)
    /\ hole' = 0
    /\ Goto(t, "free")
    /\ UNCHANGED <<olist, soffset, eoffset, fenceVars, lock, tries, callVars,
                   waitset>>

(* ... else take, of the first entries of the queues, the signalled one that *)
(* is the closest behind the hole, at most three times per queue, ...        *)
Listed == {q \in Queues : flist[q] # <<>>}

Candidates ==
    {q \in Listed : Head(flist[q]) \in signaled /\ tries[q] <= 2}

Distance(q) ==
    LET s == soffset[Head(flist[q])]
    IN  (IF s < HoleSoffset THEN s + Size ELSE s) - HoleSoffset

(* Mutant: an entry is skipped whether its fence has signalled or not. *)
NextHoleSkipBusy(t) ==
    /\ pc[t] = "next" /\ hole < Len(olist)
    /\ \E q \in Listed :
         /\ tries[q] <= 2
         /\ tries' = [tries EXCEPT ![q] = @ + 1]
         /\ RemoveLocked(Head(flist[q]), Index(Head(flist[q])) - 1)
    /\ Goto(t, "free")
    /\ UNCHANGED <<lock, callVars, waitset>>

NextHoleSkip(t) ==
    /\ pc[t] = "next" /\ hole < Len(olist)
    /\ \E q \in Candidates :
         /\ \A r \in Candidates : Distance(q) <= Distance(r)
         /\ tries' = [tries EXCEPT ![q] = @ + 1]
         /\ RemoveLocked(Head(flist[q]), Index(Head(flist[q])) - 1)
    /\ Goto(t, "free")
    /\ UNCHANGED <<lock, callVars, waitset>>

(* ... and without one wait, for the first fences of the queues, or for a    *)
(* free when there are none.                                                 *)
NextHoleWait(t) ==
    /\ pc[t] = "next" /\ hole < Len(olist) /\ Candidates = {}
    /\ LET oldest == {Head(flist[q]) : q \in Listed} \ signaled
       IN  /\ waitset' = [waitset EXCEPT ![t] = oldest]
           /\ Goto(t, IF oldest # {} THEN "fences" ELSE "event")
    /\ Unlock
    /\ UNCHANGED <<listVars, fenceVars, callVars>>

(* wait_event_timeout: the condition is tested under wq.lock with the        *)
(* thread on the wait queue.                                                 *)
EventCheck(t) ==
    /\ pc[t] = "event" /\ lock = NoOne
    /\ Goto(t, IF Event(t) THEN "lock" ELSE "asleep")
    /\ UNCHANGED <<listVars, fenceVars, lock, tries, callVars, waitset>>

(* A wait ends with an error, and the structure is given back. *)
Fail(t) ==
    /\ Goto(t, "idle")
    /\ Forget(t)
    /\ waitset' = [waitset EXCEPT ![t] = {}]
    /\ UNCHANGED <<listVars, fenceVars, lock, tries>>

(* Mutant: only the wait for fences is bounded. *)
ExpireFencesOnly(t) == pc[t] = "fences" /\ Fail(t)

(* suballoc_timeout_ms has passed: -ETIME, unless the condition of the       *)
(* no-fence wait is true by now.                                             *)
Expire(t) ==
    \/ pc[t] = "fences" /\ Fail(t)
    \/ /\ pc[t] \in {"event", "asleep"} /\ lock = NoOne
       /\ IF Event(t)
            THEN /\ Goto(t, "lock")
                 /\ UNCHANGED <<listVars, fenceVars, lock, tries, callVars,
                                waitset>>
            ELSE Fail(t)

(* A signal ends an interruptible wait with -ERESTARTSYS, unless the         *)
(* condition of the no-fence wait is true.                                   *)
Interrupt(t) ==
    /\ t \in Intr
    /\ \/ pc[t] = "fences"
       \/ pc[t] \in {"event", "asleep"} /\ lock = NoOne /\ ~Event(t)
    /\ Fail(t)

-----------------------------------------------------------------------------
(* drm_suballoc_free: without a fence, or with one that has signalled, the   *)
(* entry goes at once; else it waits in the list of its fence's queue.  Who  *)
(* sleeps on the wait queue is woken.                                        *)
Woken(t) ==
    pc' = [u \in Threads |-> IF u = t THEN "idle"
                             ELSE IF pc[u] = "asleep" THEN "event" ELSE pc[u]]

FreeNow(t) ==
    /\ pc[t] = "hold" /\ lock = NoOne
    /\ RemoveLocked(sa[t], hole)
    /\ Woken(t) /\ Forget(t)
    /\ UNCHANGED <<lock, tries, waitset>>

(* Mutant: nobody is woken. *)
FreeLaterSilently(t) ==
    /\ pc[t] = "hold" /\ lock = NoOne
    /\ \E q \in Queues :
         /\ fence' = [fence EXCEPT ![sa[t]] = q]
         /\ flist' = [flist EXCEPT ![q] = Append(@, sa[t])]
    /\ Goto(t, "idle") /\ Forget(t)
    /\ UNCHANGED <<listVars, signaled, lock, tries, waitset>>

FreeLater(t) ==
    /\ pc[t] = "hold" /\ lock = NoOne
    /\ \E q \in Queues :
         /\ fence' = [fence EXCEPT ![sa[t]] = q]
         /\ flist' = [flist EXCEPT ![q] = Append(@, sa[t])]
    /\ Woken(t) /\ Forget(t)
    /\ UNCHANGED <<listVars, signaled, lock, tries, waitset>>

(* The GPU finishes a job; contexts that share a queue may signal in any     *)
(* order.  The threads that wait for the fence go on.                        *)
Signal(s) ==
    /\ fence[s] # NoOne /\ s \notin signaled
    /\ signaled' = signaled \cup {s}
    /\ pc' = [t \in Threads |-> IF s \in waitset[t] THEN "lock" ELSE pc[t]]
    /\ waitset' = [t \in Threads |-> IF s \in waitset[t] THEN {}
                                     ELSE waitset[t]]
    /\ UNCHANGED <<listVars, fence, flist, lock, tries, callVars>>

(* drm_suballoc_manager_fini, when no caller is left: whatever is in the     *)
(* list is cleared, signalled or not.                                        *)
Fini ==
    /\ ~fini /\ \A t \in Threads : pc[t] = "idle"
    /\ fini' = TRUE
    /\ olist' = <<>> /\ hole' = 0
    /\ fence' = [s \in Sas |-> NoOne] /\ signaled' = {}
    /\ flist' = [q \in Queues |-> <<>>]
    /\ soffset' = [s \in Sas |-> 0] /\ eoffset' = [s \in Sas |-> 0]
    /\ UNCHANGED <<lock, tries, pc, sa, size, waitset>>

-----------------------------------------------------------------------------
Caller(t) == New(t) \/ FreeNow(t) \/ FreeLater(t) \/ Interrupt(t)

Run(t) ==
    \/ TryFree(t) \/ TryAlloc(t)
    \/ NextHoleWrap(t) \/ NextHoleSkip(t) \/ NextHoleWait(t)

Done == fini /\ UNCHANGED vars

Next ==
    \/ \E t \in Threads : Caller(t) \/ Lock(t) \/ Run(t) \/ EventCheck(t)
                            \/ Expire(t)
    \/ \E s \in Sas : Signal(s)
    \/ Fini \/ Done

Spec == Init /\ [][Next]_vars

(***************************************************************************)
(* Fairness: a holder of wq.lock runs, the spin lock is handed over, time  *)
(* passes.  No fence has ever to signal: the GPU may hang.                 *)
(***************************************************************************)
Fairness ==
    \A t \in Threads : /\ WF_vars(Run(t))
                       /\ SF_vars(Lock(t))
                       /\ SF_vars(EventCheck(t))
                       /\ SF_vars(Expire(t))

FairSpec == Spec /\ Fairness

-----------------------------------------------------------------------------
Inside == {"free", "alloc", "next"}

Waits == {"lock", "fences", "event", "asleep"} \cup Inside

ListTypes ==
    /\ olist \in Seq(Sas) /\ hole \in 0 .. Len(olist)
    /\ soffset \in [Sas -> 0 .. Size] /\ eoffset \in [Sas -> 0 .. Size]

FenceTypes ==
    /\ fence \in [Sas -> Queues \cup {NoOne}]
    /\ signaled \subseteq Sas
    /\ flist \in [Queues -> Seq(Sas)]

CallTypes ==
    /\ pc \in [Threads -> Waits \cup {"idle", "hold"}]
    /\ sa \in [Threads -> Sas \cup {0}]
    /\ size \in [Threads -> 1 .. Size]
    /\ waitset \in [Threads -> SUBSET Sas]
    /\ fini \in BOOLEAN

(* Type invariant *)
TypeOK ==
    /\ ListTypes /\ FenceTypes /\ CallTypes
    /\ lock \in Threads \cup {NoOne}
    /\ tries \in [Queues -> 0 .. 3]

(* The list stays ordered by offset, so that the difference of the two ends  *)
(* of the hole, an unsigned number in the code, is never taken below zero.   *)
ListOrdered ==
    /\ \A i \in 1 .. Len(olist) :
         soffset[olist[i]] < eoffset[olist[i]]
    /\ \A i, j \in 1 .. Len(olist) :
         i < j => eoffset[olist[i]] <= soffset[olist[j]]

(* Every entry of a fence list is an entry of the list of suballocations     *)
(* with a fence of that queue, and the other way round; no entry is freed    *)
(* memory.                                                                   *)
FencesListed ==
    /\ \A q \in Queues : ToSet(flist[q]) = {s \in Sas : fence[s] = q}
    /\ \A s \in Sas : fence[s] # NoOne => InList(s)

(* A thread that sleeps for a free has nothing else to wait for: as soon as  *)
(* a fence is there it is awake, and cannot miss it.                         *)
SleepersHaveNoFence ==
    \A t \in Threads : pc[t] = "asleep" => \A q \in Queues : flist[q] = <<>>

Pool == INSTANCE IbPool WITH
    range <- [s \in ToSet(olist) |-> [lo |-> soffset[s], hi |-> eoffset[s]]],
    handed <- {s \in Sas : fence[s] # NoOne},
    finished <- signaled,
    closed <- fini

(* The suballocator implements the pool: what a thread gets is aligned,      *)
(* inside the pool and used neither by another thread nor by a job whose     *)
(* fence has not signalled, and it stays so until the thread returns it or   *)
(* the job has finished.                                                     *)
PoolSpec == Pool!Spec

(* Every wait for room ends, after suballoc_timeout_ms at the latest: also   *)
(* when no fence ever signals, and whoever else asks, frees and wakes the    *)
(* thread meanwhile.                                                         *)
RoomWaitEnds ==
    \A t \in Threads : pc[t] \in {"fences", "event", "asleep"}
                           ~> pc[t] \notin {"fences", "event", "asleep"}
=============================================================================
