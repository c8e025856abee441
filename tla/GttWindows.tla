----------------------------- MODULE GttWindows -----------------------------
(***************************************************************************)
(* The GART copy windows of one GPU (amdgpu_ttm.c, kfd_migrate.c).         *)
(*                                                                         *)
(* A TTM copy, clear or fill takes a slot, which owns windows 2*slot and   *)
(* 2*slot+1, and for every chunk submits jobs that point a window at the   *)
(* chunk and then a job that copies through the window.  It gives the slot *)
(* back after SUBMITTING the jobs; the SDMA ring runs them later, in the   *)
(* order of submission (all of them go through the high_pr entity).        *)
(* An SVM migration uses window 0 under a lock of its own.                 *)
(***************************************************************************)
EXTENDS Integers, Sequences, FiniteSets

CONSTANTS
    Copiers,        \* threads in amdgpu_ttm_copy_mem_to_mem
    Fillers,        \* threads in amdgpu_ttm_clear_buffer / amdgpu_fill_buffer
    NoOne,          \* the holder of a free lock
    Migrators,      \* threads in svm_migrate_copy_memory_gart
    MultiWindow,    \* module parameter gtt_multi_window
    MaxSlots,       \* AMDGPU_GTT_MAX_SLOTS (5 in the driver)
    LockTimeouts,   \* values that gtt_lock_timeout_ms > 0 takes: writable
                    \* at run time and read by every acquisition
    ReservedPool,   \* reserved_copy_pool_mb > 0 and the pool was allocated
    NeedSets,       \* which sides of a copy may have to go through a window
    MaxChunks,      \* bound: chunks (loop iterations) of one operation
    MaxRing         \* bound: jobs waiting for the SDMA ring

Threads == Copiers \cup Fillers \cup Migrators

ASSUME ThreadsAssumption ==
    /\ Copiers \cap Fillers = {}
    /\ Copiers \cap Migrators = {}
    /\ Fillers \cap Migrators = {}
    /\ NoOne \notin Threads

ASSUME ParamAssumption ==
    /\ MultiWindow \in Int
    /\ MaxSlots \in Nat /\ MaxSlots > 1
    /\ ReservedPool \in BOOLEAN
    /\ MaxChunks \in Nat \ {0}
    /\ MaxRing \in Nat \ {0}

ASSUME ChoiceAssumption ==
    /\ LockTimeouts \subseteq BOOLEAN /\ LockTimeouts # {}
    /\ NeedSets \subseteq SUBSET {"src", "dst"} /\ {} \notin NeedSets

Lower(a, b) == IF a < b THEN a ELSE b

Clamp(x, lo, hi) == IF x < lo THEN lo ELSE Lower(x, hi)

(* Mutant: no slot is kept back for Plan C. *)
NumSlotsNoReserve == Clamp(MultiWindow, 1, MaxSlots)

(* gtt_num_slots: one slot is kept back when Plan C has a pool. *)
NumSlots ==
    IF ReservedPool THEN Lower(Clamp(MultiWindow, 1, MaxSlots), MaxSlots - 1)
                    ELSE Clamp(MultiWindow, 1, MaxSlots)

NumWindows == 2 * MaxSlots      \* AMDGPU_GTT_NUM_TRANSFER_WINDOWS

(* Mutant: the reserved slot shares the windows of the last ordinary one. *)
ReservedSlotShared == NumSlots - 1

ReservedSlot == NumSlots        \* Plan C copies through the slot after the last

VARIABLES
    pc,             \* where each thread is
    idx,            \* the slot a scan tries next
    slot,           \* the slot a thread holds, -1 for none
    left,           \* chunks the operation still has to submit
    needs,          \* which sides of the copy are not directly addressable
    expired,        \* the Plan B deadline has passed
    slotLock,       \* gtt_slot_locks[i]: the holder, or NoOne
    reservedLock,   \* reserved_copy_lock
    windowLock,     \* gtt_window_lock
    ring,           \* jobs submitted to the SDMA ring and not executed
    window          \* what each window points at: <<thread, chunk>>

vars == <<pc, idx, slot, left, needs, expired, slotLock, reservedLock,
          windowLock, ring, window>>

Unmapped == <<NoOne, 0>>

Tag(t) == <<t, left[t]>>

(* A job that goes through no window touches nothing modelled here. *)
Enqueue(job) ==
    IF job.win = {} THEN UNCHANGED ring ELSE ring' = Append(ring, job)

MapJob(t, w) == [op |-> "map", win |-> {w}, tag |-> Tag(t)]
UseJob(t, ws) == [op |-> "use", win |-> ws, tag |-> Tag(t)]

-----------------------------------------------------------------------------
(* amdgpu_ttm_init: locks free, windows not yet pointing anywhere. *)
Init ==
    /\ pc = [t \in Threads |-> "idle"]
    /\ idx = [t \in Threads |-> 0]
    /\ slot = [t \in Threads |-> -1]
    /\ left = [t \in Threads |-> 0]
    /\ needs = [t \in Threads |-> {}]
    /\ expired = [t \in Threads |-> FALSE]
    /\ slotLock = [i \in 0 .. MaxSlots - 1 |-> NoOne]
    /\ reservedLock = NoOne
    /\ windowLock = NoOne
    /\ ring = <<>>
    /\ window = [w \in 0 .. NumWindows - 1 |-> Unmapped]

Goto(t, l) == pc' = [pc EXCEPT ![t] = l]

Chunks == 1 .. MaxChunks

(***************************************************************************)
(* The start of amdgpu_ttm_copy_mem_to_mem.  A secure (tmz) copy never     *)
(* takes the reserved pool and never bypasses the windows.  A copy whose   *)
(* two sides are both addressable behaves as a fill does.                  *)
(***************************************************************************)
StartCopy(t) ==
    /\ t \in Copiers
    /\ pc[t] = "idle"
    /\ \E n \in Chunks, tmz \in BOOLEAN, s \in NeedSets :
          /\ tmz => s = {"src", "dst"}
          /\ left' = [left EXCEPT ![t] = n]
          /\ needs' = [needs EXCEPT ![t] = s]
          /\ IF ReservedPool /\ ~tmz /\ reservedLock = NoOne
               THEN /\ reservedLock' = t
                    /\ slot' = [slot EXCEPT ![t] = ReservedSlot]
                    /\ Goto(t, "map_src")
                    /\ UNCHANGED idx
               ELSE /\ idx' = [idx EXCEPT ![t] = 0]
                    /\ Goto(t, "plan_a")
                    /\ UNCHANGED <<reservedLock, slot>>
    /\ UNCHANGED <<expired, slotLock, windowLock, ring, window>>

(* Clears and fills run on VRAM, which the engine addresses directly. *)
StartFill(t) ==
    /\ t \in Fillers
    /\ pc[t] = "idle"
    /\ \E n \in Chunks : left' = [left EXCEPT ![t] = n]
    /\ needs' = [needs EXCEPT ![t] = {}]
    /\ idx' = [idx EXCEPT ![t] = 0]
    /\ Goto(t, "plan_a")
    /\ UNCHANGED <<slot, expired, slotLock, reservedLock, windowLock, ring,
                   window>>

(* Mutant: the result of the trylock is not looked at. *)
TrySlotUnchecked(t) ==
    /\ pc[t] \in {"plan_a", "plan_b"}
    /\ idx[t] < NumSlots
    /\ slotLock' = [slotLock EXCEPT ![idx[t]] = t]
    /\ slot' = [slot EXCEPT ![t] = idx[t]]
    /\ Goto(t, "map_src")
    /\ UNCHANGED <<idx, left, needs, expired, reservedLock, windowLock, ring,
                   window>>

(* amdgpu_ttm_acquire_slot: one mutex_trylock of the scan. *)
TrySlot(t) ==
    /\ pc[t] \in {"plan_a", "plan_b"}
    /\ idx[t] < NumSlots
    /\ IF slotLock[idx[t]] = NoOne
         THEN /\ slotLock' = [slotLock EXCEPT ![idx[t]] = t]
              /\ slot' = [slot EXCEPT ![t] = idx[t]]
              /\ Goto(t, "map_src")
              /\ idx' = [idx EXCEPT ![t] = 0]
              /\ expired' = [expired EXCEPT ![t] = FALSE]
         ELSE /\ idx' = [idx EXCEPT ![t] = @ + 1]
              /\ UNCHANGED <<slotLock, slot, pc, expired>>
    /\ UNCHANGED <<left, needs, reservedLock, windowLock, ring, window>>

(* Every slot was busy: Plan B, or a blocking lock of slot 0. *)
ScanFailed(t) ==
    /\ pc[t] \in {"plan_a", "plan_b"}
    /\ idx[t] >= NumSlots
    /\ idx' = [idx EXCEPT ![t] = 0]
    /\ \E timeout \in LockTimeouts :
          Goto(t, CASE pc[t] = "plan_b" -> "sleep"
                    [] pc[t] = "plan_a" /\ timeout -> "deadline"
                    [] OTHER -> "lock_0")
    /\ UNCHANGED <<slot, left, needs, expired, slotLock, reservedLock,
                   windowLock, ring, window>>

(* Mutant: the deadline is never looked at. *)
CheckDeadlineNever(t) ==
    /\ pc[t] = "deadline"
    /\ Goto(t, "plan_b")
    /\ UNCHANGED <<idx, slot, left, needs, expired, slotLock, reservedLock,
                   windowLock, ring, window>>

(* The Plan B loop condition. *)
CheckDeadline(t) ==
    /\ pc[t] = "deadline"
    /\ Goto(t, IF expired[t] THEN "eagain" ELSE "plan_b")
    /\ UNCHANGED <<idx, slot, left, needs, expired, slotLock, reservedLock,
                   windowLock, ring, window>>

(* schedule_timeout_interruptible; a pending signal ends the wait. *)
WakeUp(t) ==
    /\ pc[t] = "sleep"
    /\ \E l \in {"deadline", "restart"} : Goto(t, l)
    /\ UNCHANGED <<idx, slot, left, needs, expired, slotLock, reservedLock,
                   windowLock, ring, window>>

(* Time reaches the deadline of a thread in Plan B. *)
Expire(t) ==
    /\ pc[t] \in {"deadline", "plan_b", "sleep"}
    /\ ~expired[t]
    /\ expired' = [expired EXCEPT ![t] = TRUE]
    /\ UNCHANGED <<pc, idx, slot, left, needs, slotLock, reservedLock,
                   windowLock, ring, window>>

(* mutex_lock_interruptible(&gtt_slot_locks[0]) with no timeout. *)
LockSlot0(t) ==
    /\ pc[t] = "lock_0"
    /\ slotLock[0] = NoOne
    /\ slotLock' = [slotLock EXCEPT ![0] = t]
    /\ slot' = [slot EXCEPT ![t] = 0]
    /\ Goto(t, "map_src")
    /\ UNCHANGED <<idx, left, needs, expired, reservedLock, windowLock, ring,
                   window>>

(* A signal ends the wait for that lock; nobody promises that one comes. *)
LockInterrupted(t) ==
    /\ pc[t] = "lock_0"
    /\ slotLock[0] # NoOne
    /\ Goto(t, "restart")
    /\ UNCHANGED <<idx, slot, left, needs, expired, slotLock, reservedLock,
                   windowLock, ring, window>>

(* -EAGAIN or -ERESTARTSYS goes back to the caller; nothing is held. *)
GiveUp(t) ==
    /\ pc[t] \in {"eagain", "restart"}
    /\ left' = [left EXCEPT ![t] = 0]
    /\ needs' = [needs EXCEPT ![t] = {}]
    /\ expired' = [expired EXCEPT ![t] = FALSE]
    /\ Goto(t, "idle")
    /\ UNCHANGED <<idx, slot, slotLock, reservedLock, windowLock, ring,
                   window>>

-----------------------------------------------------------------------------
(***************************************************************************)
(* amdgpu_ttm_map_buffer, then amdgpu_copy_buffer or amdgpu_ttm_fill_mem,  *)
(* for one chunk.  Allocating a job can fail (fail), which ends the loop.  *)
(***************************************************************************)
Room == Len(ring) < MaxRing

Submit(t, job, next) ==
    \/ Room /\ ring' = Append(ring, job) /\ Goto(t, next)
    \/ UNCHANGED ring /\ Goto(t, "unlock")

WinOf(t, side) == IF side = "src" THEN 2 * slot[t] ELSE 2 * slot[t] + 1

MapSide(t, here, side, next) ==
    /\ pc[t] = here
    /\ IF side \in needs[t]
         THEN Submit(t, MapJob(t, WinOf(t, side)), next)
         ELSE Goto(t, next) /\ UNCHANGED ring
    /\ UNCHANGED <<idx, slot, left, needs, expired, slotLock, reservedLock,
                   windowLock, window>>

MapSrc(t) == MapSide(t, "map_src", "src", "map_dst")
MapDst(t) == MapSide(t, "map_dst", "dst", "use")

(* Mutant: a failed copy job returns without releasing the slot. *)
UseWindowsLeak(t) ==
    /\ pc[t] = "use"
    /\ LET job == UseJob(t, {WinOf(t, s) : s \in needs[t]})
       IN  \/ /\ Room
              /\ Enqueue(job)
              /\ left' = [left EXCEPT ![t] = @ - 1]
              /\ Goto(t, IF left[t] > 1 THEN "map_src" ELSE "unlock")
           \/ /\ UNCHANGED <<ring, left>>
              /\ Goto(t, "idle")
    /\ UNCHANGED <<idx, slot, needs, expired, slotLock, reservedLock,
                   windowLock, window>>

UseWindows(t) ==
    /\ pc[t] = "use"
    /\ LET job == UseJob(t, {WinOf(t, s) : s \in needs[t]})
       IN  \/ /\ Room
              /\ Enqueue(job)
              /\ left' = [left EXCEPT ![t] = @ - 1]
              /\ Goto(t, IF left[t] > 1 THEN "map_src" ELSE "unlock")
           \/ /\ UNCHANGED <<ring, left>>
              /\ Goto(t, "unlock")
    /\ UNCHANGED <<idx, slot, needs, expired, slotLock, reservedLock,
                   windowLock, window>>

(* The end of the operation: amdgpu_ttm_release_slot or the reserved lock. *)
ReleaseSlot(t) ==
    /\ pc[t] = "unlock"
    /\ IF slot[t] = ReservedSlot
         THEN reservedLock' = NoOne /\ UNCHANGED slotLock
         ELSE /\ slotLock' = [slotLock EXCEPT ![slot[t]] = NoOne]
              /\ UNCHANGED reservedLock
    /\ slot' = [slot EXCEPT ![t] = -1]
    /\ left' = [left EXCEPT ![t] = 0]
    /\ needs' = [needs EXCEPT ![t] = {}]
    /\ Goto(t, "idle")
    /\ UNCHANGED <<idx, expired, windowLock, ring, window>>

-----------------------------------------------------------------------------
(* svm_migrate_copy_memory_gart: gtt_window_lock, always window 0. *)
StartMigrate(t) ==
    /\ t \in Migrators
    /\ pc[t] = "idle"
    /\ windowLock = NoOne
    /\ windowLock' = t
    /\ \E n \in Chunks : left' = [left EXCEPT ![t] = n]
    /\ Goto(t, "svm_map")
    /\ UNCHANGED <<idx, slot, needs, expired, slotLock, reservedLock, ring,
                   window>>

(* svm_migrate_gart_map *)
SvmMap(t) ==
    /\ pc[t] = "svm_map"
    /\ \/ /\ Room
          /\ ring' = Append(ring, MapJob(t, 0))
          /\ Goto(t, "svm_copy")
       \/ /\ UNCHANGED ring
          /\ Goto(t, "svm_unlock")
    /\ UNCHANGED <<idx, slot, left, needs, expired, slotLock, reservedLock,
                   windowLock, window>>

SvmCopy(t) ==
    /\ pc[t] = "svm_copy"
    /\ \/ /\ Room
          /\ ring' = Append(ring, UseJob(t, {0}))
          /\ left' = [left EXCEPT ![t] = @ - 1]
          /\ Goto(t, IF left[t] > 1 THEN "svm_map" ELSE "svm_unlock")
       \/ /\ UNCHANGED <<ring, left>>
          /\ Goto(t, "svm_unlock")
    /\ UNCHANGED <<idx, slot, needs, expired, slotLock, reservedLock,
                   windowLock, window>>

SvmUnlock(t) ==
    /\ pc[t] = "svm_unlock"
    /\ windowLock' = NoOne
    /\ left' = [left EXCEPT ![t] = 0]
    /\ Goto(t, "idle")
    /\ UNCHANGED <<idx, slot, needs, expired, slotLock, reservedLock, ring,
                   window>>

(***************************************************************************)
(* The SDMA ring executes its oldest job.  A window is forgotten once a    *)
(* copy has gone through it, so that a later chunk of the same thread that *)
(* relied on an old mapping would be seen to do so.                        *)
(***************************************************************************)
RingExecute ==
    /\ ring # <<>>
    /\ ring' = Tail(ring)
    /\ window' = [w \in DOMAIN window |->
                    IF w \notin Head(ring).win THEN window[w]
                    ELSE IF Head(ring).op = "map" THEN Head(ring).tag
                    ELSE Unmapped]
    /\ UNCHANGED <<pc, idx, slot, left, needs, expired, slotLock,
                   reservedLock, windowLock>>

ThreadStep(t) ==
    \/ TrySlot(t) \/ ScanFailed(t) \/ CheckDeadline(t) \/ WakeUp(t)
    \/ GiveUp(t) \/ MapSrc(t) \/ MapDst(t) \/ UseWindows(t)
    \/ ReleaseSlot(t) \/ SvmMap(t) \/ SvmCopy(t) \/ SvmUnlock(t)

Next ==
    \/ \E t \in Threads :
          StartCopy(t) \/ StartFill(t) \/ StartMigrate(t) \/ Expire(t)
              \/ LockSlot0(t) \/ LockInterrupted(t) \/ ThreadStep(t)
    \/ RingExecute

Spec == Init /\ [][Next]_vars

-----------------------------------------------------------------------------
(* Fairness: a runnable thread runs, time passes, the engine makes progress, *)
(* and the kernel's mutex is handed to a sleeping waiter in the end.         *)
Fairness ==
    /\ \A t \in Threads :
          WF_vars(ThreadStep(t)) /\ WF_vars(Expire(t)) /\ SF_vars(LockSlot0(t))
    /\ WF_vars(RingExecute)

FairSpec == Spec /\ Fairness

Labels == {"idle", "plan_a", "plan_b", "deadline", "sleep", "lock_0", "eagain",
           "restart", "map_src", "map_dst", "use", "unlock", "svm_map",
           "svm_copy", "svm_unlock"}

Tags == (Threads \cup {NoOne}) \X (0 .. MaxChunks)

Jobs == [op : {"map", "use"}, win : SUBSET (0 .. NumWindows - 1), tag : Tags]

(* Type invariant. *)
TypeOK ==
    /\ pc \in [Threads -> Labels]
    /\ idx \in [Threads -> 0 .. MaxSlots]
    /\ slot \in [Threads -> -1 .. MaxSlots - 1]
    /\ left \in [Threads -> 0 .. MaxChunks]
    /\ needs \in [Threads -> SUBSET {"src", "dst"}]
    /\ expired \in [Threads -> BOOLEAN]
    /\ slotLock \in [0 .. MaxSlots - 1 -> Threads \cup {NoOne}]
    /\ reservedLock \in Threads \cup {NoOne}
    /\ windowLock \in Threads \cup {NoOne}
    /\ ring \in Seq(Jobs)
    /\ window \in [0 .. NumWindows - 1 -> Tags]

WindowsOf(t) == {2 * slot[t], 2 * slot[t] + 1}

(* Two operations that hold a slot at the same time, the reserved one of     *)
(* Plan C included, use different windows, and every window they use is one  *)
(* of the AMDGPU_GTT_NUM_TRANSFER_WINDOWS that the GTT manager keeps free.   *)
SlotWindowsDisjoint ==
    \A t \in Threads : slot[t] # -1 =>
        /\ WindowsOf(t) \subseteq 0 .. NumWindows - 1
        /\ \A u \in Threads \ {t} :
              slot[u] # -1 => WindowsOf(t) \cap WindowsOf(u) = {}

Holding == {"map_src", "map_dst", "use", "unlock"}
Migrating == {"svm_map", "svm_copy", "svm_unlock"}
Working == Labels \ {"idle", "unlock", "svm_unlock"}

(* What the program counter of t says about the locks it holds. *)
HoldsSlot(t) ==
    \/ slot[t] < NumSlots /\ slotLock[slot[t]] = t
    \/ slot[t] = ReservedSlot /\ ReservedPool /\ reservedLock = t

ThreadAgrees(t) ==
    /\ pc[t] \in Holding <=> slot[t] # -1
    /\ pc[t] \in Migrating <=> windowLock = t
    /\ slot[t] # -1 => HoldsSlot(t)
    /\ reservedLock = t => slot[t] = ReservedSlot

SlotAgrees(i) == slotLock[i] # NoOne => i < NumSlots /\ slot[slotLock[i]] = i

WorkLeft(t) == pc[t] \in Working => left[t] > 0

(* The locks and the program counters agree: a thread is past the            *)
(* acquisition of a slot exactly when it holds that slot's lock.             *)
LocksAgree ==
    /\ \A t \in Threads : ThreadAgrees(t)
    /\ \A i \in 0 .. MaxSlots - 1 : SlotAgrees(i)

IInv == TypeOK /\ LocksAgree /\ \A t \in Threads : WorkLeft(t)

(* What window w will point at when job i of the ring runs. *)
SeenBy(i, w) ==
    LET before == {j \in 1 .. i - 1 : ring[j].op = "map" /\ w \in ring[j].win}
    IN  IF before = {} THEN window[w]
        ELSE ring[CHOOSE j \in before : \A k \in before : k <= j].tag

(* Every copy submitted to the ring runs through the mapping that the same   *)
(* operation set up for the same chunk, although the slot was given back     *)
(* before the ring ran either job.                                           *)
CopiesThroughOwnMapping ==
    \A i \in 1 .. Len(ring) : ring[i].op = "use" =>
        \A w \in ring[i].win : SeenBy(i, w) = ring[i].tag

(* An operation that has ended, successfully or on any error path, holds     *)
(* neither a slot nor the reserved pool nor the window lock.                 *)
NoLockLeftBehind ==
    \A t \in Threads : pc[t] \in {"idle", "eagain", "restart"} =>
        /\ t # reservedLock /\ t # windowLock
        /\ \A i \in DOMAIN slotLock : slotLock[i] # t

(* Every operation ends, however busy the slots are: with a slot, with       *)
(* -EAGAIN once the deadline of gtt_lock_timeout_ms has passed, or, when no  *)
(* timeout is set, after the blocking lock of slot 0.                        *)
EveryOperationEnds == \A t \in Threads : pc[t] # "idle" ~> pc[t] = "idle"
=============================================================================
