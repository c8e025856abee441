------------------------------ MODULE RdmaPin ------------------------------
(***************************************************************************)
(* RDMA pins of the buffer objects (BOs) of one KFD process on one GPU.    *)
(*                                                                         *)
(* The InfiniBand stack drives a memory context through the PeerDirect     *)
(* bridge (kfd_peerdirect.c): acquire, get_pages, dma_map, dma_unmap,      *)
(* put_pages, release.  get_pages pins the BO and charges its size to a    *)
(* per-GPU quota once per BO (amdgpu_amdkfd_gpuvm.c).  The process may     *)
(* free a BO that is still pinned; the BO is then queued as an orphan and  *)
(* the reaper (amdgpu_kfd_rdma_v155.c) takes its pins away.                *)
(*                                                                         *)
(* Everything the code does between reserving a BO and unreserving it is   *)
(* one step, except where the code waits with the BO reserved and where    *)
(* the order against the quota counter, which no reservation protects,     *)
(* can be seen by another BO.                                              *)
(***************************************************************************)
EXTENDS Integers, Sequences, FiniteSets, Functions

CONSTANTS
    BOs,            \* buffer objects (addresses: a freed one is used again)
    VramBOs,        \* the ones whose domain is VRAM; the others are in GTT
    Size,           \* amdgpu_bo_size, in units of the quota
    Ctxs,           \* amd_mem_context slots, each driven by one thread
    NoBO, NoOne,    \* no BO; nobody holds the reservation
    Freer,          \* the thread in amdgpu_amdkfd_gpuvm_free_memory_of_gpu
    Limit,          \* dmabuf_pin_max_mb, 0 = unlimited
    MaxRetry,       \* attempts at a pin that answers -EAGAIN (5 in the driver)
    FreeWait,       \* kfd_free_on_pinned >= 1 and kfd_free_wait_ms > 0
    OrphanTimeout,  \* pin_orphan_timeout_ms > 0
    KillSwitch,     \* dmabuf_reject_new_pins may be on
    AllocFails,     \* kzalloc of an orphan entry may fail
    CanStop,        \* the device may be removed (amdgpu_kfd_reaper_stop)
    Signals,        \* where a signal may interrupt amdgpu_bo_reserve
    MaxLost,        \* bound: pins of a BO beyond which no more unpin is lost
    MaxReuse        \* bound: how often a released BO's address is used again

ASSUME BOAssumption ==
    /\ IsFiniteSet(BOs) /\ IsFiniteSet(Ctxs)
    /\ VramBOs \subseteq BOs
    /\ Size \in [BOs -> Nat \ {0}]
    /\ NoBO \notin BOs
    /\ NoOne \notin Ctxs /\ Freer \notin Ctxs /\ NoOne # Freer

ASSUME PinParamAssumption ==
    /\ Limit \in Nat
    /\ MaxRetry \in Nat \ {0}
    /\ MaxReuse \in Nat /\ MaxLost \in Nat
    /\ FreeWait \in BOOLEAN /\ OrphanTimeout \in BOOLEAN
    /\ KillSwitch \in BOOLEAN /\ AllocFails \in BOOLEAN
    /\ CanStop \in BOOLEAN
    /\ Signals \subseteq {"get", "put", "free", "stop"}

VARIABLES
    alive,          \* the process still has its handle
    refs,           \* GEM references
    lock,           \* holder of the reservation (dma_resv) of each BO
    pin_count,      \* tbo.pin_count
    charged,        \* kgd_mem.rdma_quota_charged; rdma_quota_bytes is then Size
    quota_pins,     \* kgd_mem.rdma_quota_pin_count
    reused,         \* how often a BO was allocated again
    rdma_pinned,    \* adev->kfd.rdma_pinned_bytes
    clamped,        \* rdma_pin_accounting_underflow > 0
    vram_pinned,    \* adev->kfd.vram_pinned
    vram_pin_size,  \* adev->vram_pin_size
    cpc,            \* what each context has reached
    cbo,            \* mem_context->bo
    accounted,      \* pin_bo's rdma_accounted
    again,          \* pin_bo answered -EAGAIN
    tries,          \* attempts so far
    revoked,        \* history: contexts whose pin the reaper took away
    outstanding,    \* amd_rdma_context_outstanding
    active,         \* compute_profile: contexts that keep the device active
    reject,         \* the BO in the reject cache
    freeing,        \* the BO being freed (the process mutex), or NoBO
    fpc,            \* where that free is
    orphans,        \* adev->kfd.orphan_list
    reap,           \* the list the reaper took for this round
    started         \* reaper_started

boVars == <<alive, refs, reused>>
pinVars == <<pin_count, charged, quota_pins>>
sumVars == <<rdma_pinned, clamped, vram_pinned, vram_pin_size>>
callVars == <<accounted, again, tries>>
ctxVars == <<cpc, cbo, revoked, outstanding, active, reject>>
freeVars == <<freeing, fpc>>
reapVars == <<orphans, reap, started>>

vars == <<boVars, lock, pinVars, sumVars, callVars, ctxVars, freeVars,
          reapVars>>

Init ==
    /\ alive = [b \in BOs |-> TRUE]
    /\ refs = [b \in BOs |-> 1]
    /\ reused = 0
    /\ lock = [b \in BOs |-> NoOne]
    /\ pin_count = [b \in BOs |-> 0]
    /\ charged = [b \in BOs |-> FALSE]
    /\ quota_pins = [b \in BOs |-> 0]
    /\ rdma_pinned = 0 /\ clamped = FALSE
    /\ vram_pinned = 0 /\ vram_pin_size = 0
    /\ accounted = [c \in Ctxs |-> FALSE]
    /\ again = [c \in Ctxs |-> FALSE]
    /\ tries = [c \in Ctxs |-> 0]
    /\ cpc = [c \in Ctxs |-> "none"]
    /\ cbo = [c \in Ctxs |-> NoBO]
    /\ revoked = {}
    /\ outstanding = 0 /\ active = 0
    /\ reject = NoBO
    /\ freeing = NoBO /\ fpc = "none"
    /\ orphans = <<>> /\ reap = <<>>
    /\ started = TRUE

Goto(c, l) == cpc' = [cpc EXCEPT ![c] = l]

Bytes(b) == IF b \in VramBOs THEN Size[b] ELSE 0

(* amdgpu_bo_reserve(bo, false) fails with a signal, and only when it has to *)
(* wait; the reaper, a kernel worker, gets none.                             *)
Interrupted(where, b) == where \in Signals /\ lock[b] # NoOne

-----------------------------------------------------------------------------
(* The quota counter (try_charge, drop, drop_saturated). *)

(* Mutant: every pin of a BO is charged. *)
NeedsChargeEveryPin(b) == Limit > 0 /\ b \in VramBOs

NeedsCharge(b) == Limit > 0 /\ b \in VramBOs /\ ~charged[b]

Fits(b) == rdma_pinned <= Limit /\ Size[b] <= Limit - rdma_pinned

(* Both copies of the saturating drop: an underflow is clamped and counted. *)
QuotaDrop(bytes) ==
    IF Limit = 0 \/ bytes = 0
      THEN UNCHANGED <<rdma_pinned, clamped>>
      ELSE IF rdma_pinned < bytes
        THEN rdma_pinned' = 0 /\ clamped' = TRUE
        ELSE rdma_pinned' = rdma_pinned - bytes /\ UNCHANGED clamped

-----------------------------------------------------------------------------
(* The PeerDirect client. *)

(* amd_acquire, under the process mutex that a free holds throughout. *)
Acquire(c, b) ==
    /\ cpc[c] = "none"
    /\ alive[b]
    /\ freeing = NoBO
    /\ refs' = [refs EXCEPT ![b] = @ + 1]
    /\ cbo' = [cbo EXCEPT ![c] = b]
    /\ outstanding' = outstanding + 1
    /\ Goto(c, "acquired")
    /\ UNCHANGED <<alive, reused, lock, pinVars, sumVars, callVars, revoked,
                   active, reject, freeVars, reapVars>>

(* Mutant: the context keeps pointing at the BO it gave up. *)
FailGetPagesKeepsBo(c) ==
    /\ refs' = [refs EXCEPT ![cbo[c]] = @ - 1]
    /\ outstanding' = outstanding - 1
    /\ tries' = [tries EXCEPT ![c] = 0]
    /\ Goto(c, "failed")
    /\ UNCHANGED cbo

(* amd_rdma_release_bo_ref_once after a failed get_pages: the context stays, *)
(* without its BO.                                                           *)
FailGetPages(c) ==
    /\ refs' = [refs EXCEPT ![cbo[c]] = @ - 1]
    /\ cbo' = [cbo EXCEPT ![c] = NoBO]
    /\ outstanding' = outstanding - 1
    /\ tries' = [tries EXCEPT ![c] = 0]
    /\ Goto(c, "failed")

(* -ENOSPC is remembered for a second (amd_rdma_reject_note). *)
RejectPin(c) == FailGetPages(c) /\ reject' = cbo[c]

(* amd_get_pages up to the pin: a wrong address or size, or a cached reject, *)
(* ends it.                                                                  *)
GetPages(c) ==
    /\ cpc[c] = "acquired"
    /\ \/ FailGetPages(c)
       \/ /\ reject # cbo[c]
          /\ Goto(c, "pin")
          /\ UNCHANGED <<refs, cbo, outstanding, tries>>
    /\ UNCHANGED <<alive, reused, lock, pinVars, sumVars, accounted, again,
                   revoked, active, reject, freeVars, reapVars>>

(* amdgpu_amdkfd_gpuvm_pin_bo up to the quota: the kill switch, the          *)
(* reservation (which a signal can interrupt) and the charge.                *)
PinCharge(c) ==
    LET b == cbo[c]
    IN  /\ cpc[c] = "pin"
        /\ \/ /\ KillSwitch
              /\ RejectPin(c)
              /\ UNCHANGED <<lock, rdma_pinned, accounted>>
           \/ /\ Interrupted("get", b)
              /\ FailGetPages(c)
              /\ UNCHANGED <<lock, rdma_pinned, accounted, reject>>
           \/ /\ lock[b] = NoOne
              /\ NeedsCharge(b) /\ ~Fits(b)
              /\ RejectPin(c)
              /\ UNCHANGED <<lock, rdma_pinned, accounted>>
           \/ /\ lock[b] = NoOne
              /\ NeedsCharge(b) => Fits(b)
              /\ lock' = [lock EXCEPT ![b] = c]
              /\ rdma_pinned' = IF NeedsCharge(b) THEN rdma_pinned + Size[b]
                                                  ELSE rdma_pinned
              /\ accounted' = [accounted EXCEPT ![c] = NeedsCharge(b)]
              /\ Goto(c, "charged")
              /\ UNCHANGED <<refs, cbo, outstanding, tries, reject>>
        /\ UNCHANGED <<alive, reused, pinVars, clamped, vram_pinned,
                       vram_pin_size, again, revoked, active, freeVars,
                       reapVars>>

(* The rest of pin_bo and of get_pages when the BO could be pinned.  A VRAM  *)
(* BO is in VRAM after the pin, so the rollback for other placements is      *)
(* never taken.                                                              *)
PinBo(c) ==
    LET b == cbo[c]
    IN  /\ cpc[c] = "charged"
        /\ pin_count' = [pin_count EXCEPT ![b] = @ + 1]
        /\ vram_pin_size' = IF pin_count[b] = 0 THEN vram_pin_size + Bytes(b)
                                                ELSE vram_pin_size
        /\ vram_pinned' = vram_pinned + Bytes(b)
        /\ IF accounted[c]
             THEN /\ charged' = [charged EXCEPT ![b] = TRUE]
                  /\ quota_pins' = [quota_pins EXCEPT ![b] = 1]
             ELSE /\ UNCHANGED charged
                  /\ quota_pins' = IF charged[b]
                                     THEN [quota_pins EXCEPT ![b] = @ + 1]
                                     ELSE quota_pins
        /\ lock' = [lock EXCEPT ![b] = NoOne]
        /\ accounted' = [accounted EXCEPT ![c] = FALSE]
        /\ tries' = [tries EXCEPT ![c] = 0]
        /\ active' = active + 1
        /\ Goto(c, "pinned")
        /\ UNCHANGED <<boVars, rdma_pinned, clamped, again, cbo, revoked,
                       outstanding, reject, freeVars, reapVars>>

(* Mutant: an error after the pin leaves the pin behind. *)
PinFailedKeepsPin(c) ==
    LET b == cbo[c]
    IN  /\ cpc[c] = "charged"
        /\ \E e \in BOOLEAN :
              /\ e => pin_count[b] = 0
              /\ again' = [again EXCEPT ![c] = e]
        /\ pin_count' = [pin_count EXCEPT ![b] = @ + 1]
        /\ lock' = [lock EXCEPT ![b] = NoOne]
        /\ Goto(c, "rollback")
        /\ UNCHANGED <<boVars, charged, quota_pins, sumVars, accounted,
                       tries, cbo, revoked, outstanding, active, reject,
                       freeVars, reapVars>>

(* The BO could not be moved or pinned.  -EAGAIN (a copy that got no GTT     *)
(* slot) is only possible when the BO is not pinned yet.  The BO is          *)
(* unreserved BEFORE the charge is rolled back.                              *)
PinFailed(c) ==
    LET b == cbo[c]
    IN  /\ cpc[c] = "charged"
        /\ \E e \in BOOLEAN :
              /\ e => pin_count[b] = 0
              /\ again' = [again EXCEPT ![c] = e]
        /\ lock' = [lock EXCEPT ![b] = NoOne]
        /\ Goto(c, "rollback")
        /\ UNCHANGED <<boVars, pinVars, sumVars, accounted, tries, cbo,
                       revoked, outstanding, active, reject, freeVars,
                       reapVars>>

(* err_accounting, and the retry loop of amd_get_pages. *)
Rollback(c) ==
    /\ cpc[c] = "rollback"
    /\ IF accounted[c] THEN QuotaDrop(Size[cbo[c]])
                       ELSE UNCHANGED <<rdma_pinned, clamped>>
    /\ accounted' = [accounted EXCEPT ![c] = FALSE]
    /\ again' = [again EXCEPT ![c] = FALSE]
    /\ IF again[c] /\ tries[c] + 1 < MaxRetry
         THEN /\ tries' = [tries EXCEPT ![c] = @ + 1]
              /\ Goto(c, "pin")
              /\ UNCHANGED <<refs, cbo, outstanding>>
         ELSE FailGetPages(c)
    /\ UNCHANGED <<alive, reused, lock, pinVars, vram_pinned, vram_pin_size,
                   revoked, active, reject, freeVars, reapVars>>

(* amd_dma_map; when it fails the caller goes on to put_pages. *)
DmaMap(c) ==
    /\ cpc[c] = "pinned"
    /\ Goto(c, "mapped")
    /\ UNCHANGED <<boVars, lock, pinVars, sumVars, callVars, cbo, revoked,
                   outstanding, active, reject, freeVars, reapVars>>

(* amd_dma_unmap waits for the reservation, uninterruptibly. *)
DmaUnmap(c) ==
    /\ cpc[c] = "mapped"
    /\ lock[cbo[c]] = NoOne
    /\ Goto(c, "unmapped")
    /\ UNCHANGED <<boVars, lock, pinVars, sumVars, callVars, cbo, revoked,
                   outstanding, active, reject, freeVars, reapVars>>

(* Mutant: vram_pinned is given back with the last pin only. *)
UnpinBoLastOnly(b) ==
    /\ pin_count' = [pin_count EXCEPT ![b] = @ - 1]
    /\ vram_pin_size' = IF pin_count[b] = 1 THEN vram_pin_size - Bytes(b)
                                            ELSE vram_pin_size
    /\ vram_pinned' = IF pin_count[b] = 1 THEN vram_pinned - Bytes(b)
                                          ELSE vram_pinned
    /\ UNCHANGED <<quota_pins, charged, rdma_pinned, clamped>>

(* One pin less, and the charge back with the last one. *)
UnpinBo(b) ==
    /\ pin_count' = [pin_count EXCEPT ![b] = @ - 1]
    /\ vram_pin_size' = IF pin_count[b] = 1 THEN vram_pin_size - Bytes(b)
                                            ELSE vram_pin_size
    /\ vram_pinned' = vram_pinned - Bytes(b)
    /\ IF Limit > 0 /\ charged[b]
         THEN LET left == IF quota_pins[b] > 0 THEN quota_pins[b] - 1 ELSE 0
              IN  /\ quota_pins' = [quota_pins EXCEPT ![b] = left]
                  /\ charged' = [charged EXCEPT ![b] = left > 0]
                  /\ QuotaDrop(IF left = 0 THEN Size[b] ELSE 0)
         ELSE UNCHANGED <<quota_pins, charged, rdma_pinned, clamped>>

(* Mutant: no test for a BO that the reaper has unpinned. *)
PutPagesUnguarded(c) ==
    /\ cpc[c] \in {"pinned", "unmapped"}
    /\ lock[cbo[c]] = NoOne
    /\ UnpinBo(cbo[c])
    /\ active' = active - 1
    /\ revoked' = revoked \ {c}
    /\ Goto(c, "unpinned")
    /\ UNCHANGED <<boVars, lock, callVars, cbo, outstanding, reject,
                   freeVars, reapVars>>

(* Mutant: the device stays active when the unpin is skipped. *)
PutPagesStaysActive(c) ==
    /\ cpc[c] \in {"pinned", "unmapped"}
    /\ lock[cbo[c]] = NoOne
    /\ IF pin_count[cbo[c]] > 0
         THEN UnpinBo(cbo[c]) /\ active' = active - 1
         ELSE UNCHANGED <<pinVars, sumVars, active>>
    /\ revoked' = revoked \ {c}
    /\ Goto(c, "unpinned")
    /\ UNCHANGED <<boVars, lock, callVars, cbo, outstanding, reject,
                   freeVars, reapVars>>

(* amd_put_pages.  unpin_bo returns without a word when the reservation is   *)
(* interrupted or when the reaper has already unpinned the BO; the context   *)
(* forgets its pin all the same.                                             *)
PutPages(c) ==
    /\ cpc[c] \in {"pinned", "unmapped"}
    /\ \/ /\ lock[cbo[c]] = NoOne
          /\ pin_count[cbo[c]] > 0
          /\ UnpinBo(cbo[c])
       \/ /\ lock[cbo[c]] = NoOne
          /\ pin_count[cbo[c]] = 0
          /\ UNCHANGED <<pinVars, sumVars>>
       \/ /\ Interrupted("put", cbo[c])
          /\ pin_count[cbo[c]] <= MaxLost
          /\ UNCHANGED <<pinVars, sumVars>>
    /\ active' = active - 1
    /\ revoked' = revoked \ {c}
    /\ Goto(c, "unpinned")
    /\ UNCHANGED <<boVars, lock, callVars, cbo, outstanding, reject,
                   freeVars, reapVars>>

(* amd_release frees the context; get_pages may have dropped the BO already. *)
Release(c) ==
    /\ cpc[c] \in {"acquired", "failed", "unpinned"}
    /\ IF cbo[c] # NoBO
         THEN /\ refs' = [refs EXCEPT ![cbo[c]] = @ - 1]
              /\ outstanding' = outstanding - 1
         ELSE UNCHANGED <<refs, outstanding>>
    /\ cbo' = [cbo EXCEPT ![c] = NoBO]
    /\ Goto(c, "none")
    /\ UNCHANGED <<alive, reused, lock, pinVars, sumVars, callVars, revoked,
                   active, reject, freeVars, reapVars>>

(* amd_rdma_reject_until has passed. *)
RejectExpires ==
    /\ reject # NoBO
    /\ reject' = NoBO
    /\ UNCHANGED <<boVars, lock, pinVars, sumVars, callVars, cpc, cbo,
                   revoked, outstanding, active, freeVars, reapVars>>

-----------------------------------------------------------------------------
(* The process frees a BO (amdgpu_amdkfd_gpuvm_free_memory_of_gpu). *)

(* The pin count is read with no lock held. *)
FreeMemory(b) ==
    /\ alive[b]
    /\ freeing = NoBO
    /\ freeing' = b
    /\ fpc' = CASE pin_count[b] = 0 -> "drop"
                [] pin_count[b] > 0 /\ FreeWait -> "reserve"
                [] OTHER -> "queue"
    /\ UNCHANGED <<boVars, lock, pinVars, sumVars, callVars, ctxVars,
                   reapVars>>

FreeReserve ==
    /\ fpc = "reserve"
    /\ \/ /\ lock[freeing] = NoOne
          /\ lock' = [lock EXCEPT ![freeing] = Freer]
          /\ fpc' = "wait"
       \/ /\ Interrupted("free", freeing)
          /\ fpc' = "queue"
          /\ UNCHANGED lock
    /\ UNCHANGED <<boVars, pinVars, sumVars, callVars, ctxVars, freeing,
                   reapVars>>

(* Mutant: the wait has no deadline. *)
FreeWaitedForever ==
    /\ fpc = "wait"
    /\ pin_count[freeing] = 0
    /\ lock' = [lock EXCEPT ![freeing] = NoOne]
    /\ fpc' = "drop"
    /\ UNCHANGED <<boVars, pinVars, sumVars, callVars, ctxVars, freeing,
                   reapVars>>

(* amdgpu_kfd_wait_pin_drop polls with the BO reserved, then gives up. *)
FreeWaited ==
    /\ fpc = "wait"
    /\ lock' = [lock EXCEPT ![freeing] = NoOne]
    /\ fpc' = IF pin_count[freeing] = 0 THEN "drop" ELSE "queue"
    /\ UNCHANGED <<boVars, pinVars, sumVars, callVars, ctxVars, freeing,
                   reapVars>>

(* amdgpu_kfd_orphan_queue; its caller ignores -ENOMEM. *)
OrphanQueue ==
    /\ fpc = "queue"
    /\ \/ /\ orphans' = Append(orphans, freeing)
          /\ refs' = [refs EXCEPT ![freeing] = @ + 1]
       \/ /\ AllocFails
          /\ UNCHANGED <<orphans, refs>>
    /\ fpc' = "drop"
    /\ UNCHANGED <<alive, reused, lock, pinVars, sumVars, callVars, ctxVars,
                   freeing, reap, started>>

(* The handle and its reference go; the process mutex is released. *)
DropHandle ==
    /\ fpc = "drop"
    /\ alive' = [alive EXCEPT ![freeing] = FALSE]
    /\ refs' = [refs EXCEPT ![freeing] = @ - 1]
    /\ freeing' = NoBO
    /\ fpc' = "none"
    /\ UNCHANGED <<reused, lock, pinVars, sumVars, callVars, ctxVars,
                   reapVars>>

(* A BO without references is released once it can be reserved, with what    *)
(* it still had pinned or charged; its address serves a new BO.              *)
Reuse(b) ==
    /\ refs[b] = 0
    /\ lock[b] = NoOne
    /\ reused < MaxReuse
    /\ reused' = reused + 1
    /\ alive' = [alive EXCEPT ![b] = TRUE]
    /\ refs' = [refs EXCEPT ![b] = 1]
    /\ pin_count' = [pin_count EXCEPT ![b] = 0]
    /\ charged' = [charged EXCEPT ![b] = FALSE]
    /\ quota_pins' = [quota_pins EXCEPT ![b] = 0]
    /\ UNCHANGED <<lock, sumVars, callVars, ctxVars, freeVars, reapVars>>

-----------------------------------------------------------------------------
(* The reaper. *)

Pinned == {"pinned", "mapped", "unmapped"}

(* amdgpu_kfd_reaper_fn: the entries older than the timeout, from the front. *)
ReapCollect ==
    /\ OrphanTimeout /\ started
    /\ reap = <<>>
    /\ \E n \in 1 .. Len(orphans) :
          /\ reap' = SubSeq(orphans, 1, n)
          /\ orphans' = SubSeq(orphans, n + 1, Len(orphans))
    /\ UNCHANGED <<boVars, lock, pinVars, sumVars, callVars, ctxVars,
                   freeVars, started>>

ForceUnpin(b) ==
    /\ pin_count' = [pin_count EXCEPT ![b] = 0]
    /\ vram_pin_size' = IF pin_count[b] > 0 THEN vram_pin_size - Bytes(b)
                                            ELSE vram_pin_size
    /\ revoked' = revoked \cup {c \in Ctxs : cbo[c] = b /\ cpc[c] \in Pinned}

(* Mutant: the BO stays charged, for the last put_pages to settle. *)
ReapOrphanKeepsCharge ==
    /\ started /\ reap # <<>>
    /\ lock[Head(reap)] = NoOne
    /\ ForceUnpin(Head(reap))
    /\ vram_pinned' = vram_pinned - Bytes(Head(reap))
    /\ refs' = [refs EXCEPT ![Head(reap)] = @ - 1]
    /\ reap' = Tail(reap)
    /\ UNCHANGED <<alive, reused, lock, charged, quota_pins, rdma_pinned,
                   clamped, callVars, cpc, cbo, outstanding, active, reject,
                   freeVars, orphans, started>>

(* Mutant: the reaper waits until RDMA has dropped the pins itself. *)
ReapOrphanWaits ==
    /\ started /\ reap # <<>>
    /\ lock[Head(reap)] = NoOne
    /\ pin_count[Head(reap)] = 0
    /\ refs' = [refs EXCEPT ![Head(reap)] = @ - 1]
    /\ reap' = Tail(reap)
    /\ UNCHANGED <<alive, reused, lock, pinVars, sumVars, callVars, ctxVars,
                   freeVars, orphans, started>>

(* One orphan: the quota first, then every pin, then vram_pinned, once.  A   *)
(* VRAM BO that is no longer pinned may have been moved out of VRAM.         *)
ReapOrphan ==
    /\ started /\ reap # <<>>
    /\ LET b == Head(reap)
       IN  /\ lock[b] = NoOne
           /\ IF Limit > 0 /\ charged[b]
                THEN /\ charged' = [charged EXCEPT ![b] = FALSE]
                     /\ quota_pins' = [quota_pins EXCEPT ![b] = 0]
                     /\ QuotaDrop(Bytes(b))
                ELSE UNCHANGED <<charged, quota_pins, rdma_pinned, clamped>>
           /\ ForceUnpin(b)
           /\ \/ vram_pinned' = vram_pinned - Bytes(b)
              \/ pin_count[b] = 0 /\ UNCHANGED vram_pinned
           /\ refs' = [refs EXCEPT ![b] = @ - 1]
    /\ reap' = Tail(reap)
    /\ UNCHANGED <<alive, reused, lock, callVars, cpc, cbo, outstanding,
                   active, reject, freeVars, orphans, started>>

(* amdgpu_kfd_reaper_stop waits for a running round, then takes the list. *)
ReaperStop ==
    /\ CanStop /\ started
    /\ reap = <<>>
    /\ started' = FALSE
    /\ reap' = orphans
    /\ orphans' = <<>>
    /\ UNCHANGED <<boVars, lock, pinVars, sumVars, callVars, ctxVars,
                   freeVars>>

(* It unpins, but leaves the quota and vram_pinned as they are. *)
StopOrphan ==
    /\ ~started /\ reap # <<>>
    /\ LET b == Head(reap)
       IN  /\ \/ lock[b] = NoOne /\ ForceUnpin(b)
              \/ Interrupted("stop", b)
                 /\ UNCHANGED <<pin_count, vram_pin_size, revoked>>
           /\ refs' = [refs EXCEPT ![b] = @ - 1]
    /\ reap' = Tail(reap)
    /\ UNCHANGED <<alive, reused, lock, charged, quota_pins, rdma_pinned,
                   clamped, vram_pinned, callVars, cpc, cbo, outstanding,
                   active, reject, freeVars, orphans, started>>

-----------------------------------------------------------------------------
(* Steps that the InfiniBand stack or the process may take or not. *)
Client ==
    \/ \E c \in Ctxs, b \in BOs : Acquire(c, b)
    \/ \E c \in Ctxs : GetPages(c) \/ DmaMap(c) \/ DmaUnmap(c)
                          \/ PutPages(c) \/ Release(c)
    \/ \E b \in BOs : FreeMemory(b) \/ Reuse(b)
    \/ ReaperStop

(* Steps of driver code that has been entered. *)
PinStep(c) == PinCharge(c) \/ PinBo(c) \/ PinFailed(c) \/ Rollback(c)
FreeStep == FreeReserve \/ FreeWaited \/ OrphanQueue \/ DropHandle
ReapStep == ReapCollect \/ ReapOrphan \/ StopOrphan

Next ==
    \/ Client \/ RejectExpires \/ FreeStep \/ ReapStep
    \/ \E c \in Ctxs : PinStep(c)

Spec == Init /\ [][Next]_vars

(***************************************************************************)
(* Fairness: a thread inside the driver that has not to wait for a         *)
(* reservation runs, and the reaper is a delayed work that reschedules     *)
(* itself.  No signal has ever to come, and the client is never obliged to *)
(* give a pin back.                                                        *)
(***************************************************************************)
PinRuns(c) == PinStep(c) /\ (cpc[c] = "pin" => lock[cbo[c]] = NoOne)
FreeRuns == FreeStep /\ (fpc = "reserve" => lock[freeing] = NoOne)
ReapRuns == ReapStep /\ (reap # <<>> => lock[Head(reap)] = NoOne)

Fairness ==
    /\ \A c \in Ctxs : WF_vars(PinRuns(c))
    /\ WF_vars(FreeRuns)
    /\ WF_vars(ReapRuns)

FairSpec == Spec /\ Fairness

-----------------------------------------------------------------------------
CtxLabels == {"none", "acquired", "pin", "charged", "rollback", "failed",
              "unpinned"} \cup Pinned

FreeLabels == {"none", "reserve", "wait", "queue", "drop"}

BoTypes ==
    /\ alive \in [BOs -> BOOLEAN]
    /\ refs \in [BOs -> Int]
    /\ reused \in 0 .. MaxReuse
    /\ lock \in [BOs -> Ctxs \cup {NoOne, Freer}]

PinTypes ==
    /\ pin_count \in [BOs -> Nat]
    /\ charged \in [BOs -> BOOLEAN]
    /\ quota_pins \in [BOs -> Nat]

SumTypes ==
    /\ rdma_pinned \in Nat /\ clamped \in BOOLEAN
    /\ vram_pinned \in Int /\ vram_pin_size \in Int

CallTypes ==
    /\ accounted \in [Ctxs -> BOOLEAN]
    /\ again \in [Ctxs -> BOOLEAN]
    /\ tries \in [Ctxs -> 0 .. MaxRetry - 1]

CtxTypes ==
    /\ cpc \in [Ctxs -> CtxLabels]
    /\ cbo \in [Ctxs -> BOs \cup {NoBO}]
    /\ revoked \subseteq Ctxs
    /\ outstanding \in Int /\ active \in Int
    /\ reject \in BOs \cup {NoBO}

FreeTypes == freeing \in BOs \cup {NoBO} /\ fpc \in FreeLabels

ReapTypes == orphans \in Seq(BOs) /\ reap \in Seq(BOs) /\ started \in BOOLEAN

(* Type invariant; in particular no pin count is ever taken below zero. *)
TypeOK ==
    /\ BoTypes /\ PinTypes /\ SumTypes /\ CallTypes /\ CtxTypes
    /\ FreeTypes /\ ReapTypes

Total(S) == SumFunctionOnSet(Size, S)

InFlight == {c \in Ctxs : accounted[c]}

(* The quota counter is exactly the size of the charged BOs plus the charges *)
(* of the pins in flight, so that no drop ever has to be clamped.            *)
QuotaExact ==
    /\ rdma_pinned = Total({b \in BOs : charged[b]})
                        + SumFunction([c \in InFlight |-> Size[cbo[c]]])
    /\ ~clamped

(* While the reaper runs, a VRAM BO is charged exactly while it is pinned,   *)
(* and the quota counts as many pins as TTM does, so that the pin that ends  *)
(* the charge is the last one.                                               *)
QuotaFollowsPins ==
    started /\ Limit > 0 => \A b \in VramBOs :
        /\ charged[b] <=> pin_count[b] > 0
        /\ quota_pins[b] = pin_count[b]

(* What the program counters say about reservations and BOs: a context in    *)
(* the middle of a pin, or a free that waits, holds the reservation, and     *)
(* nobody else does.                                                         *)
HasBo ==
    /\ \A c \in Ctxs : cpc[c] \notin {"none", "failed"} => cbo[c] \in BOs
    /\ fpc # "none" => freeing \in BOs

ReservationsAgree ==
    /\ \A c \in Ctxs : cpc[c] = "charged" => lock[cbo[c]] = c
    /\ fpc = "wait" => lock[freeing] = Freer

(* A pin in progress has charged the quota exactly when its BO was not       *)
(* charged, and that cannot change before it is done.                        *)
ChargeSettled ==
    \A c \in Ctxs : cpc[c] = "charged" =>
        (accounted[c] <=> NeedsCharge(cbo[c]))

IInv ==
    /\ TypeOK /\ HasBo /\ ReservationsAgree /\ ChargeSettled
    /\ QuotaFollowsPins

Queued(b) == {i \in 1 .. Len(orphans \o reap) : (orphans \o reap)[i] = b}

(* A BO has one reference for the handle, one for each context that points   *)
(* at it and one for each orphan entry, through every failure of get_pages;  *)
(* so nobody points at a released BO.                                        *)
RefsExact ==
    \A b \in BOs : refs[b] = (IF alive[b] THEN 1 ELSE 0)
                               + Cardinality({c \in Ctxs : cbo[c] = b})
                               + Cardinality(Queued(b))

(* amd_rdma_context_outstanding counts the contexts that hold a BO, and the  *)
(* device is kept active once for each context that holds a pin.             *)
CountersExact ==
    /\ outstanding = Cardinality({c \in Ctxs : cbo[c] # NoBO})
    /\ active = Cardinality({c \in Ctxs : cpc[c] \in Pinned})

PinsOf(b) == {c \in Ctxs : cbo[c] = b /\ cpc[c] \in Pinned}

(* The reaper has nothing to do with b, or has not come to it. *)
Unreaped(b) ==
    \/ alive[b] /\ freeing # b
    \/ \E i \in 1 .. Len(orphans) : orphans[i] = b

(* Until the reaper takes them, every pin belongs to a context that will     *)
(* give it back: as many pins as contexts between get_pages and put_pages.   *)
PinsMatchContexts ==
    \A b \in BOs : Unreaped(b) => pin_count[b] = Cardinality(PinsOf(b))

(* A BO is never released while it is pinned (the WARN_ON_ONCE at the head   *)
(* of ttm_bo_release).                                                       *)
ReleasedUnpinned == \A b \in BOs : refs[b] = 0 => pin_count[b] = 0

(* As long as the reaper has taken no BO, vram_pinned is the size of the     *)
(* pinned VRAM, a BO counted once per pin, as pin_bo adds it up;             *)
(* vram_pin_size always counts each pinned BO once.                          *)
VramPinnedExact ==
    /\ (\A b \in VramBOs : Unreaped(b)) =>
          vram_pinned = SumFunction([b \in VramBOs |-> pin_count[b] * Size[b]])
    /\ vram_pin_size = Total({b \in VramBOs : pin_count[b] > 0})

(* A context whose pin the reaper has not taken away works on a pinned BO.   *)
MappedStaysPinned ==
    \A c \in Ctxs : cpc[c] \in Pinned /\ c \notin revoked
                        => pin_count[cbo[c]] > 0

(* Every free ends, whatever the client does with its pins. *)
FreeEnds == \A b \in BOs : freeing = b ~> freeing # b

(* Every orphan entry is taken off the list and its reference dropped. *)
OrphansReaped == \A b \in BOs : Queued(b) # {} ~> Queued(b) = {}
=============================================================================
