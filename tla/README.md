# Verification of the AFDEAPAC amdgpu driver

This directory holds TLA+ models of the parts of the driver in which this
repository differs most from upstream amdgpu and in which concurrency decides
whether the code is right: the pool of GART copy windows, the RDMA pins and
their reaper, the KFD events with the polled, bounded waits, the suballocator
of the IB pools with its bounded waits, the eviction and restore of a KFD
process, on which every move of its memory rests, and the GPU scheduler with
its timeouts and resets, through which every job of the others goes. TLC checks
the models on small instances; TLAPS proves every safety invariant that the
passing runs check, for every value of the constants (some of them under a
hypothesis that section 5 states). Paths below are relative to `src/src-tree/`.

## 1. Inventory

| Part | State | Operations | What is hard | What makes it correct |
|---|---|---|---|---|
| GTT copy windows (`amd/amdgpu/amdgpu_ttm.c`) | `gtt_slot_locks[]`, `reserved_copy_lock`, the GART entries of ten windows, jobs in the SDMA ring | copy, clear, fill, timed acquisition of a slot | a slot is released when its jobs are submitted, not when they ran; timeouts; error paths | a copy goes through its own mapping; slots never share windows; every operation ends and releases what it took |
| SVM migration copy (`amd/amdkfd/kfd_migrate.c`) | `gtt_window_lock`, window 0 | `svm_migrate_copy_memory_gart` | shares window 0 with slot 0 under another lock | as above |
| RDMA pins (`amd/amdgpu/amdgpu_amdkfd_gpuvm.c`, `amdgpu_object.c`) | pin counts, per-BO charge, per-GPU quota, `vram_pinned`, `vram_pin_size` | `pin_bo`, `unpin_bo`, `free_memory_of_gpu` | several counters updated under different locks; retries and rollbacks; signals | the counters agree with the pins; the quota is exact |
| Orphan reaper (`amd/amdgpu/amdgpu_kfd_rdma_v155.c`) | orphan list, delayed work | queue, reap, stop | runs against clients that still use the pin | every orphan is reaped once; what put_pages does later is harmless |
| PeerDirect bridge (`amd/amdkfd/kfd_peerdirect.c`) | `amd_mem_context`, reject cache, outstanding count | acquire, get_pages, dma_map, dma_unmap, put_pages, release | callbacks driven by another kernel module, which may stop at any point | references and active counts are exact on every failure |
| KFD events (`amd/amdkfd/kfd_events.c`) | events, their queues and ages, signal page, waiters | create, destroy, set, reset, interrupts, waits | lock-free wake-ups, interrupts with partial ids, restarted waits | no wake-up and no signal is lost; every wait ends |
| Reset domain (`amd/amdgpu/amdgpu_reset.[ch]`) | reader/writer semaphore | lock, unlock, `amdgpu_reset_pending` | waits poll it without holding it | a wait notices a reset |
| SDMA IB suballocator (`amd/amdkcl/kcl_drm_suballoc.c`, used where the kernel has none of its own) | list ordered by offset, hole pointer, freed entries per queue | new, free, fini, bounded waits | entries leave the lists from the middle; fences signal in any order or never; lock dropped for every wait | ranges in use never overlap; no sleeper misses a fence; every wait ends |
| Evict and restore of queues (`amd/amdkfd/kfd_process.c`, `kfd_device.c`, `kfd_device_queue_manager.c`, `kfd_svm.c`, `amd/amdgpu/amdgpu_amdkfd_fence.c`) | `qpd->evicted` per device, queues, eviction fence, two delayed works, `kfd_locked`, `evicted_ranges` | create and destroy queues; evict and restore for TTM, suspend, reset, SVM; exit | six actors loop over the devices without a common lock; steps fail with -EIO or -ETIME; fences are replaced | evictions are counted exactly; no queue runs while memory may move; queues come back; TTM never waits for ever |
| GPU scheduler (`scheduler/sched_main.c`, `sched_entity.c`, `amd/amdgpu/amdgpu_job.c`) | entities with their job queues and dependency callbacks, run queue, `pending_list`, credits, `pause_submit`, the timer, scheduler fences | push, run, complete, free, timeout with soft recovery, ring reset and device recovery, kill and close | a job is reached by the worker, the timeout, the interrupt and the kill at once; the ring may hang at any point; pipelined dependencies | a job is freed once and unused; credits are exact; dependencies are kept; every job finishes |
| TTM; drm_buddy; SVM ranges; display; power management; per-ASIC code; compatibility layer | | | | not modelled, reasons in section 7 |

How they meet: a pin may have to move its BO, and the move is a TTM copy that
may fail with -EAGAIN when no window slot is free, which `amd_get_pages`
retries; `RdmaPin` has that answer as a possible outcome of a pin. A GPU reset
sets KFD events, and waits look at the reset domain. SVM migrations and TTM
moves share the SDMA ring and window 0. Every job of `GttWindows` takes its IB
from the suballocator, whose -ETIME is one of the failing submissions there. A
TTM move of a BO of a KFD process waits for its eviction fence (`KfdEvict`); a
reset stops the processes through the same counters. `GttWindows` relies on the
scheduler for the order of the jobs of one entity, which `DrmSched` has as a
queue per entity.

## 2. Modules

* `GttWindows`: the slot pool, copies, clears and fills, SVM migration copies,
  and the SDMA ring as a FIFO of jobs. `window[w]` is what a window points at,
  as the pair of operation and chunk. One `mutex_trylock` of the scan, one job
  submission, one execution of a job are each one step. The module parameter
  `gtt_lock_timeout_ms` is read anew by each acquisition, so both outcomes are
  possible each time. A copy that has both sides directly addressable behaves
  as a fill (`needs = {}`). A failing allocation of a job is possible at every
  submission.
* `RdmaPin`: BOs, PeerDirect contexts, the quota, hipFree and the reaper. What
  the code does between reserving and unreserving a BO is one step, except the
  wait of hipFree and the interval between charge and pin, which other BOs can
  see. `revoked` is history: it marks contexts whose pin the reaper took.
* `KfdEvents`: events, wait queues, the signal page, the interrupt handler,
  two-phase waits (`set_current_state`, test, `schedule_timeout`) and the reset
  semaphore. What happens under one event's spinlock is one step. The wait
  entries remove themselves from an event's queue when they wake the task
  (`init_wait`): `Leaving` says which queues a waiter may leave when an event
  is set, more than one outcome where the task may or may not be in a sleep of
  its own. `owed`, `gone`, `dangling` and `wiped` are history (section 6 on the
  last two). A reset sets all hardware exception events in one step. Data
  copied to the user is left out except for event ages.
* `IbPool`: the abstract pool: ranges are taken, handed to a job, finished and
  reclaimed; aligned, inside the pool, never overlapping. `Suballoc` is shown to
  implement it (`PoolSpec`): an entry of `olist` is a range, one with a fence
  has been handed over, one whose fence has signalled is finished.
* `Suballoc`: `olist` is a sequence, `hole` a position in it (0 for the list
  head), `flist[q]` the freed entries whose fence is hashed to queue q.
  `wq.lock` is a variable, and each pass of the loops under it is a step,
  because fences signal meanwhile. Two fences of one queue may signal in any
  order, since different contexts share a queue. The waits are `fences` (for
  any fence), `event` and `asleep` (no fence: before and after the test of the
  condition).
* `KfdEvict`: one process, its devices, and six agents (`eviction_work`,
  `restore_work`, suspend/resume, reset, the MMU notifier of SVM and its restore
  work), each with a program counter and the device its loop has come to. What
  happens under `dqm_lock` of one device is one step. Fences are numbered;
  `signaled` is about the current one. `sem` is the write lock of the reset
  domain, during which the run list cannot be changed (-EIO); a preemption that
  times out (-ETIME) schedules a reset. `kept`, `leaked` and `unbalanced` are
  history: evictions by suspend and reset that stand, evictions whose failure
  was not undone, and whether a restore has returned an error. The scheduler is
  the HWS. The devices of a process are visited in the same order by all loops,
  as in the code.
* `DrmSched`: one scheduler with its entities, its ring and its timeout. The
  ordered workqueue is the sequence `wq` of queued works and the program
  counter `worker` of the one that runs; `drm_sched_run_job_work` is split
  where another thread can come in: after the selection, after `pop_job` and
  `drm_sched_job_begin`, after `run_job`. A job is its scheduler fences
  (`scheduled`, `finished`, `err`), its hardware fence (`hw`: in the ring,
  done, lost in a reset, or failed), whether the fence is its `parent` and the
  callback is installed (`cb`), and how often it was freed. `tdr` goes through
  `drm_sched_job_timedout` and `amdgpu_job_timedout`; each round of the loop of
  `drm_sched_stop` is a step, because fences signal meanwhile. Which ready
  entity is selected is left open, so the result holds for every priority and
  every order. The finished fence and what its callbacks do are one step.
  `drm_sched_run_job_queue` and `__drm_sched_run_free_queue` test
  `pause_submit` and queue the work afterwards without a lock: `Call` lets the
  thread be late (`late.works`), and `QueueLate` queues the work at any later
  time. When that is during a stop or a start, `late.stray` records it.
* `MC*`: model values, sizes and symmetry for TLC. `*_proofs`: theorems.
* `ListLemmas`: what the operations on the driver's lists (append, take the
  first, insert and remove in the middle) do to elements, order and the number
  of times an element occurs. `SumLemmas`: sums over finite sets, by induction
  on finite sets. Both are used by the proofs only.

Definitions keep the source's names where there is one; a program counter label
stands for a place in the code. Definitions marked "Mutant" are plausible
mistakes; replacing the definition they vary must break a property.

## 3. Runs

| Run | Question | Size |
|---|---|---|
| `gtt_pool` | two copies, one slot and the reserved pool: windows exclusive, copies through own mappings | 1.15 M states |
| `gtt_live` | copy, fill and migration with one slot: all end, no lock stays | 89 k, fair |
| `gtt_svm` | the same mapping property with an SVM migration: **violated** | |
| `rdma_reap` | two contexts, two BOs, a quota for one and a half: quota exact, pins and VRAM counters match until the reaper acts, free ends, orphans reaped | 102 k, fair |
| `rdma_faults` | all faults at once (signals, kill switch, failing allocation, device removal) and one reuse of an address: references and counters exact | 1.9 M |
| `rdma_steal` | a mapped context keeps its pin: **violated** | |
| `events_wait` | a waiter, two signal events with the same partial id or one id used twice, two interrupts, set, reset, destroy, signals: no wake-up or signal lost, every written slot seen | 1.4 M |
| `events_live` | waits for any or all of a signal and a hardware event, resets, readers: every wait ends, none completes with an event destroyed before it was set | 105 k, fair |
| `suballoc` | two threads, three entries, two queues, a pool of five units aligned to two: lists consistent, implements `IbPool`, every wait ends | 53 k, fair |
| `evict` | two devices, any three of the events TTM, suspend, reset, hang, SVM, exit: evictions balanced, queues stopped while memory may move, fences signal, queues come back | 111 k, fair |
| `sched` | three jobs in a chain of dependencies between two entities, two credits, a ring that may hang, resets; an owner on whose job others wait dies, or a work is queued late: freed once, credits exact, dependencies kept, every job finishes (with the exceptions of section 6) | 1.1 M, fair |
| `sched_kill` | a killed entity is not used by the scheduler any more (FIFO policy): **violated** | |

Bounds and why they are enough. `MaxChunks = 1` and `MaxRing = 3` or more let
two operations have jobs in the ring at once; a second chunk repeats the same
map-and-copy pattern with the slot still held. `MaxSlots = 2` with a clamped
parameter above it gives one ordinary and one reserved slot, the smallest pool
where they can be confused. In `RdmaPin` two contexts suffice for two pins of
one BO and for two BOs in a race for the quota; `rdma_reap` has all three
retries and `rdma_faults` one reuse of an address; `MaxLost` bounds the unpins
that interrupted calls may lose. In `KfdEvents` `MaxAge` bounds how often
events are set, `MaxIrq` the interrupts on their way and `MaxCreated` how often
events are created: with two ids and two creations `events_wait` has two events
with one partial id, so that an interrupt finds the other event, or one that
has not signalled, and it has one id that is used twice, so that an interrupt,
an acknowledge or a waiter of the first event meets the second. Both runs have
one waiter; that waiters do not disturb each other is shown by the theorems,
which hold for any number of them. Ages are 64 bits wide in the code and do not
wrap in practice. `Suballoc` bounds only the number of entries: the threads ask
and free without end. Three entries are the fewest with one removed from the
middle; the limit of three tries per queue needs four freed entries in one
queue and is not reached. In `KfdEvict` three events are an eviction, something
that interrupts it and something that meets the undoing; two devices give every
order of two loops, and one of them can hang while the other is suspended
(`ResetDevs`, `SuspendDev`); how often queues are created and destroyed is not
bounded. In `DrmSched` the jobs are finitely many and timeouts are not: two
jobs of one entity are what errors pass on and what a FIFO update needs, the
third is between them in a chain of dependencies (j1 on a foreign fence, j3 of
the other entity on j1, j2 on j3), which goes both ways between the entities;
with two credits the ring holds a bad job and one behind it. The owner that
dies is that of the first and the last job of the chain (`Killable = {e1}`), so
that a job that others wait for is killed. `MaxUpsets = 1` allows one kill or
one late thread in a behaviour. `sched` selects from the list of entities
(round robin), because with FIFO a killed entity may come back (`sched_kill`);
the rest of the code is the same for both.

Deadlock is checked except in the `RdmaPin` and `DrmSched` runs, where a client
may simply stop.

## 4. Fairness

`GttWindows`: threads that can run do, time passes, the ring makes progress;
the blocking lock of slot 0 is strongly fair, because the kernel's mutexes hand
over to a starving waiter. Signals never have to come. `RdmaPin`: code inside
the driver runs when its reservation is free; the reaper reschedules itself.
The InfiniBand side and the process have no fairness at all, so `FreeEnds` and
`OrphansReaped` do not depend on them. `KfdEvents`: a waiter runs, time passes,
and `event_mutex` is handed over (strong fairness of the last step of a wait
only); nobody has to set an event or end a reset, so `EveryWaitEnds` rests on
the deadlines alone. `Suballoc`: the holder of `wq.lock` goes on, the spin lock
is handed over (queued spin locks are FIFO) and time passes; no fence ever has
to signal. `KfdEvict`: work items and the threads that suspend, resume, reset
and release go on, and a scheduled reset starts; besides, a restore finds
memory if it tries again and again (strong fairness of `RestoreBos` and
`SvmResume`), without which `QueuesComeBack` cannot be expected. `FenceSignals`
needs a reset to start when the HWS hangs, which is what `kfd_hws_hang` is for.
`DrmSched`: the worker of the ordered workqueue, the reset workqueue with an
armed timer, the work that finishes killed jobs, and a thread inside `push_job`
or `kill` or late to queue a work run when they can, and foreign fences signal.
The ring has no fairness at all, nor have the owners: `EveryJobFinishes` rests
on the timer alone.

## 5. Proofs

Every safety invariant of a passing run is, as the run states it and with the
exceptions that are part of it (section 6), a theorem for every number of
threads, slots, BOs, contexts, events, waiters, devices, entities and jobs and
every value of the parameters allowed by the named assumptions. Where a theorem
has a further hypothesis, the run has it too, and the reason is given below.

* `GttWindows_proofs`: `TypesCorrect`, `LocksAlwaysAgree`, `WindowsExclusive`,
  `LocksReleased`, `OwnMapping`. The inductive invariant of the first four is
  `TypeOK /\ LocksAgree /\ \A t : WorkLeft(t)`: exclusive windows follow from
  locks that agree with the program counters in both directions (a holder's
  counter and a lock's holder), and `WorkLeft` is what keeps the chunk counter
  in range. The reserved slot needs the lemma that `gtt_num_slots` leaves room
  for it (`NumSlotsRange`). `OwnMapping` adds `MInv`: of every copy in the ring,
  and of the copy that a thread is about to submit, the last job before it that
  touches its window at all is the mapping it needs (`Sees`). A slot given back
  early is harmless because the next owner's jobs come behind. Hypothesis: no
  migrations, which use window 0 under another lock (`gtt_svm`).
* `RdmaPin_proofs`: `PinTypesCorrect` and `QuotaPinsCorrect` from `IInv`, which
  adds to the types that contexts in the middle of a pin own the reservation
  (`ReservationsAgree`) and that whether the pin has to charge the BO cannot
  change meanwhile (`ChargeSettled`); without these the charge could be taken
  twice. That pin counts stay natural numbers is part of the types and rests on
  the guard of `unpin_bo`. `RefsCorrect` and `CountersCorrect` from `RInv`: a
  context that has looked up no BO points at none (`CtxHolds`), a free that is
  under way still has the handle (`FreeHolds`), and every step changes `refs`
  by what it changes in the number of contexts and orphan entries.
  `ReleasedCorrect` and `PinsCorrect` from `PInv`: a BO is on the two lists of
  the reaper at most once, and not before its handle is about to go
  (`QueuedOnce`); it has at most as many pins as contexts, exactly as many
  until the reaper takes it (`PinsBounded`). Hypothesis: no signal interrupts
  the reservation of an unpin, which loses the unpin. `QuotaCorrect` from
  `QInv`: a charge in flight belongs to a context between charge and pin or
  rollback, and only VRAM BOs under a limit are charged (`InFlightAgrees`).
  Further hypothesis: the device is not removed, since `reaper_stop` leaves the
  quota as it is. `VramPinnedCorrect` from `PinSize` and `VramSum`. Further
  hypothesis: no address is used again, because after the reaper has taken a BO
  `vram_pinned` stays wrong although the new BO has not been reaped.
* `KfdEvents_proofs`: all six invariants. `WaiterAgrees` says which events a
  waiter points at, is queued on and has lost: a waiter is on the queue of
  every event it points at and was not activated for, although a set takes it
  off, and only pointers to events it was activated for can dangle; with it
  `SleepJustified`, that a thread about to sleep which nothing has woken would
  find nothing to wake up for if it tested again, survives every set, reset and
  destroy. `SlotWillBeSeen` follows from the stronger `SlotsCovered`: there are
  at least as many interrupts to come as written slots that the handler at work
  will not look at. `SignalsKept` follows a signal from the slot to the
  handler, the event and the waiters; `CountExact` and `HandlerAgrees` say that
  the count of signal events is exact and that the handler works on an event
  that exists or is known to be gone.
* `KfdEvict_proofs`: `TypesCorrect`, `EvictionsAlwaysBalanced`,
  `AlwaysStoppedWhenSignaled`, `AlwaysStoppedForSvm`. `EvictionsBalanced` is
  inductive together with what the program counters say (`Control`): where each
  loop is, how often `kfd_locked` was taken, who answers for the evicted ranges
  and who brings the queues back after the fence has signalled.
  `HardwareAgrees` ties the queues on the hardware to the counters, so that a
  device the first SVM notifier has passed stays stopped while a range is
  evicted; `ErrorCounts` says that an error of `restore_work` is one that has
  unbalanced them.
* `Suballoc_proofs`: types, `ListAlwaysOrdered`, `FencesAlwaysListed`,
  `SleepersNeverHaveFence`, and `ImplementsPool`, the refinement of `IbPool`:
  the initial state maps to the empty pool, and each step to a take, a
  hand-over, a finish, a reclaim or a stutter. Disjoint ranges follow from the
  order of the list, into which a new range is put between the neighbours of
  the hole. That nobody frees or hands over another's range rests on
  `CallAgrees`, `OwnersDiffer` and `EntriesOwned`: a thread has what it holds
  in the list and without a fence, no two have the same, and what has no fence
  has an owner.
* `DrmSched_proofs`: `FreedOnce` and `CreditsCounted` from an invariant that
  says for each job which list, work or thread has it (`JobAgrees`), what is in
  the ring (`RingAgrees`), and what the worker and the timeout are about to
  touch (`WorkerAgrees`, `TimeoutAgrees`). `BehindDependency` from `DInv`: once
  the dependency of a queued job has been taken it is scheduled or finished, or
  the entity has a callback on it (`DepsAgree`), and a killed entity is out of
  the run queue for good (`KillsAgree`). Hypothesis `Kept`: the policy is round
  robin or no entity is killed; a killed entity that comes back (`sched_kill`)
  breaks the property under FIFO. All three hold until a late work is queued in
  the middle of a stop or a start (`late.stray`, section 6): the invariants are
  proved for every behaviour up to that point, late works that are queued
  before the stop or after the start included.

Only model-checked: the liveness properties (`EveryOperationEnds`, `FreeEnds`,
`OrphansReaped`, `EveryWaitEnds`, `RoomWaitEnds`, `FenceSignals`,
`QueuesComeBack`, `EveryJobFinishes`), because the prover has neither fairness
nor ENABLED; and the three violations.

## 6. What the code does and its documentation does not say

Shown by the violation runs (`PROJECT.json`, "findings"): SVM migrations and
slot 0 share window 0 under different locks; a late put_pages can take another
context's pin; an entity killed while the worker takes a job from it is put back
into the tree of its run queue (`sched_entity.c:619`) and stays there when it is
freed.

Met while modelling, and stated here only:

* The free reads `pin_count` once, without the reservation
  (`amdgpu_amdkfd_gpuvm.c:2324`). A pin taken right after it, or an orphan entry
  that cannot be allocated, leaves a freed and pinned BO on no orphan list,
  although `amdgpu_drv.c:911-913` says that such BOs are queued and reaped.
* The wait of hipFree for the pin to drop holds the reservation that the unpin
  needs (`amdgpu_amdkfd_gpuvm.c:2334`, `:1802`), so it always runs its full time
  (`amdgpu_drv.c:931-932` says it waits for RDMA to drop the pin).
* `amdgpu_reset_pending` is `rwsem_is_contended`: it is false while the reset
  holds the semaphore and nobody waits for it, so the poll of
  `kfd_wait_on_events` may miss the reset that `kfd_events.c:1066-1067` says it
  notices. A wait without a timeout ends at its absolute deadline then.
* `suballoc_timeout_ms` bounds each wait of `drm_suballoc_new`, not the call: a
  thread that others overtake after each wake-up starts a new wait with a new
  timeout, for ever in the worst case (a pool of two units, one thread that
  takes and frees single units, and one that asks for two), while
  `kcl_drm_suballoc.c:52-56` says that such a stall is finite. `RoomWaitEnds` is
  stated for the single wait.
* `kcl_drm_suballoc.c:331-332` says that the size is rounded up to the
  alignment; only the offset is.
* A restore that fails has already cleared the counter
  (`kfd_device_queue_manager.c:1440`), so that its retry undoes the eviction by
  which a reset keeps the process stopped, although `kfd_device.c:1003` says "We
  will keep all existing process in a evicted state". `unbalanced` marks it, and
  the properties of `KfdEvict` are claimed without it.
* Between `kfd_process.c:1306`, which takes a leaving process out of the table,
  and the removal of its queues, its eviction fence signals as soon as TTM asks
  for it, although `amdgpu_amdkfd_gpuvm.c:3750` says "Anyone signaling an
  eviction fence must stop the queues first". `StoppedWhenSignaled` is claimed
  before it.
* A pipelined dependency is cleared by `drm_sched_entity_clear_dep`, which
  wakes nobody: the worker that scheduled the other job queues itself again.
  When that job is finished by a kill instead, nobody does, and the dependent
  job waits for an unrelated wake-up, for ever if none comes, although
  `sched_entity.c:492-494` says that the callback is there "to wake up the
  scheduler". `EveryJobFinishes` excepts these jobs (`Unwoken`) and what comes
  after them, and jobs pushed to a killed entity that is not closed. Without
  the first exception TLC has a counterexample in the instance of `sched`.
* `pause_submit` is read (`sched_main.c:360`, `:370`) and the work queued
  without a lock, and the works do not read it again. A thread that has read it
  before `drm_sched_wqueue_stop` can queue its work after it, and the work then
  runs while `drm_sched_stop` and `drm_sched_start` walk the list, although
  `:618` says "This iteration is thread safe as sched thread is stopped". The
  free work may free the job the loop stands at; a job that the run work starts
  has a fence and a credit already, and `drm_sched_start` (`:690-697`) takes
  another credit for it; a job that is run between the hardware reset and the
  start can overtake one it depends on. The model has these behaviours;
  `NoUseAfterFree`, `CreditsExact`, `DependenciesFirst` and `EveryJobFinishes`
  are claimed until they begin (`late.stray`).
* A job that soft recovery ends was taken off `pending_list` by the timeout and
  is not put back: its fence signals, but it is never freed.
* A recovery that is given up (device unplugged, recovery disabled, health
  check, failing ASIC reset) leaves the bad job off the list or the scheduler
  stopped.
* A failed eviction by `eviction_work` rolls back the devices before the one
  that failed, not that one (`kfd_process.c:2056-2073`), whose counter stays
  incremented: `leaked` in `KfdEvict`.
* `kfd_locked` is one counter for suspend and reset. When they overlap, the
  resume finds it at zero and restores a process that the reset left evicted.
* A resume whose `restore_process_bos` fails is not repeated.
* With `keep_idle_process_evicted`, two doorbell faults, or one during the idle
  check of `restore_work`, call `kfd_process_schedule_restore`
  (`kfd_doorbell.c:148`) without an eviction to balance; off by default and not
  modelled.
* With MES a restore that fails half-way keeps `evicted` and has counted the
  queues already (`kfd_device_queue_manager.c:1425-1431`); not modelled.
* `reject_cached` compares addresses: a new BO at the address of a freed one is
  rejected for up to a second. A wait that ends with -ETIME, -EINTR or a timeout
  keeps the auto-reset events it consumed.
* The reaper subtracts a BO's size from `vram_pinned` once, whatever its pin
  count (`amdgpu_kfd_rdma_v155.c:350`); `VramPinnedExact` claims `vram_pinned`
  only until it has taken a BO.
* An interrupted reservation in `unpin_bo` loses the unpin
  (`amdgpu_amdkfd_gpuvm.c:1802`); `PinsMatchContexts` holds only without that.
* `reaper_stop` leaves quota and `vram_pinned` as they are; orphans queued after
  it stay.
* `gtt_multi_window` is documented as "Range 1-4. Default 1."
  (`amdgpu_drv.c:854`); the default is 4 and the clamp 5.
* `rdma_get_pages` returns 0 when `amd_acquire` finds no BO
  (`kfd_peerdirect.c:688`), although `:660` says "0 if operation was
  successful".
* `kfd_events.c:1053` says that RDMA-only processes are skipped by
  `kfd_signal_reset_event`; `:1340` no longer skips them.
* `test_event_condition` is said to fail "if any of the events have been
  destroyed" (`kfd_events.c:853`), and `:1097-1099` says that
  `copy_signaled_event_data` confirms that the event still exists. Both look at
  a pointer that `destroy_event` (`:281-283`) clears only in the waiters on the
  event's queue. An event that was set when the wait began was never queued, and
  one that is set later takes the waiter it wakes off the queue (`init_wait`,
  `:812`). When it is destroyed after that, the waiter keeps its pointer: a wait
  for all of two events, of which the first is set and destroyed before the
  second is set, reports completion and reads the first after it was freed.
  `DestroyedFails` is claimed for events destroyed before they were set;
  without that restriction TLC has this counterexample.
* Only the SVM notifier that finds `evicted_ranges` at zero stops the queues.
  A notifier of another range that comes while it is still at it returns at
  once (`kfd_svm.c:1960-1961`), and the CPU may take the pages back while a
  device runs queues, although `:1912-1913` says "Stop all queues of the process
  to ensure GPU doesn't access the memory, then return". `StoppedForSvm` is
  claimed for each device from the moment the first notifier has stopped it.
* Between the lookup in the interrupt handler (`kfd_events.c:756`) and
  `acknowledge_signal` (`:722-731`) the event can be destroyed and its id given
  to a new one; a signal of the new event that arrives in between is wiped from
  the slot with the old one. `wiped` marks it in `NoSignalLost`.
* With FIFO, a job pushed to a killed entity that is back in the tree is run,
  and a dependency on a job of the same entity is ignored because the entity
  keeps the order; but that job was killed and may not be finished yet, so that
  `DependenciesFirst` fails too (an entity with three jobs, the third depending
  on the second): a consequence of the `sched_kill` finding.

## 7. Not modelled

Watermark latches (log lines only); the fence drain before an unpin (bounded,
result ignored); CRIU, memory, poison and debug events (same `set_event`);
changes of `dmabuf_pin_max_mb` while BOs are pinned; deferred wipe (counters).
Of the queues: MES and the scheduler without HWS, debugger, CRIU, per-queue
reset, idle eviction; userptr notifiers, which stop and start the queues as the
SVM notifiers do but count under one lock. Of SVM: interval trees, HMM and page
faults. Of the scheduler: the choice between ready entities and between
schedulers, `score`, karma and guilty contexts, gang, isolation and VMID
fences, `amdgpu_sdma_reset_engine`, resets that another ring or the user
starts, recoveries that are given up, the wait of `drm_sched_entity_flush`,
teardown. TTM, drm_buddy and drm_exec are upstream code, used here through what
their callers rely on. Display, power management and per-ASIC code are register
programming or subsystems of their own; the register headers, by far the
largest part of the repository, have no behaviour to model.

## 8. Plan

1. Proofs: that `KfdEvict` and `DrmSched` take only the steps their comments
   promise, as action properties from the invariants proved (a fence, once
   signalled, is not used again; a job, once finished, keeps its error); what
   holds of `CopiesThroughOwnMapping` with migrations (all windows but 0).
2. Models: a quota limit that changes at run time; an abstract event that
   `KfdEvents` implements; for `DrmSched` a recovery started by another ring,
   and an abstract queue of jobs that it implements, to replace the assumption
   on the ring of `GttWindows`.
