------------------------------ MODULE KfdEvict ------------------------------
(***************************************************************************)
(* Eviction and restore of the user queues of one KFD process              *)
(* (kfd_process.c, kfd_device.c, kfd_device_queue_manager.c, kfd_svm.c,    *)
(* amdgpu_amdkfd_fence.c, amdgpu_amdkfd_gpuvm.c).                          *)
(*                                                                         *)
(* The queues have to be off the GPU before the memory of the process may  *)
(* move.  TTM asks for that through the eviction fence of the process:     *)
(* eviction_work stops the queues, signals the fence and leaves it to      *)
(* restore_work to bring the memory and the queues back under a new fence. *)
(* Suspend, GPU reset and the MMU notifiers of SVM stop the queues for     *)
(* their own reasons.  All of them count in qpd->evicted, one counter per  *)
(* device, under the lock of that device only: the loops over the devices  *)
(* interleave.                                                             *)
(*                                                                         *)
(* The scheduler is the HWS (cpsch without MES).  The queues of a device   *)
(* are treated alike by all of this code, so a device has one.             *)
(***************************************************************************)
EXTENDS Integers, FiniteSets

CONSTANTS
    N,              \* p->n_pdds; the devices are 1 .. N
    ResetDevs,      \* devices of the reset domain that may hang
    SuspendDev,     \* the device that is suspended and resumed
    Sources,        \* what happens to the process
    MaxEvents       \* bound: how often something happens to it

Devs == 1 .. N

ASSUME EvictAssumption ==
    /\ N \in Nat \ {0}
    /\ ResetDevs \subseteq Devs /\ SuspendDev \in Devs \ ResetDevs
    /\ Sources \subseteq {"ttm", "suspend", "reset", "svm", "exit"}
    /\ MaxEvents \in Nat

(* Who runs the loops over the devices. *)
Agents == {"eviction_work", "restore_work", "suspend", "reset",
           "svm_evict", "svm_restore_work"}

VARIABLES
    evicted,        \* qpd->evicted of each device
    queue,          \* its queue: "none", "evicted" or "active"
    hw,             \* the queue is mapped to the hardware
    running,        \* dqm->sched_running
    seqno,          \* number of the eviction fence p->ef
    signaled,       \* that fence has signalled
    asked,          \* p->last_eviction_seqno
    pending,        \* work items that are queued
    pc,             \* place of each agent
    dev,            \* the next device of its loop ...
    last,           \* ... and the last one
    ef,             \* the fence that each agent is about to signal
    error,          \* restore_work: a device could not be restored
    locked,         \* kfd_locked
    sem,            \* reset_domain->sem is held for writing
    resetWork,      \* a reset was scheduled because of a hang
    events,         \* what has happened so far
    evictedRanges,  \* svms->evicted_ranges, and ...
    seenRanges,     \* ... what svm_restore_work read of it
    kept,           \* evictions by suspend and reset that were not undone
    leaked,         \* per device, evictions whose failure was not undone
    unbalanced,     \* a restore has returned an error
    exit            \* "in" the process table, "out", "cancelled", "dequeued",
                    \* "gone"

deviceVars == <<evicted, queue, hw, running>>
fenceVars == <<seqno, signaled, asked>>
loopVars == <<pc, dev, last>>
resetVars == <<locked, sem, resetWork>>
svmVars == <<evictedRanges, seenRanges>>
histVars == <<kept, leaked, unbalanced>>
vars == <<deviceVars, fenceVars, pending, loopVars, ef, error, resetVars,
          events, svmVars, histVars, exit>>

Init ==
    /\ evicted = [d \in Devs |-> 0] /\ queue = [d \in Devs |-> "none"]
    /\ hw = [d \in Devs |-> FALSE] /\ running = [d \in Devs |-> TRUE]
    /\ seqno = 1 /\ signaled = FALSE /\ asked = 0
    /\ pending = {}
    /\ pc = [a \in Agents |-> "idle"]
    /\ dev = [a \in Agents |-> 1] /\ last = [a \in Agents |-> N]
    /\ ef = [a \in Agents |-> 0] /\ error = FALSE
    /\ locked = 0 /\ sem = FALSE /\ resetWork = FALSE
    /\ events = 0
    /\ evictedRanges = 0 /\ seenRanges = 0
    /\ kept = 0 /\ leaked = [d \in Devs |-> 0] /\ unbalanced = FALSE
    /\ exit = "in"

Happens(source) ==
    /\ source \in Sources /\ events < MaxEvents
    /\ events' = events + 1

Goto(a, where) ==
    /\ pc' = [pc EXCEPT ![a] = where]
    /\ UNCHANGED <<dev, last>>

(* Begins a loop over the first n devices. *)
Loop(a, where, n) ==
    /\ pc' = [pc EXCEPT ![a] = where]
    /\ dev' = [dev EXCEPT ![a] = 1]
    /\ last' = [last EXCEPT ![a] = n]

(* The loop goes on, and after the last device to "where". *)
Step(a, where) ==
    IF dev[a] < last[a] THEN /\ dev' = [dev EXCEPT ![a] = @ + 1]
                             /\ UNCHANGED <<pc, last>>
                        ELSE Loop(a, where, N)

-----------------------------------------------------------------------------
(* The queue manager of a device. *)

(* execute_queues_cpsch: -EIO while the reset domain is locked; a preemption *)
(* that times out is -ETIME and schedules a reset.                           *)
Results(d) ==
    IF d \notin ResetDevs THEN {"ok"}
    ELSE IF sem THEN {"EIO"}
    ELSE IF running[d] /\ ~resetWork /\ "reset" \in Sources /\ events < MaxEvents
           THEN {"ok", "ETIME"} ELSE {"ok"}

(* The run list of device d is replaced, with its queue in state q. *)
Execute(d, q, r) ==
    /\ queue' = [queue EXCEPT ![d] = q]
    /\ hw' = [hw EXCEPT ![d] = IF r = "ok" /\ running[d] THEN q = "active"
                               ELSE @]
    /\ resetWork' = (resetWork \/ r = "ETIME")
    /\ events' = IF r = "ETIME" THEN events + 1 ELSE events
    /\ UNCHANGED <<running, locked, sem>>

Stopped(d) == IF queue[d] = "active" THEN "evicted" ELSE queue[d]

Restarted(d) == IF queue[d] = "evicted" THEN "active" ELSE queue[d]

(* evict_process_queues_cpsch *)
EvictQueues(d, r) ==
    /\ evicted' = [evicted EXCEPT ![d] = @ + 1]
    /\ IF evicted[d] > 0
         THEN r = "ok" /\ UNCHANGED <<queue, hw, running, events, resetVars>>
         ELSE r \in Results(d) /\ Execute(d, Stopped(d), r)

(* Mutant: the counter is not looked at before it is decremented.            *)
RestoreUnchecked(d, r) ==
    IF evicted[d] # 1
      THEN /\ r = "ok"
           /\ evicted' = [evicted EXCEPT ![d] = @ - 1]
           /\ UNCHANGED <<queue, hw, running, events, resetVars>>
      ELSE /\ r \in Results(d)
           /\ evicted' = [evicted EXCEPT ![d] = 0]
           /\ Execute(d, Restarted(d), r)

(* Mutant: the first restore starts the queues.                              *)
RestoreAtOnce(d, r) ==
    /\ r \in Results(d)
    /\ evicted' = [evicted EXCEPT ![d] = 0]
    /\ Execute(d, Restarted(d), r)

(* restore_process_queues_cpsch *)
RestoreQueues(d, r) ==
    IF evicted[d] # 1
      THEN /\ r = "ok"
           /\ evicted' = [evicted EXCEPT ![d] = IF @ = 0 THEN 0 ELSE @ - 1]
           /\ UNCHANGED <<queue, hw, running, events, resetVars>>
      ELSE /\ r \in Results(d)
           /\ evicted' = [evicted EXCEPT ![d] = 0]
           /\ Execute(d, Restarted(d), r)

(* Mutant: a new queue is started whether its process is stopped or not.     *)
CreateActive(d) ==
    /\ exit = "in" /\ queue[d] = "none"
    /\ \E r \in Results(d) :
         Execute(d, IF r = "ok" THEN "active" ELSE "none", r)
    /\ UNCHANGED <<evicted, fenceVars, pending, loopVars, ef, error, svmVars,
                   histVars, exit>>

(* create_queue_cpsch: a new queue is stopped when its process is.  When the *)
(* run list cannot be replaced the queue is removed again.                   *)
CreateQueue(d) ==
    /\ exit = "in" /\ queue[d] = "none"
    /\ IF evicted[d] > 0
         THEN /\ queue' = [queue EXCEPT ![d] = "evicted"]
              /\ UNCHANGED <<hw, running, events, resetVars>>
         ELSE \E r \in Results(d) :
                Execute(d, IF r = "ok" THEN "active" ELSE "none", r)
    /\ UNCHANGED <<evicted, fenceVars, pending, loopVars, ef, error, svmVars,
                   histVars, exit>>

(* destroy_queue_cpsch *)
DestroyQueue(d) ==
    /\ exit = "in" /\ queue[d] # "none"
    /\ IF queue[d] = "active"
         THEN \E r \in Results(d) : Execute(d, "none", r)
         ELSE /\ queue' = [queue EXCEPT ![d] = "none"]
              /\ UNCHANGED <<hw, running, events, resetVars>>
    /\ UNCHANGED <<evicted, fenceVars, pending, loopVars, ef, error, svmVars,
                   histVars, exit>>

-----------------------------------------------------------------------------
(* The loops over the devices. *)

Forced(a) == a # "eviction_work"

(* One round of kfd_process_evict_queues: when the queues of a device cannot *)
(* be stopped, eviction_work restores the devices before that one.           *)
EvictDevice(a) ==
    /\ pc[a] = "evicting"
    /\ \E r \in {"ok", "EIO", "ETIME"} :
         /\ EvictQueues(dev[a], r)
         /\ IF r = "ETIME" /\ ~Forced(a)
              THEN /\ IF dev[a] = 1 THEN Goto(a, "idle")
                                    ELSE Loop(a, "undo", dev[a] - 1)
                   /\ leaked' = [leaked EXCEPT ![dev[a]] = @ + 1]
              ELSE /\ Step(a, IF a = "svm_evict" THEN "queue" ELSE "fence")
                   /\ UNCHANGED leaked
    /\ UNCHANGED <<fenceVars, pending, ef, error, svmVars, kept, unbalanced,
                   exit>>

(* One round of kfd_process_restore_queues; restore_work tries again later   *)
(* when a device fails, the other callers do not.                            *)
RestoreDevice(a) ==
    /\ pc[a] \in {"restoring", "undo"}
    /\ \E r \in {"ok", "EIO", "ETIME"} :
         /\ RestoreQueues(dev[a], r)
         /\ unbalanced' = (unbalanced \/ r # "ok")
         /\ LET failed == error \/ r # "ok"
            IN  IF a = "restore_work" /\ pc[a] = "restoring"
                  THEN /\ Step(a, IF failed THEN "requeue" ELSE "idle")
                       /\ error' = (failed /\ dev[a] < last[a])
                  ELSE /\ Step(a, "idle")
                       /\ UNCHANGED error
    /\ UNCHANGED <<fenceVars, pending, ef, svmVars, kept, leaked, exit>>

-----------------------------------------------------------------------------
(* Eviction for TTM *)

(* amdkfd_fence_enable_signaling and                                         *)
(* kgd2kfd_schedule_evict_and_restore_process: when the process is no longer *)
(* in the table, dma_fence signals the fence by itself.                      *)
EnableSignaling ==
    /\ ~signaled /\ Happens("ttm")
    /\ IF exit = "in"
         THEN /\ asked # seqno
              /\ asked' = seqno
              /\ pending' = pending \cup {"eviction_work"}
              /\ UNCHANGED signaled
         ELSE signaled' = TRUE /\ UNCHANGED <<asked, pending>>
    /\ UNCHANGED <<seqno, deviceVars, loopVars, ef, error, resetVars, svmVars,
                   histVars, exit>>

(* A work item starts: evict_process_worker, restore_process_worker.         *)
StartEviction ==
    /\ "eviction_work" \in pending /\ pc["eviction_work"] = "idle"
    /\ pending' = pending \ {"eviction_work"}
    /\ Loop("eviction_work", "evicting", N)
    /\ UNCHANGED <<deviceVars, fenceVars, ef, error, events, resetVars, svmVars,
                   histVars, exit>>

StartRestore ==
    /\ "restore_work" \in pending /\ pc["restore_work"] = "idle"
    /\ pending' = pending \ {"restore_work"}
    /\ Goto("restore_work", "bos")
    /\ UNCHANGED <<deviceVars, fenceVars, ef, error, events, resetVars, svmVars,
                   histVars, exit>>

(* signal_eviction_fence reads p->ef ...                                     *)
GetFence(a) ==
    /\ pc[a] = "fence"
    /\ ef' = [ef EXCEPT ![a] = seqno]
    /\ Goto(a, "signal")
    /\ UNCHANGED <<deviceVars, fenceVars, pending, error, events, resetVars, svmVars,
                   histVars, exit>>

(* ... and signals it, unless another thread has done so: that one answers   *)
(* for the restore then, and this eviction is undone.                        *)
SignalFence ==
    /\ pc["eviction_work"] = "signal"
    /\ ef' = [ef EXCEPT !["eviction_work"] = 0]
    /\ IF ef["eviction_work"] = seqno /\ ~signaled
         THEN signaled' = TRUE /\ Goto("eviction_work", "queue")
         ELSE Loop("eviction_work", "undo", N) /\ UNCHANGED signaled
    /\ UNCHANGED <<seqno, asked, deviceVars, pending, error, events, resetVars,
                   svmVars, histVars, exit>>

(* Mutant: the result of mod_delayed_work is ignored.                        *)
QueueOnly(a) ==
    /\ pc[a] \in {"queue", "requeue"} /\ a \in {"eviction_work", "restore_work"}
    /\ pending' = pending \cup {"restore_work"}
    /\ Goto(a, "idle")
    /\ UNCHANGED <<deviceVars, fenceVars, ef, error, events, resetVars, svmVars,
                   histVars, exit>>

(* mod_delayed_work: a restore that is pending already stands for two        *)
(* evictions, so one of them is undone.                                      *)
QueueRestore(a) ==
    /\ pc[a] \in {"queue", "requeue"} /\ a \in {"eviction_work", "restore_work"}
    /\ pending' = pending \cup {"restore_work"}
    /\ IF "restore_work" \in pending THEN Loop(a, "undo", N)
                                     ELSE Goto(a, "idle")
    /\ UNCHANGED <<deviceVars, fenceVars, ef, error, events, resetVars, svmVars,
                   histVars, exit>>

(* restore_process_helper begins with                                        *)
(* amdgpu_amdkfd_gpuvm_restore_process_bos: a new fence replaces one that    *)
(* has signalled.                                                            *)
RestoreBos(a) ==
    /\ pc[a] = "bos"
    /\ seqno' = IF signaled THEN seqno + 1 ELSE seqno
    /\ signaled' = FALSE
    /\ kept' = IF a = "suspend" THEN kept - 1 ELSE kept
    /\ Loop(a, "restoring", N)
    /\ UNCHANGED <<asked, deviceVars, pending, ef, error, events, resetVars, svmVars,
                   leaked, unbalanced, exit>>

(* Mutant: restore_work gives up as well.                                    *)
RestoreGivesUp(a) ==
    /\ pc[a] = "bos"
    /\ Goto(a, "idle")
    /\ UNCHANGED <<deviceVars, fenceVars, pending, ef, error, events, resetVars,
                   svmVars, histVars, exit>>

(* There is no memory: restore_work tries again, resume gives up.            *)
RestoreBosFails(a) ==
    /\ pc[a] = "bos"
    /\ Goto(a, IF a = "restore_work" THEN "requeue" ELSE "idle")
    /\ UNCHANGED <<deviceVars, fenceVars, pending, ef, error, events, resetVars,
                   svmVars, histVars, exit>>

-----------------------------------------------------------------------------
(* Suspend and reset *)

(* kfd_processes_mutex is held from the first eviction to the signal, and    *)
(* while the process is resumed.                                             *)
MutexFree ==
    \A a \in {"suspend", "reset"} :
        pc[a] \notin {"evicting", "fence", "signal", "bos", "restoring"}

(* kgd2kfd_suspend_process: the first to lock the KFD stops all processes.   *)
Suspend(a) ==
    /\ MutexFree
    /\ locked' = locked + 1
    /\ IF locked = 0 /\ exit = "in" THEN Loop(a, "evicting", N)
                                    ELSE Goto(a, "stop")

SuspendBegin ==
    /\ pc["suspend"] = "idle" /\ Happens("suspend")
    /\ Suspend("suspend")
    /\ UNCHANGED <<sem, resetWork, deviceVars, fenceVars, pending, ef,
                   error, svmVars, histVars, exit>>

(* Mutant: the fence is left to eviction_work.                               *)
SuspendSilently(a) ==
    /\ pc[a] = "signal" /\ a \in {"suspend", "reset"}
    /\ ef' = [ef EXCEPT ![a] = 0]
    /\ kept' = kept + 1
    /\ Goto(a, "stop")
    /\ UNCHANGED <<fenceVars, deviceVars, pending, error, events, resetVars,
                   svmVars, leaked, unbalanced, exit>>

(* The end of kfd_suspend_all_processes: the result of signal_eviction_fence *)
(* is not looked at.                                                         *)
SuspendSignal(a) ==
    /\ pc[a] = "signal" /\ a \in {"suspend", "reset"}
    /\ signaled' = (signaled \/ ef[a] = seqno)
    /\ ef' = [ef EXCEPT ![a] = 0]
    /\ kept' = kept + 1
    /\ Goto(a, "stop")
    /\ UNCHANGED <<seqno, asked, deviceVars, pending, error, events, resetVars,
                   svmVars, leaked, unbalanced, exit>>

(* The rest of kgd2kfd_suspend: dqm->ops.stop *)
SuspendStop ==
    /\ pc["suspend"] = "stop"
    /\ running' = [running EXCEPT ![SuspendDev] = FALSE]
    /\ hw' = [hw EXCEPT ![SuspendDev] = FALSE]
    /\ Goto("suspend", "stopped")
    /\ UNCHANGED <<evicted, queue, fenceVars, pending, ef, error, events, resetVars,
                   svmVars, histVars, exit>>

(* kgd2kfd_resume: dqm->ops.start, ... *)
ResumeStart ==
    /\ pc["suspend"] = "stopped"
    /\ running' = [running EXCEPT ![SuspendDev] = TRUE]
    /\ hw' = [hw EXCEPT ![SuspendDev] = queue[SuspendDev] = "active"]
    /\ Goto("suspend", "resume")
    /\ UNCHANGED <<evicted, queue, fenceVars, pending, ef, error, events, resetVars,
                   svmVars, histVars, exit>>

(* ... then kgd2kfd_resume_process: the last to unlock the KFD restores.     *)
Resume ==
    /\ pc["suspend"] = "resume" /\ MutexFree
    /\ locked' = locked - 1
    /\ Goto("suspend", IF locked = 1 /\ exit = "in" THEN "bos" ELSE "idle")
    /\ UNCHANGED <<sem, resetWork, deviceVars, fenceVars, pending, ef, error,
                   events, svmVars, histVars, exit>>

(* A reset, because of a hang of the HWS or of another engine, locks the     *)
(* reset domain ...                                                          *)
ResetLock ==
    /\ pc["reset"] = "idle"
    /\ IF resetWork THEN UNCHANGED events ELSE Happens("reset")
    /\ sem' = TRUE /\ resetWork' = FALSE
    /\ Goto("reset", "pre")
    /\ UNCHANGED <<locked, deviceVars, fenceVars, pending, ef, error,
                   svmVars, histVars, exit>>

(* ... before kgd2kfd_pre_reset stops the processes.                         *)
PreReset ==
    /\ pc["reset"] = "pre"
    /\ Suspend("reset")
    /\ UNCHANGED <<sem, resetWork, deviceVars, fenceVars, pending, ef, error,
                   events, svmVars, histVars, exit>>

(* dqm->ops.stop can no longer unmap a queue; the reset itself does.         *)
ResetHardware ==
    /\ pc["reset"] = "stop"
    /\ running' = [d \in Devs |-> running[d] /\ d \notin ResetDevs]
    /\ hw' = [d \in Devs |-> hw[d] /\ d \notin ResetDevs]
    /\ Goto("reset", "post")
    /\ UNCHANGED <<evicted, queue, fenceVars, pending, ef, error, events, resetVars,
                   svmVars, histVars, exit>>

(* kgd2kfd_post_reset unlocks the KFD and restores nothing.                  *)
PostReset ==
    /\ pc["reset"] = "post" /\ MutexFree
    /\ running' = [d \in Devs |-> running[d] \/ d \in ResetDevs]
    /\ locked' = locked - 1
    /\ sem' = FALSE
    /\ Goto("reset", "idle")
    /\ UNCHANGED <<evicted, queue, hw, fenceVars, pending, ef, error,
                   resetWork, events, svmVars, histVars, exit>>

-----------------------------------------------------------------------------
(* Eviction of SVM ranges *)

(* svm_range_evict: the first range stops the queues (a notifier of another  *)
(* range does not wait for that), ...                                        *)
SvmEvict ==
    /\ exit = "in" /\ Happens("svm")
    /\ evictedRanges' = evictedRanges + 1
    /\ IF evictedRanges = 0
         THEN Loop("svm_evict", "evicting", N)
         ELSE UNCHANGED loopVars
    /\ UNCHANGED <<seenRanges, deviceVars, fenceVars, pending, ef, error,
                   resetVars, histVars, exit>>

(* ... and queues the work that maps the ranges again.                       *)
SvmQueue ==
    /\ pc["svm_evict"] = "queue"
    /\ pending' = pending \cup {"svm_restore_work"}
    /\ Goto("svm_evict", "idle")
    /\ UNCHANGED <<deviceVars, fenceVars, ef, error, events, resetVars, svmVars,
                   histVars, exit>>

(* svm_range_restore_work reads the counter, maps every invalid range, ...   *)
SvmStart ==
    /\ "svm_restore_work" \in pending /\ pc["svm_restore_work"] = "idle"
    /\ pending' = pending \ {"svm_restore_work"}
    /\ seenRanges' = evictedRanges
    /\ Goto("svm_restore_work", IF evictedRanges = 0 THEN "idle" ELSE "map")
    /\ UNCHANGED <<evictedRanges, deviceVars, fenceVars, ef, error, events,
                   resetVars, histVars, exit>>

(* ... and resumes the queues if no range was evicted meanwhile.             *)
SvmResume ==
    /\ pc["svm_restore_work"] = "map"
    /\ evictedRanges = seenRanges
    /\ evictedRanges' = 0 /\ seenRanges' = 0
    /\ IF exit = "in" THEN Loop("svm_restore_work", "undo", N)
                      ELSE Goto("svm_restore_work", "idle")
    /\ UNCHANGED <<deviceVars, fenceVars, pending, ef, error, events,
                   resetVars, histVars, exit>>

(* A range cannot be mapped, or was evicted again.                           *)
SvmAgain ==
    /\ pc["svm_restore_work"] = "map"
    /\ seenRanges' = 0
    /\ pending' = pending \cup {"svm_restore_work"}
    /\ Goto("svm_restore_work", "idle")
    /\ UNCHANGED <<evictedRanges, deviceVars, fenceVars, ef, error, events,
                   resetVars, histVars, exit>>

-----------------------------------------------------------------------------
(* The end of the process *)

(* kfd_process_notifier_release takes it out of the table, ...               *)
Exit ==
    /\ exit = "in" /\ Happens("exit") /\ MutexFree
    /\ exit' = "out"
    /\ UNCHANGED <<deviceVars, fenceVars, pending, loopVars, ef, error,
                   resetVars, svmVars, histVars>>

(* ... cancels the work items, ...                                           *)
ExitCancel ==
    /\ exit = "out"
    /\ \A a \in {"eviction_work", "restore_work"} : pc[a] = "idle"
    /\ exit' = "cancelled"
    /\ pending' = pending \ {"eviction_work", "restore_work"}
    /\ UNCHANGED <<deviceVars, fenceVars, loopVars, ef, error, events, resetVars,
                   svmVars, histVars>>

(* ... and with the last reference kfd_process_wq_release removes the        *)
(* queues, ...                                                               *)
ExitDequeue ==
    /\ exit = "cancelled"
    /\ \A a \in {"svm_evict", "svm_restore_work"} : pc[a] = "idle"
    /\ exit' = "dequeued"
    /\ queue' = [d \in Devs |-> "none"]
    /\ \E H \in SUBSET {d \in Devs : "ETIME" \in Results(d)} :
         /\ hw' = [d \in Devs |-> hw[d] /\ (d \in H \/ Results(d) = {"EIO"})]
         /\ resetWork' = (resetWork \/ H # {})
         /\ events' = IF H = {} THEN events ELSE events + 1
    /\ pending' = {}
    /\ UNCHANGED <<evicted, running, fenceVars, loopVars, ef, error, locked,
                   sem, svmVars, histVars>>

(* ... waits for a reset to finish and signals the fence.                    *)
ExitSignal ==
    /\ exit = "dequeued" /\ pc["reset"] = "idle" /\ ~resetWork
    /\ exit' = "gone"
    /\ signaled' = TRUE
    /\ UNCHANGED <<seqno, asked, deviceVars, pending, loopVars, ef, error,
                   events, resetVars, svmVars, histVars>>

Done == exit = "gone" /\ UNCHANGED vars

-----------------------------------------------------------------------------
EvictionWork ==
    \/ StartEviction \/ EvictDevice("eviction_work")
    \/ GetFence("eviction_work") \/ SignalFence
    \/ QueueRestore("eviction_work") \/ RestoreDevice("eviction_work")

RestoreWork ==
    \/ StartRestore \/ RestoreBos("restore_work")
    \/ RestoreBosFails("restore_work") \/ RestoreDevice("restore_work")
    \/ QueueRestore("restore_work")

SuspendResume ==
    \/ EvictDevice("suspend") \/ GetFence("suspend")
    \/ SuspendSignal("suspend") \/ SuspendStop
    \/ ResumeStart \/ Resume
    \/ RestoreBos("suspend") \/ RestoreBosFails("suspend")
    \/ RestoreDevice("suspend")

Reset ==
    \/ PreReset \/ EvictDevice("reset") \/ GetFence("reset")
    \/ SuspendSignal("reset")
    \/ ResetHardware \/ PostReset

SvmWork ==
    \/ EvictDevice("svm_evict") \/ SvmQueue
    \/ SvmStart \/ SvmResume \/ SvmAgain \/ RestoreDevice("svm_restore_work")

ExitWork == ExitCancel \/ ExitDequeue \/ ExitSignal

Next ==
    \/ EvictionWork \/ RestoreWork \/ SuspendResume \/ Reset \/ SvmWork
    \/ EnableSignaling \/ SuspendBegin \/ ResetLock \/ SvmEvict
    \/ \E d \in Devs : CreateQueue(d) \/ DestroyQueue(d)
    \/ Exit \/ ExitWork \/ Done

Spec == Init /\ [][Next]_vars

(***************************************************************************)
(* Fairness: work items and the threads that suspend, resume, reset and    *)
(* release go on, and a reset that was scheduled starts.  Only the         *)
(* restores also need memory time and again.                               *)
(***************************************************************************)
Fairness ==
    /\ WF_vars(EvictionWork) /\ WF_vars(RestoreWork)
    /\ WF_vars(SuspendResume) /\ WF_vars(Reset) /\ WF_vars(SvmWork)
    /\ WF_vars(ExitWork)
    /\ WF_vars(resetWork /\ ResetLock)
    /\ SF_vars(RestoreBos("restore_work")) /\ SF_vars(SvmResume)

FairSpec == Spec /\ Fairness

-----------------------------------------------------------------------------
Labels == {"idle", "evicting", "fence", "signal", "queue", "requeue", "undo",
           "bos", "restoring", "stop", "stopped", "resume", "pre", "post",
           "map"}

DeviceTypes ==
    /\ evicted \in [Devs -> Nat]
    /\ queue \in [Devs -> {"none", "evicted", "active"}]
    /\ hw \in [Devs -> BOOLEAN] /\ running \in [Devs -> BOOLEAN]

FenceTypes ==
    /\ seqno \in Nat /\ asked \in 0 .. seqno
    /\ ef \in [Agents -> 0 .. seqno] /\ signaled \in BOOLEAN

LoopTypes ==
    /\ pc \in [Agents -> Labels]
    /\ dev \in [Agents -> Devs] /\ last \in [Agents -> Devs]

CountTypes ==
    /\ locked \in 0 .. 2 /\ events \in 0 .. MaxEvents
    /\ evictedRanges \in Nat /\ seenRanges \in Nat
    /\ kept \in Nat /\ leaked \in [Devs -> Nat]

FlagTypes ==
    /\ pending \subseteq {"eviction_work", "restore_work", "svm_restore_work"}
    /\ error \in BOOLEAN /\ sem \in BOOLEAN /\ resetWork \in BOOLEAN
    /\ unbalanced \in BOOLEAN
    /\ exit \in {"in", "out", "cancelled", "dequeued", "gone"}

(* Type invariant *)
TypeOK == DeviceTypes /\ FenceTypes /\ LoopTypes /\ CountTypes /\ FlagTypes

One(b) == IF b THEN 1 ELSE 0

(* Agent a is in a loop that has evicted device d, or has not restored it.   *)
InLoop(a, d) ==
    \/ pc[a] = "evicting" /\ d < dev[a]
    \/ pc[a] \in {"fence", "signal", "queue", "requeue"}
    \/ pc[a] \in {"restoring", "undo"} /\ d \in dev[a] .. last[a]

(* Who keeps the queues of device d stopped.                                 *)
Holders(d) ==
    One(InLoop("eviction_work", d))
    + One("restore_work" \in pending)
    + One(InLoop("restore_work", d) \/ pc["restore_work"] = "bos")
    + One(InLoop("suspend", d)) + One(InLoop("reset", d)) + kept
    + One(InLoop("svm_evict", d) /\ pc["svm_evict"] # "queue")
    + One(evictedRanges > 0 /\ pc["svm_evict"] # "evicting")
    + One(InLoop("svm_restore_work", d))
    + leaked[d]

(* Eviction is reference-counted: as long as no restore has failed, the      *)
(* counter of a device is the number of those who keep it stopped, whatever  *)
(* the order in which they come and go.                                      *)
EvictionsBalanced ==
    exit = "in" /\ ~unbalanced =>
        \A d \in Devs : evicted[d] = Holders(d)

(* No queue runs on the hardware while memory of the process may move: the   *)
(* fence signals after the queues have stopped, and they start again under a *)
(* new one.  Left out are a device that waits for its reset, and the end of  *)
(* the process.                                                              *)
StoppedWhenSignaled ==
    exit = "in" /\ ~unbalanced /\ signaled =>
        \A d \in Devs : hw[d] => d \in ResetDevs /\ (sem \/ resetWork)

(* The notifier that evicted the first range has not come to device d yet.   *)
SvmStopsLater(d) == pc["svm_evict"] = "evicting" /\ d >= dev["svm_evict"]

(* The same for ranges of SVM that are not mapped, once the notifier of the  *)
(* first of them has stopped the device.  Before that it does not hold,      *)
(* although svm_range_evict is said to "stop all queues of the process [...],*)
(* then return": only the notifier that finds evicted_ranges at 0 stops      *)
(* them, and one that comes while it is still at it returns at once, so that *)
(* the CPU takes back the second range under running queues.                 *)
StoppedForSvm ==
    exit = "in" /\ ~unbalanced /\ evictedRanges > 0 =>
        \A d \in Devs : hw[d] => \/ SvmStopsLater(d)
                                 \/ d \in ResetDevs /\ (sem \/ resetWork)

(* TTM waits for no fence for ever: one that was asked for signals, also     *)
(* when the queues cannot be stopped or the process ends.                    *)
FenceSignals ==
    \A n \in 1 .. MaxEvents :
        (asked = n /\ seqno = n) ~> (seqno > n \/ signaled)

(* Queues that were stopped start again, unless a reset or a resume without  *)
(* memory has left the process stopped.                                      *)
QueuesComeBack ==
    \A d \in Devs :
        (queue[d] = "evicted") ~>
            (queue[d] # "evicted" \/ kept > 0 \/ unbalanced \/ leaked[d] > 0)
=============================================================================
