------------------------------ MODULE DrmSched ------------------------------
(***************************************************************************)
(* One drm_gpu_scheduler (scheduler/sched_main.c, sched_entity.c) with the *)
(* amdgpu back end (amdgpu_job.c): the jobs of one ring, from              *)
(* drm_sched_entity_push_job to free_job.                                  *)
(*                                                                         *)
(* Threads: the owner of each entity (push, kill), the ordered workqueue   *)
(* submit_wq that executes work_run_job and work_free_job one at a time,   *)
(* the timeout work on the ordered reset workqueue, the system workqueue   *)
(* that finishes killed jobs, and the ring, whose interrupt signals the    *)
(* hardware fences in ring order, or never.                                *)
(*                                                                         *)
(* The order in which a run queue offers its ready entities (FIFO by       *)
(* submission time, round robin, priorities) is left open; what is kept of *)
(* the policy is that FIFO selects from the rb-tree and round robin from   *)
(* the list of entities.  Every amdgpu job takes one credit, and every     *)
(* recovery is carried through (see the README for the ones that are not). *)
(*                                                                         *)
(* pause_submit is tested and the work is queued without a lock in between:*)
(* a thread may queue a work after the scheduler was stopped (late, stray).*)
(***************************************************************************)
EXTENDS Naturals, FiniteSets, Sequences, SequencesExt

CONSTANTS
    Entities,      \* drm_sched_entity's of the scheduler
    Jobs,          \* amdgpu jobs
    Plan,          \* [Entities -> Seq(Jobs)]: what each owner submits, in order
    DepOf,         \* [Jobs -> Jobs \cup {NoJob, Foreign}]: the dependency of a job
    CreditLimit,   \* num_hw_submission
    Killable,      \* the entities whose owner may be killed, or may close them
    Fifo,          \* drm_sched_policy == DRM_SCHED_POLICY_FIFO
    MaxUpsets,     \* bound: how many entities are killed, threads late to queue
                   \* a work and works queued in the middle of a recovery
    NoJob,
    Foreign        \* a fence of another scheduler

ASSUME SchedAssumption ==
    /\ CreditLimit \in Nat \ {0}
    /\ Plan \in [Entities -> Seq(Jobs)]
    /\ DepOf \in [Jobs -> Jobs \cup {NoJob, Foreign}]
    /\ Killable \subseteq Entities
    /\ Fifo \in BOOLEAN /\ MaxUpsets \in Nat
    /\ NoJob \notin Jobs /\ Foreign \notin Jobs /\ NoJob # Foreign
    \* Each job is submitted once.
    /\ \A e, f \in Entities : \A i \in 1..Len(Plan[e]), k \in 1..Len(Plan[f]) :
          Plan[e][i] = Plan[f][k] => e = f /\ i = k

VARIABLES
    ent,       \* the entities
    job,       \* the jobs with their scheduler fences
    wq,        \* submit_wq: the works that are queued ("run", "free")
    late,      \* the works a thread has found unpaused and not queued yet, and
               \* (history) whether one of them was queued after drm_sched_stop
               \* had cancelled it
    worker,    \* what submit_wq is executing
    pending,   \* sched->pending_list
    credit,    \* sched->credit_count
    pause,     \* sched->pause_submit
    timer,     \* work_tdr is armed
    tdr,       \* drm_sched_job_timedout
    ring,      \* the jobs in the hardware ring, oldest first
    foreign    \* the foreign fence has signalled

vars == <<ent, job, wq, late, worker, pending, credit, pause, timer, tdr, ring,
          foreign>>

Idle == [pc |-> "idle", e |-> NoJob, j |-> NoJob]
TdrIdle == [pc |-> "idle", bad |-> NoJob, mode |-> "none", i |-> 0,
            freeGuilty |-> FALSE]

Init ==
    /\ ent = [e \in Entities |->
                [sent |-> 0, queue |-> <<>>, rq |-> FALSE, tree |-> FALSE,
                 stopped |-> FALSE, closed |-> FALSE, idle |-> TRUE,
                 dep |-> "none", on |-> NoJob, last |-> NoJob,
                 push |-> "idle", kill |-> "none"]]
    /\ job = [j \in Jobs |->
                [scheduled |-> FALSE, finished |-> FALSE, err |-> FALSE,
                 parent |-> FALSE, cb |-> FALSE, hw |-> "none", hwErr |-> FALSE,
                 depTaken |-> FALSE, killed |-> FALSE, prev |-> NoJob, freed |-> 0]]
    /\ wq = <<>> /\ worker = Idle
    /\ late = [works |-> {}, stray |-> FALSE]
    /\ pending = <<>> /\ credit = 0 /\ pause = FALSE /\ timer = FALSE
    /\ tdr = TdrIdle /\ ring = <<>> /\ foreign = FALSE

-----------------------------------------------------------------------------
(* Fences, callbacks and the two works.                                    *)

\* queue_work: a work that is already queued is not queued again.
QueueWork(q, w) == IF Contains(q, w) THEN q ELSE Append(q, w)

\* drm_sched_run_job_queue and __drm_sched_run_free_queue, without delay.
Run(q, w) == IF pause THEN q ELSE QueueWork(q, w)

Upsets == Cardinality(late.works) + (IF late.stray THEN 1 ELSE 0)
          + Cardinality({e \in Entities : ent[e].stopped})

\* The same, delayed between the test and queue_work.
RunLate(w) ==
    /\ ~pause /\ Upsets < MaxUpsets
    /\ late' = [late EXCEPT !.works = @ \cup {w}]

\* Where the work that calls it is not the one that drm_sched_wqueue_stop waits
\* for before it cancels w, it may be either.
Call(q, w, called) ==
    \/ wq' = (IF called THEN Run(q, w) ELSE q) /\ UNCHANGED late
    \/ called /\ wq' = q /\ RunLate(w)

\* The finished fence a job or an entity waits for has signalled.
Finished(jb, f, t) ==
    CASE t = NoJob -> TRUE [] t = Foreign -> f [] OTHER -> jb[t].finished

\* The entities whose dependency callback runs when the jobs are as in jb and
\* the foreign fence is f: those that wait for a scheduled fence
\* (drm_sched_entity_clear_dep), and those that wait for a finished one
\* (drm_sched_entity_wakeup).
ClearDepCalled(jb) ==
    {e \in Entities : ent[e].dep = "scheduled" /\ jb[ent[e].on].scheduled}
WakeupCalled(jb, f) ==
    {e \in Entities : ent[e].dep = "finished" /\ Finished(jb, f, ent[e].on)}

\* The entities after the callbacks.
CallbacksRun(en, jb, f) ==
    [e \in Entities |->
        IF e \in ClearDepCalled(jb) \cup WakeupCalled(jb, f)
        THEN [en[e] EXCEPT !.dep = "none", !.on = NoJob] ELSE en[e]]

\* The queued works after the callbacks: only drm_sched_entity_wakeup wakes up
\* the scheduler.
Woken(q, jb, f) == IF WakeupCalled(jb, f) = {} THEN q ELSE Run(q, "run")

\* The jobs after drm_sched_job_done(j, result); its caller takes the credit
\* back and queues the free work.
JobDone(jb, j, failed) ==
    [jb EXCEPT ![j].finished = TRUE, ![j].cb = FALSE, ![j].err = @ \/ failed]

\* Mutant: the timer is armed only when a second job arrives.
TimerForSecond(p) == Len(p) > 1

\* drm_sched_start_timeout
StartTimeout(p) == p # <<>>

\* amdgpu_job_free_cb: what belongs to the job goes with it; what its scheduler
\* fences say is kept, for others hold references to them.
Freed(jb, j) ==
    [jb EXCEPT ![j].freed = @ + 1, ![j].parent = FALSE, ![j].hw = "none",
               ![j].hwErr = FALSE, ![j].depTaken = FALSE, ![j].prev = NoJob]

-----------------------------------------------------------------------------
(* The owner of an entity.                                                 *)

Submitted(j) ==
    \E e \in Entities : \E i \in 1..ent[e].sent : Plan[e][i] = j

\* amdgpu_job_submit and the first half of drm_sched_entity_push_job: the job
\* enters the queue; only the first one of an empty queue goes on.  A fence of
\* this scheduler exists once its job was armed.
PushJob(e) ==
    LET j == Plan[e][ent[e].sent + 1] IN
    /\ ent[e].push = "idle" /\ ~ent[e].closed
    /\ ent[e].sent < Len(Plan[e])
    /\ DepOf[j] \in Jobs => Submitted(DepOf[j])
    /\ ent' = [ent EXCEPT ![e].sent = @ + 1,
                          ![e].queue = Append(@, j),
                          ![e].push = IF ent[e].queue = <<>> THEN "first" ELSE "idle"]
    /\ UNCHANGED <<job, wq, worker, pending, credit, pause, timer, tdr, ring,
                   foreign, late>>

\* The second half, under entity->lock: a killed entity is left alone, any other
\* joins the run queue, and the scheduler is woken.
PushFirst(e) ==
    /\ ent[e].push = "first"
    /\ IF ent[e].stopped
       THEN /\ ent' = [ent EXCEPT ![e].push = "idle"]
            /\ UNCHANGED <<wq, late>>
       ELSE /\ ent' = [ent EXCEPT ![e].push = "idle", ![e].rq = TRUE,
                                  ![e].tree = Fifo]
            /\ Call(wq, "run", TRUE)
    /\ UNCHANGED <<job, worker, pending, credit, pause, timer, tdr, ring,
                   foreign>>

\* drm_sched_entity_kill up to its wait, called by drm_sched_entity_flush when
\* the process was killed or by drm_sched_entity_fini, after which nobody can
\* push.  drm_sched_rq_remove_entity does nothing for an entity that is not in
\* the list.
KillEntity(e, fini) ==
    /\ e \in Killable /\ ent[e].kill = "none" /\ ~ent[e].closed
    /\ IF fini THEN ent[e].push = "idle" ELSE ~ent[e].stopped
    /\ ent[e].stopped \/ Upsets < MaxUpsets
    /\ ent' = [ent EXCEPT ![e].stopped = TRUE, ![e].closed = fini,
                          ![e].rq = FALSE,
                          ![e].tree = @ /\ ~ent[e].rq,
                          ![e].kill = "wait"]
    /\ UNCHANGED <<job, wq, worker, pending, credit, pause, timer, tdr, ring,
                   foreign, late>>

\* The rest of it once entity_idle is complete: each queued job waits for the
\* job before it.  drm_sched_entity_fini also takes the dependency callback off.
KillJobs(e) ==
    LET q == ent[e].queue
        before(i) == IF i = 1 THEN ent[e].last ELSE q[i - 1] IN
    /\ ent[e].kill = "wait" /\ ent[e].idle
    /\ job' = [j \in Jobs |->
                 IF Contains(q, j)
                 THEN [job[j] EXCEPT !.killed = TRUE,
                                     !.prev = before(CHOOSE i \in 1..Len(q) : q[i] = j)]
                 ELSE job[j]]
    /\ ent' = [ent EXCEPT ![e].queue = <<>>, ![e].kill = "none",
                          ![e].dep = IF ent[e].closed THEN "none" ELSE @,
                          ![e].on = IF ent[e].closed THEN NoJob ELSE @,
                          ![e].last = IF ent[e].closed THEN NoJob ELSE @]
    /\ UNCHANGED <<wq, worker, pending, credit, pause, timer, tdr, ring,
                   foreign, late>>

\* drm_sched_entity_kill_jobs_cb has waited for the job before and for the
\* dependency; drm_sched_entity_kill_jobs_work signals both fences and frees.
KillJobsWork(j) ==
    /\ job[j].killed /\ ~job[j].finished
    /\ Finished(job, foreign, job[j].prev)
    /\ Finished(job, foreign, DepOf[j])
    /\ LET jb == Freed([JobDone(job, j, TRUE) EXCEPT ![j].scheduled = TRUE], j) IN
       /\ job' = jb
       /\ ent' = CallbacksRun(ent, jb, foreign)
       /\ Call(wq, "run", WakeupCalled(jb, foreign) # {})
    /\ UNCHANGED <<worker, pending, credit, pause, timer, tdr, ring, foreign>>

-----------------------------------------------------------------------------
(* drm_sched_run_job_work and drm_sched_free_job_work on submit_wq.        *)

\* drm_sched_entity_is_ready for the entities the policy looks at.
Ready == {e \in Entities : /\ IF Fifo THEN ent[e].tree ELSE ent[e].rq
                           /\ ent[e].queue # <<>> /\ ent[e].dep = "none"}

\* drm_sched_select_entity finds nothing to run, or no credit to run it with.
SelectNone ==
    /\ worker.pc = "idle" /\ wq # <<>> /\ Head(wq) = "run"
    /\ Ready = {} \/ credit >= CreditLimit
    /\ wq' = Tail(wq)
    /\ UNCHANGED <<ent, job, worker, pending, credit, pause, timer, tdr, ring,
                   foreign, late>>

\* It finds an entity, whose entity_idle is made incomplete under rq->lock.
SelectEntity(e) ==
    /\ worker.pc = "idle" /\ wq # <<>> /\ Head(wq) = "run"
    /\ e \in Ready /\ credit < CreditLimit
    /\ wq' = Tail(wq)
    /\ worker' = [pc |-> "pop", e |-> e, j |-> NoJob]
    /\ ent' = [ent EXCEPT ![e].idle = FALSE]
    /\ UNCHANGED <<late, job, pending, credit, pause, timer, tdr, ring, foreign>>

\* What drm_sched_entity_add_dependency_cb waits for: the scheduled fence of a
\* job of the same scheduler that has no error, the finished fence of any other.
WaitKind(t) ==
    IF t \in Jobs /\ ~job[t].err THEN "scheduled" ELSE "finished"

\* Mutant: fences of the whole scheduler are ignored, not only the entity's own.
IgnoresSchedulerFences(e, j) ==
    ~job[j].depTaken /\ DepOf[j] = Foreign /\ ~foreign

\* The first job of entity e has a dependency that was not looked at and that
\* has not signalled; fences of the entity itself are ignored.
MustWait(e, j) ==
    LET t == DepOf[j] IN
    /\ ~job[j].depTaken /\ t # NoJob
    /\ ~Contains(Plan[e], t)
    /\ IF WaitKind(t) = "scheduled" THEN ~job[t].scheduled
                                    ELSE ~Finished(job, foreign, t)

\* drm_sched_entity_pop_job returns NULL, having left a callback on the dependency
\* or found the queue empty; the work completes entity_idle and queues itself again.
PopWaits ==
    LET e == worker.e
        q == ent[e].queue
        t == DepOf[Head(q)] IN
    /\ worker.pc = "pop"
    /\ q = <<>> \/ MustWait(e, Head(q))
    /\ ent' = [ent EXCEPT ![e].dep = IF q = <<>> THEN @ ELSE WaitKind(t),
                          ![e].on = IF q = <<>> THEN @ ELSE t,
                          ![e].idle = TRUE]
    /\ job' = IF q = <<>> THEN job ELSE [job EXCEPT ![Head(q)].depTaken = TRUE]
    /\ worker' = Idle
    /\ wq' = Run(wq, "run")
    /\ UNCHANGED <<late, pending, credit, pause, timer, tdr, ring, foreign>>

\* pop_job returns the job: amdgpu_job_prepare_job copies the error of the last
\* job of the entity, and with FIFO an entity that has more jobs is (re)inserted
\* in the tree.  Then drm_sched_job_begin.
PopJob ==
    LET e == worker.e
        j == Head(ent[e].queue)
        l == ent[e].last IN
    /\ worker.pc = "pop" /\ ent[e].queue # <<>> /\ ~MustWait(e, j)
    /\ job' = [job EXCEPT ![j].depTaken = TRUE,
                          ![j].err = @ \/ (l # NoJob /\ job[l].err)]
    /\ ent' = [ent EXCEPT ![e].last = j, ![e].queue = Tail(@),
                          ![e].tree = @ \/ (Fifo /\ Len(ent[e].queue) > 1)]
    /\ pending' = Append(pending, j)
    /\ timer' = StartTimeout(pending')
    /\ credit' = credit + 1
    /\ worker' = [worker EXCEPT !.pc = "run", !.j = j]
    /\ UNCHANGED <<late, wq, pause, tdr, ring, foreign>>

\* amdgpu_job_run: a job with an error is skipped; amdgpu_ib_schedule writes the
\* job into the ring or fails.  One that is cancelled here because VRAM was lost
\* behaves as a failing one.  entity_idle is completed.
RunJob ==
    LET j == worker.j IN
    /\ worker.pc = "run"
    /\ \/ job[j].err /\ UNCHANGED <<job, ring>>
       \/ /\ ~job[j].err
          /\ job' = [job EXCEPT ![j].hw = "ring"] /\ ring' = Append(ring, j)
       \/ /\ ~job[j].err
          /\ job' = [job EXCEPT ![j].hw = "failed"] /\ UNCHANGED ring
    /\ ent' = [ent EXCEPT ![worker.e].idle = TRUE]
    /\ worker' = [pc |-> "callback", e |-> NoJob, j |-> j]
    /\ UNCHANGED <<late, wq, pending, credit, pause, timer, tdr, foreign>>

\* drm_sched_fence_scheduled and the callback on the hardware fence; a job
\* without a hardware fence, or whose fence has signalled, is done at once.
AddCallback ==
    LET j == worker.j
        s == [job EXCEPT ![j].scheduled = TRUE,
                         ![j].parent = job[j].hw \in {"ring", "done"},
                         ![j].cb = job[j].hw = "ring"]
        jb == IF s[j].cb THEN s
              ELSE JobDone(s, j, job[j].hw = "failed" \/ job[j].hwErr)
        woken == Woken(wq, jb, foreign) IN
    /\ worker.pc = "callback"
    /\ job' = jb
    /\ ent' = CallbacksRun(ent, jb, foreign)
    /\ credit' = IF s[j].cb THEN credit ELSE credit - 1
    /\ wq' = Run(IF s[j].cb THEN woken ELSE Run(woken, "free"), "run")
    /\ worker' = Idle
    /\ UNCHANGED <<late, pending, pause, timer, tdr, ring, foreign>>

\* Mutant: the fence of the first job is not looked at.
AnyPendingJob == pending # <<>>

\* drm_sched_get_finished_job takes the first pending job when it has finished,
\* and arms the timer for the next one.
FinishedJob == pending # <<>> /\ job[Head(pending)].finished

\* The free work releases that job and queues itself, if there is another one,
\* and the run work.  A loop of drm_sched_stop beside it is nearer to the head of
\* the list then; what it does with a job that is freed under it is left out.
FreeJobWork ==
    LET rest == IF FinishedJob THEN Tail(pending) ELSE pending
        more == rest # <<>> /\ job[Head(rest)].finished IN
    /\ worker.pc = "idle" /\ wq # <<>> /\ Head(wq) = "free"
    /\ pending' = rest
    /\ job' = IF FinishedJob THEN Freed(job, Head(pending)) ELSE job
    /\ timer' = IF FinishedJob THEN StartTimeout(rest) ELSE timer
    /\ Call(IF more THEN Run(Tail(wq), "free") ELSE Tail(wq), "run", TRUE)
    /\ tdr' = IF tdr.pc = "stop" /\ FinishedJob /\ tdr.i > 0
              THEN [tdr EXCEPT !.i = @ - 1] ELSE tdr
    /\ UNCHANGED <<ent, worker, credit, pause, ring, foreign>>

-----------------------------------------------------------------------------
(* The hardware and the other scheduler.                                    *)

\* The interrupt of the ring: the oldest job is complete, its hardware fence
\* signals, and drm_sched_job_done_cb runs if it is still installed.
HwSignal ==
    LET j == Head(ring)
        s == [job EXCEPT ![j].hw = "done"]
        jb == IF job[j].cb THEN JobDone(s, j, job[j].hwErr) ELSE s
        woken == Woken(wq, jb, foreign) IN
    /\ ring # <<>>
    /\ ring' = Tail(ring)
    /\ job' = jb
    /\ ent' = CallbacksRun(ent, jb, foreign)
    /\ credit' = IF job[j].cb THEN credit - 1 ELSE credit
    /\ \/ Call(woken, "free", job[j].cb)
       \/ /\ job[j].cb /\ WakeupCalled(jb, foreign) # {}
          /\ RunLate("run") /\ wq' = Run(wq, "free")
    /\ UNCHANGED <<worker, pending, pause, timer, tdr, foreign>>

\* The fence of another scheduler signals.
ForeignSignal ==
    /\ ~foreign /\ \E j \in Jobs : DepOf[j] = Foreign
    /\ foreign' = TRUE
    /\ ent' = CallbacksRun(ent, job, TRUE)
    /\ Call(wq, "run", WakeupCalled(job, TRUE) # {})
    /\ UNCHANGED <<job, worker, pending, credit, pause, timer, tdr, ring>>

-----------------------------------------------------------------------------
(* drm_sched_job_timedout and amdgpu_job_timedout on the reset workqueue.   *)

\* The timer expires; the first pending job is taken off the list.
Timedout ==
    /\ timer /\ tdr.pc = "idle"
    /\ timer' = FALSE
    /\ IF pending = <<>>
       THEN UNCHANGED <<tdr, pending>>
       ELSE /\ tdr' = [TdrIdle EXCEPT !.pc = "soft", !.bad = Head(pending)]
            /\ pending' = Tail(pending)
    /\ UNCHANGED <<late, ent, job, wq, worker, credit, pause, ring, foreign>>

\* A reset of the ring begins with drm_sched_wqueue_stop; without it the job is
\* marked and the whole device is recovered.
HardRecovery ==
    \/ /\ pause' = TRUE
       /\ tdr' = [tdr EXCEPT !.pc = "ringreset"]
       /\ UNCHANGED job
    \/ /\ job' = [job EXCEPT ![tdr.bad].err = TRUE]
       /\ tdr' = [tdr EXCEPT !.pc = "recover"]
       /\ UNCHANGED pause

\* amdgpu_ring_soft_recovery marks the hardware fence and kills the waves; rings
\* that cannot, and jobs without a hardware fence, go on.
SoftRecovery ==
    LET b == tdr.bad IN
    /\ tdr.pc = "soft"
    /\ \/ /\ job[b].parent
          /\ job' = [job EXCEPT ![b].hwErr = @ \/ job[b].hw = "ring"]
          /\ tdr' = [tdr EXCEPT !.pc = "softwait"]
          /\ UNCHANGED pause
       \/ HardRecovery
    /\ UNCHANGED <<late, ent, wq, worker, pending, credit, timer, ring, foreign>>

\* Its loop ends: the fence has signalled, or 10 ms have passed.
SoftRecoveryEnds ==
    /\ tdr.pc = "softwait"
    /\ IF job[tdr.bad].hw = "done"
       THEN tdr' = [tdr EXCEPT !.pc = "return"] /\ UNCHANGED <<job, pause>>
       ELSE HardRecovery
    /\ UNCHANGED <<late, ent, wq, worker, pending, credit, timer, ring, foreign>>

\* drm_sched_stop up to its loop: cancel_work_sync has returned for both works,
\* and the bad job is put back at the head of the list.
Stopped(mode) ==
    /\ worker.pc = "idle"
    /\ wq' = <<>>
    /\ pending' = <<tdr.bad>> \o pending
    /\ tdr' = [tdr EXCEPT !.pc = "stop", !.mode = mode, !.i = Len(pending')]

\* amdgpu_ring_reset succeeds and the scheduler is stopped, or it fails and the
\* whole device is recovered.
RingReset(guilty) ==
    /\ tdr.pc = "ringreset"
    /\ \/ /\ Stopped(IF guilty THEN "guilty" ELSE "innocent")
          /\ job' = [job EXCEPT ![tdr.bad].err = @ \/ guilty]
       \/ /\ worker.pc = "idle"
          /\ wq' = <<>>
          /\ job' = [job EXCEPT ![tdr.bad].err = TRUE]
          /\ tdr' = [tdr EXCEPT !.pc = "recover"]
          /\ UNCHANGED pending
    /\ UNCHANGED <<late, ent, worker, credit, pause, timer, ring, foreign>>

\* amdgpu_device_halt_activities calls drm_sched_stop.
Recover ==
    \/ /\ tdr.pc = "recover"
       /\ pause' = TRUE
       /\ tdr' = [tdr EXCEPT !.pc = "halt"]
       /\ UNCHANGED <<ent, job, wq, late, worker, pending, credit, timer, ring,
                      foreign>>
    \/ /\ tdr.pc = "halt"
       /\ Stopped("full")
       /\ UNCHANGED <<ent, job, late, worker, credit, pause, timer, ring, foreign>>

\* Mutant: the result of dma_fence_remove_callback is ignored.
HasParent(j) == job[j].parent

\* The job has a hardware fence, and its callback could be removed.
Detachable(j) == job[j].parent /\ job[j].cb

\* One round of the loop of drm_sched_stop, from the last job to the first: the
\* callback is taken off the hardware fence, or the job has finished and is
\* released, the bad one at the end of the timeout.
StopJob ==
    LET j == pending[tdr.i] IN
    /\ tdr.pc = "stop" /\ tdr.i > 0
    /\ \/ /\ Detachable(j)
          /\ job' = [job EXCEPT ![j].cb = FALSE, ![j].parent = FALSE]
          /\ credit' = credit - 1
          /\ tdr' = [tdr EXCEPT !.i = @ - 1]
          /\ UNCHANGED pending
       \/ /\ ~Detachable(j)
          /\ job[j].finished
          /\ pending' = RemoveAt(pending, tdr.i)
          /\ job' = IF j = tdr.bad THEN job ELSE Freed(job, j)
          /\ tdr' = [tdr EXCEPT !.i = @ - 1, !.freeGuilty = @ \/ j = tdr.bad]
          /\ UNCHANGED credit
    /\ UNCHANGED <<late, ent, wq, worker, pause, timer, ring, foreign>>

\* The loop is over: the timer is cancelled, and the reset comes.  A guilty ring
\* has its fences forced, the jobs of an innocent one go on, and a reset of the
\* device, unless the bad job is found complete, drops the fences of the jobs.
HwReset ==
    /\ tdr.pc = "stop" /\ tdr.i = 0
    /\ \/ /\ tdr.mode = "guilty"
          /\ job' = [j \in Jobs |-> IF Contains(ring, j)
                                    THEN [job[j] EXCEPT !.hw = "done"] ELSE job[j]]
          /\ ring' = <<>>
       \/ /\ tdr.mode = "innocent" \/ (tdr.mode = "full" /\ job[tdr.bad].hw = "done")
          /\ UNCHANGED <<job, ring>>
       \/ /\ tdr.mode = "full" /\ job[tdr.bad].hw # "done"
          /\ job' = [j \in Jobs |-> IF Contains(ring, j)
                                    THEN [job[j] EXCEPT !.hw = "lost"] ELSE job[j]]
          /\ ring' = <<>>
    /\ tdr' = [tdr EXCEPT !.pc = "start"]
    /\ timer' = FALSE
    /\ UNCHANGED <<late, ent, wq, worker, pending, credit, pause, foreign>>

\* A pending job that has a hardware fence which has not signalled.
HasFence(j) == Contains(pending, j) /\ job[j].parent /\ job[j].hw # "done"

\* drm_sched_start: every pending job takes a credit.  One without a hardware
\* fence, and that is all of them unless a work has run since the stop, is done
\* with an error; the callback of the others is installed, a second time.  Then
\* the timer and the works are started.
SchedStart ==
    LET jb == [j \in Jobs |->
                 IF HasFence(j) THEN [job[j] EXCEPT !.cb = TRUE]
                 ELSE IF Contains(pending, j)
                 THEN JobDone(job, j, ~job[j].parent \/ job[j].hwErr)[j]
                 ELSE job[j]] IN
    /\ tdr.pc = "start"
    /\ job' = jb
    /\ credit' = credit + Cardinality({j \in Jobs : HasFence(j)})
    /\ ent' = CallbacksRun(ent, jb, foreign)
    /\ timer' = StartTimeout(pending)
    /\ pause' = FALSE
    /\ wq' = QueueWork(QueueWork(wq, "run"), "free")
    /\ tdr' = [tdr EXCEPT !.pc = "return"]
    /\ UNCHANGED <<late, worker, pending, ring, foreign>>

\* The end of drm_sched_job_timedout.
TimedoutReturns ==
    /\ tdr.pc = "return"
    /\ job' = IF tdr.freeGuilty THEN Freed(job, tdr.bad) ELSE job
    /\ timer' = (timer \/ StartTimeout(pending))
    /\ tdr' = TdrIdle
    /\ UNCHANGED <<late, ent, wq, worker, pending, credit, pause, ring, foreign>>

\* queue_work of a thread that was late; a work that is queued while
\* drm_sched_stop and drm_sched_start walk the list is a stray.
QueueLate(w) ==
    /\ w \in late.works
    /\ wq' = QueueWork(wq, w)
    /\ late' = [late EXCEPT !.works = @ \ {w},
                            !.stray = @ \/ tdr.pc \in {"stop", "start"}]
    /\ UNCHANGED <<ent, job, worker, pending, credit, pause, timer, tdr, ring,
                   foreign>>

-----------------------------------------------------------------------------
Next ==
    \/ \E e \in Entities : \/ PushJob(e) \/ PushFirst(e) \/ KillJobs(e)
                           \/ SelectEntity(e)
                           \/ \E fini \in BOOLEAN : KillEntity(e, fini)
    \/ \E j \in Jobs : KillJobsWork(j)
    \/ SelectNone \/ PopWaits \/ PopJob \/ RunJob \/ AddCallback
    \/ FreeJobWork \/ \E w \in {"run", "free"} : QueueLate(w)
    \/ HwSignal \/ ForeignSignal
    \/ Timedout \/ SoftRecovery \/ SoftRecoveryEnds
    \/ \E guilty \in BOOLEAN : RingReset(guilty)
    \/ Recover \/ StopJob \/ HwReset
    \/ SchedStart \/ TimedoutReturns

\* While threads are runnable one of them runs, submit_wq and the reset workqueue
\* make progress, an armed timer expires and foreign fences signal.  Nothing is
\* assumed of this ring, which may hang, nor of the owners.
Fairness ==
    /\ WF_vars(\/ \E e \in Entities : PushFirst(e) \/ KillJobs(e)
               \/ \E j \in Jobs : KillJobsWork(j)
               \/ ForeignSignal \/ \E w \in {"run", "free"} : QueueLate(w))
    /\ WF_vars(\/ SelectNone \/ \E e \in Entities : SelectEntity(e)
               \/ PopWaits \/ PopJob \/ RunJob \/ AddCallback
               \/ FreeJobWork)
    /\ WF_vars(\/ Timedout \/ SoftRecovery \/ SoftRecoveryEnds
               \/ \E guilty \in BOOLEAN : RingReset(guilty)
               \/ Recover \/ StopJob \/ HwReset \/ SchedStart
               \/ TimedoutReturns)

Spec == Init /\ [][Next]_vars /\ Fairness

-----------------------------------------------------------------------------
\* The jobs that were taken off their entity to be run.
Begun == {j \in Jobs : /\ Submitted(j) /\ ~job[j].killed
                       /\ \A e \in Entities : ~Contains(ent[e].queue, j)}

CreditsMatch ==
    /\ credit = Cardinality({j \in Begun : /\ ~job[j].finished
                                           /\ ~(job[j].scheduled /\ ~job[j].parent)})
    /\ credit <= CreditLimit

\* credit_count is, in every state, the number of jobs that were begun and have
\* not finished, less those a stop has detached from the ring, and it is within
\* the limit: drm_sched_available_credits (sched_main.c:102) only warns when it
\* overflows, and a credit that is lost makes the ring narrower for ever.  This
\* holds until a stray work runs a job during a recovery: drm_sched_start
\* (sched_main.c:690) then takes a second credit for it.
CreditsExact == late.stray \/ CreditsMatch

FreedUnused ==
    \A j \in Jobs : job[j].freed > 0 =>
        /\ job[j].freed = 1 /\ job[j].finished /\ ~job[j].cb
        /\ ~Contains(pending, j) /\ worker.j # j
        /\ \A e \in Entities : ~Contains(ent[e].queue, j)
        /\ tdr.bad = j => tdr.pc = "return" /\ ~tdr.freeGuilty

\* A job is released once, after its fence has signalled, and at that time no
\* list, thread or hardware fence refers to it any more: the free work, the loop
\* of drm_sched_stop, the end of the timeout and the work that finishes killed
\* jobs all call free_job, and the timeout uses a job it took off the list.  This
\* holds until a stray work runs beside that loop, which may then free a job that
\* the loop or the timeout still uses, although sched_main.c:618 has it that "This
\* iteration is thread safe as sched thread is stopped".
NoUseAfterFree == late.stray \/ FreedUnused

BehindDependencies ==
    \A q \in 1..Len(ring) :
        LET t == DepOf[ring[q]] IN
        \/ Finished(job, foreign, t)
        \/ t \in Jobs /\ (job[t].hw = "done" \/ \E p \in 1..(q - 1) : ring[p] = t)

\* A job is in the ring only behind the job it depends on, or after that one has
\* finished: drm_sched_entity_add_dependency_cb waits only for the scheduled fence
\* of a job of the same scheduler (sched_entity.c:517), errors, kills and
\* resets notwithstanding.  This holds until a stray work runs a job between a
\* reset, which drops the job it depends on, and drm_sched_start.
DependenciesFirst == late.stray \/ BehindDependencies

\* Once drm_sched_entity_kill has waited for entity_idle the scheduler does not
\* use the entity any more (sched_entity.c:244, "The entity is guaranteed to not
\* be used by the scheduler").
KilledEntityUnused ==
    \A e \in Entities : ent[e].stopped /\ ent[e].kill = "none" =>
        ~ent[e].rq /\ ~ent[e].tree /\ worker.e # e

\* The first job of entity e depends on a job of this scheduler that a kill has
\* ended, and its callback has run: drm_sched_entity_clear_dep wakes nobody.
Unwoken(e) ==
    /\ ent[e].queue # <<>> /\ ent[e].dep = "none"
    /\ LET t == DepOf[Head(ent[e].queue)] IN t \in Jobs /\ job[t].killed

\* Job j comes after a job that is not finished: it depends on it, or both were
\* killed with their entity.
Waits(j) ==
    ~(Finished(job, foreign, DepOf[j]) /\ Finished(job, foreign, job[j].prev))

\* Every job that was submitted finishes although the ring may hang, errors
\* cancel jobs, resets detach them and any owner may die.  Excepted are a job
\* pushed to a killed entity, which waits until the entity is closed, a job that
\* waited for the scheduled fence of a job that a kill has ended, and what comes
\* after such jobs; and nothing is said once a stray work has run beside a loop of
\* the recovery.  The second may wait for ever for an unrelated wake-up,
\* although sched_entity.c:492-494 says that the callback is there "to wake up the
\* scheduler".  (There are finitely many jobs, so it is the same to say that again
\* and again no other is outstanding; dependencies have no cycles, so the first
\* job of a chain of waiting ones must be such an exception.)
EveryJobFinishes ==
    []<>(late.stray \/ \A j \in Jobs : Submitted(j) =>
            \/ job[j].finished \/ Waits(j)
            \/ \E e \in Entities :
                  /\ Contains(ent[e].queue, j)
                  /\ \/ ent[e].stopped /\ ~ent[e].closed
                     \/ Waits(Head(ent[e].queue)) \/ Unwoken(e))
=============================================================================
