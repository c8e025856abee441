-------------------------- MODULE DrmSched_proofs --------------------------
(***************************************************************************)
(* For any number of entities and jobs, any plan, dependencies and number  *)
(* of credits: no job is used after it was freed, the credits are exact,   *)
(* and a job is behind its dependency in the ring.                         *)
(***************************************************************************)
EXTENDS DrmSched, ListLemmas, FiniteSetTheorems, TLAPS

EntRecords ==
    [sent : Nat, queue : Seq(Jobs), rq : BOOLEAN, tree : BOOLEAN,
     stopped : BOOLEAN, closed : BOOLEAN, idle : BOOLEAN,
     dep : {"none", "scheduled", "finished"},
     on : Jobs \cup {NoJob, Foreign}, last : Jobs \cup {NoJob},
     push : {"idle", "first"}, kill : {"none", "wait"}]

JobRecords ==
    [scheduled : BOOLEAN, finished : BOOLEAN, err : BOOLEAN,
     parent : BOOLEAN, cb : BOOLEAN,
     hw : {"none", "ring", "done", "failed", "lost"}, hwErr : BOOLEAN,
     depTaken : BOOLEAN, killed : BOOLEAN, prev : Jobs \cup {NoJob},
     freed : Nat]

EntTypes == ent \in [Entities -> EntRecords]
JobTypes == job \in [Jobs -> JobRecords]

WorkTypes ==
    /\ wq \in Seq({"run", "free"})
    /\ worker \in [pc : {"idle", "pop", "run", "callback"},
                   e : Entities \cup {NoJob}, j : Jobs \cup {NoJob}]
    /\ pending \in Seq(Jobs) /\ ring \in Seq(Jobs)
    /\ pause \in BOOLEAN /\ timer \in BOOLEAN /\ foreign \in BOOLEAN
    /\ tdr \in [pc : {"idle", "soft", "softwait", "ringreset", "recover",
                      "halt", "stop", "start", "return"},
                bad : Jobs \cup {NoJob},
                mode : {"none", "guilty", "innocent", "full"},
                i : Nat, freeGuilty : BOOLEAN]

TypeOK == EntTypes /\ JobTypes /\ WorkTypes

(* The queue of an entity is the end of what was submitted to it.          *)
QueuesFollowPlan ==
    \A e \in Entities :
        /\ ent[e].sent <= Len(Plan[e]) /\ Len(ent[e].queue) <= ent[e].sent
        /\ \A i \in 1..Len(ent[e].queue) :
              ent[e].queue[i] = Plan[e][ent[e].sent - Len(ent[e].queue) + i]

(* A job that the scheduler has not seen yet.                              *)
Waiting(j) ==
    \/ ~Submitted(j)
    \/ \E e \in Entities : Contains(ent[e].queue, j)

(* The timeout has taken its job off the list and not put it back yet.     *)
Early == {"soft", "softwait", "ringreset", "recover", "halt"}
Held(j) == Contains(pending, j) \/ (tdr.pc \in Early /\ tdr.bad = j)

(* Nothing but its entity, or its own work once it is killed, refers to it.*)
Untouched(j) ==
    /\ ~Contains(pending, j) /\ ~Contains(ring, j)
    /\ worker.j # j /\ tdr.bad # j

JobAgrees(j) ==
    LET b == job[j] IN
    /\ Waiting(j) => /\ Untouched(j) /\ ~b.killed /\ ~b.scheduled
                     /\ ~b.parent /\ b.hw = "none" /\ b.freed = 0
    /\ b.killed => Untouched(j) /\ ~b.parent
    /\ b.cb => b.parent /\ ~b.finished /\ b.hw = "ring"
    /\ b.parent => b.scheduled
    /\ b.finished => b.scheduled
    /\ ~Waiting(j) /\ ~b.killed /\ worker.j # j => b.scheduled

(* The ring, and what a scheduled job has to do with it.                   *)
RingAgrees ==
    /\ Distinct(ring)
    /\ \A j \in Jobs :
          /\ Contains(ring, j) => job[j].hw = "ring" \/ job[j].finished
          /\ Contains(ring, j) => job[j].hw # "done"
          /\ Contains(ring, j) /\ ~job[j].finished => Held(j)
          /\ job[j].hw = "ring" => Contains(ring, j)
          /\ job[j].scheduled => \/ job[j].finished
                                 \/ job[j].hw \in {"ring", "done"}
                                 \/ tdr.pc = "start" /\ Contains(pending, j)

(* The job that the worker executes.                                       *)
WorkerAgrees ==
    /\ worker.pc \in {"idle", "pop"} => worker.j = NoJob
    /\ worker.pc \in {"pop", "run"} =>
          worker.e \in Entities /\ ~ent[worker.e].idle
    /\ worker.pc = "pop" =>
          ent[worker.e].dep = "none" /\ credit < CreditLimit
    /\ worker.pc \in {"run", "callback"} =>
          /\ worker.j \in Jobs /\ Held(worker.j)
          /\ ~job[worker.j].scheduled /\ ~job[worker.j].parent
    /\ worker.pc = "run" => /\ job[worker.j].hw = "none"
                            /\ ~Contains(ring, worker.j)

(* A job that a stop has detached from its hardware fence.                 *)
Detached(j) == job[j].scheduled /\ ~job[j].parent

(* The timeout.                                                            *)
TimeoutAgrees ==
    /\ Distinct(pending)
    /\ tdr.pc = "idle" => tdr.bad = NoJob /\ ~tdr.freeGuilty
    /\ tdr.pc # "idle" => tdr.bad \in Jobs
    /\ tdr.pc \in Early => ~Contains(pending, tdr.bad) /\ ~tdr.freeGuilty
    /\ tdr.pc = "softwait" => job[tdr.bad].parent
    /\ tdr.freeGuilty => ~Contains(pending, tdr.bad) /\ job[tdr.bad].finished
    /\ tdr.pc \in {"ringreset", "halt", "stop", "start"} => pause
    /\ tdr.pc \in {"stop", "start"} => wq = <<>> /\ worker.pc = "idle"
    /\ tdr.pc = "stop" =>
          /\ tdr.i <= Len(pending)
          /\ \A k \in tdr.i + 1..Len(pending) : Detached(pending[k])
    /\ tdr.pc = "start" => \A k \in 1..Len(pending) : Detached(pending[k])

(* The jobs that hold a credit.                                            *)
Charged == {j \in Jobs : ~Waiting(j) /\ ~job[j].killed /\ ~job[j].finished
                            /\ ~Detached(j)}

CreditsAgree == IsFiniteSet(Charged) /\ credit = Cardinality(Charged)
                   /\ credit <= CreditLimit

(* A dependency that nothing waits for any more.                           *)
DepReady(t) ==
    Finished(job, foreign, t) \/ (t \in Jobs /\ job[t].scheduled)

(* Dependencies.                                                           *)
DepsAgree ==
    /\ \A j \in Jobs : job[j].depTaken => Submitted(j)
    /\ \A e \in Entities : \A i \in 1..Len(ent[e].queue) :
          LET j == ent[e].queue[i] IN
          job[j].depTaken => \/ DepReady(DepOf[j])
                             \/ ent[e].dep # "none" /\ ent[e].on = DepOf[j]
    /\ \A e \in Entities : ent[e].dep = "scheduled" => ent[e].on \in Jobs
    /\ \A e \in Entities : \A i \in 1..ent[e].sent :
          DepOf[Plan[e][i]] \in Jobs /\ Contains(Plan[e], DepOf[Plan[e][i]])
             => \E k \in 1..i - 1 : Plan[e][k] = DepOf[Plan[e][i]]
    /\ worker.pc = "run" => DepReady(DepOf[worker.j])

(* A killed entity is out of the run queue for good.                       *)
KillsAgree ==
    \A e \in Entities :
        /\ ent[e].stopped => ~ent[e].rq /\ e \in Killable
        /\ ent[e].kill = "wait" => ent[e].stopped
        /\ \A i \in 1..Len(Plan[e]) : job[Plan[e][i]].killed =>
              ent[e].stopped /\ ~(worker.pc = "pop" /\ worker.e = e)

(* With FIFO a killed entity may come back (KilledEntityUnused).           *)
Kept == ~Fifo \/ Killable = {}

IInv ==
    /\ TypeOK /\ QueuesFollowPlan
    /\ \A j \in Jobs : JobAgrees(j)
    /\ RingAgrees /\ WorkerAgrees /\ TimeoutAgrees
    /\ FreedUnused /\ CreditsAgree

DInv == DepsAgree /\ KillsAgree /\ BehindDependencies

(* Until a work is stray.                                                  *)
LateTypes == late \in [works : SUBSET {"run", "free"}, stray : BOOLEAN]
SInv == LateTypes /\ (late.stray \/ IInv)
SDInv == SInv /\ (late.stray \/ DInv)

-----------------------------------------------------------------------------
(* What several actions share.                                             *)

(* The initial state satisfies the inductive invariant.                    *)
LEMMA InitInv == Init => IInv /\ DInv
<1> SUFFICES ASSUME Init PROVE IInv /\ DInv
    OBVIOUS
<1> USE SchedAssumption
<1>1. \A s, x : s = <<>> => ~Contains(s, x) /\ Distinct(s)
  BY DEF Contains, Distinct
<1>2. TypeOK
  <2>1. EntTypes
    BY DEF Init, EntTypes, EntRecords
  <2>2. JobTypes
    BY DEF Init, JobTypes, JobRecords
  <2>3. WorkTypes
    <3>1. \A S : <<>> \in Seq(S)
      BY EmptySeq
    <3>2. pause \in BOOLEAN /\ timer \in BOOLEAN /\ foreign \in BOOLEAN
      BY Zenon DEF Init
    <3> QED BY <3>1, <3>2 DEF Init, WorkTypes, Idle, TdrIdle
  <2> QED BY <2>1, <2>2, <2>3 DEF TypeOK
<1>3. QueuesFollowPlan
  BY LenProperties DEF Init, QueuesFollowPlan
<1>4. \A j : Waiting(j)
  BY DEF Init, Waiting, Submitted
<1>5. ASSUME NEW j \in Jobs PROVE JobAgrees(j)
  BY <1>1, <1>4 DEF Init, JobAgrees, Untouched, Idle, TdrIdle
<1>6. RingAgrees
  BY <1>1 DEF Init, RingAgrees
<1>7. WorkerAgrees
  BY DEF Init, WorkerAgrees, Idle
<1>8. TimeoutAgrees
  BY <1>1 DEF Init, TimeoutAgrees, TdrIdle, Early
<1>9. FreedUnused
  BY DEF Init, FreedUnused
<1>10. CreditsAgree
  <2>1. Charged = {}
    BY <1>4 DEF Charged
  <2> QED BY <2>1, FS_EmptySet DEF Init, CreditsAgree
<1>11. DInv
  BY DEF Init, DInv, DepsAgree, KillsAgree, BehindDependencies, Idle
<1> QED BY <1>2, <1>3, <1>5, <1>6, <1>7, <1>8, <1>9, <1>10, <1>11 DEF IInv

(* The step changes no queue. *)
SameQueues ==
    \A e \in Entities : /\ ent'[e].sent = ent[e].sent
                        /\ ent'[e].queue = ent[e].queue

(* Then the same jobs wait. *)
LEMMA WaitingSame ==
    ASSUME SameQueues, QueuesFollowPlan
    PROVE  /\ \A j : Waiting(j)' <=> Waiting(j)
           /\ \A j : Submitted(j)' <=> Submitted(j)
           /\ QueuesFollowPlan'
<1>1. \A j : Submitted(j)' <=> Submitted(j)
  BY DEF SameQueues, Submitted
<1>2. \A j : Waiting(j)' <=> Waiting(j)
  BY <1>1 DEF SameQueues, Waiting, Contains
<1>3. QueuesFollowPlan'
  BY DEF SameQueues, QueuesFollowPlan
<1> QED BY <1>1, <1>2, <1>3

(* The step changes nothing of the job that the invariant is about. *)
SameJob(j) ==
    /\ job'[j].scheduled = job[j].scheduled
    /\ job'[j].finished = job[j].finished
    /\ job'[j].parent = job[j].parent
    /\ job'[j].cb = job[j].cb
    /\ job'[j].hw = job[j].hw
    /\ job'[j].killed = job[j].killed
    /\ job'[j].freed = job[j].freed

(* The step changes nothing of the timeout but the place it is at.         *)
SameTimeout ==
    /\ tdr'.bad = tdr.bad /\ tdr'.freeGuilty = tdr.freeGuilty
    /\ tdr'.pc \in Early <=> tdr.pc \in Early
    /\ tdr'.pc = "start" <=> tdr.pc = "start"
    /\ tdr'.pc = "return" <=> tdr.pc = "return"

(* The step leaves the entity of the worker as it is.                      *)
SameSelected ==
    worker.pc \in {"pop", "run"} =>
        /\ ent'[worker.e].idle = ent[worker.e].idle
        /\ ent[worker.e].dep = "none" => ent'[worker.e].dep = "none"

(* A step that moves no job keeps what is said of the jobs. *)
LEMMA QuietKeeps ==
    ASSUME IInv, TypeOK', QueuesFollowPlan', TimeoutAgrees',
           \A j \in Jobs : (Waiting(j)' <=> Waiting(j)) /\ SameJob(j),
           UNCHANGED <<pending, ring, worker, credit>>,
           SameTimeout, SameSelected
    PROVE  IInv'
<1>1. \A j : Held(j)' <=> Held(j)
  BY DEF Held, SameTimeout
<1>2. ASSUME NEW j \in Jobs PROVE JobAgrees(j)'
  <2>1. JobAgrees(j) /\ (Waiting(j)' <=> Waiting(j)) /\ SameJob(j)
    BY DEF IInv
  <2>2. Untouched(j)' <=> Untouched(j)
    BY DEF Untouched, SameTimeout
  <2> QED BY <2>1, <2>2 DEF JobAgrees, SameJob
<1>3. RingAgrees'
  BY <1>1 DEF IInv, RingAgrees, SameJob, SameTimeout
<1>4. WorkerAgrees'
  BY <1>1 DEF IInv, WorkerAgrees, SameJob, SameSelected
<1>5. FreedUnused'
  <2>1. ASSUME NEW j \in Jobs, NEW e \in Entities, job[j].freed > 0
        PROVE  ~Contains(ent'[e].queue, j)
    <3>1. ~Waiting(j)
      BY <2>1, SMT DEF IInv, JobAgrees, TypeOK, JobTypes, JobRecords
    <3> QED BY <3>1 DEF Waiting
  <2> QED BY <2>1 DEF IInv, FreedUnused, SameJob, SameTimeout
<1>6. Charged' = Charged
  BY DEF Charged, SameJob, Detached
<1>7. CreditsAgree'
  BY <1>6 DEF IInv, CreditsAgree
<1> QED BY <1>2, <1>3, <1>4, <1>5, <1>7 DEF IInv

(* queue_work keeps a list of works, and does nothing while they are paused. *)
LEMMA RunProps ==
    ASSUME NEW q \in Seq({"run", "free"}), NEW w \in {"run", "free"}
    PROVE  /\ QueueWork(q, w) \in Seq({"run", "free"})
           /\ Run(q, w) \in Seq({"run", "free"})
           /\ pause => Run(q, w) = q
BY AppendProperties DEF Run, QueueWork

(* Whether the caller is late or not. *)
LEMMA CallProps ==
    ASSUME NEW q \in Seq({"run", "free"}), NEW w \in {"run", "free"},
           NEW c, Call(q, w, c)
    PROVE  wq' \in Seq({"run", "free"}) /\ (pause => wq' = q)
BY RunProps DEF Call

(* So do the callbacks of a fence. *)
LEMMA WokenProps ==
    ASSUME NEW q \in Seq({"run", "free"}), NEW jb, NEW f
    PROVE  /\ Woken(q, jb, f) \in Seq({"run", "free"})
           /\ pause => Woken(q, jb, f) = q
BY RunProps DEF Woken

(* The callbacks clear dependencies and change nothing else. *)
LEMMA CallbacksProps ==
    ASSUME EntTypes, WorkerAgrees, NEW jb, NEW f,
           ent' = CallbacksRun(ent, jb, f)
    PROVE  /\ EntTypes' /\ SameQueues /\ SameSelected
           /\ \A e \in Entities :
                 /\ ent'[e].stopped = ent[e].stopped
                 /\ ent'[e].rq = ent[e].rq
                 /\ ent'[e].kill = ent[e].kill
                 /\ ent'[e].idle = ent[e].idle
                 /\ \/ ent'[e].dep = ent[e].dep /\ ent'[e].on = ent[e].on
                    \/ /\ e \in ClearDepCalled(jb) \cup WakeupCalled(jb, f)
                       /\ ent'[e].dep = "none"
<1> DEFINE C == ClearDepCalled(jb) \cup WakeupCalled(jb, f)
<1>1. \A e \in Entities :
         ent'[e] = IF e \in C
                   THEN [ent[e] EXCEPT !.dep = "none", !.on = NoJob] ELSE ent[e]
  BY DEF CallbacksRun
<1>2. DOMAIN ent' = Entities /\ ent' = [e \in Entities |-> ent'[e]]
  BY DEF CallbacksRun
<1> HIDE DEF C
<1>3. EntTypes'
  <2>1. ASSUME NEW e \in Entities PROVE ent'[e] \in EntRecords
    <3>1. ent[e] \in EntRecords
      BY DEF EntTypes
    <3>2. [ent[e] EXCEPT !.dep = "none", !.on = NoJob] \in EntRecords
      BY <3>1 DEF EntRecords
    <3> QED BY <1>1, <3>1, <3>2
  <2> QED BY <1>2, <2>1 DEF EntTypes
<1>4. ASSUME NEW e \in Entities
      PROVE  /\ ent'[e].sent = ent[e].sent /\ ent'[e].queue = ent[e].queue
             /\ ent'[e].stopped = ent[e].stopped
             /\ ent'[e].rq = ent[e].rq
             /\ ent'[e].kill = ent[e].kill
             /\ ent'[e].idle = ent[e].idle
             /\ \/ ent'[e].dep = ent[e].dep /\ ent'[e].on = ent[e].on
                \/ e \in C /\ ent'[e].dep = "none"
  BY <1>1, ZenonT(60) DEF EntTypes, EntRecords
<1>5. SameQueues
  BY <1>4 DEF SameQueues
<1>6. SameSelected
  BY <1>4 DEF SameSelected, WorkerAgrees
<1> QED BY <1>3, <1>4, <1>5, <1>6 DEF C

(* A step of others does not disturb the timeout. *)
LEMMA TimeoutKept ==
    ASSUME IInv, UNCHANGED <<pending, tdr, pause>>,
           tdr.pc \in {"stop", "start"} => wq' = <<>> /\ worker'.pc = "idle",
           \A j \in Jobs : Detached(j) => Detached(j)',
           \A j \in Jobs : job[j].finished => job'[j].finished,
           tdr.pc = "softwait" => job'[tdr.bad].parent
    PROVE  TimeoutAgrees' /\ SameTimeout
<1>1. TimeoutAgrees
  BY DEF IInv
<1>2. \A k \in 1..Len(pending) : Detached(pending[k]) => Detached(pending[k])'
  <2>1. \A k \in 1..Len(pending) : pending[k] \in Jobs
    BY DEF IInv, TypeOK, WorkTypes
  <2> QED BY <2>1 DEF Detached
<1>3. tdr.pc = "stop" =>
         \A k \in tdr.i + 1..Len(pending) : k \in 1..Len(pending)
  BY LenProperties DEF IInv, TypeOK, WorkTypes
<1>4. tdr.freeGuilty => tdr.bad \in Jobs
  BY <1>1 DEF TimeoutAgrees
<1>5. TimeoutAgrees'
  BY <1>1, <1>2, <1>3, <1>4 DEF TimeoutAgrees
<1> QED BY <1>5 DEF SameTimeout

(* Nobody adds to the queue of works while the scheduler is stopped. *)
LEMMA StoppedQueue ==
    ASSUME IInv, pause => wq' = wq \/ (wq # <<>> /\ wq' = Tail(wq))
    PROVE  tdr.pc \in {"stop", "start"} => wq' = <<>> /\ worker.pc = "idle"
BY DEF IInv, TimeoutAgrees

(* A step that moves no job and leaves the timeout alone. *)
LEMMA QuietStep ==
    ASSUME IInv, TypeOK', SameQueues, SameSelected,
           UNCHANGED <<pending, ring, worker, credit, tdr, pause>>,
           pause => wq' = wq \/ (wq # <<>> /\ wq' = Tail(wq)),
           \A j \in Jobs : SameJob(j)
    PROVE  IInv'
<1>1. TimeoutAgrees' /\ SameTimeout
  <2>1. tdr.pc \in {"stop", "start"} => wq' = <<>> /\ worker'.pc = "idle"
    BY StoppedQueue
  <2>2. tdr.pc = "softwait" => job'[tdr.bad].parent
    BY DEF IInv, TimeoutAgrees, SameJob
  <2>3. \A j \in Jobs : Detached(j) => Detached(j)'
    BY DEF SameJob, Detached
  <2>4. \A j \in Jobs : job[j].finished => job'[j].finished
    BY DEF SameJob
  <2> QED BY <2>1, <2>2, <2>3, <2>4, TimeoutKept
<1>2. QueuesFollowPlan' /\ \A j \in Jobs : Waiting(j)' <=> Waiting(j)
  BY WaitingSame DEF IInv
<1> QED BY <1>1, <1>2, QuietKeeps

(* The jobs of a queue. *)
LEMMA QueueProps ==
    ASSUME IInv, NEW e \in Entities
    PROVE  /\ ent[e].queue \in Seq(Jobs) /\ Distinct(ent[e].queue)
           /\ \A j : Contains(ent[e].queue, j) =>
                 /\ j \in Jobs /\ Submitted(j) /\ Waiting(j)
                 /\ \A f \in Entities : Contains(ent[f].queue, j) => f = e
<1>1. \A f \in Entities :
         /\ ent[f].queue \in Seq(Jobs) /\ Len(ent[f].queue) \in Nat
         /\ ent[f].sent \in Nat /\ Plan[f] \in Seq(Jobs)
         /\ Len(Plan[f]) \in Nat
  BY SchedAssumption, LenProperties DEF IInv, TypeOK, EntTypes, EntRecords
<1> DEFINE at(f, i) == ent[f].sent - Len(ent[f].queue) + i
<1>2. ASSUME NEW f \in Entities, NEW i \in 1..Len(ent[f].queue)
      PROVE  /\ at(f, i) \in 1..ent[f].sent /\ at(f, i) \in 1..Len(Plan[f])
             /\ ent[f].queue[i] = Plan[f][at(f, i)]
  <2>1. /\ ent[f].sent <= Len(Plan[f]) /\ Len(ent[f].queue) <= ent[f].sent
        /\ ent[f].queue[i] = Plan[f][ent[f].sent - Len(ent[f].queue) + i]
    BY DEF IInv, QueuesFollowPlan
  <2>2. \A s, l, n \in Nat : s <= n /\ l <= s =>
           \A x \in 1..l : s - l + x \in 1..s /\ s - l + x \in 1..n
    OBVIOUS
  <2>3. at(f, i) \in 1..ent[f].sent /\ at(f, i) \in 1..Len(Plan[f])
    BY <1>1, <2>1, <2>2
  <2> QED BY <2>1, <2>3
<1>3. ASSUME NEW f \in Entities, NEW i \in 1..Len(ent[f].queue),
             NEW k \in 1..Len(ent[f].queue), at(f, i) = at(f, k)
      PROVE  i = k
  BY <1>1, <1>3
<1> HIDE DEF at
<1>4. Distinct(ent[e].queue)
  <2>1. ASSUME NEW i \in 1..Len(ent[e].queue), NEW k \in 1..Len(ent[e].queue),
               ent[e].queue[i] = ent[e].queue[k]
        PROVE  i = k
    <3>1. PICK x, y \in 1..Len(Plan[e]) :
             x = at(e, i) /\ y = at(e, k) /\ Plan[e][x] = Plan[e][y]
      BY <1>2, <2>1
    <3>2. x = y
      BY <3>1, SchedAssumption
    <3> QED BY <1>3, <3>1, <3>2
  <2> QED BY <2>1 DEF Distinct
<1>5. ASSUME NEW j, Contains(ent[e].queue, j)
      PROVE  /\ j \in Jobs /\ Submitted(j) /\ Waiting(j)
             /\ \A f \in Entities : Contains(ent[f].queue, j) => f = e
  <2>1. PICK i \in 1..Len(ent[e].queue) : ent[e].queue[i] = j
    BY <1>5 DEF Contains
  <2>2. j \in Jobs
    BY <1>1, <2>1
  <2>3. Submitted(j)
    BY <1>2, <2>1 DEF Submitted
  <2>4. Waiting(j)
    BY <1>5 DEF Waiting
  <2>5. ASSUME NEW f \in Entities, Contains(ent[f].queue, j) PROVE f = e
    <3>1. PICK k \in 1..Len(ent[f].queue) : ent[f].queue[k] = j
      BY <2>5 DEF Contains
    <3>2. PICK x \in 1..Len(Plan[e]), y \in 1..Len(Plan[f]) :
             Plan[e][x] = j /\ Plan[f][y] = j
      BY <1>2, <2>1, <3>1
    <3> QED BY <3>2, SchedAssumption
  <2> QED BY <2>2, <2>3, <2>4, <2>5
<1> QED BY <1>1, <1>4, <1>5

(* free_job *)
LEMMA FreedProps ==
    ASSUME NEW jb \in [Jobs -> JobRecords], NEW j \in Jobs
    PROVE  /\ Freed(jb, j) \in [Jobs -> JobRecords]
           /\ \A k \in Jobs \ {j} : Freed(jb, j)[k] = jb[k]
           /\ Freed(jb, j)[j].scheduled = jb[j].scheduled
           /\ Freed(jb, j)[j].finished = jb[j].finished
           /\ Freed(jb, j)[j].cb = jb[j].cb
           /\ Freed(jb, j)[j].killed = jb[j].killed
           /\ Freed(jb, j)[j].parent = FALSE /\ Freed(jb, j)[j].hw = "none"
           /\ Freed(jb, j)[j].depTaken = FALSE
           /\ Freed(jb, j)[j].freed = jb[j].freed + 1
<1> DEFINE n == jb[j].freed + 1
           r == [jb[j] EXCEPT !.freed = n, !.parent = FALSE, !.hw = "none",
                    !.hwErr = FALSE, !.depTaken = FALSE, !.prev = NoJob]
<1>1. jb[j] \in JobRecords
  OBVIOUS
<1>2. Freed(jb, j) = [jb EXCEPT ![j] = r]
  BY DEF Freed
<1>3. n \in Nat
  BY <1>1 DEF JobRecords
<1> HIDE DEF n
<1>4. /\ r \in JobRecords /\ r.scheduled = jb[j].scheduled
      /\ r.finished = jb[j].finished /\ r.cb = jb[j].cb
      /\ r.killed = jb[j].killed /\ r.parent = FALSE /\ r.hw = "none"
      /\ r.depTaken = FALSE /\ r.freed = n
  BY <1>1, <1>3 DEF JobRecords
<1> HIDE DEF r
<1> QED BY <1>2, <1>4 DEF n

(* drm_sched_job_done *)
LEMMA JobDoneProps ==
    ASSUME NEW jb \in [Jobs -> JobRecords], NEW j \in Jobs,
           NEW failed \in BOOLEAN
    PROVE  /\ JobDone(jb, j, failed) \in [Jobs -> JobRecords]
           /\ \A k \in Jobs \ {j} : JobDone(jb, j, failed)[k] = jb[k]
           /\ JobDone(jb, j, failed)[j].scheduled = jb[j].scheduled
           /\ JobDone(jb, j, failed)[j].finished = TRUE
           /\ JobDone(jb, j, failed)[j].cb = FALSE
           /\ JobDone(jb, j, failed)[j].killed = jb[j].killed
           /\ JobDone(jb, j, failed)[j].parent = jb[j].parent
           /\ JobDone(jb, j, failed)[j].hw = jb[j].hw
           /\ JobDone(jb, j, failed)[j].depTaken = jb[j].depTaken
           /\ JobDone(jb, j, failed)[j].freed = jb[j].freed
<1> DEFINE x == jb[j].err \/ failed
           r == [jb[j] EXCEPT !.finished = TRUE, !.cb = FALSE, !.err = x]
<1>1. jb[j] \in JobRecords
  OBVIOUS
<1>2. JobDone(jb, j, failed) = [jb EXCEPT ![j] = r]
  BY DEF JobDone
<1>3. x \in BOOLEAN
  BY Zenon
<1> HIDE DEF x
<1>4. /\ r \in JobRecords /\ r.scheduled = jb[j].scheduled
      /\ r.finished = TRUE /\ r.cb = FALSE
      /\ r.killed = jb[j].killed /\ r.parent = jb[j].parent
      /\ r.hw = jb[j].hw /\ r.depTaken = jb[j].depTaken
      /\ r.freed = jb[j].freed
  BY <1>1, <1>3 DEF JobRecords
<1> HIDE DEF r
<1> QED BY <1>2, <1>4

-----------------------------------------------------------------------------
(* The steps that move no job.                                             *)

(* The first half of drm_sched_entity_push_job *)
LEMMA PushJobKeeps ==
    ASSUME IInv, NEW e \in Entities, PushJob(e)
    PROVE  IInv'
<1> DEFINE n == ent[e].sent + 1
           j == Plan[e][n]
<1>1. /\ ent[e] \in EntRecords /\ ent[e].sent \in Nat
      /\ ent[e].queue \in Seq(Jobs) /\ Len(ent[e].queue) \in Nat
      /\ ent[e].sent < Len(Plan[e]) /\ Len(ent[e].queue) <= ent[e].sent
  BY LenProperties DEF PushJob, IInv, TypeOK, EntTypes, EntRecords,
     QueuesFollowPlan
<1>2. Plan[e] \in Seq(Jobs) /\ n \in 1..Len(Plan[e]) /\ j \in Jobs
  BY <1>1, SchedAssumption, LenProperties
<1>3. /\ ent'[e].sent = n /\ ent'[e].queue = Append(ent[e].queue, j)
      /\ ent'[e].idle = ent[e].idle /\ ent'[e].dep = ent[e].dep
      /\ ent'[e] \in EntRecords
      /\ \A f \in Entities \ {e} : ent'[f] = ent[f]
      /\ ent' \in [Entities -> EntRecords]
  <2>1. Append(ent[e].queue, j) \in Seq(Jobs)
    BY <1>1, <1>2, AppendProperties
  <2>2. ent' = [ent EXCEPT ![e] =
                  [ent[e] EXCEPT !.sent = n, !.queue = Append(ent[e].queue, j),
                     !.push = IF ent[e].queue = <<>> THEN "first" ELSE "idle"]]
    BY DEF PushJob, IInv, TypeOK, EntTypes
  <2> HIDE DEF n, j
  <2>3. n \in Nat
    BY <1>1 DEF n
  <2> QED BY <1>1, <2>1, <2>2, <2>3 DEF IInv, TypeOK, EntTypes, EntRecords
<1>4. TypeOK'
  <2>1. UNCHANGED <<job, wq, worker, pending, credit, pause, timer, tdr, ring,
                    foreign>>
    BY DEF PushJob
  <2>2. EntTypes'
    BY <1>3 DEF EntTypes
  <2>3. JobTypes'
    BY <2>1 DEF IInv, TypeOK, JobTypes
  <2>4. WorkTypes'
    BY <2>1 DEF IInv, TypeOK, WorkTypes
  <2> QED BY <2>2, <2>3, <2>4 DEF TypeOK
<1>5. /\ Len(ent'[e].queue) = Len(ent[e].queue) + 1
      /\ \A x : Contains(ent'[e].queue, x) <=> Contains(ent[e].queue, x) \/ x = j
      /\ \A i \in 1..Len(ent[e].queue) : ent'[e].queue[i] = ent[e].queue[i]
      /\ ent'[e].queue[Len(ent[e].queue) + 1] = j
  BY <1>1, <1>2, <1>3, AppendList
<1> HIDE DEF j
<1>6. QueuesFollowPlan'
  <2>1. ASSUME NEW i \in 1..Len(ent'[e].queue)
        PROVE  ent'[e].queue[i]
                  = Plan[e][ent'[e].sent - Len(ent'[e].queue) + i]
    <3>1. ent'[e].sent - Len(ent'[e].queue) + i
             = ent[e].sent - Len(ent[e].queue) + i
      <4>1. ent'[e].sent = ent[e].sent + 1
        BY <1>3
      <4>2. \A s, l \in Nat : (s + 1) - (l + 1) = s - l
        OBVIOUS
      <4> QED BY <1>1, <1>5, <4>1, <4>2
    <3>2. CASE i \in 1..Len(ent[e].queue)
      BY <1>5, <3>1, <3>2 DEF IInv, QueuesFollowPlan
    <3>3. CASE i = Len(ent[e].queue) + 1
      <4>1. ent[e].sent - Len(ent[e].queue) + i = n
        BY <1>1, <3>3
      <4> QED BY <1>5, <3>1, <3>3, <4>1 DEF j
    <3>4. i \in 1..Len(ent[e].queue) \/ i = Len(ent[e].queue) + 1
      <4>1. \A l \in Nat : \A x \in 1..l + 1 : x \in 1..l \/ x = l + 1
        OBVIOUS
      <4>2. i \in 1..Len(ent[e].queue) + 1
        BY <1>5, <2>1
      <4> QED BY <1>1, <4>1, <4>2
    <3> QED BY <3>2, <3>3, <3>4
  <2>2. ent'[e].sent <= Len(Plan[e]) /\ Len(ent'[e].queue) <= ent'[e].sent
    BY <1>1, <1>2, <1>3, <1>5
  <2>3. ASSUME NEW f \in Entities, f # e
        PROVE  /\ ent'[f].sent <= Len(Plan[f])
               /\ Len(ent'[f].queue) <= ent'[f].sent
               /\ \A i \in 1..Len(ent'[f].queue) : ent'[f].queue[i]
                     = Plan[f][ent'[f].sent - Len(ent'[f].queue) + i]
    <3>1. ent'[f] = ent[f]
      BY <1>3, <2>3
    <3> QED BY <3>1 DEF IInv, QueuesFollowPlan
  <2> QED BY <2>1, <2>2, <2>3 DEF QueuesFollowPlan
<1>7. ASSUME NEW k \in Jobs PROVE Waiting(k)' <=> Waiting(k)
  <2>1. CASE k = j
    <3>1. ~Submitted(j)
      <4>1. ASSUME NEW f \in Entities, NEW i \in 1..ent[f].sent, Plan[f][i] = j
            PROVE  FALSE
        <5>1. /\ ent[f].sent \in Nat /\ ent[f].sent <= Len(Plan[f])
              /\ Len(Plan[f]) \in Nat
          BY SchedAssumption, LenProperties DEF IInv, TypeOK, EntTypes,
             EntRecords, QueuesFollowPlan
        <5>2. i \in 1..Len(Plan[f])
          BY <5>1
        <5>3. f = e /\ i = n
          BY <1>2, <4>1, <5>2, SchedAssumption DEF j
        <5> QED BY <1>1, <4>1, <5>3
      <4> QED BY <4>1 DEF Submitted
    <3> QED BY <1>5, <2>1, <3>1 DEF Waiting
  <2>2. CASE k # j
    <3>1. Submitted(k)' <=> Submitted(k)
      <4>1. \A i \in 1..n : i \in 1..ent[e].sent \/ i = n
        BY <1>1
      <4>2. \A i \in 1..ent[e].sent : i \in 1..n
        BY <1>1
      <4> QED BY <1>3, <2>2, <4>1, <4>2 DEF Submitted, j
    <3> QED BY <1>3, <1>5, <2>2, <3>1 DEF Waiting
  <2> QED BY <2>1, <2>2
<1>8. /\ UNCHANGED <<pending, ring, worker, credit, tdr, pause, wq>>
      /\ \A k \in Jobs : SameJob(k)
  BY DEF PushJob, SameJob
<1>9. SameSelected
  BY <1>3 DEF SameSelected, IInv, WorkerAgrees
<1>10. TimeoutAgrees' /\ SameTimeout
  <2>1. tdr.pc \in {"stop", "start"} => wq' = <<>> /\ worker'.pc = "idle"
    BY <1>8, StoppedQueue
  <2>2. tdr.pc = "softwait" => job'[tdr.bad].parent
    BY <1>8 DEF IInv, TimeoutAgrees, SameJob
  <2>3. \A k \in Jobs : Detached(k) => Detached(k)'
    BY <1>8 DEF SameJob, Detached
  <2>4. \A k \in Jobs : job[k].finished => job'[k].finished
    BY <1>8 DEF SameJob
  <2> QED BY <1>8, <2>1, <2>2, <2>3, <2>4, TimeoutKept
<1> QED BY <1>4, <1>6, <1>7, <1>8, <1>9, <1>10, QuietKeeps

(* The second half of it *)
LEMMA PushFirstKeeps ==
    ASSUME IInv, NEW e \in Entities, PushFirst(e)
    PROVE  IInv'
<1>1. /\ SameQueues /\ ent' \in [Entities -> EntRecords]
      /\ \A f \in Entities : /\ ent'[f].idle = ent[f].idle
                             /\ ent'[f].dep = ent[f].dep
  <2>1. ent \in [Entities -> EntRecords] /\ ent[e] \in EntRecords
    BY DEF IInv, TypeOK, EntTypes
  <2>2. PICK r \in EntRecords :
           /\ ent' = [ent EXCEPT ![e] = r]
           /\ r.sent = ent[e].sent /\ r.queue = ent[e].queue
           /\ r.idle = ent[e].idle /\ r.dep = ent[e].dep
    <3>1. CASE ent[e].stopped
      <4> DEFINE r == [ent[e] EXCEPT !.push = "idle"]
      <4>1. ent' = [ent EXCEPT ![e] = r]
        BY <2>1, <3>1 DEF PushFirst
      <4>2. r \in EntRecords
        BY <2>1 DEF EntRecords
      <4>3. /\ r.sent = ent[e].sent /\ r.queue = ent[e].queue
            /\ r.idle = ent[e].idle /\ r.dep = ent[e].dep
        BY <2>1 DEF EntRecords
      <4> HIDE DEF r
      <4> QED BY <4>1, <4>2, <4>3
    <3>2. CASE ~ent[e].stopped
      <4> DEFINE r == [ent[e] EXCEPT !.push = "idle", !.rq = TRUE,
                                     !.tree = Fifo]
      <4>1. ent' = [ent EXCEPT ![e] = r]
        BY <2>1, <3>2 DEF PushFirst
      <4>2. r \in EntRecords
        BY <2>1, SchedAssumption DEF EntRecords
      <4>3. /\ r.sent = ent[e].sent /\ r.queue = ent[e].queue
            /\ r.idle = ent[e].idle /\ r.dep = ent[e].dep
        BY <2>1 DEF EntRecords
      <4> HIDE DEF r
      <4> QED BY <4>1, <4>2, <4>3
    <3> QED BY <3>1, <3>2
  <2> QED BY <2>1, <2>2 DEF SameQueues
<1>2. wq' \in Seq({"run", "free"}) /\ (pause => wq' = wq)
  <2>1. wq \in Seq({"run", "free"})
    BY DEF IInv, TypeOK, WorkTypes
  <2>2. wq' = wq \/ Call(wq, "run", TRUE)
    BY DEF PushFirst
  <2> QED BY <2>1, <2>2, CallProps
<1>3. TypeOK'
  BY <1>1, <1>2 DEF PushFirst, IInv, TypeOK, EntTypes, JobTypes, WorkTypes
<1>4. /\ UNCHANGED <<pending, ring, worker, credit, tdr, pause>>
      /\ \A k \in Jobs : SameJob(k)
  BY DEF PushFirst, SameJob
<1>5. SameSelected
  BY <1>1 DEF SameSelected, IInv, WorkerAgrees
<1> QED BY <1>1, <1>2, <1>3, <1>4, <1>5, QuietStep

(* drm_sched_entity_kill up to its wait *)
LEMMA KillEntityKeeps ==
    ASSUME IInv, NEW e \in Entities, NEW fini \in BOOLEAN,
           KillEntity(e, fini)
    PROVE  IInv'
<1>1. /\ SameQueues /\ ent' \in [Entities -> EntRecords]
      /\ \A f \in Entities : /\ ent'[f].idle = ent[f].idle
                             /\ ent'[f].dep = ent[f].dep
  BY SMTT(30) DEF KillEntity, SameQueues, IInv, TypeOK, EntTypes, EntRecords
<1>2. TypeOK'
  BY <1>1 DEF KillEntity, IInv, TypeOK, EntTypes, JobTypes, WorkTypes
<1>3. /\ UNCHANGED <<pending, ring, worker, credit, tdr, pause, wq>>
      /\ \A k \in Jobs : SameJob(k)
  BY DEF KillEntity, SameJob
<1>4. SameSelected
  BY <1>1 DEF SameSelected, IInv, WorkerAgrees
<1> QED BY <1>1, <1>2, <1>3, <1>4, QuietStep

(* drm_sched_select_entity, without a result *)
LEMMA SelectNoneKeeps ==
    ASSUME IInv, SelectNone
    PROVE  IInv'
<1>1. wq # <<>> /\ wq' = Tail(wq) /\ wq' \in Seq({"run", "free"})
  BY HeadTailProperties DEF SelectNone, IInv, TypeOK, WorkTypes
<1>2. TypeOK'
  BY <1>1 DEF SelectNone, IInv, TypeOK, EntTypes, JobTypes, WorkTypes
<1>3. /\ UNCHANGED <<pending, ring, worker, credit, tdr, pause>> /\ SameQueues
      /\ (\A k \in Jobs : SameJob(k)) /\ SameSelected
  BY DEF SelectNone, SameJob, SameQueues, SameSelected
<1> QED BY <1>1, <1>2, <1>3, QuietStep

(* The fence of another scheduler signals. *)
LEMMA ForeignSignalKeeps ==
    ASSUME IInv, ForeignSignal
    PROVE  IInv'
<1>1. EntTypes' /\ SameQueues /\ SameSelected
  BY CallbacksProps DEF ForeignSignal, IInv, TypeOK
<1>2. wq' \in Seq({"run", "free"}) /\ (pause => wq' = wq)
  <2>1. wq \in Seq({"run", "free"})
    BY DEF IInv, TypeOK, WorkTypes
  <2>2. \E c : Call(wq, "run", c)
    BY DEF ForeignSignal
  <2> QED BY <2>1, <2>2, CallProps
<1>3. foreign' \in BOOLEAN
  BY Zenon DEF ForeignSignal
<1>4. TypeOK'
  <2>1. /\ foreign' \in BOOLEAN /\ wq' \in Seq({"run", "free"}) /\ EntTypes'
        /\ UNCHANGED <<job, worker, pending, ring, pause, timer, tdr>>
    BY <1>1, <1>2, <1>3 DEF ForeignSignal
  <2> QED BY <2>1 DEF IInv, TypeOK, JobTypes, WorkTypes
<1>5. /\ UNCHANGED <<pending, ring, worker, credit, tdr, pause>>
      /\ \A k \in Jobs : SameJob(k)
  BY DEF ForeignSignal, SameJob
<1> QED BY <1>1, <1>2, <1>4, <1>5, QuietStep

-----------------------------------------------------------------------------
(* The kill of an entity.                                                  *)

(* drm_sched_entity_kill after its wait *)
LEMMA KillJobsKeeps ==
    ASSUME IInv, NEW e \in Entities, KillJobs(e)
    PROVE  IInv'
<1> DEFINE q == ent[e].queue
<1>1. /\ ent[e] \in EntRecords /\ q \in Seq(Jobs) /\ Len(q) \in Nat
      /\ \A j : Contains(q, j) =>
            /\ j \in Jobs /\ Submitted(j) /\ Waiting(j)
            /\ \A f \in Entities : Contains(ent[f].queue, j) => f = e
  BY QueueProps, LenProperties DEF IInv, TypeOK, EntTypes
<1>2. PICK r \in EntRecords :
         /\ ent' = [ent EXCEPT ![e] = r]
         /\ r.sent = ent[e].sent /\ r.queue = <<>> /\ r.idle = ent[e].idle
         /\ r.dep = ent[e].dep \/ r.dep = "none"
  <2> DEFINE d == IF ent[e].closed THEN "none" ELSE ent[e].dep
             o == IF ent[e].closed THEN NoJob ELSE ent[e].on
             l == IF ent[e].closed THEN NoJob ELSE ent[e].last
             r == [ent[e] EXCEPT !.queue = <<>>, !.kill = "none", !.dep = d,
                                 !.on = o, !.last = l]
  <2>1. ent' = [ent EXCEPT ![e] = r]
    BY DEF KillJobs, IInv, TypeOK, EntTypes
  <2>2. /\ d \in {"none", "scheduled", "finished"}
        /\ d = ent[e].dep \/ d = "none"
        /\ o \in Jobs \cup {NoJob, Foreign} /\ l \in Jobs \cup {NoJob}
    BY <1>1 DEF EntRecords
  <2> HIDE DEF d, o, l
  <2>3. r \in EntRecords
    BY <1>1, <2>2, EmptySeq DEF EntRecords
  <2>4. /\ r.sent = ent[e].sent /\ r.queue = <<>> /\ r.idle = ent[e].idle
        /\ r.dep = ent[e].dep \/ r.dep = "none"
    BY <1>1, <2>2 DEF EntRecords
  <2> HIDE DEF r
  <2> QED BY <2>1, <2>3, <2>4
<1>3. /\ ent'[e] = r /\ \A f \in Entities \ {e} : ent'[f] = ent[f]
      /\ EntTypes'
  BY <1>2 DEF IInv, TypeOK, EntTypes
<1>4. /\ job' \in [Jobs -> JobRecords]
      /\ \A j \in Jobs : ~Contains(q, j) => job'[j] = job[j]
      /\ \A j \in Jobs : Contains(q, j) =>
            /\ job'[j].killed = TRUE
            /\ job'[j].scheduled = job[j].scheduled
            /\ job'[j].finished = job[j].finished
            /\ job'[j].parent = job[j].parent /\ job'[j].cb = job[j].cb
            /\ job'[j].hw = job[j].hw /\ job'[j].freed = job[j].freed
  <2> DEFINE at(j) == CHOOSE i \in 1..Len(q) : q[i] = j
             before(i) == IF i = 1 THEN ent[e].last ELSE q[i - 1]
             rec(j) == [job[j] EXCEPT !.killed = TRUE, !.prev = before(at(j))]
  <2>1. job' = [j \in Jobs |-> IF Contains(q, j) THEN rec(j) ELSE job[j]]
    BY DEF KillJobs
  <2>2. ASSUME NEW j \in Jobs, Contains(q, j)
        PROVE  before(at(j)) \in Jobs \cup {NoJob}
    <3>1. at(j) \in 1..Len(q)
      BY <2>2 DEF Contains
    <3> HIDE DEF at
    <3>2. at(j) # 1 => at(j) - 1 \in 1..Len(q)
      BY <1>1, <3>1
    <3>3. ent[e].last \in Jobs \cup {NoJob}
      BY <1>1 DEF EntRecords
    <3> HIDE DEF q
    <3> QED BY <1>1, <3>2, <3>3
  <2> HIDE DEF before, at
  <2>3. ASSUME NEW j \in Jobs, Contains(q, j)
        PROVE  /\ rec(j) \in JobRecords /\ rec(j).killed = TRUE
               /\ rec(j).scheduled = job[j].scheduled
               /\ rec(j).finished = job[j].finished
               /\ rec(j).parent = job[j].parent /\ rec(j).cb = job[j].cb
               /\ rec(j).hw = job[j].hw /\ rec(j).freed = job[j].freed
    <3>1. job[j] \in JobRecords
      BY DEF IInv, TypeOK, JobTypes
    <3> QED BY <2>2, <2>3, <3>1 DEF JobRecords
  <2> HIDE DEF rec, q
  <2> QED BY <2>1, <2>3 DEF IInv, TypeOK, JobTypes
<1>5. UNCHANGED <<wq, worker, pending, credit, pause, timer, tdr, ring,
                foreign>>
  BY DEF KillJobs
<1>6. TypeOK'
  BY <1>3, <1>4, <1>5 DEF IInv, TypeOK, JobTypes, WorkTypes
<1>7. QueuesFollowPlan'
  <2>1. Len(ent'[e].queue) = 0 /\ 1..0 = {} /\ ent'[e].sent = ent[e].sent
    BY <1>2, <1>3
  <2>2. ent[e].sent \in Nat /\ ent[e].sent <= Len(Plan[e])
    BY <1>1 DEF EntRecords, IInv, QueuesFollowPlan
  <2> QED BY <1>3, <2>1, <2>2 DEF IInv, QueuesFollowPlan
<1>8. ASSUME NEW j \in Jobs PROVE Waiting(j)' <=> Waiting(j) /\ ~Contains(q, j)
  <2>1. Submitted(j)' <=> Submitted(j)
    BY <1>2, <1>3 DEF Submitted
  <2>2. ~Contains(ent'[e].queue, j)
    BY <1>2, <1>3 DEF Contains
  <2> QED BY <1>1, <1>3, <2>1, <2>2 DEF Waiting
<1> HIDE DEF q
<1>9. \A j \in Jobs : SameJob(j) \/ Contains(q, j)
  BY <1>4 DEF SameJob
<1>10. \A j \in Jobs : /\ job'[j].scheduled = job[j].scheduled
                       /\ job'[j].finished = job[j].finished
                       /\ job'[j].parent = job[j].parent
                       /\ job'[j].cb = job[j].cb /\ job'[j].hw = job[j].hw
                       /\ job'[j].freed = job[j].freed
  BY <1>4
<1>11. TimeoutAgrees'
  <2>1. tdr.pc \in {"stop", "start"} => wq' = <<>> /\ worker'.pc = "idle"
    BY <1>5, StoppedQueue
  <2>2. tdr.pc = "softwait" => job'[tdr.bad].parent
    BY <1>10 DEF IInv, TimeoutAgrees
  <2> QED BY <1>5, <1>10, <2>1, <2>2, TimeoutKept DEF Detached
<1>12. ASSUME NEW j \in Jobs PROVE JobAgrees(j)'
  <2>1. JobAgrees(j) /\ (Untouched(j)' <=> Untouched(j))
    BY <1>5 DEF IInv, Untouched
  <2>2. CASE Contains(q, j)
    <3>1. Waiting(j) /\ ~Waiting(j)' /\ job'[j].killed
      BY <1>1, <1>4, <1>8, <2>2
    <3> QED BY <1>5, <1>10, <2>1, <3>1 DEF JobAgrees
  <2>3. CASE ~Contains(q, j)
    BY <1>4, <1>5, <1>8, <2>1, <2>3 DEF JobAgrees
  <2> QED BY <2>2, <2>3
<1>13. \A j : Held(j)' <=> Held(j)
  BY <1>5 DEF Held
<1>14. RingAgrees'
  BY <1>5, <1>10, <1>13 DEF IInv, RingAgrees
<1>15. WorkerAgrees'
  BY <1>2, <1>3, <1>5, <1>10, <1>13 DEF IInv, WorkerAgrees
<1>16. FreedUnused'
  <2>1. \A j \in Jobs, f \in Entities : Contains(ent'[f].queue, j) =>
           Contains(ent[f].queue, j)
    BY <1>2, <1>3 DEF Contains
  <2> QED BY <1>5, <1>10, <2>1 DEF IInv, FreedUnused
<1>17. Charged' = Charged
  <2>1. ASSUME NEW j \in Jobs
        PROVE  ~Waiting(j)' /\ ~job'[j].killed <=>
                  ~Waiting(j) /\ ~job[j].killed
    BY <1>1, <1>4, <1>8
  <2> QED BY <1>10, <2>1 DEF Charged, Detached
<1>18. CreditsAgree'
  BY <1>5, <1>17 DEF IInv, CreditsAgree
<1> QED BY <1>6, <1>7, <1>11, <1>12, <1>14, <1>15, <1>16, <1>18 DEF IInv

(* drm_sched_entity_kill_jobs_work *)
LEMMA KillJobsWorkKeeps ==
    ASSUME IInv, NEW j \in Jobs, KillJobsWork(j)
    PROVE  IInv'
<1>1. /\ job[j].killed /\ ~job[j].finished /\ job[j] \in JobRecords
      /\ job[j].freed \in Nat /\ job \in [Jobs -> JobRecords]
  BY DEF KillJobsWork, IInv, TypeOK, JobTypes, JobRecords
<1>2. JobAgrees(j) /\ job[j].freed = 0
  BY <1>1 DEF IInv, FreedUnused
<1>3. Untouched(j) /\ ~Waiting(j)
  BY <1>1, <1>2 DEF JobAgrees
<1>4. /\ job' \in [Jobs -> JobRecords]
      /\ \A k \in Jobs \ {j} : job'[k] = job[k]
      /\ job'[j].scheduled /\ job'[j].finished /\ ~job'[j].cb
      /\ job'[j].killed /\ ~job'[j].parent /\ job'[j].hw = "none"
      /\ job'[j].freed = 1
  <2> DEFINE d == JobDone(job, j, TRUE)
             s == [d EXCEPT ![j].scheduled = TRUE]
             rec == [d[j] EXCEPT !.scheduled = TRUE]
  <2>1. /\ d \in [Jobs -> JobRecords] /\ \A k \in Jobs \ {j} : d[k] = job[k]
        /\ d[j].finished = TRUE /\ d[j].cb = FALSE
        /\ d[j].killed = job[j].killed /\ d[j].freed = job[j].freed
    BY <1>1, JobDoneProps
  <2>2. job' = Freed(s, j)
    BY DEF KillJobsWork
  <2> HIDE DEF d
  <2>3. /\ rec \in JobRecords /\ rec.scheduled /\ rec.finished /\ ~rec.cb
        /\ rec.killed = job[j].killed /\ rec.freed = job[j].freed
    BY <2>1, ZenonT(60) DEF JobRecords
  <2>4. s = [d EXCEPT ![j] = rec]
    BY <2>1
  <2> HIDE DEF rec
  <2>5. /\ s \in [Jobs -> JobRecords] /\ s[j] = rec
        /\ \A k \in Jobs \ {j} : s[k] = job[k]
    BY <2>1, <2>3, <2>4
  <2> HIDE DEF s
  <2>6. /\ Freed(s, j) \in [Jobs -> JobRecords]
        /\ \A k \in Jobs \ {j} : Freed(s, j)[k] = s[k]
        /\ Freed(s, j)[j].scheduled = s[j].scheduled
        /\ Freed(s, j)[j].finished = s[j].finished
        /\ Freed(s, j)[j].cb = s[j].cb
        /\ Freed(s, j)[j].killed = s[j].killed
        /\ Freed(s, j)[j].parent = FALSE /\ Freed(s, j)[j].hw = "none"
        /\ Freed(s, j)[j].freed = s[j].freed + 1
    BY <2>5, FreedProps
  <2> QED BY <1>1, <1>2, <2>2, <2>3, <2>5, <2>6
<1>5. EntTypes' /\ SameQueues /\ SameSelected
  BY CallbacksProps DEF KillJobsWork, IInv, TypeOK
<1>6. wq' \in Seq({"run", "free"}) /\ (pause => wq' = wq)
  <2>1. wq \in Seq({"run", "free"})
    BY DEF IInv, TypeOK, WorkTypes
  <2>2. \E c : Call(wq, "run", c)
    BY DEF KillJobsWork
  <2> QED BY <2>1, <2>2, CallProps
<1>7. UNCHANGED <<worker, pending, credit, pause, timer, tdr, ring, foreign>>
  BY DEF KillJobsWork
<1>8. TypeOK'
  BY <1>4, <1>5, <1>6, <1>7 DEF IInv, TypeOK, JobTypes, WorkTypes
<1>9. QueuesFollowPlan' /\ \A k : Waiting(k)' <=> Waiting(k)
  BY <1>5, WaitingSame DEF IInv
<1>10. \A k : (Held(k)' <=> Held(k)) /\ (Untouched(k)' <=> Untouched(k))
  BY <1>7 DEF Held, Untouched
<1>11. TimeoutAgrees'
  <2>1. tdr.pc \in {"stop", "start"} => wq' = <<>> /\ worker'.pc = "idle"
    BY <1>6, <1>7, StoppedQueue
  <2>2. tdr.pc = "softwait" => job'[tdr.bad].parent
    BY <1>3, <1>4 DEF IInv, TimeoutAgrees, Untouched
  <2>3. \A k \in Jobs : Detached(k) => Detached(k)'
    BY <1>4 DEF Detached
  <2>4. \A k \in Jobs : job[k].finished => job'[k].finished
    BY <1>4
  <2> QED BY <1>7, <2>1, <2>2, <2>3, <2>4, TimeoutKept
<1>12. ASSUME NEW k \in Jobs PROVE JobAgrees(k)'
  <2>1. CASE k = j
    BY <1>3, <1>4, <1>9, <1>10, <2>1 DEF JobAgrees
  <2>2. CASE k # j
    <3>1. JobAgrees(k) /\ job'[k] = job[k]
      BY <1>4, <2>2 DEF IInv
    <3> QED BY <1>7, <1>9, <1>10, <3>1 DEF JobAgrees
  <2> QED BY <2>1, <2>2
<1>13. RingAgrees'
  BY <1>3, <1>4, <1>7, <1>10 DEF IInv, RingAgrees, Untouched
<1>14. WorkerAgrees'
  BY <1>3, <1>4, <1>5, <1>7, <1>10 DEF IInv, WorkerAgrees, SameSelected,
     Untouched
<1>15. FreedUnused'
  <2>1. \A f \in Entities : ~Contains(ent'[f].queue, j)
    BY <1>3, <1>5 DEF Waiting, SameQueues
  <2>2. ASSUME NEW k \in Jobs, k # j, job[k].freed > 0, NEW f \in Entities
        PROVE  ~Contains(ent'[f].queue, k)
    BY <1>5, <2>2 DEF SameQueues, IInv, FreedUnused
  <2> QED BY <1>3, <1>4, <1>7, <2>1, <2>2 DEF IInv, FreedUnused, Untouched
<1>16. Charged' = Charged
  BY <1>1, <1>4, <1>9 DEF Charged, Detached
<1>17. CreditsAgree'
  BY <1>7, <1>16 DEF IInv, CreditsAgree
<1> QED BY <1>8, <1>9, <1>11, <1>12, <1>13, <1>14, <1>15, <1>17 DEF IInv

-----------------------------------------------------------------------------
(* The works on submit_wq.                                                 *)

(* drm_sched_select_entity *)
LEMMA SelectEntityKeeps ==
    ASSUME IInv, NEW e \in Entities, SelectEntity(e)
    PROVE  IInv'
<1>1. /\ worker.pc = "idle" /\ wq # <<>> /\ wq' = Tail(wq)
      /\ e \in Ready /\ credit < CreditLimit
      /\ worker' = [pc |-> "pop", e |-> e, j |-> NoJob]
      /\ UNCHANGED <<job, pending, credit, pause, timer, tdr, ring, foreign>>
  BY DEF SelectEntity
<1>2. /\ EntTypes' /\ SameQueues /\ ~ent'[e].idle /\ ent'[e].dep = ent[e].dep
  <2> DEFINE r == [ent[e] EXCEPT !.idle = FALSE]
  <2>1. ent' = [ent EXCEPT ![e] = r]
    BY DEF SelectEntity
  <2>2. /\ r \in EntRecords /\ r.sent = ent[e].sent /\ r.queue = ent[e].queue
        /\ ~r.idle /\ r.dep = ent[e].dep
    BY ZenonT(60) DEF IInv, TypeOK, EntTypes, EntRecords
  <2> HIDE DEF r
  <2> QED BY <2>1, <2>2 DEF IInv, TypeOK, EntTypes, SameQueues
<1>3. wq' \in Seq({"run", "free"})
  BY <1>1, HeadTailProperties DEF IInv, TypeOK, WorkTypes
<1>4. TypeOK'
  BY <1>1, <1>2, <1>3 DEF IInv, TypeOK, JobTypes, WorkTypes
<1>5. worker.j = NoJob /\ worker'.j = NoJob
  BY <1>1 DEF IInv, WorkerAgrees
<1>6. QueuesFollowPlan' /\ \A k : Waiting(k)' <=> Waiting(k)
  BY <1>2, WaitingSame DEF IInv
<1>7. \A k : (Held(k)' <=> Held(k)) /\ (Untouched(k)' <=> Untouched(k))
  BY <1>1, <1>5 DEF Held, Untouched
<1>8. ~(tdr.pc \in {"stop", "start"})
  BY <1>1 DEF IInv, TimeoutAgrees
<1>9. TimeoutAgrees'
  BY <1>1, <1>8 DEF IInv, TimeoutAgrees, Detached
<1>10. ASSUME NEW k \in Jobs PROVE JobAgrees(k)'
  BY <1>1, <1>5, <1>6, <1>7 DEF IInv, JobAgrees
<1>11. RingAgrees'
  BY <1>1, <1>7 DEF IInv, RingAgrees
<1>12. WorkerAgrees'
  BY <1>1, <1>2 DEF WorkerAgrees, Ready
<1>13. FreedUnused'
  BY <1>1, <1>2, <1>5 DEF IInv, FreedUnused, SameQueues
<1>14. Charged' = Charged
  BY <1>1, <1>6 DEF Charged, Detached
<1>15. CreditsAgree'
  BY <1>1, <1>14 DEF IInv, CreditsAgree
<1> QED BY <1>4, <1>6, <1>9, <1>10, <1>11, <1>12, <1>13, <1>15 DEF IInv

(* drm_sched_entity_pop_job, without a result *)
LEMMA PopWaitsKeeps ==
    ASSUME IInv, PopWaits
    PROVE  IInv'
<1> DEFINE e == worker.e
           q == ent[e].queue
<1>1. /\ worker.pc = "pop" /\ worker' = Idle /\ wq' = Run(wq, "run")
      /\ UNCHANGED <<pending, credit, pause, timer, tdr, ring, foreign>>
  BY DEF PopWaits
<1>2. e \in Entities /\ worker.j = NoJob /\ worker'.j = NoJob
  BY <1>1 DEF IInv, WorkerAgrees, Idle
<1>3. ent[e] \in EntRecords /\ q \in Seq(Jobs)
  BY <1>2 DEF IInv, TypeOK, EntTypes, EntRecords
<1>4. q # <<>> => Head(q) \in Jobs
  BY <1>3, HeadTailProperties
<1>5. EntTypes' /\ SameQueues
  <2> DEFINE d == IF q = <<>> THEN ent[e].dep ELSE WaitKind(DepOf[Head(q)])
             o == IF q = <<>> THEN ent[e].on ELSE DepOf[Head(q)]
             r == [ent[e] EXCEPT !.dep = d, !.on = o, !.idle = TRUE]
  <2>1. ent' = [ent EXCEPT ![e] = r]
    BY DEF PopWaits, IInv, TypeOK, EntTypes
  <2>2. /\ d \in {"none", "scheduled", "finished"}
        /\ o \in Jobs \cup {NoJob, Foreign}
    BY <1>3, <1>4, SchedAssumption DEF WaitKind, EntRecords
  <2> HIDE DEF d, o
  <2>3. r \in EntRecords /\ r.sent = ent[e].sent /\ r.queue = ent[e].queue
    BY <1>3, <2>2 DEF EntRecords
  <2> HIDE DEF r, q, e
  <2> QED BY <1>2, <2>1, <2>3 DEF IInv, TypeOK, EntTypes, SameQueues
<1>6. JobTypes' /\ \A k \in Jobs : SameJob(k)
  <2>1. CASE q = <<>>
    <3>1. job' = job
      BY <2>1 DEF PopWaits
    <3> QED BY <3>1 DEF IInv, TypeOK, JobTypes, SameJob
  <2>2. CASE q # <<>>
    <3> DEFINE h == Head(q)
    <3>1. job' = [job EXCEPT ![h].depTaken = TRUE]
      BY <2>2 DEF PopWaits
    <3>2. h \in Jobs
      BY <1>4, <2>2
    <3> HIDE DEF h
    <3> QED BY <3>1, <3>2, ZenonT(60) DEF IInv, TypeOK, JobTypes, JobRecords, SameJob
  <2> QED BY <2>1, <2>2
<1> HIDE DEF q
<1>7. wq' \in Seq({"run", "free"})
  BY <1>1, RunProps DEF IInv, TypeOK, WorkTypes
<1>8. TypeOK'
  BY <1>1, <1>5, <1>6, <1>7 DEF IInv, TypeOK, WorkTypes, Idle
<1>9. QueuesFollowPlan' /\ \A k : Waiting(k)' <=> Waiting(k)
  BY <1>5, WaitingSame DEF IInv
<1>10. \A k : (Held(k)' <=> Held(k)) /\ (Untouched(k)' <=> Untouched(k))
  BY <1>1, <1>2 DEF Held, Untouched
<1>11. ~(tdr.pc \in {"stop", "start"})
  BY <1>1 DEF IInv, TimeoutAgrees
<1>12. TimeoutAgrees'
  BY <1>1, <1>6, <1>11 DEF IInv, TimeoutAgrees, SameJob, Early
<1>13. ASSUME NEW k \in Jobs PROVE JobAgrees(k)'
  <2>1. JobAgrees(k) /\ SameJob(k)
    BY <1>6 DEF IInv
  <2> QED BY <1>2, <1>9, <1>10, <2>1 DEF JobAgrees, SameJob
<1>14. RingAgrees'
  BY <1>1, <1>6, <1>10 DEF IInv, RingAgrees, SameJob
<1>15. WorkerAgrees'
  BY <1>1 DEF WorkerAgrees, Idle
<1>16. FreedUnused'
  BY <1>1, <1>2, <1>5, <1>6 DEF IInv, FreedUnused, SameQueues, SameJob
<1>17. Charged' = Charged
  BY <1>6, <1>9 DEF Charged, Detached, SameJob
<1>18. CreditsAgree'
  BY <1>1, <1>17 DEF IInv, CreditsAgree
<1> QED BY <1>8, <1>9, <1>12, <1>13, <1>14, <1>15, <1>16, <1>18 DEF IInv

(* What adding one job to those that hold a credit, or taking one, does. *)
LEMMA ChargedChanges ==
    ASSUME IInv, NEW j
    PROVE  /\ Charged' = Charged \cup {j} /\ j \notin Charged =>
                IsFiniteSet(Charged') /\ Cardinality(Charged') = credit + 1
           /\ Charged' = Charged \ {j} /\ j \in Charged =>
                IsFiniteSet(Charged') /\ Cardinality(Charged') = credit - 1
           /\ credit \in Nat
<1>1. IsFiniteSet(Charged) /\ credit = Cardinality(Charged) /\ credit \in Nat
  BY FS_CardinalityType DEF IInv, CreditsAgree
<1>2. ASSUME Charged' = Charged \cup {j}, j \notin Charged
      PROVE  IsFiniteSet(Charged') /\ Cardinality(Charged') = credit + 1
  BY <1>1, <1>2, FS_AddElement
<1>3. ASSUME Charged' = Charged \ {j}, j \in Charged
      PROVE  IsFiniteSet(Charged') /\ Cardinality(Charged') = credit - 1
  BY <1>1, <1>3, FS_RemoveElement
<1> QED BY <1>1, <1>2, <1>3

(* A job gives its credit back. *)
LEMMA TakeCredit ==
    ASSUME IInv, NEW j \in Charged, Charged' = Charged \ {j},
           credit' = credit - 1
    PROVE  CreditsAgree'
<1>1. /\ IsFiniteSet(Charged') /\ Cardinality(Charged') = credit - 1
      /\ credit \in Nat /\ credit <= CreditLimit
  BY ChargedChanges DEF IInv, CreditsAgree
<1>2. credit - 1 <= CreditLimit
  BY <1>1, SchedAssumption
<1> QED BY <1>1, <1>2 DEF CreditsAgree

(* drm_sched_entity_pop_job and drm_sched_job_begin *)
LEMMA PopJobKeeps ==
    ASSUME IInv, PopJob
    PROVE  IInv'
<1>1. PICK e, q, j : e = worker.e /\ q = ent[e].queue /\ j = Head(q)
  OBVIOUS
<1>2. /\ worker.pc = "pop" /\ q # <<>>
      /\ pending' = Append(pending, j) /\ timer' = StartTimeout(pending')
      /\ credit' = credit + 1
      /\ worker' = [worker EXCEPT !.pc = "run", !.j = j]
      /\ UNCHANGED <<wq, pause, tdr, ring, foreign>>
  BY <1>1 DEF PopJob
<1>3. /\ e \in Entities /\ worker.j = NoJob /\ ~ent[e].idle
      /\ credit < CreditLimit
  BY <1>1, <1>2 DEF IInv, WorkerAgrees
<1>4. ent[e] \in EntRecords /\ q \in Seq(Jobs) /\ Distinct(q)
  BY <1>1, <1>3, QueueProps DEF IInv, TypeOK, EntTypes
<1>5. /\ j \in Jobs /\ j = q[1] /\ Contains(q, j)
      /\ Tail(q) \in Seq(Jobs) /\ Len(Tail(q)) = Len(q) - 1 /\ Len(q) > 0
      /\ \A i \in 1..Len(q) - 1 : Tail(q)[i] = q[i + 1]
      /\ \A y : Contains(Tail(q), y) <=> Contains(q, y) /\ y # j
      /\ Len(q) \in Nat
  BY <1>1, <1>2, <1>4, TailList, LenProperties
<1>6. /\ Submitted(j) /\ Waiting(j)
      /\ \A f \in Entities : Contains(ent[f].queue, j) => f = e
  BY <1>1, <1>3, <1>5, QueueProps
<1>7. JobAgrees(j) /\ Untouched(j) /\ j # NoJob
  BY <1>5, <1>6, SchedAssumption DEF IInv, JobAgrees
<1>8. PICK r \in EntRecords :
         /\ ent' = [ent EXCEPT ![e] = r]
         /\ r.sent = ent[e].sent /\ r.queue = Tail(q) /\ r.idle = ent[e].idle
  <2> DEFINE t == ent[e].tree \/ (Fifo /\ Len(ent[e].queue) > 1)
             r == [ent[e] EXCEPT !.last = j, !.queue = Tail(q), !.tree = t]
  <2>1. ent' = [ent EXCEPT ![e] = r]
    BY <1>1 DEF PopJob, IInv, TypeOK, EntTypes
  <2>2. t \in BOOLEAN
    BY Zenon
  <2> HIDE DEF t
  <2>3. /\ r \in EntRecords /\ r.sent = ent[e].sent /\ r.queue = Tail(q)
        /\ r.idle = ent[e].idle
    BY <1>4, <1>5, <2>2 DEF EntRecords
  <2> HIDE DEF r
  <2> QED BY <2>1, <2>3
<1>9. /\ EntTypes' /\ ent'[e] = r /\ \A f \in Entities \ {e} : ent'[f] = ent[f]
  BY <1>3, <1>8 DEF IInv, TypeOK, EntTypes
<1>10. JobTypes' /\ \A k \in Jobs : SameJob(k)
  <2> DEFINE x == job[j].err \/ (ent[e].last # NoJob /\ job[ent[e].last].err)
             b == [job[j] EXCEPT !.depTaken = TRUE, !.err = x]
  <2>1. job' = [job EXCEPT ![j] = b]
    BY <1>1 DEF PopJob, IInv, TypeOK, JobTypes
  <2>2. x \in BOOLEAN
    BY Zenon
  <2> HIDE DEF x
  <2>3. job[j] \in JobRecords
    BY <1>5 DEF IInv, TypeOK, JobTypes
  <2>4. /\ b \in JobRecords /\ b.scheduled = job[j].scheduled
        /\ b.finished = job[j].finished /\ b.parent = job[j].parent
        /\ b.cb = job[j].cb /\ b.hw = job[j].hw /\ b.killed = job[j].killed
        /\ b.freed = job[j].freed
    BY <2>2, <2>3 DEF JobRecords
  <2> HIDE DEF b
  <2> QED BY <1>5, <2>1, <2>4 DEF IInv, TypeOK, JobTypes, SameJob
<1>11. /\ pending' \in Seq(Jobs)
       /\ \A y : Contains(pending', y) <=> Contains(pending, y) \/ y = j
       /\ Distinct(pending) /\ ~Contains(pending, j) => Distinct(pending')
  BY <1>2, <1>5, AppendList DEF IInv, TypeOK, WorkTypes
<1>12. TypeOK'
  <2>1. timer' \in BOOLEAN
    BY <1>2, Zenon DEF StartTimeout
  <2>2. worker' \in [pc : {"idle", "pop", "run", "callback"},
                     e : Entities \cup {NoJob}, j : Jobs \cup {NoJob}]
    BY <1>2, <1>5 DEF IInv, TypeOK, WorkTypes
  <2> QED BY <1>2, <1>9, <1>10, <1>11, <2>1, <2>2 DEF IInv, TypeOK, WorkTypes
<1>13. worker'.pc = "run" /\ worker'.j = j /\ worker'.e = e
  BY <1>1, <1>2 DEF IInv, TypeOK, WorkTypes
<1>14. QueuesFollowPlan'
  <2>1. /\ ent[e].sent \in Nat /\ ent[e].sent <= Len(Plan[e])
        /\ Len(q) <= ent[e].sent
        /\ \A i \in 1..Len(q) : q[i] = Plan[e][ent[e].sent - Len(q) + i]
    BY <1>1, <1>3, <1>4 DEF IInv, QueuesFollowPlan, EntRecords
  <2>2. ASSUME NEW i \in 1..Len(Tail(q))
        PROVE  Tail(q)[i] = Plan[e][ent[e].sent - Len(Tail(q)) + i]
    <3>1. i + 1 \in 1..Len(q) /\ i \in 1..Len(q) - 1 /\ i \in Nat
      BY <1>5
    <3>2. \A s, l, k \in Nat : s - l + (k + 1) = s - (l - 1) + k
      OBVIOUS
    <3>3. ent[e].sent - Len(q) + (i + 1) = ent[e].sent - (Len(q) - 1) + i
      BY <1>5, <2>1, <3>1, <3>2
    <3>4. Tail(q)[i] = q[i + 1]
      BY <1>5, <3>1
    <3>5. q[i + 1] = Plan[e][ent[e].sent - Len(q) + (i + 1)]
      BY <2>1, <3>1
    <3> QED BY <1>5, <3>3, <3>4, <3>5
  <2>3. Len(Tail(q)) <= ent[e].sent
    BY <1>5, <2>1
  <2>4. ASSUME NEW f \in Entities, f # e
        PROVE  /\ ent'[f].sent <= Len(Plan[f])
               /\ Len(ent'[f].queue) <= ent'[f].sent
               /\ \A i \in 1..Len(ent'[f].queue) : ent'[f].queue[i]
                     = Plan[f][ent'[f].sent - Len(ent'[f].queue) + i]
    <3>1. ent'[f] = ent[f]
      BY <1>9, <2>4
    <3> QED BY <3>1 DEF IInv, QueuesFollowPlan
  <2>5. /\ ent'[e].sent <= Len(Plan[e])
        /\ Len(ent'[e].queue) <= ent'[e].sent
        /\ \A i \in 1..Len(ent'[e].queue) : ent'[e].queue[i]
              = Plan[e][ent'[e].sent - Len(ent'[e].queue) + i]
    <3>1. ent'[e].sent = ent[e].sent /\ ent'[e].queue = Tail(q)
      BY <1>8, <1>9
    <3> QED BY <2>1, <2>2, <2>3, <3>1
  <2> QED BY <2>4, <2>5 DEF QueuesFollowPlan
<1>15. ASSUME NEW k \in Jobs PROVE Waiting(k)' <=> Waiting(k) /\ k # j
  <2>1. \A x : Submitted(x)' <=> Submitted(x)
    BY <1>8, <1>9 DEF Submitted
  <2>2. \A f \in Entities : Contains(ent'[f].queue, k)
           <=> Contains(ent[f].queue, k) /\ k # j
    BY <1>1, <1>5, <1>6, <1>8, <1>9
  <2> QED BY <1>6, <2>1, <2>2 DEF Waiting
<1>16. ~(tdr.pc \in {"stop", "start"}) /\ tdr.bad # j /\ ~Contains(pending, j)
  BY <1>2, <1>7 DEF IInv, TimeoutAgrees, Untouched
<1>17. TimeoutAgrees'
  BY <1>2, <1>10, <1>11, <1>16 DEF IInv, TimeoutAgrees, SameJob, Early
<1>18. \A k : Held(k)' <=> Held(k) \/ k = j
  BY <1>2, <1>11 DEF Held
<1>19. ASSUME NEW k \in Jobs PROVE JobAgrees(k)'
  <2>1. JobAgrees(k) /\ SameJob(k)
    BY <1>10 DEF IInv
  <2>2. CASE k = j
    BY <1>6, <1>13, <1>15, <2>1, <2>2 DEF JobAgrees, SameJob
  <2>3. CASE k # j
    <3>1. Untouched(k)' <=> Untouched(k)
      BY <1>2, <1>3, <1>11, <1>13, <2>3, SchedAssumption DEF Untouched
    <3> QED BY <1>3, <1>15, <2>1, <2>3, <3>1, SchedAssumption DEF JobAgrees,
        SameJob
  <2> QED BY <2>2, <2>3
<1>20. RingAgrees'
  BY <1>2, <1>10, <1>11, <1>18 DEF IInv, RingAgrees, SameJob
<1>21. WorkerAgrees'
  <2>1. ~job'[j].scheduled /\ ~job'[j].parent /\ job'[j].hw = "none"
    BY <1>5, <1>6, <1>7, <1>10 DEF JobAgrees, SameJob
  <2>2. ~Contains(ring', j)
    BY <1>2, <1>7 DEF Untouched
  <2>3. ~ent'[e].idle
    BY <1>3, <1>8, <1>9
  <2> QED BY <1>3, <1>5, <1>13, <1>18, <2>1, <2>2, <2>3 DEF WorkerAgrees
<1>22. FreedUnused'
  <2>1. \A k \in Jobs, f \in Entities : Contains(ent'[f].queue, k) =>
           Contains(ent[f].queue, k)
    BY <1>1, <1>5, <1>8, <1>9
  <2>2. job'[j].freed = 0
    BY <1>5, <1>6, <1>7, <1>10 DEF JobAgrees, SameJob
  <2> QED BY <1>2, <1>10, <1>11, <1>13, <2>1, <2>2 DEF IInv, FreedUnused,
      SameJob
<1>23. Charged' = Charged \cup {j} /\ j \notin Charged
  <2>1. ~job[j].killed /\ ~job[j].finished /\ ~job[j].scheduled
    BY <1>6, <1>7 DEF JobAgrees
  <2> QED BY <1>5, <1>6, <1>10, <1>15, <2>1 DEF Charged, Detached, SameJob
<1>24. CreditsAgree'
  <2>1. /\ IsFiniteSet(Charged') /\ Cardinality(Charged') = credit + 1
        /\ credit \in Nat
    BY <1>23, ChargedChanges
  <2>2. credit + 1 <= CreditLimit
    BY <1>3, <2>1, SchedAssumption
  <2> QED BY <1>2, <2>1, <2>2 DEF CreditsAgree
<1> QED BY <1>12, <1>14, <1>17, <1>19, <1>20, <1>21, <1>22, <1>24 DEF IInv

(* amdgpu_job_run *)
LEMMA RunJobKeeps ==
    ASSUME IInv, RunJob
    PROVE  IInv'
<1>1. PICK j : j = worker.j
  OBVIOUS
<1>2. /\ worker.pc = "run"
      /\ worker' = [pc |-> "callback", e |-> NoJob, j |-> j]
      /\ UNCHANGED <<wq, pending, credit, pause, timer, tdr, foreign>>
  BY <1>1 DEF RunJob
<1>3. /\ j \in Jobs /\ Held(j) /\ ~job[j].scheduled /\ ~job[j].parent
      /\ job[j].hw = "none" /\ ~Contains(ring, j) /\ worker.e \in Entities
  BY <1>1, <1>2 DEF IInv, WorkerAgrees
<1>4. ~Waiting(j) /\ ~job[j].killed /\ ~job[j].finished /\ ~job[j].cb
  BY <1>1, <1>3 DEF IInv, JobAgrees, Untouched
<1>5. EntTypes' /\ SameQueues
  <2>1. PICK e \in Entities : e = worker.e
    BY <1>3
  <2> DEFINE r == [ent[e] EXCEPT !.idle = TRUE]
  <2>2. ent' = [ent EXCEPT ![e] = r]
    BY <2>1 DEF RunJob
  <2>3. ent \in [Entities -> EntRecords] /\ ent[e] \in EntRecords
    BY DEF IInv, TypeOK, EntTypes
  <2>4. r \in EntRecords /\ r.sent = ent[e].sent /\ r.queue = ent[e].queue
    BY <2>3 DEF EntRecords
  <2> HIDE DEF r
  <2> QED BY <2>2, <2>3, <2>4 DEF EntTypes, SameQueues
<1>6. PICK h \in {"none", "ring", "failed"} :
         /\ job' = [job EXCEPT ![j].hw = h]
         /\ ring' = IF h = "ring" THEN Append(ring, j) ELSE ring
  <2>1. CASE UNCHANGED <<job, ring>>
    <3>1. job = [job EXCEPT ![j].hw = "none"]
      BY <1>3 DEF IInv, TypeOK, JobTypes, JobRecords
    <3> QED BY <2>1, <3>1
  <2>2. CASE job' = [job EXCEPT ![j].hw = "ring"] /\ ring' = Append(ring, j)
    BY <2>2
  <2>3. CASE job' = [job EXCEPT ![j].hw = "failed"] /\ UNCHANGED ring
    BY <2>3
  <2> QED BY <1>1, <2>1, <2>2, <2>3 DEF RunJob
<1>7. /\ JobTypes' /\ \A k \in Jobs \ {j} : job'[k] = job[k]
      /\ job'[j].scheduled = job[j].scheduled
      /\ job'[j].finished = job[j].finished
      /\ job'[j].parent = job[j].parent /\ job'[j].cb = job[j].cb
      /\ job'[j].hw = h /\ job'[j].killed = job[j].killed
      /\ job'[j].freed = job[j].freed
  <2> DEFINE b == [job[j] EXCEPT !.hw = h]
  <2>1. job' = [job EXCEPT ![j] = b]
    BY <1>6
  <2>2. job[j] \in JobRecords
    BY <1>3 DEF IInv, TypeOK, JobTypes
  <2>3. /\ b \in JobRecords /\ b.scheduled = job[j].scheduled
        /\ b.finished = job[j].finished /\ b.parent = job[j].parent
        /\ b.cb = job[j].cb /\ b.hw = h /\ b.killed = job[j].killed
        /\ b.freed = job[j].freed
    BY <2>2 DEF JobRecords
  <2> HIDE DEF b
  <2> QED BY <1>3, <2>1, <2>3 DEF IInv, TypeOK, JobTypes
<1>8. /\ ring' \in Seq(Jobs) /\ (Distinct(ring) => Distinct(ring'))
      /\ \A y : Contains(ring', y) <=>
            Contains(ring, y) \/ (y = j /\ h = "ring")
  <2>1. CASE h = "ring"
    BY <1>3, <1>6, <2>1, AppendList DEF IInv, TypeOK, WorkTypes
  <2>2. CASE h # "ring"
    BY <1>6, <2>2 DEF IInv, TypeOK, WorkTypes
  <2> QED BY <2>1, <2>2
<1>9. TypeOK'
  BY <1>2, <1>3, <1>5, <1>7, <1>8 DEF IInv, TypeOK, WorkTypes
<1>10. QueuesFollowPlan' /\ \A k : Waiting(k)' <=> Waiting(k)
  BY <1>5, WaitingSame DEF IInv
<1>11. (\A k : Held(k)' <=> Held(k)) /\ worker'.j = worker.j
  BY <1>1, <1>2 DEF Held
<1>12. ~(tdr.pc \in {"stop", "start"})
  BY <1>2 DEF IInv, TimeoutAgrees
<1>13. TimeoutAgrees'
  <2>1. \A k \in Jobs : job'[k].parent = job[k].parent
                        /\ job'[k].finished = job[k].finished
    BY <1>7
  <2> QED BY <1>2, <1>12, <2>1 DEF IInv, TimeoutAgrees, Early
<1>14. ASSUME NEW k \in Jobs PROVE JobAgrees(k)'
  <2>1. JobAgrees(k)
    BY DEF IInv
  <2>2. CASE k = j
    BY <1>3, <1>4, <1>7, <1>10, <1>11, <2>1, <2>2, <1>1 DEF JobAgrees
  <2>3. CASE k # j
    <3>1. Untouched(k)' <=> Untouched(k)
      BY <1>2, <1>8, <1>11, <2>3 DEF Untouched
    <3>2. job'[k] = job[k]
      BY <1>7, <2>3
    <3> QED BY <1>10, <1>11, <2>1, <3>1, <3>2 DEF JobAgrees
  <2> QED BY <2>2, <2>3
<1>15. RingAgrees'
  <2>1. Distinct(ring')
    BY <1>8 DEF IInv, RingAgrees
  <2>2. ASSUME NEW k \in Jobs
        PROVE  /\ Contains(ring', k) => job'[k].hw = "ring" \/ job'[k].finished
               /\ Contains(ring', k) => job'[k].hw # "done"
               /\ Contains(ring', k) /\ ~job'[k].finished => Held(k)'
               /\ job'[k].hw = "ring" => Contains(ring', k)
               /\ job'[k].scheduled => \/ job'[k].finished
                                       \/ job'[k].hw \in {"ring", "done"}
                                       \/ tdr'.pc = "start" /\ Contains(pending', k)
    <3>1. CASE k = j
      BY <1>3, <1>7, <1>8, <1>11, <3>1
    <3>2. CASE k # j
      <4>1. job'[k] = job[k] /\ (Contains(ring', k) <=> Contains(ring, k))
        BY <1>7, <1>8, <3>2
      <4> QED BY <1>2, <1>11, <4>1 DEF IInv, RingAgrees
    <3> QED BY <3>1, <3>2
  <2> QED BY <2>1, <2>2 DEF RingAgrees
<1>16. WorkerAgrees'
  BY <1>2, <1>3, <1>7, <1>11 DEF WorkerAgrees
<1>17. FreedUnused'
  <2>1. \A k \in Jobs : /\ job'[k].freed = job[k].freed
                        /\ job'[k].finished = job[k].finished
                        /\ job'[k].cb = job[k].cb
    BY <1>7
  <2> QED BY <1>2, <1>5, <1>11, <2>1 DEF IInv, FreedUnused, SameQueues
<1>18. Charged' = Charged
  <2>1. \A k \in Jobs : /\ job'[k].killed = job[k].killed
                        /\ job'[k].finished = job[k].finished
                        /\ job'[k].scheduled = job[k].scheduled
                        /\ job'[k].parent = job[k].parent
    BY <1>7
  <2> QED BY <1>10, <2>1 DEF Charged, Detached
<1>19. CreditsAgree'
  BY <1>2, <1>18 DEF IInv, CreditsAgree
<1> QED BY <1>9, <1>10, <1>13, <1>14, <1>15, <1>16, <1>17, <1>19 DEF IInv

(* The jobs when drm_sched_run_job_work has looked at the fence of job j, ... *)
CallbackSet(j) ==
    [job EXCEPT ![j].scheduled = TRUE,
                ![j].parent = job[j].hw \in {"ring", "done"},
                ![j].cb = job[j].hw = "ring"]

(* ... and when it has finished a job whose fence needs no callback. *)
CallbackJobs(j) ==
    IF CallbackSet(j)[j].cb THEN CallbackSet(j)
    ELSE JobDone(CallbackSet(j), j, job[j].hw = "failed" \/ job[j].hwErr)

LEMMA AddCallbackStep ==
    ASSUME AddCallback, NEW j, j = worker.j
    PROVE  /\ job' = CallbackJobs(j)
           /\ ent' = CallbacksRun(ent, job', foreign) /\ worker' = Idle
           /\ ring' = ring /\ foreign' = foreign
           /\ credit' = IF CallbackSet(j)[j].cb THEN credit ELSE credit - 1
           /\ wq' = Run(IF CallbackSet(j)[j].cb THEN Woken(wq, job', foreign)
                        ELSE Run(Woken(wq, job', foreign), "free"), "run")
<1>1. job' = CallbackJobs(worker.j)
  BY Zenon DEF AddCallback, CallbackJobs, CallbackSet
<1>2. ent' = CallbacksRun(ent, CallbackJobs(worker.j), foreign)
  BY Zenon DEF AddCallback, CallbackJobs, CallbackSet
<1>3. credit' = IF CallbackSet(worker.j)[worker.j].cb THEN credit
                ELSE credit - 1
  BY Zenon DEF AddCallback, CallbackSet
<1>4. wq' = Run(IF CallbackSet(worker.j)[worker.j].cb
                THEN Woken(wq, CallbackJobs(worker.j), foreign)
                ELSE Run(Woken(wq, CallbackJobs(worker.j), foreign), "free"),
                "run")
  BY Zenon DEF AddCallback, CallbackJobs, CallbackSet
<1>5. worker' = Idle /\ ring' = ring /\ foreign' = foreign
  BY Zenon DEF AddCallback
<1> QED BY <1>1, <1>2, <1>3, <1>4, <1>5, Zenon

(* drm_sched_fence_scheduled and the callback on the hardware fence *)
LEMMA AddCallbackKeeps ==
    ASSUME IInv, AddCallback
    PROVE  IInv'
<1>1. PICK j : j = worker.j
  OBVIOUS
<1>2. worker.pc = "callback" /\ worker' = Idle
      /\ UNCHANGED <<pending, pause, timer, tdr, ring, foreign>>
  BY DEF AddCallback
<1>3. /\ j \in Jobs /\ Held(j) /\ ~job[j].scheduled /\ ~job[j].parent
      /\ job \in [Jobs -> JobRecords] /\ job[j] \in JobRecords
  BY <1>1, <1>2 DEF IInv, WorkerAgrees, TypeOK, JobTypes
<1>4. /\ ~Waiting(j) /\ ~job[j].killed /\ ~job[j].finished /\ ~job[j].cb
      /\ JobAgrees(j)
  BY <1>1, <1>3 DEF IInv, JobAgrees, Untouched
<1> DEFINE p == job[j].hw \in {"ring", "done"}
           c == job[j].hw = "ring"
           s == [job EXCEPT ![j].scheduled = TRUE, ![j].parent = p, ![j].cb = c]
           x == job[j].hw = "failed" \/ job[j].hwErr
           jb == IF s[j].cb THEN s ELSE JobDone(s, j, x)
<1>5. p \in BOOLEAN /\ c \in BOOLEAN /\ x \in BOOLEAN
  <2>1. p \in BOOLEAN /\ c \in BOOLEAN
    OBVIOUS
  <2>2. x \in BOOLEAN
    BY Zenon
  <2> QED BY <2>1, <2>2
<1>6. /\ job' = jb /\ ent' = CallbacksRun(ent, jb, foreign)
      /\ credit' = IF s[j].cb THEN credit ELSE credit - 1
      /\ wq' = Run(IF s[j].cb THEN Woken(wq, jb, foreign)
                   ELSE Run(Woken(wq, jb, foreign), "free"), "run")
  <2>1. /\ job' = CallbackJobs(j) /\ ent' = CallbacksRun(ent, job', foreign)
        /\ credit' = IF CallbackSet(j)[j].cb THEN credit ELSE credit - 1
        /\ wq' = Run(IF CallbackSet(j)[j].cb THEN Woken(wq, job', foreign)
                     ELSE Run(Woken(wq, job', foreign), "free"), "run")
    BY <1>1, AddCallbackStep
  <2>2. CallbackSet(j) = s /\ CallbackJobs(j) = jb
    BY Zenon DEF CallbackSet, CallbackJobs
  <2> QED BY <2>1, <2>2, Zenon
<1>7. /\ s \in [Jobs -> JobRecords] /\ \A k \in Jobs \ {j} : s[k] = job[k]
      /\ s[j].scheduled = TRUE /\ s[j].parent = p /\ s[j].cb = c
      /\ s[j].hw = job[j].hw /\ s[j].killed = job[j].killed
      /\ s[j].finished = job[j].finished /\ s[j].freed = job[j].freed
  <2> HIDE DEF p, c, x
  <2> DEFINE b == [job[j] EXCEPT !.scheduled = TRUE, !.parent = p, !.cb = c]
  <2>1. s = [job EXCEPT ![j] = b]
    BY <1>3
  <2>2. /\ b \in JobRecords /\ b.scheduled = TRUE /\ b.parent = p /\ b.cb = c
        /\ b.hw = job[j].hw /\ b.killed = job[j].killed
        /\ b.finished = job[j].finished /\ b.freed = job[j].freed
    BY <1>3, <1>5 DEF JobRecords
  <2> HIDE DEF b, s
  <2> QED BY <1>3, <2>1, <2>2
<1>8. /\ JobTypes' /\ \A k \in Jobs \ {j} : job'[k] = job[k]
      /\ job'[j].scheduled = TRUE
      /\ job'[j].parent = p /\ job'[j].cb = c
      /\ job'[j].finished <=> ~c
      /\ job'[j].hw = job[j].hw /\ job'[j].killed = job[j].killed
      /\ job'[j].freed = job[j].freed
  <2> HIDE DEF p, c, x, s
  <2>1. CASE c
    <3>1. job' = s
      BY <1>6, <1>7, <2>1
    <3> QED BY <1>4, <1>7, <2>1, <3>1 DEF JobTypes
  <2>2. CASE ~c
    <3>1. job' = JobDone(s, j, x) /\ c = FALSE
      BY <1>5, <1>6, <1>7, <2>2
    <3>2. s \in [Jobs -> JobRecords]
      BY <1>7
    <3>3. /\ job' \in [Jobs -> JobRecords] /\ \A k \in Jobs \ {j} : job'[k] = s[k]
          /\ job'[j].scheduled = s[j].scheduled /\ job'[j].finished = TRUE
          /\ job'[j].cb = FALSE /\ job'[j].killed = s[j].killed
          /\ job'[j].parent = s[j].parent /\ job'[j].hw = s[j].hw
          /\ job'[j].freed = s[j].freed
      <4>1. PICK t \in [Jobs -> JobRecords], y \in BOOLEAN : t = s /\ y = x
        BY <1>5, <3>2
      <4> DEFINE d == JobDone(t, j, y)
      <4>2. /\ d \in [Jobs -> JobRecords] /\ \A k \in Jobs \ {j} : d[k] = t[k]
            /\ d[j].scheduled = t[j].scheduled /\ d[j].finished = TRUE
            /\ d[j].cb = FALSE /\ d[j].killed = t[j].killed
            /\ d[j].parent = t[j].parent /\ d[j].hw = t[j].hw
            /\ d[j].freed = t[j].freed
        BY <1>3, JobDoneProps, ZenonT(60)
      <4>3. job' = d
        BY <3>1, <4>1
      <4> HIDE DEF d
      <4> QED BY <4>1, <4>2, <4>3
    <3> QED BY <1>7, <3>1, <3>3 DEF JobTypes
  <2> QED BY <2>1, <2>2
<1>9. credit' = IF c THEN credit ELSE credit - 1
  BY <1>6, <1>7
<1>10. wq' \in Seq({"run", "free"})
  <2> HIDE DEF jb, s
  <2>1. Woken(wq, jb, foreign) \in Seq({"run", "free"})
    BY WokenProps DEF IInv, TypeOK, WorkTypes
  <2> QED BY <1>6, <2>1, RunProps
<1>11. EntTypes' /\ SameQueues /\ SameSelected
  <2> HIDE DEF jb
  <2> QED BY <1>6, CallbacksProps DEF IInv, TypeOK
<1> HIDE DEF s, x, jb
<1>12. TypeOK'
  BY <1>2, <1>8, <1>10, <1>11 DEF IInv, TypeOK, WorkTypes, Idle
<1>13. QueuesFollowPlan' /\ \A k : Waiting(k)' <=> Waiting(k)
  BY <1>11, WaitingSame DEF IInv
<1>14. /\ (\A k : Held(k)' <=> Held(k)) /\ worker'.j = NoJob
       /\ worker'.pc = "idle" /\ NoJob \notin Jobs
  BY <1>2, SchedAssumption DEF Held, Idle
<1>15. TimeoutAgrees' /\ SameTimeout
  <2>1. ~(tdr.pc \in {"stop", "start"})
    BY <1>2 DEF IInv, TimeoutAgrees
  <2>2. tdr.pc = "softwait" => job'[tdr.bad].parent
    BY <1>3, <1>8 DEF IInv, TimeoutAgrees
  <2>3. \A k \in Jobs : Detached(k) => Detached(k)'
    BY <1>3, <1>8 DEF Detached
  <2>4. \A k \in Jobs : job[k].finished => job'[k].finished
    BY <1>4, <1>8
  <2> QED BY <1>2, <2>1, <2>2, <2>3, <2>4, TimeoutKept
<1>16. ASSUME NEW k \in Jobs PROVE JobAgrees(k)'
  <2>1. JobAgrees(k)
    BY DEF IInv
  <2>2. CASE k = j
    BY <1>4, <1>8, <1>13, <2>2 DEF JobAgrees
  <2>3. CASE k # j
    <3>1. Untouched(k)' <=> Untouched(k)
      BY <1>1, <1>2, <1>14, <2>3 DEF Untouched
    <3>2. job'[k] = job[k] /\ worker.j # k
      BY <1>1, <1>8, <2>3
    <3> QED BY <1>13, <2>1, <3>1, <3>2 DEF JobAgrees
  <2> QED BY <2>2, <2>3
<1>17. RingAgrees'
  <2>1. Distinct(ring')
    BY <1>2 DEF IInv, RingAgrees
  <2>2. ASSUME NEW k \in Jobs
        PROVE  /\ Contains(ring', k) => job'[k].hw = "ring" \/ job'[k].finished
               /\ Contains(ring', k) => job'[k].hw # "done"
               /\ Contains(ring', k) /\ ~job'[k].finished => Held(k)'
               /\ job'[k].hw = "ring" => Contains(ring', k)
               /\ job'[k].scheduled => \/ job'[k].finished
                                       \/ job'[k].hw \in {"ring", "done"}
                                       \/ tdr'.pc = "start" /\ Contains(pending', k)
    <3>1. CASE k = j
      BY <1>2, <1>3, <1>4, <1>8, <1>14, <3>1 DEF IInv, RingAgrees
    <3>2. CASE k # j
      <4>1. job'[k] = job[k]
        BY <1>8, <3>2
      <4> QED BY <1>2, <1>14, <4>1 DEF IInv, RingAgrees
    <3> QED BY <3>1, <3>2
  <2> QED BY <2>1, <2>2 DEF RingAgrees
<1>18. WorkerAgrees'
  BY <1>14 DEF WorkerAgrees
<1>19. FreedUnused'
  <2>1. ASSUME NEW k \in Jobs, job'[k].freed > 0
        PROVE  /\ k # j /\ job'[k] = job[k] /\ worker'.j # k
    BY <1>1, <1>8, <1>14, <2>1 DEF IInv, FreedUnused
  <2> QED BY <1>2, <1>11, <2>1 DEF IInv, FreedUnused, SameQueues
<1>20. j \in Charged
  BY <1>3, <1>4 DEF Charged, Detached
<1>21. Charged' = IF c THEN Charged ELSE Charged \ {j}
  <2>1. ASSUME NEW k \in Jobs
        PROVE  k \in Charged' <=> k \in Charged /\ (k = j => c)
    <3>1. CASE k = j
      BY <1>3, <1>4, <1>8, <1>13, <1>20, <3>1 DEF Charged, Detached
    <3>2. CASE k # j
      <4>1. job'[k] = job[k]
        BY <1>8, <3>2
      <4> QED BY <1>13, <3>2, <4>1 DEF Charged, Detached
    <3> QED BY <3>1, <3>2
  <2>2. Charged' \subseteq Jobs /\ Charged \subseteq Jobs
    BY DEF Charged
  <2> HIDE DEF c
  <2> QED BY <2>1, <2>2
<1>22. CreditsAgree'
  <2> HIDE DEF c
  <2>1. CASE c
    BY <1>9, <1>21, <2>1 DEF IInv, CreditsAgree
  <2>2. CASE ~c
    BY <1>9, <1>20, <1>21, <2>2, TakeCredit
  <2> QED BY <2>1, <2>2
<1> QED BY <1>12, <1>13, <1>15, <1>16, <1>17, <1>18, <1>19, <1>22 DEF IInv

(* drm_sched_free_job_work *)
LEMMA FreeJobWorkKeeps ==
    ASSUME IInv, FreeJobWork
    PROVE  IInv'
<1>1. /\ worker.pc = "idle" /\ wq # <<>> /\ worker.j = NoJob
      /\ UNCHANGED <<ent, worker, credit, pause, tdr, ring, foreign>>
  BY DEF FreeJobWork, IInv, WorkerAgrees, TimeoutAgrees
<1>2. SameQueues /\ SameSelected
  BY <1>1 DEF SameQueues, SameSelected
<1>3. Tail(wq) \in Seq({"run", "free"})
  BY <1>1, HeadTailProperties DEF IInv, TypeOK, WorkTypes
<1>4. ~(tdr.pc \in {"stop", "start"})
  BY <1>1 DEF IInv, TimeoutAgrees
<1>5. QueuesFollowPlan' /\ \A k : Waiting(k)' <=> Waiting(k)
  BY <1>2, WaitingSame DEF IInv
<1>6. CASE ~FinishedJob
  <2>1. UNCHANGED <<pending, job, timer>> /\ Call(Tail(wq), "run", TRUE)
    BY <1>6 DEF FreeJobWork, FinishedJob
  <2>2. wq' \in Seq({"run", "free"}) /\ (pause => wq' = Tail(wq))
    BY <1>3, <2>1, CallProps
  <2>3. TypeOK'
    BY <1>1, <2>1, <2>2 DEF IInv, TypeOK, EntTypes, JobTypes, WorkTypes
  <2>4. \A k \in Jobs : SameJob(k)
    BY <2>1 DEF SameJob
  <2> QED BY <1>1, <1>2, <2>1, <2>2, <2>3, <2>4, QuietStep
<1>7. CASE FinishedJob
  <2>1. PICK j : j = Head(pending)
    OBVIOUS
  <2>2. /\ pending # <<>> /\ pending' = Tail(pending) /\ job' = Freed(job, j)
        /\ timer' = StartTimeout(pending')
        /\ \/ Call(Run(Tail(wq), "free"), "run", TRUE)
           \/ Call(Tail(wq), "run", TRUE)
    BY <1>7, <2>1 DEF FreeJobWork, FinishedJob
  <2>3. /\ j \in Jobs /\ Contains(pending, j) /\ pending' \in Seq(Jobs)
        /\ Distinct(pending') /\ ~Contains(pending', j)
        /\ \A y : Contains(pending', y) <=> Contains(pending, y) /\ y # j
    BY <2>1, <2>2, TailList DEF IInv, TypeOK, WorkTypes, TimeoutAgrees
  <2>4. job[j].finished
    BY <1>7, <2>1 DEF FinishedJob
  <2>5. /\ JobAgrees(j) /\ ~Waiting(j) /\ ~job[j].killed /\ ~job[j].cb
        /\ job[j].scheduled
    BY <2>3, <2>4 DEF IInv, JobAgrees, Untouched
  <2>6. /\ JobTypes' /\ \A k \in Jobs \ {j} : job'[k] = job[k]
        /\ job'[j].scheduled = job[j].scheduled
        /\ job'[j].finished = job[j].finished
        /\ job'[j].cb = job[j].cb /\ job'[j].killed = job[j].killed
        /\ job'[j].parent = FALSE /\ job'[j].hw = "none"
        /\ job'[j].freed = job[j].freed + 1
    BY <2>2, <2>3, FreedProps DEF IInv, TypeOK, JobTypes
  <2>7. TypeOK'
    <3>1. timer' \in BOOLEAN
      BY <2>2, Zenon DEF StartTimeout
    <3>2. wq' \in Seq({"run", "free"})
      BY <1>3, <2>2, RunProps, CallProps
    <3> QED BY <1>1, <2>3, <2>6, <3>1, <3>2 DEF IInv, TypeOK, EntTypes,
        WorkTypes
  <2>8. ASSUME NEW k \in Jobs PROVE JobAgrees(k)'
    <3>1. JobAgrees(k)
      BY DEF IInv
    <3>2. CASE k = j
      BY <1>5, <2>4, <2>5, <2>6, <3>2 DEF JobAgrees
    <3>3. CASE k # j
      <4>1. Untouched(k)' <=> Untouched(k)
        BY <1>1, <2>3, <3>3 DEF Untouched
      <4>2. job'[k] = job[k]
        BY <2>6, <3>3
      <4> QED BY <1>1, <1>5, <3>1, <4>1, <4>2 DEF JobAgrees
    <3> QED BY <3>2, <3>3
  <2>9. RingAgrees'
    <3>1. Distinct(ring')
      BY <1>1 DEF IInv, RingAgrees
    <3>2. ASSUME NEW k \in Jobs
          PROVE  /\ Contains(ring', k) => job'[k].hw = "ring" \/ job'[k].finished
                 /\ Contains(ring', k) => job'[k].hw # "done"
                 /\ Contains(ring', k) /\ ~job'[k].finished => Held(k)'
                 /\ job'[k].hw = "ring" => Contains(ring', k)
                 /\ job'[k].scheduled =>
                       \/ job'[k].finished
                       \/ job'[k].hw \in {"ring", "done"}
                       \/ tdr'.pc = "start" /\ Contains(pending', k)
      <4>1. CASE k = j
        BY <2>4, <2>6, <4>1
      <4>2. CASE k # j
        <5>1. job'[k] = job[k] /\ (Held(k)' <=> Held(k))
          BY <1>1, <2>3, <2>6, <4>2 DEF Held
        <5> QED BY <1>1, <1>4, <5>1 DEF IInv, RingAgrees
      <4> QED BY <4>1, <4>2
    <3> QED BY <3>1, <3>2 DEF RingAgrees
  <2>10. WorkerAgrees'
    BY <1>1 DEF WorkerAgrees
  <2>11. TimeoutAgrees'
    <3>1. \A k \in Jobs : job'[k].finished = job[k].finished
      BY <2>6
    <3>2. tdr.pc = "softwait" => job'[tdr.bad].parent
      BY <2>3, <2>6 DEF IInv, TimeoutAgrees, Early
    <3> QED BY <1>1, <1>4, <2>3, <3>1, <3>2 DEF IInv, TimeoutAgrees, Early
  <2>12. FreedUnused'
    <3>1. job[j].freed = 0 /\ job'[j].freed = 1
      BY <2>3, <2>6 DEF IInv, FreedUnused, TypeOK, JobTypes, JobRecords
    <3>2. tdr.bad = j => tdr.pc = "return" /\ ~tdr.freeGuilty
      <4>1. tdr.bad = j => tdr.pc # "idle" /\ ~(tdr.pc \in Early)
                              /\ ~tdr.freeGuilty
        BY <2>3, SchedAssumption DEF IInv, TimeoutAgrees
      <4> QED BY <1>4, <4>1 DEF Early, IInv, TypeOK, WorkTypes
    <3>3. ASSUME NEW k \in Jobs, k # j PROVE job'[k] = job[k]
      BY <2>6, <3>3
    <3>4. \A e \in Entities : ~Contains(ent'[e].queue, j)
      BY <1>1, <2>5 DEF Waiting
    <3>5. worker'.j # j
      BY <1>1, <2>3, SchedAssumption
    <3> QED BY <1>1, <2>3, <2>4, <2>5, <2>6, <3>1, <3>2, <3>3, <3>4, <3>5,
            ZenonT(60) DEF IInv, FreedUnused
  <2>13. Charged' = Charged
    <3>1. ASSUME NEW k \in Jobs PROVE k \in Charged' <=> k \in Charged
      <4>1. CASE k = j
        BY <2>4, <2>6, <4>1 DEF Charged
      <4>2. CASE k # j
        <5>1. job'[k] = job[k]
          BY <2>6, <4>2
        <5> QED BY <1>5, <5>1 DEF Charged, Detached
      <4> QED BY <4>1, <4>2
    <3>2. Charged' \subseteq Jobs /\ Charged \subseteq Jobs
      BY DEF Charged
    <3> QED BY <3>1, <3>2
  <2>14. CreditsAgree'
    BY <1>1, <2>13 DEF IInv, CreditsAgree
  <2> QED BY <1>5, <2>7, <2>8, <2>9, <2>10, <2>11, <2>12, <2>14 DEF IInv
<1> QED BY <1>6, <1>7

(* The interrupt of the ring *)
LEMMA HwSignalKeeps ==
    ASSUME IInv, HwSignal
    PROVE  IInv'
<1>1. PICK j : j = Head(ring)
  OBVIOUS
<1>2. /\ ring # <<>> /\ ring' = Tail(ring)
      /\ UNCHANGED <<worker, pending, pause, timer, tdr, foreign>>
  BY DEF HwSignal
<1>3. /\ j \in Jobs /\ Contains(ring, j) /\ ring' \in Seq(Jobs)
      /\ Distinct(ring') /\ ~Contains(ring', j)
      /\ \A y : Contains(ring', y) <=> Contains(ring, y) /\ y # j
  BY <1>1, <1>2, TailList DEF IInv, TypeOK, WorkTypes, RingAgrees
<1>4. JobAgrees(j) /\ ~Waiting(j) /\ ~job[j].killed
  BY <1>3 DEF IInv, JobAgrees, Untouched
<1> DEFINE c == job[j].cb
           x == job[j].hwErr
           s == [job EXCEPT ![j].hw = "done"]
           jb == IF c THEN JobDone(s, j, x) ELSE s
<1>5. /\ job \in [Jobs -> JobRecords] /\ job[j] \in JobRecords
      /\ c \in BOOLEAN /\ x \in BOOLEAN
  BY <1>3 DEF IInv, TypeOK, JobTypes, JobRecords
<1>6. /\ job' = jb /\ ent' = CallbacksRun(ent, jb, foreign)
      /\ credit' = IF c THEN credit - 1 ELSE credit
      /\ \/ Call(Woken(wq, jb, foreign), "free", c)
         \/ wq' = Run(wq, "free")
  BY <1>1 DEF HwSignal
<1>7. /\ s \in [Jobs -> JobRecords] /\ \A k \in Jobs \ {j} : s[k] = job[k]
      /\ s[j].scheduled = job[j].scheduled /\ s[j].parent = job[j].parent
      /\ s[j].cb = c /\ s[j].hw = "done" /\ s[j].killed = job[j].killed
      /\ s[j].finished = job[j].finished /\ s[j].freed = job[j].freed
  <2> DEFINE b == [job[j] EXCEPT !.hw = "done"]
  <2>1. s = [job EXCEPT ![j] = b]
    BY <1>5
  <2>2. /\ b \in JobRecords /\ b.scheduled = job[j].scheduled
        /\ b.parent = job[j].parent /\ b.cb = c /\ b.hw = "done"
        /\ b.killed = job[j].killed /\ b.finished = job[j].finished
        /\ b.freed = job[j].freed
    BY <1>5 DEF JobRecords
  <2> HIDE DEF b, s
  <2> QED BY <1>3, <1>5, <2>1, <2>2
<1>8. /\ JobTypes' /\ \A k \in Jobs \ {j} : job'[k] = job[k]
      /\ job'[j].scheduled = job[j].scheduled
      /\ job'[j].parent = job[j].parent /\ ~job'[j].cb
      /\ job'[j].finished <=> job[j].finished \/ c
      /\ job'[j].hw = "done" /\ job'[j].killed = job[j].killed
      /\ job'[j].freed = job[j].freed
  <2> HIDE DEF c, x, s
  <2>1. CASE c
    <3>1. job' = JobDone(s, j, x) /\ s \in [Jobs -> JobRecords]
      BY <1>6, <1>7, <2>1
    <3>2. /\ job' \in [Jobs -> JobRecords] /\ \A k \in Jobs \ {j} : job'[k] = s[k]
          /\ job'[j].scheduled = s[j].scheduled /\ job'[j].finished = TRUE
          /\ job'[j].cb = FALSE /\ job'[j].killed = s[j].killed
          /\ job'[j].parent = s[j].parent /\ job'[j].hw = s[j].hw
          /\ job'[j].freed = s[j].freed
      <4>1. PICK t \in [Jobs -> JobRecords], y \in BOOLEAN : t = s /\ y = x
        BY <1>5, <3>1
      <4> DEFINE d == JobDone(t, j, y)
      <4>2. /\ d \in [Jobs -> JobRecords] /\ \A k \in Jobs \ {j} : d[k] = t[k]
            /\ d[j].scheduled = t[j].scheduled /\ d[j].finished = TRUE
            /\ d[j].cb = FALSE /\ d[j].killed = t[j].killed
            /\ d[j].parent = t[j].parent /\ d[j].hw = t[j].hw
            /\ d[j].freed = t[j].freed
        <5>1. j \in Jobs
          BY <1>3
        <5>2. d \in [Jobs -> JobRecords] /\ \A k \in Jobs \ {j} : d[k] = t[k]
          BY <5>1, JobDoneProps, ZenonT(60)
        <5>3. /\ d[j].scheduled = t[j].scheduled /\ d[j].finished = TRUE
              /\ d[j].cb = FALSE /\ d[j].killed = t[j].killed
          BY <5>1, JobDoneProps, ZenonT(60)
        <5>4. /\ d[j].parent = t[j].parent /\ d[j].hw = t[j].hw
              /\ d[j].freed = t[j].freed
          BY <5>1, JobDoneProps, ZenonT(60)
        <5> QED BY <5>2, <5>3, <5>4
      <4>3. job' = d
        BY <3>1, <4>1
      <4> HIDE DEF d
      <4> QED BY <4>1, <4>2, <4>3
    <3> QED BY <1>7, <2>1, <3>2 DEF JobTypes
  <2>2. CASE ~c
    <3>1. job' = s
      BY <1>6, <2>2
    <3> QED BY <1>7, <2>2, <3>1 DEF JobTypes
  <2> QED BY <2>1, <2>2
<1>9. wq' \in Seq({"run", "free"}) /\ (pause => wq' = wq)
  <2> HIDE DEF jb, c
  <2>1. /\ Woken(wq, jb, foreign) \in Seq({"run", "free"})
        /\ pause => Woken(wq, jb, foreign) = wq
        /\ wq \in Seq({"run", "free"})
    BY WokenProps DEF IInv, TypeOK, WorkTypes
  <2> QED BY <1>6, <2>1, RunProps, CallProps
<1>10. EntTypes' /\ SameQueues /\ SameSelected
  <2> HIDE DEF jb
  <2> QED BY <1>6, CallbacksProps DEF IInv, TypeOK
<1> HIDE DEF s, x, jb
<1>11. TypeOK'
  BY <1>2, <1>3, <1>8, <1>9, <1>10 DEF IInv, TypeOK, WorkTypes
<1>12. QueuesFollowPlan' /\ \A k : Waiting(k)' <=> Waiting(k)
  BY <1>10, WaitingSame DEF IInv
<1>13. \A k : Held(k)' <=> Held(k)
  BY <1>2 DEF Held
<1>14. \A k \in Jobs : /\ job'[k].scheduled = job[k].scheduled
                       /\ job'[k].parent = job[k].parent
                       /\ job'[k].killed = job[k].killed
                       /\ job'[k].freed = job[k].freed
                       /\ job[k].finished => job'[k].finished
                       /\ job'[k].cb => job[k].cb
  BY <1>8
<1>15. TimeoutAgrees' /\ SameTimeout
  <2>1. tdr.pc \in {"stop", "start"} => wq' = <<>> /\ worker'.pc = "idle"
    BY <1>2, <1>9, StoppedQueue
  <2>2. tdr.pc = "softwait" => job'[tdr.bad].parent
    BY <1>14 DEF IInv, TimeoutAgrees
  <2>3. \A k \in Jobs : Detached(k) => Detached(k)'
    BY <1>14 DEF Detached
  <2> QED BY <1>2, <1>14, <2>1, <2>2, <2>3, TimeoutKept
<1>16. ASSUME NEW k \in Jobs PROVE JobAgrees(k)'
  <2>1. JobAgrees(k)
    BY DEF IInv
  <2>2. CASE k = j
    BY <1>2, <1>4, <1>8, <1>12, <2>1, <2>2 DEF JobAgrees
  <2>3. CASE k # j
    <3>1. Untouched(k)' <=> Untouched(k)
      BY <1>2, <1>3, <2>3 DEF Untouched
    <3>2. job'[k] = job[k]
      BY <1>8, <2>3
    <3> QED BY <1>2, <1>12, <2>1, <3>1, <3>2 DEF JobAgrees
  <2> QED BY <2>2, <2>3
<1>17. RingAgrees'
  <2>1. ASSUME NEW k \in Jobs
        PROVE  /\ Contains(ring', k) => job'[k].hw = "ring" \/ job'[k].finished
               /\ Contains(ring', k) => job'[k].hw # "done"
               /\ Contains(ring', k) /\ ~job'[k].finished => Held(k)'
               /\ job'[k].hw = "ring" => Contains(ring', k)
               /\ job'[k].scheduled => \/ job'[k].finished
                                       \/ job'[k].hw \in {"ring", "done"}
                                       \/ tdr'.pc = "start" /\ Contains(pending', k)
    <3>1. CASE k = j
      BY <1>3, <1>8, <3>1
    <3>2. CASE k # j
      <4>1. job'[k] = job[k] /\ (Contains(ring', k) <=> Contains(ring, k))
        BY <1>3, <1>8, <3>2
      <4> QED BY <1>2, <1>13, <4>1 DEF IInv, RingAgrees
    <3> QED BY <3>1, <3>2
  <2> QED BY <1>3, <2>1 DEF RingAgrees
<1>18. WorkerAgrees'
  <2>1. worker.pc = "run" => worker.j # j
    BY <1>3 DEF IInv, WorkerAgrees
  <2>2. CASE worker.pc = "idle"
    BY <1>2, <2>2 DEF IInv, WorkerAgrees
  <2>3. CASE worker.pc = "pop"
    <3>1. /\ worker.j = NoJob /\ worker.e \in Entities /\ ~ent[worker.e].idle
          /\ ent[worker.e].dep = "none" /\ credit < CreditLimit
      BY <2>3 DEF IInv, WorkerAgrees
    <3>2. credit' < CreditLimit
      <4>1. credit \in Nat
        BY ChargedChanges
      <4>2. \A a, b \in Nat : a < b => a - 1 < b
        OBVIOUS
      <4> QED BY <1>6, <3>1, <4>1, <4>2, SchedAssumption
    <3>3. ~ent'[worker.e].idle /\ ent'[worker.e].dep = "none"
      BY <1>10, <2>3, <3>1 DEF SameSelected
    <3> QED BY <1>2, <2>3, <3>1, <3>2, <3>3 DEF WorkerAgrees
  <2>4. CASE worker.pc = "run"
    <3>1. /\ worker.j \in Jobs /\ Held(worker.j) /\ ~job[worker.j].scheduled
          /\ ~job[worker.j].parent /\ job[worker.j].hw = "none"
          /\ ~Contains(ring, worker.j)
          /\ worker.e \in Entities /\ ~ent[worker.e].idle
      BY <2>4 DEF IInv, WorkerAgrees
    <3>2. job'[worker.j] = job[worker.j] /\ ~Contains(ring', worker.j)
      BY <1>3, <1>8, <2>1, <2>4, <3>1
    <3>3. ~ent'[worker.e].idle /\ Held(worker.j)'
      BY <1>2, <1>10, <1>13, <2>4, <3>1 DEF SameSelected, Held
    <3> QED BY <1>2, <2>4, <3>1, <3>2, <3>3 DEF WorkerAgrees
  <2>5. CASE worker.pc = "callback"
    <3>1. /\ worker.j \in Jobs /\ Held(worker.j) /\ ~job[worker.j].scheduled
          /\ ~job[worker.j].parent
      BY <2>5 DEF IInv, WorkerAgrees
    <3>2. Held(worker.j)'
      BY <1>2, <3>1 DEF Held
    <3> QED BY <1>2, <1>14, <2>5, <3>1, <3>2 DEF WorkerAgrees
  <2> QED BY <2>2, <2>3, <2>4, <2>5 DEF IInv, TypeOK, WorkTypes
<1>19. FreedUnused'
  BY <1>2, <1>10, <1>14 DEF IInv, FreedUnused, SameQueues
<1>20. c => j \in Charged
  BY <1>3, <1>4 DEF JobAgrees, Charged, Detached
<1>21. Charged' = IF c THEN Charged \ {j} ELSE Charged
  <2>1. ASSUME NEW k \in Jobs
        PROVE  k \in Charged' <=> k \in Charged /\ (k = j => ~c)
    <3>1. CASE k = j
      BY <1>8, <1>12, <3>1 DEF Charged, Detached
    <3>2. CASE k # j
      <4>1. job'[k] = job[k]
        BY <1>8, <3>2
      <4> QED BY <1>12, <3>2, <4>1 DEF Charged, Detached
    <3> QED BY <3>1, <3>2
  <2>2. Charged' \subseteq Jobs /\ Charged \subseteq Jobs
    BY DEF Charged
  <2> HIDE DEF c
  <2> QED BY <2>1, <2>2
<1>22. CreditsAgree'
  <2> HIDE DEF c
  <2>1. CASE ~c
    BY <1>6, <1>21, <2>1 DEF IInv, CreditsAgree
  <2>2. CASE c
    BY <1>6, <1>20, <1>21, <2>2, TakeCredit
  <2> QED BY <2>1, <2>2
<1> QED BY <1>11, <1>12, <1>15, <1>16, <1>17, <1>18, <1>19, <1>22 DEF IInv

-----------------------------------------------------------------------------
(* The timeout.                                                            *)

(* A step of the timeout that changes no fence: it may take a job over, keep *)
(* it or put it back, but not one that waits or was freed, and it keeps the  *)
(* jobs that the ring or the worker has.                                     *)
LEMMA TimeoutMoves ==
    ASSUME IInv, TypeOK', TimeoutAgrees',
           UNCHANGED <<ent, worker, ring, credit>>,
           \A j \in Jobs : SameJob(j),
           \A j \in Jobs : Held(j) /\ (Contains(ring, j) \/ worker.j = j)
                              => Held(j)',
           \A j \in Jobs : Contains(pending', j) \/ tdr'.bad = j
                              => Contains(pending, j) \/ tdr.bad = j,
           \A j \in Jobs : job[j].freed > 0 =>
              /\ ~Contains(pending', j)
              /\ tdr'.bad = j => tdr'.pc = "return" /\ ~tdr'.freeGuilty,
           tdr.pc # "start"
    PROVE  IInv'
<1>1. SameQueues
  BY DEF SameQueues
<1>2. QueuesFollowPlan' /\ \A j : Waiting(j)' <=> Waiting(j)
  BY <1>1, WaitingSame DEF IInv
<1>3. ASSUME NEW j \in Jobs PROVE JobAgrees(j)'
  <2>1. JobAgrees(j) /\ SameJob(j)
    BY DEF IInv
  <2>2. Untouched(j) => Untouched(j)'
    BY DEF Untouched
  <2> QED BY <1>2, <2>1, <2>2 DEF JobAgrees, SameJob
<1>4. RingAgrees'
  BY DEF IInv, RingAgrees, SameJob
<1>5. WorkerAgrees'
  <2>1. worker.pc \in {"run", "callback"} => Held(worker.j)'
    BY DEF IInv, WorkerAgrees
  <2>2. worker.j \in Jobs => SameJob(worker.j)
    OBVIOUS
  <2> QED BY <2>1, <2>2 DEF IInv, WorkerAgrees, SameJob, Held
<1>6. FreedUnused'
  BY DEF IInv, FreedUnused, SameJob
<1>7. Charged' = Charged
  BY <1>2 DEF Charged, Detached, SameJob
<1>8. CreditsAgree'
  BY <1>7 DEF IInv, CreditsAgree
<1> QED BY <1>2, <1>3, <1>4, <1>5, <1>6, <1>8 DEF IInv

(* A job of the timeout, or of the list, has not been freed. *)
LEMMA NotFreed ==
    ASSUME IInv, NEW j \in Jobs, Contains(pending, j)
                    \/ (tdr.bad = j /\ (tdr.pc # "return" \/ tdr.freeGuilty))
    PROVE  job[j].freed = 0
BY DEF IInv, FreedUnused, TypeOK, JobTypes, JobRecords

(* drm_sched_job_timedout takes the first job. *)
LEMMA TimedoutKeeps ==
    ASSUME IInv, Timedout
    PROVE  IInv'
<1>1. /\ tdr.pc = "idle" /\ timer' = FALSE
      /\ UNCHANGED <<ent, job, wq, worker, credit, pause, ring, foreign>>
  BY DEF Timedout
<1>2. (\A k \in Jobs : SameJob(k)) /\ SameQueues /\ SameSelected
  BY <1>1 DEF SameJob, SameQueues, SameSelected
<1>3. CASE pending = <<>>
  <2>1. UNCHANGED <<tdr, pending>>
    BY <1>3 DEF Timedout
  <2>2. TypeOK'
    <3>1. timer' \in BOOLEAN
      BY <1>1, Zenon
    <3> QED BY <1>1, <2>1, <3>1 DEF IInv, TypeOK, EntTypes, JobTypes,
        WorkTypes
  <2> QED BY <1>1, <1>2, <2>1, <2>2, QuietStep
<1>4. CASE pending # <<>>
  <2>1. PICK j : j = Head(pending)
    OBVIOUS
  <2>2. /\ tdr' = [TdrIdle EXCEPT !.pc = "soft", !.bad = j]
        /\ pending' = Tail(pending)
    BY <1>4, <2>1 DEF Timedout
  <2>3. /\ j \in Jobs /\ Contains(pending, j) /\ pending' \in Seq(Jobs)
        /\ Distinct(pending') /\ ~Contains(pending', j)
        /\ \A y : Contains(pending', y) <=> Contains(pending, y) /\ y # j
    BY <1>4, <2>1, <2>2, TailList DEF IInv, TypeOK, WorkTypes, TimeoutAgrees
  <2>4. tdr'.pc = "soft" /\ tdr'.bad = j /\ ~tdr'.freeGuilty
    BY <2>2 DEF TdrIdle
  <2>5. TypeOK'
    <3>1. timer' \in BOOLEAN
      BY <1>1, Zenon
    <3>2. tdr' \in [pc : {"idle", "soft", "softwait", "ringreset", "recover",
                          "halt", "stop", "start", "return"},
                    bad : Jobs \cup {NoJob},
                    mode : {"none", "guilty", "innocent", "full"},
                    i : Nat, freeGuilty : BOOLEAN]
      BY <2>2, <2>3 DEF TdrIdle
    <3> QED BY <1>1, <2>3, <3>1, <3>2 DEF IInv, TypeOK, EntTypes, JobTypes,
        WorkTypes
  <2>6. TimeoutAgrees'
    BY <2>3, <2>4 DEF TimeoutAgrees, Early
  <2>7. \A k : Held(k)' <=> Held(k)
    BY <1>1, <2>3, <2>4 DEF Held, Early
  <2>8. \A k \in Jobs : job[k].freed > 0 => ~Contains(pending, k)
    BY DEF IInv, FreedUnused
  <2>9. \A k \in Jobs : Contains(pending', k) \/ tdr'.bad = k
           => Contains(pending, k) \/ tdr.bad = k
    BY <2>3, <2>4
  <2>10. \A k \in Jobs : job[k].freed > 0 =>
            /\ ~Contains(pending', k)
            /\ tdr'.bad = k => tdr'.pc = "return" /\ ~tdr'.freeGuilty
    BY <2>3, <2>4, <2>8
  <2> QED BY <1>1, <1>2, <2>5, <2>6, <2>7, <2>9, <2>10, TimeoutMoves
<1> QED BY <1>3, <1>4

(* A job of which only the errors are changed. *)
LEMMA ErrorsSet ==
    ASSUME IInv, NEW j \in Jobs, NEW x \in BOOLEAN,
           \/ job' = [job EXCEPT ![j].err = x]
           \/ job' = [job EXCEPT ![j].hwErr = x]
           \/ UNCHANGED job
    PROVE  JobTypes' /\ \A k \in Jobs : SameJob(k)
<1>1. job \in [Jobs -> JobRecords] /\ job[j] \in JobRecords
  BY DEF IInv, TypeOK, JobTypes
<1>2. CASE job' = [job EXCEPT ![j].err = x]
  <2> DEFINE b == [job[j] EXCEPT !.err = x]
  <2>1. job' = [job EXCEPT ![j] = b]
    BY <1>1, <1>2
  <2>2. /\ b \in JobRecords /\ b.scheduled = job[j].scheduled
        /\ b.finished = job[j].finished /\ b.parent = job[j].parent
        /\ b.cb = job[j].cb /\ b.hw = job[j].hw /\ b.killed = job[j].killed
        /\ b.freed = job[j].freed
    BY <1>1 DEF JobRecords
  <2> HIDE DEF b
  <2> QED BY <1>1, <2>1, <2>2 DEF JobTypes, SameJob
<1>3. CASE job' = [job EXCEPT ![j].hwErr = x]
  <2> DEFINE b == [job[j] EXCEPT !.hwErr = x]
  <2>1. job' = [job EXCEPT ![j] = b]
    BY <1>1, <1>3
  <2>2. /\ b \in JobRecords /\ b.scheduled = job[j].scheduled
        /\ b.finished = job[j].finished /\ b.parent = job[j].parent
        /\ b.cb = job[j].cb /\ b.hw = job[j].hw /\ b.killed = job[j].killed
        /\ b.freed = job[j].freed
    BY <1>1 DEF JobRecords
  <2> HIDE DEF b
  <2> QED BY <1>1, <2>1, <2>2 DEF JobTypes, SameJob
<1>4. CASE UNCHANGED job
  BY <1>1, <1>4 DEF JobTypes, SameJob
<1> QED BY <1>2, <1>3, <1>4

(* The timeout goes on with its job. *)
LEMMA TimeoutGoesOn ==
    ASSUME IInv, NEW p \in Early, tdr.pc \in Early,
           tdr' = [tdr EXCEPT !.pc = p],
           UNCHANGED <<ent, worker, pending, credit, ring, foreign, timer>>,
           pause' \in BOOLEAN, p \in {"ringreset", "halt"} => pause',
           p = "softwait" => job[tdr.bad].parent,
           wq' \in Seq({"run", "free"}),
           JobTypes', \A j \in Jobs : SameJob(j)
    PROVE  IInv'
<1>1. /\ tdr'.pc = p /\ tdr'.bad = tdr.bad /\ tdr'.freeGuilty = tdr.freeGuilty
      /\ tdr' \in [pc : {"idle", "soft", "softwait", "ringreset", "recover",
                         "halt", "stop", "start", "return"},
                   bad : Jobs \cup {NoJob},
                   mode : {"none", "guilty", "innocent", "full"},
                   i : Nat, freeGuilty : BOOLEAN]
  BY DEF IInv, TypeOK, WorkTypes, Early
<1>2. TypeOK'
  BY <1>1 DEF IInv, TypeOK, EntTypes, WorkTypes
<1>3. tdr.bad \in Jobs /\ tdr.pc # "start" /\ tdr.pc # "return"
  BY DEF IInv, TimeoutAgrees, Early
<1>4. TimeoutAgrees'
  BY <1>1, <1>3 DEF IInv, TimeoutAgrees, Early, SameJob
<1>5. \A k : Held(k)' <=> Held(k)
  BY <1>1 DEF Held
<1>6. \A k \in Jobs : job[k].freed > 0 =>
            /\ ~Contains(pending', k)
            /\ tdr'.bad = k => tdr'.pc = "return" /\ ~tdr'.freeGuilty
  BY <1>1, <1>3 DEF IInv, FreedUnused
<1> QED BY <1>1, <1>2, <1>3, <1>4, <1>5, <1>6, TimeoutMoves

(* The recoveries that follow *)
LEMMA HardRecoveryKeeps ==
    ASSUME IInv, HardRecovery, tdr.pc \in Early,
           UNCHANGED <<ent, wq, worker, pending, credit, timer, ring, foreign>>
    PROVE  IInv'
<1>1. tdr.bad \in Jobs
  BY DEF IInv, TimeoutAgrees, Early
<1>2. wq' \in Seq({"run", "free"}) /\ pause \in BOOLEAN
  BY DEF IInv, TypeOK, WorkTypes
<1>3. PICK b \in Jobs : b = tdr.bad
  BY <1>1
<1>4. CASE /\ pause' = TRUE /\ UNCHANGED job
           /\ tdr' = [tdr EXCEPT !.pc = "ringreset"]
  <2>1. JobTypes' /\ \A k \in Jobs : SameJob(k)
    BY <1>4 DEF IInv, TypeOK, JobTypes, SameJob
  <2>2. "ringreset" \in Early
    BY DEF Early
  <2>3. pause' \in BOOLEAN
    BY <1>4, Zenon
  <2> QED BY <1>2, <1>4, <2>1, <2>2, <2>3, TimeoutGoesOn
<1>5. CASE /\ job' = [job EXCEPT ![tdr.bad].err = TRUE]
           /\ tdr' = [tdr EXCEPT !.pc = "recover"] /\ UNCHANGED pause
  <2>1. JobTypes' /\ \A k \in Jobs : SameJob(k)
    BY <1>3, <1>5, ErrorsSet
  <2>2. "recover" \in Early
    BY DEF Early
  <2> QED BY <1>2, <1>5, <2>1, <2>2, TimeoutGoesOn
<1> QED BY <1>4, <1>5 DEF HardRecovery

(* amdgpu_ring_soft_recovery *)
LEMMA SoftRecoveryKeeps ==
    ASSUME IInv, SoftRecovery
    PROVE  IInv'
<1>1. /\ tdr.pc = "soft" /\ tdr.pc \in Early /\ tdr.bad \in Jobs
      /\ UNCHANGED <<ent, wq, worker, pending, credit, timer, ring, foreign>>
  BY DEF SoftRecovery, IInv, TimeoutAgrees, Early
<1>2. CASE HardRecovery
  BY <1>1, <1>2, HardRecoveryKeeps
<1>3. CASE /\ job[tdr.bad].parent
           /\ job' = [job EXCEPT ![tdr.bad].hwErr = @ \/ job[tdr.bad].hw = "ring"]
           /\ tdr' = [tdr EXCEPT !.pc = "softwait"]
           /\ UNCHANGED pause
  <2>1. PICK b \in Jobs : b = tdr.bad
    BY <1>1
  <2> DEFINE x == job[b].hwErr \/ job[b].hw = "ring"
  <2>2. x \in BOOLEAN
    BY Zenon
  <2>3. job' = [job EXCEPT ![b].hwErr = x]
    BY <1>3, <2>1 DEF IInv, TypeOK, JobTypes
  <2> HIDE DEF x
  <2>4. JobTypes' /\ \A k \in Jobs : SameJob(k)
    BY <2>2, <2>3, ErrorsSet
  <2>5. /\ "softwait" \in Early
        /\ wq' \in Seq({"run", "free"})
        /\ pause' \in BOOLEAN
    BY <1>1, <1>3 DEF Early, IInv, TypeOK, WorkTypes
  <2> QED BY <1>1, <1>3, <2>4, <2>5, TimeoutGoesOn
<1> QED BY <1>2, <1>3 DEF SoftRecovery

(* The end of its loop *)
LEMMA SoftRecoveryEndsKeeps ==
    ASSUME IInv, SoftRecoveryEnds
    PROVE  IInv'
<1>1. /\ tdr.pc = "softwait" /\ tdr.pc \in Early /\ tdr.bad \in Jobs
      /\ UNCHANGED <<ent, wq, worker, pending, credit, timer, ring, foreign>>
      /\ ~tdr.freeGuilty /\ job[tdr.bad].parent /\ ~Contains(pending, tdr.bad)
  BY DEF SoftRecoveryEnds, IInv, TimeoutAgrees, Early
<1>2. CASE job[tdr.bad].hw # "done"
  <2>1. HardRecovery
    BY <1>2 DEF SoftRecoveryEnds
  <2> QED BY <1>1, <2>1, HardRecoveryKeeps
<1>3. CASE job[tdr.bad].hw = "done"
  <2>1. tdr' = [tdr EXCEPT !.pc = "return"] /\ UNCHANGED <<job, pause>>
    BY <1>3 DEF SoftRecoveryEnds
  <2>2. /\ tdr'.pc = "return" /\ tdr'.bad = tdr.bad
        /\ tdr'.freeGuilty = tdr.freeGuilty
        /\ tdr' \in [pc : {"idle", "soft", "softwait", "ringreset", "recover",
                           "halt", "stop", "start", "return"},
                     bad : Jobs \cup {NoJob},
                     mode : {"none", "guilty", "innocent", "full"},
                     i : Nat, freeGuilty : BOOLEAN]
    BY <2>1 DEF IInv, TypeOK, WorkTypes
  <2>3. TypeOK'
    BY <1>1, <2>1, <2>2 DEF IInv, TypeOK, EntTypes, JobTypes, WorkTypes
  <2>4. TimeoutAgrees'
    BY <1>1, <2>1, <2>2 DEF IInv, TimeoutAgrees, Early
  <2>5. \A k \in Jobs : SameJob(k)
    BY <2>1 DEF SameJob
  <2>6. ~Contains(ring, tdr.bad) /\ worker.j # tdr.bad
    <3>1. ~Contains(ring, tdr.bad)
      BY <1>1, <1>3 DEF IInv, RingAgrees
    <3>2. worker.j \in Jobs => ~job[worker.j].parent
      BY SchedAssumption DEF IInv, WorkerAgrees, TypeOK, WorkTypes
    <3> QED BY <1>1, <3>1, <3>2
  <2>7. \A k \in Jobs : Held(k) /\ (Contains(ring, k) \/ worker.j = k) => Held(k)'
    BY <1>1, <2>6 DEF Held
  <2>8. \A k \in Jobs : job[k].freed > 0 =>
              /\ ~Contains(pending', k)
              /\ tdr'.bad = k => tdr'.pc = "return" /\ ~tdr'.freeGuilty
    BY <1>1, <2>2 DEF IInv, FreedUnused
  <2> QED BY <1>1, <2>2, <2>3, <2>4, <2>5, <2>7, <2>8, TimeoutMoves
<1> QED BY <1>2, <1>3

(* drm_sched_stop up to its loop *)
LEMMA StoppedKeeps ==
    ASSUME IInv, NEW mode \in {"guilty", "innocent", "full"}, Stopped(mode),
           tdr.pc \in {"ringreset", "halt"},
           UNCHANGED <<ent, worker, credit, pause, timer, ring, foreign>>,
           JobTypes', \A j \in Jobs : SameJob(j)
    PROVE  IInv'
<1>1. /\ tdr.bad \in Jobs /\ ~tdr.freeGuilty /\ pause /\ Distinct(pending)
      /\ ~Contains(pending, tdr.bad) /\ tdr.pc \in Early
      /\ pending \in Seq(Jobs)
  BY DEF IInv, TimeoutAgrees, Early, TypeOK, WorkTypes
<1>2. PICK b \in Jobs : b = tdr.bad
  BY <1>1
<1>3. /\ worker.pc = "idle" /\ wq' = <<>> /\ pending' = <<b>> \o pending
      /\ tdr' = [tdr EXCEPT !.pc = "stop", !.mode = mode, !.i = Len(pending')]
  BY <1>2 DEF Stopped
<1>4. /\ pending' \in Seq(Jobs) /\ Distinct(pending')
      /\ \A y : Contains(pending', y) <=> Contains(pending, y) \/ y = b
  BY <1>1, <1>2, <1>3, PushList
<1>5. Len(pending') \in Nat
  BY <1>4, LenProperties
<1>6. /\ tdr'.pc = "stop" /\ tdr'.bad = b /\ tdr'.freeGuilty = tdr.freeGuilty
      /\ tdr'.i = Len(pending')
      /\ tdr' \in [pc : {"idle", "soft", "softwait", "ringreset", "recover",
                         "halt", "stop", "start", "return"},
                   bad : Jobs \cup {NoJob},
                   mode : {"none", "guilty", "innocent", "full"},
                   i : Nat, freeGuilty : BOOLEAN]
  BY <1>2, <1>3, <1>5 DEF IInv, TypeOK, WorkTypes
<1>7. TypeOK'
  <2>1. wq' \in Seq({"run", "free"})
    BY <1>3, EmptySeq
  <2> QED BY <1>4, <1>6, <2>1 DEF IInv, TypeOK, EntTypes, WorkTypes
<1>8. TimeoutAgrees'
  <2>1. tdr'.i <= Len(pending') /\ tdr'.i + 1..Len(pending') = {}
    BY <1>5, <1>6
  <2> QED BY <1>1, <1>3, <1>4, <1>6, <2>1 DEF TimeoutAgrees, Early
<1>9. \A k \in Jobs : Held(k) => Held(k)'
  BY <1>2, <1>4 DEF Held
<1>10. \A k \in Jobs : Contains(pending', k) \/ tdr'.bad = k
           => Contains(pending, k) \/ tdr.bad = k
  BY <1>2, <1>4, <1>6
<1>11. \A k \in Jobs : job[k].freed > 0 =>
            /\ ~Contains(pending', k)
            /\ tdr'.bad = k => tdr'.pc = "return" /\ ~tdr'.freeGuilty
  <2>1. \A k \in Jobs : job[k].freed > 0 => ~Contains(pending, k) /\ k # b
    BY <1>2 DEF IInv, FreedUnused
  <2> QED BY <1>4, <1>6, <2>1
<1> QED BY <1>1, <1>7, <1>8, <1>9, <1>10, <1>11, TimeoutMoves

(* amdgpu_ring_reset *)
LEMMA RingResetKeeps ==
    ASSUME IInv, NEW guilty \in BOOLEAN, RingReset(guilty)
    PROVE  IInv'
<1>1. /\ tdr.pc = "ringreset" /\ tdr.pc \in Early /\ tdr.bad \in Jobs
      /\ UNCHANGED <<ent, worker, credit, pause, timer, ring, foreign>>
      /\ pause \in BOOLEAN
  BY DEF RingReset, IInv, TimeoutAgrees, Early, TypeOK, WorkTypes
<1>2. PICK b \in Jobs : b = tdr.bad
  BY <1>1
<1>3. CASE /\ Stopped(IF guilty THEN "guilty" ELSE "innocent")
           /\ job' = [job EXCEPT ![tdr.bad].err = @ \/ guilty]
  <2> DEFINE x == job[b].err \/ guilty
             m == IF guilty THEN "guilty" ELSE "innocent"
  <2>1. x \in BOOLEAN
    BY Zenon
  <2>2. job' = [job EXCEPT ![b].err = x]
    BY <1>2, <1>3 DEF IInv, TypeOK, JobTypes
  <2> HIDE DEF x
  <2>3. JobTypes' /\ \A k \in Jobs : SameJob(k)
    BY <2>1, <2>2, ErrorsSet
  <2>4. m \in {"guilty", "innocent", "full"} /\ Stopped(m)
    BY <1>3
  <2> HIDE DEF m
  <2> QED BY <1>1, <2>3, <2>4, StoppedKeeps
<1>4. CASE /\ wq' = <<>> /\ job' = [job EXCEPT ![tdr.bad].err = TRUE]
           /\ tdr' = [tdr EXCEPT !.pc = "recover"] /\ UNCHANGED pending
  <2>1. JobTypes' /\ \A k \in Jobs : SameJob(k)
    BY <1>2, <1>4, ErrorsSet
  <2>2. "recover" \in Early
    BY DEF Early
  <2>3. wq' \in Seq({"run", "free"})
    BY <1>4, EmptySeq
  <2> QED BY <1>1, <1>4, <2>1, <2>2, <2>3, TimeoutGoesOn
<1> QED BY <1>3, <1>4 DEF RingReset

(* amdgpu_device_halt_activities *)
LEMMA RecoverKeeps ==
    ASSUME IInv, Recover
    PROVE  IInv'
<1>1. JobTypes' /\ \A k \in Jobs : SameJob(k)
  BY DEF Recover, IInv, TypeOK, JobTypes, SameJob
<1>2. CASE /\ tdr.pc = "recover" /\ pause' = TRUE
           /\ tdr' = [tdr EXCEPT !.pc = "halt"]
           /\ UNCHANGED <<ent, job, wq, worker, pending, credit, timer, ring,
                          foreign>>
  <2>1. "halt" \in Early /\ tdr.pc \in Early
    BY <1>2 DEF Early
  <2>2. pause' \in BOOLEAN
    BY <1>2, Zenon
  <2>3. wq' \in Seq({"run", "free"})
    BY <1>2 DEF IInv, TypeOK, WorkTypes
  <2> QED BY <1>1, <1>2, <2>1, <2>2, <2>3, TimeoutGoesOn
<1>3. CASE /\ tdr.pc = "halt" /\ Stopped("full")
           /\ UNCHANGED <<ent, job, worker, credit, pause, timer, ring, foreign>>
  BY <1>1, <1>3, StoppedKeeps
<1> QED BY <1>2, <1>3 DEF Recover

(* One round of the loop of drm_sched_stop *)
LEMMA StopJobKeeps ==
    ASSUME IInv, StopJob
    PROVE  IInv'
<1>1. PICK j, n : n = tdr.i /\ j = pending[n]
  OBVIOUS
<1>2. /\ tdr.pc = "stop" /\ n > 0 /\ tdr.bad \in Jobs /\ pause
      /\ UNCHANGED <<ent, wq, worker, pause, timer, ring, foreign>>
      /\ wq = <<>> /\ worker.pc = "idle" /\ worker.j = NoJob
      /\ n <= Len(pending) /\ Distinct(pending)
      /\ \A k \in n + 1..Len(pending) : Detached(pending[k])
  BY <1>1 DEF StopJob, IInv, TimeoutAgrees, WorkerAgrees
<1>3. /\ pending \in Seq(Jobs) /\ Len(pending) \in Nat /\ n \in 1..Len(pending)
      /\ j \in Jobs /\ Contains(pending, j)
  <2>1. pending \in Seq(Jobs) /\ Len(pending) \in Nat /\ n \in Nat
    BY <1>1, LenProperties DEF IInv, TypeOK, WorkTypes
  <2>2. n \in 1..Len(pending)
    BY <1>2, <2>1
  <2> QED BY <1>1, <2>1, <2>2 DEF Contains
<1>4. /\ JobAgrees(j) /\ ~Waiting(j) /\ ~job[j].killed
      /\ job[j].scheduled /\ job[j].freed = 0
  <2>1. JobAgrees(j) /\ ~Waiting(j) /\ ~job[j].killed
    BY <1>3 DEF IInv, JobAgrees, Untouched
  <2>2. job[j].scheduled
    BY <1>2, <1>3, <2>1, SchedAssumption DEF JobAgrees
  <2> QED BY <1>3, <2>1, <2>2, NotFreed
<1>5. SameQueues /\ SameSelected
  BY <1>2 DEF SameQueues, SameSelected
<1>6. QueuesFollowPlan' /\ \A k : Waiting(k)' <=> Waiting(k)
  BY <1>5, WaitingSame DEF IInv
<1>7. job \in [Jobs -> JobRecords] /\ job[j] \in JobRecords
  BY <1>3 DEF IInv, TypeOK, JobTypes
<1>8. n - 1 \in Nat
  BY <1>3
<1>9. CASE /\ Detachable(j)
           /\ job' = [job EXCEPT ![j].cb = FALSE, ![j].parent = FALSE]
           /\ credit' = credit - 1
           /\ tdr' = [tdr EXCEPT !.i = @ - 1]
           /\ UNCHANGED pending
  <2>1. /\ JobTypes' /\ \A k \in Jobs \ {j} : job'[k] = job[k]
        /\ job'[j].scheduled = job[j].scheduled
        /\ job'[j].finished = job[j].finished
        /\ job'[j].parent = FALSE /\ job'[j].cb = FALSE
        /\ job'[j].hw = job[j].hw /\ job'[j].killed = job[j].killed
        /\ job'[j].freed = job[j].freed
    <3> DEFINE b == [job[j] EXCEPT !.cb = FALSE, !.parent = FALSE]
    <3>1. job' = [job EXCEPT ![j] = b]
      BY <1>7, <1>9
    <3>2. /\ b \in JobRecords /\ b.scheduled = job[j].scheduled
          /\ b.finished = job[j].finished /\ b.parent = FALSE
          /\ b.cb = FALSE /\ b.hw = job[j].hw /\ b.killed = job[j].killed
          /\ b.freed = job[j].freed
      BY <1>7 DEF JobRecords
    <3> HIDE DEF b
    <3> QED BY <1>3, <1>7, <3>1, <3>2 DEF JobTypes
  <2>2. /\ tdr'.pc = "stop" /\ tdr'.bad = tdr.bad
        /\ tdr'.freeGuilty = tdr.freeGuilty /\ tdr'.i = n - 1
        /\ tdr' \in [pc : {"idle", "soft", "softwait", "ringreset", "recover",
                           "halt", "stop", "start", "return"},
                     bad : Jobs \cup {NoJob},
                     mode : {"none", "guilty", "innocent", "full"},
                     i : Nat, freeGuilty : BOOLEAN]
    BY <1>1, <1>2, <1>8, <1>9 DEF IInv, TypeOK, WorkTypes
  <2>3. pending' = pending /\ credit' = credit - 1
    BY <1>9
  <2>4. TypeOK'
    BY <1>2, <2>3, <2>1, <2>2 DEF IInv, TypeOK, EntTypes, WorkTypes
  <2>5. \A k \in Jobs : /\ job'[k].scheduled = job[k].scheduled
                        /\ job'[k].finished = job[k].finished
                        /\ job'[k].hw = job[k].hw
                        /\ job'[k].killed = job[k].killed
                        /\ job'[k].freed = job[k].freed
                        /\ job'[k].parent => job[k].parent
                        /\ job'[k].cb => job[k].cb
    BY <2>1
  <2>6. \A k : Held(k)' <=> Held(k)
    BY <1>2, <2>3, <2>2 DEF Held
  <2>7. ASSUME NEW k \in Jobs PROVE JobAgrees(k)'
    <3>1. JobAgrees(k)
      BY DEF IInv
    <3>2. Untouched(k)' <=> Untouched(k)
      BY <1>2, <2>3, <2>2 DEF Untouched
    <3>3. job'[k].cb => k # j /\ job'[k] = job[k]
      BY <2>1
    <3> QED BY <1>2, <1>6, <2>5, <3>1, <3>2, <3>3 DEF JobAgrees
  <2>8. RingAgrees'
    BY <1>2, <2>3, <2>2, <2>5, <2>6 DEF IInv, RingAgrees
  <2>9. WorkerAgrees'
    BY <1>2 DEF WorkerAgrees
  <2>10. TimeoutAgrees'
    <3>1. ASSUME NEW k \in tdr'.i + 1..Len(pending')
          PROVE  Detached(pending[k])'
      <4>1. k \in 1..Len(pending) /\ (k = n \/ k \in n + 1..Len(pending))
        BY <1>3, <2>3, <2>2
      <4>2. Detached(pending[k]) \/ k = n
        BY <1>2, <4>1
      <4>3. pending[k] \in Jobs
        BY <1>3, <4>1
      <4>4. Detached(j)'
        BY <1>4, <2>1 DEF Detached
      <4>5. PICK m : m = pending[k]
        OBVIOUS
      <4>6. Detached(m)'
        BY <1>1, <2>5, <4>2, <4>3, <4>4, <4>5 DEF Detached
      <4> QED BY <2>3, <4>5, <4>6 DEF Detached
    <3>2. tdr'.i <= Len(pending')
      BY <1>3, <2>3, <2>2
    <3> QED BY <1>2, <2>3, <2>2, <2>5, <3>1, <3>2 DEF IInv, TimeoutAgrees,
        Early
  <2>11. FreedUnused'
    <3>1. \A k \in Jobs : job'[k].freed > 0 => tdr.bad # k
      BY <1>2, <2>5 DEF IInv, FreedUnused
    <3> QED BY <1>2, <2>3, <2>2, <2>5, <3>1 DEF IInv, FreedUnused
  <2>12. j \in Charged
    BY <1>3, <1>4, <1>9 DEF Charged, Detached, Detachable, JobAgrees
  <2>13. Charged' = Charged \ {j}
    <3>1. ASSUME NEW k \in Jobs PROVE k \in Charged' <=> k \in Charged /\ k # j
      <4>1. CASE k = j
        BY <1>4, <2>1, <4>1 DEF Charged, Detached
      <4>2. CASE k # j
        <5>1. job'[k] = job[k]
          BY <2>1, <4>2
        <5> QED BY <1>6, <4>2, <5>1 DEF Charged, Detached
      <4> QED BY <4>1, <4>2
    <3>2. Charged' \subseteq Jobs /\ Charged \subseteq Jobs
      BY DEF Charged
    <3> QED BY <3>1, <3>2
  <2>14. CreditsAgree'
    BY <2>3, <2>12, <2>13, TakeCredit
  <2> QED BY <1>6, <2>4, <2>7, <2>8, <2>9, <2>10, <2>11, <2>14 DEF IInv
<1>10. CASE /\ job[j].finished
            /\ pending' = RemoveAt(pending, n)
            /\ job' = IF j = tdr.bad THEN job ELSE Freed(job, j)
            /\ tdr' = [tdr EXCEPT !.i = @ - 1, !.freeGuilty = @ \/ j = tdr.bad]
            /\ UNCHANGED credit
  <2>1. ~job[j].cb
    BY <1>4, <1>10 DEF JobAgrees
  <2>2. /\ JobTypes' /\ \A k \in Jobs \ {j} : job'[k] = job[k]
        /\ job'[j].scheduled = job[j].scheduled
        /\ job'[j].finished = job[j].finished
        /\ job'[j].cb = job[j].cb /\ job'[j].killed = job[j].killed
        /\ job'[j].parent => job[j].parent
        /\ job'[j].hw \in {"none", job[j].hw}
        /\ job'[j].freed = IF j = tdr.bad THEN 0 ELSE 1
    <3>1. CASE j = tdr.bad
      <4>1. job' = job
        BY <1>10, <3>1
      <4> QED BY <1>4, <1>7, <3>1, <4>1 DEF JobTypes
    <3>2. CASE j # tdr.bad
      <4>1. job' = Freed(job, j)
        BY <1>10, <3>2
      <4>2. /\ job' \in [Jobs -> JobRecords]
            /\ \A k \in Jobs \ {j} : job'[k] = job[k]
            /\ job'[j].scheduled = job[j].scheduled
            /\ job'[j].finished = job[j].finished
            /\ job'[j].cb = job[j].cb /\ job'[j].killed = job[j].killed
            /\ job'[j].parent = FALSE /\ job'[j].hw = "none"
            /\ job'[j].freed = job[j].freed + 1
        BY <1>3, <1>7, <4>1, FreedProps
      <4> QED BY <1>4, <3>2, <4>2 DEF JobTypes
    <3> QED BY <3>1, <3>2
  <2>3. PICK g \in BOOLEAN : (g <=> tdr.freeGuilty \/ j = tdr.bad)
                             /\ tdr' = [tdr EXCEPT !.i = n - 1, !.freeGuilty = g]
    <3> DEFINE g == tdr.freeGuilty \/ j = tdr.bad
    <3>1. g \in BOOLEAN
      BY Zenon
    <3>2. tdr' = [tdr EXCEPT !.i = n - 1, !.freeGuilty = g]
      BY <1>1, <1>10 DEF IInv, TypeOK, WorkTypes
    <3>3. g <=> tdr.freeGuilty \/ j = tdr.bad
      OBVIOUS
    <3> HIDE DEF g
    <3> QED BY <3>1, <3>2, <3>3
  <2>4. /\ tdr'.pc = "stop" /\ tdr'.bad = tdr.bad
        /\ tdr'.freeGuilty = g /\ tdr'.i = n - 1
        /\ tdr' \in [pc : {"idle", "soft", "softwait", "ringreset", "recover",
                           "halt", "stop", "start", "return"},
                     bad : Jobs \cup {NoJob},
                     mode : {"none", "guilty", "innocent", "full"},
                     i : Nat, freeGuilty : BOOLEAN]
    BY <1>2, <1>8, <2>3 DEF IInv, TypeOK, WorkTypes
  <2>5. /\ pending' \in Seq(Jobs) /\ Len(pending') = Len(pending) - 1
        /\ \A k \in n..Len(pending) - 1 : pending'[k] = pending[k + 1]
        /\ \A y : Contains(pending', y) <=> Contains(pending, y) /\ y # j
        /\ Distinct(pending')
    BY <1>1, <1>2, <1>3, <1>10, DeleteList
  <2>6. TypeOK'
    BY <1>2, <2>2, <2>4, <2>5 DEF IInv, TypeOK, EntTypes, WorkTypes
  <2>7. ASSUME NEW k \in Jobs PROVE JobAgrees(k)'
    <3>1. JobAgrees(k)
      BY DEF IInv
    <3>2. CASE k = j
      BY <1>4, <1>6, <1>10, <2>1, <2>2, <3>2 DEF JobAgrees
    <3>3. CASE k # j
      <4>1. Untouched(k)' <=> Untouched(k)
        BY <1>2, <2>4, <2>5, <3>3 DEF Untouched
      <4>2. job'[k] = job[k]
        BY <2>2, <3>3
      <4> QED BY <1>2, <1>6, <3>1, <4>1, <4>2 DEF JobAgrees
    <3> QED BY <3>2, <3>3
  <2>8. RingAgrees'
    <3>1. Distinct(ring')
      BY <1>2 DEF IInv, RingAgrees
    <3>2. ASSUME NEW k \in Jobs
          PROVE  /\ Contains(ring', k) => job'[k].hw = "ring" \/ job'[k].finished
                 /\ Contains(ring', k) => job'[k].hw # "done"
                 /\ Contains(ring', k) /\ ~job'[k].finished => Held(k)'
                 /\ job'[k].hw = "ring" => Contains(ring', k)
                 /\ job'[k].scheduled =>
                       \/ job'[k].finished
                       \/ job'[k].hw \in {"ring", "done"}
                       \/ tdr'.pc = "start" /\ Contains(pending', k)
      <4>1. CASE k = j
        BY <1>2, <1>3, <1>10, <2>2, <4>1 DEF IInv, RingAgrees
      <4>2. CASE k # j
        <5>1. job'[k] = job[k] /\ (Held(k)' <=> Held(k))
          BY <1>2, <2>2, <2>4, <2>5, <4>2 DEF Held, Early
        <5> QED BY <1>2, <5>1 DEF IInv, RingAgrees
      <4> QED BY <4>1, <4>2
    <3> QED BY <3>1, <3>2 DEF RingAgrees
  <2>9. WorkerAgrees'
    BY <1>2 DEF WorkerAgrees
  <2>10. TimeoutAgrees'
    <3>1. ASSUME NEW k \in tdr'.i + 1..Len(pending')
          PROVE  Detached(pending[k])'
      <4>1. /\ k \in n..Len(pending) - 1 /\ k + 1 \in n + 1..Len(pending)
            /\ k + 1 \in 1..Len(pending)
        BY <1>3, <2>4, <2>5
      <4>2. Detached(pending[k + 1])
        BY <1>2, <4>1
      <4>3. PICK m : m = pending'[k]
        OBVIOUS
      <4>4. m = pending[k + 1] /\ m \in Jobs
        BY <1>3, <2>5, <4>1, <4>3
      <4>5. Detached(m)'
        BY <2>2, <4>2, <4>4 DEF Detached
      <4> QED BY <4>3, <4>5 DEF Detached
    <3>2. tdr'.i <= Len(pending')
      BY <1>3, <2>4, <2>5
    <3>3. tdr'.freeGuilty => ~Contains(pending', tdr'.bad) /\ job'[tdr'.bad].finished
      <4>1. CASE tdr.freeGuilty
        <5>1. ~Contains(pending, tdr.bad) /\ job[tdr.bad].finished
          BY <4>1 DEF IInv, TimeoutAgrees
        <5>2. job'[tdr.bad].finished
          BY <1>2, <2>2, <5>1
        <5> QED BY <2>4, <2>5, <5>1, <5>2
      <4>2. CASE j = tdr.bad
        BY <1>10, <2>2, <2>4, <2>5, <4>2
      <4> QED BY <2>3, <2>4, <4>1, <4>2
    <3> QED BY <1>2, <2>4, <2>5, <3>1, <3>2, <3>3 DEF TimeoutAgrees, Early
  <2>11. FreedUnused'
    <3>1. ASSUME NEW k \in Jobs, k # j, job'[k].freed > 0
          PROVE  /\ job'[k] = job[k] /\ tdr.bad # k
      BY <1>2, <2>2, <3>1 DEF IInv, FreedUnused
    <3>2. \A e \in Entities : ~Contains(ent[e].queue, j)
      BY <1>4 DEF Waiting
    <3>3. worker.j # j
      BY <1>2, <1>3, SchedAssumption
    <3>4. job'[j].freed > 0 => tdr.bad # j /\ job'[j].freed = 1
      BY <2>2
    <3>5. job'[j].finished /\ ~job'[j].cb /\ ~Contains(pending', j)
      BY <1>10, <2>1, <2>2, <2>5
    <3> QED BY <1>2, <2>4, <2>5, <3>1, <3>2, <3>3, <3>4, <3>5 DEF IInv,
        FreedUnused
  <2>12. Charged' = Charged
    <3>1. ASSUME NEW k \in Jobs PROVE k \in Charged' <=> k \in Charged
      <4>1. CASE k = j
        BY <1>10, <2>2, <4>1 DEF Charged
      <4>2. CASE k # j
        <5>1. job'[k] = job[k]
          BY <2>2, <4>2
        <5> QED BY <1>6, <5>1 DEF Charged, Detached
      <4> QED BY <4>1, <4>2
    <3>2. Charged' \subseteq Jobs /\ Charged \subseteq Jobs
      BY DEF Charged
    <3> QED BY <3>1, <3>2
  <2>13. CreditsAgree'
    BY <1>10, <2>12 DEF IInv, CreditsAgree
  <2> QED BY <1>6, <2>6, <2>7, <2>8, <2>9, <2>10, <2>11, <2>13 DEF IInv
<1> QED BY <1>1, <1>9, <1>10 DEF StopJob

(* The reset of the hardware *)
LEMMA HwResetKeeps ==
    ASSUME IInv, HwReset
    PROVE  IInv'
<1>1. /\ tdr.pc = "stop" /\ tdr.i = 0 /\ tdr.bad \in Jobs /\ pause
      /\ tdr' = [tdr EXCEPT !.pc = "start"] /\ timer' = FALSE
      /\ UNCHANGED <<ent, wq, worker, pending, credit, pause, foreign>>
      /\ wq = <<>> /\ worker.pc = "idle" /\ worker.j = NoJob
      /\ Distinct(pending)
  BY DEF HwReset, IInv, TimeoutAgrees, WorkerAgrees
<1>2. \A k \in 1..Len(pending) : Detached(pending[k])
  BY <1>1, LenProperties DEF IInv, TimeoutAgrees, TypeOK, WorkTypes
<1>3. \A k \in Jobs : Contains(pending, k) => Detached(k)
  BY <1>2 DEF Contains
<1>4. job \in [Jobs -> JobRecords]
  BY DEF IInv, TypeOK, JobTypes
<1>5. PICK h \in {"done", "lost"} :
         \/ UNCHANGED <<job, ring>>
         \/ /\ job' = [j \in Jobs |-> IF Contains(ring, j)
                                      THEN [job[j] EXCEPT !.hw = h] ELSE job[j]]
            /\ ring' = <<>>
  BY DEF HwReset
<1>6. /\ tdr'.pc = "start" /\ tdr'.bad = tdr.bad
      /\ tdr'.freeGuilty = tdr.freeGuilty
      /\ tdr' \in [pc : {"idle", "soft", "softwait", "ringreset", "recover",
                         "halt", "stop", "start", "return"},
                   bad : Jobs \cup {NoJob},
                   mode : {"none", "guilty", "innocent", "full"},
                   i : Nat, freeGuilty : BOOLEAN]
  BY <1>1 DEF IInv, TypeOK, WorkTypes
<1>7. /\ JobTypes' /\ ring' \in Seq(Jobs) /\ Distinct(ring')
      /\ \A k \in Jobs : /\ job'[k].scheduled = job[k].scheduled
                         /\ job'[k].finished = job[k].finished
                         /\ job'[k].parent = job[k].parent
                         /\ job'[k].cb = job[k].cb
                         /\ job'[k].killed = job[k].killed
                         /\ job'[k].freed = job[k].freed
                         /\ \/ job'[k].hw = job[k].hw
                            \/ Contains(ring, k) /\ job'[k].hw = h
                         /\ Contains(ring', k) =>
                               Contains(ring, k) /\ job'[k].hw = job[k].hw
                         /\ Contains(ring, k) =>
                               Contains(ring', k) \/ job'[k].hw = h
  <2>1. CASE UNCHANGED <<job, ring>>
    BY <2>1 DEF IInv, TypeOK, JobTypes, WorkTypes, RingAgrees
  <2>2. CASE /\ job' = [j \in Jobs |-> IF Contains(ring, j)
                                       THEN [job[j] EXCEPT !.hw = h] ELSE job[j]]
             /\ ring' = <<>>
    <3>1. ring' \in Seq(Jobs) /\ Distinct(ring') /\ \A y : ~Contains(ring', y)
      BY <2>2, EmptySeq DEF Distinct, Contains
    <3>2. ASSUME NEW k \in Jobs
          PROVE  /\ job'[k] \in JobRecords
                 /\ job'[k].scheduled = job[k].scheduled
                 /\ job'[k].finished = job[k].finished
                 /\ job'[k].parent = job[k].parent
                 /\ job'[k].cb = job[k].cb
                 /\ job'[k].killed = job[k].killed
                 /\ job'[k].freed = job[k].freed
                 /\ job'[k].hw = IF Contains(ring, k) THEN h ELSE job[k].hw
      <4>1. job[k] \in JobRecords
        BY <1>4
      <4>2. job'[k] = IF Contains(ring, k)
                      THEN [job[k] EXCEPT !.hw = h] ELSE job[k]
        BY <2>2
      <4> QED BY <4>1, <4>2 DEF JobRecords
    <3>3. JobTypes'
      <4>1. job' = [k \in Jobs |-> job'[k]]
        BY <2>2
      <4> QED BY <3>2, <4>1 DEF JobTypes
    <3> QED BY <3>1, <3>2, <3>3
  <2> QED BY <1>5, <2>1, <2>2
<1>8. TypeOK'
  <2>1. timer' \in BOOLEAN
    BY <1>1, Zenon
  <2> QED BY <1>1, <1>6, <1>7, <2>1 DEF IInv, TypeOK, EntTypes, WorkTypes
<1>9. SameQueues
  BY <1>1 DEF SameQueues
<1>10. QueuesFollowPlan' /\ \A k : Waiting(k)' <=> Waiting(k)
  BY <1>9, WaitingSame DEF IInv
<1>11. \A k : /\ Held(k) <=> Contains(pending, k)
              /\ Held(k)' <=> Contains(pending, k)
  BY <1>1, <1>6 DEF Held, Early
<1>12. ASSUME NEW k \in Jobs PROVE ~job[k].cb
  <2>1. job[k].cb => job[k].parent /\ ~job[k].finished /\ job[k].hw = "ring"
    BY DEF IInv, JobAgrees
  <2>2. job[k].cb => Contains(pending, k)
    BY <1>11, <2>1 DEF IInv, RingAgrees
  <2> QED BY <1>3, <2>1, <2>2 DEF Detached
<1>13. ASSUME NEW k \in Jobs PROVE JobAgrees(k)'
  <2>1. JobAgrees(k) /\ ~job'[k].cb
    BY <1>7, <1>12 DEF IInv
  <2>2. Untouched(k) => Untouched(k)' /\ job'[k].hw = job[k].hw
    BY <1>1, <1>6, <1>7 DEF Untouched
  <2> QED BY <1>1, <1>7, <1>10, <2>1, <2>2 DEF JobAgrees
<1>14. RingAgrees'
  <2>1. ASSUME NEW k \in Jobs
        PROVE  /\ Contains(ring', k) => job'[k].hw = "ring" \/ job'[k].finished
               /\ Contains(ring', k) => job'[k].hw # "done"
               /\ Contains(ring', k) /\ ~job'[k].finished => Held(k)'
               /\ job'[k].hw = "ring" => Contains(ring', k)
               /\ job'[k].scheduled => \/ job'[k].finished
                                       \/ job'[k].hw \in {"ring", "done"}
                                       \/ tdr'.pc = "start" /\ Contains(pending', k)
    <3>1. /\ Contains(ring, k) => job[k].hw = "ring" \/ job[k].finished
          /\ Contains(ring, k) => job[k].hw # "done"
          /\ Contains(ring, k) /\ ~job[k].finished => Contains(pending, k)
          /\ job[k].hw = "ring" => Contains(ring, k)
          /\ job[k].scheduled => job[k].finished \/ job[k].hw \in {"ring", "done"}
      BY <1>1, <1>11 DEF IInv, RingAgrees
    <3> QED BY <1>1, <1>6, <1>7, <1>11, <3>1
  <2> QED BY <1>7, <2>1 DEF RingAgrees
<1>15. WorkerAgrees'
  BY <1>1 DEF WorkerAgrees
<1>16. TimeoutAgrees'
  <2>1. ASSUME NEW k \in 1..Len(pending') PROVE Detached(pending[k])'
    <3>1. PICK m : m = pending[k]
      OBVIOUS
    <3>2. m \in Jobs /\ Detached(m)
      BY <1>1, <1>2, <2>1, <3>1 DEF IInv, TypeOK, WorkTypes
    <3>3. Detached(m)'
      BY <1>7, <3>2 DEF Detached
    <3> QED BY <1>1, <3>1, <3>3 DEF Detached
  <2>2. tdr.freeGuilty => ~Contains(pending, tdr.bad) /\ job[tdr.bad].finished
    BY DEF IInv, TimeoutAgrees
  <2> QED BY <1>1, <1>6, <1>7, <2>1, <2>2 DEF TimeoutAgrees, Early
<1>17. FreedUnused'
  BY <1>1, <1>6, <1>7 DEF IInv, FreedUnused
<1>18. Charged' = Charged
  BY <1>7, <1>10 DEF Charged, Detached
<1>19. CreditsAgree'
  BY <1>1, <1>18 DEF IInv, CreditsAgree
<1> QED BY <1>8, <1>10, <1>13, <1>14, <1>15, <1>16, <1>17, <1>19 DEF IInv

(* drm_sched_start *)
LEMMA SchedStartKeeps ==
    ASSUME IInv, SchedStart
    PROVE  IInv'
<1> DEFINE x(j) == ~job[j].parent \/ job[j].hwErr
           jb == [j \in Jobs |->
                    IF HasFence(j) THEN [job[j] EXCEPT !.cb = TRUE]
                    ELSE IF Contains(pending, j) THEN JobDone(job, j, x(j))[j]
                    ELSE job[j]]
<1>1. /\ tdr.pc = "start" /\ tdr.bad \in Jobs /\ pause
      /\ worker.pc = "idle" /\ worker.j = NoJob /\ Distinct(pending)
      /\ \A k \in 1..Len(pending) : Detached(pending[k])
  BY DEF SchedStart, IInv, TimeoutAgrees, WorkerAgrees
<1>2. /\ job' = jb /\ ent' = CallbacksRun(ent, jb, foreign)
      /\ timer' = StartTimeout(pending) /\ pause' = FALSE
      /\ wq' = QueueWork(QueueWork(wq, "run"), "free")
      /\ tdr' = [tdr EXCEPT !.pc = "return"]
      /\ UNCHANGED <<worker, pending, ring, foreign>>
  BY DEF SchedStart
<1>3. \A k \in Jobs : (Contains(pending, k) => Detached(k)) /\ ~HasFence(k)
  BY <1>1 DEF Contains, HasFence, Detached
<1> credit' = credit
  <2>1. {k \in Jobs : HasFence(k)} = {}
    BY <1>3
  <2>2. credit \in Nat
    BY ChargedChanges
  <2>3. PICK S : S = {k \in Jobs : HasFence(k)} /\ credit' = credit + Cardinality(S)
    BY DEF SchedStart
  <2>4. Cardinality(S) = 0
    BY <2>1, <2>3, FS_EmptySet
  <2> QED BY <2>2, <2>3, <2>4
<1>4. EntTypes' /\ SameQueues
  <2> HIDE DEF jb
  <2> QED BY <1>2, CallbacksProps DEF IInv, TypeOK
<1>5. ASSUME NEW k \in Jobs
      PROVE  /\ job'[k] \in JobRecords
             /\ job'[k].scheduled = job[k].scheduled
             /\ job'[k].parent = job[k].parent /\ job'[k].hw = job[k].hw
             /\ job'[k].killed = job[k].killed /\ job'[k].freed = job[k].freed
             /\ IF Contains(pending, k) THEN job'[k].finished /\ ~job'[k].cb
                ELSE job'[k] = job[k]
  <2>1. job \in [Jobs -> JobRecords] /\ job[k] \in JobRecords
    BY DEF IInv, TypeOK, JobTypes
  <2>2. CASE ~Contains(pending, k)
    BY <1>2, <1>3, <2>1, <2>2
  <2>3. CASE Contains(pending, k)
    <3>0. PICK y \in BOOLEAN : y = x(k)
      BY Zenon
    <3> DEFINE d == JobDone(job, k, y)
    <3>1. job'[k] = d[k]
      BY <1>2, <1>3, <2>3, <3>0
    <3>2. d \in [Jobs -> JobRecords] /\ d[k].scheduled = job[k].scheduled
      BY <2>1, JobDoneProps, ZenonT(60)
    <3>3. /\ d[k].finished = TRUE
          /\ d[k].cb = FALSE
          /\ d[k].killed = job[k].killed
      BY <2>1, JobDoneProps, ZenonT(60)
    <3>4. /\ d[k].parent = job[k].parent /\ d[k].hw = job[k].hw
          /\ d[k].freed = job[k].freed
      BY <2>1, JobDoneProps, ZenonT(60)
    <3> HIDE DEF d
    <3>5. d[k] \in JobRecords
      BY <3>2
    <3> QED BY <2>3, <3>1, <3>2, <3>3, <3>4, <3>5
  <2> QED BY <2>2, <2>3
<1>6. JobTypes'
  <2>1. job' = [k \in Jobs |-> job'[k]]
    BY <1>2
  <2> QED BY <1>5, <2>1 DEF JobTypes
<1> HIDE DEF jb, x
<1>7. /\ tdr'.pc = "return" /\ tdr'.bad = tdr.bad
      /\ tdr'.freeGuilty = tdr.freeGuilty
      /\ tdr' \in [pc : {"idle", "soft", "softwait", "ringreset", "recover",
                         "halt", "stop", "start", "return"},
                   bad : Jobs \cup {NoJob},
                   mode : {"none", "guilty", "innocent", "full"},
                   i : Nat, freeGuilty : BOOLEAN]
  BY <1>2 DEF IInv, TypeOK, WorkTypes
<1>8. TypeOK'
  <2>1. timer' \in BOOLEAN /\ pause' \in BOOLEAN
    BY <1>2, Zenon DEF StartTimeout
  <2>2. wq' \in Seq({"run", "free"})
    BY <1>2, RunProps DEF IInv, TypeOK, WorkTypes
  <2> QED BY <1>2, <1>4, <1>6, <1>7, <2>1, <2>2 DEF IInv, TypeOK, WorkTypes
<1>9. QueuesFollowPlan' /\ \A k : Waiting(k)' <=> Waiting(k)
  BY <1>4, WaitingSame DEF IInv
<1>10. \A k : /\ Held(k) <=> Contains(pending, k)
              /\ Held(k)' <=> Contains(pending, k)
  BY <1>1, <1>2, <1>7 DEF Held, Early
<1>11. ASSUME NEW k \in Jobs PROVE JobAgrees(k)'
  <2>1. JobAgrees(k)
    BY DEF IInv
  <2>2. Untouched(k)' <=> Untouched(k)
    BY <1>2, <1>7 DEF Untouched
  <2>3. CASE Contains(pending, k)
    <3>1. ~Untouched(k) /\ job[k].scheduled
      BY <1>3, <2>3 DEF Untouched, Detached
    <3> QED BY <1>2, <1>5, <1>9, <2>1, <2>2, <2>3, <3>1 DEF JobAgrees
  <2>4. CASE ~Contains(pending, k)
    BY <1>2, <1>5, <1>9, <2>1, <2>2, <2>4 DEF JobAgrees
  <2> QED BY <2>3, <2>4
<1>12. RingAgrees'
  <2>1. Distinct(ring')
    BY <1>2 DEF IInv, RingAgrees
  <2>2. ASSUME NEW k \in Jobs
        PROVE  /\ Contains(ring', k) => job'[k].hw = "ring" \/ job'[k].finished
               /\ Contains(ring', k) => job'[k].hw # "done"
               /\ Contains(ring', k) /\ ~job'[k].finished => Held(k)'
               /\ job'[k].hw = "ring" => Contains(ring', k)
               /\ job'[k].scheduled => \/ job'[k].finished
                                       \/ job'[k].hw \in {"ring", "done"}
                                       \/ tdr'.pc = "start" /\ Contains(pending', k)
    <3>1. /\ Contains(ring, k) => job[k].hw = "ring" \/ job[k].finished
          /\ Contains(ring, k) => job[k].hw # "done"
          /\ Contains(ring, k) /\ ~job[k].finished => Contains(pending, k)
          /\ job[k].hw = "ring" => Contains(ring, k)
          /\ job[k].scheduled => \/ job[k].finished \/ job[k].hw \in {"ring", "done"}
                                 \/ Contains(pending, k)
      BY <1>10 DEF IInv, RingAgrees
    <3> QED BY <1>2, <1>5, <3>1
  <2> QED BY <2>1, <2>2 DEF RingAgrees
<1>13. WorkerAgrees'
  BY <1>1, <1>2 DEF WorkerAgrees
<1>14. TimeoutAgrees'
  <2>1. tdr.freeGuilty => ~Contains(pending, tdr.bad) /\ job[tdr.bad].finished
    BY DEF IInv, TimeoutAgrees
  <2> QED BY <1>1, <1>2, <1>5, <1>7, <2>1 DEF TimeoutAgrees, Early
<1>15. FreedUnused'
  <2>1. \A k \in Jobs : job'[k].freed > 0 =>
           job'[k] = job[k] /\ ~Contains(pending, k) /\ tdr.bad # k
    BY <1>1, <1>5 DEF IInv, FreedUnused
  <2> QED BY <1>2, <1>4, <1>7, <2>1 DEF IInv, FreedUnused, SameQueues
<1>16. Charged' = Charged
  <2>1. ASSUME NEW k \in Jobs PROVE k \in Charged' <=> k \in Charged
    <3>1. CASE Contains(pending, k)
      BY <1>3, <1>5, <3>1 DEF Charged, Detached
    <3>2. CASE ~Contains(pending, k)
      BY <1>5, <1>9, <3>2 DEF Charged, Detached
    <3> QED BY <3>1, <3>2
  <2>2. Charged' \subseteq Jobs /\ Charged \subseteq Jobs
    BY DEF Charged
  <2> QED BY <2>1, <2>2
<1>17. CreditsAgree'
  BY <1>2, <1>16 DEF IInv, CreditsAgree
<1> QED BY <1>8, <1>9, <1>11, <1>12, <1>13, <1>14, <1>15, <1>17 DEF IInv

(* The end of drm_sched_job_timedout *)
LEMMA TimedoutReturnsKeeps ==
    ASSUME IInv, TimedoutReturns
    PROVE  IInv'
<1>1. /\ tdr.pc = "return" /\ tdr' = TdrIdle /\ tdr.bad \in Jobs
      /\ UNCHANGED <<ent, wq, worker, pending, credit, pause, ring, foreign>>
  BY DEF TimedoutReturns, IInv, TimeoutAgrees
<1>2. /\ tdr'.pc = "idle" /\ tdr'.bad = NoJob /\ ~tdr'.freeGuilty
      /\ NoJob \notin Jobs
      /\ tdr' \in [pc : {"idle", "soft", "softwait", "ringreset", "recover",
                         "halt", "stop", "start", "return"},
                   bad : Jobs \cup {NoJob},
                   mode : {"none", "guilty", "innocent", "full"},
                   i : Nat, freeGuilty : BOOLEAN]
  BY <1>1, SchedAssumption DEF TdrIdle
<1>3. timer' \in BOOLEAN
  BY Zenon DEF TimedoutReturns
<1>4. TimeoutAgrees'
  BY <1>1, <1>2 DEF IInv, TimeoutAgrees, Early
<1>5. \A k : Held(k)' <=> Held(k)
  BY <1>1, <1>2 DEF Held, Early
<1>6. CASE ~tdr.freeGuilty
  <2>1. job' = job
    BY <1>6 DEF TimedoutReturns
  <2>2. TypeOK'
    BY <1>1, <1>2, <1>3, <2>1 DEF IInv, TypeOK, EntTypes, JobTypes, WorkTypes
  <2>3. \A k \in Jobs : SameJob(k)
    BY <2>1 DEF SameJob
  <2>4. \A k \in Jobs : job[k].freed > 0 =>
              /\ ~Contains(pending', k)
              /\ tdr'.bad = k => tdr'.pc = "return" /\ ~tdr'.freeGuilty
    BY <1>1, <1>2 DEF IInv, FreedUnused
  <2> QED BY <1>1, <1>2, <1>4, <1>5, <2>2, <2>3, <2>4, TimeoutMoves
<1>7. CASE tdr.freeGuilty
  <2>1. PICK j \in Jobs : j = tdr.bad
    BY <1>1
  <2>2. job' = Freed(job, j)
    BY <1>7, <2>1 DEF TimedoutReturns
  <2>3. ~Contains(pending, j) /\ job[j].finished
    BY <1>7, <2>1 DEF IInv, TimeoutAgrees
  <2>4. /\ JobAgrees(j) /\ ~Waiting(j) /\ ~job[j].killed
        /\ job[j].scheduled /\ ~job[j].cb
    BY <2>1, <2>3 DEF IInv, JobAgrees, Untouched
  <2>5. job[j].freed = 0
    BY <1>7, <2>1, NotFreed
  <2>6. worker.j # j
    BY <2>4, SchedAssumption DEF IInv, WorkerAgrees, TypeOK, WorkTypes
  <2>7. /\ JobTypes' /\ \A k \in Jobs \ {j} : job'[k] = job[k]
        /\ job'[j].scheduled = job[j].scheduled
        /\ job'[j].finished = job[j].finished
        /\ job'[j].cb = job[j].cb /\ job'[j].killed = job[j].killed
        /\ job'[j].parent = FALSE /\ job'[j].hw = "none"
        /\ job'[j].freed = job[j].freed + 1
    BY <2>2, FreedProps DEF IInv, TypeOK, JobTypes
  <2>8. TypeOK'
    BY <1>1, <1>2, <1>3, <2>7 DEF IInv, TypeOK, EntTypes, WorkTypes
  <2>9. SameQueues
    BY <1>1 DEF SameQueues
  <2>10. QueuesFollowPlan' /\ \A k : Waiting(k)' <=> Waiting(k)
    BY <2>9, WaitingSame DEF IInv
  <2>11. ASSUME NEW k \in Jobs PROVE JobAgrees(k)'
    <3>1. JobAgrees(k)
      BY DEF IInv
    <3>2. CASE k = j
      BY <2>3, <2>4, <2>7, <2>10, <3>2 DEF JobAgrees
    <3>3. CASE k # j
      <4>1. Untouched(k) => Untouched(k)'
        BY <1>1, <1>2 DEF Untouched
      <4>2. job'[k] = job[k]
        BY <2>7, <3>3
      <4> QED BY <1>1, <2>10, <3>1, <4>1, <4>2 DEF JobAgrees
    <3> QED BY <3>2, <3>3
  <2>12. RingAgrees'
    <3>1. Distinct(ring')
      BY <1>1 DEF IInv, RingAgrees
    <3>2. ASSUME NEW k \in Jobs
          PROVE  /\ Contains(ring', k) => job'[k].hw = "ring" \/ job'[k].finished
                 /\ Contains(ring', k) => job'[k].hw # "done"
                 /\ Contains(ring', k) /\ ~job'[k].finished => Held(k)'
                 /\ job'[k].hw = "ring" => Contains(ring', k)
                 /\ job'[k].scheduled =>
                       \/ job'[k].finished
                       \/ job'[k].hw \in {"ring", "done"}
                       \/ tdr'.pc = "start" /\ Contains(pending', k)
      <4>1. CASE k = j
        BY <2>3, <2>7, <4>1
      <4>2. CASE k # j
        <5>1. job'[k] = job[k]
          BY <2>7, <4>2
        <5> QED BY <1>1, <1>5, <5>1 DEF IInv, RingAgrees
      <4> QED BY <4>1, <4>2
    <3> QED BY <3>1, <3>2 DEF RingAgrees
  <2>13. WorkerAgrees'
    <3>1. \A k \in Jobs : k = worker.j => job'[k] = job[k]
      BY <2>6, <2>7
    <3> QED BY <1>1, <1>5, <3>1 DEF IInv, WorkerAgrees, Held
  <2>14. FreedUnused'
    <3>1. ASSUME NEW k \in Jobs, k # j PROVE job'[k] = job[k]
      BY <2>7, <3>1
    <3>2. \A e \in Entities : ~Contains(ent[e].queue, j)
      BY <2>4 DEF Waiting
    <3>3. job'[j].freed = 1
      BY <2>5, <2>7
    <3>4. job'[j].finished /\ ~job'[j].cb
      BY <2>3, <2>4, <2>7
    <3>5. ASSUME NEW k \in Jobs, k # j, job'[k].freed > 0
          PROVE  /\ job'[k].freed = 1 /\ job'[k].finished /\ ~job'[k].cb
                 /\ ~Contains(pending, k) /\ worker.j # k
                 /\ \A e \in Entities : ~Contains(ent[e].queue, k)
      BY <3>1, <3>5 DEF IInv, FreedUnused
    <3>6. \A k \in Jobs : tdr'.bad # k
      BY <1>2
    <3> QED BY <1>1, <2>3, <2>6, <3>2, <3>3, <3>4, <3>5, <3>6
        DEF FreedUnused
  <2>15. Charged' = Charged
    <3>1. ASSUME NEW k \in Jobs PROVE k \in Charged' <=> k \in Charged
      <4>1. CASE k = j
        BY <2>3, <2>7, <4>1 DEF Charged
      <4>2. CASE k # j
        <5>1. job'[k] = job[k]
          BY <2>7, <4>2
        <5> QED BY <2>10, <5>1 DEF Charged, Detached
      <4> QED BY <4>1, <4>2
    <3>2. Charged' \subseteq Jobs /\ Charged \subseteq Jobs
      BY DEF Charged
    <3> QED BY <3>1, <3>2
  <2>16. CreditsAgree'
    BY <1>1, <2>15 DEF IInv, CreditsAgree
  <2> QED BY <1>4, <2>8, <2>10, <2>11, <2>12, <2>13, <2>14, <2>16 DEF IInv
<1> QED BY <1>6, <1>7

(* queue_work of a thread that was late, before the scheduler is stopped or *)
(* after it was started again                                              *)
LEMMA QueueLateKeeps ==
    ASSUME IInv, NEW w \in {"run", "free"}, QueueLate(w),
           ~(tdr.pc \in {"stop", "start"})
    PROVE  IInv'
<1>1. /\ UNCHANGED <<ent, job, worker, pending, credit, pause, timer, tdr, ring,
                     foreign>>
      /\ wq' = QueueWork(wq, w)
  BY DEF QueueLate
<1>2. wq' \in Seq({"run", "free"})
  BY <1>1, RunProps DEF IInv, TypeOK, WorkTypes
<1>3. TypeOK'
  BY <1>1, <1>2 DEF IInv, TypeOK, EntTypes, JobTypes, WorkTypes
<1>4. SameQueues /\ SameSelected /\ \A j \in Jobs : SameJob(j)
  BY <1>1 DEF SameQueues, SameSelected, SameJob
<1>5. QueuesFollowPlan' /\ \A j : Waiting(j)' <=> Waiting(j)
  BY <1>4, WaitingSame DEF IInv
<1>6. TimeoutAgrees' /\ SameTimeout
  BY <1>1, TimeoutKept DEF Detached, IInv, TimeoutAgrees
<1> QED BY <1>1, <1>3, <1>4, <1>5, <1>6, QuietKeeps

(* No step takes back that a work was stray.                               *)
LEMMA LateKept == LateTypes /\ [Next]_vars => LateTypes' /\ (late.stray => late'.stray)
<1> SUFFICES ASSUME LateTypes, [Next]_vars
             PROVE  LateTypes' /\ (late.stray => late'.stray)
    OBVIOUS
<1>1. ASSUME NEW w \in {"run", "free"}, RunLate(w)
      PROVE  LateTypes' /\ (late.stray => late'.stray)
  BY <1>1 DEF RunLate, LateTypes
<1>2. CASE UNCHANGED late
  BY <1>2 DEF LateTypes
<1>3. ASSUME NEW w \in {"run", "free"}, QueueLate(w)
      PROVE  LateTypes' /\ (late.stray => late'.stray)
  <2>1. PICK b \in BOOLEAN : b = (late.stray \/ tdr.pc \in {"stop", "start"})
    BY Zenon
  <2>2. late' = [late EXCEPT !.works = @ \ {w}, !.stray = b]
    BY <1>3, <2>1 DEF QueueLate
  <2>3. late.stray => b
    BY <2>1
  <2> QED BY <2>2, <2>3 DEF LateTypes
<1>4. ASSUME NEW q, NEW w \in {"run", "free"}, NEW c, Call(q, w, c)
      PROVE  LateTypes' /\ (late.stray => late'.stray)
  BY <1>1, <1>2, <1>4 DEF Call
<1>5. CASE UNCHANGED vars
  BY <1>2, <1>5 DEF vars
<1>6. ASSUME NEW e \in Entities, PushFirst(e)
      PROVE  LateTypes' /\ (late.stray => late'.stray)
  BY <1>2, <1>4, <1>6 DEF PushFirst
<1>7. ASSUME NEW e \in Entities, PushJob(e) \/ KillJobs(e) \/ SelectEntity(e)
      PROVE  LateTypes' /\ (late.stray => late'.stray)
  BY <1>2, <1>7 DEF PushJob, KillJobs, SelectEntity
<1>8. ASSUME NEW e \in Entities, NEW fini \in BOOLEAN, KillEntity(e, fini)
      PROVE  LateTypes' /\ (late.stray => late'.stray)
  BY <1>2, <1>8 DEF KillEntity
<1>9. ASSUME NEW j \in Jobs, KillJobsWork(j)
      PROVE  LateTypes' /\ (late.stray => late'.stray)
  <2>1. \E q, c : Call(q, "run", c)
    BY <1>9 DEF KillJobsWork
  <2> QED BY <1>4, <2>1
<1>10. CASE SelectNone \/ PopWaits \/ PopJob \/ RunJob
  BY <1>2, <1>10 DEF SelectNone, PopWaits, PopJob, RunJob
<1>11. CASE AddCallback
  BY <1>2, <1>11 DEF AddCallback
<1>12. CASE FreeJobWork
  <2>1. \E q, c : Call(q, "run", c)
    BY <1>12 DEF FreeJobWork
  <2> QED BY <1>4, <2>1
<1>13. CASE HwSignal
  <2>1. RunLate("run") \/ \E q, c : Call(q, "free", c)
    BY <1>13 DEF HwSignal
  <2> QED BY <1>1, <1>4, <2>1
<1>14. CASE ForeignSignal
  <2>1. \E q, c : Call(q, "run", c)
    BY <1>14 DEF ForeignSignal
  <2> QED BY <1>4, <2>1
<1>15. CASE Timedout \/ SoftRecovery \/ SoftRecoveryEnds
  BY <1>2, <1>15 DEF Timedout, SoftRecovery, SoftRecoveryEnds
<1>16. ASSUME NEW guilty \in BOOLEAN, RingReset(guilty)
       PROVE  LateTypes' /\ (late.stray => late'.stray)
  BY <1>2, <1>16 DEF RingReset
<1>17. CASE Recover \/ StopJob \/ HwReset
  BY <1>2, <1>17 DEF Recover, StopJob, HwReset
<1>18. CASE SchedStart \/ TimedoutReturns
  BY <1>2, <1>18 DEF SchedStart, TimedoutReturns
<1> QED BY <1>3, <1>5, <1>6, <1>7, <1>8, <1>9, <1>10, <1>11, <1>12, <1>13, <1>14,
           <1>15, <1>16, <1>17, <1>18 DEF Next

(* Every step keeps the invariant, or a work is stray. *)
LEMMA NextInv == LateTypes /\ IInv /\ [Next]_vars => IInv' \/ late'.stray
<1> SUFFICES ASSUME LateTypes, IInv, [Next]_vars, ~late'.stray PROVE IInv'
    OBVIOUS
<1>1. CASE UNCHANGED vars
  <2>1. UNCHANGED <<ent, job, wq, worker, pending, credit, pause, timer, tdr,
                    ring, foreign>>
    BY <1>1 DEF vars
  <2>2. TypeOK'
    BY <2>1 DEF IInv, TypeOK, EntTypes, JobTypes, WorkTypes
  <2>3. SameQueues /\ SameSelected /\ \A j \in Jobs : SameJob(j)
    BY <2>1 DEF SameQueues, SameSelected, SameJob
  <2> QED BY <2>1, <2>2, <2>3, QuietStep
<1>2. ASSUME NEW e \in Entities, PushJob(e) \/ PushFirst(e) \/ KillJobs(e)
                                   \/ SelectEntity(e)
      PROVE  IInv'
  BY <1>2, PushJobKeeps, PushFirstKeeps, KillJobsKeeps, SelectEntityKeeps
<1>3. ASSUME NEW e \in Entities, NEW fini \in BOOLEAN, KillEntity(e, fini)
      PROVE  IInv'
  BY <1>3, KillEntityKeeps
<1>4. ASSUME NEW j \in Jobs, KillJobsWork(j) PROVE IInv'
  BY <1>4, KillJobsWorkKeeps
<1>5. CASE SelectNone \/ PopWaits \/ PopJob \/ RunJob \/ AddCallback
              \/ FreeJobWork
  BY <1>5, SelectNoneKeeps, PopWaitsKeeps, PopJobKeeps, RunJobKeeps,
     AddCallbackKeeps, FreeJobWorkKeeps
<1>6. CASE HwSignal \/ ForeignSignal
  BY <1>6, HwSignalKeeps, ForeignSignalKeeps
<1>7. CASE Timedout \/ SoftRecovery \/ SoftRecoveryEnds
  BY <1>7, TimedoutKeeps, SoftRecoveryKeeps, SoftRecoveryEndsKeeps
<1>8. ASSUME NEW guilty \in BOOLEAN, RingReset(guilty) PROVE IInv'
  BY <1>8, RingResetKeeps
<1>9. CASE Recover \/ StopJob \/ HwReset \/ SchedStart \/ TimedoutReturns
  BY <1>9, RecoverKeeps, StopJobKeeps, HwResetKeeps, SchedStartKeeps,
     TimedoutReturnsKeeps
<1>10. ASSUME NEW w \in {"run", "free"}, QueueLate(w) PROVE IInv'
  <2>1. ~(tdr.pc \in {"stop", "start"})
    BY <1>10 DEF QueueLate, LateTypes
  <2> QED BY <1>10, <2>1, QueueLateKeeps
<1> QED BY <1>1, <1>2, <1>3, <1>4, <1>5, <1>6, <1>7, <1>8, <1>9, <1>10 DEF Next

-----------------------------------------------------------------------------
(* Dependencies.                                                           *)

(* What no step undoes, but for the step that looks at the dependency of a *)
(* job and the one that kills it.                                          *)
Forward(a, b) ==
    /\ a.scheduled => b.scheduled
    /\ a.finished => b.finished
    /\ b.depTaken => a.depTaken
    /\ b.killed => a.killed
    /\ a.hw = "done" => b.hw = "done" \/ b.finished

LEMMA ForwardJobDone ==
    ASSUME NEW jb \in [Jobs -> JobRecords], NEW j \in Jobs, NEW x \in BOOLEAN
    PROVE  \A k \in Jobs : Forward(jb[k], JobDone(jb, j, x)[k])
<1>1. \A k \in Jobs \ {j} : JobDone(jb, j, x)[k] = jb[k]
  BY JobDoneProps, ZenonT(60)
<1>2. /\ JobDone(jb, j, x)[j].scheduled = jb[j].scheduled
      /\ JobDone(jb, j, x)[j].finished = TRUE
      /\ JobDone(jb, j, x)[j].killed = jb[j].killed
  BY JobDoneProps, ZenonT(60)
<1>3. /\ JobDone(jb, j, x)[j].hw = jb[j].hw
      /\ JobDone(jb, j, x)[j].depTaken = jb[j].depTaken
  BY JobDoneProps, ZenonT(60)
<1> QED BY <1>1, <1>2, <1>3 DEF Forward

LEMMA ForwardFreed ==
    ASSUME NEW jb \in [Jobs -> JobRecords], NEW j \in Jobs, jb[j].finished
    PROVE  \A k \in Jobs : Forward(jb[k], Freed(jb, j)[k])
<1>1. \A k \in Jobs \ {j} : Freed(jb, j)[k] = jb[k]
  BY FreedProps
<1>2. /\ Freed(jb, j)[j].scheduled = jb[j].scheduled
      /\ Freed(jb, j)[j].finished = jb[j].finished
      /\ Freed(jb, j)[j].killed = jb[j].killed
      /\ Freed(jb, j)[j].depTaken = FALSE
  BY FreedProps
<1> QED BY <1>1, <1>2 DEF Forward

(* A dependency that is ready stays so. *)
LEMMA ReadyStays ==
    ASSUME \A k \in Jobs : Forward(job[k], job'[k]), foreign => foreign',
           NEW t \in Jobs \cup {NoJob, Foreign}
    PROVE  /\ Finished(job, foreign, t) => Finished(job, foreign, t)'
           /\ DepReady(t) => DepReady(t)'
<1>1. Finished(job, foreign, t) => Finished(job, foreign, t)'
  BY SchedAssumption DEF Finished, Forward
<1> QED BY <1>1 DEF DepReady, Forward

(* While the ring stays as it is, so does what it says of dependencies. *)
LEMMA RingStays ==
    ASSUME IInv, BehindDependencies, ring' = ring,
           \A k \in Jobs : Forward(job[k], job'[k]), foreign => foreign'
    PROVE  BehindDependencies'
<1> SUFFICES ASSUME NEW q \in 1..Len(ring)
             PROVE  LET t == DepOf[ring[q]] IN
                    \/ Finished(job, foreign, t)'
                    \/ /\ t \in Jobs
                       /\ job'[t].hw = "done" \/ \E p \in 1..(q - 1) : ring[p] = t
    BY DEF BehindDependencies
<1>1. PICK t : t = DepOf[ring[q]]
  OBVIOUS
<1>2. t \in Jobs \cup {NoJob, Foreign}
  <2>1. ring[q] \in Jobs
    BY DEF IInv, TypeOK, WorkTypes
  <2> QED BY <1>1, <2>1, SchedAssumption
<1>3. \/ Finished(job, foreign, t)
      \/ t \in Jobs /\ (job[t].hw = "done" \/ \E p \in 1..(q - 1) : ring[p] = t)
  BY <1>1 DEF BehindDependencies
<1>4. Finished(job, foreign, t) => Finished(job, foreign, t)'
  BY <1>2, ReadyStays
<1>5. t \in Jobs /\ job'[t].finished => Finished(job, foreign, t)'
  BY SchedAssumption DEF Finished
<1> QED BY <1>1, <1>3, <1>4, <1>5 DEF Forward

(* The dependency callback of entity e is as it was, or has run. *)
DepMoves(e) ==
    \/ ent'[e].dep = ent[e].dep /\ ent'[e].on = ent[e].on
    \/ ent'[e].dep = "none" /\ \E t : t = ent[e].on /\ DepReady(t)'

(* A step that hands out no job. *)
LEMMA DepsStay ==
    ASSUME IInv, DInv, SameQueues, BehindDependencies',
           \A k \in Jobs : Forward(job[k], job'[k]), foreign => foreign',
           \A e \in Entities : DepMoves(e),
           worker' = worker \/ worker'.pc \in {"idle", "callback"}
    PROVE  DepsAgree'
<1>1. \A j : Submitted(j)' <=> Submitted(j)
  BY WaitingSame DEF IInv
<1>2. \A j \in Jobs : job'[j].depTaken => Submitted(j)'
  BY <1>1 DEF DInv, DepsAgree, Forward
<1>3. ASSUME NEW e \in Entities, NEW i \in 1..Len(ent'[e].queue)
      PROVE  (LET j == ent[e].queue[i] IN
              job[j].depTaken => \/ DepReady(DepOf[j])
                                 \/ ent[e].dep # "none" /\ ent[e].on = DepOf[j])'
  <2>1. PICK j : j = ent'[e].queue[i]
    OBVIOUS
  <2>2. i \in 1..Len(ent[e].queue) /\ j = ent[e].queue[i]
    BY <1>3, <2>1 DEF SameQueues
  <2>3. j \in Jobs /\ DepOf[j] \in Jobs \cup {NoJob, Foreign}
    BY <2>2, QueueProps, SchedAssumption
  <2>4. job[j].depTaken => \/ DepReady(DepOf[j])
                           \/ ent[e].dep # "none" /\ ent[e].on = DepOf[j]
    BY <2>2 DEF DInv, DepsAgree
  <2>5. DepReady(DepOf[j]) => DepReady(DepOf[j])'
    BY <2>3, ReadyStays
  <2>6. ent[e].dep # "none" /\ ent[e].on = DepOf[j] =>
           \/ DepReady(DepOf[j])'
           \/ ent'[e].dep # "none" /\ ent'[e].on = DepOf[j]
    <3>1. DepMoves(e)
      OBVIOUS
    <3>2. PICK d : d = DepOf[j]
      OBVIOUS
    <3>3. ent[e].dep # "none" /\ ent[e].on = d =>
             DepReady(d)' \/ (ent'[e].dep # "none" /\ ent'[e].on = d)
      BY <3>1 DEF DepMoves
    <3> QED BY <3>2, <3>3
  <2>7. job'[j].depTaken => job[j].depTaken
    BY <2>3 DEF Forward
  <2>8. job'[j].depTaken => \/ DepReady(DepOf[j])'
                            \/ ent'[e].dep # "none" /\ ent'[e].on = DepOf[j]
    BY <2>4, <2>5, <2>6, <2>7
  <2> QED BY <2>1, <2>8 DEF DepReady, Finished
<1>4. \A e \in Entities : ent'[e].dep = "scheduled" => ent'[e].on \in Jobs
  BY DEF DInv, DepsAgree, DepMoves
<1>5. \A e \in Entities : \A i \in 1..ent'[e].sent :
          DepOf[Plan[e][i]] \in Jobs /\ Contains(Plan[e], DepOf[Plan[e][i]])
             => \E k \in 1..i - 1 : Plan[e][k] = DepOf[Plan[e][i]]
  BY DEF SameQueues, DInv, DepsAgree
<1>6. worker'.pc = "run" => DepReady(DepOf[worker.j])' /\ worker' = worker
  <2>1. SUFFICES ASSUME worker'.pc = "run"
                 PROVE  DepReady(DepOf[worker.j])' /\ worker' = worker
    OBVIOUS
  <2>2. worker' = worker /\ worker.pc = "run"
    BY <2>1
  <2>3. worker.j \in Jobs /\ DepReady(DepOf[worker.j])
    BY <2>2 DEF IInv, WorkerAgrees, DInv, DepsAgree
  <2>4. PICK t \in Jobs \cup {NoJob, Foreign} : t = DepOf[worker.j]
    BY <2>3, SchedAssumption
  <2>5. DepReady(t)'
    BY <2>3, <2>4, ReadyStays
  <2>6. t = DepOf[worker'.j]
    BY <2>2, <2>4
  <2> QED BY <2>2, <2>5, <2>6 DEF DepReady
<1>7. worker'.pc = "run" => DepReady(DepOf[worker.j])'
  BY <1>6
<1> QED BY <1>2, <1>3, <1>4, <1>5, <1>7 DEF DepsAgree

(* A step that kills no job and selects no entity. *)
LEMMA KillsStay ==
    ASSUME IInv, DInv,
           \A k \in Jobs : job'[k].killed => job[k].killed,
           \A e \in Entities : /\ ent'[e].stopped = ent[e].stopped
                               /\ ent'[e].rq = ent[e].rq
                               /\ ent'[e].kill = ent[e].kill,
           worker'.pc = "pop" => worker' = worker
    PROVE  KillsAgree'
<1>1. \A e \in Entities : \A i \in 1..Len(Plan[e]) : Plan[e][i] \in Jobs
  BY SchedAssumption
<1> QED BY <1>1 DEF DInv, KillsAgree

(* A step that moves no job. *)
LEMMA DQuiet ==
    ASSUME IInv, DInv, SameQueues, ring' = ring,
           \A k \in Jobs : Forward(job[k], job'[k]), foreign => foreign',
           \A e \in Entities : /\ DepMoves(e)
                               /\ ent'[e].stopped = ent[e].stopped
                               /\ ent'[e].rq = ent[e].rq
                               /\ ent'[e].kill = ent[e].kill,
           worker' = worker \/ worker'.pc \in {"idle", "callback"}
    PROVE  DInv'
<1>1. BehindDependencies'
  BY RingStays DEF DInv
<1>2. DepsAgree'
  BY <1>1, DepsStay
<1>3. KillsAgree'
  BY KillsStay DEF Forward
<1> QED BY <1>1, <1>2, <1>3 DEF DInv

(* The callbacks of fences clear the dependencies that have become ready.  *)
LEMMA CallbacksMove ==
    ASSUME IInv, DInv, ent' = CallbacksRun(ent, job', foreign')
    PROVE  /\ SameQueues
           /\ \A e \in Entities : /\ DepMoves(e)
                                  /\ ent'[e].stopped = ent[e].stopped
                                  /\ ent'[e].rq = ent[e].rq
                                  /\ ent'[e].kill = ent[e].kill
<1>1. PICK jb, f : jb = job' /\ f = foreign'
  OBVIOUS
<1>2. ent' = CallbacksRun(ent, jb, f)
  BY <1>1
<1>3. /\ SameQueues
      /\ \A e \in Entities :
            /\ ent'[e].stopped = ent[e].stopped
            /\ ent'[e].rq = ent[e].rq
            /\ ent'[e].kill = ent[e].kill
            /\ \/ ent'[e].dep = ent[e].dep /\ ent'[e].on = ent[e].on
               \/ /\ e \in ClearDepCalled(jb) \cup WakeupCalled(jb, f)
                  /\ ent'[e].dep = "none"
  BY <1>2, CallbacksProps DEF IInv, TypeOK
<1>4. ASSUME NEW e \in ClearDepCalled(jb) \cup WakeupCalled(jb, f)
      PROVE  \E t : t = ent[e].on /\ DepReady(t)'
  <2>1. PICK t : t = ent[e].on
    OBVIOUS
  <2>2. CASE e \in ClearDepCalled(jb)
    <3>1. t \in Jobs /\ job'[t].scheduled
      BY <1>1, <2>1, <2>2 DEF ClearDepCalled, DInv, DepsAgree
    <3> QED BY <2>1, <3>1 DEF DepReady
  <2>3. CASE e \in WakeupCalled(jb, f)
    <3>1. Finished(job', foreign', t)
      BY <1>1, <2>1, <2>3 DEF WakeupCalled
    <3> QED BY <2>1, <3>1 DEF DepReady
  <2> QED BY <2>2, <2>3
<1>5. \A e \in Entities : DepMoves(e)
  BY <1>3, <1>4 DEF DepMoves
<1> QED BY <1>3, <1>5

(* The steps that leave the entities and their jobs where they are.        *)
LEMMA JobsForward ==
    ASSUME IInv, \/ \E j \in Jobs : KillJobsWork(j)
                 \/ AddCallback \/ FreeJobWork \/ HwSignal \/ SchedStart
                 \/ SoftRecovery \/ SoftRecoveryEnds
                 \/ \E guilty \in BOOLEAN : RingReset(guilty)
                 \/ StopJob \/ HwReset \/ TimedoutReturns
    PROVE  \A k \in Jobs : Forward(job[k], job'[k])
<1>1. job \in [Jobs -> JobRecords]
  BY DEF IInv, TypeOK, JobTypes
<1>2. \A k \in Jobs : Forward(job[k], job[k])
  BY DEF Forward
<1>3. ASSUME NEW j \in Jobs, job' = Freed(job, j), job[j].finished
      PROVE  \A k \in Jobs : Forward(job[k], job'[k])
  BY <1>1, <1>3, ForwardFreed
<1>4. ASSUME NEW j \in Jobs, NEW x,
             \/ job' = [job EXCEPT ![j].err = x]
             \/ job' = [job EXCEPT ![j].hwErr = x]
             \/ UNCHANGED job
      PROVE  \A k \in Jobs : Forward(job[k], job'[k])
  BY <1>1, <1>4 DEF Forward, JobRecords
<1>5. ASSUME NEW j \in Jobs, KillJobsWork(j)
      PROVE  \A k \in Jobs : Forward(job[k], job'[k])
  <2> DEFINE d == JobDone(job, j, TRUE)
             s == [d EXCEPT ![j].scheduled = TRUE]
             b == [d[j] EXCEPT !.scheduled = TRUE]
  <2>1. d \in [Jobs -> JobRecords] /\ d[j].finished = TRUE
    BY <1>1, JobDoneProps
  <2>2. \A k \in Jobs : Forward(job[k], d[k])
    BY <1>1, ForwardJobDone
  <2>3. job' = Freed(s, j)
    BY <1>5 DEF KillJobsWork
  <2> HIDE DEF d
  <2>4. b \in JobRecords /\ b.finished = TRUE /\ Forward(d[j], b)
    BY <2>1 DEF JobRecords, Forward
  <2>5. s = [d EXCEPT ![j] = b]
    BY <2>1
  <2> HIDE DEF b
  <2>6. /\ s \in [Jobs -> JobRecords] /\ s[j].finished
        /\ \A k \in Jobs : Forward(d[k], s[k])
    <3>1. \A k \in Jobs : Forward(d[k], d[k])
      BY DEF Forward
    <3> QED BY <2>1, <2>4, <2>5, <3>1
  <2> HIDE DEF s
  <2>7. \A k \in Jobs : Forward(s[k], job'[k])
    <3>1. PICK t \in [Jobs -> JobRecords] : t = s
      BY <2>6
    <3>2. \A k \in Jobs : Forward(t[k], Freed(t, j)[k])
      BY <2>6, <3>1, ForwardFreed
    <3> QED BY <2>3, <3>1, <3>2
  <2> QED BY <2>2, <2>6, <2>7 DEF Forward
<1>6. CASE AddCallback
  <2>1. PICK j \in Jobs : j = worker.j
    BY <1>6 DEF AddCallback, IInv, WorkerAgrees
  <2> DEFINE p == job[j].hw \in {"ring", "done"}
             c == job[j].hw = "ring"
             s == [job EXCEPT ![j].scheduled = TRUE, ![j].parent = p, ![j].cb = c]
             x == job[j].hw = "failed" \/ job[j].hwErr
             b == [job[j] EXCEPT !.scheduled = TRUE, !.parent = p, !.cb = c]
  <2>2. job' = IF s[j].cb THEN s ELSE JobDone(s, j, x)
    <3>1. job' = CallbackJobs(j)
      BY <1>6, <2>1, AddCallbackStep
    <3> QED BY <3>1, Zenon DEF CallbackJobs, CallbackSet
  <2>3. p \in BOOLEAN /\ c \in BOOLEAN
    OBVIOUS
  <2>4. x \in BOOLEAN
    BY Zenon
  <2> HIDE DEF p, c, x
  <2>5. b \in JobRecords /\ Forward(job[j], b)
    BY <1>1, <2>3, ZenonT(60) DEF JobRecords, Forward
  <2>6. s = [job EXCEPT ![j] = b]
    BY <1>1
  <2> HIDE DEF b
  <2>7. s \in [Jobs -> JobRecords] /\ \A k \in Jobs : Forward(job[k], s[k])
    BY <1>1, <1>2, <2>5, <2>6
  <2> HIDE DEF s
  <2>8. \A k \in Jobs : Forward(s[k], job'[k])
    <3>1. PICK t \in [Jobs -> JobRecords], y \in BOOLEAN : t = s /\ y = x
      BY <2>4, <2>7
    <3>2. \A k \in Jobs : Forward(t[k], JobDone(t, j, y)[k])
      BY ForwardJobDone
    <3>3. \A k \in Jobs : Forward(t[k], t[k])
      BY DEF Forward
    <3> QED BY <2>2, <3>1, <3>2, <3>3
  <2> QED BY <2>7, <2>8 DEF Forward
<1>7. CASE FreeJobWork
  <2>1. CASE FinishedJob
    <3>1. Head(pending) \in Jobs /\ job[Head(pending)].finished
      BY <2>1, HeadTailProperties DEF FinishedJob, IInv, TypeOK, WorkTypes
    <3>2. job' = Freed(job, Head(pending))
      BY <1>7, <2>1 DEF FreeJobWork
    <3>3. PICK j \in Jobs : j = Head(pending)
      BY <3>1
    <3> QED BY <1>3, <3>1, <3>2, <3>3
  <2>2. CASE ~FinishedJob
    BY <1>2, <1>7, <2>2 DEF FreeJobWork
  <2> QED BY <2>1, <2>2
<1>8. CASE HwSignal
  <2>1. PICK j \in Jobs : j = Head(ring)
    BY <1>8, HeadTailProperties DEF HwSignal, IInv, TypeOK, WorkTypes
  <2> DEFINE s == [job EXCEPT ![j].hw = "done"]
             b == [job[j] EXCEPT !.hw = "done"]
  <2>2. job' = IF job[j].cb THEN JobDone(s, j, job[j].hwErr) ELSE s
    BY <1>8, <2>1 DEF HwSignal
  <2>3. b \in JobRecords /\ Forward(job[j], b) /\ job[j].hwErr \in BOOLEAN
    BY <1>1 DEF JobRecords, Forward
  <2>4. s = [job EXCEPT ![j] = b]
    BY <1>1
  <2> HIDE DEF b
  <2>5. s \in [Jobs -> JobRecords] /\ \A k \in Jobs : Forward(job[k], s[k])
    BY <1>1, <1>2, <2>3, <2>4
  <2> HIDE DEF s
  <2>6. \A k \in Jobs : Forward(s[k], job'[k])
    <3>1. PICK t \in [Jobs -> JobRecords], y \in BOOLEAN :
             t = s /\ y = job[j].hwErr
      BY <2>3, <2>5
    <3>2. \A k \in Jobs : Forward(t[k], JobDone(t, j, y)[k])
      BY ForwardJobDone
    <3>3. \A k \in Jobs : Forward(t[k], t[k])
      BY DEF Forward
    <3> QED BY <2>2, <3>1, <3>2, <3>3
  <2> QED BY <2>5, <2>6 DEF Forward
<1>9. CASE SchedStart
  <2> SUFFICES ASSUME NEW k \in Jobs PROVE Forward(job[k], job'[k])
      OBVIOUS
  <2>1. PICK x \in BOOLEAN : x = (~job[k].parent \/ job[k].hwErr)
    BY Zenon
  <2>2. \/ job'[k] = job[k] \/ job'[k] = JobDone(job, k, x)[k]
        \/ job'[k] = [job[k] EXCEPT !.cb = TRUE]
    BY <1>9, <2>1 DEF SchedStart
  <2>3. Forward(job[k], JobDone(job, k, x)[k])
    BY <1>1, ForwardJobDone
  <2>4. Forward(job[k], [job[k] EXCEPT !.cb = TRUE])
    BY <1>1 DEF Forward, JobRecords
  <2> QED BY <1>2, <2>2, <2>3, <2>4
<1>10. CASE SoftRecovery \/ SoftRecoveryEnds
             \/ \E guilty \in BOOLEAN : RingReset(guilty)
  <2>1. tdr.pc # "idle"
    BY <1>10 DEF SoftRecovery, SoftRecoveryEnds, RingReset
  <2>2. PICK j \in Jobs : j = tdr.bad
    BY <2>1 DEF IInv, TimeoutAgrees
  <2>3. \E x : \/ job' = [job EXCEPT ![j].err = x]
               \/ job' = [job EXCEPT ![j].hwErr = x]
               \/ UNCHANGED job
    BY <1>1, <1>10, <2>2 DEF SoftRecovery, SoftRecoveryEnds, RingReset,
       HardRecovery
  <2> QED BY <1>4, <2>3
<1>11. CASE StopJob
  <2>1. PICK j : j = pending[tdr.i]
    OBVIOUS
  <2>2. j \in Jobs
    <3>1. /\ tdr.i \in Nat /\ tdr.i > 0 /\ tdr.i <= Len(pending)
          /\ Len(pending) \in Nat /\ pending \in Seq(Jobs)
      BY <1>11, LenProperties DEF StopJob, IInv, TimeoutAgrees, TypeOK,
         WorkTypes
    <3> QED BY <2>1, <3>1
  <2>3. CASE job' = [job EXCEPT ![j].cb = FALSE, ![j].parent = FALSE]
    BY <1>1, <2>2, <2>3 DEF Forward, JobRecords
  <2>4. CASE job[j].finished /\ job' = IF j = tdr.bad THEN job ELSE Freed(job, j)
    BY <1>2, <1>3, <2>2, <2>4
  <2> QED BY <1>11, <2>1, <2>3, <2>4 DEF StopJob
<1>12. CASE HwReset
  <2> SUFFICES ASSUME NEW k \in Jobs PROVE Forward(job[k], job'[k])
      OBVIOUS
  <2>1. Contains(ring, k) => job[k].hw # "done"
    BY DEF IInv, RingAgrees
  <2>2. PICK h : job'[k] = IF Contains(ring, k) /\ job' # job
                           THEN [job[k] EXCEPT !.hw = h] ELSE job[k]
    BY <1>12 DEF HwReset
  <2>3. job[k] \in JobRecords
    BY <1>1
  <2> QED BY <1>2, <2>1, <2>2, <2>3 DEF Forward, JobRecords
<1>13. CASE TimedoutReturns
  <2>1. CASE tdr.freeGuilty
    <3>1. PICK j \in Jobs : j = tdr.bad
      BY <1>13 DEF TimedoutReturns, IInv, TimeoutAgrees
    <3>2. job[j].finished /\ job' = Freed(job, j)
      BY <1>13, <2>1, <3>1 DEF TimedoutReturns, IInv, TimeoutAgrees
    <3> QED BY <1>3, <3>2
  <2>2. CASE ~tdr.freeGuilty
    BY <1>2, <1>13, <2>2 DEF TimedoutReturns
  <2> QED BY <2>1, <2>2
<1> QED BY <1>5, <1>6, <1>7, <1>8, <1>9, <1>10, <1>11, <1>12, <1>13

(* The steps that leave the entities alone, but for the callbacks of fences. *)
LEMMA QuietDeps ==
    ASSUME IInv, DInv, \/ \E j \in Jobs : KillJobsWork(j)
                       \/ AddCallback \/ FreeJobWork \/ SchedStart
                       \/ SoftRecovery \/ SoftRecoveryEnds
                       \/ \E guilty \in BOOLEAN : RingReset(guilty)
                       \/ StopJob \/ TimedoutReturns
                       \/ SelectNone \/ ForeignSignal \/ Timedout \/ Recover
    PROVE  DInv'
<1>1. \A k \in Jobs : Forward(job[k], job'[k])
  <2>1. CASE SelectNone \/ ForeignSignal \/ Timedout \/ Recover
    <3>1. job' = job
      BY <2>1 DEF SelectNone, ForeignSignal, Timedout, Recover
    <3> QED BY <3>1 DEF Forward
  <2> QED BY <2>1, JobsForward
<1>2. /\ ring' = ring /\ (foreign => foreign')
      /\ worker' = worker \/ worker'.pc \in {"idle", "callback"}
      /\ ent' = ent \/ ent' = CallbacksRun(ent, job', foreign')
  <2>1. CASE \E j \in Jobs : KillJobsWork(j)
    BY <2>1 DEF KillJobsWork
  <2>2. CASE AddCallback
    <3>1. /\ ent' = CallbacksRun(ent, job', foreign) /\ worker' = Idle
          /\ ring' = ring /\ foreign' = foreign
      BY <2>2, AddCallbackStep
    <3> QED BY <3>1 DEF Idle
  <2>3. CASE FreeJobWork \/ SelectNone \/ Timedout
    <3>1. CASE FreeJobWork
      BY <3>1 DEF FreeJobWork
    <3>2. CASE SelectNone \/ Timedout
      BY <3>2 DEF SelectNone, Timedout
    <3> QED BY <2>3, <3>1, <3>2
  <2>4. CASE SoftRecovery \/ SoftRecoveryEnds
    BY <2>4 DEF SoftRecovery, SoftRecoveryEnds
  <2>5. CASE \E guilty \in BOOLEAN : RingReset(guilty)
    BY <2>5 DEF RingReset
  <2>6. CASE Recover \/ StopJob \/ TimedoutReturns
    BY <2>6 DEF Recover, StopJob, TimedoutReturns
  <2>7. CASE SchedStart
    BY <2>7 DEF SchedStart
  <2>8. CASE ForeignSignal
    BY <2>8 DEF ForeignSignal
  <2> QED BY <2>1, <2>2, <2>3, <2>4, <2>5, <2>6, <2>7, <2>8
<1>3. /\ SameQueues
      /\ \A e \in Entities : /\ DepMoves(e)
                             /\ ent'[e].stopped = ent[e].stopped
                             /\ ent'[e].rq = ent[e].rq
                             /\ ent'[e].kill = ent[e].kill
  <2>1. CASE ent' = ent
    BY <2>1 DEF SameQueues, DepMoves
  <2>2. CASE ent' = CallbacksRun(ent, job', foreign')
    BY <2>2, CallbacksMove
  <2> QED BY <1>2, <2>1, <2>2
<1> QED BY <1>1, <1>2, <1>3, DQuiet

(* The interrupt of the ring *)
LEMMA HwSignalDeps ==
    ASSUME IInv, DInv, HwSignal
    PROVE  DInv'
<1>1. /\ ring # <<>> /\ ring' = Tail(ring) /\ UNCHANGED <<worker, foreign>>
      /\ ent' = CallbacksRun(ent, job', foreign')
  BY DEF HwSignal
<1>2. \A k \in Jobs : Forward(job[k], job'[k])
  BY JobsForward
<1>3. /\ SameQueues
      /\ \A e \in Entities : /\ DepMoves(e)
                             /\ ent'[e].stopped = ent[e].stopped
                             /\ ent'[e].rq = ent[e].rq
                             /\ ent'[e].kill = ent[e].kill
  BY <1>1, CallbacksMove
<1>4. /\ ring \in Seq(Jobs) /\ Len(ring) \in Nat /\ Len(ring') = Len(ring) - 1
      /\ Head(ring) = ring[1] /\ Head(ring) \in Jobs
      /\ \A i \in 1..Len(ring) - 1 : ring'[i] = ring[i + 1]
  BY <1>1, TailList, LenProperties DEF IInv, TypeOK, WorkTypes
<1>5. job'[Head(ring)].hw = "done"
  <2>1. PICK j \in Jobs : j = Head(ring)
    BY <1>4
  <2> DEFINE s == [job EXCEPT ![j].hw = "done"]
  <2>2. job' = IF job[j].cb THEN JobDone(s, j, job[j].hwErr) ELSE s
    BY <2>1 DEF HwSignal
  <2>3. job \in [Jobs -> JobRecords] /\ job[j] \in JobRecords
    BY DEF IInv, TypeOK, JobTypes
  <2>4. /\ s \in [Jobs -> JobRecords]
        /\ s[j].hw = "done"
        /\ job[j].hwErr \in BOOLEAN
    BY <2>3 DEF JobRecords
  <2> HIDE DEF s
  <2>5. PICK t \in [Jobs -> JobRecords], y \in BOOLEAN :
           t = s /\ y = job[j].hwErr
    BY <2>4
  <2>6. JobDone(t, j, y)[j].hw = t[j].hw
    BY JobDoneProps, ZenonT(60)
  <2> QED BY <2>1, <2>2, <2>4, <2>5, <2>6
<1>6. BehindDependencies'
  <2> SUFFICES ASSUME NEW q \in 1..Len(ring')
               PROVE  (LET t == DepOf[ring[q]] IN
                       \/ Finished(job, foreign, t)
                       \/ /\ t \in Jobs
                          /\ job[t].hw = "done" \/ \E p \in 1..(q - 1) : ring[p] = t)'
      BY DEF BehindDependencies
  <2>1. PICK t : t = DepOf[ring'[q]]
    OBVIOUS
  <2>2. /\ q + 1 \in 1..Len(ring)
        /\ ring'[q] = ring[q + 1]
        /\ ring[q + 1] \in Jobs
    BY <1>4
  <2>3. t \in Jobs \cup {NoJob, Foreign}
    BY <2>1, <2>2, SchedAssumption
  <2>4. \/ Finished(job, foreign, t)
        \/ t \in Jobs /\ (job[t].hw = "done" \/ \E p \in 1..((q + 1) - 1) : ring[p] = t)
    BY <2>1, <2>2 DEF DInv, BehindDependencies
  <2>5. Finished(job, foreign, t) => Finished(job, foreign, t)'
    BY <1>1, <1>2, <2>3, ReadyStays
  <2>6. t \in Jobs /\ job'[t].finished => Finished(job, foreign, t)'
    BY SchedAssumption DEF Finished
  <2>7. ASSUME NEW p \in 1..((q + 1) - 1), ring[p] = t
        PROVE  job'[t].hw = "done" \/ \E r \in 1..(q - 1) : ring'[r] = t
    <3>1. CASE p = 1
      BY <1>4, <1>5, <2>7, <3>1
    <3>2. CASE p # 1
      <4>1. /\ p - 1 \in 1..(q - 1)
            /\ p - 1 \in 1..Len(ring) - 1
            /\ (p - 1) + 1 = p
        BY <1>4, <2>2, <3>2
      <4>2. ring'[p - 1] = t
        BY <1>4, <2>7, <4>1
      <4> QED BY <4>1, <4>2
    <3> QED BY <3>1, <3>2
  <2>8. \/ Finished(job, foreign, t)'
        \/ t \in Jobs /\ (job'[t].hw = "done" \/ \E p \in 1..(q - 1) : ring'[p] = t)
    BY <1>2, <2>4, <2>5, <2>6, <2>7 DEF Forward
  <2> QED BY <2>1, <2>8 DEF Finished
<1>7. DepsAgree'
  BY <1>1, <1>2, <1>3, <1>6, DepsStay
<1>8. KillsAgree'
  BY <1>1, <1>2, <1>3, KillsStay DEF Forward
<1> QED BY <1>6, <1>7, <1>8 DEF DInv

(* The reset of the hardware *)
LEMMA HwResetDeps ==
    ASSUME IInv, DInv, HwReset
    PROVE  DInv'
<1>1. UNCHANGED <<ent, worker, foreign>> /\ (ring' = ring \/ ring' = <<>>)
  BY DEF HwReset
<1>2. \A k \in Jobs : Forward(job[k], job'[k])
  BY JobsForward
<1>3. BehindDependencies'
  <2>1. CASE ring' = ring
    BY <1>1, <1>2, <2>1, RingStays DEF DInv
  <2>2. CASE ring' = <<>>
    BY <2>2 DEF BehindDependencies
  <2> QED BY <1>1, <2>1, <2>2
<1>4. SameQueues /\ \A e \in Entities : DepMoves(e)
  BY <1>1 DEF SameQueues, DepMoves
<1>5. DepsAgree'
  BY <1>1, <1>2, <1>3, <1>4, DepsStay
<1>6. KillsAgree'
  BY <1>1, <1>2, KillsStay DEF Forward
<1> QED BY <1>3, <1>5, <1>6 DEF DInv

(* The second half of a push, and the selection of an entity: under Kept a *)
(* killed entity is not selected.                                          *)
LEMMA PushFirstDeps ==
    ASSUME IInv, DInv, NEW e \in Entities, PushFirst(e)
    PROVE  DInv'
<1>1. UNCHANGED <<job, worker, ring, foreign>>
  BY DEF PushFirst
<1>2. /\ SameQueues
      /\ \A f \in Entities : /\ ent'[f].dep = ent[f].dep
                             /\ ent'[f].on = ent[f].on
                             /\ ent'[f].stopped = ent[f].stopped
                             /\ ent'[f].kill = ent[f].kill
                             /\ ent'[f].rq = ent[f].rq \/ ~ent[f].stopped
  <2>1. ent \in [Entities -> EntRecords]
    BY DEF IInv, TypeOK, EntTypes
  <2>2. CASE ent[e].stopped
    <3>1. ent' = [ent EXCEPT ![e].push = "idle"]
      BY <2>2 DEF PushFirst
    <3> QED BY <2>1, <3>1 DEF SameQueues, EntRecords
  <2>3. CASE ~ent[e].stopped
    <3> DEFINE r == [ent[e] EXCEPT !.push = "idle", !.rq = TRUE, !.tree = Fifo]
    <3>1. ent' = [ent EXCEPT ![e] = r]
      BY <2>1, <2>3 DEF PushFirst
    <3>2. /\ r.sent = ent[e].sent /\ r.queue = ent[e].queue
          /\ r.dep = ent[e].dep /\ r.on = ent[e].on
          /\ r.stopped = ent[e].stopped /\ r.kill = ent[e].kill
      BY <2>1 DEF EntRecords
    <3> HIDE DEF r
    <3> QED BY <2>1, <2>3, <3>1, <3>2 DEF SameQueues
  <2> QED BY <2>2, <2>3
<1>3. /\ \A k \in Jobs : Forward(job[k], job'[k])
      /\ \A f \in Entities : DepMoves(f)
  BY <1>1, <1>2 DEF Forward, DepMoves
<1>4. BehindDependencies'
  BY <1>1, <1>3, RingStays DEF DInv
<1>5. DepsAgree'
  BY <1>1, <1>2, <1>3, <1>4, DepsStay
<1>6. KillsAgree'
  BY <1>1, <1>2 DEF DInv, KillsAgree
<1> QED BY <1>4, <1>5, <1>6 DEF DInv

LEMMA SelectEntityDeps ==
    ASSUME IInv, DInv, Kept, NEW e \in Entities, SelectEntity(e)
    PROVE  DInv'
<1>1. /\ UNCHANGED <<job, ring, foreign>> /\ e \in Ready
      /\ worker' = [pc |-> "pop", e |-> e, j |-> NoJob]
  BY DEF SelectEntity
<1>2. /\ SameQueues
      /\ \A f \in Entities : /\ ent'[f].dep = ent[f].dep
                             /\ ent'[f].on = ent[f].on
                             /\ ent'[f].stopped = ent[f].stopped
                             /\ ent'[f].kill = ent[f].kill
                             /\ ent'[f].rq = ent[f].rq
  BY DEF SelectEntity, SameQueues, IInv, TypeOK, EntTypes, EntRecords
<1>3. /\ \A k \in Jobs : Forward(job[k], job'[k])
      /\ \A f \in Entities : DepMoves(f)
  BY <1>1, <1>2 DEF Forward, DepMoves
<1>4. BehindDependencies'
  BY <1>1, <1>3, RingStays DEF DInv
<1>5. DepsAgree'
  <2>1. \A j : Submitted(j)' <=> Submitted(j)
    BY <1>2, WaitingSame DEF IInv
  <2>2. \A t : DepReady(t)' <=> DepReady(t)
    BY <1>1 DEF DepReady, Finished
  <2>3. worker'.pc = "pop"
    BY <1>1
  <2>4. \A j \in Jobs : job'[j].depTaken => Submitted(j)'
    BY <1>1, <2>1 DEF DInv, DepsAgree
  <2>5. ASSUME NEW f \in Entities, NEW i \in 1..Len(ent'[f].queue)
        PROVE  (LET j == ent[f].queue[i] IN
                job[j].depTaken =>
                   \/ DepReady(DepOf[j])
                   \/ ent[f].dep # "none" /\ ent[f].on = DepOf[j])'
    <3>1. ent'[f].queue = ent[f].queue /\ i \in 1..Len(ent[f].queue)
      BY <1>2, <2>5 DEF SameQueues
    <3> QED BY <1>1, <1>2, <3>1 DEF DInv, DepsAgree, DepReady, Finished
  <2> QED BY <1>2, <2>3, <2>4, <2>5 DEF DInv, DepsAgree, SameQueues
<1>6. ~ent[e].stopped
  BY <1>1, SchedAssumption DEF Ready, Kept, DInv, KillsAgree
<1>7. KillsAgree'
  BY <1>1, <1>2, <1>6 DEF DInv, KillsAgree
<1> QED BY <1>4, <1>5, <1>7 DEF DInv

(* drm_sched_entity_kill *)
LEMMA KillEntityDeps ==
    ASSUME IInv, DInv, NEW e \in Entities, NEW fini \in BOOLEAN,
           KillEntity(e, fini)
    PROVE  DInv'
<1>1. UNCHANGED <<job, worker, ring, foreign>> /\ e \in Killable
  BY DEF KillEntity
<1>2. /\ SameQueues
      /\ \A f \in Entities : /\ ent'[f].dep = ent[f].dep
                             /\ ent'[f].on = ent[f].on
                             /\ \/ /\ ent'[f].stopped = ent[f].stopped
                                   /\ ent'[f].kill = ent[f].kill
                                   /\ ent'[f].rq = ent[f].rq
                                \/ f = e /\ ent'[f].stopped /\ ~ent'[f].rq
  BY SMTT(30) DEF KillEntity, SameQueues, IInv, TypeOK, EntTypes, EntRecords
<1>3. /\ \A k \in Jobs : Forward(job[k], job'[k])
      /\ \A f \in Entities : DepMoves(f)
  BY <1>1, <1>2 DEF Forward, DepMoves
<1>4. BehindDependencies'
  BY <1>1, <1>3, RingStays DEF DInv
<1>5. DepsAgree'
  BY <1>1, <1>2, <1>3, <1>4, DepsStay
<1>6. KillsAgree'
  BY <1>1, <1>2 DEF DInv, KillsAgree
<1> QED BY <1>4, <1>5, <1>6 DEF DInv

(* A push: what was submitted before is what the plan has before it. *)
LEMMA PushJobDeps ==
    ASSUME IInv, DInv, NEW e \in Entities, PushJob(e)
    PROVE  DInv'
<1> DEFINE n == ent[e].sent + 1
           j == Plan[e][n]
<1>1. /\ UNCHANGED <<job, worker, ring, foreign>>
      /\ ent[e].sent < Len(Plan[e])
      /\ DepOf[j] \in Jobs => Submitted(DepOf[j])
  BY DEF PushJob
<1>2. /\ ent \in [Entities -> EntRecords] /\ ent[e].queue \in Seq(Jobs)
      /\ ent[e].sent \in Nat /\ Plan[e] \in Seq(Jobs) /\ Len(Plan[e]) \in Nat
      /\ n \in 1..Len(Plan[e]) /\ j \in Jobs
  <2>1. /\ ent \in [Entities -> EntRecords] /\ ent[e].queue \in Seq(Jobs)
        /\ ent[e].sent \in Nat /\ Plan[e] \in Seq(Jobs) /\ Len(Plan[e]) \in Nat
    BY SchedAssumption, LenProperties DEF IInv, TypeOK, EntTypes, EntRecords
  <2>2. n \in 1..Len(Plan[e])
    BY <1>1, <2>1
  <2> QED BY <2>1, <2>2
<1>3. /\ ent'[e].sent = n /\ ent'[e].queue = Append(ent[e].queue, j)
      /\ \A f \in Entities \ {e} : ent'[f] = ent[f]
      /\ \A f \in Entities : /\ ent'[f].dep = ent[f].dep
                             /\ ent'[f].on = ent[f].on
                             /\ ent'[f].stopped = ent[f].stopped
                             /\ ent'[f].rq = ent[f].rq
                             /\ ent'[f].kill = ent[f].kill
  <2> DEFINE p == IF ent[e].queue = <<>> THEN "first" ELSE "idle"
  <2>1. ent' = [ent EXCEPT ![e] = [ent[e] EXCEPT !.sent = n,
                   !.queue = Append(ent[e].queue, j), !.push = p]]
    BY <1>2 DEF PushJob
  <2> HIDE DEF n, j, p
  <2>2. ent[e] \in EntRecords
    BY <1>2
  <2> QED BY <1>2, <2>1, <2>2 DEF EntRecords
<1> HIDE DEF j
<1>4. ~Submitted(j)
  <2>1. ASSUME NEW f \in Entities, NEW i \in 1..ent[f].sent, Plan[f][i] = j
        PROVE  FALSE
    <3>1. /\ ent[f].sent \in Nat /\ ent[f].sent <= Len(Plan[f])
          /\ Len(Plan[f]) \in Nat
      BY SchedAssumption, LenProperties DEF IInv, TypeOK, EntTypes,
         EntRecords, QueuesFollowPlan
    <3>2. i \in 1..Len(Plan[f])
      BY <3>1
    <3>3. f = e /\ i = n
      BY <1>2, <2>1, <3>2, SchedAssumption DEF j
    <3> QED BY <1>2, <2>1, <3>3
  <2> QED BY <2>1 DEF Submitted
<1>5. \A k : Submitted(k) => Submitted(k)'
  <2>1. \A f \in Entities : \A i \in 1..ent[f].sent : i \in 1..ent'[f].sent
    BY <1>2, <1>3
  <2> QED BY <2>1 DEF Submitted
<1>6. \A k \in Jobs : job'[k].depTaken => Submitted(k)'
  BY <1>1, <1>5 DEF DInv, DepsAgree
<1>7. ASSUME NEW f \in Entities, NEW i \in 1..Len(ent'[f].queue)
      PROVE  (LET k == ent[f].queue[i] IN
              job[k].depTaken =>
                 \/ DepReady(DepOf[k])
                 \/ ent[f].dep # "none" /\ ent[f].on = DepOf[k])'
  <2>1. CASE f # e \/ i \in 1..Len(ent[e].queue)
    <3>1. ent'[f].queue[i] = ent[f].queue[i] /\ i \in 1..Len(ent[f].queue)
      <4>1. CASE f # e
        <5>1. ent'[f] = ent[f]
          BY <1>3, <4>1
        <5> QED BY <1>7, <5>1
      <4>2. CASE f = e
        <5>1. \A m \in 1..Len(ent[e].queue) : ent'[e].queue[m] = ent[e].queue[m]
          BY <1>2, <1>3, AppendList
        <5> QED BY <2>1, <4>2, <5>1
      <4> QED BY <4>1, <4>2
    <3> QED BY <1>1, <1>3, <3>1 DEF DInv, DepsAgree, DepReady, Finished
  <2>2. CASE f = e /\ i = Len(ent[e].queue) + 1
    <3>1. ent'[f].queue[i] = j
      BY <1>2, <1>3, <2>2, AppendList
    <3>2. ~job[j].depTaken
      BY <1>2, <1>4 DEF DInv, DepsAgree
    <3> QED BY <1>1, <3>1, <3>2
  <2>3. Len(Append(ent[e].queue, j)) = Len(ent[e].queue) + 1
        /\ Len(ent[e].queue) \in Nat
    BY <1>2, AppendList, LenProperties
  <2> QED BY <1>3, <1>7, <2>1, <2>2, <2>3, SMTT(30)
<1>8. \A f \in Entities : ent'[f].dep = "scheduled" => ent'[f].on \in Jobs
  BY <1>3 DEF DInv, DepsAgree
<1>9. ASSUME NEW f \in Entities, NEW i \in 1..ent'[f].sent,
             DepOf[Plan[f][i]] \in Jobs, Contains(Plan[f], DepOf[Plan[f][i]])
      PROVE  \E k \in 1..i - 1 : Plan[f][k] = DepOf[Plan[f][i]]
  <2>1. CASE f # e \/ i \in 1..ent[e].sent
    <3>1. i \in 1..ent[f].sent
      BY <1>3, <1>9, <2>1
    <3> QED BY <1>9, <3>1 DEF DInv, DepsAgree
  <2>2. CASE f = e /\ i = n
    <3>1. Plan[f][i] = j /\ Submitted(DepOf[j])
      BY <1>1, <1>9, <2>2 DEF j
    <3>2. PICK g \in Entities : \E k \in 1..ent[g].sent : Plan[g][k] = DepOf[j]
      BY <3>1 DEF Submitted
    <3>3. PICK k \in 1..ent[g].sent : Plan[g][k] = DepOf[j]
      BY <3>2
    <3>4. PICK m \in 1..Len(Plan[e]) : Plan[e][m] = DepOf[j]
      BY <1>9, <2>2, <3>1 DEF Contains
    <3>5. k \in 1..Len(Plan[g])
      <4>1. /\ ent[g].sent \in Nat /\ ent[g].sent <= Len(Plan[g])
            /\ Len(Plan[g]) \in Nat
        BY SchedAssumption, LenProperties DEF IInv, TypeOK, EntTypes,
           EntRecords, QueuesFollowPlan
      <4> QED BY <4>1
    <3>6. g = e
      BY <3>4, <3>5, <3>3, SchedAssumption
    <3>7. k \in 1..i - 1
      BY <1>2, <2>2, <3>6
    <3> QED BY <2>2, <3>1, <3>6, <3>7, <3>3
  <2>3. i \in 1..ent[e].sent \/ i = n \/ f # e
    BY <1>2, <1>3, <1>9
  <2> QED BY <2>1, <2>2, <2>3
<1>10. worker'.pc = "run" => DepReady(DepOf[worker.j])'
  BY <1>1 DEF DInv, DepsAgree, DepReady, Finished
<1>11. DepsAgree'
  BY <1>6, <1>7, <1>8, <1>9, <1>10 DEF DepsAgree
<1>12. KillsAgree'
  BY <1>1, <1>3 DEF DInv, KillsAgree
<1>13. BehindDependencies'
  BY <1>1 DEF DInv, BehindDependencies
<1> QED BY <1>11, <1>12, <1>13 DEF DInv

(* The jobs of a killed entity: the worker is not about to pop from it.    *)
LEMMA KillJobsDeps ==
    ASSUME IInv, DInv, NEW e \in Entities, KillJobs(e)
    PROVE  DInv'
<1>1. /\ UNCHANGED <<worker, ring, foreign>>
      /\ ent[e].kill = "wait" /\ ent[e].idle
  BY DEF KillJobs
<1>2. /\ ent \in [Entities -> EntRecords] /\ ent[e] \in EntRecords
      /\ job \in [Jobs -> JobRecords]
  BY DEF IInv, TypeOK, EntTypes, JobTypes
<1>3. /\ ent'[e].queue = <<>> /\ ent'[e].sent = ent[e].sent
      /\ ent'[e].dep \in {"none", ent[e].dep}
      /\ ent'[e].dep # "none" => ent'[e].on = ent[e].on
      /\ ent'[e].stopped = ent[e].stopped /\ ent'[e].rq = ent[e].rq
      /\ ent'[e].kill = "none"
      /\ \A f \in Entities \ {e} : ent'[f] = ent[f]
  <2> DEFINE d == IF ent[e].closed THEN "none" ELSE ent[e].dep
             o == IF ent[e].closed THEN NoJob ELSE ent[e].on
             l == IF ent[e].closed THEN NoJob ELSE ent[e].last
             r == [ent[e] EXCEPT !.queue = <<>>, !.kill = "none", !.dep = d,
                                 !.on = o, !.last = l]
  <2>1. ent' = [ent EXCEPT ![e] = r]
    BY <1>2 DEF KillJobs
  <2>2. d \in {"none", ent[e].dep} /\ (d # "none" => o = ent[e].on)
    OBVIOUS
  <2> HIDE DEF d, o, l
  <2>3. /\ r.queue = <<>> /\ r.sent = ent[e].sent /\ r.dep = d /\ r.on = o
        /\ r.stopped = ent[e].stopped /\ r.rq = ent[e].rq /\ r.kill = "none"
    BY <1>2 DEF EntRecords
  <2> HIDE DEF r
  <2> QED BY <1>2, <2>1, <2>2, <2>3
<1>4. ASSUME NEW k \in Jobs
      PROVE  /\ job'[k].scheduled = job[k].scheduled
             /\ job'[k].finished = job[k].finished
             /\ job'[k].depTaken = job[k].depTaken
             /\ job'[k].hw = job[k].hw
             /\ job'[k].killed => job[k].killed \/ Contains(ent[e].queue, k)
  <2> DEFINE q == ent[e].queue
             before(i) == IF i = 1 THEN ent[e].last ELSE q[i - 1]
             x == before(CHOOSE i \in 1..Len(q) : q[i] = k)
  <2>1. job'[k] = IF Contains(q, k)
                  THEN [job[k] EXCEPT !.killed = TRUE, !.prev = x] ELSE job[k]
    BY DEF KillJobs
  <2>2. job[k] \in JobRecords
    BY <1>2
  <2> HIDE DEF x
  <2> QED BY <2>1, <2>2 DEF JobRecords
<1>5. \A t \in Jobs \cup {NoJob, Foreign} :
         /\ DepReady(t)' <=> DepReady(t)
         /\ Finished(job, foreign, t)' <=> Finished(job, foreign, t)
  BY <1>1, <1>4, SchedAssumption DEF DepReady, Finished
<1>6. \A k : Submitted(k)' <=> Submitted(k)
  BY <1>3 DEF Submitted
<1>7. \A k \in Jobs : job'[k].depTaken => Submitted(k)'
  BY <1>4, <1>6 DEF DInv, DepsAgree
<1>8. ASSUME NEW f \in Entities, NEW i \in 1..Len(ent'[f].queue)
      PROVE  (LET k == ent[f].queue[i] IN
              job[k].depTaken =>
                 \/ DepReady(DepOf[k])
                 \/ ent[f].dep # "none" /\ ent[f].on = DepOf[k])'
  <2>1. f # e
    BY <1>3, <1>8
  <2>2. ent'[f] = ent[f] /\ i \in 1..Len(ent[f].queue)
    BY <1>3, <1>8, <2>1
  <2>3. PICK k : k = ent[f].queue[i]
    OBVIOUS
  <2>4. k \in Jobs /\ DepOf[k] \in Jobs \cup {NoJob, Foreign}
    BY <2>2, <2>3, QueueProps, SchedAssumption
  <2>5. job[k].depTaken => \/ DepReady(DepOf[k])
                           \/ ent[f].dep # "none" /\ ent[f].on = DepOf[k]
    BY <2>2, <2>3 DEF DInv, DepsAgree
  <2>6. job'[k].depTaken => \/ DepReady(DepOf[k])'
                            \/ ent'[f].dep # "none" /\ ent'[f].on = DepOf[k]
    BY <1>4, <1>5, <2>2, <2>4, <2>5
  <2>7. k = ent'[f].queue[i]
    BY <2>2, <2>3
  <2> QED BY <2>6, <2>7 DEF DepReady, Finished
<1>9. \A f \in Entities : ent'[f].dep = "scheduled" => ent'[f].on \in Jobs
  BY <1>3 DEF DInv, DepsAgree
<1>10. \A f \in Entities : \A i \in 1..ent'[f].sent :
          DepOf[Plan[f][i]] \in Jobs /\ Contains(Plan[f], DepOf[Plan[f][i]])
             => \E k \in 1..i - 1 : Plan[f][k] = DepOf[Plan[f][i]]
  <2>1. \A f \in Entities : ent'[f].sent = ent[f].sent
    BY <1>3
  <2> QED BY <2>1 DEF DInv, DepsAgree
<1>11. worker'.pc = "run" => DepReady(DepOf[worker.j])'
  <2>1. SUFFICES ASSUME worker.pc = "run" PROVE DepReady(DepOf[worker.j])'
    BY <1>1
  <2>2. PICK t \in Jobs \cup {NoJob, Foreign} : t = DepOf[worker.j]
    BY <2>1, SchedAssumption DEF IInv, WorkerAgrees
  <2>3. DepReady(t)'
    BY <1>5, <2>1, <2>2 DEF DInv, DepsAgree
  <2>4. t = DepOf[worker'.j]
    BY <1>1, <2>2
  <2> QED BY <2>3, <2>4 DEF DepReady, Finished
<1>12. DepsAgree'
  BY <1>7, <1>8, <1>9, <1>10, <1>11 DEF DepsAgree
<1>13. KillsAgree'
  <2>1. ent[e].stopped /\ ~(worker.pc = "pop" /\ worker.e = e)
    BY <1>1 DEF DInv, KillsAgree, IInv, WorkerAgrees
  <2>2. ASSUME NEW f \in Entities, NEW i \in 1..Len(Plan[f]),
               Contains(ent[e].queue, Plan[f][i])
        PROVE  f = e
    <3>1. PICK k \in 1..Len(ent[e].queue) : ent[e].queue[k] = Plan[f][i]
      BY <2>2 DEF Contains
    <3>2. /\ ent[e].sent \in Nat /\ ent[e].sent <= Len(Plan[e])
          /\ Len(ent[e].queue) \in Nat /\ Len(ent[e].queue) <= ent[e].sent
          /\ Len(Plan[e]) \in Nat
          /\ ent[e].queue[k] = Plan[e][ent[e].sent - Len(ent[e].queue) + k]
      BY <1>2, SchedAssumption, LenProperties DEF IInv, QueuesFollowPlan,
         EntRecords
    <3>3. PICK a : a = ent[e].sent - Len(ent[e].queue) + k
      OBVIOUS
    <3>4. a \in 1..Len(Plan[e]) /\ Plan[e][a] = Plan[f][i]
      BY <3>1, <3>2, <3>3
    <3> QED BY <3>4, SchedAssumption
  <2>3. \A f \in Entities : \A i \in 1..Len(Plan[f]) : Plan[f][i] \in Jobs
    BY SchedAssumption
  <2>4. ASSUME NEW f \in Entities, NEW i \in 1..Len(Plan[f]),
               job'[Plan[f][i]].killed
        PROVE  ent'[f].stopped /\ ~(worker'.pc = "pop" /\ worker'.e = f)
    <3>1. job[Plan[f][i]].killed \/ f = e
      BY <1>4, <2>2, <2>3, <2>4
    <3>2. ent[f].stopped /\ ~(worker.pc = "pop" /\ worker.e = f)
      BY <2>1, <3>1 DEF DInv, KillsAgree
    <3> QED BY <1>1, <1>3, <3>2
  <2> QED BY <1>3, <2>1, <2>4 DEF DInv, KillsAgree
<1>14. BehindDependencies'
  <2> SUFFICES ASSUME NEW q \in 1..Len(ring)
               PROVE  LET t == DepOf[ring[q]] IN
                      \/ Finished(job, foreign, t)'
                      \/ /\ t \in Jobs
                         /\ job'[t].hw = "done" \/ \E p \in 1..(q - 1) : ring[p] = t
      BY <1>1 DEF BehindDependencies
  <2>1. PICK t \in Jobs \cup {NoJob, Foreign} : t = DepOf[ring[q]]
    <3>1. ring[q] \in Jobs
      BY DEF IInv, TypeOK, WorkTypes
    <3> QED BY <3>1, SchedAssumption
  <2> QED BY <1>1, <1>4, <1>5, <2>1 DEF DInv, BehindDependencies, Finished
<1> QED BY <1>12, <1>13, <1>14 DEF DInv

(* pop_job leaves a callback on the dependency of the first job. *)
LEMMA PopWaitsDeps ==
    ASSUME IInv, DInv, PopWaits
    PROVE  DInv'
<1>1. PICK e, q : e = worker.e /\ q = ent[e].queue
  OBVIOUS
<1>2. /\ worker.pc = "pop"
      /\ worker'.pc = "idle"
      /\ UNCHANGED <<ring, foreign>>
      /\ e \in Entities /\ ent[e].dep = "none"
  BY <1>1 DEF PopWaits, IInv, WorkerAgrees, Idle
<1>3. /\ ent \in [Entities -> EntRecords] /\ ent[e] \in EntRecords
      /\ job \in [Jobs -> JobRecords] /\ q \in Seq(Jobs)
  BY <1>1, <1>2, QueueProps DEF IInv, TypeOK, EntTypes, JobTypes
<1>4. CASE q = <<>>
  <2>1. job' = job /\ ent' = [ent EXCEPT ![e].dep = ent[e].dep,
                                         ![e].on = ent[e].on, ![e].idle = TRUE]
    BY <1>1, <1>3, <1>4 DEF PopWaits
  <2>2. /\ SameQueues
        /\ \A f \in Entities : /\ DepMoves(f)
                               /\ ent'[f].stopped = ent[f].stopped
                               /\ ent'[f].rq = ent[f].rq
                               /\ ent'[f].kill = ent[f].kill
    BY <1>3, <2>1 DEF SameQueues, DepMoves, EntRecords
  <2>3. \A k \in Jobs : Forward(job[k], job'[k])
    BY <2>1 DEF Forward
  <2> QED BY <1>2, <2>2, <2>3, DQuiet
<1>5. CASE q # <<>>
  <2>1. PICK h, t : h = Head(q) /\ t = DepOf[h]
    OBVIOUS
  <2>2. /\ h \in Jobs /\ h = q[1] /\ Contains(q, h)
        /\ t \in Jobs \cup {NoJob, Foreign}
    BY <1>3, <1>5, <2>1, TailList, SchedAssumption
  <2>3. /\ job' = [job EXCEPT ![h].depTaken = TRUE]
        /\ ent' = [ent EXCEPT ![e].dep = WaitKind(t), ![e].on = t,
                              ![e].idle = TRUE]
    BY <1>1, <1>5, <2>1 DEF PopWaits
  <2>4. PICK d : d = WaitKind(t)
    OBVIOUS
  <2>5. d # "none" /\ (d = "scheduled" => t \in Jobs)
    BY <2>4 DEF WaitKind
  <2>6. /\ SameQueues
        /\ ent'[e].dep = d /\ ent'[e].on = t
        /\ \A f \in Entities \ {e} : ent'[f] = ent[f]
        /\ \A f \in Entities : /\ ent'[f].stopped = ent[f].stopped
                               /\ ent'[f].rq = ent[f].rq
                               /\ ent'[f].kill = ent[f].kill
    <3> DEFINE r == [ent[e] EXCEPT !.dep = d, !.on = t, !.idle = TRUE]
    <3>1. ent' = [ent EXCEPT ![e] = r]
      BY <1>3, <2>3, <2>4
    <3>2. /\ r.sent = ent[e].sent /\ r.queue = ent[e].queue
          /\ r.dep = d /\ r.on = t /\ r.rq = ent[e].rq
          /\ r.stopped = ent[e].stopped /\ r.kill = ent[e].kill
      BY <1>3 DEF EntRecords
    <3> HIDE DEF r
    <3> QED BY <1>2, <1>3, <3>1, <3>2 DEF SameQueues
  <2>7. \A k \in Jobs : /\ job'[k].scheduled = job[k].scheduled
                        /\ job'[k].finished = job[k].finished
                        /\ job'[k].killed = job[k].killed
                        /\ job'[k].hw = job[k].hw
                        /\ job'[k].depTaken => job[k].depTaken \/ k = h
    BY <1>3, <2>2, <2>3 DEF JobRecords
  <2>8. \A x \in Jobs \cup {NoJob, Foreign} :
           /\ DepReady(x)' <=> DepReady(x)
           /\ Finished(job, foreign, x)' <=> Finished(job, foreign, x)
    BY <1>2, <2>7, SchedAssumption DEF DepReady, Finished
  <2>9. \A k : Submitted(k)' <=> Submitted(k)
    BY <2>6, WaitingSame DEF IInv
  <2>10. \A k \in Jobs : job'[k].depTaken => Submitted(k)'
    <3>1. Submitted(h)
      BY <1>1, <1>2, <2>2, QueueProps
    <3> QED BY <2>7, <2>9, <3>1 DEF DInv, DepsAgree
  <2>11. ASSUME NEW f \in Entities, NEW i \in 1..Len(ent'[f].queue)
         PROVE  (LET k == ent[f].queue[i] IN
                 job[k].depTaken =>
                    \/ DepReady(DepOf[k])
                    \/ ent[f].dep # "none" /\ ent[f].on = DepOf[k])'
    <3>1. ent'[f].queue = ent[f].queue /\ i \in 1..Len(ent[f].queue)
      BY <2>6, <2>11 DEF SameQueues
    <3>2. PICK k : k = ent[f].queue[i]
      OBVIOUS
    <3>3. /\ k \in Jobs /\ DepOf[k] \in Jobs \cup {NoJob, Foreign}
          /\ Contains(ent[f].queue, k)
      BY <3>1, <3>2, QueueProps, SchedAssumption DEF Contains
    <3>4. job[k].depTaken => \/ DepReady(DepOf[k])
                             \/ ent[f].dep # "none" /\ ent[f].on = DepOf[k]
      BY <3>1, <3>2 DEF DInv, DepsAgree
    <3>5. job'[k].depTaken => \/ DepReady(DepOf[k])'
                              \/ ent'[f].dep # "none" /\ ent'[f].on = DepOf[k]
      <4>1. CASE k = h
        <5>1. f = e
          BY <1>1, <1>2, <2>2, <3>3, <4>1, QueueProps
        <5> QED BY <2>1, <2>5, <2>6, <4>1, <5>1
      <4>2. CASE k # h
        <5>1. job'[k].depTaken => job[k].depTaken
          BY <2>7, <3>3, <4>2
        <5>2. DepReady(DepOf[k]) => DepReady(DepOf[k])'
          BY <2>8, <3>3
        <5>3. CASE f = e
          BY <1>2, <3>4, <5>1, <5>2, <5>3
        <5>4. CASE f # e
          BY <2>6, <3>4, <5>1, <5>2, <5>4
        <5> QED BY <5>3, <5>4
      <4> QED BY <4>1, <4>2
    <3>6. k = ent'[f].queue[i]
      BY <3>1, <3>2
    <3> QED BY <3>5, <3>6 DEF DepReady, Finished
  <2>12. \A f \in Entities : ent'[f].dep = "scheduled" => ent'[f].on \in Jobs
    BY <2>5, <2>6 DEF DInv, DepsAgree
  <2>13. DepsAgree'
    BY <1>2, <2>6, <2>10, <2>11, <2>12 DEF DInv, DepsAgree, SameQueues
  <2>14. KillsAgree'
    BY <1>2, <2>6, <2>7, KillsStay
  <2>15. BehindDependencies'
    <3> SUFFICES ASSUME NEW n \in 1..Len(ring)
                 PROVE  LET x == DepOf[ring[n]] IN
                        \/ Finished(job, foreign, x)'
                        \/ /\ x \in Jobs
                           /\ \/ job'[x].hw = "done"
                              \/ \E p \in 1..(n - 1) : ring[p] = x
        BY <1>2 DEF BehindDependencies
    <3>1. PICK x \in Jobs \cup {NoJob, Foreign} : x = DepOf[ring[n]]
      <4>1. ring[n] \in Jobs
        BY DEF IInv, TypeOK, WorkTypes
      <4> QED BY <4>1, SchedAssumption
    <3>2. \/ Finished(job, foreign, x)
          \/ /\ x \in Jobs
             /\ job[x].hw = "done" \/ \E p \in 1..(n - 1) : ring[p] = x
      BY <3>1 DEF DInv, BehindDependencies
    <3>3. \/ Finished(job, foreign, x)'
          \/ /\ x \in Jobs
             /\ job'[x].hw = "done" \/ \E p \in 1..(n - 1) : ring[p] = x
      BY <2>7, <2>8, <3>2
    <3> QED BY <1>2, <3>1, <3>3 DEF Finished
  <2> QED BY <2>13, <2>14, <2>15 DEF DInv
<1> QED BY <1>4, <1>5

(* The job that pop_job returns: the entity waits for nothing, its own jobs *)
(* went before it, and none of them was killed.                             *)
LEMMA PopReady ==
    ASSUME IInv, DInv, PopJob, NEW e, NEW j,
           e = worker.e, j = Head(ent[e].queue)
    PROVE  DepReady(DepOf[j])
<1>1. PICK q, t : q = ent[e].queue /\ t = DepOf[j]
  OBVIOUS
<1>2. /\ worker.pc = "pop" /\ e \in Entities /\ ent[e].dep = "none"
      /\ q # <<>> /\ ~MustWait(e, j) /\ worker.j = NoJob
  BY <1>1 DEF PopJob, IInv, WorkerAgrees
<1>3. q \in Seq(Jobs) /\ j \in Jobs /\ j = q[1] /\ Len(q) \in Nat /\ Len(q) > 0
  BY <1>1, <1>2, QueueProps, TailList, LenProperties
<1>4. CASE job[j].depTaken
  <2>1. 1 \in 1..Len(ent[e].queue)
    BY <1>1, <1>3
  <2> QED BY <1>1, <1>2, <1>3, <1>4, <2>1 DEF DInv, DepsAgree
<1>5. CASE ~job[j].depTaken /\ Contains(Plan[e], t)
  <2>1. /\ Plan[e] \in Seq(Jobs) /\ Len(Plan[e]) \in Nat
        /\ ent[e].sent \in Nat /\ ent[e].sent <= Len(Plan[e])
        /\ Len(q) <= ent[e].sent
        /\ \A i \in 1..Len(q) : q[i] = Plan[e][ent[e].sent - Len(q) + i]
    BY <1>1, <1>2, SchedAssumption, LenProperties DEF IInv, QueuesFollowPlan,
       TypeOK, EntTypes, EntRecords
  <2>2. PICK i : i = ent[e].sent - Len(q) + 1
    OBVIOUS
  <2>3. i \in 1..ent[e].sent /\ j = Plan[e][i] /\ i \in Nat
    BY <1>3, <2>1, <2>2
  <2>4. t \in Jobs
    BY <1>5, <2>1 DEF Contains
  <2>5. PICK k \in 1..i - 1 : Plan[e][k] = t
    BY <1>1, <1>2, <1>5, <2>3, <2>4 DEF DInv, DepsAgree
  <2>6. k \in 1..ent[e].sent /\ k \in 1..Len(Plan[e]) /\ k < i
    BY <2>1, <2>3
  <2>7. ~Waiting(t)
    <3>1. Submitted(t)
      BY <1>2, <2>5, <2>6 DEF Submitted
    <3>2. ASSUME NEW f \in Entities, Contains(ent[f].queue, t) PROVE FALSE
      <4>1. PICK m \in 1..Len(ent[f].queue) : ent[f].queue[m] = t
        BY <3>2 DEF Contains
      <4>2. /\ ent[f].sent \in Nat /\ ent[f].sent <= Len(Plan[f])
            /\ Len(ent[f].queue) \in Nat /\ Len(ent[f].queue) <= ent[f].sent
            /\ Len(Plan[f]) \in Nat
            /\ t = Plan[f][ent[f].sent - Len(ent[f].queue) + m]
        BY <4>1, SchedAssumption, LenProperties DEF IInv, QueuesFollowPlan,
           TypeOK, EntTypes, EntRecords
      <4>3. PICK a : a = ent[f].sent - Len(ent[f].queue) + m
        OBVIOUS
      <4>4. a \in 1..Len(Plan[f]) /\ Plan[f][a] = t
        <5>1. \A s, l, n \in Nat : s <= n /\ l <= s =>
                 \A x \in 1..l : s - l + x \in 1..n
          OBVIOUS
        <5>2. a \in 1..Len(Plan[f])
          BY <4>2, <4>3, <5>1
        <5> QED BY <4>2, <4>3, <5>2
      <4>5. f = e /\ a = k
        BY <1>2, <2>5, <2>6, <4>4, SchedAssumption
      <4>6. a >= i
        <5>1. a = ent[e].sent - Len(q) + m /\ m \in 1..Len(q)
          BY <1>1, <4>1, <4>3, <4>5
        <5>2. \A s, l, x \in Nat : x >= 1 => s - l + x >= s - l + 1
          OBVIOUS
        <5> QED BY <1>3, <2>1, <2>2, <5>1, <5>2
      <4> QED BY <2>3, <2>6, <4>5, <4>6
    <3> QED BY <3>1, <3>2 DEF Waiting
  <2>8. ~job[t].killed
    BY <1>1, <1>2, <2>5, <2>6 DEF DInv, KillsAgree
  <2>9. worker.j # t
    BY <1>2, <2>4, SchedAssumption
  <2>10. job[t].scheduled
    BY <2>4, <2>7, <2>8, <2>9 DEF IInv, JobAgrees
  <2> QED BY <1>1, <2>4, <2>10 DEF DepReady
<1>6. CASE ~job[j].depTaken /\ ~Contains(Plan[e], t)
  <2>1. \/ t = NoJob
        \/ WaitKind(t) = "scheduled" /\ job[t].scheduled
        \/ Finished(job, foreign, t)
    BY <1>1, <1>2, <1>6 DEF MustWait
  <2>2. t = NoJob => Finished(job, foreign, t)
    <3>1. ASSUME t = NoJob PROVE Finished(job, foreign, NoJob)
      BY SchedAssumption DEF Finished
    <3> QED BY <3>1
  <2> QED BY <1>1, <2>1, <2>2 DEF WaitKind, DepReady
<1> QED BY <1>4, <1>5, <1>6

LEMMA PopJobDeps ==
    ASSUME IInv, DInv, PopJob
    PROVE  DInv'
<1>1. PICK e, q, j : e = worker.e /\ q = ent[e].queue /\ j = Head(q)
  OBVIOUS
<1>2. /\ worker.pc = "pop" /\ q # <<>> /\ UNCHANGED <<ring, foreign>>
      /\ worker' = [worker EXCEPT !.pc = "run", !.j = j] /\ e \in Entities
  BY <1>1 DEF PopJob, IInv, WorkerAgrees
<1>3. /\ ent \in [Entities -> EntRecords] /\ ent[e] \in EntRecords
      /\ job \in [Jobs -> JobRecords] /\ q \in Seq(Jobs)
      /\ worker'.pc = "run" /\ worker'.j = j
  BY <1>1, <1>2, QueueProps DEF IInv, TypeOK, EntTypes, JobTypes, WorkTypes
<1>4. /\ j \in Jobs /\ Contains(q, j) /\ Len(q) \in Nat
      /\ Len(Tail(q)) = Len(q) - 1
      /\ \A i \in 1..Len(q) - 1 : Tail(q)[i] = q[i + 1]
  BY <1>1, <1>2, <1>3, TailList, LenProperties
<1>5. DepReady(DepOf[j])
  BY <1>1, PopReady
<1>6. /\ ent'[e].queue = Tail(q)
      /\ \A f \in Entities \ {e} : ent'[f] = ent[f]
      /\ \A f \in Entities : /\ ent'[f].sent = ent[f].sent
                             /\ ent'[f].dep = ent[f].dep
                             /\ ent'[f].on = ent[f].on
                             /\ ent'[f].stopped = ent[f].stopped
                             /\ ent'[f].rq = ent[f].rq
                             /\ ent'[f].kill = ent[f].kill
  <2> DEFINE x == ent[e].tree \/ (Fifo /\ Len(ent[e].queue) > 1)
             r == [ent[e] EXCEPT !.last = j, !.queue = Tail(q), !.tree = x]
  <2>1. ent' = [ent EXCEPT ![e] = r]
    BY <1>1, <1>3 DEF PopJob
  <2> HIDE DEF x
  <2>2. /\ r.queue = Tail(q) /\ r.sent = ent[e].sent
        /\ r.dep = ent[e].dep /\ r.on = ent[e].on /\ r.rq = ent[e].rq
        /\ r.stopped = ent[e].stopped /\ r.kill = ent[e].kill
    BY <1>3 DEF EntRecords
  <2> HIDE DEF r
  <2> QED BY <1>2, <1>3, <2>1, <2>2
<1>7. \A k \in Jobs : /\ job'[k].scheduled = job[k].scheduled
                      /\ job'[k].finished = job[k].finished
                      /\ job'[k].killed = job[k].killed
                      /\ job'[k].hw = job[k].hw
                      /\ job'[k].depTaken => job[k].depTaken \/ k = j
  <2> DEFINE x == job[j].err \/ (ent[e].last # NoJob /\ job[ent[e].last].err)
  <2>1. job' = [job EXCEPT ![j] = [job[j] EXCEPT !.depTaken = TRUE, !.err = x]]
    BY <1>1, <1>3 DEF PopJob
  <2> HIDE DEF x
  <2> QED BY <1>3, <1>4, <2>1 DEF JobRecords
<1>8. \A x \in Jobs \cup {NoJob, Foreign} :
         /\ DepReady(x)' <=> DepReady(x)
         /\ Finished(job, foreign, x)' <=> Finished(job, foreign, x)
  BY <1>2, <1>7, SchedAssumption DEF DepReady, Finished
<1>9. \A k : Submitted(k)' <=> Submitted(k)
  BY <1>6 DEF Submitted
<1>10. \A k \in Jobs : job'[k].depTaken => Submitted(k)'
  <2>1. Submitted(j)
    BY <1>1, <1>2, <1>4, QueueProps
  <2> QED BY <1>7, <1>9, <2>1 DEF DInv, DepsAgree
<1>11. ASSUME NEW f \in Entities, NEW i \in 1..Len(ent'[f].queue)
       PROVE  (LET k == ent[f].queue[i] IN
               job[k].depTaken =>
                  \/ DepReady(DepOf[k])
                  \/ ent[f].dep # "none" /\ ent[f].on = DepOf[k])'
  <2>1. PICK k : k = ent'[f].queue[i]
    OBVIOUS
  <2>2. PICK m \in 1..Len(ent[f].queue) : ent[f].queue[m] = k
    <3>1. CASE f = e
      <4>1. k = Tail(q)[i] /\ i \in 1..Len(Tail(q))
        BY <1>6, <1>11, <2>1, <3>1
      <4>2. i \in 1..Len(q) - 1 /\ i + 1 \in 1..Len(q)
        BY <1>4, <4>1
      <4> QED BY <1>1, <1>4, <3>1, <4>1, <4>2
    <3>2. CASE f # e
      <4>1. ent'[f] = ent[f]
        BY <1>6, <3>2
      <4> QED BY <1>11, <2>1, <4>1
    <3> QED BY <3>1, <3>2
  <2>3. k \in Jobs /\ DepOf[k] \in Jobs \cup {NoJob, Foreign}
    BY <2>2, QueueProps, SchedAssumption
  <2>4. job[k].depTaken => \/ DepReady(DepOf[k])
                           \/ ent[f].dep # "none" /\ ent[f].on = DepOf[k]
    BY <2>2 DEF DInv, DepsAgree
  <2>5. job'[k].depTaken => job[k].depTaken \/ DepReady(DepOf[k])
    BY <1>5, <1>7, <2>3
  <2>6. job'[k].depTaken => \/ DepReady(DepOf[k])'
                            \/ ent'[f].dep # "none" /\ ent'[f].on = DepOf[k]
    BY <1>6, <1>8, <2>3, <2>4, <2>5
  <2> QED BY <2>1, <2>6 DEF DepReady, Finished
<1>12. worker'.pc = "run" => DepReady(DepOf[worker.j])'
  <2>1. PICK t \in Jobs \cup {NoJob, Foreign} : t = DepOf[j]
    BY <1>4, SchedAssumption
  <2>2. DepReady(t)' /\ t = DepOf[worker'.j]
    BY <1>3, <1>5, <1>8, <2>1
  <2> QED BY <2>2 DEF DepReady, Finished
<1>13. DepsAgree'
  BY <1>6, <1>10, <1>11, <1>12 DEF DInv, DepsAgree
<1>14. KillsAgree'
  BY <1>3, <1>6, <1>7, KillsStay
<1>15. BehindDependencies'
  <2> SUFFICES ASSUME NEW n \in 1..Len(ring)
               PROVE  LET x == DepOf[ring[n]] IN
                      \/ Finished(job, foreign, x)'
                      \/ /\ x \in Jobs
                         /\ \/ job'[x].hw = "done"
                            \/ \E p \in 1..(n - 1) : ring[p] = x
      BY <1>2 DEF BehindDependencies
  <2>1. PICK x \in Jobs \cup {NoJob, Foreign} : x = DepOf[ring[n]]
    <3>1. ring[n] \in Jobs
      BY DEF IInv, TypeOK, WorkTypes
    <3> QED BY <3>1, SchedAssumption
  <2>2. \/ Finished(job, foreign, x)
        \/ /\ x \in Jobs
           /\ job[x].hw = "done" \/ \E p \in 1..(n - 1) : ring[p] = x
    BY <2>1 DEF DInv, BehindDependencies
  <2>3. \/ Finished(job, foreign, x)'
        \/ /\ x \in Jobs
           /\ job'[x].hw = "done" \/ \E p \in 1..(n - 1) : ring[p] = x
    BY <1>7, <1>8, <2>2
  <2> QED BY <1>2, <2>1, <2>3 DEF Finished
<1> QED BY <1>13, <1>14, <1>15 DEF DInv

(* amdgpu_job_run puts the job behind its dependency. *)
LEMMA RunJobDeps ==
    ASSUME IInv, DInv, RunJob
    PROVE  DInv'
<1>1. PICK j, t : j = worker.j /\ t = DepOf[j]
  OBVIOUS
<1>2. /\ worker.pc = "run" /\ worker'.pc = "callback" /\ foreign' = foreign
      /\ j \in Jobs /\ job[j].hw = "none" /\ worker.e \in Entities
      /\ DepReady(t)
  BY <1>1 DEF RunJob, IInv, WorkerAgrees, DInv, DepsAgree
<1>3. /\ ent \in [Entities -> EntRecords] /\ job \in [Jobs -> JobRecords]
      /\ ring \in Seq(Jobs) /\ Len(ring) \in Nat
      /\ t \in Jobs \cup {NoJob, Foreign}
  BY <1>1, <1>2, LenProperties, SchedAssumption DEF IInv, TypeOK, EntTypes,
     JobTypes, WorkTypes
<1>4. \A k \in Jobs : /\ Forward(job[k], job'[k])
                      /\ job'[k].finished = job[k].finished
  <2>1. CASE UNCHANGED job
    BY <2>1 DEF Forward
  <2>2. ASSUME NEW h, job' = [job EXCEPT ![j].hw = h]
        PROVE  \A k \in Jobs : /\ Forward(job[k], job'[k])
                                /\ job'[k].finished = job[k].finished
    <3> DEFINE b == [job[j] EXCEPT !.hw = h]
    <3>1. job' = [job EXCEPT ![j] = b]
      BY <2>2
    <3>2. job[j] \in JobRecords
      BY <1>2, <1>3
    <3>3. /\ b.scheduled = job[j].scheduled /\ b.finished = job[j].finished
          /\ b.depTaken = job[j].depTaken /\ b.killed = job[j].killed
      BY <3>2 DEF JobRecords
    <3> HIDE DEF b
    <3>4. job'[j] = b /\ \A k \in Jobs \ {j} : job'[k] = job[k]
      BY <1>2, <1>3, <3>1
    <3>5. Forward(job[j], job'[j]) /\ job'[j].finished = job[j].finished
      BY <1>2, <3>3, <3>4 DEF Forward
    <3>6. ASSUME NEW k \in Jobs \ {j}
          PROVE  Forward(job[k], job'[k]) /\ job'[k].finished = job[k].finished
      BY <3>4 DEF Forward
    <3> QED BY <3>5, <3>6
  <2>3. UNCHANGED job \/ \E h : job' = [job EXCEPT ![j].hw = h]
    BY <1>1 DEF RunJob
  <2> QED BY <2>1, <2>2, <2>3
<1>5. /\ SameQueues
      /\ \A e \in Entities : /\ DepMoves(e)
                             /\ ent'[e].stopped = ent[e].stopped
                             /\ ent'[e].rq = ent[e].rq
                             /\ ent'[e].kill = ent[e].kill
  <2>1. PICK e \in Entities : e = worker.e
    BY <1>2
  <2>2. ent' = [ent EXCEPT ![e].idle = TRUE]
    BY <2>1 DEF RunJob
  <2> QED BY <1>3, <2>2 DEF SameQueues, DepMoves, EntRecords
<1>6. BehindDependencies'
  <2>1. CASE ring' = ring
    BY <1>2, <1>4, <2>1, RingStays DEF DInv
  <2>2. CASE ring' = Append(ring, j)
    <3>1. /\ Len(ring') = Len(ring) + 1 /\ ring'[Len(ring) + 1] = j
          /\ \A i \in 1..Len(ring) : ring'[i] = ring[i]
      BY <1>2, <1>3, <2>2, AppendList
    <3> SUFFICES ASSUME NEW q \in 1..Len(ring')
                 PROVE  (LET x == DepOf[ring[q]] IN
                         \/ Finished(job, foreign, x)
                         \/ /\ x \in Jobs
                            /\ \/ job[x].hw = "done"
                               \/ \E p \in 1..(q - 1) : ring[p] = x)'
        BY DEF BehindDependencies
    <3>2. PICK x : x = DepOf[ring'[q]]
      OBVIOUS
    <3>3. ring'[q] \in Jobs /\ x \in Jobs \cup {NoJob, Foreign}
      <4>1. q \in 1..Len(ring) \/ q = Len(ring) + 1
        BY <1>3, <3>1
      <4>2. CASE q \in 1..Len(ring)
        <5>1. ring'[q] \in Jobs
          BY <1>3, <3>1, <4>2
        <5> QED BY <3>2, <5>1, SchedAssumption
      <4>3. CASE q = Len(ring) + 1
        <5>1. ring'[q] \in Jobs
          BY <1>2, <3>1, <4>3
        <5> QED BY <3>2, <5>1, SchedAssumption
      <4> QED BY <4>1, <4>2, <4>3
    <3>4. \/ Finished(job, foreign, x)
          \/ x \in Jobs /\ job[x].finished
          \/ x \in Jobs /\ (job[x].hw = "done" \/ \E p \in 1..(q - 1) : ring[p] = x)
      <4>1. CASE q \in 1..Len(ring)
        BY <3>1, <3>2, <4>1 DEF DInv, BehindDependencies
      <4>2. CASE q = Len(ring) + 1
        <5>1. x = t /\ q - 1 = Len(ring)
          BY <1>1, <1>3, <3>1, <3>2, <4>2
        <5>2. tdr.pc # "start"
          BY <1>2 DEF IInv, TimeoutAgrees
        <5>3. t \in Jobs /\ job[t].scheduled =>
                 job[t].finished \/ job[t].hw = "done" \/ Contains(ring, t)
          BY <5>2 DEF IInv, RingAgrees
        <5>4. Contains(ring, t) => \E p \in 1..Len(ring) : ring[p] = t
          BY DEF Contains
        <5> QED BY <1>2, <5>1, <5>3, <5>4 DEF DepReady
      <4> QED BY <1>3, <3>1, <4>1, <4>2
    <3>5. Finished(job, foreign, x) => Finished(job, foreign, x)'
      BY <1>2, <1>4, <3>3, ReadyStays
    <3>6. x \in Jobs /\ job'[x].finished => Finished(job, foreign, x)'
      BY SchedAssumption DEF Finished
    <3>7. ASSUME NEW p \in 1..(q - 1), ring[p] = x
          PROVE  ring'[p] = x
      <4>1. p \in 1..Len(ring)
        BY <1>3, <3>1
      <4> QED BY <3>1, <3>7, <4>1
    <3>8. \/ Finished(job, foreign, x)'
          \/ x \in Jobs /\ (job'[x].hw = "done" \/ \E p \in 1..(q - 1) : ring'[p] = x)
      BY <1>4, <3>4, <3>5, <3>6, <3>7 DEF Forward
    <3> QED BY <3>2, <3>8 DEF Finished
  <2> QED BY <1>1, <2>1, <2>2 DEF RunJob
<1>7. DepsAgree'
  BY <1>2, <1>4, <1>5, <1>6, DepsStay
<1>8. KillsAgree'
  BY <1>2, <1>4, <1>5, KillsStay DEF Forward
<1> QED BY <1>6, <1>7, <1>8 DEF DInv

(* Every step keeps the invariant of the dependencies. *)
LEMMA NextDeps == Kept /\ IInv /\ DInv /\ [Next]_vars => DInv'
<1> SUFFICES ASSUME Kept, IInv, DInv, [Next]_vars PROVE DInv'
    OBVIOUS
<1>1. CASE UNCHANGED vars
  <2>1. UNCHANGED <<ent, job, worker, ring, foreign>>
    BY <1>1 DEF vars
  <2>2. /\ SameQueues /\ \A e \in Entities : DepMoves(e)
        /\ \A k \in Jobs : Forward(job[k], job'[k])
    BY <2>1 DEF SameQueues, DepMoves, Forward
  <2> QED BY <2>1, <2>2, DQuiet
<1>2. ASSUME NEW e \in Entities, PushJob(e) \/ PushFirst(e) \/ KillJobs(e)
                                   \/ SelectEntity(e)
      PROVE  DInv'
  BY <1>2, PushJobDeps, PushFirstDeps, KillJobsDeps, SelectEntityDeps
<1>3. ASSUME NEW e \in Entities, NEW fini \in BOOLEAN, KillEntity(e, fini)
      PROVE  DInv'
  BY <1>3, KillEntityDeps
<1>4. CASE PopWaits \/ PopJob \/ RunJob
  BY <1>4, PopWaitsDeps, PopJobDeps, RunJobDeps
<1>5. CASE HwSignal \/ HwReset
  BY <1>5, HwSignalDeps, HwResetDeps
<1>6. CASE \/ \E j \in Jobs : KillJobsWork(j)
           \/ AddCallback \/ FreeJobWork \/ SchedStart
           \/ SoftRecovery \/ SoftRecoveryEnds
           \/ \E guilty \in BOOLEAN : RingReset(guilty)
           \/ StopJob \/ TimedoutReturns
           \/ SelectNone \/ ForeignSignal \/ Timedout \/ Recover
  BY <1>6, QuietDeps
<1>7. ASSUME NEW w \in {"run", "free"}, QueueLate(w) PROVE DInv'
  <2>1. UNCHANGED <<ent, job, worker, ring, foreign>>
    BY <1>7 DEF QueueLate
  <2>2. /\ SameQueues /\ \A e \in Entities : DepMoves(e)
        /\ \A k \in Jobs : Forward(job[k], job'[k])
    BY <2>1 DEF SameQueues, DepMoves, Forward
  <2> QED BY <2>1, <2>2, DQuiet
<1> QED BY <1>1, <1>2, <1>3, <1>4, <1>5, <1>6, <1>7 DEF Next

-----------------------------------------------------------------------------
(* The results.                                                            *)

(* The inductive invariant holds of every behaviour, until a work is       *)
(* queued between drm_sched_stop and the end of drm_sched_start.           *)
THEOREM Invariant == Spec => []SInv
<1>1. Init => SInv
  <2>1. Init => LateTypes
    BY DEF Init, LateTypes
  <2> QED BY <2>1, InitInv DEF SInv
<1>2. SInv /\ [Next]_vars => SInv'
  BY NextInv, LateKept DEF SInv
<1> QED BY <1>1, <1>2, PTL DEF Spec

(* A job is released once, after its fence has signalled, when no list,    *)
(* thread or hardware fence refers to it any more: the free work, the loop *)
(* of drm_sched_stop, the end of the timeout and the work that finishes    *)
(* killed jobs all call free_job.  This holds until a thread that tested   *)
(* pause_submit before the stop queues its work after it.                  *)
THEOREM FreedOnce == Spec => []NoUseAfterFree
<1>1. SInv => NoUseAfterFree
  BY DEF SInv, IInv, NoUseAfterFree
<1> QED BY <1>1, Invariant, PTL

(* credit_count is the number of jobs that were begun and have not         *)
(* finished, less those a stop has detached, and stays within the limit,   *)
(* until a thread that tested pause_submit before the stop queues its work *)
(* after it.                                                               *)
THEOREM CreditsCounted == Spec => []CreditsExact
<1>1. SInv => CreditsExact
  <2> SUFFICES ASSUME SInv, ~late.stray PROVE CreditsMatch
      BY DEF CreditsExact
  <2>1. {j \in Begun : /\ ~job[j].finished
                       /\ ~(job[j].scheduled /\ ~job[j].parent)} = Charged
    BY DEF Begun, Charged, Waiting, Detached
  <2>2. CreditsAgree
    BY DEF SInv, IInv
  <2> QED BY <2>1, <2>2 DEF CreditsAgree, CreditsMatch
<1> QED BY <1>1, Invariant, PTL

(* A job is in the ring only behind the job it depends on, or after that   *)
(* one has finished, until such a late work runs.  With FIFO, and entities *)
(* that may be killed, this is not so: drm_sched_entity_pop_job puts a     *)
(* killed entity back in the tree.                                         *)
THEOREM BehindDependency ==
    ASSUME Kept
    PROVE  Spec => []DependenciesFirst
<1>1. Init => SDInv
  <2>1. Init => LateTypes
    BY DEF Init, LateTypes
  <2> QED BY <2>1, InitInv DEF SDInv, SInv
<1>2. SDInv /\ [Next]_vars => SDInv'
  BY NextInv, NextDeps, LateKept DEF SDInv, SInv
<1>3. SDInv => DependenciesFirst
  BY DEF SDInv, DInv, DependenciesFirst
<1> QED BY <1>1, <1>2, <1>3, PTL DEF Spec
=============================================================================
