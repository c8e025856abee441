-------------------------- MODULE KfdEvict_proofs --------------------------
(***************************************************************************)
(* For every number of devices and of events: the eviction counter of each *)
(* device is the number of those who keep it stopped, and no queue is on   *)
(* the hardware while the memory of its process may move.                  *)
(***************************************************************************)
EXTENDS KfdEvict, TLAPS

(* Where each agent can be. *)
PlacesKnown ==
    /\ pc["eviction_work"] \in {"idle", "evicting", "fence", "signal", "queue",
                               "undo"}
    /\ pc["restore_work"] \in {"idle", "bos", "restoring", "requeue", "undo"}
    /\ pc["suspend"] \in {"idle", "evicting", "fence", "signal", "stop",
                         "stopped", "resume", "bos", "restoring"}
    /\ pc["reset"] \in {"idle", "pre", "evicting", "fence", "signal", "stop",
                       "post"}
    /\ pc["svm_evict"] \in {"idle", "evicting", "queue"}
    /\ pc["svm_restore_work"] \in {"idle", "map", "undo"}

(* The loops stay between their bounds, and an eviction visits every device. *)
LoopsBounded ==
    \A a \in Agents :
        /\ dev[a] <= last[a]
        /\ pc[a] = "evicting" => last[a] = N

(* Agents that are about to signal or have evicted for suspend and reset.   *)
Suspending(a) == pc[a] \in {"evicting", "fence", "signal"}

(* kfd_locked counts those between kgd2kfd_suspend_process and               *)
(* kgd2kfd_resume_process, and the process they stopped stays stopped.       *)
LockCounts ==
    /\ locked = One(Suspending("suspend")
                    \/ pc["suspend"] \in {"stop", "stopped", "resume"})
                + One(Suspending("reset") \/ pc["reset"] \in {"stop", "post"})
    /\ exit = "in" /\ locked > 0
         => kept > 0 \/ Suspending("suspend") \/ Suspending("reset")
    /\ pc["suspend"] = "bos" => kept > 0 /\ locked = 0
    /\ ~MutexFree => exit = "in"

(* The evicted ranges of SVM have one thread or work item that answers for   *)
(* them.                                                                     *)
RangesOwned ==
    /\ evictedRanges = 0 =>
         /\ pc["svm_evict"] = "idle" /\ pc["svm_restore_work"] # "map"
         /\ "svm_restore_work" \notin pending
    /\ pc["svm_evict"] # "idle" =>
         /\ pc["svm_restore_work"] # "map"
         /\ "svm_restore_work" \notin pending
    /\ pc["svm_restore_work"] = "map" => "svm_restore_work" \notin pending

(* A fence that has signalled has somebody who will bring the queues back.   *)
SignalOwned ==
    exit = "in" /\ signaled =>
        \/ "restore_work" \in pending
        \/ pc["eviction_work"] = "queue"
        \/ pc["restore_work"] \in {"bos", "requeue"}
        \/ kept > 0

(* Only an active queue is on the hardware, unless its device waits for a    *)
(* reset, and an active queue is not evicted.                                *)
HardwareAgrees ==
    /\ sem <=> pc["reset"] # "idle"
    /\ pc["reset"] = "post" => \A d \in ResetDevs : ~running[d]
    /\ \A d \in Devs :
         /\ ~running[d] => ~hw[d]
         /\ queue[d] = "active" => evicted[d] = 0
         /\ hw[d] => \/ queue[d] = "active"
                     \/ d \in ResetDevs /\ (sem \/ resetWork)

Control == PlacesKnown /\ LoopsBounded /\ LockCounts
           /\ RangesOwned /\ SignalOwned

(* An error of restore_work is one that has unbalanced the counters.         *)
ErrorCounts == error => unbalanced

IInv == TypeOK /\ Control /\ HardwareAgrees /\ ErrorCounts /\ EvictionsBalanced

(* The initial state satisfies the inductive invariant. *)
LEMMA InitInv == Init => IInv
<1> SUFFICES ASSUME Init PROVE IInv
    OBVIOUS
<1> USE EvictAssumption DEF Init, Devs
<1>1. TypeOK
  <2>1. DeviceTypes
    BY DEF DeviceTypes
  <2>2. FenceTypes
    <3>1. 0 \in 0 .. seqno
      OBVIOUS
    <3> QED BY <3>1 DEF FenceTypes
  <2>3. LoopTypes
    BY DEF LoopTypes, Labels
  <2>4. CountTypes
    BY DEF CountTypes
  <2>5. FlagTypes
    BY DEF FlagTypes
  <2> QED BY <2>1, <2>2, <2>3, <2>4, <2>5 DEF TypeOK
<1> USE DEF Agents
<1>2. Control
  BY DEF Control, PlacesKnown, LoopsBounded, LockCounts, RangesOwned,
     SignalOwned, One, Suspending, MutexFree
<1>3. HardwareAgrees
  BY DEF HardwareAgrees
<1>4. ErrorCounts
  BY DEF ErrorCounts
<1>5. EvictionsBalanced
  BY DEF EvictionsBalanced, Holders, One, InLoop
<1> QED BY <1>1, <1>2, <1>3, <1>4, <1>5 DEF IInv

(* What a round of a loop does to the place of its agent: all others stay. *)
Others(a) ==
    \A b \in Agents \ {a} :
        pc'[b] = pc[b] /\ dev'[b] = dev[b] /\ last'[b] = last[b]

(* Goto moves one agent. *)
LEMMA GotoMoves ==
    ASSUME LoopTypes, NEW a \in Agents, NEW w \in Labels, Goto(a, w)
    PROVE  /\ LoopTypes' /\ Others(a)
           /\ pc'[a] = w /\ dev'[a] = dev[a] /\ last'[a] = last[a]
BY DEF LoopTypes, Goto, Others

(* Loop sends one agent to the first of n devices. *)
LEMMA LoopMoves ==
    ASSUME LoopTypes, NEW a \in Agents, NEW w \in Labels, NEW n \in Devs,
           Loop(a, w, n)
    PROVE  /\ LoopTypes' /\ Others(a)
           /\ pc'[a] = w /\ dev'[a] = 1 /\ last'[a] = n
<1>1. 1 \in Devs
  BY EvictAssumption DEF Devs
<1> QED BY <1>1 DEF LoopTypes, Loop, Others

(* Step moves one agent to its next device, or out of its loop. *)
LEMMA StepMoves ==
    ASSUME LoopTypes, LoopsBounded, NEW a \in Agents, NEW w \in Labels,
           Step(a, w)
    PROVE  /\ LoopTypes' /\ Others(a)
           /\ \/ /\ dev[a] < last[a]
                 /\ pc'[a] = pc[a]
                 /\ dev'[a] = dev[a] + 1
                 /\ last'[a] = last[a]
              \/ /\ dev[a] = last[a]
                 /\ pc'[a] = w /\ dev'[a] = 1 /\ last'[a] = N
<1>1. /\ dev[a] \in 1 .. N
      /\ last[a] \in 1 .. N
      /\ dev[a] <= last[a]
      /\ N \in Devs
  BY EvictAssumption DEF LoopTypes, LoopsBounded, Devs
<1>2. CASE dev[a] < last[a]
  <2>1. dev[a] + 1 \in Devs
    BY <1>1, <1>2 DEF Devs
  <2> QED BY <1>2, <2>1 DEF Step, LoopTypes, Others
<1>3. CASE ~(dev[a] < last[a])
  <2>1. Loop(a, w, N)
    BY <1>3 DEF Step
  <2> QED BY <1>1, <1>3, <2>1, LoopMoves
<1> QED BY <1>2, <1>3

(* signal_eviction_fence takes a reference to the fence and drops it again. *)
LEMMA FenceMoves ==
    ASSUME FenceTypes, NEW a \in Agents, NEW n \in {0, seqno},
           ef' = [ef EXCEPT ![a] = n], seqno' = seqno, asked' = asked,
           signaled' \in BOOLEAN
    PROVE  FenceTypes'
<1>1. n \in 0 .. seqno
  BY DEF FenceTypes
<1> QED BY <1>1 DEF FenceTypes

(* The devices are 1 .. N, and there is one. *)
LEMMA NInDevs == N \in Devs /\ 1 \in Devs /\ Devs = 1 .. N /\ N \in Nat
BY EvictAssumption DEF Devs

(* TTM asks for the eviction fence. *)
LEMMA EnableSignalingKeeps ==
    ASSUME IInv, EnableSignaling
    PROVE  IInv'
<1> USE DEF IInv, TypeOK, EnableSignaling, Happens, deviceVars, fenceVars,
    loopVars, resetVars, svmVars, histVars
<1>1. TypeOK'
  <2>1. DeviceTypes'
    BY DEF DeviceTypes
  <2>2. FenceTypes'
    <3>1. seqno' \in Nat /\ asked' \in 0 .. seqno' /\ seqno' = seqno
      BY DEF FenceTypes
    <3>2. ef' = ef /\ signaled' \in BOOLEAN
      BY DEF FenceTypes
    <3> QED BY <3>1, <3>2 DEF FenceTypes
  <2>3. LoopTypes'
    BY DEF LoopTypes
  <2>4. CountTypes'
    BY EvictAssumption DEF CountTypes
  <2>5. FlagTypes'
    BY DEF FlagTypes
  <2> QED BY <2>1, <2>2, <2>3, <2>4, <2>5
<1>2. Control'
  BY DEF Control, PlacesKnown, LoopsBounded, LockCounts, RangesOwned,
     SignalOwned, Suspending, MutexFree, One, CountTypes
<1>3. HardwareAgrees'
  BY DEF HardwareAgrees
<1>4. ErrorCounts'
  BY DEF ErrorCounts
<1>5. EvictionsBalanced'
  BY DEF EvictionsBalanced, Holders, InLoop, Control, PlacesKnown, One,
     CountTypes
<1> QED BY <1>1, <1>2, <1>3, <1>4, <1>5

(* evict_process_worker starts. *)
LEMMA StartEvictionKeeps ==
    ASSUME IInv, StartEviction
    PROVE  IInv'
<1> USE DEF IInv, TypeOK, StartEviction, deviceVars, fenceVars, loopVars,
    resetVars, svmVars, histVars
<1>a. "eviction_work" \in Agents /\ "evicting" \in Labels
  BY DEF Agents, Labels
<1>b. /\ LoopTypes' /\ Others("eviction_work")
      /\ pc'["eviction_work"] = "evicting"
      /\ dev'["eviction_work"] = 1
      /\ last'["eviction_work"] = N
  BY <1>a, LoopMoves, NInDevs
<1>1. TypeOK'
  BY <1>b DEF DeviceTypes, FenceTypes, LoopTypes, CountTypes, FlagTypes
<1>2. Control'
  BY <1>b, NInDevs DEF Control, PlacesKnown, LoopsBounded, LockCounts,
     RangesOwned, SignalOwned, Suspending, MutexFree, Others, Agents, One,
     CountTypes
<1>3. HardwareAgrees'
  BY <1>b DEF HardwareAgrees, Others, Agents
<1>4. ErrorCounts'
  BY DEF ErrorCounts
<1>5. EvictionsBalanced'
  <2>1. ASSUME NEW d \in Devs PROVE Holders(d)' = Holders(d)
    BY <1>b, NInDevs DEF Holders, InLoop, Others, Agents, Control,
       PlacesKnown, One
  <2> QED BY <2>1 DEF EvictionsBalanced
<1> QED BY <1>1, <1>2, <1>3, <1>4, <1>5

(* restore_process_worker starts. *)
LEMMA StartRestoreKeeps ==
    ASSUME IInv, StartRestore
    PROVE  IInv'
<1> USE DEF IInv, TypeOK, StartRestore, deviceVars, fenceVars, loopVars,
    resetVars, svmVars, histVars
<1>a. "restore_work" \in Agents /\ "bos" \in Labels
  BY DEF Agents, Labels
<1>b. /\ LoopTypes' /\ Others("restore_work")
      /\ pc'["restore_work"] = "bos"
      /\ dev'["restore_work"] = dev["restore_work"]
      /\ last'["restore_work"] = last["restore_work"]
  BY <1>a, GotoMoves
<1>1. TypeOK'
  BY <1>b DEF DeviceTypes, FenceTypes, LoopTypes, CountTypes, FlagTypes
<1>2. Control'
  BY <1>b DEF Control, PlacesKnown, LoopsBounded, LockCounts, RangesOwned,
     SignalOwned, Suspending, MutexFree, Others, Agents, One, CountTypes
<1>3. HardwareAgrees'
  BY <1>b DEF HardwareAgrees, Others, Agents
<1>4. ErrorCounts'
  BY DEF ErrorCounts
<1>5. EvictionsBalanced'
  BY <1>b DEF EvictionsBalanced, Holders, InLoop, Others, Agents, Control,
     PlacesKnown, One, CountTypes
<1> QED BY <1>1, <1>2, <1>3, <1>4, <1>5

(* evict_process_worker signals the fence, or undoes the eviction. *)
LEMMA SignalFenceKeeps ==
    ASSUME IInv, SignalFence
    PROVE  IInv'
<1> USE DEF IInv, TypeOK, SignalFence, deviceVars, fenceVars, loopVars,
    resetVars, svmVars, histVars
<1>a. "eviction_work" \in Agents /\ "queue" \in Labels /\ "undo" \in Labels
  BY DEF Agents, Labels
<1>b. /\ LoopTypes' /\ Others("eviction_work")
      /\ last'["eviction_work"] \in Devs
      /\ \/ /\ ef["eviction_work"] = seqno /\ ~signaled
            /\ pc'["eviction_work"] = "queue"
            /\ dev'["eviction_work"] = dev["eviction_work"]
            /\ last'["eviction_work"] = last["eviction_work"]
         \/ /\ signaled' = signaled
            /\ pc'["eviction_work"] = "undo" /\ dev'["eviction_work"] = 1
            /\ last'["eviction_work"] = N
  BY <1>a, GotoMoves, LoopMoves, NInDevs DEF LoopTypes
<1>1. TypeOK'
  <2>1. DeviceTypes'
    BY DEF DeviceTypes
  <2>2. FenceTypes'
    <3>1. signaled' \in BOOLEAN
      BY <1>b DEF FenceTypes
    <3> QED BY <1>a, <3>1, FenceMoves
  <2>3. LoopTypes'
    BY <1>b
  <2>4. CountTypes'
    BY DEF CountTypes
  <2>5. FlagTypes'
    BY DEF FlagTypes
  <2> QED BY <2>1, <2>2, <2>3, <2>4, <2>5
<1>2. Control'
  BY <1>b, NInDevs DEF Control, PlacesKnown, LoopsBounded, LockCounts,
     RangesOwned, SignalOwned, Suspending, MutexFree, Others, Agents, One,
     CountTypes
<1>3. HardwareAgrees'
  BY <1>b DEF HardwareAgrees, Others, Agents
<1>4. ErrorCounts'
  BY DEF ErrorCounts
<1>5. EvictionsBalanced'
  <2>1. ASSUME NEW d \in Devs PROVE Holders(d)' = Holders(d)
    BY <1>b, NInDevs DEF Holders, InLoop, Others, Agents, Control,
       PlacesKnown, One
  <2> QED BY <2>1 DEF EvictionsBalanced
<1> QED BY <1>1, <1>2, <1>3, <1>4, <1>5

(* svm_range_evict queues the work that maps the ranges. *)
LEMMA SvmQueueKeeps ==
    ASSUME IInv, SvmQueue
    PROVE  IInv'
<1> USE DEF IInv, TypeOK, SvmQueue, deviceVars, fenceVars, loopVars,
    resetVars, svmVars, histVars
<1>a. "svm_evict" \in Agents /\ "idle" \in Labels
  BY DEF Agents, Labels
<1>b. /\ LoopTypes' /\ Others("svm_evict")
      /\ pc'["svm_evict"] = "idle" /\ dev'["svm_evict"] = dev["svm_evict"]
      /\ last'["svm_evict"] = last["svm_evict"]
  BY <1>a, GotoMoves
<1>1. TypeOK'
  BY <1>b DEF DeviceTypes, FenceTypes, LoopTypes, CountTypes, FlagTypes
<1>2. Control'
  BY <1>b DEF Control, PlacesKnown, LoopsBounded, LockCounts, RangesOwned,
     SignalOwned, Suspending, MutexFree, Others, Agents, One, CountTypes
<1>3. HardwareAgrees'
  BY <1>b DEF HardwareAgrees, Others, Agents
<1>4. ErrorCounts'
  BY DEF ErrorCounts
<1>5. EvictionsBalanced'
  BY <1>b DEF EvictionsBalanced, Holders, InLoop, Others, Agents, Control,
     PlacesKnown, One, CountTypes
<1> QED BY <1>1, <1>2, <1>3, <1>4, <1>5

(* svm_range_restore_work starts. *)
LEMMA SvmStartKeeps ==
    ASSUME IInv, SvmStart
    PROVE  IInv'
<1> USE DEF IInv, TypeOK, SvmStart, deviceVars, fenceVars, loopVars,
    resetVars, svmVars, histVars
<1>a. "svm_restore_work" \in Agents /\ "idle" \in Labels /\ "map" \in Labels
  BY DEF Agents, Labels
<1>b. /\ LoopTypes' /\ Others("svm_restore_work")
      /\ pc'["svm_restore_work"] = (IF evictedRanges = 0 THEN "idle"
                                                     ELSE "map")
      /\ dev'["svm_restore_work"] = dev["svm_restore_work"]
      /\ last'["svm_restore_work"] = last["svm_restore_work"]
  BY <1>a, GotoMoves
<1>1. TypeOK'
  BY <1>b DEF DeviceTypes, FenceTypes, LoopTypes, CountTypes, FlagTypes
<1>2. Control'
  BY <1>b DEF Control, PlacesKnown, LoopsBounded, LockCounts, RangesOwned,
     SignalOwned, Suspending, MutexFree, Others, Agents, One, CountTypes
<1>3. HardwareAgrees'
  BY <1>b DEF HardwareAgrees, Others, Agents
<1>4. ErrorCounts'
  BY DEF ErrorCounts
<1>5. EvictionsBalanced'
  BY <1>b DEF EvictionsBalanced, Holders, InLoop, Others, Agents, Control,
     PlacesKnown, One, CountTypes
<1> QED BY <1>1, <1>2, <1>3, <1>4, <1>5

(* svm_range_restore_work is queued again. *)
LEMMA SvmAgainKeeps ==
    ASSUME IInv, SvmAgain
    PROVE  IInv'
<1> USE DEF IInv, TypeOK, SvmAgain, deviceVars, fenceVars, loopVars,
    resetVars, svmVars, histVars
<1>a. "svm_restore_work" \in Agents /\ "idle" \in Labels
  BY DEF Agents, Labels
<1>b. /\ LoopTypes' /\ Others("svm_restore_work")
      /\ pc'["svm_restore_work"] = "idle"
      /\ dev'["svm_restore_work"] = dev["svm_restore_work"]
      /\ last'["svm_restore_work"] = last["svm_restore_work"]
  BY <1>a, GotoMoves
<1>1. TypeOK'
  BY <1>b DEF DeviceTypes, FenceTypes, LoopTypes, CountTypes, FlagTypes
<1>2. Control'
  BY <1>b DEF Control, PlacesKnown, LoopsBounded, LockCounts, RangesOwned,
     SignalOwned, Suspending, MutexFree, Others, Agents, One, CountTypes
<1>3. HardwareAgrees'
  BY <1>b DEF HardwareAgrees, Others, Agents
<1>4. ErrorCounts'
  BY DEF ErrorCounts
<1>5. EvictionsBalanced'
  BY <1>b DEF EvictionsBalanced, Holders, InLoop, Others, Agents, Control,
     PlacesKnown, One, CountTypes
<1> QED BY <1>1, <1>2, <1>3, <1>4, <1>5

(* The process leaves the table. *)
LEMMA ExitKeeps ==
    ASSUME IInv, Exit
    PROVE  IInv'
<1> USE DEF IInv, TypeOK, Exit, Happens, deviceVars, fenceVars, loopVars,
    resetVars, svmVars, histVars
<1>1. TypeOK'
  BY EvictAssumption DEF DeviceTypes, FenceTypes, LoopTypes, CountTypes,
     FlagTypes
<1>2. Control'
  BY DEF Control, PlacesKnown, LoopsBounded, LockCounts, RangesOwned,
     SignalOwned, Suspending, MutexFree, One, CountTypes
<1>3. HardwareAgrees'
  BY DEF HardwareAgrees
<1>4. ErrorCounts'
  BY DEF ErrorCounts
<1>5. EvictionsBalanced'
  BY DEF EvictionsBalanced, Holders, InLoop, Control, PlacesKnown, One,
     CountTypes
<1> QED BY <1>1, <1>2, <1>3, <1>4, <1>5

(* The work items of the process are cancelled. *)
LEMMA ExitCancelKeeps ==
    ASSUME IInv, ExitCancel
    PROVE  IInv'
<1> USE DEF IInv, TypeOK, ExitCancel, deviceVars, fenceVars, loopVars,
    resetVars, svmVars, histVars
<1>1. TypeOK'
  BY DEF DeviceTypes, FenceTypes, LoopTypes, CountTypes, FlagTypes
<1>2. Control'
  BY DEF Control, PlacesKnown, LoopsBounded, LockCounts, RangesOwned,
     SignalOwned, Suspending, MutexFree, One, CountTypes
<1>3. HardwareAgrees'
  BY DEF HardwareAgrees
<1>4. ErrorCounts'
  BY DEF ErrorCounts
<1>5. EvictionsBalanced'
  BY DEF EvictionsBalanced, Holders, InLoop, Control, PlacesKnown, One,
     CountTypes
<1> QED BY <1>1, <1>2, <1>3, <1>4, <1>5

(* The fence of a process that has ended signals. *)
LEMMA ExitSignalKeeps ==
    ASSUME IInv, ExitSignal
    PROVE  IInv'
<1> USE DEF IInv, TypeOK, ExitSignal, deviceVars, fenceVars, loopVars,
    resetVars, svmVars, histVars
<1>1. TypeOK'
  BY DEF DeviceTypes, FenceTypes, LoopTypes, CountTypes, FlagTypes
<1>2. Control'
  BY DEF Control, PlacesKnown, LoopsBounded, LockCounts, RangesOwned,
     SignalOwned, Suspending, MutexFree, One, CountTypes
<1>3. HardwareAgrees'
  BY DEF HardwareAgrees
<1>4. ErrorCounts'
  BY DEF ErrorCounts
<1>5. EvictionsBalanced'
  BY DEF EvictionsBalanced, Holders, InLoop, Control, PlacesKnown, One,
     CountTypes
<1> QED BY <1>1, <1>2, <1>3, <1>4, <1>5

(* dqm->ops.stop of the device that is suspended. *)
LEMMA SuspendStopKeeps ==
    ASSUME IInv, SuspendStop
    PROVE  IInv'
<1> USE DEF IInv, TypeOK, SuspendStop, deviceVars, fenceVars, loopVars,
    resetVars, svmVars, histVars
<1>a. "suspend" \in Agents /\ "stopped" \in Labels
  BY DEF Agents, Labels
<1>b. /\ LoopTypes' /\ Others("suspend")
      /\ pc'["suspend"] = "stopped" /\ dev'["suspend"] = dev["suspend"]
      /\ last'["suspend"] = last["suspend"]
  BY <1>a, GotoMoves
<1>1. TypeOK'
  <2>1. DeviceTypes'
    BY DEF DeviceTypes
  <2>2. FenceTypes'
    BY DEF FenceTypes
  <2>3. LoopTypes'
    BY <1>b
  <2>4. CountTypes'
    BY DEF CountTypes
  <2>5. FlagTypes'
    BY DEF FlagTypes
  <2> QED BY <2>1, <2>2, <2>3, <2>4, <2>5
<1>2. Control'
  BY <1>b DEF Control, PlacesKnown, LoopsBounded, LockCounts, RangesOwned,
     SignalOwned, Suspending, MutexFree, Others, Agents, One, CountTypes
<1>3. HardwareAgrees'
  <2>1. ASSUME NEW d \in Devs
        PROVE  /\ ~running'[d] => ~hw'[d]
               /\ queue'[d] = "active" => evicted'[d] = 0
               /\ hw'[d] => \/ queue'[d] = "active"
                            \/ d \in ResetDevs /\ (sem' \/ resetWork')
    BY EvictAssumption DEF HardwareAgrees, DeviceTypes
  <2>2. /\ sem' <=> pc'["reset"] # "idle"
        /\ pc'["reset"] = "post" => \A d \in ResetDevs : ~running'[d]
    BY <1>b, EvictAssumption DEF HardwareAgrees, DeviceTypes, Others, Agents
  <2> QED BY <2>1, <2>2 DEF HardwareAgrees
<1>4. ErrorCounts'
  BY DEF ErrorCounts
<1>5. EvictionsBalanced'
  BY <1>b DEF EvictionsBalanced, Holders, InLoop, Others, Agents, Control,
     PlacesKnown, One, CountTypes
<1> QED BY <1>1, <1>2, <1>3, <1>4, <1>5

(* dqm->ops.start of the device that is resumed. *)
LEMMA ResumeStartKeeps ==
    ASSUME IInv, ResumeStart
    PROVE  IInv'
<1> USE DEF IInv, TypeOK, ResumeStart, deviceVars, fenceVars, loopVars,
    resetVars, svmVars, histVars
<1>a. "suspend" \in Agents /\ "resume" \in Labels
  BY DEF Agents, Labels
<1>b. /\ LoopTypes' /\ Others("suspend")
      /\ pc'["suspend"] = "resume" /\ dev'["suspend"] = dev["suspend"]
      /\ last'["suspend"] = last["suspend"]
  BY <1>a, GotoMoves
<1>1. TypeOK'
  <2>1. DeviceTypes'
    BY DEF DeviceTypes
  <2>2. FenceTypes'
    BY DEF FenceTypes
  <2>3. LoopTypes'
    BY <1>b
  <2>4. CountTypes'
    BY DEF CountTypes
  <2>5. FlagTypes'
    BY DEF FlagTypes
  <2> QED BY <2>1, <2>2, <2>3, <2>4, <2>5
<1>2. Control'
  BY <1>b DEF Control, PlacesKnown, LoopsBounded, LockCounts, RangesOwned,
     SignalOwned, Suspending, MutexFree, Others, Agents, One, CountTypes
<1>3. HardwareAgrees'
  <2>1. ASSUME NEW d \in Devs
        PROVE  /\ ~running'[d] => ~hw'[d]
               /\ queue'[d] = "active" => evicted'[d] = 0
               /\ hw'[d] => \/ queue'[d] = "active"
                            \/ d \in ResetDevs /\ (sem' \/ resetWork')
    BY EvictAssumption DEF HardwareAgrees, DeviceTypes
  <2>2. /\ sem' <=> pc'["reset"] # "idle"
        /\ pc'["reset"] = "post" => \A d \in ResetDevs : ~running'[d]
    BY <1>b, EvictAssumption DEF HardwareAgrees, DeviceTypes, Others, Agents
  <2> QED BY <2>1, <2>2 DEF HardwareAgrees
<1>4. ErrorCounts'
  BY DEF ErrorCounts
<1>5. EvictionsBalanced'
  BY <1>b DEF EvictionsBalanced, Holders, InLoop, Others, Agents, Control,
     PlacesKnown, One, CountTypes
<1> QED BY <1>1, <1>2, <1>3, <1>4, <1>5

(* kgd2kfd_resume_process unlocks the KFD. *)
LEMMA ResumeKeeps ==
    ASSUME IInv, Resume
    PROVE  IInv'
<1> USE DEF IInv, TypeOK, Resume, deviceVars, fenceVars, loopVars, resetVars,
    svmVars, histVars
<1>a. "suspend" \in Agents /\ "idle" \in Labels /\ "bos" \in Labels
  BY DEF Agents, Labels
<1>b. /\ LoopTypes' /\ Others("suspend")
      /\ pc'["suspend"] = (IF locked = 1 /\ exit = "in" THEN "bos" ELSE "idle")
      /\ dev'["suspend"] = dev["suspend"]
      /\ last'["suspend"] = last["suspend"]
  BY <1>a, GotoMoves
<1>1. TypeOK'
  <2>1. DeviceTypes'
    BY DEF DeviceTypes
  <2>2. FenceTypes'
    BY DEF FenceTypes
  <2>3. LoopTypes'
    BY <1>b
  <2>4. CountTypes'
    BY DEF CountTypes, Control, LockCounts, One
  <2>5. FlagTypes'
    BY DEF FlagTypes
  <2> QED BY <2>1, <2>2, <2>3, <2>4, <2>5
<1>2. Control'
  BY <1>b DEF Control, PlacesKnown, LoopsBounded, LockCounts, RangesOwned,
     SignalOwned, Suspending, MutexFree, Others, Agents, One, CountTypes
<1>3. HardwareAgrees'
  BY <1>b DEF HardwareAgrees, Others, Agents
<1>4. ErrorCounts'
  BY DEF ErrorCounts
<1>5. EvictionsBalanced'
  BY <1>b DEF EvictionsBalanced, Holders, InLoop, Others, Agents, Control,
     PlacesKnown, One, CountTypes
<1> QED BY <1>1, <1>2, <1>3, <1>4, <1>5

(* A reset locks the reset domain. *)
LEMMA ResetLockKeeps ==
    ASSUME IInv, ResetLock
    PROVE  IInv'
<1> USE DEF IInv, TypeOK, ResetLock, Happens, deviceVars, fenceVars, loopVars,
    resetVars, svmVars, histVars
<1>a. "reset" \in Agents /\ "pre" \in Labels
  BY DEF Agents, Labels
<1>b. /\ LoopTypes' /\ Others("reset")
      /\ pc'["reset"] = "pre" /\ dev'["reset"] = dev["reset"]
      /\ last'["reset"] = last["reset"]
  BY <1>a, GotoMoves
<1>1. TypeOK'
  <2>1. DeviceTypes'
    BY DEF DeviceTypes
  <2>2. FenceTypes'
    BY DEF FenceTypes
  <2>3. LoopTypes'
    BY <1>b
  <2>4. CountTypes'
    BY EvictAssumption DEF CountTypes
  <2>5. FlagTypes'
    BY DEF FlagTypes
  <2> QED BY <2>1, <2>2, <2>3, <2>4, <2>5
<1>2. Control'
  BY <1>b DEF Control, PlacesKnown, LoopsBounded, LockCounts, RangesOwned,
     SignalOwned, Suspending, MutexFree, Others, Agents, One, CountTypes
<1>3. HardwareAgrees'
  BY <1>b DEF HardwareAgrees, Others, Agents
<1>4. ErrorCounts'
  BY DEF ErrorCounts
<1>5. EvictionsBalanced'
  BY <1>b DEF EvictionsBalanced, Holders, InLoop, Others, Agents, Control,
     PlacesKnown, One, CountTypes
<1> QED BY <1>1, <1>2, <1>3, <1>4, <1>5

(* The reset itself. *)
LEMMA ResetHardwareKeeps ==
    ASSUME IInv, ResetHardware
    PROVE  IInv'
<1> USE DEF IInv, TypeOK, ResetHardware, deviceVars, fenceVars, loopVars,
    resetVars, svmVars, histVars
<1>a. "reset" \in Agents /\ "post" \in Labels
  BY DEF Agents, Labels
<1>b. /\ LoopTypes' /\ Others("reset")
      /\ pc'["reset"] = "post" /\ dev'["reset"] = dev["reset"]
      /\ last'["reset"] = last["reset"]
  BY <1>a, GotoMoves
<1>1. TypeOK'
  BY <1>b DEF DeviceTypes, FenceTypes, LoopTypes, CountTypes, FlagTypes
<1>2. Control'
  BY <1>b DEF Control, PlacesKnown, LoopsBounded, LockCounts, RangesOwned,
     SignalOwned, Suspending, MutexFree, Others, Agents, One, CountTypes
<1>3. HardwareAgrees'
  BY <1>b, EvictAssumption DEF HardwareAgrees, Others, Agents
<1>4. ErrorCounts'
  BY DEF ErrorCounts
<1>5. EvictionsBalanced'
  BY <1>b DEF EvictionsBalanced, Holders, InLoop, Others, Agents, Control,
     PlacesKnown, One, CountTypes
<1> QED BY <1>1, <1>2, <1>3, <1>4, <1>5

(* kgd2kfd_post_reset unlocks the KFD and the reset domain. *)
LEMMA PostResetKeeps ==
    ASSUME IInv, PostReset
    PROVE  IInv'
<1> USE DEF IInv, TypeOK, PostReset, deviceVars, fenceVars, loopVars,
    resetVars, svmVars, histVars
<1>a. "reset" \in Agents /\ "idle" \in Labels
  BY DEF Agents, Labels
<1>b. /\ LoopTypes' /\ Others("reset")
      /\ pc'["reset"] = "idle" /\ dev'["reset"] = dev["reset"]
      /\ last'["reset"] = last["reset"]
  BY <1>a, GotoMoves
<1>1. TypeOK'
  <2>1. DeviceTypes'
    BY DEF DeviceTypes
  <2>2. FenceTypes'
    BY DEF FenceTypes
  <2>3. LoopTypes'
    BY <1>b
  <2>4. CountTypes'
    BY DEF CountTypes, Control, LockCounts, One
  <2>5. FlagTypes'
    BY DEF FlagTypes
  <2> QED BY <2>1, <2>2, <2>3, <2>4, <2>5
<1>2. Control'
  BY <1>b DEF Control, PlacesKnown, LoopsBounded, LockCounts, RangesOwned,
     SignalOwned, Suspending, MutexFree, Others, Agents, One, CountTypes
<1>3. HardwareAgrees'
  BY <1>b, EvictAssumption DEF HardwareAgrees, Others, Agents
<1>4. ErrorCounts'
  BY DEF ErrorCounts
<1>5. EvictionsBalanced'
  BY <1>b DEF EvictionsBalanced, Holders, InLoop, Others, Agents, Control,
     PlacesKnown, One, CountTypes
<1> QED BY <1>1, <1>2, <1>3, <1>4, <1>5

(* signal_eviction_fence reads p->ef. *)
LEMMA GetFenceKeeps ==
    ASSUME IInv, NEW a \in {"eviction_work", "suspend", "reset"}, GetFence(a)
    PROVE  IInv'
<1> USE DEF IInv, TypeOK, GetFence, deviceVars, fenceVars, loopVars,
    resetVars, svmVars, histVars
<1>a. a \in Agents /\ "signal" \in Labels
  BY DEF Agents, Labels
<1>b. /\ LoopTypes' /\ Others(a)
      /\ pc'[a] = "signal" /\ dev'[a] = dev[a] /\ last'[a] = last[a]
  BY <1>a, GotoMoves
<1>1. TypeOK'
  <2>1. DeviceTypes'
    BY DEF DeviceTypes
  <2>2. FenceTypes'
    BY <1>a, FenceMoves DEF FenceTypes
  <2>3. LoopTypes'
    BY <1>b
  <2>4. CountTypes'
    BY DEF CountTypes
  <2>5. FlagTypes'
    BY DEF FlagTypes
  <2> QED BY <2>1, <2>2, <2>3, <2>4, <2>5
<1>2. Control'
  BY <1>b DEF Control, PlacesKnown, LoopsBounded, LockCounts, RangesOwned,
     SignalOwned, Suspending, MutexFree, Others, Agents, One, CountTypes
<1>3. HardwareAgrees'
  BY <1>b DEF HardwareAgrees, Others, Agents
<1>4. ErrorCounts'
  BY DEF ErrorCounts
<1>5. EvictionsBalanced'
  BY <1>b DEF EvictionsBalanced, Holders, InLoop, Others, Agents, Control,
     PlacesKnown, One, CountTypes
<1> QED BY <1>1, <1>2, <1>3, <1>4, <1>5

(* The end of kfd_suspend_all_processes. *)
LEMMA SuspendSignalKeeps ==
    ASSUME IInv, NEW a \in {"suspend", "reset"}, SuspendSignal(a)
    PROVE  IInv'
<1> USE DEF IInv, TypeOK, SuspendSignal, deviceVars, fenceVars, loopVars,
    resetVars, svmVars, histVars
<1>a. a \in Agents /\ "stop" \in Labels
  BY DEF Agents, Labels
<1>b. /\ LoopTypes' /\ Others(a)
      /\ pc'[a] = "stop" /\ dev'[a] = dev[a] /\ last'[a] = last[a]
  BY <1>a, GotoMoves
<1>1. TypeOK'
  <2>1. DeviceTypes'
    BY DEF DeviceTypes
  <2>2. FenceTypes'
    <3>1. signaled' \in BOOLEAN
      BY DEF FenceTypes
    <3> QED BY <1>a, <3>1, FenceMoves
  <2>3. LoopTypes'
    BY <1>b
  <2>4. CountTypes'
    BY DEF CountTypes
  <2>5. FlagTypes'
    BY DEF FlagTypes
  <2> QED BY <2>1, <2>2, <2>3, <2>4, <2>5
<1>2. Control'
  BY <1>b DEF Control, PlacesKnown, LoopsBounded, LockCounts, RangesOwned,
     SignalOwned, Suspending, MutexFree, Others, Agents, One, CountTypes
<1>3. HardwareAgrees'
  BY <1>b DEF HardwareAgrees, Others, Agents
<1>4. ErrorCounts'
  BY DEF ErrorCounts
<1>5. EvictionsBalanced'
  BY <1>b DEF EvictionsBalanced, Holders, InLoop, Others, Agents, Control,
     PlacesKnown, One, CountTypes
<1> QED BY <1>1, <1>2, <1>3, <1>4, <1>5

(* mod_delayed_work queues the restore, or undoes one of two evictions. *)
LEMMA QueueRestoreKeeps ==
    ASSUME IInv, NEW a \in {"eviction_work", "restore_work"}, QueueRestore(a)
    PROVE  IInv'
<1> USE DEF IInv, TypeOK, QueueRestore, deviceVars, fenceVars, loopVars,
    resetVars, svmVars, histVars
<1>a. a \in Agents /\ "idle" \in Labels /\ "undo" \in Labels
  BY DEF Agents, Labels
<1>b. /\ LoopTypes' /\ Others(a)
      /\ \/ /\ "restore_work" \in pending
            /\ pc'[a] = "undo"
            /\ dev'[a] = 1
            /\ last'[a] = N
         \/ /\ ~("restore_work" \in pending) /\ pc'[a] = "idle"
            /\ dev'[a] = dev[a] /\ last'[a] = last[a]
  BY <1>a, GotoMoves, LoopMoves, NInDevs
<1>1. TypeOK'
  <2>1. DeviceTypes'
    BY DEF DeviceTypes
  <2>2. FenceTypes'
    BY DEF FenceTypes
  <2>3. LoopTypes'
    BY <1>b
  <2>4. CountTypes'
    BY DEF CountTypes
  <2>5. FlagTypes'
    BY DEF FlagTypes
  <2> QED BY <2>1, <2>2, <2>3, <2>4, <2>5
<1>2. Control'
  BY <1>b, NInDevs DEF Control, PlacesKnown, LoopsBounded, LockCounts,
     RangesOwned, SignalOwned, Suspending, MutexFree, Others, Agents, One,
     CountTypes
<1>3. HardwareAgrees'
  BY <1>b DEF HardwareAgrees, Others, Agents
<1>4. ErrorCounts'
  BY DEF ErrorCounts
<1>5. EvictionsBalanced'
  <2>1. ASSUME NEW d \in Devs PROVE Holders(d)' = Holders(d)
    BY <1>b, NInDevs DEF Holders, InLoop, Others, Agents, Control,
       PlacesKnown, One
  <2> QED BY <2>1 DEF EvictionsBalanced
<1> QED BY <1>1, <1>2, <1>3, <1>4, <1>5

(* The memory of the process is back, under a fence that has not signalled. *)
LEMMA RestoreBosKeeps ==
    ASSUME IInv, NEW a \in {"restore_work", "suspend"}, RestoreBos(a)
    PROVE  IInv'
<1> USE DEF IInv, TypeOK, RestoreBos, deviceVars, fenceVars, loopVars,
    resetVars, svmVars, histVars
<1>a. a \in Agents /\ "restoring" \in Labels
  BY DEF Agents, Labels
<1>b. /\ LoopTypes' /\ Others(a)
      /\ pc'[a] = "restoring" /\ dev'[a] = 1 /\ last'[a] = N
  BY <1>a, LoopMoves, NInDevs
<1>1. TypeOK'
  <2>1. DeviceTypes'
    BY DEF DeviceTypes
  <2>2. FenceTypes'
    <3>1. seqno' \in Nat /\ seqno <= seqno' /\ asked' = asked
      BY DEF FenceTypes
    <3>a. signaled' \in BOOLEAN
      BY DEF FenceTypes
    <3>2. \A n \in 0 .. seqno : n \in 0 .. seqno'
      BY <3>1 DEF FenceTypes
    <3> QED BY <3>1, <3>a, <3>2 DEF FenceTypes
  <2>3. LoopTypes'
    BY <1>b
  <2>4. CountTypes'
    BY DEF CountTypes, Control, LockCounts
  <2>5. FlagTypes'
    BY DEF FlagTypes
  <2> QED BY <2>1, <2>2, <2>3, <2>4, <2>5
<1>2. Control'
  <2>1. PlacesKnown' /\ LoopsBounded'
    BY <1>b, NInDevs DEF Control, PlacesKnown, LoopsBounded, Others, Agents
  <2>2. LockCounts'
    BY <1>b DEF Control, PlacesKnown, LockCounts, Suspending, MutexFree,
       Others, Agents, One, CountTypes
  <2>3. RangesOwned' /\ SignalOwned'
    BY <1>b DEF Control, RangesOwned, SignalOwned, Others, Agents
  <2> QED BY <2>1, <2>2, <2>3 DEF Control
<1>3. HardwareAgrees'
  BY <1>b DEF HardwareAgrees, Others, Agents
<1>4. ErrorCounts'
  BY DEF ErrorCounts
<1>5. EvictionsBalanced'
  <2>1. ASSUME NEW d \in Devs PROVE Holders(d)' = Holders(d)
    <3>1. /\ ~InLoop(a, d) /\ InLoop(a, d)'
          /\ \A b \in Agents \ {a} : InLoop(b, d)' <=> InLoop(b, d)
      BY <1>b, NInDevs DEF InLoop, Others
    <3>2. CASE a = "suspend"
      BY <1>b, <3>1, <3>2 DEF Holders, Others, Agents, One, CountTypes
    <3>3. CASE a = "restore_work"
      BY <1>b, <3>1, <3>3 DEF Holders, Others, Agents, One
    <3> QED BY <3>2, <3>3
  <2> QED BY <2>1 DEF EvictionsBalanced
<1> QED BY <1>1, <1>2, <1>3, <1>4, <1>5

(* There is no memory for the process. *)
LEMMA RestoreBosFailsKeeps ==
    ASSUME IInv, NEW a \in {"restore_work", "suspend"}, RestoreBosFails(a)
    PROVE  IInv'
<1> USE DEF IInv, TypeOK, RestoreBosFails, deviceVars, fenceVars, loopVars,
    resetVars, svmVars, histVars
<1>a. a \in Agents /\ "requeue" \in Labels /\ "idle" \in Labels
  BY DEF Agents, Labels
<1>b. /\ LoopTypes' /\ Others(a)
      /\ pc'[a] = (IF a = "restore_work" THEN "requeue" ELSE "idle")
      /\ dev'[a] = dev[a] /\ last'[a] = last[a]
  BY <1>a, GotoMoves
<1>1. TypeOK'
  BY <1>b DEF DeviceTypes, FenceTypes, LoopTypes, CountTypes, FlagTypes
<1>2. Control'
  BY <1>b DEF Control, PlacesKnown, LoopsBounded, LockCounts, RangesOwned,
     SignalOwned, Suspending, MutexFree, Others, Agents, One, CountTypes
<1>3. HardwareAgrees'
  BY <1>b DEF HardwareAgrees, Others, Agents
<1>4. ErrorCounts'
  BY DEF ErrorCounts
<1>5. EvictionsBalanced'
  BY <1>b DEF EvictionsBalanced, Holders, InLoop, Others, Agents, Control,
     PlacesKnown, One, CountTypes
<1> QED BY <1>1, <1>2, <1>3, <1>4, <1>5

(* kgd2kfd_suspend_process locks the KFD. *)
LEMMA SuspendBeginKeeps ==
    ASSUME IInv, SuspendBegin
    PROVE  IInv'
<1> USE DEF IInv, TypeOK, SuspendBegin, Suspend, Happens, deviceVars,
    fenceVars, loopVars, resetVars, svmVars, histVars
<1>a. "suspend" \in Agents /\ "evicting" \in Labels /\ "stop" \in Labels
  BY DEF Agents, Labels
<1>b. /\ LoopTypes' /\ Others("suspend")
      /\ \/ /\ locked = 0
            /\ exit = "in"
            /\ pc'["suspend"] = "evicting"
            /\ dev'["suspend"] = 1
            /\ last'["suspend"] = N
         \/ /\ ~(locked = 0 /\ exit = "in") /\ pc'["suspend"] = "stop"
            /\ dev'["suspend"] = dev["suspend"]
            /\ last'["suspend"] = last["suspend"]
  BY <1>a, GotoMoves, LoopMoves, NInDevs
<1>1. TypeOK'
  <2>1. DeviceTypes'
    BY DEF DeviceTypes
  <2>2. FenceTypes'
    BY DEF FenceTypes
  <2>3. LoopTypes'
    BY <1>b
  <2>4. CountTypes'
    BY EvictAssumption DEF CountTypes, Control, LockCounts, Suspending, One,
       PlacesKnown
  <2>5. FlagTypes'
    BY DEF FlagTypes
  <2> QED BY <2>1, <2>2, <2>3, <2>4, <2>5
<1>2. Control'
  BY <1>b, NInDevs DEF Control, PlacesKnown, LoopsBounded, LockCounts,
     RangesOwned, SignalOwned, Suspending, MutexFree, Others, Agents, One,
     CountTypes
<1>3. HardwareAgrees'
  BY <1>b DEF HardwareAgrees, Others, Agents
<1>4. ErrorCounts'
  BY DEF ErrorCounts
<1>5. EvictionsBalanced'
  <2>1. ASSUME NEW d \in Devs PROVE Holders(d)' = Holders(d)
    BY <1>b, NInDevs DEF Holders, InLoop, Others, Agents, Control,
       PlacesKnown, One
  <2> QED BY <2>1 DEF EvictionsBalanced
<1> QED BY <1>1, <1>2, <1>3, <1>4, <1>5

(* kgd2kfd_pre_reset locks the KFD. *)
LEMMA PreResetKeeps ==
    ASSUME IInv, PreReset
    PROVE  IInv'
<1> USE DEF IInv, TypeOK, PreReset, Suspend, deviceVars, fenceVars, loopVars,
    resetVars, svmVars, histVars
<1>a. "reset" \in Agents /\ "evicting" \in Labels /\ "stop" \in Labels
  BY DEF Agents, Labels
<1>b. /\ LoopTypes' /\ Others("reset")
      /\ \/ /\ locked = 0
            /\ exit = "in"
            /\ pc'["reset"] = "evicting"
            /\ dev'["reset"] = 1
            /\ last'["reset"] = N
         \/ /\ ~(locked = 0 /\ exit = "in") /\ pc'["reset"] = "stop"
            /\ dev'["reset"] = dev["reset"] /\ last'["reset"] = last["reset"]
  BY <1>a, GotoMoves, LoopMoves, NInDevs
<1>1. TypeOK'
  <2>1. DeviceTypes'
    BY DEF DeviceTypes
  <2>2. FenceTypes'
    BY DEF FenceTypes
  <2>3. LoopTypes'
    BY <1>b
  <2>4. CountTypes'
    BY EvictAssumption DEF CountTypes, Control, LockCounts, Suspending, One,
       PlacesKnown
  <2>5. FlagTypes'
    BY DEF FlagTypes
  <2> QED BY <2>1, <2>2, <2>3, <2>4, <2>5
<1>2. Control'
  BY <1>b, NInDevs DEF Control, PlacesKnown, LoopsBounded, LockCounts,
     RangesOwned, SignalOwned, Suspending, MutexFree, Others, Agents, One,
     CountTypes
<1>3. HardwareAgrees'
  BY <1>b DEF HardwareAgrees, Others, Agents
<1>4. ErrorCounts'
  BY DEF ErrorCounts
<1>5. EvictionsBalanced'
  <2>1. ASSUME NEW d \in Devs PROVE Holders(d)' = Holders(d)
    BY <1>b, NInDevs DEF Holders, InLoop, Others, Agents, Control,
       PlacesKnown, One
  <2> QED BY <2>1 DEF EvictionsBalanced
<1> QED BY <1>1, <1>2, <1>3, <1>4, <1>5

(* svm_range_evict: the first range begins to stop the queues. *)
LEMMA SvmEvictKeeps ==
    ASSUME IInv, SvmEvict
    PROVE  IInv'
<1> USE DEF IInv, TypeOK, SvmEvict, Happens, deviceVars, fenceVars, loopVars,
    resetVars, svmVars, histVars
<1>a. "svm_evict" \in Agents /\ "evicting" \in Labels
  BY DEF Agents, Labels
<1>b. /\ LoopTypes' /\ Others("svm_evict")
      /\ \/ /\ evictedRanges = 0
            /\ pc'["svm_evict"] = "evicting"
            /\ dev'["svm_evict"] = 1
            /\ last'["svm_evict"] = N
         \/ /\ ~(evictedRanges = 0) /\ pc'["svm_evict"] = pc["svm_evict"]
            /\ dev'["svm_evict"] = dev["svm_evict"]
            /\ last'["svm_evict"] = last["svm_evict"]
  BY <1>a, LoopMoves, NInDevs DEF LoopTypes, Others
<1>1. TypeOK'
  <2>1. DeviceTypes'
    BY DEF DeviceTypes
  <2>2. FenceTypes'
    BY DEF FenceTypes
  <2>3. LoopTypes'
    BY <1>b
  <2>4. CountTypes'
    BY EvictAssumption DEF CountTypes
  <2>5. FlagTypes'
    BY DEF FlagTypes
  <2> QED BY <2>1, <2>2, <2>3, <2>4, <2>5
<1>2. Control'
  BY <1>b, NInDevs DEF Control, PlacesKnown, LoopsBounded, LockCounts,
     RangesOwned, SignalOwned, Suspending, MutexFree, Others, Agents, One,
     CountTypes
<1>3. HardwareAgrees'
  BY <1>b DEF HardwareAgrees, Others, Agents
<1>4. ErrorCounts'
  BY DEF ErrorCounts
<1>5. EvictionsBalanced'
  <2>1. ASSUME NEW d \in Devs PROVE Holders(d)' = Holders(d)
    BY <1>b, NInDevs, SMTT(30) DEF Holders, InLoop, Others, Agents, Control,
       PlacesKnown, One, CountTypes, RangesOwned
  <2> QED BY <2>1 DEF EvictionsBalanced
<1> QED BY <1>1, <1>2, <1>3, <1>4, <1>5

(* svm_range_restore_work begins to restore the queues. *)
LEMMA SvmResumeKeeps ==
    ASSUME IInv, SvmResume
    PROVE  IInv'
<1> USE DEF IInv, TypeOK, SvmResume, deviceVars, fenceVars, loopVars,
    resetVars, svmVars, histVars
<1>a. "svm_restore_work" \in Agents /\ "undo" \in Labels /\ "idle" \in Labels
  BY DEF Agents, Labels
<1>b. /\ LoopTypes' /\ Others("svm_restore_work")
      /\ \/ /\ exit = "in"
            /\ pc'["svm_restore_work"] = "undo"
            /\ dev'["svm_restore_work"] = 1
            /\ last'["svm_restore_work"] = N
         \/ /\ ~(exit = "in") /\ pc'["svm_restore_work"] = "idle"
            /\ dev'["svm_restore_work"] = dev["svm_restore_work"]
            /\ last'["svm_restore_work"] = last["svm_restore_work"]
  BY <1>a, GotoMoves, LoopMoves, NInDevs
<1>1. TypeOK'
  <2>1. DeviceTypes'
    BY DEF DeviceTypes
  <2>2. FenceTypes'
    BY DEF FenceTypes
  <2>3. LoopTypes'
    BY <1>b
  <2>4. CountTypes'
    BY DEF CountTypes
  <2>5. FlagTypes'
    BY DEF FlagTypes
  <2> QED BY <2>1, <2>2, <2>3, <2>4, <2>5
<1>2. Control'
  BY <1>b, NInDevs DEF Control, PlacesKnown, LoopsBounded, LockCounts,
     RangesOwned, SignalOwned, Suspending, MutexFree, Others, Agents, One,
     CountTypes
<1>3. HardwareAgrees'
  BY <1>b DEF HardwareAgrees, Others, Agents
<1>4. ErrorCounts'
  BY DEF ErrorCounts
<1>5. EvictionsBalanced'
  <2>1. ASSUME NEW d \in Devs, exit = "in" PROVE Holders(d)' = Holders(d)
    BY <1>b, <2>1, NInDevs, SMTT(30) DEF Holders, InLoop, Others, Agents, Control,
       PlacesKnown, RangesOwned, CountTypes, One
  <2> QED BY <2>1 DEF EvictionsBalanced
<1> QED BY <1>1, <1>2, <1>3, <1>4, <1>5

(* What every change of a run list keeps. *)
DevicesKept ==
    /\ DeviceTypes' /\ HardwareAgrees'
    /\ events' \in 0 .. MaxEvents /\ resetWork' \in BOOLEAN
    /\ UNCHANGED <<locked, sem>>

(* No reset begins or ends. *)
ResetStays ==
    \A l \in {"idle", "post"} : pc'["reset"] = l <=> pc["reset"] = l

(* execute_queues_cpsch: a failure leaves a queue on the hardware only of a *)
(* device that waits for its reset.                                         *)
LEMMA ExecuteKeeps ==
    ASSUME TypeOK, HardwareAgrees, NEW d \in Devs,
           NEW q \in {"none", "evicted", "active"}, NEW r \in Results(d),
           NEW n \in Nat, Execute(d, q, r), q = "active" => n = 0,
           evicted' = [evicted EXCEPT ![d] = n], ResetStays
    PROVE  DevicesKept
<1> USE DEF TypeOK
<1>1. /\ r \in {"ok", "EIO", "ETIME"}
      /\ r # "ok" => d \in ResetDevs /\ (sem \/ resetWork')
      /\ r = "ETIME" => events < MaxEvents
  BY DEF Results, Execute
<1>2. DeviceTypes'
  <2>1. /\ evicted' \in [Devs -> Nat]
        /\ queue' \in [Devs -> {"none", "evicted", "active"}]
    BY DEF DeviceTypes, Execute
  <2>2. hw' \in [Devs -> BOOLEAN] /\ running' \in [Devs -> BOOLEAN]
    BY DEF DeviceTypes, Execute
  <2> QED BY <2>1, <2>2 DEF DeviceTypes
<1>3. events' \in 0 .. MaxEvents
  BY <1>1, EvictAssumption DEF CountTypes, Execute
<1>4. resetWork' \in BOOLEAN /\ (resetWork => resetWork')
  BY DEF FlagTypes, Execute
<1>5. UNCHANGED <<running, locked, sem>>
  BY DEF Execute
<1>6. ASSUME NEW e \in Devs
      PROVE  /\ ~running'[e] => ~hw'[e]
             /\ queue'[e] = "active" => evicted'[e] = 0
             /\ hw'[e] => \/ queue'[e] = "active"
                          \/ e \in ResetDevs /\ (sem' \/ resetWork')
  <2>1. /\ ~running[e] => ~hw[e]
        /\ queue[e] = "active" => evicted[e] = 0
        /\ hw[e] => \/ queue[e] = "active"
                    \/ e \in ResetDevs /\ (sem \/ resetWork)
    BY DEF HardwareAgrees
  <2>2. CASE e # d
    <3>1. hw'[e] = hw[e] /\ queue'[e] = queue[e] /\ evicted'[e] = evicted[e]
      BY <2>2 DEF Execute, DeviceTypes
    <3> QED BY <1>4, <1>5, <2>1, <3>1
  <2>3. CASE e = d
    <3>1. /\ hw'[d] = IF r = "ok" /\ running[d] THEN q = "active" ELSE hw[d]
          /\ queue'[d] = q /\ evicted'[d] = n
      BY DEF Execute, DeviceTypes
    <3> QED BY <1>1, <1>4, <1>5, <2>1, <2>3, <3>1
  <2> QED BY <2>2, <2>3
<1>7. HardwareAgrees'
  BY <1>5, <1>6 DEF HardwareAgrees, ResetStays
<1> QED BY <1>2, <1>3, <1>4, <1>5, <1>7 DEF DevicesKept

(* evict_process_queues_cpsch counts one more eviction. *)
LEMMA EvictQueuesKeeps ==
    ASSUME TypeOK, HardwareAgrees, NEW d \in Devs, NEW r, EvictQueues(d, r),
           ResetStays
    PROVE  DevicesKept
<1> USE DEF TypeOK
<1>1. CASE evicted[d] > 0
  <2>1. evicted[d] \in Nat /\ queue[d] # "active"
    BY <1>1 DEF HardwareAgrees, DeviceTypes
  <2>2. UNCHANGED <<queue, hw, running, events, locked, sem, resetWork>>
    BY <1>1 DEF EvictQueues, resetVars
  <2>3. /\ evicted' \in [Devs -> Nat]
        /\ \A e \in Devs \ {d} : evicted'[e] = evicted[e]
    BY <2>1 DEF EvictQueues, DeviceTypes
  <2>4. DeviceTypes' /\ HardwareAgrees'
    BY <2>1, <2>2, <2>3 DEF DeviceTypes, HardwareAgrees, ResetStays
  <2>5. events' \in 0 .. MaxEvents /\ resetWork' \in BOOLEAN
    BY <2>2 DEF CountTypes, FlagTypes
  <2> QED BY <2>2, <2>4, <2>5 DEF DevicesKept
<1>2. CASE ~(evicted[d] > 0)
  <2>1. r \in Results(d) /\ Execute(d, Stopped(d), r)
    BY <1>2 DEF EvictQueues
  <2>2. Stopped(d) \in {"none", "evicted"}
    BY DEF Stopped, DeviceTypes
  <2>3. /\ evicted[d] + 1 \in Nat
        /\ evicted' = [evicted EXCEPT ![d] = evicted[d] + 1]
    BY DEF DeviceTypes, EvictQueues
  <2> QED BY <2>1, <2>2, <2>3, ExecuteKeeps
<1> QED BY <1>1, <1>2

(* restore_process_queues_cpsch counts one less, but never below zero. *)
LEMMA RestoreQueuesKeeps ==
    ASSUME TypeOK, HardwareAgrees, NEW d \in Devs, NEW r, RestoreQueues(d, r),
           ResetStays
    PROVE  /\ DevicesKept
           /\ evicted' = [evicted EXCEPT ![d] = IF @ = 0 THEN 0 ELSE @ - 1]
<1> USE DEF TypeOK
<1>1. CASE evicted[d] # 1
  <2>1. /\ evicted[d] \in Nat
        /\ queue[d] = "active" => evicted[d] = 0
    BY <1>1 DEF HardwareAgrees, DeviceTypes
  <2>2. UNCHANGED <<queue, hw, running, events, locked, sem, resetWork>>
    BY <1>1 DEF RestoreQueues, resetVars
  <2>3. /\ evicted' \in [Devs -> Nat]
        /\ \A e \in Devs \ {d} : evicted'[e] = evicted[e]
        /\ queue[d] = "active" => evicted'[d] = 0
    BY <1>1, <2>1 DEF RestoreQueues, DeviceTypes
  <2>4. DeviceTypes' /\ HardwareAgrees'
    BY <2>1, <2>2, <2>3 DEF DeviceTypes, HardwareAgrees, ResetStays
  <2>5. events' \in 0 .. MaxEvents /\ resetWork' \in BOOLEAN
    BY <2>2 DEF CountTypes, FlagTypes
  <2> QED BY <1>1, <2>2, <2>4, <2>5 DEF DevicesKept, RestoreQueues
<1>2. CASE evicted[d] = 1
  <2>1. /\ r \in Results(d) /\ Execute(d, Restarted(d), r)
        /\ evicted' = [evicted EXCEPT ![d] = 0]
    BY <1>2 DEF RestoreQueues
  <2>2. Restarted(d) \in {"none", "evicted", "active"}
    BY DEF Restarted, DeviceTypes
  <2>3. DevicesKept
    BY <2>1, <2>2, ExecuteKeeps
  <2> QED BY <1>2, <2>1, <2>3
<1> QED BY <1>1, <1>2

(* A step of the queue manager alone keeps the invariant. *)
LEMMA FrameKeeps ==
    ASSUME IInv, DevicesKept,
           UNCHANGED <<evicted, fenceVars, pending, loopVars, ef, error,
                       svmVars, histVars, exit>>
    PROVE  IInv'
<1> USE DEF IInv, TypeOK, DevicesKept, fenceVars, loopVars, svmVars, histVars
<1>1. TypeOK'
  BY DEF FenceTypes, LoopTypes, CountTypes, FlagTypes
<1>2. Control'
  BY DEF Control, PlacesKnown, LoopsBounded, LockCounts, RangesOwned,
     SignalOwned, Suspending, MutexFree
<1>3. EvictionsBalanced'
  <2>1. ASSUME NEW d \in Devs PROVE Holders(d)' = Holders(d)
    BY DEF Holders, InLoop, One
  <2> QED BY <2>1 DEF EvictionsBalanced
<1> QED BY <1>1, <1>2, <1>3 DEF ErrorCounts

(* create_queue_cpsch *)
LEMMA CreateQueueKeeps ==
    ASSUME IInv, NEW d \in Devs, CreateQueue(d)
    PROVE  IInv'
<1> USE DEF IInv, TypeOK, fenceVars, loopVars, svmVars, histVars
<1>1. DevicesKept
  <2>1. ResetStays
    BY DEF CreateQueue, ResetStays
  <2>2. CASE evicted[d] > 0
    <3>1. /\ queue' = [queue EXCEPT ![d] = "evicted"]
          /\ UNCHANGED <<evicted, hw, running, events, locked, sem, resetWork>>
          /\ queue[d] = "none"
      BY <2>2 DEF CreateQueue, resetVars
    <3>2. DeviceTypes' /\ HardwareAgrees'
      BY <2>1, <3>1 DEF DeviceTypes, HardwareAgrees, ResetStays
    <3> QED BY <3>1, <3>2 DEF DevicesKept, CountTypes, FlagTypes
  <2>3. CASE ~(evicted[d] > 0)
    <3>1. PICK r \in Results(d) :
            Execute(d, IF r = "ok" THEN "active" ELSE "none", r)
      BY <2>3 DEF CreateQueue
    <3>2. /\ evicted[d] \in Nat /\ evicted[d] = 0
          /\ evicted' = [evicted EXCEPT ![d] = evicted[d]]
      BY <2>3 DEF CreateQueue, DeviceTypes
    <3>3. CASE r = "ok"
      <4>1. Execute(d, "active", r) /\ r \in Results(d)
        BY <3>1, <3>3
      <4> QED BY <2>1, <3>2, <4>1, ExecuteKeeps
    <3>4. CASE r # "ok"
      <4>1. Execute(d, "none", r) /\ r \in Results(d)
        BY <3>1, <3>4
      <4> QED BY <2>1, <3>2, <4>1, ExecuteKeeps
    <3> QED BY <3>3, <3>4
  <2> QED BY <2>2, <2>3
<1>2. UNCHANGED <<evicted, fenceVars, pending, loopVars, ef, error, svmVars,
                  histVars, exit, locked>>
  BY <1>1 DEF CreateQueue, DevicesKept
<1> QED BY <1>1, <1>2, FrameKeeps

(* destroy_queue_cpsch *)
LEMMA DestroyQueueKeeps ==
    ASSUME IInv, NEW d \in Devs, DestroyQueue(d)
    PROVE  IInv'
<1> USE DEF IInv, TypeOK, fenceVars, loopVars, svmVars, histVars
<1>1. DevicesKept
  <2>1. ResetStays
    BY DEF DestroyQueue, ResetStays
  <2>2. CASE queue[d] # "active"
    <3>1. /\ queue' = [queue EXCEPT ![d] = "none"]
          /\ UNCHANGED <<evicted, hw, running, events, locked, sem, resetWork>>
      BY <2>2 DEF DestroyQueue, resetVars
    <3>2. DeviceTypes' /\ HardwareAgrees'
      BY <2>1, <2>2, <3>1 DEF DeviceTypes, HardwareAgrees, ResetStays
    <3> QED BY <3>1, <3>2 DEF DevicesKept, CountTypes, FlagTypes
  <2>3. CASE queue[d] = "active"
    <3>1. PICK r \in Results(d) : Execute(d, "none", r)
      BY <2>3 DEF DestroyQueue
    <3>2. evicted[d] \in Nat /\ evicted' = [evicted EXCEPT ![d] = evicted[d]]
      BY DEF DestroyQueue, DeviceTypes
    <3> QED BY <2>1, <3>1, <3>2, ExecuteKeeps
  <2> QED BY <2>2, <2>3
<1>2. UNCHANGED <<evicted, fenceVars, pending, loopVars, ef, error, svmVars,
                  histVars, exit, locked>>
  BY <1>1 DEF DestroyQueue, DevicesKept
<1> QED BY <1>1, <1>2, FrameKeeps

(* One round of kfd_process_evict_queues. *)
LEMMA EvictDeviceKeeps ==
    ASSUME IInv, NEW a \in {"eviction_work", "suspend", "reset", "svm_evict"},
           EvictDevice(a)
    PROVE  IInv'
<1> USE DEF IInv, TypeOK, fenceVars, svmVars
<1> DEFINE k == dev[a]
<1>1. /\ a \in Agents /\ pc[a] = "evicting" /\ k \in Devs /\ last[a] = N
      /\ {"idle", "undo", "queue", "fence"} \subseteq Labels
  BY DEF Agents, Labels, EvictDevice, LoopTypes, Control, LoopsBounded
<1>2. PICK r \in {"ok", "EIO", "ETIME"} :
         /\ EvictQueues(k, r)
         /\ IF r = "ETIME" /\ ~Forced(a)
              THEN /\ IF k = 1 THEN Goto(a, "idle") ELSE Loop(a, "undo", k - 1)
                   /\ leaked' = [leaked EXCEPT ![k] = @ + 1]
              ELSE /\ Step(a, IF a = "svm_evict" THEN "queue" ELSE "fence")
                   /\ UNCHANGED leaked
  BY DEF EvictDevice
<1>3. UNCHANGED <<fenceVars, pending, ef, error, svmVars, kept, unbalanced,
                  exit>>
  BY DEF EvictDevice
<1>4. /\ LoopTypes' /\ Others(a)
      /\ \/ /\ a = "eviction_work" /\ leaked' = [leaked EXCEPT ![k] = @ + 1]
            /\ \/ /\ k = 1 /\ pc'[a] = "idle"
                  /\ dev'[a] = dev[a] /\ last'[a] = last[a]
               \/ k # 1 /\ pc'[a] = "undo" /\ dev'[a] = 1 /\ last'[a] = k - 1
         \/ /\ leaked' = leaked
            /\ \/ /\ k < N
                  /\ pc'[a] = "evicting"
                  /\ dev'[a] = k + 1
                  /\ last'[a] = N
               \/ /\ k = N /\ dev'[a] = 1 /\ last'[a] = N
                  /\ pc'[a] = IF a = "svm_evict" THEN "queue" ELSE "fence"
  <2>1. CASE r = "ETIME" /\ ~Forced(a)
    <3>1. CASE k = 1
      BY <1>1, <1>2, <2>1, <3>1, GotoMoves DEF Forced
    <3>2. CASE k # 1
      <4>1. k - 1 \in Devs
        BY <1>1, <3>2, NInDevs
      <4> QED BY <1>1, <1>2, <2>1, <3>2, <4>1, LoopMoves DEF Forced
    <3> QED BY <3>1, <3>2
  <2>2. CASE ~(r = "ETIME" /\ ~Forced(a))
    <3>1. CASE a = "svm_evict"
      BY <1>1, <1>2, <2>2, <3>1, StepMoves DEF Control
    <3>2. CASE a # "svm_evict"
      BY <1>1, <1>2, <2>2, <3>2, StepMoves DEF Control
    <3> QED BY <3>1, <3>2
  <2> QED BY <2>1, <2>2
<1>5. DevicesKept
  <2>1. ResetStays
    BY <1>1, <1>4 DEF ResetStays, Others, Agents
  <2> QED BY <1>1, <1>2, <2>1, EvictQueuesKeeps
<1>6. evicted' = [evicted EXCEPT ![k] = @ + 1]
  BY <1>2 DEF EvictQueues
<1>7. TypeOK'
  <2>1. FenceTypes' /\ FlagTypes'
    BY <1>3, <1>5 DEF FenceTypes, FlagTypes, DevicesKept
  <2>2. leaked' \in [Devs -> Nat]
    BY <1>4 DEF CountTypes
  <2>3. CountTypes'
    BY <1>3, <1>5, <2>2 DEF CountTypes, DevicesKept
  <2> QED BY <1>4, <1>5, <2>1, <2>3 DEF DevicesKept
<1>8. Control'
  <2>1. UNCHANGED <<pending, evictedRanges, kept, exit, locked, signaled>>
    BY <1>3, <1>5 DEF DevicesKept
  <2>2. PlacesKnown' /\ RangesOwned' /\ SignalOwned'
    BY <1>1, <1>4, <2>1 DEF Control, PlacesKnown, RangesOwned, SignalOwned,
       Others, Agents
  <2>3. LoopsBounded'
    BY <1>1, <1>4, NInDevs DEF Control, LoopsBounded, Others
  <2>4. LockCounts'
    BY <1>1, <1>4, <2>1 DEF Control, LockCounts, Suspending, MutexFree,
       Others, Agents, One
  <2> QED BY <2>2, <2>3, <2>4 DEF Control
<1>9. EvictionsBalanced'
  <2> SUFFICES ASSUME exit = "in", ~unbalanced, NEW d \in Devs
               PROVE  evicted'[d] = Holders(d)'
    BY <1>3 DEF EvictionsBalanced
  <2>1. evicted[d] = Holders(d)
    BY DEF EvictionsBalanced
  <2>2. \A b \in Agents \ {a} :
            (InLoop(b, d)' <=> InLoop(b, d)) /\ pc'[b] = pc[b]
    BY <1>4 DEF Others, InLoop
  <2>3. evictedRanges \in Nat /\ kept \in Nat /\ leaked \in [Devs -> Nat]
    BY DEF CountTypes
  <2>4. CASE d # k
    <3>1. evicted'[d] = evicted[d] /\ leaked'[d] = leaked[d]
      BY <1>4, <1>6, <2>4 DEF DeviceTypes, CountTypes
    <3>2. CASE a = "svm_evict"
      <4>1. /\ evictedRanges > 0 /\ pc["svm_evict"] = "evicting"
            /\ \/ /\ pc'["svm_evict"] = "evicting"
                  /\ InLoop(a, d)' <=> InLoop(a, d)
               \/ pc'["svm_evict"] = "queue" /\ InLoop(a, d)
        BY <1>1, <1>4, <2>3, <2>4, <3>2, NInDevs, SMTT(30) DEF InLoop, Control,
           RangesOwned
      <4> QED BY <1>3, <2>1, <2>2, <2>3, <3>1, <3>2, <4>1 DEF Holders, Agents,
          One
    <3>3. CASE a # "svm_evict"
      <4>1. InLoop(a, d)' <=> InLoop(a, d)
        BY <1>1, <1>4, <2>4, <3>3, NInDevs DEF InLoop
      <4> QED BY <1>3, <2>1, <2>2, <3>1, <3>3, <4>1 DEF Holders, Agents, One
    <3> QED BY <3>2, <3>3
  <2>5. CASE d = k
    <3>1. evicted'[d] = evicted[d] + 1
      BY <1>6, <2>5 DEF DeviceTypes
    <3>2. CASE a = "svm_evict"
      <4>1. /\ evictedRanges > 0 /\ pc["svm_evict"] = "evicting"
            /\ ~InLoop(a, d) /\ leaked'[d] = leaked[d]
            /\ \/ pc'["svm_evict"] = "evicting" /\ InLoop(a, d)'
               \/ pc'["svm_evict"] = "queue"
        BY <1>1, <1>4, <2>3, <2>5, <3>2, NInDevs DEF InLoop, Control,
           RangesOwned
      <4> QED BY <1>3, <2>1, <2>2, <2>3, <3>1, <3>2, <4>1 DEF Holders, Agents,
          One
    <3>3. CASE a # "svm_evict"
      <4>1. /\ ~InLoop(a, d)
            /\ \/ ~InLoop(a, d)' /\ leaked'[d] = leaked[d] + 1
               \/ InLoop(a, d)' /\ leaked'[d] = leaked[d]
        BY <1>1, <1>4, <2>3, <2>5, <3>3, NInDevs DEF InLoop
      <4> QED BY <1>3, <2>1, <2>2, <2>3, <3>1, <3>3, <4>1 DEF Holders, Agents,
          One
    <3> QED BY <3>2, <3>3
  <2> QED BY <2>4, <2>5
<1> QED BY <1>3, <1>5, <1>7, <1>8, <1>9 DEF DevicesKept, ErrorCounts

(* One round of kfd_process_restore_queues. *)
LEMMA RestoreDeviceKeeps ==
    ASSUME IInv, NEW a \in {"eviction_work", "restore_work", "suspend",
                            "svm_restore_work"},
           RestoreDevice(a)
    PROVE  IInv'
<1> USE DEF IInv, TypeOK, fenceVars, svmVars
<1> DEFINE k == dev[a]
           end == IF a = "restore_work" /\ pc[a] = "restoring" /\ unbalanced'
                    THEN {"idle", "requeue"} ELSE {"idle"}
<1>1. /\ a \in Agents /\ pc[a] \in {"restoring", "undo"}
      /\ k \in Devs /\ last[a] \in Devs /\ k <= last[a]
      /\ {"idle", "requeue"} \subseteq Labels
  BY DEF Agents, Labels, RestoreDevice, LoopTypes, Control, LoopsBounded
<1>2. PICK r \in {"ok", "EIO", "ETIME"} :
         /\ RestoreQueues(k, r)
         /\ unbalanced' = (unbalanced \/ r # "ok")
         /\ LET failed == error \/ r # "ok"
            IN  IF a = "restore_work" /\ pc[a] = "restoring"
                  THEN /\ Step(a, IF failed THEN "requeue" ELSE "idle")
                       /\ error' = (failed /\ k < last[a])
                  ELSE /\ Step(a, "idle")
                       /\ UNCHANGED error
  BY DEF RestoreDevice
<1>3. UNCHANGED <<fenceVars, pending, ef, svmVars, kept, leaked, exit>>
  BY DEF RestoreDevice
<1>4. /\ unbalanced' \in BOOLEAN /\ error' \in BOOLEAN
      /\ unbalanced => unbalanced'
      /\ ErrorCounts'
  BY <1>2 DEF ErrorCounts, FlagTypes
<1>5. /\ LoopTypes' /\ Others(a)
      /\ \/ /\ k < last[a] /\ pc'[a] = pc[a] /\ dev'[a] = k + 1
            /\ last'[a] = last[a]
         \/ /\ k = last[a] /\ pc'[a] \in end /\ dev'[a] = 1 /\ last'[a] = N
  <2>1. CASE a = "restore_work" /\ pc[a] = "restoring" /\ (error \/ r # "ok")
    <3>1. Step(a, "requeue") /\ unbalanced'
      BY <1>2, <2>1 DEF ErrorCounts
    <3> QED BY <1>1, <2>1, <3>1, StepMoves DEF Control
  <2>2. CASE ~(/\ a = "restore_work" /\ pc[a] = "restoring"
               /\ error \/ r # "ok")
    <3>1. Step(a, "idle")
      BY <1>2, <2>2
    <3> QED BY <1>1, <3>1, StepMoves DEF Control
  <2> QED BY <2>1, <2>2
<1>6. /\ DevicesKept
      /\ evicted' = [evicted EXCEPT ![k] = IF @ = 0 THEN 0 ELSE @ - 1]
  <2>1. ResetStays
    BY <1>5 DEF ResetStays, Others, Agents
  <2> QED BY <1>1, <1>2, <2>1, RestoreQueuesKeeps
<1>7. TypeOK'
  <2>1. FenceTypes' /\ FlagTypes'
    BY <1>3, <1>4, <1>6 DEF FenceTypes, FlagTypes, DevicesKept
  <2>2. CountTypes'
    BY <1>3, <1>6 DEF CountTypes, DevicesKept
  <2> QED BY <1>5, <1>6, <2>1, <2>2 DEF DevicesKept
<1>8. Control'
  <2>1. UNCHANGED <<pending, evictedRanges, kept, exit, locked, signaled>>
    BY <1>3, <1>6 DEF DevicesKept
  <2>2. PlacesKnown'
    BY <1>1, <1>5 DEF Control, PlacesKnown, Others, Agents
  <2>3. RangesOwned' /\ SignalOwned'
    BY <1>1, <1>5, <2>1 DEF Control, RangesOwned, SignalOwned, Others, Agents
  <2>4. LoopsBounded'
    BY <1>1, <1>5, NInDevs DEF Control, LoopsBounded, Others
  <2>5. LockCounts'
    BY <1>1, <1>5, <2>1 DEF Control, LockCounts, Suspending, MutexFree,
       Others, Agents, One, PlacesKnown
  <2> QED BY <2>2, <2>3, <2>4, <2>5 DEF Control
<1>9. EvictionsBalanced'
  <2> SUFFICES ASSUME exit = "in", ~unbalanced', NEW d \in Devs
               PROVE  evicted'[d] = Holders(d)'
    BY <1>3 DEF EvictionsBalanced
  <2>1. evicted[d] = Holders(d) /\ evicted[d] \in Nat
    BY <1>4 DEF EvictionsBalanced, DeviceTypes
  <2>2. \A b \in Agents \ {a} :
            (InLoop(b, d)' <=> InLoop(b, d)) /\ pc'[b] = pc[b]
    BY <1>5 DEF Others, InLoop
  <2>3. evictedRanges \in Nat /\ kept \in Nat /\ leaked[d] \in Nat
    BY DEF CountTypes
  <2>4. IF d = k THEN InLoop(a, d) /\ ~InLoop(a, d)'
                 ELSE InLoop(a, d)' <=> InLoop(a, d)
    BY <1>1, <1>5, NInDevs DEF InLoop
  <2>5. pc[a] # "bos" /\ pc'[a] # "bos"
    BY <1>1, <1>5
  <2>6. Holders(d) = Holders(d)' + One(d = k)
    BY <1>3, <2>2, <2>3, <2>4, <2>5 DEF Holders, Agents, One
  <2>7. evicted'[d] = IF d = k /\ evicted[d] # 0 THEN evicted[d] - 1
                                                 ELSE evicted[d]
    BY <1>6 DEF DeviceTypes
  <2>8. Holders(d)' \in Nat
    BY <1>3, <2>3 DEF Holders, One
  <2> QED BY <2>1, <2>6, <2>7, <2>8 DEF One
<1> QED BY <1>4, <1>6, <1>7, <1>8, <1>9 DEF DevicesKept

(* kfd_process_wq_release takes the queues off the devices that answer. *)
LEMMA ExitDequeueKeeps ==
    ASSUME IInv, ExitDequeue
    PROVE  IInv'
<1> USE DEF IInv, TypeOK, fenceVars, loopVars, svmVars, histVars
<1>1. PICK H \in SUBSET {d \in Devs : "ETIME" \in Results(d)} :
         /\ hw' = [d \in Devs |-> hw[d] /\ (d \in H \/ Results(d) = {"EIO"})]
         /\ resetWork' = (resetWork \/ H # {})
         /\ events' = IF H = {} THEN events ELSE events + 1
  BY DEF ExitDequeue
<1>2. /\ UNCHANGED <<evicted, running, fenceVars, loopVars, ef, error, locked,
                     sem, svmVars, histVars>>
      /\ queue' = [d \in Devs |-> "none"] /\ pending' = {}
      /\ exit' = "dequeued" /\ exit = "cancelled"
      /\ pc["svm_evict"] = "idle" /\ pc["svm_restore_work"] = "idle"
  BY DEF ExitDequeue
<1>3. /\ H # {} => events < MaxEvents
      /\ \A d \in Devs : hw'[d] =>
            hw[d] /\ d \in ResetDevs /\ (sem' \/ resetWork')
  BY <1>1, <1>2 DEF Results
<1>4. TypeOK'
  <2>1. DeviceTypes'
    BY <1>1, <1>2 DEF DeviceTypes
  <2>2. FenceTypes' /\ LoopTypes'
    BY <1>2 DEF FenceTypes, LoopTypes
  <2>3. CountTypes'
    BY <1>1, <1>2, <1>3, EvictAssumption DEF CountTypes
  <2>4. FlagTypes'
    BY <1>1, <1>2 DEF FlagTypes
  <2> QED BY <2>1, <2>2, <2>3, <2>4
<1>5. Control'
  BY <1>2 DEF Control, PlacesKnown, LoopsBounded, LockCounts, RangesOwned,
     SignalOwned, Suspending, MutexFree
<1>6. HardwareAgrees'
  BY <1>2, <1>3 DEF HardwareAgrees
<1> QED BY <1>2, <1>4, <1>5, <1>6 DEF EvictionsBalanced, ErrorCounts

(* Every step keeps the inductive invariant. *)
LEMMA NextInv == IInv /\ [Next]_vars => IInv'
<1> SUFFICES ASSUME IInv, [Next]_vars PROVE IInv'
    OBVIOUS
<1>1. CASE EvictionWork
  BY <1>1, StartEvictionKeeps, EvictDeviceKeeps, GetFenceKeeps,
     SignalFenceKeeps, QueueRestoreKeeps, RestoreDeviceKeeps DEF EvictionWork
<1>2. CASE RestoreWork
  BY <1>2, StartRestoreKeeps, RestoreBosKeeps, RestoreBosFailsKeeps,
     RestoreDeviceKeeps, QueueRestoreKeeps DEF RestoreWork
<1>3. CASE SuspendResume
  BY <1>3, EvictDeviceKeeps, GetFenceKeeps, SuspendSignalKeeps,
     SuspendStopKeeps, ResumeStartKeeps, ResumeKeeps, RestoreBosKeeps,
     RestoreBosFailsKeeps, RestoreDeviceKeeps DEF SuspendResume
<1>4. CASE Reset
  BY <1>4, PreResetKeeps, EvictDeviceKeeps, GetFenceKeeps, SuspendSignalKeeps,
     ResetHardwareKeeps, PostResetKeeps DEF Reset
<1>5. CASE SvmWork
  BY <1>5, EvictDeviceKeeps, SvmQueueKeeps, SvmStartKeeps, SvmResumeKeeps,
     SvmAgainKeeps, RestoreDeviceKeeps DEF SvmWork
<1>6. CASE EnableSignaling \/ SuspendBegin \/ ResetLock \/ SvmEvict \/ Exit
  BY <1>6, EnableSignalingKeeps, SuspendBeginKeeps, ResetLockKeeps,
     SvmEvictKeeps, ExitKeeps
<1>7. CASE \E d \in Devs : CreateQueue(d) \/ DestroyQueue(d)
  BY <1>7, CreateQueueKeeps, DestroyQueueKeeps
<1>8. CASE ExitWork
  BY <1>8, ExitCancelKeeps, ExitDequeueKeeps, ExitSignalKeeps DEF ExitWork
<1>9. CASE Done \/ UNCHANGED vars
  <2>1. UNCHANGED <<deviceVars, fenceVars, pending, loopVars, ef, error,
                    resetVars, events, svmVars, histVars, exit>>
    BY <1>9 DEF Done, vars
  <2>2. DevicesKept
    BY <2>1 DEF DevicesKept, deviceVars, resetVars, loopVars, IInv, TypeOK,
       DeviceTypes, HardwareAgrees, CountTypes, FlagTypes
  <2> QED BY <2>1, <2>2, FrameKeeps DEF deviceVars
<1> QED BY <1>1, <1>2, <1>3, <1>4, <1>5, <1>6, <1>7, <1>8, <1>9 DEF Next

(* The inductive invariant holds in every reachable state. *)
LEMMA SpecInv == Spec => []IInv
BY InitInv, NextInv, PTL DEF Spec

(* Every variable keeps its type, for every number of devices and events.   *)
(* kfd_locked stays between 0 and 2, and no counter underflows.             *)
THEOREM TypesCorrect == Spec => []TypeOK
<1>1. IInv => TypeOK
  BY DEF IInv
<1> QED BY <1>1, SpecInv, PTL

(* Eviction is reference-counted: qpd->evicted of a device is the number of *)
(* those who keep it stopped, whatever the order in which TTM, suspend,     *)
(* reset and the MMU notifiers come and go.                                 *)
THEOREM EvictionsAlwaysBalanced == Spec => []EvictionsBalanced
<1>1. IInv => EvictionsBalanced
  BY DEF IInv
<1> QED BY <1>1, SpecInv, PTL

(* A device that somebody keeps stopped has no queue on the hardware. *)
LEMMA HeldIsStopped ==
    ASSUME IInv, exit = "in", ~unbalanced, NEW d \in Devs, Holders(d) > 0
    PROVE  hw[d] => d \in ResetDevs /\ (sem \/ resetWork)
BY DEF IInv, EvictionsBalanced, HardwareAgrees

(* While the eviction fence has signalled no queue of the process is on the *)
(* hardware, except on a device that waits for its reset.                   *)
THEOREM AlwaysStoppedWhenSignaled == Spec => []StoppedWhenSignaled
<1>1. ASSUME IInv PROVE StoppedWhenSignaled
  <2> SUFFICES ASSUME exit = "in", ~unbalanced, signaled, NEW d \in Devs
               PROVE  hw[d] => d \in ResetDevs /\ (sem \/ resetWork)
    BY DEF StoppedWhenSignaled
  <2>1. \/ "restore_work" \in pending
        \/ pc["eviction_work"] = "queue"
        \/ pc["restore_work"] \in {"bos", "requeue"}
        \/ kept > 0
    BY <1>1 DEF IInv, Control, SignalOwned
  <2>2. kept \in Nat /\ leaked[d] \in Nat
    BY <1>1 DEF IInv, TypeOK, CountTypes
  <2>3. Holders(d) > 0
    BY <2>1, <2>2 DEF Holders, InLoop, One
  <2> QED BY <1>1, <2>3, HeldIsStopped
<1> QED BY <1>1, SpecInv, PTL

(* While ranges of SVM are not mapped no queue of the process is on a       *)
(* device that the notifier of the first of them has stopped, except one    *)
(* that waits for its reset.  A device that this notifier has still to stop *)
(* may run queues, also after another notifier has returned.                *)
THEOREM AlwaysStoppedForSvm == Spec => []StoppedForSvm
<1>1. ASSUME IInv PROVE StoppedForSvm
  <2> SUFFICES ASSUME exit = "in", ~unbalanced, evictedRanges > 0,
                      NEW d \in Devs, ~SvmStopsLater(d), hw[d]
               PROVE  d \in ResetDevs /\ (sem \/ resetWork)
    BY Zenon DEF StoppedForSvm
  <2>1. kept \in Nat /\ leaked[d] \in Nat /\ d \in Nat
        /\ dev["svm_evict"] \in Nat
    BY <1>1, EvictAssumption DEF IInv, TypeOK, CountTypes, LoopTypes, Agents,
       Devs
  <2>2. pc["svm_evict"] # "evicting" \/ d < dev["svm_evict"]
    BY <2>1 DEF SvmStopsLater
  <2>3. Holders(d) > 0
    BY <2>1, <2>2 DEF Holders, InLoop, One
  <2> QED BY <1>1, <2>3, HeldIsStopped
<1> QED BY <1>1, SpecInv, PTL
=============================================================================
