----------------------------- MODULE KfdEvents -----------------------------
(***************************************************************************)
(* The events of one KFD process (kfd_events.c): events are created,       *)
(* destroyed, set and reset by ioctls, set by GPU interrupts and by a GPU  *)
(* reset, and waited for by kfd_wait_on_events.                            *)
(*                                                                         *)
(* What the code does under one event's spinlock is one step; event_mutex  *)
(* is a variable, because a wait holds it over several such steps.         *)
(***************************************************************************)
EXTENDS Integers, Sequences, FiniteSets, FiniteSetsExt

CONSTANTS
    SigIds,         \* ids of signal events (id 0 is reserved), as mapped
    HwIds,          \* ids of hardware exception events
    PartialId,      \* the bits of a signal event's id that an interrupt has
    Waiters,        \* threads that call kfd_wait_on_events
    AgeWaiters,     \* the ones that pass a last_event_age
    NoOne,          \* nobody holds event_mutex
    WaitSets,       \* the sets of ids that each waiter may name
    Times,          \* timeouts that a wait may have
    CanReset,       \* the GPU may be reset
    MaxIrq,         \* bound: interrupts not yet handled
    MaxAge,         \* bound: event age at which no more event is set
    MaxCreated      \* bound: events that are created

Ids == SigIds \cup HwIds

ASSUME IdAssumption ==
    /\ SigIds \subseteq Nat \ {0} /\ IsFiniteSet(SigIds)
    /\ HwIds \subseteq Nat \ {0} /\ IsFiniteSet(HwIds)
    /\ SigIds \cap HwIds = {}
    /\ PartialId \in [SigIds -> Nat]

ASSUME WaiterAssumption ==
    /\ AgeWaiters \subseteq Waiters
    /\ NoOne \notin Waiters
    /\ WaitSets \in [Waiters -> SUBSET ((SUBSET Ids) \ {{}})]
    /\ Times \subseteq {"now", "finite", "infinite"}
    /\ CanReset \in BOOLEAN

ASSUME EventBoundAssumption ==
    MaxIrq \in Nat /\ MaxAge \in Nat /\ MaxCreated \in Nat

VARIABLES
    exists,         \* the id is in event_idr
    auto_reset, signaled, age,
    wq,             \* waiters on the event's wait queue
    created,        \* how many events were created
    signal_event_count,
    slots,          \* slots of the signal page that are not UNSIGNALED
    owed,           \* history: set, and no wait has come back with it
    wiped,          \* history: ids whose last signal was acknowledged for an
                    \* event that had the id before
    irqs,           \* interrupts to handle: partial id, or 0 for no valid id
    todo,           \* ids that the exhaustive search has still to look at
    hev, hstage,    \* the event the handler works on (0: none), and how far
    hgone,          \* that event was destroyed meanwhile
    mutex,          \* holder of event_mutex
    wpc,            \* where each waiter is
    want,           \* ids of the wait that have no event_waiter yet
    waits,          \* ids that have one
    ptr,            \* ids whose waiter->event is not NULL
    dangling,       \* ids whose waiter->event points at a destroyed event
    activated,      \* ids whose waiter->activated is set
    all, time,      \* wait for all; "now", "finite" or "infinite"
    expired,        \* the timeout, or the 30 s of an infinite wait, is over
    running,        \* task state: FALSE is TASK_INTERRUPTIBLE
    sig,            \* pending signal
    ret, result,    \* ret and *wait_result
    gone,           \* history: ids destroyed during the wait
    seen,           \* last_event_age that the caller passes
    reset, reader   \* reset_domain->sem: the reset, and a reader of it

eventVars == <<exists, auto_reset, created, signal_event_count>>
setVars == <<signaled, age, activated, running>>
handlerVars == <<irqs, todo, hev, hstage, hgone>>
irqVars == <<handlerVars, wiped>>
callVars == <<want, waits, all, time>>
retVars == <<ret, result>>
resetVars == <<reset, reader>>

vars == <<eventVars, setVars, wq, slots, owed, irqVars, mutex, wpc, callVars,
          ptr, dangling, expired, sig, retVars, gone, seen, resetVars>>

(* kfd_event_init_process: only id 0, which is never signalled, is taken. *)
Init ==
    /\ exists = [e \in Ids |-> FALSE] /\ auto_reset = [e \in Ids |-> FALSE]
    /\ signaled = [e \in Ids |-> FALSE] /\ age = [e \in Ids |-> 1]
    /\ wq = [e \in Ids |-> {}] /\ created = 0
    /\ signal_event_count = 1
    /\ slots = {} /\ owed = {} /\ wiped = {}
    /\ irqs = <<>> /\ todo = {} /\ hev = 0 /\ hstage = "ack" /\ hgone = FALSE
    /\ mutex = NoOne
    /\ wpc = [w \in Waiters |-> "idle"]
    /\ want = [w \in Waiters |-> {}] /\ waits = [w \in Waiters |-> {}]
    /\ ptr = [w \in Waiters |-> {}] /\ dangling = [w \in Waiters |-> {}]
    /\ activated = [w \in Waiters |-> {}]
    /\ all = [w \in Waiters |-> FALSE] /\ time = [w \in Waiters |-> "now"]
    /\ expired = [w \in Waiters |-> FALSE]
    /\ running = [w \in Waiters |-> TRUE] /\ sig = [w \in Waiters |-> "none"]
    /\ ret = [w \in Waiters |-> "ok"]
    /\ result = [w \in Waiters |-> "timeout"]
    /\ gone = [w \in Waiters |-> {}]
    /\ seen = [w \in AgeWaiters |-> [e \in Ids |-> 1]]
    /\ reset = "none" /\ reader = "none"

Goto(w, l) == wpc' = [wpc EXCEPT ![w] = l]

(* The bound on ages; only the actions that start a new event look at it. *)
Young == \A e \in Ids : age[e] < MaxAge

Existing == {e \in Ids : exists[e]}

(* The events of hit whose queues waiter w may leave when they are set.  Its *)
(* wait entries remove themselves (init_wait) when they really wake the task:*)
(* one that has set its state, and is not woken yet, leaves at least the     *)
(* first queue.  In three places, a task that runs in the model may also be  *)
(* in a sleep of its own: in a page fault, in mutex_lock, or between         *)
(* set_current_state and the test.                                           *)
Leaving(w, hit, run) ==
    CASE hit = {} -> {{}}
      [] hit # {} /\ ~run -> (SUBSET hit) \ {{}}
      [] hit # {} /\ run /\ wpc[w] \in {"init", "loop", "lock"} -> SUBSET hit
      [] OTHER -> {{}}

(* set_event, for every event of S, with wait queues q, where act and run    *)
(* are activated and the task states before: an auto-reset event stays set   *)
(* only when nobody is on its queue, and everybody on it is activated and    *)
(* woken; who was asleep is off the queue.                                   *)
SetEventsOn(S, q, act, run) ==
    LET hit(w) == {e \in S : w \in q[e]}
    IN  /\ signaled' = [e \in Ids |-> IF e \in S
                           THEN ~auto_reset[e] \/ q[e] = {} ELSE signaled[e]]
        /\ age' = [e \in Ids |-> IF e \in S THEN age[e] + 1 ELSE age[e]]
        /\ activated' = [w \in Waiters |-> act[w] \cup hit(w)]
        /\ running' = [w \in Waiters |-> run[w] \/ hit(w) # {}]
        /\ \E off \in [Waiters -> SUBSET S] :
              /\ \A w \in Waiters : off[w] \in Leaving(w, hit(w), run[w])
              /\ wq' = [e \in Ids |-> {w \in q[e] : e \notin off[w]}]

SetEvents(S) == SetEventsOn(S, wq, activated, running)

-----------------------------------------------------------------------------
(* The ioctls on one event. *)

Slots == Cardinality(SigIds) + 1    \* signal_mapped_size / 8

(* kfd_event_create: idr_alloc takes the lowest free id of its kind; the     *)
(* other fields have their first values, as those of every id without event. *)
Create(e) ==
    /\ mutex = NoOne
    /\ LET kind == IF e \in SigIds THEN SigIds ELSE HwIds
       IN  e = Min({d \in kind : ~exists[d]} \cup {e})
    /\ ~exists[e] /\ created < MaxCreated
    /\ e \in SigIds => signal_event_count # Slots
    /\ exists' = [exists EXCEPT ![e] = TRUE]
    /\ \E b \in BOOLEAN : auto_reset' = [auto_reset EXCEPT ![e] = b]
    /\ created' = created + 1
    /\ signal_event_count' =
          signal_event_count + (IF e \in SigIds THEN 1 ELSE 0)
    /\ slots' = slots \ {e}
    /\ UNCHANGED <<setVars, wq, owed, irqVars, mutex, wpc, callVars, ptr,
                   dangling, expired, sig, retVars, gone, seen, resetVars>>

(* Waiters whose waiter->event still is event e. *)
Pointing(e) == {w \in Waiters : e \in ptr[w] \ dangling[w]}

(* destroy_event, which takes dropped off signal_event_count: the waiters on *)
(* the queue lose their pointer and are woken.  A waiter that is not on the  *)
(* queue, because the event was set when the wait began, or has woken it     *)
(* since, keeps a pointer to what kfree_rcu will free.                       *)
DestroyWith(e, dropped) ==
    /\ mutex = NoOne
    /\ exists[e]
    /\ ptr' = [w \in Waiters |-> IF w \in wq[e] THEN ptr[w] \ {e} ELSE ptr[w]]
    /\ running' = [w \in Waiters |-> running[w] \/ w \in wq[e]]
    /\ dangling' = [w \in Waiters |-> IF w \in Pointing(e) \ wq[e]
                                        THEN dangling[w] \cup {e}
                                        ELSE dangling[w]]
    /\ gone' = [w \in Waiters |-> IF w \in Pointing(e)
                                    THEN gone[w] \cup {e} ELSE gone[w]]
    /\ signal_event_count' = signal_event_count - dropped
    /\ exists' = [exists EXCEPT ![e] = FALSE]
    /\ signaled' = [signaled EXCEPT ![e] = FALSE]
    /\ auto_reset' = [auto_reset EXCEPT ![e] = FALSE]
    /\ age' = [age EXCEPT ![e] = 1]
    /\ seen' = [w \in AgeWaiters |-> [seen[w] EXCEPT ![e] = 1]]
    /\ wq' = [wq EXCEPT ![e] = {}]
    /\ owed' = owed \ {e} /\ wiped' = wiped \ {e}
    /\ hgone' = (hgone \/ hev = e)
    /\ UNCHANGED <<created, activated, slots, irqs, todo, hev, hstage, mutex,
                   wpc, callVars, expired, sig, retVars, resetVars>>

(* Mutant: every event is taken off the count of signal events. *)
DestroyCountsAll(e) == DestroyWith(e, 1)

(* kfd_event_destroy *)
Destroy(e) == DestroyWith(e, IF e \in SigIds THEN 1 ELSE 0)

(* kfd_set_event, for the events that the CPU may signal. *)
CpuSet(e) ==
    /\ e \in SigIds /\ exists[e] /\ Young
    /\ SetEvents({e})
    /\ owed' = owed \cup {e} /\ wiped' = wiped \ {e}
    /\ UNCHANGED <<eventVars, slots, handlerVars, mutex, wpc, callVars, ptr,
                   dangling, expired, sig, retVars, gone, seen, resetVars>>

(* kfd_reset_event *)
CpuReset(e) ==
    /\ e \in SigIds /\ exists[e]
    /\ signaled' = [signaled EXCEPT ![e] = FALSE]
    /\ owed' = owed \ {e}
    /\ UNCHANGED <<eventVars, age, activated, running, wq, slots, irqVars,
                   mutex, wpc, callVars, ptr, dangling, expired, sig, retVars,
                   gone, seen, resetVars>>

-----------------------------------------------------------------------------
(* Interrupts.  A GPU that signals an event writes its slot, then raises an  *)
(* interrupt with a part of the id, or with none that is valid.              *)
GpuSignal(e) ==
    /\ e \in SigIds /\ exists[e] /\ Young /\ Len(irqs) < MaxIrq
    /\ slots' = slots \cup {e}
    /\ owed' = owed \cup {e} /\ wiped' = wiped \ {e}
    /\ \E p \in {0, PartialId[e]} : irqs' = Append(irqs, p)
    /\ UNCHANGED <<eventVars, setVars, wq, todo, hev, hstage, hgone, mutex,
                   wpc, callVars, ptr, dangling, expired, sig, retVars, gone,
                   seen, resetVars>>

HandlerIdle == todo = {} /\ hev = 0

(* kfd_signal_event_interrupt: the lowest event of found that has this       *)
(* partial id, or else a search of all the slots.                            *)
IrqTakeFrom(found) ==
    /\ HandlerIdle /\ irqs # <<>>
    /\ irqs' = Tail(irqs)
    /\ LET match == {e \in found : exists[e] /\ PartialId[e] = Head(irqs)}
       IN  IF match # {}
             THEN hev' = Min(match) /\ UNCHANGED todo
             ELSE todo' = SigIds /\ UNCHANGED hev
    /\ UNCHANGED <<eventVars, setVars, wq, slots, owed, wiped, hstage, hgone,
                   mutex, wpc, callVars, ptr, dangling, expired, sig, retVars,
                   gone, seen, resetVars>>

(* Mutant: an event with this partial id is taken whether it has signalled   *)
(* or not.                                                                   *)
IrqTakeAny == IrqTakeFrom(SigIds)

IrqTake == IrqTakeFrom(slots)

IrqSearch ==
    /\ todo # {} /\ hev = 0
    /\ LET e == Min(todo)
       IN  /\ todo' = todo \ {e}
           /\ hev' = IF e \in slots /\ exists[e] THEN e ELSE 0
    /\ UNCHANGED <<eventVars, setVars, wq, slots, owed, wiped, irqs, hstage,
                   hgone, mutex, wpc, callVars, ptr, dangling, expired, sig,
                   retVars, gone, seen, resetVars>>

(* acknowledge_signal: before the event is set, so that a signal that comes  *)
(* in between is seen by the interrupt that follows it.  Nothing keeps the   *)
(* id from being used again since the lookup: the slot may be that of a new  *)
(* event by now.                                                             *)
IrqAck ==
    /\ hev # 0 /\ hstage = "ack"
    /\ slots' = slots \ {hev}
    /\ wiped' = IF hgone /\ exists[hev] THEN wiped \cup {hev} ELSE wiped
    /\ hstage' = "set"
    /\ UNCHANGED <<eventVars, setVars, wq, owed, irqs, todo, hev, hgone, mutex,
                   wpc, callVars, ptr, dangling, expired, sig, retVars, gone,
                   seen, resetVars>>

(* set_event of set_event_from_interrupt; the event may be destroyed by now, *)
(* and RCU keeps only its memory.                                            *)
IrqSet ==
    /\ hev # 0 /\ hstage = "set"
    /\ SetEvents(IF hgone THEN {} ELSE {hev})
    /\ hev' = 0 /\ hstage' = "ack" /\ hgone' = FALSE
    /\ UNCHANGED <<eventVars, slots, owed, wiped, irqs, todo, mutex, wpc,
                   callVars, ptr, dangling, expired, sig, retVars, gone, seen,
                   resetVars>>

-----------------------------------------------------------------------------
(* kfd_wait_on_events. *)

StartWait(w) ==
    /\ wpc[w] = "idle" /\ mutex = NoOne
    /\ mutex' = w
    /\ \E S \in WaitSets[w], a \in BOOLEAN, t \in Times :
          /\ a \/ Cardinality(S) > 1     \* no difference for one event
          /\ want' = [want EXCEPT ![w] = S]
          /\ all' = [all EXCEPT ![w] = a]
          /\ time' = [time EXCEPT ![w] = t]
          /\ expired' = [expired EXCEPT ![w] = (t = "now")]
    /\ ret' = [ret EXCEPT ![w] = "ok"]
    /\ result' = [result EXCEPT ![w] = "timeout"]
    /\ Goto(w, "init")
    /\ UNCHANGED <<eventVars, setVars, wq, slots, owed, irqVars, waits, ptr,
                   dangling, sig, gone, seen, resetVars>>

(* init_event_waiter for id e, where missed says that the event's age is not *)
(* the one the caller has seen.                                              *)
InitWaiterWith(w, e, missed) ==
    /\ wpc[w] = "init" /\ ret[w] = "ok" /\ e \in want[w]
    /\ IF exists[e]
         THEN LET now == signaled[e] \/ missed
              IN  /\ want' = [want EXCEPT ![w] = @ \ {e}]
                  /\ waits' = [waits EXCEPT ![w] = @ \cup {e}]
                  /\ ptr' = [ptr EXCEPT ![w] = @ \cup {e}]
                  /\ activated' = [activated EXCEPT ![w] =
                                     IF now THEN @ \cup {e} ELSE @]
                  /\ wq' = [wq EXCEPT ![e] = IF now THEN @ ELSE @ \cup {w}]
                  /\ signaled' = [signaled EXCEPT ![e] = @ /\ ~auto_reset[e]]
                  /\ UNCHANGED ret
         ELSE /\ ret' = [ret EXCEPT ![w] = "EINVAL"]
              /\ UNCHANGED <<want, waits, ptr, activated, wq, signaled>>
    /\ UNCHANGED <<eventVars, age, running, slots, owed, irqVars, mutex, wpc,
                   all, time, dangling, expired, sig, result, gone,
                   seen, resetVars>>

(* Mutant: the age that the caller passes is not looked at. *)
InitWaiterNoAge(w, e) == InitWaiterWith(w, e, FALSE)

InitWaiter(w, e) ==
    InitWaiterWith(w, e, /\ w \in AgeWaiters /\ e \in SigIds
                         /\ age[e] # seen[w][e])

(* test_event_condition: the loop stops at the first event that decides, so  *)
(* a wait for any event may find a destroyed or an activated one first.      *)
TestEventCondition(w) ==
    LET nulls == waits[w] \ ptr[w]
    IN  IF all[w]
          THEN {IF nulls # {} THEN "fail"
                ELSE IF waits[w] \subseteq activated[w] THEN "complete"
                ELSE "timeout"}
          ELSE LET some == (IF nulls # {} THEN {"fail"} ELSE {})
                     \cup (IF activated[w] \cap ptr[w] # {} THEN {"complete"}
                                                            ELSE {})
               IN  IF some = {} THEN {"timeout"} ELSE some

(* Mutant: a NULL event is skipped. *)
CopyUnchecked(w, r, res) ==
    IF r # "ok" \/ res # "complete" THEN {r} ELSE {"ok", "EFAULT"}

(* copy_signaled_event_data, only after a wait that is complete. *)
CopySignaledEventData(w, r, res) ==
    IF r # "ok" \/ res # "complete" THEN {r}
    ELSE IF waits[w] \ ptr[w] # {} THEN {"EINVAL"} ELSE {"ok", "EFAULT"}

(* Events that a wait restarted by a signal gives back. *)
UndoNothing(w, r) == {}     \* Mutant: the consumed signals are forgotten.

UndoAutoReset(w, r) ==
    IF r = "ERESTARTSYS"
      THEN {e \in activated[w] \cap (ptr[w] \ dangling[w]) : auto_reset[e]}
      ELSE {}

(* free_waiters and the end of the call, under event_mutex, with ret = r and *)
(* *wait_result = res.                                                       *)
FreeWaiters(w, r, res) ==
    LET q == [e \in Ids |-> wq[e] \ {w}]
    IN  /\ SetEventsOn(UndoAutoReset(w, r), q, [activated EXCEPT ![w] = {}],
                       [running EXCEPT ![w] = TRUE])
        /\ owed' = IF r = "ERESTARTSYS" THEN owed ELSE owed \ activated[w]
        /\ seen' = IF w \in AgeWaiters /\ r = "ok" /\ res = "complete"
                     THEN [seen EXCEPT ![w] = [e \in Ids |->
                             IF e \in activated[w] \ dangling[w] THEN age[e]
                                                                 ELSE @[e]]]
                     ELSE seen
        /\ ret' = [ret EXCEPT ![w] = "ok"]
        /\ result' = [result EXCEPT ![w] = "timeout"]
        /\ want' = [want EXCEPT ![w] = {}] /\ waits' = [waits EXCEPT ![w] = {}]
        /\ ptr' = [ptr EXCEPT ![w] = {}]
        /\ dangling' = [dangling EXCEPT ![w] = {}]
        /\ gone' = [gone EXCEPT ![w] = {}]
        /\ all' = [all EXCEPT ![w] = FALSE] /\ time' = [time EXCEPT ![w] = "now"]
        /\ expired' = [expired EXCEPT ![w] = FALSE]
        /\ sig' = [sig EXCEPT ![w] = "none"]
        /\ mutex' = NoOne
        /\ Goto(w, "idle")

(* What follows the wait itself: copy the data, free the waiters. *)
EndWait(w, r, res) ==
    \E c \in CopySignaledEventData(w, r, res) : FreeWaiters(w, c, res)

(* The first check of the condition, still under event_mutex: a complete     *)
(* wait, and one that names an id that does not exist, end here.             *)
FirstCheck(w) ==
    /\ wpc[w] = "init"
    /\ \/ ret[w] # "ok" /\ EndWait(w, ret[w], "timeout")
       \/ /\ ret[w] = "ok" /\ want[w] = {}
          /\ \E res \in TestEventCondition(w) :
                IF res # "timeout" THEN EndWait(w, "ok", res)
                ELSE /\ Goto(w, "loop")
                     /\ mutex' = NoOne
                     /\ UNCHANGED <<setVars, wq, owed, callVars, ptr, dangling,
                                    expired, sig, retVars, gone, seen>>
    /\ UNCHANGED <<eventVars, slots, irqVars, resetVars>>

(* The head of the wait loop: signals, then set_current_state, then the      *)
(* test; a wait whose timeout is used up ends after that test.               *)
LoopHead(w) ==
    /\ wpc[w] = "loop"
    /\ \/ /\ sig[w] # "none"
          /\ ret' = [ret EXCEPT ![w] = sig[w]]
          /\ Goto(w, "lock")
          /\ UNCHANGED <<running, result>>
       \/ /\ sig[w] = "none"
          /\ \E res \in TestEventCondition(w) :
                LET done == \/ res # "timeout"
                            \/ time[w] # "infinite" /\ expired[w]
                IN  /\ result' = [result EXCEPT ![w] = res]
                    /\ running' = [running EXCEPT ![w] = done]
                    /\ Goto(w, IF done THEN "lock" ELSE "schedule")
          /\ UNCHANGED ret
    /\ UNCHANGED <<eventVars, signaled, age, activated, wq, slots, owed,
                   irqVars, mutex, callVars, ptr, dangling, expired, sig, gone,
                   seen, resetVars>>

(* Mutant: the task state is set here and not before the test. *)
ScheduleSetsState(w) ==
    /\ wpc[w] = "schedule"
    /\ running' = [running EXCEPT ![w] = FALSE]
    /\ Goto(w, "asleep")
    /\ UNCHANGED <<eventVars, signaled, age, activated, wq, slots, owed,
                   irqVars, mutex, callVars, ptr, dangling, expired, sig,
                   retVars, gone, seen, resetVars>>

(* schedule_timeout returns at once when the task was woken before. *)
Schedule(w) ==
    /\ wpc[w] = "schedule"
    /\ Goto(w, IF running[w] THEN "poll" ELSE "asleep")
    /\ UNCHANGED <<eventVars, setVars, wq, slots, owed, irqVars, mutex,
                   callVars, ptr, dangling, expired, sig, retVars, gone, seen,
                   resetVars>>

(* A wake-up, or the two seconds of KFD_EVENT_RESET_POLL_MS. *)
Awake(w) ==
    /\ wpc[w] = "asleep"
    /\ running' = [running EXCEPT ![w] = TRUE]
    /\ Goto(w, "poll")
    /\ UNCHANGED <<eventVars, signaled, age, activated, wq, slots, owed,
                   irqVars, mutex, callVars, ptr, dangling, expired, sig,
                   retVars, gone, seen, resetVars>>

(* amdgpu_reset_pending: rwsem_is_contended, somebody waits for the sem. *)
ResetPending == reset = "waiting" \/ reader = "blocked"

(* The two checks after a sleep, which end the wait with -ETIME. *)
PollWith(w, late) ==
    /\ wpc[w] = "poll"
    /\ LET etime == ResetPending \/ late
       IN  /\ ret' = [ret EXCEPT ![w] = IF etime THEN "ETIME" ELSE "ok"]
           /\ Goto(w, IF etime THEN "lock" ELSE "loop")
    /\ UNCHANGED <<eventVars, setVars, wq, slots, owed, irqVars, mutex,
                   callVars, ptr, dangling, expired, sig, result, gone,
                   seen, resetVars>>

(* Mutant: an infinite wait has no absolute deadline. *)
PollNoDeadline(w) == PollWith(w, FALSE)

Poll(w) == PollWith(w, time[w] = "infinite" /\ expired[w])

(* The end of the call: event_mutex is taken again. *)
Finish(w) ==
    /\ wpc[w] = "lock" /\ mutex = NoOne
    /\ EndWait(w, ret[w], result[w])
    /\ UNCHANGED <<eventVars, slots, irqVars, resetVars>>

-----------------------------------------------------------------------------
(* The world around a wait. *)

Waiting(w) == wpc[w] \in {"loop", "schedule", "asleep", "poll"}

(* A signal wakes an interruptible task.  One that arrives elsewhere in the  *)
(* loop has no effect before one of these two places.                        *)
Signal(w) ==
    /\ wpc[w] \in {"loop", "asleep"} /\ sig[w] = "none" /\ Young
    /\ \E s \in {"ERESTARTSYS", "EINTR"} : sig' = [sig EXCEPT ![w] = s]
    /\ running' = [running EXCEPT ![w] = TRUE]
    /\ UNCHANGED <<eventVars, signaled, age, activated, wq, slots, owed,
                   irqVars, mutex, wpc, callVars, ptr, dangling, expired,
                   retVars, gone, seen, resetVars>>

(* The timeout, or the 30 seconds of KFD_EVENT_INFINITE_TIMEOUT_MS, pass. *)
Expire(w) ==
    /\ Waiting(w) /\ ~expired[w]
    /\ expired' = [expired EXCEPT ![w] = TRUE]
    /\ UNCHANGED <<eventVars, setVars, wq, slots, owed, irqVars, mutex, wpc,
                   callVars, ptr, dangling, sig, retVars, gone, seen,
                   resetVars>>

noReset == <<eventVars, slots, irqVars, mutex, wpc, callVars, ptr, dangling,
             expired, sig, retVars, gone, seen>>

(* amdgpu_device_lock_reset_domain: down_write, behind a reader if any. *)
ResetLock ==
    /\ CanReset /\ reset = "none"
    /\ reset' = IF reader = "none" THEN "holding" ELSE "waiting"
    /\ UNCHANGED <<noReset, wq, setVars, owed, reader>>

(* kgd2kfd_pre_reset: the hardware exception events are set, unless hang     *)
(* detection found that the process has queues and none of them was reset.   *)
ResetSignal ==
    /\ reset = "holding" /\ Young
    /\ reset' = "halted"
    /\ \E S \in {HwIds \cap Existing, {}} :
          SetEvents(S) /\ owed' = owed \cup S
    /\ UNCHANGED <<noReset, reader>>

(* amdgpu_device_unlock_reset_domain, and up_write wakes a blocked reader. *)
ResetUnlock ==
    /\ reset = "halted"
    /\ reset' = "none"
    /\ reader' = IF reader = "blocked" THEN "reading" ELSE reader
    /\ UNCHANGED <<noReset, wq, setVars, owed>>

(* Code that takes the sem for reading with down_read, as the RAS EEPROM's. *)
ReaderLock ==
    /\ CanReset /\ reader = "none"
    /\ reader' = IF reset = "none" THEN "reading" ELSE "blocked"
    /\ UNCHANGED <<noReset, wq, setVars, owed, reset>>

ReaderUnlock ==
    /\ reader = "reading"
    /\ reader' = "none"
    /\ reset' = IF reset = "waiting" THEN "holding" ELSE reset
    /\ UNCHANGED <<noReset, wq, setVars, owed>>

-----------------------------------------------------------------------------
WaitStep(w) ==
    \/ \E e \in Ids : InitWaiter(w, e)
    \/ FirstCheck(w) \/ LoopHead(w) \/ Schedule(w) \/ Awake(w) \/ Poll(w)

IrqStep == IrqTake \/ IrqSearch \/ IrqAck \/ IrqSet

ResetStep ==
    ResetLock \/ ResetSignal \/ ResetUnlock \/ ReaderLock \/ ReaderUnlock

Next ==
    \/ \E e \in Ids :
          Create(e) \/ Destroy(e) \/ CpuSet(e) \/ CpuReset(e) \/ GpuSignal(e)
    \/ IrqStep \/ ResetStep
    \/ \E w \in Waiters :
          \/ StartWait(w) \/ WaitStep(w) \/ Finish(w) \/ Signal(w) \/ Expire(w)

Spec == Init /\ [][Next]_vars

(* Fairness: a thread that can run does, time passes, and a waiter for       *)
(* event_mutex gets it in the end (the kernel's mutexes hand over).          *)
Fairness ==
    \A w \in Waiters :
        WF_vars(WaitStep(w)) /\ WF_vars(Expire(w)) /\ SF_vars(Finish(w))

FairSpec == Spec /\ Fairness

-----------------------------------------------------------------------------
WaitLabels == {"idle", "init", "loop", "schedule", "asleep", "poll", "lock"}
Results == {"complete", "timeout", "fail"}

EventTypes ==
    /\ exists \in [Ids -> BOOLEAN] /\ auto_reset \in [Ids -> BOOLEAN]
    /\ signaled \in [Ids -> BOOLEAN] /\ age \in [Ids -> Nat \ {0}]
    /\ wq \in [Ids -> SUBSET Waiters] /\ created \in 0 .. MaxCreated
    /\ signal_event_count \in 1 .. Slots
    /\ slots \subseteq SigIds /\ owed \subseteq Ids /\ wiped \subseteq SigIds

IrqTypes ==
    /\ irqs \in Seq(Nat) /\ todo \subseteq SigIds
    /\ hev \in SigIds \cup {0} /\ hstage \in {"ack", "set"}
    /\ hgone \in BOOLEAN
    /\ reset \in {"none", "waiting", "holding", "halted"}
    /\ reader \in {"none", "reading", "blocked"}

WaiterTypes ==
    /\ mutex \in Waiters \cup {NoOne}
    /\ wpc \in [Waiters -> WaitLabels]
    /\ want \in [Waiters -> SUBSET Ids] /\ waits \in [Waiters -> SUBSET Ids]
    /\ ptr \in [Waiters -> SUBSET Ids] /\ dangling \in [Waiters -> SUBSET Ids]
    /\ activated \in [Waiters -> SUBSET Ids] /\ gone \in [Waiters -> SUBSET Ids]
    /\ all \in [Waiters -> BOOLEAN]
    /\ time \in [Waiters -> {"now", "finite", "infinite"}]
    /\ expired \in [Waiters -> BOOLEAN] /\ running \in [Waiters -> BOOLEAN]
    /\ sig \in [Waiters -> {"none", "ERESTARTSYS", "EINTR"}]
    /\ ret \in [Waiters -> {"ok", "EINVAL", "EINTR", "ERESTARTSYS", "ETIME"}]
    /\ result \in [Waiters -> Results]
    /\ seen \in [AgeWaiters -> [Ids -> Nat]]

(* Type invariant. *)
TypeOK == EventTypes /\ IrqTypes /\ WaiterTypes

(* A waiter that really sleeps has nothing to wake up for: whatever makes    *)
(* its condition true, a set or a destroyed event, has also woken it, however*)
(* it falls between the test of the condition and the sleep.                 *)
NoLostWakeup ==
    \A w \in Waiters : wpc[w] = "asleep" /\ ~running[w]
                          => TestEventCondition(w) = {"timeout"}

(* A signal that no wait has come back with is still somewhere: in the       *)
(* signal page, in the hands of the interrupt handler, in the event, or with *)
(* a waiter that is about to return.  In particular a wait that a signal     *)
(* restarts gives back what it had consumed; a wait that ends with an error  *)
(* or a timeout does not.  Left out is a signal that the handler acknowledged*)
(* for an event that had the id before and was destroyed after the lookup.   *)
NoSignalLost ==
    \A e \in owed \ wiped :
        \/ e \in slots \/ signaled[e]
        \/ hev = e /\ hstage = "set" /\ ~hgone
        \/ \E w \in Waiters : e \in activated[w] \cap (ptr[w] \ dangling[w])

(* Every slot that the GPU has written for an event that exists will be      *)
(* looked at: by the handler at work, or by an interrupt still to be handled,*)
(* although several events share the partial id that an interrupt has, and   *)
(* an interrupt may bring another event to light than the one it is for.     *)
SlotWillBeSeen ==
    \A e \in slots : exists[e] =>
        \/ irqs # <<>> \/ e \in todo
        \/ hev = e /\ hstage = "ack"

(* A caller that passes the age it has last seen never sleeps on an event    *)
(* that was set since: it sleeps only while the event has that very age.     *)
AgeWaitsMissNothing ==
    \A w \in AgeWaiters, e \in SigIds :
        w \in wq[e] /\ e \notin activated[w] => age[e] = seen[w][e]

(* A wait whose event is destroyed before it was set does not tell its       *)
(* caller that it is complete: the waiter was still on the queue, and        *)
(* destroy_event has cleared its pointer.  That holds only for such an event.*)
(* One that was set first has taken the waiter it woke off the queue, so that*)
(* its destruction goes unseen, although test_event_condition is said to fail*)
(* "if any of the events have been destroyed": a wait for all of two events, *)
(* where the first is set and destroyed before the second is set, reports    *)
(* both as complete and reads the first after it was freed.                  *)
DestroyedFails ==
    \A w \in Waiters : wpc[w] = "lock" /\ gone[w] \ activated[w] # {}
                          => "ok" \notin CopySignaledEventData(w, ret[w], "complete")

(* Every wait ends, those without a timeout included, whatever happens to    *)
(* the events.                                                               *)
EveryWaitEnds == \A w \in Waiters : wpc[w] # "idle" ~> wpc[w] = "idle"
=============================================================================
