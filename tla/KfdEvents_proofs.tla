-------------------------- MODULE KfdEvents_proofs --------------------------
(***************************************************************************)
(* For any number of events and waiters: no wake-up is lost, no slot that  *)
(* the GPU has written goes unseen, and a wait does not miss what happens  *)
(* to its events.                                                          *)
(***************************************************************************)
EXTENDS KfdEvents, WellFoundedInduction, FiniteSetTheorems, TLAPS

(* The event_waiters of a thread: one for each id, queued only while its    *)
(* event is the one that it points at, and at least until that event is     *)
(* set; an event that was destroyed during the wait is NULL or, when it had *)
(* been set before and the wait was not queued on it any more, dangling.    *)
WaiterAgrees(w) ==
    /\ want[w] \cap waits[w] = {}
    /\ ptr[w] \subseteq waits[w]
    /\ dangling[w] \subseteq ptr[w] \cap activated[w]
    /\ gone[w] \subseteq waits[w] /\ gone[w] \cap ptr[w] \subseteq dangling[w]
    /\ wpc[w] = "idle" => waits[w] = {}
    /\ \A e \in Ids : w \in wq[e] => e \in ptr[w] \ dangling[w]
    /\ \A e \in ptr[w] \ activated[w] : w \in wq[e]

(* A thread that is about to sleep, and that nothing has woken, has found   *)
(* nothing to wake up for.                                                  *)
SleepJustified(w) ==
    wpc[w] \in {"schedule", "asleep"} /\ ~running[w]
        => TestEventCondition(w) = {"timeout"}

(* Written slots that the handler at work will not look at. *)
Unseen == {e \in slots : /\ exists[e] /\ e \notin todo
                         /\ ~(hev = e /\ hstage = "ack")}

(* There is an interrupt for each of them. *)
SlotsCovered == Cardinality(Unseen) <= Len(irqs)

(* signal_event_count is the number of signal events, and id 0.             *)
CountExact ==
    signal_event_count = 1 + Cardinality({e \in SigIds : exists[e]})

(* The handler works on an event that exists, or that is gone.              *)
HandlerAgrees ==
    /\ hev = 0 => hstage = "ack" /\ ~hgone
    /\ hev # 0 /\ ~hgone => exists[hev]
    /\ \A e \in owed : exists[e]

(* Where the last signal of an event is; one of an event that stays set is  *)
(* not only with a waiter.                                                  *)
SignalHeld(e) ==
    \/ e \in slots \/ signaled[e]
    \/ hev = e /\ hstage = "set" /\ ~hgone
    \/ auto_reset[e] /\ \E w \in Waiters :
                           e \in activated[w] \cap (ptr[w] \ dangling[w])

SignalsKept == \A e \in owed \ wiped : SignalHeld(e)

IInv ==
    /\ TypeOK
    /\ \A w \in Waiters : WaiterAgrees(w) /\ SleepJustified(w)
    /\ SlotsCovered /\ CountExact /\ HandlerAgrees /\ SignalsKept
    /\ AgeWaitsMissNothing

(* A set of ids that is not empty has a lowest one. *)
LEMMA MinIsIn ==
    ASSUME NEW S \in SUBSET Nat, S # {}
    PROVE  Min(S) \in S
<1>1. \E x \in S : \A y \in S : ~(<<y, x>> \in OpToRel(<, Nat))
  BY NatLessThanWellFounded, WFMin, Zenon
<1>2. OpToRel(<, Nat) = {ss \in Nat \X Nat : ss[1] < ss[2]}
  BY Zenon DEF OpToRel
<1>3. PICK x \in S : \A y \in S : ~(<<y, x>> \in OpToRel(<, Nat))
  BY <1>1, Zenon
<1>4. ASSUME NEW y \in S PROVE x =< y
  <2>1. <<y, x>> \notin {ss \in Nat \X Nat : ss[1] < ss[2]}
    BY <1>2, <1>3, Zenon
  <2>2. <<y, x>> \in Nat \X Nat
    OBVIOUS
  <2>3. ~(y < x)
    BY <2>1, <2>2
  <2> QED BY <2>3
<1> QED BY <1>4 DEF Min

(* The initial state satisfies the inductive invariant. *)
LEMMA InitInv == Init => IInv
<1> SUFFICES ASSUME Init PROVE IInv
    OBVIOUS
<1> USE IdAssumption, WaiterAssumption, EventBoundAssumption
<1>1. CountExact
  <2>1. {e \in SigIds : exists[e]} = {}
    BY DEF Init, Ids
  <2>2. Cardinality({e \in SigIds : exists[e]}) = 0
    BY <2>1, FS_EmptySet
  <2> QED BY <2>2 DEF CountExact, Init
<1>2. EventTypes
  <2>1. signal_event_count \in 1 .. Slots
    BY FS_CardinalityType DEF Init, Slots
  <2> QED BY <2>1 DEF Init, EventTypes
<1>3. IrqTypes
  <2>1. <<>> \in Seq(Nat)
    OBVIOUS
  <2> QED BY <2>1 DEF Init, IrqTypes
<1>4. WaiterTypes
  BY DEF Init, WaiterTypes, WaitLabels, Results
<1>5. \A w \in Waiters : WaiterAgrees(w) /\ SleepJustified(w)
  BY DEF Init, WaiterAgrees, SleepJustified
<1>6. SlotsCovered
  <2>1. Unseen = {}
    BY DEF Unseen, Init
  <2> QED BY <2>1, FS_EmptySet DEF SlotsCovered, Init
<1>7. HandlerAgrees /\ SignalsKept /\ AgeWaitsMissNothing
  BY DEF Init, HandlerAgrees, SignalsKept, AgeWaitsMissNothing, Ids
<1> QED BY <1>1, <1>2, <1>3, <1>4, <1>5, <1>6, <1>7 DEF IInv, TypeOK

-----------------------------------------------------------------------------
(* What the actions have in common. *)

(* set_event keeps the types of what it writes. *)
LEMMA SetTypes ==
    ASSUME TypeOK, NEW S \in SUBSET Ids, NEW q \in [Ids -> SUBSET Waiters],
           NEW act \in [Waiters -> SUBSET Ids],
           NEW run \in [Waiters -> BOOLEAN],
           SetEventsOn(S, q, act, run)
    PROVE  /\ signaled' \in [Ids -> BOOLEAN] /\ age' \in [Ids -> Nat \ {0}]
           /\ activated' \in [Waiters -> SUBSET Ids]
           /\ running' \in [Waiters -> BOOLEAN]
<1>1. signaled' \in [Ids -> BOOLEAN]
  BY DEF SetEventsOn, TypeOK, EventTypes
<1>2. age' \in [Ids -> Nat \ {0}]
  BY DEF SetEventsOn, TypeOK, EventTypes
<1>3. activated' \in [Waiters -> SUBSET Ids]
  BY DEF SetEventsOn
<1>4. running' \in [Waiters -> BOOLEAN]
  BY DEF SetEventsOn
<1> QED BY <1>1, <1>2, <1>3, <1>4

(* set_event activates and wakes everybody on the queue, and nobody else. *)
LEMMA SetWakes ==
    ASSUME NEW S \in SUBSET Ids, NEW q \in [Ids -> SUBSET Waiters],
           NEW act \in [Waiters -> SUBSET Ids],
           NEW run \in [Waiters -> BOOLEAN],
           SetEventsOn(S, q, act, run), NEW w \in Waiters
    PROVE  /\ act[w] \subseteq activated'[w]
           /\ \A e \in S : w \in q[e] => e \in activated'[w]
           /\ activated'[w] = act[w] \/ running'[w]
           /\ run[w] => running'[w]
           /\ ~running'[w] => ~run[w]
BY DEF SetEventsOn

(* Who is not woken is not activated for anything more. *)
LEMMA SetActivatesWoken ==
    ASSUME NEW S \in SUBSET Ids, NEW q \in [Ids -> SUBSET Waiters],
           NEW act \in [Waiters -> SUBSET Ids],
           NEW run \in [Waiters -> BOOLEAN],
           SetEventsOn(S, q, act, run), NEW w \in Waiters
    PROVE  activated'[w] = act[w] \/ running'[w]
BY SetWakes

(* An event that was set is signalled, or has woken a waiter. *)
LEMMA SetSignals ==
    ASSUME NEW S \in SUBSET Ids, NEW q \in [Ids -> SUBSET Waiters],
           NEW act \in [Waiters -> SUBSET Ids],
           NEW run \in [Waiters -> BOOLEAN],
           SetEventsOn(S, q, act, run), NEW e \in S, auto_reset' = auto_reset,
           \A w \in q[e] : e \in ptr'[w] \ dangling'[w]
    PROVE  SignalHeld(e)'
<1>1. signaled'[e] = (~auto_reset[e] \/ q[e] = {})
  BY DEF SetEventsOn
<1>2. ASSUME NEW w \in q[e] PROVE e \in activated'[w]
  BY DEF SetEventsOn
<1> QED BY <1>1, <1>2 DEF SignalHeld

(* Who leaves the queue of an event that is set has been activated by it. *)
LEMMA SetQueues ==
    ASSUME NEW S \in SUBSET Ids, NEW q \in [Ids -> SUBSET Waiters],
           NEW act \in [Waiters -> SUBSET Ids],
           NEW run \in [Waiters -> BOOLEAN],
           SetEventsOn(S, q, act, run)
    PROVE  /\ wq' \in [Ids -> SUBSET Waiters]
           /\ \A e \in Ids : wq'[e] \subseteq q[e]
           /\ \A e \in Ids, w \in Waiters :
                 w \in q[e] /\ e \notin activated'[w] => w \in wq'[e]
<1>1. PICK off \in [Waiters -> SUBSET S] :
         wq' = [e \in Ids |-> {w \in q[e] : e \notin off[w]}]
  BY Zenon DEF SetEventsOn
<1>2. ASSUME NEW e \in Ids, NEW w \in Waiters, w \in q[e], w \notin wq'[e]
      PROVE  e \in S
  BY <1>1, <1>2
<1>3. \A w \in Waiters : \A e \in S : w \in q[e] => e \in activated'[w]
  BY SetWakes
<1> QED BY <1>1, <1>2, <1>3

(* Events that are not set keep their signal and their age. *)
LEMMA SetLeaves ==
    ASSUME NEW S \in SUBSET Ids, NEW q, NEW act, NEW run,
           SetEventsOn(S, q, act, run), NEW e \in Ids \ S
    PROVE  signaled'[e] = signaled[e] /\ age'[e] = age[e]
BY DEF SetEventsOn

(* The event_waiters stay as they are. *)
LEMMA WaiterFrame ==
    ASSUME NEW w \in Waiters, WaiterAgrees(w),
           UNCHANGED <<want, waits, ptr, dangling, gone, wq>>,
           activated[w] \subseteq activated'[w],
           wpc'[w] = "idle" => wpc[w] = "idle"
    PROVE  WaiterAgrees(w)'
BY DEF WaiterAgrees

(* Whoever touches what a thread waits for wakes it. *)
LEMMA SleepFrame ==
    ASSUME NEW w \in Waiters, SleepJustified(w),
           wpc'[w] \in {"schedule", "asleep"}
              => wpc[w] \in {"schedule", "asleep"},
           ~running'[w] => /\ ~running[w]
                           /\ waits'[w] = waits[w] /\ ptr'[w] = ptr[w]
                           /\ all'[w] = all[w] /\ activated'[w] = activated[w]
    PROVE  SleepJustified(w)'
BY DEF SleepJustified, TestEventCondition

(* The interrupts and the slots stay as they are. *)
LEMMA IrqFrame ==
    ASSUME SlotsCovered, HandlerAgrees,
           UNCHANGED <<exists, slots, irqs, todo, hev, hstage, hgone>>,
           \A e \in owed' : exists[e]
    PROVE  SlotsCovered' /\ HandlerAgrees'
<1>1. Unseen' = Unseen
  BY DEF Unseen
<1> QED BY <1>1 DEF SlotsCovered, HandlerAgrees

(* The events stay as they are. *)
LEMMA CountFrame ==
    ASSUME CountExact, UNCHANGED <<exists, signal_event_count>>
    PROVE  CountExact'
BY DEF CountExact

(* What holds a signal is still there. *)
LEMMA SignalFrame ==
    ASSUME NEW e \in Ids, SignalHeld(e),
           UNCHANGED <<slots, auto_reset, hev, hstage, hgone>>,
           signaled[e] => signaled'[e],
           \A w \in Waiters : /\ e \in activated[w] => e \in activated'[w]
                              /\ e \in ptr[w] \ dangling[w]
                                    => e \in ptr'[w] \ dangling'[w]
    PROVE  SignalHeld(e)'
BY DEF SignalHeld

(* The ages of the events that waits are queued on stay as they are. *)
LEMMA AgeFrame ==
    ASSUME AgeWaitsMissNothing, TypeOK, UNCHANGED <<wq, age, seen>>,
           \A w \in Waiters : activated[w] \subseteq activated'[w]
    PROVE  AgeWaitsMissNothing'
BY WaiterAssumption DEF AgeWaitsMissNothing

(* The number of signal events fits the signal page. *)
LEMMA CountType ==
    ASSUME CountExact
    PROVE  signal_event_count \in 1 .. Slots
<1> DEFINE T == {e \in SigIds : exists[e]}
<1>1. IsFiniteSet(SigIds) /\ T \in SUBSET SigIds
  BY IdAssumption
<1>2. /\ Cardinality(T) \in Nat /\ Cardinality(SigIds) \in Nat
      /\ Cardinality(T) <= Cardinality(SigIds)
  BY <1>1, FS_Subset, FS_CardinalityType
<1>3. signal_event_count = 1 + Cardinality(T)
  BY DEF CountExact
<1> HIDE DEF T
<1> QED BY <1>2, <1>3 DEF Slots

(* The same in the next state. *)
LEMMA CountTypeNext ==
    ASSUME CountExact'
    PROVE  signal_event_count' \in 1 .. Slots
<1> DEFINE T == {e \in SigIds : exists'[e]}
<1>1. IsFiniteSet(SigIds) /\ T \in SUBSET SigIds
  BY IdAssumption
<1>2. /\ Cardinality(T) \in Nat /\ Cardinality(SigIds) \in Nat
      /\ Cardinality(T) <= Cardinality(SigIds)
  BY <1>1, FS_Subset, FS_CardinalityType
<1>3. signal_event_count' = 1 + Cardinality(T)
  BY DEF CountExact
<1> HIDE DEF T
<1> QED BY <1>2, <1>3 DEF Slots

(* There are finitely many slots. *)
LEMMA UnseenFinite ==
    ASSUME TypeOK
    PROVE  IsFiniteSet(Unseen) /\ Cardinality(Unseen) \in Nat
<1>1. Unseen \in SUBSET SigIds
  BY DEF TypeOK, EventTypes, Unseen
<1> QED BY <1>1, IdAssumption, FS_Subset, FS_CardinalityType

-----------------------------------------------------------------------------
(* The ioctls on one event. *)

(* kfd_event_create *)
LEMMA CreateKeeps ==
    ASSUME IInv, NEW e \in Ids, Create(e)
    PROVE  IInv'
<1> USE DEF IInv, TypeOK, setVars, irqVars, handlerVars, callVars, retVars,
    resetVars
<1>1. PICK b \in BOOLEAN : auto_reset' = [auto_reset EXCEPT ![e] = b]
  BY DEF Create
<1>2. /\ ~exists[e] /\ exists' = [exists EXCEPT ![e] = TRUE]
      /\ slots' = slots \ {e}
      /\ signal_event_count' = signal_event_count
                                 + (IF e \in SigIds THEN 1 ELSE 0)
      /\ created' = created + 1 /\ created < MaxCreated
      /\ UNCHANGED <<setVars, wq, owed, irqVars, mutex, wpc, callVars, ptr,
                     dangling, expired, sig, retVars, gone, seen, resetVars>>
  BY DEF Create
<1>3. CountExact'
  <2> DEFINE T == {d \in SigIds : exists[d]}
  <2>1. /\ T' = IF e \in SigIds THEN T \cup {e} ELSE T
        /\ e \notin T /\ T \in SUBSET SigIds
    BY <1>2 DEF EventTypes, Ids
  <2>2. IsFiniteSet(T) /\ Cardinality(T) \in Nat
    BY <2>1, IdAssumption, FS_Subset, FS_CardinalityType
  <2>3. Cardinality(T') = IF e \in SigIds THEN Cardinality(T) + 1
                                          ELSE Cardinality(T)
    BY <2>1, <2>2, FS_AddElement
  <2> QED BY <1>2, <2>2, <2>3 DEF CountExact
<1>4. TypeOK'
  <2>1. signal_event_count' \in 1 .. Slots
    BY <1>3, CountTypeNext
  <2>2. created' \in 0 .. MaxCreated
    BY <1>2, EventBoundAssumption DEF EventTypes
  <2>3. EventTypes'
    BY <1>1, <1>2, <2>1, <2>2 DEF EventTypes
  <2>4. IrqTypes' /\ WaiterTypes'
    BY <1>2 DEF IrqTypes, WaiterTypes
  <2> QED BY <2>3, <2>4
<1>5. ASSUME NEW w \in Waiters PROVE WaiterAgrees(w)' /\ SleepJustified(w)'
  BY <1>2, WaiterFrame, SleepFrame
<1>6. SlotsCovered' /\ HandlerAgrees'
  <2>1. Unseen' = Unseen
    BY <1>2 DEF Unseen, EventTypes, Ids
  <2>2. ~hgone /\ hev # 0 => hev # e
    BY <1>2 DEF HandlerAgrees
  <2> QED BY <1>2, <2>1, <2>2 DEF SlotsCovered, HandlerAgrees, EventTypes,
      IrqTypes, Ids
<1>7. SignalsKept'
  <2>1. ASSUME NEW d \in owed \ wiped PROVE SignalHeld(d)'
    <3>1. d # e /\ d \in Ids
      BY <1>2 DEF HandlerAgrees, EventTypes
    <3>2. auto_reset'[d] = auto_reset[d]
      BY <1>1, <3>1 DEF EventTypes
    <3> QED BY <1>2, <3>1, <3>2 DEF SignalsKept, SignalHeld
  <2> QED BY <1>2, <2>1 DEF SignalsKept
<1>8. AgeWaitsMissNothing'
  BY <1>2, AgeFrame
<1> QED BY <1>3, <1>4, <1>5, <1>6, <1>7, <1>8

(* kfd_event_destroy *)
LEMMA DestroyKeeps ==
    ASSUME IInv, NEW e \in Ids, Destroy(e)
    PROVE  IInv'
<1> USE DEF IInv, TypeOK, callVars, retVars, resetVars
<1>1. /\ exists[e] /\ exists' = [exists EXCEPT ![e] = FALSE]
      /\ ptr' = [w \in Waiters |-> IF w \in wq[e] THEN ptr[w] \ {e}
                                                   ELSE ptr[w]]
      /\ running' = [w \in Waiters |-> running[w] \/ w \in wq[e]]
      /\ dangling' = [w \in Waiters |-> IF w \in Pointing(e) \ wq[e]
                                          THEN dangling[w] \cup {e}
                                          ELSE dangling[w]]
      /\ gone' = [w \in Waiters |-> IF w \in Pointing(e)
                                      THEN gone[w] \cup {e} ELSE gone[w]]
      /\ wq' = [wq EXCEPT ![e] = {}]
  BY DEF Destroy, DestroyWith
<1>2. /\ signal_event_count' = signal_event_count
                                 - (IF e \in SigIds THEN 1 ELSE 0)
      /\ signaled' = [signaled EXCEPT ![e] = FALSE]
      /\ auto_reset' = [auto_reset EXCEPT ![e] = FALSE]
      /\ age' = [age EXCEPT ![e] = 1]
      /\ seen' = [w \in AgeWaiters |-> [seen[w] EXCEPT ![e] = 1]]
      /\ owed' = owed \ {e} /\ wiped' = wiped \ {e}
      /\ hgone' = (hgone \/ hev = e)
      /\ UNCHANGED <<created, activated, slots, irqs, todo, hev, hstage, mutex,
                     wpc, callVars, expired, sig, retVars, resetVars>>
  BY DEF Destroy, DestroyWith
<1>3. CountExact'
  <2> DEFINE T == {d \in SigIds : exists[d]}
  <2>1. /\ T' = T \ {e} /\ T \in SUBSET SigIds
        /\ e \in T <=> e \in SigIds
    BY <1>1 DEF EventTypes, Ids
  <2>2. IsFiniteSet(T) /\ Cardinality(T) \in Nat
    BY <2>1, IdAssumption, FS_Subset, FS_CardinalityType
  <2>3. signal_event_count = 1 + Cardinality(T)
    BY DEF CountExact
  <2>4. CASE e \in SigIds
    <3>1. Cardinality(T') = Cardinality(T) - 1
      BY <2>1, <2>2, <2>4, FS_RemoveElement
    <3>2. signal_event_count' = signal_event_count - 1
      BY <1>2, <2>4
    <3>3. signal_event_count' = 1 + Cardinality(T')
      BY <2>2, <2>3, <3>1, <3>2
    <3> QED BY <3>3 DEF CountExact
  <2>5. CASE e \notin SigIds
    <3>1. T' = T
      BY <2>1, <2>5
    <3>2. signal_event_count' = signal_event_count
      BY <1>2, <2>2, <2>3, <2>5
    <3> QED BY <2>3, <3>1, <3>2 DEF CountExact
  <2> QED BY <2>4, <2>5
<1>4. TypeOK'
  <2>1. signal_event_count' \in 1 .. Slots
    BY <1>3, CountTypeNext
  <2>2. signaled' \in [Ids -> BOOLEAN] /\ auto_reset' \in [Ids -> BOOLEAN]
    BY <1>2 DEF EventTypes
  <2>3. EventTypes'
    BY <1>1, <1>2, <2>1, <2>2 DEF EventTypes
  <2>4. IrqTypes'
    BY <1>2 DEF IrqTypes
  <2>5. /\ ptr' \in [Waiters -> SUBSET Ids]
        /\ gone' \in [Waiters -> SUBSET Ids]
        /\ dangling' \in [Waiters -> SUBSET Ids]
    BY <1>1 DEF WaiterTypes
  <2>6. running' \in [Waiters -> BOOLEAN]
    BY <1>1 DEF WaiterTypes
  <2>7. seen' \in [AgeWaiters -> [Ids -> Nat]]
    BY <1>2 DEF WaiterTypes
  <2>8. WaiterTypes'
    BY <1>2, <2>5, <2>6, <2>7 DEF WaiterTypes
  <2> QED BY <2>3, <2>4, <2>8
<1>5. ASSUME NEW w \in Waiters PROVE WaiterAgrees(w)' /\ SleepJustified(w)'
  <2>1. WaiterAgrees(w)'
    BY <1>1, <1>2 DEF WaiterAgrees, Pointing, EventTypes, WaiterTypes
  <2>2. SleepJustified(w)'
    BY <1>1, <1>2, SleepFrame DEF WaiterTypes
  <2> QED BY <2>1, <2>2
<1>6. SlotsCovered' /\ HandlerAgrees'
  <2>1. Unseen' = Unseen \ {e}
    BY <1>1, <1>2 DEF Unseen, EventTypes, Ids
  <2>2. IsFiniteSet(Unseen) /\ Unseen' \in SUBSET Unseen
    BY <2>1, UnseenFinite
  <2>3. Cardinality(Unseen') <= Cardinality(Unseen)
    BY <2>2, FS_Subset
  <2>4. /\ Cardinality(Unseen) \in Nat
        /\ Cardinality(Unseen') \in Nat
        /\ Len(irqs) \in Nat
    BY <2>2, FS_Subset, FS_CardinalityType DEF IrqTypes
  <2>5. SlotsCovered'
    BY <1>2, <2>3, <2>4 DEF SlotsCovered
  <2>6. HandlerAgrees'
    BY <1>1, <1>2, IdAssumption DEF HandlerAgrees, EventTypes, IrqTypes, Ids
  <2> QED BY <2>5, <2>6
<1>7. SignalsKept'
  <2>1. ASSUME NEW d \in owed \ wiped, d # e PROVE SignalHeld(d)'
    <3>1. /\ d \in Ids
          /\ auto_reset'[d] = auto_reset[d]
          /\ signaled'[d] = signaled[d]
      BY <1>2, <2>1 DEF EventTypes
    <3>2. \A w \in Waiters : d \in ptr[w] \ dangling[w]
                                => d \in ptr'[w] \ dangling'[w]
      BY <1>1, <2>1
    <3>3. hev = d => hgone' = hgone
      BY <1>2, <2>1 DEF IrqTypes
    <3> QED BY <1>2, <2>1, <3>1, <3>2, <3>3 DEF SignalsKept, SignalHeld
  <2> QED BY <1>2, <2>1 DEF SignalsKept
<1>8. AgeWaitsMissNothing'
  BY <1>1, <1>2 DEF AgeWaitsMissNothing, EventTypes, WaiterTypes, Ids
<1> QED BY <1>3, <1>4, <1>5, <1>6, <1>7, <1>8

(* A step that sets the events of S and otherwise changes only the          *)
(* handler's state, which it leaves consistent, keeps the waits.            *)
LEMMA SetKeeps ==
    ASSUME IInv, NEW S \in SUBSET Ids, SetEvents(S),
           \A e \in S : exists[e], owed' \subseteq owed \cup S,
           wiped' \subseteq SigIds, wiped \subseteq wiped' \cup S,
           IrqTypes', SlotsCovered', HandlerAgrees',
           hev = 0 \/ hstage = "ack" \/ hgone \/ hev \in S
              \/ UNCHANGED <<hev, hstage, hgone>>,
           UNCHANGED <<eventVars, slots, mutex, wpc, callVars, ptr, dangling,
                       expired, sig, retVars, gone, seen>>
    PROVE  IInv'
<1> USE DEF IInv, TypeOK, eventVars, callVars, retVars, SetEvents
<1>1. /\ wq \in [Ids -> SUBSET Waiters]
      /\ activated \in [Waiters -> SUBSET Ids]
      /\ running \in [Waiters -> BOOLEAN]
  BY DEF EventTypes, WaiterTypes
<1>2. CountExact'
  BY CountFrame
<1>3. TypeOK'
  <2>1. /\ signaled' \in [Ids -> BOOLEAN] /\ age' \in [Ids -> Nat \ {0}]
        /\ activated' \in [Waiters -> SUBSET Ids]
        /\ running' \in [Waiters -> BOOLEAN]
    BY <1>1, SetTypes
  <2>2. EventTypes'
    BY <1>1, <2>1, SetQueues DEF EventTypes
  <2>3. WaiterTypes'
    BY <2>1 DEF WaiterTypes
  <2> QED BY <2>2, <2>3
<1>4. ASSUME NEW w \in Waiters
      PROVE  /\ activated'[w] = activated[w] \/ running'[w]
             /\ ~running'[w] => ~running[w]
             /\ activated[w] \subseteq activated'[w]
             /\ \A e \in S : w \in wq[e] => e \in activated'[w]
  <2>1. SetEventsOn(S, wq, activated, running)
    BY DEF SetEvents
  <2> HIDE DEF IInv, TypeOK, SetEvents
  <2>2. /\ activated'[w] = activated[w] \/ running'[w]
        /\ ~running'[w] => ~running[w]
    BY <1>1, <2>1, SetWakes
  <2>3. activated[w] \subseteq activated'[w]
    BY <1>1, <2>1, SetWakes
  <2>4. \A e \in S : w \in wq[e] => e \in activated'[w]
    BY <1>1, <2>1, SetWakes
  <2> QED BY <2>2, <2>3, <2>4
<1>5. ASSUME NEW w \in Waiters PROVE WaiterAgrees(w)' /\ SleepJustified(w)'
  <2>1. /\ activated'[w] = activated[w] \/ running'[w]
        /\ ~running'[w] => ~running[w]
        /\ activated[w] \subseteq activated'[w]
    BY <1>4
  <2>2. \A e \in Ids : /\ w \in wq'[e] => w \in wq[e]
                       /\ w \in wq[e] /\ e \notin activated'[w] => w \in wq'[e]
    BY <1>1, SetQueues
  <2>3. WaiterAgrees(w)'
    BY <2>1, <2>2 DEF WaiterAgrees, WaiterTypes
  <2>4. SleepJustified(w)'
    BY <2>1, SleepFrame DEF WaiterTypes
  <2> QED BY <2>3, <2>4
<1>6. SignalsKept'
  <2>1. ASSUME NEW e \in S PROVE SignalHeld(e)'
    <3>1. \A w \in wq[e] : e \in ptr'[w] \ dangling'[w]
      BY <1>1 DEF WaiterAgrees
    <3> QED BY <1>1, <3>1, SetSignals
  <2>2. ASSUME NEW e \in owed \ wiped, e \notin S PROVE SignalHeld(e)'
    <3>1. e \in Ids /\ SignalHeld(e)
      BY DEF EventTypes, SignalsKept
    <3>2. signaled'[e] = signaled[e]
      BY <2>2, <3>1, SetLeaves
    <3>3. \A w \in Waiters : activated[w] \subseteq activated'[w]
      BY <1>4
    <3>4. (hev = e /\ hstage = "set" /\ ~hgone)
             => hev' = e /\ hstage' = "set" /\ ~hgone'
      BY <2>2, <3>1, IdAssumption DEF Ids, IrqTypes
    <3> QED BY <3>1, <3>2, <3>3, <3>4 DEF SignalHeld
  <2> QED BY <2>1, <2>2 DEF SignalsKept
<1>7. AgeWaitsMissNothing'
  <2> SUFFICES ASSUME NEW w \in AgeWaiters, NEW e \in SigIds,
                      w \in wq'[e], e \notin activated'[w]
               PROVE  age'[e] = seen[w][e]
    BY DEF AgeWaitsMissNothing
  <2>1. w \in Waiters /\ e \in Ids /\ w \in wq[e]
    BY <1>1, SetQueues, WaiterAssumption DEF Ids
  <2>2. e \notin activated[w] /\ e \notin S
    BY <1>4, <2>1
  <2>3. age'[e] = age[e]
    BY <2>1, <2>2, SetLeaves
  <2> QED BY <2>1, <2>2, <2>3 DEF AgeWaitsMissNothing
<1> QED BY <1>2, <1>3, <1>5, <1>6, <1>7

(* kfd_set_event *)
LEMMA CpuSetKeeps ==
    ASSUME IInv, NEW e \in Ids, CpuSet(e)
    PROVE  IInv'
<1> USE DEF IInv, TypeOK, CpuSet, eventVars, handlerVars, callVars, retVars,
    resetVars
<1>1. IrqTypes'
  BY DEF IrqTypes
<1>2. SlotsCovered' /\ HandlerAgrees'
  BY IrqFrame DEF HandlerAgrees
<1> QED BY <1>1, <1>2, SetKeeps DEF EventTypes

(* kfd_reset_event *)
LEMMA CpuResetKeeps ==
    ASSUME IInv, NEW e \in Ids, CpuReset(e)
    PROVE  IInv'
<1> USE DEF IInv, TypeOK, CpuReset, eventVars, irqVars, handlerVars, callVars,
    retVars, resetVars
<1>1. signaled' \in [Ids -> BOOLEAN]
  BY DEF EventTypes
<1>2. EventTypes' /\ IrqTypes' /\ WaiterTypes'
  BY <1>1 DEF EventTypes, IrqTypes, WaiterTypes
<1>3. CountExact' /\ SlotsCovered' /\ HandlerAgrees' /\ AgeWaitsMissNothing'
  BY CountFrame, IrqFrame, AgeFrame DEF HandlerAgrees
<1>4. ASSUME NEW w \in Waiters PROVE WaiterAgrees(w)' /\ SleepJustified(w)'
  BY WaiterFrame, SleepFrame
<1>5. SignalsKept'
  <2>1. ASSUME NEW d \in owed \ wiped, d # e PROVE SignalHeld(d)'
    <3>1. d \in Ids /\ signaled'[d] = signaled[d] /\ SignalHeld(d)
      BY <2>1 DEF EventTypes, SignalsKept
    <3> QED BY <3>1, SignalFrame
  <2> QED BY <2>1 DEF SignalsKept
<1> QED BY <1>2, <1>3, <1>4, <1>5

-----------------------------------------------------------------------------
(* Interrupts. *)

(* The GPU writes one slot and raises one interrupt. *)
LEMMA GpuSignalKeeps ==
    ASSUME IInv, NEW e \in Ids, GpuSignal(e)
    PROVE  IInv'
<1> USE DEF IInv, TypeOK, eventVars, setVars, callVars, retVars, resetVars
<1>1. PICK p \in {0, PartialId[e]} : irqs' = Append(irqs, p)
  BY DEF GpuSignal
<1>2. /\ e \in SigIds /\ exists[e] /\ slots' = slots \cup {e}
      /\ owed' = owed \cup {e} /\ wiped' = wiped \ {e}
      /\ UNCHANGED <<eventVars, setVars, wq, todo, hev, hstage, hgone, mutex,
                     wpc, callVars, ptr, dangling, expired, sig, retVars, gone,
                     seen, resetVars>>
  BY DEF GpuSignal
<1>3. irqs' \in Seq(Nat) /\ Len(irqs') = Len(irqs) + 1 /\ Len(irqs) \in Nat
  <2>1. p \in Nat /\ irqs \in Seq(Nat)
    BY <1>1, <1>2, IdAssumption DEF IrqTypes
  <2> QED BY <1>1, <2>1
<1>4. EventTypes' /\ IrqTypes' /\ WaiterTypes'
  BY <1>2, <1>3 DEF EventTypes, IrqTypes, WaiterTypes, Ids
<1>5. CountExact' /\ HandlerAgrees' /\ AgeWaitsMissNothing'
  BY <1>2, CountFrame, AgeFrame DEF HandlerAgrees
<1>6. SlotsCovered'
  <2>1. Unseen' \in SUBSET (Unseen \cup {e})
    BY <1>2 DEF Unseen
  <2>2. IsFiniteSet(Unseen) /\ Cardinality(Unseen) \in Nat
    BY UnseenFinite
  <2>3. /\ IsFiniteSet(Unseen \cup {e})
        /\ Cardinality(Unseen \cup {e}) \in Nat
        /\ Cardinality(Unseen \cup {e}) <= Cardinality(Unseen) + 1
    BY <2>2, FS_AddElement, FS_CardinalityType, SMTT(30)
  <2>4. /\ Cardinality(Unseen') <= Cardinality(Unseen \cup {e})
        /\ Cardinality(Unseen') \in Nat
    BY <2>1, <2>3, FS_Subset, FS_CardinalityType
  <2> QED BY <1>3, <2>2, <2>3, <2>4 DEF SlotsCovered
<1>7. ASSUME NEW w \in Waiters PROVE WaiterAgrees(w)' /\ SleepJustified(w)'
  BY <1>2, WaiterFrame, SleepFrame
<1>8. SignalsKept'
  BY <1>2 DEF SignalsKept, SignalHeld
<1> QED BY <1>4, <1>5, <1>6, <1>7, <1>8

(* A step of the handler that sets no event. *)
LEMMA HandlerFrame ==
    ASSUME IInv, IrqTypes', SlotsCovered', HandlerAgrees',
           UNCHANGED <<eventVars, setVars, wq, slots, owed, wiped, mutex, wpc,
                       callVars, ptr, dangling, expired, sig, retVars, gone,
                       seen>>,
           hev = 0
    PROVE  IInv'
<1> USE DEF IInv, TypeOK, eventVars, setVars, callVars, retVars
<1>1. EventTypes' /\ WaiterTypes'
  BY DEF EventTypes, WaiterTypes
<1>2. CountExact' /\ AgeWaitsMissNothing'
  BY CountFrame, AgeFrame
<1>3. ASSUME NEW w \in Waiters PROVE WaiterAgrees(w)' /\ SleepJustified(w)'
  BY WaiterFrame, SleepFrame
<1>4. SignalsKept'
  BY IdAssumption DEF SignalsKept, SignalHeld, EventTypes, Ids
<1> QED BY <1>1, <1>2, <1>3, <1>4

(* kfd_signal_event_interrupt: one interrupt less, and one slot less to be  *)
(* seen, or none at all when every slot is searched.                        *)
LEMMA IrqTakeKeeps ==
    ASSUME IInv, IrqTake
    PROVE  IInv'
<1> DEFINE match == {e \in slots : exists[e] /\ PartialId[e] = Head(irqs)}
<1>1. /\ todo = {} /\ hev = 0 /\ irqs # <<>> /\ irqs' = Tail(irqs)
      /\ IF match # {} THEN hev' = Min(match) /\ todo' = todo
                       ELSE todo' = SigIds /\ hev' = hev
      /\ UNCHANGED <<eventVars, setVars, wq, slots, owed, wiped, hstage, hgone,
                     mutex, wpc, callVars, ptr, dangling, expired, sig,
                     retVars,
                     gone, seen, resetVars>>
  BY DEF IrqTake, IrqTakeFrom, HandlerIdle
<1>2. hstage = "ack" /\ ~hgone /\ hstage' = "ack" /\ ~hgone'
  BY <1>1 DEF IInv, HandlerAgrees
<1>3. match \in SUBSET slots /\ slots \in SUBSET SigIds /\ slots \in SUBSET Nat
  BY IdAssumption DEF IInv, TypeOK, EventTypes
<1>4. ASSUME match # {} PROVE Min(match) \in slots /\ exists[Min(match)]
  <2>1. Min(match) \in match
    BY <1>3, <1>4, MinIsIn
  <2>2. \A e \in match : e \in slots /\ exists[e]
    OBVIOUS
  <2> HIDE DEF match
  <2> QED BY <2>1, <2>2
<1> HIDE DEF match
<1>5. \/ hev' \in slots /\ exists[hev'] /\ todo' = {}
      \/ hev' = 0 /\ todo' = SigIds
  BY <1>1, <1>4
<1>6. /\ irqs' \in Seq(Nat)
      /\ Len(irqs') = Len(irqs) - 1
      /\ Len(irqs) \in Nat \ {0}
  BY <1>1 DEF IInv, TypeOK, IrqTypes
<1>7. IrqTypes'
  BY <1>1, <1>2, <1>3, <1>5, <1>6 DEF IInv, TypeOK, IrqTypes, resetVars
<1>8. SlotsCovered'
  <2>1. IsFiniteSet(Unseen) /\ Cardinality(Unseen) \in Nat
    BY UnseenFinite DEF IInv
  <2>2. CASE hev' = 0 /\ todo' = SigIds
    <3>1. Unseen' = {}
      BY <1>1, <1>3, <2>2 DEF Unseen, eventVars
    <3> QED BY <1>6, <3>1, FS_EmptySet DEF SlotsCovered
  <2>3. CASE hev' \in slots /\ exists[hev'] /\ todo' = {}
    <3>1. hev' \in Unseen /\ Unseen' = Unseen \ {hev'}
      BY <1>1, <1>2, <1>3, <2>3, IdAssumption DEF Unseen, eventVars
    <3>2. Cardinality(Unseen') = Cardinality(Unseen) - 1
      BY <2>1, <3>1, FS_RemoveElement
    <3> QED BY <1>6, <2>1, <3>2 DEF SlotsCovered, IInv
  <2> QED BY <1>5, <2>2, <2>3
<1>9. HandlerAgrees'
  BY <1>1, <1>2, <1>5 DEF IInv, HandlerAgrees, eventVars
<1> QED BY <1>1, <1>7, <1>8, <1>9, HandlerFrame

(* The exhaustive search looks at the next slot. *)
LEMMA IrqSearchKeeps ==
    ASSUME IInv, IrqSearch
    PROVE  IInv'
<1> DEFINE e == Min(todo)
<1>1. /\ todo # {} /\ hev = 0 /\ todo' = todo \ {e}
      /\ hev' = IF e \in slots /\ exists[e] THEN e ELSE 0
      /\ UNCHANGED <<eventVars, setVars, wq, slots, owed, wiped, irqs, hstage,
                     hgone, mutex, wpc, callVars, ptr, dangling, expired, sig,
                     retVars, gone, seen, resetVars>>
  BY DEF IrqSearch
<1>2. hstage = "ack" /\ ~hgone /\ hstage' = "ack" /\ ~hgone'
  BY <1>1 DEF IInv, HandlerAgrees
<1>3. e \in todo /\ e \in SigIds /\ e # 0
  <2>1. todo \in SUBSET SigIds /\ todo \in SUBSET Nat /\ todo # {}
    BY <1>1, IdAssumption DEF IInv, TypeOK, IrqTypes
  <2> QED BY <2>1, MinIsIn, IdAssumption
<1> HIDE DEF e
<1>4. IrqTypes'
  BY <1>1, <1>3 DEF IInv, TypeOK, IrqTypes, resetVars
<1>5. SlotsCovered'
  <2>1. Unseen' = Unseen
    BY <1>1, <1>2, <1>3, IdAssumption DEF Unseen, eventVars, IInv, TypeOK,
       EventTypes
  <2> QED BY <1>1, <2>1 DEF SlotsCovered, IInv
<1>6. HandlerAgrees'
  BY <1>1, <1>2, <1>3 DEF IInv, HandlerAgrees, eventVars
<1> QED BY <1>1, <1>4, <1>5, <1>6, HandlerFrame

(* acknowledge_signal: the slot goes, and the handler holds the signal. *)
LEMMA IrqAckKeeps ==
    ASSUME IInv, IrqAck
    PROVE  IInv'
<1> USE DEF IInv, TypeOK, eventVars, setVars, callVars, retVars, resetVars,
    IrqAck
<1>1. hev \in SigIds /\ hev \in Ids
  BY DEF IrqTypes, Ids
<1>2. EventTypes' /\ IrqTypes' /\ WaiterTypes'
  BY <1>1 DEF EventTypes, IrqTypes, WaiterTypes
<1>3. CountExact' /\ HandlerAgrees' /\ AgeWaitsMissNothing'
  BY CountFrame, AgeFrame DEF HandlerAgrees
<1>4. SlotsCovered'
  <2>1. Unseen' = Unseen
    BY DEF Unseen
  <2> QED BY <2>1 DEF SlotsCovered
<1>5. ASSUME NEW w \in Waiters PROVE WaiterAgrees(w)' /\ SleepJustified(w)'
  BY WaiterFrame, SleepFrame
<1>6. SignalsKept'
  <2>1. ASSUME NEW d \in owed, d \notin wiped' PROVE SignalHeld(d)'
    <3>1. exists[d] /\ SignalHeld(d)
      BY <2>1 DEF HandlerAgrees, SignalsKept
    <3>2. d = hev => ~hgone'
      BY <2>1, <3>1
    <3> QED BY <3>1, <3>2 DEF SignalHeld
  <2> QED BY <2>1 DEF SignalsKept
<1> QED BY <1>2, <1>3, <1>4, <1>5, <1>6

(* set_event_from_interrupt *)
LEMMA IrqSetKeeps ==
    ASSUME IInv, IrqSet
    PROVE  IInv'
<1> USE DEF IInv, TypeOK, eventVars, callVars, retVars, resetVars, IrqSet
<1> DEFINE S == IF hgone THEN {} ELSE {hev}
<1>1. S \in SUBSET Ids /\ \A e \in S : exists[e]
  BY DEF IrqTypes, Ids, HandlerAgrees
<1>2. IrqTypes'
  BY DEF IrqTypes
<1>3. SlotsCovered' /\ HandlerAgrees'
  <2>1. Unseen' = Unseen
    BY IdAssumption DEF Unseen, EventTypes
  <2> QED BY <2>1 DEF SlotsCovered, HandlerAgrees
<1> QED BY <1>1, <1>2, <1>3, SetKeeps DEF EventTypes

-----------------------------------------------------------------------------
(* kfd_wait_on_events. *)

(* A step of a thread that touches no event, and nobody else's wait. *)
LEMMA ThreadFrame ==
    ASSUME IInv, NEW w \in Waiters, WaiterTypes',
           WaiterAgrees(w)', SleepJustified(w)',
           \A v \in Waiters \ {w} :
              /\ want'[v] = want[v] /\ all'[v] = all[v] /\ wpc'[v] = wpc[v]
              /\ running'[v] = running[v],
           UNCHANGED <<eventVars, signaled, age, activated, wq, slots, owed,
                       irqVars, waits, ptr, dangling, gone, seen, resetVars>>
    PROVE  IInv'
<1> USE DEF IInv, TypeOK, eventVars, irqVars, handlerVars, resetVars
<1>1. EventTypes' /\ IrqTypes'
  BY DEF EventTypes, IrqTypes
<1>2. CountExact' /\ AgeWaitsMissNothing' /\ SlotsCovered' /\ HandlerAgrees'
  BY CountFrame, AgeFrame, IrqFrame DEF HandlerAgrees
<1>3. ASSUME NEW v \in Waiters PROVE WaiterAgrees(v)' /\ SleepJustified(v)'
  <2>1. CASE v # w
    <3>1. WaiterAgrees(v)'
      BY <2>1 DEF WaiterAgrees
    <3>2. SleepJustified(v)'
      BY <2>1, SleepFrame
    <3> QED BY <3>1, <3>2
  <2> QED BY <2>1
<1>4. SignalsKept'
  BY SignalFrame DEF SignalsKept, EventTypes
<1> QED BY <1>1, <1>2, <1>3, <1>4

(* The call is made. *)
LEMMA StartWaitKeeps ==
    ASSUME IInv, NEW w \in Waiters, StartWait(w)
    PROVE  IInv'
<1> USE DEF IInv, TypeOK, setVars
<1>1. PICK S \in WaitSets[w], a \in BOOLEAN, t \in Times :
          /\ want' = [want EXCEPT ![w] = S]
          /\ all' = [all EXCEPT ![w] = a]
          /\ time' = [time EXCEPT ![w] = t]
          /\ expired' = [expired EXCEPT ![w] = (t = "now")]
  BY ZenonT(60) DEF StartWait
<1>2. /\ wpc[w] = "idle" /\ wpc' = [wpc EXCEPT ![w] = "init"] /\ mutex' = w
      /\ ret' = [ret EXCEPT ![w] = "ok"]
      /\ result' = [result EXCEPT ![w] = "timeout"]
      /\ UNCHANGED <<eventVars, setVars, wq, slots, owed, irqVars, waits, ptr,
                     dangling, sig, gone, seen, resetVars>>
  BY DEF StartWait, Goto
<1>3. S \in SUBSET Ids /\ t \in {"now", "finite", "infinite"}
  BY <1>1, WaiterAssumption
<1>4. WaiterTypes'
  <2>1. want' \in [Waiters -> SUBSET Ids] /\ all' \in [Waiters -> BOOLEAN]
    BY <1>1, <1>3 DEF WaiterTypes
  <2>2. expired' \in [Waiters -> BOOLEAN]
    BY <1>1 DEF WaiterTypes
  <2>3. time' \in [Waiters -> {"now", "finite", "infinite"}]
    BY <1>1, <1>3 DEF WaiterTypes
  <2> QED BY <1>2, <2>1, <2>2, <2>3 DEF WaiterTypes, WaitLabels, Results
<1>5. wpc'[w] = "init" /\ want'[w] = S /\ waits[w] = {}
  BY <1>1, <1>2 DEF WaiterTypes, WaiterAgrees
<1>6. WaiterAgrees(w)' /\ SleepJustified(w)'
  BY <1>2, <1>5 DEF WaiterAgrees, SleepJustified
<1>7. \A v \in Waiters \ {w} :
         /\ want'[v] = want[v] /\ all'[v] = all[v] /\ wpc'[v] = wpc[v]
         /\ running'[v] = running[v]
  BY <1>1, <1>2 DEF WaiterTypes
<1> QED BY <1>2, <1>4, <1>6, <1>7, ThreadFrame

(* init_event_waiter: what an auto-reset event loses, the waiter has. *)
LEMMA InitWaiterKeeps ==
    ASSUME IInv, NEW w \in Waiters, NEW e \in Ids, InitWaiter(w, e)
    PROVE  IInv'
<1> USE DEF IInv, TypeOK
<1> DEFINE missed == w \in AgeWaiters /\ e \in SigIds /\ age[e] # seen[w][e]
           now == signaled[e] \/ missed
<1>1. /\ wpc[w] = "init" /\ ret[w] = "ok" /\ e \in want[w]
      /\ UNCHANGED <<eventVars, age, running, slots, owed, irqVars, mutex, wpc,
                     all, time, dangling, expired, sig, result, gone,
                     seen, resetVars>>
  BY DEF InitWaiter, InitWaiterWith
<1>2. CASE ~exists[e]
  <2>1. /\ ret' = [ret EXCEPT ![w] = "EINVAL"]
        /\ UNCHANGED <<want, waits, ptr, activated, wq, signaled>>
    BY <1>2 DEF InitWaiter, InitWaiterWith
  <2>2. WaiterTypes'
    BY <1>1, <2>1 DEF WaiterTypes
  <2>3. WaiterAgrees(w)' /\ SleepJustified(w)'
    BY <1>1, <2>1, WaiterFrame, SleepFrame
  <2> QED BY <1>1, <2>1, <2>2, <2>3, ThreadFrame
<1>3. CASE exists[e]
  <2>1. /\ want' = [want EXCEPT ![w] = @ \ {e}]
        /\ waits' = [waits EXCEPT ![w] = @ \cup {e}]
        /\ ptr' = [ptr EXCEPT ![w] = @ \cup {e}]
        /\ ret' = ret
    BY <1>3 DEF InitWaiter, InitWaiterWith
  <2>2. /\ activated' = [activated EXCEPT ![w] =
                           IF now THEN @ \cup {e} ELSE @]
        /\ wq' = [wq EXCEPT ![e] = IF now THEN @ ELSE @ \cup {w}]
        /\ signaled' = [signaled EXCEPT ![e] = @ /\ ~auto_reset[e]]
    BY <1>3 DEF InitWaiter, InitWaiterWith
  <2>3. e \notin waits[w] /\ e \notin dangling[w] /\ e \notin gone[w]
        /\ w \notin wq[e]
    BY <1>1 DEF WaiterAgrees
  <2>4. /\ activated' \in [Waiters -> SUBSET Ids]
        /\ \A v \in Waiters : activated[v] \subseteq activated'[v]
        /\ now => e \in activated'[w]
        /\ \A v \in Waiters \ {w} : activated'[v] = activated[v]
    <3> HIDE DEF now
    <3> QED BY <2>2 DEF WaiterTypes
  <2>5. /\ wq' \in [Ids -> SUBSET Waiters]
        /\ \A d \in Ids \ {e} : wq'[d] = wq[d]
        /\ now => wq'[e] = wq[e]
        /\ wq'[e] \subseteq wq[e] \cup {w} /\ wq[e] \subseteq wq'[e]
        /\ ~now => w \in wq'[e]
    <3> HIDE DEF now
    <3> QED BY <2>2 DEF EventTypes
  <2>6. /\ signaled' \in [Ids -> BOOLEAN]
        /\ \A d \in Ids \ {e} : signaled'[d] = signaled[d]
        /\ signaled'[e] = (signaled[e] /\ ~auto_reset[e])
    <3> HIDE DEF now
    <3> QED BY <2>2 DEF EventTypes
  <2>7. EventTypes' /\ IrqTypes'
    BY <1>1, <2>5, <2>6 DEF EventTypes, IrqTypes, eventVars, irqVars,
       handlerVars, resetVars
  <2>8. WaiterTypes'
    BY <1>1, <2>1, <2>4, ZenonT(60) DEF WaiterTypes
  <2>9. CountExact' /\ SlotsCovered' /\ HandlerAgrees'
    BY <1>1, CountFrame, IrqFrame DEF HandlerAgrees, eventVars, irqVars,
       handlerVars
  <2>10. ASSUME NEW v \in Waiters PROVE WaiterAgrees(v)' /\ SleepJustified(v)'
    <3>1. CASE v = w
      <4>1. want'[w] = want[w] \ {e} /\ waits'[w] = waits[w] \cup {e}
            /\ ptr'[w] = ptr[w] \cup {e}
        BY <2>1 DEF WaiterTypes
      <4>2. \A d \in ptr'[w] \ activated'[w] : w \in wq'[d]
        <5>1. ASSUME NEW d \in ptr[w], d \notin activated'[w], d # e
              PROVE  w \in wq'[d]
          BY <2>4, <2>5, <5>1, SMTT(30) DEF WaiterAgrees, WaiterTypes
        <5> HIDE DEF now
        <5> QED BY <2>4, <2>5, <4>1, <5>1
      <4>3. /\ dangling'[w] \subseteq ptr'[w] \cap activated'[w]
            /\ \A d \in Ids : w \in wq'[d] => d \in ptr'[w] \ dangling'[w]
        BY <1>1, <2>3, <2>4, <2>5, <4>1 DEF WaiterAgrees
      <4>4. WaiterAgrees(w)'
        BY <1>1, <2>3, <4>1, <4>2, <4>3 DEF WaiterAgrees
      <4>5. SleepJustified(w)'
        BY <1>1 DEF SleepJustified
      <4> QED BY <3>1, <4>4, <4>5
    <3>2. CASE v # w
      <4>1. want'[v] = want[v] /\ waits'[v] = waits[v] /\ ptr'[v] = ptr[v]
        BY <2>1, <3>2 DEF WaiterTypes
      <4>2. \A d \in Ids : v \in wq'[d] <=> v \in wq[d]
        BY <2>5, <3>2
      <4>3. WaiterAgrees(v)'
        BY <1>1, <2>4, <3>2, <4>1, <4>2 DEF WaiterAgrees, WaiterTypes
      <4>4. SleepJustified(v)'
        BY <1>1, <2>4, <3>2, <4>1, SleepFrame
      <4> QED BY <4>3, <4>4
    <3> QED BY <3>1, <3>2
  <2>11. SignalsKept'
    <3>1. ASSUME NEW d \in owed \ wiped PROVE SignalHeld(d)'
      <4>1. d \in Ids /\ SignalHeld(d)
        BY DEF EventTypes, SignalsKept
      <4>2. \A v \in Waiters : d \in ptr[v] \ dangling[v]
                                  => d \in ptr'[v] \ dangling'[v]
        BY <1>1, <2>1 DEF WaiterTypes
      <4>3. CASE signaled[d] => signaled'[d]
        BY <1>1, <2>4, <4>1, <4>2, <4>3, SignalFrame DEF eventVars, irqVars,
           handlerVars
      <4>4. CASE signaled[d] /\ ~signaled'[d]
        <5>1. d = e /\ auto_reset'[e] /\ now
          BY <1>1, <2>6, <4>1, <4>4 DEF eventVars, EventTypes
        <5>2. e \in activated'[w] /\ e \in ptr'[w] \ dangling'[w]
          BY <1>1, <2>1, <2>3, <2>4, <5>1 DEF WaiterTypes
        <5> QED BY <5>1, <5>2 DEF SignalHeld
      <4> QED BY <4>3, <4>4
    <3> QED BY <1>1, <3>1 DEF SignalsKept, irqVars
  <2>12. AgeWaitsMissNothing'
    <3> SUFFICES ASSUME NEW v \in AgeWaiters, NEW d \in SigIds,
                        v \in wq'[d], d \notin activated'[v]
                 PROVE  age[d] = seen[v][d]
      BY <1>1 DEF AgeWaitsMissNothing
    <3>1. v \in Waiters /\ d \in Ids
      BY WaiterAssumption DEF Ids
    <3>2. CASE v \in wq[d]
      BY <2>4, <3>1, <3>2 DEF AgeWaitsMissNothing
    <3>3. CASE v \notin wq[d]
      <4>1. v = w /\ d = e /\ ~now
        BY <2>5, <3>1, <3>3
      <4> QED BY <4>1
    <3> QED BY <3>2, <3>3
  <2> QED BY <2>7, <2>8, <2>9, <2>10, <2>11, <2>12
<1> QED BY <1>2, <1>3

(* Events that a restarted wait gives back are its own. *)
LEMMA UndoType ==
    ASSUME TypeOK, NEW w \in Waiters, NEW r
    PROVE  /\ UndoAutoReset(w, r) \in SUBSET Ids
           /\ \A e \in Ids :
                e \in UndoAutoReset(w, r)
                   <=> /\ r = "ERESTARTSYS" /\ auto_reset[e]
                       /\ e \in activated[w] \cap (ptr[w] \ dangling[w])
BY DEF UndoAutoReset, TypeOK, WaiterTypes

(* free_waiters: the signals that a wait has consumed are returned by it,   *)
(* or given back.                                                           *)
LEMMA FreeWaitersKeeps ==
    ASSUME IInv, NEW w \in Waiters, NEW r, NEW res, FreeWaiters(w, r, res),
           UNCHANGED <<eventVars, slots, irqVars, resetVars>>
    PROVE  IInv'
<1> USE DEF IInv, TypeOK, eventVars, irqVars, handlerVars, resetVars
<1> DEFINE q == [e \in Ids |-> wq[e] \ {w}]
           U == UndoAutoReset(w, r)
           act == [activated EXCEPT ![w] = {}]
           run == [running EXCEPT ![w] = TRUE]
<1>1. /\ SetEventsOn(U, q, act, run)
      /\ owed' = IF r = "ERESTARTSYS" THEN owed ELSE owed \ activated[w]
      /\ seen' = IF w \in AgeWaiters /\ r = "ok" /\ res = "complete"
                   THEN [seen EXCEPT ![w] = [e \in Ids |->
                           IF e \in activated[w] \ dangling[w] THEN age[e]
                                                               ELSE @[e]]]
                   ELSE seen
  BY DEF FreeWaiters
<1>2. /\ ret' = [ret EXCEPT ![w] = "ok"]
      /\ result' = [result EXCEPT ![w] = "timeout"]
      /\ want' = [want EXCEPT ![w] = {}] /\ waits' = [waits EXCEPT ![w] = {}]
      /\ ptr' = [ptr EXCEPT ![w] = {}]
      /\ dangling' = [dangling EXCEPT ![w] = {}]
      /\ gone' = [gone EXCEPT ![w] = {}]
      /\ all' = [all EXCEPT ![w] = FALSE] /\ time' = [time EXCEPT ![w] = "now"]
      /\ expired' = [expired EXCEPT ![w] = FALSE]
      /\ sig' = [sig EXCEPT ![w] = "none"]
      /\ mutex' = NoOne
      /\ wpc' = [wpc EXCEPT ![w] = "idle"]
  BY DEF FreeWaiters, Goto
<1>3. /\ q \in [Ids -> SUBSET Waiters] /\ act \in [Waiters -> SUBSET Ids]
      /\ run \in [Waiters -> BOOLEAN] /\ U \in SUBSET Ids
      /\ \A e \in Ids : q[e] = wq[e] \ {w}
      /\ act[w] = {} /\ run[w] /\ \A v \in Waiters \ {w} :
                              act[v] = activated[v] /\ run[v] = running[v]
  BY UndoType DEF EventTypes, WaiterTypes
<1>4. \A e \in Ids :
         e \in U <=> /\ r = "ERESTARTSYS" /\ auto_reset[e]
                    /\ e \in activated[w] \cap (ptr[w] \ dangling[w])
  BY UndoType
<1> HIDE DEF q, U, act, run
<1>5. /\ signaled' \in [Ids -> BOOLEAN] /\ age' \in [Ids -> Nat \ {0}]
      /\ activated' \in [Waiters -> SUBSET Ids]
      /\ running' \in [Waiters -> BOOLEAN]
  BY <1>1, <1>3, SetTypes
<1>6. \A v \in Waiters :
         /\ act[v] \subseteq activated'[v]
         /\ \A e \in U : v \in q[e] => e \in activated'[v]
         /\ activated'[v] = act[v] \/ running'[v]
         /\ ~running'[v] => ~run[v]
  <2> SUFFICES ASSUME NEW v \in Waiters
               PROVE  /\ act[v] \subseteq activated'[v]
                      /\ \A e \in U : v \in q[e] => e \in activated'[v]
                      /\ activated'[v] = act[v] \/ running'[v]
                      /\ ~running'[v] => ~run[v]
    OBVIOUS
  <2>1. act[v] \subseteq activated'[v]
    BY <1>1, <1>3, SetWakes
  <2>2. \A e \in U : v \in q[e] => e \in activated'[v]
    BY <1>1, <1>3, SetWakes
  <2>3. activated'[v] = act[v] \/ running'[v]
    BY <1>1, <1>3, SetActivatesWoken
  <2>4. ~running'[v] => ~run[v]
    BY <1>1, <1>3, SetWakes, SMTT(30)
  <2> QED BY <2>1, <2>2, <2>3, <2>4
<1>7. /\ \A e \in Ids \ U : signaled'[e] = signaled[e] /\ age'[e] = age[e]
      /\ wq' \in [Ids -> SUBSET Waiters] /\ \A e \in Ids : wq'[e] \subseteq q[e]
      /\ \A e \in Ids, v \in Waiters :
            v \in q[e] /\ e \notin activated'[v] => v \in wq'[e]
  <2>1. \A e \in Ids \ U : signaled'[e] = signaled[e] /\ age'[e] = age[e]
    BY <1>1, <1>3, SetLeaves
  <2>2. /\ wq' \in [Ids -> SUBSET Waiters] /\ \A e \in Ids : wq'[e] \subseteq q[e]
        /\ \A e \in Ids, v \in Waiters :
              v \in q[e] /\ e \notin activated'[v] => v \in wq'[e]
    BY <1>1, <1>3, SetQueues
  <2> QED BY <2>1, <2>2
<1>8. EventTypes' /\ IrqTypes'
  <2>1. owed' \subseteq owed
    BY <1>1
  <2> QED BY <1>1, <1>5, <1>7, <2>1 DEF EventTypes, IrqTypes
<1>9. WaiterTypes'
  <2>1. seen' \in [AgeWaiters -> [Ids -> Nat]]
    BY <1>1 DEF EventTypes, WaiterTypes
  <2> QED BY <1>2, <1>5, <2>1 DEF WaiterTypes, WaitLabels, Results
<1>10. CountExact' /\ SlotsCovered' /\ HandlerAgrees'
  BY <1>1, CountFrame, IrqFrame DEF HandlerAgrees
<1>11. ASSUME NEW v \in Waiters PROVE WaiterAgrees(v)' /\ SleepJustified(v)'
  <2>1. CASE v = w
    <3>1. /\ want'[w] = {} /\ waits'[w] = {} /\ ptr'[w] = {} /\ gone'[w] = {}
          /\ dangling'[w] = {} /\ wpc'[w] = "idle"
      BY <1>2 DEF WaiterTypes
    <3>2. \A e \in Ids : w \notin wq'[e]
      BY <1>3, <1>7
    <3> QED BY <2>1, <3>1, <3>2 DEF WaiterAgrees, SleepJustified
  <2>2. CASE v # w
    <3>1. /\ want'[v] = want[v] /\ waits'[v] = waits[v] /\ ptr'[v] = ptr[v]
          /\ gone'[v] = gone[v] /\ dangling'[v] = dangling[v]
          /\ wpc'[v] = wpc[v] /\ all'[v] = all[v]
      BY <1>2, <2>2 DEF WaiterTypes
    <3>2. WaiterAgrees(v)'
      <4>1. activated[v] \subseteq activated'[v]
        BY <1>3, <1>6, <2>2
      <4>2. \A e \in Ids :
               /\ v \in wq'[e] => v \in wq[e]
               /\ v \in wq[e] /\ e \notin activated'[v] => v \in wq'[e]
        BY <1>3, <1>7, <2>2
      <4> QED BY <3>1, <4>1, <4>2 DEF WaiterAgrees, WaiterTypes
    <3>3. activated'[v] = activated[v] \/ running'[v]
      BY <1>3, <1>6, <2>2
    <3>4. ~running'[v] => ~running[v]
      BY <1>3, <1>6, <2>2
    <3>5. SleepJustified(v)'
      BY <3>1, <3>3, <3>4, SleepFrame
    <3> QED BY <3>2, <3>5
  <2> QED BY <2>1, <2>2
<1>12. SignalsKept'
  <2>1. ASSUME NEW e \in owed' \ wiped' PROVE SignalHeld(e)'
    <3>1. e \in Ids /\ e \in owed \ wiped /\ SignalHeld(e)
      BY <1>1 DEF EventTypes, SignalsKept
    <3>2. CASE e \in U
      <4>1. \A v \in q[e] : e \in ptr'[v] \ dangling'[v]
        BY <1>2, <1>3, <3>1 DEF WaiterAgrees, WaiterTypes, EventTypes
      <4> QED BY <1>1, <1>3, <3>2, <4>1, SetSignals
    <3>3. CASE e \notin U
      <4>1. signaled'[e] = signaled[e]
        BY <1>7, <3>1, <3>3
      <4>2. ASSUME auto_reset[e], NEW v \in Waiters,
                   e \in activated[v] \cap (ptr[v] \ dangling[v])
            PROVE  e \in activated'[v] \cap (ptr'[v] \ dangling'[v])
        <5>1. v # w
          BY <1>1, <1>4, <3>1, <3>3, <4>2
        <5> QED BY <1>2, <1>3, <1>6, <4>2, <5>1 DEF WaiterTypes
      <4> QED BY <3>1, <4>1, <4>2 DEF SignalHeld
    <3> QED BY <3>2, <3>3
  <2> QED BY <2>1 DEF SignalsKept
<1>13. AgeWaitsMissNothing'
  <2> SUFFICES ASSUME NEW v \in AgeWaiters, NEW e \in SigIds,
                      v \in wq'[e], e \notin activated'[v]
               PROVE  age'[e] = seen'[v][e]
    BY DEF AgeWaitsMissNothing
  <2>1. v \in Waiters /\ e \in Ids
    BY WaiterAssumption DEF Ids
  <2>2. v # w /\ v \in wq[e] /\ v \in q[e]
    BY <1>3, <1>7, <2>1
  <2>3. e \notin activated[v] /\ e \notin U
    BY <1>3, <1>6, <2>1, <2>2
  <2>4. age'[e] = age[e] /\ seen'[v] = seen[v]
    BY <1>1, <1>7, <2>1, <2>2, <2>3 DEF WaiterTypes
  <2> QED BY <2>2, <2>3, <2>4 DEF AgeWaitsMissNothing
<1> QED BY <1>8, <1>9, <1>10, <1>11, <1>12, <1>13

(* A wait that has nothing to wake up for finds no other result. *)
LEMMA TestDecides ==
    ASSUME NEW w \in Waiters, "timeout" \in TestEventCondition(w)
    PROVE  TestEventCondition(w) = {"timeout"}
BY DEF TestEventCondition

(* The test has one of three results. *)
LEMMA TestType ==
    ASSUME NEW w \in Waiters
    PROVE  TestEventCondition(w) \in SUBSET Results
BY DEF TestEventCondition, Results

(* The first check: the wait ends, or the loop begins. *)
LEMMA FirstCheckKeeps ==
    ASSUME IInv, NEW w \in Waiters, FirstCheck(w)
    PROVE  IInv'
<1>1. wpc[w] = "init" /\ UNCHANGED <<eventVars, slots, irqVars, resetVars>>
  BY DEF FirstCheck
<1>2. CASE \E r, res : EndWait(w, r, res)
  BY <1>1, <1>2, FreeWaitersKeeps DEF EndWait
<1>3. CASE /\ Goto(w, "loop") /\ mutex' = NoOne
           /\ UNCHANGED <<setVars, wq, owed, callVars, ptr, dangling,
                          expired, sig, retVars, gone, seen>>
  <2>1. WaiterTypes'
    BY <1>3 DEF IInv, TypeOK, WaiterTypes, WaitLabels, Goto, setVars,
       callVars, retVars
  <2>2. wpc' = [wpc EXCEPT ![w] = "loop"] /\ wpc'[w] = "loop"
    BY <1>3 DEF Goto, IInv, TypeOK, WaiterTypes
  <2>3. WaiterAgrees(w)' /\ SleepJustified(w)'
    BY <1>3, <2>2, WaiterFrame DEF IInv, SleepJustified, callVars, setVars
  <2>4. \A v \in Waiters \ {w} : wpc'[v] = wpc[v]
    BY <2>2 DEF IInv, TypeOK, WaiterTypes
  <2> QED BY <1>1, <1>3, <2>1, <2>3, <2>4, ThreadFrame DEF setVars, callVars
<1> QED BY <1>2, <1>3 DEF FirstCheck

(* The end of the call. *)
LEMMA FinishKeeps ==
    ASSUME IInv, NEW w \in Waiters, Finish(w)
    PROVE  IInv'
BY FreeWaitersKeeps DEF Finish, EndWait

(* The loop head: the state is set before the test, so that who sets an     *)
(* event after the test wakes the thread.                                   *)
LEMMA LoopHeadKeeps ==
    ASSUME IInv, NEW w \in Waiters, LoopHead(w)
    PROVE  IInv'
<1> USE DEF IInv, TypeOK
<1>1. /\ wpc[w] = "loop"
      /\ UNCHANGED <<eventVars, signaled, age, activated, wq, slots, owed,
                     irqVars, mutex, callVars, ptr, dangling, expired, sig,
                     gone,
                     seen, resetVars>>
  BY DEF LoopHead
<1>2. CASE /\ sig[w] # "none" /\ ret' = [ret EXCEPT ![w] = sig[w]]
           /\ Goto(w, "lock") /\ UNCHANGED <<running, result>>
  <2>1. WaiterTypes'
    BY <1>1, <1>2 DEF WaiterTypes, WaitLabels, Goto, callVars
  <2>2. wpc'[w] = "lock" /\ \A v \in Waiters \ {w} : wpc'[v] = wpc[v]
    BY <1>2 DEF Goto, WaiterTypes
  <2>3. WaiterAgrees(w)' /\ SleepJustified(w)'
    BY <1>1, <2>2, WaiterFrame DEF SleepJustified, callVars
  <2> QED BY <1>1, <1>2, <2>1, <2>2, <2>3, ThreadFrame DEF callVars
<1>3. ASSUME NEW res \in TestEventCondition(w), NEW done \in BOOLEAN,
             done \/ res = "timeout", ret' = ret,
             result' = [result EXCEPT ![w] = res],
             running' = [running EXCEPT ![w] = done],
             Goto(w, IF done THEN "lock" ELSE "schedule")
      PROVE  IInv'
  <2>1. res \in Results
    BY TestType
  <2>2. WaiterTypes'
    BY <1>1, <1>3, <2>1 DEF WaiterTypes, WaitLabels, Goto, callVars
  <2>3. /\ wpc'[w] = (IF done THEN "lock" ELSE "schedule")
        /\ running'[w] = done
        /\ \A v \in Waiters \ {w} :
              wpc'[v] = wpc[v] /\ running'[v] = running[v]
    BY <1>3 DEF Goto, WaiterTypes
  <2>4. WaiterAgrees(w)'
    BY <1>1, <2>3, WaiterFrame DEF callVars
  <2>5. TestEventCondition(w)' = TestEventCondition(w)
    BY <1>1 DEF TestEventCondition, callVars
  <2>6. SleepJustified(w)'
    BY <1>3, <2>3, <2>5, TestDecides DEF SleepJustified
  <2> QED BY <1>1, <1>3, <2>2, <2>3, <2>4, <2>6, ThreadFrame DEF callVars
<1> QED
  <2>1. CASE sig[w] = "none" /\ ret' = ret
    <3>1. PICK res \in TestEventCondition(w) :
             LET done == \/ res # "timeout"
                         \/ time[w] # "infinite" /\ expired[w]
             IN  /\ result' = [result EXCEPT ![w] = res]
                 /\ running' = [running EXCEPT ![w] = done]
                 /\ Goto(w, IF done THEN "lock" ELSE "schedule")
      BY <2>1, Zenon DEF LoopHead
    <3> DEFINE done == res # "timeout" \/ (time[w] # "infinite" /\ expired[w])
    <3>2. done \in BOOLEAN /\ (done \/ res = "timeout")
      BY Zenon
    <3>3. /\ result' = [result EXCEPT ![w] = res]
          /\ running' = [running EXCEPT ![w] = done]
          /\ Goto(w, IF done THEN "lock" ELSE "schedule")
      BY <3>1
    <3> HIDE DEF done
    <3> QED BY <1>3, <2>1, <3>2, <3>3
  <2> QED BY <1>2, <2>1 DEF LoopHead

(* A step that only moves a thread, and may wake it. *)
LEMMA MoveKeeps ==
    ASSUME IInv, NEW w \in Waiters, NEW l \in WaitLabels \ {"idle"},
           Goto(w, l),
           l = "asleep" => wpc[w] = "schedule" /\ running' = running,
           l # "schedule", NEW b \in BOOLEAN, running[w] => b,
           running' = [running EXCEPT ![w] = b],
           NEW r \in {"ok", "EINVAL", "EINTR", "ERESTARTSYS", "ETIME"},
           ret' = [ret EXCEPT ![w] = r],
           UNCHANGED <<eventVars, signaled, age, activated, wq, slots, owed,
                       irqVars, mutex, callVars, ptr, dangling, expired, sig,
                       result, gone, seen, resetVars>>
    PROVE  IInv'
<1> USE DEF IInv, TypeOK, callVars
<1>1. WaiterTypes'
  BY DEF WaiterTypes, Goto
<1>2. /\ wpc'[w] = l /\ running'[w] = b
      /\ \A v \in Waiters \ {w} : wpc'[v] = wpc[v] /\ running'[v] = running[v]
  BY DEF WaiterTypes, Goto
<1>3. WaiterAgrees(w)'
  BY <1>2, WaiterFrame
<1>4. SleepJustified(w)'
  BY <1>2, SleepFrame DEF SleepJustified
<1> QED BY <1>1, <1>2, <1>3, <1>4, ThreadFrame

(* schedule_timeout is called. *)
LEMMA ScheduleKeeps ==
    ASSUME IInv, NEW w \in Waiters, Schedule(w)
    PROVE  IInv'
<1> DEFINE l == IF running[w] THEN "poll" ELSE "asleep"
<1>1. /\ l \in WaitLabels \ {"idle", "schedule"} /\ Goto(w, l)
      /\ wpc[w] = "schedule" /\ running' = running
  BY DEF Schedule, WaitLabels, setVars
<1>2. /\ running[w] \in BOOLEAN
      /\ running' = [running EXCEPT ![w] = running[w]]
      /\ ret[w] \in {"ok", "EINVAL", "EINTR", "ERESTARTSYS", "ETIME"}
      /\ ret' = [ret EXCEPT ![w] = ret[w]]
  BY DEF Schedule, IInv, TypeOK, WaiterTypes, setVars, retVars
<1>3. UNCHANGED <<eventVars, signaled, age, activated, wq, slots, owed,
                  irqVars, mutex, callVars, ptr, dangling, expired, sig,
                  result, gone, seen, resetVars>>
  BY DEF Schedule, setVars, retVars
<1> HIDE DEF l
<1> QED BY <1>1, <1>2, <1>3, MoveKeeps

(* The sleep ends. *)
LEMMA AwakeKeeps ==
    ASSUME IInv, NEW w \in Waiters, Awake(w)
    PROVE  IInv'
<1>1. /\ ret[w] \in {"ok", "EINVAL", "EINTR", "ERESTARTSYS", "ETIME"}
      /\ ret' = [ret EXCEPT ![w] = ret[w]]
  BY DEF Awake, IInv, TypeOK, WaiterTypes, retVars
<1> QED BY <1>1, MoveKeeps DEF Awake, WaitLabels, retVars

(* The checks after a sleep. *)
LEMMA PollKeeps ==
    ASSUME IInv, NEW w \in Waiters, Poll(w)
    PROVE  IInv'
<1> DEFINE etime == ResetPending \/ (time[w] = "infinite" /\ expired[w])
           l == IF etime THEN "lock" ELSE "loop"
           r == IF etime THEN "ETIME" ELSE "ok"
<1>1. /\ l \in WaitLabels \ {"idle", "schedule", "asleep"} /\ Goto(w, l)
      /\ r \in {"ok", "EINVAL", "EINTR", "ERESTARTSYS", "ETIME"}
      /\ ret' = [ret EXCEPT ![w] = r]
  BY DEF Poll, PollWith, WaitLabels
<1>2. running[w] \in BOOLEAN /\ running' = [running EXCEPT ![w] = running[w]]
  BY DEF Poll, PollWith, IInv, TypeOK, WaiterTypes, setVars
<1>3. UNCHANGED <<eventVars, signaled, age, activated, wq, slots, owed,
                  irqVars, mutex, callVars, ptr, dangling, expired, sig,
                  result, gone, seen, resetVars>>
  BY DEF Poll, PollWith, setVars
<1> HIDE DEF l, r, etime
<1> QED BY <1>1, <1>2, <1>3, MoveKeeps

(* A signal arrives. *)
LEMMA SignalKeeps ==
    ASSUME IInv, NEW w \in Waiters, Signal(w)
    PROVE  IInv'
<1> USE DEF IInv, TypeOK
<1>1. PICK s \in {"ERESTARTSYS", "EINTR"} : sig' = [sig EXCEPT ![w] = s]
  BY DEF Signal
<1>2. /\ running' = [running EXCEPT ![w] = TRUE]
      /\ UNCHANGED <<eventVars, signaled, age, activated, wq, slots, owed,
                     irqVars, mutex, wpc, callVars, ptr, dangling, expired,
                     retVars, gone, seen, resetVars>>
  BY DEF Signal
<1>3. WaiterTypes'
  BY <1>1, <1>2 DEF WaiterTypes, callVars, retVars
<1>4. /\ running'[w]
      /\ \A v \in Waiters \ {w} : running'[v] = running[v]
  BY <1>2 DEF WaiterTypes
<1>5. WaiterAgrees(w)' /\ SleepJustified(w)'
  BY <1>2, <1>4, WaiterFrame DEF SleepJustified, callVars
<1> QED BY <1>2, <1>3, <1>4, <1>5, ThreadFrame DEF callVars

(* Time passes. *)
LEMMA ExpireKeeps ==
    ASSUME IInv, NEW w \in Waiters, Expire(w)
    PROVE  IInv'
<1> USE DEF IInv, TypeOK
<1>1. WaiterTypes'
  BY DEF Expire, WaiterTypes, setVars, callVars, retVars
<1>2. WaiterAgrees(w)' /\ SleepJustified(w)'
  BY WaiterFrame, SleepFrame DEF Expire, setVars, callVars
<1> QED BY <1>1, <1>2, ThreadFrame DEF Expire, setVars, callVars

-----------------------------------------------------------------------------
(* The reset domain. *)

(* The steps that touch nothing but the lock. *)
LEMMA ResetLockKeeps ==
    ASSUME IInv, ResetLock \/ ResetUnlock \/ ReaderLock \/ ReaderUnlock
    PROVE  IInv'
<1> USE DEF IInv, TypeOK
<1>1. UNCHANGED <<noReset, wq, setVars, owed>>
  BY DEF ResetLock, ResetUnlock, ReaderLock, ReaderUnlock
<1>2. /\ reset' \in {"none", "waiting", "holding", "halted"}
      /\ reader' \in {"none", "reading", "blocked"}
  BY DEF ResetLock, ResetUnlock, ReaderLock, ReaderUnlock, IrqTypes
<1> USE DEF noReset, setVars, eventVars, irqVars, handlerVars, callVars,
    retVars
<1>3. EventTypes' /\ IrqTypes' /\ WaiterTypes'
  BY <1>1, <1>2 DEF EventTypes, IrqTypes, WaiterTypes
<1>4. CountExact' /\ AgeWaitsMissNothing' /\ SlotsCovered' /\ HandlerAgrees'
  BY <1>1, CountFrame, AgeFrame, IrqFrame DEF HandlerAgrees
<1>5. ASSUME NEW w \in Waiters PROVE WaiterAgrees(w)' /\ SleepJustified(w)'
  BY <1>1, WaiterFrame, SleepFrame
<1>6. SignalsKept'
  BY <1>1, SignalFrame DEF SignalsKept, EventTypes
<1> QED BY <1>3, <1>4, <1>5, <1>6

(* kgd2kfd_pre_reset *)
LEMMA ResetSignalKeeps ==
    ASSUME IInv, ResetSignal
    PROVE  IInv'
<1> USE DEF IInv, TypeOK, noReset, eventVars, irqVars, handlerVars, callVars,
    retVars
<1>1. PICK S \in {HwIds \cap Existing, {}} :
         SetEvents(S) /\ owed' = owed \cup S
  BY DEF ResetSignal
<1>2. S \in SUBSET Ids /\ \A e \in S : exists[e]
  BY DEF Existing, Ids
<1>3. IrqTypes'
  BY DEF ResetSignal, IrqTypes
<1>4. SlotsCovered' /\ HandlerAgrees'
  BY <1>1, <1>2, IrqFrame DEF ResetSignal, HandlerAgrees
<1> QED BY <1>1, <1>2, <1>3, <1>4, SetKeeps DEF ResetSignal, EventTypes

-----------------------------------------------------------------------------
(* Every step keeps the inductive invariant. *)
LEMMA NextInv == IInv /\ [Next]_vars => IInv'
<1> SUFFICES ASSUME IInv, [Next]_vars PROVE IInv'
    OBVIOUS
<1>1. ASSUME NEW e \in Ids, Create(e) \/ Destroy(e) \/ CpuSet(e) \/ CpuReset(e)
                              \/ GpuSignal(e)
      PROVE  IInv'
  BY <1>1, CreateKeeps, DestroyKeeps, CpuSetKeeps, CpuResetKeeps,
     GpuSignalKeeps
<1>2. CASE IrqStep
  BY <1>2, IrqTakeKeeps, IrqSearchKeeps, IrqAckKeeps, IrqSetKeeps DEF IrqStep
<1>3. CASE ResetStep
  BY <1>3, ResetLockKeeps, ResetSignalKeeps DEF ResetStep
<1>4. ASSUME NEW w \in Waiters, WaitStep(w) PROVE IInv'
  BY <1>4, InitWaiterKeeps, FirstCheckKeeps, LoopHeadKeeps, ScheduleKeeps,
     AwakeKeeps, PollKeeps DEF WaitStep
<1>5. ASSUME NEW w \in Waiters,
             StartWait(w) \/ Finish(w) \/ Signal(w) \/ Expire(w)
      PROVE  IInv'
  BY <1>5, StartWaitKeeps, FinishKeeps, SignalKeeps, ExpireKeeps
<1>6. CASE UNCHANGED vars
  <2> USE DEF IInv, TypeOK, vars, setVars, eventVars, irqVars, handlerVars,
      callVars, retVars, resetVars
  <2>1. EventTypes' /\ IrqTypes' /\ WaiterTypes'
    BY <1>6 DEF EventTypes, IrqTypes, WaiterTypes
  <2>2. CountExact' /\ AgeWaitsMissNothing' /\ SlotsCovered' /\ HandlerAgrees'
    BY <1>6, CountFrame, AgeFrame, IrqFrame DEF HandlerAgrees
  <2>3. ASSUME NEW w \in Waiters PROVE WaiterAgrees(w)' /\ SleepJustified(w)'
    BY <1>6, WaiterFrame, SleepFrame
  <2>4. SignalsKept'
    BY <1>6, SignalFrame DEF SignalsKept, EventTypes
  <2> QED BY <2>1, <2>2, <2>3, <2>4
<1> QED BY <1>1, <1>2, <1>3, <1>4, <1>5, <1>6 DEF Next

(* The inductive invariant always holds. *)
LEMMA SpecInv == Spec => []IInv
BY InitInv, NextInv, PTL DEF Spec

(* Type correctness: in particular, signal_event_count never exceeds the    *)
(* signal page, whose last id it would otherwise hand out.                  *)
THEOREM TypesCorrect == Spec => []TypeOK
BY SpecInv, PTL DEF IInv

(* No wake-up of kfd_wait_on_events is lost: set_event and destroy_event    *)
(* wake whoever has tested its condition before them.                       *)
THEOREM NeverLostWakeup == Spec => []NoLostWakeup
<1>1. IInv => NoLostWakeup
  BY DEF IInv, SleepJustified, NoLostWakeup
<1> QED BY <1>1, SpecInv, PTL

(* A signal stays in the signal page, with the interrupt handler, in the    *)
(* event or with a waiter, until a wait comes back with it.                 *)
THEOREM NeverSignalLost == Spec => []NoSignalLost
<1>1. IInv => NoSignalLost
  BY DEF IInv, SignalsKept, SignalHeld, NoSignalLost
<1> QED BY <1>1, SpecInv, PTL

(* Every slot that the GPU has written is looked at by the handler at work, *)
(* or an interrupt is left for it: there are never fewer interrupts than    *)
(* slots that nobody will look at.                                          *)
THEOREM EverySlotWillBeSeen == Spec => []SlotWillBeSeen
<1>1. ASSUME IInv PROVE SlotWillBeSeen
  <2>1. ASSUME irqs = <<>> PROVE Unseen = {}
    <3>1. IsFiniteSet(Unseen) /\ Cardinality(Unseen) \in Nat
      BY <1>1, UnseenFinite DEF IInv
    <3>2. Cardinality(Unseen) = 0
      BY <1>1, <2>1, <3>1 DEF IInv, SlotsCovered
    <3> QED BY <3>1, <3>2, FS_EmptySet
  <2> QED BY <2>1 DEF SlotWillBeSeen, Unseen
<1> QED BY <1>1, SpecInv, PTL

(* A wait that passes the age it has seen does not sleep through an event.  *)
THEOREM AgeWaitsNeverMiss == Spec => []AgeWaitsMissNothing
BY SpecInv, PTL DEF IInv

(* A wait does not report itself as complete when one of its events was     *)
(* destroyed before it was set for this wait.  Of an event that was set     *)
(* first nothing is said: destroy_event does not reach a waiter that        *)
(* set_event has taken off the queue.                                       *)
THEOREM DestroyedAlwaysFails == Spec => []DestroyedFails
<1>1. IInv => DestroyedFails
  BY DEF IInv, WaiterAgrees, DestroyedFails, CopySignaledEventData
<1> QED BY <1>1, SpecInv, PTL
=============================================================================
