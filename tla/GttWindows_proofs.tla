------------------------- MODULE GttWindows_proofs -------------------------
(***************************************************************************)
(* For every number of threads, slots and chunks: two operations that hold *)
(* a slot never share a GART window, no path out of an operation leaves a  *)
(* lock behind, and without migrations every copy goes through its own     *)
(* mapping.                                                                *)
(***************************************************************************)
EXTENDS GttWindows, SequenceTheorems, TLAPS

(* gtt_num_slots is between 1 and AMDGPU_GTT_MAX_SLOTS, and leaves room for *)
(* the slot of the reserved pool when there is one.                         *)
LEMMA NumSlotsRange ==
    /\ NumSlots \in 1 .. MaxSlots
    /\ ReservedPool => NumSlots <= MaxSlots - 1
    /\ ReservedSlot = NumSlots
    /\ NumWindows = 2 * MaxSlots
BY ParamAssumption DEF NumSlots, ReservedSlot, NumWindows, Clamp, Lower

(* The initial state satisfies the inductive invariant. *)
LEMMA InitInv == Init => IInv
<1> SUFFICES ASSUME Init PROVE IInv
    OBVIOUS
<1> USE NumSlotsRange, ParamAssumption, ThreadsAssumption
<1>1. TypeOK
  BY DEF Init, TypeOK, Labels, Tags, Unmapped
<1>2. LocksAgree
  BY DEF Init, LocksAgree, ThreadAgrees, SlotAgrees, Holding, Migrating,
         Threads
<1>3. \A t \in Threads : WorkLeft(t)
  BY DEF Init, WorkLeft, Working
<1> QED BY <1>1, <1>2, <1>3 DEF IInv

(* A step that moves one thread within its class of labels and changes no  *)
(* lock keeps the locks and the program counters in agreement.             *)
LEMMA LocalStep ==
    ASSUME TypeOK, LocksAgree, NEW t \in Threads, NEW l,
           pc' = [pc EXCEPT ![t] = l],
           l \in Holding <=> pc[t] \in Holding,
           l \in Migrating <=> pc[t] \in Migrating,
           UNCHANGED <<slot, slotLock, reservedLock, windowLock>>
    PROVE  LocksAgree'
<1>1. ASSUME NEW u \in Threads PROVE ThreadAgrees(u)'
  <2>1. ThreadAgrees(u)
    BY DEF LocksAgree
  <2>2. /\ pc'[u] \in Holding <=> pc[u] \in Holding
        /\ pc'[u] \in Migrating <=> pc[u] \in Migrating
    BY DEF TypeOK
  <2> QED BY <2>1, <2>2 DEF ThreadAgrees, HoldsSlot
<1>2. ASSUME NEW i \in 0 .. MaxSlots - 1 PROVE SlotAgrees(i)'
  BY DEF LocksAgree, SlotAgrees
<1> QED BY <1>1, <1>2 DEF LocksAgree

(* A step of one thread keeps chunks ahead of every thread that works. *)
LEMMA WorkStep ==
    ASSUME TypeOK, NEW t \in Threads, NEW l, NEW n,
           \A u \in Threads : WorkLeft(u),
           pc' = [pc EXCEPT ![t] = l], left' = [left EXCEPT ![t] = n],
           l \in Working => n > 0
    PROVE  (\A u \in Threads : WorkLeft(u))'
BY DEF TypeOK, WorkLeft

(* Taking a free slot: amdgpu_ttm_acquire_slot by trylock or blocking. *)
LEMMA TakeSlotStep ==
    ASSUME TypeOK, LocksAgree, NEW t \in Threads, NEW i \in 0 .. NumSlots - 1,
           slotLock[i] = NoOne, pc[t] \notin Holding, pc[t] \notin Migrating,
           pc' = [pc EXCEPT ![t] = "map_src"],
           slot' = [slot EXCEPT ![t] = i],
           slotLock' = [slotLock EXCEPT ![i] = t],
           UNCHANGED <<reservedLock, windowLock>>
    PROVE  LocksAgree'
<1> USE NumSlotsRange, ParamAssumption, ThreadsAssumption
<1>0. slot[t] = -1 /\ reservedLock # t /\ i \in 0 .. MaxSlots - 1
  BY DEF LocksAgree, ThreadAgrees, TypeOK
<1>1. ASSUME NEW u \in Threads PROVE ThreadAgrees(u)'
  <2>1. ThreadAgrees(u)
    BY DEF LocksAgree
  <2>2. CASE u = t
    BY <1>0, <2>1, <2>2 DEF ThreadAgrees, HoldsSlot, TypeOK, Holding, Migrating
  <2>3. CASE u # t
    <3>1. pc'[u] = pc[u] /\ slot'[u] = slot[u]
      BY <2>3 DEF TypeOK
    <3>2. \A j \in 0 .. MaxSlots - 1 : slotLock[j] = u => slotLock'[j] = u
      BY <1>0, <2>3 DEF TypeOK
    <3>3. slot[u] # -1 => HoldsSlot(u)'
      <4>1. slot[u] \in -1 .. MaxSlots - 1
        BY DEF TypeOK
      <4> QED BY <2>1, <3>1, <3>2, <4>1 DEF ThreadAgrees, HoldsSlot
    <3> QED BY <2>1, <3>1, <3>3 DEF ThreadAgrees
  <2> QED BY <2>2, <2>3
<1>2. ASSUME NEW j \in 0 .. MaxSlots - 1 PROVE SlotAgrees(j)'
  <2>1. SlotAgrees(j)
    BY DEF LocksAgree
  <2>2. CASE j = i
    BY <1>0, <2>2 DEF SlotAgrees, TypeOK
  <2>3. CASE j # i
    BY <1>0, <2>1, <2>3 DEF SlotAgrees, TypeOK
  <2> QED BY <2>2, <2>3
<1> QED BY <1>1, <1>2 DEF LocksAgree

(* The start of a copy: the reserved pool is taken, or the scan begins. *)
LEMMA StartCopyInv ==
    ASSUME IInv, NEW t \in Threads, StartCopy(t) PROVE IInv'
<1> USE NumSlotsRange, ParamAssumption, ThreadsAssumption
<1> USE DEF Goto
<1>0. TypeOK /\ LocksAgree /\ \A u \in Threads : WorkLeft(u)
  BY DEF IInv
<1> PICK n \in Chunks, s \in SUBSET {"src", "dst"} :
       left' = [left EXCEPT ![t] = n] /\ needs' = [needs EXCEPT ![t] = s]
  BY ChoiceAssumption DEF StartCopy
<1>1. UNCHANGED <<expired, slotLock, windowLock, ring, window>>
  BY DEF StartCopy
<1>2. /\ left' \in [Threads -> 0 .. MaxChunks]
      /\ needs' \in [Threads -> SUBSET {"src", "dst"}]
  <2>1. left' \in [Threads -> 0 .. MaxChunks]
    BY <1>0 DEF TypeOK, Chunks
  <2>2. needs' \in [Threads -> SUBSET {"src", "dst"}]
    BY <1>0 DEF TypeOK
  <2> QED BY <2>1, <2>2
<1>3. pc[t] = "idle" /\ slot[t] = -1
  BY <1>0 DEF StartCopy, LocksAgree, ThreadAgrees, Holding
<1>6. n > 0
  BY DEF Chunks
<1>4. CASE /\ reservedLock = NoOne /\ reservedLock' = t /\ ReservedPool
           /\ slot' = [slot EXCEPT ![t] = ReservedSlot]
           /\ pc' = [pc EXCEPT ![t] = "map_src"] /\ UNCHANGED idx
  <2>1. slot' \in [Threads -> -1 .. MaxSlots - 1]
    BY <1>0, <1>4 DEF TypeOK
  <2>2. pc' \in [Threads -> Labels]
    BY <1>0, <1>4 DEF TypeOK, Labels
  <2>3. TypeOK'
    BY <1>0, <1>1, <1>2, <1>4, <2>1, <2>2 DEF TypeOK
  <2>4. ASSUME NEW u \in Threads PROVE ThreadAgrees(u)'
    <3>1. ThreadAgrees(u)
      BY <1>0 DEF LocksAgree
    <3>2. CASE u = t
      BY <1>0, <1>1, <1>3, <1>4, <3>1, <3>2
         DEF ThreadAgrees, HoldsSlot, TypeOK, Holding, Migrating
    <3>3. CASE u # t
      BY <1>0, <1>1, <1>3, <1>4, <3>1, <3>3 DEF ThreadAgrees, HoldsSlot, TypeOK
    <3> QED BY <3>2, <3>3
  <2>5. ASSUME NEW j \in 0 .. MaxSlots - 1 PROVE SlotAgrees(j)'
    BY <1>0, <1>1, <1>3, <1>4 DEF LocksAgree, SlotAgrees, TypeOK
  <2>6. (\A u \in Threads : WorkLeft(u))'
    BY <1>0, <1>4, <1>6, WorkStep
  <2> QED BY <2>3, <2>4, <2>5, <2>6 DEF IInv, LocksAgree
<1>5. CASE /\ idx' = [idx EXCEPT ![t] = 0]
           /\ pc' = [pc EXCEPT ![t] = "plan_a"]
           /\ UNCHANGED <<reservedLock, slot>>
  <2>1. idx' \in [Threads -> 0 .. MaxSlots] /\ pc' \in [Threads -> Labels]
    BY <1>0, <1>5, SMTT(30) DEF TypeOK, Labels
  <2>2. TypeOK'
    BY <1>0, <1>1, <1>2, <1>5, <2>1 DEF TypeOK
  <2>3. LocksAgree'
    BY <1>0, <1>1, <1>3, <1>5, LocalStep DEF Holding, Migrating
  <2>4. (\A u \in Threads : WorkLeft(u))'
    BY <1>0, <1>5, <1>6, WorkStep
  <2> QED BY <2>2, <2>3, <2>4 DEF IInv
<1> QED BY <1>4, <1>5 DEF StartCopy

(* The start of a clear or fill. *)
LEMMA StartFillInv ==
    ASSUME IInv, NEW t \in Threads, StartFill(t) PROVE IInv'
<1> USE NumSlotsRange, ParamAssumption
<1> USE DEF Goto
<1>0. TypeOK /\ LocksAgree /\ \A u \in Threads : WorkLeft(u)
  BY DEF IInv
<1> PICK n \in Chunks : left' = [left EXCEPT ![t] = n]
  BY DEF StartFill
<1>1. n > 0 /\ n \in 0 .. MaxChunks
  BY DEF Chunks
<1>2. /\ left' \in [Threads -> 0 .. MaxChunks]
      /\ needs' \in [Threads -> SUBSET {"src", "dst"}]
      /\ idx' \in [Threads -> 0 .. MaxSlots]
  <2>1. left' \in [Threads -> 0 .. MaxChunks]
    BY <1>0, <1>1 DEF TypeOK
  <2>2. needs' \in [Threads -> SUBSET {"src", "dst"}]
    BY <1>0 DEF StartFill, TypeOK
  <2>3. idx' \in [Threads -> 0 .. MaxSlots]
    BY <1>0 DEF StartFill, TypeOK
  <2> QED BY <2>1, <2>2, <2>3
<1>3. pc' \in [Threads -> Labels]
  BY <1>0 DEF StartFill, TypeOK, Labels
<1>4. TypeOK'
  BY <1>0, <1>2, <1>3 DEF StartFill, TypeOK
<1>5. LocksAgree'
  BY <1>0, LocalStep DEF StartFill, Holding, Migrating
<1>6. (\A u \in Threads : WorkLeft(u))'
  BY <1>0, <1>1, WorkStep DEF StartFill
<1> QED BY <1>4, <1>5, <1>6 DEF IInv

(* The start of an SVM migration, which takes gtt_window_lock. *)
LEMMA StartMigrateInv ==
    ASSUME IInv, NEW t \in Threads, StartMigrate(t) PROVE IInv'
<1> USE ParamAssumption, ThreadsAssumption
<1> USE DEF Goto
<1>0. TypeOK /\ LocksAgree /\ \A u \in Threads : WorkLeft(u)
  BY DEF IInv
<1> PICK n \in Chunks : left' = [left EXCEPT ![t] = n]
  BY DEF StartMigrate
<1>1. n > 0 /\ n \in 0 .. MaxChunks
  BY DEF Chunks
<1>2. left' \in [Threads -> 0 .. MaxChunks]
  BY <1>0, <1>1 DEF TypeOK
<1>3. pc' \in [Threads -> Labels]
  BY <1>0 DEF StartMigrate, TypeOK, Labels
<1>4. TypeOK'
  BY <1>0, <1>2, <1>3 DEF StartMigrate, TypeOK
<1>5. ASSUME NEW u \in Threads PROVE ThreadAgrees(u)'
  <2>1. ThreadAgrees(u)
    BY <1>0 DEF LocksAgree
  <2>2. CASE u = t
    BY <1>0, <2>1, <2>2
       DEF StartMigrate, ThreadAgrees, HoldsSlot, TypeOK, Holding, Migrating
  <2>3. CASE u # t
    BY <1>0, <2>1, <2>3 DEF StartMigrate, ThreadAgrees, HoldsSlot, TypeOK
  <2> QED BY <2>2, <2>3
<1>6. ASSUME NEW i \in 0 .. MaxSlots - 1 PROVE SlotAgrees(i)'
  BY <1>0 DEF StartMigrate, LocksAgree, SlotAgrees
<1>7. (\A u \in Threads : WorkLeft(u))'
  BY <1>0, <1>1, WorkStep DEF StartMigrate
<1> QED BY <1>4, <1>5, <1>6, <1>7 DEF IInv, LocksAgree

(* The steps of amdgpu_ttm_acquire_slot that take a slot, look further or *)
(* give up the wait for slot 0.                                           *)
LEMMA AcquireInv ==
    ASSUME IInv, NEW t \in Threads,
           TrySlot(t) \/ LockSlot0(t) \/ LockInterrupted(t)
    PROVE  IInv'
<1> USE NumSlotsRange, ParamAssumption, ThreadsAssumption
<1> USE DEF Goto
<1>0. TypeOK /\ LocksAgree /\ \A u \in Threads : WorkLeft(u)
  BY DEF IInv
<1>1. /\ pc[t] \in {"plan_a", "plan_b", "lock_0"}
      /\ UNCHANGED <<left, needs, reservedLock, windowLock, ring, window>>
  BY DEF TrySlot, LockSlot0, LockInterrupted
<1>2. pc[t] \notin Holding /\ pc[t] \notin Migrating /\ pc[t] \in Working
  BY <1>1 DEF Holding, Migrating, Working, Labels
<1>3. left' = [left EXCEPT ![t] = left[t]] /\ left[t] > 0
  BY <1>0, <1>1, <1>2 DEF TypeOK, WorkLeft
<1>4. ASSUME NEW i \in 0 .. NumSlots - 1, slotLock[i] = NoOne,
             slotLock' = [slotLock EXCEPT ![i] = t],
             slot' = [slot EXCEPT ![t] = i],
             pc' = [pc EXCEPT ![t] = "map_src"],
             idx' \in {idx, [idx EXCEPT ![t] = 0]},
             expired' \in {expired, [expired EXCEPT ![t] = FALSE]}
      PROVE IInv'
  <2>1. /\ slot' \in [Threads -> -1 .. MaxSlots - 1]
        /\ slotLock' \in [0 .. MaxSlots - 1 -> Threads \cup {NoOne}]
    BY <1>0, <1>4 DEF TypeOK
  <2>2. idx' \in [Threads -> 0 .. MaxSlots]
    <3>1. 0 \in 0 .. MaxSlots
      OBVIOUS
    <3>2. idx \in [Threads -> 0 .. MaxSlots]
      BY <1>0 DEF TypeOK
    <3> QED BY <1>4, <3>1, <3>2, Zenon
  <2>3. expired' \in [Threads -> BOOLEAN]
    BY <1>0, <1>4 DEF TypeOK
  <2>4. pc' \in [Threads -> Labels]
    BY <1>0, <1>4 DEF TypeOK, Labels
  <2>5. TypeOK'
    BY <1>0, <1>1, <2>1, <2>2, <2>3, <2>4 DEF TypeOK
  <2>6. LocksAgree'
    BY <1>0, <1>1, <1>2, <1>4, TakeSlotStep, Zenon
  <2>7. (\A u \in Threads : WorkLeft(u))'
    BY <1>0, <1>3, <1>4, WorkStep
  <2> QED BY <2>5, <2>6, <2>7 DEF IInv
<1>5. CASE TrySlot(t)
  <2>1. idx[t] \in 0 .. NumSlots - 1
    BY <1>0, <1>5 DEF TrySlot, TypeOK
  <2>2. CASE slotLock[idx[t]] = NoOne
    BY <1>4, <1>5, <2>1, <2>2 DEF TrySlot
  <2>3. CASE slotLock[idx[t]] # NoOne
    <3>1. /\ idx' = [idx EXCEPT ![t] = idx[t] + 1]
          /\ UNCHANGED <<pc, slot, slotLock, expired>>
      BY <1>5, <2>3 DEF TrySlot
    <3>2. idx' \in [Threads -> 0 .. MaxSlots]
      <4>1. idx[t] + 1 \in 0 .. MaxSlots
        BY <2>1
      <4>2. idx \in [Threads -> 0 .. MaxSlots]
        BY <1>0 DEF TypeOK
      <4> QED BY <3>1, <4>1, <4>2, Zenon
    <3>3. TypeOK'
      BY <1>0, <1>1, <3>1, <3>2 DEF TypeOK
    <3>4. pc' = [pc EXCEPT ![t] = pc[t]]
      BY <1>0, <3>1 DEF TypeOK
    <3>5. LocksAgree'
      BY <1>0, <1>1, <3>1, <3>4, LocalStep, Zenon
    <3>6. (\A u \in Threads : WorkLeft(u))'
      BY <1>0, <1>3, <3>4, WorkStep
    <3> QED BY <3>3, <3>5, <3>6 DEF IInv
  <2> QED BY <2>2, <2>3
<1>6. CASE LockSlot0(t)
  <2>1. /\ slotLock[0] = NoOne
        /\ slotLock' = [slotLock EXCEPT ![0] = t]
        /\ slot' = [slot EXCEPT ![t] = 0]
        /\ pc' = [pc EXCEPT ![t] = "map_src"]
        /\ UNCHANGED <<idx, expired>>
    BY <1>6 DEF LockSlot0
  <2>2. 0 \in 0 .. NumSlots - 1
    OBVIOUS
  <2>3. idx' \in {idx, [idx EXCEPT ![t] = 0]}
    BY <2>1, Zenon
  <2>4. expired' \in {expired, [expired EXCEPT ![t] = FALSE]}
    BY <2>1, Zenon
  <2> QED BY <1>4, <2>1, <2>2, <2>3, <2>4, Zenon
<1>7. CASE LockInterrupted(t)
  <2>1. /\ pc' = [pc EXCEPT ![t] = "restart"]
        /\ UNCHANGED <<idx, slot, slotLock, expired>>
    BY <1>7 DEF LockInterrupted
  <2>2. pc' \in [Threads -> Labels]
    BY <1>0, <2>1 DEF TypeOK, Labels
  <2>3. TypeOK'
    BY <1>0, <1>1, <2>1, <2>2 DEF TypeOK
  <2>4. LocksAgree'
    BY <1>0, <1>1, <1>2, <2>1, LocalStep DEF Holding, Migrating
  <2>5. (\A u \in Threads : WorkLeft(u))'
    BY <1>0, <1>3, <2>1, WorkStep
  <2> QED BY <2>3, <2>4, <2>5 DEF IInv
<1> QED BY <1>5, <1>6, <1>7

(* The steps of the waits: no lock changes hands. *)
LEMMA WaitInv ==
    ASSUME IInv, NEW t \in Threads,
           ScanFailed(t) \/ CheckDeadline(t) \/ WakeUp(t) \/ GiveUp(t)
               \/ Expire(t)
    PROVE  IInv'
<1> USE NumSlotsRange, ParamAssumption
<1> USE DEF Goto
<1>0. TypeOK /\ LocksAgree /\ \A u \in Threads : WorkLeft(u)
  BY DEF IInv
<1>1. UNCHANGED <<slot, slotLock, reservedLock, windowLock, ring, window>>
  BY DEF ScanFailed, CheckDeadline, WakeUp, GiveUp, Expire
<1>2. CASE ScanFailed(t) \/ CheckDeadline(t) \/ WakeUp(t)
  <2> DEFINE waits == {"plan_a", "plan_b", "sleep", "deadline", "lock_0",
                       "eagain", "restart"}
  <2>1. /\ pc[t] \in waits /\ UNCHANGED <<left, needs, expired>>
        /\ idx' \in {idx, [idx EXCEPT ![t] = 0]}
    BY <1>2 DEF ScanFailed, CheckDeadline, WakeUp
  <2>2. PICK l \in waits : pc' = [pc EXCEPT ![t] = l]
    BY <1>2 DEF ScanFailed, CheckDeadline, WakeUp
  <2>3. \A k \in waits : /\ k \in Labels /\ k \in Working
                         /\ k \notin Holding /\ k \notin Migrating
    BY DEF Labels, Working, Holding, Migrating
  <2>4. pc' \in [Threads -> Labels] /\ idx' \in [Threads -> 0 .. MaxSlots]
    <3>1. 0 \in 0 .. MaxSlots
      OBVIOUS
    <3>2. idx \in [Threads -> 0 .. MaxSlots] /\ pc \in [Threads -> Labels]
      BY <1>0 DEF TypeOK
    <3> QED BY <2>1, <2>2, <2>3, <3>1, <3>2, Zenon
  <2>5. TypeOK'
    BY <1>0, <1>1, <2>1, <2>4 DEF TypeOK
  <2>6. LocksAgree'
    BY <1>0, <1>1, <2>1, <2>2, <2>3, LocalStep
  <2>7. left' = [left EXCEPT ![t] = left[t]] /\ left[t] > 0
    BY <1>0, <2>1, <2>3 DEF TypeOK, WorkLeft
  <2>8. (\A u \in Threads : WorkLeft(u))'
    BY <1>0, <2>2, <2>7, WorkStep
  <2> QED BY <2>5, <2>6, <2>8 DEF IInv
<1>3. CASE GiveUp(t)
  <2>1. /\ left' \in [Threads -> 0 .. MaxChunks]
        /\ needs' \in [Threads -> SUBSET {"src", "dst"}]
    <3>1. left' \in [Threads -> 0 .. MaxChunks]
      BY <1>0, <1>3 DEF GiveUp, TypeOK
    <3>2. needs' \in [Threads -> SUBSET {"src", "dst"}]
      BY <1>0, <1>3 DEF GiveUp, TypeOK
    <3> QED BY <3>1, <3>2
  <2>2. expired' \in [Threads -> BOOLEAN]
    BY <1>0, <1>3 DEF GiveUp, TypeOK
  <2>3. pc' \in [Threads -> Labels]
    BY <1>0, <1>3 DEF GiveUp, TypeOK, Labels
  <2>4. TypeOK'
    BY <1>0, <1>1, <1>3, <2>1, <2>2, <2>3 DEF GiveUp, TypeOK
  <2>5. LocksAgree'
    BY <1>0, <1>1, <1>3, LocalStep DEF GiveUp, Holding, Migrating
  <2>6. (\A u \in Threads : WorkLeft(u))'
    BY <1>0, <1>3, WorkStep DEF GiveUp, Working
  <2> QED BY <2>4, <2>5, <2>6 DEF IInv
<1>4. CASE Expire(t)
  <2>1. expired' \in [Threads -> BOOLEAN]
    BY <1>0, <1>4 DEF Expire, TypeOK
  <2>2. TypeOK'
    BY <1>0, <1>1, <1>4, <2>1 DEF Expire, TypeOK
  <2>3. LocksAgree' /\ (\A u \in Threads : WorkLeft(u))'
    BY <1>0, <1>1, <1>4
       DEF Expire, LocksAgree, ThreadAgrees, SlotAgrees, HoldsSlot, WorkLeft
  <2> QED BY <2>2, <2>3 DEF IInv
<1> QED BY <1>2, <1>3, <1>4

(* A sequence of jobs with one more job is a sequence of jobs. *)
LEMMA AppendJob ==
    ASSUME NEW s \in Seq(Jobs), NEW job \in Jobs
    PROVE  Append(s, job) \in Seq(Jobs)
OBVIOUS

(* The ring stays a sequence of jobs. *)
LEMMA EnqueueType ==
    ASSUME ring \in Seq(Jobs), NEW job \in Jobs, Enqueue(job)
    PROVE  ring' \in Seq(Jobs)
<1>1. Append(ring, job) \in Seq(Jobs)
  OBVIOUS
<1>2. ring' = ring \/ ring' = Append(ring, job)
  BY Zenon DEF Enqueue
<1> QED BY <1>1, <1>2

(* Submitting the jobs of one chunk: the ring grows, no lock changes hands. *)
LEMMA SubmitInv ==
    ASSUME IInv, NEW t \in Threads,
           MapSrc(t) \/ MapDst(t) \/ UseWindows(t) PROVE IInv'
<1> USE NumSlotsRange, ParamAssumption
<1> USE DEF Goto
<1>0. TypeOK /\ LocksAgree /\ \A u \in Threads : WorkLeft(u)
  BY DEF IInv
<1> DEFINE inner == {"map_src", "map_dst", "use"}
<1>1. /\ pc[t] \in inner
      /\ UNCHANGED <<idx, slot, needs, expired, slotLock, reservedLock,
                     windowLock, window>>
  BY DEF MapSrc, MapDst, MapSide, UseWindows
<1>2. \A k \in inner \cup {"unlock"} :
         k \in Labels /\ k \in Holding /\ k \notin Migrating
  BY DEF Labels, Holding, Migrating
<1>3. \A k \in inner : k \in Working
  BY DEF Labels, Working
<1>4. slot[t] \in 0 .. MaxSlots - 1 /\ left[t] > 0
  BY <1>0, <1>1, <1>2, <1>3 DEF LocksAgree, ThreadAgrees, TypeOK, WorkLeft
<1>5. \A side : WinOf(t, side) \in 0 .. NumWindows - 1
  BY <1>4 DEF WinOf
<1>6. Tag(t) \in Tags
  BY <1>0 DEF Tag, Tags, TypeOK
<1>7. /\ \A side : MapJob(t, WinOf(t, side)) \in Jobs
      /\ UseJob(t, {WinOf(t, s) : s \in needs[t]}) \in Jobs
  BY <1>5, <1>6 DEF MapJob, UseJob, Jobs
<1> DEFINE effect(l, n) ==
        /\ l \in inner \cup {"unlock"} /\ n \in 0 .. MaxChunks
        /\ ring' \in Seq(Jobs)
        /\ pc' = [pc EXCEPT ![t] = l]
        /\ left' = [left EXCEPT ![t] = n]
        /\ l \in Working => n > 0
<1>8. \E l, n : effect(l, n)
  <2>1. left = [left EXCEPT ![t] = left[t]] /\ ring \in Seq(Jobs)
    BY <1>0 DEF TypeOK
  <2>2. left[t] \in 0 .. MaxChunks /\ left[t] - 1 \in 0 .. MaxChunks
    <3>1. left[t] \in 0 .. MaxChunks
      BY <1>0, Zenon DEF TypeOK
    <3> QED BY <1>4, <3>1
  <2>3. "unlock" \notin Working
    BY DEF Working
  <2>4. ASSUME NEW job \in Jobs, NEW next \in inner, UNCHANGED left,
               \/ ring' = Append(ring, job) /\ pc' = [pc EXCEPT ![t] = next]
               \/ UNCHANGED ring /\ pc' = [pc EXCEPT ![t] = "unlock"]
               \/ UNCHANGED ring /\ pc' = [pc EXCEPT ![t] = next]
        PROVE  \E l, n : effect(l, n)
    <3>1. ring' \in Seq(Jobs)
      <4>1. ring' = Append(ring, job) \/ ring' = ring
        BY <2>4, Zenon
      <4> QED BY <2>1, <4>1, AppendJob, Zenon
    <3>2. effect(next, left[t]) \/ effect("unlock", left[t])
      BY <1>4, <2>1, <2>2, <2>3, <2>4, <3>1
    <3> QED BY <3>2
  <2>5. CASE MapSrc(t) \/ MapDst(t)
    <3>1. \A side : \A next : Submit(t, MapJob(t, WinOf(t, side)), next) =>
             \/ ring' = Append(ring, MapJob(t, WinOf(t, side)))
                   /\ pc' = [pc EXCEPT ![t] = next]
             \/ UNCHANGED ring /\ pc' = [pc EXCEPT ![t] = "unlock"]
      BY DEF Submit
    <3>2. CASE MapSrc(t)
      BY <1>7, <2>4, <3>1, <3>2 DEF MapSrc, MapSide
    <3>3. CASE MapDst(t)
      BY <1>7, <2>4, <3>1, <3>3 DEF MapDst, MapSide
    <3> QED BY <2>5, <3>2, <3>3
  <2>6. CASE UseWindows(t)
    <3>1. CASE UNCHANGED <<ring, left>> /\ pc' = [pc EXCEPT ![t] = "unlock"]
      <4>1. effect("unlock", left[t])
        BY <1>4, <2>1, <2>2, <3>1
      <4> QED BY <4>1
    <3>2. CASE /\ Enqueue(UseJob(t, {WinOf(t, s) : s \in needs[t]}))
               /\ left' = [left EXCEPT ![t] = left[t] - 1]
               /\ pc' = [pc EXCEPT ![t] =
                            IF left[t] > 1 THEN "map_src" ELSE "unlock"]
      <4>0. \A job \in Jobs : Enqueue(job) => ring' \in Seq(Jobs)
        BY <2>1, EnqueueType
      <4>1. ring' \in Seq(Jobs)
        BY <1>7, <3>2, <4>0, Zenon
      <4>2. CASE left[t] > 1
        <5>0. left[t] - 1 > 0
          BY <2>2, <4>2
        <5>1. pc' = [pc EXCEPT ![t] = "map_src"]
          BY <3>2, <4>2, Zenon
        <5>2. left' = [left EXCEPT ![t] = left[t] - 1]
          BY <3>2, Zenon
        <5>3. effect("map_src", left[t] - 1)
          BY <2>2, <4>1, <5>0, <5>1, <5>2
        <5> QED BY <5>3
      <4>3. CASE ~(left[t] > 1)
        <5>1. effect("unlock", left[t] - 1)
          BY <2>2, <2>3, <3>2, <4>1, <4>3
        <5> QED BY <5>1
      <4> QED BY <4>2, <4>3
    <3> QED BY <2>6, <3>1, <3>2 DEF UseWindows
  <2> QED BY <2>5, <2>6
<1>9. PICK l, n : effect(l, n)
  BY <1>8
<1>10. /\ pc' \in [Threads -> Labels]
       /\ left' \in [Threads -> 0 .. MaxChunks]
  BY <1>0, <1>2, <1>9 DEF TypeOK
<1>11. TypeOK'
  BY <1>0, <1>1, <1>9, <1>10 DEF TypeOK
<1>12. LocksAgree'
  BY <1>0, <1>1, <1>2, <1>9, LocalStep, Zenon
<1>13. (\A u \in Threads : WorkLeft(u))'
  BY <1>0, <1>9, WorkStep, Zenon
<1> QED BY <1>11, <1>12, <1>13 DEF IInv

(* The end of an operation: the lock that was taken is the one released. *)
LEMMA ReleaseInv ==
    ASSUME IInv, NEW t \in Threads, ReleaseSlot(t) PROVE IInv'
<1> USE NumSlotsRange, ParamAssumption, ThreadsAssumption
<1> USE DEF Goto
<1>0. TypeOK /\ LocksAgree /\ \A u \in Threads : WorkLeft(u)
  BY DEF IInv
<1>1. /\ pc[t] = "unlock" /\ UNCHANGED <<idx, expired, windowLock, ring, window>>
      /\ slot' = [slot EXCEPT ![t] = -1] /\ pc' = [pc EXCEPT ![t] = "idle"]
      /\ left' = [left EXCEPT ![t] = 0] /\ needs' = [needs EXCEPT ![t] = {}]
  BY DEF ReleaseSlot
<1>2. ThreadAgrees(t) /\ slot[t] # -1 /\ HoldsSlot(t)
  BY <1>0, <1>1 DEF LocksAgree, ThreadAgrees, Holding
<1>3. \/ /\ slot[t] = ReservedSlot /\ reservedLock = t /\ reservedLock' = NoOne
         /\ UNCHANGED slotLock
      \/ /\ slot[t] < NumSlots /\ slotLock[slot[t]] = t
         /\ slotLock' = [slotLock EXCEPT ![slot[t]] = NoOne]
         /\ UNCHANGED reservedLock /\ reservedLock # t
  <2>1. IF slot[t] = ReservedSlot
          THEN reservedLock' = NoOne /\ UNCHANGED slotLock
          ELSE /\ slotLock' = [slotLock EXCEPT ![slot[t]] = NoOne]
               /\ UNCHANGED reservedLock
    BY DEF ReleaseSlot
  <2>2. HoldsSlot(t) /\ (reservedLock = t => slot[t] = ReservedSlot)
    BY <1>0, <1>2 DEF LocksAgree, ThreadAgrees
  <2>3. slot[t] < NumSlots => slot[t] # ReservedSlot
    BY <1>2 DEF ReservedSlot
  <2> QED BY <2>1, <2>2, <2>3, Zenon DEF HoldsSlot
<1>4. /\ slot' \in [Threads -> -1 .. MaxSlots - 1]
      /\ left' \in [Threads -> 0 .. MaxChunks]
  BY <1>0, <1>1, SMTT(30) DEF TypeOK
<1>5. /\ needs' \in [Threads -> SUBSET {"src", "dst"}]
      /\ reservedLock' \in Threads \cup {NoOne}
  BY <1>0, <1>1, <1>3 DEF TypeOK
<1>6. slotLock' \in [0 .. MaxSlots - 1 -> Threads \cup {NoOne}]
  BY <1>0, <1>3 DEF TypeOK
<1>7. pc' \in [Threads -> Labels]
  BY <1>0, <1>1 DEF TypeOK, Labels
<1>8. TypeOK'
  BY <1>0, <1>1, <1>4, <1>5, <1>6, <1>7 DEF TypeOK
<1>9. ASSUME NEW u \in Threads PROVE ThreadAgrees(u)'
  <2>1. ThreadAgrees(u)
    BY <1>0 DEF LocksAgree
  <2>2. CASE u = t
    <3>1. pc'[t] = "idle" /\ slot'[t] = -1 /\ reservedLock' # t
      BY <1>0, <1>1, <1>3 DEF TypeOK
    <3>2. windowLock' # t
      BY <1>1, <1>2 DEF ThreadAgrees, Migrating
    <3> QED BY <2>2, <3>1, <3>2 DEF ThreadAgrees, Holding, Migrating
  <2>3. CASE u # t
    <3>1. pc'[u] = pc[u] /\ slot'[u] = slot[u]
      BY <1>0, <1>1, <2>3 DEF TypeOK
    <3>2. slot[u] # -1 => HoldsSlot(u)'
      <4> SUFFICES ASSUME slot[u] # -1 PROVE HoldsSlot(u)'
          OBVIOUS
      <4>1. HoldsSlot(u) /\ slot[u] \in 0 .. MaxSlots - 1
        BY <1>0, <2>1 DEF ThreadAgrees, TypeOK
      <4>2. CASE reservedLock = t /\ UNCHANGED slotLock
        BY <2>3, <3>1, <4>1, <4>2 DEF HoldsSlot
      <4>3. CASE /\ slotLock[slot[t]] = t /\ UNCHANGED reservedLock
                 /\ slotLock' = [slotLock EXCEPT ![slot[t]] = NoOne]
        BY <1>0, <2>3, <3>1, <4>1, <4>3 DEF HoldsSlot, TypeOK
      <4> QED BY <1>3, <4>2, <4>3
    <3>3. reservedLock' = u => reservedLock = u
      BY <1>3
    <3> QED BY <1>1, <2>1, <3>1, <3>2, <3>3 DEF ThreadAgrees
  <2> QED BY <2>2, <2>3
<1>10. ASSUME NEW i \in 0 .. MaxSlots - 1 PROVE SlotAgrees(i)'
  <2>1. SlotAgrees(i)
    BY <1>0 DEF LocksAgree
  <2>2. slotLock'[i] \in {slotLock[i], NoOne}
    BY <1>0, <1>3 DEF TypeOK
  <2>3. slotLock'[i] # t
    <3>1. CASE slot[t] = ReservedSlot /\ UNCHANGED slotLock
      BY <2>1, <3>1 DEF SlotAgrees
    <3>2. CASE slotLock' = [slotLock EXCEPT ![slot[t]] = NoOne]
      <4>1. CASE i = slot[t]
        BY <1>0, <3>2, <4>1 DEF TypeOK
      <4>2. CASE i # slot[t]
        BY <1>0, <2>1, <3>2, <4>2 DEF SlotAgrees, TypeOK
      <4> QED BY <4>1, <4>2
    <3> QED BY <1>3, <3>1, <3>2
  <2>4. slotLock[i] \in Threads \cup {NoOne}
    BY <1>0 DEF TypeOK
  <2> QED BY <1>0, <1>1, <2>1, <2>2, <2>3, <2>4 DEF SlotAgrees, TypeOK
<1>11. (\A u \in Threads : WorkLeft(u))'
  BY <1>0, <1>1, WorkStep DEF Working
<1> QED BY <1>8, <1>9, <1>10, <1>11 DEF IInv, LocksAgree

(* The steps of an SVM migration that holds gtt_window_lock. *)
LEMMA MigrateInv ==
    ASSUME IInv, NEW t \in Threads, SvmMap(t) \/ SvmCopy(t) \/ SvmUnlock(t)
    PROVE  IInv'
<1> USE NumSlotsRange, ParamAssumption, ThreadsAssumption
<1> USE DEF Goto
<1>0. TypeOK /\ LocksAgree /\ \A u \in Threads : WorkLeft(u)
  BY DEF IInv
<1>1. Tag(t) \in Tags
  BY <1>0 DEF Tag, Tags, TypeOK
<1>2. 0 \in 0 .. NumWindows - 1
  OBVIOUS
<1>3. MapJob(t, 0) \in Jobs /\ UseJob(t, {0}) \in Jobs
  BY <1>1, <1>2 DEF MapJob, UseJob, Jobs
<1>4. CASE SvmUnlock(t)
  <2>1. left' \in [Threads -> 0 .. MaxChunks]
    BY <1>0, <1>4 DEF SvmUnlock, TypeOK
  <2>2. pc' \in [Threads -> Labels]
    BY <1>0, <1>4 DEF SvmUnlock, TypeOK, Labels
  <2>3. TypeOK'
    BY <1>0, <1>4, <2>1, <2>2 DEF SvmUnlock, TypeOK
  <2>4. ASSUME NEW u \in Threads PROVE ThreadAgrees(u)'
    <3>1. ThreadAgrees(u) /\ ThreadAgrees(t)
      BY <1>0 DEF LocksAgree
    <3>2. windowLock = t
      BY <1>4, <3>1 DEF SvmUnlock, ThreadAgrees, Migrating
    <3>3. CASE u = t
      BY <1>0, <1>4, <3>1, <3>3
         DEF SvmUnlock, ThreadAgrees, HoldsSlot, TypeOK, Holding, Migrating
    <3>4. CASE u # t
      BY <1>0, <1>4, <3>1, <3>2, <3>4
         DEF SvmUnlock, ThreadAgrees, HoldsSlot, TypeOK
    <3> QED BY <3>3, <3>4
  <2>5. ASSUME NEW i \in 0 .. MaxSlots - 1 PROVE SlotAgrees(i)'
    BY <1>0, <1>4 DEF SvmUnlock, LocksAgree, SlotAgrees
  <2>6. (\A u \in Threads : WorkLeft(u))'
    BY <1>0, <1>4, WorkStep DEF SvmUnlock, Working
  <2> QED BY <2>3, <2>4, <2>5, <2>6 DEF IInv, LocksAgree
<1>5. CASE SvmMap(t) \/ SvmCopy(t)
  <2> DEFINE svm == {"svm_map", "svm_copy", "svm_unlock"}
  <2>1. /\ pc[t] \in svm \ {"svm_unlock"}
        /\ UNCHANGED <<idx, slot, needs, expired, slotLock, reservedLock,
                       windowLock, window>>
    BY <1>5 DEF SvmMap, SvmCopy
  <2>2. \A k \in svm : k \in Labels /\ k \notin Holding /\ k \in Migrating
    BY DEF Labels, Holding, Migrating
  <2>3. left[t] \in 0 .. MaxChunks /\ left[t] > 0
    BY <1>0, <2>1 DEF TypeOK, WorkLeft, Working, Labels
  <2>4. ring' \in Seq(Jobs)
    <3>1. ring \in Seq(Jobs)
      BY <1>0 DEF TypeOK
    <3>2. \/ ring' = Append(ring, MapJob(t, 0))
          \/ ring' = Append(ring, UseJob(t, {0})) \/ ring' = ring
      BY <1>5 DEF SvmMap, SvmCopy
    <3> QED BY <1>3, <3>1, <3>2
  <2>5. left' \in [Threads -> 0 .. MaxChunks]
    <3>1. left' = left \/ left' = [left EXCEPT ![t] = left[t] - 1]
      BY <1>5 DEF SvmMap, SvmCopy
    <3>2. left[t] - 1 \in 0 .. MaxChunks
      BY <2>3
    <3> QED BY <1>0, <3>1, <3>2 DEF TypeOK
  <2>6. PICK l \in svm : pc' = [pc EXCEPT ![t] = l]
    BY <1>5 DEF SvmMap, SvmCopy
  <2>7. pc' \in [Threads -> Labels]
    BY <1>0, <2>2, <2>6 DEF TypeOK
  <2>8. TypeOK'
    BY <1>0, <2>1, <2>4, <2>5, <2>7 DEF TypeOK
  <2>9. LocksAgree'
    BY <1>0, <2>1, <2>2, <2>6, LocalStep
  <2>10. (\A u \in Threads : WorkLeft(u))'
    <3>1. \A u \in Threads \ {t} : pc'[u] = pc[u] /\ left'[u] = left[u]
      BY <1>0, <1>5 DEF SvmMap, SvmCopy, TypeOK
    <3>2. WorkLeft(t)'
      BY <1>0, <1>5, <2>3 DEF SvmMap, SvmCopy, TypeOK, WorkLeft, Working
    <3> QED BY <1>0, <3>1, <3>2 DEF WorkLeft
  <2> QED BY <2>8, <2>9, <2>10 DEF IInv
<1> QED BY <1>4, <1>5

(* Every step preserves the inductive invariant. *)
LEMMA NextInv == IInv /\ [Next]_vars => IInv'
<1> SUFFICES ASSUME IInv, [Next]_vars PROVE IInv'
    OBVIOUS
<1>1. CASE RingExecute
  <2>1. Head(ring) \in Jobs /\ Tail(ring) \in Seq(Jobs)
    BY <1>1 DEF RingExecute, IInv, TypeOK
  <2>2. Unmapped \in Tags
    BY ParamAssumption DEF Unmapped, Tags
  <2>3. Head(ring).tag \in Tags
    BY <2>1 DEF Jobs
  <2>4. window' \in [0 .. NumWindows - 1 -> Tags]
    BY <1>1, <2>2, <2>3 DEF RingExecute, IInv, TypeOK
  <2>5. TypeOK'
    BY <1>1, <2>1, <2>4 DEF RingExecute, IInv, TypeOK
  <2>6. LocksAgree' /\ (\A u \in Threads : WorkLeft(u))'
    BY <1>1 DEF RingExecute, IInv, LocksAgree, ThreadAgrees, SlotAgrees,
                HoldsSlot, WorkLeft
  <2> QED BY <2>5, <2>6 DEF IInv
<1>2. CASE UNCHANGED vars
  <2>1. TypeOK'
    BY <1>2 DEF vars, IInv, TypeOK
  <2>2. LocksAgree' /\ (\A u \in Threads : WorkLeft(u))'
    BY <1>2 DEF vars, IInv, LocksAgree, ThreadAgrees, SlotAgrees, HoldsSlot,
                WorkLeft
  <2> QED BY <2>1, <2>2 DEF IInv
<1> QED
  BY <1>1, <1>2, StartCopyInv, StartFillInv, StartMigrateInv, AcquireInv,
     WaitInv, SubmitInv, ReleaseInv, MigrateInv DEF Next, ThreadStep

(* In every reachable state every variable has its type: among others the  *)
(* chunk a copy has come to is one it has, and no slot is out of range.    *)
THEOREM TypesCorrect == Spec => []TypeOK
<1>1. IInv => TypeOK
  BY DEF IInv
<1> QED BY <1>1, InitInv, NextInv, PTL DEF Spec

(* In every reachable state every variable has its type, and the locks and *)
(* the program counters of all threads agree.                              *)
THEOREM LocksAlwaysAgree == Spec => [](TypeOK /\ LocksAgree)
<1>1. IInv => TypeOK /\ LocksAgree
  BY DEF IInv
<1> QED BY <1>1, InitInv, NextInv, PTL DEF Spec

(* The locks keep the windows apart. *)
LEMMA DisjointFromLocks == ASSUME IInv PROVE SlotWindowsDisjoint
<1> SUFFICES ASSUME NEW t \in Threads, slot[t] # -1
             PROVE  /\ WindowsOf(t) \subseteq 0 .. NumWindows - 1
                    /\ \A u \in Threads \ {t} :
                          slot[u] # -1 => WindowsOf(t) \cap WindowsOf(u) = {}
    BY DEF SlotWindowsDisjoint
<1>1. \A u \in Threads : /\ slot[u] \in -1 .. MaxSlots - 1
                         /\ slot[u] # -1 => HoldsSlot(u)
  BY DEF IInv, TypeOK, LocksAgree, ThreadAgrees
<1>2. WindowsOf(t) \subseteq 0 .. NumWindows - 1
  BY <1>1, NumSlotsRange, ParamAssumption DEF WindowsOf
<1>3. ASSUME NEW u \in Threads \ {t}, slot[u] # -1 PROVE slot[t] # slot[u]
  BY <1>1, <1>3, NumSlotsRange DEF HoldsSlot
<1>4. ASSUME NEW u \in Threads \ {t}, slot[u] # -1
      PROVE  WindowsOf(t) \cap WindowsOf(u) = {}
  BY <1>1, <1>3, <1>4 DEF WindowsOf
<1> QED BY <1>2, <1>4

(* Two operations that hold a slot never touch the same window, and every  *)
(* window they touch lies in the range kept free for copies.               *)
THEOREM WindowsExclusive == Spec => []SlotWindowsDisjoint
<1>1. IInv => SlotWindowsDisjoint
  BY DisjointFromLocks
<1> QED BY <1>1, InitInv, NextInv, PTL DEF Spec

(* No way out of an operation, error paths included, leaves a slot lock,   *)
(* the reserved pool or gtt_window_lock held.                              *)
THEOREM LocksReleased == Spec => []NoLockLeftBehind
<1>1. ASSUME IInv PROVE NoLockLeftBehind
  <2> SUFFICES ASSUME NEW t \in Threads, pc[t] \in {"idle", "eagain", "restart"}
               PROVE  /\ t # reservedLock /\ t # windowLock
                      /\ \A i \in DOMAIN slotLock : slotLock[i] # t
    BY DEF NoLockLeftBehind
  <2>1. ThreadAgrees(t) /\ pc[t] \notin Holding /\ pc[t] \notin Migrating
    BY <1>1 DEF IInv, LocksAgree, Holding, Migrating
  <2>2. slot[t] = -1
    BY <2>1 DEF ThreadAgrees
  <2>3. t # reservedLock /\ t # windowLock
    BY <2>1, <2>2, NumSlotsRange DEF ThreadAgrees
  <2>4. \A i \in 0 .. MaxSlots - 1 : slotLock[i] # t
    BY <1>1, <2>2, ThreadsAssumption DEF IInv, LocksAgree, SlotAgrees
  <2> QED BY <1>1, <2>3, <2>4 DEF IInv, TypeOK
<1> QED BY <1>1, InitInv, NextInv, PTL DEF Spec
-----------------------------------------------------------------------------
(***************************************************************************)
(* The mappings, when no migration runs.  The window that job i of the     *)
(* ring will see is v: the last job before i that touches the window at    *)
(* all points it at v, or none touches it and it points at v already.      *)
(***************************************************************************)
Sees(i, w, v) ==
    \/ \E j \in 1 .. i - 1 :
          /\ ring[j].op = "map" /\ w \in ring[j].win /\ ring[j].tag = v
          /\ \A k \in j + 1 .. i - 1 : w \notin ring[k].win
    \/ /\ \A k \in 1 .. i - 1 : w \notin ring[k].win
       /\ window[w] = v

(* The sides of its chunk that t has submitted the mapping of. *)
Mapped(t) ==
    {s \in needs[t] : pc[t] = "use" \/ (pc[t] = "map_dst" /\ s = "src")}

(* The next job of t will see what t has mapped. *)
Ready(t) ==
    \A s \in Mapped(t) : Sees(Len(ring) + 1, WinOf(t, s), Tag(t))

UsesSee ==
    \A i \in 1 .. Len(ring) : ring[i].op = "use" =>
        \A w \in ring[i].win : Sees(i, w, ring[i].tag)

MInv ==
    /\ UsesSee
    /\ \A t \in Threads : Ready(t)
    /\ \A t \in Threads : pc[t] \notin Migrating

(* That is what SeenBy computes. *)
LEMMA SeesIsSeen ==
    ASSUME NEW i \in Nat, NEW w, NEW v, Sees(i, w, v)
    PROVE  SeenBy(i, w) = v
<1> DEFINE before == {j \in 1 .. i - 1 : ring[j].op = "map" /\ w \in ring[j].win}
<1>1. CASE (\A k \in 1 .. i - 1 : w \notin ring[k].win) /\ window[w] = v
  <2>1. before = {}
    BY <1>1
  <2> QED BY <1>1, <2>1 DEF SeenBy
<1>2. CASE \E j \in 1 .. i - 1 :
              /\ ring[j].op = "map" /\ w \in ring[j].win /\ ring[j].tag = v
              /\ \A k \in j + 1 .. i - 1 : w \notin ring[k].win
  <2>1. PICK j \in 1 .. i - 1 :
              /\ ring[j].op = "map" /\ w \in ring[j].win /\ ring[j].tag = v
              /\ \A k \in j + 1 .. i - 1 : w \notin ring[k].win
    BY <1>2
  <2>2. j \in before /\ before # {} /\ before \subseteq Int
    BY <2>1
  <2>3. \A k \in before : k <= j
    BY <2>1
  <2> HIDE DEF before
  <2> DEFINE last == CHOOSE x \in before : \A k \in before : k <= x
  <2>4. last \in before /\ \A k \in before : k <= last
    BY <2>2, <2>3
  <2> HIDE DEF last
  <2>5. last = j
    BY <2>2, <2>3, <2>4
  <2>6. SeenBy(i, w) = ring[last].tag
    BY <2>2 DEF SeenBy, before, last
  <2> QED BY <2>1, <2>5, <2>6
<1> QED BY <1>1, <1>2 DEF Sees

(* What a job sees does not depend on the jobs after it, ... *)
LEMMA SeesAppend ==
    ASSUME NEW J, ring \in Seq(J), NEW job \in J, ring' = Append(ring, job),
           window' = window,
           NEW i \in 1 .. Len(ring) + 1, NEW w, NEW v, Sees(i, w, v)
    PROVE  Sees(i, w, v)'
<1>1. \A k \in 1 .. i - 1 : ring'[k] = ring[k]
  BY AppendProperties, LenProperties
<1>2. \A j \in 1 .. i - 1 : \A k \in j + 1 .. i - 1 : k \in 1 .. i - 1
  BY LenProperties
<1> QED BY <1>1, <1>2 DEF Sees

(* ... nor on a job before it that leaves the window alone, ... *)
LEMMA SeesPast ==
    ASSUME NEW J, ring \in Seq(J), NEW job \in J, ring' = Append(ring, job),
           window' = window,
           NEW w, NEW v, Sees(Len(ring) + 1, w, v), w \notin job.win
    PROVE  Sees(Len(ring) + 1, w, v)'
<1>1. PICK n \in Nat : n = Len(ring)
  BY LenProperties
<1>2. /\ Len(ring') = n + 1 /\ ring'[n + 1] = job
      /\ \A k \in 1 .. n : ring'[k] = ring[k]
  BY <1>1, AppendProperties
<1>3. CASE (\A k \in 1 .. n : w \notin ring[k].win) /\ window[w] = v
  <2>1. \A k \in 1 .. n + 1 : w \notin ring'[k].win
    BY <1>2, <1>3
  <2> QED BY <1>2, <1>3, <2>1 DEF Sees
<1>4. CASE \E j \in 1 .. n :
              /\ ring[j].op = "map" /\ w \in ring[j].win /\ ring[j].tag = v
              /\ \A k \in j + 1 .. n : w \notin ring[k].win
  <2>1. PICK j \in 1 .. n :
              /\ ring[j].op = "map" /\ w \in ring[j].win /\ ring[j].tag = v
              /\ \A k \in j + 1 .. n : w \notin ring[k].win
    BY <1>4
  <2>2. \A k \in j + 1 .. n + 1 : w \notin ring'[k].win
    BY <1>2, <2>1
  <2>3. ring'[j] = ring[j] /\ j \in 1 .. n + 1
    BY <1>2
  <2> QED BY <1>2, <2>1, <2>2, <2>3 DEF Sees
<1>5. (n + 1) - 1 = n
  OBVIOUS
<1> QED BY <1>1, <1>3, <1>4, <1>5 DEF Sees

(* ... and after a job that maps the window it sees that mapping. *)
LEMMA SeesMapped ==
    ASSUME NEW J, ring \in Seq(J), NEW job \in J, ring' = Append(ring, job),
           NEW w \in job.win, job.op = "map"
    PROVE  Sees(Len(ring) + 1, w, job.tag)'
<1>1. PICK n \in Nat : n = Len(ring)
  BY LenProperties
<1>2. Len(ring') = n + 1 /\ ring'[n + 1] = job
  BY <1>1, AppendProperties
<1>3. (n + 1 + 1) - 1 = n + 1 /\ n + 1 \in 1 .. n + 1
      /\ n + 1 + 1 .. n + 1 = {}
  OBVIOUS
<1> QED BY <1>2, <1>3 DEF Sees

(* The ring runs a job: the others see what they would have seen. *)
LEMMA SeesTail ==
    ASSUME IInv, RingExecute, NEW i \in 1 .. Len(ring),
           NEW w \in 0 .. NumWindows - 1, NEW v, Sees(i + 1, w, v)
    PROVE  Sees(i, w, v)'
<1>1. PICK n \in Nat : n = Len(ring)
  BY LenProperties DEF IInv, TypeOK
<1>2. /\ ring \in Seq(Jobs) /\ ring # <<>> /\ n > 0 /\ ring' = Tail(ring)
      /\ Len(ring') = n - 1 /\ \A k \in 1 .. n - 1 : ring'[k] = ring[k + 1]
      /\ Head(ring) = ring[1]
  BY <1>1 DEF IInv, TypeOK, RingExecute
<1>3. /\ w \notin ring[1].win => window'[w] = window[w]
      /\ w \in ring[1].win /\ ring[1].op = "map" => window'[w] = ring[1].tag
  BY <1>2 DEF RingExecute, IInv, TypeOK
<1>4. i \in 1 .. n /\ (i + 1) - 1 = i /\ 1 \in 1 .. i
  BY <1>1
<1>5. CASE (\A k \in 1 .. i : w \notin ring[k].win) /\ window[w] = v
  <2>1. \A k \in 1 .. i - 1 : w \notin ring'[k].win
    BY <1>2, <1>4, <1>5
  <2>2. w \notin ring[1].win
    BY <1>4, <1>5
  <2>3. window'[w] = v
    BY <1>3, <1>5, <2>2
  <2> QED BY <2>1, <2>3 DEF Sees
<1>6. CASE \E j \in 1 .. i :
              /\ ring[j].op = "map" /\ w \in ring[j].win /\ ring[j].tag = v
              /\ \A k \in j + 1 .. i : w \notin ring[k].win
  <2>1. PICK j \in 1 .. i :
              /\ ring[j].op = "map" /\ w \in ring[j].win /\ ring[j].tag = v
              /\ \A k \in j + 1 .. i : w \notin ring[k].win
    BY <1>6
  <2>2. CASE j = 1
    <3>1. \A k \in 1 .. i - 1 : w \notin ring'[k].win
      BY <1>2, <1>4, <2>1, <2>2
    <3>2. window'[w] = v
      BY <1>3, <2>1, <2>2
    <3> QED BY <3>1, <3>2 DEF Sees
  <2>3. CASE j # 1
    <3>1. PICK x \in 1 .. i - 1 : x + 1 = j
      BY <1>4, <2>3
    <3>2. ring'[x] = ring[j]
      BY <1>2, <1>4, <3>1
    <3>3. \A k \in x + 1 .. i - 1 :
             k + 1 \in j + 1 .. i /\ k \in 1 .. n - 1
      BY <1>4, <3>1
    <3>4. \A k \in x + 1 .. i - 1 : w \notin ring'[k].win
      BY <1>2, <2>1, <3>3
    <3> QED BY <2>1, <3>1, <3>2, <3>4 DEF Sees
  <2> QED BY <2>2, <2>3
<1> QED BY <1>4, <1>5, <1>6 DEF Sees

(* The windows of the sides of t. *)
LEMMA SidesProps ==
    ASSUME IInv, NEW t \in Threads, NEW s \in needs[t], pc[t] \in Holding
    PROVE  /\ WinOf(t, s) \in WindowsOf(t)
           /\ WinOf(t, s) \in 0 .. NumWindows - 1
<1>1. slot[t] \in 0 .. MaxSlots - 1
  BY DEF IInv, LocksAgree, ThreadAgrees, TypeOK
<1> QED BY <1>1, ParamAssumption, NumSlotsRange DEF WinOf, WindowsOf

LEMMA MappedHolding ==
    ASSUME NEW t \in Threads, NEW s \in Mapped(t)
    PROVE  s \in needs[t] /\ pc[t] \in Holding
BY DEF Mapped, Holding

(* A step of t that submits nothing. *)
LEMMA StillKeeps ==
    ASSUME IInv, MInv, NEW t \in Threads, NEW l, NEW n,
           UNCHANGED <<ring, window>>,
           pc' = [pc EXCEPT ![t] = l], l \notin Migrating,
           left' = [left EXCEPT ![t] = n],
           \A u \in Threads \ {t} : slot'[u] = slot[u] /\ needs'[u] = needs[u],
           Ready(t)'
    PROVE  MInv'
<1>1. UsesSee'
  BY DEF MInv, UsesSee, Sees
<1>2. ASSUME NEW u \in Threads PROVE Ready(u)'
  <2>1. CASE u # t
    <3>1. pc'[u] = pc[u] /\ left'[u] = left[u]
      BY <2>1 DEF IInv, TypeOK
    <3>2. Ready(u)
      BY DEF MInv
    <3> SUFFICES ASSUME NEW s \in Mapped(u)
                 PROVE  Sees(Len(ring) + 1, WinOf(u, s), Tag(u))'
      BY <2>1, <3>1 DEF Ready, Mapped
    <3>3. PICK w, v, i : /\ w = WinOf(u, s) /\ v = Tag(u)
                         /\ i = Len(ring) + 1
      OBVIOUS
    <3>4. Sees(i, w, v)
      BY <3>2, <3>3 DEF Ready
    <3>5. Sees(i, w, v)'
      BY <3>4 DEF Sees
    <3>6. WinOf(u, s)' = w /\ Tag(u)' = v /\ Len(ring') + 1 = i
      BY <2>1, <3>1, <3>3 DEF WinOf, Tag
    <3> QED BY <3>5, <3>6
  <2> QED BY <2>1
<1>3. ASSUME NEW u \in Threads PROVE pc'[u] \notin Migrating
  BY DEF MInv, IInv, TypeOK
<1> QED BY <1>1, <1>2, <1>3 DEF MInv

(* A step of t that submits a job through its own windows. *)
LEMMA SubmitKeeps ==
    ASSUME IInv, MInv, NEW t \in Threads, NEW l, NEW n, NEW job \in Jobs,
           ring' = Append(ring, job), UNCHANGED <<window, slot, needs>>,
           slot[t] # -1, job.win \subseteq WindowsOf(t),
           job.op = "use" => \A w \in job.win : Sees(Len(ring) + 1, w, job.tag),
           pc' = [pc EXCEPT ![t] = l], l \notin Migrating,
           left' = [left EXCEPT ![t] = n],
           Ready(t)'
    PROVE  MInv'
<1>1. PICK m \in Nat : m = Len(ring)
  BY LenProperties DEF IInv, TypeOK
<1>2. /\ ring \in Seq(Jobs) /\ Len(ring') = m + 1 /\ ring'[m + 1] = job
      /\ \A k \in 1 .. m : ring'[k] = ring[k]
  BY <1>1, AppendProperties DEF IInv, TypeOK
<1>3. ASSUME NEW i \in 1 .. Len(ring'), ring'[i].op = "use",
             NEW w \in ring'[i].win
      PROVE  Sees(i, w, ring[i].tag)'
  <2>1. PICK v : v = ring'[i].tag
    OBVIOUS
  <2>2. i \in 1 .. Len(ring) + 1
    BY <1>1, <1>2
  <2>3. Sees(i, w, v)
    <3>1. CASE i \in 1 .. m
      BY <1>1, <1>2, <1>3, <2>1, <3>1 DEF MInv, UsesSee
    <3>2. CASE i = m + 1
      BY <1>1, <1>2, <1>3, <2>1, <3>2
    <3> QED BY <1>1, <2>2, <3>1, <3>2
  <2>4. Sees(i, w, v)'
    BY <1>2, <2>2, <2>3, SeesAppend
  <2> QED BY <2>1, <2>4
<1>4. ASSUME NEW u \in Threads, u # t PROVE Ready(u)'
  <2>1. pc'[u] = pc[u] /\ left'[u] = left[u]
    BY <1>4 DEF IInv, TypeOK
  <2> SUFFICES ASSUME NEW s \in Mapped(u)
               PROVE  Sees(Len(ring) + 1, WinOf(u, s), Tag(u))'
    BY <2>1 DEF Ready, Mapped
  <2>2. PICK w, v : w = WinOf(u, s) /\ v = Tag(u)
    OBVIOUS
  <2>3. Sees(Len(ring) + 1, w, v)
    BY <2>2 DEF MInv, Ready
  <2>4. w \in WindowsOf(u) /\ slot[u] # -1
    BY <2>2, MappedHolding, SidesProps DEF IInv, LocksAgree, ThreadAgrees
  <2>5. w \notin job.win
    BY <1>4, <2>4, DisjointFromLocks DEF SlotWindowsDisjoint
  <2>6. Sees(Len(ring) + 1, w, v)'
    BY <1>2, <2>3, <2>5, SeesPast
  <2>7. WinOf(u, s)' = w /\ Tag(u)' = v
    BY <2>1, <2>2 DEF WinOf, Tag
  <2> QED BY <2>6, <2>7
<1>5. ASSUME NEW u \in Threads PROVE pc'[u] \notin Migrating
  BY DEF MInv, IInv, TypeOK
<1>6. UsesSee'
  BY <1>3 DEF UsesSee
<1>7. \A u \in Threads : Ready(u)'
  BY <1>4
<1> QED BY <1>5, <1>6, <1>7 DEF MInv

(* The ring runs a job. *)
LEMMA RingMappings ==
    ASSUME IInv, MInv, RingExecute PROVE MInv'
<1>1. PICK n \in Nat : n = Len(ring)
  BY LenProperties DEF IInv, TypeOK
<1>2. /\ ring \in Seq(Jobs) /\ n > 0 /\ Len(ring') = n - 1
      /\ \A k \in 1 .. n - 1 : ring'[k] = ring[k + 1]
  BY <1>1 DEF IInv, TypeOK, RingExecute
<1>3. UNCHANGED <<pc, slot, left, needs>>
  BY DEF RingExecute
<1>4. ASSUME NEW i \in 1 .. Len(ring'), ring'[i].op = "use",
             NEW w \in ring'[i].win
      PROVE  Sees(i, w, ring[i].tag)'
  <2>1. PICK v : v = ring'[i].tag
    OBVIOUS
  <2>2. i \in 1 .. n /\ i + 1 \in 1 .. n /\ ring'[i] = ring[i + 1]
    BY <1>2
  <2>3. ring[i + 1] \in Jobs
    BY <1>1, <1>2, <2>2, ElementOfSeq
  <2>4. w \in 0 .. NumWindows - 1
    BY <1>4, <2>2, <2>3 DEF Jobs
  <2>5. Sees(i + 1, w, v)
    BY <1>1, <1>4, <2>1, <2>2 DEF MInv, UsesSee
  <2>6. Sees(i, w, v)'
    BY <1>1, <2>2, <2>4, <2>5, SeesTail
  <2> QED BY <2>1, <2>6
<1>5. ASSUME NEW u \in Threads PROVE Ready(u)'
  <2> SUFFICES ASSUME NEW s \in Mapped(u)
               PROVE  Sees(Len(ring) + 1, WinOf(u, s), Tag(u))'
    BY <1>3 DEF Ready, Mapped
  <2>1. PICK w, v : w = WinOf(u, s) /\ v = Tag(u)
    OBVIOUS
  <2>2. Sees(n + 1, w, v)
    BY <1>1, <2>1 DEF MInv, Ready
  <2>3. w \in 0 .. NumWindows - 1
    BY <2>1, MappedHolding, SidesProps
  <2>4. n \in 1 .. Len(ring) /\ Len(ring') + 1 = n
    BY <1>1, <1>2
  <2>5. Sees(n, w, v)'
    BY <2>2, <2>3, <2>4, SeesTail
  <2>6. WinOf(u, s)' = w /\ Tag(u)' = v
    BY <1>3, <2>1 DEF WinOf, Tag
  <2> QED BY <2>4, <2>5, <2>6
<1>6. UsesSee'
  BY <1>4 DEF UsesSee
<1> QED BY <1>3, <1>5, <1>6 DEF MInv

(* amdgpu_ttm_map_buffer: after it the next job of t sees the mapping. *)
LEMMA MapMappings ==
    ASSUME IInv, MInv, NEW t \in Threads, NEW here, NEW side, NEW next,
           MapSide(t, here, side, next),
           \/ here = "map_src" /\ side = "src" /\ next = "map_dst"
           \/ here = "map_dst" /\ side = "dst" /\ next = "use"
    PROVE  MInv'
<1>1. /\ pc[t] = here /\ here \in Holding /\ next \notin Migrating
      /\ UNCHANGED <<slot, left, needs, window>>
      /\ left' = [left EXCEPT ![t] = left[t]]
  BY DEF MapSide, Holding, Migrating, IInv, TypeOK
<1>2. pc \in [Threads -> Labels] /\ ring \in Seq(Jobs)
  BY DEF IInv, TypeOK
<1>3. CASE /\ side \in needs[t] /\ ring' = Append(ring, MapJob(t, WinOf(t, side)))
           /\ pc' = [pc EXCEPT ![t] = next]
  <2>1. PICK w, v, job : /\ w = WinOf(t, side) /\ v = Tag(t)
                         /\ job = MapJob(t, w)
    OBVIOUS
  <2>2. slot[t] # -1 /\ w \in WindowsOf(t) /\ w \in 0 .. NumWindows - 1
    BY <1>1, <1>3, <2>1, SidesProps DEF IInv, LocksAgree, ThreadAgrees
  <2>3. v \in Tags
    BY <2>1 DEF Tag, Tags, IInv, TypeOK
  <2>4. /\ job \in Jobs /\ job.op = "map" /\ job.win = {w} /\ job.tag = v
    BY <2>1, <2>2, <2>3 DEF MapJob, Jobs
  <2>5. ring' = Append(ring, job)
    BY <1>3, <2>1
  <2>6. Ready(t)'
    <3> SUFFICES ASSUME NEW s \in Mapped(t)'
                 PROVE  Sees(Len(ring) + 1, WinOf(t, s), Tag(t))'
      BY DEF Ready
    <3>1. s \in needs[t] /\ pc'[t] = next /\ s \in {"src", "dst"}
      BY <1>1, <1>2, <1>3 DEF Mapped, IInv, TypeOK
    <3>2. Tag(t)' = v
      BY <1>1, <2>1 DEF Tag
    <3>3. CASE s = side
      <4>1. Sees(Len(ring) + 1, w, v)'
        BY <1>2, <2>4, <2>5, SeesMapped
      <4>2. WinOf(t, s)' = w
        BY <1>1, <2>1, <3>3 DEF WinOf
      <4> QED BY <3>2, <4>1, <4>2
    <3>4. CASE s # side
      <4>1. s = "src" /\ side = "dst" /\ pc[t] = "map_dst"
        BY <1>1, <3>1, <3>4 DEF Mapped
      <4>2. PICK x : x = WinOf(t, s)
        OBVIOUS
      <4>3. Sees(Len(ring) + 1, x, v)
        BY <2>1, <3>1, <4>1, <4>2 DEF MInv, Ready, Mapped
      <4>4. x # w
        BY <2>1, <4>1, <4>2 DEF WinOf, IInv, TypeOK
      <4>5. Sees(Len(ring) + 1, x, v)'
        BY <1>1, <1>2, <2>4, <2>5, <4>3, <4>4, SeesPast
      <4>6. WinOf(t, s)' = x
        BY <1>1, <4>2 DEF WinOf
      <4> QED BY <3>2, <4>5, <4>6
    <3> QED BY <3>3, <3>4
  <2>7. job.win \subseteq WindowsOf(t) /\ job.op # "use"
    BY <2>2, <2>4
  <2> QED BY <1>1, <1>3, <2>2, <2>4, <2>5, <2>6, <2>7, SubmitKeeps
<1>4. CASE side \in needs[t] /\ UNCHANGED ring /\ Goto(t, "unlock")
  <2>1. Ready(t)'
    BY <1>2, <1>4 DEF Ready, Mapped, Goto
  <2> QED BY <1>1, <1>4, <2>1, StillKeeps DEF Goto, Migrating
<1>5. CASE side \notin needs[t] /\ UNCHANGED ring /\ Goto(t, next)
  <2>1. Ready(t)'
    <3> SUFFICES ASSUME NEW s \in Mapped(t)'
                 PROVE  Sees(Len(ring) + 1, WinOf(t, s), Tag(t))'
      BY DEF Ready
    <3>1. s \in needs[t] /\ pc'[t] = next /\ s \in {"src", "dst"}
      BY <1>1, <1>2, <1>5 DEF Mapped, Goto, IInv, TypeOK
    <3>2. s = "src" /\ pc[t] = "map_dst"
      BY <1>1, <1>5, <3>1 DEF Mapped
    <3>3. PICK w, v, i : w = WinOf(t, s) /\ v = Tag(t) /\ i = Len(ring) + 1
      OBVIOUS
    <3>4. Sees(i, w, v)
      BY <3>1, <3>2, <3>3 DEF MInv, Ready, Mapped
    <3>5. Sees(i, w, v)'
      BY <1>1, <1>5, <3>4 DEF Sees
    <3>6. WinOf(t, s)' = w /\ Tag(t)' = v /\ Len(ring') + 1 = i
      BY <1>1, <1>5, <3>3 DEF WinOf, Tag
    <3> QED BY <3>5, <3>6
  <2> QED BY <1>1, <1>5, <2>1, StillKeeps DEF Goto
<1> QED BY <1>3, <1>4, <1>5 DEF MapSide, Submit, Goto

(* amdgpu_copy_buffer or amdgpu_ttm_fill_mem: the job sees its own mapping. *)
LEMMA UseMappings ==
    ASSUME IInv, MInv, NEW t \in Threads, UseWindows(t) PROVE MInv'
<1>1. /\ pc[t] = "use" /\ pc[t] \in Holding
      /\ UNCHANGED <<slot, needs, window>>
  BY DEF UseWindows, Holding
<1>2. pc \in [Threads -> Labels] /\ ring \in Seq(Jobs) /\ slot[t] # -1
  BY <1>1 DEF IInv, TypeOK, LocksAgree, ThreadAgrees
<1>3. PICK job, v : /\ job = UseJob(t, {WinOf(t, s) : s \in needs[t]})
                    /\ v = Tag(t)
  OBVIOUS
<1>4. PICK l, n : /\ pc' = [pc EXCEPT ![t] = l]
                  /\ left' = [left EXCEPT ![t] = n]
                  /\ l \in {"map_src", "unlock"}
                  /\ \/ ring' = Append(ring, job)
                     \/ UNCHANGED ring
  <2>1. CASE /\ Enqueue(job) /\ left' = [left EXCEPT ![t] = @ - 1]
             /\ Goto(t, IF left[t] > 1 THEN "map_src" ELSE "unlock")
    <3>1. /\ left' = [left EXCEPT ![t] = left[t] - 1]
          /\ ring' = Append(ring, job) \/ UNCHANGED ring
      BY <2>1 DEF Enqueue
    <3>2. PICK l \in {"map_src", "unlock"} : pc' = [pc EXCEPT ![t] = l]
      BY <2>1 DEF Goto
    <3> QED BY <3>1, <3>2
  <2>2. CASE UNCHANGED <<ring, left>> /\ Goto(t, "unlock")
    <3>1. left' = [left EXCEPT ![t] = left[t]]
      BY <2>2 DEF IInv, TypeOK
    <3> QED BY <2>2, <3>1 DEF Goto
  <2> QED BY <1>3, <2>1, <2>2 DEF UseWindows
<1>5. l \notin Migrating
  BY <1>4 DEF Migrating
<1>6. Ready(t)'
  BY <1>2, <1>4 DEF Ready, Mapped
<1>7. CASE UNCHANGED ring
  BY <1>1, <1>4, <1>5, <1>6, <1>7, StillKeeps
<1>8. CASE ring' = Append(ring, job)
  <2>1. \A s \in needs[t] : /\ WinOf(t, s) \in WindowsOf(t)
                            /\ WinOf(t, s) \in 0 .. NumWindows - 1
    BY <1>1, SidesProps
  <2>2. v \in Tags
    BY <1>3 DEF Tag, Tags, IInv, TypeOK
  <2>3. /\ job \in Jobs /\ job.tag = v
        /\ job.win = {WinOf(t, s) : s \in needs[t]}
    BY <1>3, <2>1, <2>2 DEF UseJob, Jobs
  <2>4. job.win \subseteq WindowsOf(t)
    BY <2>1, <2>3
  <2>5. ASSUME NEW w \in job.win PROVE Sees(Len(ring) + 1, w, job.tag)
    <3>1. PICK s \in needs[t] : w = WinOf(t, s)
      BY <2>3
    <3>2. s \in Mapped(t)
      BY <1>1 DEF Mapped
    <3> QED BY <1>3, <2>3, <3>1, <3>2 DEF MInv, Ready
  <2> QED BY <1>1, <1>2, <1>4, <1>5, <1>6, <1>8, <2>3, <2>4, <2>5, SubmitKeeps
<1> QED BY <1>4, <1>7, <1>8

(* Every other step of t submits nothing and leaves t with no mapping. *)
LEMMA OtherMappings ==
    ASSUME IInv, MInv, NEW t \in Threads, NEW l, NEW n,
           UNCHANGED <<ring, window>>, pc' = [pc EXCEPT ![t] = l],
           l \notin Migrating, l \notin {"map_dst", "use"},
           left' = [left EXCEPT ![t] = n],
           \A u \in Threads \ {t} : slot'[u] = slot[u] /\ needs'[u] = needs[u]
    PROVE  MInv'
<1>1. pc'[t] = l
  BY DEF IInv, TypeOK
<1>2. Ready(t)'
  BY <1>1 DEF Ready, Mapped
<1> QED BY <1>2, StillKeeps

LEMMA AcquireMappings ==
    ASSUME IInv, MInv, NEW t \in Threads,
           \/ StartCopy(t) \/ StartFill(t) \/ TrySlot(t) \/ ScanFailed(t)
           \/ CheckDeadline(t) \/ WakeUp(t) \/ Expire(t) \/ LockSlot0(t)
           \/ LockInterrupted(t) \/ GiveUp(t) \/ ReleaseSlot(t)
    PROVE  MInv'
<1>1. /\ pc \in [Threads -> Labels] /\ left \in [Threads -> 0 .. MaxChunks]
      /\ slot \in [Threads -> -1 .. MaxSlots - 1]
      /\ needs \in [Threads -> SUBSET {"src", "dst"}]
  BY DEF IInv, TypeOK
<1>2. UNCHANGED <<ring, window>>
  BY DEF StartCopy, StartFill, TrySlot, ScanFailed, CheckDeadline, WakeUp,
     Expire, LockSlot0, LockInterrupted, GiveUp, ReleaseSlot
<1>3. PICK l : /\ pc' = [pc EXCEPT ![t] = l] /\ l \notin Migrating
               /\ l \notin {"map_dst", "use"}
  <2>1. CASE \/ StartCopy(t) \/ StartFill(t) \/ LockSlot0(t)
             \/ LockInterrupted(t) \/ GiveUp(t) \/ ReleaseSlot(t)
    BY <2>1 DEF StartCopy, StartFill, LockSlot0, LockInterrupted, GiveUp,
       ReleaseSlot, Goto, Migrating
  <2>2. CASE TrySlot(t)
    <3>1. pc' = [pc EXCEPT ![t] = "map_src"] \/ pc' = [pc EXCEPT ![t] = pc[t]]
      BY <1>1, <2>2 DEF TrySlot, Goto
    <3>2. pc[t] \in {"plan_a", "plan_b"}
      BY <2>2 DEF TrySlot
    <3> QED BY <3>1, <3>2 DEF Migrating
  <2>3. CASE ScanFailed(t)
    <3>1. PICK l \in {"sleep", "deadline", "lock_0"} :
             pc' = [pc EXCEPT ![t] = l]
      BY <2>3 DEF ScanFailed, Goto
    <3> QED BY <3>1 DEF Migrating
  <2>4. CASE CheckDeadline(t) \/ WakeUp(t)
    <3>1. PICK l \in {"eagain", "plan_b", "deadline", "restart"} :
             pc' = [pc EXCEPT ![t] = l]
      BY <2>4 DEF CheckDeadline, WakeUp, Goto
    <3> QED BY <3>1 DEF Migrating
  <2>5. CASE Expire(t)
    <3>1. pc' = [pc EXCEPT ![t] = pc[t]]
      BY <1>1, <2>5 DEF Expire
    <3>2. pc[t] \in {"deadline", "plan_b", "sleep"}
      BY <2>5 DEF Expire
    <3> QED BY <3>1, <3>2 DEF Migrating
  <2> QED BY <2>1, <2>2, <2>3, <2>4, <2>5
<1>4. PICK n : left' = [left EXCEPT ![t] = n]
  <2>1. CASE left' = left
    <3>1. left' = [left EXCEPT ![t] = left[t]]
      BY <1>1, <2>1
    <3> QED BY <3>1
  <2>2. CASE StartCopy(t) \/ StartFill(t) \/ GiveUp(t) \/ ReleaseSlot(t)
    BY <2>2 DEF StartCopy, StartFill, GiveUp, ReleaseSlot
  <2> QED BY <2>1, <2>2 DEF TrySlot, ScanFailed, CheckDeadline, WakeUp,
          Expire, LockSlot0, LockInterrupted
<1>5. ASSUME NEW u \in Threads \ {t}
      PROVE  slot'[u] = slot[u] /\ needs'[u] = needs[u]
  BY <1>1 DEF StartCopy, StartFill, TrySlot, ScanFailed, CheckDeadline, WakeUp,
     Expire, LockSlot0, LockInterrupted, GiveUp, ReleaseSlot
<1> QED BY <1>2, <1>3, <1>4, <1>5, OtherMappings

LEMMA InitMappings == Init => MInv
BY DEF Init, MInv, UsesSee, Ready, Mapped, Migrating

LEMMA NextMappings ==
    ASSUME Migrators = {}, IInv, MInv, [Next]_vars PROVE MInv'
<1>1. CASE UNCHANGED vars
  <2>1. UsesSee'
    BY <1>1 DEF MInv, UsesSee, Sees, vars
  <2>2. ASSUME NEW u \in Threads PROVE Ready(u)'
    BY <1>1 DEF MInv, Ready, Mapped, Sees, WinOf, Tag, vars
  <2> QED BY <1>1, <2>1, <2>2 DEF MInv, vars
<1>2. ASSUME NEW t \in Threads
      PROVE  ~(StartMigrate(t) \/ SvmMap(t) \/ SvmCopy(t) \/ SvmUnlock(t))
  BY DEF MInv, Migrating, StartMigrate, SvmMap, SvmCopy, SvmUnlock
<1>3. ASSUME NEW t \in Threads, MapSrc(t) \/ MapDst(t) PROVE MInv'
  BY <1>3, MapMappings DEF MapSrc, MapDst
<1> QED BY <1>1, <1>2, <1>3, AcquireMappings, UseMappings, RingMappings
        DEF Next, ThreadStep

(* Without SVM migrations, which use window 0 under another lock, every     *)
(* copy runs through the mapping of its own operation and chunk, although   *)
(* the slot is given back before the ring has run either job and the next   *)
(* operation maps the same windows behind it.                               *)
THEOREM OwnMapping ==
    ASSUME Migrators = {}
    PROVE  Spec => []CopiesThroughOwnMapping
<1>1. IInv /\ MInv => CopiesThroughOwnMapping
  <2> SUFFICES ASSUME IInv, MInv, NEW i \in 1 .. Len(ring),
                      ring[i].op = "use", NEW w \in ring[i].win
               PROVE  SeenBy(i, w) = ring[i].tag
    BY DEF CopiesThroughOwnMapping
  <2>1. PICK v : v = ring[i].tag
    OBVIOUS
  <2>2. Sees(i, w, v)
    BY <2>1 DEF MInv, UsesSee
  <2>3. i \in Nat
    BY LenProperties DEF IInv, TypeOK
  <2> QED BY <2>1, <2>2, <2>3, SeesIsSeen
<1>2. IInv /\ MInv /\ [Next]_vars => MInv'
  BY NextMappings
<1> QED BY <1>1, <1>2, InitInv, NextInv, InitMappings, PTL DEF Spec
=============================================================================
