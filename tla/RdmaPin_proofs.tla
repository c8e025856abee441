-------------------------- MODULE RdmaPin_proofs --------------------------
(***************************************************************************)
(* For every set of BOs and contexts, every limit and every combination of *)
(* the parameters: the types, the agreement of the RDMA quota with the pin *)
(* counts of TTM, the limit itself, and the references and contexts.       *)
(*                                                                         *)
(* As long as no signal loses an unpin: every pin has its context, and no  *)
(* BO is released pinned; the quota counter is exact while the device      *)
(* stays, the VRAM counters are until the reaper has worked.               *)
(***************************************************************************)
EXTENDS RdmaPin, ListLemmas, SumLemmas, SequenceTheorems, TLAPS

(* What a drop of the quota does to the counter: it never raises it and     *)
(* never takes it below zero.                                               *)
LEMMA QuotaDropTypes ==
    ASSUME SumTypes, NEW bytes \in Nat, QuotaDrop(bytes)
    PROVE  /\ rdma_pinned' \in Nat /\ clamped' \in BOOLEAN
           /\ rdma_pinned' <= rdma_pinned
<1> USE PinParamAssumption DEF SumTypes
<1>1. CASE Limit = 0 \/ bytes = 0
  BY <1>1 DEF QuotaDrop
<1>2. CASE ~(Limit = 0 \/ bytes = 0) /\ rdma_pinned < bytes
  BY <1>2 DEF QuotaDrop
<1>3. CASE ~(Limit = 0 \/ bytes = 0) /\ ~(rdma_pinned < bytes)
  BY <1>3 DEF QuotaDrop
<1> QED BY <1>1, <1>2, <1>3

(* The size that a BO adds to the VRAM counters. *)
LEMMA BytesType == \A b \in BOs : Bytes(b) \in Nat
BY BOAssumption DEF Bytes

(* A failed get_pages keeps the types of what it touches. *)
LEMMA FailGetPagesTypes ==
    ASSUME TypeOK, NEW c \in Ctxs, cbo[c] \in BOs, FailGetPages(c)
    PROVE  /\ refs' \in [BOs -> Int]
           /\ cbo' \in [Ctxs -> BOs \cup {NoBO}]
           /\ outstanding' \in Int
           /\ tries' \in [Ctxs -> 0 .. MaxRetry - 1]
           /\ cpc' \in [Ctxs -> CtxLabels]
BY PinParamAssumption DEF FailGetPages, Goto, TypeOK, BoTypes, CallTypes,
   CtxTypes, CtxLabels

(* An unpin of a pinned BO keeps the types and does not raise the quota. *)
LEMMA UnpinBoTypes ==
    ASSUME PinTypes, SumTypes, NEW b \in BOs, pin_count[b] > 0, UnpinBo(b)
    PROVE  PinTypes' /\ SumTypes' /\ rdma_pinned' <= rdma_pinned
<1>1. pin_count' \in [BOs -> Nat]
  BY DEF UnpinBo, PinTypes
<1>2. vram_pinned' \in Int /\ vram_pin_size' \in Int
  BY BytesType DEF UnpinBo, SumTypes
<1>3. CASE Limit > 0 /\ charged[b]
  <2> DEFINE left == IF quota_pins[b] > 0 THEN quota_pins[b] - 1 ELSE 0
  <2>1. left \in Nat
    BY DEF PinTypes
  <2>2. /\ quota_pins' = [quota_pins EXCEPT ![b] = left]
        /\ charged' = [charged EXCEPT ![b] = left > 0]
        /\ QuotaDrop(IF left = 0 THEN Size[b] ELSE 0)
    BY <1>3 DEF UnpinBo
  <2>3. (IF left = 0 THEN Size[b] ELSE 0) \in Nat
    BY BOAssumption
  <2>4. quota_pins' \in [BOs -> Nat] /\ charged' \in [BOs -> BOOLEAN]
    BY <2>1, <2>2 DEF PinTypes
  <2> HIDE DEF left
  <2>5. /\ rdma_pinned' \in Nat /\ clamped' \in BOOLEAN
        /\ rdma_pinned' <= rdma_pinned
    BY <2>2, <2>3, QuotaDropTypes
  <2> QED BY <1>1, <1>2, <2>4, <2>5 DEF PinTypes, SumTypes
<1>4. CASE ~(Limit > 0 /\ charged[b])
  BY <1>1, <1>2, <1>4 DEF UnpinBo, PinTypes, SumTypes
<1> QED BY <1>3, <1>4

(* The initial state satisfies the inductive invariant. *)
LEMMA InitInv == Init => IInv
<1> SUFFICES ASSUME Init PROVE IInv
  OBVIOUS
<1> USE BOAssumption, PinParamAssumption DEF Init
<1>1. BoTypes /\ PinTypes /\ SumTypes
  <2>1. BoTypes
    BY DEF BoTypes
  <2>2. PinTypes
    BY DEF PinTypes
  <2>3. SumTypes
    <3>1. clamped \in BOOLEAN
      BY Zenon
    <3>2. rdma_pinned \in Nat /\ vram_pinned \in Int /\ vram_pin_size \in Int
      OBVIOUS
    <3> QED BY <3>1, <3>2 DEF SumTypes
  <2> QED BY <2>1, <2>2, <2>3
<1>2. CallTypes /\ CtxTypes
  BY DEF CallTypes, CtxTypes, CtxLabels
<1>3. FreeTypes /\ ReapTypes
  BY DEF FreeTypes, ReapTypes, FreeLabels
<1>4. HasBo /\ ReservationsAgree /\ ChargeSettled
  BY DEF HasBo, ReservationsAgree, ChargeSettled
<1>5. QuotaFollowsPins
  BY DEF QuotaFollowsPins
<1> QED BY <1>1, <1>2, <1>3, <1>4, <1>5 DEF IInv, TypeOK

-----------------------------------------------------------------------------
(* One lemma for each action. *)

(* amd_acquire touches neither a pin nor the quota. *)
LEMMA AcquireKeeps ==
    ASSUME IInv, NEW c \in Ctxs, NEW b \in BOs, Acquire(c, b)
    PROVE  IInv'
<1> USE BOAssumption, PinParamAssumption DEF IInv, Pinned
<1>1. TypeOK'
  <2>1. BoTypes'
    BY DEF TypeOK, BoTypes, Acquire
  <2>2. CtxTypes'
    BY DEF TypeOK, CtxTypes, CtxLabels, Acquire, Goto
  <2>3. PinTypes' /\ SumTypes' /\ CallTypes'
    BY DEF TypeOK, PinTypes, SumTypes, CallTypes, Acquire, pinVars, sumVars,
       callVars
  <2>4. FreeTypes' /\ ReapTypes'
    BY DEF TypeOK, FreeTypes, ReapTypes, Acquire, freeVars, reapVars
  <2> QED BY <2>1, <2>2, <2>3, <2>4 DEF TypeOK
<1>2. HasBo' /\ ReservationsAgree'
  BY DEF HasBo, ReservationsAgree, TypeOK, BoTypes, CtxTypes, FreeTypes,
     Acquire, Goto, ctxVars, freeVars
<1>3. ChargeSettled'
  BY DEF ChargeSettled, NeedsCharge, HasBo, ReservationsAgree, TypeOK,
     BoTypes, PinTypes, CallTypes, CtxTypes, Acquire, Goto, ctxVars, pinVars,
     callVars
<1>4. QuotaFollowsPins'
  BY DEF QuotaFollowsPins, HasBo, ChargeSettled,
     NeedsCharge, TypeOK, PinTypes, SumTypes, CtxTypes, ReapTypes, Acquire,
     Goto, pinVars, sumVars, reapVars, ctxVars
<1> QED BY <1>1, <1>2, <1>3, <1>4

(* The head of amd_get_pages. *)
LEMMA GetPagesKeeps ==
    ASSUME IInv, NEW c \in Ctxs, GetPages(c)
    PROVE  IInv'
<1> USE BOAssumption, PinParamAssumption DEF IInv, Pinned
<1>1. TypeOK'
  <2>1. CASE FailGetPages(c)
    BY <2>1, FailGetPagesTypes DEF TypeOK, HasBo, BoTypes, PinTypes, SumTypes,
       CallTypes, CtxTypes, FreeTypes, ReapTypes, GetPages, pinVars, sumVars,
       freeVars, reapVars
  <2>2. CASE Goto(c, "pin") /\ UNCHANGED <<refs, cbo, outstanding, tries>>
    BY <2>2 DEF TypeOK, BoTypes, PinTypes, SumTypes, CallTypes, CtxTypes,
       FreeTypes, ReapTypes, CtxLabels, GetPages, Goto, pinVars, sumVars,
       freeVars, reapVars
  <2> QED BY <2>1, <2>2 DEF GetPages
<1>2. HasBo' /\ ReservationsAgree'
  BY DEF HasBo, ReservationsAgree, TypeOK, BoTypes, CtxTypes, FreeTypes,
     GetPages, Goto, FailGetPages, ctxVars, freeVars
<1>3. ChargeSettled'
  BY DEF ChargeSettled, NeedsCharge, HasBo, ReservationsAgree, TypeOK,
     BoTypes, PinTypes, CallTypes, CtxTypes, GetPages, Goto, FailGetPages,
     ctxVars, pinVars, callVars
<1>4. QuotaFollowsPins'
  BY DEF QuotaFollowsPins, HasBo, ChargeSettled,
     NeedsCharge, TypeOK, PinTypes, SumTypes, CtxTypes, ReapTypes, GetPages,
     Goto, FailGetPages, pinVars, sumVars, reapVars, ctxVars
<1> QED BY <1>1, <1>2, <1>3, <1>4

(* The charge: under the reservation, and within the limit. *)
LEMMA PinChargeKeeps ==
    ASSUME IInv, NEW c \in Ctxs, PinCharge(c)
    PROVE  IInv'
<1> USE BOAssumption, PinParamAssumption DEF IInv, Pinned
<1> DEFINE b == cbo[c]
<1>0. b \in BOs
  BY DEF PinCharge, HasBo
<1>a. CASE Goto(c, "failed")
  <2>1. /\ FailGetPages(c)
        /\ UNCHANGED <<alive, reused, lock, pinVars, sumVars, accounted, again,
                       revoked, active, freeVars, reapVars>>
        /\ reject' \in {reject, b}
    BY <1>a DEF PinCharge, RejectPin, Goto, TypeOK, CtxTypes, sumVars
  <2>2. TypeOK'
    BY <2>1, <1>0, FailGetPagesTypes DEF TypeOK, BoTypes, PinTypes, SumTypes,
       CallTypes, CtxTypes, FreeTypes, ReapTypes, pinVars, sumVars, freeVars,
       reapVars
  <2>3. HasBo' /\ ReservationsAgree'
    BY <2>1, <1>a DEF HasBo, ReservationsAgree, FailGetPages, Goto, TypeOK,
       CtxTypes, freeVars
  <2>4. ChargeSettled'
    BY <2>1, <1>a DEF ChargeSettled, NeedsCharge, FailGetPages, Goto, TypeOK,
       CtxTypes, pinVars
  <2>5. QuotaFollowsPins'
    BY <2>1 DEF QuotaFollowsPins, pinVars, sumVars, reapVars
  <2> QED BY <2>2, <2>3, <2>4, <2>5
<1>b. CASE Goto(c, "charged")
  <2>1. /\ lock[b] = NoOne
        /\ NeedsCharge(b) => Fits(b)
        /\ lock' = [lock EXCEPT ![b] = c]
        /\ rdma_pinned' = IF NeedsCharge(b) THEN rdma_pinned + Size[b]
                                            ELSE rdma_pinned
        /\ accounted' = [accounted EXCEPT ![c] = NeedsCharge(b)]
        /\ UNCHANGED <<refs, cbo, outstanding, tries, reject, alive, reused,
                       pinVars, clamped, vram_pinned, vram_pin_size, again,
                       revoked, active, freeVars, reapVars>>
    <3>1. ~Goto(c, "failed")
      BY <1>b DEF Goto, TypeOK, CtxTypes
    <3> QED BY <3>1 DEF PinCharge, RejectPin, FailGetPages
  <2>2. rdma_pinned' \in Nat
    BY <2>1, <1>0 DEF NeedsCharge, Fits, TypeOK, SumTypes
  <2>3. NeedsCharge(b) \in BOOLEAN
    BY <1>0 DEF NeedsCharge, TypeOK, PinTypes
  <2>4. BoTypes' /\ CallTypes' /\ CtxTypes'
    BY <2>1, <2>3, <1>0, <1>b DEF TypeOK, BoTypes, CallTypes, CtxTypes,
       CtxLabels, Goto
  <2>5. TypeOK'
    BY <2>1, <2>2, <2>4 DEF TypeOK, PinTypes, SumTypes, FreeTypes, ReapTypes,
       pinVars, freeVars, reapVars
  <2>6. HasBo' /\ ReservationsAgree'
    BY <2>1, <1>0, <1>b DEF HasBo, ReservationsAgree, Goto, TypeOK, BoTypes,
       CtxTypes, freeVars
  <2>7. ChargeSettled'
    <3>1. \A x \in BOs : NeedsCharge(x)' <=> NeedsCharge(x)
      BY <2>1 DEF NeedsCharge, pinVars
    <3>2. ASSUME NEW d \in Ctxs, cpc'[d] = "charged"
          PROVE  accounted'[d] <=> NeedsCharge(cbo[d])'
      <4>1. CASE d = c
        BY <4>1, <2>1, <3>1, <1>0, <2>3 DEF TypeOK, CallTypes, CtxTypes
      <4>2. CASE d # c
        <5>1. cpc[d] = "charged" /\ cbo[d] \in BOs
          BY <4>2, <3>2, <1>b DEF Goto, TypeOK, CtxTypes, HasBo
        <5> QED BY <4>2, <5>1, <3>1, <2>1 DEF ChargeSettled, TypeOK,
            CallTypes, CtxTypes
      <4> QED BY <4>1, <4>2
    <3> QED BY <3>2 DEF ChargeSettled
  <2>8. QuotaFollowsPins'
    BY <2>1 DEF QuotaFollowsPins, pinVars, reapVars
  <2> QED BY <2>2, <2>5, <2>6, <2>7, <2>8
<1> QED BY <1>a, <1>b DEF PinCharge, RejectPin, FailGetPages

(* The pin settles the charge: the first pin of a BO is the one that was   *)
(* accounted, a later one finds the BO charged. *)
LEMMA PinBoKeeps ==
    ASSUME IInv, NEW c \in Ctxs, PinBo(c)
    PROVE  IInv'
<1> USE BOAssumption, PinParamAssumption DEF IInv, Pinned
<1>0. cbo[c] \in BOs
  BY DEF PinBo, HasBo
<1>1. TypeOK'
  <2>1. charged' \in [BOs -> BOOLEAN]
    BY <1>0 DEF PinBo, TypeOK, PinTypes
  <2>2. quota_pins' \in [BOs -> Nat]
    <3>1. CASE accounted[c]
      BY <1>0, <3>1 DEF PinBo, TypeOK, PinTypes
    <3>2. CASE ~accounted[c]
      BY <1>0, <3>2 DEF PinBo, TypeOK, PinTypes
    <3> QED BY <3>1, <3>2
  <2>3. pin_count' \in [BOs -> Nat]
    BY <1>0 DEF PinBo, TypeOK, PinTypes
  <2>4. SumTypes'
    BY <1>0 DEF PinBo, TypeOK, PinTypes, SumTypes, Bytes
  <2>5. BoTypes' /\ CallTypes' /\ CtxTypes'
    BY <1>0 DEF PinBo, Goto, TypeOK, BoTypes, CallTypes, CtxTypes, CtxLabels,
       Pinned, boVars
  <2> QED BY <2>1, <2>2, <2>3, <2>4, <2>5 DEF PinBo, TypeOK, PinTypes,
      FreeTypes, ReapTypes, freeVars, reapVars
<1>2. HasBo' /\ ReservationsAgree'
  BY DEF HasBo, ReservationsAgree, TypeOK, BoTypes, CtxTypes, FreeTypes,
     PinBo, Goto, ctxVars, freeVars
<1>3. ChargeSettled'
  BY DEF ChargeSettled, NeedsCharge, HasBo, ReservationsAgree, TypeOK,
     BoTypes, PinTypes, CallTypes, CtxTypes, PinBo, Goto, ctxVars, pinVars,
     callVars
<1>4. QuotaFollowsPins'
  BY DEF QuotaFollowsPins, HasBo, ChargeSettled,
     NeedsCharge, TypeOK, PinTypes, SumTypes, CtxTypes, ReapTypes, PinBo,
     Goto, pinVars, sumVars, reapVars, ctxVars
<1> QED BY <1>1, <1>2, <1>3, <1>4

(* A failed pin leaves the BO as it was. *)
LEMMA PinFailedKeeps ==
    ASSUME IInv, NEW c \in Ctxs, PinFailed(c)
    PROVE  IInv'
<1> USE BOAssumption, PinParamAssumption DEF IInv, Pinned
<1>1. TypeOK'
  <2>1. cbo[c] \in BOs
    BY DEF PinFailed, HasBo
  <2>2. again' \in [Ctxs -> BOOLEAN]
    BY DEF PinFailed, TypeOK, CallTypes
  <2>3. BoTypes' /\ CtxTypes'
    BY <2>1 DEF PinFailed, Goto, TypeOK, BoTypes, CtxTypes, CtxLabels, boVars
  <2> QED BY <2>2, <2>3 DEF PinFailed, TypeOK, PinTypes, SumTypes, CallTypes,
      FreeTypes, ReapTypes, pinVars, sumVars, freeVars, reapVars
<1>2. HasBo' /\ ReservationsAgree'
  BY DEF HasBo, ReservationsAgree, TypeOK, BoTypes, CtxTypes, FreeTypes,
     PinFailed, Goto, ctxVars, freeVars
<1>3. ChargeSettled'
  BY DEF ChargeSettled, NeedsCharge, HasBo, ReservationsAgree, TypeOK,
     BoTypes, PinTypes, CallTypes, CtxTypes, PinFailed, Goto, ctxVars,
     pinVars, callVars
<1>4. QuotaFollowsPins'
  BY DEF QuotaFollowsPins, HasBo, ChargeSettled,
     NeedsCharge, TypeOK, PinTypes, SumTypes, CtxTypes, ReapTypes, PinFailed,
     Goto, pinVars, sumVars, reapVars, ctxVars
<1> QED BY <1>1, <1>2, <1>3, <1>4

(* The rollback of a charge touches no BO. *)
LEMMA RollbackKeeps ==
    ASSUME IInv, NEW c \in Ctxs, Rollback(c)
    PROVE  IInv'
<1> USE BOAssumption, PinParamAssumption DEF IInv, Pinned
<1>0. cbo[c] \in BOs
  BY DEF Rollback, HasBo
<1>00. /\ rdma_pinned' \in Nat /\ clamped' \in BOOLEAN
       /\ rdma_pinned' <= rdma_pinned
  <2>1. CASE accounted[c]
    BY <2>1, <1>0, QuotaDropTypes DEF Rollback, TypeOK, SumTypes
  <2>2. CASE ~accounted[c]
    BY <2>2 DEF Rollback, TypeOK, SumTypes
  <2> QED BY <2>1, <2>2
<1>1. TypeOK'
  <2>1. accounted' \in [Ctxs -> BOOLEAN] /\ again' \in [Ctxs -> BOOLEAN]
    BY DEF Rollback, TypeOK, CallTypes
  <2>2. CASE FailGetPages(c)
    BY <2>1, <2>2, <1>0, <1>00, FailGetPagesTypes DEF Rollback, TypeOK,
       BoTypes, PinTypes, SumTypes, CallTypes, CtxTypes, FreeTypes, ReapTypes,
       pinVars, freeVars, reapVars
  <2>3. CASE ~FailGetPages(c)
    <3>1. tries' \in [Ctxs -> 0 .. MaxRetry - 1]
      BY <2>3 DEF Rollback, TypeOK, CallTypes
    <3>2. CallTypes'
      BY <2>1, <3>1 DEF CallTypes
    <3>3. CtxTypes'
      BY <2>3 DEF Rollback, Goto, TypeOK, CtxTypes, CtxLabels
    <3>4. BoTypes' /\ PinTypes' /\ SumTypes'
      BY <1>00, <2>3 DEF Rollback, TypeOK, BoTypes, PinTypes, SumTypes,
         pinVars
    <3>5. FreeTypes' /\ ReapTypes'
      BY DEF Rollback, TypeOK, FreeTypes, ReapTypes, freeVars, reapVars
    <3> QED BY <3>2, <3>3, <3>4, <3>5 DEF TypeOK
  <2> QED BY <2>2, <2>3
<1>2. HasBo' /\ ReservationsAgree'
  BY DEF HasBo, ReservationsAgree, TypeOK, BoTypes, CtxTypes, FreeTypes,
     Rollback, Goto, FailGetPages, ctxVars, freeVars
<1>3. ChargeSettled'
  BY DEF ChargeSettled, NeedsCharge, HasBo, ReservationsAgree, TypeOK,
     BoTypes, PinTypes, CallTypes, CtxTypes, Rollback, Goto, FailGetPages,
     ctxVars, pinVars, callVars
<1>4. QuotaFollowsPins'
  BY <1>00 DEF Rollback, QuotaFollowsPins, TypeOK, SumTypes,
     pinVars, reapVars
<1> QED BY <1>1, <1>2, <1>3, <1>4

(* amd_dma_map changes nothing that the invariant mentions. *)
LEMMA DmaMapKeeps ==
    ASSUME IInv, NEW c \in Ctxs, DmaMap(c)
    PROVE  IInv'
<1> USE BOAssumption, PinParamAssumption DEF IInv, Pinned
<1>1. TypeOK'
  BY DEF TypeOK, HasBo, BoTypes, PinTypes, SumTypes, CallTypes, CtxTypes,
     FreeTypes, ReapTypes, CtxLabels, FreeLabels, DmaMap, Goto, boVars,
     pinVars, sumVars, callVars, ctxVars, freeVars, reapVars
<1>2. HasBo' /\ ReservationsAgree'
  BY DEF HasBo, ReservationsAgree, TypeOK, BoTypes, CtxTypes, FreeTypes,
     DmaMap, Goto, ctxVars, freeVars
<1>3. ChargeSettled'
  BY DEF ChargeSettled, NeedsCharge, HasBo, ReservationsAgree, TypeOK,
     BoTypes, PinTypes, CallTypes, CtxTypes, DmaMap, Goto, ctxVars, pinVars,
     callVars
<1>4. QuotaFollowsPins'
  BY DEF QuotaFollowsPins, HasBo, ChargeSettled,
     NeedsCharge, TypeOK, PinTypes, SumTypes, CtxTypes, ReapTypes, DmaMap,
     Goto, pinVars, sumVars, reapVars, ctxVars
<1> QED BY <1>1, <1>2, <1>3, <1>4

(* Neither does amd_dma_unmap. *)
LEMMA DmaUnmapKeeps ==
    ASSUME IInv, NEW c \in Ctxs, DmaUnmap(c)
    PROVE  IInv'
<1> USE BOAssumption, PinParamAssumption DEF IInv, Pinned
<1>1. TypeOK'
  BY DEF TypeOK, HasBo, BoTypes, PinTypes, SumTypes, CallTypes, CtxTypes,
     FreeTypes, ReapTypes, CtxLabels, FreeLabels, DmaUnmap, Goto, boVars,
     pinVars, sumVars, callVars, ctxVars, freeVars, reapVars
<1>2. HasBo' /\ ReservationsAgree'
  BY DEF HasBo, ReservationsAgree, TypeOK, BoTypes, CtxTypes, FreeTypes,
     DmaUnmap, Goto, ctxVars, freeVars
<1>3. ChargeSettled'
  BY DEF ChargeSettled, NeedsCharge, HasBo, ReservationsAgree, TypeOK,
     BoTypes, PinTypes, CallTypes, CtxTypes, DmaUnmap, Goto, ctxVars, pinVars,
     callVars
<1>4. QuotaFollowsPins'
  BY DEF QuotaFollowsPins, HasBo, ChargeSettled,
     NeedsCharge, TypeOK, PinTypes, SumTypes, CtxTypes, ReapTypes, DmaUnmap,
     Goto, pinVars, sumVars, reapVars, ctxVars
<1> QED BY <1>1, <1>2, <1>3, <1>4

(* The unpin takes one pin off both counts, and ends the charge with the     *)
(* last one. *)
LEMMA PutPagesKeeps ==
    ASSUME IInv, NEW c \in Ctxs, PutPages(c)
    PROVE  IInv'
<1> USE BOAssumption, PinParamAssumption DEF IInv, Pinned
<1>0. cbo[c] \in BOs
  BY DEF PutPages, HasBo, Pinned
<1>00. /\ PinTypes' /\ SumTypes'
       /\ rdma_pinned' <= rdma_pinned
  <2>1. CASE UnpinBo(cbo[c]) /\ pin_count[cbo[c]] > 0
    BY <2>1, <1>0, UnpinBoTypes DEF TypeOK
  <2>2. CASE UNCHANGED <<pinVars, sumVars>>
    BY <2>2 DEF TypeOK, PinTypes, SumTypes, pinVars, sumVars
  <2> QED BY <2>1, <2>2 DEF PutPages
<1>1. TypeOK'
  BY <1>00, SMTT(60) DEF PutPages, Goto, TypeOK, BoTypes, CallTypes,
     CtxTypes, CtxLabels, FreeTypes, ReapTypes, boVars, callVars, freeVars, reapVars
<1>2. HasBo' /\ ReservationsAgree'
  BY DEF HasBo, ReservationsAgree, TypeOK, BoTypes, CtxTypes, FreeTypes,
     PutPages, Goto, ctxVars, freeVars
<1>3. ChargeSettled'
  BY DEF ChargeSettled, NeedsCharge, HasBo, ReservationsAgree, TypeOK,
     BoTypes, PinTypes, CallTypes, CtxTypes, PutPages, Goto, UnpinBo, ctxVars,
     pinVars, callVars
<1>4. QuotaFollowsPins'
  <2>1. CASE UNCHANGED <<pinVars, sumVars>>
    BY <2>1 DEF QuotaFollowsPins, PutPages, pinVars, reapVars
  <2>2. CASE UnpinBo(cbo[c]) /\ pin_count[cbo[c]] > 0
    <3> SUFFICES ASSUME started, Limit > 0, NEW x \in VramBOs
                 PROVE  /\ charged'[x] <=> pin_count'[x] > 0
                        /\ quota_pins'[x] = pin_count'[x]
      BY DEF QuotaFollowsPins, PutPages, reapVars
    <3>1. /\ charged[x] <=> pin_count[x] > 0
          /\ quota_pins[x] = pin_count[x]
          /\ x \in BOs
      BY DEF QuotaFollowsPins
    <3>2. CASE x = cbo[c]
      <4>1. /\ pin_count'[x] = pin_count[x] - 1
            /\ quota_pins'[x] = pin_count[x] - 1
            /\ charged'[x] <=> pin_count[x] - 1 > 0
        <5> DEFINE left == IF quota_pins[x] > 0 THEN quota_pins[x] - 1
                                                ELSE 0
        <5>1. /\ quota_pins' = [quota_pins EXCEPT ![x] = left]
              /\ charged' = [charged EXCEPT ![x] = left > 0]
              /\ pin_count' = [pin_count EXCEPT ![x] = @ - 1]
          BY <3>1, <3>2, <2>2 DEF UnpinBo
        <5>2. left = pin_count[x] - 1
          BY <3>1, <3>2, <2>2 DEF TypeOK, PinTypes
        <5> QED BY <5>1, <5>2, <3>1 DEF TypeOK, PinTypes
      <4>2. pin_count[x] \in Nat
        BY <3>1 DEF TypeOK, PinTypes
      <4> QED BY <4>1, <4>2
    <3>3. CASE x # cbo[c]
      BY <3>1, <3>3, <2>2, <1>0 DEF UnpinBo, TypeOK, PinTypes
    <3> QED BY <3>2, <3>3
  <2> QED BY <2>1, <2>2 DEF PutPages
<1> QED BY <1>1, <1>2, <1>3, <1>4

(* amd_release gives up a reference only. *)
LEMMA ReleaseKeeps ==
    ASSUME IInv, NEW c \in Ctxs, Release(c)
    PROVE  IInv'
<1> USE BOAssumption, PinParamAssumption DEF IInv, Pinned
<1>1. TypeOK'
  <2>1. refs' \in [BOs -> Int] /\ outstanding' \in Int
    <3>1. CASE cbo[c] # NoBO
      BY <3>1 DEF Release, TypeOK, BoTypes, CtxTypes
    <3>2. CASE cbo[c] = NoBO
      BY <3>2 DEF Release, TypeOK, BoTypes, CtxTypes
    <3> QED BY <3>1, <3>2
  <2>2. cpc' \in [Ctxs -> CtxLabels] /\ cbo' \in [Ctxs -> BOs \cup {NoBO}]
    BY DEF Release, Goto, TypeOK, CtxTypes, CtxLabels
  <2> QED BY <2>1, <2>2 DEF Release, TypeOK, BoTypes, PinTypes, SumTypes,
      CallTypes, CtxTypes, FreeTypes, ReapTypes, pinVars, sumVars, callVars,
      freeVars, reapVars
<1>2. HasBo' /\ ReservationsAgree'
  BY DEF HasBo, ReservationsAgree, TypeOK, BoTypes, CtxTypes, FreeTypes,
     Release, Goto, ctxVars, freeVars
<1>3. ChargeSettled'
  BY DEF ChargeSettled, NeedsCharge, HasBo, ReservationsAgree, TypeOK,
     BoTypes, PinTypes, CallTypes, CtxTypes, Release, Goto, ctxVars, pinVars,
     callVars
<1>4. QuotaFollowsPins'
  BY DEF QuotaFollowsPins, HasBo, ChargeSettled,
     NeedsCharge, TypeOK, PinTypes, SumTypes, CtxTypes, ReapTypes, Release,
     Goto, pinVars, sumVars, reapVars, ctxVars
<1> QED BY <1>1, <1>2, <1>3, <1>4

(* The reject cache is no part of the accounting. *)
LEMMA RejectExpiresKeeps ==
    ASSUME IInv, RejectExpires
    PROVE  IInv'
<1> USE BOAssumption, PinParamAssumption DEF IInv, Pinned
<1>1. TypeOK'
  BY DEF TypeOK, HasBo, BoTypes, PinTypes, SumTypes, CallTypes, CtxTypes,
     FreeTypes, ReapTypes, CtxLabels, FreeLabels, RejectExpires, boVars,
     pinVars, sumVars, callVars, ctxVars, freeVars, reapVars
<1>2. HasBo' /\ ReservationsAgree'
  BY DEF HasBo, ReservationsAgree, TypeOK, BoTypes, CtxTypes, FreeTypes,
     RejectExpires, ctxVars, freeVars
<1>3. ChargeSettled'
  BY DEF ChargeSettled, NeedsCharge, HasBo, ReservationsAgree, TypeOK,
     BoTypes, PinTypes, CallTypes, CtxTypes, RejectExpires, ctxVars, pinVars,
     callVars
<1>4. QuotaFollowsPins'
  BY DEF QuotaFollowsPins, HasBo, ChargeSettled,
     NeedsCharge, TypeOK, PinTypes, SumTypes, CtxTypes, ReapTypes,
     RejectExpires, pinVars, sumVars, reapVars, ctxVars
<1> QED BY <1>1, <1>2, <1>3, <1>4

(* A free begins. *)
LEMMA FreeMemoryKeeps ==
    ASSUME IInv, NEW b \in BOs, FreeMemory(b)
    PROVE  IInv'
<1> USE BOAssumption, PinParamAssumption DEF IInv, Pinned
<1>1. TypeOK'
  BY DEF TypeOK, HasBo, BoTypes, PinTypes, SumTypes, CallTypes, CtxTypes,
     FreeTypes, ReapTypes, CtxLabels, FreeLabels, FreeMemory, boVars, pinVars,
     sumVars, callVars, ctxVars, freeVars, reapVars
<1>2. HasBo' /\ ReservationsAgree'
  BY DEF HasBo, ReservationsAgree, TypeOK, BoTypes, CtxTypes, FreeTypes,
     FreeMemory, ctxVars, freeVars
<1>3. ChargeSettled'
  BY DEF ChargeSettled, NeedsCharge, HasBo, ReservationsAgree, TypeOK,
     BoTypes, PinTypes, CallTypes, CtxTypes, FreeMemory, ctxVars, pinVars,
     callVars
<1>4. QuotaFollowsPins'
  BY DEF QuotaFollowsPins, HasBo, ChargeSettled,
     NeedsCharge, TypeOK, PinTypes, SumTypes, CtxTypes, ReapTypes, FreeMemory,
     pinVars, sumVars, reapVars, ctxVars
<1> QED BY <1>1, <1>2, <1>3, <1>4

(* The free reserves the BO, or is interrupted. *)
LEMMA FreeReserveKeeps ==
    ASSUME IInv, FreeReserve
    PROVE  IInv'
<1> USE BOAssumption, PinParamAssumption DEF IInv, Pinned
<1>1. TypeOK'
  BY DEF TypeOK, HasBo, BoTypes, PinTypes, SumTypes, CallTypes, CtxTypes,
     FreeTypes, ReapTypes, CtxLabels, FreeLabels, FreeReserve, Interrupted,
     boVars, pinVars, sumVars, callVars, ctxVars, freeVars, reapVars
<1>2. HasBo' /\ ReservationsAgree'
  BY DEF HasBo, ReservationsAgree, TypeOK, BoTypes, CtxTypes, FreeTypes,
     FreeReserve, Interrupted, ctxVars, freeVars
<1>3. ChargeSettled'
  BY DEF ChargeSettled, NeedsCharge, HasBo, ReservationsAgree, TypeOK,
     BoTypes, PinTypes, CallTypes, CtxTypes, FreeReserve, Interrupted,
     ctxVars, pinVars, callVars
<1>4. QuotaFollowsPins'
  BY DEF QuotaFollowsPins, HasBo, ChargeSettled,
     NeedsCharge, TypeOK, PinTypes, SumTypes, CtxTypes, ReapTypes,
     FreeReserve, Interrupted, pinVars, sumVars, reapVars, ctxVars
<1> QED BY <1>1, <1>2, <1>3, <1>4

(* The free stops waiting. *)
LEMMA FreeWaitedKeeps ==
    ASSUME IInv, FreeWaited
    PROVE  IInv'
<1> USE BOAssumption, PinParamAssumption DEF IInv, Pinned
<1>1. TypeOK'
  BY DEF TypeOK, HasBo, BoTypes, PinTypes, SumTypes, CallTypes, CtxTypes,
     FreeTypes, ReapTypes, CtxLabels, FreeLabels, FreeWaited, boVars, pinVars,
     sumVars, callVars, ctxVars, freeVars, reapVars
<1>2. HasBo' /\ ReservationsAgree'
  BY DEF HasBo, ReservationsAgree, TypeOK, BoTypes, CtxTypes, FreeTypes,
     FreeWaited, ctxVars, freeVars
<1>3. ChargeSettled'
  BY DEF ChargeSettled, NeedsCharge, HasBo, ReservationsAgree, TypeOK,
     BoTypes, PinTypes, CallTypes, CtxTypes, FreeWaited, ctxVars, pinVars,
     callVars
<1>4. QuotaFollowsPins'
  BY DEF QuotaFollowsPins, HasBo, ChargeSettled,
     NeedsCharge, TypeOK, PinTypes, SumTypes, CtxTypes, ReapTypes, FreeWaited,
     pinVars, sumVars, reapVars, ctxVars
<1> QED BY <1>1, <1>2, <1>3, <1>4

(* The BO goes to the orphan list. *)
LEMMA OrphanQueueKeeps ==
    ASSUME IInv, OrphanQueue
    PROVE  IInv'
<1> USE BOAssumption, PinParamAssumption DEF IInv, Pinned
<1>0. freeing \in BOs
  BY DEF OrphanQueue, HasBo
<1>1. TypeOK'
  <2>1. ReapTypes'
    <3>1. Append(orphans, freeing) \in Seq(BOs)
      BY <1>0 DEF TypeOK, ReapTypes
    <3> QED BY <3>1 DEF OrphanQueue, TypeOK, ReapTypes
  <2>2. BoTypes'
    BY <1>0 DEF OrphanQueue, TypeOK, BoTypes
  <2>3. PinTypes' /\ SumTypes' /\ CallTypes'
    BY DEF OrphanQueue, TypeOK, PinTypes, SumTypes, CallTypes, pinVars,
       sumVars, callVars
  <2>4. CtxTypes' /\ FreeTypes'
    BY DEF OrphanQueue, TypeOK, CtxTypes, FreeTypes, FreeLabels, ctxVars
  <2> QED BY <2>1, <2>2, <2>3, <2>4 DEF TypeOK
<1>2. HasBo' /\ ReservationsAgree'
  BY DEF HasBo, ReservationsAgree, TypeOK, BoTypes, CtxTypes, FreeTypes,
     OrphanQueue, ctxVars, freeVars
<1>3. ChargeSettled'
  BY DEF ChargeSettled, NeedsCharge, HasBo, ReservationsAgree, TypeOK,
     BoTypes, PinTypes, CallTypes, CtxTypes, OrphanQueue, ctxVars, pinVars,
     callVars
<1>4. QuotaFollowsPins'
  BY DEF QuotaFollowsPins, HasBo, ChargeSettled,
     NeedsCharge, TypeOK, PinTypes, SumTypes, CtxTypes, ReapTypes,
     OrphanQueue, pinVars, sumVars, reapVars, ctxVars
<1> QED BY <1>1, <1>2, <1>3, <1>4

(* The free ends. *)
LEMMA DropHandleKeeps ==
    ASSUME IInv, DropHandle
    PROVE  IInv'
<1> USE BOAssumption, PinParamAssumption DEF IInv, Pinned
<1>1. TypeOK'
  BY SMTT(60) DEF TypeOK, HasBo, BoTypes, PinTypes, SumTypes, CallTypes,
     CtxTypes, FreeTypes, ReapTypes, CtxLabels, FreeLabels, DropHandle, boVars, pinVars,
     sumVars, callVars, ctxVars, freeVars, reapVars
<1>2. HasBo' /\ ReservationsAgree'
  BY DEF HasBo, ReservationsAgree, TypeOK, BoTypes, CtxTypes, FreeTypes,
     DropHandle, ctxVars, freeVars
<1>3. ChargeSettled'
  BY DEF ChargeSettled, NeedsCharge, HasBo, ReservationsAgree, TypeOK,
     BoTypes, PinTypes, CallTypes, CtxTypes, DropHandle, ctxVars, pinVars,
     callVars
<1>4. QuotaFollowsPins'
  BY DEF QuotaFollowsPins, HasBo, ChargeSettled,
     NeedsCharge, TypeOK, PinTypes, SumTypes, CtxTypes, ReapTypes, DropHandle,
     pinVars, sumVars, reapVars, ctxVars
<1> QED BY <1>1, <1>2, <1>3, <1>4

(* A new BO starts unpinned and uncharged. *)
LEMMA ReuseKeeps ==
    ASSUME IInv, NEW b \in BOs, Reuse(b)
    PROVE  IInv'
<1> USE BOAssumption, PinParamAssumption DEF IInv, Pinned
<1>1. TypeOK'
  <2>1. BoTypes'
    BY DEF TypeOK, BoTypes, Reuse
  <2>2. PinTypes'
    BY DEF TypeOK, PinTypes, Reuse
  <2>3. SumTypes' /\ CallTypes' /\ CtxTypes'
    BY DEF TypeOK, SumTypes, CallTypes, CtxTypes, Reuse, sumVars, callVars,
       ctxVars
  <2>4. FreeTypes' /\ ReapTypes'
    BY DEF TypeOK, FreeTypes, ReapTypes, Reuse, freeVars, reapVars
  <2> QED BY <2>1, <2>2, <2>3, <2>4 DEF TypeOK
<1>2. HasBo' /\ ReservationsAgree'
  BY DEF HasBo, ReservationsAgree, TypeOK, BoTypes, CtxTypes, FreeTypes,
     Reuse, ctxVars, freeVars
<1>3. ChargeSettled'
  BY DEF ChargeSettled, NeedsCharge, HasBo, ReservationsAgree, TypeOK,
     BoTypes, PinTypes, CallTypes, CtxTypes, Reuse, ctxVars, pinVars, callVars
<1>4. QuotaFollowsPins'
  BY DEF QuotaFollowsPins, HasBo, ChargeSettled,
     NeedsCharge, TypeOK, PinTypes, SumTypes, CtxTypes, ReapTypes, Reuse,
     pinVars, sumVars, reapVars, ctxVars
<1> QED BY <1>1, <1>2, <1>3, <1>4

(* The reaper takes a part of the list. *)
LEMMA ReapCollectKeeps ==
    ASSUME IInv, ReapCollect
    PROVE  IInv'
<1> USE BOAssumption, PinParamAssumption DEF IInv, Pinned
<1>1. TypeOK'
  <2>1. ReapTypes'
    <3>1. PICK n \in 1 .. Len(orphans) :
             /\ reap' = SubSeq(orphans, 1, n)
             /\ orphans' = SubSeq(orphans, n + 1, Len(orphans))
      BY DEF ReapCollect
    <3>2. Len(orphans) \in Nat
      BY DEF TypeOK, ReapTypes
    <3>3. SubSeq(orphans, 1, n) \in Seq(BOs)
      <4>1. \A i \in 1 .. n : orphans[i] \in BOs
        BY <3>1, <3>2 DEF TypeOK, ReapTypes
      <4> QED BY <4>1, <3>2, SubSeqProperties DEF TypeOK, ReapTypes
    <3>4. SubSeq(orphans, n + 1, Len(orphans)) \in Seq(BOs)
      BY <3>2, SubSeqProperties DEF TypeOK, ReapTypes
    <3> QED BY <3>1, <3>3, <3>4 DEF ReapCollect, TypeOK, ReapTypes
  <2> QED BY <2>1 DEF ReapCollect, TypeOK, BoTypes, PinTypes, SumTypes,
      CallTypes, CtxTypes, FreeTypes, boVars, pinVars, sumVars, callVars,
      ctxVars, freeVars
<1>2. HasBo' /\ ReservationsAgree'
  BY DEF HasBo, ReservationsAgree, TypeOK, BoTypes, CtxTypes, FreeTypes,
     ReapCollect, ctxVars, freeVars
<1>3. ChargeSettled'
  BY DEF ChargeSettled, NeedsCharge, HasBo, ReservationsAgree, TypeOK,
     BoTypes, PinTypes, CallTypes, CtxTypes, ReapCollect, ctxVars, pinVars,
     callVars
<1>4. QuotaFollowsPins'
  BY DEF QuotaFollowsPins, HasBo, ChargeSettled,
     NeedsCharge, TypeOK, PinTypes, SumTypes, CtxTypes, ReapTypes,
     ReapCollect, pinVars, sumVars, reapVars, ctxVars
<1> QED BY <1>1, <1>2, <1>3, <1>4

(* The reaper clears the charge and every pin of a BO together. *)
LEMMA ReapOrphanKeeps ==
    ASSUME IInv, ReapOrphan
    PROVE  IInv'
<1> USE BOAssumption, PinParamAssumption DEF IInv, Pinned
<1> DEFINE b == Head(reap)
<1>0. b \in BOs /\ Tail(reap) \in Seq(BOs)
  BY DEF ReapOrphan, TypeOK, ReapTypes
<1>00. lock[b] = NoOne /\ lock' = lock
  BY DEF ReapOrphan
<1>01. /\ rdma_pinned' \in Nat /\ clamped' \in BOOLEAN
       /\ rdma_pinned' <= rdma_pinned
  <2>1. CASE Limit > 0 /\ charged[b]
    BY <2>1, <1>0, BytesType, QuotaDropTypes DEF ReapOrphan, TypeOK, SumTypes
  <2>2. CASE ~(Limit > 0 /\ charged[b])
    BY <2>2 DEF ReapOrphan, TypeOK, SumTypes
  <2> QED BY <2>1, <2>2
<1>02. /\ pin_count' = [pin_count EXCEPT ![b] = 0]
       /\ charged' \in [BOs -> BOOLEAN]
       /\ quota_pins' \in [BOs -> Nat]
       /\ \A x \in BOs \ {b} : charged'[x] = charged[x]
                             /\ quota_pins'[x] = quota_pins[x]
       /\ Limit > 0 /\ charged[b] => ~charged'[b] /\ quota_pins'[b] = 0
       /\ ~(Limit > 0 /\ charged[b])
             => charged'[b] = charged[b] /\ quota_pins'[b] = quota_pins[b]
  <2>1. CASE Limit > 0 /\ charged[b]
    <3>1. /\ charged' = [charged EXCEPT ![b] = FALSE]
          /\ quota_pins' = [quota_pins EXCEPT ![b] = 0]
          /\ pin_count' = [pin_count EXCEPT ![b] = 0]
      BY <2>1 DEF ReapOrphan, ForceUnpin
    <3>2. charged' \in [BOs -> BOOLEAN] /\ quota_pins' \in [BOs -> Nat]
      BY <3>1, <1>0 DEF TypeOK, PinTypes
    <3> QED BY <2>1, <3>1, <3>2, <1>0, Zenon DEF TypeOK, PinTypes
  <2>2. CASE ~(Limit > 0 /\ charged[b])
    BY <2>2, <1>0 DEF ReapOrphan, ForceUnpin, TypeOK, PinTypes
  <2> QED BY <2>1, <2>2
<1>1. TypeOK'
  <2>1. PinTypes'
    BY <1>02, <1>0 DEF TypeOK, PinTypes
  <2>2. vram_pinned' \in Int /\ vram_pin_size' \in Int
    BY <1>0, BytesType, SMTT(30) DEF ReapOrphan, ForceUnpin, TypeOK, SumTypes
  <2>3. BoTypes' /\ ReapTypes'
    BY <1>0 DEF ReapOrphan, TypeOK, BoTypes, ReapTypes
  <2>4. revoked' \subseteq Ctxs
    BY DEF ReapOrphan, ForceUnpin, TypeOK, CtxTypes
  <2> QED BY <2>1, <2>2, <2>3, <2>4, <1>01 DEF ReapOrphan, TypeOK, SumTypes,
      CallTypes, CtxTypes, FreeTypes, callVars, freeVars
<1>2. HasBo' /\ ReservationsAgree'
  BY DEF HasBo, ReservationsAgree, TypeOK, BoTypes, CtxTypes, FreeTypes,
     ReapOrphan, ForceUnpin, ctxVars, freeVars
<1>3. ChargeSettled'
  <2> SUFFICES ASSUME NEW d \in Ctxs, cpc[d] = "charged"
               PROVE  accounted[d] <=> NeedsCharge(cbo[d])'
    BY DEF ChargeSettled, ReapOrphan, callVars
  <2>1. cbo[d] \in BOs /\ lock[cbo[d]] = d
    BY DEF HasBo, ReservationsAgree
  <2>2. cbo[d] # b
    BY <2>1, <1>00
  <2> QED BY <2>1, <2>2, <1>02 DEF ChargeSettled, NeedsCharge, ReapOrphan
<1>4. QuotaFollowsPins'
  BY <1>02, <1>0, SMTT(30) DEF QuotaFollowsPins, ReapOrphan, TypeOK, PinTypes
<1> QED BY <1>1, <1>2, <1>3, <1>4

(* After the stop the counts are no longer claimed to agree. *)
LEMMA ReaperStopKeeps ==
    ASSUME IInv, ReaperStop
    PROVE  IInv'
<1> USE BOAssumption, PinParamAssumption DEF IInv, Pinned
<1>1. TypeOK'
  BY DEF TypeOK, HasBo, BoTypes, PinTypes, SumTypes, CallTypes, CtxTypes,
     FreeTypes, ReapTypes, CtxLabels, FreeLabels, ReaperStop, boVars, pinVars,
     sumVars, callVars, ctxVars, freeVars, reapVars
<1>2. HasBo' /\ ReservationsAgree'
  BY DEF HasBo, ReservationsAgree, TypeOK, BoTypes, CtxTypes, FreeTypes,
     ReaperStop, ctxVars, freeVars
<1>3. ChargeSettled'
  BY DEF ChargeSettled, NeedsCharge, HasBo, ReservationsAgree, TypeOK,
     BoTypes, PinTypes, CallTypes, CtxTypes, ReaperStop, ctxVars, pinVars,
     callVars
<1>4. QuotaFollowsPins'
  BY DEF QuotaFollowsPins, HasBo, ChargeSettled,
     NeedsCharge, TypeOK, PinTypes, SumTypes, CtxTypes, ReapTypes, ReaperStop,
     pinVars, sumVars, reapVars, ctxVars
<1> QED BY <1>1, <1>2, <1>3, <1>4

(* The drain of the list runs with the reaper stopped. *)
LEMMA StopOrphanKeeps ==
    ASSUME IInv, StopOrphan
    PROVE  IInv'
<1> USE BOAssumption, PinParamAssumption DEF IInv, Pinned
<1> DEFINE b == Head(reap)
<1>0. b \in BOs /\ Tail(reap) \in Seq(BOs)
  BY DEF StopOrphan, TypeOK, ReapTypes
<1>1. TypeOK'
  <2>1. PinTypes' /\ SumTypes'
    <3>1. CASE ForceUnpin(b)
      BY <3>1, <1>0, BytesType, SMTT(30) DEF StopOrphan, ForceUnpin, TypeOK, PinTypes,
         SumTypes
    <3>2. CASE UNCHANGED <<pin_count, vram_pin_size>>
      BY <3>2 DEF StopOrphan, TypeOK, PinTypes, SumTypes
    <3> QED BY <3>1, <3>2 DEF StopOrphan
  <2>2. BoTypes' /\ ReapTypes'
    BY <1>0 DEF StopOrphan, TypeOK, BoTypes, ReapTypes
  <2>3. revoked' \subseteq Ctxs
    BY DEF StopOrphan, ForceUnpin, TypeOK, CtxTypes
  <2> QED BY <2>1, <2>2, <2>3 DEF StopOrphan, TypeOK, CallTypes, CtxTypes,
      FreeTypes, callVars, freeVars
<1>2. HasBo' /\ ReservationsAgree'
  BY DEF HasBo, ReservationsAgree, TypeOK, BoTypes, CtxTypes, FreeTypes,
     StopOrphan, ForceUnpin, ctxVars, freeVars
<1>3. ChargeSettled'
  BY DEF ChargeSettled, NeedsCharge, HasBo, ReservationsAgree, TypeOK,
     BoTypes, PinTypes, CallTypes, CtxTypes, StopOrphan, ForceUnpin, ctxVars,
     pinVars, callVars
<1>4. QuotaFollowsPins'
  BY DEF QuotaFollowsPins, HasBo, ChargeSettled,
     NeedsCharge, TypeOK, PinTypes, SumTypes, CtxTypes, ReapTypes, StopOrphan,
     ForceUnpin, pinVars, sumVars, reapVars, ctxVars
<1> QED BY <1>1, <1>2, <1>3, <1>4

-----------------------------------------------------------------------------
(* The invariant is inductive. *)
LEMMA NextKeeps == IInv /\ [Next]_vars => IInv'
<1> SUFFICES ASSUME IInv, [Next]_vars PROVE IInv'
  OBVIOUS
<1>1. CASE Next
  BY <1>1, AcquireKeeps, GetPagesKeeps, PinChargeKeeps, PinBoKeeps,
     PinFailedKeeps, RollbackKeeps, DmaMapKeeps, DmaUnmapKeeps, PutPagesKeeps,
     ReleaseKeeps, RejectExpiresKeeps, FreeMemoryKeeps, FreeReserveKeeps,
     FreeWaitedKeeps, OrphanQueueKeeps, DropHandleKeeps, ReuseKeeps,
     ReapCollectKeeps, ReapOrphanKeeps, ReaperStopKeeps, StopOrphanKeeps
     DEF Next, Client, FreeStep, ReapStep, PinStep
<1>2. CASE UNCHANGED vars
  BY <1>2 DEF vars, boVars, pinVars, sumVars, callVars, ctxVars, freeVars,
     reapVars, IInv, TypeOK, BoTypes, PinTypes, SumTypes, CallTypes, CtxTypes,
     FreeTypes, ReapTypes, HasBo, ReservationsAgree, ChargeSettled,
     NeedsCharge, QuotaFollowsPins
<1> QED BY <1>1, <1>2

(* Types: no pin count or quota count is ever taken below zero, whatever the *)
(* reaper has already unpinned (the guard of unpin_bo).                      *)
THEOREM PinTypesCorrect == Spec => []TypeOK
<1>1. IInv => TypeOK
  BY DEF IInv
<1> QED BY <1>1, InitInv, NextKeeps, PTL DEF Spec

(* The RDMA quota follows the pin counts of TTM: while the reaper runs, a    *)
(* VRAM BO is charged exactly while it is pinned, and rdma_quota_pin_count   *)
(* is tbo.pin_count.                                                         *)
THEOREM QuotaPinsCorrect == Spec => []QuotaFollowsPins
<1>1. IInv => QuotaFollowsPins
  BY DEF IInv
<1> QED BY <1>1, InitInv, NextKeeps, PTL DEF Spec

-----------------------------------------------------------------------------
(* References and contexts. *)

(* 1 when it is so. *)
One(p) == IF p THEN 1 ELSE 0

(* A set of contexts that at most one context has entered or left. *)
LEMMA OneMoves ==
    ASSUME NEW A \in SUBSET Ctxs, NEW B \in SUBSET Ctxs, NEW c \in Ctxs,
           \A d \in Ctxs \ {c} : d \in A <=> d \in B
    PROVE  /\ Cardinality(A) \in Nat /\ Cardinality(B) \in Nat
           /\ Cardinality(B) = Cardinality(A) - One(c \in A) + One(c \in B)
<1>1. IsFiniteSet(A) /\ IsFiniteSet(B)
  BY BOAssumption, FS_Subset
<1>2. PICK D : D = A \ {c}
  OBVIOUS
<1>3. IsFiniteSet(D) /\ c \notin D
  BY <1>1, <1>2, FS_RemoveElement
<1>4. A = IF c \in A THEN D \cup {c} ELSE D
  BY <1>2
<1>5. B = IF c \in B THEN D \cup {c} ELSE D
  BY <1>2
<1>6. Cardinality(D \cup {c}) = Cardinality(D) + 1 /\ Cardinality(D) \in Nat
  BY <1>3, FS_AddElement, FS_CardinalityType
<1> QED BY <1>4, <1>5, <1>6 DEF One

(* A context without a BO points at none, and a free works on a handle. *)
CtxHolds == \A c \in Ctxs : cpc[c] \in {"none", "failed"} => cbo[c] = NoBO

FreeHolds ==
    /\ fpc = "none" <=> freeing = NoBO
    /\ freeing # NoBO => alive[freeing]

RInv == CtxHolds /\ FreeHolds /\ RefsExact /\ CountersExact

(* The entries of a BO on the two lists. *)
LEMMA QueuedCounts ==
    ASSUME NEW o \in Seq(BOs), NEW r \in Seq(BOs), NEW b
    PROVE  Cardinality({i \in 1 .. Len(o \o r) : (o \o r)[i] = b})
              = Count(o, b) + Count(r, b)
<1>1. PICK a : a = o \o r
  OBVIOUS
<1>2. Count(a, b) = Count(o, b) + Count(r, b)
  BY <1>1, CountConcat
<1> QED BY <1>1, <1>2 DEF Count, Positions

(* Nothing is on an empty list. *)
LEMMA EmptyCount == \A b : Count(<<>>, b) = 0
<1>1. \A b : Positions(<<>>, b) = {}
  BY DEF Positions
<1> QED BY <1>1, FS_EmptySet DEF Count

(* A step of one context to l, with the BO v from then on. *)
ContextMoves(c, l, v) ==
    /\ v \in BOs \cup {NoBO}
    /\ l \in {"none", "failed"} => v = NoBO
    /\ Goto(c, l) /\ cbo' = [cbo EXCEPT ![c] = v]
    /\ UNCHANGED <<alive, orphans, reap, freeing, fpc>>
    /\ outstanding' = outstanding - One(cbo[c] # NoBO) + One(v # NoBO)
    /\ active' = active - One(cpc[c] \in Pinned) + One(l \in Pinned)
    /\ \A b \in BOs : refs'[b] = refs[b] - One(cbo[c] = b) + One(v = b)

(* It keeps the counts. *)
LEMMA CtxStepCounts ==
    ASSUME TypeOK, TypeOK', RInv, NEW c \in Ctxs, NEW l, NEW v,
           ContextMoves(c, l, v)
    PROVE  RInv'
<1> USE DEF ContextMoves
<1>1. CtxHolds'
  BY DEF RInv, CtxHolds, Goto, TypeOK, CtxTypes
<1>2. FreeHolds'
  BY DEF RInv, FreeHolds
<1>3. RefsExact'
  <2> SUFFICES ASSUME NEW b \in BOs
               PROVE  (refs[b] = (IF alive[b] THEN 1 ELSE 0)
                               + Cardinality({d \in Ctxs : cbo[d] = b})
                               + Cardinality(Queued(b)))'
    BY DEF RefsExact
  <2>1. PICK A, B : /\ A = {d \in Ctxs : cbo[d] = b}
                    /\ B = {d \in Ctxs : cbo'[d] = b}
    OBVIOUS
  <2>2. /\ A \in SUBSET Ctxs /\ B \in SUBSET Ctxs
        /\ \A d \in Ctxs \ {c} : d \in A <=> d \in B
        /\ c \in A <=> cbo[c] = b
        /\ c \in B <=> v = b
    BY <2>1 DEF TypeOK, CtxTypes
  <2>3. /\ Cardinality(A) \in Nat /\ Cardinality(B) \in Nat
        /\ Cardinality(B) = Cardinality(A) - One(c \in A) + One(c \in B)
    BY <2>2, OneMoves
  <2>4. PICK q : q = Cardinality(Queued(b))
    OBVIOUS
  <2>5. q = Cardinality(Queued(b)')
    BY <2>4 DEF Queued
  <2>6. q \in Int
    <3>0. orphans \in Seq(BOs) /\ reap \in Seq(BOs)
      BY DEF TypeOK, ReapTypes
    <3>1. q = Count(orphans, b) + Count(reap, b)
      BY <2>4, <3>0, QueuedCounts, SMTT(30) DEF Queued
    <3>2. Count(orphans, b) \in Nat /\ Count(reap, b) \in Nat
      BY <3>0, CountType
    <3> QED BY <3>1, <3>2
  <2>7. refs[b] = (IF alive[b] THEN 1 ELSE 0) + Cardinality(A) + q
    BY <2>1, <2>4 DEF RInv, RefsExact
  <2>8. refs'[b] = refs[b] - One(c \in A) + One(c \in B)
    BY <2>2 DEF One
  <2>9. refs'[b] = (IF alive'[b] THEN 1 ELSE 0) + Cardinality(B) + q
    BY <2>3, <2>6, <2>7, <2>8 DEF One
  <2> QED BY <2>1, <2>5, <2>9
<1>4. CountersExact'
  <2>1. PICK A, B : /\ A = {d \in Ctxs : cbo[d] # NoBO}
                    /\ B = {d \in Ctxs : cbo'[d] # NoBO}
    OBVIOUS
  <2>2. /\ A \in SUBSET Ctxs /\ B \in SUBSET Ctxs
        /\ \A d \in Ctxs \ {c} : d \in A <=> d \in B
        /\ c \in A <=> cbo[c] # NoBO
        /\ c \in B <=> v # NoBO
    BY <2>1 DEF TypeOK, CtxTypes
  <2>3. /\ Cardinality(A) \in Nat /\ Cardinality(B) \in Nat
        /\ Cardinality(B) = Cardinality(A) - One(c \in A) + One(c \in B)
    BY <2>2, OneMoves
  <2>4. outstanding' = Cardinality(B)
    BY <2>1, <2>2, <2>3 DEF RInv, CountersExact, One
  <2>5. PICK P, Q : /\ P = {d \in Ctxs : cpc[d] \in Pinned}
                    /\ Q = {d \in Ctxs : cpc'[d] \in Pinned}
    OBVIOUS
  <2>6. /\ P \in SUBSET Ctxs /\ Q \in SUBSET Ctxs
        /\ \A d \in Ctxs \ {c} : d \in P <=> d \in Q
        /\ c \in P <=> cpc[c] \in Pinned
        /\ c \in Q <=> l \in Pinned
    BY <2>5 DEF TypeOK, CtxTypes, Goto
  <2>7. /\ Cardinality(P) \in Nat /\ Cardinality(Q) \in Nat
        /\ Cardinality(Q) = Cardinality(P) - One(c \in P) + One(c \in Q)
    BY <2>6, OneMoves
  <2>8. active' = Cardinality(Q)
    BY <2>5, <2>6, <2>7 DEF RInv, CountersExact, One
  <2> QED BY <2>1, <2>4, <2>5, <2>8 DEF CountersExact
<1> QED BY <1>1, <1>2, <1>3, <1>4 DEF RInv

(* A step that moves no context: what a BO gains in references it gains in  *)
(* handles and entries.                                                     *)
LEMMA ListStepCounts ==
    ASSUME TypeOK, TypeOK', RInv, FreeHolds',
           UNCHANGED <<cpc, cbo, outstanding, active>>,
           \A b \in BOs :
              refs'[b] - One(alive'[b]) - Count(orphans', b) - Count(reap', b)
                = refs[b] - One(alive[b]) - Count(orphans, b) - Count(reap, b)
    PROVE  RInv'
<1>1. CtxHolds' /\ CountersExact'
  BY DEF RInv, CtxHolds, CountersExact
<1>2. RefsExact'
  <2> SUFFICES ASSUME NEW b \in BOs
               PROVE  (refs[b] = (IF alive[b] THEN 1 ELSE 0)
                               + Cardinality({d \in Ctxs : cbo[d] = b})
                               + Cardinality(Queued(b)))'
    BY DEF RefsExact
  <2>1. PICK A : A = {d \in Ctxs : cbo[d] = b}
    OBVIOUS
  <2>2. Cardinality(A) \in Nat
    BY <2>1, BOAssumption, FS_Subset, FS_CardinalityType
  <2>3. PICK q, r : q = Cardinality(Queued(b)) /\ r = Cardinality(Queued(b)')
    OBVIOUS
  <2>4. /\ q = Count(orphans, b) + Count(reap, b)
        /\ Count(orphans, b) \in Nat /\ Count(reap, b) \in Nat
    BY <2>3, QueuedCounts, CountType DEF Queued, TypeOK, ReapTypes
  <2>5. PICK o, p : o = orphans' /\ p = reap'
    OBVIOUS
  <2>6. o \in Seq(BOs) /\ p \in Seq(BOs)
    BY <2>5 DEF TypeOK, ReapTypes
  <2>7. /\ r = Count(o, b) + Count(p, b)
        /\ Count(o, b) \in Nat /\ Count(p, b) \in Nat
    BY <2>3, <2>5, <2>6, QueuedCounts, CountType DEF Queued
  <2>8. refs[b] = One(alive[b]) + Cardinality(A) + q
    BY <2>1, <2>3 DEF RInv, RefsExact, One
  <2>9. refs[b] \in Int /\ refs'[b] \in Int
    BY DEF TypeOK, BoTypes
  <2>10. refs'[b] = One(alive'[b]) + Cardinality(A) + r
    BY <2>2, <2>4, <2>5, <2>7, <2>8, <2>9, SMTT(30) DEF One
  <2> QED BY <2>1, <2>3, <2>10 DEF One
<1> QED BY <1>1, <1>2 DEF RInv

(* A failed get_pages gives the reference of its context back. *)
LEMMA FailedCounts ==
    ASSUME IInv, TypeOK', RInv, NEW c \in Ctxs, FailGetPages(c),
           cbo[c] \in BOs, cpc[c] \notin Pinned,
           UNCHANGED <<alive, orphans, reap, freeing, fpc, active>>
    PROVE  RInv'
<1>1. "failed" \notin Pinned /\ NoBO \notin BOs
  BY BOAssumption DEF Pinned
<1>0. PICK v : v = NoBO
  OBVIOUS
<1>2. /\ Goto(c, "failed") /\ cbo' = [cbo EXCEPT ![c] = v]
      /\ v \in BOs \cup {NoBO}
  BY <1>0 DEF FailGetPages
<1>3. outstanding' = outstanding - One(cbo[c] # NoBO) + One(v # NoBO)
  BY <1>0, <1>1 DEF FailGetPages, One, IInv, TypeOK, CtxTypes
<1>4. active' = active - One(cpc[c] \in Pinned) + One("failed" \in Pinned)
  BY <1>1 DEF One, IInv, TypeOK, CtxTypes
<1>5. \A b \in BOs : refs'[b] = refs[b] - One(cbo[c] = b) + One(v = b)
  BY <1>0, <1>1 DEF FailGetPages, One, IInv, TypeOK, BoTypes
<1>6. TypeOK
  BY DEF IInv
<1>7. ContextMoves(c, "failed", v)
  BY <1>0, <1>2, <1>3, <1>4, <1>5, <1>6 DEF ContextMoves
<1> QED BY <1>7, CtxStepCounts DEF IInv

(* A context that keeps its BO and its pin, or its lack of one. *)
LEMMA GotoCounts ==
    ASSUME IInv, TypeOK', RInv, NEW c \in Ctxs, NEW l, Goto(c, l),
           cbo[c] \in BOs, l \notin {"none", "failed"},
           UNCHANGED <<alive, refs, cbo, outstanding, orphans, reap, freeing,
                       fpc>>,
           active' = active - One(cpc[c] \in Pinned) + One(l \in Pinned)
    PROVE  RInv'
<1>1. PICK v : v = cbo[c]
  OBVIOUS
<1>2. v \in BOs \cup {NoBO} /\ cbo' = [cbo EXCEPT ![c] = v] /\ TypeOK
  BY <1>1 DEF IInv, TypeOK, CtxTypes
<1>3. outstanding' = outstanding - One(cbo[c] # NoBO) + One(v # NoBO)
  BY <1>1 DEF One, IInv, TypeOK, CtxTypes
<1>4. \A b \in BOs : refs'[b] = refs[b] - One(cbo[c] = b) + One(v = b)
  BY <1>1 DEF One, IInv, TypeOK, BoTypes
<1>5. ContextMoves(c, l, v)
  BY <1>2, <1>3, <1>4 DEF ContextMoves
<1> QED BY <1>5, CtxStepCounts DEF IInv

(* amd_acquire *)
LEMMA AcquireCounts ==
    ASSUME IInv, TypeOK', RInv, NEW c \in Ctxs, NEW b \in BOs, Acquire(c, b)
    PROVE  RInv'
<1>1. /\ "acquired" \notin Pinned /\ "none" \notin Pinned /\ NoBO \notin BOs
      /\ cpc[c] = "none" /\ cbo[c] = NoBO
  BY BOAssumption DEF Pinned, Acquire, RInv, CtxHolds
<1>2. /\ Goto(c, "acquired") /\ cbo' = [cbo EXCEPT ![c] = b]
      /\ UNCHANGED <<alive, orphans, reap, freeing, fpc>>
  BY DEF Acquire, freeVars, reapVars
<1>3. outstanding' = outstanding - One(cbo[c] # NoBO) + One(b # NoBO)
  BY <1>1 DEF Acquire, One, IInv, TypeOK, CtxTypes
<1>4. active' = active - One(cpc[c] \in Pinned) + One("acquired" \in Pinned)
  BY <1>1 DEF Acquire, One, IInv, TypeOK, CtxTypes
<1>5. \A x \in BOs : refs'[x] = refs[x] - One(cbo[c] = x) + One(b = x)
  BY <1>1 DEF Acquire, One, IInv, TypeOK, BoTypes
<1>6. TypeOK
  BY DEF IInv
<1>7. ContextMoves(c, "acquired", b)
  BY <1>2, <1>3, <1>4, <1>5, <1>6 DEF ContextMoves
<1> QED BY <1>7, CtxStepCounts DEF IInv

(* The head of amd_get_pages *)
LEMMA GetPagesCounts ==
    ASSUME IInv, TypeOK', RInv, NEW c \in Ctxs, GetPages(c)
    PROVE  RInv'
<1>1. /\ cbo[c] \in BOs /\ cpc[c] \notin Pinned /\ active \in Int
      /\ "pin" \notin Pinned /\ "pin" \notin {"none", "failed"}
      /\ UNCHANGED <<alive, orphans, reap, freeing, fpc, active>>
  BY DEF GetPages, IInv, TypeOK, CtxTypes, HasBo, Pinned, freeVars, reapVars
<1>2. CASE FailGetPages(c)
  BY <1>1, <1>2, FailedCounts
<1>3. CASE Goto(c, "pin") /\ UNCHANGED <<refs, cbo, outstanding, tries>>
  BY <1>1, <1>3, GotoCounts DEF One
<1> QED BY <1>2, <1>3 DEF GetPages

(* The charge *)
LEMMA PinChargeCounts ==
    ASSUME IInv, TypeOK', RInv, NEW c \in Ctxs, PinCharge(c)
    PROVE  RInv'
<1>1. /\ cbo[c] \in BOs /\ cpc[c] \notin Pinned /\ active \in Int
      /\ "charged" \notin Pinned /\ "charged" \notin {"none", "failed"}
      /\ UNCHANGED <<alive, orphans, reap, freeing, fpc, active>>
  BY DEF PinCharge, IInv, TypeOK, CtxTypes, HasBo, Pinned, freeVars, reapVars
<1>2. CASE FailGetPages(c)
  BY <1>1, <1>2, FailedCounts
<1>3. CASE Goto(c, "charged") /\ UNCHANGED <<refs, cbo, outstanding>>
  BY <1>1, <1>3, GotoCounts DEF One
<1> QED BY <1>2, <1>3 DEF PinCharge, RejectPin

(* The pin keeps the device active. *)
LEMMA PinBoCounts ==
    ASSUME IInv, TypeOK', RInv, NEW c \in Ctxs, PinBo(c)
    PROVE  RInv'
<1>1. /\ cbo[c] \in BOs /\ cpc[c] \notin Pinned /\ active \in Int
      /\ "pinned" \in Pinned /\ "pinned" \notin {"none", "failed"}
      /\ active' = active + 1 /\ Goto(c, "pinned")
      /\ UNCHANGED <<alive, refs, cbo, outstanding, orphans, reap, freeing,
                     fpc>>
  BY DEF PinBo, IInv, TypeOK, CtxTypes, HasBo, Pinned, boVars, freeVars,
     reapVars
<1>2. active' = active - One(cpc[c] \in Pinned) + One("pinned" \in Pinned)
  BY <1>1 DEF One
<1> QED BY <1>1, <1>2, GotoCounts

(* A failed pin *)
LEMMA PinFailedCounts ==
    ASSUME IInv, TypeOK', RInv, NEW c \in Ctxs, PinFailed(c)
    PROVE  RInv'
<1>1. /\ cbo[c] \in BOs /\ cpc[c] \notin Pinned /\ active \in Int
      /\ "rollback" \notin Pinned /\ "rollback" \notin {"none", "failed"}
      /\ active' = active /\ Goto(c, "rollback")
      /\ UNCHANGED <<alive, refs, cbo, outstanding, orphans, reap, freeing,
                     fpc>>
  BY DEF PinFailed, IInv, TypeOK, CtxTypes, HasBo, Pinned, boVars, freeVars,
     reapVars
<1>2. active' = active - One(cpc[c] \in Pinned) + One("rollback" \in Pinned)
  BY <1>1 DEF One
<1> QED BY <1>1, <1>2, GotoCounts

(* err_accounting *)
LEMMA RollbackCounts ==
    ASSUME IInv, TypeOK', RInv, NEW c \in Ctxs, Rollback(c)
    PROVE  RInv'
<1>1. /\ cbo[c] \in BOs /\ cpc[c] \notin Pinned /\ active \in Int
      /\ "pin" \notin Pinned /\ "pin" \notin {"none", "failed"}
      /\ UNCHANGED <<alive, orphans, reap, freeing, fpc, active>>
  BY DEF Rollback, IInv, TypeOK, CtxTypes, HasBo, Pinned, freeVars, reapVars
<1>2. CASE FailGetPages(c)
  BY <1>1, <1>2, FailedCounts
<1>3. CASE Goto(c, "pin") /\ UNCHANGED <<refs, cbo, outstanding>>
  BY <1>1, <1>3, GotoCounts DEF One
<1> QED BY <1>2, <1>3 DEF Rollback

(* amd_dma_map *)
LEMMA DmaMapCounts ==
    ASSUME IInv, TypeOK', RInv, NEW c \in Ctxs, DmaMap(c)
    PROVE  RInv'
<1>1. /\ cbo[c] \in BOs /\ cpc[c] \in Pinned /\ active \in Int
      /\ "mapped" \in Pinned /\ "mapped" \notin {"none", "failed"}
      /\ active' = active /\ Goto(c, "mapped")
      /\ UNCHANGED <<alive, refs, cbo, outstanding, orphans, reap, freeing,
                     fpc>>
  BY DEF DmaMap, IInv, TypeOK, CtxTypes, HasBo, Pinned, boVars, freeVars,
     reapVars
<1>2. active' = active - One(cpc[c] \in Pinned) + One("mapped" \in Pinned)
  BY <1>1 DEF One
<1> QED BY <1>1, <1>2, GotoCounts

(* amd_dma_unmap *)
LEMMA DmaUnmapCounts ==
    ASSUME IInv, TypeOK', RInv, NEW c \in Ctxs, DmaUnmap(c)
    PROVE  RInv'
<1>1. /\ cbo[c] \in BOs /\ cpc[c] \in Pinned /\ active \in Int
      /\ "unmapped" \in Pinned /\ "unmapped" \notin {"none", "failed"}
      /\ active' = active /\ Goto(c, "unmapped")
      /\ UNCHANGED <<alive, refs, cbo, outstanding, orphans, reap, freeing,
                     fpc>>
  BY DEF DmaUnmap, IInv, TypeOK, CtxTypes, HasBo, Pinned, boVars, freeVars,
     reapVars
<1>2. active' = active - One(cpc[c] \in Pinned) + One("unmapped" \in Pinned)
  BY <1>1 DEF One
<1> QED BY <1>1, <1>2, GotoCounts

(* amd_put_pages gives the activity back, whether or not it could unpin. *)
LEMMA PutPagesCounts ==
    ASSUME IInv, TypeOK', RInv, NEW c \in Ctxs, PutPages(c)
    PROVE  RInv'
<1>1. /\ cbo[c] \in BOs /\ cpc[c] \in Pinned /\ active \in Int
      /\ "unpinned" \notin Pinned /\ "unpinned" \notin {"none", "failed"}
      /\ active' = active - 1 /\ Goto(c, "unpinned")
      /\ UNCHANGED <<alive, refs, cbo, outstanding, orphans, reap, freeing,
                     fpc>>
  BY DEF PutPages, IInv, TypeOK, CtxTypes, HasBo, Pinned, boVars, freeVars,
     reapVars
<1>2. active' = active - One(cpc[c] \in Pinned) + One("unpinned" \in Pinned)
  BY <1>1 DEF One
<1> QED BY <1>1, <1>2, GotoCounts

(* amd_release: get_pages may have given the reference back already. *)
LEMMA ReleaseCounts ==
    ASSUME IInv, TypeOK', RInv, NEW c \in Ctxs, Release(c)
    PROVE  RInv'
<1>0. PICK v : v = NoBO
  OBVIOUS
<1>1. /\ "none" \notin Pinned /\ cpc[c] \notin Pinned /\ NoBO \notin BOs
      /\ Goto(c, "none") /\ cbo' = [cbo EXCEPT ![c] = v]
      /\ v \in BOs \cup {NoBO}
      /\ UNCHANGED <<alive, orphans, reap, freeing, fpc, active>>
      /\ cbo[c] \in BOs \cup {NoBO} /\ active \in Int /\ outstanding \in Int
      /\ TypeOK
  BY <1>0, BOAssumption DEF Release, IInv, TypeOK, CtxTypes, Pinned, freeVars,
     reapVars
<1>2. outstanding' = outstanding - One(cbo[c] # NoBO) + One(v # NoBO)
  BY <1>0, <1>1 DEF Release, One
<1>3. active' = active - One(cpc[c] \in Pinned) + One("none" \in Pinned)
  BY <1>1 DEF One
<1>4. \A b \in BOs : refs'[b] = refs[b] - One(cbo[c] = b) + One(v = b)
  BY <1>0, <1>1 DEF Release, One, TypeOK, BoTypes
<1>5. ContextMoves(c, "none", v)
  BY <1>0, <1>1, <1>2, <1>3, <1>4 DEF ContextMoves
<1> QED BY <1>5, CtxStepCounts DEF IInv

(* The reject cache counts nothing. *)
LEMMA RejectExpiresCounts ==
    ASSUME IInv, TypeOK', RInv, RejectExpires
    PROVE  RInv'
BY DEF RejectExpires, RInv, CtxHolds, FreeHolds, RefsExact, Queued,
   CountersExact, boVars, freeVars, reapVars

(* The free before its last step counts nothing but an orphan entry. *)
LEMMA FreeMemoryCounts ==
    ASSUME IInv, TypeOK', RInv, NEW b \in BOs, FreeMemory(b)
    PROVE  RInv'
<1>1. CtxHolds' /\ RefsExact' /\ CountersExact'
  BY DEF FreeMemory, RInv, CtxHolds, RefsExact, Queued, CountersExact, boVars,
     ctxVars, reapVars
<1>2. FreeHolds'
  BY BOAssumption DEF FreeMemory, FreeHolds, boVars
<1> QED BY <1>1, <1>2 DEF RInv

(* The free waits for the reservation, ... *)
LEMMA FreeReserveCounts ==
    ASSUME IInv, TypeOK', RInv, FreeReserve
    PROVE  RInv'
<1>1. CtxHolds' /\ RefsExact' /\ CountersExact'
  BY DEF FreeReserve, RInv, CtxHolds, RefsExact, Queued, CountersExact,
     boVars, ctxVars, reapVars
<1>2. FreeHolds'
  BY DEF FreeReserve, RInv, FreeHolds, boVars
<1> QED BY <1>1, <1>2 DEF RInv

(* ... and for the pins. *)
LEMMA FreeWaitedCounts ==
    ASSUME IInv, TypeOK', RInv, FreeWaited
    PROVE  RInv'
<1>1. CtxHolds' /\ RefsExact' /\ CountersExact'
  BY DEF FreeWaited, RInv, CtxHolds, RefsExact, Queued, CountersExact, boVars,
     ctxVars, reapVars
<1>2. FreeHolds'
  BY DEF FreeWaited, RInv, FreeHolds, boVars
<1> QED BY <1>1, <1>2 DEF RInv

(* An orphan entry comes with its reference. *)
LEMMA OrphanQueueCounts ==
    ASSUME IInv, TypeOK', RInv, OrphanQueue
    PROVE  RInv'
<1>1. /\ freeing \in BOs /\ orphans \in Seq(BOs) /\ reap \in Seq(BOs)
      /\ refs \in [BOs -> Int] /\ TypeOK
  BY DEF OrphanQueue, IInv, HasBo, TypeOK, BoTypes, ReapTypes
<1>2. FreeHolds' /\ UNCHANGED <<cpc, cbo, outstanding, active, alive, reap>>
  BY DEF OrphanQueue, RInv, FreeHolds, ctxVars
<1>3. CASE UNCHANGED <<orphans, refs>>
  BY <1>1, <1>2, <1>3, ListStepCounts
<1>4. CASE /\ orphans' = Append(orphans, freeing)
           /\ refs' = [refs EXCEPT ![freeing] = @ + 1]
  <2>1. ASSUME NEW b \in BOs
        PROVE  refs'[b] - One(alive'[b]) - Count(orphans', b) - Count(reap', b)
                = refs[b] - One(alive[b]) - Count(orphans, b) - Count(reap, b)
    <3>1. PICK o : o = Append(orphans, freeing)
      OBVIOUS
    <3>2. Count(o, b) = Count(orphans, b) + IF freeing = b THEN 1 ELSE 0
      BY <1>1, <3>1, CountAppend
    <3>3. Count(orphans, b) \in Nat /\ Count(reap, b) \in Nat
      BY <1>1, CountType
    <3>4. orphans' = o /\ reap' = reap /\ alive' = alive
      BY <1>2, <1>4, <3>1
    <3>5. refs'[b] = refs[b] + IF freeing = b THEN 1 ELSE 0
      BY <1>1, <1>4
    <3>6. PICK d, n, k, h \in Int :
             /\ d = (IF freeing = b THEN 1 ELSE 0) /\ n = refs[b]
             /\ k = Count(orphans, b) /\ h = Count(reap, b)
      BY <1>1, <3>3
    <3>7. PICK l \in Int : l = One(alive[b])
      BY DEF One
    <3>8. (n + d) - l - (k + d) - h = n - l - k - h
      OBVIOUS
    <3>9. /\ refs'[b] = n + d /\ Count(orphans', b) = k + d
          /\ Count(reap', b) = h /\ One(alive'[b]) = l
      BY <3>2, <3>4, <3>5, <3>6, <3>7
    <3> QED BY <3>6, <3>7, <3>8, <3>9
  <2> QED BY <1>1, <1>2, <2>1, ListStepCounts
<1> QED BY <1>3, <1>4 DEF OrphanQueue

(* The handle and its reference go together. *)
LEMMA DropHandleCounts ==
    ASSUME IInv, TypeOK', RInv, DropHandle
    PROVE  RInv'
<1>1. /\ freeing \in BOs /\ orphans \in Seq(BOs) /\ reap \in Seq(BOs)
      /\ refs \in [BOs -> Int] /\ alive \in [BOs -> BOOLEAN] /\ TypeOK
  BY DEF DropHandle, IInv, HasBo, TypeOK, BoTypes, ReapTypes
<1>2. /\ FreeHolds'
      /\ UNCHANGED <<cpc, cbo, outstanding, active, orphans, reap>>
  BY DEF DropHandle, FreeHolds, ctxVars, reapVars
<1>3. alive[freeing]
  BY <1>1, BOAssumption DEF RInv, FreeHolds
<1>4. ASSUME NEW b \in BOs
      PROVE  refs'[b] - One(alive'[b]) - Count(orphans', b) - Count(reap', b)
              = refs[b] - One(alive[b]) - Count(orphans, b) - Count(reap, b)
  <2>1. Count(orphans, b) \in Nat /\ Count(reap, b) \in Nat
    BY <1>1, CountType
  <2>2. refs'[b] - One(alive'[b]) = refs[b] - One(alive[b])
    BY <1>1, <1>3 DEF DropHandle, One
  <2> QED BY <1>1, <1>2, <2>1, <2>2 DEF One
<1> QED BY <1>1, <1>2, <1>4, ListStepCounts

(* Nothing points at a BO without references. *)
LEMMA Unreferenced ==
    ASSUME IInv, RInv, NEW b \in BOs, refs[b] = 0
    PROVE  /\ ~alive[b] /\ Count(orphans, b) = 0 /\ Count(reap, b) = 0
           /\ \A c \in Ctxs : cbo[c] # b
<1>1. PICK A, q : /\ A = {d \in Ctxs : cbo[d] = b}
                  /\ q = Cardinality(Queued(b))
  OBVIOUS
<1>2. IsFiniteSet(A)
  BY <1>1, BOAssumption, FS_Subset
<1>3. Cardinality(A) \in Nat /\ (Cardinality(A) = 0 => A = {})
  BY <1>2, FS_CardinalityType, FS_EmptySet
<1>4. orphans \in Seq(BOs) /\ reap \in Seq(BOs)
  BY DEF IInv, TypeOK, ReapTypes
<1>5. /\ q = Count(orphans, b) + Count(reap, b)
      /\ Count(orphans, b) \in Nat /\ Count(reap, b) \in Nat
  <2>1. q = Count(orphans, b) + Count(reap, b)
    BY <1>1, <1>4, QueuedCounts DEF Queued
  <2> QED BY <2>1, <1>4, CountType
<1>6. refs[b] = (IF alive[b] THEN 1 ELSE 0) + Cardinality(A) + q
  BY <1>1 DEF RInv, RefsExact
<1>7. q \in Nat /\ (q = 0 => Count(orphans, b) = 0 /\ Count(reap, b) = 0)
  BY <1>5
<1>8. ~alive[b] /\ Cardinality(A) = 0 /\ q = 0
  BY <1>3, <1>6, <1>7
<1> QED BY <1>1, <1>3, <1>7, <1>8

(* A new BO has its handle. *)
LEMMA ReuseCounts ==
    ASSUME IInv, TypeOK', RInv, NEW b \in BOs, Reuse(b)
    PROVE  RInv'
<1>1. /\ orphans \in Seq(BOs) /\ reap \in Seq(BOs) /\ TypeOK
      /\ refs \in [BOs -> Int] /\ alive \in [BOs -> BOOLEAN]
  BY DEF IInv, TypeOK, BoTypes, ReapTypes
<1>2. refs[b] = 0 /\ ~alive[b]
  BY Unreferenced DEF Reuse
<1>3. UNCHANGED <<cpc, cbo, outstanding, active, orphans, reap, freeing, fpc>>
  BY DEF Reuse, ctxVars, freeVars, reapVars
<1>4. FreeHolds'
  BY <1>1, <1>3 DEF Reuse, RInv, FreeHolds, IInv, TypeOK, FreeTypes
<1>5. ASSUME NEW x \in BOs
      PROVE  refs'[x] - One(alive'[x]) - Count(orphans', x) - Count(reap', x)
              = refs[x] - One(alive[x]) - Count(orphans, x) - Count(reap, x)
  <2>1. Count(orphans, x) \in Nat /\ Count(reap, x) \in Nat
    BY <1>1, CountType
  <2>2. refs'[x] - One(alive'[x]) = refs[x] - One(alive[x])
    BY <1>1, <1>2 DEF Reuse, One
  <2> QED BY <1>1, <1>3, <2>1, <2>2 DEF One
<1> QED BY <1>1, <1>3, <1>4, <1>5, ListStepCounts

(* The lists of the reaper: an entry moves with its reference. *)
LEMMA ReapCollectCounts ==
    ASSUME IInv, TypeOK', RInv, ReapCollect
    PROVE  RInv'
<1>1. /\ orphans \in Seq(BOs) /\ TypeOK
      /\ UNCHANGED <<cpc, cbo, outstanding, active, alive, refs, freeing, fpc>>
  BY DEF ReapCollect, IInv, TypeOK, ReapTypes, boVars, ctxVars, freeVars
<1>2. PICK n \in 1 .. Len(orphans) :
         /\ reap' = SubSeq(orphans, 1, n)
         /\ orphans' = SubSeq(orphans, n + 1, Len(orphans))
  BY DEF ReapCollect
<1>3. FreeHolds'
  BY <1>1 DEF RInv, FreeHolds
<1>4. ASSUME NEW b \in BOs
      PROVE  refs'[b] - One(alive'[b]) - Count(orphans', b) - Count(reap', b)
              = refs[b] - One(alive[b]) - Count(orphans, b) - Count(reap, b)
  <2>1. PICK o, r : o = orphans' /\ r = reap'
    OBVIOUS
  <2>2. o \in Seq(BOs) /\ r \in Seq(BOs)
    BY <2>1 DEF TypeOK, ReapTypes
  <2>3. Count(orphans, b) = Count(r, b) + Count(o, b)
    BY <1>1, <1>2, <2>1, CountSplit
  <2>4. Count(reap, b) = 0
    BY EmptyCount DEF ReapCollect
  <2>5. Count(r, b) \in Nat /\ Count(o, b) \in Nat
    BY <2>2, CountType
  <2>6. refs'[b] = refs[b] /\ refs[b] \in Int /\ alive' = alive
    BY <1>1 DEF TypeOK, BoTypes
  <2> QED BY <2>1, <2>3, <2>4, <2>5, <2>6 DEF One
<1> QED BY <1>1, <1>3, <1>4, ListStepCounts

(* The stop takes the whole list. *)
LEMMA ReaperStopCounts ==
    ASSUME IInv, TypeOK', RInv, ReaperStop
    PROVE  RInv'
<1>1. /\ orphans \in Seq(BOs) /\ TypeOK
      /\ UNCHANGED <<cpc, cbo, outstanding, active, alive, refs, freeing, fpc>>
  BY DEF ReaperStop, IInv, TypeOK, ReapTypes, boVars, ctxVars, freeVars
<1>2. FreeHolds'
  BY <1>1 DEF RInv, FreeHolds
<1>3. ASSUME NEW b \in BOs
      PROVE  refs'[b] - One(alive'[b]) - Count(orphans', b) - Count(reap', b)
              = refs[b] - One(alive[b]) - Count(orphans, b) - Count(reap, b)
  <2>1. Count(reap, b) = 0 /\ Count(orphans', b) = 0 /\ reap' = orphans
    BY EmptyCount DEF ReaperStop
  <2>2. Count(orphans, b) \in Nat
    BY <1>1, CountType
  <2>3. refs'[b] = refs[b] /\ refs[b] \in Int /\ alive' = alive
    BY <1>1 DEF TypeOK, BoTypes
  <2> QED BY <2>1, <2>2, <2>3 DEF One
<1> QED BY <1>1, <1>2, <1>3, ListStepCounts

(* The head of the list goes, and its reference. *)
LEMMA HeadGoes ==
    ASSUME IInv, TypeOK', RInv, reap # <<>>, reap' = Tail(reap),
           refs' = [refs EXCEPT ![Head(reap)] = @ - 1],
           UNCHANGED <<cpc, cbo, outstanding, active, alive, freeing, fpc,
                       orphans>>
    PROVE  RInv'
<1>1. /\ orphans \in Seq(BOs) /\ reap \in Seq(BOs) /\ TypeOK
      /\ refs \in [BOs -> Int]
  BY DEF IInv, TypeOK, ReapTypes, BoTypes
<1>2. FreeHolds'
  BY DEF RInv, FreeHolds
<1>3. ASSUME NEW b \in BOs
      PROVE  refs'[b] - One(alive'[b]) - Count(orphans', b) - Count(reap', b)
              = refs[b] - One(alive[b]) - Count(orphans, b) - Count(reap, b)
  <2>1. PICK h, r : h = Head(reap) /\ r = Tail(reap)
    OBVIOUS
  <2>2. h \in BOs /\ r \in Seq(BOs)
    BY <1>1, <2>1
  <2>3. Count(reap, b) = Count(r, b) + IF h = b THEN 1 ELSE 0
    BY <1>1, <2>1, CountTail
  <2>4. Count(r, b) \in Nat /\ Count(orphans, b) \in Nat
    BY <1>1, <2>2, CountType
  <2>5. refs'[b] = refs[b] - IF h = b THEN 1 ELSE 0
    BY <1>1, <2>1, <2>2
  <2>6. orphans' = orphans /\ reap' = r /\ alive' = alive
    BY <2>1
  <2>7. refs[b] \in Int
    BY <1>1
  <2>8. /\ Count(orphans', b) = Count(orphans, b)
        /\ Count(reap', b) = Count(r, b)
        /\ One(alive'[b]) = One(alive[b]) /\ One(alive[b]) \in Int
    <3>1. Count(reap', b) = Count(r, b)
      BY <2>6, Zenon
    <3>2. Count(orphans', b) = Count(orphans, b)
      BY <2>6, Zenon
    <3>3. One(alive'[b]) = One(alive[b]) /\ One(alive[b]) \in Int
      BY <2>6 DEF One
    <3> QED BY <3>1, <3>2, <3>3
  <2>9. CASE h = b
    BY <2>3, <2>4, <2>5, <2>7, <2>8, <2>9
  <2>10. CASE h # b
    BY <2>3, <2>4, <2>5, <2>7, <2>8, <2>10
  <2> QED BY <2>9, <2>10
<1> QED BY <1>1, <1>2, <1>3, ListStepCounts

(* The reaper, ... *)
LEMMA ReapOrphanCounts ==
    ASSUME IInv, TypeOK', RInv, ReapOrphan
    PROVE  RInv'
BY HeadGoes DEF ReapOrphan, freeVars

(* ... and the drain of the stop. *)
LEMMA StopOrphanCounts ==
    ASSUME IInv, TypeOK', RInv, StopOrphan
    PROVE  RInv'
BY HeadGoes DEF StopOrphan, freeVars

-----------------------------------------------------------------------------
(* The initial state. *)
LEMMA InitCounts == Init => RInv
<1> SUFFICES ASSUME Init PROVE RInv
    OBVIOUS
<1>1. CtxHolds /\ FreeHolds
  BY DEF Init, CtxHolds, FreeHolds
<1>2. RefsExact
  <2>1. ASSUME NEW b \in BOs
        PROVE  /\ {c \in Ctxs : cbo[c] = b} = {} /\ Queued(b) = {}
               /\ refs[b] = 1 /\ alive[b]
    BY BOAssumption DEF Init, Queued
  <2> QED BY <2>1, FS_EmptySet DEF RefsExact
<1>3. CountersExact
  <2>1. /\ {c \in Ctxs : cbo[c] # NoBO} = {}
        /\ {c \in Ctxs : cpc[c] \in Pinned} = {}
    BY DEF Init, Pinned
  <2> QED BY <2>1, FS_EmptySet DEF Init, CountersExact
<1> QED BY <1>1, <1>2, <1>3 DEF RInv

(* The counts are inductive, given IInv. *)
LEMMA NextCounts == IInv /\ RInv /\ [Next]_vars => RInv'
<1> SUFFICES ASSUME IInv, RInv, [Next]_vars PROVE RInv'
    OBVIOUS
<1>0. TypeOK'
  BY NextKeeps DEF IInv
<1>1. CASE Next
  BY <1>0, <1>1, AcquireCounts, GetPagesCounts, PinChargeCounts, PinBoCounts,
     PinFailedCounts, RollbackCounts, DmaMapCounts, DmaUnmapCounts,
     PutPagesCounts, ReleaseCounts, RejectExpiresCounts, FreeMemoryCounts,
     FreeReserveCounts, FreeWaitedCounts, OrphanQueueCounts, DropHandleCounts,
     ReuseCounts, ReapCollectCounts, ReapOrphanCounts, ReaperStopCounts,
     StopOrphanCounts DEF Next, Client, FreeStep, ReapStep, PinStep
<1>2. CASE UNCHANGED vars
  BY <1>2 DEF vars, boVars, ctxVars, freeVars, reapVars, RInv, CtxHolds,
     FreeHolds, RefsExact, Queued, CountersExact
<1> QED BY <1>1, <1>2

(* A BO has exactly the references that its handle, the contexts and the     *)
(* orphan entries account for, whatever fails in get_pages, in the free and  *)
(* in the reaper: nobody is left with a released BO, and no BO leaks.        *)
THEOREM RefsCorrect == Spec => []RefsExact
<1>1. RInv => RefsExact
  BY DEF RInv
<1> QED BY <1>1, InitInv, NextKeeps, InitCounts, NextCounts, PTL DEF Spec

(* The contexts that hold a BO are those amd_rdma_context_outstanding        *)
(* counts, and the device is kept active once for each pinned context, also  *)
(* when put_pages finds nothing to unpin.                                    *)
THEOREM CountersCorrect == Spec => []CountersExact
<1>1. RInv => CountersExact
  BY DEF RInv
<1> QED BY <1>1, InitInv, NextKeeps, InitCounts, NextCounts, PTL DEF Spec

-----------------------------------------------------------------------------
(* Pins.  An unpin that a signal has interrupted is lost, and the pin stays  *)
(* without its context; the results that follow exclude that.                *)

(* The free of b has not come to drop the handle. *)
Open(b) == alive[b] /\ (freeing # b \/ fpc # "drop")

(* The reaper has not taken b off the orphan list. *)
Fresh(b) == Open(b) \/ Count(orphans, b) > 0

(* A BO is queued once, when its handle is about to go. *)
QueuedOnce ==
    \A b \in BOs : Count(orphans, b) + Count(reap, b)
                      <= IF Open(b) THEN 0 ELSE 1

(* No pin without a context, and before the reaper no context without its   *)
(* pin.                                                                     *)
PinsBounded ==
    \A b \in BOs : /\ pin_count[b] <= Cardinality(PinsOf(b))
                   /\ Fresh(b) => pin_count[b] = Cardinality(PinsOf(b))

PInv == QueuedOnce /\ PinsBounded

(* What the reaper has taken stays so. *)
StaysReaped == \A b \in BOs : Fresh(b)' => Fresh(b)

(* The pins of a BO can be counted. *)
LEMMA PinsOfFinite ==
    ASSUME NEW b
    PROVE  /\ IsFiniteSet(PinsOf(b)) /\ Cardinality(PinsOf(b)) \in Nat
           /\ Cardinality(PinsOf(b)) = 0 <=> PinsOf(b) = {}
<1>1. PinsOf(b) \in SUBSET Ctxs
  BY DEF PinsOf
<1>2. IsFiniteSet(PinsOf(b))
  BY <1>1, BOAssumption, FS_Subset
<1> QED BY <1>2, FS_CardinalityType, FS_EmptySet

(* A step that leaves the pins and the lists alone. *)
LEMMA PinsKept ==
    ASSUME PInv, \A b \in BOs : PinsOf(b)' = PinsOf(b),
           UNCHANGED <<alive, freeing, fpc, orphans, reap, pin_count>>
    PROVE  PInv' /\ StaysReaped
BY DEF PInv, QueuedOnce, PinsBounded, StaysReaped, Fresh, Open

(* A context that is not pinned before and after its step, ... *)
LEMMA UnpinnedMoves ==
    ASSUME TypeOK, NEW c \in Ctxs, NEW l, NEW v, cpc[c] \notin Pinned,
           l \notin Pinned, Goto(c, l), cbo' = [cbo EXCEPT ![c] = v]
    PROVE  \A b \in BOs : PinsOf(b)' = PinsOf(b)
BY DEF PinsOf, Goto, TypeOK, CtxTypes

(* ... and one that keeps its pin. *)
LEMMA PinnedMoves ==
    ASSUME TypeOK, NEW c \in Ctxs, NEW l, cpc[c] \in Pinned,
           l \in Pinned, Goto(c, l), cbo' = cbo
    PROVE  \A b \in BOs : PinsOf(b)' = PinsOf(b)
BY DEF PinsOf, Goto, TypeOK, CtxTypes

(* amd_acquire *)
LEMMA AcquirePins ==
    ASSUME IInv, PInv, NEW c \in Ctxs, NEW b \in BOs, Acquire(c, b)
    PROVE  PInv' /\ StaysReaped
<1>1. /\ TypeOK /\ cpc[c] \notin Pinned /\ "acquired" \notin Pinned
      /\ Goto(c, "acquired") /\ cbo' = [cbo EXCEPT ![c] = b]
      /\ UNCHANGED <<alive, freeing, fpc, orphans, reap, pin_count>>
  BY DEF IInv, Pinned, Acquire, pinVars, freeVars, reapVars
<1> QED BY <1>1, UnpinnedMoves, PinsKept

(* The three steps of get_pages that may fail. *)
LEMMA GetPagesPins ==
    ASSUME IInv, PInv, NEW c \in Ctxs,
           GetPages(c) \/ PinCharge(c) \/ Rollback(c)
    PROVE  PInv' /\ StaysReaped
<1>1. /\ TypeOK /\ cpc[c] \notin Pinned
      /\ UNCHANGED <<alive, freeing, fpc, orphans, reap, pin_count>>
  BY DEF IInv, Pinned, GetPages, PinCharge, Rollback, pinVars, freeVars,
     reapVars
<1>2. \E l \in {"failed", "pin", "charged"}, v \in BOs \cup {NoBO} :
         Goto(c, l) /\ cbo' = [cbo EXCEPT ![c] = v]
  <2>1. PICK v : v = cbo[c]
    OBVIOUS
  <2>2. v \in BOs \cup {NoBO} /\ cbo = [cbo EXCEPT ![c] = v]
    BY <1>1, <2>1 DEF TypeOK, CtxTypes
  <2> QED BY <2>2 DEF GetPages, PinCharge, Rollback, RejectPin, FailGetPages
<1>3. \A l \in {"failed", "pin", "charged"} : l \notin Pinned
  BY DEF Pinned
<1> QED BY <1>1, <1>2, <1>3, UnpinnedMoves, PinsKept

(* A failed pin *)
LEMMA PinFailedPins ==
    ASSUME IInv, PInv, NEW c \in Ctxs, PinFailed(c)
    PROVE  PInv' /\ StaysReaped
<1>1. /\ TypeOK /\ cpc[c] \notin Pinned /\ "rollback" \notin Pinned
      /\ Goto(c, "rollback") /\ cbo' = [cbo EXCEPT ![c] = cbo[c]]
      /\ UNCHANGED <<alive, freeing, fpc, orphans, reap, pin_count>>
  BY DEF IInv, Pinned, PinFailed, TypeOK, CtxTypes, boVars, pinVars, freeVars,
     reapVars
<1> QED BY <1>1, UnpinnedMoves, PinsKept

(* amd_release *)
LEMMA ReleasePins ==
    ASSUME IInv, PInv, NEW c \in Ctxs, Release(c)
    PROVE  PInv' /\ StaysReaped
<1>1. /\ TypeOK /\ cpc[c] \notin Pinned /\ "none" \notin Pinned
      /\ Goto(c, "none") /\ cbo' = [cbo EXCEPT ![c] = NoBO]
      /\ UNCHANGED <<alive, freeing, fpc, orphans, reap, pin_count>>
  BY DEF IInv, Pinned, Release, pinVars, freeVars, reapVars
<1> QED BY <1>1, UnpinnedMoves, PinsKept

(* amd_dma_map and amd_dma_unmap *)
LEMMA MapPins ==
    ASSUME IInv, PInv, NEW c \in Ctxs, DmaMap(c) \/ DmaUnmap(c)
    PROVE  PInv' /\ StaysReaped
<1>1. /\ TypeOK /\ cpc[c] \in Pinned /\ cbo' = cbo
      /\ \E l \in Pinned : Goto(c, l)
      /\ UNCHANGED <<alive, freeing, fpc, orphans, reap, pin_count>>
  BY DEF IInv, Pinned, DmaMap, DmaUnmap, boVars, pinVars, freeVars, reapVars
<1> QED BY <1>1, PinnedMoves, PinsKept

(* The reject cache *)
LEMMA RejectExpiresPins ==
    ASSUME IInv, PInv, RejectExpires
    PROVE  PInv' /\ StaysReaped
<1>1. \A b \in BOs : PinsOf(b)' = PinsOf(b)
  BY DEF PinsOf, RejectExpires
<1> QED BY <1>1, PinsKept DEF RejectExpires, boVars, pinVars, freeVars,
    reapVars

(* A pin comes or goes with its context. *)
LEMMA OnePinMoves ==
    ASSUME IInv, PInv, NEW c \in Ctxs, NEW l, Goto(c, l), cbo' = cbo,
           NEW b, b = cbo[c], b \in BOs, NEW n \in Nat,
           pin_count' = [pin_count EXCEPT ![b] = n],
           UNCHANGED <<alive, freeing, fpc, orphans, reap>>,
           \/ cpc[c] \notin Pinned /\ l \in Pinned /\ n = pin_count[b] + 1
           \/ /\ cpc[c] \in Pinned /\ l \notin Pinned
              /\ n = IF pin_count[b] = 0 THEN 0 ELSE pin_count[b] - 1
    PROVE  PInv' /\ StaysReaped
<1>1. QueuedOnce'
  BY DEF PInv, QueuedOnce, Open
<1>2. \A x \in BOs : Fresh(x)' <=> Fresh(x)
  BY DEF Fresh, Open
<1>3. \A x \in BOs \ {b} :
         PinsOf(x)' = PinsOf(x) /\ pin_count'[x] = pin_count[x]
  BY DEF PinsOf, Goto, IInv, TypeOK, CtxTypes, PinTypes
<1>4. PICK A, B : A = PinsOf(b) /\ B = PinsOf(b)'
  OBVIOUS
<1>5. /\ A \in SUBSET Ctxs /\ B \in SUBSET Ctxs
      /\ \A d \in Ctxs \ {c} : d \in A <=> d \in B
      /\ c \in A <=> cpc[c] \in Pinned
      /\ c \in B <=> l \in Pinned
  BY <1>4 DEF PinsOf, Goto, IInv, TypeOK, CtxTypes
<1>6. /\ Cardinality(A) \in Nat /\ Cardinality(B) \in Nat
      /\ Cardinality(B) = Cardinality(A) - One(c \in A) + One(c \in B)
  BY <1>5, OneMoves
<1>7. /\ pin_count[b] \in Nat /\ pin_count'[b] = n
      /\ pin_count[b] <= Cardinality(A)
      /\ Fresh(b) => pin_count[b] = Cardinality(A)
  BY <1>4 DEF PInv, PinsBounded, IInv, TypeOK, PinTypes
<1>8. c \in A => Cardinality(A) > 0
  <2>1. IsFiniteSet(A)
    BY <1>5, BOAssumption, FS_Subset
  <2> QED BY <2>1, <1>6, FS_EmptySet
<1>9. n <= Cardinality(B) /\ (Fresh(b) => n = Cardinality(B))
  BY <1>5, <1>6, <1>7, <1>8 DEF One
<1>10. ASSUME NEW x \in BOs
       PROVE  /\ pin_count'[x] <= Cardinality(PinsOf(x)')
              /\ Fresh(x)' => pin_count'[x] = Cardinality(PinsOf(x)')
  <2>1. CASE x = b
    BY <2>1, <1>2, <1>4, <1>7, <1>9
  <2>2. CASE x # b
    BY <2>2, <1>2, <1>3 DEF PInv, PinsBounded
  <2> QED BY <2>1, <2>2
<1>11. PinsBounded'
  BY <1>10 DEF PinsBounded
<1> QED BY <1>1, <1>2, <1>11 DEF PInv, StaysReaped

(* The pin *)
LEMMA PinBoPins ==
    ASSUME IInv, PInv, NEW c \in Ctxs, PinBo(c)
    PROVE  PInv' /\ StaysReaped
<1>1. PICK b, n : b = cbo[c] /\ n = pin_count[b] + 1
  OBVIOUS
<1>2. b \in BOs /\ cpc[c] \notin Pinned /\ n \in Nat
  BY <1>1 DEF IInv, HasBo, PinBo, Pinned, TypeOK, PinTypes
<1>3. /\ Goto(c, "pinned") /\ cbo' = cbo
      /\ pin_count' = [pin_count EXCEPT ![b] = n]
      /\ UNCHANGED <<alive, freeing, fpc, orphans, reap>>
      /\ "pinned" \in Pinned
  BY <1>1 DEF PinBo, Pinned, boVars, freeVars, reapVars
<1> QED BY <1>1, <1>2, <1>3, OnePinMoves

(* amd_put_pages, which finds no pin only when the reaper has been there *)
LEMMA PutPagesPins ==
    ASSUME IInv, PInv, "put" \notin Signals, NEW c \in Ctxs, PutPages(c)
    PROVE  PInv' /\ StaysReaped
<1>1. PICK b, n : /\ b = cbo[c]
                  /\ n = IF pin_count[b] = 0 THEN 0 ELSE pin_count[b] - 1
  OBVIOUS
<1>2. /\ b \in BOs /\ cpc[c] \in Pinned /\ n \in Nat
      /\ pin_count \in [BOs -> Nat]
  BY <1>1 DEF IInv, HasBo, PutPages, Pinned, TypeOK, PinTypes
<1>3. /\ Goto(c, "unpinned") /\ cbo' = cbo
      /\ UNCHANGED <<alive, freeing, fpc, orphans, reap>>
      /\ "unpinned" \notin Pinned
  BY DEF PutPages, Pinned, boVars, freeVars, reapVars
<1>4. pin_count' = [pin_count EXCEPT ![b] = n]
  <2>1. CASE pin_count[b] > 0 /\ UnpinBo(b)
    <3>1. pin_count' = [pin_count EXCEPT ![b] = pin_count[b] - 1]
      BY <2>1 DEF UnpinBo
    <3>2. n = pin_count[b] - 1
      BY <2>1, <1>1, <1>2
    <3> QED BY <3>1, <3>2
  <2>2. CASE pin_count[b] = 0 /\ UNCHANGED pinVars
    BY <2>2, <1>1, <1>2 DEF pinVars
  <2> QED BY <1>1, <2>1, <2>2 DEF PutPages, Interrupted
<1> QED BY <1>1, <1>2, <1>3, <1>4, OnePinMoves

(* A step of the free or of the reaper: it queues nothing, makes no BO      *)
(* fresh, and unpins at most a BO that is no longer fresh.                  *)
LEMMA ListStepPins ==
    ASSUME TypeOK, TypeOK', PInv, UNCHANGED <<cbo, cpc>>,
           \A b \in BOs :
              /\ Open(b)' => Open(b)
              /\ Count(orphans', b) + Count(reap', b)
                    <= Count(orphans, b) + Count(reap, b)
              /\ Count(orphans', b) > 0 => Count(orphans, b) > 0
              /\ \/ pin_count'[b] = pin_count[b]
                 \/ pin_count'[b] = 0 /\ ~Fresh(b)
    PROVE  PInv' /\ StaysReaped
<1>1. PICK o, r : o = orphans' /\ r = reap'
  OBVIOUS
<1>2. \A b \in BOs : /\ Count(orphans, b) \in Nat /\ Count(reap, b) \in Nat
                     /\ Count(o, b) \in Nat /\ Count(r, b) \in Nat
  BY <1>1, CountType DEF TypeOK, ReapTypes
<1>3. QueuedOnce'
  <2> SUFFICES ASSUME NEW b \in BOs
               PROVE  Count(o, b) + Count(r, b)
                         <= IF Open(b)' THEN 0 ELSE 1
    BY <1>1 DEF QueuedOnce
  <2> QED BY <1>1, <1>2 DEF PInv, QueuedOnce
<1>4. \A b \in BOs : Fresh(b)' => Fresh(b)
  BY DEF Fresh
<1>5. PinsBounded'
  <2> SUFFICES ASSUME NEW b \in BOs
               PROVE  /\ pin_count'[b] <= Cardinality(PinsOf(b)')
                      /\ Fresh(b)' => pin_count'[b] = Cardinality(PinsOf(b)')
    BY DEF PinsBounded
  <2>1. PinsOf(b)' = PinsOf(b)
    BY DEF PinsOf
  <2> QED BY <2>1, <1>4, PinsOfFinite DEF PInv, PinsBounded
<1> QED BY <1>3, <1>4, <1>5 DEF PInv, StaysReaped

(* The free closes a BO. *)
LEMMA FreePins ==
    ASSUME IInv, TypeOK', PInv,
           \/ \E b \in BOs : FreeMemory(b)
           \/ FreeReserve \/ FreeWaited \/ DropHandle
    PROVE  PInv' /\ StaysReaped
<1>1. /\ UNCHANGED <<cbo, cpc, pin_count, orphans, reap>> /\ TypeOK
  BY DEF FreeMemory, FreeReserve, FreeWaited, DropHandle, pinVars, ctxVars,
     reapVars, IInv
<1>2. \A b \in BOs : Open(b)' => Open(b)
  <2>1. CASE \E b \in BOs : FreeMemory(b)
    BY <2>1, BOAssumption DEF FreeMemory, Open, boVars
  <2>2. CASE FreeReserve \/ FreeWaited
    BY <2>2 DEF FreeReserve, FreeWaited, Open, boVars
  <2>3. CASE DropHandle
    BY <2>3 DEF DropHandle, Open, IInv, TypeOK, BoTypes
  <2> QED BY <2>1, <2>2, <2>3
<1>3. \A b \in BOs : Count(orphans, b) \in Nat /\ Count(reap, b) \in Nat
  BY <1>1, CountType DEF TypeOK, ReapTypes
<1>4. \A b \in BOs : Count(orphans', b) + Count(reap', b)
                        <= Count(orphans, b) + Count(reap, b)
  BY <1>1, <1>3
<1> QED BY <1>1, <1>2, <1>4, ListStepPins

(* The BO is queued when it is closed. *)
LEMMA OrphanQueuePins ==
    ASSUME IInv, RInv, TypeOK', PInv, OrphanQueue
    PROVE  PInv' /\ StaysReaped
<1>1. /\ freeing \in BOs /\ alive[freeing] /\ fpc = "queue" /\ fpc' = "drop"
      /\ UNCHANGED <<cbo, cpc, pin_count, alive, freeing, reap>> /\ TypeOK
  BY BOAssumption DEF OrphanQueue, IInv, HasBo, RInv, FreeHolds, pinVars,
     ctxVars
<1>2. /\ \A b \in BOs : Open(b)' <=> Open(b) /\ b # freeing
      /\ Open(freeing)
  BY <1>1 DEF Open
<1>3. orphans \in Seq(BOs) /\ reap \in Seq(BOs)
  BY <1>1 DEF TypeOK, ReapTypes
<1>4. \A b \in BOs : Count(orphans, b) \in Nat /\ Count(reap, b) \in Nat
  BY <1>3, CountType
<1>5. \A b \in BOs : PinsOf(b)' = PinsOf(b)
  BY <1>1 DEF PinsOf
<1>6. CASE UNCHANGED orphans
  <2>1. \A b \in BOs : Count(orphans', b) + Count(reap', b)
                          <= Count(orphans, b) + Count(reap, b)
    BY <1>1, <1>4, <1>6
  <2> QED BY <1>1, <1>2, <1>6, <2>1, ListStepPins
<1>7. CASE orphans' = Append(orphans, freeing)
  <2>1. PICK o : o = orphans'
    OBVIOUS
  <2>2. \A b \in BOs :
           Count(o, b) = Count(orphans, b) + IF freeing = b THEN 1 ELSE 0
    <3> SUFFICES ASSUME NEW b \in BOs
                 PROVE  Count(o, b) = Count(orphans, b)
                                        + IF freeing = b THEN 1 ELSE 0
      OBVIOUS
    <3> QED BY <1>1, <1>3, <1>7, <2>1, CountAppend
  <2>3. ASSUME NEW b \in BOs
        PROVE  Count(o, b) + Count(reap, b) <= IF Open(b)' THEN 0 ELSE 1
    <3>1. Count(orphans, b) + Count(reap, b) <= IF Open(b) THEN 0 ELSE 1
      BY DEF PInv, QueuedOnce
    <3>2. CASE b = freeing
      BY <3>1, <3>2, <1>2, <1>4, <2>2
    <3>3. CASE b # freeing
      BY <3>1, <3>3, <1>2, <1>4, <2>2
    <3> QED BY <3>2, <3>3
  <2>4. QueuedOnce'
    BY <1>1, <2>1, <2>3 DEF QueuedOnce
  <2>5. \A b \in BOs : Fresh(b)' => Fresh(b)
    BY <1>2, <1>4, <2>1, <2>2 DEF Fresh
  <2>6. PinsBounded'
    BY <1>1, <1>5, <2>5 DEF PInv, PinsBounded
  <2> QED BY <2>4, <2>5, <2>6 DEF PInv, StaysReaped
<1> QED BY <1>6, <1>7 DEF OrphanQueue

(* A new BO is unpinned, and nobody points at it. *)
LEMMA ReusePins ==
    ASSUME IInv, RInv, PInv, NEW b \in BOs, Reuse(b)
    PROVE  PInv'
<1>1. /\ Count(orphans, b) = 0 /\ Count(reap, b) = 0
      /\ \A c \in Ctxs : cbo[c] # b
  BY Unreferenced DEF Reuse
<1>2. /\ UNCHANGED <<cbo, cpc, freeing, fpc, orphans, reap>>
      /\ pin_count' = [pin_count EXCEPT ![b] = 0]
      /\ alive' = [alive EXCEPT ![b] = TRUE]
      /\ pin_count \in [BOs -> Nat] /\ alive \in [BOs -> BOOLEAN]
  BY DEF Reuse, ctxVars, freeVars, reapVars, IInv, TypeOK, PinTypes, BoTypes
<1>3. \A x \in BOs \ {b} : /\ Open(x)' <=> Open(x)
                           /\ pin_count'[x] = pin_count[x]
  BY <1>2 DEF Open
<1>4. QueuedOnce'
  BY <1>1, <1>2, <1>3 DEF QueuedOnce, PInv
<1>5. \A x \in BOs : PinsOf(x)' = PinsOf(x)
  BY <1>2 DEF PinsOf
<1>6. PinsOf(b) = {} /\ pin_count'[b] = 0
  BY <1>1, <1>2 DEF PinsOf
<1>7. \A x \in BOs \ {b} : Fresh(x)' => Fresh(x)
  BY <1>2, <1>3 DEF Fresh
<1>8. PinsBounded'
  <2> SUFFICES ASSUME NEW x \in BOs
               PROVE  /\ pin_count'[x] <= Cardinality(PinsOf(x))
                      /\ Fresh(x)' => pin_count'[x] = Cardinality(PinsOf(x))
    BY <1>5 DEF PinsBounded
  <2>1. CASE x = b
    BY <2>1, <1>6, FS_EmptySet
  <2>2. CASE x # b
    BY <2>2, <1>3, <1>7 DEF PInv, PinsBounded
  <2> QED BY <2>1, <2>2
<1> QED BY <1>4, <1>8 DEF PInv

(* The reaper takes entries off the list. *)
LEMMA CollectPins ==
    ASSUME IInv, TypeOK', PInv, ReapCollect \/ ReaperStop
    PROVE  PInv' /\ StaysReaped
<1>1. /\ UNCHANGED <<cbo, cpc, pin_count, alive, freeing, fpc>> /\ TypeOK
      /\ reap = <<>>
  BY DEF ReapCollect, ReaperStop, boVars, pinVars, ctxVars, freeVars, IInv
<1>2. PICK o, r : o = orphans' /\ r = reap'
  OBVIOUS
<1>3. orphans \in Seq(BOs) /\ o \in Seq(BOs) /\ r \in Seq(BOs)
  BY <1>1, <1>2 DEF TypeOK, ReapTypes
<1>4. ASSUME NEW b \in BOs
      PROVE  /\ Count(orphans, b) = Count(r, b) + Count(o, b)
             /\ Count(reap, b) = 0
             /\ Count(r, b) \in Nat
             /\ Count(o, b) \in Nat
  <2>1. Count(r, b) \in Nat /\ Count(o, b) \in Nat
    BY <1>3, CountType
  <2>2. CASE ReapCollect
    <3>1. PICK n \in 1 .. Len(orphans) :
             /\ r = SubSeq(orphans, 1, n)
             /\ o = SubSeq(orphans, n + 1, Len(orphans))
      BY <1>2, <2>2 DEF ReapCollect
    <3> QED BY <3>1, <1>1, <1>3, <2>1, CountSplit, EmptyCount
  <2>3. CASE ReaperStop
    <3>1. r = orphans /\ o = <<>>
      BY <1>2, <2>3 DEF ReaperStop
    <3> QED BY <3>1, <1>1, <2>1, EmptyCount
  <2> QED BY <2>2, <2>3
<1>5. \A b \in BOs : /\ Count(o, b) + Count(r, b)
                          <= Count(orphans, b) + Count(reap, b)
                     /\ Count(o, b) > 0 => Count(orphans, b) > 0
  BY <1>4
<1>6. \A b \in BOs : Open(b)' => Open(b)
  BY <1>1 DEF Open
<1> QED BY <1>1, <1>2, <1>5, <1>6, ListStepPins

(* An entry that the reaper works on has left the orphan list. *)
LEMMA HeadReaped ==
    ASSUME IInv, PInv, reap # <<>>
    PROVE  ~Fresh(Head(reap))
<1>1. PICK h, r : h = Head(reap) /\ r = Tail(reap)
  OBVIOUS
<1>2. reap \in Seq(BOs) /\ orphans \in Seq(BOs)
  BY DEF IInv, TypeOK, ReapTypes
<1>3. h \in BOs /\ r \in Seq(BOs)
  BY <1>1, <1>2
<1>4. /\ Count(reap, h) = Count(r, h) + 1
      /\ Count(r, h) \in Nat /\ Count(orphans, h) \in Nat
  BY <1>1, <1>2, <1>3, CountTail, CountType
<1>5. Count(orphans, h) + Count(reap, h) <= IF Open(h) THEN 0 ELSE 1
  BY <1>3 DEF PInv, QueuedOnce
<1>6. ~Open(h) /\ ~(Count(orphans, h) > 0)
  BY <1>4, <1>5
<1> QED BY <1>1, <1>6 DEF Fresh

(* The reaper unpins only what it has taken. *)
LEMMA OrphanPins ==
    ASSUME IInv, TypeOK', PInv, ReapOrphan \/ StopOrphan
    PROVE  PInv' /\ StaysReaped
<1>1. /\ UNCHANGED <<cbo, cpc, alive, freeing, fpc, orphans>> /\ TypeOK
      /\ reap # <<>> /\ orphans \in Seq(BOs) /\ reap \in Seq(BOs)
      /\ pin_count \in [BOs -> Nat]
  BY DEF ReapOrphan, StopOrphan, freeVars, IInv, TypeOK, ReapTypes, PinTypes
<1>2. PICK h, r : h = Head(reap) /\ r = Tail(reap)
  OBVIOUS
<1>3. h \in BOs /\ r \in Seq(BOs) /\ reap' = r
  BY <1>1, <1>2 DEF ReapOrphan, StopOrphan
<1>4. ASSUME NEW b \in BOs
      PROVE  /\ Count(reap, b) = Count(r, b) + IF h = b THEN 1 ELSE 0
             /\ Count(r, b) \in Nat /\ Count(orphans, b) \in Nat
  BY <1>1, <1>2, <1>3, CountTail, CountType
<1>5. \/ pin_count' = [pin_count EXCEPT ![h] = 0]
      \/ pin_count' = pin_count
  BY <1>2 DEF ReapOrphan, StopOrphan, ForceUnpin
<1>6. ~Fresh(h)
  BY <1>1, <1>2, HeadReaped
<1>7. \A b \in BOs : /\ Open(b)' => Open(b)
                     /\ \/ pin_count'[b] = pin_count[b]
                        \/ pin_count'[b] = 0 /\ ~Fresh(b)
  BY <1>1, <1>3, <1>5, <1>6 DEF Open
<1>8. \A b \in BOs : Count(orphans', b) + Count(r, b)
                        <= Count(orphans, b) + Count(reap, b)
  <2> SUFFICES ASSUME NEW b \in BOs
               PROVE  Count(orphans, b) + Count(r, b)
                         <= Count(orphans, b) + Count(reap, b)
    BY <1>1
  <2>1. /\ Count(reap, b) = Count(r, b) + IF h = b THEN 1 ELSE 0
        /\ Count(r, b) \in Nat /\ Count(orphans, b) \in Nat
    BY <1>4
  <2> QED BY <2>1
<1> QED BY <1>1, <1>3, <1>7, <1>8, ListStepPins

-----------------------------------------------------------------------------
(* The initial state. *)
LEMMA InitPins == Init => PInv
<1> SUFFICES ASSUME Init PROVE PInv
    OBVIOUS
<1>1. QueuedOnce
  BY EmptyCount DEF Init, QueuedOnce
<1>2. \A b \in BOs : PinsOf(b) = {} /\ pin_count[b] = 0
  BY DEF Init, PinsOf, Pinned
<1>3. PinsBounded
  BY <1>2, FS_EmptySet DEF PinsBounded
<1> QED BY <1>1, <1>3 DEF PInv

(* Pins stay with their contexts; only a new BO is fresh again. *)
LEMMA NextPins ==
    ASSUME "put" \notin Signals
    PROVE  IInv /\ RInv /\ PInv /\ [Next]_vars
              => PInv' /\ (StaysReaped \/ \E b \in BOs : Reuse(b))
<1> SUFFICES ASSUME IInv, RInv, PInv, [Next]_vars
             PROVE  PInv' /\ (StaysReaped \/ \E b \in BOs : Reuse(b))
    OBVIOUS
<1>0. TypeOK'
  BY NextKeeps DEF IInv
<1>1. CASE Next
  BY <1>0, <1>1, AcquirePins, GetPagesPins, PinBoPins, PinFailedPins, MapPins,
     PutPagesPins, ReleasePins, RejectExpiresPins, FreePins, OrphanQueuePins,
     ReusePins, CollectPins, OrphanPins DEF Next, Client, FreeStep, ReapStep,
     PinStep
<1>2. CASE UNCHANGED vars
  <2>1. \A b \in BOs : PinsOf(b)' = PinsOf(b)
    BY <1>2 DEF PinsOf, vars, ctxVars
  <2> QED BY <1>2, <2>1, PinsKept DEF vars, boVars, pinVars, freeVars,
      reapVars
<1> QED BY <1>1, <1>2

(* Nothing refers to a released BO, so nothing pins it. *)
LEMMA ReleasedAre == IInv /\ RInv /\ PInv => ReleasedUnpinned
<1> SUFFICES ASSUME IInv, RInv, PInv, NEW b \in BOs, refs[b] = 0
             PROVE  pin_count[b] = 0
  BY DEF ReleasedUnpinned
<1>1. PinsOf(b) = {}
  BY Unreferenced DEF PinsOf
<1>2. pin_count[b] \in Nat /\ pin_count[b] <= Cardinality(PinsOf(b))
  BY DEF PInv, PinsBounded, IInv, TypeOK, PinTypes
<1>3. Cardinality(PinsOf(b)) = 0
  BY <1>1, FS_EmptySet
<1> QED BY <1>2, <1>3

(* A BO without references is not pinned: the warning at the head of         *)
(* ttm_bo_release is never met, although the reaper and put_pages race for   *)
(* the pins of an orphan.                                                    *)
THEOREM ReleasedCorrect ==
    ASSUME "put" \notin Signals
    PROVE  Spec => []ReleasedUnpinned
<1>1. IInv /\ RInv /\ PInv /\ [Next]_vars => PInv'
  BY NextPins
<1> QED BY <1>1, ReleasedAre, InitInv, NextKeeps, InitCounts, NextCounts,
    InitPins, PTL DEF Spec

(* Until the reaper takes a BO off the orphan list it has as many pins as    *)
(* contexts between get_pages and put_pages.                                 *)
THEOREM PinsCorrect ==
    ASSUME "put" \notin Signals
    PROVE  Spec => []PinsMatchContexts
<1>1. IInv /\ RInv /\ PInv => PinsMatchContexts
  <2> SUFFICES ASSUME IInv, RInv, PInv, NEW b \in BOs, Unreaped(b)
               PROVE  pin_count[b] = Cardinality(PinsOf(b))
    BY DEF PinsMatchContexts
  <2>1. Count(orphans, b) \in Nat /\ (Count(orphans, b) = 0
           <=> ~\E i \in 1 .. Len(orphans) : orphans[i] = b)
    BY CountType DEF IInv, TypeOK, ReapTypes
  <2>2. Fresh(b)
    BY <2>1 DEF Unreaped, Fresh, Open
  <2> QED BY <2>2 DEF PInv, PinsBounded
<1>2. IInv /\ RInv /\ PInv /\ [Next]_vars => PInv'
  BY NextPins
<1> QED BY <1>1, <1>2, InitInv, NextKeeps, InitCounts, NextCounts, InitPins,
    PTL DEF Spec

-----------------------------------------------------------------------------
(* The quota counter. *)

(* Only a VRAM BO under a limit is charged, by a pin under way that a       *)
(* context has entered.                                                     *)
InFlightAgrees ==
    /\ \A b \in BOs : charged[b] => Limit > 0 /\ b \in VramBOs
    /\ \A c \in Ctxs : accounted[c] =>
          cpc[c] \in {"charged", "rollback"} /\ Limit > 0 /\ cbo[c] \in VramBOs

QInv == started /\ InFlightAgrees /\ QuotaExact

(* The two parts of the counter. *)
ChargedSum == Total({b \in BOs : charged[b]})
FlightSum == SumFunction([c \in InFlight |-> Size[cbo[c]]])

(* A drop of what has been charged is not clamped. *)
LEMMA DropExact ==
    ASSUME Limit > 0, NEW n \in Nat \ {0}, rdma_pinned \in Nat,
           n <= rdma_pinned, QuotaDrop(n)
    PROVE  rdma_pinned' = rdma_pinned - n /\ clamped' = clamped
BY PinParamAssumption DEF QuotaDrop

(* The charge of one BO changes. *)
LEMMA ChargedMoves ==
    ASSUME charged \in [BOs -> BOOLEAN], NEW b \in BOs, NEW v \in BOOLEAN,
           charged' = [charged EXCEPT ![b] = v]
    PROVE  /\ ChargedSum \in Nat /\ (charged[b] => Size[b] <= ChargedSum)
           /\ ChargedSum' = ChargedSum - (IF charged[b] THEN Size[b] ELSE 0)
                                       + (IF v THEN Size[b] ELSE 0)
<1>1. PICK A, B : A = {x \in BOs : charged[x]} /\ B = {x \in BOs : charged'[x]}
  OBVIOUS
<1>2. DifferAt(b, Size, A, Size, B)
  BY <1>1, BOAssumption, FS_Subset DEF DifferAt
<1>3. (b \in A <=> charged[b]) /\ (b \in B <=> v)
  BY <1>1
<1>4. /\ SumFunctionOnSet(Size, A) \in Nat
      /\ b \in A => Size[b] <= SumFunctionOnSet(Size, A)
      /\ SumFunctionOnSet(Size, B) = SumFunctionOnSet(Size, A)
            - (IF b \in A THEN Size[b] ELSE 0)
            + (IF b \in B THEN Size[b] ELSE 0)
  BY <1>2, SumMoves
<1> QED BY <1>1, <1>3, <1>4 DEF ChargedSum, Total

(* No charge changes. *)
LEMMA ChargedKept ==
    ASSUME charged \in [BOs -> BOOLEAN]
    PROVE  /\ ChargedSum \in Nat
           /\ charged' = charged => ChargedSum' = ChargedSum
<1>1. PICK A : A = {x \in BOs : charged[x]}
  OBVIOUS
<1>2. IsFiniteSet(A) /\ \A x \in A : Size[x] \in Nat
  BY <1>1, BOAssumption, FS_Subset
<1>3. SumFunctionOnSet(Size, A) \in Nat
  BY <1>2, SumNat
<1> QED BY <1>1, <1>3 DEF ChargedSum, Total

(* A context charges, or its charge is settled. *)
LEMMA FlightMoves ==
    ASSUME TypeOK, InFlightAgrees, NEW c \in Ctxs, NEW v \in BOOLEAN,
           accounted' = [accounted EXCEPT ![c] = v],
           v => cbo'[c] \in BOs,
           \A d \in Ctxs \ {c} : accounted[d] => cbo'[d] = cbo[d]
    PROVE  /\ FlightSum \in Nat /\ (accounted[c] => Size[cbo[c]] <= FlightSum)
           /\ FlightSum' = FlightSum
                 - (IF accounted[c] THEN Size[cbo[c]] ELSE 0)
                 + (IF v THEN Size[cbo'[c]] ELSE 0)
<1>1. PICK A, B : A = InFlight /\ B = InFlight'
  OBVIOUS
<1>2. PICK F, G : /\ F = [d \in A |-> Size[cbo[d]]]
                  /\ G = [d \in B |-> Size[cbo'[d]]]
  OBVIOUS
<1>3. /\ A \in SUBSET Ctxs /\ B \in SUBSET Ctxs
      /\ \A d \in Ctxs \ {c} : d \in A <=> d \in B
      /\ c \in A <=> accounted[c]
      /\ c \in B <=> v
      /\ \A d \in A : accounted[d]
  BY <1>1 DEF InFlight, TypeOK, CallTypes
<1>4. /\ IsFiniteSet(Ctxs) /\ VramBOs \subseteq BOs
      /\ \A x \in BOs : Size[x] \in Nat
  BY BOAssumption
<1>5. \A d \in A : cbo[d] \in BOs
  BY <1>3, <1>4 DEF InFlightAgrees
<1>6. /\ \A d \in A : F[d] \in Nat
      /\ \A d \in A \ {c} : F[d] = G[d]
      /\ \A d \in B : G[d] \in Nat
  <2>1. \A d \in A : F[d] = Size[cbo[d]]
    BY <1>2
  <2>2. \A d \in B : G[d] = Size[cbo'[d]]
    BY <1>2
  <2>3. \A d \in B : cbo'[d] \in BOs
    BY <1>3, <1>5
  <2> QED BY <2>1, <2>2, <2>3, <1>3, <1>4, <1>5
<1>7. /\ SumFunctionOnSet(F, A) \in Nat
      /\ c \in A => F[c] <= SumFunctionOnSet(F, A)
      /\ SumFunctionOnSet(G, B) = SumFunctionOnSet(F, A)
            - (IF c \in A THEN F[c] ELSE 0)
            + (IF c \in B THEN G[c] ELSE 0)
  <2>1. DifferAt(c, F, A, G, B)
    BY <1>3, <1>4, <1>6, FS_Subset DEF DifferAt
  <2> QED BY <2>1, SumMoves
<1>8. /\ FlightSum = SumFunctionOnSet(F, A)
      /\ FlightSum' = SumFunctionOnSet(G, B)
  BY <1>1, <1>2 DEF FlightSum, SumFunction
<1>9. (c \in A => F[c] = Size[cbo[c]]) /\ (c \in B => G[c] = Size[cbo'[c]])
  BY <1>2
<1> QED BY <1>3, <1>7, <1>8, <1>9

(* No pin is under way, or it stays so. *)
LEMMA FlightKept ==
    ASSUME TypeOK, InFlightAgrees
    PROVE  /\ FlightSum \in Nat
           /\ (/\ accounted' = accounted
               /\ \A d \in Ctxs : accounted[d] => cbo'[d] = cbo[d])
                 => FlightSum' = FlightSum
<1>1. PICK A : A = InFlight
  OBVIOUS
<1>2. PICK F : F = [d \in A |-> Size[cbo[d]]]
  OBVIOUS
<1>3. IsFiniteSet(A) /\ A \in SUBSET Ctxs /\ \A d \in A : accounted[d]
  BY <1>1, BOAssumption, FS_Subset DEF InFlight
<1>4. \A d \in A : F[d] \in Nat
  <2>1. \A d \in A : F[d] = Size[cbo[d]]
    BY <1>2
  <2>2. \A d \in A : cbo[d] \in BOs
    BY <1>3, BOAssumption DEF InFlightAgrees
  <2> QED BY <2>1, <2>2, BOAssumption
<1>5. FlightSum = SumFunctionOnSet(F, A)
  BY <1>1, <1>2 DEF FlightSum, SumFunction
<1>6. FlightSum \in Nat
  BY <1>3, <1>4, <1>5, SumNat
<1>7. ASSUME accounted' = accounted,
             \A d \in Ctxs : accounted[d] => cbo'[d] = cbo[d]
      PROVE  FlightSum' = FlightSum
  <2>1. InFlight' = A
    BY <1>1, <1>7 DEF InFlight
  <2>2. [d \in A |-> Size[cbo'[d]]] = F
    BY <1>2, <1>3, <1>7
  <2> QED BY <1>5, <2>1, <2>2 DEF FlightSum, SumFunction
<1> QED BY <1>6, <1>7

(* The counter in its two parts. *)
LEMMA QuotaIs ==
    QuotaExact <=> rdma_pinned = ChargedSum + FlightSum /\ ~clamped
BY DEF QuotaExact, ChargedSum, FlightSum

(* A step that leaves the charges alone. *)
LEMMA QuotaKept ==
    ASSUME TypeOK, QInv,
           UNCHANGED <<started, charged, accounted, rdma_pinned, clamped>>,
           \A d \in Ctxs : accounted[d] =>
              cbo'[d] = cbo[d] /\ cpc'[d] \in {"charged", "rollback"}
    PROVE  QInv'
<1>1. FlightSum' = FlightSum
  BY FlightKept DEF QInv
<1>2. ChargedSum' = ChargedSum
  BY ChargedKept DEF TypeOK, PinTypes
<1>3. QuotaExact'
  BY <1>1, <1>2, QuotaIs DEF QInv, QuotaExact, ChargedSum, FlightSum
<1>4. InFlightAgrees'
  BY DEF QInv, InFlightAgrees
<1> QED BY <1>3, <1>4 DEF QInv

(* The steps of a context before the charge and after the pin. *)
LEMMA CtxQuota ==
    ASSUME IInv, QInv, NEW c \in Ctxs,
           \/ \E b \in BOs : Acquire(c, b)
           \/ GetPages(c) \/ DmaMap(c) \/ DmaUnmap(c) \/ Release(c)
           \/ PinFailed(c)
    PROVE  QInv'
<1>1. /\ TypeOK
      /\ UNCHANGED <<started, charged, accounted, rdma_pinned, clamped>>
      /\ \A d \in Ctxs \ {c} : cbo'[d] = cbo[d] /\ cpc'[d] = cpc[d]
  BY DEF IInv, TypeOK, CtxTypes, Acquire, GetPages, DmaMap, DmaUnmap, Release,
     PinFailed, FailGetPages, Goto, pinVars, sumVars, callVars, reapVars
<1>2. accounted[c] => cbo'[c] = cbo[c] /\ cpc'[c] \in {"charged", "rollback"}
  <2>1. CASE PinFailed(c)
    BY <2>1 DEF PinFailed, Goto, IInv, TypeOK, CtxTypes
  <2>2. CASE ~PinFailed(c)
    BY <2>2 DEF QInv, InFlightAgrees, Acquire, GetPages, DmaMap, DmaUnmap,
       Release
  <2> QED BY <2>1, <2>2
<1>3. \A d \in Ctxs : accounted[d] =>
         cbo'[d] = cbo[d] /\ cpc'[d] \in {"charged", "rollback"}
  BY <1>1, <1>2 DEF QInv, InFlightAgrees
<1> QED BY <1>1, <1>3, QuotaKept

(* The steps that touch neither a charge nor a context. *)
LEMMA OtherQuota ==
    ASSUME IInv, QInv,
           \/ RejectExpires \/ FreeStep \/ ReapCollect
           \/ \E b \in BOs : FreeMemory(b)
    PROVE  QInv'
<1>1. /\ TypeOK /\ UNCHANGED <<started, charged, accounted, rdma_pinned,
                               clamped, cbo, cpc>>
  BY DEF IInv, RejectExpires, FreeStep, FreeReserve, FreeWaited, OrphanQueue,
     DropHandle, ReapCollect, FreeMemory, pinVars, sumVars, callVars, ctxVars,
     reapVars
<1>2. \A d \in Ctxs : accounted[d] =>
         cbo'[d] = cbo[d] /\ cpc'[d] \in {"charged", "rollback"}
  BY <1>1 DEF QInv, InFlightAgrees
<1> QED BY <1>1, <1>2, QuotaKept

(* The charge of a pin that sets out. *)
LEMMA PinChargeQuota ==
    ASSUME IInv, QInv, NEW c \in Ctxs, PinCharge(c)
    PROVE  QInv'
<1>1. PICK b : b = cbo[c]
  OBVIOUS
<1>2. /\ TypeOK /\ b \in BOs /\ ~accounted[c]
      /\ UNCHANGED <<started, charged, clamped>>
      /\ Limit \in Nat /\ Size[b] \in Nat /\ rdma_pinned \in Nat
  BY <1>1, BOAssumption, PinParamAssumption DEF PinCharge, IInv, TypeOK,
     SumTypes, HasBo, QInv, InFlightAgrees, pinVars, reapVars
<1>3. CASE FailGetPages(c) /\ UNCHANGED <<rdma_pinned, accounted>>
  <2>1. \A d \in Ctxs \ {c} : cbo'[d] = cbo[d] /\ cpc'[d] = cpc[d]
    BY <1>2, <1>3 DEF TypeOK, CtxTypes, FailGetPages, Goto
  <2>2. \A d \in Ctxs : accounted[d] =>
           cbo'[d] = cbo[d] /\ cpc'[d] \in {"charged", "rollback"}
    BY <1>2, <2>1 DEF QInv, InFlightAgrees
  <2> QED BY <1>2, <1>3, <2>2, QuotaKept
<1>4. CASE /\ Goto(c, "charged") /\ cbo' = cbo
           /\ rdma_pinned' = IF NeedsCharge(b) THEN rdma_pinned + Size[b]
                                               ELSE rdma_pinned
           /\ accounted' = [accounted EXCEPT ![c] = NeedsCharge(b)]
  <2>1. PICK v : v = NeedsCharge(b)
    OBVIOUS
  <2>2. v \in BOOLEAN /\ (v => Limit > 0 /\ b \in VramBOs)
    BY <1>2, <2>1 DEF NeedsCharge, TypeOK, PinTypes
  <2>3. /\ FlightSum \in Nat
        /\ FlightSum' = FlightSum + (IF v THEN Size[b] ELSE 0)
    <3>1. /\ accounted' = [accounted EXCEPT ![c] = v]
          /\ v => cbo'[c] \in BOs
          /\ \A d \in Ctxs \ {c} : accounted[d] => cbo'[d] = cbo[d]
          /\ cbo'[c] = b
      BY <1>1, <1>2, <1>4, <2>1
    <3>2. /\ FlightSum \in Nat
          /\ FlightSum' = FlightSum
                 - (IF accounted[c] THEN Size[cbo[c]] ELSE 0)
                 + (IF v THEN Size[cbo'[c]] ELSE 0)
      BY <1>2, <2>2, <3>1, FlightMoves DEF QInv
    <3> QED BY <1>2, <3>1, <3>2
  <2>4. ChargedSum \in Nat /\ ChargedSum' = ChargedSum
    BY <1>2, ChargedKept DEF TypeOK, PinTypes
  <2>5. rdma_pinned' = ChargedSum' + FlightSum' /\ ~clamped'
    BY <1>2, <1>4, <2>1, <2>3, <2>4, QuotaIs DEF QInv
  <2>6. QuotaExact'
    BY <2>5 DEF QuotaExact, ChargedSum, FlightSum
  <2>7. InFlightAgrees'
    <3>1. \A x \in BOs : charged'[x] => Limit > 0 /\ x \in VramBOs
      BY <1>2 DEF QInv, InFlightAgrees
    <3>2. ASSUME NEW d \in Ctxs, accounted'[d]
          PROVE  /\ cpc'[d] \in {"charged", "rollback"} /\ Limit > 0
                 /\ cbo'[d] \in VramBOs
      <4>1. CASE d = c
        BY <4>1, <3>2, <1>1, <1>2, <1>4, <2>1, <2>2 DEF Goto, TypeOK,
           CtxTypes, CallTypes
      <4>2. CASE d # c
        BY <4>2, <3>2, <1>2, <1>4 DEF Goto, TypeOK, CtxTypes, CallTypes, QInv,
           InFlightAgrees
      <4> QED BY <4>1, <4>2
    <3> QED BY <3>1, <3>2 DEF InFlightAgrees
  <2> QED BY <1>2, <2>6, <2>7 DEF QInv
<1> QED BY <1>1, <1>3, <1>4 DEF PinCharge, RejectPin

(* The charge of a context leaves the flight. *)
LEMMA FlightLanded ==
    ASSUME TypeOK, QInv, NEW c \in Ctxs,
           \A d \in Ctxs \ {c} : cbo'[d] = cbo[d],
           \A d \in Ctxs \ {c} : cpc'[d] = cpc[d],
           accounted' = [accounted EXCEPT ![c] = FALSE]
    PROVE  /\ FlightSum \in Nat /\ (accounted[c] => Size[cbo[c]] <= FlightSum)
           /\ FlightSum' = FlightSum
                 - (IF accounted[c] THEN Size[cbo[c]] ELSE 0)
           /\ \A d \in Ctxs : accounted'[d] =>
                 /\ cpc'[d] \in {"charged", "rollback"} /\ Limit > 0
                 /\ cbo'[d] \in VramBOs
<1>1. PICK v : v = FALSE
  OBVIOUS
<1>2. /\ v \in BOOLEAN /\ ~v /\ accounted' = [accounted EXCEPT ![c] = v]
      /\ InFlightAgrees
  BY <1>1 DEF QInv
<1>3. /\ FlightSum \in Nat /\ (accounted[c] => Size[cbo[c]] <= FlightSum)
      /\ FlightSum' = FlightSum
                 - (IF accounted[c] THEN Size[cbo[c]] ELSE 0)
                 + (IF v THEN Size[cbo'[c]] ELSE 0)
  BY <1>2, FlightMoves
<1>4. (IF accounted[c] THEN Size[cbo[c]] ELSE 0) \in Nat
  BY <1>2, BOAssumption DEF InFlightAgrees
<1>5. \A d \in Ctxs : accounted'[d] => d # c /\ accounted[d]
  BY DEF TypeOK, CallTypes
<1>6. \A d \in Ctxs : accounted'[d] =>
                 /\ cpc'[d] \in {"charged", "rollback"} /\ Limit > 0
                 /\ cbo'[d] \in VramBOs
  BY <1>2, <1>5 DEF InFlightAgrees
<1> QED BY <1>2, <1>3, <1>4, <1>6

(* The pin hands the charge to the BO. *)
LEMMA PinBoQuota ==
    ASSUME IInv, QInv, NEW c \in Ctxs, PinBo(c)
    PROVE  QInv'
<1>1. PICK b : b = cbo[c]
  OBVIOUS
<1>2. /\ TypeOK /\ b \in BOs /\ cbo' = cbo
      /\ \A d \in Ctxs \ {c} : cpc'[d] = cpc[d]
      /\ accounted' = [accounted EXCEPT ![c] = FALSE]
      /\ UNCHANGED <<started, clamped, rdma_pinned>>
      /\ Size[b] \in Nat /\ rdma_pinned \in Nat
      /\ accounted[c] <=> NeedsCharge(b)
      /\ accounted[c] \in BOOLEAN
  BY <1>1, BOAssumption DEF PinBo, IInv, TypeOK, SumTypes, CtxTypes,
     CallTypes, HasBo, ChargeSettled, Goto, reapVars
<1>3. /\ FlightSum \in Nat
      /\ FlightSum' = FlightSum - (IF accounted[c] THEN Size[b] ELSE 0)
      /\ \A d \in Ctxs : accounted'[d] =>
            /\ cpc'[d] \in {"charged", "rollback"} /\ Limit > 0
            /\ cbo'[d] \in VramBOs
  BY <1>1, <1>2, FlightLanded
<1>4. charged \in [BOs -> BOOLEAN]
  BY <1>2 DEF TypeOK, PinTypes
<1>5. CASE accounted[c]
  <2>1. ~charged[b] /\ charged' = [charged EXCEPT ![b] = TRUE] /\ Limit > 0
        /\ b \in VramBOs
    BY <1>1, <1>2, <1>5 DEF PinBo, NeedsCharge
  <2>2. ChargedSum \in Nat /\ ChargedSum' = ChargedSum + Size[b]
    <3>1. PICK v : v = TRUE
      OBVIOUS
    <3>2. /\ ChargedSum \in Nat
          /\ ChargedSum' = ChargedSum - (IF charged[b] THEN Size[b] ELSE 0)
                                      + (IF v THEN Size[b] ELSE 0)
      BY <1>2, <1>4, <2>1, <3>1, ChargedMoves
    <3> QED BY <2>1, <3>1, <3>2, <1>2
  <2>3. rdma_pinned' = ChargedSum' + FlightSum' /\ ~clamped'
    BY <1>2, <1>3, <1>5, <2>2, QuotaIs DEF QInv
  <2>4. QuotaExact'
    BY <2>3 DEF QuotaExact, ChargedSum, FlightSum
  <2>5. \A x \in BOs : charged'[x] => Limit > 0 /\ x \in VramBOs
    BY <1>4, <2>1 DEF QInv, InFlightAgrees
  <2> QED BY <1>2, <1>3, <2>4, <2>5 DEF QInv, InFlightAgrees
<1>6. CASE ~accounted[c]
  <2>1. charged' = charged
    BY <1>6 DEF PinBo
  <2>2. ChargedSum \in Nat /\ ChargedSum' = ChargedSum
    BY <1>4, <2>1, ChargedKept
  <2>3. rdma_pinned' = ChargedSum' + FlightSum' /\ ~clamped'
    BY <1>2, <1>3, <1>6, <2>2, QuotaIs DEF QInv
  <2>4. QuotaExact'
    BY <2>3 DEF QuotaExact, ChargedSum, FlightSum
  <2> QED BY <1>2, <1>3, <2>1, <2>4 DEF QInv, InFlightAgrees
<1> QED BY <1>5, <1>6

(* err_accounting gives it back. *)
LEMMA RollbackQuota ==
    ASSUME IInv, QInv, NEW c \in Ctxs, Rollback(c)
    PROVE  QInv'
<1>1. PICK b : b = cbo[c]
  OBVIOUS
<1>2. /\ TypeOK /\ b \in BOs
      /\ \A d \in Ctxs \ {c} : cbo'[d] = cbo[d]
      /\ \A d \in Ctxs \ {c} : cpc'[d] = cpc[d]
      /\ accounted' = [accounted EXCEPT ![c] = FALSE]
      /\ UNCHANGED <<started, charged>>
      /\ Size[b] \in Nat \ {0} /\ rdma_pinned \in Nat
      /\ charged \in [BOs -> BOOLEAN]
  BY <1>1, BOAssumption DEF Rollback, FailGetPages, IInv, TypeOK, SumTypes,
     CtxTypes, PinTypes, HasBo, Goto, pinVars, reapVars
<1>3. /\ FlightSum \in Nat
      /\ accounted[c] => Size[b] <= FlightSum
      /\ FlightSum' = FlightSum - (IF accounted[c] THEN Size[b] ELSE 0)
      /\ \A d \in Ctxs : accounted'[d] =>
            /\ cpc'[d] \in {"charged", "rollback"} /\ Limit > 0
            /\ cbo'[d] \in VramBOs
  BY <1>1, <1>2, FlightLanded
<1>4. ChargedSum \in Nat /\ ChargedSum' = ChargedSum
  BY <1>2, ChargedKept
<1>5. rdma_pinned = ChargedSum + FlightSum /\ ~clamped
  BY QuotaIs DEF QInv
<1>6. rdma_pinned' = ChargedSum' + FlightSum' /\ ~clamped'
  <2>1. CASE accounted[c]
    <3>1. QuotaDrop(Size[b]) /\ Limit > 0
      BY <1>1, <2>1 DEF Rollback, QInv, InFlightAgrees
    <3>2. Size[b] <= rdma_pinned
      BY <2>1, <1>2, <1>3, <1>4, <1>5
    <3>3. rdma_pinned' = rdma_pinned - Size[b] /\ clamped' = clamped
      BY <3>1, <3>2, <1>2, DropExact
    <3> QED BY <2>1, <3>3, <1>2, <1>3, <1>4, <1>5
  <2>2. CASE ~accounted[c]
    BY <2>2, <1>3, <1>4, <1>5 DEF Rollback
  <2> QED BY <2>1, <2>2
<1>7. QuotaExact'
  BY <1>6 DEF QuotaExact, ChargedSum, FlightSum
<1> QED BY <1>2, <1>3, <1>7 DEF QInv, InFlightAgrees

(* A charge goes with the BO's last pin, or with all of them. *)
LEMMA ChargeDropped ==
    ASSUME IInv, QInv, NEW b \in BOs, charged[b],
           charged' = [charged EXCEPT ![b] = FALSE], QuotaDrop(Size[b]),
           UNCHANGED <<accounted, cbo, started>>,
           \A d \in Ctxs : accounted[d] => cpc'[d] = cpc[d]
    PROVE  QInv'
<1>1. /\ TypeOK /\ Limit > 0 /\ Size[b] \in Nat \ {0} /\ rdma_pinned \in Nat
      /\ charged \in [BOs -> BOOLEAN]
  BY BOAssumption DEF IInv, TypeOK, SumTypes, PinTypes, QInv, InFlightAgrees
<1>2. /\ ChargedSum \in Nat /\ Size[b] <= ChargedSum
      /\ ChargedSum' = ChargedSum - Size[b]
  <2>1. PICK v : v = FALSE
    OBVIOUS
  <2>2. /\ ChargedSum \in Nat /\ Size[b] <= ChargedSum
        /\ ChargedSum' = ChargedSum - (IF charged[b] THEN Size[b] ELSE 0)
                                    + (IF v THEN Size[b] ELSE 0)
    BY <1>1, <2>1, ChargedMoves
  <2> QED BY <1>1, <2>1, <2>2
<1>3. FlightSum \in Nat /\ FlightSum' = FlightSum
  BY <1>1, FlightKept DEF QInv
<1>4. rdma_pinned = ChargedSum + FlightSum /\ ~clamped
  BY QuotaIs DEF QInv
<1>5. Size[b] <= rdma_pinned
  BY <1>1, <1>2, <1>3, <1>4
<1>6. rdma_pinned' = rdma_pinned - Size[b] /\ clamped' = clamped
  BY <1>1, <1>5, DropExact
<1>7. rdma_pinned' = ChargedSum' + FlightSum' /\ ~clamped'
  BY <1>1, <1>2, <1>3, <1>4, <1>6
<1>8. QuotaExact'
  BY <1>7 DEF QuotaExact, ChargedSum, FlightSum
<1>9. InFlightAgrees'
  BY <1>1 DEF QInv, InFlightAgrees
<1> QED BY <1>8, <1>9 DEF QInv

(* The last unpin gives the charge back. *)
LEMMA PutPagesQuota ==
    ASSUME IInv, QInv, NEW c \in Ctxs, PutPages(c)
    PROVE  QInv'
<1>1. PICK b : b = cbo[c]
  OBVIOUS
<1>2. /\ TypeOK /\ b \in BOs /\ UNCHANGED <<accounted, cbo, started>>
      /\ ~accounted[c] /\ charged \in [BOs -> BOOLEAN]
      /\ quota_pins \in [BOs -> Nat] /\ pin_count \in [BOs -> Nat]
  BY <1>1 DEF PutPages, IInv, TypeOK, PinTypes, HasBo, QInv, InFlightAgrees,
     callVars, reapVars
<1>3. \A d \in Ctxs : accounted[d] => cpc'[d] = cpc[d]
  BY <1>2 DEF PutPages, Goto, TypeOK, CtxTypes
<1>4. \A d \in Ctxs : accounted[d] =>
         cbo'[d] = cbo[d] /\ cpc'[d] \in {"charged", "rollback"}
  BY <1>2, <1>3 DEF QInv, InFlightAgrees
<1>5. CASE UNCHANGED <<pinVars, sumVars>>
  BY <1>2, <1>4, <1>5, QuotaKept DEF pinVars, sumVars
<1>6. CASE pin_count[b] > 0 /\ UnpinBo(b)
  <2>1. CASE ~charged[b]
    <3>1. UNCHANGED <<charged, rdma_pinned, clamped>>
      BY <1>6, <2>1 DEF UnpinBo
    <3> QED BY <1>2, <1>4, <3>1, QuotaKept
  <2>2. CASE charged[b]
    <3>1. Limit > 0 /\ b \in VramBOs /\ quota_pins[b] = pin_count[b]
      BY <1>2, <2>2 DEF QInv, InFlightAgrees, IInv, QuotaFollowsPins
    <3>2. PICK left : left = quota_pins[b] - 1
      OBVIOUS
    <3>3. /\ left \in Nat
          /\ left = IF quota_pins[b] > 0 THEN quota_pins[b] - 1 ELSE 0
      BY <1>2, <1>6, <3>1, <3>2
    <3>4. /\ charged' = [charged EXCEPT ![b] = left > 0]
          /\ QuotaDrop(IF left = 0 THEN Size[b] ELSE 0)
      BY <1>6, <2>2, <3>1, <3>3 DEF UnpinBo
    <3>5. CASE left = 0
      <4>1. charged' = [charged EXCEPT ![b] = FALSE] /\ QuotaDrop(Size[b])
        <5>1. (left > 0) = FALSE /\ (IF left = 0 THEN Size[b] ELSE 0) = Size[b]
          BY <3>5
        <5> QED BY <3>4, <5>1
      <4> QED BY <4>1, <1>2, <1>3, <2>2, ChargeDropped
    <3>6. CASE left # 0
      <4>1. charged' = charged
        <5>1. (left > 0) = TRUE
          <6>1. left \in Nat
            BY <3>3
          <6> QED BY <6>1, <3>6
        <5>2. charged' = [charged EXCEPT ![b] = TRUE]
          BY <5>1, <3>4
        <5> QED BY <5>2, <1>2, <2>2
      <4>2. UNCHANGED <<rdma_pinned, clamped>>
        BY <3>4, <3>6 DEF QuotaDrop
      <4> QED BY <4>1, <4>2, <1>2, <1>4, QuotaKept
    <3> QED BY <3>5, <3>6
  <2> QED BY <2>1, <2>2
<1> QED BY <1>1, <1>5, <1>6 DEF PutPages

(* The reaper gives the charge back. *)
LEMMA ReapOrphanQuota ==
    ASSUME IInv, QInv, ReapOrphan
    PROVE  QInv'
<1>1. PICK b : b = Head(reap)
  OBVIOUS
<1>2. /\ TypeOK /\ b \in BOs /\ UNCHANGED <<accounted, cbo, cpc, started>>
  BY <1>1 DEF ReapOrphan, IInv, TypeOK, ReapTypes, callVars
<1>3. CASE charged[b]
  <2>1. Limit > 0 /\ b \in VramBOs
    BY <1>2, <1>3 DEF QInv, InFlightAgrees
  <2>2. charged' = [charged EXCEPT ![b] = FALSE] /\ QuotaDrop(Size[b])
    BY <1>1, <1>3, <2>1 DEF ReapOrphan, Bytes
  <2> QED BY <1>2, <1>3, <2>2, ChargeDropped
<1>4. CASE ~charged[b]
  <2>1. UNCHANGED <<charged, rdma_pinned, clamped>>
    BY <1>1, <1>4 DEF ReapOrphan
  <2>2. \A d \in Ctxs : accounted[d] =>
           cbo'[d] = cbo[d] /\ cpc'[d] \in {"charged", "rollback"}
    BY <1>2 DEF QInv, InFlightAgrees
  <2> QED BY <1>2, <2>1, <2>2, QuotaKept
<1> QED BY <1>3, <1>4

(* A BO that is released is not charged any more. *)
LEMMA ReuseQuota ==
    ASSUME IInv, RInv, PInv, QInv, NEW b \in BOs, Reuse(b)
    PROVE  QInv'
<1>1. /\ TypeOK
      /\ UNCHANGED <<accounted, cbo, cpc, started, rdma_pinned, clamped>>
      /\ charged \in [BOs -> BOOLEAN]
  BY DEF Reuse, IInv, TypeOK, PinTypes, callVars, ctxVars, sumVars, reapVars
<1>2. pin_count[b] = 0
  BY ReleasedAre DEF Reuse, ReleasedUnpinned
<1>3. ~charged[b]
  <2> SUFFICES ASSUME charged[b] PROVE FALSE
      OBVIOUS
  <2>1. Limit > 0 /\ b \in VramBOs /\ started
    BY DEF QInv, InFlightAgrees
  <2> QED BY <2>1, <1>2 DEF IInv, QuotaFollowsPins
<1>4. charged' = charged
  BY <1>1, <1>3 DEF Reuse
<1>5. \A d \in Ctxs : accounted[d] =>
         cbo'[d] = cbo[d] /\ cpc'[d] \in {"charged", "rollback"}
  BY <1>1 DEF QInv, InFlightAgrees
<1> QED BY <1>1, <1>4, <1>5, QuotaKept

(* The initial state. *)
LEMMA InitQuota == Init => QInv
<1> SUFFICES ASSUME Init PROVE QInv
    OBVIOUS
<1>1. InFlightAgrees /\ started
  BY DEF Init, InFlightAgrees
<1>2. {b \in BOs : charged[b]} = {} /\ InFlight = {}
  BY DEF Init, InFlight
<1>3. \A F : SumFunctionOnSet(F, {}) = 0
  <2> SUFFICES ASSUME NEW F PROVE SumFunctionOnSet(F, {}) = 0
      OBVIOUS
  <2>1. PICK S : S = {}
    OBVIOUS
  <2> QED BY <2>1, FS_EmptySet, SumZero
<1>4. ChargedSum = 0
  BY <1>2, <1>3 DEF ChargedSum, Total
<1>5. FlightSum = 0
  <2>1. PICK F : F = [c \in InFlight |-> Size[cbo[c]]]
    OBVIOUS
  <2>2. DOMAIN F = {}
    BY <1>2, <2>1
  <2> QED BY <2>1, <2>2, <1>3 DEF FlightSum, SumFunction
<1>6. QuotaExact
  BY <1>4, <1>5, QuotaIs DEF Init
<1> QED BY <1>1, <1>6 DEF QInv

(* The quota counter is inductive while the reaper is not stopped. *)
LEMMA NextQuota ==
    ASSUME ~CanStop
    PROVE  IInv /\ RInv /\ PInv /\ QInv /\ [Next]_vars => QInv'
<1> SUFFICES ASSUME IInv, RInv, PInv, QInv, [Next]_vars PROVE QInv'
    OBVIOUS
<1>1. CASE Next
  <2>1. ~ReaperStop /\ ~StopOrphan
    BY DEF ReaperStop, StopOrphan, QInv
  <2> QED BY <1>1, <2>1, CtxQuota, OtherQuota, PinChargeQuota, PinBoQuota,
      RollbackQuota, PutPagesQuota, ReapOrphanQuota, ReuseQuota DEF Next,
      Client, ReapStep, PinStep
<1>2. CASE UNCHANGED vars
  <2>1. /\ TypeOK
        /\ UNCHANGED <<started, charged, accounted, rdma_pinned, clamped, cbo,
                       cpc>>
    BY <1>2 DEF IInv, vars, pinVars, sumVars, callVars, ctxVars, reapVars
  <2>2. \A d \in Ctxs : accounted[d] =>
           cbo'[d] = cbo[d] /\ cpc'[d] \in {"charged", "rollback"}
    BY <2>1 DEF QInv, InFlightAgrees
  <2> QED BY <2>1, <2>2, QuotaKept
<1> QED BY <1>1, <1>2

(* The quota counter is the size of the charged BOs and of the pins in       *)
(* flight, and no drop is clamped: neither the rollback, which comes after   *)
(* the reservation is given up, nor the reaper returns a charge twice or     *)
(* loses one.                                                                *)
THEOREM QuotaCorrect ==
    ASSUME "put" \notin Signals, ~CanStop
    PROVE  Spec => []QuotaExact
<1>1. QInv => QuotaExact
  BY DEF QInv
<1>2. IInv /\ RInv /\ PInv /\ [Next]_vars => PInv'
  BY NextPins
<1> QED BY <1>1, <1>2, InitInv, NextKeeps, InitCounts, NextCounts, InitPins,
    InitQuota, NextQuota, PTL DEF Spec

-----------------------------------------------------------------------------
(* The VRAM counters. *)

(* vram_pin_size counts each pinned VRAM BO once. *)
PinSize == vram_pin_size = Total({b \in VramBOs : pin_count[b] > 0})

(* While the reaper has taken no VRAM BO, vram_pinned counts it per pin. *)
PinSum == SumFunction([b \in VramBOs |-> pin_count[b] * Size[b]])
VramSum == (\A b \in VramBOs : Fresh(b)) => vram_pinned = PinSum

(* The pin count of one BO changes. *)
LEMMA PinSizeMoves ==
    ASSUME pin_count \in [BOs -> Nat], NEW b \in BOs, NEW n \in Nat,
           pin_count' = [pin_count EXCEPT ![b] = n], PinSize,
           vram_pin_size' = vram_pin_size
                              - (IF pin_count[b] > 0 THEN Bytes(b) ELSE 0)
                              + (IF n > 0 THEN Bytes(b) ELSE 0)
    PROVE  PinSize'
<1>1. PICK A, B : /\ A = {x \in VramBOs : pin_count[x] > 0}
                  /\ B = {x \in VramBOs : pin_count'[x] > 0}
  OBVIOUS
<1>2. DifferAt(b, Size, A, Size, B)
  <2>1. A \in SUBSET BOs /\ B \in SUBSET BOs
    BY <1>1, BOAssumption
  <2>2. IsFiniteSet(A) /\ IsFiniteSet(B)
    BY <2>1, BOAssumption, FS_Subset
  <2>3. \A x : x # b => (x \in A <=> x \in B)
    BY <1>1, BOAssumption
  <2>4. \A x \in BOs : Size[x] \in Nat
    BY BOAssumption
  <2> QED BY <2>1, <2>2, <2>3, <2>4 DEF DifferAt
<1>3. /\ b \in A <=> b \in VramBOs /\ pin_count[b] > 0
      /\ b \in B <=> b \in VramBOs /\ n > 0
  BY <1>1
<1>4. /\ SumFunctionOnSet(Size, A) \in Nat
      /\ SumFunctionOnSet(Size, B) = SumFunctionOnSet(Size, A)
            - (IF b \in A THEN Size[b] ELSE 0)
            + (IF b \in B THEN Size[b] ELSE 0)
  BY <1>2, SumMoves
<1>5. /\ (IF b \in A THEN Size[b] ELSE 0)
            = (IF pin_count[b] > 0 THEN Bytes(b) ELSE 0)
      /\ (IF b \in B THEN Size[b] ELSE 0) = (IF n > 0 THEN Bytes(b) ELSE 0)
  BY <1>3 DEF Bytes
<1> QED BY <1>1, <1>4, <1>5 DEF PinSize, Total

(* ... and the sum over the pins with it. *)
LEMMA PinSumMoves ==
    ASSUME pin_count \in [BOs -> Nat], NEW b \in BOs, NEW n \in Nat,
           pin_count' = [pin_count EXCEPT ![b] = n]
    PROVE  /\ PinSum \in Nat
           /\ PinSum' = PinSum - pin_count[b] * Bytes(b) + n * Bytes(b)
<1>1. PICK F, G : /\ F = [x \in VramBOs |-> pin_count[x] * Size[x]]
                  /\ G = [x \in VramBOs |-> pin_count'[x] * Size[x]]
  OBVIOUS
<1>2. /\ IsFiniteSet(VramBOs) /\ VramBOs \subseteq BOs
      /\ \A x \in BOs : Size[x] \in Nat /\ pin_count'[x] \in Nat
  BY BOAssumption, FS_Subset
<1>3. /\ \A x \in VramBOs : F[x] = pin_count[x] * Size[x] /\ F[x] \in Nat
      /\ \A x \in VramBOs : G[x] = pin_count'[x] * Size[x] /\ G[x] \in Nat
  <2>1. \A i, j \in Nat : i * j \in Nat
    OBVIOUS
  <2> QED BY <1>1, <1>2, <2>1
<1>4. DifferAt(b, F, VramBOs, G, VramBOs)
  <2>1. \A x \in VramBOs \ {b} : F[x] = G[x]
    BY <1>2, <1>3
  <2> QED BY <1>2, <1>3, <2>1 DEF DifferAt
<1>5. /\ SumFunctionOnSet(F, VramBOs) \in Nat
      /\ SumFunctionOnSet(G, VramBOs) = SumFunctionOnSet(F, VramBOs)
            - (IF b \in VramBOs THEN F[b] ELSE 0)
            + (IF b \in VramBOs THEN G[b] ELSE 0)
  BY <1>4, SumMoves
<1>6. /\ PinSum = SumFunctionOnSet(F, VramBOs)
      /\ PinSum' = SumFunctionOnSet(G, VramBOs)
  BY <1>1 DEF PinSum, SumFunction
<1>7. /\ (IF b \in VramBOs THEN F[b] ELSE 0) = pin_count[b] * Bytes(b)
      /\ (IF b \in VramBOs THEN G[b] ELSE 0) = n * Bytes(b)
  <2>1. pin_count'[b] = n /\ pin_count[b] \in Nat
    OBVIOUS
  <2>2. CASE b \in VramBOs
    BY <2>1, <2>2, <1>3 DEF Bytes
  <2>3. CASE b \notin VramBOs
    <3>1. Bytes(b) = 0
      BY <2>3 DEF Bytes
    <3>2. \A i \in Nat : i * 0 = 0
      OBVIOUS
    <3> QED BY <2>1, <2>3, <3>1, <3>2
  <2> QED BY <2>2, <2>3
<1> QED BY <1>5, <1>6, <1>7

(* A step that pins and unpins nothing. *)
LEMMA SizesKept ==
    ASSUME PinSize, UNCHANGED <<pin_count, vram_pin_size, vram_pinned>>
    PROVE  /\ PinSize'
           /\ StaysReaped /\ VramSum => VramSum'
<1>1. PinSize'
  BY DEF PinSize
<1>2. PinSum' = PinSum
  BY DEF PinSum
<1>3. ASSUME StaysReaped, VramSum PROVE VramSum'
  <2>1. \A b \in VramBOs : b \in BOs
    BY BOAssumption
  <2> QED BY <1>2, <1>3, <2>1 DEF VramSum, StaysReaped
<1> QED BY <1>1, <1>3

(* A pin *)
LEMMA PinBoSizes ==
    ASSUME IInv, PinSize, NEW c \in Ctxs, PinBo(c)
    PROVE  PinSize' /\ (StaysReaped /\ VramSum => VramSum')
<1>1. PICK b, n : b = cbo[c] /\ n = pin_count[b] + 1
  OBVIOUS
<1>2. /\ b \in BOs /\ n \in Nat /\ n > 0 /\ pin_count[b] \in Nat
      /\ pin_count \in [BOs -> Nat]
      /\ pin_count' = [pin_count EXCEPT ![b] = n]
      /\ Bytes(b) \in Nat /\ vram_pin_size \in Int /\ vram_pinned \in Int
      /\ vram_pinned' = vram_pinned + Bytes(b)
  BY <1>1, BytesType DEF PinBo, IInv, HasBo, TypeOK, PinTypes, SumTypes
<1>3. vram_pin_size' = vram_pin_size
                         - (IF pin_count[b] > 0 THEN Bytes(b) ELSE 0)
                         + (IF n > 0 THEN Bytes(b) ELSE 0)
  <2>1. CASE pin_count[b] = 0
    BY <1>1, <1>2, <2>1 DEF PinBo
  <2>2. CASE pin_count[b] > 0
    BY <1>1, <1>2, <2>2 DEF PinBo
  <2> QED BY <1>2, <2>1, <2>2
<1>4. PinSize'
  BY <1>2, <1>3, PinSizeMoves
<1>5. /\ PinSum \in Nat
      /\ PinSum' = PinSum - pin_count[b] * Bytes(b) + n * Bytes(b)
  BY <1>2, PinSumMoves
<1>6. n * Bytes(b) = pin_count[b] * Bytes(b) + Bytes(b)
  <2>1. \A i, j \in Nat : (i + 1) * j = i * j + j
    OBVIOUS
  <2> QED BY <1>1, <1>2, <2>1
<1>7. PinSum' = PinSum + Bytes(b)
  <2>1. PICK m : m = pin_count[b] * Bytes(b)
    OBVIOUS
  <2>2. m \in Nat
    <3>1. \A i, j \in Nat : i * j \in Nat
      OBVIOUS
    <3> QED BY <2>1, <3>1, <1>2
  <2>3. PinSum' = PinSum - m + (m + Bytes(b))
    BY <1>5, <1>6, <2>1
  <2> QED BY <2>2, <2>3, <1>2, <1>5
<1>8. ASSUME StaysReaped, VramSum PROVE VramSum'
  <2>1. \A x \in VramBOs : x \in BOs
    BY BOAssumption
  <2> QED BY <1>2, <1>7, <1>8, <2>1 DEF VramSum, StaysReaped
<1> QED BY <1>4, <1>8

(* An unpin *)
LEMMA UnpinBoSizes ==
    ASSUME IInv, PinSize, NEW b \in BOs, pin_count[b] > 0, UnpinBo(b)
    PROVE  PinSize' /\ (StaysReaped /\ VramSum => VramSum')
<1>1. PICK n : n = pin_count[b] - 1
  OBVIOUS
<1>2. /\ n \in Nat /\ pin_count[b] \in Nat /\ pin_count[b] = n + 1
      /\ pin_count \in [BOs -> Nat]
      /\ pin_count' = [pin_count EXCEPT ![b] = n]
      /\ Bytes(b) \in Nat /\ vram_pin_size \in Int /\ vram_pinned \in Int
      /\ vram_pinned' = vram_pinned - Bytes(b)
  BY <1>1, BytesType DEF UnpinBo, IInv, TypeOK, PinTypes, SumTypes
<1>3. vram_pin_size' = vram_pin_size
                         - (IF pin_count[b] > 0 THEN Bytes(b) ELSE 0)
                         + (IF n > 0 THEN Bytes(b) ELSE 0)
  <2>1. CASE n = 0
    BY <1>2, <2>1 DEF UnpinBo
  <2>2. CASE n > 0
    <3>1. vram_pin_size' = vram_pin_size /\ pin_count[b] > 0
      BY <1>2, <2>2 DEF UnpinBo
    <3> QED BY <1>2, <2>2, <3>1
  <2> QED BY <1>2, <2>1, <2>2
<1>4. PinSize'
  BY <1>2, <1>3, PinSizeMoves
<1>5. /\ PinSum \in Nat
      /\ PinSum' = PinSum - pin_count[b] * Bytes(b) + n * Bytes(b)
  BY <1>2, PinSumMoves
<1>6. pin_count[b] * Bytes(b) = n * Bytes(b) + Bytes(b)
  <2>1. \A i, j \in Nat : (i + 1) * j = i * j + j
    OBVIOUS
  <2> QED BY <1>2, <2>1
<1>7. PinSum' = PinSum - Bytes(b)
  <2>1. PICK m : m = n * Bytes(b)
    OBVIOUS
  <2>2. m \in Nat
    <3>1. \A i, j \in Nat : i * j \in Nat
      OBVIOUS
    <3> QED BY <2>1, <3>1, <1>2
  <2>3. PinSum' = PinSum - (m + Bytes(b)) + m
    BY <1>5, <1>6, <2>1
  <2> QED BY <2>2, <2>3, <1>2, <1>5
<1>8. ASSUME StaysReaped, VramSum PROVE VramSum'
  <2>1. \A x \in VramBOs : x \in BOs
    BY BOAssumption
  <2> QED BY <1>2, <1>7, <1>8, <2>1 DEF VramSum, StaysReaped
<1> QED BY <1>4, <1>8

(* The reaper takes a VRAM BO, and then vram_pinned is no longer claimed, or *)
(* one that is not counted.                                                  *)
LEMMA OrphanSizes ==
    ASSUME IInv, PInv, PinSize, ReapOrphan \/ StopOrphan
    PROVE  PinSize' /\ (StaysReaped /\ VramSum => VramSum')
<1>1. PICK h, n : h = Head(reap) /\ n = 0
  OBVIOUS
<1>2. /\ h \in BOs /\ n \in Nat /\ ~(n > 0) /\ pin_count[h] \in Nat
      /\ pin_count \in [BOs -> Nat]
      /\ Bytes(h) \in Nat /\ vram_pin_size \in Int /\ vram_pinned \in Int
  BY <1>1, BytesType DEF ReapOrphan, StopOrphan, IInv, TypeOK, PinTypes,
     SumTypes, ReapTypes
<1>3. CASE ForceUnpin(h)
  <2>1. /\ pin_count' = [pin_count EXCEPT ![h] = n]
        /\ vram_pin_size' = vram_pin_size
                              - (IF pin_count[h] > 0 THEN Bytes(h) ELSE 0)
                              + (IF n > 0 THEN Bytes(h) ELSE 0)
    BY <1>1, <1>2, <1>3 DEF ForceUnpin
  <2>2. PinSize'
    BY <1>2, <2>1, PinSizeMoves
  <2>3. ASSUME StaysReaped, VramSum PROVE VramSum'
    <3>1. ~Fresh(h)
      BY <1>1, HeadReaped DEF ReapOrphan, StopOrphan
    <3>2. CASE h \in VramBOs
      BY <1>2, <2>3, <3>1, <3>2 DEF VramSum, StaysReaped
    <3>3. CASE h \notin VramBOs
      <4>1. Bytes(h) = 0
        BY <3>3 DEF Bytes
      <4>2. vram_pinned' = vram_pinned
        BY <1>1, <1>2, <4>1 DEF ReapOrphan, StopOrphan
      <4>3. [b \in VramBOs |-> pin_count'[b] * Size[b]]
               = [b \in VramBOs |-> pin_count[b] * Size[b]]
        BY <1>2, <2>1, <3>3, BOAssumption
      <4>4. PinSum' = PinSum
        BY <4>3 DEF PinSum
      <4>5. \A x \in VramBOs : x \in BOs
        BY BOAssumption
      <4> QED BY <4>2, <4>4, <4>5, <2>3 DEF VramSum, StaysReaped
    <3> QED BY <3>2, <3>3
  <2> QED BY <2>2, <2>3
<1>4. CASE ~ForceUnpin(h)
  <2>1. UNCHANGED <<pin_count, vram_pin_size, vram_pinned>>
    BY <1>1, <1>4 DEF ReapOrphan, StopOrphan
  <2> QED BY <2>1, SizesKept
<1> QED BY <1>3, <1>4

(* A released BO was not pinned any more. *)
LEMMA ReuseSizes ==
    ASSUME IInv, RInv, PInv, PinSize, NEW b \in BOs, Reuse(b)
    PROVE  PinSize'
<1>1. pin_count[b] = 0 /\ pin_count \in [BOs -> Nat]
  BY ReleasedAre DEF Reuse, ReleasedUnpinned, IInv, TypeOK, PinTypes
<1>2. UNCHANGED <<pin_count, vram_pin_size>>
  BY <1>1 DEF Reuse, sumVars
<1> QED BY <1>2 DEF PinSize

(* The initial state. *)
LEMMA InitSizes == Init => PinSize /\ VramSum
<1> SUFFICES ASSUME Init PROVE PinSize /\ VramSum
    OBVIOUS
<1>1. PICK A : A = {b \in VramBOs : pin_count[b] > 0}
  OBVIOUS
<1>2. A = {}
  BY <1>1, BOAssumption DEF Init
<1>3. SumFunctionOnSet(Size, A) = 0
  BY <1>2, FS_EmptySet, SumZero
<1>4. PICK F : F = [b \in VramBOs |-> pin_count[b] * Size[b]]
  OBVIOUS
<1>5. IsFiniteSet(VramBOs)
  BY BOAssumption, FS_Subset
<1>6. \A b \in VramBOs : F[b] = 0
  <2>1. \A i \in Nat : 0 * i = 0
    OBVIOUS
  <2>2. \A b \in VramBOs : pin_count[b] = 0 /\ Size[b] \in Nat
    BY BOAssumption DEF Init
  <2> QED BY <1>4, <2>1, <2>2
<1>7. PinSum = 0
  BY <1>4, <1>5, <1>6, SumZero DEF PinSum, SumFunction
<1> QED BY <1>1, <1>3, <1>7 DEF Init, PinSize, Total, VramSum

(* The VRAM counters are inductive. *)
LEMMA NextSizes ==
    ASSUME "put" \notin Signals
    PROVE  IInv /\ RInv /\ PInv /\ PinSize /\ [Next]_vars
              => PinSize' /\ (MaxReuse = 0 /\ VramSum => VramSum')
<1> SUFFICES ASSUME IInv, RInv, PInv, PinSize, [Next]_vars
             PROVE  PinSize' /\ (MaxReuse = 0 /\ VramSum => VramSum')
    OBVIOUS
<1>1. CASE \E b \in BOs : Reuse(b)
  <2>1. MaxReuse # 0
    BY <1>1, PinParamAssumption DEF Reuse, IInv, TypeOK, BoTypes
  <2> QED BY <1>1, <2>1, ReuseSizes
<1>2. CASE ~\E b \in BOs : Reuse(b)
  <2>1. StaysReaped
    BY <1>2, NextPins
  <2> SUFFICES PinSize' /\ (StaysReaped /\ VramSum => VramSum')
    BY <2>1
  <2>2. CASE \E c \in Ctxs : PinBo(c)
    BY <2>2, PinBoSizes
  <2>3. CASE \E c \in Ctxs : PutPages(c)
    <3>1. PICK c \in Ctxs : PutPages(c)
      BY <2>3
    <3>2. cbo[c] \in BOs
      BY <3>1 DEF PutPages, IInv, HasBo
    <3>3. CASE pin_count[cbo[c]] > 0 /\ UnpinBo(cbo[c])
      BY <3>2, <3>3, UnpinBoSizes
    <3>4. CASE UNCHANGED <<pinVars, sumVars>>
      BY <3>4, SizesKept DEF pinVars, sumVars
    <3> QED BY <3>1, <3>3, <3>4 DEF PutPages
  <2>4. CASE ReapOrphan \/ StopOrphan
    BY <2>4, OrphanSizes
  <2>5. CASE /\ ~(\E c \in Ctxs : PinBo(c) \/ PutPages(c))
             /\ ~(ReapOrphan \/ StopOrphan)
    <3>1. UNCHANGED <<pin_count, vram_pin_size, vram_pinned>>
      BY <1>2, <2>5 DEF Next, Client, FreeStep, ReapStep, PinStep, Acquire,
         GetPages, DmaMap, DmaUnmap, Release, FreeMemory, ReaperStop,
         PinCharge, PinFailed, Rollback, RejectExpires, FreeReserve,
         FreeWaited, OrphanQueue, DropHandle, ReapCollect, vars, pinVars,
         sumVars
    <3> QED BY <3>1, SizesKept
  <2> QED BY <2>2, <2>3, <2>4, <2>5
<1> QED BY <1>1, <1>2

(* vram_pin_size counts each pinned VRAM BO once, and vram_pinned counts it  *)
(* once per pin as long as the reaper has taken none.                        *)
THEOREM VramPinnedCorrect ==
    ASSUME "put" \notin Signals, MaxReuse = 0
    PROVE  Spec => []VramPinnedExact
<1>1. IInv /\ PinSize /\ VramSum => VramPinnedExact
  <2> SUFFICES ASSUME IInv, PinSize, VramSum PROVE VramPinnedExact
      OBVIOUS
  <2>1. ASSUME NEW b \in VramBOs, Unreaped(b) PROVE Fresh(b)
    <3>1. Count(orphans, b) \in Nat /\ (Count(orphans, b) = 0
             <=> ~\E i \in 1 .. Len(orphans) : orphans[i] = b)
      BY CountType DEF IInv, TypeOK, ReapTypes
    <3> QED BY <2>1, <3>1 DEF Unreaped, Fresh, Open
  <2> QED BY <2>1 DEF VramPinnedExact, PinSize, VramSum, PinSum
<1>2. IInv /\ RInv /\ PInv /\ [Next]_vars => PInv'
  BY NextPins
<1>3. IInv /\ RInv /\ PInv /\ PinSize /\ VramSum /\ [Next]_vars
         => PinSize' /\ VramSum'
  BY NextSizes
<1> QED BY <1>1, <1>2, <1>3, InitInv, NextKeeps, InitCounts, NextCounts,
    InitPins, InitSizes, PTL DEF Spec
=============================================================================
