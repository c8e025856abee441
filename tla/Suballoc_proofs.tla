-------------------------- MODULE Suballoc_proofs --------------------------
(***************************************************************************)
(* For any number of threads, suballocations and fences, any pool size and *)
(* any alignment: the list of suballocations and the fence lists stay in   *)
(* order, and the suballocator implements the pool of IbPool.              *)
(***************************************************************************)
EXTENDS Suballoc, ListLemmas, SequenceTheorems, TLAPS

(* What a thread has of its suballocation: one that it asks for is not in   *)
(* the list yet, one that it holds is, and has no fence.                    *)
CallAgrees(t) ==
    /\ pc[t] \in Waits => sa[t] \in Sas /\ ~InList(sa[t])
    /\ pc[t] = "hold" => InList(sa[t]) /\ fence[sa[t]] = NoOne
    /\ waitset[t] # {} => pc[t] = "fences"
    /\ fini => pc[t] = "idle"

(* No two threads have the same one, ... *)
OwnersDiffer ==
    \A t, u \in Threads :
        t # u /\ pc[t] # "idle" /\ pc[u] # "idle" => sa[t] # sa[u]

(* ... and each one in the list has an owner, or was freed with a fence.    *)
EntriesOwned ==
    \A s \in Sas : InList(s) /\ fence[s] = NoOne
                      => \E t \in Threads : pc[t] = "hold" /\ sa[t] = s

ListAligned == \A i \in 1 .. Len(olist) : soffset[olist[i]] % Align = 0

(* A fence list has each entry once; only a fence that is there signals.    *)
FencesOnce ==
    /\ \A q \in Queues : \A i, j \in 1 .. Len(flist[q]) :
          flist[q][i] = flist[q][j] => i = j
    /\ \A s \in signaled : fence[s] # NoOne

IInv ==
    /\ TypeOK
    /\ \A t \in Threads : CallAgrees(t)
    /\ OwnersDiffer /\ EntriesOwned
    /\ ListOrdered /\ ListAligned
    /\ FencesListed /\ FencesOnce
    /\ SleepersHaveNoFence

-----------------------------------------------------------------------------
(* RoundUp(n) is the first multiple of Align that is not less than n. *)
LEMMA RoundUpProps ==
    ASSUME NEW n \in Nat
    PROVE  RoundUp(n) \in Nat /\ RoundUp(n) >= n /\ RoundUp(n) % Align = 0
<1>1. Align \in Nat \ {0}
  BY PoolAssumption
<1> DEFINE d == (n + Align - 1) \div Align
<1>2. d \in Nat
  BY <1>1
<1>3. d * Align >= n
  BY <1>1
<1>4. (d * Align) % Align = 0
  BY <1>1, <1>2
<1> QED BY <1>1, <1>2, <1>3, <1>4 DEF RoundUp

-----------------------------------------------------------------------------
(* The initial state satisfies the inductive invariant. *)
LEMMA InitInv == Init => IInv
<1> SUFFICES ASSUME Init PROVE IInv
    OBVIOUS
<1> USE PoolAssumption DEF Init
<1>1. <<>> \in Seq(Sas) /\ Len(<<>>) = 0
  OBVIOUS
<1>2. TypeOK
  <2>1. ListTypes
    BY <1>1 DEF ListTypes
  <2>2. FenceTypes
    BY <1>1 DEF FenceTypes
  <2>3. CallTypes
    <3>1. 1 \in 1 .. Size
      OBVIOUS
    <3>2. size \in [Threads -> 1 .. Size]
      BY <3>1
    <3>3. /\ waitset \in [Threads -> SUBSET Sas]
          /\ sa \in [Threads -> Sas \cup {0}]
      OBVIOUS
    <3>4. fini \in BOOLEAN /\ pc \in [Threads -> Waits \cup {"idle", "hold"}]
      OBVIOUS
    <3> QED BY <3>2, <3>3, <3>4 DEF CallTypes
  <2> QED BY <2>1, <2>2, <2>3 DEF TypeOK, NoTries
<1>3. \A s : ~InList(s)
  BY <1>1 DEF InList
<1>4. /\ \A t \in Threads : CallAgrees(t)
      /\ OwnersDiffer /\ EntriesOwned
  BY <1>3 DEF CallAgrees, OwnersDiffer, EntriesOwned, Waits, Inside
<1>5. ListOrdered /\ ListAligned /\ FencesOnce /\ SleepersHaveNoFence
  BY <1>1 DEF ListOrdered, ListAligned, FencesOnce, SleepersHaveNoFence
<1>6. FencesListed
  <2>1. ToSet(<<>>) = {}
    <3>1. \A x : x \in ToSet(<<>>) <=> \E i \in 1 .. Len(<<>>) : <<>>[i] = x
      BY <1>1, ToSetProps
    <3>2. 1 .. Len(<<>>) = {}
      BY <1>1
    <3> QED BY <3>1, <3>2
  <2> QED BY <2>1 DEF FencesListed
<1> QED BY <1>2, <1>4, <1>5, <1>6 DEF IInv

(* The position of an entry in the list, which has it once. *)
LEMMA IndexProps ==
    ASSUME IInv, NEW s, InList(s)
    PROVE  /\ s \in Sas /\ Index(s) \in 1 .. Len(olist) /\ olist[Index(s)] = s
           /\ \A i \in 1 .. Len(olist) : olist[i] = s => i = Index(s)
<1>1. PICK i \in 1 .. Len(olist) : olist[i] = s
  BY DEF InList
<1>2. Index(s) \in 1 .. Len(olist) /\ olist[Index(s)] = s
  BY <1>1 DEF Index
<1>3. olist \in Seq(Sas) /\ Len(olist) \in Nat /\ s \in Sas
  BY <1>1 DEF IInv, TypeOK, ListTypes
<1>4. soffset[s] < eoffset[s] /\ soffset[s] \in Nat /\ eoffset[s] \in Nat
  BY <1>2, <1>3 DEF IInv, TypeOK, ListTypes, ListOrdered
<1>5. ASSUME NEW j \in 1 .. Len(olist), olist[j] = s PROVE j = Index(s)
  <2>1. j < Index(s) => eoffset[s] <= soffset[s]
    BY <1>2, <1>5 DEF IInv, ListOrdered
  <2>2. Index(s) < j => eoffset[s] <= soffset[s]
    BY <1>2, <1>5 DEF IInv, ListOrdered
  <2> QED BY <1>2, <1>3, <1>4, <2>1, <2>2
<1> QED BY <1>2, <1>3, <1>5

(* The position of an entry in its fence list. *)
LEMMA PositionProps ==
    ASSUME IInv, NEW s \in Sas, fence[s] # NoOne
    PROVE  /\ fence[s] \in Queues /\ InList(s)
           /\ Position(s, fence[s]) \in 1 .. Len(flist[fence[s]])
           /\ flist[fence[s]][Position(s, fence[s])] = s
<1>1. fence[s] \in Queues /\ InList(s)
  BY DEF IInv, TypeOK, FenceTypes, FencesListed
<1>2. flist[fence[s]] \in Seq(Sas) /\ s \in ToSet(flist[fence[s]])
  BY <1>1 DEF IInv, TypeOK, FenceTypes, FencesListed
<1>3. \E i \in 1 .. Len(flist[fence[s]]) : flist[fence[s]][i] = s
  BY <1>2, ToSetProps
<1> QED BY <1>1, <1>3 DEF Position

(* An entry that is removed leaves its fence list, and nobody else's. *)
LEMMA RemoveFences ==
    ASSUME IInv, NEW s, InList(s), NEW base, RemoveLocked(s, base)
    PROVE  /\ FenceTypes' /\ FencesOnce'
           /\ \A q \in Queues :
                 ToSet(flist'[q]) = {u \in Sas : fence'[u] = q}
           /\ \A q \in Queues : flist[q] = <<>> => flist'[q] = <<>>
<1>1. s \in Sas /\ fence' = [fence EXCEPT ![s] = NoOne]
      /\ signaled' = signaled \ {s}
  BY IndexProps DEF RemoveLocked
<1>2. /\ fence \in [Sas -> Queues \cup {NoOne}] /\ signaled \subseteq Sas
      /\ flist \in [Queues -> Seq(Sas)] /\ NoOne \notin Queues
  BY PoolAssumption DEF IInv, TypeOK, FenceTypes
<1>3. CASE fence[s] = NoOne
  <2>1. flist' = flist /\ fence' = fence /\ s \notin signaled
    BY <1>1, <1>2, <1>3 DEF RemoveLocked, IInv, FencesOnce
  <2> QED BY <1>1, <1>2, <2>1 DEF IInv, FenceTypes, FencesOnce, FencesListed
<1>4. CASE fence[s] # NoOne
  <2> DEFINE f == fence[s]
             p == Position(s, f)
  <2>1. /\ f \in Queues /\ p \in 1 .. Len(flist[f]) /\ flist[f][p] = s
        /\ flist[f] \in Seq(Sas)
    BY <1>1, <1>2, <1>4, PositionProps
  <2>2. flist' = [flist EXCEPT ![f] = RemoveAt(@, p)]
    BY <1>4 DEF RemoveLocked
  <2> HIDE DEF p
  <2> DEFINE old == flist[f]
             new == RemoveAt(old, p)
  <2>3. /\ new \in Seq(Sas) /\ Len(new) = Len(old) - 1 /\ Len(old) \in Nat
        /\ \A j \in 1 .. Len(old) - 1 :
              new[j] = IF j < p THEN old[j] ELSE old[j + 1]
    BY <2>1, RemoveAtProps, LenProperties
  <2>4. \A i, j \in 1 .. Len(old) : old[i] = old[j] => i = j
    BY <2>1 DEF IInv, FencesOnce
  <2>5. flist'[f] = new /\ \A q \in Queues \ {f} : flist'[q] = flist[q]
    BY <1>2, <2>1, <2>2
  <2>6. flist' \in [Queues -> Seq(Sas)]
    BY <1>2, <2>1, <2>2, <2>3
  <2>7. p \in 1 .. Len(old) /\ old[p] = s
    BY <2>1
  <2>8. ToSet(old) = {u \in Sas : fence[u] = f}
    BY <2>1 DEF IInv, FencesListed
  <2>9. old \in Seq(Sas) /\ f \in Queues /\ (old = <<>> => new = <<>>)
    BY <2>1
  <2> HIDE DEF new, old, f
  <2>10. \A i, j \in 1 .. Len(new) : new[i] = new[j] => i = j
    BY <2>3, <2>4, <2>7
  <2>11. ToSet(new) = ToSet(old) \ {s}
    <3>1. ASSUME NEW x \in ToSet(new) PROVE x \in ToSet(old) /\ x # s
      <4>1. PICK j \in 1 .. Len(new) : new[j] = x
        BY <2>3, ToSetProps
      <4>2. PICK k \in 1 .. Len(old) : old[k] = x /\ k # p
        BY <2>3, <2>7, <4>1
      <4> QED BY <2>4, <2>7, <2>9, <4>2, ToSetProps
    <3>2. ASSUME NEW x \in ToSet(old), x # s PROVE x \in ToSet(new)
      <4>1. PICK k \in 1 .. Len(old) : old[k] = x /\ k # p
        BY <2>7, <2>9, <3>2, ToSetProps
      <4>2. \E j \in 1 .. Len(new) : new[j] = x
        <5>1. CASE k < p
          BY <2>3, <2>7, <4>1, <5>1
        <5>2. CASE k > p
          <6>1. k - 1 \in 1 .. Len(new) /\ ~(k - 1 < p) /\ (k - 1) + 1 = k
            BY <2>3, <2>7, <4>1, <5>2
          <6>2. new[k - 1] = x
            BY <2>3, <4>1, <6>1
          <6> QED BY <6>1, <6>2
        <5> QED BY <2>3, <2>7, <4>1, <5>1, <5>2
      <4> QED BY <2>3, <4>2, ToSetProps
    <3> QED BY <3>1, <3>2
  <2>12. \A u \in Sas : fence'[u] = IF u = s THEN NoOne ELSE fence[u]
    BY <1>1, <1>2
  <2>13. FenceTypes'
    BY <1>1, <1>2, <2>6 DEF FenceTypes
  <2>14. FencesOnce'
    BY <1>1, <1>2, <2>5, <2>10, <2>12, ZenonT(60) DEF IInv, FencesOnce
  <2>15. ASSUME NEW q \in Queues
         PROVE  ToSet(flist'[q]) = {u \in Sas : fence'[u] = q}
    <3>1. CASE q = f
      BY <1>2, <2>5, <2>8, <2>11, <2>12, <3>1
    <3>2. CASE q # f
      <4>1. fence[s] = f
        BY DEF f
      <4>2. ToSet(flist[q]) = {u \in Sas : fence[u] = q}
        BY DEF IInv, FencesListed
      <4> QED BY <1>2, <2>5, <2>12, <3>2, <4>1, <4>2
    <3> QED BY <3>1, <3>2
  <2>16. \A q \in Queues : flist[q] = <<>> => flist'[q] = <<>>
    BY <2>5, <2>9 DEF old
  <2> QED BY <2>13, <2>14, <2>15, <2>16
<1> QED BY <1>3, <1>4

(* The list without an entry is still in order. *)
LEMMA RemoveList ==
    ASSUME IInv, NEW s, InList(s), NEW base \in 0 .. Len(olist),
           RemoveLocked(s, base)
    PROVE  /\ ListTypes' /\ ListOrdered' /\ ListAligned'
           /\ \A u : InList(u)' <=> InList(u) /\ u # s
           /\ \A u \in Sas \ {s} : /\ soffset'[u] = soffset[u]
                                   /\ eoffset'[u] = eoffset[u]
<1> DEFINE k == Index(s)
<1>1. /\ s \in Sas /\ k \in 1 .. Len(olist) /\ olist[k] = s
      /\ \A i \in 1 .. Len(olist) : olist[i] = s => i = k
      /\ olist \in Seq(Sas) /\ Len(olist) \in Nat
  BY IndexProps DEF IInv, TypeOK, ListTypes
<1>2. /\ olist' = RemoveAt(olist, k)
      /\ hole' = IF base >= k THEN base - 1 ELSE base
      /\ soffset' = [soffset EXCEPT ![s] = 0]
      /\ eoffset' = [eoffset EXCEPT ![s] = 0]
  BY DEF RemoveLocked
<1> HIDE DEF k
<1>3. /\ olist' \in Seq(Sas) /\ Len(olist') = Len(olist) - 1
      /\ \A j \in 1 .. Len(olist) - 1 :
            olist'[j] = IF j < k THEN olist[j] ELSE olist[j + 1]
  BY <1>1, <1>2, RemoveAtProps
<1>4. ListTypes'
  <2>1. hole' \in 0 .. Len(olist')
    BY <1>1, <1>2, <1>3
  <2>2. 0 \in 0 .. Size
    BY PoolAssumption
  <2> QED BY <1>1, <1>2, <1>3, <2>1, <2>2 DEF IInv, TypeOK, ListTypes
<1>5. \A u \in Sas \ {s} : soffset'[u] = soffset[u] /\ eoffset'[u] = eoffset[u]
  BY <1>1, <1>2 DEF IInv, TypeOK, ListTypes
<1> DEFINE old(j) == IF j < k THEN j ELSE j + 1
<1>6. ASSUME NEW j \in 1 .. Len(olist')
      PROVE  /\ old(j) \in 1 .. Len(olist) /\ olist'[j] = olist[old(j)]
             /\ olist'[j] \in Sas \ {s}
  BY <1>1, <1>3
<1>7. ASSUME NEW i \in 1 .. Len(olist'), NEW j \in 1 .. Len(olist'), i < j
      PROVE  old(i) < old(j)
  BY <1>1, <1>7
<1> HIDE DEF old
<1>8. ListOrdered'
  <2>1. ASSUME NEW j \in 1 .. Len(olist')
        PROVE  soffset'[olist'[j]] < eoffset'[olist'[j]]
    BY <1>5, <1>6 DEF IInv, ListOrdered
  <2>2. ASSUME NEW i \in 1 .. Len(olist'), NEW j \in 1 .. Len(olist'), i < j
        PROVE  eoffset'[olist'[i]] <= soffset'[olist'[j]]
    <3>1. old(i) < old(j)
      BY <1>7, <2>2
    <3>2. eoffset[olist[old(i)]] <= soffset[olist[old(j)]]
      BY <1>6, <3>1 DEF IInv, ListOrdered
    <3> QED BY <1>5, <1>6, <3>2
  <2> QED BY <2>1, <2>2 DEF ListOrdered
<1>9. ListAligned'
  BY <1>5, <1>6 DEF IInv, ListAligned
<1>10. ASSUME NEW u PROVE InList(u)' <=> InList(u) /\ u # s
  <2>1. ASSUME InList(u)' PROVE InList(u) /\ u # s
    BY <1>6, <2>1 DEF InList
  <2>2. ASSUME InList(u), u # s PROVE InList(u)'
    <3>1. PICK i \in 1 .. Len(olist) : olist[i] = u
      BY <2>2 DEF InList
    <3>2. CASE i < k
      BY <1>1, <1>3, <3>1, <3>2 DEF InList
    <3>3. CASE i > k
      <4>1. i - 1 \in 1 .. Len(olist') /\ ~(i - 1 < k) /\ (i - 1) + 1 = i
        BY <1>1, <1>3, <3>3
      <4>2. olist'[i - 1] = u
        BY <1>3, <3>1, <4>1
      <4> QED BY <4>1, <4>2 DEF InList
    <3> QED BY <1>1, <2>2, <3>1, <3>2, <3>3
  <2> QED BY <2>1, <2>2
<1> QED BY <1>4, <1>5, <1>8, <1>9, <1>10

(* drm_suballoc_remove_locked keeps the invariant, when nobody is left that *)
(* holds the entry.                                                         *)
LEMMA RemoveKeeps ==
    ASSUME IInv, NEW s, InList(s), NEW base \in 0 .. Len(olist),
           RemoveLocked(s, base), CallTypes',
           lock' \in Threads \cup {NoOne}, tries' \in [Queues -> 0 .. 3],
           \A u \in Threads :
               /\ pc'[u] = "hold" <=> pc[u] = "hold" /\ sa[u] # s
               /\ pc'[u] \in Waits <=> pc[u] \in Waits
               /\ pc[u] = "idle" => pc'[u] = "idle"
               /\ pc[u] = "fences" => pc'[u] = "fences"
               /\ pc'[u] = "asleep" => pc[u] = "asleep"
               /\ pc'[u] # "idle" => sa'[u] = sa[u],
           UNCHANGED <<waitset, fini>>
    PROVE  IInv'
<1>1. /\ ListTypes' /\ ListOrdered' /\ ListAligned'
      /\ \A u : InList(u)' <=> InList(u) /\ u # s
  BY RemoveList
<1>2. /\ FenceTypes' /\ FencesOnce'
      /\ \A q \in Queues : ToSet(flist'[q]) = {u \in Sas : fence'[u] = q}
      /\ \A q \in Queues : flist[q] = <<>> => flist'[q] = <<>>
  BY RemoveFences
<1>3. /\ s \in Sas /\ fence \in [Sas -> Queues \cup {NoOne}]
      /\ fence' = [fence EXCEPT ![s] = NoOne]
  BY IndexProps DEF RemoveLocked, IInv, TypeOK, FenceTypes
<1>4. \A u \in Sas : fence'[u] = IF u = s THEN NoOne ELSE fence[u]
  BY <1>3
<1>5. TypeOK'
  BY <1>1, <1>2 DEF TypeOK
<1>6. FencesListed'
  BY <1>1, <1>2, <1>4 DEF IInv, FencesListed
<1>7. ASSUME NEW u \in Threads PROVE CallAgrees(u)'
  <2>1. CallAgrees(u)
    BY DEF IInv
  <2>2. pc'[u] \in Waits => pc'[u] # "idle"
    BY DEF Waits, Inside
  <2>3. pc'[u] = "hold" => sa[u] \in Sas /\ fence'[sa[u]] = NoOne
    BY <1>4, <2>1, IndexProps DEF CallAgrees
  <2> QED BY <1>1, <2>1, <2>2, <2>3 DEF CallAgrees
<1>8. OwnersDiffer'
  BY DEF IInv, OwnersDiffer
<1>9. EntriesOwned'
  <2> SUFFICES ASSUME NEW u \in Sas, InList(u)', fence'[u] = NoOne
               PROVE  \E t \in Threads : pc'[t] = "hold" /\ sa'[t] = u
    BY DEF EntriesOwned
  <2>1. InList(u) /\ u # s /\ fence[u] = NoOne
    BY <1>1, <1>4
  <2>2. PICK t \in Threads : pc[t] = "hold" /\ sa[t] = u
    BY <2>1 DEF IInv, EntriesOwned
  <2> QED BY <2>1, <2>2
<1>10. SleepersHaveNoFence'
  BY <1>2 DEF IInv, SleepersHaveNoFence
<1> QED BY <1>1, <1>2, <1>5, <1>6, <1>7, <1>8, <1>9, <1>10 DEF IInv

(* A step that moves one thread, and changes no entry. *)
LEMMA MoveKeeps ==
    ASSUME IInv, NEW t \in Threads, TypeOK', CallAgrees(t)',
           UNCHANGED <<olist, soffset, eoffset, fenceVars, fini>>,
           \A u \in Threads \ {t} : /\ pc'[u] = pc[u] /\ sa'[u] = sa[u]
                                    /\ waitset'[u] = waitset[u],
           \/ pc'[t] = "idle"
           \/ pc[t] # "idle" /\ sa'[t] = sa[t]
           \/ \A u \in Threads \ {t} : pc[u] # "idle" => sa[u] # sa'[t],
           pc[t] # "hold" /\ pc'[t] # "hold",
           \/ pc'[t] # "asleep"
           \/ \A q \in Queues : flist[q] = <<>>
    PROVE  IInv'
<1> USE DEF IInv, fenceVars
<1>1. \A u : InList(u)' <=> InList(u)
  BY DEF InList
<1>2. ListOrdered' /\ ListAligned'
  BY DEF ListOrdered, ListAligned
<1>3. FencesListed' /\ FencesOnce'
  BY <1>1 DEF FencesListed, FencesOnce
<1>4. ASSUME NEW u \in Threads, u # t PROVE CallAgrees(u)'
  BY <1>1, <1>4 DEF CallAgrees
<1>5. OwnersDiffer'
  BY DEF OwnersDiffer
<1>6. EntriesOwned'
  <2> SUFFICES ASSUME NEW s \in Sas, InList(s), fence[s] = NoOne
               PROVE  \E u \in Threads : pc'[u] = "hold" /\ sa'[u] = s
    BY <1>1 DEF EntriesOwned
  <2>1. PICK u \in Threads : pc[u] = "hold" /\ sa[u] = s
    BY DEF EntriesOwned
  <2> QED BY <2>1
<1>7. SleepersHaveNoFence'
  BY DEF SleepersHaveNoFence
<1> QED BY <1>2, <1>3, <1>4, <1>5, <1>6, <1>7

-----------------------------------------------------------------------------
(* drm_suballoc_new *)

(* The structure is allocated. *)
LEMMA NewKeeps ==
    ASSUME IInv, NEW t \in Threads, New(t)
    PROVE  IInv'
<1>1. PICK n \in Want[t] : size' = [size EXCEPT ![t] = n]
  BY DEF New
<1>2. PICK s \in Unused : sa' = [sa EXCEPT ![t] = s]
  BY DEF New
<1>3. /\ pc[t] = "idle" /\ ~fini /\ pc' = [pc EXCEPT ![t] = "lock"]
      /\ UNCHANGED <<listVars, fenceVars, lock, tries, waitset, fini>>
  BY DEF New, Goto
<1>4. /\ s \in Sas /\ ~InList(s)
      /\ \A u \in Threads : pc[u] \notin {"idle", "hold"} => sa[u] # s
  BY DEF Unused
<1>5. n \in 1 .. Size
  BY PoolAssumption
<1>6. CallTypes' /\ sa'[t] = s /\ pc'[t] = "lock" /\ pc'[t] \in Waits
  BY <1>1, <1>2, <1>3, <1>4, <1>5 DEF IInv, TypeOK, CallTypes, Waits
<1>7. TypeOK'
  BY <1>3, <1>6 DEF IInv, TypeOK, ListTypes, FenceTypes, listVars, fenceVars
<1>8. CallAgrees(t)'
  BY <1>3, <1>4, <1>6 DEF IInv, CallAgrees, InList, listVars
<1>9. \A u \in Threads \ {t} : pc[u] # "idle" => sa[u] # s
  BY <1>4 DEF IInv, CallAgrees
<1>10. \A u \in Threads \ {t} : /\ pc'[u] = pc[u] /\ sa'[u] = sa[u]
                                /\ waitset'[u] = waitset[u]
  BY <1>2, <1>3 DEF IInv, TypeOK, CallTypes
<1> QED BY <1>3, <1>6, <1>7, <1>8, <1>9, <1>10, MoveKeeps DEF listVars

(* A step of a waiting thread that moves on, with the same request. *)
LEMMA WaitsKeeps ==
    ASSUME IInv, NEW t \in Threads, NEW l \in Waits, pc[t] \in Waits,
           Goto(t, l),
           NEW w \in SUBSET Sas, waitset' = [waitset EXCEPT ![t] = w],
           w # {} => l = "fences", hole' \in 0 .. Len(olist),
           l # "asleep" \/ \A q \in Queues : flist[q] = <<>>,
           lock' \in Threads \cup {NoOne}, tries' \in [Queues -> 0 .. 3],
           UNCHANGED <<olist, soffset, eoffset, fenceVars, callVars>>
    PROVE  IInv'
<1>1. CallTypes' /\ pc'[t] = l /\ waitset'[t] = w
  BY DEF Goto, IInv, TypeOK, CallTypes, callVars
<1>2. TypeOK'
  BY <1>1 DEF IInv, TypeOK, ListTypes, FenceTypes, fenceVars
<1>3. pc[t] # "hold" /\ l # "hold" /\ pc[t] # "idle" /\ l # "idle"
  BY DEF Waits, Inside
<1>4. CallAgrees(t)'
  BY <1>1, <1>3 DEF IInv, CallAgrees, InList, callVars
<1>5. \A u \in Threads \ {t} : /\ pc'[u] = pc[u] /\ sa'[u] = sa[u]
                               /\ waitset'[u] = waitset[u]
  BY DEF Goto, IInv, TypeOK, CallTypes, callVars
<1>6. sa' = sa /\ fini' = fini
  BY DEF callVars
<1> QED BY <1>1, <1>2, <1>3, <1>4, <1>5, <1>6, MoveKeeps

(* The same, when the fences that it waits for do not change. *)
LEMMA StepsKeeps ==
    ASSUME IInv, NEW t \in Threads, NEW l \in Waits \ {"fences"},
           pc[t] \in Waits \ {"fences"}, Goto(t, l), hole' \in 0 .. Len(olist),
           l # "asleep" \/ \A q \in Queues : flist[q] = <<>>,
           lock' \in Threads \cup {NoOne}, tries' \in [Queues -> 0 .. 3],
           UNCHANGED <<olist, soffset, eoffset, fenceVars, callVars, waitset>>
    PROVE  IInv'
<1>1. waitset[t] = {} /\ waitset' = [waitset EXCEPT ![t] = {}]
  BY DEF IInv, CallAgrees, TypeOK, CallTypes
<1>2. {} \in SUBSET Sas
  OBVIOUS
<1> QED BY <1>1, <1>2, WaitsKeeps

(* The lock is taken. *)
LEMMA LockKeeps ==
    ASSUME IInv, NEW t \in Threads, Lock(t)
    PROVE  IInv'
<1>1. "lock" \in Waits \ {"fences"} /\ "free" \in Waits \ {"fences", "asleep"}
  BY DEF Waits, Inside
<1>2. hole' \in 0 .. Len(olist) /\ tries' \in [Queues -> 0 .. 3]
  BY DEF Lock, listVars, IInv, TypeOK, ListTypes
<1> QED BY <1>1, <1>2, StepsKeeps DEF Lock, listVars

(* An entry whose fence has signalled is removed. *)
LEMMA ReclaimKeeps ==
    ASSUME IInv, NEW t \in Threads, pc[t] \in Inside, NEW l \in Inside,
           Goto(t, l), NEW s \in signaled, NEW base \in 0 .. Len(olist),
           RemoveLocked(s, base), UNCHANGED <<lock, callVars, waitset>>,
           tries' \in [Queues -> 0 .. 3]
    PROVE  IInv'
<1>1. s \in Sas /\ fence[s] # NoOne /\ InList(s)
  BY DEF IInv, TypeOK, FenceTypes, FencesOnce, FencesListed
<1>2. /\ pc[t] \in Waits /\ l \in Waits
      /\ pc[t] \notin {"idle", "hold", "fences", "asleep"}
      /\ l \notin {"idle", "hold", "fences", "asleep"}
  BY DEF Waits, Inside
<1>3. CallTypes' /\ pc'[t] = l /\ \A u \in Threads \ {t} : pc'[u] = pc[u]
  BY <1>2 DEF Goto, IInv, TypeOK, CallTypes, callVars
<1>4. ASSUME NEW u \in Threads, pc[u] = "hold" PROVE sa[u] # s
  BY <1>1, <1>4 DEF IInv, CallAgrees
<1>5. lock' \in Threads \cup {NoOne} /\ sa' = sa /\ fini' = fini
  BY DEF IInv, TypeOK, callVars
<1>6. ASSUME NEW u \in Threads
      PROVE  /\ pc'[u] = "hold" <=> pc[u] = "hold" /\ sa[u] # s
             /\ pc'[u] \in Waits <=> pc[u] \in Waits
             /\ pc[u] = "idle" => pc'[u] = "idle"
             /\ pc[u] = "fences" => pc'[u] = "fences"
             /\ pc'[u] = "asleep" => pc[u] = "asleep"
             /\ pc'[u] # "idle" => sa'[u] = sa[u]
  BY <1>2, <1>3, <1>4, <1>5
<1> QED BY <1>1, <1>3, <1>5, <1>6, RemoveKeeps

(* drm_suballoc_try_free *)
LEMMA TryFreeKeeps ==
    ASSUME IInv, NEW t \in Threads, TryFree(t)
    PROVE  IInv'
<1>1. /\ pc[t] = "free" /\ UNCHANGED <<lock, tries, callVars, waitset>>
      /\ hole \in 0 .. Len(olist) /\ tries \in [Queues -> 0 .. 3]
      /\ lock \in Threads \cup {NoOne}
      /\ pc \in [Threads -> Waits \cup {"idle", "hold"}]
  BY DEF TryFree, IInv, TypeOK, ListTypes, CallTypes
<1>2. CASE hole < Len(olist) /\ olist[hole + 1] \in signaled
  <2>1. RemoveLocked(olist[hole + 1], hole) /\ pc' = pc
    BY <1>2 DEF TryFree
  <2>2. "free" \in Inside /\ Goto(t, "free")
    BY <1>1, <2>1 DEF Inside, Goto
  <2> QED BY <1>1, <1>2, <2>1, <2>2, ReclaimKeeps
<1>3. CASE ~(hole < Len(olist) /\ olist[hole + 1] \in signaled)
  <2>1. Goto(t, "alloc") /\ UNCHANGED <<listVars, fenceVars>>
    BY <1>3 DEF TryFree
  <2>2. /\ "free" \in Waits \ {"fences"}
        /\ "alloc" \in Waits \ {"fences", "asleep"}
    BY DEF Waits, Inside
  <2> QED BY <1>1, <2>1, <2>2, StepsKeeps DEF listVars
<1> QED BY <1>2, <1>3

(* drm_suballoc_next_hole *)
LEMMA NextHoleKeeps ==
    ASSUME IInv, NEW t \in Threads,
           NextHoleWrap(t) \/ NextHoleSkip(t) \/ NextHoleWait(t)
    PROVE  IInv'
<1>1. /\ "next" \in Waits \ {"fences"}
      /\ "free" \in Waits \ {"fences", "asleep"}
      /\ "event" \in Waits \ {"fences", "asleep"} /\ "fences" \in Waits
      /\ "next" \in Inside /\ "free" \in Inside
  BY DEF Waits, Inside
<1>2. /\ hole \in 0 .. Len(olist) /\ tries \in [Queues -> 0 .. 3]
      /\ lock \in Threads \cup {NoOne} /\ Len(olist) \in Nat
  BY DEF IInv, TypeOK, ListTypes
<1>3. CASE NextHoleWrap(t)
  <2>1. hole' \in 0 .. Len(olist)
    BY <1>2, <1>3 DEF NextHoleWrap
  <2> QED BY <1>1, <1>2, <1>3, <2>1, StepsKeeps DEF NextHoleWrap
<1>4. CASE NextHoleSkip(t)
  <2>1. PICK q \in Candidates :
           /\ tries' = [tries EXCEPT ![q] = @ + 1]
           /\ RemoveLocked(Head(flist[q]), Index(Head(flist[q])) - 1)
    BY <1>4 DEF NextHoleSkip
  <2> DEFINE s == Head(flist[q])
  <2>2. q \in Queues /\ s \in signaled /\ tries[q] <= 2
    BY DEF Candidates, Listed
  <2> HIDE DEF s
  <2>3. s \in Sas /\ InList(s)
    BY <2>2 DEF IInv, TypeOK, FenceTypes, FencesOnce, FencesListed
  <2>4. Index(s) - 1 \in 0 .. Len(olist)
    BY <1>2, <2>3, IndexProps
  <2>5. tries' \in [Queues -> 0 .. 3]
    BY <1>2, <2>1, <2>2
  <2>6. RemoveLocked(s, Index(s) - 1)
    BY <2>1 DEF s
  <2> QED BY <1>1, <1>4, <2>2, <2>4, <2>5, <2>6, ReclaimKeeps DEF NextHoleSkip
<1>5. CASE NextHoleWait(t)
  <2> DEFINE oldest == {Head(flist[q]) : q \in Listed} \ signaled
             l == IF oldest # {} THEN "fences" ELSE "event"
  <2>1. /\ waitset' = [waitset EXCEPT ![t] = oldest] /\ Goto(t, l)
        /\ lock' = NoOne /\ tries' = NoTries /\ pc[t] = "next"
        /\ UNCHANGED <<listVars, fenceVars, callVars>>
    BY <1>5 DEF NextHoleWait, Unlock
  <2>2. oldest \in SUBSET Sas
    <3>1. ASSUME NEW q \in Listed PROVE Head(flist[q]) \in Sas
      BY DEF Listed, IInv, TypeOK, FenceTypes
    <3> QED BY <3>1
  <2>3. l \in Waits /\ l # "asleep" /\ (oldest # {} => l = "fences")
    BY <1>1
  <2>4. tries' \in [Queues -> 0 .. 3] /\ hole' \in 0 .. Len(olist)
    BY <1>2, <2>1 DEF NoTries, listVars
  <2> HIDE DEF oldest, l
  <2> QED BY <1>1, <2>1, <2>2, <2>3, <2>4, WaitsKeeps DEF listVars
<1> QED BY <1>3, <1>4, <1>5

(* A thread gives up. *)
LEMMA FailKeeps ==
    ASSUME IInv, NEW t \in Threads, Fail(t), pc[t] \in Waits
    PROVE  IInv'
<1>1. /\ pc' = [pc EXCEPT ![t] = "idle"] /\ sa' = [sa EXCEPT ![t] = 0]
      /\ size' = [size EXCEPT ![t] = 1] /\ fini' = fini
      /\ waitset' = [waitset EXCEPT ![t] = {}]
      /\ UNCHANGED <<listVars, fenceVars, lock, tries>>
  BY DEF Fail, Goto, Forget
<1>2. 1 \in 1 .. Size
  BY PoolAssumption
<1>3. CallTypes' /\ pc'[t] = "idle" /\ waitset'[t] = {}
  BY <1>1, <1>2 DEF IInv, TypeOK, CallTypes
<1>4. TypeOK'
  BY <1>1, <1>3 DEF IInv, TypeOK, ListTypes, FenceTypes, listVars, fenceVars
<1>5. pc[t] # "hold" /\ "idle" \notin Waits
  BY DEF Waits, Inside
<1>6. CallAgrees(t)'
  BY <1>3, <1>5 DEF CallAgrees
<1>7. \A u \in Threads \ {t} : /\ pc'[u] = pc[u] /\ sa'[u] = sa[u]
                               /\ waitset'[u] = waitset[u]
  BY <1>1 DEF IInv, TypeOK, CallTypes
<1> QED BY <1>1, <1>3, <1>4, <1>5, <1>6, <1>7, MoveKeeps DEF listVars

(* The waits without a fence: the condition is tested, time passes, signals *)
(* arrive.                                                                  *)
LEMMA EventKeeps ==
    ASSUME IInv, NEW t \in Threads, EventCheck(t) \/ Expire(t) \/ Interrupt(t)
    PROVE  IInv'
<1>1. /\ {"fences", "event", "asleep", "lock"} \subseteq Waits
      /\ hole \in 0 .. Len(olist) /\ tries \in [Queues -> 0 .. 3]
      /\ lock \in Threads \cup {NoOne}
  BY DEF Waits, IInv, TypeOK, ListTypes
<1>2. CASE EventCheck(t)
  <2> DEFINE l == IF Event(t) THEN "lock" ELSE "asleep"
  <2>1. /\ pc[t] = "event" /\ Goto(t, l)
        /\ UNCHANGED <<listVars, fenceVars, lock, tries, callVars, waitset>>
    BY <1>2 DEF EventCheck
  <2>2. /\ l \in Waits \ {"fences"}
        /\ l # "asleep" \/ \A q \in Queues : flist[q] = <<>>
    BY <1>1 DEF Event
  <2> HIDE DEF l
  <2> QED BY <1>1, <2>1, <2>2, StepsKeeps DEF listVars
<1>3. CASE Fail(t) /\ pc[t] \in {"fences", "event", "asleep"}
  BY <1>1, <1>3, FailKeeps
<1>4. CASE /\ pc[t] \in {"event", "asleep"} /\ Goto(t, "lock")
           /\ UNCHANGED <<listVars, fenceVars, lock, tries, callVars, waitset>>
  BY <1>1, <1>4, StepsKeeps DEF listVars
<1> QED BY <1>2, <1>3, <1>4 DEF Expire, Interrupt

(* The hole lies between the entries before it and those behind it. *)
LEMMA HoleProps ==
    ASSUME IInv
    PROVE  /\ HoleSoffset \in 0 .. Size /\ HoleEoffset \in 0 .. Size
           /\ \A i \in 1 .. hole : eoffset[olist[i]] <= HoleSoffset
           /\ \A i \in hole + 1 .. Len(olist) :
                 HoleEoffset <= soffset[olist[i]]
<1>1. /\ olist \in Seq(Sas) /\ Len(olist) \in Nat /\ hole \in 0 .. Len(olist)
      /\ soffset \in [Sas -> 0 .. Size] /\ eoffset \in [Sas -> 0 .. Size]
      /\ Size \in Nat /\ \A i \in 1 .. Len(olist) : olist[i] \in Sas
  BY PoolAssumption DEF IInv, TypeOK, ListTypes
<1>2. \A i \in 1 .. Len(olist) : /\ soffset[olist[i]] \in 0 .. Size
                                 /\ eoffset[olist[i]] \in 0 .. Size
                                 /\ soffset[olist[i]] < eoffset[olist[i]]
  BY <1>1 DEF IInv, ListOrdered
<1>3. HoleSoffset \in 0 .. Size
  BY <1>1, <1>2 DEF HoleSoffset
<1>4. HoleEoffset \in 0 .. Size
  <2>1. CASE hole < Len(olist)
    <3>1. hole + 1 \in 1 .. Len(olist)
      BY <1>1, <2>1
    <3> QED BY <1>2, <2>1, <3>1 DEF HoleEoffset
  <2>2. CASE ~(hole < Len(olist))
    BY <1>1, <2>2 DEF HoleEoffset
  <2> QED BY <2>1, <2>2
<1>5. ASSUME NEW i \in 1 .. hole PROVE eoffset[olist[i]] <= HoleSoffset
  <2>1. hole # 0 /\ hole \in 1 .. Len(olist) /\ i \in 1 .. Len(olist)
    BY <1>1
  <2>2. HoleSoffset = eoffset[olist[hole]]
    BY <2>1 DEF HoleSoffset
  <2>3. i < hole => eoffset[olist[i]] <= soffset[olist[hole]]
    BY <2>1 DEF IInv, ListOrdered
  <2>4. /\ soffset[olist[hole]] < eoffset[olist[hole]]
        /\ soffset[olist[hole]] \in Int /\ eoffset[olist[hole]] \in Int
        /\ eoffset[olist[i]] \in Int
    BY <1>2, <2>1
  <2>5. CASE i < hole
    BY <2>2, <2>3, <2>4, <2>5
  <2>6. CASE i = hole
    BY <2>2, <2>4, <2>6
  <2> QED BY <1>1, <2>5, <2>6
<1>6. ASSUME NEW i \in hole + 1 .. Len(olist)
      PROVE  HoleEoffset <= soffset[olist[i]]
  <2>1. /\ hole < Len(olist) /\ hole + 1 \in 1 .. Len(olist)
        /\ i \in 1 .. Len(olist)
    BY <1>1
  <2>2. HoleEoffset = soffset[olist[hole + 1]]
    BY <2>1 DEF HoleEoffset
  <2>3. hole + 1 < i => eoffset[olist[hole + 1]] <= soffset[olist[i]]
    BY <2>1 DEF IInv, ListOrdered
  <2>4. /\ soffset[olist[hole + 1]] < eoffset[olist[hole + 1]]
        /\ soffset[olist[hole + 1]] \in Int /\ eoffset[olist[hole + 1]] \in Int
        /\ soffset[olist[i]] \in Int
    BY <1>2, <2>1
  <2>5. CASE hole + 1 < i
    BY <2>2, <2>3, <2>4, <2>5
  <2>6. CASE i = hole + 1
    BY <2>2, <2>4, <2>6
  <2> QED BY <1>1, <2>5, <2>6
<1> QED BY <1>3, <1>4, <1>5, <1>6

(* What drm_suballoc_try_alloc takes from the hole. *)
Taken(t, lo, hi) ==
    /\ lo \in 0 .. Size /\ hi \in 0 .. Size /\ lo < hi /\ lo % Align = 0
    /\ \A i \in 1 .. hole : eoffset[olist[i]] <= lo
    /\ \A i \in hole + 1 .. Len(olist) : hi <= soffset[olist[i]]
    /\ soffset' = [soffset EXCEPT ![sa[t]] = lo]
    /\ eoffset' = [eoffset EXCEPT ![sa[t]] = hi]
    /\ olist' = InsertAt(olist, hole + 1, sa[t]) /\ hole' = hole + 1
    /\ lock' = NoOne /\ tries' = NoTries
    /\ pc' = [pc EXCEPT ![t] = "hold"]
    /\ UNCHANGED <<fenceVars, callVars, waitset>>

(* It is aligned, and inside the hole. *)
LEMMA AllocTakes ==
    ASSUME IInv, NEW t \in Threads, TryAlloc(t), Fits(size[t])
    PROVE  \E lo, hi : Taken(t, lo, hi)
<1> DEFINE lo == HoleSoffset + Wasted
           hi == HoleSoffset + Wasted + size[t]
<1>1. /\ HoleSoffset \in 0 .. Size /\ HoleEoffset \in 0 .. Size
      /\ \A i \in 1 .. hole : eoffset[olist[i]] <= HoleSoffset
      /\ \A i \in hole + 1 .. Len(olist) : HoleEoffset <= soffset[olist[i]]
  BY HoleProps
<1>2. Size \in Nat /\ size[t] \in 1 .. Size
  BY PoolAssumption DEF IInv, TypeOK, CallTypes
<1>3. HoleSoffset \in Nat
  BY <1>1, <1>2
<1>4. /\ RoundUp(HoleSoffset) \in Nat /\ RoundUp(HoleSoffset) >= HoleSoffset
      /\ RoundUp(HoleSoffset) % Align = 0
  BY <1>3, RoundUpProps
<1>5. Wasted = RoundUp(HoleSoffset) - HoleSoffset
  BY DEF Wasted
<1>6. lo = RoundUp(HoleSoffset) /\ hi = RoundUp(HoleSoffset) + size[t]
  BY <1>2, <1>3, <1>4, <1>5
<1>7. HoleEoffset - HoleSoffset >= size[t] + Wasted
  BY DEF Fits
<1>8. hi <= HoleEoffset
  BY <1>1, <1>2, <1>3, <1>4, <1>5, <1>6, <1>7
<1>9. /\ soffset' = [soffset EXCEPT ![sa[t]] = lo]
      /\ eoffset' = [eoffset EXCEPT ![sa[t]] = hi]
      /\ olist' = InsertAt(olist, hole + 1, sa[t]) /\ hole' = hole + 1
      /\ lock' = NoOne /\ tries' = NoTries
      /\ pc' = [pc EXCEPT ![t] = "hold"]
      /\ UNCHANGED <<fenceVars, callVars, waitset>>
  BY DEF TryAlloc, Goto, Unlock
<1>10. /\ lo \in 0 .. Size /\ hi \in 0 .. Size /\ lo < hi /\ lo % Align = 0
       /\ HoleSoffset <= lo /\ hi <= HoleEoffset
       /\ lo \in Int /\ hi \in Int
  BY <1>1, <1>2, <1>3, <1>4, <1>6, <1>8
<1> HIDE DEF lo, hi
<1>11. /\ \A i \in 1 .. Len(olist) : /\ soffset[olist[i]] \in Int
                                     /\ eoffset[olist[i]] \in Int
       /\ hole \in 0 .. Len(olist) /\ Len(olist) \in Nat
  BY DEF IInv, TypeOK, ListTypes
<1>12. \A i \in 1 .. hole : eoffset[olist[i]] <= lo
  BY <1>1, <1>2, <1>10, <1>11
<1>13. \A i \in hole + 1 .. Len(olist) : hi <= soffset[olist[i]]
  BY <1>1, <1>2, <1>10, <1>11
<1> QED BY <1>9, <1>10, <1>12, <1>13 DEF Taken

(* The list with the new entry behind the hole. *)
LEMMA TakenList ==
    ASSUME IInv, NEW t \in Threads, NEW lo, NEW hi, Taken(t, lo, hi),
           pc[t] = "alloc"
    PROVE  /\ ListTypes' /\ ListOrdered' /\ ListAligned'
           /\ sa[t] \in Sas /\ ~InList(sa[t])
           /\ \A u : InList(u)' <=> InList(u) \/ u = sa[t]
           /\ \A u \in Sas \ {sa[t]} : /\ soffset'[u] = soffset[u]
                                       /\ eoffset'[u] = eoffset[u]
           /\ soffset'[sa[t]] = lo /\ eoffset'[sa[t]] = hi
<1> DEFINE s == sa[t]
<1>1. s \in Sas /\ ~InList(s)
  BY DEF IInv, CallAgrees, Waits, Inside
<1> HIDE DEF s
<1>2. /\ olist \in Seq(Sas) /\ Len(olist) \in Nat /\ hole \in 0 .. Len(olist)
      /\ soffset \in [Sas -> 0 .. Size] /\ eoffset \in [Sas -> 0 .. Size]
      /\ \A i \in 1 .. Len(olist) : olist[i] \in Sas \ {s}
  BY <1>1 DEF IInv, TypeOK, ListTypes, InList
<1>3. /\ soffset' = [soffset EXCEPT ![s] = lo]
      /\ eoffset' = [eoffset EXCEPT ![s] = hi]
      /\ olist' = InsertAt(olist, hole + 1, s) /\ hole' = hole + 1
      /\ lo \in 0 .. Size /\ hi \in 0 .. Size /\ lo < hi /\ lo % Align = 0
      /\ \A i \in 1 .. hole : eoffset[olist[i]] <= lo
      /\ \A i \in hole + 1 .. Len(olist) : hi <= soffset[olist[i]]
  BY DEF Taken, s
<1> DEFINE k == hole + 1
<1>4. k \in 1 .. Len(olist) + 1 /\ k - 1 = hole /\ hole + 1 = k
  BY <1>2
<1> HIDE DEF k
<1>5. /\ olist' \in Seq(Sas) /\ Len(olist') = Len(olist) + 1
      /\ olist'[k] = s
      /\ \A j \in 1 .. k - 1 : olist'[j] = olist[j]
      /\ \A j \in k + 1 .. Len(olist) + 1 : olist'[j] = olist[j - 1]
  <2>1. InsertAt(olist, k, s) = olist'
    BY <1>3 DEF k
  <2>2. olist \in Seq(Sas) /\ k \in 1 .. Len(olist) + 1 /\ s \in Sas
    BY <1>1, <1>2, <1>4
  <2>3. /\ InsertAt(olist, k, s) \in Seq(Sas)
        /\ Len(InsertAt(olist, k, s)) = Len(olist) + 1
        /\ InsertAt(olist, k, s)[k] = s
        /\ \A j \in 1 .. k - 1 : InsertAt(olist, k, s)[j] = olist[j]
        /\ \A j \in k + 1 .. Len(olist) + 1 :
              InsertAt(olist, k, s)[j] = olist[j - 1]
    BY <2>2, InsertAtProps
  <2> QED BY <2>1, <2>3
<1>6. /\ \A u \in Sas \ {s} : /\ soffset'[u] = soffset[u]
                              /\ eoffset'[u] = eoffset[u]
      /\ soffset'[s] = lo /\ eoffset'[s] = hi
  BY <1>1, <1>2, <1>3
<1>7. ListTypes'
  <2>1. /\ soffset' \in [Sas -> 0 .. Size] /\ eoffset' \in [Sas -> 0 .. Size]
    BY <1>2, <1>3
  <2>2. hole' \in 0 .. Len(olist')
    BY <1>2, <1>3, <1>5
  <2> QED BY <1>5, <2>1, <2>2 DEF ListTypes
<1> DEFINE old(j) == IF j < k THEN j ELSE j - 1
<1>8. ASSUME NEW j \in 1 .. Len(olist'), j # k
      PROVE  /\ old(j) \in 1 .. Len(olist) /\ olist'[j] = olist[old(j)]
             /\ olist'[j] \in Sas \ {s}
             /\ j < k => old(j) \in 1 .. k - 1
             /\ k < j => old(j) \in k .. Len(olist)
  <2>1. CASE j < k
    <3>1. /\ old(j) = j /\ j \in 1 .. k - 1 /\ j \in 1 .. Len(olist)
          /\ ~(k < j)
      BY <1>2, <1>4, <1>5, <2>1
    <3> HIDE DEF old
    <3> QED BY <1>2, <1>5, <3>1
  <2>2. CASE k < j
    <3>1. j \in k + 1 .. Len(olist) + 1
      BY <1>2, <1>4, <1>5, <2>2
    <3>2. old(j) = j - 1 /\ j - 1 \in k .. Len(olist)
      BY <1>2, <1>4, <2>2, <3>1
    <3>3. j - 1 \in 1 .. Len(olist) /\ ~(j < k)
      BY <1>2, <1>4, <1>5, <2>2
    <3> HIDE DEF old
    <3>4. olist'[j] = olist[j - 1]
      BY <1>5, <3>1
    <3> QED BY <1>2, <3>2, <3>3, <3>4
  <2> QED BY <1>2, <1>4, <1>5, <1>8, <2>1, <2>2, SMTT(30)
<1>9. olist'[k] = s
  BY <1>2, <1>4, <1>5
<1>10. ASSUME NEW i \in 1 .. Len(olist'), NEW j \in 1 .. Len(olist'), i < j,
             i # k, j # k
      PROVE  old(i) < old(j)
  BY <1>2, <1>4, <1>10
<1> HIDE DEF old
<1>11. ListOrdered'
  <2>1. ASSUME NEW j \in 1 .. Len(olist')
        PROVE  soffset'[olist'[j]] < eoffset'[olist'[j]]
    BY <1>3, <1>6, <1>8, <1>9 DEF IInv, ListOrdered
  <2>2. ASSUME NEW i \in 1 .. Len(olist'), NEW j \in 1 .. Len(olist'), i < j
        PROVE  eoffset'[olist'[i]] <= soffset'[olist'[j]]
    <3>1. CASE i = k
      <4>1. j # k /\ k < j
        BY <1>4, <2>2, <3>1
      <4>2. old(j) \in k .. Len(olist) /\ olist'[j] = olist[old(j)]
            /\ olist'[j] \in Sas \ {s}
        BY <1>8, <4>1
      <4> QED BY <1>3, <1>4, <1>6, <1>9, <3>1, <4>2
    <3>2. CASE j = k
      <4>1. old(i) \in 1 .. k - 1 /\ olist'[i] = olist[old(i)]
            /\ olist'[i] \in Sas \ {s}
        BY <1>2, <1>4, <1>8, <2>2, <3>2, SMTT(30)
      <4> QED BY <1>3, <1>4, <1>6, <1>9, <3>2, <4>1
    <3>3. CASE i # k /\ j # k
      <4>1. old(i) < old(j)
        BY <1>10, <2>2, <3>3
      <4>2. eoffset[olist[old(i)]] <= soffset[olist[old(j)]]
        BY <1>8, <3>3, <4>1 DEF IInv, ListOrdered
      <4> QED BY <1>6, <1>8, <3>3, <4>2
    <3> QED BY <3>1, <3>2, <3>3
  <2> QED BY <2>1, <2>2 DEF ListOrdered
<1>12. ListAligned'
  BY <1>3, <1>6, <1>8, <1>9, SMTT(30) DEF IInv, ListAligned
<1>13. ASSUME NEW u PROVE InList(u)' <=> InList(u) \/ u = s
  <2>1. ASSUME InList(u)' PROVE InList(u) \/ u = s
    BY <1>8, <1>9, <2>1 DEF InList
  <2>2. ASSUME u = s PROVE InList(u)'
    BY <1>4, <1>5, <1>9, <2>2 DEF InList
  <2>3. ASSUME InList(u) PROVE InList(u)'
    <3>1. PICK i \in 1 .. Len(olist) : olist[i] = u
      BY <2>3 DEF InList
    <3>2. CASE i < k
      <4>1. i \in 1 .. k - 1 /\ i \in 1 .. Len(olist) + 1
        BY <1>2, <1>4, <3>1, <3>2
      <4> QED BY <1>5, <3>1, <4>1 DEF InList
    <3>3. CASE ~(i < k)
      <4>1. /\ i + 1 \in 1 .. Len(olist') /\ ~(i + 1 < k)
            /\ i + 1 # k /\ (i + 1) - 1 = i
        BY <1>2, <1>4, <1>5, <3>3
      <4>2. i + 1 \in k + 1 .. Len(olist) + 1
        BY <1>2, <1>4, <3>1, <3>3
      <4>3. olist'[i + 1] = u
        BY <1>5, <3>1, <4>1, <4>2
      <4> QED BY <4>1, <4>3 DEF InList
    <3> QED BY <3>2, <3>3
  <2> QED BY <2>1, <2>2, <2>3
<1> QED BY <1>1, <1>6, <1>7, <1>11, <1>12, <1>13 DEF s

(* drm_suballoc_try_alloc *)
LEMMA TryAllocKeeps ==
    ASSUME IInv, NEW t \in Threads, TryAlloc(t)
    PROVE  IInv'
<1>1. pc[t] = "alloc" /\ UNCHANGED <<fenceVars, callVars, waitset>>
  BY DEF TryAlloc
<1>2. CASE ~Fits(size[t])
  <2>1. Goto(t, "next") /\ UNCHANGED <<listVars, lock, tries>>
    BY <1>2 DEF TryAlloc
  <2>2. /\ "alloc" \in Waits \ {"fences"}
        /\ "next" \in Waits \ {"fences", "asleep"}
    BY DEF Waits, Inside
  <2>3. /\ hole' \in 0 .. Len(olist) /\ tries' \in [Queues -> 0 .. 3]
        /\ lock' \in Threads \cup {NoOne}
    BY <2>1 DEF listVars, IInv, TypeOK, ListTypes
  <2> QED BY <1>1, <2>1, <2>2, <2>3, StepsKeeps DEF listVars
<1>3. CASE Fits(size[t])
  <2>1. PICK lo, hi : Taken(t, lo, hi)
    BY <1>3, AllocTakes
  <2>2. /\ ListTypes' /\ ListOrdered' /\ ListAligned'
        /\ sa[t] \in Sas /\ ~InList(sa[t])
        /\ \A u : InList(u)' <=> InList(u) \/ u = sa[t]
    BY <1>1, <2>1, TakenList
  <2>3. /\ lock' = NoOne /\ tries' = NoTries /\ pc' = [pc EXCEPT ![t] = "hold"]
        /\ UNCHANGED <<fenceVars, callVars, waitset>>
    BY <2>1 DEF Taken
  <2>4. /\ CallTypes' /\ pc'[t] = "hold"
        /\ \A u \in Threads \ {t} : pc'[u] = pc[u]
    BY <2>3 DEF IInv, TypeOK, CallTypes, callVars
  <2>5. TypeOK'
    BY <2>2, <2>3, <2>4 DEF IInv, TypeOK, FenceTypes, fenceVars, NoTries
  <2>6. fence[sa[t]] = NoOne
    BY <2>2 DEF IInv, FencesListed
  <2>7. ASSUME NEW u \in Threads PROVE CallAgrees(u)'
    <3>1. CASE u = t
      <4>1. "hold" \notin Waits /\ waitset[t] = {} /\ ~fini
        BY <1>1 DEF Waits, Inside, IInv, CallAgrees
      <4> QED BY <2>2, <2>3, <2>4, <2>6, <3>1, <4>1 DEF CallAgrees, fenceVars,
          callVars
    <3>2. CASE u # t
      <4>1. pc[u] \in Waits => pc[u] # "idle"
        BY DEF Waits, Inside
      <4>2. pc[u] \in Waits => sa[u] # sa[t]
        BY <1>1, <3>2, <4>1 DEF IInv, OwnersDiffer
      <4> QED BY <2>2, <2>3, <2>4, <3>2, <4>2 DEF IInv, CallAgrees, fenceVars,
          callVars
    <3> QED BY <3>1, <3>2
  <2>8. OwnersDiffer'
    BY <1>1, <2>3, <2>4 DEF IInv, OwnersDiffer, callVars
  <2>9. EntriesOwned'
    <3> SUFFICES ASSUME NEW s \in Sas, InList(s)', fence[s] = NoOne
                 PROVE  \E u \in Threads : pc'[u] = "hold" /\ sa'[u] = s
      BY <2>3 DEF EntriesOwned, fenceVars
    <3>1. CASE s = sa[t]
      BY <2>3, <2>4, <3>1 DEF callVars
    <3>2. CASE s # sa[t]
      <4>1. PICK u \in Threads : pc[u] = "hold" /\ sa[u] = s
        BY <2>2, <3>2 DEF IInv, EntriesOwned
      <4> QED BY <1>1, <2>3, <2>4, <4>1 DEF callVars
    <3> QED BY <3>1, <3>2
  <2>10. FencesListed' /\ FencesOnce'
    BY <2>2, <2>3 DEF IInv, FencesListed, FencesOnce, fenceVars
  <2>11. SleepersHaveNoFence'
    BY <2>3, <2>4 DEF IInv, SleepersHaveNoFence, fenceVars
  <2> QED BY <2>2, <2>5, <2>7, <2>8, <2>9, <2>10, <2>11 DEF IInv
<1> QED BY <1>2, <1>3

-----------------------------------------------------------------------------
(* drm_suballoc_free and the fences. *)

(* The entry goes at once. *)
LEMMA FreeNowKeeps ==
    ASSUME IInv, NEW t \in Threads, FreeNow(t)
    PROVE  IInv'
<1> DEFINE s == sa[t]
<1>1. /\ pc[t] = "hold" /\ RemoveLocked(s, hole) /\ fini' = fini
      /\ pc' = [u \in Threads |-> IF u = t THEN "idle"
                                  ELSE IF pc[u] = "asleep" THEN "event"
                                  ELSE pc[u]]
      /\ sa' = [sa EXCEPT ![t] = 0] /\ size' = [size EXCEPT ![t] = 1]
      /\ UNCHANGED <<lock, tries, waitset>>
  BY DEF FreeNow, Woken, Forget
<1>2. InList(s) /\ hole \in 0 .. Len(olist)
  BY <1>1 DEF IInv, CallAgrees, TypeOK, ListTypes
<1>3. \A u \in Threads \ {t} : pc[u] = "hold" => sa[u] # s
  BY <1>1 DEF IInv, OwnersDiffer
<1>4. /\ {"event", "asleep"} \subseteq Waits /\ "idle" \notin Waits
      /\ "hold" \notin Waits
  BY DEF Waits, Inside
<1>5. CallTypes'
  <2>1. pc' \in [Threads -> Waits \cup {"idle", "hold"}]
    BY <1>1, <1>4 DEF IInv, TypeOK, CallTypes
  <2>2. 1 \in 1 .. Size
    BY PoolAssumption
  <2> QED BY <1>1, <2>1, <2>2 DEF IInv, TypeOK, CallTypes
<1>6. ASSUME NEW u \in Threads
      PROVE  /\ pc'[u] = "hold" <=> pc[u] = "hold" /\ sa[u] # s
             /\ pc'[u] \in Waits <=> pc[u] \in Waits
             /\ pc[u] = "idle" => pc'[u] = "idle"
             /\ pc[u] = "fences" => pc'[u] = "fences"
             /\ pc'[u] = "asleep" => pc[u] = "asleep"
             /\ pc'[u] # "idle" => sa'[u] = sa[u]
  <2>1. CASE u = t
    BY <1>1, <1>4, <2>1
  <2>2. CASE u # t
    <3>1. pc'[u] = IF pc[u] = "asleep" THEN "event" ELSE pc[u]
      BY <1>1, <2>2
    <3>2. sa'[u] = sa[u]
      BY <1>1, <2>2 DEF IInv, TypeOK, CallTypes
    <3> QED BY <1>3, <1>4, <2>2, <3>1, <3>2
  <2> QED BY <2>1, <2>2
<1>7. lock' \in Threads \cup {NoOne} /\ tries' \in [Queues -> 0 .. 3]
  BY <1>1 DEF IInv, TypeOK
<1> HIDE DEF s
<1> QED BY <1>1, <1>2, <1>5, <1>6, <1>7, RemoveKeeps

(* The entry waits in the list of its fence's queue. *)
LEMMA FreeLaterKeeps ==
    ASSUME IInv, NEW t \in Threads, FreeLater(t)
    PROVE  IInv'
<1> DEFINE s == sa[t]
<1>1. PICK q \in Queues : /\ fence' = [fence EXCEPT ![s] = q]
                          /\ flist' = [flist EXCEPT ![q] = Append(@, s)]
  BY DEF FreeLater
<1>2. /\ pc[t] = "hold" /\ fini' = fini
      /\ pc' = [u \in Threads |-> IF u = t THEN "idle"
                                  ELSE IF pc[u] = "asleep" THEN "event"
                                  ELSE pc[u]]
      /\ sa' = [sa EXCEPT ![t] = 0] /\ size' = [size EXCEPT ![t] = 1]
      /\ UNCHANGED <<listVars, signaled, lock, tries, waitset>>
  BY DEF FreeLater, Woken, Forget
<1>3. InList(s) /\ fence[s] = NoOne /\ s \in Sas
  BY <1>2, IndexProps DEF IInv, CallAgrees
<1>4. \A u : InList(u)' <=> InList(u)
  BY <1>2 DEF InList, listVars
<1>5. /\ {"event", "asleep"} \subseteq Waits /\ "idle" \notin Waits
      /\ "hold" \notin Waits
  BY DEF Waits, Inside
<1>6. /\ fence \in [Sas -> Queues \cup {NoOne}] /\ signaled \subseteq Sas
      /\ flist \in [Queues -> Seq(Sas)] /\ NoOne \notin Queues
  BY PoolAssumption DEF IInv, TypeOK, FenceTypes
<1> DEFINE old == flist[q]
           new == Append(old, s)
<1>7. /\ old \in Seq(Sas) /\ new \in Seq(Sas) /\ Len(new) = Len(old) + 1
      /\ Len(old) \in Nat /\ new[Len(old) + 1] = s
      /\ \A i \in 1 .. Len(old) : new[i] = old[i]
  BY <1>3, <1>6, AppendProperties
<1>8. /\ flist'[q] = new /\ \A p \in Queues \ {q} : flist'[p] = flist[p]
      /\ flist' \in [Queues -> Seq(Sas)]
  BY <1>1, <1>6, <1>7
<1>9. ToSet(old) = {u \in Sas : fence[u] = q}
  BY DEF IInv, FencesListed
<1>10. \A i, j \in 1 .. Len(old) : old[i] = old[j] => i = j
  BY DEF IInv, FencesOnce
<1> HIDE DEF new, old
<1>11. s \notin ToSet(old)
  BY <1>3, <1>6, <1>9
<1>12. \A i \in 1 .. Len(old) : old[i] # s
  BY <1>7, <1>11, ToSetProps
<1>13. \A i, j \in 1 .. Len(new) : new[i] = new[j] => i = j
  BY <1>7, <1>10, <1>12
<1>14. ToSet(new) = ToSet(old) \cup {s}
  <2>1. /\ \A x : x \in ToSet(old) <=> \E i \in 1 .. Len(old) : old[i] = x
        /\ \A x : x \in ToSet(new) <=> \E i \in 1 .. Len(new) : new[i] = x
    BY <1>7, ToSetProps
  <2> QED BY <1>7, <2>1
<1>15. \A u \in Sas : fence'[u] = IF u = s THEN q ELSE fence[u]
  BY <1>1, <1>3, <1>6
<1>16. TypeOK'
  <2>1. pc' \in [Threads -> Waits \cup {"idle", "hold"}]
    BY <1>2, <1>5 DEF IInv, TypeOK, CallTypes
  <2>2. 1 \in 1 .. Size
    BY PoolAssumption
  <2>3. CallTypes'
    BY <1>2, <2>1, <2>2 DEF IInv, TypeOK, CallTypes
  <2>4. FenceTypes'
    BY <1>1, <1>2, <1>6, <1>8 DEF FenceTypes
  <2>5. ListTypes'
    BY <1>2 DEF IInv, TypeOK, ListTypes, listVars
  <2> QED BY <1>2, <2>3, <2>4, <2>5 DEF IInv, TypeOK
<1>17. \A u \in Threads \ {t} :
          /\ pc'[u] = IF pc[u] = "asleep" THEN "event" ELSE pc[u]
          /\ sa'[u] = sa[u] /\ waitset'[u] = waitset[u]
  BY <1>2 DEF IInv, TypeOK, CallTypes
<1>18. pc'[t] = "idle"
  BY <1>2
<1>19. \A u \in Threads \ {t} : pc[u] = "hold" => sa[u] # s
  BY <1>2 DEF IInv, OwnersDiffer
<1>20. ASSUME NEW u \in Threads PROVE CallAgrees(u)'
  <2>1. CASE u = t
    BY <1>2, <1>5, <1>18, <2>1 DEF IInv, CallAgrees
  <2>2. CASE u # t
    <3>1. /\ CallAgrees(u) /\ sa'[u] = sa[u] /\ waitset'[u] = waitset[u]
          /\ pc'[u] = IF pc[u] = "asleep" THEN "event" ELSE pc[u]
      BY <1>17, <2>2 DEF IInv
    <3>2. pc[u] = "hold" => fence'[sa[u]] = fence[sa[u]]
      BY <1>15, <1>19, <2>2, <3>1, IndexProps DEF CallAgrees
    <3> QED BY <1>2, <1>4, <1>5, <3>1, <3>2 DEF CallAgrees
  <2> QED BY <2>1, <2>2
<1>21. OwnersDiffer'
  BY <1>17, <1>18 DEF IInv, OwnersDiffer
<1>22. EntriesOwned'
  <2> SUFFICES ASSUME NEW x \in Sas, InList(x)', fence'[x] = NoOne
               PROVE  \E u \in Threads : pc'[u] = "hold" /\ sa'[u] = x
    BY DEF EntriesOwned
  <2>1. InList(x) /\ fence[x] = NoOne /\ x # s
    BY <1>4, <1>6, <1>15
  <2>2. PICK u \in Threads : pc[u] = "hold" /\ sa[u] = x
    BY <2>1 DEF IInv, EntriesOwned
  <2>3. u # t
    BY <2>1, <2>2
  <2> QED BY <1>17, <2>2, <2>3
<1>23. ListOrdered' /\ ListAligned'
  BY <1>2 DEF IInv, ListOrdered, ListAligned, listVars
<1>24. FencesListed'
  <2>1. ASSUME NEW p \in Queues
        PROVE  ToSet(flist'[p]) = {u \in Sas : fence'[u] = p}
    <3>1. CASE p = q
      BY <1>3, <1>8, <1>9, <1>14, <1>15, <3>1
    <3>2. CASE p # q
      <4>1. ToSet(flist[p]) = {u \in Sas : fence[u] = p}
        BY DEF IInv, FencesListed
      <4>2. fence[s] # p
        BY <1>3, <1>6
      <4>3. {u \in Sas : fence'[u] = p} = {u \in Sas : fence[u] = p}
        BY <1>3, <1>15, <3>2, <4>2
      <4> QED BY <1>8, <3>2, <4>1, <4>3
    <3> QED BY <3>1, <3>2
  <2>2. \A u \in Sas : fence'[u] # NoOne => InList(u)'
    BY <1>3, <1>4, <1>15 DEF IInv, FencesListed
  <2> QED BY <2>1, <2>2 DEF FencesListed
<1>25. FencesOnce'
  <2>1. ASSUME NEW p \in Queues, NEW i \in 1 .. Len(flist'[p]),
               NEW j \in 1 .. Len(flist'[p]), flist'[p][i] = flist'[p][j]
        PROVE  i = j
    BY <1>8, <1>13, <2>1 DEF IInv, FencesOnce
  <2>2. \A u \in signaled' : fence'[u] # NoOne
    BY <1>2, <1>6, <1>15 DEF IInv, FencesOnce
  <2> QED BY <2>1, <2>2 DEF FencesOnce
<1>26. SleepersHaveNoFence'
  BY <1>17, <1>18 DEF SleepersHaveNoFence
<1> QED BY <1>16, <1>20, <1>21, <1>22, <1>23, <1>24, <1>25, <1>26 DEF IInv

(* A fence signals. *)
LEMMA SignalKeeps ==
    ASSUME IInv, NEW s \in Sas, Signal(s)
    PROVE  IInv'
<1>1. /\ fence[s] # NoOne /\ signaled' = signaled \cup {s}
      /\ pc' = [t \in Threads |-> IF s \in waitset[t] THEN "lock" ELSE pc[t]]
      /\ waitset' = [t \in Threads |-> IF s \in waitset[t] THEN {}
                                       ELSE waitset[t]]
      /\ UNCHANGED <<listVars, fence, flist, lock, tries, callVars>>
  BY DEF Signal
<1>2. "fences" \in Waits /\ "lock" \in Waits /\ "idle" \notin Waits
      /\ "hold" \notin Waits
  BY DEF Waits, Inside
<1>3. \A u : InList(u)' <=> InList(u)
  BY <1>1 DEF InList, listVars
<1>4. ASSUME NEW t \in Threads
      PROVE  \/ pc'[t] = pc[t] /\ waitset'[t] = waitset[t]
             \/ pc[t] = "fences" /\ pc'[t] = "lock" /\ waitset'[t] = {}
  BY <1>1 DEF IInv, CallAgrees
<1>5. TypeOK'
  <2>1. pc' \in [Threads -> Waits \cup {"idle", "hold"}]
    BY <1>1, <1>2 DEF IInv, TypeOK, CallTypes
  <2>2. waitset' \in [Threads -> SUBSET Sas]
    BY <1>1 DEF IInv, TypeOK, CallTypes
  <2>3. CallTypes'
    BY <1>1, <2>1, <2>2 DEF IInv, TypeOK, CallTypes, callVars
  <2>4. ListTypes' /\ FenceTypes'
    BY <1>1 DEF IInv, TypeOK, ListTypes, FenceTypes, listVars
  <2> QED BY <1>1, <2>3, <2>4 DEF IInv, TypeOK
<1>6. ASSUME NEW t \in Threads PROVE CallAgrees(t)'
  BY <1>1, <1>2, <1>3, <1>4 DEF IInv, CallAgrees, callVars
<1>7. OwnersDiffer'
  BY <1>1, <1>4 DEF IInv, OwnersDiffer, callVars
<1>8. EntriesOwned'
  <2> SUFFICES ASSUME NEW x \in Sas, InList(x), fence[x] = NoOne
               PROVE  \E u \in Threads : pc'[u] = "hold" /\ sa'[u] = x
    BY <1>1, <1>3 DEF EntriesOwned
  <2>1. PICK u \in Threads : pc[u] = "hold" /\ sa[u] = x
    BY DEF IInv, EntriesOwned
  <2> QED BY <1>1, <1>4, <2>1 DEF callVars
<1>9. ListOrdered' /\ ListAligned' /\ FencesListed'
  BY <1>1, <1>3 DEF IInv, ListOrdered, ListAligned, FencesListed, listVars
<1>10. FencesOnce'
  BY <1>1 DEF IInv, FencesOnce
<1>11. SleepersHaveNoFence'
  BY <1>1, <1>4 DEF IInv, SleepersHaveNoFence
<1> QED BY <1>5, <1>6, <1>7, <1>8, <1>9, <1>10, <1>11 DEF IInv

(* drm_suballoc_manager_fini *)
LEMMA FiniKeeps ==
    ASSUME IInv, Fini
    PROVE  IInv'
<1>1. /\ olist' = <<>> /\ hole' = 0 /\ fini' = TRUE
      /\ fence' = [s \in Sas |-> NoOne] /\ signaled' = {}
      /\ flist' = [q \in Queues |-> <<>>]
      /\ soffset' = [s \in Sas |-> 0] /\ eoffset' = [s \in Sas |-> 0]
      /\ UNCHANGED <<lock, tries, pc, sa, size, waitset>>
      /\ \A t \in Threads : pc[t] = "idle"
  BY DEF Fini
<1>2. <<>> \in Seq(Sas) /\ Len(<<>>) = 0 /\ 1 .. 0 = {}
  OBVIOUS
<1>3. TypeOK'
  <2>1. ListTypes'
    BY <1>1, <1>2, PoolAssumption DEF ListTypes
  <2>2. FenceTypes'
    BY <1>1, <1>2 DEF FenceTypes
  <2>3. CallTypes'
    BY <1>1 DEF IInv, TypeOK, CallTypes
  <2> QED BY <1>1, <2>1, <2>2, <2>3 DEF IInv, TypeOK
<1>4. \A u : ~InList(u)'
  BY <1>1, <1>2 DEF InList
<1>5. ASSUME NEW t \in Threads PROVE CallAgrees(t)'
  BY <1>1, <1>4 DEF IInv, CallAgrees, Waits, Inside
<1>6. OwnersDiffer' /\ EntriesOwned'
  BY <1>1, <1>4 DEF OwnersDiffer, EntriesOwned
<1>7. ListOrdered' /\ ListAligned' /\ FencesOnce' /\ SleepersHaveNoFence'
  BY <1>1, <1>2 DEF ListOrdered, ListAligned, FencesOnce, SleepersHaveNoFence
<1>8. FencesListed'
  <2>1. ToSet(<<>>) = {}
    <3>1. \A x : x \in ToSet(<<>>) <=> \E i \in 1 .. Len(<<>>) : <<>>[i] = x
      BY <1>2, ToSetProps
    <3> QED BY <1>2, <3>1
  <2> QED BY <1>1, <2>1, PoolAssumption DEF FencesListed
<1> QED BY <1>3, <1>5, <1>6, <1>7, <1>8 DEF IInv

-----------------------------------------------------------------------------
(* Every step keeps the inductive invariant. *)
LEMMA NextInv == IInv /\ [Next]_vars => IInv'
<1> SUFFICES ASSUME IInv, [Next]_vars PROVE IInv'
    OBVIOUS
<1>1. ASSUME NEW t \in Threads, Caller(t) PROVE IInv'
  BY <1>1, NewKeeps, FreeNowKeeps, FreeLaterKeeps, EventKeeps DEF Caller
<1>2. ASSUME NEW t \in Threads, Run(t) PROVE IInv'
  BY <1>2, TryFreeKeeps, TryAllocKeeps, NextHoleKeeps DEF Run
<1>3. ASSUME NEW t \in Threads, Lock(t) \/ EventCheck(t) \/ Expire(t)
      PROVE  IInv'
  BY <1>3, LockKeeps, EventKeeps
<1>4. ASSUME NEW s \in Sas, Signal(s) PROVE IInv'
  BY <1>4, SignalKeeps
<1>5. CASE Fini
  BY <1>5, FiniKeeps
<1>6. CASE UNCHANGED vars
  <2> USE <1>6 DEF vars, listVars, fenceVars, callVars
  <2>1. TypeOK'
    BY DEF IInv, TypeOK, ListTypes, FenceTypes, CallTypes
  <2>2. \A u : InList(u)' <=> InList(u)
    BY DEF InList
  <2>3. /\ \A t \in Threads : CallAgrees(t)'
        /\ OwnersDiffer' /\ EntriesOwned'
    BY <2>2 DEF IInv, CallAgrees, OwnersDiffer, EntriesOwned
  <2>4. /\ ListOrdered' /\ ListAligned' /\ FencesOnce' /\ FencesListed'
        /\ SleepersHaveNoFence'
    BY <2>2 DEF IInv, ListOrdered, ListAligned, FencesOnce, FencesListed,
       SleepersHaveNoFence
  <2> QED BY <2>1, <2>3, <2>4 DEF IInv
<1> QED BY <1>1, <1>2, <1>3, <1>4, <1>5, <1>6 DEF Next, Done

(* The inductive invariant always holds. *)
LEMMA SpecInv == Spec => []IInv
BY InitInv, NextInv, PTL DEF Spec

-----------------------------------------------------------------------------
(* The suballocator implements the pool. *)

(* The ranges of the pool, as the suballocator keeps them. *)
Kept == [s \in ToSet(olist) |-> [lo |-> soffset[s], hi |-> eoffset[s]]]

(* A range is taken for each entry of the list. *)
LEMMA KeptProps ==
    ASSUME TypeOK
    PROVE  /\ DOMAIN Kept = ToSet(olist) /\ ToSet(olist) \in SUBSET Sas
           /\ \A u : u \in ToSet(olist) <=> InList(u)
           /\ \A u \in ToSet(olist) :
                 Kept[u] = [lo |-> soffset[u], hi |-> eoffset[u]]
<1>1. olist \in Seq(Sas)
  BY DEF TypeOK, ListTypes
<1>2. /\ ToSet(olist) \in SUBSET Sas
      /\ \A x : x \in ToSet(olist) <=> \E i \in 1 .. Len(olist) : olist[i] = x
  BY <1>1, ToSetProps
<1>3. \A u : u \in ToSet(olist) <=> InList(u)
  BY <1>2 DEF InList
<1> QED BY <1>2, <1>3 DEF Kept

(* The same in the next state. *)
LEMMA KeptPropsNext ==
    ASSUME TypeOK'
    PROVE  \A u : u \in ToSet(olist') <=> InList(u)'
<1>1. olist' \in Seq(Sas)
  BY DEF TypeOK, ListTypes
<1>2. \A x : x \in ToSet(olist') <=> \E i \in 1 .. Len(olist') : olist'[i] = x
  BY <1>1, ToSetProps
<1> QED BY <1>2 DEF InList

(* Initially the pool is empty. *)
LEMMA RefineInit == Init => Pool!Init
<1> SUFFICES ASSUME Init PROVE Pool!Init
    OBVIOUS
<1>1. ToSet(<<>>) = {}
  <2>1. <<>> \in Seq(Sas) /\ Len(<<>>) = 0 /\ 1 .. 0 = {}
    OBVIOUS
  <2>2. \A x : x \in ToSet(<<>>) <=> \E i \in 1 .. Len(<<>>) : <<>>[i] = x
    BY <2>1, ToSetProps
  <2> QED BY <2>1, <2>2
<1>2. Kept = <<>>
  BY <1>1 DEF Init, Kept
<1>3. {s \in Sas : fence[s] # NoOne} = {}
  BY DEF Init
<1> QED BY <1>2, <1>3 DEF Init, Pool!Init, Kept

(* A step that changes no entry leaves the pool alone. *)
LEMMA RefineStutter ==
    ASSUME UNCHANGED <<olist, soffset, eoffset, fence, signaled, fini>>
    PROVE  UNCHANGED Pool!vars
BY DEF Pool!vars

(* The ranges after an entry is removed. *)
LEMMA KeptRemoved ==
    ASSUME IInv, IInv', NEW s, InList(s), NEW base \in 0 .. Len(olist),
           RemoveLocked(s, base)
    PROVE  Kept' = [u \in DOMAIN Kept \ {s} |-> Kept[u]]
<1>1. /\ \A u : InList(u)' <=> InList(u) /\ u # s
      /\ \A u \in Sas \ {s} : /\ soffset'[u] = soffset[u]
                              /\ eoffset'[u] = eoffset[u]
  BY RemoveList
<1>2. /\ DOMAIN Kept = ToSet(olist) /\ ToSet(olist) \in SUBSET Sas
      /\ \A u : u \in ToSet(olist) <=> InList(u)
      /\ \A u \in ToSet(olist) :
            Kept[u] = [lo |-> soffset[u], hi |-> eoffset[u]]
  BY KeptProps DEF IInv
<1>3. \A u : u \in ToSet(olist') <=> InList(u)'
  BY KeptPropsNext DEF IInv
<1>4. ToSet(olist') = DOMAIN Kept \ {s}
  BY <1>1, <1>2, <1>3
<1>5. Kept' = [u \in ToSet(olist') |->
                  [lo |-> soffset'[u], hi |-> eoffset'[u]]]
  BY DEF Kept
<1>6. \A u \in ToSet(olist') :
         Kept[u] = [lo |-> soffset'[u], hi |-> eoffset'[u]]
  BY <1>1, <1>2, <1>4
<1> QED BY <1>4, <1>5, <1>6

(* An entry whose fence has signalled comes back to the pool. *)
LEMMA RefineReclaim ==
    ASSUME IInv, IInv', NEW s \in signaled, NEW base \in 0 .. Len(olist),
           RemoveLocked(s, base), fini' = fini
    PROVE  Pool!Next
<1>1. s \in Sas /\ fence[s] # NoOne /\ InList(s)
  BY DEF IInv, TypeOK, FenceTypes, FencesOnce, FencesListed
<1>2. Kept' = [u \in DOMAIN Kept \ {s} |-> Kept[u]]
  BY <1>1, KeptRemoved
<1>3. \A u \in Sas : fence'[u] = IF u = s THEN NoOne ELSE fence[u]
  BY <1>1 DEF RemoveLocked, IInv, TypeOK, FenceTypes
<1>4. /\ {u \in Sas : fence'[u] # NoOne} = {u \in Sas : fence[u] # NoOne} \ {s}
      /\ signaled' = signaled \ {s}
  BY <1>1, <1>3 DEF RemoveLocked
<1>5. Pool!Reclaim(s)
  BY <1>2, <1>4 DEF Pool!Reclaim, Pool!Restrict, Kept
<1> QED BY <1>1, <1>5 DEF Pool!Next

(* A thread returns its range. *)
LEMMA RefineFreeNow ==
    ASSUME IInv, IInv', NEW t \in Threads, FreeNow(t)
    PROVE  Pool!Next
<1>1. PICK s : s = sa[t]
  OBVIOUS
<1>2. pc[t] = "hold" /\ RemoveLocked(s, hole) /\ fini' = fini
  BY <1>1 DEF FreeNow, Forget
<1>3. InList(s) /\ fence[s] = NoOne /\ s \in Sas /\ s \notin signaled
  BY <1>1, <1>2, IndexProps DEF IInv, CallAgrees, FencesOnce
<1>4. Kept' = [u \in DOMAIN Kept \ {s} |-> Kept[u]]
  BY <1>2, <1>3, KeptRemoved DEF IInv, TypeOK, ListTypes
<1>5. fence' = fence /\ signaled' = signaled
  BY <1>2, <1>3 DEF RemoveLocked, IInv, TypeOK, FenceTypes
<1>6. s \in DOMAIN Kept \ {u \in Sas : fence[u] # NoOne}
  BY <1>3, KeptProps DEF IInv
<1>7. Pool!Return(s)
  BY <1>2, <1>4, <1>5, <1>6 DEF Pool!Return, Pool!Restrict, Kept
<1> QED BY <1>3, <1>7 DEF Pool!Next

(* A thread hands its range to a job. *)
LEMMA RefineFreeLater ==
    ASSUME IInv, NEW t \in Threads, FreeLater(t)
    PROVE  Pool!Next
<1>1. PICK s : s = sa[t]
  OBVIOUS
<1>2. PICK q \in Queues : fence' = [fence EXCEPT ![s] = q]
  BY <1>1 DEF FreeLater
<1>3. pc[t] = "hold" /\ UNCHANGED <<listVars, signaled, fini>>
  BY DEF FreeLater, Forget
<1>4. InList(s) /\ fence[s] = NoOne /\ s \in Sas
  BY <1>1, <1>3, IndexProps DEF IInv, CallAgrees
<1>5. \A u \in Sas : fence'[u] = IF u = s THEN q ELSE fence[u]
  BY <1>2, <1>4 DEF IInv, TypeOK, FenceTypes
<1>6. {u \in Sas : fence'[u] # NoOne} = {u \in Sas : fence[u] # NoOne} \cup {s}
  BY <1>4, <1>5, PoolAssumption
<1>7. Kept' = Kept
  BY <1>3 DEF Kept, listVars
<1>8. s \in DOMAIN Kept \ {u \in Sas : fence[u] # NoOne}
  BY <1>4, KeptProps DEF IInv
<1>9. Pool!Hand(s)
  BY <1>3, <1>6, <1>7, <1>8 DEF Pool!Hand, Kept
<1> QED BY <1>4, <1>9 DEF Pool!Next

(* A job finishes. *)
LEMMA RefineSignal ==
    ASSUME IInv, NEW s \in Sas, Signal(s)
    PROVE  Pool!Next
<1>1. Kept' = Kept /\ fence' = fence /\ fini' = fini
  BY DEF Signal, Kept, listVars, callVars
<1>2. Pool!Finish(s)
  BY <1>1 DEF Signal, Pool!Finish, Kept
<1> QED BY <1>2 DEF Pool!Next

(* A range is taken. *)
LEMMA RefineTake ==
    ASSUME IInv, IInv', NEW t \in Threads, NEW lo, NEW hi, Taken(t, lo, hi),
           pc[t] = "alloc"
    PROVE  Pool!Next
<1> DEFINE s == sa[t]
           r == [lo |-> lo, hi |-> hi]
<1>1. /\ s \in Sas /\ ~InList(s)
      /\ \A u : InList(u)' <=> InList(u) \/ u = s
      /\ \A u \in Sas \ {s} : /\ soffset'[u] = soffset[u]
                              /\ eoffset'[u] = eoffset[u]
      /\ soffset'[s] = lo /\ eoffset'[s] = hi
  BY TakenList
<1>2. /\ lo \in 0 .. Size /\ hi \in 0 .. Size /\ lo < hi /\ lo % Align = 0
      /\ \A i \in 1 .. hole : eoffset[olist[i]] <= lo
      /\ \A i \in hole + 1 .. Len(olist) : hi <= soffset[olist[i]]
      /\ UNCHANGED <<fenceVars, fini>>
  BY DEF Taken, callVars
<1> HIDE DEF s
<1>3. /\ DOMAIN Kept = ToSet(olist) /\ ToSet(olist) \in SUBSET Sas
      /\ \A u : u \in ToSet(olist) <=> InList(u)
      /\ \A u \in ToSet(olist) :
            Kept[u] = [lo |-> soffset[u], hi |-> eoffset[u]]
  BY KeptProps DEF IInv
<1>4. \A u : u \in ToSet(olist') <=> InList(u)'
  BY KeptPropsNext DEF IInv
<1>5. ToSet(olist') = DOMAIN Kept \cup {s} /\ s \notin DOMAIN Kept
  BY <1>1, <1>3, <1>4
<1>6. r \in Pool!Ranges /\ r.lo = lo /\ r.hi = hi
  BY <1>2 DEF Pool!Ranges
<1>7. ASSUME NEW u \in DOMAIN Kept PROVE Pool!Disjoint(r, Kept[u])
  <2>1. PICK i \in 1 .. Len(olist) : olist[i] = u
    BY <1>3 DEF InList
  <2>2. i \in 1 .. hole \/ i \in hole + 1 .. Len(olist)
    BY <2>1 DEF IInv, TypeOK, ListTypes
  <2>3. eoffset[u] <= lo \/ hi <= soffset[u]
    BY <1>2, <2>1, <2>2
  <2>4. Kept[u].lo = soffset[u] /\ Kept[u].hi = eoffset[u]
    BY <1>3
  <2> QED BY <1>6, <2>3, <2>4 DEF Pool!Disjoint
<1>8. Kept' = [u \in DOMAIN Kept \cup {s} |-> IF u = s THEN r ELSE Kept[u]]
  <2>1. Kept' = [u \in ToSet(olist') |->
                    [lo |-> soffset'[u], hi |-> eoffset'[u]]]
    BY DEF Kept
  <2>2. \A u \in ToSet(olist') :
           [lo |-> soffset'[u], hi |-> eoffset'[u]]
              = IF u = s THEN r ELSE Kept[u]
    BY <1>1, <1>3, <1>5
  <2> HIDE DEF r
  <2> QED BY <1>5, <2>1, <2>2
<1>9. ~fini
  BY DEF IInv, CallAgrees
<1> HIDE DEF r
<1>10. Pool!Take(s, r)
  BY <1>2, <1>5, <1>7, <1>8, <1>9 DEF Pool!Take, Kept, fenceVars
<1> QED BY <1>1, <1>6, <1>10 DEF Pool!Next

(* The pool is torn down. *)
LEMMA RefineFini ==
    ASSUME IInv, Fini
    PROVE  Pool!Next
<1>1. /\ olist' = <<>> /\ fini' = TRUE /\ ~fini
      /\ fence' = [s \in Sas |-> NoOne] /\ signaled' = {}
      /\ \A t \in Threads : pc[t] = "idle"
  BY DEF Fini
<1>2. DOMAIN Kept = {s \in Sas : fence[s] # NoOne}
  <2>1. \A s \in Sas : InList(s) <=> fence[s] # NoOne
    BY <1>1 DEF IInv, EntriesOwned, FencesListed
  <2> QED BY <2>1, KeptProps DEF IInv
<1>3. ToSet(<<>>) = {}
  <2>1. <<>> \in Seq(Sas) /\ Len(<<>>) = 0 /\ 1 .. 0 = {}
    OBVIOUS
  <2>2. \A x : x \in ToSet(<<>>) <=> \E i \in 1 .. Len(<<>>) : <<>>[i] = x
    BY <2>1, ToSetProps
  <2> QED BY <2>1, <2>2
<1>4. Kept' = <<>>
  BY <1>1, <1>3 DEF Kept
<1>5. {s \in Sas : fence'[s] # NoOne} = {}
  BY <1>1
<1>6. Pool!Close
  BY <1>1, <1>2, <1>4, <1>5 DEF Pool!Close, Kept
<1> QED BY <1>6 DEF Pool!Next

(* Every step of the suballocator is a step of the pool, or none. *)
LEMMA RefineNext ==
    ASSUME IInv, IInv', [Next]_vars
    PROVE  [Pool!Next]_(Pool!vars)
<1> USE DEF listVars, fenceVars, callVars
<1>1. ASSUME NEW t \in Threads, Caller(t) PROVE [Pool!Next]_(Pool!vars)
  <2>1. CASE New(t)
    BY <2>1, RefineStutter DEF New
  <2>2. CASE FreeNow(t)
    BY <2>2, RefineFreeNow
  <2>3. CASE FreeLater(t)
    BY <2>3, RefineFreeLater
  <2>4. CASE Interrupt(t)
    BY <2>4, RefineStutter DEF Interrupt, Fail, Forget
  <2> QED BY <1>1, <2>1, <2>2, <2>3, <2>4 DEF Caller
<1>2. ASSUME NEW t \in Threads, Run(t) PROVE [Pool!Next]_(Pool!vars)
  <2>1. hole \in 0 .. Len(olist) /\ Len(olist) \in Nat
    BY DEF IInv, TypeOK, ListTypes
  <2>2. CASE TryFree(t)
    <3>1. CASE hole < Len(olist) /\ olist[hole + 1] \in signaled
      BY <2>1, <2>2, <3>1, RefineReclaim DEF TryFree
    <3>2. CASE ~(hole < Len(olist) /\ olist[hole + 1] \in signaled)
      BY <2>2, <3>2, RefineStutter DEF TryFree
    <3> QED BY <3>1, <3>2
  <2>3. CASE TryAlloc(t)
    <3>1. CASE Fits(size[t])
      <4>1. PICK lo, hi : Taken(t, lo, hi)
        BY <2>3, <3>1, AllocTakes
      <4> QED BY <2>3, <4>1, RefineTake DEF TryAlloc
    <3>2. CASE ~Fits(size[t])
      BY <2>3, <3>2, RefineStutter DEF TryAlloc
    <3> QED BY <3>1, <3>2
  <2>4. CASE NextHoleWrap(t) \/ NextHoleWait(t)
    BY <2>4, RefineStutter DEF NextHoleWrap, NextHoleWait
  <2>5. CASE NextHoleSkip(t)
    <3>1. PICK q \in Candidates :
             RemoveLocked(Head(flist[q]), Index(Head(flist[q])) - 1)
      BY <2>5 DEF NextHoleSkip
    <3> DEFINE s == Head(flist[q])
    <3>2. s \in signaled /\ RemoveLocked(s, Index(s) - 1)
      BY <3>1 DEF Candidates
    <3> HIDE DEF s
    <3>3. InList(s)
      BY <3>2 DEF IInv, TypeOK, FenceTypes, FencesOnce, FencesListed
    <3>4. Index(s) - 1 \in 0 .. Len(olist)
      BY <2>1, <3>3, IndexProps
    <3> QED BY <2>5, <3>2, <3>4, RefineReclaim DEF NextHoleSkip
  <2> QED BY <1>2, <2>2, <2>3, <2>4, <2>5 DEF Run
<1>3. ASSUME NEW t \in Threads, Lock(t) \/ EventCheck(t) \/ Expire(t)
      PROVE  [Pool!Next]_(Pool!vars)
  BY <1>3, RefineStutter DEF Lock, EventCheck, Expire, Fail, Forget
<1>4. ASSUME NEW s \in Sas, Signal(s) PROVE [Pool!Next]_(Pool!vars)
  BY <1>4, RefineSignal
<1>5. CASE Fini
  BY <1>5, RefineFini
<1>6. CASE UNCHANGED vars
  BY <1>6, RefineStutter DEF vars
<1> QED BY <1>1, <1>2, <1>3, <1>4, <1>5, <1>6 DEF Next, Done

(* Type correctness. *)
THEOREM TypesCorrect == Spec => []TypeOK
BY SpecInv, PTL DEF IInv

(* The list of suballocations stays ordered by offset: the size of the hole, *)
(* an unsigned difference in the code, does not wrap around.                *)
THEOREM ListAlwaysOrdered == Spec => []ListOrdered
BY SpecInv, PTL DEF IInv

(* The fence lists have exactly the entries that were freed with a fence,   *)
(* and all of them are in the list of suballocations: drm_suballoc_next_hole *)
(* never follows a pointer to an entry that was given back.                 *)
THEOREM FencesAlwaysListed == Spec => []FencesListed
BY SpecInv, PTL DEF IInv

(* Who sleeps until something is freed sleeps only while there is no fence  *)
(* to wait for.                                                             *)
THEOREM SleepersNeverHaveFence == Spec => []SleepersHaveNoFence
BY SpecInv, PTL DEF IInv

(* The suballocator implements the pool: no two ranges overlap, and a range *)
(* is not taken again before its thread has returned it or its job has      *)
(* finished.                                                                *)
THEOREM ImplementsPool == Spec => PoolSpec
<1>1. IInv /\ IInv' /\ [Next]_vars => [Pool!Next]_(Pool!vars)
  BY RefineNext
<1> QED BY <1>1, RefineInit, SpecInv, PTL DEF Spec, PoolSpec, Pool!Spec
=============================================================================
