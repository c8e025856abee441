----------------------------- MODULE SumLemmas -----------------------------
(***************************************************************************)
(* Sums of a function over a finite set.  SumFunctionOnSet takes the       *)
(* elements in an order that CHOOSE fixes; here it is shown that the order *)
(* does not matter.                                                        *)
(***************************************************************************)
EXTENDS Integers, FiniteSets, Functions, FiniteSetTheorems,
        WellFoundedInduction, TLAPS

(* A set of subsets of a finite set S that has each subset all of whose    *)
(* proper subsets it has is the set of all of them.                        *)
LEMMA SubsetInduction ==
    ASSUME NEW S, IsFiniteSet(S), NEW Good,
           \A T \in SUBSET S :
              (\A U \in SUBSET T : U # T => U \in Good) => T \in Good
    PROVE  \A T \in SUBSET S : T \in Good
<1> DEFINE Bad == {T \in SUBSET S : T \notin Good}
<1> SUFFICES ASSUME Bad # {} PROVE FALSE
    OBVIOUS
<1>1. IsWellFoundedOn(StrictSubsetOrdering(S), SUBSET S)
  <2>1. FiniteSubsetsOf(S) = SUBSET S
    BY FS_FiniteSubsetsOfFinite
  <2>2. IsWellFoundedOn(StrictSubsetOrdering(S), FiniteSubsetsOf(S))
    BY FS_StrictSubsetOrderingWellFounded
  <2> QED BY <2>1, <2>2
<1>2. PICK T \in Bad : \A U \in Bad : <<U, T>> \notin StrictSubsetOrdering(S)
  <2>1. Bad \subseteq SUBSET S
    OBVIOUS
  <2> HIDE DEF Bad
  <2> QED BY <1>1, <2>1, WFMin
<1>3. ASSUME NEW U \in SUBSET T, U # T PROVE U \in Good
  BY <1>2, <1>3 DEF StrictSubsetOrdering
<1> QED BY <1>2, <1>3

Pick(s) == CHOOSE x \in s : TRUE

LEMMA PickProps == \A s : s # {} => Pick(s) \in s /\ s \ {Pick(s)} # s
BY DEF Pick

(* The equation of the fold for the subsets of S, ... *)
FoldEq(g, F, S) ==
    g = [s \in SUBSET S |->
           IF s = {} THEN 0 ELSE F[Pick(s)] + g[s \ {Pick(s)}]]

(* ... and what it says of a subset. *)
LEMMA FoldAt ==
    ASSUME NEW F, NEW S, NEW g, FoldEq(g, F, S), NEW s \in SUBSET S
    PROVE  g[s] = IF s = {} THEN 0 ELSE F[Pick(s)] + g[s \ {Pick(s)}]
BY DEF FoldEq

LEMMA SumExpand ==
    ASSUME NEW F, NEW S
    PROVE  SumFunctionOnSet(F, S) = (CHOOSE g : FoldEq(g, F, S))[S]
BY DEF SumFunctionOnSet, FoldFunctionOnSet, MapThenFoldSet, FoldEq, Pick

(* The fold for a set and the one for a larger set agree. *)
LEMMA FoldUnique ==
    ASSUME NEW F, NEW S, NEW T \in SUBSET S, IsFiniteSet(T), NEW g, NEW h,
           FoldEq(g, F, S), FoldEq(h, F, T)
    PROVE  g[T] = h[T]
<1> DEFINE Good == {s \in SUBSET T : g[s] = h[s]}
<1>1. ASSUME NEW s \in SUBSET T,
             \A U \in SUBSET s : U # s => U \in Good
      PROVE  s \in Good
  <2>1. /\ g[s] = IF s = {} THEN 0 ELSE F[Pick(s)] + g[s \ {Pick(s)}]
        /\ h[s] = IF s = {} THEN 0 ELSE F[Pick(s)] + h[s \ {Pick(s)}]
    BY FoldAt
  <2>2. CASE s = {}
    BY <2>1, <2>2
  <2>3. CASE s # {}
    <3>1. s \ {Pick(s)} \in Good
      BY <1>1, <2>3, PickProps
    <3> QED BY <2>1, <2>3, <3>1
  <2> QED BY <2>2, <2>3
<1> HIDE DEF Good
<1>2. \A s \in SUBSET T : s \in Good
  BY <1>1, SubsetInduction
<1> QED BY <1>2 DEF Good

(* There is a fold for every finite set. *)
LEMMA FoldExists ==
    ASSUME NEW F, NEW S, IsFiniteSet(S)
    PROVE  \E g : FoldEq(g, F, S)
<1> DEFINE Good == {T \in SUBSET S : \E g : FoldEq(g, F, T)}
           fold(T) == CHOOSE g : FoldEq(g, F, T)
<1>1. ASSUME NEW T \in SUBSET S, \A U \in SUBSET T : U # T => U \in Good
      PROVE  T \in Good
  <2> DEFINE g == [s \in SUBSET T |-> IF s = {} THEN 0
                      ELSE F[Pick(s)] + fold(s \ {Pick(s)})[s \ {Pick(s)}]]
  <2>1. \A U \in SUBSET T : U # T => FoldEq(fold(U), F, U) /\ IsFiniteSet(U)
    BY <1>1, FS_Subset
  <2> HIDE DEF fold
  <2>2. ASSUME NEW U \in SUBSET T, U # T PROVE g[U] = fold(U)[U]
    <3>1. FoldEq(fold(U), F, U)
      BY <2>1, <2>2
    <3>2. fold(U)[U] = IF U = {} THEN 0
                       ELSE F[Pick(U)] + fold(U)[U \ {Pick(U)}]
      BY <3>1, FoldAt
    <3>3. CASE U = {}
      BY <3>2, <3>3
    <3>4. CASE U # {}
      <4>1. PICK V : V = U \ {Pick(U)}
        OBVIOUS
      <4>2. /\ V \in SUBSET U /\ V \in SUBSET T /\ V # T
            /\ FoldEq(fold(V), F, V) /\ IsFiniteSet(V)
        BY <2>1, <3>4, <4>1, PickProps
      <4>3. fold(U)[V] = fold(V)[V]
        BY <3>1, <4>2, FoldUnique
      <4> QED BY <3>2, <3>4, <4>1, <4>3
    <3> QED BY <3>3, <3>4
  <2>3. ASSUME NEW s \in SUBSET T
        PROVE  g[s] = IF s = {} THEN 0 ELSE F[Pick(s)] + g[s \ {Pick(s)}]
    <3>1. CASE s = {}
      BY <3>1
    <3>2. CASE s # {}
      <4>1. PICK V : V = s \ {Pick(s)}
        OBVIOUS
      <4>2. V \in SUBSET T /\ V # T
        BY <3>2, <4>1, PickProps
      <4>3. g[V] = fold(V)[V]
        BY <2>2, <4>2
      <4> QED BY <3>2, <4>1, <4>3
    <3> QED BY <3>1, <3>2
  <2>4. g = [s \in SUBSET T |-> g[s]]
    OBVIOUS
  <2> HIDE DEF g
  <2>5. FoldEq(g, F, T)
    BY <2>3, <2>4 DEF FoldEq
  <2> QED BY <2>5
<1> HIDE DEF Good
<1>2. \A T \in SUBSET S : T \in Good
  BY <1>1, SubsetInduction
<1> QED BY <1>2 DEF Good

(* So the sums over the subsets of a finite set S are one function. *)
LEMMA SumsAre ==
    ASSUME NEW F, NEW S, IsFiniteSet(S), NEW g, FoldEq(g, F, S)
    PROVE  \A T \in SUBSET S : SumFunctionOnSet(F, T) = g[T]
<1> SUFFICES ASSUME NEW T \in SUBSET S PROVE SumFunctionOnSet(F, T) = g[T]
    OBVIOUS
<1>1. IsFiniteSet(T)
  BY FS_Subset
<1>2. PICK h : h = CHOOSE x : FoldEq(x, F, T)
  OBVIOUS
<1>3. FoldEq(h, F, T)
  BY <1>1, <1>2, FoldExists
<1>4. g[T] = h[T]
  BY <1>1, <1>3, FoldUnique
<1>5. SumFunctionOnSet(F, T) = h[T]
  BY <1>2, SumExpand
<1> QED BY <1>4, <1>5

(* A sum is the sum without one of the elements, and that one. *)
LEMMA SumRemove ==
    ASSUME NEW S, IsFiniteSet(S), NEW F, \A x \in S : F[x] \in Int
    PROVE  /\ S = {} => SumFunctionOnSet(F, S) = 0
           /\ SumFunctionOnSet(F, S) \in Int
           /\ \A x \in S : SumFunctionOnSet(F, S) =
                              F[x] + SumFunctionOnSet(F, S \ {x})
<1>1. PICK g : FoldEq(g, F, S)
  BY FoldExists
<1>2. \A T \in SUBSET S : SumFunctionOnSet(F, T) = g[T]
  BY <1>1, SumsAre
<1>3. \A s \in SUBSET S :
         g[s] = IF s = {} THEN 0 ELSE F[Pick(s)] + g[s \ {Pick(s)}]
  <2> SUFFICES ASSUME NEW s \in SUBSET S
               PROVE  g[s] = IF s = {} THEN 0
                             ELSE F[Pick(s)] + g[s \ {Pick(s)}]
      OBVIOUS
  <2> QED BY <1>1 DEF FoldEq
<1> DEFINE Good == {s \in SUBSET S : /\ g[s] \in Int
                                     /\ \A x \in s : g[s] = F[x] + g[s \ {x}]}
<1>4. ASSUME NEW s \in SUBSET S, \A U \in SUBSET s : U # s => U \in Good
      PROVE  s \in Good
  <2>1. CASE s = {}
    <3>1. g[s] = 0
      BY <1>3, <2>1
    <3> QED BY <2>1, <3>1
  <2>2. CASE s # {}
    <3>1. PICK c : c = Pick(s)
      OBVIOUS
    <3>2. c \in s /\ g[s] = F[c] + g[s \ {c}] /\ s \ {c} \in Good
      BY <1>3, <1>4, <2>2, <3>1, PickProps
    <3>3. g[s] \in Int
      BY <3>2
    <3>4. ASSUME NEW x \in s, x # c PROVE g[s] = F[x] + g[s \ {x}]
      <4>1. s \ {x} \in Good
        BY <1>4
      <4>2. PICK V : V = s \ {c, x}
        OBVIOUS
      <4>3. (s \ {c}) \ {x} = V /\ (s \ {x}) \ {c} = V
        BY <4>2
      <4>4. V \in Good
        BY <1>4, <3>4, <4>2
      <4>5. g[s \ {c}] = F[x] + g[V] /\ g[s \ {x}] = F[c] + g[V]
        BY <3>2, <3>4, <4>1, <4>3
      <4>6. g[V] \in Int /\ F[x] \in Int /\ F[c] \in Int
        BY <3>2, <4>4
      <4> QED BY <3>2, <4>5, <4>6
    <3> QED BY <3>2, <3>3, <3>4
  <2> QED BY <2>1, <2>2
<1> HIDE DEF Good
<1>5. \A s \in SUBSET S : s \in Good
  BY <1>4, SubsetInduction
<1>6. /\ g[S] \in Int /\ (S = {} => g[S] = 0)
      /\ \A x \in S : g[S] = F[x] + g[S \ {x}]
  BY <1>3, <1>5 DEF Good
<1>7. S \in SUBSET S /\ \A x \in S : S \ {x} \in SUBSET S
  OBVIOUS
<1> QED BY <1>2, <1>6, <1>7

(* Only the values on the set matter. *)
LEMMA SumSame ==
    ASSUME NEW S, IsFiniteSet(S), NEW F, NEW G,
           \A x \in S : F[x] = G[x] /\ F[x] \in Int
    PROVE  SumFunctionOnSet(F, S) = SumFunctionOnSet(G, S)
<1> DEFINE Good == {T \in SUBSET S :
                       SumFunctionOnSet(F, T) = SumFunctionOnSet(G, T)}
<1>1. ASSUME NEW T \in SUBSET S, \A U \in SUBSET T : U # T => U \in Good
      PROVE  T \in Good
  <2>1. IsFiniteSet(T) /\ \A x \in T : F[x] \in Int /\ G[x] \in Int
    BY FS_Subset
  <2>2. CASE T = {}
    BY <2>1, <2>2, SumRemove
  <2>3. ASSUME NEW x \in T PROVE T \in Good
    <3>1. /\ SumFunctionOnSet(F, T) = F[x] + SumFunctionOnSet(F, T \ {x})
          /\ SumFunctionOnSet(G, T) = G[x] + SumFunctionOnSet(G, T \ {x})
      BY <2>1, SumRemove
    <3>2. T \ {x} \in Good
      BY <1>1
    <3> QED BY <3>1, <3>2
  <2> QED BY <2>2, <2>3
<1> HIDE DEF Good
<1>2. \A T \in SUBSET S : T \in Good
  BY <1>1, SubsetInduction
<1> QED BY <1>2 DEF Good

(* A sum of natural numbers is one, and at least each of them. *)
LEMMA SumNat ==
    ASSUME NEW S, IsFiniteSet(S), NEW F, \A x \in S : F[x] \in Nat
    PROVE  /\ SumFunctionOnSet(F, S) \in Nat
           /\ \A x \in S : F[x] <= SumFunctionOnSet(F, S)
<1> DEFINE Good == {T \in SUBSET S : SumFunctionOnSet(F, T) \in Nat}
<1>1. ASSUME NEW T \in SUBSET S, \A U \in SUBSET T : U # T => U \in Good
      PROVE  T \in Good
  <2>1. IsFiniteSet(T) /\ \A x \in T : F[x] \in Int
    BY FS_Subset
  <2>2. CASE T = {}
    BY <2>1, <2>2, SumRemove
  <2>3. ASSUME NEW x \in T PROVE T \in Good
    <3>1. SumFunctionOnSet(F, T) = F[x] + SumFunctionOnSet(F, T \ {x})
      BY <2>1, SumRemove
    <3>2. T \ {x} \in Good
      BY <1>1
    <3> QED BY <3>1, <3>2
  <2> QED BY <2>2, <2>3
<1> HIDE DEF Good
<1>2. \A T \in SUBSET S : SumFunctionOnSet(F, T) \in Nat
  <2>1. \A T \in SUBSET S : T \in Good
    BY <1>1, SubsetInduction
  <2> QED BY <2>1 DEF Good
<1>3. ASSUME NEW x \in S PROVE F[x] <= SumFunctionOnSet(F, S)
  <2>1. SumFunctionOnSet(F, S) = F[x] + SumFunctionOnSet(F, S \ {x})
    BY SumRemove
  <2>2. SumFunctionOnSet(F, S \ {x}) \in Nat
    BY <1>2
  <2> QED BY <2>1, <2>2
<1> QED BY <1>2, <1>3

(* A sum of zeros. *)
LEMMA SumZero ==
    ASSUME NEW S, IsFiniteSet(S), NEW F, \A x \in S : F[x] = 0
    PROVE  SumFunctionOnSet(F, S) = 0
<1> DEFINE Good == {T \in SUBSET S : SumFunctionOnSet(F, T) = 0}
<1>1. ASSUME NEW T \in SUBSET S, \A U \in SUBSET T : U # T => U \in Good
      PROVE  T \in Good
  <2>1. IsFiniteSet(T) /\ \A x \in T : F[x] \in Int
    BY FS_Subset
  <2>2. CASE T = {}
    BY <2>1, <2>2, SumRemove
  <2>3. ASSUME NEW x \in T PROVE T \in Good
    <3>1. SumFunctionOnSet(F, T) = F[x] + SumFunctionOnSet(F, T \ {x})
      BY <2>1, SumRemove
    <3>2. T \ {x} \in Good
      BY <1>1
    <3> QED BY <3>1, <3>2
  <2> QED BY <2>2, <2>3
<1> HIDE DEF Good
<1>2. \A T \in SUBSET S : T \in Good
  BY <1>1, SubsetInduction
<1> QED BY <1>2 DEF Good

(* F on A and G on B, which at most one element has entered or left, or has *)
(* another value in.                                                        *)
DifferAt(x, F, A, G, B) ==
    /\ IsFiniteSet(A) /\ IsFiniteSet(B)
    /\ \A y : y # x => (y \in A <=> y \in B)
    /\ \A y \in A \ {x} : F[y] = G[y]
    /\ \A y \in A : F[y] \in Nat
    /\ \A y \in B : G[y] \in Nat

LEMMA SumMoves ==
    ASSUME NEW x, NEW F, NEW A, NEW G, NEW B, DifferAt(x, F, A, G, B)
    PROVE  /\ SumFunctionOnSet(F, A) \in Nat
           /\ x \in A => F[x] <= SumFunctionOnSet(F, A)
           /\ SumFunctionOnSet(G, B) = SumFunctionOnSet(F, A)
                 - (IF x \in A THEN F[x] ELSE 0)
                 + (IF x \in B THEN G[x] ELSE 0)
<1> USE DEF DifferAt
<1>1. PICK T : T = A \ {x}
  OBVIOUS
<1>2. T = B \ {x}
  <2>1. \A y : y \in T <=> y \in B \ {x}
    BY <1>1
  <2> QED BY <2>1
<1>3. IsFiniteSet(T) /\ IsFiniteSet(A) /\ IsFiniteSet(B)
  BY <1>1, FS_Subset
<1>4. SumFunctionOnSet(F, T) = SumFunctionOnSet(G, T)
  <2>1. \A y \in T : F[y] = G[y] /\ F[y] \in Int
    BY <1>1
  <2> QED BY <2>1, <1>3, SumSame
<1>5. SumFunctionOnSet(F, T) \in Nat /\ SumFunctionOnSet(F, A) \in Nat
  BY <1>1, <1>3, SumNat
<1>6. x \in A => F[x] <= SumFunctionOnSet(F, A)
  BY <1>3, SumNat
<1>7. SumFunctionOnSet(F, A) = SumFunctionOnSet(F, T)
                                  + (IF x \in A THEN F[x] ELSE 0)
  <2>1. CASE x \in A
    BY <2>1, <1>1, <1>3, <1>5, SumRemove
  <2>2. CASE x \notin A
    <3>1. A = T
      BY <2>2, <1>1
    <3> QED BY <2>2, <3>1, <1>5
  <2> QED BY <2>1, <2>2
<1>8. SumFunctionOnSet(G, B) = SumFunctionOnSet(G, T)
                                  + (IF x \in B THEN G[x] ELSE 0)
  <2>1. CASE x \in B
    <3>1. \A y \in B : G[y] \in Int
      OBVIOUS
    <3>2. SumFunctionOnSet(G, B) = G[x] + SumFunctionOnSet(G, T)
      BY <2>1, <3>1, <1>2, <1>3, SumRemove
    <3>3. G[x] \in Int /\ SumFunctionOnSet(G, T) \in Int
      BY <2>1, <1>4, <1>5
    <3> QED BY <2>1, <3>2, <3>3
  <2>2. CASE x \notin B
    <3>1. B = T
      BY <2>2, <1>2
    <3> QED BY <2>2, <3>1, <1>4, <1>5
  <2> QED BY <2>1, <2>2
<1>9. /\ (IF x \in A THEN F[x] ELSE 0) \in Nat
      /\ (IF x \in B THEN G[x] ELSE 0) \in Nat
  OBVIOUS
<1> QED BY <1>4, <1>5, <1>6, <1>7, <1>8, <1>9
=============================================================================
