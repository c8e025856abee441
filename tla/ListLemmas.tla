----------------------------- MODULE ListLemmas -----------------------------
(***************************************************************************)
(* Sequences as the models use them for the lists of the code: what taking *)
(* an element out, putting one in and looking for one do.                  *)
(***************************************************************************)
EXTENDS Integers, Sequences, SequencesExt, SequenceTheorems,
        FiniteSetTheorems, TLAPS

(* An element is on the list at most once. *)
Distinct(s) == \A i, k \in 1 .. Len(s) : s[i] = s[k] => i = k

(* RemoveAt takes one element out and closes the gap. *)
LEMMA RemoveAtProps ==
    ASSUME NEW S, NEW s \in Seq(S), NEW i \in 1 .. Len(s)
    PROVE  /\ RemoveAt(s, i) \in Seq(S)
           /\ Len(RemoveAt(s, i)) = Len(s) - 1
           /\ \A j \in 1 .. Len(s) - 1 :
                 RemoveAt(s, i)[j] = IF j < i THEN s[j] ELSE s[j + 1]
<1> DEFINE a == SubSeq(s, 1, i - 1)
           b == SubSeq(s, i + 1, Len(s))
<1>1. Len(s) \in Nat /\ \A j \in 1 .. Len(s) : s[j] \in S
  BY LenProperties
<1>2. /\ a \in Seq(S) /\ Len(a) = i - 1
      /\ \A j \in 1 .. i - 1 : a[j] = s[j]
  <2>1. \A j \in 1 .. i - 1 : s[j] \in S
    BY <1>1
  <2>2. /\ a \in Seq(S)
        /\ Len(a) = IF 1 <= i - 1 THEN (i - 1) - 1 + 1 ELSE 0
        /\ \A j \in 1 .. (i - 1) - 1 + 1 : a[j] = s[1 + j - 1]
    BY <1>1, <2>1, SubSeqProperties
  <2> HIDE DEF a
  <2> QED BY <1>1, <2>2
<1>3. /\ b \in Seq(S) /\ Len(b) = Len(s) - i
      /\ \A j \in 1 .. Len(s) - i : b[j] = s[i + j]
  <2>1. \A j \in i + 1 .. Len(s) : s[j] \in S
    BY <1>1
  <2>2. /\ b \in Seq(S)
        /\ Len(b) = IF i + 1 <= Len(s) THEN Len(s) - (i + 1) + 1 ELSE 0
        /\ \A j \in 1 .. Len(s) - (i + 1) + 1 : b[j] = s[(i + 1) + j - 1]
    BY <1>1, <2>1, SubSeqProperties
  <2> HIDE DEF b
  <2> QED BY <1>1, <2>2
<1>4. RemoveAt(s, i) = a \o b
  BY DEF RemoveAt
<1> HIDE DEF a, b
<1>5. /\ a \o b \in Seq(S) /\ Len(a \o b) = Len(a) + Len(b)
      /\ \A j \in 1 .. Len(a) + Len(b) :
            (a \o b)[j] = IF j <= Len(a) THEN a[j] ELSE b[j - Len(a)]
  BY <1>2, <1>3, ConcatProperties
<1> DEFINE c == a \o b
<1>6. /\ c \in Seq(S) /\ Len(c) = Len(a) + Len(b)
      /\ \A j \in 1 .. Len(a) + Len(b) :
            c[j] = IF j <= Len(a) THEN a[j] ELSE b[j - Len(a)]
  BY <1>5
<1> HIDE DEF c
<1>7. /\ Len(c) = Len(s) - 1
      /\ \A j \in 1 .. Len(s) - 1 :
            c[j] = IF j <= i - 1 THEN a[j] ELSE b[j - (i - 1)]
  <2>1. Len(a) + Len(b) = Len(s) - 1
    BY <1>1, <1>2, <1>3
  <2> QED BY <1>2, <1>6, <2>1
<1>8. ASSUME NEW j \in 1 .. Len(s) - 1
      PROVE  c[j] = IF j < i THEN s[j] ELSE s[j + 1]
  <2>1. CASE j < i
    BY <1>1, <1>2, <1>7, <2>1
  <2>2. CASE ~(j < i)
    <3>1. j - (i - 1) \in 1 .. Len(s) - i /\ i + (j - (i - 1)) = j + 1
      BY <1>1, <2>2
    <3>2. c[j] = b[j - (i - 1)]
      BY <1>1, <1>7, <2>2
    <3> QED BY <1>3, <2>2, <3>1, <3>2
  <2> QED BY <2>1, <2>2
<1> QED BY <1>4, <1>6, <1>7, <1>8 DEF c

(* InsertAt makes room for one. *)
LEMMA InsertAtProps ==
    ASSUME NEW S, NEW s \in Seq(S), NEW i \in 1 .. Len(s) + 1, NEW x \in S
    PROVE  /\ InsertAt(s, i, x) \in Seq(S)
           /\ Len(InsertAt(s, i, x)) = Len(s) + 1
           /\ InsertAt(s, i, x)[i] = x
           /\ \A j \in 1 .. i - 1 : InsertAt(s, i, x)[j] = s[j]
           /\ \A j \in i + 1 .. Len(s) + 1 : InsertAt(s, i, x)[j] = s[j - 1]
<1> DEFINE a == SubSeq(s, 1, i - 1)
           b == SubSeq(s, i, Len(s))
           m == <<x>>
<1>1. Len(s) \in Nat /\ \A j \in 1 .. Len(s) : s[j] \in S
  BY LenProperties
<1>2. /\ a \in Seq(S) /\ Len(a) = i - 1
      /\ \A j \in 1 .. i - 1 : a[j] = s[j]
  <2>1. \A j \in 1 .. i - 1 : s[j] \in S
    BY <1>1
  <2>2. /\ a \in Seq(S)
        /\ Len(a) = IF 1 <= i - 1 THEN (i - 1) - 1 + 1 ELSE 0
        /\ \A j \in 1 .. (i - 1) - 1 + 1 : a[j] = s[1 + j - 1]
    BY <1>1, <2>1, SubSeqProperties
  <2> HIDE DEF a
  <2> QED BY <1>1, <2>2
<1>3. /\ b \in Seq(S) /\ Len(b) = Len(s) - i + 1
      /\ \A j \in 1 .. Len(s) - i + 1 : b[j] = s[i + j - 1]
  <2>1. \A j \in i .. Len(s) : s[j] \in S
    BY <1>1
  <2>2. /\ b \in Seq(S)
        /\ Len(b) = IF i <= Len(s) THEN Len(s) - i + 1 ELSE 0
        /\ \A j \in 1 .. Len(s) - i + 1 : b[j] = s[i + j - 1]
    BY <1>1, <2>1, SubSeqProperties
  <2> HIDE DEF b
  <2> QED BY <1>1, <2>2
<1>4. m \in Seq(S) /\ Len(m) = 1 /\ m[1] = x
  OBVIOUS
<1>5. InsertAt(s, i, x) = (a \o m) \o b
  BY DEF InsertAt
<1> HIDE DEF a, b, m
<1>6. /\ a \o m \in Seq(S) /\ Len(a \o m) = Len(a) + Len(m)
      /\ \A j \in 1 .. Len(a) + Len(m) :
            (a \o m)[j] = IF j <= Len(a) THEN a[j] ELSE m[j - Len(a)]
  BY <1>2, <1>4, ConcatProperties
<1> DEFINE c == a \o m
<1>7. /\ c \in Seq(S) /\ Len(c) = i /\ c[i] = x
      /\ \A j \in 1 .. i - 1 : c[j] = s[j]
  <2>1. /\ c \in Seq(S) /\ Len(c) = Len(a) + Len(m)
        /\ \A j \in 1 .. Len(a) + Len(m) :
              c[j] = IF j <= Len(a) THEN a[j] ELSE m[j - Len(a)]
    BY <1>6
  <2> HIDE DEF c
  <2>2. i - Len(a) = 1
    BY <1>1, <1>2
  <2> QED BY <1>1, <1>2, <1>4, <2>1, <2>2
<1> HIDE DEF c
<1>8. /\ c \o b \in Seq(S) /\ Len(c \o b) = Len(c) + Len(b)
      /\ \A j \in 1 .. Len(c) + Len(b) :
            (c \o b)[j] = IF j <= Len(c) THEN c[j] ELSE b[j - Len(c)]
  BY <1>3, <1>7, ConcatProperties
<1> DEFINE d == c \o b
<1>9. /\ d \in Seq(S) /\ Len(d) = Len(c) + Len(b)
      /\ \A j \in 1 .. Len(c) + Len(b) :
            d[j] = IF j <= Len(c) THEN c[j] ELSE b[j - Len(c)]
  BY <1>8
<1>10. InsertAt(s, i, x) = d
  BY <1>5 DEF c
<1> HIDE DEF d
<1>11. Len(d) = Len(s) + 1
  BY <1>1, <1>3, <1>7, <1>9
<1>12. d[i] = x /\ \A j \in 1 .. i - 1 : d[j] = s[j]
  BY <1>1, <1>3, <1>7, <1>9
<1>13. ASSUME NEW j \in i + 1 .. Len(s) + 1 PROVE d[j] = s[j - 1]
  <2>1. /\ j - i \in 1 .. Len(s) - i + 1 /\ i + (j - i) - 1 = j - 1
        /\ ~(j <= i) /\ j \in 1 .. Len(c) + Len(b)
    BY <1>1, <1>3, <1>7
  <2>2. d[j] = b[j - i]
    BY <1>7, <1>9, <2>1
  <2> QED BY <1>3, <2>1, <2>2
<1> QED BY <1>9, <1>10, <1>11, <1>12, <1>13

(* The elements of a sequence. *)
LEMMA ToSetProps ==
    ASSUME NEW S, NEW s \in Seq(S)
    PROVE  /\ ToSet(s) \in SUBSET S
           /\ \A x : x \in ToSet(s) <=> \E i \in 1 .. Len(s) : s[i] = x
BY LenProperties DEF ToSet

(* list_add_tail *)
LEMMA AppendList ==
    ASSUME NEW S, NEW s \in Seq(S), NEW x \in S
    PROVE  /\ Append(s, x) \in Seq(S) /\ Len(Append(s, x)) = Len(s) + 1
           /\ Append(s, x)[Len(s) + 1] = x
           /\ \A i \in 1 .. Len(s) : Append(s, x)[i] = s[i]
           /\ \A y : Contains(Append(s, x), y) <=> Contains(s, y) \/ y = x
           /\ Distinct(s) /\ ~Contains(s, x) => Distinct(Append(s, x))
<1> DEFINE a == Append(s, x)
<1>1. /\ a \in Seq(S) /\ Len(a) = Len(s) + 1 /\ a[Len(s) + 1] = x
      /\ \A i \in 1 .. Len(s) : a[i] = s[i]
      /\ Len(s) \in Nat
  BY AppendProperties, LenProperties
<1> HIDE DEF a
<1>2. \A y : Contains(a, y) <=> Contains(s, y) \/ y = x
  BY <1>1 DEF Contains
<1>3. Distinct(s) /\ ~Contains(s, x) => Distinct(a)
  BY <1>1 DEF Contains, Distinct
<1> QED BY <1>1, <1>2, <1>3 DEF a

(* list_del of the first element *)
LEMMA TailList ==
    ASSUME NEW S, NEW s \in Seq(S), s # <<>>
    PROVE  /\ Head(s) \in S /\ Head(s) = s[1] /\ Contains(s, Head(s))
           /\ Tail(s) \in Seq(S) /\ Len(Tail(s)) = Len(s) - 1 /\ Len(s) > 0
           /\ \A i \in 1 .. Len(s) - 1 : Tail(s)[i] = s[i + 1]
           /\ \A y : Contains(Tail(s), y) => Contains(s, y)
           /\ \A y : Contains(s, y) => Contains(Tail(s), y) \/ y = Head(s)
           /\ Distinct(s) => Distinct(Tail(s)) /\ ~Contains(Tail(s), Head(s))
<1> DEFINE a == Tail(s)
<1>1. /\ Head(s) \in S /\ Head(s) = s[1]
      /\ a \in Seq(S) /\ Len(a) = Len(s) - 1 /\ Len(s) \in Nat /\ Len(s) > 0
      /\ \A i \in 1 .. Len(s) - 1 : a[i] = s[i + 1]
  BY HeadTailProperties, LenProperties, EmptySeq
<1> HIDE DEF a
<1>2. Contains(s, Head(s))
  BY <1>1 DEF Contains
<1>3. ASSUME NEW y, Contains(a, y) PROVE Contains(s, y)
  <2>1. PICK i \in 1 .. Len(s) - 1 : a[i] = y
    BY <1>1, <1>3 DEF Contains
  <2>2. i + 1 \in 1 .. Len(s)
    BY <1>1
  <2> QED BY <1>1, <2>1, <2>2 DEF Contains
<1>4. ASSUME NEW y, Contains(s, y), y # Head(s) PROVE Contains(a, y)
  <2>1. PICK i \in 1 .. Len(s) : s[i] = y
    BY <1>4 DEF Contains
  <2>2. i - 1 \in 1 .. Len(s) - 1 /\ (i - 1) + 1 = i
    BY <1>1, <1>4, <2>1
  <2>3. a[i - 1] = y
    BY <1>1, <2>1, <2>2
  <2> QED BY <1>1, <2>2, <2>3 DEF Contains
<1>5. ASSUME Distinct(s) PROVE Distinct(a) /\ ~Contains(a, Head(s))
  <2>1. \A i \in 1 .. Len(s) - 1 : i + 1 \in 1 .. Len(s) /\ i + 1 # 1
    BY <1>1
  <2>2. ASSUME NEW i \in 1 .. Len(a), NEW k \in 1 .. Len(a), a[i] = a[k]
        PROVE  i = k
    <3>1. i + 1 = k + 1
      BY <1>1, <1>5, <2>1, <2>2 DEF Distinct
    <3> QED BY <1>1, <3>1
  <2>3. ASSUME Contains(a, Head(s)) PROVE FALSE
    <3>1. PICK i \in 1 .. Len(s) - 1 : a[i] = s[1]
      BY <1>1, <2>3 DEF Contains
    <3> QED BY <1>1, <1>5, <2>1, <3>1 DEF Distinct
  <2> QED BY <2>2, <2>3 DEF Distinct
<1> QED BY <1>1, <1>2, <1>3, <1>4, <1>5 DEF a

(* list_add *)
LEMMA PushList ==
    ASSUME NEW S, NEW s \in Seq(S), NEW x \in S
    PROVE  /\ <<x>> \o s \in Seq(S) /\ Len(<<x>> \o s) = Len(s) + 1
           /\ \A y : Contains(<<x>> \o s, y) <=> Contains(s, y) \/ y = x
           /\ Distinct(s) /\ ~Contains(s, x) => Distinct(<<x>> \o s)
<1> DEFINE m == <<x>>
           a == m \o s
<1>1. m \in Seq(S) /\ Len(m) = 1 /\ m[1] = x /\ Len(s) \in Nat
  BY LenProperties
<1> HIDE DEF m
<1>2. /\ a \in Seq(S) /\ Len(a) = Len(m) + Len(s)
      /\ \A i \in 1 .. Len(m) + Len(s) :
            a[i] = IF i <= Len(m) THEN m[i] ELSE s[i - Len(m)]
  BY <1>1, ConcatProperties
<1> HIDE DEF a
<1>3. a[1] = x /\ \A i \in 1 .. Len(s) : a[i + 1] = s[i]
  <2>1. a[1] = x
    BY <1>1, <1>2
  <2>2. ASSUME NEW i \in 1 .. Len(s) PROVE a[i + 1] = s[i]
    <3>1. /\ i + 1 \in 1 .. Len(m) + Len(s)
          /\ ~(i + 1 <= Len(m)) /\ (i + 1) - Len(m) = i
      BY <1>1
    <3> QED BY <1>2, <3>1
  <2> QED BY <2>1, <2>2
<1>4. \A k \in 1 .. Len(a) : k = 1 \/ \E i \in 1 .. Len(s) : k = i + 1
  <2>1. ASSUME NEW k \in 1 .. Len(a), k # 1
        PROVE  \E i \in 1 .. Len(s) : k = i + 1
    <3>1. k - 1 \in 1 .. Len(s) /\ k = (k - 1) + 1
      BY <1>1, <1>2, <2>1
    <3> QED BY <3>1
  <2> QED BY <2>1
<1>5. \A i \in 1 .. Len(s) : i + 1 \in 1 .. Len(a)
  BY <1>1, <1>2
<1>6. 1 \in 1 .. Len(a) /\ Len(a) = Len(s) + 1
  BY <1>1, <1>2
<1>7. ASSUME NEW y PROVE Contains(a, y) <=> Contains(s, y) \/ y = x
  <2>1. ASSUME Contains(a, y) PROVE Contains(s, y) \/ y = x
    BY <1>3, <1>4, <2>1 DEF Contains
  <2>2. ASSUME Contains(s, y) PROVE Contains(a, y)
    BY <1>3, <1>5, <2>2 DEF Contains
  <2>3. Contains(a, x)
    BY <1>3, <1>6 DEF Contains
  <2> QED BY <2>1, <2>2, <2>3
<1>8. ASSUME Distinct(s), ~Contains(s, x) PROVE Distinct(a)
  <2>1. ASSUME NEW i \in 1 .. Len(a), NEW k \in 1 .. Len(a), a[i] = a[k]
        PROVE  i = k
    <3>1. CASE i = 1
      BY <1>3, <1>4, <1>8, <2>1, <3>1 DEF Contains
    <3>2. CASE k = 1
      BY <1>3, <1>4, <1>8, <2>1, <3>2 DEF Contains
    <3>3. CASE i # 1 /\ k # 1
      <4>1. PICK u \in 1 .. Len(s), v \in 1 .. Len(s) : i = u + 1 /\ k = v + 1
        BY <1>4, <3>3
      <4> QED BY <1>3, <1>8, <2>1, <4>1 DEF Distinct
    <3> QED BY <3>1, <3>2, <3>3
  <2> QED BY <2>1 DEF Distinct
<1> QED BY <1>2, <1>6, <1>7, <1>8 DEF a, m

(* list_del of any element *)
LEMMA DeleteList ==
    ASSUME NEW S, NEW s \in Seq(S), NEW n \in 1 .. Len(s), Distinct(s)
    PROVE  /\ RemoveAt(s, n) \in Seq(S) /\ Len(RemoveAt(s, n)) = Len(s) - 1
           /\ \A k \in n .. Len(s) - 1 : RemoveAt(s, n)[k] = s[k + 1]
           /\ \A y : Contains(RemoveAt(s, n), y)
                        <=> Contains(s, y) /\ y # s[n]
           /\ Distinct(RemoveAt(s, n))
<1> DEFINE a == RemoveAt(s, n)
           old(k) == IF k < n THEN k ELSE k + 1
<1>1. /\ a \in Seq(S) /\ Len(a) = Len(s) - 1 /\ Len(s) \in Nat
      /\ \A k \in 1 .. Len(s) - 1 :
            a[k] = IF k < n THEN s[k] ELSE s[k + 1]
  BY RemoveAtProps, LenProperties
<1> HIDE DEF a
<1>2. \A k \in n .. Len(s) - 1 : a[k] = s[k + 1]
  BY <1>1
<1>3. \A k \in 1 .. Len(a) : /\ a[k] = s[old(k)]
                             /\ old(k) \in 1 .. Len(s) /\ old(k) # n
  BY <1>1
<1>4. \A i, k \in 1 .. Len(a) : old(i) = old(k) => i = k
  BY <1>1
<1>5. \A i \in 1 .. Len(s) : i # n => \E k \in 1 .. Len(a) : old(k) = i
  <2>1. ASSUME NEW i \in 1 .. Len(s), i # n
        PROVE  \E k \in 1 .. Len(a) : old(k) = i
    <3>1. CASE i < n
      <4>1. i \in 1 .. Len(a) /\ old(i) = i
        BY <1>1, <3>1
      <4> QED BY <4>1
    <3>2. CASE ~(i < n)
      <4>1. i - 1 \in 1 .. Len(a) /\ old(i - 1) = i
        BY <1>1, <2>1, <3>2
      <4> QED BY <4>1
    <3> QED BY <3>1, <3>2
  <2> QED BY <2>1
<1> HIDE DEF old
<1>6. ASSUME NEW y PROVE Contains(a, y) <=> Contains(s, y) /\ y # s[n]
  <2>1. ASSUME Contains(a, y) PROVE Contains(s, y) /\ y # s[n]
    BY <1>3, <2>1 DEF Contains, Distinct
  <2>2. ASSUME Contains(s, y), y # s[n] PROVE Contains(a, y)
    <3>1. PICK i \in 1 .. Len(s) : s[i] = y /\ i # n
      BY <2>2 DEF Contains
    <3> QED BY <1>3, <1>5, <3>1 DEF Contains
  <2> QED BY <2>1, <2>2
<1>7. Distinct(a)
  BY <1>3, <1>4 DEF Distinct
<1> QED BY <1>1, <1>2, <1>6, <1>7 DEF a

-----------------------------------------------------------------------------
(* How often an element is on a list. *)
Positions(s, x) == {i \in 1 .. Len(s) : s[i] = x}
Count(s, x) == Cardinality(Positions(s, x))

LEMMA CountType ==
    ASSUME NEW S, NEW s \in Seq(S), NEW x
    PROVE  /\ IsFiniteSet(Positions(s, x)) /\ Count(s, x) \in Nat
           /\ Count(s, x) = 0 <=> ~\E i \in 1 .. Len(s) : s[i] = x
<1>1. IsFiniteSet(1 .. Len(s)) /\ Positions(s, x) \subseteq 1 .. Len(s)
  BY LenProperties, FS_Interval DEF Positions
<1>2. IsFiniteSet(Positions(s, x))
  BY <1>1, FS_Subset
<1>3. Count(s, x) = 0 <=> Positions(s, x) = {}
  BY <1>2, FS_EmptySet DEF Count
<1>4. Count(s, x) \in Nat
  BY <1>2, FS_CardinalityType DEF Count
<1> QED BY <1>2, <1>3, <1>4 DEF Positions

(* The elements of two lists behind each other. *)
LEMMA CountConcat ==
    ASSUME NEW S, NEW s \in Seq(S), NEW t \in Seq(S), NEW x
    PROVE  Count(s \o t, x) = Count(s, x) + Count(t, x)
<1>1. PICK a : a = s \o t
  OBVIOUS
<1>2. /\ a \in Seq(S) /\ Len(a) = Len(s) + Len(t)
      /\ Len(s) \in Nat /\ Len(t) \in Nat
      /\ \A i \in 1 .. Len(s) + Len(t) :
            a[i] = IF i <= Len(s) THEN s[i] ELSE t[i - Len(s)]
  BY <1>1, ConcatProperties, LenProperties
<1> DEFINE n == Len(s)
           P == Positions(s, x)
           Q == Positions(t, x)
           R == {i \in n + 1 .. n + Len(t) : t[i - n] = x}
           f == [i \in Q |-> n + i]
<1>3. Positions(a, x) = P \cup R
  <2>1. ASSUME NEW i \in 1 .. n + Len(t)
        PROVE  a[i] = x <=> i \in P \cup R
    <3>1. CASE i <= n
      <4>1. i \in 1 .. n /\ i \notin R /\ a[i] = s[i]
        BY <1>2, <3>1
      <4> QED BY <4>1 DEF Positions
    <3>2. CASE ~(i <= n)
      <4>1. i \in n + 1 .. n + Len(t) /\ i \notin P /\ a[i] = t[i - n]
        BY <1>2, <3>2 DEF Positions
      <4> QED BY <4>1
    <3> QED BY <3>1, <3>2
  <2>2. P \subseteq 1 .. n + Len(t) /\ R \subseteq 1 .. n + Len(t)
    BY <1>2 DEF Positions
  <2> HIDE DEF P, R
  <2> QED BY <1>2, <2>1, <2>2 DEF Positions
<1>4. P \cap R = {}
  BY <1>2 DEF Positions
<1>5. f \in Bijection(Q, R)
  <2>1. \A i \in Q : i \in 1 .. Len(t) /\ t[i] = x
    BY DEF Positions
  <2>2. \A i \in Q : n + i \in R
    <3>1. \A i \in 1 .. Len(t) :
             n + i \in n + 1 .. n + Len(t) /\ (n + i) - n = i
      BY <1>2
    <3> QED BY <2>1, <3>1
  <2>3. \A j \in R : \E i \in Q : n + i = j
    <3>1. ASSUME NEW j \in R PROVE j - n \in Q /\ n + (j - n) = j
      BY <1>2 DEF Positions
    <3> QED BY <3>1
  <2>4. \A i, j \in Q : n + i = n + j => i = j
    BY <1>2, <2>1
  <2>5. f \in [Q -> R] /\ \A i \in Q : f[i] = n + i
    BY <2>2
  <2> HIDE DEF f, Q, R
  <2>6. IsInjective(f)
    BY <2>4, <2>5 DEF IsInjective
  <2> QED BY <2>3, <2>5, <2>6 DEF Bijection, Injection, Surjection
<1>6. IsFiniteSet(P) /\ IsFiniteSet(Q)
  BY CountType
<1> HIDE DEF P, Q, R, f
<1>7. IsFiniteSet(R) /\ Cardinality(R) = Cardinality(Q)
  BY <1>5, <1>6, FS_Bijection DEF ExistsBijection
<1>8. Cardinality(P \cap R) = 0
  BY <1>4, FS_EmptySet
<1>9. Cardinality(P \cup R) = Cardinality(P) + Cardinality(R) - 0
  BY <1>6, <1>7, <1>8, FS_Union
<1>10. Cardinality(P) \in Nat /\ Cardinality(Q) \in Nat
  BY <1>6, FS_CardinalityType
<1> QED BY <1>1, <1>3, <1>7, <1>9, <1>10 DEF Count, P, Q

(* A list of one element. *)
LEMMA CountOne ==
    ASSUME NEW y, NEW x
    PROVE  Count(<<y>>, x) = IF y = x THEN 1 ELSE 0
<1>1. Len(<<y>>) = 1 /\ <<y>>[1] = y
  OBVIOUS
<1>2. 1 .. 1 = {1}
  OBVIOUS
<1>3. Positions(<<y>>, x) = IF y = x THEN {1} ELSE {}
  BY <1>1, <1>2 DEF Positions
<1> QED BY <1>3, FS_Singleton, FS_EmptySet DEF Count

(* list_add_tail and list_del of the first element. *)
LEMMA CountAppend ==
    ASSUME NEW S, NEW s \in Seq(S), NEW y \in S, NEW x
    PROVE  Count(Append(s, y), x) = Count(s, x) + IF y = x THEN 1 ELSE 0
<1>1. Append(s, y) = s \o <<y>>
  OBVIOUS
<1>2. <<y>> \in Seq(S)
  OBVIOUS
<1>3. Count(Append(s, y), x) = Count(s, x) + Count(<<y>>, x)
  <2>1. PICK a, b : a = <<y>> /\ b = Append(s, y)
    OBVIOUS
  <2>2. a \in Seq(S) /\ b = s \o a
    BY <1>1, <1>2, <2>1
  <2>3. Count(s \o a, x) = Count(s, x) + Count(a, x)
    BY <2>2, CountConcat
  <2> QED BY <2>1, <2>2, <2>3
<1> QED BY <1>3, CountOne

LEMMA CountTail ==
    ASSUME NEW S, NEW s \in Seq(S), s # <<>>, NEW x
    PROVE  Count(s, x) = Count(Tail(s), x) + IF Head(s) = x THEN 1 ELSE 0
<1>1. s = <<Head(s)>> \o Tail(s)
  OBVIOUS
<1>2. Head(s) \in S /\ Tail(s) \in Seq(S) /\ <<Head(s)>> \in Seq(S)
  BY TailList
<1>3. Count(s, x) = Count(<<Head(s)>>, x) + Count(Tail(s), x)
  <2>1. PICK a, b : a = <<Head(s)>> /\ b = Tail(s)
    OBVIOUS
  <2>2. a \in Seq(S) /\ b \in Seq(S) /\ s = a \o b
    BY <1>1, <1>2, <2>1
  <2>3. Count(a \o b, x) = Count(a, x) + Count(b, x)
    BY <2>2, CountConcat
  <2> QED BY <2>1, <2>2, <2>3
<1>4. Count(Tail(s), x) \in Nat
  BY <1>2, CountType
<1> QED BY <1>3, <1>4, CountOne

(* A list cut in two. *)
LEMMA CountSplit ==
    ASSUME NEW S, NEW s \in Seq(S), NEW n \in 1 .. Len(s), NEW x
    PROVE  /\ SubSeq(s, 1, n) \in Seq(S) /\ SubSeq(s, n + 1, Len(s)) \in Seq(S)
           /\ Count(s, x) = Count(SubSeq(s, 1, n), x)
                               + Count(SubSeq(s, n + 1, Len(s)), x)
<1>1. s = SubSeq(s, 1, n) \o SubSeq(s, n + 1, Len(s))
  OBVIOUS
<1>2. SubSeq(s, 1, n) \in Seq(S) /\ SubSeq(s, n + 1, Len(s)) \in Seq(S)
  OBVIOUS
<1>3. PICK a, b : a = SubSeq(s, 1, n) /\ b = SubSeq(s, n + 1, Len(s))
  OBVIOUS
<1>4. a \in Seq(S) /\ b \in Seq(S) /\ s = a \o b
  BY <1>1, <1>2, <1>3
<1>5. Count(s, x) = Count(a, x) + Count(b, x)
  BY <1>4, CountConcat
<1> QED BY <1>2, <1>3, <1>5
=============================================================================
