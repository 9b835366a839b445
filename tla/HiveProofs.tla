------------------------------ MODULE HiveProofs ------------------------------
(***************************************************************************)
(* The two views of the hive agree, the board stays within its limit and   *)
(* sticking loses no label, for any labels, any lists of tags and any      *)
(* numbers of queues and threads; and the catalogue shows what a query     *)
(* asks for, newest first and all of it, for any queries and page sizes.   *)
(*                                                                         *)
(* The loops of the code are recursive functions.  What they compute is    *)
(* proved by induction on the position they have come to.                  *)
(***************************************************************************)
EXTENDS Catalogue, FiniteSetTheorems, SequenceTheorems, WellFoundedInduction, TLAPS

-----------------------------------------------------------------------------
(* Induction and recursion                                                 *)

\* A set of numbers with 0 and with the successors of its elements has all.
LEMMA NatSetInduction ==
  ASSUME NEW T, 0 \in T, \A n \in Nat : n \in T => n + 1 \in T
  PROVE  Nat \subseteq T
<1> SUFFICES ASSUME Nat \ T # {} PROVE FALSE
  OBVIOUS
<1>1. PICK x \in Nat \ T : \A y \in Nat \ T : ~(<<y, x>> \in OpToRel(<, Nat))
  BY WFMin, NatLessThanWellFounded
<1>2. x # 0 /\ x - 1 \in Nat
  OBVIOUS
<1>3. x - 1 \in T
  <2> SUFFICES ASSUME x - 1 \notin T PROVE FALSE
    OBVIOUS
  <2>1. <<x - 1, x>> \in OpToRel(<, Nat)
    BY <1>2 DEF OpToRel
  <2> QED
    BY <2>1, <1>1, <1>2
<1> QED
  BY <1>2, <1>3

\* A loop from 1 to n: f[i] is what its i-th round leaves.
Loop(f, n, S, a, round) ==
  /\ f \in [0 .. n -> S] /\ f[0] = a
  /\ \A i \in 1 .. n : f[i] = round[i][f[i - 1]]

\* Every loop has its sequence of intermediate values.
LEMMA LoopExists ==
  ASSUME NEW n \in Nat, NEW S, NEW a \in S, NEW round \in [1 .. n -> [S -> S]]
  PROVE  \E f : Loop(f, n, S, a, round)
<1> DEFINE Upto(f, m) == /\ f \in [0 .. m -> S] /\ f[0] = a
                         /\ \A i \in 1 .. m : f[i] = round[i][f[i - 1]]
           T == {m \in Nat : m <= n => \E f : Upto(f, m)}
<1>1. 0 \in T
  <2>1. Upto([i \in 0 .. 0 |-> a], 0)
    OBVIOUS
  <2> QED
    BY <2>1
<1>2. ASSUME NEW m \in Nat, m \in T PROVE m + 1 \in T
  <2> SUFFICES ASSUME m + 1 <= n PROVE \E f : Upto(f, m + 1)
    OBVIOUS
  <2>1. PICK f : Upto(f, m)
    BY <1>2
  <2> DEFINE g == [i \in 0 .. m + 1 |-> IF i = m + 1 THEN round[m + 1][f[m]] ELSE f[i]]
  <2>2. f[m] \in S /\ round[m + 1] \in [S -> S]
    BY <2>1
  <2>3. round[m + 1][f[m]] \in S
    BY <2>2
  <2>4. g \in [0 .. m + 1 -> S] /\ g[0] = a
    BY <2>1, <2>3
  <2>5. ASSUME NEW i \in 1 .. m + 1 PROVE g[i] = round[i][g[i - 1]]
    <3>1. CASE i = m + 1
      <4>1. g[i] = round[m + 1][f[m]] /\ g[i - 1] = f[m]
        BY <3>1
      <4> QED
        BY <3>1, <4>1
    <3>2. CASE i # m + 1
      <4>1. i \in 1 .. m /\ g[i] = f[i] /\ g[i - 1] = f[i - 1]
        BY <3>2
      <4> QED
        BY <4>1, <2>1
    <3> QED
      BY <3>1, <3>2
  <2>6. Upto(g, m + 1)
    BY <2>4, <2>5
  <2> QED
    BY <2>6
<1>3. n \in T
  <2> HIDE DEF T
  <2> QED
    BY <1>1, <1>2, NatSetInduction
<1>4. PICK f : Upto(f, n)
  BY <1>3
<1> QED
  BY <1>4 DEF Loop

-----------------------------------------------------------------------------
(* Lists                                                                   *)

LEMMA ContainsIsIn ==
  ASSUME NEW S, NEW s \in Seq(S), NEW x
  PROVE  Contains(s, x) <=> x \in ToSet(s)
BY DEF Contains, ToSet

LEMMA ConcatSet ==
  ASSUME NEW S, NEW s \in Seq(S), NEW u \in Seq(S)
  PROVE  /\ s \o u \in Seq(S)
         /\ ToSet(s \o u) = ToSet(s) \cup ToSet(u)
<1> DEFINE c == s \o u
<1>1. /\ c \in Seq(S) /\ Len(c) = Len(s) + Len(u)
      /\ \A i \in 1 .. Len(s) + Len(u) : c[i] = IF i <= Len(s) THEN s[i] ELSE u[i - Len(s)]
  BY ConcatProperties
<1> HIDE DEF c
<1>2. \A x \in ToSet(c) : x \in ToSet(s) \cup ToSet(u)
  <2> SUFFICES ASSUME NEW i \in 1 .. Len(s) + Len(u) PROVE c[i] \in ToSet(s) \cup ToSet(u)
    BY <1>1 DEF ToSet
  <2>1. CASE i <= Len(s)
    BY <2>1, <1>1 DEF ToSet
  <2>2. CASE ~(i <= Len(s))
    <3>1. c[i] = u[i - Len(s)] /\ i - Len(s) \in DOMAIN u
      BY <2>2, <1>1
    <3> QED
      BY <3>1 DEF ToSet
  <2> QED
    BY <2>1, <2>2
<1>3. \A x \in ToSet(s) : x \in ToSet(c)
  <2> SUFFICES ASSUME NEW i \in 1 .. Len(s) PROVE s[i] \in ToSet(c)
    BY DEF ToSet
  <2>1. i \in DOMAIN c /\ c[i] = s[i]
    BY <1>1
  <2> QED
    BY <2>1 DEF ToSet
<1>4. \A x \in ToSet(u) : x \in ToSet(c)
  <2> SUFFICES ASSUME NEW i \in 1 .. Len(u) PROVE u[i] \in ToSet(c)
    BY DEF ToSet
  <2>1. i + Len(s) \in DOMAIN c /\ c[i + Len(s)] = u[i]
    BY <1>1
  <2> QED
    BY <2>1 DEF ToSet
<1> QED
  BY <1>1, <1>2, <1>3, <1>4 DEF c

LEMMA SingleSet ==
  ASSUME NEW S, NEW x \in S
  PROVE  /\ <<x>> \in Seq(S) /\ Len(<<x>>) = 1 /\ <<x>>[1] = x
         /\ ToSet(<<x>>) = {x}
BY DEF ToSet

LEMMA AppendSet ==
  ASSUME NEW S, NEW s \in Seq(S), NEW x \in S
  PROVE  Append(s, x) \in Seq(S) /\ ToSet(Append(s, x)) = ToSet(s) \cup {x}
<1> DEFINE one == <<x>>
<1>1. one \in Seq(S) /\ ToSet(one) = {x}
  BY SingleSet
<1>2. Append(s, x) = s \o one
  BY AppendIsConcat
<1> HIDE DEF one
<1>3. s \o one \in Seq(S) /\ ToSet(s \o one) = ToSet(s) \cup ToSet(one)
  BY <1>1, ConcatSet
<1> QED
  BY <1>1, <1>2, <1>3

LEMMA SetOfSeq ==
  ASSUME NEW S, NEW s \in Seq(S)
  PROVE  ToSet(s) \subseteq S
BY DEF ToSet

\* RemoveAt: the elements before and after place i.
LEMMA RemoveAtElems ==
  ASSUME NEW S, NEW s \in Seq(S), NEW i \in 1 .. Len(s)
  PROVE  /\ RemoveAt(s, i) \in Seq(S)
         /\ Len(RemoveAt(s, i)) = Len(s) - 1
         /\ \A k \in 1 .. Len(s) - 1 : RemoveAt(s, i)[k] = IF k < i THEN s[k] ELSE s[k + 1]
<1> DEFINE a == SubSeq(s, 1, i - 1)
           b == SubSeq(s, i + 1, Len(s))
<1>1. /\ a \in Seq(S) /\ Len(a) = i - 1
      /\ \A k \in 1 .. i - 1 : a[k] = s[k]
  <2>1. \A k \in 1 .. i - 1 : s[k] \in S
    OBVIOUS
  <2> QED
    BY <2>1, SubSeqProperties
<1>2. /\ b \in Seq(S) /\ Len(b) = Len(s) - i
      /\ \A k \in 1 .. Len(s) - i : b[k] = s[k + i]
  <2>1. \A k \in i + 1 .. Len(s) : s[k] \in S
    OBVIOUS
  <2> QED
    BY <2>1, SubSeqProperties
<1> HIDE DEF a, b
<1>3. /\ a \o b \in Seq(S) /\ Len(a \o b) = Len(s) - 1
      /\ \A k \in 1 .. Len(s) - 1 : (a \o b)[k] = IF k <= i - 1 THEN a[k] ELSE b[k - (i - 1)]
  <2>1. /\ a \o b \in Seq(S) /\ Len(a \o b) = Len(a) + Len(b)
        /\ \A k \in 1 .. Len(a) + Len(b) : (a \o b)[k] = IF k <= Len(a) THEN a[k] ELSE b[k - Len(a)]
    BY <1>1, <1>2, ConcatProperties
  <2>2. Len(a) + Len(b) = Len(s) - 1
    BY <1>1, <1>2
  <2> QED
    BY <2>1, <2>2, <1>1
<1>4. ASSUME NEW k \in 1 .. Len(s) - 1
      PROVE  (a \o b)[k] = IF k < i THEN s[k] ELSE s[k + 1]
  <2>1. CASE k < i
    BY <2>1, <1>1, <1>3
  <2>2. CASE ~(k < i)
    <3>1. (a \o b)[k] = b[k - (i - 1)]
      <4>1. ~(k <= i - 1)
        BY <2>2
      <4> QED
        BY <4>1, <1>3
    <3>2. k - (i - 1) \in 1 .. Len(s) - i /\ (k - (i - 1)) + i = k + 1
      BY <2>2
    <3> QED
      BY <3>1, <3>2, <1>2, <2>2
  <2> QED
    BY <2>1, <2>2
<1> QED
  BY <1>3, <1>4 DEF RemoveAt, a, b

\* RemoveThread takes t out of a list that has each thread once.
LEMMA RemoveThreadIs ==
  ASSUME NEW S, NEW s \in Seq(S), IsInjective(s), NEW t
  PROVE  /\ RemoveThread(s, t) \in Seq(S)
         /\ ToSet(RemoveThread(s, t)) = ToSet(s) \ {t}
         /\ IsInjective(RemoveThread(s, t))
<1>1. CASE t \notin ToSet(s)
  <2>1. RemoveThread(s, t) = s
    BY <1>1, ContainsIsIn DEF RemoveThread
  <2> QED
    BY <1>1, <2>1
<1>2. CASE t \in ToSet(s)
  <2> DEFINE i == Elem(s, t)
             r == RemoveAt(s, i)
  <2>1. i \in 1 .. Len(s) /\ s[i] = t
    <3>1. \E k \in DOMAIN s : s[k] = t
      BY <1>2 DEF ToSet
    <3> QED
      BY <3>1 DEF Elem
  <2> HIDE DEF i
  <2>2. /\ r \in Seq(S) /\ Len(r) = Len(s) - 1
        /\ \A k \in 1 .. Len(s) - 1 : r[k] = IF k < i THEN s[k] ELSE s[k + 1]
    BY <2>1, RemoveAtElems
  <2> HIDE DEF r
  <2>3. DOMAIN r = 1 .. Len(s) - 1
    BY <2>2
  <2>4. IsInjective(r)
    <3> SUFFICES ASSUME NEW j \in 1 .. Len(s) - 1, NEW k \in 1 .. Len(s) - 1, r[j] = r[k]
                 PROVE  j = k
      BY <2>3 DEF IsInjective
    <3> DEFINE p(n) == IF n < i THEN n ELSE n + 1
    <3>1. s[p(j)] = s[p(k)] /\ p(j) \in DOMAIN s /\ p(k) \in DOMAIN s
      BY <2>2
    <3>2. p(j) = p(k)
      <4> HIDE DEF p
      <4> QED
        BY <3>1 DEF IsInjective
    <3> QED
      BY <3>2, <2>1
  <2>5. ASSUME NEW x \in ToSet(r) PROVE x \in ToSet(s) \ {t}
    <3>1. PICK k \in 1 .. Len(s) - 1 : x = r[k]
      BY <2>3 DEF ToSet
    <3>2. PICK n \in 1 .. Len(s) : n # i /\ x = s[n]
      BY <3>1, <2>2
    <3>3. x # t
      BY <3>2, <2>1 DEF IsInjective
    <3> QED
      BY <3>2, <3>3 DEF ToSet
  <2>6. ASSUME NEW x \in ToSet(s) \ {t} PROVE x \in ToSet(r)
    <3>1. PICK n \in 1 .. Len(s) : x = s[n]
      BY DEF ToSet
    <3>2. n # i
      BY <3>1, <2>1
    <3>3. PICK k \in 1 .. Len(s) - 1 : r[k] = x
      <4>1. CASE n < i
        <5>1. n \in 1 .. Len(s) - 1 /\ r[n] = s[n]
          BY <4>1, <2>1, <2>2
        <5> QED
          BY <5>1, <3>1
      <4>2. CASE n > i
        <5>1. n - 1 \in 1 .. Len(s) - 1 /\ r[n - 1] = s[n]
          BY <4>2, <2>1, <2>2
        <5> QED
          BY <5>1, <3>1
      <4> QED
        BY <4>1, <4>2, <3>2, <2>1
    <3> QED
      BY <3>3, <2>3 DEF ToSet
  <2>7. RemoveThread(s, t) = r
    BY <1>2, ContainsIsIn DEF RemoveThread, r, i
  <2> QED
    BY <2>2, <2>4, <2>5, <2>6, <2>7
<1> QED
  BY <1>1, <1>2

\* A thread that is not in a list goes to its front.
LEMMA ConsIs ==
  ASSUME NEW S, NEW s \in Seq(S), IsInjective(s), NEW t \in S, t \notin ToSet(s)
  PROVE  /\ Cons(t, s) \in Seq(S)
         /\ ToSet(Cons(t, s)) = ToSet(s) \cup {t}
         /\ IsInjective(Cons(t, s))
<1> DEFINE c == <<t>> \o s
<1>1. c \in Seq(S) /\ ToSet(c) = ToSet(s) \cup {t}
  <2>1. <<t>> \in Seq(S) /\ ToSet(<<t>>) = {t}
    BY SingleSet
  <2> DEFINE e == <<t>>
  <2> HIDE DEF e
  <2>2. e \o s \in Seq(S) /\ ToSet(e \o s) = ToSet(e) \cup ToSet(s)
    <3>1. e \in Seq(S)
      BY <2>1 DEF e
    <3> QED
      BY <3>1, ConcatSet
  <2> QED
    BY <2>1, <2>2 DEF e
<1>2. /\ DOMAIN c = 1 .. Len(s) + 1 /\ c[1] = t
      /\ \A k \in 2 .. Len(s) + 1 : c[k] = s[k - 1]
  OBVIOUS
<1> HIDE DEF c
<1>3. \A k \in 2 .. Len(s) + 1 : k - 1 \in DOMAIN s /\ s[k - 1] \in ToSet(s)
  BY DEF ToSet
<1>4. ASSUME NEW j \in DOMAIN c, NEW k \in DOMAIN c, c[j] = c[k] PROVE j = k
  <2>1. CASE j = 1 /\ k # 1
    BY <2>1, <1>2, <1>3, <1>4
  <2>2. CASE k = 1 /\ j # 1
    BY <2>2, <1>2, <1>3, <1>4
  <2>3. CASE j # 1 /\ k # 1
    <3>1. s[j - 1] = s[k - 1] /\ j - 1 \in DOMAIN s /\ k - 1 \in DOMAIN s
      BY <2>3, <1>2, <1>4
    <3>2. j - 1 = k - 1
      BY <3>1 DEF IsInjective
    <3> QED
      BY <3>2, <1>2
  <2> QED
    BY <2>1, <2>2, <2>3
<1> QED
  BY <1>1, <1>4 DEF IsInjective, Cons, c

LEMMA AddThreadIs ==
  ASSUME NEW S, NEW s \in Seq(S), IsInjective(s), NEW t \in S
  PROVE  /\ AddThread(s, t) \in Seq(S)
         /\ ToSet(AddThread(s, t)) = ToSet(s) \cup {t}
         /\ IsInjective(AddThread(s, t))
<1>1. CASE t \in ToSet(s)
  BY <1>1, ContainsIsIn DEF AddThread
<1>2. CASE t \notin ToSet(s)
  BY <1>2, ContainsIsIn, ConsIs DEF AddThread
<1> QED
  BY <1>1, <1>2

LEMMA MoveToFrontIs ==
  ASSUME NEW S, NEW s \in Seq(S), IsInjective(s), NEW t \in S
  PROVE  /\ MoveToFront(s, t) \in Seq(S)
         /\ ToSet(MoveToFront(s, t)) = ToSet(s)
         /\ IsInjective(MoveToFront(s, t))
<1>1. CASE t \notin ToSet(s)
  BY <1>1, ContainsIsIn DEF MoveToFront
<1>2. CASE t \in ToSet(s)
  <2> DEFINE r == RemoveThread(s, t)
  <2>1. r \in Seq(S) /\ ToSet(r) = ToSet(s) \ {t} /\ IsInjective(r)
    BY RemoveThreadIs
  <2> HIDE DEF r
  <2>2. /\ Cons(t, r) \in Seq(S) /\ ToSet(Cons(t, r)) = ToSet(r) \cup {t}
        /\ IsInjective(Cons(t, r))
    BY <2>1, ConsIs
  <2>3. MoveToFront(s, t) = Cons(t, r)
    BY <1>2, ContainsIsIn DEF MoveToFront, r
  <2> QED
    BY <1>2, <2>1, <2>2, <2>3
<1> QED
  BY <1>1, <1>2

-----------------------------------------------------------------------------
(* How often a label is in a sequence                                      *)

At(s, x)    == {i \in DOMAIN s : s[i] = x}
Count(s, x) == Cardinality(At(s, x))

LEMMA CountType ==
  ASSUME NEW S, NEW s \in Seq(S), NEW x
  PROVE  /\ IsFiniteSet(At(s, x)) /\ Count(s, x) \in Nat
         /\ Count(s, x) = 0 <=> x \notin ToSet(s)
<1>1. IsFiniteSet(1 .. Len(s)) /\ At(s, x) \in SUBSET (1 .. Len(s))
  BY FS_Interval DEF At
<1>2. IsFiniteSet(At(s, x))
  BY <1>1, FS_Subset
<1>3. Count(s, x) \in Nat
  BY <1>2, FS_CardinalityType DEF Count
<1>4. Count(s, x) = 0 <=> At(s, x) = {}
  BY <1>2, FS_EmptySet DEF Count
<1>5. At(s, x) = {} <=> x \notin ToSet(s)
  BY DEF At, ToSet
<1> QED
  BY <1>2, <1>3, <1>4, <1>5

LEMMA CountConcat ==
  ASSUME NEW S, NEW s \in Seq(S), NEW u \in Seq(S), NEW x
  PROVE  Count(s \o u, x) = Count(s, x) + Count(u, x)
<1> DEFINE c == s \o u
           n == Len(s)
           B == {i \in n + 1 .. n + Len(u) : u[i - n] = x}
           f == [i \in At(u, x) |-> i + n]
<1>1. /\ DOMAIN c = 1 .. n + Len(u) /\ n \in Nat
      /\ \A i \in 1 .. n + Len(u) : c[i] = IF i <= n THEN s[i] ELSE u[i - n]
  OBVIOUS
<1> HIDE DEF c
<1>2. At(c, x) = At(s, x) \cup B
  <2>1. ASSUME NEW i \in At(c, x) PROVE i \in At(s, x) \cup B
    BY <1>1 DEF At
  <2>2. ASSUME NEW i \in At(s, x) PROVE i \in At(c, x)
    BY <1>1 DEF At
  <2>3. ASSUME NEW i \in B PROVE i \in At(c, x)
    BY <1>1 DEF At
  <2> QED
    BY <2>1, <2>2, <2>3
<1>3. At(s, x) \cap B = {}
  BY <1>1 DEF At
<1>4. f \in Bijection(At(u, x), B)
  <2>1. f \in [At(u, x) -> B]
    BY <1>1 DEF At
  <2>2. \A i, j \in At(u, x) : f[i] = f[j] => i = j
    BY <1>1 DEF At
  <2>3. ASSUME NEW j \in B PROVE \E i \in At(u, x) : f[i] = j
    <3>1. j - n \in At(u, x) /\ f[j - n] = j
      BY <1>1 DEF At
    <3> QED
      BY <3>1
  <2> QED
    BY <2>1, <2>2, <2>3 DEF Bijection, Injection, Surjection, IsInjective
<1> HIDE DEF f, B
<1>5. IsFiniteSet(B) /\ Cardinality(B) = Count(u, x)
  BY <1>4, CountType, FS_Bijection DEF ExistsBijection, Count
<1>6. Cardinality({}) = 0 /\ Count(s, x) \in Nat /\ Count(u, x) \in Nat
  BY FS_EmptySet, CountType
<1>7. Cardinality(At(s, x) \cup B) = Cardinality(At(s, x)) + Cardinality(B) - Cardinality(At(s, x) \cap B)
  BY <1>5, CountType, FS_Union
<1>8. Cardinality(At(c, x)) = Cardinality(At(s, x)) + Cardinality(B) - 0
  BY <1>2, <1>3, <1>6, <1>7
<1>9. Count(c, x) = Count(s, x) + Count(u, x)
  BY <1>5, <1>6, <1>8 DEF Count
<1> QED
  BY <1>9 DEF c

LEMMA CountSingle ==
  ASSUME NEW e, NEW x
  PROVE  Count(<<e>>, x) = IF e = x THEN 1 ELSE 0
<1>1. CASE e = x
  <2>1. At(<<e>>, x) = {1}
    BY <1>1 DEF At
  <2> QED
    BY <2>1, <1>1, FS_Singleton DEF Count
<1>2. CASE e # x
  <2>1. At(<<e>>, x) = {}
    BY <1>2 DEF At
  <2> QED
    BY <2>1, <1>2, FS_EmptySet DEF Count
<1> QED
  BY <1>1, <1>2

LEMMA CountAppend ==
  ASSUME NEW S, NEW s \in Seq(S), NEW e \in S, NEW x
  PROVE  Count(Append(s, e), x) = Count(s, x) + IF e = x THEN 1 ELSE 0
<1> DEFINE o == <<e>>
<1>1. o \in Seq(S) /\ Append(s, e) = s \o o /\ Count(o, x) = IF e = x THEN 1 ELSE 0
  BY AppendIsConcat, SingleSet, CountSingle
<1> HIDE DEF o
<1>2. Count(s \o o, x) = Count(s, x) + Count(o, x)
  BY <1>1, CountConcat
<1> QED
  BY <1>1, <1>2

LEMMA CountRemoveAt ==
  ASSUME NEW S, NEW s \in Seq(S), NEW i \in 1 .. Len(s), NEW x
  PROVE  Count(s, x) = Count(RemoveAt(s, i), x) + IF s[i] = x THEN 1 ELSE 0
<1> DEFINE a == SubSeq(s, 1, i - 1)
           b == SubSeq(s, i + 1, Len(s))
           o == Append(a, s[i])
<1>1. a \in Seq(S) /\ b \in Seq(S) /\ s[i] \in S
  <2>1. (\A k \in 1 .. i - 1 : s[k] \in S) /\ (\A k \in i + 1 .. Len(s) : s[k] \in S)
    OBVIOUS
  <2> QED
    BY <2>1, SubSeqProperties
<1>2. o \in Seq(S) /\ s = o \o b
  <2>1. SubSeq(s, 1, i) = SubSeq(s, 1, i - 1) \o <<s[i]>>
    BY SubSeqRecursiveSecond
  <2>2. SubSeq(s, 1, i) \o SubSeq(s, i + 1, Len(s)) = SubSeq(s, 1, Len(s))
    BY ConcatAdjacentSubSeq
  <2>3. SubSeq(s, 1, Len(s)) = s
    BY SubSeqFull
  <2> HIDE DEF b
  <2>4. o = SubSeq(s, 1, i) /\ o \in Seq(S)
    BY <1>1, <2>1, AppendIsConcat, AppendProperties
  <2> QED
    BY <2>2, <2>3, <2>4 DEF b
<1> HIDE DEF a, b
<1>3. Count(o, x) = Count(a, x) + IF s[i] = x THEN 1 ELSE 0
  BY <1>1, CountAppend
<1> HIDE DEF o
<1>4. Count(o \o b, x) = Count(o, x) + Count(b, x)
  BY <1>1, <1>2, CountConcat
<1>5. Count(a \o b, x) = Count(a, x) + Count(b, x)
  BY <1>1, CountConcat
<1>6. Count(a, x) \in Nat /\ Count(b, x) \in Nat
  BY <1>1, CountType
<1>7. Count(s, x) = Count(o, x) + Count(b, x)
  BY <1>2, <1>4
<1>8. Count(RemoveAt(s, i), x) = Count(a, x) + Count(b, x)
  BY <1>5 DEF RemoveAt, a, b
<1> QED
  BY <1>3, <1>6, <1>7, <1>8

\* A sequence repeats nothing if it has nothing more than once.
LEMMA CountInjective ==
  ASSUME NEW S, NEW s \in Seq(S)
  PROVE  IsInjective(s) <=> \A x : Count(s, x) <= 1
<1>1. ASSUME IsInjective(s), NEW x PROVE Count(s, x) <= 1
  <2>1. CASE At(s, x) = {}
    BY <2>1, FS_EmptySet DEF Count
  <2>2. CASE At(s, x) # {}
    <3>1. PICK i : i \in At(s, x)
      BY <2>2
    <3>2. At(s, x) = {i}
      BY <3>1, <1>1 DEF At, IsInjective
    <3>3. Cardinality({i}) = 1
      BY FS_Singleton
    <3> QED
      BY <3>2, <3>3 DEF Count
  <2> QED
    BY <2>1, <2>2
<1>2. ASSUME \A x : Count(s, x) <= 1 PROVE IsInjective(s)
  <2> SUFFICES ASSUME NEW i \in DOMAIN s, NEW j \in DOMAIN s, s[i] = s[j] PROVE i = j
    BY DEF IsInjective
  <2> DEFINE x == s[i]
  <2>1. IsFiniteSet(At(s, x)) /\ Count(s, x) \in Nat /\ Count(s, x) <= 1
    BY <1>2, CountType
  <2>2. i \in At(s, x) /\ j \in At(s, x)
    BY DEF At
  <2>3. Count(s, x) = 1
    BY <2>1, <2>2, FS_EmptySet DEF Count
  <2>4. \E y : At(s, x) = {y}
    BY <2>1, <2>3, FS_Singleton DEF Count
  <2> QED
    BY <2>2, <2>4
<1> QED
  BY <1>1, <1>2

LEMMA BagOfCounts ==
  ASSUME NEW S, NEW s \in Seq(S), NEW u \in Seq(S), \A x : Count(s, x) = Count(u, x)
  PROVE  ToBag(s) = ToBag(u)
<1>1. Range(s) = ToSet(s) /\ Range(u) = ToSet(u)
  BY DEF Range, ToSet
<1>2. ToSet(s) = ToSet(u)
  <2>1. \A x : x \in ToSet(s) <=> x \in ToSet(u)
    BY CountType
  <2> QED
    BY <2>1
<1>3. ToBag(s) = [x \in ToSet(s) |-> Count(s, x)] /\ ToBag(u) = [x \in ToSet(u) |-> Count(u, x)]
  BY <1>1 DEF ToBag, Count, At
<1> QED
  BY <1>2, <1>3

-----------------------------------------------------------------------------
(* Subsequences                                                            *)

\* k is a part of the first n elements of s, in their order.
Part(k, s, n) ==
  \E m \in [1 .. Len(k) -> 1 .. n] :
    /\ \A i, j \in 1 .. Len(k) : i < j => m[i] < m[j]
    /\ \A i \in 1 .. Len(k) : k[i] = s[m[i]]

LEMMA NoPart ==
  ASSUME NEW s, NEW n \in Nat
  PROVE  Part(<<>>, s, n)
<1> DEFINE m == [i \in 1 .. 0 |-> 1]
<1>1. Len(<<>>) = 0 /\ m \in [1 .. 0 -> 1 .. n]
  OBVIOUS
<1>2. \A i, j \in 1 .. 0 : FALSE
  OBVIOUS
<1> HIDE DEF m
<1>3. \A i \in 1 .. 0 : <<>>[i] = s[m[i]]
  BY <1>2
<1> QED
  BY <1>1, <1>2, <1>3, Zenon DEF Part

LEMMA PartStays ==
  ASSUME NEW S, NEW k \in Seq(S), NEW s, NEW n \in Nat, Part(k, s, n)
  PROVE  Part(k, s, n + 1)
<1>1. PICK m \in [1 .. Len(k) -> 1 .. n] :
        /\ \A i, j \in 1 .. Len(k) : i < j => m[i] < m[j]
        /\ \A i \in 1 .. Len(k) : k[i] = s[m[i]]
  BY DEF Part
<1>2. m \in [1 .. Len(k) -> 1 .. n + 1]
  OBVIOUS
<1> QED
  BY <1>1, <1>2 DEF Part

LEMMA PartGrows ==
  ASSUME NEW S, NEW k \in Seq(S), NEW s, NEW n \in Nat, Part(k, s, n), s[n + 1] \in S
  PROVE  Part(Append(k, s[n + 1]), s, n + 1)
<1>1. PICK m \in [1 .. Len(k) -> 1 .. n] :
        /\ \A i, j \in 1 .. Len(k) : i < j => m[i] < m[j]
        /\ \A i \in 1 .. Len(k) : k[i] = s[m[i]]
  BY DEF Part
<1> DEFINE a == Append(k, s[n + 1])
           l == Len(k)
           mm == [i \in 1 .. l + 1 |-> IF i = l + 1 THEN n + 1 ELSE m[i]]
<1>2. /\ Len(a) = l + 1 /\ l \in Nat /\ a[l + 1] = s[n + 1]
      /\ \A i \in 1 .. l : a[i] = k[i]
  OBVIOUS
<1> HIDE DEF a
<1>3. mm \in [1 .. Len(a) -> 1 .. n + 1]
  BY <1>2
<1>4. \A i, j \in 1 .. l + 1 : i < j => mm[i] < mm[j]
  <2> SUFFICES ASSUME NEW i \in 1 .. l + 1, NEW j \in 1 .. l + 1, i < j PROVE mm[i] < mm[j]
    OBVIOUS
  <2>1. i \in 1 .. l /\ mm[i] = m[i] /\ m[i] \in 1 .. n
    BY <1>2
  <2>2. CASE j = l + 1
    BY <2>1, <2>2
  <2>3. CASE j # l + 1
    <3>1. j \in 1 .. l /\ mm[j] = m[j]
      BY <2>3, <1>2
    <3> QED
      BY <2>1, <3>1, <1>1
  <2> QED
    BY <2>2, <2>3
<1>5. \A i \in 1 .. l + 1 : a[i] = s[mm[i]]
  <2> SUFFICES ASSUME NEW i \in 1 .. l + 1 PROVE a[i] = s[mm[i]]
    OBVIOUS
  <2>1. CASE i = l + 1
    BY <2>1, <1>2
  <2>2. CASE i # l + 1
    BY <2>2, <1>1, <1>2
  <2> QED
    BY <2>1, <2>2
<1> HIDE DEF mm
<1> QED
  BY <1>2, <1>3, <1>4, <1>5 DEF Part, a

\* A part of a sequence has no element twice if the sequence has none.
LEMMA PartInjective ==
  ASSUME NEW S, NEW k \in Seq(S), NEW s \in Seq(S), Part(k, s, Len(s)), IsInjective(s)
  PROVE  IsInjective(k)
<1>1. PICK m \in [1 .. Len(k) -> 1 .. Len(s)] :
        /\ \A i, j \in 1 .. Len(k) : i < j => m[i] < m[j]
        /\ \A i \in 1 .. Len(k) : k[i] = s[m[i]]
  BY DEF Part
<1> SUFFICES ASSUME NEW i \in 1 .. Len(k), NEW j \in 1 .. Len(k), k[i] = k[j] PROVE i = j
  BY DEF IsInjective
<1>2. m[i] \in 1 .. Len(s) /\ m[j] \in 1 .. Len(s) /\ s[m[i]] = s[m[j]]
  BY <1>1
<1>3. m[i] = m[j]
  BY <1>2 DEF IsInjective
<1>4. ~(i < j) /\ ~(j < i)
  BY <1>1, <1>2, <1>3
<1> QED
  BY <1>4

\* The elements of the first n places.
Upto(s, n) == {s[j] : j \in 1 .. n}

LEMMA UptoNext ==
  ASSUME NEW s, NEW n \in Nat
  PROVE  Upto(s, n + 1) = Upto(s, n) \cup {s[n + 1]} /\ Upto(s, 0) = {}
<1>1. 1 .. n + 1 = (1 .. n) \cup {n + 1} /\ 1 .. 0 = {}
  OBVIOUS
<1> QED
  BY <1>1 DEF Upto

LEMMA UptoAll ==
  ASSUME NEW S, NEW s \in Seq(S)
  PROVE  Upto(s, Len(s)) = ToSet(s)
<1>1. DOMAIN s = 1 .. Len(s)
  OBVIOUS
<1> QED
  BY <1>1 DEF Upto, ToSet

-----------------------------------------------------------------------------
(* cleanUserTags                                                           *)

LEMMA AddLabelType ==
  ASSUME NEW S, NEW out \in Seq(S), NEW l \in S
  PROVE  AddLabel(out, l) \in Seq(S)
BY DEF AddLabel

LEMMA CleanedLoop ==
  ASSUME NEW S, NEW s \in Seq(S)
  PROVE  \E f : /\ f[0] = <<>> /\ Cleaned(s) = f[Len(s)]
                /\ \A i \in 1 .. Len(s) : f[i] = AddLabel(f[i - 1], s[i])
<1> DEFINE n == Len(s)
           round == [i \in 1 .. n |-> [out \in Seq(S) |-> AddLabel(out, s[i])]]
           Q(g) == g = [i \in 0 .. n |-> IF i = 0 THEN <<>> ELSE AddLabel(g[i - 1], s[i])]
           f == CHOOSE g : Q(g)
<1>1. n \in Nat /\ <<>> \in Seq(S) /\ round \in [1 .. n -> [Seq(S) -> Seq(S)]]
  <2>1. \A i \in 1 .. n, out \in Seq(S) : AddLabel(out, s[i]) \in Seq(S)
    BY AddLabelType
  <2> QED
    BY <2>1
<1>2. \E g : Q(g)
  <2>1. PICK g : Loop(g, n, Seq(S), <<>>, round)
    <3> HIDE DEF round, n
    <3> QED
      BY <1>1, LoopExists
  <2>2. ASSUME NEW i \in 1 .. n PROVE g[i] = AddLabel(g[i - 1], s[i])
    <3>1. g[i - 1] \in Seq(S) /\ g[i] = round[i][g[i - 1]]
      <4> HIDE DEF round, n
      <4> QED
        BY <2>1, <1>1 DEF Loop
    <3> QED
      BY <3>1
  <2>3. g[0] = <<>> /\ g = [i \in 0 .. n |-> g[i]]
    BY <2>1 DEF Loop
  <2>4. Q(g)
    BY <2>2, <2>3
  <2> QED
    BY <2>4
<1>3. Q(f)
  <2> HIDE DEF Q
  <2> QED
    BY <1>2
<1>4. Cleaned(s) = f[n]
  BY DEF Cleaned
<1>5. f[0] = <<>> /\ \A i \in 1 .. n : f[i] = AddLabel(f[i - 1], s[i])
  <2> HIDE DEF f
  <2> QED
    BY <1>1, <1>3
<1> HIDE DEF f
<1> QED
  BY <1>4, <1>5

LEMMA AppendNew ==
  ASSUME NEW S, NEW k \in Seq(S), IsInjective(k), NEW x \in S, x \notin ToSet(k)
  PROVE  IsInjective(Append(k, x))
<1> DEFINE a == Append(k, x)
<1>1. /\ DOMAIN a = 1 .. Len(k) + 1 /\ Len(k) \in Nat /\ a[Len(k) + 1] = x
      /\ \A i \in 1 .. Len(k) : a[i] = k[i]
  OBVIOUS
<1> HIDE DEF a
<1>2. \A i \in 1 .. Len(k) : k[i] # x
  BY DEF ToSet
<1>3. \A i, j \in 1 .. Len(k) : k[i] = k[j] => i = j
  BY DEF IsInjective
<1>4. \A i, j \in 1 .. Len(k) + 1 : a[i] = a[j] => i = j
  BY <1>1, <1>2, <1>3
<1>5. IsInjective(a)
  BY <1>1, <1>4 DEF IsInjective
<1> QED
  BY <1>5 DEF a

\* Each is found once, at its first place.
LEMMA CleanedIs ==
  ASSUME NEW S, NEW s \in Seq(S)
  PROVE  /\ Cleaned(s) \in Seq(S) /\ ToSet(Cleaned(s)) = ToSet(s)
         /\ IsInjective(Cleaned(s)) /\ Part(Cleaned(s), s, Len(s))
<1>1. PICK f : /\ f[0] = <<>> /\ Cleaned(s) = f[Len(s)]
               /\ \A i \in 1 .. Len(s) : f[i] = AddLabel(f[i - 1], s[i])
  BY CleanedLoop
<1> DEFINE P(m) == /\ f[m] \in Seq(S) /\ ToSet(f[m]) = Upto(s, m)
                   /\ IsInjective(f[m]) /\ Part(f[m], s, m)
           M == {m \in Nat : m <= Len(s) => P(m)}
<1>2. 0 \in M
  <2>1. ToSet(<<>>) = {} /\ <<>> \in Seq(S) /\ IsInjective(<<>>)
    BY DEF ToSet, IsInjective
  <2> QED
    BY <1>1, <2>1, UptoNext, NoPart
<1>3. ASSUME NEW m \in Nat, m \in M PROVE m + 1 \in M
  <2> SUFFICES ASSUME m + 1 <= Len(s) PROVE P(m + 1)
    OBVIOUS
  <2>1. P(m) /\ s[m + 1] \in S
    BY <1>3
  <2>2. f[m + 1] = AddLabel(f[m], s[m + 1])
    BY <1>1
  <2>3. Upto(s, m + 1) = Upto(s, m) \cup {s[m + 1]}
    BY UptoNext
  <2> DEFINE k == f[m]
             x == s[m + 1]
  <2> HIDE DEF k
  <2>4. k \in Seq(S) /\ ToSet(k) = Upto(s, m) /\ Part(k, s, m) /\ IsInjective(k)
    BY <2>1 DEF k
  <2>5. CASE x \notin ToSet(k)
    <3>1. f[m + 1] = Append(k, x)
      BY <2>2, <2>4, <2>5, ContainsIsIn DEF AddLabel, k
    <3>2. Append(k, x) \in Seq(S) /\ ToSet(Append(k, x)) = ToSet(k) \cup {x}
      BY <2>1, <2>4, AppendSet
    <3>3. Part(Append(k, x), s, m + 1)
      BY <2>1, <2>4, PartGrows
    <3>4. x \in S
      BY <2>1
    <3> HIDE DEF x
    <3>5. IsInjective(Append(k, x))
      BY <2>4, <2>5, <3>4, AppendNew
    <3> QED
      BY <3>1, <3>2, <3>3, <3>5, <2>3, <2>4 DEF x
  <2>6. CASE x \in ToSet(k)
    <3>1. f[m + 1] = k
      BY <2>2, <2>4, <2>6, ContainsIsIn DEF AddLabel, k
    <3>2. Part(k, s, m + 1)
      BY <2>4, PartStays
    <3> QED
      BY <3>1, <3>2, <2>3, <2>4, <2>6
  <2> QED
    BY <2>5, <2>6
<1>4. P(Len(s))
  <2>1. Len(s) \in Nat
    OBVIOUS
  <2>2. Len(s) \in M
    <3> HIDE DEF M
    <3> QED
      BY <1>2, <1>3, <2>1, NatSetInduction
  <2> HIDE DEF P
  <2> QED
    BY <2>1, <2>2
<1> QED
  BY <1>1, <1>4, UptoAll

-----------------------------------------------------------------------------
(* setSticky: a range over a slice from which the loop itself removes      *)

Slices(S) ==
  {s \in [arr : Seq(S), len : Nat, moved : Seq(S), seen : SUBSET S, ok : BOOLEAN] :
     s.len <= Len(s.arr)}

\* A label is as often in the slice and in what was moved out of it together.
Total(s, x) == Count(Left(s), x) + Count(s.moved, x)

LEMMA LeftIs ==
  ASSUME NEW S, NEW s \in Slices(S)
  PROVE  /\ Left(s) \in Seq(S) /\ Len(Left(s)) = s.len
         /\ \A j \in 1 .. s.len : Left(s)[j] = s.arr[j] /\ s.arr[j] \in S
         /\ s.len \in Nat /\ DOMAIN Left(s) = 1 .. s.len
         /\ s.arr \in Seq(S) /\ s.moved \in Seq(S) /\ s.len <= Len(s.arr)
<1>1. /\ s.arr \in Seq(S) /\ s.len \in Nat /\ s.len <= Len(s.arr)
      /\ s.moved \in Seq(S)
  BY DEF Slices
<1> DEFINE a == s.arr
           n == s.len
           l == SubSeq(a, 1, n)
<1>2. a \in Seq(S) /\ n \in Nat /\ n <= Len(a) /\ Left(s) = l
  BY <1>1 DEF Left
<1> HIDE DEF a, n
<1>3. \A j \in 1 .. n : a[j] \in S
  BY <1>2
<1>4. l \in Seq(S) /\ Len(l) = n /\ \A j \in 1 .. n : l[j] = a[j]
  BY <1>2, <1>3, SubSeqProperties
<1>5. DOMAIN l = 1 .. n
  BY <1>4
<1> QED
  BY <1>1, <1>2, <1>3, <1>4, <1>5 DEF a, n

LEMMA CutIs ==
  ASSUME NEW S, NEW s \in Slices(S), NEW i \in 1 .. s.len
  PROVE  /\ Cut(s, i) \in Slices(S)
         /\ Cut(s, i).len = s.len - 1 /\ Cut(s, i).ok = s.ok /\ Cut(s, i).seen = s.seen
         /\ Cut(s, i).moved = Append(s.moved, s.arr[i])
         /\ Len(Cut(s, i).arr) = Len(s.arr)
         /\ \A j \in 1 .. Len(s.arr) :
              Cut(s, i).arr[j] = IF j \in i .. s.len - 1 THEN s.arr[j + 1] ELSE s.arr[j]
<1> DEFINE c == Cut(s, i)
           b == [j \in DOMAIN s.arr |-> IF j \in i .. s.len - 1 THEN s.arr[j + 1] ELSE s.arr[j]]
<1>1. /\ s \in [arr : Seq(S), len : Nat, moved : Seq(S), seen : SUBSET S, ok : BOOLEAN]
      /\ s.len <= Len(s.arr)
  BY DEF Slices
<1>2. c = [s EXCEPT !.arr = b, !.len = s.len - 1, !.moved = Append(s.moved, s.arr[i])]
  BY DEF Cut
<1>3. DOMAIN s.arr = 1 .. Len(s.arr) /\ Len(s.arr) \in Nat /\ \A j \in 1 .. Len(s.arr) : s.arr[j] \in S
  BY <1>1
<1>4. b \in [1 .. Len(s.arr) -> S]
  BY <1>1, <1>3
<1>5. b \in Seq(S) /\ Len(b) = Len(s.arr) /\ DOMAIN b = 1 .. Len(s.arr)
  BY <1>3, <1>4
<1>6. \A j \in 1 .. Len(s.arr) : b[j] = IF j \in i .. s.len - 1 THEN s.arr[j + 1] ELSE s.arr[j]
  BY <1>3
<1> HIDE DEF b
<1>7. Append(s.moved, s.arr[i]) \in Seq(S) /\ s.len - 1 \in Nat
  BY <1>1, <1>3
<1> HIDE DEF c
<1>8. /\ c.arr = b /\ c.len = s.len - 1 /\ c.moved = Append(s.moved, s.arr[i])
      /\ c.ok = s.ok /\ c.seen = s.seen
  BY <1>1, <1>2
<1>9. c \in [arr : Seq(S), len : Nat, moved : Seq(S), seen : SUBSET S, ok : BOOLEAN]
  BY <1>1, <1>2, <1>5, <1>7
<1>10. c \in Slices(S)
  BY <1>1, <1>5, <1>8, <1>9 DEF Slices
<1> QED
  BY <1>5, <1>6, <1>8, <1>10 DEF c

\* Cutting is removing from the slice, whatever is left behind in the array.
LEMMA CutTotal ==
  ASSUME NEW S, NEW s \in Slices(S), NEW i \in 1 .. s.len, NEW x
  PROVE  Total(Cut(s, i), x) = Total(s, x)
<1> DEFINE c == Cut(s, i)
<1>1. /\ c \in Slices(S) /\ c.len = s.len - 1 /\ c.moved = Append(s.moved, s.arr[i])
      /\ \A j \in 1 .. Len(s.arr) :
              c.arr[j] = IF j \in i .. s.len - 1 THEN s.arr[j + 1] ELSE s.arr[j]
  BY CutIs
<1> HIDE DEF c
<1> DEFINE l == Left(s)
           r == RemoveAt(l, i)
<1>2. /\ l \in Seq(S) /\ Len(l) = s.len /\ s.len \in Nat /\ s.len <= Len(s.arr)
      /\ \A j \in 1 .. s.len : l[j] = s.arr[j] /\ s.arr[j] \in S
      /\ s.moved \in Seq(S) /\ Len(s.arr) \in Nat
  BY LeftIs
<1>3. /\ Left(c) \in Seq(S) /\ Len(Left(c)) = s.len - 1
      /\ \A j \in 1 .. s.len - 1 : Left(c)[j] = c.arr[j]
  BY <1>1, LeftIs
<1> HIDE DEF l
<1>4. /\ r \in Seq(S) /\ Len(r) = s.len - 1
      /\ \A k \in 1 .. s.len - 1 : r[k] = IF k < i THEN l[k] ELSE l[k + 1]
  BY <1>2, RemoveAtElems
<1> HIDE DEF r
<1>5. \A k \in 1 .. s.len - 1 : r[k] = c.arr[k]
  BY <1>1, <1>2, <1>4
<1>6. Left(c) = r
  BY <1>3, <1>4, <1>5, SeqEqual
<1>7. Count(l, x) = Count(r, x) + IF l[i] = x THEN 1 ELSE 0
  BY <1>2, CountRemoveAt DEF r
<1>8. Count(c.moved, x) = Count(s.moved, x) + IF s.arr[i] = x THEN 1 ELSE 0
  BY <1>1, <1>2, CountAppend
<1>9. Count(r, x) \in Nat /\ Count(s.moved, x) \in Nat /\ l[i] = s.arr[i]
  BY <1>2, <1>4, CountType
<1> QED
  BY <1>6, <1>7, <1>8, <1>9 DEF Total, c, l

\* What a slice may become while the label `name` is moved out of o.
Moving(S, s, o, name) ==
  /\ s \in Slices(S) /\ Len(s.arr) = Len(o.arr) /\ s.seen = o.seen
  /\ ToSet(s.arr) \subseteq ToSet(o.arr)
  /\ \A x : Total(s, x) = Total(o, x)
  /\ ToSet(o.moved) \subseteq ToSet(s.moved)
  /\ ToSet(s.moved) \subseteq ToSet(o.moved) \cup {name}

\* Setting `ok` to FALSE, which stands for a panic, changes nothing else.
LEMMA FailedIs ==
  ASSUME NEW S, NEW s \in Slices(S)
  PROVE  /\ [s EXCEPT !.ok = FALSE] \in Slices(S)
         /\ [s EXCEPT !.ok = FALSE].arr = s.arr /\ [s EXCEPT !.ok = FALSE].len = s.len
         /\ [s EXCEPT !.ok = FALSE].moved = s.moved /\ [s EXCEPT !.ok = FALSE].seen = s.seen
BY DEF Slices

LEMMA SetAtMoving ==
  ASSUME NEW S, NEW o \in Slices(S), NEW name \in S, NEW s, Moving(S, s, o, name),
         NEW i \in 1 .. Len(o.arr)
  PROVE  Moving(S, SetAt(s, i, name), o, name)
<1>1. s \in Slices(S) /\ i \in 1 .. Len(s.arr)
  BY DEF Moving
<1>2. CASE ~s.ok \/ s.arr[i] # name
  BY <1>2 DEF SetAt
<1>3. CASE s.ok /\ s.arr[i] = name /\ i > s.len
  <2> DEFINE c == [s EXCEPT !.ok = FALSE]
  <2>1. /\ c \in Slices(S) /\ c.arr = s.arr /\ c.len = s.len /\ c.moved = s.moved
        /\ c.seen = s.seen
    BY <1>1, FailedIs
  <2>2. SetAt(s, i, name) = c
    BY <1>3 DEF SetAt
  <2> HIDE DEF c
  <2>3. \A x : Total(c, x) = Total(s, x)
    BY <2>1 DEF Total, Left
  <2> QED
    BY <2>1, <2>2, <2>3 DEF Moving
<1>4. CASE s.ok /\ s.arr[i] = name /\ ~(i > s.len)
  <2> DEFINE c == Cut(s, i)
  <2>1. i \in 1 .. s.len /\ s.len \in Nat /\ s.len <= Len(s.arr)
    BY <1>1, <1>4, LeftIs
  <2>2. /\ c \in Slices(S) /\ c.seen = s.seen /\ c.moved = Append(s.moved, s.arr[i])
        /\ Len(c.arr) = Len(s.arr)
        /\ \A j \in 1 .. Len(s.arr) :
             c.arr[j] = IF j \in i .. s.len - 1 THEN s.arr[j + 1] ELSE s.arr[j]
    BY <1>1, <2>1, CutIs
  <2>3. \A x : Total(c, x) = Total(s, x)
    BY <1>1, <2>1, CutTotal
  <2>4. SetAt(s, i, name) = c
    BY <1>4 DEF SetAt
  <2> HIDE DEF c
  <2>5. s.arr \in Seq(S) /\ s.moved \in Seq(S) /\ c.arr \in Seq(S)
    BY <1>1, <2>2, LeftIs
  <2>6. ToSet(c.arr) \subseteq ToSet(s.arr)
    <3>2. DOMAIN c.arr = 1 .. Len(s.arr)
      BY <2>2, <2>5
    <3> SUFFICES ASSUME NEW j \in 1 .. Len(s.arr) PROVE c.arr[j] \in ToSet(s.arr)
      BY <3>2 DEF ToSet
    <3>1. c.arr[j] = s.arr[j] \/ (j + 1 \in 1 .. Len(s.arr) /\ c.arr[j] = s.arr[j + 1])
      BY <2>1, <2>2
    <3> QED
      BY <3>1, <2>5 DEF ToSet
  <2>7. ToSet(c.moved) = ToSet(s.moved) \cup {name}
    BY <1>4, <2>2, <2>5, AppendSet
  <2> QED
    BY <2>2, <2>3, <2>4, <2>6, <2>7 DEF Moving
<1> QED
  BY <1>2, <1>3, <1>4

LEMMA SetAtKeeps ==
  ASSUME NEW S, NEW s \in Slices(S), NEW i \in Nat \ {0}, NEW name
  PROVE  ToSet(s.moved) \subseteq ToSet(SetAt(s, i, name).moved)
<1>1. CASE ~s.ok \/ s.arr[i] # name
  BY <1>1 DEF SetAt
<1>2. CASE s.ok /\ s.arr[i] = name /\ i > s.len
  BY <1>2, FailedIs DEF SetAt
<1>3. CASE s.ok /\ s.arr[i] = name /\ ~(i > s.len)
  <2>1. i \in 1 .. s.len /\ s.moved \in Seq(S) /\ s.arr[i] \in S
    BY <1>3, LeftIs
  <2>2. Cut(s, i).moved = Append(s.moved, s.arr[i])
    BY <2>1, CutIs
  <2>3. ToSet(Append(s.moved, s.arr[i])) = ToSet(s.moved) \cup {s.arr[i]}
    BY <2>1, AppendSet
  <2> QED
    BY <1>3, <2>2, <2>3 DEF SetAt
<1> QED
  BY <1>1, <1>2, <1>3

\* The rounds of setSticky.
LEMMA SetOneLoop ==
  ASSUME NEW S, NEW o \in Slices(S), NEW name \in S
  PROVE  \E f : /\ f[0] = o /\ SetOne(o, name) = f[o.len]
                /\ \A i \in 1 .. o.len : f[i] = SetAt(f[i - 1], i, name)
<1> DEFINE n == o.len
           round == [i \in 1 .. n |-> [s \in Slices(S) |-> SetAt(s, i, name)]]
           Q(g) == g = [i \in 0 .. n |-> IF i = 0 THEN o ELSE SetAt(g[i - 1], i, name)]
           f == CHOOSE g : Q(g)
<1>1. n \in Nat
  BY LeftIs
<1>2. round \in [1 .. n -> [Slices(S) -> Slices(S)]]
  <2> SUFFICES ASSUME NEW i \in 1 .. n, NEW s \in Slices(S)
               PROVE  SetAt(s, i, name) \in Slices(S)
    OBVIOUS
  <2>1. CASE i > s.len
    BY <2>1, FailedIs DEF SetAt
  <2>2. CASE ~(i > s.len)
    <3>1. i \in 1 .. s.len
      BY <1>1, <2>2, LeftIs
    <3> QED
      BY <3>1, <2>2, CutIs DEF SetAt
  <2> QED
    BY <2>1, <2>2
<1>3. \E g : Q(g)
  <2>1. PICK g : Loop(g, n, Slices(S), o, round)
    <3> HIDE DEF round, n
    <3> QED
      BY <1>1, <1>2, LoopExists
  <2>2. ASSUME NEW i \in 1 .. n PROVE g[i] = SetAt(g[i - 1], i, name)
    <3>1. g[i - 1] \in Slices(S) /\ g[i] = round[i][g[i - 1]]
      <4> HIDE DEF round, n
      <4> QED
        BY <2>1, <1>1 DEF Loop
    <3> QED
      BY <3>1
  <2>3. g[0] = o /\ g = [i \in 0 .. n |-> g[i]]
    BY <2>1 DEF Loop
  <2>4. ASSUME NEW i \in 0 .. n PROVE g[i] = IF i = 0 THEN o ELSE SetAt(g[i - 1], i, name)
    <3>1. CASE i = 0
      BY <2>3, <3>1
    <3>2. CASE i \in 1 .. n
      BY <2>2, <3>2
    <3> QED
      BY <1>1, <3>1, <3>2
  <2>5. Q(g)
    BY <2>3, <2>4, Zenon
  <2> QED
    BY <2>5
<1>4. Q(f)
  <2> HIDE DEF Q
  <2> QED
    BY <1>3
<1>5. SetOne(o, name) = f[n]
  BY DEF SetOne
<1>6. f[0] = o /\ \A i \in 1 .. n : f[i] = SetAt(f[i - 1], i, name)
  <2> HIDE DEF f
  <2> QED
    BY <1>1, <1>4
<1> HIDE DEF f
<1> QED
  BY <1>5, <1>6

\* setSticky moves the label if the slice has it, and no other.
LEMMA SetOneMoves ==
  ASSUME NEW S, NEW o \in Slices(S), NEW name \in S, o.ok
  PROVE  /\ Moving(S, SetOne(o, name), o, name)
         /\ name \in ToSet(Left(o)) => name \in ToSet(SetOne(o, name).moved)
<1> DEFINE n == o.len
<1>1. PICK f : /\ f[0] = o /\ SetOne(o, name) = f[n]
               /\ \A i \in 1 .. n : f[i] = SetAt(f[i - 1], i, name)
  BY SetOneLoop
<1>2. /\ n \in Nat /\ n <= Len(o.arr) /\ o.arr \in Seq(S) /\ Left(o) \in Seq(S)
      /\ Len(Left(o)) = n /\ \A j \in 1 .. n : Left(o)[j] = o.arr[j]
  BY LeftIs
<1> DEFINE P(m) == /\ Moving(S, f[m], o, name)
                   /\ \/ name \in ToSet(f[m].moved)
                      \/ f[m] = o /\ \A i \in 1 .. m : o.arr[i] # name
           T == {m \in Nat : m <= n => P(m)}
<1> HIDE DEF n
<1>3. 0 \in T
  BY <1>1 DEF Moving
<1>4. ASSUME NEW m \in Nat, m \in T PROVE m + 1 \in T
  <2> SUFFICES ASSUME m + 1 <= n PROVE P(m + 1)
    OBVIOUS
  <2>1. P(m) /\ f[m + 1] = SetAt(f[m], m + 1, name) /\ m + 1 \in 1 .. Len(o.arr)
    BY <1>1, <1>2, <1>4
  <2>2. Moving(S, f[m + 1], o, name)
    BY <2>1, SetAtMoving
  <2>3. CASE name \in ToSet(f[m].moved)
    <3>1. ToSet(f[m].moved) \subseteq ToSet(SetAt(f[m], m + 1, name).moved)
      <4>1. f[m] \in Slices(S) /\ m + 1 \in Nat \ {0}
        BY <2>1 DEF Moving
      <4> QED
        BY <4>1, SetAtKeeps
    <3> QED
      BY <2>1, <2>2, <2>3, <3>1
  <2>4. CASE f[m] = o /\ \A i \in 1 .. m : o.arr[i] # name
    <3>1. CASE o.arr[m + 1] # name
      <4>1. f[m + 1] = o
        BY <2>1, <2>4, <3>1 DEF SetAt
      <4> QED
        BY <2>2, <2>4, <3>1, <4>1
    <3>2. CASE o.arr[m + 1] = name
      <4>1. m + 1 \in 1 .. o.len
        BY <1>2 DEF n
      <4>2. f[m + 1] = Cut(o, m + 1)
        BY <2>1, <2>4, <3>2, <4>1, <1>2 DEF SetAt, n
      <4>3. Cut(o, m + 1).moved = Append(o.moved, name)
        BY <3>2, <4>1, CutIs
      <4>4. o.moved \in Seq(S)
        BY LeftIs
      <4>5. ToSet(Append(o.moved, name)) = ToSet(o.moved) \cup {name}
        BY <4>4, AppendSet
      <4> QED
        BY <2>2, <4>2, <4>3, <4>5
    <3> QED
      BY <3>1, <3>2
  <2> QED
    BY <2>1, <2>3, <2>4
<1>5. n \in T
  <2> HIDE DEF T
  <2> QED
    BY <1>2, <1>3, <1>4, NatSetInduction
<1>6. P(n)
  BY <1>2, <1>5
<1>7. ASSUME name \in ToSet(Left(o)) PROVE \E i \in 1 .. n : o.arr[i] = name
  BY <1>2, <1>7 DEF ToSet
<1>8. ASSUME name \in ToSet(Left(o)) PROVE name \in ToSet(f[n].moved)
  BY <1>6, <1>7, <1>8
<1> QED
  BY <1>1, <1>6, <1>8 DEF n

\* It does not panic on a slice that repeats nothing.
LEMMA SetOneOk ==
  ASSUME NEW S, NEW o \in Slices(S), NEW name \in S, o.ok, IsInjective(Left(o))
  PROVE  SetOne(o, name).ok
<1> DEFINE n == o.len
<1>1. PICK f : /\ f[0] = o /\ SetOne(o, name) = f[n]
               /\ \A i \in 1 .. n : f[i] = SetAt(f[i - 1], i, name)
  BY SetOneLoop
<1>2. /\ n \in Nat /\ n <= Len(o.arr) /\ Len(o.arr) \in Nat
      /\ DOMAIN Left(o) = 1 .. n /\ \A j \in 1 .. n : Left(o)[j] = o.arr[j]
  BY LeftIs
<1>3. \A j, k \in 1 .. n : o.arr[j] = o.arr[k] => j = k
  BY <1>2 DEF IsInjective
<1> DEFINE P(m) == \/ f[m] = o /\ \A i \in 1 .. m : o.arr[i] # name
                   \/ \E k \in 1 .. m : o.arr[k] = name /\ f[m] = Cut(o, k)
           T == {m \in Nat : m <= n => P(m)}
<1>4. ASSUME NEW k \in 1 .. n
      PROVE  /\ Cut(o, k).ok
             /\ \A j \in 1 .. Len(o.arr) :
                  Cut(o, k).arr[j] = IF j \in k .. n - 1 THEN o.arr[j + 1] ELSE o.arr[j]
  BY CutIs
<1> HIDE DEF n
<1>5. 0 \in T
  BY <1>1
<1>6. ASSUME NEW m \in Nat, m \in T PROVE m + 1 \in T
  <2> SUFFICES ASSUME m + 1 <= n PROVE P(m + 1)
    OBVIOUS
  <2>1. P(m) /\ f[m + 1] = SetAt(f[m], m + 1, name) /\ m + 1 \in 1 .. n
    BY <1>1, <1>2, <1>6
  <2>2. CASE f[m] = o /\ \A i \in 1 .. m : o.arr[i] # name
    <3>1. CASE o.arr[m + 1] # name
      <4>1. f[m + 1] = o
        BY <2>1, <2>2, <3>1 DEF SetAt
      <4> QED
        BY <2>2, <3>1, <4>1
    <3>2. CASE o.arr[m + 1] = name
      <4>1. f[m + 1] = Cut(o, m + 1)
        BY <2>1, <2>2, <3>2, <1>2 DEF SetAt, n
      <4> QED
        BY <3>2, <4>1
    <3> QED
      BY <3>1, <3>2
  <2>3. CASE \E k \in 1 .. m : o.arr[k] = name /\ f[m] = Cut(o, k)
    <3>1. PICK k \in 1 .. m : o.arr[k] = name /\ f[m] = Cut(o, k)
      BY <2>3
    <3>2. k \in 1 .. n /\ m + 1 \in 1 .. Len(o.arr)
      BY <1>2, <2>1
    <3>3. Cut(o, k).arr[m + 1] = IF m + 1 \in k .. n - 1 THEN o.arr[m + 2] ELSE o.arr[m + 1]
      BY <1>4, <3>2
    <3>4. Cut(o, k).arr[m + 1] # name
      <4>1. CASE m + 1 \in k .. n - 1
        BY <1>2, <1>3, <3>1, <3>2, <3>3, <4>1
      <4>2. CASE m + 1 \notin k .. n - 1
        BY <1>2, <1>3, <2>1, <3>1, <3>2, <3>3, <4>2
      <4> QED
        BY <4>1, <4>2
    <3>5. f[m + 1] = Cut(o, k)
      BY <2>1, <3>1, <3>4 DEF SetAt
    <3> QED
      BY <3>1, <3>5
  <2> QED
    BY <2>1, <2>2, <2>3
<1>7. n \in T
  <2> HIDE DEF T
  <2> QED
    BY <1>2, <1>5, <1>6, NatSetInduction
<1> QED
  BY <1>1, <1>2, <1>4, <1>7

-----------------------------------------------------------------------------
(* The loops of StickyThread                                               *)

LEMMA SeenIs ==
  ASSUME NEW S, NEW s \in Slices(S), NEW l \in S
  PROVE  LET v == [s EXCEPT !.seen = @ \cup {l}]
         IN  /\ v \in Slices(S) /\ v.seen = s.seen \cup {l} /\ v.arr = s.arr
             /\ v.len = s.len /\ v.moved = s.moved /\ v.ok = s.ok
BY DEF Slices

LEMMA WholeIs ==
  ASSUME NEW S, NEW labels \in Seq(S)
  PROVE  Whole(labels) \in Slices(S) /\ Left(Whole(labels)) = labels
<1> DEFINE w == [arr |-> labels, len |-> Len(labels), moved |-> <<>>, seen |-> {}, ok |-> TRUE]
<1>1. w \in [arr : Seq(S), len : Nat, moved : Seq(S), seen : SUBSET S, ok : BOOLEAN]
  OBVIOUS
<1>2. w.len <= Len(w.arr)
  OBVIOUS
<1>3. SubSeq(labels, 1, Len(labels)) = labels
  BY SubSeqFull
<1> QED
  BY <1>1, <1>2, <1>3 DEF Slices, Whole, Left

\* What a slice may be while labels in `chosen` are moved out of `labels`.
Visited(S, s, labels, chosen) ==
  /\ s \in Slices(S) /\ Len(s.arr) = Len(labels)
  /\ ToSet(s.arr) \subseteq ToSet(labels)
  /\ \A x : Total(s, x) = Count(labels, x)
  /\ s.seen = ToSet(s.moved) /\ s.seen \subseteq chosen
  /\ IsInjective(labels) => s.ok

LEMMA WholeStart ==
  ASSUME NEW S, NEW labels \in Seq(S), NEW chosen
  PROVE  Whole(labels) \in Slices(S) /\ Visited(S, Whole(labels), labels, chosen)
<1> DEFINE w == Whole(labels)
<1>1. w \in Slices(S) /\ Left(w) = labels
  BY WholeIs
<1>2. w.arr = labels /\ w.moved = <<>> /\ w.seen = {} /\ w.ok
  BY DEF Whole
<1> HIDE DEF w
<1>3. ToSet(<<>>) = {}
  BY DEF ToSet
<1>4. ASSUME NEW x PROVE Total(w, x) = Count(labels, x)
  <2>1. Count(<<>>, x) = 0 /\ Count(labels, x) \in Nat
    BY <1>3, CountType, EmptySeq
  <2> QED
    BY <1>1, <1>2, <2>1 DEF Total
<1> QED
  BY <1>1, <1>2, <1>3, <1>4 DEF Visited, w

LEMMA VisitKeeps ==
  ASSUME NEW S, NEW labels \in Seq(S), NEW chosen, NEW s, Visited(S, s, labels, chosen),
         NEW i \in 1 .. Len(labels)
  PROVE  Visited(S, Visit(s, i, chosen), labels, chosen)
<1>1. CASE ~(s.ok /\ s.arr[i] \in chosen)
  BY <1>1 DEF Visit
<1>2. CASE s.ok /\ s.arr[i] \in chosen
  <2> DEFINE name == s.arr[i]
             v == [s EXCEPT !.seen = @ \cup {name}]
             r == SetOne(v, name)
  <2>1. s \in Slices(S) /\ s.arr \in Seq(S) /\ Left(s) \in Seq(S) /\ s.moved \in Seq(S)
    BY LeftIs DEF Visited
  <2>2. name \in S /\ name \in ToSet(s.arr)
    <3>1. i \in 1 .. Len(s.arr)
      BY DEF Visited
    <3> QED
      BY <2>1, <3>1 DEF ToSet
  <2> HIDE DEF name
  <2>3. /\ v \in Slices(S) /\ v.seen = s.seen \cup {name} /\ v.arr = s.arr
        /\ v.len = s.len /\ v.moved = s.moved /\ v.ok = s.ok
    BY <2>1, <2>2, SeenIs
  <2> HIDE DEF v
  <2>4. Left(v) = Left(s) /\ \A x : Total(v, x) = Total(s, x)
    BY <2>3 DEF Total, Left
  <2>5. Moving(S, r, v, name) /\ (name \in ToSet(Left(v)) => name \in ToSet(r.moved))
    BY <1>2, <2>2, <2>3, SetOneMoves
  <2>6. ASSUME IsInjective(labels) PROVE r.ok
    <3>1. \A x : Count(Left(s), x) <= 1
      <4> SUFFICES ASSUME NEW x PROVE Count(Left(s), x) <= 1
        OBVIOUS
      <4>1. Count(labels, x) <= 1 /\ Total(s, x) = Count(labels, x)
        BY <2>6, CountInjective DEF Visited
      <4>2. Count(Left(s), x) \in Nat /\ Count(s.moved, x) \in Nat
        BY <2>1, CountType
      <4> QED
        BY <4>1, <4>2 DEF Total
    <3>2. IsInjective(Left(v))
      BY <2>1, <2>4, <3>1, CountInjective
    <3> QED
      BY <1>2, <2>2, <2>3, <3>2, SetOneOk
  <2> HIDE DEF r
  <2>7. name \in ToSet(r.moved)
    <3>1. CASE name \in ToSet(Left(s))
      BY <2>4, <2>5, <3>1
    <3>2. CASE name \notin ToSet(Left(s))
      <4>1. name \in ToSet(labels)
        BY <2>2 DEF Visited
      <4>2. Count(labels, name) # 0 /\ Count(Left(s), name) = 0 /\ Count(s.moved, name) \in Nat
        BY <2>1, <3>2, <4>1, CountType
      <4>3. Count(s.moved, name) # 0
        BY <4>2 DEF Visited, Total
      <4>4. name \in ToSet(s.moved)
        BY <2>1, <4>3, CountType
      <4> QED
        BY <2>3, <2>5, <4>4 DEF Moving
    <3> QED
      BY <3>1, <3>2
  <2>8. r.seen = ToSet(r.moved)
    BY <2>3, <2>5, <2>7 DEF Moving, Visited
  <2>9. r.seen \subseteq chosen
    BY <1>2, <2>3, <2>5 DEF Moving, Visited, name
  <2>10. Visit(s, i, chosen) = r
    BY <1>2 DEF Visit, r, v, name
  <2>11. /\ r \in Slices(S) /\ Len(r.arr) = Len(labels) /\ ToSet(r.arr) \subseteq ToSet(labels)
         /\ \A x : Total(r, x) = Count(labels, x)
    BY <2>3, <2>4, <2>5 DEF Moving, Visited
  <2> QED
    BY <2>6, <2>8, <2>9, <2>10, <2>11 DEF Visited
<1> QED
  BY <1>1, <1>2

\* The rounds of one of the loops of StickyThread.
LEMMA MoveLabelsLoop ==
  ASSUME NEW S, NEW labels \in Seq(S), NEW chosen
  PROVE  \E f : /\ f[0] = Whole(labels) /\ MoveLabels(labels, chosen) = f[Len(labels)]
                /\ \A i \in 1 .. Len(labels) : f[i] = Visit(f[i - 1], i, chosen)
<1> DEFINE n == Len(labels)
           V == {s \in Slices(S) : Visited(S, s, labels, chosen)}
           round == [i \in 1 .. n |-> [s \in V |-> Visit(s, i, chosen)]]
           Q(g) == g = [i \in 0 .. n |-> IF i = 0 THEN Whole(labels) ELSE Visit(g[i - 1], i, chosen)]
           f == CHOOSE g : Q(g)
<1>1. n \in Nat
  OBVIOUS
<1>2. round \in [1 .. n -> [V -> V]]
  <2> SUFFICES ASSUME NEW i \in 1 .. n, NEW s \in V PROVE Visit(s, i, chosen) \in V
    OBVIOUS
  <2>1. Visited(S, Visit(s, i, chosen), labels, chosen)
    BY VisitKeeps
  <2> QED
    BY <2>1 DEF Visited
<1>3. Whole(labels) \in V
  BY WholeStart
<1>4. \E g : Q(g)
  <2>1. PICK g : Loop(g, n, V, Whole(labels), round)
    <3> HIDE DEF round, n, V
    <3> QED
      BY <1>1, <1>2, <1>3, LoopExists
  <2>2. ASSUME NEW i \in 1 .. n PROVE g[i] = Visit(g[i - 1], i, chosen)
    <3>1. g[i - 1] \in V /\ g[i] = round[i][g[i - 1]]
      <4> HIDE DEF round, n, V
      <4> QED
        BY <2>1, <1>1 DEF Loop
    <3> HIDE DEF V
    <3> QED
      BY <3>1
  <2>3. g[0] = Whole(labels) /\ g = [i \in 0 .. n |-> g[i]]
    BY <2>1 DEF Loop
  <2>4. ASSUME NEW i \in 0 .. n
        PROVE  g[i] = IF i = 0 THEN Whole(labels) ELSE Visit(g[i - 1], i, chosen)
    <3>1. CASE i = 0
      BY <2>3, <3>1
    <3>2. CASE i \in 1 .. n
      BY <2>2, <3>2
    <3> QED
      BY <1>1, <3>1, <3>2
  <2>5. Q(g)
    BY <2>3, <2>4, Zenon
  <2> QED
    BY <2>5
<1>5. Q(f)
  <2> HIDE DEF Q
  <2> QED
    BY <1>4
<1>6. MoveLabels(labels, chosen) = f[n]
  BY DEF MoveLabels
<1>7. f[0] = Whole(labels) /\ \A i \in 1 .. n : f[i] = Visit(f[i - 1], i, chosen)
  <2> HIDE DEF f
  <2> QED
    BY <1>1, <1>5
<1> HIDE DEF f
<1> QED
  BY <1>6, <1>7

\* One loop of StickyThread takes labels in `chosen`, those it visits, out of
\* the slice, and has as many of each label in the end as in the beginning.
LEMMA MoveLabelsIs ==
  ASSUME NEW S, NEW labels \in Seq(S), NEW chosen
  PROVE  Visited(S, MoveLabels(labels, chosen), labels, chosen)
<1> DEFINE n == Len(labels)
<1>1. PICK f : /\ f[0] = Whole(labels) /\ MoveLabels(labels, chosen) = f[n]
               /\ \A i \in 1 .. n : f[i] = Visit(f[i - 1], i, chosen)
  BY MoveLabelsLoop
<1> DEFINE T == {m \in Nat : m <= n => Visited(S, f[m], labels, chosen)}
<1>2. 0 \in T
  BY <1>1, WholeStart
<1>3. ASSUME NEW m \in Nat, m \in T PROVE m + 1 \in T
  <2> SUFFICES ASSUME m + 1 <= n PROVE Visited(S, f[m + 1], labels, chosen)
    OBVIOUS
  <2>1. Visited(S, f[m], labels, chosen) /\ m + 1 \in 1 .. n
    BY <1>3
  <2>2. f[m + 1] = Visit(f[m], m + 1, chosen)
    BY <1>1, <2>1
  <2> QED
    BY <2>1, <2>2, VisitKeeps
<1>4. n \in T
  <2> HIDE DEF T
  <2> QED
    BY <1>2, <1>3, NatSetInduction
<1> QED
  BY <1>1, <1>4

-----------------------------------------------------------------------------
(* The index                                                               *)

\* Lists that hold each thread once.
Sane(lists) ==
  lists \in [Labels -> Seq(Ids)] /\ \A l \in Labels : IsInjective(lists[l])

\* What two views of threads agree on, with the labels in tags and stuck and
\* the lists in normal and sticky.
Core(threads, tags, stuck, normal, sticky) ==
  /\ threads \subseteq Ids
  /\ tags \in [Ids -> Seq(Labels)] /\ stuck \in [Ids -> Seq(Labels)]
  /\ Sane(normal) /\ Sane(sticky)
  /\ \A l \in Labels : \A t \in ToSet(normal[l]) : t \in threads /\ l \in ToSet(tags[t])
  /\ \A l \in Labels : \A t \in ToSet(sticky[l]) : t \in threads /\ l \in ToSet(stuck[t])
  /\ \A t \in threads, l \in Labels : IsInjective(tags[t] \o stuck[t]) =>
       /\ l \in ToSet(tags[t]) /\ ~(t \in Queues /\ l = All) => t \in ToSet(normal[l])
       /\ l \in ToSet(stuck[t]) => t \in ToSet(sticky[l])

LEMMA Added ==
  ASSUME NEW lists, Sane(lists), NEW ls, NEW t \in Ids
  PROVE  /\ Sane(InLists(lists, ls, t, AddThread))
         /\ \A l \in Labels : ToSet(InLists(lists, ls, t, AddThread)[l])
                                = ToSet(lists[l]) \cup (IF l \in ls THEN {t} ELSE {})
<1> DEFINE m == InLists(lists, ls, t, AddThread)
<1>1. m = [l \in Labels |-> IF l \in ls THEN AddThread(lists[l], t) ELSE lists[l]]
  BY DEF InLists
<1> HIDE DEF m
<1>2. ASSUME NEW l \in Labels
      PROVE  /\ m[l] \in Seq(Ids) /\ IsInjective(m[l])
             /\ ToSet(m[l]) = ToSet(lists[l]) \cup (IF l \in ls THEN {t} ELSE {})
  <2>1. lists[l] \in Seq(Ids) /\ IsInjective(lists[l])
    BY DEF Sane
  <2>2. /\ AddThread(lists[l], t) \in Seq(Ids) /\ IsInjective(AddThread(lists[l], t))
        /\ ToSet(AddThread(lists[l], t)) = ToSet(lists[l]) \cup {t}
    BY <2>1, AddThreadIs
  <2> QED
    BY <1>1, <2>1, <2>2
<1> QED
  BY <1>1, <1>2 DEF Sane, m

LEMMA Removed ==
  ASSUME NEW lists, Sane(lists), NEW ls, NEW t
  PROVE  /\ Sane(InLists(lists, ls, t, RemoveThread))
         /\ \A l \in Labels : ToSet(InLists(lists, ls, t, RemoveThread)[l])
                                = ToSet(lists[l]) \ (IF l \in ls THEN {t} ELSE {})
<1> DEFINE m == InLists(lists, ls, t, RemoveThread)
<1>1. m = [l \in Labels |-> IF l \in ls THEN RemoveThread(lists[l], t) ELSE lists[l]]
  BY DEF InLists
<1> HIDE DEF m
<1>2. ASSUME NEW l \in Labels
      PROVE  /\ m[l] \in Seq(Ids) /\ IsInjective(m[l])
             /\ ToSet(m[l]) = ToSet(lists[l]) \ (IF l \in ls THEN {t} ELSE {})
  <2>1. lists[l] \in Seq(Ids) /\ IsInjective(lists[l])
    BY DEF Sane
  <2>2. /\ RemoveThread(lists[l], t) \in Seq(Ids) /\ IsInjective(RemoveThread(lists[l], t))
        /\ ToSet(RemoveThread(lists[l], t)) = ToSet(lists[l]) \ {t}
    BY <2>1, RemoveThreadIs
  <2> QED
    BY <1>1, <2>1, <2>2
<1> QED
  BY <1>1, <1>2 DEF Sane, m

LEMMA Bumped ==
  ASSUME NEW lists, Sane(lists), NEW ls, NEW t \in Ids
  PROVE  /\ Sane(InLists(lists, ls, t, MoveToFront))
         /\ \A l \in Labels : ToSet(InLists(lists, ls, t, MoveToFront)[l]) = ToSet(lists[l])
<1> DEFINE m == InLists(lists, ls, t, MoveToFront)
<1>1. m = [l \in Labels |-> IF l \in ls THEN MoveToFront(lists[l], t) ELSE lists[l]]
  BY DEF InLists
<1> HIDE DEF m
<1>2. ASSUME NEW l \in Labels
      PROVE  m[l] \in Seq(Ids) /\ IsInjective(m[l]) /\ ToSet(m[l]) = ToSet(lists[l])
  <2>1. lists[l] \in Seq(Ids) /\ IsInjective(lists[l])
    BY DEF Sane
  <2>2. /\ MoveToFront(lists[l], t) \in Seq(Ids) /\ IsInjective(MoveToFront(lists[l], t))
        /\ ToSet(MoveToFront(lists[l], t)) = ToSet(lists[l])
    BY <2>1, MoveToFrontIs
  <2> QED
    BY <1>1, <2>1, <2>2
<1> QED
  BY <1>1, <1>2 DEF Sane, m

\* DeleteThread finds every list a thread is in by the thread's labels.
LEMMA CoreWithout ==
  ASSUME NEW threads, NEW tags, NEW stuck, NEW normal, NEW sticky,
         Core(threads, tags, stuck, normal, sticky), NEW t \in Ids
  PROVE  Core(threads \ {t}, tags, stuck, Without(normal, tags[t], t), Without(sticky, stuck[t], t))
<1> DEFINE n == Without(normal, tags[t], t)
           s == Without(sticky, stuck[t], t)
<1>1. /\ Sane(n)
      /\ \A l \in Labels : ToSet(n[l]) = ToSet(normal[l]) \ (IF l \in ToSet(tags[t]) THEN {t} ELSE {})
  <2>1. Sane(normal)
    BY DEF Core
  <2> QED
    BY <2>1, Removed DEF Without
<1>2. /\ Sane(s)
      /\ \A l \in Labels : ToSet(s[l]) = ToSet(sticky[l]) \ (IF l \in ToSet(stuck[t]) THEN {t} ELSE {})
  <2>1. Sane(sticky)
    BY DEF Core
  <2> QED
    BY <2>1, Removed DEF Without
<1> HIDE DEF n, s
<1>3. \A l \in Labels : \A u \in ToSet(n[l]) : u \in threads \ {t} /\ l \in ToSet(tags[u])
  BY <1>1 DEF Core
<1>4. \A l \in Labels : \A u \in ToSet(s[l]) : u \in threads \ {t} /\ l \in ToSet(stuck[u])
  BY <1>2 DEF Core
<1>5. ASSUME NEW u \in threads \ {t}, NEW l \in Labels, IsInjective(tags[u] \o stuck[u])
      PROVE  /\ l \in ToSet(tags[u]) /\ ~(u \in Queues /\ l = All) => u \in ToSet(n[l])
             /\ l \in ToSet(stuck[u]) => u \in ToSet(s[l])
  <2>1. /\ l \in ToSet(tags[u]) /\ ~(u \in Queues /\ l = All) => u \in ToSet(normal[l])
        /\ l \in ToSet(stuck[u]) => u \in ToSet(sticky[l])
    BY <1>5 DEF Core
  <2> QED
    BY <1>1, <1>2, <2>1
<1> QED
  BY <1>1, <1>2, <1>3, <1>4, <1>5 DEF Core, n, s

\* A new thread is put into the list of each of its labels.
LEMMA CoreWith ==
  ASSUME NEW threads, NEW tags, NEW stuck, NEW normal, NEW sticky,
         Core(threads, tags, stuck, normal, sticky), NEW t \in Ids, t \notin threads,
         stuck[t] = <<>>, NEW labels \in Seq(Labels)
  PROVE  Core(threads \cup {t}, [tags EXCEPT ![t] = labels], stuck,
              InLists(normal, ToSet(labels), t, AddThread), sticky)
<1> DEFINE n == InLists(normal, ToSet(labels), t, AddThread)
           g == [tags EXCEPT ![t] = labels]
<1>1. /\ Sane(n)
      /\ \A l \in Labels : ToSet(n[l]) = ToSet(normal[l]) \cup (IF l \in ToSet(labels) THEN {t} ELSE {})
  <2>1. Sane(normal)
    BY DEF Core
  <2> QED
    BY <2>1, Added
<1> HIDE DEF n
<1>2. g \in [Ids -> Seq(Labels)] /\ g[t] = labels /\ \A u \in Ids \ {t} : g[u] = tags[u]
  BY DEF Core
<1> HIDE DEF g
<1>3. ASSUME NEW l \in Labels, NEW u \in ToSet(n[l])
      PROVE  u \in threads \cup {t} /\ l \in ToSet(g[u])
  <2>1. CASE u = t
    <3>1. t \notin ToSet(normal[l])
      BY DEF Core
    <3> QED
      BY <1>1, <1>2, <2>1, <3>1
  <2>2. CASE u # t
    <3>1. u \in ToSet(normal[l])
      BY <1>1, <2>2
    <3>2. u \in threads /\ u \in Ids \ {t} /\ l \in ToSet(tags[u])
      BY <2>2, <3>1 DEF Core
    <3> QED
      BY <1>2, <3>2
  <2> QED
    BY <2>1, <2>2
<1>4. \A l \in Labels : \A u \in ToSet(sticky[l]) : u \in threads \cup {t} /\ l \in ToSet(stuck[u])
  BY DEF Core
<1>5. ToSet(<<>>) = {}
  BY DEF ToSet
<1>6. ASSUME NEW u \in threads \cup {t}, NEW l \in Labels, IsInjective(g[u] \o stuck[u])
      PROVE  /\ l \in ToSet(g[u]) /\ ~(u \in Queues /\ l = All) => u \in ToSet(n[l])
             /\ l \in ToSet(stuck[u]) => u \in ToSet(sticky[l])
  <2>1. CASE u = t
    BY <1>1, <1>2, <1>5, <2>1
  <2>2. CASE u # t
    <3>1. u \in threads /\ u \in Ids \ {t}
      BY <2>2 DEF Core
    <3>2. IsInjective(tags[u] \o stuck[u]) /\ g[u] = tags[u]
      BY <1>2, <1>6, <3>1
    <3> QED
      BY <1>1, <3>1, <3>2 DEF Core
  <2> QED
    BY <2>1, <2>2
<1> QED
  BY <1>1, <1>2, <1>3, <1>4, <1>6 DEF Core, n, g

-----------------------------------------------------------------------------
(* StickyThread                                                            *)

LEMMA VisitedIs ==
  ASSUME NEW S, NEW labels \in Seq(S), NEW chosen, NEW s, Visited(S, s, labels, chosen)
  PROVE  /\ Left(s) \in Seq(S) /\ s.moved \in Seq(S) /\ s.seen = ToSet(s.moved)
         /\ \A x : /\ Count(Left(s), x) \in Nat /\ Count(s.moved, x) \in Nat
                   /\ Count(Left(s), x) + Count(s.moved, x) = Count(labels, x)
         /\ \A x : x \in ToSet(labels) <=> x \in ToSet(Left(s)) \/ x \in s.seen
         /\ IsInjective(labels) => \A x : ~(x \in ToSet(Left(s)) /\ x \in s.seen)
<1>1. Left(s) \in Seq(S) /\ s.moved \in Seq(S) /\ s.seen = ToSet(s.moved)
  BY LeftIs DEF Visited
<1>2. \A x : /\ Count(Left(s), x) \in Nat /\ Count(s.moved, x) \in Nat
             /\ Count(Left(s), x) + Count(s.moved, x) = Count(labels, x)
  BY <1>1, CountType DEF Visited, Total
<1>3. ASSUME NEW x
      PROVE  /\ x \in ToSet(labels) <=> Count(labels, x) # 0
             /\ x \in ToSet(Left(s)) <=> Count(Left(s), x) # 0
             /\ x \in s.seen <=> Count(s.moved, x) # 0
  BY <1>1, CountType
<1>4. \A x : x \in ToSet(labels) <=> x \in ToSet(Left(s)) \/ x \in s.seen
  BY <1>2, <1>3
<1>5. ASSUME IsInjective(labels), NEW x PROVE ~(x \in ToSet(Left(s)) /\ x \in s.seen)
  <2>1. Count(labels, x) <= 1
    BY <1>5, CountInjective
  <2> QED
    BY <1>2, <1>3, <2>1
<1> QED
  BY <1>1, <1>2, <1>4, <1>5

\* A thread had the labels have, with stuck at the top: up are those that the
\* first loop moved, down those the second did.
Swapped(S, have, stuck, up, down) ==
  /\ Left(up) \in Seq(S) /\ down.moved \in Seq(S) /\ Left(down) \in Seq(S)
  /\ up.seen = ToSet(up.moved) /\ down.seen = ToSet(down.moved)
  /\ \A x : x \in ToSet(have) <=> x \in ToSet(Left(up)) \/ x \in up.seen
  /\ \A x : x \in ToSet(stuck) \/ x \in up.seen <=> x \in ToSet(Left(down)) \/ x \in down.seen
  /\ \A x : Count((Left(up) \o down.moved) \o Left(down), x) = Count(have \o stuck, x)
  /\ IsInjective(have \o stuck) =>
       /\ up.ok /\ down.ok
       /\ \A x : ~(x \in ToSet(Left(up)) /\ x \in up.seen)
       /\ \A x : ~(x \in ToSet(Left(down)) /\ x \in down.seen)

LEMMA BothLoops ==
  ASSUME NEW S, NEW have \in Seq(S), NEW stuck \in Seq(S), NEW wanted, NEW rest,
         NEW up, up = MoveLabels(have, wanted),
         NEW down, down = MoveLabels(stuck \o up.moved, rest)
  PROVE  Swapped(S, have, stuck, up, down)
<1> DEFINE all == stuck \o up.moved
           kept == Left(up) \o down.moved
<1>1. Visited(S, up, have, wanted)
  BY MoveLabelsIs
<1>2. /\ Left(up) \in Seq(S) /\ up.moved \in Seq(S) /\ up.seen = ToSet(up.moved)
      /\ \A x : /\ Count(Left(up), x) \in Nat /\ Count(up.moved, x) \in Nat
                /\ Count(Left(up), x) + Count(up.moved, x) = Count(have, x)
      /\ \A x : x \in ToSet(have) <=> x \in ToSet(Left(up)) \/ x \in up.seen
      /\ IsInjective(have) => \A x : ~(x \in ToSet(Left(up)) /\ x \in up.seen)
  BY <1>1, VisitedIs
<1>3. all \in Seq(S) /\ ToSet(all) = ToSet(stuck) \cup up.seen
  BY <1>2, ConcatSet
<1>4. Visited(S, down, all, rest)
  BY <1>3, MoveLabelsIs
<1>5. /\ Left(down) \in Seq(S) /\ down.moved \in Seq(S) /\ down.seen = ToSet(down.moved)
      /\ \A x : /\ Count(Left(down), x) \in Nat /\ Count(down.moved, x) \in Nat
                /\ Count(Left(down), x) + Count(down.moved, x) = Count(all, x)
      /\ \A x : x \in ToSet(all) <=> x \in ToSet(Left(down)) \/ x \in down.seen
      /\ IsInjective(all) => \A x : ~(x \in ToSet(Left(down)) /\ x \in down.seen)
  <2> HIDE DEF all
  <2> QED
    BY <1>3, <1>4, VisitedIs
<1>6. \A x : /\ Count(all, x) = Count(stuck, x) + Count(up.moved, x)
             /\ Count(have \o stuck, x) = Count(have, x) + Count(stuck, x)
             /\ Count(stuck, x) \in Nat /\ Count(have, x) \in Nat
  <2>1. \A x : Count(all, x) = Count(stuck, x) + Count(up.moved, x)
    BY <1>2, CountConcat
  <2>2. \A x : Count(have \o stuck, x) = Count(have, x) + Count(stuck, x)
    BY CountConcat
  <2> QED
    BY <2>1, <2>2, CountType
<1>7. kept \in Seq(S) /\ \A x : Count(kept, x) = Count(Left(up), x) + Count(down.moved, x)
  BY <1>2, <1>5, CountConcat, ConcatSet
<1> HIDE DEF kept
<1>8. \A x : Count(kept \o Left(down), x) = Count(kept, x) + Count(Left(down), x)
  BY <1>5, <1>7, CountConcat
<1> HIDE DEF all
<1>9. ASSUME NEW x PROVE Count(kept \o Left(down), x) = Count(have \o stuck, x)
  <2>1. /\ Count(kept \o Left(down), x) = Count(kept, x) + Count(Left(down), x)
        /\ Count(kept, x) = Count(Left(up), x) + Count(down.moved, x)
    BY <1>7, <1>8
  <2>2. /\ Count(Left(up), x) + Count(up.moved, x) = Count(have, x)
        /\ Count(Left(down), x) + Count(down.moved, x) = Count(all, x)
        /\ Count(all, x) = Count(stuck, x) + Count(up.moved, x)
        /\ Count(have \o stuck, x) = Count(have, x) + Count(stuck, x)
    BY <1>2, <1>5, <1>6
  <2>3. /\ Count(Left(up), x) \in Nat /\ Count(up.moved, x) \in Nat
        /\ Count(Left(down), x) \in Nat /\ Count(down.moved, x) \in Nat
        /\ Count(stuck, x) \in Nat /\ Count(have, x) \in Nat
    BY <1>2, <1>5, <1>6
  <2> QED
    BY <2>1, <2>2, <2>3
<1>10. ASSUME IsInjective(have \o stuck) PROVE IsInjective(have) /\ IsInjective(all)
  <2>1. have \o stuck \in Seq(S)
    BY ConcatSet
  <2>2. \A x : Count(have \o stuck, x) <= 1
    BY <1>10, <2>1, CountInjective
  <2>3. \A x : Count(have, x) <= 1 /\ Count(all, x) <= 1
    BY <1>2, <1>6, <2>2
  <2> QED
    BY <1>3, <2>3, CountInjective
<1>11. ASSUME IsInjective(have \o stuck) PROVE up.ok /\ down.ok
  BY <1>1, <1>4, <1>10, <1>11 DEF Visited
<1>12. \A x : x \in ToSet(stuck) \/ x \in up.seen <=> x \in ToSet(Left(down)) \/ x \in down.seen
  BY <1>3, <1>5
<1> QED
  BY <1>2, <1>5, <1>9, <1>10, <1>11, <1>12 DEF kept, Swapped

LEMMA CoreSticky ==
  ASSUME NEW threads, NEW tags, NEW stuck, NEW normal, NEW sticky,
         Core(threads, tags, stuck, normal, sticky), NEW t \in threads, NEW wanted, NEW rest,
         NEW up, up = MoveLabels(tags[t], wanted),
         NEW down, down = MoveLabels(stuck[t] \o up.moved, rest)
  PROVE  Core(threads, [tags EXCEPT ![t] = Left(up) \o down.moved],
              [stuck EXCEPT ![t] = Left(down)],
              InLists(InLists(normal, up.seen, t, RemoveThread), down.seen, t, AddThread),
              InLists(InLists(sticky, up.seen, t, AddThread), down.seen, t, RemoveThread))
<1> DEFINE g == [tags EXCEPT ![t] = Left(up) \o down.moved]
           k == [stuck EXCEPT ![t] = Left(down)]
           n1 == InLists(normal, up.seen, t, RemoveThread)
           n == InLists(n1, down.seen, t, AddThread)
           s1 == InLists(sticky, up.seen, t, AddThread)
           s == InLists(s1, down.seen, t, RemoveThread)
<1>1. /\ threads \subseteq Ids /\ t \in Ids
      /\ tags[t] \in Seq(Labels) /\ stuck[t] \in Seq(Labels)
      /\ Sane(normal) /\ Sane(sticky)
  BY DEF Core
<1>2. /\ Left(up) \in Seq(Labels) /\ down.moved \in Seq(Labels) /\ Left(down) \in Seq(Labels)
      /\ up.seen = ToSet(up.moved) /\ down.seen = ToSet(down.moved)
      /\ \A x : x \in ToSet(tags[t]) <=> x \in ToSet(Left(up)) \/ x \in up.seen
      /\ \A x : x \in ToSet(stuck[t]) \/ x \in up.seen <=> x \in ToSet(Left(down)) \/ x \in down.seen
      /\ \A x : Count((Left(up) \o down.moved) \o Left(down), x) = Count(tags[t] \o stuck[t], x)
      /\ IsInjective(tags[t] \o stuck[t]) =>
           /\ \A x : ~(x \in ToSet(Left(up)) /\ x \in up.seen)
           /\ \A x : ~(x \in ToSet(Left(down)) /\ x \in down.seen)
  <2>1. tags[t] \in Seq(Labels) /\ stuck[t] \in Seq(Labels)
    BY <1>1
  <2>2. Swapped(Labels, tags[t], stuck[t], up, down)
    BY <2>1, BothLoops
  <2> QED
    BY <2>2 DEF Swapped
<1>3. /\ Sane(n1)
      /\ \A l \in Labels : ToSet(n1[l]) = ToSet(normal[l]) \ (IF l \in up.seen THEN {t} ELSE {})
  BY <1>1, Removed
<1>4. /\ Sane(s1)
      /\ \A l \in Labels : ToSet(s1[l]) = ToSet(sticky[l]) \cup (IF l \in up.seen THEN {t} ELSE {})
  <2>1. Sane(sticky) /\ t \in Ids
    BY <1>1
  <2> QED
    BY <2>1, Added
<1> HIDE DEF n1, s1
<1>5. /\ Sane(n)
      /\ \A l \in Labels : ToSet(n[l]) = ToSet(n1[l]) \cup (IF l \in down.seen THEN {t} ELSE {})
  <2>1. Sane(n1) /\ t \in Ids
    BY <1>1, <1>3
  <2> QED
    BY <2>1, Added
<1>6. /\ Sane(s)
      /\ \A l \in Labels : ToSet(s[l]) = ToSet(s1[l]) \ (IF l \in down.seen THEN {t} ELSE {})
  BY <1>4, Removed
<1> HIDE DEF n, s
<1>7. /\ Left(up) \o down.moved \in Seq(Labels)
      /\ ToSet(Left(up) \o down.moved) = ToSet(Left(up)) \cup down.seen
  BY <1>2, ConcatSet
<1>8. /\ g \in [Ids -> Seq(Labels)] /\ k \in [Ids -> Seq(Labels)]
      /\ g[t] = Left(up) \o down.moved /\ k[t] = Left(down)
      /\ \A u \in Ids \ {t} : g[u] = tags[u] /\ k[u] = stuck[u]
  BY <1>1, <1>2, <1>7 DEF Core
<1> HIDE DEF g, k
<1>9. IsInjective(g[t] \o k[t]) => IsInjective(tags[t] \o stuck[t])
  <2>1. g[t] \o k[t] \in Seq(Labels) /\ tags[t] \o stuck[t] \in Seq(Labels)
    BY <1>1, <1>8, ConcatSet
  <2>2. \A x : Count(g[t] \o k[t], x) = Count(tags[t] \o stuck[t], x)
    BY <1>2, <1>8
  <2> QED
    BY <2>1, <2>2, CountInjective
<1>10. ASSUME NEW l \in Labels, NEW u \in ToSet(n[l]) PROVE u \in threads /\ l \in ToSet(g[u])
  <2>1. CASE u # t
    <3>1. u \in ToSet(normal[l])
      BY <1>3, <1>5, <2>1
    <3>2. u \in threads /\ l \in ToSet(tags[u])
      BY <3>1 DEF Core
    <3> QED
      BY <1>1, <1>8, <2>1, <3>2
  <2>2. CASE u = t
    <3>1. l \in down.seen \/ t \in ToSet(n1[l])
      BY <1>5, <2>2
    <3>2. t \in ToSet(n1[l]) => t \in ToSet(normal[l]) /\ l \notin up.seen
      BY <1>3
    <3>3. t \in ToSet(normal[l]) => l \in ToSet(tags[t])
      BY DEF Core
    <3> QED
      BY <1>2, <1>7, <1>8, <2>2, <3>1, <3>2, <3>3
  <2> QED
    BY <2>1, <2>2
<1>11. ASSUME NEW l \in Labels, NEW u \in ToSet(s[l]) PROVE u \in threads /\ l \in ToSet(k[u])
  <2>1. CASE u # t
    <3>1. u \in ToSet(sticky[l])
      BY <1>4, <1>6, <2>1
    <3>2. u \in threads /\ l \in ToSet(stuck[u])
      BY <3>1 DEF Core
    <3> QED
      BY <1>1, <1>8, <2>1, <3>2
  <2>2. CASE u = t
    <3>1. l \notin down.seen /\ (t \in ToSet(sticky[l]) \/ l \in up.seen)
      BY <1>4, <1>6, <2>2
    <3>2. t \in ToSet(sticky[l]) => l \in ToSet(stuck[t])
      BY DEF Core
    <3> QED
      BY <1>2, <1>8, <2>2, <3>1, <3>2
  <2> QED
    BY <2>1, <2>2
<1>12. ASSUME NEW u \in threads, NEW l \in Labels, IsInjective(g[u] \o k[u])
       PROVE  /\ l \in ToSet(g[u]) /\ ~(u \in Queues /\ l = All) => u \in ToSet(n[l])
              /\ l \in ToSet(k[u]) => u \in ToSet(s[l])
  <2>1. IsInjective(tags[u] \o stuck[u])
    BY <1>1, <1>8, <1>9, <1>12
  <2>2. /\ l \in ToSet(tags[u]) /\ ~(u \in Queues /\ l = All) => u \in ToSet(normal[l])
        /\ l \in ToSet(stuck[u]) => u \in ToSet(sticky[l])
    BY <2>1 DEF Core
  <2>3. CASE u # t
    BY <1>1, <1>3, <1>4, <1>5, <1>6, <1>8, <2>2, <2>3
  <2>4. CASE u = t
    <3>1. /\ l \in ToSet(g[t]) => l \in ToSet(Left(up)) \/ l \in down.seen
          /\ l \in ToSet(k[t]) => l \in ToSet(Left(down))
      BY <1>7, <1>8
    <3>2. ASSUME l \in ToSet(Left(up)), ~(t \in Queues /\ l = All) PROVE t \in ToSet(n[l])
      BY <1>2, <1>3, <1>5, <2>1, <2>2, <2>4, <3>2
    <3>3. ASSUME l \in down.seen PROVE t \in ToSet(n[l])
      BY <1>5, <3>3
    <3>4. ASSUME l \in ToSet(Left(down)) PROVE t \in ToSet(s[l])
      <4>1. l \notin down.seen /\ (l \in ToSet(stuck[t]) \/ l \in up.seen)
        BY <1>2, <2>1, <2>4, <3>4
      <4>2. t \in ToSet(s1[l])
        BY <1>4, <2>2, <2>4, <4>1
      <4> QED
        BY <1>6, <4>1, <4>2
    <3> QED
      BY <2>4, <3>1, <3>2, <3>3, <3>4
  <2> QED
    BY <2>3, <2>4
<1>13. Core(threads, g, k, n, s)
  BY <1>1, <1>5, <1>6, <1>8, <1>10, <1>11, <1>12 DEF Core
<1> QED
  BY <1>13 DEF g, k, n, s, n1, s1

-----------------------------------------------------------------------------
(* The inductive invariant                                                 *)

\* Ids are given out in order, and one that is not given out has no labels
\* stuck.
Fresh ==
  /\ NumQueues <= ThreadCount
  /\ \A t \in Ids : t >= ThreadCount => t \notin Threads /\ StickyTags[t] = <<>>

QueuesOut ==
  \A q \in (Queues \cap Threads) \ unstuck : q \notin ToSet(Normal[All])

\* IndexAgrees says nothing of where threads with a label twice are listed,
\* and their lists must hold them under labels they have for a deletion to
\* find them: Core says so.
IndInv ==
  /\ TypeOK /\ Fresh /\ ThreadsBounded /\ QueuesOut
  /\ Core(Threads, Tags, StickyTags, Normal, Sticky)

LEMMA TypeFromCore ==
  ASSUME NEW threads, NEW tags, NEW stuck, NEW normal, NEW sticky,
         Core(threads, tags, stuck, normal, sticky)
  PROVE  /\ threads \subseteq Ids
         /\ tags \in [Ids -> Seq(Labels)] /\ stuck \in [Ids -> Seq(Labels)]
         /\ normal \in [Labels -> Seq(Ids)] /\ sticky \in [Labels -> Seq(Ids)]
BY DEF Core, Sane

LEMMA AllIsLabel == All \in Labels /\ Admin \in Labels /\ All # Admin
BY HiveAssumption DEF Labels

LEMMA QueuesAreIds == Queues \subseteq Ids
BY HiveAssumption DEF Queues, Ids

\* The threads below a number are as many.
LEMMA FewIds ==
  ASSUME NEW n \in Nat, NEW T \in SUBSET (0 .. n)
  PROVE  IsFiniteSet(T) /\ Cardinality(T) <= n + 1
<1>1. IsFiniteSet(0 .. n) /\ Cardinality(0 .. n) = n + 1
  BY FS_Interval
<1>2. IsFiniteSet(T) /\ Cardinality(T) <= Cardinality(0 .. n)
  BY <1>1, FS_Subset
<1> QED
  BY <1>1, <1>2

LEMMA InitInv ==
  ASSUME Init
  PROVE  IndInv
<1> USE HiveAssumption
<1> DEFINE rev == [i \in 1 .. NumQueues |-> NumQueues - i]
<1>1. rev \in Seq(Ids) /\ IsInjective(rev) /\ ToSet(rev) = Queues
  <2>1. rev \in [1 .. NumQueues -> Ids]
    BY DEF Ids
  <2>2. rev \in Seq(Ids) /\ DOMAIN rev = 1 .. NumQueues
    BY <2>1
  <2>3. IsInjective(rev)
    BY DEF IsInjective
  <2>4. ASSUME NEW q \in Queues PROVE q \in ToSet(rev)
    <3>1. NumQueues - q \in 1 .. NumQueues /\ rev[NumQueues - q] = q
      BY DEF Queues
    <3> QED
      BY <2>2, <3>1 DEF ToSet
  <2>5. ToSet(rev) \subseteq Queues
    BY <2>2 DEF ToSet, Queues
  <2> QED
    BY <2>2, <2>3, <2>4, <2>5
<1>2. /\ <<>> \in Seq(Ids) /\ <<>> \in Seq(Labels) /\ ToSet(<<>>) = {} /\ IsInjective(<<>>)
      /\ Len(<<>>) = 0
  BY DEF ToSet, IsInjective
<1>3. /\ <<Admin, All>> \in Seq(Labels) /\ ToSet(<<Admin, All>>) = {Admin, All}
  BY AllIsLabel DEF ToSet
<1> HIDE DEF rev
<1>4. Normal = [l \in Labels |-> IF l = Admin THEN rev ELSE <<>>]
  BY DEF Init, rev
<1>5. Sane(Normal)
  BY <1>1, <1>2, <1>4 DEF Sane
<1>6. Sane(Sticky)
  BY <1>2 DEF Sane, Init
<1>7. /\ Tags \in [Ids -> Seq(Labels)] /\ StickyTags \in [Ids -> Seq(Labels)]
      /\ \A t \in Queues : ToSet(Tags[t]) = {Admin, All}
  <2> DEFINE both == <<Admin, All>>
  <2>1. Tags = [t \in Ids |-> IF t \in Queues THEN both ELSE <<>>]
    BY DEF Init
  <2>2. StickyTags = [t \in Ids |-> <<>>]
    BY DEF Init
  <2>3. both \in Seq(Labels) /\ ToSet(both) = {Admin, All}
    BY <1>3
  <2> HIDE DEF both
  <2> QED
    BY <1>2, <2>1, <2>2, <2>3, QueuesAreIds
<1>8. \A l \in Labels : \A t \in ToSet(Normal[l]) : t \in Queues /\ l = Admin
  BY <1>1, <1>2, <1>4
<1>9. \A l \in Labels : ToSet(Sticky[l]) = {}
  BY <1>2 DEF Init
<1>10. \A t \in Ids : ToSet(StickyTags[t]) = {}
  BY <1>2 DEF Init
<1>11. ASSUME NEW t \in Queues, NEW l \in Labels, l \in ToSet(Tags[t]), ~(l = All)
       PROVE  t \in ToSet(Normal[l])
  <2>1. l = Admin
    <3>1. ToSet(Tags[t]) = {Admin, All}
      BY <1>7
    <3> QED
      BY <1>11, <3>1
  <2>2. Normal[Admin] = rev
    BY <1>4, AllIsLabel
  <2> QED
    BY <1>1, <2>1, <2>2
<1>12. Threads = Queues
  BY DEF Init
<1>13. Core(Threads, Tags, StickyTags, Normal, Sticky)
  BY <1>5, <1>6, <1>7, <1>8, <1>9, <1>10, <1>11, <1>12, QueuesAreIds DEF Core
<1>14. TypeOK
  <2>1. ThreadCount \in 0 .. MaxThreads
    BY DEF Init
  <2>2. crashed \in BOOLEAN /\ unstuck \subseteq Queues
    BY DEF Init
  <2> QED
    BY <1>13, <2>1, <2>2, TypeFromCore DEF TypeOK
<1>15. Fresh
  BY DEF Init, Fresh, Queues, Ids
<1>16. ThreadsBounded
  <2>1. Cardinality(0 .. NumQueues - 1) = NumQueues
    BY FS_Interval
  <2> QED
    BY <1>12, <2>1 DEF Queues, ThreadsBounded
<1>17. QueuesOut
  BY <1>2, <1>4, AllIsLabel DEF QueuesOut
<1> QED
  BY <1>13, <1>14, <1>15, <1>16, <1>17 DEF IndInv

LEMMA AddPostInv ==
  ASSUME IndInv, NEW t \in Threads, AddPost(t)
  PROVE  IndInv'
<1>1. /\ Normal' = InLists(Normal, ToSet(Tags[t]), t, MoveToFront)
      /\ UNCHANGED <<Threads, ThreadCount, Tags, StickyTags, Sticky, crashed, unstuck>>
  BY DEF AddPost
<1>2. Core(Threads, Tags, StickyTags, Normal, Sticky) /\ Sane(Normal) /\ t \in Ids
  BY DEF IndInv, Core
<1>3. Sane(Normal') /\ \A l \in Labels : ToSet(Normal'[l]) = ToSet(Normal[l])
  BY <1>1, <1>2, Bumped
<1>4. Core(Threads', Tags', StickyTags', Normal', Sticky')
  BY <1>1, <1>2, <1>3 DEF Core
<1>5. TypeOK'
  <2>1. ThreadCount' \in 0 .. MaxThreads /\ crashed' \in BOOLEAN /\ unstuck' \subseteq Queues
    BY <1>1 DEF IndInv, TypeOK
  <2> QED
    BY <1>4, <2>1, TypeFromCore DEF TypeOK
<1>6. QueuesOut'
  BY <1>1, <1>3, AllIsLabel DEF IndInv, QueuesOut
<1>7. Fresh' /\ ThreadsBounded'
  BY <1>1 DEF IndInv, Fresh, ThreadsBounded
<1> QED
  BY <1>4, <1>5, <1>6, <1>7 DEF IndInv

LEMMA DeleteThreadInv ==
  ASSUME IndInv, NEW t \in Threads, DeleteThread(t)
  PROVE  IndInv'
<1>1. /\ Threads' = Threads \ {t}
      /\ Normal' = Without(Normal, Tags[t], t)
      /\ Sticky' = Without(Sticky, StickyTags[t], t)
      /\ UNCHANGED <<ThreadCount, Tags, StickyTags, crashed, unstuck>>
  BY DEF DeleteThread
<1>2. Core(Threads, Tags, StickyTags, Normal, Sticky) /\ Sane(Normal) /\ t \in Ids
  BY DEF IndInv, Core
<1>3. Core(Threads', Tags', StickyTags', Normal', Sticky')
  BY <1>1, <1>2, CoreWithout
<1>4. TypeOK'
  <2>1. ThreadCount' \in 0 .. MaxThreads /\ crashed' \in BOOLEAN /\ unstuck' \subseteq Queues
    BY <1>1 DEF IndInv, TypeOK
  <2> QED
    BY <1>3, <2>1, TypeFromCore DEF TypeOK
<1>5. \A l \in Labels : ToSet(Normal'[l]) \subseteq ToSet(Normal[l])
  BY <1>1, <1>2, Removed DEF Without
<1>6. QueuesOut'
  BY <1>1, <1>5, AllIsLabel DEF IndInv, QueuesOut
<1>7. Fresh'
  BY <1>1 DEF IndInv, Fresh
<1>8. ThreadsBounded'
  <2>1. Threads \subseteq 0 .. MaxThreads
    BY <1>2, HiveAssumption DEF Core, Ids
  <2>2. IsFiniteSet(Threads)
    BY <2>1, HiveAssumption, FewIds
  <2>3. Cardinality(Threads') <= Cardinality(Threads) /\ IsFiniteSet(Threads')
    BY <1>1, <2>2, FS_Subset
  <2>4. Cardinality(Threads') \in Nat /\ Cardinality(Threads) \in Nat
    BY <2>2, <2>3, FS_CardinalityType
  <2> QED
    BY <2>3, <2>4, HiveAssumption DEF IndInv, ThreadsBounded
<1> QED
  BY <1>3, <1>4, <1>6, <1>7, <1>8 DEF IndInv

\* A new thread, and the last one of "!!_all", which is the new one or was
\* there before, deleted when there are too many.
LEMMA CreateThreadInv ==
  ASSUME IndInv, NEW ts \in UserTags, NEW staff, CreateThread(ts, staff)
  PROVE  IndInv'
<1> DEFINE new == ThreadCount
           labels == Append(Cleaned(ts), All)
           lists == InLists(Normal, ToSet(labels), new, AddThread)
           oldest == Last(lists[All])
<1>1. /\ ThreadCount < MaxThreads /\ ThreadCount' = ThreadCount + 1
      /\ Tags' = [Tags EXCEPT ![new] = labels]
      /\ IF Prunes
         THEN /\ Threads' = (Threads \cup {new}) \ {oldest}
              /\ Normal' = Without(lists, Tags'[oldest], oldest)
              /\ Sticky' = Without(Sticky, StickyTags[oldest], oldest)
         ELSE /\ Threads' = Threads \cup {new}
              /\ Normal' = lists
              /\ UNCHANGED Sticky
      /\ UNCHANGED <<StickyTags, crashed, unstuck>>
  BY DEF CreateThread
<1>2. /\ Core(Threads, Tags, StickyTags, Normal, Sticky) /\ Sane(Normal)
      /\ Threads \subseteq Ids /\ new \in Nat /\ NumQueues <= new
      /\ NumQueues \in Nat /\ MaxThreads \in Nat /\ Limit \in Nat
  BY HiveAssumption DEF IndInv, Core, TypeOK, Fresh
<1>3. new \in Ids /\ new \notin Threads /\ StickyTags[new] = <<>> /\ new \notin Queues
  <2>1. new \in Ids
    BY <1>1, <1>2 DEF Ids
  <2>2. new \notin Queues
    BY <1>2 DEF Queues
  <2> QED
    BY <1>2, <2>1, <2>2 DEF IndInv, Fresh
<1>4. labels \in Seq(Labels) /\ All \in ToSet(labels)
  <2>1. ts \in Seq(Labels)
    BY HiveAssumption
  <2>2. Cleaned(ts) \in Seq(Labels)
    BY <2>1, CleanedIs
  <2> QED
    BY <2>2, AllIsLabel, AppendSet
<1>5. Sane(lists) /\ \A l \in Labels : ToSet(lists[l]) = ToSet(Normal[l]) \cup (IF l \in ToSet(labels) THEN {new} ELSE {})
  <2> HIDE DEF new, labels
  <2> QED
    BY <1>2, <1>3, Added
<1>6. Core(Threads \cup {new}, Tags', StickyTags, lists, Sticky)
  <2> HIDE DEF new, labels
  <2> QED
    BY <1>1, <1>2, <1>3, <1>4, CoreWith
<1> HIDE DEF new, labels, lists
<1>7. lists[All] \in Seq(Ids) /\ new \in ToSet(lists[All])
  BY <1>4, <1>5, AllIsLabel DEF Sane
<1>8. oldest \in ToSet(lists[All])
  <2>1. Len(lists[All]) # 0
    BY <1>7 DEF ToSet
  <2> QED
    BY <1>7, <2>1 DEF ToSet, Last
<1>9. oldest \in Threads \cup {new} /\ oldest \in Ids
  BY <1>2, <1>3, <1>6, <1>8, AllIsLabel DEF Core
<1> HIDE DEF oldest
<1>10. Core((Threads \cup {new}) \ {oldest}, Tags', StickyTags,
            Without(lists, Tags'[oldest], oldest), Without(Sticky, StickyTags[oldest], oldest))
  BY <1>6, <1>9, CoreWithout
<1>11. Core(Threads', Tags', StickyTags', Normal', Sticky')
  <2>1. CASE Prunes
    BY <1>1, <1>10, <2>1
  <2>2. CASE ~Prunes
    BY <1>1, <1>6, <2>2
  <2> QED
    BY <2>1, <2>2
<1>12. TypeOK'
  <2>1. ThreadCount' \in 0 .. MaxThreads
    BY <1>1, <1>2 DEF new
  <2>2. crashed' \in BOOLEAN /\ unstuck' \subseteq Queues
    BY <1>1 DEF IndInv, TypeOK
  <2> QED
    BY <1>11, <2>1, <2>2, TypeFromCore DEF TypeOK
<1>13. Threads' \subseteq Threads \cup {new}
  BY <1>1
<1>14. \A l \in Labels : ToSet(Normal'[l]) \subseteq ToSet(lists[l])
  <2>1. CASE Prunes
    BY <1>1, <1>5, <2>1, Removed DEF Without
  <2>2. CASE ~Prunes
    BY <1>1, <2>2
  <2> QED
    BY <2>1, <2>2
<1>15. QueuesOut'
  <2>1. ASSUME NEW q \in (Queues \cap Threads') \ unstuck' PROVE q \notin ToSet(Normal'[All])
    <3>1. q \in Threads /\ q \notin unstuck /\ q # new
      BY <1>1, <1>3, <1>13
    <3>2. q \notin ToSet(Normal[All])
      BY <3>1 DEF IndInv, QueuesOut
    <3>3. q \notin ToSet(lists[All])
      BY <1>5, <3>1, <3>2, AllIsLabel
    <3> QED
      BY <1>14, <3>3, AllIsLabel
  <2> QED
    BY <2>1 DEF QueuesOut
<1>16. Fresh'
  <2>1. NumQueues <= ThreadCount'
    BY <1>1, <1>2 DEF new
  <2>2. ASSUME NEW t \in Ids, t >= ThreadCount' PROVE t \notin Threads' /\ StickyTags'[t] = <<>>
    <3>1. t >= ThreadCount /\ t # new
      BY <1>1, <1>2, <2>2 DEF new, Ids
    <3> QED
      BY <1>1, <1>13, <3>1 DEF IndInv, Fresh
  <2> QED
    BY <2>1, <2>2 DEF Fresh
<1>17. ThreadsBounded'
  <2>1. IsFiniteSet(Threads) /\ Cardinality(Threads) \in Nat /\ Cardinality(Threads) <= Limit
    <3>1. Threads \subseteq 0 .. MaxThreads
      BY <1>2 DEF Ids
    <3> QED
      BY <1>2, <3>1, FewIds, FS_CardinalityType DEF IndInv, ThreadsBounded
  <2>2. IsFiniteSet(Threads \cup {new}) /\ Cardinality(Threads \cup {new}) = Cardinality(Threads) + 1
    BY <1>3, <2>1, FS_AddElement
  <2>3. CASE Prunes
    <3>1. Cardinality((Threads \cup {new}) \ {oldest}) = Cardinality(Threads \cup {new}) - 1
      BY <1>9, <2>2, FS_RemoveElement
    <3>2. Threads' = (Threads \cup {new}) \ {oldest}
      BY <1>1, <2>3
    <3>3. Cardinality(Threads') <= Limit
      BY <1>2, <2>1, <2>2, <3>1, <3>2
    <3> QED
      BY <3>3 DEF ThreadsBounded
  <2>4. CASE ~Prunes
    <3>1. new + 1 <= Limit
      BY <1>2, <2>4 DEF Prunes, new
    <3>2. Threads' \subseteq 0 .. new
      <4>1. ASSUME NEW t \in Threads PROVE t \in 0 .. new
        <5>1. t \in Ids /\ ~(t >= ThreadCount)
          BY <1>2 DEF IndInv, Fresh
        <5> QED
          BY <1>2, <5>1 DEF new, Ids
      <4> QED
        BY <1>2, <1>13, <4>1
    <3>3. IsFiniteSet(Threads') /\ Cardinality(Threads') <= new + 1
      BY <1>2, <3>2, FewIds
    <3>4. Cardinality(Threads') \in Nat
      BY <3>3, FS_CardinalityType
    <3> QED
      BY <1>2, <3>1, <3>3, <3>4 DEF ThreadsBounded
  <2> QED
    BY <2>3, <2>4
<1> QED
  BY <1>11, <1>12, <1>15, <1>16, <1>17 DEF IndInv

LEMMA StickyThreadInv ==
  ASSUME IndInv, NEW t \in Threads, NEW wanted, StickyThread(t, wanted)
  PROVE  IndInv'
<1> DEFINE up == MoveLabels(Tags[t], wanted)
           stuck == StickyTags[t] \o up.moved
           down == MoveLabels(stuck, Labels \ wanted)
<1>1. /\ IF up.ok /\ down.ok
         THEN /\ Tags' = [Tags EXCEPT ![t] = Left(up) \o down.moved]
              /\ StickyTags' = [StickyTags EXCEPT ![t] = Left(down)]
              /\ Normal' = InLists(InLists(Normal, up.seen, t, RemoveThread), down.seen, t, AddThread)
              /\ Sticky' = InLists(InLists(Sticky, up.seen, t, AddThread), down.seen, t, RemoveThread)
              /\ unstuck' = unstuck \cup {q \in {t} \cap Queues : All \in down.seen}
              /\ UNCHANGED crashed
         ELSE crashed' = TRUE /\ UNCHANGED <<Tags, StickyTags, Normal, Sticky, unstuck>>
      /\ UNCHANGED <<Threads, ThreadCount>>
  BY DEF StickyThread
<1>2. /\ Core(Threads, Tags, StickyTags, Normal, Sticky) /\ Sane(Normal) /\ t \in Ids
      /\ up = MoveLabels(Tags[t], wanted)
      /\ down = MoveLabels(StickyTags[t] \o up.moved, Labels \ wanted)
  BY DEF IndInv, Core
<1> HIDE DEF up, stuck, down
<1>3. Core(Threads, [Tags EXCEPT ![t] = Left(up) \o down.moved],
           [StickyTags EXCEPT ![t] = Left(down)],
           InLists(InLists(Normal, up.seen, t, RemoveThread), down.seen, t, AddThread),
           InLists(InLists(Sticky, up.seen, t, AddThread), down.seen, t, RemoveThread))
  BY <1>2, CoreSticky
<1>4. Core(Threads', Tags', StickyTags', Normal', Sticky')
  <2>1. CASE up.ok /\ down.ok
    BY <1>1, <1>3, <2>1
  <2>2. CASE ~(up.ok /\ down.ok)
    BY <1>1, <1>2, <2>2
  <2> QED
    BY <2>1, <2>2
<1>5. TypeOK'
  <2>1. ThreadCount' \in 0 .. MaxThreads
    BY <1>1 DEF IndInv, TypeOK
  <2>2. crashed' \in BOOLEAN
    BY <1>1 DEF IndInv, TypeOK
  <2>3. unstuck' \subseteq Queues
    BY <1>1 DEF IndInv, TypeOK
  <2> QED
    BY <1>4, <2>1, <2>2, <2>3, TypeFromCore DEF TypeOK
<1>6. Fresh'
  <2>1. ASSUME NEW u \in Ids, u >= ThreadCount PROVE StickyTags'[u] = <<>>
    <3>1. u # t /\ StickyTags[u] = <<>>
      BY <2>1 DEF IndInv, Fresh
    <3>2. StickyTags \in [Ids -> Seq(Labels)]
      BY DEF IndInv, TypeOK
    <3> QED
      BY <1>1, <3>1, <3>2
  <2> QED
    BY <1>1, <2>1 DEF IndInv, Fresh
<1>7. ThreadsBounded'
  BY <1>1 DEF IndInv, ThreadsBounded
<1>8. QueuesOut'
  <2>1. CASE up.ok /\ down.ok
    <3> DEFINE n1 == InLists(Normal, up.seen, t, RemoveThread)
    <3>1. Sane(n1) /\ ToSet(n1[All]) \subseteq ToSet(Normal[All])
      BY <1>2, Removed, AllIsLabel
    <3> HIDE DEF n1
    <3>2. ToSet(InLists(n1, down.seen, t, AddThread)[All])
            = ToSet(n1[All]) \cup (IF All \in down.seen THEN {t} ELSE {})
      BY <1>2, <3>1, Added, AllIsLabel
    <3>3. ToSet(Normal'[All]) \subseteq ToSet(Normal[All]) \cup (IF All \in down.seen THEN {t} ELSE {})
      BY <1>1, <2>1, <3>1, <3>2 DEF n1
    <3>4. ASSUME NEW q \in (Queues \cap Threads') \ unstuck' PROVE q \notin ToSet(Normal'[All])
      <4>1. q \in (Queues \cap Threads) \ unstuck /\ ~(q = t /\ All \in down.seen)
        BY <1>1, <2>1
      <4>2. q \notin ToSet(Normal[All])
        BY <4>1 DEF IndInv, QueuesOut
      <4> QED
        BY <3>3, <4>1, <4>2
    <3> QED
      BY <3>4 DEF QueuesOut
  <2>2. CASE ~(up.ok /\ down.ok)
    BY <1>1, <2>2 DEF IndInv, QueuesOut
  <2> QED
    BY <2>1, <2>2
<1> QED
  BY <1>4, <1>5, <1>6, <1>7, <1>8 DEF IndInv

LEMMA NextInv ==
  ASSUME IndInv, [Next]_vars
  PROVE  IndInv'
<1>1. CASE \E ts \in UserTags, staff \in BOOLEAN : CreateThread(ts, staff)
  BY <1>1, CreateThreadInv
<1>2. CASE \E t \in Threads : AddPost(t)
  BY <1>2, AddPostInv
<1>3. CASE \E t \in Threads : DeleteThread(t)
  BY <1>3, DeleteThreadInv
<1>4. CASE \E t \in Threads : \E wanted \in SUBSET ToSet(Tags[t] \o StickyTags[t]) :
             StickyThread(t, wanted)
  BY <1>4, StickyThreadInv
<1>5. CASE UNCHANGED vars
  BY <1>5 DEF vars, IndInv, TypeOK, Fresh, ThreadsBounded, QueuesOut, Core, Sane
<1> QED
  BY <1>1, <1>2, <1>3, <1>4, <1>5 DEF Next

LEMMA InvAlways == Spec => []IndInv
BY InitInv, NextInv, PTL DEF Spec

-----------------------------------------------------------------------------
(* The properties                                                          *)

\* The state of the hive has its types: hive.go 20-32, tags.go 18-50.
THEOREM HiveTypeCorrect == Spec => []TypeOK
<1>1. IndInv => TypeOK
  BY DEF IndInv
<1> QED
  BY <1>1, InvAlways, PTL

LEMMA ListedFromCore ==
  ASSUME IndInv, NEW t \in Threads, NEW l \in Labels, ~Repeats(t)
  PROVE  ListedUnder(t, l)
<1>1. /\ t \in Ids /\ IsInjective(Tags[t] \o StickyTags[t])
      /\ Normal[l] \in Seq(Ids) /\ Sticky[l] \in Seq(Ids)
      /\ Tags[t] \in Seq(Labels) /\ StickyTags[t] \in Seq(Labels)
  BY DEF IndInv, TypeOK, Repeats
<1>2. /\ Contains(Normal[l], t) <=> t \in ToSet(Normal[l])
      /\ Contains(Sticky[l], t) <=> t \in ToSet(Sticky[l])
      /\ Contains(Tags[t], l) <=> l \in ToSet(Tags[t])
      /\ Contains(StickyTags[t], l) <=> l \in ToSet(StickyTags[t])
  BY <1>1, ContainsIsIn
<1>3. /\ t \in ToSet(Normal[l]) => l \in ToSet(Tags[t])
      /\ t \in ToSet(Sticky[l]) => l \in ToSet(StickyTags[t])
      /\ l \in ToSet(Tags[t]) /\ ~(t \in Queues /\ l = All) => t \in ToSet(Normal[l])
      /\ l \in ToSet(StickyTags[t]) => t \in ToSet(Sticky[l])
  BY <1>1 DEF IndInv, Core
<1> QED
  BY <1>2, <1>3 DEF ListedUnder

\* The labels of the threads and the lists of the tags agree, whatever was
\* created, bumped, stuck, unstuck, pruned and deleted: hive.go 311-472,
\* tags.go 320-413.
THEOREM IndexAlwaysAgrees == Spec => []IndexAgrees
<1>1. ASSUME IndInv PROVE IndexAgrees
  <2>1. \A t \in Threads, l \in Labels : ~Repeats(t) => ListedUnder(t, l)
    BY <1>1, ListedFromCore
  <2>2. ASSUME NEW l \in Labels
        PROVE  /\ IsInjective(Normal[l]) /\ IsInjective(Sticky[l])
               /\ ToSet(Normal[l]) \cup ToSet(Sticky[l]) \subseteq Threads
    BY <1>1 DEF IndInv, Core, Sane
  <2> QED
    BY <2>1, <2>2 DEF IndexAgrees
<1> QED
  BY <1>1, InvAlways, PTL

\* There are never more threads than the limit, because pruneThreads always
\* finds a live one to delete: hive.go 474-489.
THEOREM BoardIsBounded == Spec => []ThreadsBounded
<1>1. IndInv => ThreadsBounded
  BY DEF IndInv
<1> QED
  BY <1>1, InvAlways, PTL

\* A report queue is never where pruneThreads looks for the thread to delete,
\* unless it was unstuck from "!!_all" itself: hive.go 55-72, tags.go 410-413.
THEOREM QueuesStayOut == Spec => []QueuesNotPruned
<1>1. ASSUME IndInv PROVE QueuesNotPruned
  <2>1. Normal[All] \in Seq(Ids)
    BY <1>1, AllIsLabel DEF IndInv, TypeOK
  <2>2. \A q : Contains(Normal[All], q) <=> q \in ToSet(Normal[All])
    BY <2>1, ContainsIsIn
  <2> QED
    BY <1>1, <2>2 DEF IndInv, QueuesOut, QueuesNotPruned
<1> QED
  BY <1>1, InvAlways, PTL


LEMMA StickyKeepsLabels ==
  ASSUME IndInv, NEW t \in Threads, NEW wanted, StickyThread(t, wanted), NEW u \in Threads
  PROVE  ToBag(Tags'[u] \o StickyTags'[u]) = ToBag(Tags[u] \o StickyTags[u])
<1> DEFINE up == MoveLabels(Tags[t], wanted)
           stuck == StickyTags[t] \o up.moved
           down == MoveLabels(stuck, Labels \ wanted)
<1>1. \/ /\ Tags' = [Tags EXCEPT ![t] = Left(up) \o down.moved]
         /\ StickyTags' = [StickyTags EXCEPT ![t] = Left(down)]
      \/ UNCHANGED <<Tags, StickyTags>>
  BY DEF StickyThread
<1>2. /\ up = MoveLabels(Tags[t], wanted)
      /\ down = MoveLabels(StickyTags[t] \o up.moved, Labels \ wanted)
  OBVIOUS
<1> HIDE DEF up, stuck, down
<1>3. /\ Tags \in [Ids -> Seq(Labels)] /\ StickyTags \in [Ids -> Seq(Labels)]
      /\ t \in Ids /\ u \in Ids
  BY DEF IndInv, TypeOK
<1>4. CASE /\ Tags' = [Tags EXCEPT ![t] = Left(up) \o down.moved]
           /\ StickyTags' = [StickyTags EXCEPT ![t] = Left(down)]
  <2>1. CASE u = t
    <3>1. Tags[t] \in Seq(Labels) /\ StickyTags[t] \in Seq(Labels)
      BY <1>3
    <3>2. Swapped(Labels, Tags[t], StickyTags[t], up, down)
      BY <1>2, <3>1, BothLoops
    <3>3. Tags'[t] = Left(up) \o down.moved /\ StickyTags'[t] = Left(down)
      BY <1>3, <1>4
    <3>4. /\ Left(up) \in Seq(Labels) /\ down.moved \in Seq(Labels) /\ Left(down) \in Seq(Labels)
          /\ \A x : Count((Left(up) \o down.moved) \o Left(down), x) = Count(Tags[t] \o StickyTags[t], x)
      BY <3>2 DEF Swapped
    <3>5. (Left(up) \o down.moved) \o Left(down) \in Seq(Labels) /\ Tags[t] \o StickyTags[t] \in Seq(Labels)
      BY <3>1, <3>4, ConcatSet
    <3> DEFINE after == (Left(up) \o down.moved) \o Left(down)
               before == Tags[t] \o StickyTags[t]
    <3>6. /\ after \in Seq(Labels) /\ before \in Seq(Labels)
          /\ \A x : Count(after, x) = Count(before, x)
      BY <3>4, <3>5
    <3>7. Tags'[t] \o StickyTags'[t] = after
      BY <3>3
    <3> HIDE DEF after
    <3>8. ToBag(after) = ToBag(before)
      <4> HIDE DEF before
      <4> QED
        BY <3>6, BagOfCounts
    <3> QED
      BY <2>1, <3>7, <3>8
  <2>2. CASE u # t
    <3>1. Tags'[u] = Tags[u] /\ StickyTags'[u] = StickyTags[u]
      BY <1>3, <1>4, <2>2
    <3> QED
      BY <3>1
  <2> QED
    BY <2>1, <2>2
<1>5. CASE UNCHANGED <<Tags, StickyTags>>
  BY <1>5
<1> QED
  BY <1>1, <1>4, <1>5

\* No step loses or doubles a label of a thread, StickyThread's two loops
\* over the slices they remove from among them: hive.go 338-390.
THEOREM LabelsAreKept == Spec => LabelsKept
<1> DEFINE Same == \A t \in Threads \cap Threads' :
                     ToBag(Tags'[t] \o StickyTags'[t]) = ToBag(Tags[t] \o StickyTags[t])
<1>1. ASSUME IndInv, [Next]_vars PROVE [Same]_vars
  <2>1. ASSUME NEW ts \in UserTags, NEW staff, CreateThread(ts, staff) PROVE Same
    <3>1. ASSUME NEW t \in Threads PROVE Tags'[t] = Tags[t] /\ StickyTags'[t] = StickyTags[t]
      <4>1. ThreadCount \in Nat /\ ThreadCount < MaxThreads /\ MaxThreads \in Nat
        BY <1>1, <2>1, HiveAssumption DEF CreateThread, IndInv, TypeOK
      <4>2. t \in Ids /\ t # ThreadCount
        BY <1>1, <4>1 DEF IndInv, TypeOK, Fresh, Ids
      <4>3. Tags' = [Tags EXCEPT ![ThreadCount] = Append(Cleaned(ts), All)] /\ StickyTags' = StickyTags
        BY <2>1 DEF CreateThread
      <4> QED
        BY <1>1, <4>2, <4>3 DEF IndInv, TypeOK
    <3> QED
      BY <3>1
  <2>2. ASSUME NEW t \in Threads, AddPost(t) \/ DeleteThread(t) PROVE Same
    BY <2>2 DEF AddPost, DeleteThread
  <2>3. ASSUME NEW t \in Threads, NEW wanted, StickyThread(t, wanted) PROVE Same
    BY <1>1, <2>3, StickyKeepsLabels
  <2> HIDE DEF Same
  <2> QED
    BY <1>1, <2>1, <2>2, <2>3 DEF Next
<1>2. [][IndInv /\ [Next]_vars]_vars => [][Same]_vars
  <2>1. [IndInv /\ [Next]_vars]_vars => [Same]_vars
    BY <1>1
  <2> QED
    BY <2>1, PTL
<1> QED
  BY <1>2, InvAlways, PTL DEF Spec, LabelsKept

LEMMA DistinctLabelsMove ==
  ASSUME IndInv, NEW t \in Threads, NEW wanted, StickyThread(t, wanted), crashed'
  PROVE  Repeats(t)
<1> DEFINE up == MoveLabels(Tags[t], wanted)
           down == MoveLabels(StickyTags[t] \o up.moved, Labels \ wanted)
<1>1. ~(up.ok /\ down.ok)
  BY DEF StickyThread
<1>2. Tags[t] \in Seq(Labels) /\ StickyTags[t] \in Seq(Labels)
  BY DEF IndInv, TypeOK
<1>3. /\ up = MoveLabels(Tags[t], wanted)
      /\ down = MoveLabels(StickyTags[t] \o up.moved, Labels \ wanted)
  OBVIOUS
<1> HIDE DEF up, down
<1>4. Swapped(Labels, Tags[t], StickyTags[t], up, down)
  BY <1>2, <1>3, BothLoops
<1> QED
  BY <1>1, <1>4 DEF Swapped, Repeats

\* StickyThread panics on no thread whose labels are all different, however
\* many they are and whatever is asked for: hive.go 345-389.
THEOREM DistinctLabelsNeverPanic == Spec => OnlyRepeatsPanic
<1> DEFINE Safe == crashed' => \A t \in Threads, wanted \in SUBSET Labels :
                                 StickyThread(t, wanted) => Repeats(t)
<1>1. ASSUME IndInv PROVE [Safe]_vars
  BY <1>1, DistinctLabelsMove
<1>2. [][IndInv]_vars => [][Safe]_vars
  <2>1. [IndInv]_vars => [Safe]_vars
    BY <1>1
  <2> QED
    BY <2>1, PTL
<1> QED
  BY <1>2, InvAlways, PTL DEF OnlyRepeatsPanic

-----------------------------------------------------------------------------
(* SelectSeq                                                               *)

\* The round of SelectSeq.
KeepOne(out, x, T) == IF x \in T THEN Append(out, x) ELSE out

LEMMA KeptLoop ==
  ASSUME NEW S, NEW s \in Seq(S), NEW T
  PROVE  \E f : /\ f[0] = <<>> /\ Kept(s, T) = f[Len(s)]
                /\ \A i \in 1 .. Len(s) : f[i] = KeepOne(f[i - 1], s[i], T)
<1> DEFINE n == Len(s)
           round == [i \in 1 .. n |-> [out \in Seq(S) |-> KeepOne(out, s[i], T)]]
           Q(g) == g = [i \in 0 .. n |-> IF i = 0 THEN <<>>
                                         ELSE IF s[i] \in T THEN Append(g[i - 1], s[i])
                                         ELSE g[i - 1]]
           f == CHOOSE g : Q(g)
<1>1. n \in Nat /\ <<>> \in Seq(S) /\ round \in [1 .. n -> [Seq(S) -> Seq(S)]]
  <2>1. \A i \in 1 .. n, out \in Seq(S) : KeepOne(out, s[i], T) \in Seq(S)
    BY DEF KeepOne
  <2> QED
    BY <2>1
<1>2. \E g : Q(g)
  <2>1. PICK g : Loop(g, n, Seq(S), <<>>, round)
    <3> HIDE DEF round, n
    <3> QED
      BY <1>1, LoopExists
  <2>2. ASSUME NEW i \in 1 .. n PROVE g[i] = KeepOne(g[i - 1], s[i], T)
    <3>1. g[i - 1] \in Seq(S) /\ g[i] = round[i][g[i - 1]]
      <4> HIDE DEF round, n
      <4> QED
        BY <2>1, <1>1 DEF Loop
    <3> QED
      BY <3>1
  <2>3. g[0] = <<>> /\ g = [i \in 0 .. n |-> g[i]]
    BY <2>1 DEF Loop
  <2>4. ASSUME NEW i \in 0 .. n
        PROVE  g[i] = IF i = 0 THEN <<>> ELSE IF s[i] \in T THEN Append(g[i - 1], s[i]) ELSE g[i - 1]
    <3>1. CASE i = 0
      BY <2>3, <3>1
    <3>2. CASE i \in 1 .. n
      BY <2>2, <3>2 DEF KeepOne
    <3> QED
      BY <1>1, <3>1, <3>2
  <2>5. Q(g)
    BY <2>3, <2>4, Zenon
  <2> QED
    BY <2>5
<1>3. Q(f)
  <2> HIDE DEF Q
  <2> QED
    BY <1>2
<1>4. Kept(s, T) = f[n]
  BY DEF Kept
<1>5. f[0] = <<>> /\ \A i \in 1 .. n : f[i] = KeepOne(f[i - 1], s[i], T)
  <2> HIDE DEF f
  <2>1. f[0] = <<>>
    BY <1>1, <1>3
  <2>2. ASSUME NEW i \in 1 .. n PROVE f[i] = KeepOne(f[i - 1], s[i], T)
    <3>1. i \in 0 .. n /\ i # 0
      BY <1>1
    <3>2. f[i] = IF i = 0 THEN <<>> ELSE IF s[i] \in T THEN Append(f[i - 1], s[i]) ELSE f[i - 1]
      <4> HIDE DEF n
      <4> QED
        BY <1>3, <3>1, Zenon
    <3> QED
      BY <3>1, <3>2, Zenon DEF KeepOne
  <2> QED
    BY <2>1, <2>2
<1> HIDE DEF f
<1> QED
  BY <1>4, <1>5

\* What is in T is kept, in its order.
LEMMA KeptIs ==
  ASSUME NEW S, NEW s \in Seq(S), NEW T
  PROVE  /\ Kept(s, T) \in Seq(S) /\ ToSet(Kept(s, T)) = ToSet(s) \cap T
         /\ Part(Kept(s, T), s, Len(s))
<1>1. PICK f : /\ f[0] = <<>> /\ Kept(s, T) = f[Len(s)]
               /\ \A i \in 1 .. Len(s) : f[i] = KeepOne(f[i - 1], s[i], T)
  BY KeptLoop
<1> DEFINE P(m) == f[m] \in Seq(S) /\ ToSet(f[m]) = Upto(s, m) \cap T /\ Part(f[m], s, m)
           M == {m \in Nat : m <= Len(s) => P(m)}
<1>2. 0 \in M
  <2>1. ToSet(<<>>) = {} /\ <<>> \in Seq(S)
    BY DEF ToSet
  <2> QED
    BY <1>1, <2>1, UptoNext, NoPart
<1>3. ASSUME NEW m \in Nat, m \in M PROVE m + 1 \in M
  <2> SUFFICES ASSUME m + 1 <= Len(s) PROVE P(m + 1)
    OBVIOUS
  <2>1. P(m) /\ s[m + 1] \in S
    BY <1>3
  <2>2. f[m + 1] = KeepOne(f[m], s[m + 1], T)
    BY <1>1
  <2>3. Upto(s, m + 1) = Upto(s, m) \cup {s[m + 1]}
    BY UptoNext
  <2> DEFINE k == f[m]
             x == s[m + 1]
  <2> HIDE DEF k
  <2>4. k \in Seq(S) /\ ToSet(k) = Upto(s, m) \cap T /\ Part(k, s, m)
    BY <2>1 DEF k
  <2>5. CASE x \in T
    <3>1. f[m + 1] = Append(k, x)
      BY <2>2, <2>5 DEF KeepOne, k
    <3>2. Append(k, x) \in Seq(S) /\ ToSet(Append(k, x)) = ToSet(k) \cup {x}
      BY <2>1, <2>4, AppendSet
    <3>3. Part(Append(k, x), s, m + 1)
      BY <2>1, <2>4, PartGrows
    <3> QED
      BY <3>1, <3>2, <3>3, <2>3, <2>4, <2>5
  <2>6. CASE x \notin T
    <3>1. f[m + 1] = k
      BY <2>2, <2>6 DEF KeepOne, k
    <3>2. Part(k, s, m + 1)
      BY <2>4, PartStays
    <3> QED
      BY <3>1, <3>2, <2>3, <2>4, <2>6
  <2> QED
    BY <2>5, <2>6
<1>4. P(Len(s))
  <2>1. Len(s) \in Nat
    OBVIOUS
  <2>2. Len(s) \in M
    <3> HIDE DEF M
    <3> QED
      BY <1>2, <1>3, <2>1, NatSetInduction
  <2> HIDE DEF P
  <2> QED
    BY <2>1, <2>2
<1> QED
  BY <1>1, <1>4, UptoAll

\* A part of a sequence has any order that the sequence has.
LEMMA PartOrdered ==
  ASSUME NEW S, NEW k \in Seq(S), NEW s \in Seq(S), Part(k, s, Len(s)), InOrder(s)
  PROVE  InOrder(k)
<1>1. PICK m \in [1 .. Len(k) -> 1 .. Len(s)] :
        /\ \A i, j \in 1 .. Len(k) : i < j => m[i] < m[j]
        /\ \A i \in 1 .. Len(k) : k[i] = s[m[i]]
  BY DEF Part
<1> SUFFICES ASSUME NEW i \in 1 .. Len(k), NEW j \in 1 .. Len(k), i < j PROVE ~Newer(k[j], k[i])
  BY DEF InOrder
<1>2. m[i] \in DOMAIN s /\ m[j] \in DOMAIN s /\ m[i] < m[j]
  BY <1>1
<1>3. ~Newer(s[m[j]], s[m[i]])
  BY <1>2 DEF InOrder
<1> QED
  BY <1>1, <1>3

-----------------------------------------------------------------------------
(* Pages                                                                   *)

LEMMA QuotientIs ==
  ASSUME NEW a \in Nat, NEW b \in Nat \ {0}
  PROVE  \E q \in Nat, r \in 0 .. b - 1 : a \div b = q /\ a = q * b + r
OBVIOUS

\* n results on pages that begin every k: up to the last page there are more
\* places than n, because page p shows (p + 1) * k of them.
LEMMA EveryPlaceShown ==
  ASSUME NEW n \in Nat, NEW k \in Nat \ {0}, NEW i \in 1 .. n
  PROVE  \E p \in 0 .. n \div (k + 1) : p * k + 1 <= i /\ i <= p * k + (p + 1) * k
<1>1. PICK last \in Nat, r \in 0 .. k : n \div (k + 1) = last /\ n = last * (k + 1) + r
  <2>1. k + 1 \in Nat \ {0} /\ 0 .. (k + 1) - 1 = 0 .. k
    OBVIOUS
  <2> QED
    BY <2>1, QuotientIs
<1>2. PICK q \in Nat, u \in 0 .. k - 1 : i - 1 = q * k + u
  <2>1. i - 1 \in Nat
    OBVIOUS
  <2> QED
    BY <2>1, QuotientIs
<1>3. CASE q <= last
  <2>1. q * k + 1 <= i
    BY <1>2
  <2>2. i <= q * k + k
    BY <1>2
  <2>3. (q + 1) * k = q * k + k /\ q * k \in Nat
    OBVIOUS
  <2>4. q \in 0 .. n \div (k + 1)
    BY <1>1, <1>3
  <2>5. i <= q * k + (q + 1) * k
    BY <2>2, <2>3
  <2> QED
    BY <2>1, <2>4, <2>5
<1>4. CASE last < q
  <2>1. last * k + 1 <= i
    <3>1. last * k <= q * k
      BY <1>4
    <3> QED
      BY <1>2, <3>1
  <2>2. last <= last * k
    OBVIOUS
  <2>3. last * (k + 1) = last * k + last /\ (last + 1) * k = last * k + k /\ last * k \in Nat
    OBVIOUS
  <2>4. i <= last * k + (last + 1) * k
    BY <1>1, <2>2, <2>3
  <2>5. last \in 0 .. n \div (k + 1)
    BY <1>1
  <2> QED
    BY <2>1, <2>4, <2>5
<1> QED
  BY <1>3, <1>4

\* From a page one can turn to the next one, up to the last.
LEMMA NextPageLinked ==
  ASSUME NEW count \in Nat, NEW p \in Nat, p + 1 <= count \div (ThreadsPerPage + 1)
  PROVE  p + 1 \in Links(p, count)
<1> DEFINE pages == count \div (ThreadsPerPage + 1)
           half  == PageRange \div 2
           start == IF p < half THEN 0 ELSE p - half
           end   == IF start + PageRange > pages THEN pages ELSE start + PageRange
<1>1. ThreadsPerPage \in Nat \ {0} /\ PageRange \in Nat \ {0}
  BY CatalogueAssumption
<1>2. pages \in Nat
  <2>1. ThreadsPerPage + 1 \in Nat \ {0}
    BY <1>1
  <2> QED
    BY <2>1, QuotientIs
<1>3. half \in Nat /\ half + 1 <= PageRange + 1 /\ half < PageRange
  BY <1>1
<1>4. start \in Nat /\ start <= p /\ (p + 1) - start <= start + half + 1
  BY <1>3
<1>5. (p + 1) - start <= end /\ (p + 1) - start \in Nat /\ end \in Nat
  <2>1. p + 1 <= pages
    OBVIOUS
  <2> HIDE DEF pages, half
  <2> QED
    BY <1>1, <1>2, <1>3, <1>4, <2>1
<1>6. Links(p, count) = {start + i : i \in 0 .. end}
  BY DEF Links
<1>7. p + 1 = start + ((p + 1) - start) /\ (p + 1) - start \in 0 .. end
  BY <1>4, <1>5
<1> HIDE DEF start, end
<1> QED
  BY <1>6, <1>7

\* Reached: the pages after as many turns.
LEMMA ReachedLoop ==
  ASSUME NEW count \in Nat
  PROVE  \E f : /\ f[0] = {0} /\ Reached(count) = f[count]
                /\ \A i \in 1 .. count : f[i] = Turned(f[i - 1], count)
<1> DEFINE S == SUBSET (0 .. count)
           round == [i \in 1 .. count |-> [pages \in S |-> Turned(pages, count)]]
           Q(g) == g = [i \in 0 .. count |-> IF i = 0 THEN {0} ELSE Turned(g[i - 1], count)]
           f == CHOOSE g : Q(g)
<1>1. {0} \in S /\ round \in [1 .. count -> [S -> S]]
  BY DEF Turned
<1>2. \E g : Q(g)
  <2>1. PICK g : Loop(g, count, S, {0}, round)
    <3> HIDE DEF round, S
    <3> QED
      BY <1>1, LoopExists
  <2>2. ASSUME NEW i \in 1 .. count PROVE g[i] = Turned(g[i - 1], count)
    <3>1. g[i - 1] \in S /\ g[i] = round[i][g[i - 1]]
      <4> HIDE DEF round, S
      <4> QED
        BY <2>1, <1>1 DEF Loop
    <3> QED
      BY <3>1
  <2>3. g[0] = {0} /\ g = [i \in 0 .. count |-> g[i]]
    BY <2>1 DEF Loop
  <2>4. ASSUME NEW i \in 0 .. count
        PROVE  g[i] = IF i = 0 THEN {0} ELSE Turned(g[i - 1], count)
    <3>1. CASE i = 0
      BY <2>3, <3>1
    <3>2. CASE i \in 1 .. count
      BY <2>2, <3>2
    <3> QED
      BY <3>1, <3>2
  <2>5. Q(g)
    BY <2>3, <2>4, Zenon
  <2> QED
    BY <2>5
<1>3. Q(f)
  <2> HIDE DEF Q
  <2> QED
    BY <1>2
<1>4. Reached(count) = f[count]
  BY DEF Reached
<1>5. f[0] = {0} /\ \A i \in 1 .. count : f[i] = Turned(f[i - 1], count)
  <2> HIDE DEF f
  <2>1. \A i \in 0 .. count : f[i] = IF i = 0 THEN {0} ELSE Turned(f[i - 1], count)
    BY <1>3, Zenon
  <2> QED
    BY <2>1
<1> HIDE DEF f
<1> QED
  BY <1>4, <1>5

\* After n turns one has come to page n.
LEMMA PagesReached ==
  ASSUME NEW count \in Nat, NEW p \in 0 .. count \div (ThreadsPerPage + 1)
  PROVE  p \in Reached(count)
<1> DEFINE last == count \div (ThreadsPerPage + 1)
<1>1. PICK f : /\ f[0] = {0} /\ Reached(count) = f[count]
               /\ \A i \in 1 .. count : f[i] = Turned(f[i - 1], count)
  BY ReachedLoop
<1>2. last \in Nat /\ last <= count
  <2>1. ThreadsPerPage + 1 \in Nat \ {0} /\ ThreadsPerPage \in Nat \ {0}
    BY CatalogueAssumption
  <2>2. PICK q \in Nat, r \in Nat : last = q /\ count = q * (ThreadsPerPage + 1) + r
    BY <2>1, QuotientIs
  <2>3. q * (ThreadsPerPage + 1) = q * ThreadsPerPage + q /\ q * ThreadsPerPage \in Nat
    BY <2>1
  <2> QED
    BY <2>2, <2>3
<1> DEFINE M == {m \in Nat : m <= count => \A n \in 0 .. m : n <= last => n \in f[m]}
<1> HIDE DEF last
<1>3. 0 \in M
  BY <1>1
<1>4. ASSUME NEW m \in Nat, m \in M PROVE m + 1 \in M
  <2> SUFFICES ASSUME m + 1 <= count, NEW n \in 0 .. m + 1, n <= last PROVE n \in f[m + 1]
    OBVIOUS
  <2>1. f[m + 1] = Turned(f[m], count)
    BY <1>1
  <2>2. n \in 0 .. count
    BY <1>2
  <2>3. CASE n <= m
    <3>1. n \in f[m]
      BY <1>4, <2>3
    <3> QED
      BY <3>1, <2>1, <2>2 DEF Turned
  <2>4. CASE n = m + 1
    <3>1. m \in f[m]
      BY <1>4, <1>2, <2>4
    <3>2. m + 1 \in Links(m, count)
      BY <2>4, NextPageLinked DEF last
    <3> QED
      BY <3>1, <3>2, <2>1, <2>2, <2>4 DEF Turned
  <2> QED
    BY <2>3, <2>4
<1>5. count \in M
  <2> HIDE DEF M
  <2> QED
    BY <1>3, <1>4, NatSetInduction
<1> QED
  BY <1>1, <1>2, <1>5 DEF last

LEMMA ReachedPages ==
  ASSUME NEW count \in Nat
  PROVE  Reached(count) \subseteq 0 .. count
<1>1. PICK f : /\ f[0] = {0} /\ Reached(count) = f[count]
               /\ \A i \in 1 .. count : f[i] = Turned(f[i - 1], count)
  BY ReachedLoop
<1>2. CASE count = 0
  BY <1>1, <1>2
<1>3. CASE count > 0
  <2>1. count \in 1 .. count
    BY <1>3
  <2> QED
    BY <1>1, <2>1 DEF Turned
<1> QED
  BY <1>2, <1>3

\* The threads of one query.
LEMMA QueryShows ==
  ASSUME NEW found \in Seq(Ids), NEW q, NEW offset \in Nat, NEW perQuery \in Nat,
         offset <= Len(found)
  PROVE  ToSet(Query(found, offset, perQuery, q))
           = {found[i] : i \in {j \in 1 .. Len(found) : offset < j /\ j <= offset + perQuery}}
               \cap Shown(q)
<1> DEFINE last == IF offset + perQuery < Len(found) THEN offset + perQuery ELSE Len(found)
           part == SubSeq(found, offset + 1, last)
           places == {j \in 1 .. Len(found) : offset < j /\ j <= offset + perQuery}
<1>1. last \in Nat /\ offset <= last /\ last <= Len(found)
  OBVIOUS
<1>2. places = offset + 1 .. last
  BY <1>1
<1>3. \A k \in offset + 1 .. last : found[k] \in Ids
  OBVIOUS
<1> HIDE DEF last, places
<1>4. /\ part \in Seq(Ids) /\ Len(part) = last - offset
      /\ \A k \in 1 .. last - offset : part[k] = found[k + offset]
  BY <1>1, <1>3, SubSeqProperties
<1> HIDE DEF part
<1>5. ToSet(part) = {found[i] : i \in places}
  <2>1. ASSUME NEW k \in 1 .. last - offset PROVE part[k] \in {found[i] : i \in places}
    <3>1. k + offset \in places
      BY <1>1, <1>2
    <3> QED
      BY <1>4, <3>1
  <2>2. ASSUME NEW i \in places PROVE found[i] \in ToSet(part)
    <3>1. i - offset \in 1 .. last - offset /\ (i - offset) + offset = i
      BY <1>1, <1>2
    <3>2. i - offset \in DOMAIN part /\ part[i - offset] = found[i]
      BY <3>1, <1>4
    <3> QED
      BY <3>2 DEF ToSet
  <2>3. DOMAIN part = 1 .. last - offset
    BY <1>1, <1>4
  <2> QED
    BY <2>1, <2>2, <2>3 DEF ToSet
<1>6. Query(found, offset, perQuery, q) = Kept(part, Shown(q))
  BY DEF Query, part, last
<1> QED
  BY <1>4, <1>5, <1>6, KeptIs DEF places

\* All pages together show what is shown of the results.
LEMMA PagesShowAll ==
  ASSUME NEW found \in Seq(Ids), NEW q
  PROVE  ToSet(Kept(found, Shown(q)))
           = UNION {ToSet(TagQuery(found, page, q)) : page \in Reached(Len(found))}
<1> DEFINE n == Len(found)
           k == ThreadsPerPage
<1>1. n \in Nat /\ k \in Nat \ {0}
  BY CatalogueAssumption
<1>2. ToSet(Kept(found, Shown(q))) = ToSet(found) \cap Shown(q)
  BY KeptIs
<1>3. ASSUME NEW x \in ToSet(found) \cap Shown(q)
      PROVE  \E page \in Reached(n) : x \in ToSet(TagQuery(found, page, q))
  <2>1. PICK i \in 1 .. n : x = found[i]
    BY DEF ToSet
  <2>2. PICK p \in 0 .. n \div (k + 1) : p * k + 1 <= i /\ i <= p * k + (p + 1) * k
    BY <1>1, EveryPlaceShown
  <2>3. p \in Reached(n)
    BY <1>1, <2>2, PagesReached
  <2> DEFINE from == p * k
             many == (p + 1) * k
  <2>4. from \in Nat /\ many \in Nat
    <3>1. n \div (k + 1) \in Nat /\ p \in Nat
      <4>1. k + 1 \in Nat \ {0}
        BY <1>1
      <4> QED
        BY <1>1, <4>1, QuotientIs
    <3> QED
      BY <1>1, <3>1
  <2>5. from < i /\ i <= from + many
    BY <2>2, <2>4
  <2>6. TagQuery(found, p, q) = Query(found, from, many, q)
    BY DEF TagQuery
  <2> HIDE DEF from, many
  <2>7. from <= Len(found)
    BY <1>1, <2>1, <2>4, <2>5
  <2>8. ToSet(Query(found, from, many, q))
          = {found[j] : j \in {m \in 1 .. Len(found) : from < m /\ m <= from + many}} \cap Shown(q)
    BY <2>4, <2>7, QueryShows
  <2>9. i \in {m \in 1 .. Len(found) : from < m /\ m <= from + many}
    BY <2>5
  <2> QED
    BY <2>1, <2>3, <2>6, <2>8, <2>9
<1>4. ASSUME NEW page \in Reached(n), NEW x \in ToSet(TagQuery(found, page, q))
      PROVE  x \in ToSet(found) \cap Shown(q)
  <2>1. page \in Nat
    BY <1>1, ReachedPages
  <2> DEFINE from == page * k
             many == (page + 1) * k
  <2>2. from \in Nat /\ many \in Nat
    BY <1>1, <2>1
  <2>3. TagQuery(found, page, q) = Query(found, from, many, q)
    BY DEF TagQuery
  <2> HIDE DEF from, many
  <2>4. CASE from <= Len(found)
    <3>1. x \in {found[j] : j \in {m \in 1 .. Len(found) : from < m /\ m <= from + many}} \cap Shown(q)
      BY <1>4, <2>2, <2>3, <2>4, QueryShows
    <3> QED
      BY <3>1 DEF ToSet
  <2>5. CASE Len(found) < from
    <3>1. Query(found, from, many, q) = Kept(SubSeq(found, from + 1, Len(found)), Shown(q))
      BY <2>2, <2>5 DEF Query
    <3>2. SubSeq(found, from + 1, Len(found)) = <<>> /\ <<>> \in Seq(Ids)
      BY <2>2, <2>5
    <3>3. ToSet(Kept(<<>>, Shown(q))) = ToSet(<<>>) \cap Shown(q) /\ ToSet(<<>>) = {}
      <4>1. \A e \in Seq(Ids) : ToSet(Kept(e, Shown(q))) = ToSet(e) \cap Shown(q)
        BY KeptIs
      <4>2. ToSet(<<>>) = {}
        BY DEF ToSet
      <4> QED
        BY <3>2, <4>1, <4>2
    <3> QED
      BY <1>4, <2>3, <3>1, <3>2, <3>3
  <2> QED
    BY <1>1, <2>2, <2>4, <2>5
<1> QED
  BY <1>2, <1>3, <1>4

-----------------------------------------------------------------------------
(* Newer                                                                   *)

\* The place of a thread in Updated, or the one after the last.
Place(t, p) ==
  /\ p \in 1 .. Len(Updated) + 1
  /\ p <= Len(Updated) => Updated[p] = t
  /\ \A i \in 1 .. Len(Updated) : i < p => Updated[i] # t

LEMMA LeastNumber ==
  ASSUME NEW T \in SUBSET Nat, T # {}
  PROVE  \E m \in T : \A n \in T : m <= n
<1>1. PICK m \in T : \A n \in T : ~(<<n, m>> \in OpToRel(<, Nat))
  BY WFMin, NatLessThanWellFounded
<1>2. \A n \in T : ~(n < m)
  BY <1>1 DEF OpToRel
<1> QED
  BY <1>2

LEMMA PlaceExists ==
  ASSUME Updated \in Seq(Ids), NEW t
  PROVE  \E p : Place(t, p)
<1> DEFINE P == {p \in 1 .. Len(Updated) + 1 : p <= Len(Updated) => Updated[p] = t}
<1>1. P \in SUBSET Nat /\ Len(Updated) + 1 \in P /\ Len(Updated) \in Nat
  OBVIOUS
<1>2. PICK p \in P : \A n \in P : p <= n
  <2> HIDE DEF P
  <2> QED
    BY <1>1, LeastNumber
<1>3. \A i \in 1 .. Len(Updated) : i < p => Updated[i] # t
  BY <1>2
<1> QED
  BY <1>2, <1>3 DEF Place

LEMMA PlaceOnce ==
  ASSUME Updated \in Seq(Ids), NEW t, NEW p, NEW r, Place(t, p), Place(t, r)
  PROVE  p = r
BY DEF Place

\* A thread is newer than another whose place is after its own.
LEMMA NewerIsBefore ==
  ASSUME Updated \in Seq(Ids), NEW t, NEW u, NEW p, NEW r, Place(t, p), Place(u, r)
  PROVE  Newer(t, u) <=> p < r
<1> DEFINE n == Len(Updated)
<1>1. n \in Nat /\ DOMAIN Updated = 1 .. n /\ p \in 1 .. n + 1 /\ r \in 1 .. n + 1
  BY DEF Place
<1>2. ASSUME NEW i \in 1 .. n
      PROVE  Contains(SubSeq(Updated, 1, i), u) <=> \E j \in 1 .. i : Updated[j] = u
  <2> DEFINE s == SubSeq(Updated, 1, i)
  <2>1. s \in Seq(Ids) /\ Len(s) = i /\ \A j \in 1 .. i : s[j] = Updated[j]
    BY <1>1
  <2> HIDE DEF s
  <2>2. Contains(s, u) <=> \E j \in 1 .. Len(s) : s[j] = u
    BY <2>1 DEF Contains
  <2> QED
    BY <2>1, <2>2 DEF s
<1>3. ASSUME Newer(t, u) PROVE p < r
  <2>1. PICK i \in 1 .. n : Updated[i] = t /\ ~\E j \in 1 .. i : Updated[j] = u
    BY <1>1, <1>2, <1>3 DEF Newer
  <2>2. p <= i
    BY <1>1, <2>1 DEF Place
  <2>3. i < r
    <3>1. CASE r <= n
      <4>1. Updated[r] = u
        BY <3>1 DEF Place
      <4> QED
        BY <1>1, <2>1, <4>1
    <3>2. CASE r = n + 1
      BY <1>1, <3>2
    <3> QED
      BY <1>1, <3>1, <3>2
  <2> QED
    BY <1>1, <2>2, <2>3
<1>4. ASSUME p < r PROVE Newer(t, u)
  <2>1. p \in 1 .. n /\ Updated[p] = t
    BY <1>1, <1>4 DEF Place
  <2>2. \A j \in 1 .. p : Updated[j] # u
    BY <1>1, <1>4 DEF Place
  <2> QED
    BY <1>1, <1>2, <2>1, <2>2 DEF Newer
<1> QED
  BY <1>3, <1>4

LEMMA NewerIsOrder ==
  ASSUME Updated \in Seq(Ids), NEW t, NEW u, NEW v
  PROVE  /\ Newer(t, u) => ~Newer(u, t)
         /\ ~Newer(u, t) /\ ~Newer(v, u) => ~Newer(v, t)
         /\ Newer(t, u) /\ ~Newer(v, u) => Newer(t, v)
<1>1. PICK p : Place(t, p)
  BY PlaceExists
<1>2. PICK r : Place(u, r)
  BY PlaceExists
<1>3. PICK o : Place(v, o)
  BY PlaceExists
<1>4. /\ Newer(t, u) <=> p < r
      /\ Newer(u, t) <=> r < p
      /\ Newer(v, u) <=> o < r
      /\ Newer(v, t) <=> o < p
      /\ Newer(t, v) <=> p < o
  BY <1>1, <1>2, <1>3, NewerIsBefore
<1>5. p \in Int /\ r \in Int /\ o \in Int
  BY <1>1, <1>2, <1>3 DEF Place
<1> QED
  BY <1>4, <1>5

-----------------------------------------------------------------------------
(* mergeGenerator                                                          *)

Lists == Seq(Seq(Ids))

LEMMA NewestIs ==
  ASSUME Updated \in Seq(Ids), NEW lists \in Lists,
         NEW k \in DOMAIN lists, lists[k] # <<>>
  PROVE  LET i == NewestIndex(lists)
         IN  /\ i \in DOMAIN lists /\ lists[i] # <<>>
             /\ \A j \in DOMAIN lists : lists[j] # <<>> => ~Newer(Head(lists[j]), Head(lists[i]))
<1> DEFINE live == {i \in DOMAIN lists : lists[i] # <<>>}
           h(i) == Head(lists[i])
           Best(i) == \A j \in live : /\ ~Newer(h(j), h(i))
                                      /\ j < i => Newer(h(i), h(j))
           P == {p \in Nat : \E i \in live : Place(h(i), p)}
<1>1. DOMAIN lists \subseteq Nat /\ live \subseteq Nat
  BY DEF Lists
<1>2. \A t, p : Place(t, p) => p \in Nat
  BY DEF Place
<1>3. P # {} /\ P \in SUBSET Nat
  <2>1. PICK p : Place(h(k), p)
    BY PlaceExists
  <2> QED
    BY <2>1, <1>2
<1>4. PICK m \in P : \A p \in P : m <= p
  <2> HIDE DEF P
  <2> QED
    BY <1>3, LeastNumber
<1> DEFINE I == {i \in live : Place(h(i), m)}
<1>5. I # {} /\ I \in SUBSET Nat
  BY <1>1, <1>4
<1>6. PICK i \in I : \A j \in I : i <= j
  <2> HIDE DEF I
  <2> QED
    BY <1>5, LeastNumber
<1>7. ASSUME NEW j \in live PROVE ~Newer(h(j), h(i)) /\ (j < i => Newer(h(i), h(j)))
  <2>1. PICK p : Place(h(j), p)
    BY PlaceExists
  <2>2. p \in P /\ p \in Nat /\ m \in Nat
    BY <1>2, <2>1
  <2>3. m <= p
    BY <1>4, <2>2
  <2>4. Place(h(i), m)
    BY <1>6
  <2> HIDE DEF h, P
  <2>5. (Newer(h(j), h(i)) <=> p < m) /\ (Newer(h(i), h(j)) <=> m < p)
    BY <2>1, <2>4, NewerIsBefore
  <2>6. ASSUME j < i PROVE m # p
    <3>1. j \notin I
      BY <1>1, <1>6, <2>6
    <3> QED
      BY <2>1, <3>1
  <2> QED
    BY <2>2, <2>3, <2>5, <2>6
<1>8. i \in live /\ Best(i)
  BY <1>6, <1>7
<1>9. NewestIndex(lists) = CHOOSE n \in live : Best(n)
  BY DEF NewestIndex
<1>10. NewestIndex(lists) \in live /\ Best(NewestIndex(lists))
  <2> HIDE DEF live, Best
  <2> QED
    BY <1>8, <1>9
<1> QED
  BY <1>10

LEMMA PlacesFinite ==
  ASSUME NEW lists \in Lists
  PROVE  IsFiniteSet(Places(lists))
<1> DEFINE To(m) == UNION {{i} \X (1 .. Len(lists[i])) : i \in 1 .. m}
           M == {m \in Nat : m <= Len(lists) => IsFiniteSet(To(m))}
<1>1. 0 \in M
  <2>1. To(0) = {}
    OBVIOUS
  <2> QED
    BY <2>1, FS_EmptySet
<1>2. ASSUME NEW m \in Nat, m \in M PROVE m + 1 \in M
  <2> SUFFICES ASSUME m + 1 <= Len(lists) PROVE IsFiniteSet(To(m + 1))
    OBVIOUS
  <2> DEFINE n == Len(lists[m + 1])
             new == {m + 1} \X (1 .. n)
             f == [k \in 1 .. n |-> <<m + 1, k>>]
  <2>1. n \in Nat
    BY DEF Lists
  <2>2. f \in Surjection(1 .. n, new)
    BY DEF Surjection
  <2>3. IsFiniteSet(new)
    <3> HIDE DEF new, f, n
    <3> QED
      BY <2>1, <2>2, FS_Interval, FS_Surjection
  <2>4. To(m + 1) = To(m) \cup new
    <3>1. 1 .. m + 1 = (1 .. m) \cup {m + 1}
      OBVIOUS
    <3> QED
      BY <3>1
  <2>5. IsFiniteSet(To(m))
    BY <1>2
  <2>6. IsFiniteSet(To(m) \cup new)
    <3> HIDE DEF new, To
    <3> QED
      BY <2>3, <2>5, FS_Union
  <2> QED
    BY <2>4, <2>6
<1>3. Len(lists) \in M /\ Len(lists) \in Nat
  <2>1. Len(lists) \in Nat
    BY DEF Lists
  <2> HIDE DEF M
  <2> QED
    BY <1>1, <1>2, <2>1, NatSetInduction
<1>4. DOMAIN lists = 1 .. Len(lists)
  BY DEF Lists
<1>5. IsFiniteSet(To(Len(lists)))
  BY <1>3
<1> QED
  BY <1>4, <1>5 DEF Places

\* What the lists hold.
Elements(lists) == UNION {ToSet(lists[i]) : i \in DOMAIN lists}

LEMMA HeadTailIs ==
  ASSUME NEW S, NEW s \in Seq(S), s # <<>>
  PROVE  /\ Head(s) \in S /\ Tail(s) \in Seq(S) /\ Len(Tail(s)) = Len(s) - 1
         /\ ToSet(s) = {Head(s)} \cup ToSet(Tail(s))
         /\ Head(s) = s[1] /\ \A i \in 1 .. Len(s) - 1 : Tail(s)[i] = s[i + 1]
<1> DEFINE r == Tail(s)
<1>1. /\ Head(s) \in S /\ r \in Seq(S) /\ Len(r) = Len(s) - 1 /\ Head(s) = s[1]
      /\ \A i \in 1 .. Len(s) - 1 : r[i] = s[i + 1]
  BY HeadTailProperties
<1>2. Len(s) \in Nat /\ 1 \in 1 .. Len(s)
  OBVIOUS
<1> HIDE DEF r
<1>3. ASSUME NEW x \in ToSet(s) PROVE x \in {Head(s)} \cup ToSet(r)
  <2>1. PICK i \in 1 .. Len(s) : x = s[i]
    BY DEF ToSet
  <2>2. CASE i = 1
    BY <1>1, <2>1, <2>2
  <2>3. CASE i # 1
    <3>1. i - 1 \in 1 .. Len(s) - 1 /\ r[i - 1] = s[i] /\ i - 1 \in DOMAIN r
      BY <1>1, <1>2, <2>3
    <3> QED
      BY <2>1, <3>1 DEF ToSet
  <2> QED
    BY <2>2, <2>3
<1>4. ASSUME NEW x \in ToSet(r) PROVE x \in ToSet(s)
  <2>1. PICK i \in 1 .. Len(s) - 1 : x = r[i]
    BY <1>1 DEF ToSet
  <2>2. i + 1 \in 1 .. Len(s) /\ x = s[i + 1]
    BY <1>1, <1>2, <2>1
  <2> QED
    BY <2>2 DEF ToSet
<1>5. Head(s) \in ToSet(s)
  BY <1>1, <1>2 DEF ToSet
<1> QED
  BY <1>1, <1>3, <1>4, <1>5 DEF r

LEMMA TailInOrder ==
  ASSUME Updated \in Seq(Ids), NEW s \in Seq(Ids), s # <<>>, InOrder(s)
  PROVE  /\ InOrder(Tail(s))
         /\ \A y \in ToSet(s) : ~Newer(y, Head(s))
<1> DEFINE r == Tail(s)
<1>1. /\ Head(s) \in Ids /\ r \in Seq(Ids) /\ Len(r) = Len(s) - 1
      /\ Head(s) = s[1] /\ \A i \in 1 .. Len(s) - 1 : r[i] = s[i + 1]
  BY HeadTailIs
<1>2. Len(s) \in Nat /\ 1 \in DOMAIN s /\ DOMAIN s = 1 .. Len(s)
  OBVIOUS
<1> HIDE DEF r
<1>3. ASSUME NEW i \in DOMAIN r, NEW j \in DOMAIN r, i < j PROVE ~Newer(r[j], r[i])
  <2>1. /\ i + 1 \in DOMAIN s /\ j + 1 \in DOMAIN s /\ i + 1 < j + 1
        /\ r[i] = s[i + 1] /\ r[j] = s[j + 1]
    BY <1>1, <1>2, <1>3
  <2> QED
    BY <2>1 DEF InOrder
<1>4. ASSUME NEW y \in ToSet(s) PROVE ~Newer(y, Head(s))
  <2>1. PICK i \in 1 .. Len(s) : y = s[i]
    BY DEF ToSet
  <2>2. CASE i = 1
    BY <1>1, <2>1, <2>2, NewerIsOrder
  <2>3. CASE i # 1
    BY <1>1, <1>2, <2>1, <2>3 DEF InOrder
  <2> QED
    BY <2>2, <2>3
<1> QED
  BY <1>3, <1>4 DEF InOrder, r

LEMMA AppendInOrder ==
  ASSUME NEW s \in Seq(Ids), NEW h \in Ids, InOrder(s), \A x \in ToSet(s) : ~Newer(h, x)
  PROVE  InOrder(Append(s, h))
<1> DEFINE a == Append(s, h)
<1>1. /\ DOMAIN a = 1 .. Len(s) + 1 /\ Len(s) \in Nat /\ a[Len(s) + 1] = h
      /\ \A i \in 1 .. Len(s) : a[i] = s[i]
  OBVIOUS
<1> HIDE DEF a
<1>2. ASSUME NEW i \in DOMAIN a, NEW j \in DOMAIN a, i < j PROVE ~Newer(a[j], a[i])
  <2>1. i \in 1 .. Len(s) /\ a[i] = s[i] /\ s[i] \in ToSet(s)
    BY <1>1, <1>2 DEF ToSet
  <2>2. CASE j = Len(s) + 1
    BY <1>1, <2>1, <2>2
  <2>3. CASE j # Len(s) + 1
    <3>1. j \in DOMAIN s /\ i \in DOMAIN s /\ a[j] = s[j]
      BY <1>1, <2>1, <2>3
    <3> QED
      BY <1>2, <2>1, <3>1 DEF InOrder
  <2> QED
    BY <2>2, <2>3
<1>3. InOrder(a)
  BY <1>2 DEF InOrder
<1> QED
  BY <1>3 DEF a

Calls == [lists : Lists, out : Seq(Ids)]

\* What is left and what was returned after n calls.
Merging(g, lists, n) ==
  /\ g \in Calls /\ Len(g.lists) = Len(lists)
  /\ Cardinality(Places(g.lists)) = Cardinality(Places(lists)) - n
  /\ Elements(lists) = ToSet(g.out) \cup Elements(g.lists)
  /\ (\A i \in DOMAIN lists : InOrder(lists[i])) =>
       /\ InOrder(g.out) /\ \A i \in DOMAIN g.lists : InOrder(g.lists[i])
       /\ \A x \in ToSet(g.out), y \in Elements(g.lists) : ~Newer(y, x)

\* A call takes the head of one list.
Popped(lists, i) == [lists EXCEPT ![i] = Tail(@)]

LEMMA PoppedIs ==
  ASSUME NEW lists \in Lists, NEW i \in DOMAIN lists, lists[i] # <<>>
  PROVE  /\ Popped(lists, i) \in Lists /\ Len(Popped(lists, i)) = Len(lists)
         /\ DOMAIN Popped(lists, i) = DOMAIN lists
         /\ \A j \in DOMAIN lists :
              Popped(lists, i)[j] = IF j = i THEN Tail(lists[i]) ELSE lists[j]
         /\ Cardinality(Places(Popped(lists, i))) = Cardinality(Places(lists)) - 1
         /\ Elements(lists) = {Head(lists[i])} \cup Elements(Popped(lists, i))
<1> DEFINE new == Popped(lists, i)
<1>1. lists[i] \in Seq(Ids)
  BY DEF Lists
<1>2. /\ Head(lists[i]) \in Ids /\ Tail(lists[i]) \in Seq(Ids)
      /\ Len(Tail(lists[i])) = Len(lists[i]) - 1
      /\ ToSet(lists[i]) = {Head(lists[i])} \cup ToSet(Tail(lists[i]))
  BY <1>1, HeadTailIs
<1>3. /\ new \in Lists /\ Len(new) = Len(lists) /\ DOMAIN new = DOMAIN lists
      /\ \A j \in DOMAIN lists : new[j] = IF j = i THEN Tail(lists[i]) ELSE lists[j]
  BY <1>2 DEF Popped, Lists
<1> HIDE DEF new
<1> DEFINE n == Len(lists[i])
<1>4. n \in Nat /\ n > 0
  BY <1>1
<1>5. Places(new) = Places(lists) \ {<<i, n>>} /\ <<i, n>> \in Places(lists)
  <2>1. \A j \in DOMAIN lists :
          {j} \X (1 .. Len(new[j])) = ({j} \X (1 .. Len(lists[j]))) \ {<<i, n>>}
    <3> SUFFICES ASSUME NEW j \in DOMAIN lists
                 PROVE  {j} \X (1 .. Len(new[j])) = ({j} \X (1 .. Len(lists[j]))) \ {<<i, n>>}
      OBVIOUS
    <3>1. CASE j = i
      <4>1. Len(new[j]) = n - 1
        BY <1>2, <1>3, <3>1
      <4>2. 1 .. n - 1 = (1 .. n) \ {n}
        BY <1>4
      <4>3. {j} \X (1 .. n - 1) = ({j} \X (1 .. n)) \ {<<j, n>>}
        BY <4>2
      <4> QED
        BY <4>1, <4>3, <3>1
    <3>2. CASE j # i
      BY <1>3, <3>2
    <3> QED
      BY <3>1, <3>2
  <2>2. <<i, n>> \in {i} \X (1 .. n)
    BY <1>4
  <2> HIDE DEF n
  <2>3. Places(new) = UNION {({j} \X (1 .. Len(lists[j]))) \ {<<i, n>>} : j \in DOMAIN lists}
    BY <1>3, <2>1 DEF Places
  <2>4. Places(new) = Places(lists) \ {<<i, n>>}
    BY <2>3 DEF Places
  <2>5. <<i, n>> \in Places(lists)
    BY <2>2 DEF Places, n
  <2> QED
    BY <2>4, <2>5
<1>6. Cardinality(Places(new)) = Cardinality(Places(lists)) - 1
  <2> DEFINE P == Places(lists)
             x == <<i, n>>
  <2>1. IsFiniteSet(P) /\ x \in P /\ Places(new) = P \ {x}
    BY <1>5, PlacesFinite
  <2> HIDE DEF P, x
  <2>2. Cardinality(P \ {x}) = Cardinality(P) - 1
    BY <2>1, FS_RemoveElement
  <2> QED
    BY <2>1, <2>2 DEF P
<1>7. Elements(lists) = {Head(lists[i])} \cup Elements(new)
  <2>1. ASSUME NEW x \in Elements(lists) PROVE x = Head(lists[i]) \/ x \in Elements(new)
    BY <1>2, <1>3 DEF Elements
  <2>2. ASSUME NEW x \in Elements(new) PROVE x \in Elements(lists)
    BY <1>2, <1>3 DEF Elements
  <2>3. Head(lists[i]) \in Elements(lists)
    BY <1>2 DEF Elements
  <2> QED
    BY <2>1, <2>2, <2>3
<1> QED
  BY <1>3, <1>6, <1>7 DEF new

LEMMA CallKeeps ==
  ASSUME Updated \in Seq(Ids), NEW lists \in Lists, NEW n \in Nat, NEW g,
         Merging(g, lists, n), n < Cardinality(Places(lists))
  PROVE  Call(g) \in Calls /\ Merging(Call(g), lists, n + 1)
<1> DEFINE old == g.lists
           i   == NewestIndex(old)
           h   == Head(old[i])
           new == Popped(old, i)
           c   == Call(g)
<1>1. g \in Calls /\ old \in Lists /\ g.out \in Seq(Ids)
  BY DEF Merging, Calls
<1>2. Cardinality(Places(old)) = Cardinality(Places(lists)) - n /\ Cardinality(Places(lists)) \in Nat
  BY PlacesFinite, FS_CardinalityType DEF Merging
<1>3. \E k \in DOMAIN old : old[k] # <<>>
  <2>1. Places(old) # {}
    <3>1. Cardinality(Places(old)) # 0
      BY <1>2
    <3> QED
      BY <3>1, FS_EmptySet
  <2>2. PICK k \in DOMAIN old : {k} \X (1 .. Len(old[k])) # {}
    BY <2>1 DEF Places
  <2>3. Len(<<>>) = 0 /\ 1 .. 0 = {}
    OBVIOUS
  <2>4. old[k] # <<>>
    BY <2>2, <2>3
  <2> QED
    BY <2>4
<1>4. /\ i \in DOMAIN old /\ old[i] # <<>>
      /\ \A j \in DOMAIN old : old[j] # <<>> => ~Newer(Head(old[j]), h)
  <2> HIDE DEF old
  <2> QED
    BY <1>1, <1>3, NewestIs
<1>5. c = [lists |-> new, out |-> Append(g.out, h)]
  BY DEF Call, Popped
<1>6. old[i] \in Seq(Ids) /\ h \in Ids
  <2>1. old[i] \in Seq(Ids)
    BY <1>1, <1>4 DEF Lists
  <2> QED
    BY <2>1, <1>4, HeadTailIs
<1> HIDE DEF i
<1>7. /\ new \in Lists /\ Len(new) = Len(old) /\ DOMAIN new = DOMAIN old
      /\ \A j \in DOMAIN old : new[j] = IF j = i THEN Tail(old[i]) ELSE old[j]
      /\ Cardinality(Places(new)) = Cardinality(Places(old)) - 1
      /\ Elements(old) = {h} \cup Elements(new)
  <2> HIDE DEF old
  <2> QED
    BY <1>1, <1>4, PoppedIs
<1>8. /\ Append(g.out, h) \in Seq(Ids) /\ ToSet(Append(g.out, h)) = ToSet(g.out) \cup {h}
  BY <1>1, <1>6, AppendSet
<1> HIDE DEF h, new, c
<1>9. /\ c \in Calls /\ c.lists = new /\ c.out = Append(g.out, h)
  BY <1>5, <1>7, <1>8 DEF Calls
<1>10. ASSUME \A j \in DOMAIN lists : InOrder(lists[j])
       PROVE  /\ InOrder(c.out) /\ \A j \in DOMAIN new : InOrder(new[j])
              /\ \A x \in ToSet(c.out), y \in Elements(new) : ~Newer(y, x)
  <2>1. /\ InOrder(g.out) /\ \A j \in DOMAIN old : InOrder(old[j])
        /\ \A x \in ToSet(g.out), y \in Elements(old) : ~Newer(y, x)
    BY <1>10 DEF Merging
  <2>2. InOrder(c.out)
    BY <1>1, <1>6, <1>7, <1>9, <2>1, AppendInOrder
  <2>3. ASSUME NEW j \in DOMAIN new PROVE InOrder(new[j])
    BY <1>4, <1>6, <1>7, <2>1, TailInOrder
  <2>4. ASSUME NEW y \in Elements(new) PROVE ~Newer(y, h)
    <3>1. PICK j \in DOMAIN old : y \in ToSet(new[j])
      BY <1>7 DEF Elements
    <3>2. old[j] \in Seq(Ids)
      BY <1>1 DEF Lists
    <3>3. y \in ToSet(old[j]) /\ old[j] # <<>>
      <4>1. CASE j = i
        BY <1>4, <1>6, <1>7, <3>1, <4>1, HeadTailIs
      <4>2. CASE j # i
        <5>1. y \in ToSet(old[j])
          BY <1>7, <3>1, <4>2
        <5>2. ToSet(<<>>) = {}
          BY DEF ToSet
        <5> QED
          BY <5>1, <5>2
      <4> QED
        BY <4>1, <4>2
    <3>4. ~Newer(y, Head(old[j]))
      BY <2>1, <3>2, <3>3, TailInOrder
    <3>5. ~Newer(Head(old[j]), h)
      BY <1>4, <3>3
    <3> QED
      BY <3>4, <3>5, NewerIsOrder
  <2>5. \A x \in ToSet(c.out), y \in Elements(new) : ~Newer(y, x)
    BY <1>7, <1>8, <1>9, <2>1, <2>4
  <2> QED
    BY <2>2, <2>3, <2>5
<1>11. Cardinality(Places(new)) = Cardinality(Places(lists)) - (n + 1)
  BY <1>2, <1>7
<1>12. Elements(lists) = ToSet(c.out) \cup Elements(new)
  BY <1>7, <1>8, <1>9 DEF Merging
<1>13. Merging(c, lists, n + 1)
  <2>1. Len(c.lists) = Len(lists)
    BY <1>7, <1>9 DEF Merging
  <2> QED
    BY <1>9, <1>10, <1>11, <1>12, <2>1 DEF Merging
<1> QED
  BY <1>9, <1>13 DEF c

\* All calls, from any loop that follows Call where it may.
LEMMA CallsKeep ==
  ASSUME Updated \in Seq(Ids), NEW lists \in Lists, NEW f,
         f[0] = [lists |-> lists, out |-> <<>>],
         \A i \in 1 .. Cardinality(Places(lists)) :
           Call(f[i - 1]) \in Calls => f[i] = Call(f[i - 1]),
         NEW n \in 0 .. Cardinality(Places(lists))
  PROVE  Merging(f[n], lists, n)
<1> DEFINE all == Cardinality(Places(lists))
           M == {m \in Nat : m <= all => Merging(f[m], lists, m)}
<1>1. all \in Nat
  BY PlacesFinite, FS_CardinalityType
<1>2. 0 \in M
  <2> DEFINE g == [lists |-> lists, out |-> <<>>]
  <2>1. g \in Calls /\ g.lists = lists /\ g.out = <<>> /\ <<>> \in Seq(Ids)
    BY DEF Calls
  <2>2. ToSet(<<>>) = {} /\ InOrder(<<>>)
    BY DEF ToSet, InOrder
  <2> HIDE DEF g
  <2>3. Merging(g, lists, 0)
    BY <1>1, <2>1, <2>2 DEF Merging
  <2> QED
    BY <2>3 DEF g
<1>3. ASSUME NEW m \in Nat, m \in M PROVE m + 1 \in M
  <2> SUFFICES ASSUME m + 1 <= all PROVE Merging(f[m + 1], lists, m + 1)
    OBVIOUS
  <2>1. Merging(f[m], lists, m) /\ m < all
    BY <1>1, <1>3
  <2>2. Call(f[m]) \in Calls /\ Merging(Call(f[m]), lists, m + 1)
    BY <2>1, CallKeeps
  <2>3. m + 1 \in 1 .. all /\ (m + 1) - 1 = m
    BY <1>1
  <2>4. f[m + 1] = Call(f[m])
    BY <2>2, <2>3
  <2> QED
    BY <2>2, <2>4
<1>4. n \in M
  <2> HIDE DEF M
  <2> QED
    BY <1>2, <1>3, NatSetInduction
<1> QED
  BY <1>4

LEMMA MergeLoop ==
  ASSUME Updated \in Seq(Ids), NEW lists \in Lists
  PROVE  \E g : /\ MergeGenerator(lists) = g.out
                /\ Merging(g, lists, Cardinality(Places(lists)))
<1> DEFINE all == Cardinality(Places(lists))
           start == [lists |-> lists, out |-> <<>>]
           round == [i \in 1 .. all |->
                       [g \in Calls |-> IF Call(g) \in Calls THEN Call(g) ELSE g]]
           Q(g) == g = [n \in 0 .. all |-> IF n = 0 THEN start ELSE Call(g[n - 1])]
           f == CHOOSE g : Q(g)
<1>1. all \in Nat
  BY PlacesFinite, FS_CardinalityType
<1>2. start \in Calls /\ round \in [1 .. all -> [Calls -> Calls]]
  <2>1. <<>> \in Seq(Ids)
    OBVIOUS
  <2> QED
    BY <2>1 DEF Calls
<1>3. \E g : Q(g)
  <2>1. PICK g : Loop(g, all, Calls, start, round)
    <3> HIDE DEF round, all, start
    <3> QED
      BY <1>1, <1>2, LoopExists
  <2>2. g[0] = start /\ g = [i \in 0 .. all |-> g[i]]
    BY <2>1 DEF Loop
  <2>3. ASSUME NEW i \in 1 .. all PROVE Call(g[i - 1]) \in Calls => g[i] = Call(g[i - 1])
    <3>1. g[i - 1] \in Calls /\ g[i] = round[i][g[i - 1]]
      <4> HIDE DEF round, all, start
      <4> QED
        BY <2>1, <1>1 DEF Loop
    <3> QED
      BY <3>1
  <2>4. ASSUME NEW i \in 1 .. all PROVE g[i] = Call(g[i - 1])
    <3>1. i - 1 \in 0 .. all /\ i - 1 < all /\ i - 1 \in Nat
      BY <1>1
    <3>2. Merging(g[i - 1], lists, i - 1)
      BY <2>2, <2>3, <3>1, CallsKeep
    <3>3. Call(g[i - 1]) \in Calls
      BY <3>1, <3>2, CallKeeps
    <3> QED
      BY <2>3, <3>3
  <2>5. ASSUME NEW i \in 0 .. all PROVE g[i] = IF i = 0 THEN start ELSE Call(g[i - 1])
    <3>1. CASE i = 0
      BY <2>2, <3>1
    <3>2. CASE i \in 1 .. all
      BY <2>4, <3>2
    <3> QED
      BY <1>1, <3>1, <3>2
  <2>6. Q(g)
    BY <2>2, <2>5, Zenon
  <2> QED
    BY <2>6
<1>4. Q(f)
  <2> HIDE DEF Q
  <2> QED
    BY <1>3
<1>5. MergeGenerator(lists) = f[all].out
  BY DEF MergeGenerator
<1>6. f[0] = start /\ \A i \in 1 .. all : f[i] = Call(f[i - 1])
  <2> HIDE DEF f, start
  <2>1. \A i \in 0 .. all : f[i] = IF i = 0 THEN start ELSE Call(f[i - 1])
    BY <1>4, Zenon
  <2> HIDE DEF all
  <2> QED
    BY <1>1, <2>1
<1> HIDE DEF f
<1>7. Merging(f[all], lists, all)
  <2>1. all \in 0 .. all
    BY <1>1
  <2> QED
    BY <1>6, <2>1, CallsKeep
<1> QED
  BY <1>5, <1>7

\* mergeGenerator returns all that is in the lists, in their order.
LEMMA MergeIs ==
  ASSUME Updated \in Seq(Ids), NEW lists \in Lists
  PROVE  /\ MergeGenerator(lists) \in Seq(Ids)
         /\ ToSet(MergeGenerator(lists)) = Elements(lists)
         /\ (\A i \in DOMAIN lists : InOrder(lists[i])) => InOrder(MergeGenerator(lists))
<1>1. PICK g : /\ MergeGenerator(lists) = g.out
               /\ Merging(g, lists, Cardinality(Places(lists)))
  BY MergeLoop
<1>2. Cardinality(Places(lists)) \in Nat
  BY PlacesFinite, FS_CardinalityType
<1>3. g \in Calls /\ g.lists \in Lists /\ g.out \in Seq(Ids) /\ Cardinality(Places(g.lists)) = 0
  BY <1>1, <1>2 DEF Merging, Calls
<1>4. Places(g.lists) = {}
  BY <1>3, PlacesFinite, FS_EmptySet
<1>5. Elements(g.lists) = {}
  <2> SUFFICES ASSUME NEW i \in DOMAIN g.lists PROVE ToSet(g.lists[i]) = {}
    BY DEF Elements
  <2>1. {i} \X (1 .. Len(g.lists[i])) = {}
    BY <1>4 DEF Places
  <2> DEFINE s == g.lists[i]
  <2>2. s \in Seq(Ids)
    BY <1>3 DEF Lists
  <2>3. ASSUME NEW k \in 1 .. Len(s) PROVE FALSE
    <3>1. <<i, k>> \in {i} \X (1 .. Len(g.lists[i]))
      OBVIOUS
    <3> QED
      BY <2>1, <3>1
  <2> HIDE DEF s
  <2>4. DOMAIN s = 1 .. Len(s)
    BY <2>2
  <2>5. ToSet(s) = {}
    BY <2>3, <2>4 DEF ToSet
  <2> QED
    BY <2>5 DEF s
<1> QED
  BY <1>1, <1>3, <1>5 DEF Merging

-----------------------------------------------------------------------------
(* Queries                                                                 *)

LEMMA TermsAre ==
  ASSUME NEW labels \in Seq(Labels), NEW q
  PROVE  Terms(labels, q) \in Seq(Labels) /\ ToSet(Terms(labels, q)) \subseteq ToSet(labels)
BY KeptIs DEF Terms

\* What a query finds: a part of the merged streams, each thread once.
LEMMA ResultsAre ==
  ASSUME IndInv, Updated \in Seq(Ids), NEW q \in Queries, NEW found \in ResultGenerators(q)
  PROVE  /\ found \in Seq(Ids) /\ IsInjective(found)
         /\ \A t : t \in ToSet(found) <=>
              /\ t \in Ids \ Ignorable(Terms(q.exclude, q))
              /\ \/ \E l \in ToSet(Terms(q.merge, q)) : t \in ToSet(Normal[l])
                 \/ /\ Terms(q.filter, q) # <<>>
                    /\ \A l \in ToSet(Terms(q.filter, q)) : t \in ToSet(Normal[l])
         /\ (\A l \in ToSet(q.merge \o q.filter) : InOrder(Normal[l])) => InOrder(found)
<1> DEFINE merge  == Terms(q.merge, q)
           filter == Terms(q.filter, q)
           lists  == [i \in DOMAIN merge |-> Normal[merge[i]]]
           merged == MergeGenerator(lists)
<1>1. /\ q.merge \in Seq(Labels) /\ q.filter \in Seq(Labels) /\ q.exclude \in Seq(Labels)
  BY CatalogueAssumption
<1>2. /\ merge \in Seq(Labels) /\ ToSet(merge) \subseteq ToSet(q.merge)
      /\ filter \in Seq(Labels) /\ ToSet(filter) \subseteq ToSet(q.filter)
  BY <1>1, TermsAre
<1>3. /\ Normal \in [Labels -> Seq(Ids)]
      /\ \A l \in Labels : IsInjective(Normal[l])
  BY DEF IndInv, TypeOK, Core, Sane
<1>4. PICK filtered \in FilterGenerators(filter) :
        found = NotFound(MergeGenerator(<<merged, filtered>>), Terms(q.exclude, q))
  BY DEF ResultGenerators
<1> HIDE DEF merge, filter
<1>5. ToSet(q.merge \o q.filter) = ToSet(q.merge) \cup ToSet(q.filter)
  BY <1>1, ConcatSet
<1>6. /\ lists \in Lists /\ \A i \in DOMAIN merge : merge[i] \in Labels /\ lists[i] = Normal[merge[i]]
      /\ DOMAIN lists = DOMAIN merge
  <2>1. DOMAIN merge = 1 .. Len(merge) /\ Len(merge) \in Nat
    BY <1>2
  <2>2. \A i \in DOMAIN merge : merge[i] \in Labels /\ Normal[merge[i]] \in Seq(Ids)
    BY <1>2, <1>3
  <2> QED
    BY <2>1, <2>2 DEF Lists
<1>7. \A t : t \in Elements(lists) <=> \E l \in ToSet(merge) : t \in ToSet(Normal[l])
  BY <1>6 DEF Elements, ToSet
<1> HIDE DEF lists
<1>8. /\ merged \in Seq(Ids) /\ ToSet(merged) = Elements(lists)
      /\ (\A i \in DOMAIN lists : InOrder(lists[i])) => InOrder(merged)
  BY <1>6, MergeIs
<1> HIDE DEF merged
<1>9. /\ filtered \in Seq(Ids)
      /\ \A t : t \in ToSet(filtered) <=>
           filter # <<>> /\ \A l \in ToSet(filter) : t \in ToSet(Normal[l])
      /\ (\A l \in ToSet(filter) : InOrder(Normal[l])) => InOrder(filtered)
  <2>1. CASE filter = <<>>
    <3>1. filtered = <<>>
      BY <1>4, <2>1 DEF FilterGenerators
    <3>2. <<>> \in Seq(Ids) /\ ToSet(<<>>) = {} /\ InOrder(<<>>)
      BY DEF ToSet, InOrder
    <3> QED
      BY <2>1, <3>1, <3>2
  <2>2. CASE filter # <<>>
    <3>1. PICK l \in ToSet(filter) : filtered = Kept(Normal[l], InAll(filter))
      BY <1>4, <2>2 DEF FilterGenerators
    <3>2. ToSet(filter) \subseteq Labels
      BY <1>2, SetOfSeq
    <3>3. Normal[l] \in Seq(Ids)
      BY <1>3, <3>1, <3>2
    <3>4. \A m \in ToSet(filter) : \A t : Contains(Normal[m], t) <=> t \in ToSet(Normal[m])
      BY <1>3, <3>2, ContainsIsIn
    <3>5. /\ filtered \in Seq(Ids) /\ ToSet(filtered) = ToSet(Normal[l]) \cap InAll(filter)
          /\ Part(filtered, Normal[l], Len(Normal[l]))
      BY <3>1, <3>3, KeptIs
    <3>6. ToSet(Normal[l]) \subseteq Ids
      BY <3>3, SetOfSeq
    <3>7. \A t : t \in ToSet(filtered) <=> \A m \in ToSet(filter) : t \in ToSet(Normal[m])
      BY <3>1, <3>4, <3>5, <3>6 DEF InAll
    <3>8. InOrder(Normal[l]) => InOrder(filtered)
      BY <3>3, <3>5, PartOrdered
    <3> QED
      BY <2>2, <3>1, <3>5, <3>7, <3>8
  <2> QED
    BY <2>1, <2>2
<1> DEFINE both == <<merged, filtered>>
           all  == MergeGenerator(both)
<1>10. /\ both \in Lists /\ DOMAIN both = {1, 2} /\ both[1] = merged /\ both[2] = filtered
  BY <1>8, <1>9 DEF Lists
<1> HIDE DEF both
<1>11. Elements(both) = ToSet(merged) \cup ToSet(filtered)
  BY <1>10 DEF Elements
<1>12. /\ all \in Seq(Ids) /\ ToSet(all) = ToSet(merged) \cup ToSet(filtered)
       /\ InOrder(merged) /\ InOrder(filtered) => InOrder(all)
  BY <1>10, <1>11, MergeIs
<1>13. found = Kept(Cleaned(all), Ids \ Ignorable(Terms(q.exclude, q)))
  BY <1>4 DEF NotFound, both
<1> HIDE DEF all
<1>14. /\ Cleaned(all) \in Seq(Ids) /\ ToSet(Cleaned(all)) = ToSet(all)
       /\ IsInjective(Cleaned(all)) /\ Part(Cleaned(all), all, Len(all))
  BY <1>12, CleanedIs
<1>15. /\ found \in Seq(Ids)
       /\ ToSet(found) = ToSet(Cleaned(all)) \cap (Ids \ Ignorable(Terms(q.exclude, q)))
       /\ Part(found, Cleaned(all), Len(Cleaned(all)))
  BY <1>13, <1>14, KeptIs
<1>16. IsInjective(found)
  BY <1>14, <1>15, PartInjective
<1>17. InOrder(merged) /\ InOrder(filtered) => InOrder(found)
  BY <1>12, <1>14, <1>15, PartOrdered
<1>18. (\A l \in ToSet(q.merge \o q.filter) : InOrder(Normal[l])) => InOrder(merged) /\ InOrder(filtered)
  <2> SUFFICES ASSUME \A l \in ToSet(q.merge \o q.filter) : InOrder(Normal[l])
               PROVE  InOrder(merged) /\ InOrder(filtered)
    OBVIOUS
  <2>1. \A l \in ToSet(merge) \cup ToSet(filter) : InOrder(Normal[l])
    BY <1>2, <1>5
  <2>2. \A i \in DOMAIN lists : InOrder(lists[i])
    BY <1>6, <2>1 DEF ToSet
  <2> QED
    BY <1>8, <1>9, <2>1, <2>2
<1>19. \A t : t \in ToSet(found) <=>
         /\ t \in Ids \ Ignorable(Terms(q.exclude, q))
         /\ \/ \E l \in ToSet(merge) : t \in ToSet(Normal[l])
            \/ filter # <<>> /\ \A l \in ToSet(filter) : t \in ToSet(Normal[l])
  BY <1>7, <1>8, <1>9, <1>12, <1>14, <1>15
<1> QED
  BY <1>15, <1>16, <1>17, <1>18, <1>19 DEF merge, filter

LEMMA ExactResults ==
  ASSUME IndInv, Updated \in Seq(Ids)
  PROVE  QueryExact
<1> SUFFICES ASSUME NEW q \in Queries, NEW found \in ResultGenerators(q)
             PROVE  LET shown == Kept(found, Shown(q))
                    IN  /\ IsInjective(shown)
                        /\ \A t \in ToSet(shown) :
                             t \in Threads /\ Matches(t, q) /\ (t \in Queues => q.admin)
                        /\ \A t \in Threads \ Queues : Matches(t, q) /\ ~Repeats(t) => Contains(shown, t)
  BY DEF QueryExact
<1> DEFINE shown   == Kept(found, Shown(q))
           merge   == Terms(q.merge, q)
           filter  == Terms(q.filter, q)
           exclude == Terms(q.exclude, q)
<1>1. /\ found \in Seq(Ids) /\ IsInjective(found)
      /\ \A t : t \in ToSet(found) <=>
           /\ t \in Ids \ Ignorable(exclude)
           /\ \/ \E l \in ToSet(merge) : t \in ToSet(Normal[l])
              \/ filter # <<>> /\ \A l \in ToSet(filter) : t \in ToSet(Normal[l])
  BY ResultsAre
<1>2. /\ shown \in Seq(Ids) /\ ToSet(shown) = ToSet(found) \cap Shown(q)
      /\ IsInjective(shown)
  <2>1. /\ shown \in Seq(Ids) /\ ToSet(shown) = ToSet(found) \cap Shown(q)
        /\ Part(shown, found, Len(found))
    BY <1>1, KeptIs
  <2> HIDE DEF shown
  <2> QED
    BY <1>1, <2>1, PartInjective
<1>3. /\ merge \in Seq(Labels) /\ filter \in Seq(Labels) /\ exclude \in Seq(Labels)
      /\ ToSet(merge) \subseteq Labels /\ ToSet(filter) \subseteq Labels
      /\ ToSet(exclude) \subseteq Labels
  BY CatalogueAssumption, TermsAre, SetOfSeq
<1> HIDE DEF shown, merge, filter, exclude
<1>4. /\ Threads \subseteq Ids /\ Tags \in [Ids -> Seq(Labels)]
  BY DEF IndInv, TypeOK
<1>5. \A t \in Ids : \A l : Contains(Tags[t], l) <=> l \in ToSet(Tags[t])
  BY <1>4, ContainsIsIn
<1>6. \A t \in Ids : t \in Ignorable(exclude) <=> \E l \in ToSet(exclude) : l \in ToSet(Tags[t])
  BY <1>3, ContainsIsIn DEF Ignorable
<1>7. \A t \in Ids : Matches(t, q) <=>
        /\ \/ \E l \in ToSet(merge) : l \in ToSet(Tags[t])
           \/ filter # <<>> /\ ToSet(filter) \subseteq ToSet(Tags[t])
        /\ ~\E l \in ToSet(exclude) : l \in ToSet(Tags[t])
  BY <1>5 DEF Matches, merge, filter, exclude
<1>8. \A l \in Labels : \A t \in ToSet(Normal[l]) : t \in Threads /\ l \in ToSet(Tags[t])
  BY DEF IndInv, Core
<1>9. \A t \in Threads \ Queues, l \in Labels :
        ~Repeats(t) /\ l \in ToSet(Tags[t]) => t \in ToSet(Normal[l])
  BY DEF IndInv, Core, Repeats
<1>10. ASSUME NEW t \in ToSet(shown)
       PROVE  t \in Threads /\ Matches(t, q) /\ (t \in Queues => q.admin)
  <2>1. /\ t \in Ids /\ t \notin Ignorable(exclude) /\ t \in Shown(q)
        /\ \/ \E l \in ToSet(merge) : t \in ToSet(Normal[l])
           \/ filter # <<>> /\ \A l \in ToSet(filter) : t \in ToSet(Normal[l])
    BY <1>1, <1>2
  <2>2. filter # <<>> => ToSet(filter) # {}
    <3> SUFFICES ASSUME filter # <<>> PROVE ToSet(filter) # {}
      OBVIOUS
    <3>1. 1 \in DOMAIN filter
      BY <1>3
    <3> QED
      BY <3>1 DEF ToSet
  <2>3. t \in Threads
    BY <1>3, <1>8, <2>1, <2>2
  <2>4. Matches(t, q)
    BY <1>3, <1>6, <1>7, <1>8, <2>1
  <2>5. t \in Queues => q.admin
    BY <2>1 DEF Shown
  <2> QED
    BY <2>3, <2>4, <2>5
<1>11. ASSUME NEW t \in Threads \ Queues, Matches(t, q), ~Repeats(t)
       PROVE  Contains(shown, t)
  <2>1. t \in Ids /\ t \notin Ignorable(exclude) /\ t \in Shown(q)
    BY <1>4, <1>6, <1>7, <1>11 DEF Shown
  <2>2. \/ \E l \in ToSet(merge) : t \in ToSet(Normal[l])
        \/ filter # <<>> /\ \A l \in ToSet(filter) : t \in ToSet(Normal[l])
    BY <1>3, <1>7, <1>9, <1>11, <2>1
  <2>3. t \in ToSet(shown)
    BY <1>1, <1>2, <2>1, <2>2
  <2> QED
    BY <1>2, <2>3, ContainsIsIn
<1> QED
  BY <1>2, <1>10, <1>11 DEF shown

\* The two facts about results that do not depend on the index.
LEMMA OrderedResults ==
  ASSUME IndInv, Updated \in Seq(Ids)
  PROVE  QueryOrdered
BY ResultsAre DEF QueryOrdered

LEMMA PagedResults ==
  ASSUME IndInv, Updated \in Seq(Ids)
  PROVE  PagesCover
BY ResultsAre, PagesShowAll DEF PagesCover

\* Updated lists threads.
LEMMA UpdatedInit == CInit => IndInv /\ Updated \in Seq(Ids)
<1> SUFFICES ASSUME CInit PROVE IndInv /\ Updated \in Seq(Ids)
  OBVIOUS
<1>1. IndInv
  BY InitInv DEF CInit
<1>2. Normal[Admin] \in Seq(Ids)
  BY <1>1, AllIsLabel DEF IndInv, TypeOK
<1> QED
  BY <1>1, <1>2 DEF CInit

LEMMA UpdatedStays ==
  ASSUME Updated \in Seq(Ids), NEW posted \in Seq(Ids)
  PROVE  UpdatedBy(posted) \in Seq(Ids)
<1>1. Kept(Updated, Ids \ ToSet(posted)) \in Seq(Ids)
  BY KeptIs
<1>2. posted \o Kept(Updated, Ids \ ToSet(posted)) \in Seq(Ids)
  BY <1>1, ConcatSet
<1> QED
  BY <1>2, KeptIs DEF UpdatedBy

LEMMA CatalogueStep ==
  ASSUME IndInv, Updated \in Seq(Ids), [CNext]_cvars
  PROVE  IndInv' /\ Updated' \in Seq(Ids)
<1>1. ASSUME NEW ts \in UserTags, NEW accepted \in BOOLEAN, OpenThread(ts, accepted)
      PROVE  IndInv' /\ Updated' \in Seq(Ids)
  <2>1. PICK staff \in BOOLEAN : CreateThread(ts, staff)
    BY <1>1 DEF OpenThread
  <2>2. IndInv'
    BY <2>1, CreateThreadInv
  <2>3. ThreadCount \in Ids
    BY <2>1, HiveAssumption DEF CreateThread, IndInv, TypeOK, Ids
  <2>4. (IF accepted THEN <<ThreadCount>> ELSE <<>>) \in Seq(Ids)
    BY <2>3
  <2> QED
    BY <1>1, <2>2, <2>4, UpdatedStays DEF OpenThread
<1>2. ASSUME NEW t \in Threads, Reply(t) PROVE IndInv' /\ Updated' \in Seq(Ids)
  <2>1. AddPost(t) /\ Updated' = UpdatedBy(<<t>>)
    BY <1>2 DEF Reply
  <2>2. <<t>> \in Seq(Ids)
    BY DEF IndInv, TypeOK
  <2> QED
    BY <2>1, <2>2, AddPostInv, UpdatedStays
<1>3. ASSUME NEW t \in Threads, Delete(t) PROVE IndInv' /\ Updated' \in Seq(Ids)
  <2>1. DeleteThread(t) /\ Updated' = UpdatedBy(<<>>)
    BY <1>3 DEF Delete
  <2>2. <<>> \in Seq(Ids)
    OBVIOUS
  <2> QED
    BY <2>1, <2>2, DeleteThreadInv, UpdatedStays
<1>4. ASSUME NEW t \in Threads, NEW wanted \in SUBSET ToSet(Tags[t] \o StickyTags[t]), Stick(t, wanted)
      PROVE  IndInv' /\ Updated' \in Seq(Ids)
  BY <1>4, StickyThreadInv DEF Stick
<1>5. CASE UNCHANGED cvars
  <2>1. IndInv'
    BY <1>5, NextInv DEF cvars
  <2> QED
    BY <1>5, <2>1 DEF cvars
<1> QED
  BY <1>1, <1>2, <1>3, <1>4, <1>5 DEF CNext

CatalogueInv == IndInv /\ Updated \in Seq(Ids)

LEMMA CatalogueAlways == CSpec => []CatalogueInv
<1>1. CInit => CatalogueInv
  BY UpdatedInit DEF CatalogueInv
<1>2. CatalogueInv /\ [CNext]_cvars => CatalogueInv'
  BY CatalogueStep DEF CatalogueInv
<1> QED
  BY <1>1, <1>2, PTL DEF CSpec

\* A query finds the threads whose labels match it and no others, each once,
\* from the lists of the tags: tags.go 162-235.
THEOREM QueriesAreExact == CSpec => []QueryExact
<1>1. CatalogueInv => QueryExact
  BY ExactResults DEF CatalogueInv
<1> QED
  BY <1>1, CatalogueAlways, PTL

\* Results come newest first, if the lists they come from have that order:
\* tags.go 172-205, 273-312.
THEOREM QueriesAreOrdered == CSpec => []QueryOrdered
<1>1. CatalogueInv => QueryOrdered
  BY OrderedResults DEF CatalogueInv
<1> QED
  BY <1>1, CatalogueAlways, PTL

\* Whoever follows the links from the first page sees all that was found:
\* hive.go 189-202, board.go 281-298.
THEOREM PagesCoverAll == CSpec => []PagesCover
<1>1. CatalogueInv => PagesCover
  BY PagedResults DEF CatalogueInv
<1> QED
  BY <1>1, CatalogueAlways, PTL
=============================================================================
