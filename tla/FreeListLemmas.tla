--------------------------- MODULE FreeListLemmas --------------------------
(***************************************************************************)
(* Facts about FIFO lists (m_FreeClientList of CTcpIOCPClientManager,      *)
(* m_FreeList of CTcpIOCPTool, the two lists of CNoLockBiList): which      *)
(* elements the list operations of the code add and remove, and that they  *)
(* keep a list without duplicates so.  And about the numbers of elements   *)
(* of sets, the least of a set of numbers, and loops that carry a value    *)
(* from round to round.                                                    *)
(***************************************************************************)
EXTENDS Integers, Sequences, FiniteSets, SequencesExt, FiniteSetTheorems, WellFoundedInduction, TLAPS

\* pop_front removes the first element and nothing else.
LEMMA PopFront ==
  ASSUME NEW S, NEW s \in Seq(S), s # <<>>
  PROVE  /\ Head(s) \in S
         /\ Tail(s) \in Seq(S)
         /\ ToSet(s) = {Head(s)} \cup ToSet(Tail(s))
         /\ IsInjective(s) => IsInjective(Tail(s)) /\ Head(s) \notin ToSet(Tail(s))
<1>1. Len(s) \in Nat \ {0} /\ DOMAIN s = 1 .. Len(s) /\ Head(s) = s[1] /\ \A i \in 1 .. Len(s) : s[i] \in S
  OBVIOUS
<1>2. /\ Tail(s) \in Seq(S)
      /\ DOMAIN Tail(s) = 1 .. (Len(s) - 1)
      /\ \A i \in 1 .. (Len(s) - 1) : Tail(s)[i] = s[i + 1]
  OBVIOUS
<1>3. ToSet(s) = {Head(s)} \cup ToSet(Tail(s))
  <2>1. ASSUME NEW x \in ToSet(s) PROVE x \in {Head(s)} \cup ToSet(Tail(s))
    <3>1. PICK i \in 1 .. Len(s) : x = s[i]
      BY <1>1 DEF ToSet
    <3>2. CASE i = 1
      BY <3>1, <3>2, <1>1
    <3>3. CASE i # 1
      <4>1. i - 1 \in 1 .. (Len(s) - 1) /\ (i - 1) + 1 = i
        BY <3>3, <1>1
      <4>2. Tail(s)[i - 1] = x
        BY <4>1, <3>1, <1>2
      <4> QED BY <4>1, <4>2, <1>2 DEF ToSet
    <3> QED BY <3>2, <3>3
  <2>2. ASSUME NEW x \in ToSet(Tail(s)) PROVE x \in ToSet(s)
    <3>1. PICK i \in 1 .. (Len(s) - 1) : x = Tail(s)[i]
      BY <1>2 DEF ToSet
    <3>2. i + 1 \in 1 .. Len(s) /\ x = s[i + 1]
      BY <3>1, <1>2, <1>1
    <3> QED BY <3>2, <1>1 DEF ToSet
  <2>3. Head(s) \in ToSet(s)
    BY <1>1 DEF ToSet
  <2> QED BY <2>1, <2>2, <2>3
<1>4. ASSUME IsInjective(s) PROVE IsInjective(Tail(s)) /\ Head(s) \notin ToSet(Tail(s))
  <2>1. \A i, j \in 1 .. Len(s) : s[i] = s[j] => i = j
    BY <1>4, <1>1 DEF IsInjective
  <2>2. ASSUME NEW i \in 1 .. (Len(s) - 1), NEW j \in 1 .. (Len(s) - 1), Tail(s)[i] = Tail(s)[j]
        PROVE i = j
    <3>1. i + 1 \in 1 .. Len(s) /\ j + 1 \in 1 .. Len(s)
      BY <1>1
    <3>2. i + 1 = j + 1
      BY <3>1, <2>1, <2>2, <1>2
    <3> QED BY <3>2
  <2>3. ASSUME NEW i \in 1 .. (Len(s) - 1), Tail(s)[i] = Head(s) PROVE FALSE
    <3>1. i + 1 \in 1 .. Len(s) /\ 1 \in 1 .. Len(s) /\ i + 1 # 1
      BY <1>1
    <3> QED BY <3>1, <2>1, <2>3, <1>1, <1>2
  <2> QED BY <2>2, <2>3, <1>2 DEF IsInjective, ToSet
<1> QED BY <1>1, <1>2, <1>3, <1>4

\* push_back adds one element, and a duplicate only if it was there.
LEMMA PushBack ==
  ASSUME NEW S, NEW s \in Seq(S), NEW x \in S
  PROVE  /\ Append(s, x) \in Seq(S)
         /\ ToSet(Append(s, x)) = ToSet(s) \cup {x}
         /\ IsInjective(s) /\ x \notin ToSet(s) => IsInjective(Append(s, x))
<1>1. /\ Len(s) \in Nat
      /\ DOMAIN s = 1 .. Len(s)
      /\ Append(s, x) \in Seq(S)
      /\ DOMAIN Append(s, x) = 1 .. (Len(s) + 1)
      /\ \A i \in 1 .. Len(s) : Append(s, x)[i] = s[i]
      /\ Append(s, x)[Len(s) + 1] = x
  OBVIOUS
<1>2. ToSet(Append(s, x)) = ToSet(s) \cup {x}
  <2>1. ASSUME NEW y \in ToSet(Append(s, x)) PROVE y \in ToSet(s) \cup {x}
    <3>1. PICK i \in 1 .. (Len(s) + 1) : y = Append(s, x)[i]
      BY <1>1 DEF ToSet
    <3>2. i \in 1 .. Len(s) \/ i = Len(s) + 1
      BY <1>1
    <3> QED BY <3>1, <3>2, <1>1 DEF ToSet
  <2>2. ASSUME NEW y \in ToSet(s) PROVE y \in ToSet(Append(s, x))
    <3>1. PICK i \in 1 .. Len(s) : y = s[i]
      BY <1>1 DEF ToSet
    <3>2. i \in 1 .. (Len(s) + 1)
      BY <1>1
    <3> QED BY <3>1, <3>2, <1>1 DEF ToSet
  <2>3. x \in ToSet(Append(s, x))
    <3>1. Len(s) + 1 \in 1 .. (Len(s) + 1)
      BY <1>1
    <3> QED BY <3>1, <1>1 DEF ToSet
  <2> QED BY <2>1, <2>2, <2>3
<1>3. ASSUME IsInjective(s), x \notin ToSet(s),
             NEW i \in 1 .. (Len(s) + 1), NEW j \in 1 .. (Len(s) + 1),
             Append(s, x)[i] = Append(s, x)[j]
      PROVE  i = j
  <2>1. \A k \in 1 .. Len(s) : s[k] # x
    BY <1>3, <1>1 DEF ToSet
  <2>2. (i \in 1 .. Len(s) \/ i = Len(s) + 1) /\ (j \in 1 .. Len(s) \/ j = Len(s) + 1)
    BY <1>1
  <2>3. \A k, l \in 1 .. Len(s) : s[k] = s[l] => k = l
    BY <1>3, <1>1 DEF IsInjective
  <2> QED BY <2>1, <2>2, <2>3, <1>1, <1>3
<1> QED BY <1>1, <1>2, <1>3 DEF IsInjective

\* Appending the elements of a list that has no duplicate and none of the
\* first list's elements.
LEMMA PushList ==
  ASSUME NEW S, NEW s \in Seq(S), NEW q \in Seq(S)
  PROVE  /\ s \o q \in Seq(S)
         /\ ToSet(s \o q) = ToSet(s) \cup ToSet(q)
         /\ IsInjective(s) /\ IsInjective(q) /\ ToSet(s) \cap ToSet(q) = {}
              => IsInjective(s \o q)
<1>1. /\ Len(s) \in Nat /\ Len(q) \in Nat
      /\ DOMAIN s = 1 .. Len(s) /\ DOMAIN q = 1 .. Len(q)
      /\ s \o q \in Seq(S)
      /\ DOMAIN (s \o q) = 1 .. (Len(s) + Len(q))
      /\ \A i \in 1 .. (Len(s) + Len(q)) :
           (s \o q)[i] = IF i <= Len(s) THEN s[i] ELSE q[i - Len(s)]
  OBVIOUS
<1>2. ToSet(s \o q) = ToSet(s) \cup ToSet(q)
  <2>1. ASSUME NEW y \in ToSet(s \o q) PROVE y \in ToSet(s) \cup ToSet(q)
    <3>1. PICK i \in 1 .. (Len(s) + Len(q)) : y = (s \o q)[i]
      BY <1>1 DEF ToSet
    <3>2. CASE i <= Len(s)
      <4>1. i \in 1 .. Len(s) /\ y = s[i]
        BY <3>1, <3>2, <1>1
      <4> QED BY <4>1, <1>1 DEF ToSet
    <3>3. CASE ~(i <= Len(s))
      <4>1. i - Len(s) \in 1 .. Len(q) /\ y = q[i - Len(s)]
        BY <3>1, <3>3, <1>1
      <4> QED BY <4>1, <1>1 DEF ToSet
    <3> QED BY <3>2, <3>3
  <2>2. ASSUME NEW y \in ToSet(s) PROVE y \in ToSet(s \o q)
    <3>1. PICK i \in 1 .. Len(s) : y = s[i]
      BY <1>1 DEF ToSet
    <3>2. i \in 1 .. (Len(s) + Len(q)) /\ (s \o q)[i] = y
      BY <3>1, <1>1
    <3> QED BY <3>2, <1>1 DEF ToSet
  <2>3. ASSUME NEW y \in ToSet(q) PROVE y \in ToSet(s \o q)
    <3>1. PICK i \in 1 .. Len(q) : y = q[i]
      BY <1>1 DEF ToSet
    <3>2. i + Len(s) \in 1 .. (Len(s) + Len(q)) /\ ~(i + Len(s) <= Len(s)) /\ (i + Len(s)) - Len(s) = i
      BY <1>1
    <3>3. (s \o q)[i + Len(s)] = y
      BY <3>1, <3>2, <1>1
    <3> QED BY <3>2, <3>3, <1>1 DEF ToSet
  <2> QED BY <2>1, <2>2, <2>3
<1>3. ASSUME IsInjective(s), IsInjective(q), ToSet(s) \cap ToSet(q) = {},
             NEW i \in 1 .. (Len(s) + Len(q)), NEW j \in 1 .. (Len(s) + Len(q)),
             (s \o q)[i] = (s \o q)[j]
      PROVE  i = j
  <2>1. \A k \in 1 .. Len(s), l \in 1 .. Len(q) : s[k] # q[l]
    BY <1>3, <1>1 DEF ToSet
  <2>2. \A k, l \in 1 .. Len(s) : s[k] = s[l] => k = l
    BY <1>3, <1>1 DEF IsInjective
  <2>3. \A k, l \in 1 .. Len(q) : q[k] = q[l] => k = l
    BY <1>3, <1>1 DEF IsInjective
  <2>4. CASE i <= Len(s) /\ j <= Len(s)
    BY <2>4, <2>2, <1>1, <1>3
  <2>5. CASE ~(i <= Len(s)) /\ ~(j <= Len(s))
    <3>1. i - Len(s) \in 1 .. Len(q) /\ j - Len(s) \in 1 .. Len(q)
      BY <2>5, <1>1
    <3>2. q[i - Len(s)] = q[j - Len(s)]
      BY <2>5, <1>1, <1>3
    <3>3. i - Len(s) = j - Len(s)
      BY <3>1, <3>2, <2>3
    <3> QED BY <3>3, <1>1
  <2>6. CASE i <= Len(s) /\ ~(j <= Len(s))
    <3>1. i \in 1 .. Len(s) /\ j - Len(s) \in 1 .. Len(q) /\ s[i] = q[j - Len(s)]
      BY <2>6, <1>1, <1>3
    <3> QED BY <3>1, <2>1
  <2>7. CASE ~(i <= Len(s)) /\ j <= Len(s)
    <3>1. j \in 1 .. Len(s) /\ i - Len(s) \in 1 .. Len(q) /\ s[j] = q[i - Len(s)]
      BY <2>7, <1>1, <1>3
    <3> QED BY <3>1, <2>1
  <2> QED BY <2>4, <2>5, <2>6, <2>7
<1> QED BY <1>1, <1>2, <1>3 DEF IsInjective

\* An order of the keys of a map lists each of them once.
LEMMA OrderOfSet ==
  ASSUME NEW S, NEW T \in SUBSET S, IsFiniteSet(T), NEW q \in SetToSeqs(T)
  PROVE  q \in Seq(S) /\ ToSet(q) = T /\ IsInjective(q)
<1> DEFINE n == Cardinality(T)
<1>1. n \in Nat
  BY FS_CardinalityType
<1>2. q \in [1 .. n -> T] /\ \A i, j \in 1 .. n : i # j => q[i] # q[j]
  BY DEF SetToSeqs
<1>3. q \in Seq(S) /\ IsInjective(q)
  <2>1. q \in [1 .. n -> S]
    BY <1>2
  <2>2. q \in Seq(S)
    BY <2>1, <1>1
  <2> QED BY <2>2, <1>2 DEF IsInjective
<1>4. ToSet(q) \subseteq T
  BY <1>2 DEF ToSet
<1>5. Cardinality(ToSet(q)) = n
  <2>1. ToSet(q) = {q[i] : i \in 1 .. n}
    BY <1>2 DEF ToSet
  <2>2. q \in Bijection(1 .. n, ToSet(q))
    BY <1>2, <2>1 DEF Bijection, Injection, Surjection, IsInjective
  <2>3. IsFiniteSet(1 .. n) /\ Cardinality(1 .. n) = n
    BY <1>1, FS_Interval
  <2>4. ExistsBijection(1 .. n, ToSet(q))
    BY <2>2 DEF ExistsBijection
  <2> QED BY <2>3, <2>4, FS_Bijection
<1>6. ToSet(q) = T
  BY <1>4, <1>5, FS_Subset
<1> QED BY <1>3, <1>6

\* The rest of a new block: the numbers after the first one, each once.
LEMMA RestOfBlock ==
  ASSUME NEW n \in Nat, NEW b \in Nat \ {0}, NEW m \in Nat, n + b <= m,
         NEW q, q = [i \in 1 .. b - 1 |-> n + 1 + i]
  PROVE  q \in Seq(1 .. m) /\ ToSet(q) = (n + 2) .. (n + b) /\ IsInjective(q)
<1>1. q \in [1 .. b - 1 -> 1 .. m] /\ b - 1 \in Nat
  OBVIOUS
<1>2. q \in Seq(1 .. m)
  BY <1>1
<1>3. ASSUME NEW k \in (n + 2) .. (n + b) PROVE k \in ToSet(q)
  <2>1. k - n - 1 \in 1 .. b - 1 /\ q[k - n - 1] = k
    OBVIOUS
  <2> QED BY <2>1, <1>1 DEF ToSet
<1>4. ASSUME NEW k \in ToSet(q) PROVE k \in (n + 2) .. (n + b)
  BY <1>1 DEF ToSet
<1>5. IsInjective(q)
  BY <1>1 DEF IsInjective
<1> QED BY <1>2, <1>3, <1>4, <1>5

\* The least element of a set of numbers.
LEMMA LeastNumber ==
  ASSUME NEW T \in SUBSET Nat, T # {}
  PROVE  \E x \in T : \A y \in T : x <= y
<1>1. PICK x \in T : \A y \in T : ~(<<y, x>> \in OpToRel(<, Nat))
  BY WFMin, NatLessThanWellFounded
<1>2. \A y \in T : ~(y < x)
  BY <1>1 DEF OpToRel
<1> QED BY <1>2

\* A set with 0 and the successor of each of its elements has all naturals, up to a limit.
LEMMA Counting ==
  ASSUME NEW limit \in Nat, NEW T, 0 \in T, \A i \in 0 .. limit - 1 : i \in T => i + 1 \in T
  PROVE  \A i \in 0 .. limit : i \in T
<1> DEFINE Missing == {i \in 0 .. limit : i \notin T}
<1> SUFFICES ASSUME Missing # {} PROVE FALSE  OBVIOUS
<1>1. Missing \in SUBSET Nat  OBVIOUS
<1>2. PICK x \in Missing : \A y \in Missing : x <= y  BY <1>1, LeastNumber
<1>3. x \in 1 .. limit /\ x - 1 \in 0 .. limit - 1 /\ ~(x <= x - 1) /\ x = (x - 1) + 1  BY <1>2
<1>4. x - 1 \in T  BY <1>2, <1>3
<1> QED  BY <1>2, <1>3, <1>4

\* What is computed by a loop of k rounds from a, where round i makes F[<<i, x>>] of x: it
\* is computed, and stays in the set in which F is.
Rounds(f, k, a, F) == /\ DOMAIN f = 0 .. k /\ f[0] = a
                      /\ \A i \in 1 .. k : f[i] = F[<<i, f[i - 1]>>]

LEMMA RoundsTyped ==
  ASSUME NEW k \in Nat, NEW S, NEW a \in S, NEW F \in [(1 .. k) \X S -> S],
         NEW f, Rounds(f, k, a, F)
  PROVE  \A i \in 0 .. k : f[i] \in S
<1> DEFINE T == {i \in 0 .. k : f[i] \in S}
<1>1. 0 \in T  BY DEF Rounds
<1>2. ASSUME NEW i \in 0 .. k - 1, i \in T PROVE i + 1 \in T
  <2>1. i + 1 \in 1 .. k /\ (i + 1) - 1 = i /\ f[i] \in S  BY <1>2
  <2>2. f[i + 1] = F[<<i + 1, f[i]>>]  BY <2>1 DEF Rounds
  <2> QED  BY <2>1, <2>2
<1>3. \A i \in 0 .. k : i \in T
  <2> HIDE DEF T
  <2> QED  BY <1>1, <1>2, Counting
<1> QED  BY <1>3

LEMMA RoundsMade ==
  ASSUME NEW k \in Nat, NEW a, NEW F
  PROVE  \E f : Rounds(f, k, a, F)
<1> DEFINE T == {i \in 0 .. k : \E f : Rounds(f, i, a, F)}
<1>1. 0 \in T
  <2> DEFINE f == [i \in 0 .. 0 |-> a]
  <2>1. Rounds(f, 0, a, F)  BY DEF Rounds
  <2> HIDE DEF f
  <2> QED  BY <2>1
<1>2. ASSUME NEW j \in 0 .. k - 1, j \in T PROVE j + 1 \in T
  <2>1. PICK f : Rounds(f, j, a, F)  BY <1>2
  <2> DEFINE g == [i \in 0 .. j + 1 |-> IF i = j + 1 THEN F[<<j + 1, f[j]>>] ELSE f[i]]
  <2>2. DOMAIN g = 0 .. j + 1 /\ g[0] = a
    <3>1. 0 \in 0 .. j + 1 /\ 0 # j + 1 /\ f[0] = a  BY <2>1 DEF Rounds
    <3> QED  BY <3>1
  <2>3. ASSUME NEW i \in 1 .. j + 1 PROVE g[i] = F[<<i, g[i - 1]>>]
    <3>1. g[i - 1] = f[i - 1]  OBVIOUS
    <3>2. CASE i = j + 1
      <4>1. g[i] = F[<<j + 1, f[j]>>] /\ i - 1 = j  BY <3>2
      <4> QED  BY <3>1, <3>2, <4>1
    <3>3. CASE i \in 1 .. j
      <4>1. g[i] = f[i]  BY <3>3
      <4>2. f[i] = F[<<i, f[i - 1]>>]  BY <2>1, <3>3 DEF Rounds
      <4> QED  BY <3>1, <4>1, <4>2
    <3> QED  BY <3>2, <3>3
  <2>4. Rounds(g, j + 1, a, F)
    <3> HIDE DEF g
    <3> QED  BY <2>2, <2>3 DEF Rounds
  <2> QED  BY <2>4
<1>3. \A i \in 0 .. k : i \in T
  <2> HIDE DEF T
  <2> QED  BY <1>1, <1>2, Counting
<1>4. k \in 0 .. k  OBVIOUS
<1> QED  BY <1>3, <1>4

\* Two sets that may differ in one element only: their numbers of elements.
LEMMA OneElement ==
  ASSUME NEW T, IsFiniteSet(T), NEW t \in T,
         NEW A \in SUBSET T, NEW B \in SUBSET T, A \ {t} = B \ {t}
  PROVE  /\ Cardinality(A) \in Nat /\ Cardinality(B) \in Nat
         /\ t \in A /\ t \notin B => Cardinality(B) = Cardinality(A) - 1
         /\ t \notin A /\ t \in B => Cardinality(B) = Cardinality(A) + 1
         /\ (t \in A <=> t \in B) => Cardinality(B) = Cardinality(A)
<1>1. IsFiniteSet(A) /\ IsFiniteSet(B)
  BY FS_Subset
<1>2. Cardinality(A) \in Nat /\ Cardinality(B) \in Nat
  BY <1>1, FS_CardinalityType
<1>3. ASSUME t \in A, t \notin B PROVE Cardinality(B) = Cardinality(A) - 1
  <2>1. B = A \ {t}
    BY <1>3
  <2> QED
    BY <1>1, <1>3, <2>1, FS_RemoveElement
<1>4. ASSUME t \notin A, t \in B PROVE Cardinality(B) = Cardinality(A) + 1
  <2>1. B = A \cup {t}
    BY <1>4
  <2> QED
    BY <1>1, <1>4, <2>1, FS_AddElement
<1>5. ASSUME t \in A <=> t \in B PROVE A = B
  BY <1>5
<1> QED
  BY <1>2, <1>3, <1>4, <1>5

\* The pairs of an element of D and a number up to f of the element: what is counted when
\* the f of all are added up.
Units(f, D) == UNION {{d} \X (1 .. f[d]) : d \in D}

\* One more of one element is one more of all.
LEMMA UnitMore ==
  ASSUME NEW D, NEW f, NEW d \in D, f[d] \in Nat, NEW g, g[d] = f[d] + 1,
         \A e \in D : e # d => g[e] = f[e], IsFiniteSet(Units(f, D))
  PROVE  /\ IsFiniteSet(Units(g, D)) /\ Cardinality(Units(f, D)) \in Nat
         /\ Cardinality(Units(g, D)) = Cardinality(Units(f, D)) + 1
<1>1. PICK u : u = <<d, f[d] + 1>>
  OBVIOUS
<1>2. \A x : x \in Units(f, D) <=> \E e \in D : \E i \in 1 .. f[e] : x = <<e, i>>
  BY DEF Units
<1>3. \A x : x \in Units(g, D) <=> \E e \in D : \E i \in 1 .. g[e] : x = <<e, i>>
  BY DEF Units
<1>4. u \notin Units(f, D)
  <2>1. \A i \in 1 .. f[d] : i # f[d] + 1
    OBVIOUS
  <2> QED
    BY <1>1, <1>2, <2>1
<1>5. \A i : i \in 1 .. g[d] <=> i \in 1 .. f[d] \/ i = f[d] + 1
  OBVIOUS
<1>6. Units(g, D) = Units(f, D) \cup {u}
  <2>1. \A x \in Units(g, D) : x \in Units(f, D) \cup {u}
    BY <1>1, <1>2, <1>3, <1>5
  <2>2. \A x \in Units(f, D) : x \in Units(g, D)
    BY <1>2, <1>3, <1>5
  <2>3. u \in Units(g, D)
    BY <1>1, <1>3, <1>5
  <2> QED
    BY <2>1, <2>2, <2>3
<1> QED
  BY <1>4, <1>6, FS_AddElement, FS_CardinalityType

\* And one less is one less.
LEMMA UnitLess ==
  ASSUME NEW D, NEW f, NEW d \in D, f[d] \in Nat, f[d] > 0, NEW g, g[d] = f[d] - 1,
         \A e \in D : e # d => g[e] = f[e], IsFiniteSet(Units(f, D))
  PROVE  /\ IsFiniteSet(Units(g, D)) /\ Cardinality(Units(f, D)) \in Nat \ {0}
         /\ Cardinality(Units(g, D)) = Cardinality(Units(f, D)) - 1
<1>1. PICK u : u = <<d, f[d]>>
  OBVIOUS
<1>2. \A x : x \in Units(f, D) <=> \E e \in D : \E i \in 1 .. f[e] : x = <<e, i>>
  BY DEF Units
<1>3. \A x : x \in Units(g, D) <=> \E e \in D : \E i \in 1 .. g[e] : x = <<e, i>>
  BY DEF Units
<1>4. \A i : i \in 1 .. f[d] <=> i \in 1 .. g[d] \/ i = f[d]
  OBVIOUS
<1>5. f[d] \notin 1 .. g[d]
  OBVIOUS
<1>6. Units(g, D) = Units(f, D) \ {u}
  <2>1. \A x \in Units(g, D) : x \in Units(f, D) /\ x # u
    BY <1>1, <1>2, <1>3, <1>4, <1>5
  <2>2. \A x \in Units(f, D) : x # u => x \in Units(g, D)
    BY <1>1, <1>2, <1>3, <1>4
  <2> QED
    BY <2>1, <2>2
<1>7. u \in Units(f, D)
  BY <1>1, <1>2, <1>4
<1>8. Cardinality(Units(f, D)) \in Nat \ {0}
  BY <1>7, FS_CardinalityType, FS_EmptySet
<1> QED
  BY <1>6, <1>7, <1>8, FS_RemoveElement
============================================================================
