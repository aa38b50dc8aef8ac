-------------------------- MODULE SequenceEntries --------------------------
(***************************************************************************)
(* What the entries of a queue are after one enters or leaves it at either *)
(* end, and of a file after lines are added to it or cut off its front;    *)
(* and what a loop over the entries computes.                              *)
(***************************************************************************)
EXTENDS SequenceTheorems, FiniteSetTheorems, WellFoundedInduction, TLAPS

Elems(s) == {s[i] : i \in 1 .. Len(s)}
Distinct(s) == \A i, j \in 1 .. Len(s) : s[i] = s[j] => i = j

\* Every entry is related to every later one; R is a set of pairs.
SortedBy(s, R) == \A i, j \in 1 .. Len(s) : i < j => <<s[i], s[j]>> \in R

\* append: the entry is added; one that was not there keeps the sequence free
\* of repetitions.
LEMMA AppendElems ==
    ASSUME NEW S, NEW s \in Seq(S), NEW r \in S
    PROVE  /\ Elems(Append(s, r)) = Elems(s) \cup {r}
           /\ Distinct(s) /\ r \notin Elems(s) => Distinct(Append(s, r))
<1> DEFINE a == Append(s, r)
<1>1. /\ Len(a) = Len(s) + 1 /\ Len(s) \in Nat
      /\ a[Len(s) + 1] = r
      /\ \A i \in 1 .. Len(s) : a[i] = s[i]
  OBVIOUS
<1>2. 1 .. Len(a) = (1 .. Len(s)) \cup {Len(s) + 1}
  BY <1>1
<1> HIDE DEF a
<1>3. Elems(a) = Elems(s) \cup {r}
  BY <1>1, <1>2 DEF Elems
<1>4. ASSUME Distinct(s), r \notin Elems(s) PROVE Distinct(a)
  BY <1>1, <1>2, <1>4 DEF Distinct, Elems
<1> QED
  BY <1>3, <1>4 DEF a

\* popleft: the head is taken out, and is in the rest only if it was repeated.
LEMMA TailElems ==
    ASSUME NEW S, NEW s \in Seq(S), s # <<>>
    PROVE  /\ Tail(s) \in Seq(S) /\ Len(Tail(s)) = Len(s) - 1
           /\ Head(s) \in S
           /\ Elems(s) = Elems(Tail(s)) \cup {Head(s)}
           /\ Distinct(s) => Distinct(Tail(s)) /\ Head(s) \notin Elems(Tail(s))
<1> DEFINE b == Tail(s)
<1>1. /\ Len(b) = Len(s) - 1 /\ Len(s) \in Nat \ {0}
      /\ b \in Seq(S) /\ Head(s) \in S /\ Head(s) = s[1]
      /\ \A i \in 1 .. Len(b) : b[i] = s[i + 1]
  OBVIOUS
<1> HIDE DEF b
<1>2. \A j \in 1 .. Len(s) : j = 1 \/ (j - 1 \in 1 .. Len(b) /\ s[j] = b[j - 1])
  BY <1>1
<1>3. \A i \in 1 .. Len(b) : i + 1 \in 1 .. Len(s)
  BY <1>1
<1>4. Elems(s) \subseteq Elems(b) \cup {Head(s)}
  BY <1>1, <1>2 DEF Elems
<1>5. Elems(b) \cup {Head(s)} \subseteq Elems(s)
  <2>1. Head(s) \in Elems(s)
    BY <1>1 DEF Elems
  <2>2. ASSUME NEW i \in 1 .. Len(b) PROVE b[i] \in Elems(s)
    BY <1>1, <1>3 DEF Elems
  <2> QED
    BY <2>1, <2>2 DEF Elems
<1>6. ASSUME Distinct(s) PROVE Distinct(b) /\ Head(s) \notin Elems(b)
  <2>1. ASSUME NEW i \in 1 .. Len(b), NEW j \in 1 .. Len(b), b[i] = b[j] PROVE i = j
    BY <1>1, <1>3, <1>6, <2>1 DEF Distinct
  <2>2. ASSUME NEW i \in 1 .. Len(b), b[i] = Head(s) PROVE FALSE
    BY <1>1, <1>3, <1>6, <2>2 DEF Distinct
  <2> QED
    BY <2>1, <2>2 DEF Distinct, Elems
<1> QED
  BY <1>1, <1>4, <1>5, <1>6 DEF b

\* appendleft: the entry is added in front.
LEMMA ConsElems ==
    ASSUME NEW S, NEW s \in Seq(S), NEW r \in S
    PROVE  /\ <<r>> \o s \in Seq(S) /\ Len(<<r>> \o s) = Len(s) + 1
           /\ Elems(<<r>> \o s) = Elems(s) \cup {r}
           /\ Distinct(s) /\ r \notin Elems(s) => Distinct(<<r>> \o s)
<1> DEFINE c == <<r>> \o s
<1>1. /\ Len(c) = Len(s) + 1 /\ Len(s) \in Nat
      /\ c \in Seq(S) /\ c # <<>>
      /\ Head(c) = r /\ Tail(c) = s
      /\ c[1] = r /\ \A i \in 2 .. Len(c) : c[i] = s[i - 1]
  OBVIOUS
<1> HIDE DEF c
<1>2. Elems(c) = Elems(s) \cup {r}
  BY <1>1, TailElems
<1>3. ASSUME Distinct(s), r \notin Elems(s) PROVE Distinct(c)
  <2>1. ASSUME NEW i \in 1 .. Len(c), NEW j \in 1 .. Len(c), c[i] = c[j], i # j
        PROVE  FALSE
    <3>1. CASE i = 1
      BY <1>1, <1>3, <2>1, <3>1 DEF Elems
    <3>2. CASE j = 1
      BY <1>1, <1>3, <2>1, <3>2 DEF Elems
    <3>3. CASE i # 1 /\ j # 1
      BY <1>1, <1>3, <2>1, <3>3 DEF Distinct
    <3> QED
      BY <3>1, <3>2, <3>3
  <2> QED
    BY <2>1 DEF Distinct
<1> QED
  BY <1>1, <1>2, <1>3 DEF c

\* appendleft on a full deque: its last entry falls out.
LEMMA ButLastElems ==
    ASSUME NEW S, NEW s \in Seq(S), Len(s) # 0
    PROVE  LET d == SubSeq(s, 1, Len(s) - 1) IN
           /\ d \in Seq(S) /\ Len(d) = Len(s) - 1
           /\ Elems(s) = Elems(d) \cup {s[Len(s)]}
           /\ Distinct(s) => Distinct(d)
<1> DEFINE d == SubSeq(s, 1, Len(s) - 1)
<1> DEFINE n == Len(s) - 1
<1>0. n \in Nat /\ Len(s) = n + 1 /\ \A i \in 1 .. n : s[i] \in S
  OBVIOUS
<1> HIDE DEF n
<1>1. /\ Len(s) \in Nat \ {0} /\ d \in Seq(S) /\ Len(d) = Len(s) - 1
      /\ \A i \in 1 .. Len(d) : d[i] = s[i]
  <2>1. n - 1 + 1 = n /\ (n = 0 \/ 1 <= n) /\ Len(s) - 1 = n
    BY <1>0
  <2>2. d \in Seq(S) /\ Len(d) = n
    BY <1>0, <2>1, SubSeqProperties
  <2>3. ASSUME NEW i \in 1 .. n PROVE d[i] = s[i]
    <3>1. i \in 1 .. n - 1 + 1 /\ 1 + i - 1 = i
      BY <1>0
    <3>2. SubSeq(s, 1, n)[i] = s[1 + i - 1]
      BY <1>0, <3>1, SubSeqProperties
    <3> QED
      BY <2>1, <3>1, <3>2
  <2> QED
    BY <1>0, <2>2, <2>3
<1>2. 1 .. Len(s) = (1 .. Len(d)) \cup {Len(s)}
  BY <1>1
<1> HIDE DEF d
<1>3. Elems(s) = Elems(d) \cup {s[Len(s)]}
  BY <1>1, <1>2 DEF Elems
<1>4. Distinct(s) => Distinct(d)
  BY <1>1, <1>2 DEF Distinct
<1> QED
  BY <1>1, <1>3, <1>4 DEF d

\* append: a sequence stays sorted when the new entry comes after every old one.
LEMMA AppendSorted ==
    ASSUME NEW S, NEW R, NEW s \in Seq(S), NEW r \in S,
           SortedBy(s, R), \A x \in Elems(s) : <<x, r>> \in R
    PROVE  SortedBy(Append(s, r), R)
<1> DEFINE a == Append(s, r)
<1>1. /\ Len(a) = Len(s) + 1 /\ Len(s) \in Nat
      /\ a[Len(s) + 1] = r
      /\ \A i \in 1 .. Len(s) : a[i] = s[i]
  OBVIOUS
<1> HIDE DEF a
<1>2. ASSUME NEW i \in 1 .. Len(a), NEW j \in 1 .. Len(a), i < j PROVE <<a[i], a[j]>> \in R
  <2>1. i \in 1 .. Len(s) /\ (j \in 1 .. Len(s) \/ j = Len(s) + 1)
    BY <1>1, <1>2
  <2>2. CASE j \in 1 .. Len(s)
    BY <1>1, <1>2, <2>1, <2>2 DEF SortedBy
  <2>3. CASE j = Len(s) + 1
    <3>1. s[i] \in Elems(s)
      BY <2>1 DEF Elems
    <3> QED
      BY <1>1, <2>1, <2>3, <3>1
  <2> QED
    BY <2>1, <2>2, <2>3
<1>3. SortedBy(a, R)
  BY <1>2 DEF SortedBy
<1> QED
  BY <1>3 DEF a

\* popleft: the rest stays sorted, and the head comes before all of it.
LEMMA TailSorted ==
    ASSUME NEW S, NEW R, NEW s \in Seq(S), s # <<>>, SortedBy(s, R)
    PROVE  SortedBy(Tail(s), R) /\ \A x \in Elems(Tail(s)) : <<Head(s), x>> \in R
<1> DEFINE b == Tail(s)
<1>1. /\ Len(b) = Len(s) - 1 /\ Len(s) \in Nat \ {0} /\ Head(s) = s[1]
      /\ \A i \in 1 .. Len(b) : b[i] = s[i + 1]
  OBVIOUS
<1> HIDE DEF b
<1>2. \A i \in 1 .. Len(b) : i + 1 \in 1 .. Len(s) /\ 1 < i + 1 /\ 1 \in 1 .. Len(s)
  BY <1>1
<1>3. SortedBy(b, R)
  <2>1. ASSUME NEW i \in 1 .. Len(b), NEW j \in 1 .. Len(b), i < j PROVE <<b[i], b[j]>> \in R
    <3>1. i + 1 < j + 1
      BY <2>1
    <3>2. <<s[i + 1], s[j + 1]>> \in R
      BY <1>2, <3>1 DEF SortedBy
    <3> QED
      BY <1>1, <3>2
  <2> QED
    BY <2>1 DEF SortedBy
<1>4. ASSUME NEW i \in 1 .. Len(b) PROVE <<Head(s), b[i]>> \in R
  <2>1. <<s[1], s[i + 1]>> \in R
    BY <1>2 DEF SortedBy
  <2> QED
    BY <1>1, <2>1
<1> QED
  BY <1>3, <1>4 DEF b, Elems

\* Lines are added to a file.
LEMMA ConcatElems ==
    ASSUME NEW S, NEW s \in Seq(S), NEW t \in Seq(S)
    PROVE  /\ s \o t \in Seq(S) /\ Len(s \o t) = Len(s) + Len(t)
           /\ \A i \in 1 .. Len(s) : (s \o t)[i] = s[i]
           /\ Elems(s \o t) = Elems(s) \cup Elems(t)
<1> DEFINE c == s \o t
<1>1. /\ c \in Seq(S) /\ Len(c) = Len(s) + Len(t) /\ Len(s) \in Nat /\ Len(t) \in Nat
      /\ \A i \in 1 .. Len(s) : c[i] = s[i]
      /\ \A i \in 1 .. Len(t) : c[Len(s) + i] = t[i]
  OBVIOUS
<1> HIDE DEF c
<1>2. \A i \in 1 .. Len(c) : i \in 1 .. Len(s) \/ (i - Len(s) \in 1 .. Len(t) /\ i = Len(s) + (i - Len(s)))
  BY <1>1
<1>3. \A i \in 1 .. Len(t) : Len(s) + i \in 1 .. Len(c)
  BY <1>1
<1>4. \A i \in 1 .. Len(s) : i \in 1 .. Len(c)
  BY <1>1
<1>5. ASSUME NEW i \in 1 .. Len(c) PROVE c[i] \in Elems(s) \cup Elems(t)
  BY <1>1, <1>2 DEF Elems
<1>6. Elems(s) \subseteq Elems(c)
  BY <1>1, <1>4 DEF Elems
<1>7. Elems(t) \subseteq Elems(c)
  BY <1>1, <1>3 DEF Elems
<1>8. Elems(c) = Elems(s) \cup Elems(t)
  BY <1>5, <1>6, <1>7 DEF Elems
<1> QED
  BY <1>1, <1>8 DEF c

\* The first n lines are cut off a file.
LEMMA CutEntries ==
    ASSUME NEW S, NEW s \in Seq(S), NEW n \in 0 .. Len(s),
           NEW front, front = SubSeq(s, 1, n), NEW rest, rest = SubSeq(s, n + 1, Len(s))
    PROVE  /\ front \in Seq(S) /\ Len(front) = n /\ \A i \in 1 .. n : front[i] = s[i]
           /\ rest \in Seq(S) /\ Len(rest) = Len(s) - n
           /\ \A i \in 1 .. Len(s) - n : rest[i] = s[i + n]
<1> DEFINE l == Len(s)
<1>0. l \in Nat /\ n \in 0 .. l /\ \A i \in 1 .. l : s[i] \in S
  OBVIOUS
<1>1. front \in Seq(S) /\ Len(front) = n /\ \A i \in 1 .. n : front[i] = s[i]
  <2>1. n \in Int /\ 1 \in Int /\ n - 1 + 1 = n /\ (n < 1 => n = 0)
        /\ \A i \in 1 .. n : i \in 1 .. n - 1 + 1 /\ 1 + i - 1 = i /\ i \in 1 .. l
    BY <1>0
  <2>2. \A i \in 1 .. n : s[i] \in S
    BY <1>0, <2>1
  <2>3. front \in Seq(S) /\ Len(front) = n
    BY <1>0, <2>1, <2>2, SubSeqProperties
  <2>4. ASSUME NEW i \in 1 .. n PROVE front[i] = s[i]
    <3>1. SubSeq(s, 1, n)[i] = s[1 + i - 1]
      BY <1>0, <2>1, SubSeqProperties
    <3> QED
      BY <2>1, <3>1
  <2> QED
    BY <2>3, <2>4
<1>2. rest \in Seq(S) /\ Len(rest) = l - n /\ \A i \in 1 .. l - n : rest[i] = s[i + n]
  <2>1. n + 1 \in Int /\ l \in Int /\ l - (n + 1) + 1 = l - n /\ (~(n + 1 <= l) => l - n = 0)
        /\ \A i \in 1 .. l - n : i \in 1 .. l - (n + 1) + 1 /\ n + 1 + i - 1 = i + n
    BY <1>0
  <2>2. \A i \in n + 1 .. l : i \in 1 .. l /\ s[i] \in S
    BY <1>0
  <2> DEFINE m == n + 1
  <2>3. m \in Int /\ m = n + 1 /\ rest = SubSeq(s, m, l)
    BY <1>0
  <2>4. \A i \in m .. l : s[i] \in S
    BY <2>2
  <2> HIDE DEF m, l
  <2>5. /\ SubSeq(s, m, l) \in Seq(S) /\ Len(SubSeq(s, m, l)) = IF m <= l THEN l - m + 1 ELSE 0
        /\ \A i \in 1 .. l - m + 1 : SubSeq(s, m, l)[i] = s[m + i - 1]
    <3>1. m \in Int /\ l \in Int
      BY <2>1, <2>3
    <3>2. SubSeq(s, m, l) \in Seq(S)
      BY <2>4, <3>1, SubSeqProperties
    <3>3. Len(SubSeq(s, m, l)) = IF m <= l THEN l - m + 1 ELSE 0
      BY <2>4, <3>1, SubSeqProperties
    <3>4. \A i \in 1 .. l - m + 1 : SubSeq(s, m, l)[i] = s[m + i - 1]
      BY <2>4, <3>1, SubSeqProperties
    <3> QED
      BY <3>2, <3>3, <3>4
  <2>6. ASSUME NEW i \in 1 .. l - n PROVE rest[i] = s[i + n]
    BY <2>1, <2>3, <2>5
  <2> QED
    BY <2>1, <2>3, <2>5, <2>6
<1> QED
  BY <1>1, <1>2

\* Its lines are those cut off and those that stay.
LEMMA CutCover ==
    ASSUME NEW S, NEW s \in Seq(S), NEW n \in 0 .. Len(s)
    PROVE  Elems(s) = Elems(SubSeq(s, 1, n)) \cup Elems(SubSeq(s, n + 1, Len(s)))
<1> DEFINE l == Len(s)
           front == SubSeq(s, 1, n)
           rest == SubSeq(s, n + 1, Len(s))
<1>0. l \in Nat /\ n \in 0 .. l
  OBVIOUS
<1>4. front = SubSeq(s, 1, n) /\ rest = SubSeq(s, n + 1, Len(s))
  OBVIOUS
<1> HIDE DEF front, rest
<1>1. Len(front) = n /\ \A i \in 1 .. n : front[i] = s[i]
  BY <1>4, CutEntries
<1>2. Len(rest) = l - n /\ \A i \in 1 .. l - n : rest[i] = s[i + n]
  BY <1>4, CutEntries
<1>3. Elems(s) = Elems(front) \cup Elems(rest)
  <2>1. \A i \in 1 .. l : i \in 1 .. n \/ (i - n \in 1 .. l - n /\ i - n + n = i)
    BY <1>0
  <2>2. \A i \in 1 .. n : i \in 1 .. l
    BY <1>0
  <2>3. \A i \in 1 .. l - n : i + n \in 1 .. l
    BY <1>0
  <2> HIDE DEF l
  <2>4. ASSUME NEW i \in 1 .. l PROVE s[i] \in Elems(front) \cup Elems(rest)
    <3>1. CASE i \in 1 .. n
      BY <1>1, <3>1 DEF Elems
    <3>2. CASE i - n \in 1 .. l - n /\ i - n + n = i
      <4>1. rest[i - n] = s[i]
        BY <1>2, <3>2
      <4> QED
        BY <1>2, <3>2, <4>1 DEF Elems
    <3> QED
      BY <2>1, <3>1, <3>2
  <2>5. Elems(front) \subseteq Elems(s)
    BY <1>1, <2>2 DEF Elems, l
  <2>6. Elems(rest) \subseteq Elems(s)
    BY <1>2, <2>3 DEF Elems, l
  <2> QED
    BY <2>4, <2>5, <2>6 DEF Elems, l
<1> QED
  BY <1>3, <1>4

\* A sequence has at most as many entries as its length says.
LEMMA FewElems ==
    ASSUME NEW S, NEW s \in Seq(S)
    PROVE  IsFiniteSet(Elems(s)) /\ Cardinality(Elems(s)) <= Len(s)
<1> DEFINE n == Len(s)
<1>1. n \in Nat /\ IsFiniteSet(1 .. n) /\ Cardinality(1 .. n) = n
  <2>1. n \in Nat
    OBVIOUS
  <2> HIDE DEF n
  <2> QED
    BY <2>1, FS_Interval
<1> DEFINE f == [i \in 1 .. n |-> s[i]]
<1>2. f \in Surjection(1 .. n, Elems(s))
  BY DEF Surjection, Elems
<1> HIDE DEF n, f
<1>3. IsFiniteSet(Elems(s)) /\ Cardinality(Elems(s)) <= Cardinality(1 .. n)
  BY <1>1, <1>2, FS_Surjection
<1> QED
  BY <1>1, <1>3 DEF n

-----------------------------------------------------------------------------
(* Loops over the entries of a sequence: the folds.                        *)

\* A set of numbers that is not empty has a least one.
LEMMA LeastNumber ==
    ASSUME NEW B, B \subseteq Nat, B # {}
    PROVE  \E n \in B : \A m \in B : n <= m
<1> DEFINE R == {ss \in Nat \X Nat : ss[1] < ss[2]}
<1>1. IsWellFoundedOn(R, Nat)
  BY NatLessThanWellFounded, Zenon DEF OpToRel
<1>2. \E n \in B : \A m \in B : <<m, n>> \notin R
  <2> HIDE DEF R
  <2> QED BY <1>1, WFMin, Zenon
<1>3. \A m, n \in B : <<m, n>> \notin R => n <= m
  OBVIOUS
<1>4. QED
  <2> HIDE DEF R
  <2> QED BY <1>2, <1>3

Largest(s) == CHOOSE x \in s : \A y \in s : x >= y

\* The largest number of a set up to n.
LEMMA LargestOfSome ==
    ASSUME NEW n \in Nat, NEW s \in SUBSET (1 .. n), s # {}
    PROVE  Largest(s) \in s /\ \A y \in s : y <= Largest(s)
<1> DEFINE B == {m \in Nat : \A y \in s : y <= m}
<1>1. n \in B
  OBVIOUS
<1>2. PICK m \in B : \A k \in B : m <= k
  BY <1>1, LeastNumber
<1>3. m \in s
  <2>1. SUFFICES ASSUME m \notin s PROVE FALSE
    OBVIOUS
  <2>2. PICK y \in s : TRUE
    OBVIOUS
  <2>3. m - 1 \in B
    BY <1>2, <2>1, <2>2
  <2>4. QED
    BY <1>2, <2>2, <2>3
<1>4. m \in s /\ \A y \in s : m >= y
  BY <1>2, <1>3
<1>5. Largest(s) \in s /\ \A y \in s : Largest(s) >= y
  BY <1>4 DEF Largest
<1>6. QED
  BY <1>5

\* The largest of the first numbers, and what is left without it.
LEMMA LargestOfFirst ==
    ASSUME NEW k \in Nat, k # 0
    PROVE  Largest(1 .. k) = k /\ (1 .. k) \ {k} = 1 .. k - 1
<1>1. (1 .. k) \in SUBSET (1 .. k) /\ k \in 1 .. k
  OBVIOUS
<1>2. Largest(1 .. k) \in 1 .. k /\ k <= Largest(1 .. k)
  BY <1>1, LargestOfSome
<1>3. \A m \in 1 .. k : k <= m => m = k
  OBVIOUS
<1>4. Largest(1 .. k) = k
  BY <1>2, <1>3
<1>5. (1 .. k) \ {k} = 1 .. k - 1
  OBVIOUS
<1>6. QED
  BY <1>4, <1>5

\* What holds at 0 and from each number to the next holds up to n; G is the
\* set of the numbers it holds for.
LEMMA UpTo ==
    ASSUME NEW n \in Nat, NEW G, 0 \in G, \A k \in 0 .. n - 1 : k \in G => k + 1 \in G
    PROVE  \A k \in 0 .. n : k \in G
<1> DEFINE B == {k \in 0 .. n : k \notin G}
<1>1. SUFFICES ASSUME B # {} PROVE FALSE
  OBVIOUS
<1>2. PICK k \in B : \A m \in B : k <= m
  <2>1. B \subseteq Nat
    OBVIOUS
  <2> HIDE DEF B
  <2> QED BY <1>1, <2>1, LeastNumber
<1>3. k \in 0 .. n /\ k \notin G /\ k # 0
  OBVIOUS
<1>4. k - 1 \in 0 .. n - 1 /\ k - 1 \in 0 .. n /\ k - 1 + 1 = k /\ ~(k <= k - 1)
  BY <1>3
<1>5. k - 1 \notin B
  <2> HIDE DEF B
  <2> QED BY <1>2, <1>4
<1>6. k - 1 \in G
  BY <1>4, <1>5
<1>7. QED
  BY <1>3, <1>4, <1>6

\* A loop over n entries: g has its value after the entries of each set, taken
\* in one by one and the largest last, from base and by the functions of F.
InTurn(n, T, base, F, g) ==
    /\ g \in [SUBSET (1 .. n) -> T]
    /\ g[{}] = base
    /\ \A s \in SUBSET (1 .. n) : s # {} => g[s] = F[Largest(s)][g[s \ {Largest(s)}]]

\* There is such a function, so the recursion of a fold has a value.
LEMMA FoldExists ==
    ASSUME NEW n \in Nat, NEW T, NEW base \in T, NEW F \in [1 .. n -> [T -> T]]
    PROVE  \E g : InTurn(n, T, base, F, g)
<1> DEFINE Fold(k, g) == \A s \in SUBSET (1 .. k) :
                  g[s] = IF s = {} THEN base ELSE F[Largest(s)][g[s \ {Largest(s)}]]
           Has(k) == \E g \in [SUBSET (1 .. k) -> T] : Fold(k, g)
           Without == {k \in 0 .. n : ~Has(k)}
<1>1. Has(0)
  <2> DEFINE g == [s \in SUBSET (1 .. 0) |-> base]
  <2>1. \A s \in SUBSET (1 .. 0) : s = {}
    OBVIOUS
  <2>2. g \in [SUBSET (1 .. 0) -> T] /\ Fold(0, g)
    BY <2>1
  <2>3. QED
    <3> HIDE DEF g
    <3> QED BY <2>2
<1>2. ASSUME NEW k \in Nat, k + 1 <= n, Has(k) PROVE Has(k + 1)
  <2>1. PICK g \in [SUBSET (1 .. k) -> T] : Fold(k, g)
    BY <1>2
  <2> DEFINE h == [s \in SUBSET (1 .. k + 1) |->
                     IF k + 1 \in s THEN F[k + 1][g[s \ {k + 1}]] ELSE g[s]]
  <2>2. \A s \in SUBSET (1 .. k + 1) : k + 1 \in s => s \ {k + 1} \in SUBSET (1 .. k)
    BY <1>2
  <2>3. \A s \in SUBSET (1 .. k + 1) : k + 1 \notin s => s \in SUBSET (1 .. k)
    BY <1>2
  <2>4. h \in [SUBSET (1 .. k + 1) -> T]
    BY <1>2, <2>2, <2>3
  <2>5. ASSUME NEW s \in SUBSET (1 .. k + 1)
        PROVE  h[s] = IF s = {} THEN base ELSE F[Largest(s)][h[s \ {Largest(s)}]]
    <3>1. CASE s = {}
      BY <2>1, <2>3, <3>1
    <3>2. CASE k + 1 \in s
      <4>0. k + 1 \in Nat /\ s # {}
        BY <3>2
      <4>1. Largest(s) \in s /\ \A y \in s : y <= Largest(s)
        BY <4>0, LargestOfSome
      <4>2. Largest(s) = k + 1
        <5>1. Largest(s) \in 1 .. k + 1 /\ k + 1 <= Largest(s)
          BY <3>2, <4>1
        <5>2. QED
          BY <5>1
      <4>3. s \ {k + 1} \in SUBSET (1 .. k + 1) /\ k + 1 \notin s \ {k + 1}
        OBVIOUS
      <4>4. h[s \ {k + 1}] = g[s \ {k + 1}] /\ h[s] = F[k + 1][g[s \ {k + 1}]]
        BY <3>2, <4>3
      <4>5. QED
        BY <4>0, <4>2, <4>4
    <3>3. CASE s # {} /\ k + 1 \notin s
      <4>1. s \in SUBSET (1 .. k)
        BY <2>3, <3>3
      <4>2. Largest(s) \in s
        BY <3>3, <4>1, LargestOfSome
      <4>3. s \ {Largest(s)} \in SUBSET (1 .. k) /\ k + 1 \notin s \ {Largest(s)}
        BY <4>1, <3>3
      <4>4. s \ {Largest(s)} \in SUBSET (1 .. k + 1)
        OBVIOUS
      <4>5. h[s] = g[s] /\ h[s \ {Largest(s)}] = g[s \ {Largest(s)}]
        BY <3>3, <4>3, <4>4
      <4>6. QED
        BY <2>1, <3>3, <4>1, <4>5
    <3>4. QED
      BY <3>1, <3>2, <3>3
  <2>6. QED
    <3> HIDE DEF h
    <3>1. Fold(k + 1, h)
      BY <2>5
    <3>2. QED
      BY <2>4, <3>1
<1>3. Without = {}
  <2> HIDE DEF Has
  <2>1. SUFFICES ASSUME Without # {} PROVE FALSE
    OBVIOUS
  <2>2. Without \subseteq Nat
    OBVIOUS
  <2>3. PICK k \in Without : \A m \in Without : k <= m
    BY <2>1, <2>2, LeastNumber
  <2>4. k \in 0 .. n /\ ~Has(k)
    OBVIOUS
  <2>5. k # 0
    BY <1>1, <2>4
  <2>6. k - 1 \in 0 .. n /\ k - 1 \notin Without
    BY <2>3, <2>4, <2>5
  <2>7. Has(k - 1)
    BY <2>6
  <2>8. Has(k - 1 + 1)
    BY <1>2, <2>4, <2>5, <2>7
  <2>9. k - 1 + 1 = k
    BY <2>4
  <2>10. QED
    BY <2>4, <2>8, <2>9
<1>4. Has(n)
  <2> HIDE DEF Has
  <2> QED BY <1>3
<1>5. PICK g \in [SUBSET (1 .. n) -> T] : Fold(n, g)
  BY <1>4
<1>6. QED
  BY <1>5 DEF InTurn

\* The values a loop goes through, from base to that after n entries.
LoopRun(n, T, base, F, v) ==
    /\ v \in [0 .. n -> T]
    /\ v[0] = base
    /\ \A i \in 1 .. n : v[i] = F[i][v[i - 1]]

\* H obeys the recursion wherever its values are of the type.
Obeys(n, T, base, F, H) ==
    /\ H[{}] = base
    /\ \A s \in SUBSET (1 .. n) : s # {} /\ H[s \ {Largest(s)}] \in T
           => H[s] = F[Largest(s)][H[s \ {Largest(s)}]]

RunsTo(n, T, base, F, H) == \E v : LoopRun(n, T, base, F, v) /\ v[n] = H[1 .. n]

\* Then its values for the first entries are those of a loop.
LEMMA LoopRuns ==
    ASSUME NEW n \in Nat, NEW T, NEW base \in T, NEW F \in [1 .. n -> [T -> T]], NEW H,
           Obeys(n, T, base, F, H)
    PROVE  RunsTo(n, T, base, F, H)
<1> DEFINE v == [i \in 0 .. n |-> H[1 .. i]]
           G == {i \in 0 .. n : v[i] \in T}
<1>0. /\ H[{}] = base
      /\ \A s \in SUBSET (1 .. n) : s # {} /\ H[s \ {Largest(s)}] \in T
             => H[s] = F[Largest(s)][H[s \ {Largest(s)}]]
  BY DEF Obeys
<1>1. v[0] = base
  <2>1. 1 .. 0 = {} /\ 0 \in 0 .. n
    OBVIOUS
  <2>2. v[0] = H[1 .. 0]
    <3> QED
      BY <2>1, Zenon
  <2> HIDE DEF v
  <2> QED
    BY <1>0, <2>1, <2>2
<1>2. ASSUME NEW i \in 1 .. n, v[i - 1] \in T PROVE v[i] = F[i][v[i - 1]]
  <2>1. /\ (1 .. i) \in SUBSET (1 .. n) /\ 1 .. i # {}
        /\ i \in Nat /\ i # 0 /\ i \in 0 .. n /\ i - 1 \in 0 .. n
    <3>1. i \in Nat /\ i # 0 /\ i \in 0 .. n /\ i - 1 \in 0 .. n /\ i \in 1 .. i
      OBVIOUS
    <3>2. \A m \in 1 .. i : m \in 1 .. n
      OBVIOUS
    <3> QED
      BY <3>1, <3>2
  <2>2. Largest(1 .. i) = i /\ (1 .. i) \ {i} = 1 .. i - 1
    BY <2>1, LargestOfFirst
  <2>3. v[i] = H[1 .. i] /\ v[i - 1] = H[1 .. i - 1]
    BY <2>1
  <2>4. H[(1 .. i) \ {Largest(1 .. i)}] = v[i - 1]
    <3> HIDE DEF v
    <3> QED
      BY <2>2, <2>3, Zenon
  <2> HIDE DEF v
  <2>5. H[1 .. i] = F[Largest(1 .. i)][H[(1 .. i) \ {Largest(1 .. i)}]]
    BY <1>0, <1>2, <2>1, <2>4
  <2> QED
    BY <2>2, <2>3, <2>4, <2>5
<1>3. v[n] = H[1 .. n] /\ DOMAIN v = 0 .. n
  OBVIOUS
<1> HIDE DEF v
<1>4. 0 \in G
  BY <1>1
<1>5. ASSUME NEW k \in 0 .. n - 1, k \in G PROVE k + 1 \in G
  <2>1. k + 1 \in 1 .. n /\ k + 1 - 1 = k /\ k + 1 \in 0 .. n /\ v[k] \in T
    BY <1>5
  <2>2. v[k + 1] = F[k + 1][v[k]]
    BY <1>2, <2>1
  <2> QED
    BY <2>1, <2>2
<1>6. \A k \in 0 .. n : k \in G
  <2> HIDE DEF G
  <2> QED
    BY <1>4, <1>5, UpTo
<1>7. v \in [0 .. n -> T]
  <2> DEFINE w == [i \in 0 .. n |-> H[1 .. i]]
  <2>1. v = w
    BY DEF v
  <2>2. \A i \in 0 .. n : w[i] \in T
    BY <1>6, <2>1
  <2> QED
    BY <2>1, <2>2
<1>8. ASSUME NEW i \in 1 .. n PROVE v[i] = F[i][v[i - 1]]
  <2>1. i - 1 \in 0 .. n
    OBVIOUS
  <2> QED
    BY <1>2, <1>7, <2>1
<1> QED
  BY <1>1, <1>3, <1>7, <1>8 DEF LoopRun, RunsTo
=============================================================================
