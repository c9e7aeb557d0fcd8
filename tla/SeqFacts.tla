------------------------------- MODULE SeqFacts -------------------------------
(***************************************************************************)
(* What the operations on sequences that the queue models are built from   *)
(* do to the set of elements and to the order: push (Append), pop (Head    *)
(* and Tail) and erase (RemoveAt); what becomes of a selection of a        *)
(* sequence when the sequence grows; the states of a loop, and what its    *)
(* rounds preserve; and sequences of octets, put together and changed.     *)
(***************************************************************************)
EXTENDS Integers, FiniteSets, SequencesExt, SequenceTheorems, FiniteSetTheorems, Selection,
        TLAPS

\* erase(it): one element less, the others keep their order.
LEMMA RemoveAtProperties ==
  ASSUME NEW S, NEW s \in Seq(S), NEW i \in 1 .. Len(s)
  PROVE  /\ RemoveAt(s, i) \in Seq(S)
         /\ Len(RemoveAt(s, i)) = Len(s) - 1
         /\ \A j \in 1 .. Len(s) - 1 : RemoveAt(s, i)[j] = IF j < i THEN s[j] ELSE s[j + 1]
<1> DEFINE a == SubSeq(s, 1, i - 1)
           b == SubSeq(s, i + 1, Len(s))
<1>1. /\ Len(s) \in Nat
      /\ \A k \in 1 .. Len(s) : s[k] \in S
  BY ElementOfSeq, LenProperties
<1>2. /\ a \in Seq(S)
      /\ Len(a) = i - 1
      /\ \A k \in 1 .. i - 1 : a[k] = s[k]
  BY <1>1, SubSeqProperties, Z3
<1>3. /\ b \in Seq(S)
      /\ Len(b) = Len(s) - i
      /\ \A k \in 1 .. Len(s) - i : b[k] = s[i + k]
  <2>1. \A k \in i + 1 .. Len(s) : s[k] \in S
    BY <1>1
  <2>2. /\ b \in Seq(S)
        /\ Len(b) = IF i + 1 <= Len(s) THEN Len(s) - (i + 1) + 1 ELSE 0
        /\ \A k \in 1 .. Len(s) - (i + 1) + 1 : b[k] = s[(i + 1) + k - 1]
    BY <1>1, <2>1, SubSeqProperties
  <2>3. QED
    BY <1>1, <2>2
<1>4. /\ a \o b \in Seq(S)
      /\ Len(a \o b) = Len(a) + Len(b)
      /\ \A k \in 1 .. Len(a) + Len(b) :
           (a \o b)[k] = IF k <= Len(a) THEN a[k] ELSE b[k - Len(a)]
  BY <1>2, <1>3, ConcatProperties
<1> HIDE DEF a, b
<1>5. \A j \in 1 .. Len(s) - 1 : (a \o b)[j] = IF j < i THEN s[j] ELSE s[j + 1]
  <2> SUFFICES ASSUME NEW j \in 1 .. Len(s) - 1
               PROVE  (a \o b)[j] = IF j < i THEN s[j] ELSE s[j + 1]
    OBVIOUS
  <2>1. j \in 1 .. Len(a) + Len(b)
    BY <1>1, <1>2, <1>3
  <2>2. CASE j < i
    <3>1. j <= Len(a) /\ j \in 1 .. i - 1
      BY <1>1, <1>2, <2>2
    <3>2. QED
      BY <1>2, <1>4, <2>1, <2>2, <3>1
  <2>3. CASE ~(j < i)
    <3>1. ~(j <= Len(a)) /\ j - Len(a) \in 1 .. Len(s) - i /\ i + (j - Len(a)) = j + 1
      BY <1>1, <1>2, <2>3
    <3>2. (a \o b)[j] = b[j - Len(a)]
      BY <1>4, <2>1, <3>1
    <3>3. b[j - Len(a)] = s[i + (j - Len(a))]
      BY <1>3, <3>1
    <3>4. QED
      BY <2>3, <3>1, <3>2, <3>3
  <2>4. QED
    BY <2>2, <2>3
<1>6. RemoveAt(s, i) = a \o b
  BY DEF RemoveAt, a, b
<1>7. QED
  BY <1>1, <1>2, <1>3, <1>4, <1>5, <1>6

\* The elements of a sequence, written with its length.
LEMMA ToSetIsRange ==
  ASSUME NEW S, NEW s \in Seq(S)
  PROVE  /\ ToSet(s) = {s[k] : k \in 1 .. Len(s)}
         /\ ToSet(s) \subseteq S
BY ElementOfSeq, LenProperties DEF ToSet

\* No element occurs twice, written with the length.
LEMMA InjectiveByIndex ==
  ASSUME NEW S, NEW s \in Seq(S)
  PROVE  IsInjective(s) <=> \A j, k \in 1 .. Len(s) : s[j] = s[k] => j = k
BY LenProperties DEF IsInjective

\* erase(it) removes exactly the element under the iterator.
LEMMA RemoveAtFromSet ==
  ASSUME NEW S, NEW s \in Seq(S), NEW i \in 1 .. Len(s), IsInjective(s)
  PROVE  /\ IsInjective(RemoveAt(s, i))
         /\ ToSet(RemoveAt(s, i)) = ToSet(s) \ {s[i]}
<1> DEFINE r == RemoveAt(s, i)
<1>1. /\ r \in Seq(S)
      /\ Len(r) = Len(s) - 1
      /\ \A j \in 1 .. Len(s) - 1 : r[j] = IF j < i THEN s[j] ELSE s[j + 1]
  BY RemoveAtProperties
<1>2. Len(s) \in Nat
  BY LenProperties
<1>3. \A j, k \in 1 .. Len(s) : s[j] = s[k] => j = k
  BY InjectiveByIndex
<1> HIDE DEF r
<1>4. ASSUME NEW j \in 1 .. Len(r), NEW k \in 1 .. Len(r), r[j] = r[k]
      PROVE  j = k
  <2> DEFINE jj == IF j < i THEN j ELSE j + 1
             kk == IF k < i THEN k ELSE k + 1
  <2>1. jj \in 1 .. Len(s) /\ kk \in 1 .. Len(s)
    BY <1>1, <1>2
  <2>2. r[j] = s[jj] /\ r[k] = s[kk]
    BY <1>1, <1>2
  <2>3. jj = kk
    <3> HIDE DEF jj, kk
    <3>1. QED
      BY <1>3, <1>4, <2>1, <2>2
  <2>4. QED
    BY <1>1, <1>2, <2>3
<1>5. IsInjective(r)
  BY <1>1, <1>4, InjectiveByIndex
<1>6. \A j \in 1 .. Len(r) : r[j] \in ToSet(s) \ {s[i]}
  BY <1>1, <1>2, <1>3, ToSetIsRange
<1>7. ASSUME NEW x \in ToSet(s) \ {s[i]}
      PROVE  \E j \in 1 .. Len(r) : r[j] = x
  <2>1. PICK k \in 1 .. Len(s) : s[k] = x /\ k # i
    BY <1>7, ToSetIsRange
  <2>2. CASE k < i
    BY <1>1, <1>2, <2>1, <2>2
  <2>3. CASE k > i
    <3>1. k - 1 \in 1 .. Len(r) /\ ~(k - 1 < i) /\ (k - 1) + 1 = k
      BY <1>1, <1>2, <2>1, <2>3
    <3>2. r[k - 1] = s[k]
      BY <1>1, <3>1
    <3>3. QED
      BY <2>1, <3>1, <3>2
  <2>4. QED
    BY <1>2, <2>1, <2>2, <2>3
<1>8. ToSet(r) = ToSet(s) \ {s[i]}
  <2>1. ToSet(r) = {r[k] : k \in 1 .. Len(r)}
    BY <1>1, ToSetIsRange
  <2>2. QED
    BY <1>6, <1>7, <2>1
<1>9. QED
  BY <1>5, <1>8 DEF r

\* push: one element more, behind all others.
LEMMA AppendToSet ==
  ASSUME NEW S, NEW s \in Seq(S), NEW e \in S
  PROVE  /\ Append(s, e) \in Seq(S)
         /\ Len(Append(s, e)) = Len(s) + 1
         /\ ToSet(Append(s, e)) = ToSet(s) \cup {e}
         /\ IsInjective(s) /\ e \notin ToSet(s) => IsInjective(Append(s, e))
<1> DEFINE r == Append(s, e)
<1>1. Len(s) \in Nat
  BY LenProperties
<1>2. /\ r \in Seq(S)
      /\ Len(r) = Len(s) + 1
      /\ \A j \in 1 .. Len(s) : r[j] = s[j]
      /\ r[Len(s) + 1] = e
  BY <1>1
<1> HIDE DEF r
<1>3. ToSet(r) = {r[k] : k \in 1 .. Len(r)} /\ ToSet(s) = {s[k] : k \in 1 .. Len(s)}
  BY <1>2, ToSetIsRange
<1>4. \A j \in 1 .. Len(r) : j \in 1 .. Len(s) \/ j = Len(s) + 1
  BY <1>1, <1>2
<1>5. Len(s) + 1 \in 1 .. Len(r) /\ \A j \in 1 .. Len(s) : j \in 1 .. Len(r)
  BY <1>1, <1>2
<1>6. ToSet(r) = ToSet(s) \cup {e}
  BY <1>2, <1>3, <1>4, <1>5
<1>7. IsInjective(s) /\ e \notin ToSet(s) => IsInjective(r)
  <2> SUFFICES ASSUME IsInjective(s), e \notin ToSet(s)
               PROVE  \A j, k \in 1 .. Len(r) : r[j] = r[k] => j = k
    BY <1>2, InjectiveByIndex
  <2>1. \A j, k \in 1 .. Len(s) : s[j] = s[k] => j = k
    BY InjectiveByIndex
  <2>2. QED
    BY <1>2, <1>3, <1>4, <2>1
<1>8. QED
  BY <1>2, <1>6, <1>7 DEF r

\* pop: exactly the first element is gone.
LEMMA TailToSet ==
  ASSUME NEW S, NEW s \in Seq(S), s # <<>>, IsInjective(s)
  PROVE  /\ Head(s) \in ToSet(s)
         /\ Tail(s) \in Seq(S)
         /\ Len(Tail(s)) = Len(s) - 1
         /\ ToSet(Tail(s)) = ToSet(s) \ {Head(s)}
         /\ IsInjective(Tail(s))
<1> DEFINE r == Tail(s)
<1>1. Len(s) \in Nat \ {0}
  BY EmptySeq
<1>2. /\ Head(s) = s[1]
      /\ r \in Seq(S)
      /\ Len(r) = Len(s) - 1
      /\ \A j \in 1 .. Len(r) : r[j] = s[j + 1]
  BY HeadTailProperties
<1> HIDE DEF r
<1>3. \A j, k \in 1 .. Len(s) : s[j] = s[k] => j = k
  BY InjectiveByIndex
<1>4. ToSet(r) = {r[k] : k \in 1 .. Len(r)} /\ ToSet(s) = {s[k] : k \in 1 .. Len(s)}
  BY <1>2, ToSetIsRange
<1>5. \A j \in 1 .. Len(r) : j + 1 \in 1 .. Len(s) /\ j + 1 # 1
  BY <1>1, <1>2
<1>6. 1 \in 1 .. Len(s) /\ Head(s) \in ToSet(s)
  BY <1>1, <1>2, <1>4
<1>7. ASSUME NEW x \in ToSet(s) \ {Head(s)}
      PROVE  x \in ToSet(r)
  <2>1. PICK k \in 1 .. Len(s) : s[k] = x /\ k # 1
    BY <1>2, <1>4, <1>7
  <2>2. k - 1 \in 1 .. Len(r) /\ (k - 1) + 1 = k
    BY <1>1, <1>2, <2>1
  <2>3. QED
    BY <1>2, <1>4, <2>1, <2>2
<1>8. ToSet(r) = ToSet(s) \ {Head(s)}
  <2>1. \A j \in 1 .. Len(r) : r[j] \in ToSet(s) \ {Head(s)}
    BY <1>2, <1>3, <1>4, <1>5, <1>6
  <2>2. QED
    BY <1>4, <1>7, <2>1
<1>9. \A j, k \in 1 .. Len(r) : r[j] = r[k] => j = k
  BY <1>1, <1>2, <1>3, <1>5
<1>10. QED
  BY <1>2, <1>6, <1>8, <1>9, InjectiveByIndex DEF r

\* A queue and the record of what left it: a pop moves one element over and
\* leaves the whole unchanged, a push lengthens the whole.
LEMMA PopKeepsOrder ==
  ASSUME NEW S, NEW p \in Seq(S), NEW q \in Seq(S), q # <<>>
  PROVE  Append(p, Head(q)) \o Tail(q) = p \o q
<1> DEFINE l == Append(p, Head(q)) \o Tail(q)
           r == p \o q
<1>1. Len(p) \in Nat /\ Len(q) \in Nat \ {0}
  BY LenProperties, EmptySeq
<1>2. /\ Head(q) \in S
      /\ Head(q) = q[1]
      /\ Tail(q) \in Seq(S)
      /\ Len(Tail(q)) = Len(q) - 1
      /\ \A i \in 1 .. Len(Tail(q)) : Tail(q)[i] = q[i + 1]
  BY HeadTailProperties
<1>3. /\ Append(p, Head(q)) \in Seq(S)
      /\ Len(Append(p, Head(q))) = Len(p) + 1
      /\ \A i \in 1 .. Len(p) : Append(p, Head(q))[i] = p[i]
      /\ Append(p, Head(q))[Len(p) + 1] = Head(q)
  BY <1>1, <1>2
<1>4. /\ l \in Seq(S)
      /\ Len(l) = (Len(p) + 1) + (Len(q) - 1)
      /\ \A i \in 1 .. (Len(p) + 1) + (Len(q) - 1) :
           l[i] = IF i <= Len(p) + 1 THEN Append(p, Head(q))[i] ELSE Tail(q)[i - (Len(p) + 1)]
  BY <1>2, <1>3, ConcatProperties
<1>5. /\ r \in Seq(S)
      /\ Len(r) = Len(p) + Len(q)
      /\ \A i \in 1 .. Len(p) + Len(q) : r[i] = IF i <= Len(p) THEN p[i] ELSE q[i - Len(p)]
  BY ConcatProperties
<1> HIDE DEF l, r
<1>6. Len(l) = Len(r)
  BY <1>1, <1>4, <1>5
<1>7. ASSUME NEW i \in 1 .. Len(l)
      PROVE  l[i] = r[i]
  <2>1. CASE i <= Len(p)
    <3>1. i \in 1 .. Len(p) /\ i <= Len(p) + 1
      BY <1>1, <1>4, <2>1
    <3>2. QED
      BY <1>3, <1>4, <1>5, <1>6, <2>1, <3>1
  <2>2. CASE i = Len(p) + 1
    <3>1. ~(i <= Len(p)) /\ i - Len(p) = 1 /\ i <= Len(p) + 1
      BY <1>1, <2>2
    <3>2. l[i] = Head(q)
      BY <1>3, <1>4, <2>2, <3>1
    <3>3. r[i] = q[1]
      BY <1>5, <1>6, <3>1
    <3>4. QED
      BY <1>2, <3>2, <3>3
  <2>3. CASE i > Len(p) + 1
    <3>1. /\ ~(i <= Len(p)) /\ ~(i <= Len(p) + 1)
          /\ i - (Len(p) + 1) \in 1 .. Len(Tail(q))
          /\ (i - (Len(p) + 1)) + 1 = i - Len(p)
      BY <1>1, <1>2, <1>4, <2>3
    <3>2. l[i] = Tail(q)[i - (Len(p) + 1)]
      BY <1>4, <3>1
    <3>3. Tail(q)[i - (Len(p) + 1)] = q[i - Len(p)]
      BY <1>2, <3>1
    <3>4. r[i] = q[i - Len(p)]
      BY <1>5, <1>6, <3>1
    <3>5. QED
      BY <3>2, <3>3, <3>4
  <2>4. QED
    BY <1>1, <1>4, <2>1, <2>2, <2>3
<1>8. l = r
  BY <1>4, <1>5, <1>6, <1>7, SeqEqual
<1>9. QED
  BY <1>8 DEF l, r

LEMMA PushExtendsOrder ==
  ASSUME NEW S, NEW p \in Seq(S), NEW q \in Seq(S), NEW e \in S
  PROVE  p \o Append(q, e) = Append(p \o q, e)
<1>1. \A s \in Seq(S) : Append(s, e) = s \o <<e>>
  OBVIOUS
<1>2. <<e>> \in Seq(S) /\ p \o q \in Seq(S)
  BY ConcatProperties
<1>3. QED
  BY <1>1, <1>2, ConcatAssociative

\* A sequence without repetitions has as many elements as positions.
LEMMA CardinalityOfInjective ==
  ASSUME NEW S, NEW s \in Seq(S), IsInjective(s)
  PROVE  /\ IsFiniteSet(ToSet(s))
         /\ Cardinality(ToSet(s)) = Len(s)
<1>1. Len(s) \in Nat /\ s \in [1 .. Len(s) -> S]
  BY LenProperties
<1>2. \A j, k \in 1 .. Len(s) : s[j] = s[k] => j = k
  BY InjectiveByIndex
<1>3. ToSet(s) = {s[k] : k \in 1 .. Len(s)}
  BY ToSetIsRange
<1>4. s \in [1 .. Len(s) -> ToSet(s)]
  BY <1>1, <1>3
<1>5. s \in Bijection(1 .. Len(s), ToSet(s))
  BY <1>2, <1>3, <1>4 DEF Bijection, Injection, Surjection, IsInjective
<1>6. ExistsBijection(1 .. Len(s), ToSet(s))
  BY <1>5 DEF ExistsBijection
<1>7. QED
  BY <1>1, <1>6, FS_CountingElements, FS_NatBijection

\* A prefix, element by element.
LEMMA PrefixByIndex ==
  ASSUME NEW S, NEW s \in Seq(S), NEW t \in Seq(S),
         Len(s) <= Len(t), \A i \in 1 .. Len(s) : s[i] = t[i]
  PROVE  /\ IsPrefix(s, t)
         /\ s = SubSeq(t, 1, Len(s))
<1>1. Len(s) \in Nat /\ Len(t) \in Nat
  BY LenProperties
<1>2. \A i \in 1 .. Len(s) : t[i] \in S
  BY <1>1, ElementOfSeq
<1>3. /\ SubSeq(t, 1, Len(s)) \in Seq(S)
      /\ Len(SubSeq(t, 1, Len(s))) = IF 1 <= Len(s) THEN Len(s) - 1 + 1 ELSE 0
      /\ \A i \in 1 .. Len(s) - 1 + 1 : SubSeq(t, 1, Len(s))[i] = t[1 + i - 1]
  BY <1>1, <1>2, SubSeqProperties
<1>4. /\ Len(SubSeq(t, 1, Len(s))) = Len(s)
      /\ \A i \in 1 .. Len(s) : SubSeq(t, 1, Len(s))[i] = t[i]
  BY <1>1, <1>3
<1>5. s = SubSeq(t, 1, Len(s))
  BY <1>3, <1>4, SeqEqual
<1>6. SubSeq(s, 1, Len(s)) = s
  BY SubSeqFull
<1>7. QED
  BY <1>5, <1>6 DEF IsPrefix

\* The parts of a sequence without repetitions have no element in common.
LEMMA PartsAreDisjoint ==
  ASSUME NEW S, NEW s \in Seq(S), NEW t \in Seq(S), IsInjective(s \o t)
  PROVE  /\ ToSet(s) \cap ToSet(t) = {}
         /\ ToSet(s \o t) = ToSet(s) \cup ToSet(t)
         /\ IsInjective(s)
         /\ IsInjective(t)
<1> DEFINE r == s \o t
<1>1. Len(s) \in Nat /\ Len(t) \in Nat
  BY LenProperties
<1>2. /\ r \in Seq(S)
      /\ Len(r) = Len(s) + Len(t)
      /\ \A i \in 1 .. Len(s) + Len(t) : r[i] = IF i <= Len(s) THEN s[i] ELSE t[i - Len(s)]
  BY ConcatProperties
<1>3. \A j, k \in 1 .. Len(r) : r[j] = r[k] => j = k
  BY <1>2, InjectiveByIndex
<1> HIDE DEF r
<1>4. \A i \in 1 .. Len(s) : i \in 1 .. Len(r) /\ r[i] = s[i]
  BY <1>1, <1>2
<1>5. \A i \in 1 .. Len(t) : Len(s) + i \in 1 .. Len(r) /\ r[Len(s) + i] = t[i]
  <2> SUFFICES ASSUME NEW i \in 1 .. Len(t)
               PROVE  Len(s) + i \in 1 .. Len(r) /\ r[Len(s) + i] = t[i]
    OBVIOUS
  <2>1. /\ Len(s) + i \in 1 .. Len(s) + Len(t)
        /\ ~(Len(s) + i <= Len(s))
        /\ (Len(s) + i) - Len(s) = i
    BY <1>1
  <2>2. QED
    BY <1>2, <2>1
<1>6. \A i \in 1 .. Len(r) : \/ i \in 1 .. Len(s)
                             \/ i - Len(s) \in 1 .. Len(t) /\ Len(s) + (i - Len(s)) = i
  BY <1>1, <1>2
<1>7. /\ ToSet(s) = {s[k] : k \in 1 .. Len(s)}
      /\ ToSet(t) = {t[k] : k \in 1 .. Len(t)}
      /\ ToSet(r) = {r[k] : k \in 1 .. Len(r)}
  BY <1>2, ToSetIsRange
<1>8. ToSet(r) = ToSet(s) \cup ToSet(t)
  <2>1. \A i \in 1 .. Len(s) : s[i] \in ToSet(r)
    BY <1>4, <1>7
  <2>2. \A i \in 1 .. Len(t) : t[i] \in ToSet(r)
    BY <1>5, <1>7
  <2>3. ASSUME NEW i \in 1 .. Len(r)
        PROVE  r[i] \in ToSet(s) \cup ToSet(t)
    BY <1>4, <1>5, <1>6, <1>7
  <2>4. QED
    BY <1>7, <2>1, <2>2, <2>3
<1>9. ASSUME NEW i \in 1 .. Len(s), NEW j \in 1 .. Len(t), s[i] = t[j] PROVE FALSE
  <2>1. i = Len(s) + j
    BY <1>3, <1>4, <1>5, <1>9
  <2>2. QED
    BY <1>1, <2>1
<1>10. IsInjective(s)
  BY <1>3, <1>4, InjectiveByIndex
<1>11. \A j, k \in 1 .. Len(t) : t[j] = t[k] => j = k
  <2> SUFFICES ASSUME NEW j \in 1 .. Len(t), NEW k \in 1 .. Len(t), t[j] = t[k] PROVE j = k
    OBVIOUS
  <2>1. Len(s) + j = Len(s) + k
    BY <1>3, <1>5
  <2>2. QED
    BY <1>1, <2>1
<1>12. IsInjective(t)
  BY <1>11, InjectiveByIndex
<1>13. ToSet(s) \cap ToSet(t) = {}
  BY <1>7, <1>9
<1>14. QED
  BY <1>8, <1>10, <1>12, <1>13 DEF r

\* How many elements are chosen up to a position.
LEMMA ChosenCount ==
  ASSUME NEW s, NEW T, NEW n \in Nat
  PROVE  /\ IsFiniteSet(ChosenUpTo(s, T, n))
         /\ Cardinality(ChosenUpTo(s, T, n)) \in Nat
         /\ \A i \in ChosenUpTo(s, T, n) :
              Cardinality(ChosenUpTo(s, T, i)) \in 1 .. Cardinality(ChosenUpTo(s, T, n))
<1>1. \A k \in 1 .. n : ChosenUpTo(s, T, k) \subseteq ChosenUpTo(s, T, n)
  BY DEF ChosenUpTo
<1>2. ChosenUpTo(s, T, n) \subseteq 1 .. n
  BY DEF ChosenUpTo
<1>3. IsFiniteSet(1 .. n)
  BY FS_Interval
<1>4. IsFiniteSet(ChosenUpTo(s, T, n)) /\ Cardinality(ChosenUpTo(s, T, n)) \in Nat
  BY <1>2, <1>3, FS_Subset, FS_CardinalityType
<1>5. ASSUME NEW i \in ChosenUpTo(s, T, n)
      PROVE  Cardinality(ChosenUpTo(s, T, i)) \in 1 .. Cardinality(ChosenUpTo(s, T, n))
  <2>1. i \in 1 .. n /\ i \in ChosenUpTo(s, T, i)
    BY DEF ChosenUpTo
  <2>2. /\ IsFiniteSet(ChosenUpTo(s, T, i))
        /\ Cardinality(ChosenUpTo(s, T, i)) <= Cardinality(ChosenUpTo(s, T, n))
    BY <1>1, <1>4, <2>1, FS_Subset
  <2>3. /\ Cardinality(ChosenUpTo(s, T, i)) \in Nat
        /\ Cardinality(ChosenUpTo(s, T, i)) # 0
    BY <2>1, <2>2, FS_CardinalityType, FS_EmptySet
  <2>4. QED
    BY <1>4, <2>2, <2>3
<1>6. QED
  BY <1>4, <1>5

\* The sequence grows, the selection with it if the new element is to be chosen.
LEMMA SelectionGrows ==
  ASSUME NEW S, NEW a \in Seq(S), NEW s \in Seq(S), NEW e \in S, NEW T,
         IsSelection(a, s, T)
  PROVE  /\ e \in T => IsSelection(Append(a, e), Append(s, e), T)
         /\ e \notin T => IsSelection(a, Append(s, e), T)
<1> DEFINE r == Append(s, e)
           n == Len(s)
           C(q, i) == ChosenUpTo(q, T, i)
<1>1. n \in Nat
  BY LenProperties
<1>2. /\ r \in Seq(S)
      /\ Len(r) = n + 1
      /\ \A i \in 1 .. n : r[i] = s[i]
      /\ r[n + 1] = e
  BY AppendProperties
<1> HIDE DEF r
<1>3. \A i \in 1 .. n : C(r, i) = C(s, i)
  BY <1>1, <1>2, SMTT(20) DEF ChosenUpTo
<1>4. C(r, n) = C(s, n)
  BY <1>1, <1>2 DEF ChosenUpTo
<1>5. /\ IsFiniteSet(C(s, n))
      /\ Cardinality(C(s, n)) \in Nat
      /\ \A i \in C(s, n) : Cardinality(C(s, i)) \in 1 .. Cardinality(C(s, n))
  BY <1>1, ChosenCount
<1>6. /\ Len(a) = Cardinality(C(s, n))
      /\ \A i \in C(s, n) : a[Cardinality(C(s, i))] = s[i]
  BY DEF IsSelection
<1>7. C(s, n) \subseteq 1 .. n /\ n + 1 \notin C(s, n)
  BY <1>1 DEF ChosenUpTo
<1>8. ASSUME e \in T
      PROVE  IsSelection(Append(a, e), r, T)
  <2>1. C(r, n + 1) = C(s, n) \cup {n + 1}
    BY <1>1, <1>2, <1>8 DEF ChosenUpTo
  <2>2. Cardinality(C(r, n + 1)) = Cardinality(C(s, n)) + 1
    BY <1>5, <1>7, <2>1, FS_AddElement
  <2>3. /\ Len(Append(a, e)) = Len(a) + 1
        /\ \A i \in 1 .. Len(a) : Append(a, e)[i] = a[i]
        /\ Append(a, e)[Len(a) + 1] = e
    BY AppendProperties
  <2>4. Append(a, e)[Cardinality(C(r, n + 1))] = r[n + 1]
    BY <1>2, <1>6, <2>2, <2>3
  <2>5. ASSUME NEW i \in C(s, n)
        PROVE  Append(a, e)[Cardinality(C(r, i))] = r[i]
    <3>1. i \in 1 .. n /\ C(r, i) = C(s, i) /\ r[i] = s[i]
      BY <1>2, <1>3, <1>7
    <3>2. Cardinality(C(s, i)) \in 1 .. Len(a)
      BY <1>5, <1>6
    <3>3. QED
      BY <1>6, <2>3, <3>1, <3>2
  <2> HIDE DEF C
  <2>6. \A i \in C(r, n + 1) : Append(a, e)[Cardinality(C(r, i))] = r[i]
    BY <2>1, <2>4, <2>5
  <2>7. QED
    BY <1>2, <1>6, <2>2, <2>3, <2>6 DEF IsSelection, C
<1>9. ASSUME e \notin T
      PROVE  IsSelection(a, r, T)
  <2>1. C(r, n + 1) = C(s, n)
    BY <1>1, <1>2, <1>9 DEF ChosenUpTo
  <2>2. ASSUME NEW i \in C(s, n)
        PROVE  a[Cardinality(C(r, i))] = r[i]
    BY <1>2, <1>3, <1>6, <1>7
  <2> HIDE DEF C
  <2>3. QED
    BY <1>2, <1>6, <2>1, <2>2 DEF IsSelection, C
<1>10. QED
  BY <1>8, <1>9 DEF r

\* A sequence without its last element, and a sequence after a push.
LEMMA FrontAndLast ==
  ASSUME NEW S, NEW s \in Seq(S)
  PROVE  /\ s # <<>> => /\ Front(s) \in Seq(S)
                        /\ Last(s) \in S
                        /\ s = Append(Front(s), Last(s))
         /\ \A e \in S : Front(Append(s, e)) = s /\ Last(Append(s, e)) = e
<1>1. ASSUME NEW t \in Seq(S), t # <<>>
      PROVE  /\ Front(t) \in Seq(S)
             /\ Len(Front(t)) = Len(t) - 1
             /\ \A i \in 1 .. Len(t) - 1 : Front(t)[i] = t[i]
             /\ Last(t) \in S
             /\ Last(t) = t[Len(t)]
  <2>1. Len(t) \in Nat \ {0}
    BY <1>1, EmptySeq
  <2>2. \A i \in 1 .. Len(t) : t[i] \in S
    BY <2>1, ElementOfSeq
  <2>3. \A i \in 1 .. Len(t) - 1 : t[i] \in S
    BY <2>1, <2>2
  <2>4. /\ Front(t) \in Seq(S)
        /\ Len(Front(t)) = IF 1 <= Len(t) - 1 THEN Len(t) - 1 - 1 + 1 ELSE 0
        /\ \A i \in 1 .. (Len(t) - 1) - 1 + 1 : Front(t)[i] = t[1 + i - 1]
    BY <2>1, <2>3, SubSeqProperties DEF Front
  <2>5. Len(t) \in 1 .. Len(t)
    BY <2>1
  <2>6. Last(t) \in S /\ Last(t) = t[Len(t)]
    BY <2>2, <2>5 DEF Last
  <2>7. /\ Len(Front(t)) = Len(t) - 1
        /\ \A i \in 1 .. Len(t) - 1 : Front(t)[i] = t[i]
    <3>1. Len(Front(t)) = Len(t) - 1
      <4>1. CASE 1 <= Len(t) - 1
        <5>1. Len(Front(t)) = Len(t) - 1 - 1 + 1
          BY <2>4, <4>1
        <5>2. QED
          BY <2>1, <5>1
      <4>2. CASE ~(1 <= Len(t) - 1)
        <5>1. Len(Front(t)) = 0
          BY <2>4, <4>2
        <5>2. Len(t) = 1
          <6>1. Len(t) \in Nat /\ Len(t) # 0
            BY <2>1
          <6>2. \A n \in Nat : n # 0 /\ ~(1 <= n - 1) => n = 1
            OBVIOUS
          <6>3. QED
            BY <4>2, <6>1, <6>2
        <5>3. QED
          BY <5>1, <5>2
      <4>3. QED
        BY <4>1, <4>2
    <3>2. ASSUME NEW i \in 1 .. Len(t) - 1
          PROVE  Front(t)[i] = t[i]
      <4>1. i \in 1 .. (Len(t) - 1) - 1 + 1 /\ 1 + i - 1 = i
        BY <2>1
      <4>2. Front(t)[i] = t[1 + i - 1]
        BY <2>4, <4>1
      <4>3. QED
        BY <4>1, <4>2
    <3>3. QED
      BY <3>1, <3>2
  <2>8. QED
    BY <2>4, <2>6, <2>7
<1>2. ASSUME s # <<>>
      PROVE  /\ Front(s) \in Seq(S)
             /\ Last(s) \in S
             /\ s = Append(Front(s), Last(s))
  <2>1. /\ Front(s) \in Seq(S) /\ Last(s) \in S
        /\ Len(Front(s)) = Len(s) - 1
        /\ \A i \in 1 .. Len(s) - 1 : Front(s)[i] = s[i]
        /\ Last(s) = s[Len(s)]
        /\ Len(s) \in Nat \ {0}
    BY <1>1, <1>2, EmptySeq
  <2> DEFINE r == Append(Front(s), Last(s))
  <2>2. /\ r \in Seq(S)
        /\ Len(r) = Len(Front(s)) + 1
        /\ \A i \in 1 .. Len(Front(s)) : r[i] = Front(s)[i]
        /\ r[Len(Front(s)) + 1] = Last(s)
    BY <2>1, AppendProperties
  <2> HIDE DEF r
  <2>3. /\ Len(r) = Len(s)
        /\ \A i \in 1 .. Len(s) : s[i] = r[i]
    BY <2>1, <2>2
  <2>4. s = r
    BY <2>2, <2>3, SeqEqual
  <2>5. QED
    BY <2>1, <2>4 DEF r
<1>3. ASSUME NEW e \in S
      PROVE  Front(Append(s, e)) = s /\ Last(Append(s, e)) = e
  <2> DEFINE r == Append(s, e)
  <2>1. /\ r \in Seq(S) /\ r # <<>>
        /\ Len(r) = Len(s) + 1
        /\ \A i \in 1 .. Len(s) : r[i] = s[i]
        /\ r[Len(s) + 1] = e
        /\ Len(s) \in Nat
    BY AppendProperties, LenProperties
  <2> HIDE DEF r
  <2>2. /\ Front(r) \in Seq(S)
        /\ Len(Front(r)) = Len(r) - 1
        /\ \A i \in 1 .. Len(r) - 1 : Front(r)[i] = r[i]
        /\ Last(r) = r[Len(r)]
    BY <1>1, <2>1
  <2>3. /\ Len(Front(r)) = Len(s)
        /\ \A i \in 1 .. Len(Front(r)) : Front(r)[i] = s[i]
        /\ Last(r) = e
    BY <2>1, <2>2
  <2>4. Front(r) = s
    BY <2>2, <2>3, SeqEqual
  <2>5. QED
    BY <2>3, <2>4 DEF r
<1>4. QED
  BY <1>2, <1>3

\* The last element is no longer to be chosen.
LEMMA SelectionWithoutLast ==
  ASSUME NEW S, NEW a \in Seq(S), NEW s \in Seq(S), NEW e \in S, NEW T,
         IsInjective(s), s # <<>>, Last(s) = e, e \in T,
         IsSelection(Append(a, e), s, T)
  PROVE  IsSelection(a, s, T \ {e})
<1> DEFINE n == Len(s)
           C(i) == ChosenUpTo(s, T, i)
           D(i) == ChosenUpTo(s, T \ {e}, i)
<1>1. n \in Nat \ {0} /\ n \in 1 .. n /\ s[n] = e
  BY EmptySeq DEF Last
<1>2. \A j, k \in 1 .. n : s[j] = s[k] => j = k
  BY InjectiveByIndex
<1>3. D(n) = C(n) \ {n} /\ n \in C(n)
  BY <1>1, <1>2 DEF ChosenUpTo
<1>4. \A i \in 1 .. n - 1 : D(i) = C(i)
  BY <1>1, <1>2 DEF ChosenUpTo
<1>5. /\ Len(Append(a, e)) = Len(a) + 1
      /\ \A i \in 1 .. Len(a) : Append(a, e)[i] = a[i]
      /\ Len(a) \in Nat
  BY AppendProperties, LenProperties
<1>6. /\ IsFiniteSet(C(n)) /\ Cardinality(C(n)) \in Nat
      /\ \A i \in D(n) : Cardinality(D(i)) \in 1 .. Cardinality(D(n))
  BY <1>1, ChosenCount
<1>7. Cardinality(D(n)) = Cardinality(C(n)) - 1
  BY <1>3, <1>6, FS_RemoveElement
<1>8. /\ Len(Append(a, e)) = Cardinality(C(n))
      /\ \A i \in C(n) : Append(a, e)[Cardinality(C(i))] = s[i]
  BY DEF IsSelection
<1>9. Len(a) = Cardinality(D(n))
  BY <1>5, <1>6, <1>7, <1>8
<1>10. D(n) \subseteq 1 .. n
  BY DEF ChosenUpTo
<1>11. ASSUME NEW i \in D(n)
       PROVE  a[Cardinality(D(i))] = s[i]
  <2>1. i \in C(n) /\ i \in 1 .. n - 1
    <3>1. i \in C(n) /\ i # n
      BY <1>3
    <3>2. i \in 1 .. n
      BY <1>10
    <3>3. QED
      BY <1>1, <3>1, <3>2
  <2>2. Cardinality(D(i)) \in 1 .. Len(a) /\ D(i) = C(i)
    BY <1>4, <1>6, <1>9, <2>1
  <2>3. QED
    BY <1>5, <1>8, <2>1, <2>2
<1> HIDE DEF D
<1>12. QED
  BY <1>9, <1>11 DEF IsSelection, D

\* Nothing is chosen of nothing.
LEMMA SelectionOfNothing ==
  ASSUME NEW T
  PROVE  IsSelection(<<>>, <<>>, T)
<1>1. Len(<<>>) = 0
  OBVIOUS
<1>2. ChosenUpTo(<<>>, T, 0) = {}
  BY DEF ChosenUpTo
<1>3. QED
  BY <1>1, <1>2, FS_EmptySet DEF IsSelection

-----------------------------------------------------------------------------
(* Loops. *)

\* "Less than" as a relation.
Less == {p \in Nat \X Nat : p[1] < p[2]}

\* It is well-founded.
LEMMA LessIsWellFounded == IsWellFoundedOn(Less, Nat)
BY NatLessThanWellFounded DEF OpToRel, Less

\* A set of natural numbers that is not empty has a least element.
LEMMA LeastElement ==
  ASSUME NEW S \in SUBSET Nat, S # {}
  PROVE  Min(S) \in S /\ \A n \in S : Min(S) <= n
<1>1. PICK x \in S : \A y \in S : <<y, x>> \notin Less
  BY LessIsWellFounded, WFMin
<1>2. ASSUME NEW y \in S PROVE x <= y
  <2>1. <<y, x>> \in Nat \X Nat /\ <<y, x>>[1] = y /\ <<y, x>>[2] = x
    OBVIOUS
  <2>2. ~(y < x)
    BY <1>1, <2>1 DEF Less
  <2>3. QED
    BY <2>2
<1>3. QED
  BY <1>2 DEF Min

\* Induction, stated of a set instead of a formula.
LEMMA InductionOnSet ==
  ASSUME NEW P, 0 \in P, \A n \in Nat : n \in P => n + 1 \in P
  PROVE  \A n \in Nat : n \in P
<1> SUFFICES ASSUME NEW m \in Nat, m \notin P PROVE FALSE
  OBVIOUS
<1> DEFINE N == {n \in Nat : n \notin P}
<1>1. N \in SUBSET Nat /\ N # {}
  OBVIOUS
<1>2. PICK x \in N : \A n \in N : x <= n
  BY <1>1, LeastElement
<1>3. x \in Nat /\ x # 0 /\ x \notin P
  OBVIOUS
<1>4. x - 1 \in Nat /\ ~(x <= x - 1)
  BY <1>3
<1>5. x - 1 \in P
  BY <1>2, <1>4
<1>6. x \in P
  BY <1>4, <1>5
<1>7. QED
  BY <1>3, <1>6

\* The states of a loop of n rounds, round k leading from a state s to F[k][s].
IsRun(g, s0, F, n) == g[0] = s0 /\ \A k \in 1 .. n : g[k] = F[k][g[k - 1]]

\* A loop of n rounds has its states: there is the function that a recursion on the
\* number of the round defines, if each round leads from a state to a state.
LEMMA LoopStates ==
  ASSUME NEW S, NEW s0 \in S, NEW F \in [Nat -> [S -> S]], NEW n \in Nat
  PROVE  \E g \in [0 .. n -> S] : IsRun(g, s0, F, n)
<1> DEFINE Run(g, m) == /\ g \in [0 .. m -> S]
                        /\ g[0] = s0
                        /\ \A k \in 1 .. m : g[k] = F[k][g[k - 1]]
           P == {m \in Nat : \E g : Run(g, m)}
<1>1. 0 \in P
  <2>1. Run([k \in 0 .. 0 |-> s0], 0)
    OBVIOUS
  <2>2. QED
    BY <2>1
<1>2. ASSUME NEW m \in Nat, m \in P PROVE m + 1 \in P
  <2>1. PICK g : Run(g, m)
    BY <1>2
  <2> DEFINE h == [k \in 0 .. m + 1 |-> IF k <= m THEN g[k] ELSE F[m + 1][g[m]]]
  <2>2. h \in [0 .. m + 1 -> S] /\ h[0] = s0
    BY <2>1
  <2>3. ASSUME NEW k \in 1 .. m + 1 PROVE h[k] = F[k][h[k - 1]]
    <3>1. CASE k <= m
      <4>1. k \in 1 .. m /\ k - 1 \in 0 .. m /\ k - 1 <= m /\ k \in 0 .. m + 1 /\ k - 1 \in 0 .. m + 1
        BY <3>1
      <4>2. QED
        BY <2>1, <3>1, <4>1
    <3>2. CASE k = m + 1
      <4>1. k - 1 = m /\ ~(k <= m) /\ m \in 0 .. m + 1 /\ m <= m
        BY <3>2
      <4>2. QED
        BY <3>2, <4>1
    <3>3. QED
      BY <3>1, <3>2
  <2>4. Run(h, m + 1)
    BY <2>2, <2>3
  <2> HIDE DEF Run, h
  <2>5. QED
    BY <2>4
<1>3. n \in P
  <2> HIDE DEF P
  <2>1. \A m \in Nat : m \in P
    BY <1>1, <1>2, InductionOnSet
  <2>2. QED
    BY <2>1
<1>4. PICK g : Run(g, n)
  BY <1>3
<1>5. QED
  BY <1>4 DEF IsRun

\* The states of a loop stay in a set that no round leads out of.
LEMMA LoopInvariant ==
  ASSUME NEW S, NEW n \in Nat, NEW w, DOMAIN w = 0 .. n, w = [k \in 0 .. n |-> w[k]],
         w[0] \in S, \A k \in 1 .. n : w[k - 1] \in S => w[k] \in S
  PROVE  w \in [0 .. n -> S]
<1> DEFINE P == {k \in Nat : k <= n => w[k] \in S}
<1>1. 0 \in P
  OBVIOUS
<1>2. ASSUME NEW k \in Nat, k \in P PROVE k + 1 \in P
  <2>1. CASE k + 1 <= n
    <3>1. k + 1 \in 1 .. n /\ (k + 1) - 1 = k /\ w[k] \in S
      BY <1>2, <2>1
    <3>2. w[k + 1] \in S
      BY <3>1
    <3>3. QED
      BY <3>2
  <2>2. CASE ~(k + 1 <= n)
    BY <2>2
  <2>3. QED
    BY <2>1, <2>2
<1>3. \A k \in Nat : k \in P
  <2> HIDE DEF P
  <2>1. QED
    BY <1>1, <1>2, InductionOnSet
<1>4. \A k \in 0 .. n : w[k] \in S
  <2>1. \A k \in 0 .. n : k \in Nat /\ k <= n
    OBVIOUS
  <2>2. QED
    BY <1>3, <2>1
<1>5. QED
  BY <1>4

-----------------------------------------------------------------------------
(* Sequences of octets, put together and changed. *)

\* Two sequences of octets are one.
LEMMA Joined ==
  ASSUME NEW c \in Seq(Nat), NEW d \in Seq(Nat)
  PROVE  \E e \in Seq(Nat) : e = c \o d
<1>1. c \o d \in Seq(Nat)
  OBVIOUS
<1>2. QED
  BY <1>1, Zenon

\* g are the sequences that come together, one sequence more at each step.
IsFlattening(g, seqs) ==
  /\ g \in [0 .. Len(seqs) -> Seq(Nat)]
  /\ g[0] = <<>>
  /\ \A k \in 1 .. Len(seqs) : g[k] = g[k - 1] \o seqs[k]

\* FlattenSeq puts one sequence behind the other.
LEMMA FlattenLoop ==
  ASSUME NEW seqs \in Seq(Seq(Nat))
  PROVE  \E g : IsFlattening(g, seqs) /\ FlattenSeq(seqs) = g[Len(seqs)]
<1> DEFINE n == Len(seqs)
           Round == [k \in Nat |-> [s \in Seq(Nat) |-> s \o (IF k \in 1 .. n THEN seqs[k] ELSE <<>>)]]
           T(f) == f = [i \in 1 .. n |-> IF i = 1 THEN seqs[i] ELSE f[i - 1] \o seqs[i]]
<1>1. n \in Nat /\ \A k \in 1 .. n : seqs[k] \in Seq(Nat)
  OBVIOUS
<1>2. <<>> \in Seq(Nat) /\ \A s \in Seq(Nat) : <<>> \o s = s
  OBVIOUS
<1>3. CASE n = 0
  <2>1. FlattenSeq(seqs) = <<>>
    BY <1>3 DEF FlattenSeq
  <2> DEFINE g == [k \in 0 .. 0 |-> <<>>]
  <2>2. IsFlattening(g, seqs)
    BY <1>2, <1>3 DEF IsFlattening
  <2>3. FlattenSeq(seqs) = g[n]
    BY <1>3, <2>1
  <2> HIDE DEF g
  <2>4. QED
    BY <2>2, <2>3
<1>4. CASE n # 0
  <2>1. Round \in [Nat -> [Seq(Nat) -> Seq(Nat)]]
    <3>1. \A k \in Nat, s \in Seq(Nat) : s \o (IF k \in 1 .. n THEN seqs[k] ELSE <<>>) \in Seq(Nat)
      <4> SUFFICES ASSUME NEW k \in Nat, NEW s \in Seq(Nat)
                   PROVE  s \o (IF k \in 1 .. n THEN seqs[k] ELSE <<>>) \in Seq(Nat)
        OBVIOUS
      <4>1. PICK t \in Seq(Nat) : t = IF k \in 1 .. n THEN seqs[k] ELSE <<>>
        BY <1>1, <1>2
      <4>2. s \o t \in Seq(Nat)
        OBVIOUS
      <4>3. QED
        BY <4>1, <4>2
    <3>2. QED
      BY <3>1, Zenon
  <2>2. PICK v \in [0 .. n -> Seq(Nat)] : IsRun(v, <<>>, Round, n)
    <3> HIDE DEF Round, n
    <3>1. QED
      BY <1>1, <1>2, <2>1, LoopStates
  <2>3. v[0] = <<>> /\ \A k \in 1 .. n : v[k] = v[k - 1] \o seqs[k]
    <3>1. v[0] = <<>> /\ \A k \in 1 .. n : v[k] = Round[k][v[k - 1]]
      BY <2>2 DEF IsRun
    <3>2. ASSUME NEW k \in 1 .. n PROVE v[k] = v[k - 1] \o seqs[k]
      <4>1. k \in Nat /\ k - 1 \in 0 .. n
        BY <1>1
      <4>2. k \in Nat /\ v[k - 1] \in Seq(Nat) /\ k \in 1 .. n
        BY <4>1
      <4>3. Round[k][v[k - 1]] = v[k - 1] \o (IF k \in 1 .. n THEN seqs[k] ELSE <<>>)
        BY <4>2, Zenon
      <4>4. QED
        BY <3>1, <4>2, <4>3, Zenon
    <3>3. QED
      BY <3>1, <3>2
  <2>4. \E f : T(f)
    <3> DEFINE f == [i \in 1 .. n |-> v[i]]
    <3>1. ASSUME NEW i \in 1 .. n PROVE f[i] = IF i = 1 THEN seqs[i] ELSE f[i - 1] \o seqs[i]
      <4>1. f[i] = v[i - 1] \o seqs[i]
        BY <2>3
      <4>2. CASE i = 1
        <5>1. v[0] = <<>> /\ i - 1 = 0 /\ seqs[i] \in Seq(Nat)
          BY <1>1, <2>3, <4>2
        <5>2. QED
          BY <1>2, <4>1, <4>2, <5>1
      <4>3. CASE i # 1
        <5>1. i - 1 \in 1 .. n
          BY <1>1, <4>3
        <5>2. f[i - 1] = v[i - 1]
          BY <5>1
        <5>3. QED
          BY <4>1, <4>3, <5>2
      <4>4. QED
        BY <4>2, <4>3
    <3>2. T(f)
      <4> DEFINE e(i) == IF i = 1 THEN seqs[i] ELSE f[i - 1] \o seqs[i]
      <4>1. \A i \in 1 .. n : f[i] = e(i)
        BY <3>1
      <4>2. f = [i \in 1 .. n |-> f[i]]
        OBVIOUS
      <4> HIDE DEF e, f
      <4>3. f = [i \in 1 .. n |-> e(i)]
        BY <4>1, <4>2
      <4>4. QED
        BY <4>3 DEF e
    <3>3. QED
      BY <3>2
  <2> DEFINE w == CHOOSE f : T(f)
  <2>5. FlattenSeq(seqs) = w[n]
    BY <1>4 DEF FlattenSeq
  <2>6. T(w)
    <3> HIDE DEF T
    <3>1. QED
      BY <2>4
  <2> HIDE DEF w
  <2>7. \A i \in 1 .. n : w[i] = IF i = 1 THEN seqs[i] ELSE w[i - 1] \o seqs[i]
    BY <2>6
  <2> DEFINE g == [k \in 0 .. n |-> IF k = 0 THEN <<>> ELSE w[k]]
  <2>8. DOMAIN g = 0 .. n /\ g = [k \in 0 .. n |-> g[k]] /\ g[0] = <<>> /\ \A k \in 1 .. n : g[k] = w[k]
    BY <1>1
  <2> HIDE DEF g
  <2>9. g[1] = seqs[1] /\ \A k \in 2 .. n : g[k] = g[k - 1] \o seqs[k]
    <3>1. 1 \in 1 .. n
      BY <1>1, <1>4
    <3>2. g[1] = seqs[1]
      BY <2>7, <2>8, <3>1
    <3>3. ASSUME NEW k \in 2 .. n PROVE g[k] = g[k - 1] \o seqs[k]
      <4>1. k \in 1 .. n /\ k - 1 \in 1 .. n /\ k # 1
        BY <1>1
      <4>2. g[k] = w[k] /\ g[k - 1] = w[k - 1]
        BY <2>8, <4>1
      <4>3. w[k] = w[k - 1] \o seqs[k]
        BY <2>7, <4>1
      <4>4. QED
        BY <4>2, <4>3
    <3>4. QED
      BY <3>2, <3>3
  <2>10. ASSUME NEW k \in 1 .. n PROVE g[k] = g[k - 1] \o seqs[k]
    <3>1. CASE k = 1
      <4>1. g[0] \o seqs[1] = seqs[1] /\ k - 1 = 0
        BY <1>1, <1>2, <2>8, <3>1
      <4>2. QED
        BY <2>9, <3>1, <4>1
    <3>2. CASE k # 1
      <4>1. k \in 2 .. n
        BY <3>2
      <4>2. QED
        BY <2>9, <4>1
    <3>3. QED
      BY <3>1, <3>2
  <2>11. g \in [0 .. n -> Seq(Nat)]
    <3>1. g[0] \in Seq(Nat)
      BY <1>2, <2>8
    <3>2. ASSUME NEW k \in 1 .. n, g[k - 1] \in Seq(Nat) PROVE g[k] \in Seq(Nat)
      <4>1. PICK s \in Seq(Nat), t \in Seq(Nat) : s = g[k - 1] /\ t = seqs[k]
        BY <1>1, <3>2
      <4>2. s \o t \in Seq(Nat)
        OBVIOUS
      <4>3. QED
        BY <2>10, <4>1, <4>2
    <3>3. \A k \in 1 .. n : g[k - 1] \in Seq(Nat) => g[k] \in Seq(Nat)
      BY <3>2
    <3> HIDE DEF n
    <3>4. QED
      BY <1>1, <2>8, <3>1, <3>3, LoopInvariant
  <2>12. IsFlattening(g, seqs)
    BY <2>8, <2>10, <2>11 DEF IsFlattening
  <2>13. FlattenSeq(seqs) = g[n]
    <3>1. n \in 1 .. n
      BY <1>1, <1>4
    <3>2. QED
      BY <2>5, <2>8, <3>1
  <2>14. QED
    BY <2>12, <2>13
<1>5. QED
  BY <1>3, <1>4

\* A sequence in which the element q was replaced by x.
Replaced(c, q, x) == [c EXCEPT ![q] = x]

\* r is the sequence c, but for the element q, which is x.
IsReplaced(r, c, q, x) ==
  /\ r \in Seq(Nat)
  /\ Len(r) = Len(c)
  /\ \A k \in 1 .. Len(c) : r[k] = IF k = q THEN x ELSE c[k]

\* That is what it is.
LEMMA ReplacedForm ==
  ASSUME NEW c \in Seq(Nat), NEW q \in 1 .. Len(c), NEW x \in Nat
  PROVE  IsReplaced(Replaced(c, q, x), c, q, x)
BY ExceptSeq DEF Replaced, IsReplaced

\* e are the sequences c and d, one behind the other.
IsJoined(e, c, d) ==
  /\ e \in Seq(Nat)
  /\ Len(e) = Len(c) + Len(d)
  /\ \A k \in 1 .. Len(c) + Len(d) : e[k] = IF k <= Len(c) THEN c[k] ELSE d[k - Len(c)]

\* So they are.
LEMMA JoinedForm ==
  ASSUME NEW c \in Seq(Nat), NEW d \in Seq(Nat)
  PROVE  IsJoined(c \o d, c, d)
BY ConcatProperties DEF IsJoined

\* Two sequences of octets with the same elements are the same.
LEMMA SameOctets ==
  ASSUME NEW c \in Seq(Nat), NEW d \in Seq(Nat), Len(c) = Len(d), \A k \in 1 .. Len(c) : c[k] = d[k]
  PROVE  c = d
BY SeqEqual

\* An element of the first of two sequences is replaced.
LEMMA ReplacedInFirst ==
  ASSUME NEW c \in Seq(Nat), NEW d \in Seq(Nat), NEW q \in 1 .. Len(c), NEW x \in Nat
  PROVE  /\ q \in 1 .. Len(c \o d)
         /\ Replaced(c, q, x) \o d = Replaced(c \o d, q, x)
<1>1. PICK n \in Nat, l \in Nat : n = Len(c) /\ l = Len(d)
  OBVIOUS
<1>2. PICK e \in Seq(Nat) : e = c \o d /\ IsJoined(e, c, d)
  BY Joined, JoinedForm
<1>3. Len(e) = n + l /\ \A k \in 1 .. n + l : e[k] = IF k <= n THEN c[k] ELSE d[k - n]
  BY <1>1, <1>2 DEF IsJoined
<1>4. PICK c2 : c2 = Replaced(c, q, x) /\ IsReplaced(c2, c, q, x)
  BY ReplacedForm
<1>5. c2 \in Seq(Nat) /\ Len(c2) = n /\ \A k \in 1 .. n : c2[k] = IF k = q THEN x ELSE c[k]
  BY <1>1, <1>4 DEF IsReplaced
<1>6. q \in 1 .. Len(e) /\ q <= n
  BY <1>1, <1>3
<1>7. PICK e2 : e2 = Replaced(e, q, x) /\ IsReplaced(e2, e, q, x)
  BY <1>6, ReplacedForm
<1>8. e2 \in Seq(Nat) /\ Len(e2) = n + l /\ \A k \in 1 .. n + l : e2[k] = IF k = q THEN x ELSE e[k]
  BY <1>3, <1>7 DEF IsReplaced
<1>9. PICK f \in Seq(Nat) : f = c2 \o d /\ IsJoined(f, c2, d)
  BY <1>5, Joined, JoinedForm
<1>10. Len(f) = n + l /\ \A k \in 1 .. n + l : f[k] = IF k <= n THEN c2[k] ELSE d[k - n]
  BY <1>1, <1>5, <1>9 DEF IsJoined
<1>11. ASSUME NEW k \in 1 .. n + l PROVE f[k] = e2[k]
  <2>1. CASE k <= n
    <3>1. k \in 1 .. n
      BY <2>1
    <3>2. f[k] = IF k = q THEN x ELSE c[k]
      BY <1>5, <1>10, <2>1, <3>1
    <3>3. e2[k] = IF k = q THEN x ELSE c[k]
      BY <1>3, <1>8, <2>1
    <3>4. QED
      BY <3>2, <3>3
  <2>2. CASE ~(k <= n)
    <3>1. k # q
      BY <1>6, <2>2
    <3>2. QED
      BY <1>3, <1>8, <1>10, <2>2, <3>1
  <2>3. QED
    BY <2>1, <2>2
<1>12. f = e2
  <2>1. Len(f) = Len(e2) /\ \A k \in 1 .. Len(f) : f[k] = e2[k]
    BY <1>8, <1>10, <1>11
  <2>2. QED
    BY <1>8, <2>1, SameOctets
<1>13. QED
  BY <1>2, <1>4, <1>6, <1>7, <1>9, <1>12, Zenon

\* An element of the second one.
LEMMA ReplacedInSecond ==
  ASSUME NEW c \in Seq(Nat), NEW d \in Seq(Nat), NEW q \in 1 .. Len(d), NEW x \in Nat
  PROVE  /\ Len(c) + q \in 1 .. Len(c \o d)
         /\ c \o Replaced(d, q, x) = Replaced(c \o d, Len(c) + q, x)
<1>1. PICK n \in Nat, l \in Nat : n = Len(c) /\ l = Len(d)
  OBVIOUS
<1>2. PICK e \in Seq(Nat) : e = c \o d /\ IsJoined(e, c, d)
  BY Joined, JoinedForm
<1>3. Len(e) = n + l /\ \A k \in 1 .. n + l : e[k] = IF k <= n THEN c[k] ELSE d[k - n]
  BY <1>1, <1>2 DEF IsJoined
<1>4. PICK d2 : d2 = Replaced(d, q, x) /\ IsReplaced(d2, d, q, x)
  BY ReplacedForm
<1>5. d2 \in Seq(Nat) /\ Len(d2) = l /\ \A k \in 1 .. l : d2[k] = IF k = q THEN x ELSE d[k]
  BY <1>1, <1>4 DEF IsReplaced
<1>6. PICK r \in Nat : r = n + q /\ r \in 1 .. Len(e)
  <2>1. n + q \in Nat /\ n + q \in 1 .. n + l
    BY <1>1
  <2>2. QED
    BY <1>3, <2>1, Zenon
<1>7. PICK e2 : e2 = Replaced(e, r, x) /\ IsReplaced(e2, e, r, x)
  BY <1>6, ReplacedForm
<1>8. e2 \in Seq(Nat) /\ Len(e2) = n + l /\ \A k \in 1 .. n + l : e2[k] = IF k = r THEN x ELSE e[k]
  BY <1>3, <1>7 DEF IsReplaced
<1>9. PICK f \in Seq(Nat) : f = c \o d2 /\ IsJoined(f, c, d2)
  BY <1>5, Joined, JoinedForm
<1>10. Len(f) = n + l /\ \A k \in 1 .. n + l : f[k] = IF k <= n THEN c[k] ELSE d2[k - n]
  BY <1>1, <1>5, <1>9 DEF IsJoined
<1>11. ASSUME NEW k \in 1 .. n + l PROVE f[k] = e2[k]
  <2>1. CASE k <= n
    <3>1. k # r
      BY <1>6, <2>1
    <3>2. QED
      BY <1>3, <1>8, <1>10, <2>1, <3>1
  <2>2. CASE ~(k <= n)
    <3>1. PICK j \in 1 .. l : j = k - n /\ (j = q <=> k = r)
      BY <1>6, <2>2
    <3>2. f[k] = IF j = q THEN x ELSE d[j]
      BY <1>5, <1>10, <2>2, <3>1
    <3>3. e2[k] = IF k = r THEN x ELSE d[j]
      BY <1>3, <1>8, <2>2, <3>1
    <3>4. QED
      BY <3>1, <3>2, <3>3
  <2>3. QED
    BY <2>1, <2>2
<1>12. f = e2
  <2>1. Len(f) = Len(e2) /\ \A k \in 1 .. Len(f) : f[k] = e2[k]
    BY <1>8, <1>10, <1>11
  <2>2. QED
    BY <1>8, <2>1, SameOctets
<1>13. QED
  BY <1>1, <1>2, <1>4, <1>6, <1>7, <1>9, <1>12, Zenon
=============================================================================
