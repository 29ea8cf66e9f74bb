--------------------------- MODULE RoutingProofs ---------------------------
(***************************************************************************)
(* Theorems about Routing, with their proofs: for every content of the     *)
(* database.  First what the proofs need to know of numbers and sequences, *)
(* then of the lines and sections the renderer writes, then the theorems.  *)
(***************************************************************************)
EXTENDS Routing, SequenceTheorems, FiniteSetTheorems, WellFoundedInduction, TLAPS

-----------------------------------------------------------------------------
(* Numbers.                                                                *)

\* A set of natural numbers that is not empty has a least element.
LEMMA Least ==
  ASSUME NEW S \in SUBSET Nat, S # {}
  PROVE  \E n \in S : \A m \in S : n <= m
<1> DEFINE T == {1..n : n \in S}
<1>1. IsWellFoundedOn(StrictSubsetOrdering(Nat), FiniteSubsetsOf(Nat))
  BY FS_StrictSubsetOrderingWellFounded
<1>2. \A n \in S : 1..n \in SUBSET Nat /\ IsFiniteSet(1..n)
  BY FS_Interval
<1>3. T \subseteq FiniteSubsetsOf(Nat) /\ T # {}
  BY <1>2 DEF FiniteSubsetsOf
<1>4. \E X \in T : \A Y \in T : ~(<<Y, X>> \in StrictSubsetOrdering(Nat))
  BY <1>1, <1>3, WFMin, Zenon
<1>5. PICK n \in S : \A m \in S : ~(<<1..m, 1..n>> \in StrictSubsetOrdering(Nat))
  BY <1>4
<1>6. ASSUME NEW m \in S, m < n PROVE FALSE
  <2>1. 1..m \subseteq 1..n /\ n \in 1..n /\ n \notin 1..m
    BY <1>6
  <2>2. <<1..m, 1..n>> \in (SUBSET Nat) \X (SUBSET Nat)
    BY <1>2
  <2>3. <<1..m, 1..n>> \in StrictSubsetOrdering(Nat)
    BY <2>1, <2>2 DEF StrictSubsetOrdering
  <2> QED
    BY <2>3, <1>5
<1> QED
  BY <1>6

\* The least of a set, which Min picks.
LEMMA MinIsLeast ==
  ASSUME NEW S \in SUBSET Nat, S # {}
  PROVE  Min(S) \in S /\ \A m \in S : Min(S) <= m
BY Least DEF Min

\* Induction, over a set of numbers.
LEMMA Induction ==
  ASSUME NEW S \in SUBSET Nat, 0 \in S, \A n \in S : n + 1 \in S
  PROVE  \A n \in Nat : n \in S
<1> SUFFICES ASSUME Nat \ S # {} PROVE FALSE
  OBVIOUS
<1>1. PICK n \in Nat \ S : \A m \in Nat \ S : n <= m
  BY Least
<1>2. n # 0 /\ n - 1 \in Nat /\ n - 1 \notin Nat \ S
  BY <1>1
<1> QED
  BY <1>1, <1>2

-----------------------------------------------------------------------------
(* Sequences, of anything.                                                 *)

Sequence(s) == s \in Seq(Range(s))

\* What a sequence over a set is.
LEMMA SequenceOf ==
  ASSUME NEW S, NEW s \in Seq(S)
  PROVE  Sequence(s)
BY SeqOfRange DEF Sequence

\* A function over an interval from one is a sequence.
LEMMA Listed ==
  ASSUME NEW n \in Nat, NEW f, DOMAIN f = 1..n, f = [i \in 1..n |-> f[i]]
  PROVE  Sequence(f) /\ Len(f) = n
<1>1. f \in [1..n -> Range(f)]
  BY DEF Range
<1>2. f \in Seq(Range(f))
  BY <1>1, SeqDef
<1> QED
  BY <1>2, LenProperties DEF Sequence

\* The length of a sequence and where it is defined.
LEMMA SequenceDomain ==
  ASSUME NEW s, Sequence(s)
  PROVE  Len(s) \in Nat /\ DOMAIN s = 1..Len(s) /\ s = [i \in 1..Len(s) |-> s[i]]
BY LenProperties DEF Sequence

\* The sequence of no element.
LEMMA NoElement == Sequence(<<>>) /\ Len(<<>>) = 0 /\ DOMAIN <<>> = {}
<1>1. <<>> \in Seq({}) /\ Len(<<>>) = 0
  BY EmptySeq
<1>2. Sequence(<<>>)
  BY <1>1, SequenceOf, Zenon
<1>3. DOMAIN <<>> = {}
  OBVIOUS
<1> QED
  BY <1>1, <1>2, <1>3

\* The sequence of one element.
LEMMA OneElement ==
  ASSUME NEW x
  PROVE  Sequence(<<x>>) /\ Len(<<x>>) = 1 /\ DOMAIN <<x>> = {1} /\ <<x>>[1] = x
<1>1. <<x>> \in Seq({x}) /\ Len(<<x>>) = 1 /\ <<x>>[1] = x
  OBVIOUS
<1>2. Sequence(<<x>>)
  BY <1>1, SequenceOf, Zenon
<1>3. DOMAIN <<x>> = {1}
  OBVIOUS
<1> QED
  BY <1>1, <1>2, <1>3

\* Only the empty sequence has no element.
LEMMA EmptyIsEmpty ==
  ASSUME NEW s, Sequence(s), Len(s) = 0
  PROVE  s = <<>>
BY EmptySeq DEF Sequence

\* Where the elements of two joined sequences are.
LEMMA Joined ==
  ASSUME NEW s, Sequence(s), NEW t, Sequence(t)
  PROVE  /\ Sequence(s \o t) /\ Len(s \o t) = Len(s) + Len(t)
         /\ \A i \in 1..Len(s) : (s \o t)[i] = s[i]
         /\ \A i \in 1..Len(t) : (s \o t)[Len(s) + i] = t[i]
<1> DEFINE S == Range(s) \cup Range(t)
<1>1. s \in Seq(S) /\ t \in Seq(S)
  BY SeqMonotonic DEF Sequence
<1>2. /\ s \o t \in Seq(S) /\ Len(s \o t) = Len(s) + Len(t)
      /\ \A i \in 1..(Len(s) + Len(t)) :
           (s \o t)[i] = IF i <= Len(s) THEN s[i] ELSE t[i - Len(s)]
  BY <1>1, ConcatProperties
<1>3. Len(s) \in Nat /\ Len(t) \in Nat
  BY SequenceDomain
<1> HIDE DEF S
<1>4. Sequence(s \o t)
  BY <1>2, SequenceOf
<1>5. ASSUME NEW i \in 1..Len(s) PROVE (s \o t)[i] = s[i]
  BY <1>2, <1>3
<1>6. ASSUME NEW i \in 1..Len(t) PROVE (s \o t)[Len(s) + i] = t[i]
  <2>1. Len(s) + i \in 1..(Len(s) + Len(t)) /\ ~(Len(s) + i <= Len(s)) /\ (Len(s) + i) - Len(s) = i
    BY <1>3
  <2> QED
    BY <1>2, <2>1
<1> QED
  BY <1>2, <1>4, <1>5, <1>6

\* The index of an element of two joined sequences is in one of them.
LEMMA JoinedIndex ==
  ASSUME NEW s, Sequence(s), NEW t, Sequence(t), NEW i \in DOMAIN (s \o t)
  PROVE  \/ i \in DOMAIN s /\ i <= Len(s) /\ (s \o t)[i] = s[i]
         \/ \E j \in DOMAIN t : i = Len(s) + j /\ (s \o t)[i] = t[j]
<1>1. Len(s) \in Nat /\ Len(t) \in Nat /\ DOMAIN s = 1..Len(s) /\ DOMAIN t = 1..Len(t)
  BY SequenceDomain
<1>2. DOMAIN (s \o t) = 1..(Len(s) + Len(t))
  BY Joined, SequenceDomain
<1>3. CASE i <= Len(s)
  BY <1>1, <1>2, <1>3, Joined
<1>4. CASE ~(i <= Len(s))
  <2> DEFINE j == i - Len(s)
  <2>1. j \in 1..Len(t) /\ i = Len(s) + j
    BY <1>1, <1>2, <1>4
  <2> QED
    BY <2>1, <1>1, Joined
<1> QED
  BY <1>3, <1>4

-----------------------------------------------------------------------------
(* FlattenSeq, which joins the parts one after the other.                  *)

\* A recursive function of the shape of FlattenSeq's exists on every interval.
LEMMA FlattenExists ==
  ASSUME NEW ss, NEW n \in Nat
  PROVE  \E F : F = [i \in 1..n |-> IF i = 1 THEN ss[i] ELSE F[i-1] \o ss[i]]
<1> DEFINE Body(m, F) == [i \in 1..m |-> IF i = 1 THEN ss[i] ELSE F[i-1] \o ss[i]]
           Good == {m \in Nat : \E F : F = Body(m, F)}
<1>1. 0 \in Good
  <2>1. <<>> = Body(0, <<>>)
    OBVIOUS
  <2> QED
    BY <2>1
<1>2. ASSUME NEW m \in Good PROVE m + 1 \in Good
  <2>1. PICK F : F = Body(m, F)
    OBVIOUS
  <2> DEFINE G == [i \in 1..(m + 1) |-> IF i = 1 THEN ss[i] ELSE F[i-1] \o ss[i]]
  <2>2. \A i \in 1..m : F[i] = IF i = 1 THEN ss[i] ELSE F[i-1] \o ss[i]
    BY <2>1
  <2>3. \A i \in 1..m : G[i] = F[i]
    BY <2>2
  <2>4. \A i \in 1..(m + 1) : i # 1 => i - 1 \in 1..m
    OBVIOUS
  <2>5. \A i \in 1..(m + 1) : i # 1 => G[i-1] = F[i-1]
    BY <2>3, <2>4
  <2>6. \A i \in 1..(m + 1) : G[i] = IF i = 1 THEN ss[i] ELSE G[i-1] \o ss[i]
    BY <2>5
  <2>7. G = [i \in 1..(m + 1) |-> G[i]]
    OBVIOUS
  <2> HIDE DEF G
  <2>8. G = [i \in 1..(m + 1) |-> IF i = 1 THEN ss[i] ELSE G[i-1] \o ss[i]]
    BY <2>6, <2>7
  <2>9. \E E : E = Body(m + 1, E)
    BY <2>8
  <2>10. m + 1 \in Nat
    OBVIOUS
  <2> HIDE DEF Body
  <2> QED
    BY <2>9, <2>10
<1>3. \A m \in Nat : m \in Good
  <2> HIDE DEF Good
  <2>1. Good \in SUBSET Nat
    BY DEF Good
  <2> QED
    BY <1>1, <1>2, <2>1, Induction
<1> QED
  BY <1>3

\* FlattenSeq adds a part after another to what it has.
LEMMA Flattened ==
  ASSUME NEW ss, Sequence(ss), \A i \in DOMAIN ss : Sequence(ss[i])
  PROVE  \E F : /\ F[0] = <<>>
                /\ \A i \in 1..Len(ss) : F[i] = F[i-1] \o ss[i]
                /\ \A i \in 0..Len(ss) : Sequence(F[i])
                /\ FlattenSeq(ss) = F[Len(ss)]
<1> DEFINE n == Len(ss)
           Body(F) == [i \in 1..n |-> IF i = 1 THEN ss[i] ELSE F[i-1] \o ss[i]]
           G == CHOOSE F : F = Body(F)
           H == [i \in 0..n |-> IF i = 0 THEN <<>> ELSE G[i]]
<1>1. n \in Nat /\ DOMAIN ss = 1..n
  BY SequenceDomain
<1>2. G = Body(G)
  BY <1>1, FlattenExists
<1>3. n # 0 => FlattenSeq(ss) = G[n]
  BY DEF FlattenSeq
<1>4. n = 0 => FlattenSeq(ss) = <<>>
  BY EmptyIsEmpty DEF FlattenSeq
<1> HIDE DEF G
<1>5. \A i \in 1..n : G[i] = IF i = 1 THEN ss[i] ELSE G[i-1] \o ss[i]
  BY <1>2
<1>6. H[0] = <<>> /\ \A i \in 1..n : H[i] = G[i]
  BY <1>1
<1> HIDE DEF H, n
<1>7. ASSUME NEW i \in 1..n PROVE H[i] = H[i-1] \o ss[i]
  <2>1. Sequence(ss[i])
    BY <1>1
  <2>2. <<>> \o ss[i] = ss[i]
    BY <2>1, ConcatEmptySeq DEF Sequence
  <2>3. CASE i = 1
    <3>1. H[i-1] = <<>> /\ H[i] = ss[i]
      BY <2>3, <1>5, <1>6
    <3> QED
      BY <3>1, <2>2
  <2>4. CASE i # 1
    <3>1. i - 1 \in 1..n
      BY <2>4, <1>1
    <3> QED
      BY <3>1, <2>4, <1>5, <1>6
  <2> QED
    BY <2>3, <2>4
<1> DEFINE Good == {m \in Nat : m <= n => Sequence(H[m])}
<1>8. 0 \in Good
  BY <1>6, NoElement
<1>9. ASSUME NEW m \in Good PROVE m + 1 \in Good
  <2> SUFFICES ASSUME m + 1 <= n PROVE Sequence(H[m + 1])
    OBVIOUS
  <2>1. m + 1 \in 1..n /\ (m + 1) - 1 = m /\ Sequence(H[m])
    BY <1>1
  <2>2. H[m + 1] = H[m] \o ss[m + 1] /\ Sequence(ss[m + 1])
    BY <2>1, <1>7, <1>1
  <2> QED
    BY <2>1, <2>2, Joined
<1>10. \A m \in Nat : m \in Good
  <2> HIDE DEF Good
  <2>1. Good \in SUBSET Nat
    BY DEF Good
  <2> QED
    BY <1>8, <1>9, <2>1, Induction
<1>11. \A i \in 0..n : Sequence(H[i])
  BY <1>10, <1>1
<1>12. FlattenSeq(ss) = H[n]
  BY <1>1, <1>3, <1>4, <1>6
<1> QED
  BY <1>6, <1>7, <1>11, <1>12 DEF n

\* Where FlattenSeq puts the elements of the parts: those of part k start after
\* position at[k], parts do not overlap and keep their order, and nothing else is
\* there.
Placed(ss, out, at) ==
  /\ Sequence(out) /\ \A k \in DOMAIN ss : at[k] \in Nat
  /\ \A k \in DOMAIN ss : \A j \in DOMAIN ss[k] :
       at[k] + j \in DOMAIN out /\ out[at[k] + j] = ss[k][j]
  /\ \A k, m \in DOMAIN ss : k < m => at[k] + Len(ss[k]) <= at[m]
  /\ \A i \in DOMAIN out : \E k \in DOMAIN ss : \E j \in DOMAIN ss[k] : i = at[k] + j

\* Every flattened sequence is laid out so.
LEMMA Places ==
  ASSUME NEW ss, Sequence(ss), \A i \in DOMAIN ss : Sequence(ss[i])
  PROVE  \E at : Placed(ss, FlattenSeq(ss), at)
<1>1. PICK F : /\ F[0] = <<>>
               /\ \A i \in 1..Len(ss) : F[i] = F[i-1] \o ss[i]
               /\ \A i \in 0..Len(ss) : Sequence(F[i])
               /\ FlattenSeq(ss) = F[Len(ss)]
  BY Flattened
<1> DEFINE n == Len(ss)
           at == [k \in 1..n |-> Len(F[k-1])]
           Inside(m) == \A k \in 1..m : \A j \in 1..Len(ss[k]) :
                          /\ Len(F[k-1]) + j \in 1..Len(F[m])
                          /\ F[m][Len(F[k-1]) + j] = ss[k][j]
           Before1(m) == \A k \in 1..m : Len(F[k-1]) + Len(ss[k]) <= Len(F[m])
           Cover(m) == \A i \in 1..Len(F[m]) : \E k \in 1..m : \E j \in 1..Len(ss[k]) :
                         i = Len(F[k-1]) + j
           Good == {m \in Nat : m <= n => Inside(m) /\ Before1(m) /\ Cover(m)}
<1>2. n \in Nat /\ DOMAIN ss = 1..n
  BY SequenceDomain
<1>3. \A k \in 1..n : Len(ss[k]) \in Nat /\ DOMAIN ss[k] = 1..Len(ss[k])
  BY <1>2, SequenceDomain
<1>4. \A k \in 0..n : Len(F[k]) \in Nat /\ DOMAIN F[k] = 1..Len(F[k])
  BY <1>1, SequenceDomain
<1>5. \A k \in 1..n : k - 1 \in 0..n
  BY <1>2
<1> HIDE DEF n, at, Inside, Before1, Cover
<1>6. 0 \in Good
  <2>1. Len(F[0]) = 0
    BY <1>1, NoElement
  <2>2. Inside(0) /\ Before1(0) /\ Cover(0)
    BY <2>1 DEF Inside, Before1, Cover
  <2> QED
    BY <2>2
<1>7. ASSUME NEW m \in Good PROVE m + 1 \in Good
  <2> SUFFICES ASSUME m + 1 <= n PROVE Inside(m + 1) /\ Before1(m + 1) /\ Cover(m + 1)
    OBVIOUS
  <2> DEFINE s == F[m]  t == ss[m + 1]
  <2>1. m \in 0..n /\ m + 1 \in 1..n /\ (m + 1) - 1 = m /\ m \in Nat
    BY <1>2
  <2>2. F[m + 1] = s \o t /\ Sequence(s) /\ Sequence(t)
    BY <2>1, <1>1, <1>2 DEF n
  <2>3. Len(s) \in Nat /\ Len(t) \in Nat
    BY <2>1, <1>3, <1>4
  <2>4. /\ Len(F[m + 1]) = Len(s) + Len(t)
        /\ \A i \in 1..Len(s) : F[m + 1][i] = s[i]
        /\ \A i \in 1..Len(t) : F[m + 1][Len(s) + i] = t[i]
    <3> HIDE DEF s, t
    <3> QED
      BY <2>2, Joined
  <2>5. Inside(m) /\ Before1(m) /\ Cover(m)
    BY <2>1
  <2>6. \A k \in 1..(m + 1) : k # m + 1 => k \in 1..m
    BY <2>1
  <2>7. \A k \in 1..m : k \in 1..n /\ k \in 1..(m + 1) /\ Len(F[k-1]) \in Nat /\ Len(ss[k]) \in Nat
    <3>1. \A k \in 1..m : k \in 1..n /\ k \in 1..(m + 1)
      BY <2>1, <1>2
    <3> QED
      BY <3>1, <1>3, <1>4, <1>5
  <2>8. Inside(m + 1)
    <3> SUFFICES ASSUME NEW k \in 1..(m + 1), NEW j \in 1..Len(ss[k])
                 PROVE  /\ Len(F[k-1]) + j \in 1..Len(F[m + 1])
                        /\ F[m + 1][Len(F[k-1]) + j] = ss[k][j]
      BY DEF Inside
    <3>1. CASE k = m + 1
      <4>1. F[k-1] = s /\ ss[k] = t
        BY <3>1, <2>1
      <4> HIDE DEF s, t
      <4> QED
        BY <4>1, <2>3, <2>4
    <3>2. CASE k # m + 1
      <4>1. k \in 1..m
        BY <3>2, <2>6
      <4>2. Len(F[k-1]) + j \in 1..Len(s) /\ s[Len(F[k-1]) + j] = ss[k][j]
        BY <4>1, <2>5 DEF Inside
      <4> HIDE DEF s, t
      <4> QED
        BY <4>2, <2>3, <2>4
    <3> QED
      BY <3>1, <3>2
  <2>9. Before1(m + 1)
    <3> SUFFICES ASSUME NEW k \in 1..(m + 1)
                 PROVE  Len(F[k-1]) + Len(ss[k]) <= Len(F[m + 1])
      BY DEF Before1
    <3>1. CASE k = m + 1
      BY <3>1, <2>1, <2>3, <2>4
    <3>2. CASE k # m + 1
      <4>1. k \in 1..m
        BY <3>2, <2>6
      <4>2. Len(F[k-1]) + Len(ss[k]) <= Len(s)
        BY <4>1, <2>5 DEF Before1
      <4>3. Len(F[k-1]) \in Nat /\ Len(ss[k]) \in Nat
        BY <4>1, <2>7
      <4>4. Len(F[m + 1]) = Len(s) + Len(t)
        BY <2>4
      <4> HIDE DEF s, t
      <4> DEFINE a == Len(F[k-1])  b == Len(ss[k])  c == Len(F[m + 1])
      <4>5. a \in Nat /\ b \in Nat /\ a + b <= Len(s) /\ c = Len(s) + Len(t)
        BY <4>2, <4>3, <4>4
      <4> HIDE DEF a, b, c
      <4>6. a + b <= c
        BY <4>5, <2>3
      <4> QED
        BY <4>6 DEF a, b, c
    <3> QED
      BY <3>1, <3>2
  <2>10. Cover(m + 1)
    <3> SUFFICES ASSUME NEW i \in 1..Len(F[m + 1])
                 PROVE  \E k \in 1..(m + 1) : \E j \in 1..Len(ss[k]) : i = Len(F[k-1]) + j
      BY DEF Cover
    <3>1. CASE i <= Len(s)
      <4>1. i \in 1..Len(s)
        BY <3>1, <2>3, <2>4
      <4>2. PICK k \in 1..m : \E j \in 1..Len(ss[k]) : i = Len(F[k-1]) + j
        BY <4>1, <2>5 DEF Cover
      <4> QED
        BY <4>2, <2>7
    <3>2. CASE ~(i <= Len(s))
      <4>1. i - Len(s) \in 1..Len(t) /\ i = Len(s) + (i - Len(s))
        <5> HIDE DEF s, t
        <5> QED
          BY <3>2, <2>3, <2>4
      <4>2. m + 1 \in 1..(m + 1) /\ F[(m + 1) - 1] = s
        BY <2>1
      <4> QED
        BY <4>1, <4>2
    <3> QED
      BY <3>1, <3>2
  <2> QED
    BY <2>8, <2>9, <2>10
<1>8. \A m \in Nat : m \in Good
  <2> HIDE DEF Good
  <2>1. Good \in SUBSET Nat
    BY DEF Good
  <2> QED
    BY <1>6, <1>7, <2>1, Induction
<1>9. \A m \in 0..n : Inside(m) /\ Before1(m) /\ Cover(m)
  BY <1>8, <1>2
<1>10. FlattenSeq(ss) = F[n] /\ Sequence(F[n])
  BY <1>1, <1>2 DEF n
<1>11. \A k \in 1..n : at[k] = Len(F[k-1]) /\ at[k] \in Nat
  BY <1>4, <1>5 DEF at
<1>12. \A k \in 1..n : \A j \in 1..Len(ss[k]) :
         at[k] + j \in 1..Len(F[n]) /\ F[n][at[k] + j] = ss[k][j]
  <2>1. Inside(n)
    BY <1>9, <1>2
  <2> QED
    BY <2>1, <1>11 DEF Inside
<1>13. ASSUME NEW k \in 1..n, NEW m \in 1..n, k < m PROVE at[k] + Len(ss[k]) <= at[m]
  <2>1. m - 1 \in 0..n /\ k \in 1..(m - 1)
    BY <1>13, <1>2
  <2>2. Len(F[k-1]) + Len(ss[k]) <= Len(F[m-1])
    BY <2>1, <1>9 DEF Before1
  <2> QED
    BY <2>2, <1>11
<1>14. \A i \in 1..Len(F[n]) : \E k \in 1..n : \E j \in 1..Len(ss[k]) : i = at[k] + j
  <2>1. Cover(n)
    BY <1>9, <1>2
  <2> QED
    BY <2>1, <1>11 DEF Cover
<1>15. DOMAIN F[n] = 1..Len(F[n])
  BY <1>10, SequenceDomain
<1>16. Placed(ss, F[n], at)
  <2>1. \A k \in DOMAIN ss : at[k] \in Nat
    BY <1>2, <1>11
  <2>2. \A k \in DOMAIN ss : \A j \in DOMAIN ss[k] :
          at[k] + j \in DOMAIN F[n] /\ F[n][at[k] + j] = ss[k][j]
    BY <1>2, <1>3, <1>12, <1>15
  <2>3. \A k, m \in DOMAIN ss : k < m => at[k] + Len(ss[k]) <= at[m]
    BY <1>2, <1>13
  <2>4. \A i \in DOMAIN F[n] : \E k \in DOMAIN ss : \E j \in DOMAIN ss[k] : i = at[k] + j
    BY <1>2, <1>3, <1>14, <1>15
  <2> QED
    BY <1>10, <2>1, <2>2, <2>3, <2>4 DEF Placed
<1> QED
  BY <1>10, <1>16

-----------------------------------------------------------------------------
(* Which elements a sequence has, and which of a set comes first.          *)

Lacks(s, K) == \A i \in DOMAIN s : s[i] \notin K

IsFirst(s, K, l) ==
  l \in K /\ \E i \in DOMAIN s : s[i] = l /\ \A j \in DOMAIN s : j < i => s[j] \notin K

\* Two joined sequences have the elements of both.
LEMMA JoinedRange ==
  ASSUME NEW s, Sequence(s), NEW t, Sequence(t)
  PROVE  Range(s \o t) = Range(s) \cup Range(t)
<1> DEFINE S == Range(s) \cup Range(t)
<1>1. s \in Seq(S) /\ t \in Seq(S)
  BY SeqMonotonic DEF Sequence
<1> QED
  BY <1>1, RangeConcatenation

\* What neither of two sequences has, they do not have joined.
LEMMA JoinedLacks ==
  ASSUME NEW K, NEW s, Sequence(s), Lacks(s, K), NEW t, Sequence(t), Lacks(t, K)
  PROVE  Lacks(s \o t, K)
<1> SUFFICES ASSUME NEW i \in DOMAIN (s \o t) PROVE (s \o t)[i] \notin K
  BY DEF Lacks
<1> QED
  BY JoinedIndex DEF Lacks

\* The first of a set in the first of two sequences is the first in both.
LEMMA JoinedFirst ==
  ASSUME NEW K, NEW l, NEW s, Sequence(s), IsFirst(s, K, l), NEW t, Sequence(t)
  PROVE  IsFirst(s \o t, K, l)
<1>1. PICK i \in DOMAIN s : s[i] = l /\ \A j \in DOMAIN s : j < i => s[j] \notin K
  BY DEF IsFirst
<1>2. Len(s) \in Nat /\ Len(t) \in Nat /\ DOMAIN s = 1..Len(s) /\ DOMAIN t = 1..Len(t)
  BY SequenceDomain
<1>3. DOMAIN (s \o t) = 1..(Len(s) + Len(t)) /\ \A j \in 1..Len(s) : (s \o t)[j] = s[j]
  BY Joined, SequenceDomain
<1>4. i \in DOMAIN (s \o t) /\ (s \o t)[i] = l
  BY <1>1, <1>2, <1>3
<1>5. ASSUME NEW j \in DOMAIN (s \o t), j < i PROVE (s \o t)[j] \notin K
  <2>1. j \in 1..Len(s)
    BY <1>2, <1>3, <1>5
  <2> QED
    BY <2>1, <1>1, <1>2, <1>3, <1>5
<1> QED
  BY <1>4, <1>5 DEF IsFirst

\* When the first of two sequences has none of a set, the second decides.
LEMMA JoinedFirstAfter ==
  ASSUME NEW K, NEW l, NEW s, Sequence(s), Lacks(s, K), NEW t, Sequence(t), IsFirst(t, K, l)
  PROVE  IsFirst(s \o t, K, l)
<1>1. PICK i \in DOMAIN t : t[i] = l /\ \A j \in DOMAIN t : j < i => t[j] \notin K
  BY DEF IsFirst
<1>2. Len(s) \in Nat /\ Len(t) \in Nat /\ DOMAIN s = 1..Len(s) /\ DOMAIN t = 1..Len(t)
  BY SequenceDomain
<1>3. DOMAIN (s \o t) = 1..(Len(s) + Len(t)) /\ \A j \in 1..Len(t) : (s \o t)[Len(s) + j] = t[j]
  <2>1. Sequence(s \o t) /\ Len(s \o t) = Len(s) + Len(t)
    BY Joined
  <2>2. DOMAIN (s \o t) = 1..(Len(s) + Len(t))
    BY <2>1, SequenceDomain
  <2>3. \A j \in 1..Len(t) : (s \o t)[Len(s) + j] = t[j]
    BY Joined
  <2> QED
    BY <2>2, <2>3
<1>4. Len(s) + i \in DOMAIN (s \o t) /\ (s \o t)[Len(s) + i] = l
  BY <1>1, <1>2, <1>3
<1>5. ASSUME NEW j \in DOMAIN (s \o t), j < Len(s) + i PROVE (s \o t)[j] \notin K
  <2>1. CASE j \in DOMAIN s /\ (s \o t)[j] = s[j]
    BY <2>1 DEF Lacks
  <2>2. CASE \E m \in DOMAIN t : j = Len(s) + m /\ (s \o t)[j] = t[m]
    <3>1. PICK m \in DOMAIN t : j = Len(s) + m /\ (s \o t)[j] = t[m]
      BY <2>2
    <3>2. m < i
      BY <3>1, <1>2, <1>5
    <3> QED
      BY <3>1, <3>2, <1>1
  <2> QED
    BY <2>1, <2>2, JoinedIndex
<1> QED
  BY <1>1, <1>4, <1>5 DEF IsFirst

\* Joined sequences are one sequence.
LEMMA FlatSequence ==
  ASSUME NEW ss, Sequence(ss), \A i \in DOMAIN ss : Sequence(ss[i])
  PROVE  Sequence(FlattenSeq(ss))
BY Places DEF Placed

\* Joined sequences have the elements of each.
LEMMA FlatRange ==
  ASSUME NEW ss, Sequence(ss), \A i \in DOMAIN ss : Sequence(ss[i]), NEW x
  PROVE  x \in Range(FlattenSeq(ss)) <=> \E k \in DOMAIN ss : x \in Range(ss[k])
<1>1. PICK at : Placed(ss, FlattenSeq(ss), at)
  BY Places
<1> DEFINE out == FlattenSeq(ss)
<1> HIDE DEF out
<1>2. Placed(ss, out, at)
  BY <1>1 DEF out
<1>3. ASSUME NEW i \in DOMAIN out PROVE \E k \in DOMAIN ss : out[i] \in Range(ss[k])
  BY <1>2 DEF Placed, Range
<1>4. ASSUME NEW k \in DOMAIN ss, NEW j \in DOMAIN ss[k] PROVE ss[k][j] \in Range(out)
  BY <1>2 DEF Placed, Range
<1>5. x \in Range(out) <=> \E k \in DOMAIN ss : x \in Range(ss[k])
  BY <1>3, <1>4 DEF Range
<1> QED
  BY <1>5 DEF out

\* Where no part has an element of a set, there is none.
LEMMA FlatLacks ==
  ASSUME NEW ss, Sequence(ss), \A i \in DOMAIN ss : Sequence(ss[i]), NEW K,
         \A k \in DOMAIN ss : Lacks(ss[k], K)
  PROVE  Lacks(FlattenSeq(ss), K)
<1> DEFINE out == FlattenSeq(ss)
<1>1. \A x : x \in Range(out) <=> \E k \in DOMAIN ss : x \in Range(ss[k])
  BY FlatRange
<1> HIDE DEF out
<1>2. Lacks(out, K)
  BY <1>1 DEF Lacks, Range
<1> QED
  BY <1>2 DEF out

\* The first part that has an element of a set decides which comes first.
LEMMA FlatFirst ==
  ASSUME NEW ss, Sequence(ss), \A i \in DOMAIN ss : Sequence(ss[i]), NEW K, NEW l,
         NEW k \in DOMAIN ss, IsFirst(ss[k], K, l), \A m \in DOMAIN ss : m < k => Lacks(ss[m], K)
  PROVE  IsFirst(FlattenSeq(ss), K, l)
<1> DEFINE out == FlattenSeq(ss)
<1>1. PICK at : Placed(ss, out, at)
  BY Places
<1> HIDE DEF out
<1>2. PICK i \in DOMAIN ss[k] : ss[k][i] = l /\ \A j \in DOMAIN ss[k] : j < i => ss[k][j] \notin K
  BY DEF IsFirst
<1>3. at[k] + i \in DOMAIN out /\ out[at[k] + i] = l
  BY <1>1, <1>2 DEF Placed
<1>4. \A m \in DOMAIN ss : Len(ss[m]) \in Nat /\ DOMAIN ss[m] = 1..Len(ss[m])
  BY SequenceDomain
<1>5. DOMAIN ss \subseteq Nat /\ \A m \in DOMAIN ss : at[m] \in Nat
  BY <1>1, SequenceDomain DEF Placed
<1>6. ASSUME NEW j \in DOMAIN out, j < at[k] + i PROVE out[j] \notin K
  <2>1. PICK m \in DOMAIN ss : \E n \in DOMAIN ss[m] : j = at[m] + n /\ out[j] = ss[m][n]
    BY <1>1 DEF Placed
  <2>2. PICK n \in DOMAIN ss[m] : j = at[m] + n /\ out[j] = ss[m][n]
    BY <2>1
  <2>3. CASE m < k
    BY <2>2, <2>3 DEF Lacks
  <2>4. CASE m = k
    <3>1. n < i
      BY <2>2, <2>4, <1>4, <1>5, <1>6
    <3> QED
      BY <3>1, <2>2, <2>4, <1>2
  <2>5. CASE k < m
    <3>1. at[k] + Len(ss[k]) <= at[m]
      BY <2>5, <1>1 DEF Placed
    <3>2. i \in Nat /\ i <= Len(ss[k]) /\ n \in Nat /\ n >= 1
      BY <2>2, <1>4
    <3> QED
      BY <3>1, <3>2, <2>2, <1>4, <1>5, <1>6
  <2> QED
    BY <2>3, <2>4, <2>5, <1>5
<1>7. IsFirst(out, K, l)
  BY <1>2, <1>3, <1>6 DEF IsFirst
<1> QED
  BY <1>7 DEF out

-----------------------------------------------------------------------------
(* What every reachable state is: nothing rendered yet, or one rendering   *)
(* of the rows.                                                            *)

FromRows ==
  \E routes \in ListDomainsByFrontend, backends \in ListBackends :
    file = Content(routes, backends) /\ warnings = Warnings(routes, backends)

Rendered == WellFormed(config) /\ (file # <<>> => FromRows)

\* What is written depends on the rows only, and Render leaves these alone.
LEMMA RowsStay ==
  ASSUME config' = config
  PROVE  /\ ListDomainsByFrontend' = ListDomainsByFrontend
         /\ ListBackends' = ListBackends
         /\ \A routes, backends :
              /\ Content(routes, backends)' = Content(routes, backends)
              /\ Warnings(routes, backends)' = Warnings(routes, backends)
<1>1. ListDomainsByFrontend' = ListDomainsByFrontend
  BY Zenon DEF ListDomainsByFrontend
<1>2. ListBackends' = ListBackends
  BY Zenon DEF ListBackends
<1>3. ASSUME NEW routes, NEW backends PROVE Content(routes, backends)' = Content(routes, backends)
  BY Zenon DEF Content, RenderGlobal, RenderDefaults, RenderFrontend, RenderBackend,
               RenderTrailingSnippets, RenderSectionSnippets, SnippetLines, OfKind, Written, Opt,
               SnippetLine, InOrder, OwnSections, BackendUp, UseBackend
<1>4. ASSUME NEW routes, NEW backends
      PROVE  Warnings(routes, backends)' = Warnings(routes, backends)
  BY SMT DEF Warnings, FrontendWarnings, BackendWarnings, SkippedRoutes, BackendUp
<1> QED
  BY <1>1, <1>2, <1>3, <1>4

\* Every reachable state holds well-formed rows, and a rendering of them or none:
\* the strengthening the properties of Routing need.
THEOREM InductiveInvariant == Spec => []Rendered
<1>1. Init => Rendered
  BY FamiliesAssumption DEF Init, Rendered
<1>2. Rendered /\ [Next]_vars => Rendered'
  <2> SUFFICES ASSUME Rendered, [Next]_vars PROVE Rendered'
    OBVIOUS
  <2>1. CASE Next
    <3>1. PICK routes \in ListDomainsByFrontend, backends \in ListBackends :
            /\ file' = Content(routes, backends) /\ warnings' = Warnings(routes, backends)
            /\ config' = config
      BY <2>1 DEF Next, Render
    <3>2. FromRows'
      <4>1. /\ ListDomainsByFrontend' = ListDomainsByFrontend /\ ListBackends' = ListBackends
            /\ Content(routes, backends)' = Content(routes, backends)
            /\ Warnings(routes, backends)' = Warnings(routes, backends)
        BY <3>1, RowsStay
      <4>2. routes \in ListDomainsByFrontend' /\ backends \in ListBackends'
        BY <4>1
      <4>3. file' = Content(routes, backends)' /\ warnings' = Warnings(routes, backends)'
        BY <4>1, <3>1
      <4> QED
        BY <4>2, <4>3 DEF FromRows
    <3>3. WellFormed(config')
      BY <3>1 DEF Rendered
    <3> QED
      BY <3>2, <3>3 DEF Rendered
  <2>2. CASE UNCHANGED vars
    <3>1. config' = config /\ file' = file /\ warnings' = warnings
      BY <2>2 DEF vars
    <3>2. ASSUME file # <<>> PROVE FromRows'
      <4>1. PICK routes \in ListDomainsByFrontend, backends \in ListBackends :
              file = Content(routes, backends) /\ warnings = Warnings(routes, backends)
        BY <3>2 DEF Rendered, FromRows
      <4>2. /\ ListDomainsByFrontend' = ListDomainsByFrontend /\ ListBackends' = ListBackends
            /\ Content(routes, backends)' = Content(routes, backends)
            /\ Warnings(routes, backends)' = Warnings(routes, backends)
        BY <3>1, RowsStay
      <4>3. routes \in ListDomainsByFrontend' /\ backends \in ListBackends'
        BY <4>2
      <4>4. file' = Content(routes, backends)' /\ warnings' = Warnings(routes, backends)'
        BY <4>1, <4>2, <3>1
      <4> QED
        BY <4>3, <4>4 DEF FromRows
    <3>3. WellFormed(config')
      BY <3>1 DEF Rendered
    <3> QED
      BY <3>1, <3>2, <3>3 DEF Rendered
  <2> QED
    BY <2>1, <2>2
<1> QED
  BY <1>1, <1>2, PTL DEF Spec

-----------------------------------------------------------------------------
(* Loops over rows, and lists of rows.                                     *)

\* What a loop writes that passes over disabled rows: p holds what it adds for
\* each row, g what it would add were they all enabled.
LEMMA WrittenFacts ==
  ASSUME NEW rows, Sequence(rows), NEW g, NEW p, p = [k \in DOMAIN rows |-> p[k]],
         \A k \in DOMAIN rows : p[k] = Opt(rows[k].enabled, g[k]) /\ Sequence(g[k])
  PROVE  /\ Sequence(FlattenSeq(p))
         /\ \A x : x \in Range(FlattenSeq(p)) <=>
              \E k \in DOMAIN rows : rows[k].enabled /\ x \in Range(g[k])
         /\ \A K, l : \A k \in DOMAIN rows :
              rows[k].enabled /\ IsFirst(g[k], K, l)
                /\ (\A m \in DOMAIN rows : m < k /\ rows[m].enabled => Lacks(g[m], K))
              => IsFirst(FlattenSeq(p), K, l)
<1>1. DOMAIN p = DOMAIN rows
  OBVIOUS
<1>2. Len(rows) \in Nat /\ DOMAIN rows = 1..Len(rows)
  BY SequenceDomain
<1>3. Sequence(p)
  BY <1>2, Listed
<1>4. \A k \in DOMAIN rows : p[k] = (IF rows[k].enabled THEN g[k] ELSE <<>>)
  BY DEF Opt
<1>5. \A k \in DOMAIN p : Sequence(p[k])
  BY <1>1, <1>4, NoElement
<1>6. Sequence(FlattenSeq(p))
  BY <1>3, <1>5, FlatSequence
<1>7. \A x : x \notin Range(<<>>)
  BY NoElement DEF Range
<1>8. ASSUME NEW x PROVE x \in Range(FlattenSeq(p)) <=>
                           \E k \in DOMAIN rows : rows[k].enabled /\ x \in Range(g[k])
  <2>1. x \in Range(FlattenSeq(p)) <=> \E k \in DOMAIN p : x \in Range(p[k])
    BY <1>3, <1>5, FlatRange
  <2> QED
    BY <2>1, <1>1, <1>4, <1>7
<1>9. ASSUME NEW K, NEW l, NEW k \in DOMAIN rows, rows[k].enabled, IsFirst(g[k], K, l),
             \A m \in DOMAIN rows : m < k /\ rows[m].enabled => Lacks(g[m], K)
      PROVE  IsFirst(FlattenSeq(p), K, l)
  <2>1. Lacks(<<>>, K)
    BY NoElement DEF Lacks
  <2>2. \A m \in DOMAIN p : m < k => Lacks(p[m], K)
    BY <2>1, <1>1, <1>4, <1>9
  <2>3. k \in DOMAIN p /\ IsFirst(p[k], K, l)
    BY <1>1, <1>4, <1>9
  <2> QED
    BY <2>2, <2>3, <1>3, <1>5, FlatFirst
<1> QED
  BY <1>6, <1>8, <1>9

\* A list of a finite set has its elements and no other, and none of them twice.
LEMMA ListOfSet ==
  ASSUME NEW S, IsFiniteSet(S), NEW list \in SetToSeqs(S)
  PROVE  /\ Sequence(list) /\ Range(list) = S
         /\ \A i, j \in DOMAIN list : list[i] = list[j] => i = j
<1> DEFINE n == Cardinality(S)
<1>1. n \in Nat
  BY FS_CardinalityType
<1>2. list \in [1..n -> S] /\ \A i, j \in 1..n : i # j => list[i] # list[j]
  BY DEF SetToSeqs
<1>3. IsFiniteSet(1..n) /\ Cardinality(1..n) = n
  BY <1>1, FS_Interval
<1> HIDE DEF n
<1>4. list \in Injection(1..n, S)
  BY <1>2 DEF Injection, IsInjective
<1>5. list \in Surjection(1..n, S)
  BY <1>3, <1>4, FS_Injection DEF n
<1>6. \A x \in S : \E i \in 1..n : list[i] = x
  BY <1>5 DEF Surjection
<1>7. Range(list) = S
  BY <1>2, <1>6 DEF Range
<1>8. Sequence(list)
  BY <1>1, <1>2, Listed
<1> QED
  BY <1>2, <1>7, <1>8

\* The routes, as listed.
LEMMA RoutesListed ==
  ASSUME WellFormed(config), NEW routes \in ListDomainsByFrontend
  PROVE  /\ Sequence(routes) /\ Range(routes) = config.routes
         /\ \A i, j \in DOMAIN routes : i <= j => Before(routes[i], routes[j])
<1>1. IsFiniteSet(config.routes) /\ config.routes \subseteq Domain(DOMAIN config.backends)
  BY DEF WellFormed
<1>2. routes \in SetToSeqs(config.routes)
      /\ \A i, j \in DOMAIN routes : i < j => Before(routes[i], routes[j])
  BY DEF ListDomainsByFrontend
<1>3. Sequence(routes) /\ Range(routes) = config.routes
  BY <1>1, <1>2, ListOfSet
<1>4. DOMAIN Hostnames \subseteq Int
  BY HostnamesAssumption, LenProperties
<1>5. \A d \in config.routes : d.order \in Int /\ d.hostname \in Int
  BY <1>1, <1>4 DEF Domain
<1>6. \A d \in config.routes : Before(d, d)
  BY <1>5 DEF Before
<1>7. \A i \in DOMAIN routes : Before(routes[i], routes[i])
  BY <1>3, <1>6 DEF Range
<1>8. DOMAIN routes \subseteq Int
  BY <1>3, SequenceDomain
<1> QED
  BY <1>2, <1>3, <1>7, <1>8

\* The backends that are rendered, as listed.
LEMMA BackendsListed ==
  ASSUME WellFormed(config), NEW backends \in ListBackends
  PROVE  /\ Sequence(backends)
         /\ \A b : b \in Range(backends) <=> BackendUp(b)
<1> DEFINE S == {b \in DOMAIN config.backends : config.backends[b].enabled}
<1>1. IsFiniteSet(DOMAIN config.backends)
  BY DEF WellFormed
<1>2. IsFiniteSet(S)
  BY <1>1, FS_Subset
<1>3. backends \in SetToSeqs(S)
  BY DEF ListBackends
<1>4. Sequence(backends) /\ Range(backends) = S
  BY <1>2, <1>3, ListOfSet
<1> QED
  BY <1>4 DEF BackendUp

-----------------------------------------------------------------------------
(* The parts of a frontend section.                                        *)

BindPart == Written(config.frontend.binds, LAMBDA b : <<[kind |-> "bind"]>>)
LimitPart == Opt(config.frontend.limited, <<Act("http-request", <<"deny">>, {}, "fast")>>)
AclPart(routes) == Written(routes, RouteACLs)
ForcePart == Opt(config.frontend.http /\ config.frontend.force,
                 <<Act("http-request", <<"https">>, {}, "clear")>>)
RedirectPart(routes) == Written(routes, LAMBDA d : RouteRedirects(config.frontend, d))
RulePart == Written(config.frontend.rules, LAMBDA r : <<RenderRule(r)>>)
UsePart(routes) == Written(routes, UseBackend)
DefaultPart == Opt(config.frontend.default # None /\ BackendUp(config.frontend.default),
                   <<Act("default_backend", <<"backend", config.frontend.default>>, {}, "any")>>)

FrontendLines(routes) ==
  BindPart \o LimitPart \o AclPart(routes) \o ForcePart \o RedirectPart(routes) \o RulePart
    \o UsePart(routes) \o DefaultPart

\* The frontend's section is made of these parts.
LEMMA FrontendSection ==
  ASSUME NEW routes
  PROVE  /\ RenderFrontend(config.frontend, routes).kind = "frontend"
         /\ RenderFrontend(config.frontend, routes).lines = FrontendLines(routes)
BY DEF RenderFrontend, Section, FrontendLines, BindPart, LimitPart, AclPart, ForcePart,
       RedirectPart, RulePart, UsePart, DefaultPart

\* At most one element.
LEMMA OneOrNone ==
  ASSUME NEW b \in BOOLEAN, NEW x
  PROVE  /\ Sequence(Opt(b, <<x>>))
         /\ \A y : y \in Range(Opt(b, <<x>>)) <=> b /\ y = x
         /\ \A K : b /\ x \in K => IsFirst(Opt(b, <<x>>), K, x)
         /\ \A K : Lacks(Opt(b, <<x>>), K) <=> ~(b /\ x \in K)
<1>1. CASE b
  <2>1. Opt(b, <<x>>) = <<x>>
    BY <1>1 DEF Opt
  <2> DEFINE s == Opt(b, <<x>>)
  <2>2. Sequence(s) /\ DOMAIN s = {1} /\ s[1] = x
    BY <2>1, OneElement
  <2> HIDE DEF s
  <2>3. \A y : y \in Range(s) <=> y = x
    BY <2>2 DEF Range
  <2>4. \A K : x \in K => IsFirst(s, K, x)
    BY <2>2 DEF IsFirst
  <2>5. \A K : Lacks(s, K) <=> x \notin K
    BY <2>2 DEF Lacks
  <2> QED
    BY <2>2, <2>3, <2>4, <2>5, <1>1 DEF s
<1>2. CASE ~b
  <2>1. Opt(b, <<x>>) = <<>>
    BY <1>2 DEF Opt
  <2> QED
    BY <2>1, <1>2, NoElement DEF Range, Lacks
<1> QED
  BY <1>1, <1>2

\* The facts of <<x, y>>.
LEMMA TwoElements ==
  ASSUME NEW x, NEW y
  PROVE  Sequence(<<x, y>>) /\ Range(<<x, y>>) = {x, y}
<1>1. <<x, y>> \in Seq({x, y})
  OBVIOUS
<1>2. Sequence(<<x, y>>)
  BY <1>1, SequenceOf, Zenon
<1>3. DOMAIN <<x, y>> = 1..2 /\ <<x, y>>[1] = x /\ <<x, y>>[2] = y
  OBVIOUS
<1>4. Range(<<x, y>>) = {x, y}
  BY <1>3 DEF Range
<1> QED
  BY <1>2, <1>4

\* The tests a route writes for its host, and for its path if it has one.
LEMMA HostLines ==
  ASSUME NEW name, NEW d, d.match \in {"exact", "subdomain", "wildcard", "regex"}
  PROVE  LET h == Hostnames[d.hostname]  lines == HostACLLines(name, d) IN
         /\ Sequence(lines)
         /\ d.match = "exact" => Range(lines) = {AclLine(name, "str", h)}
         /\ d.match = "subdomain" =>
              Range(lines) = {AclLine(name, "str", Bare(h)), AclLine(name, "end", Bare(h))}
         /\ d.match = "wildcard" => Range(lines) = {AclLine(name, "end", Bare(h))}
         /\ d.match = "regex" => Range(lines) = {AclLine(name, "reg", d.hostname)}
<1> DEFINE h == Hostnames[d.hostname]  lines == HostACLLines(name, d)
<1>0. \A x : Sequence(<<x>>) /\ Range(<<x>>) = {x}
  BY OneElement DEF Range
<1>1. CASE d.match = "exact"
  <2>1. lines = <<AclLine(name, "str", h)>>
    BY <1>1 DEF HostACLLines
  <2> HIDE DEF lines, h
  <2>2. Sequence(lines) /\ Range(lines) = {AclLine(name, "str", h)}
    BY <2>1, <1>0
  <2> QED
    BY <2>2, <1>1 DEF lines, h
<1>2. CASE d.match = "subdomain"
  <2>1. lines = <<AclLine(name, "str", Bare(h)), AclLine(name, "end", Bare(h))>>
    BY <1>2 DEF HostACLLines
  <2> HIDE DEF lines, h
  <2>2. Sequence(lines)
        /\ Range(lines) = {AclLine(name, "str", Bare(h)), AclLine(name, "end", Bare(h))}
    BY <2>1, TwoElements
  <2> QED
    BY <2>2, <1>2 DEF lines, h
<1>3. CASE d.match = "wildcard"
  <2>1. lines = <<AclLine(name, "end", Bare(h))>>
    BY <1>3 DEF HostACLLines
  <2> HIDE DEF lines, h
  <2>2. Sequence(lines) /\ Range(lines) = {AclLine(name, "end", Bare(h))}
    BY <2>1, <1>0
  <2> QED
    BY <2>2, <1>3 DEF lines, h
<1>4. CASE d.match = "regex"
  <2>1. lines = <<AclLine(name, "reg", d.hostname)>>
    BY <1>4 DEF HostACLLines
  <2> HIDE DEF lines, h
  <2>2. Sequence(lines) /\ Range(lines) = {AclLine(name, "reg", d.hostname)}
    BY <2>1, <1>0
  <2> QED
    BY <2>2, <1>4 DEF lines, h
<1> QED
  BY <1>1, <1>2, <1>3, <1>4

\* The lines of a route's ACLs: those of its host, and one for its path if it has one.
LEMMA RouteLines ==
  ASSUME NEW d, d.match \in {"exact", "subdomain", "wildcard", "regex"}
  PROVE  /\ Sequence(RouteACLs(d))
         /\ \A x : x \in Range(RouteACLs(d)) <=>
              \/ x \in Range(HostACLLines(AclName("host", d), d))
              \/ d.path # <<>> /\ x = AclLine(AclName("path", d), "beg", d.path)
<1> DEFINE s == HostACLLines(AclName("host", d), d)
           y == AclLine(AclName("path", d), "beg", d.path)
           b == d.path # <<>>
           t == Opt(b, <<y>>)
<1>1. Sequence(s)
  BY HostLines
<1>2. b \in BOOLEAN
  OBVIOUS
<1>3. RouteACLs(d) = s \o t
  BY DEF RouteACLs
<1> HIDE DEF s, y, b
<1>4. Sequence(t) /\ \A x : x \in Range(t) <=> b /\ x = y
  BY <1>2, OneOrNone
<1> HIDE DEF t
<1>5. Sequence(s \o t) /\ Range(s \o t) = Range(s) \cup Range(t)
  BY <1>1, <1>4, Joined, JoinedRange
<1>6. \A x : x \in Range(RouteACLs(d)) <=> x \in Range(s) \/ (b /\ x = y)
  BY <1>3, <1>4, <1>5
<1> QED
  BY <1>3, <1>5, <1>6 DEF s, b, y

\* The types of the columns the proofs ask for.
LEMMA Columns ==
  ASSUME WellFormed(config)
  PROVE  /\ \A d \in config.routes :
              /\ d.match \in {"exact", "subdomain", "wildcard", "regex"}
              /\ d.redirect \in BOOLEAN /\ d.force \in BOOLEAN /\ d.enabled \in BOOLEAN
              /\ d.path \in Seq(STRING) /\ d.backend \in DOMAIN config.backends \cup {None}
              /\ d.hostname \in DOMAIN Hostnames
         /\ config.frontend.http \in BOOLEAN /\ config.frontend.force \in BOOLEAN
         /\ config.frontend.limited \in BOOLEAN
         /\ config.frontend.default \in DOMAIN config.backends \cup {None}
         /\ None \notin DOMAIN config.backends
<1>1. config.routes \subseteq Domain(DOMAIN config.backends)
  BY DEF WellFormed
<1>2. \A d \in Domain(DOMAIN config.backends) :
        /\ d.match \in {"exact", "subdomain", "wildcard", "regex"}
        /\ d.redirect \in BOOLEAN /\ d.force \in BOOLEAN /\ d.enabled \in BOOLEAN
        /\ d.path \in Seq(STRING) /\ d.backend \in DOMAIN config.backends \cup {None}
        /\ d.hostname \in DOMAIN Hostnames
  BY DEF Domain
<1>3. /\ config.frontend.http \in BOOLEAN /\ config.frontend.force \in BOOLEAN
      /\ config.frontend.limited \in BOOLEAN
      /\ config.frontend.default \in DOMAIN config.backends \cup {None}
      /\ None \notin DOMAIN config.backends
  BY DEF WellFormed
<1> QED
  BY <1>1, <1>2, <1>3

\* The tables of rows are sequences.
LEMMA Tables ==
  ASSUME WellFormed(config)
  PROVE  /\ Sequence(config.frontend.binds) /\ Sequence(config.frontend.rules)
         /\ Sequence(config.defaults) /\ Sequence(config.snippets)
         /\ \A b \in DOMAIN config.backends : Sequence(config.backends[b].servers)
         /\ \A k \in DOMAIN config.frontend.rules :
              config.frontend.rules[k].directive \in {"http-request", "use_backend"}
<1>1. /\ config.frontend.binds \in Seq([enabled : BOOLEAN])
      /\ config.frontend.rules \in
           Seq([enabled : BOOLEAN, directive : {"http-request", "use_backend"},
                arg : STRING, on : {"any", "clear"}])
  BY DEF WellFormed
<1>2. config.defaults \in Seq([enabled : BOOLEAN, id : Nat]) /\ config.snippets \in Seq(Snippet)
  BY DEF WellFormed
<1>3. config.backends \in [DOMAIN config.backends -> Backend]
  BY DEF WellFormed
<1>4. \A b \in DOMAIN config.backends :
        config.backends[b].servers \in Seq([enabled : BOOLEAN, cookie : BOOLEAN])
  BY <1>3 DEF Backend
<1>5. ASSUME NEW k \in DOMAIN config.frontend.rules
      PROVE  config.frontend.rules[k].directive \in {"http-request", "use_backend"}
  <2> DEFINE R == [enabled : BOOLEAN, directive : {"http-request", "use_backend"},
                   arg : STRING, on : {"any", "clear"}]
             rules == config.frontend.rules
  <2>1. rules \in Seq(R)
    BY <1>1
  <2> HIDE DEF R, rules
  <2>2. rules[k] \in R
    BY <2>1, ElementOfSeq, LenProperties DEF rules
  <2> QED
    BY <2>2 DEF R, rules
<1> QED
  BY <1>1, <1>2, <1>4, <1>5, SequenceOf, Zenon

ToTLS(d) == Act("http-request", <<"https">>, Cond(d), "clear")
ToLocation(d) == Act("http-request", <<"location", d.id>>, Cond(d), "any")
Insists(d) == d.force /\ ~config.frontend.force /\ config.frontend.http

\* The redirects of one route, and which of them is first.
LEMMA RedirectLines ==
  ASSUME NEW d, d.redirect \in BOOLEAN
  PROVE  LET lines == RouteRedirects(config.frontend, d) IN
         /\ Sequence(lines)
         /\ \A x : x \in Range(lines) <=>
              (Insists(d) /\ x = ToTLS(d)) \/ (d.redirect /\ x = ToLocation(d))
         /\ \A K : Insists(d) /\ ToTLS(d) \in K => IsFirst(lines, K, ToTLS(d))
         /\ \A K : ~(Insists(d) /\ ToTLS(d) \in K) /\ d.redirect /\ ToLocation(d) \in K =>
              IsFirst(lines, K, ToLocation(d))
         /\ \A K : ~(Insists(d) /\ ToTLS(d) \in K) /\ ~(d.redirect /\ ToLocation(d) \in K) =>
              Lacks(lines, K)
<1> DEFINE b1 == Insists(d)  x1 == ToTLS(d)  s == Opt(b1, <<x1>>)
           b2 == d.redirect  x2 == ToLocation(d)  t == Opt(b2, <<x2>>)
<1>1. RouteRedirects(config.frontend, d) = s \o t
  BY DEF RouteRedirects, Insists, ToTLS, ToLocation
<1>2. b1 \in BOOLEAN /\ b2 \in BOOLEAN
  BY DEF Insists
<1> HIDE DEF b1, x1, b2, x2
<1>3. /\ Sequence(s) /\ \A y : y \in Range(s) <=> b1 /\ y = x1
      /\ \A K : b1 /\ x1 \in K => IsFirst(s, K, x1)
      /\ \A K : Lacks(s, K) <=> ~(b1 /\ x1 \in K)
  BY <1>2, OneOrNone
<1>4. /\ Sequence(t) /\ \A y : y \in Range(t) <=> b2 /\ y = x2
      /\ \A K : b2 /\ x2 \in K => IsFirst(t, K, x2)
      /\ \A K : Lacks(t, K) <=> ~(b2 /\ x2 \in K)
  BY <1>2, OneOrNone
<1> HIDE DEF s, t
<1>5. Sequence(s \o t) /\ Range(s \o t) = Range(s) \cup Range(t)
  BY <1>3, <1>4, Joined, JoinedRange
<1>6. \A K : b1 /\ x1 \in K => IsFirst(s \o t, K, x1)
  BY <1>3, <1>4, JoinedFirst
<1>7. \A K : ~(b1 /\ x1 \in K) /\ b2 /\ x2 \in K => IsFirst(s \o t, K, x2)
  BY <1>3, <1>4, JoinedFirstAfter
<1>8. \A K : ~(b1 /\ x1 \in K) /\ ~(b2 /\ x2 \in K) => Lacks(s \o t, K)
  BY <1>3, <1>4, JoinedLacks
<1>9. \A x : x \in Range(s \o t) <=> (b1 /\ x = x1) \/ (b2 /\ x = x2)
  BY <1>3, <1>4, <1>5
<1> QED
  BY <1>1, <1>5, <1>6, <1>7, <1>8, <1>9 DEF b1, b2, x1, x2

\* The binds: a line when one is enabled.
LEMMA BindFacts ==
  ASSUME WellFormed(config)
  PROVE  /\ Sequence(BindPart)
         /\ \A x : x \in Range(BindPart) <=>
              AnyEnabled(config.frontend.binds) /\ x = [kind |-> "bind"]
<1> DEFINE rows == config.frontend.binds
           line == [kind |-> "bind"]
           g == [k \in DOMAIN rows |-> <<line>>]
           p == [k \in DOMAIN rows |-> Opt(rows[k].enabled, <<line>>)]
<1>1. BindPart = FlattenSeq(p)
  BY DEF BindPart, Written
<1>2. Sequence(rows)
  BY Tables
<1> HIDE DEF rows, line
<1>3. p = [k \in DOMAIN rows |-> p[k]]
  OBVIOUS
<1>4. \A k \in DOMAIN rows : p[k] = Opt(rows[k].enabled, g[k]) /\ Sequence(g[k])
  BY OneElement
<1>5. \A k \in DOMAIN rows : \A x : x \in Range(g[k]) <=> x = line
  BY OneElement DEF Range
<1> HIDE DEF p, g
<1>6. /\ Sequence(FlattenSeq(p))
      /\ \A x : x \in Range(FlattenSeq(p)) <=>
           \E k \in DOMAIN rows : rows[k].enabled /\ x \in Range(g[k])
  BY <1>2, <1>3, <1>4, WrittenFacts
<1>7. \A x : x \in Range(FlattenSeq(p)) <=> AnyEnabled(rows) /\ x = line
  BY <1>5, <1>6 DEF AnyEnabled
<1> QED
  BY <1>1, <1>6, <1>7 DEF rows, line

\* The rules: a line for each enabled one, and which is the first of a set.
LEMMA RuleFacts ==
  ASSUME WellFormed(config)
  PROVE  LET rules == config.frontend.rules IN
         /\ Sequence(RulePart)
         /\ \A x : x \in Range(RulePart) <=>
              \E k \in DOMAIN rules : rules[k].enabled /\ x = RenderRule(rules[k])
         /\ \A K : \A k \in DOMAIN rules :
              rules[k].enabled /\ RenderRule(rules[k]) \in K
                /\ (\A m \in DOMAIN rules :
                      m < k /\ rules[m].enabled => RenderRule(rules[m]) \notin K)
              => IsFirst(RulePart, K, RenderRule(rules[k]))
<1> DEFINE rows == config.frontend.rules
           g == [k \in DOMAIN rows |-> <<RenderRule(rows[k])>>]
           p == [k \in DOMAIN rows |-> Opt(rows[k].enabled, <<RenderRule(rows[k])>>)]
<1>1. RulePart = FlattenSeq(p)
  BY DEF RulePart, Written
<1>2. Sequence(rows)
  BY Tables
<1> HIDE DEF rows
<1>3. p = [k \in DOMAIN rows |-> p[k]]
  OBVIOUS
<1>4. \A k \in DOMAIN rows : p[k] = Opt(rows[k].enabled, g[k]) /\ Sequence(g[k])
  BY OneElement
<1>5. \A k \in DOMAIN rows : DOMAIN g[k] = {1} /\ g[k][1] = RenderRule(rows[k])
  BY OneElement
<1> HIDE DEF p, g
<1>6. /\ Sequence(FlattenSeq(p))
      /\ \A x : x \in Range(FlattenSeq(p)) <=>
           \E k \in DOMAIN rows : rows[k].enabled /\ x \in Range(g[k])
      /\ \A K, l : \A k \in DOMAIN rows :
           rows[k].enabled /\ IsFirst(g[k], K, l)
             /\ (\A m \in DOMAIN rows : m < k /\ rows[m].enabled => Lacks(g[m], K))
           => IsFirst(FlattenSeq(p), K, l)
  BY <1>2, <1>3, <1>4, WrittenFacts
<1>7. \A k \in DOMAIN rows : \A x : x \in Range(g[k]) <=> x = RenderRule(rows[k])
  BY <1>5 DEF Range
<1>8. \A K : \A k \in DOMAIN rows :
        RenderRule(rows[k]) \in K => IsFirst(g[k], K, RenderRule(rows[k]))
  BY <1>5 DEF IsFirst
<1>9. \A K : \A k \in DOMAIN rows : RenderRule(rows[k]) \notin K => Lacks(g[k], K)
  BY <1>5 DEF Lacks
<1>10. \A x : x \in Range(FlattenSeq(p)) <=>
         \E k \in DOMAIN rows : rows[k].enabled /\ x = RenderRule(rows[k])
  BY <1>6, <1>7
<1>11. ASSUME NEW K, NEW k \in DOMAIN rows, rows[k].enabled, RenderRule(rows[k]) \in K,
              \A m \in DOMAIN rows : m < k /\ rows[m].enabled => RenderRule(rows[m]) \notin K
       PROVE  IsFirst(FlattenSeq(p), K, RenderRule(rows[k]))
  <2>1. \A m \in DOMAIN rows : m < k /\ rows[m].enabled => Lacks(g[m], K)
    BY <1>9, <1>11
  <2>2. IsFirst(g[k], K, RenderRule(rows[k]))
    BY <1>8, <1>11
  <2> QED
    BY <2>1, <2>2, <1>6, <1>11
<1> QED
  BY <1>1, <1>6, <1>10, <1>11 DEF rows

ToBackend(d) == Act("use_backend", <<"backend", d.backend>>, Cond(d), "any")
Serves(d) == d.backend # None /\ BackendUp(d.backend)

\* The use_backend line of one route, if it has one.
LEMMA UseLines ==
  ASSUME NEW d
  PROVE  /\ Sequence(UseBackend(d))
         /\ \A x : x \in Range(UseBackend(d)) <=> Serves(d) /\ x = ToBackend(d)
         /\ \A K : Serves(d) /\ ToBackend(d) \in K => IsFirst(UseBackend(d), K, ToBackend(d))
         /\ \A K : Lacks(UseBackend(d), K) <=> ~(Serves(d) /\ ToBackend(d) \in K)
<1>1. UseBackend(d) = Opt(Serves(d), <<ToBackend(d)>>) /\ Serves(d) \in BOOLEAN
  BY DEF UseBackend, Serves, ToBackend
<1> QED
  BY <1>1, OneOrNone


\* The tests of all routes.
LEMMA AclFacts ==
  ASSUME WellFormed(config), NEW routes \in ListDomainsByFrontend
  PROVE  /\ Sequence(AclPart(routes))
         /\ \A x : x \in Range(AclPart(routes)) <=>
              \E d \in config.routes : d.enabled /\ x \in Range(RouteACLs(d))
         /\ \A K, l : \A k \in DOMAIN routes :
              /\ routes[k].enabled /\ IsFirst(RouteACLs(routes[k]), K, l)
              /\ \A m \in DOMAIN routes :
                   m < k /\ routes[m].enabled => Lacks(RouteACLs(routes[m]), K)
              => IsFirst(AclPart(routes), K, l)
<1> DEFINE g == [k \in DOMAIN routes |-> RouteACLs(routes[k])]
           p == [k \in DOMAIN routes |-> Opt(routes[k].enabled, RouteACLs(routes[k]))]
<1>1. AclPart(routes) = FlattenSeq(p)
  BY DEF AclPart, Written
<1>2. Sequence(routes) /\ Range(routes) = config.routes
  BY RoutesListed
<1>3. \A d \in config.routes : Sequence(RouteACLs(d))
  BY Columns, RouteLines
<1>4. p = [k \in DOMAIN routes |-> p[k]]
  OBVIOUS
<1>5. \A k \in DOMAIN routes : routes[k] \in config.routes
  BY <1>2 DEF Range
<1>6. \A k \in DOMAIN routes : p[k] = Opt(routes[k].enabled, g[k]) /\ Sequence(g[k])
  BY <1>3, <1>5
<1>7. \A k \in DOMAIN routes : g[k] = RouteACLs(routes[k])
  OBVIOUS
<1> HIDE DEF p, g
<1>8. /\ Sequence(FlattenSeq(p))
      /\ \A x : x \in Range(FlattenSeq(p)) <=>
           \E k \in DOMAIN routes : routes[k].enabled /\ x \in Range(g[k])
      /\ \A K, l : \A k \in DOMAIN routes :
           routes[k].enabled /\ IsFirst(g[k], K, l)
             /\ (\A m \in DOMAIN routes : m < k /\ routes[m].enabled => Lacks(g[m], K))
           => IsFirst(FlattenSeq(p), K, l)
  BY <1>2, <1>4, <1>6, WrittenFacts
<1>9. ASSUME NEW x
      PROVE  x \in Range(FlattenSeq(p)) <=>
               \E d \in config.routes : d.enabled /\ x \in Range(RouteACLs(d))
  <2>1. \A d : d \in config.routes <=> \E k \in DOMAIN routes : d = routes[k]
    BY <1>2 DEF Range
  <2>2. x \in Range(FlattenSeq(p)) <=>
          \E k \in DOMAIN routes : routes[k].enabled /\ x \in Range(RouteACLs(routes[k]))
    BY <1>7, <1>8
  <2> QED
    BY <2>1, <2>2
<1>10. ASSUME NEW K, NEW l, NEW k \in DOMAIN routes, routes[k].enabled,
              IsFirst(RouteACLs(routes[k]), K, l),
              \A m \in DOMAIN routes :
                m < k /\ routes[m].enabled => Lacks(RouteACLs(routes[m]), K)
       PROVE  IsFirst(FlattenSeq(p), K, l)
  <2>1. IsFirst(g[k], K, l) /\ \A m \in DOMAIN routes : m < k /\ routes[m].enabled => Lacks(g[m], K)
    BY <1>7, <1>10
  <2> QED
    BY <2>1, <1>8, <1>10
<1> QED
  BY <1>1, <1>8, <1>9, <1>10

\* The redirects of all routes, in the order of the list.
LEMMA RedirectFacts ==
  ASSUME WellFormed(config), NEW routes \in ListDomainsByFrontend
  PROVE  /\ Sequence(RedirectPart(routes))
         /\ \A x : x \in Range(RedirectPart(routes)) <=>
              \E d \in config.routes : d.enabled /\ x \in Range(RouteRedirects(config.frontend, d))
         /\ \A K, l : \A k \in DOMAIN routes :
              /\ routes[k].enabled /\ IsFirst(RouteRedirects(config.frontend, routes[k]), K, l)
              /\ \A m \in DOMAIN routes :
                   m < k /\ routes[m].enabled =>
                     Lacks(RouteRedirects(config.frontend, routes[m]), K)
              => IsFirst(RedirectPart(routes), K, l)
<1> DEFINE g == [k \in DOMAIN routes |-> RouteRedirects(config.frontend, routes[k])]
           p == [k \in DOMAIN routes |->
                   Opt(routes[k].enabled, RouteRedirects(config.frontend, routes[k]))]
<1>1. RedirectPart(routes) = FlattenSeq(p)
  BY DEF RedirectPart, Written
<1>2. Sequence(routes) /\ Range(routes) = config.routes
  BY RoutesListed
<1>3. \A d \in config.routes : Sequence(RouteRedirects(config.frontend, d))
  BY Columns, RedirectLines
<1>4. p = [k \in DOMAIN routes |-> p[k]]
  OBVIOUS
<1>5. \A k \in DOMAIN routes : routes[k] \in config.routes
  BY <1>2 DEF Range
<1>6. \A k \in DOMAIN routes : p[k] = Opt(routes[k].enabled, g[k]) /\ Sequence(g[k])
  BY <1>3, <1>5
<1>7. \A k \in DOMAIN routes : g[k] = RouteRedirects(config.frontend, routes[k])
  OBVIOUS
<1> HIDE DEF p, g
<1>8. /\ Sequence(FlattenSeq(p))
      /\ \A x : x \in Range(FlattenSeq(p)) <=>
           \E k \in DOMAIN routes : routes[k].enabled /\ x \in Range(g[k])
      /\ \A K, l : \A k \in DOMAIN routes :
           routes[k].enabled /\ IsFirst(g[k], K, l)
             /\ (\A m \in DOMAIN routes : m < k /\ routes[m].enabled => Lacks(g[m], K))
           => IsFirst(FlattenSeq(p), K, l)
  BY <1>2, <1>4, <1>6, WrittenFacts
<1>9. ASSUME NEW x
      PROVE  x \in Range(FlattenSeq(p)) <=>
               \E d \in config.routes : d.enabled /\ x \in Range(RouteRedirects(config.frontend, d))
  <2>1. \A d : d \in config.routes <=> \E k \in DOMAIN routes : d = routes[k]
    BY <1>2 DEF Range
  <2>2. x \in Range(FlattenSeq(p)) <=>
          \E k \in DOMAIN routes :
            routes[k].enabled /\ x \in Range(RouteRedirects(config.frontend, routes[k]))
    BY <1>7, <1>8
  <2> QED
    BY <2>1, <2>2
<1>10. ASSUME NEW K, NEW l, NEW k \in DOMAIN routes, routes[k].enabled,
              IsFirst(RouteRedirects(config.frontend, routes[k]), K, l),
              \A m \in DOMAIN routes :
                m < k /\ routes[m].enabled => Lacks(RouteRedirects(config.frontend, routes[m]), K)
       PROVE  IsFirst(FlattenSeq(p), K, l)
  <2>1. IsFirst(g[k], K, l) /\ \A m \in DOMAIN routes : m < k /\ routes[m].enabled => Lacks(g[m], K)
    BY <1>7, <1>10
  <2> QED
    BY <2>1, <1>8, <1>10
<1> QED
  BY <1>1, <1>8, <1>9, <1>10

\* The backends of all routes, in the order of the list.
LEMMA UseFacts ==
  ASSUME WellFormed(config), NEW routes \in ListDomainsByFrontend
  PROVE  /\ Sequence(UsePart(routes))
         /\ \A x : x \in Range(UsePart(routes)) <=>
              \E d \in config.routes : d.enabled /\ x \in Range(UseBackend(d))
         /\ \A K, l : \A k \in DOMAIN routes :
              /\ routes[k].enabled /\ IsFirst(UseBackend(routes[k]), K, l)
              /\ \A m \in DOMAIN routes :
                   m < k /\ routes[m].enabled => Lacks(UseBackend(routes[m]), K)
              => IsFirst(UsePart(routes), K, l)
<1> DEFINE g == [k \in DOMAIN routes |-> UseBackend(routes[k])]
           p == [k \in DOMAIN routes |-> Opt(routes[k].enabled, UseBackend(routes[k]))]
<1>1. UsePart(routes) = FlattenSeq(p)
  BY DEF UsePart, Written
<1>2. Sequence(routes) /\ Range(routes) = config.routes
  BY RoutesListed
<1>3. \A d \in config.routes : Sequence(UseBackend(d))
  BY UseLines
<1>4. p = [k \in DOMAIN routes |-> p[k]]
  OBVIOUS
<1>5. \A k \in DOMAIN routes : routes[k] \in config.routes
  BY <1>2 DEF Range
<1>6. \A k \in DOMAIN routes : p[k] = Opt(routes[k].enabled, g[k]) /\ Sequence(g[k])
  BY <1>3, <1>5
<1>7. \A k \in DOMAIN routes : g[k] = UseBackend(routes[k])
  OBVIOUS
<1> HIDE DEF p, g
<1>8. /\ Sequence(FlattenSeq(p))
      /\ \A x : x \in Range(FlattenSeq(p)) <=>
           \E k \in DOMAIN routes : routes[k].enabled /\ x \in Range(g[k])
      /\ \A K, l : \A k \in DOMAIN routes :
           routes[k].enabled /\ IsFirst(g[k], K, l)
             /\ (\A m \in DOMAIN routes : m < k /\ routes[m].enabled => Lacks(g[m], K))
           => IsFirst(FlattenSeq(p), K, l)
  BY <1>2, <1>4, <1>6, WrittenFacts
<1>9. ASSUME NEW x
      PROVE  x \in Range(FlattenSeq(p)) <=>
               \E d \in config.routes : d.enabled /\ x \in Range(UseBackend(d))
  <2>1. \A d : d \in config.routes <=> \E k \in DOMAIN routes : d = routes[k]
    BY <1>2 DEF Range
  <2>2. x \in Range(FlattenSeq(p)) <=>
          \E k \in DOMAIN routes : routes[k].enabled /\ x \in Range(UseBackend(routes[k]))
    BY <1>7, <1>8
  <2> QED
    BY <2>1, <2>2
<1>10. ASSUME NEW K, NEW l, NEW k \in DOMAIN routes, routes[k].enabled,
              IsFirst(UseBackend(routes[k]), K, l),
              \A m \in DOMAIN routes :
                m < k /\ routes[m].enabled => Lacks(UseBackend(routes[m]), K)
       PROVE  IsFirst(FlattenSeq(p), K, l)
  <2>1. IsFirst(g[k], K, l) /\ \A m \in DOMAIN routes : m < k /\ routes[m].enabled => Lacks(g[m], K)
    BY <1>7, <1>10
  <2> QED
    BY <2>1, <1>8, <1>10
<1> QED
  BY <1>1, <1>8, <1>9, <1>10

\* The parts that have a line or none.
LEMMA SmallParts ==
  ASSUME WellFormed(config)
  PROVE  LET f == config.frontend
             deny == Act("http-request", <<"deny">>, {}, "fast")
             secure == Act("http-request", <<"https">>, {}, "clear")
             default == Act("default_backend", <<"backend", f.default>>, {}, "any")
             up == f.default # None /\ BackendUp(f.default)
         IN  /\ Sequence(LimitPart) /\ Sequence(ForcePart) /\ Sequence(DefaultPart)
             /\ \A x : x \in Range(LimitPart) <=> f.limited /\ x = deny
             /\ \A x : x \in Range(ForcePart) <=> f.http /\ f.force /\ x = secure
             /\ \A x : x \in Range(DefaultPart) <=> up /\ x = default
             /\ \A K : f.limited /\ deny \in K => IsFirst(LimitPart, K, deny)
             /\ \A K : f.http /\ f.force /\ secure \in K => IsFirst(ForcePart, K, secure)
             /\ \A K : up /\ default \in K => IsFirst(DefaultPart, K, default)
<1> DEFINE f == config.frontend
           deny == Act("http-request", <<"deny">>, {}, "fast")
           secure == Act("http-request", <<"https">>, {}, "clear")
           default == Act("default_backend", <<"backend", f.default>>, {}, "any")
           up == f.default # None /\ BackendUp(f.default)
           both == f.http /\ f.force
<1>1. f.limited \in BOOLEAN /\ both \in BOOLEAN /\ up \in BOOLEAN
  BY Columns
<1>2. /\ LimitPart = Opt(f.limited, <<deny>>) /\ ForcePart = Opt(both, <<secure>>)
      /\ DefaultPart = Opt(up, <<default>>)
  BY DEF LimitPart, ForcePart, DefaultPart
<1> HIDE DEF deny, secure, default, up, both
<1>3. /\ Sequence(LimitPart) /\ \A x : x \in Range(LimitPart) <=> f.limited /\ x = deny
      /\ \A K : f.limited /\ deny \in K => IsFirst(LimitPart, K, deny)
  BY <1>1, <1>2, OneOrNone
<1>4. /\ Sequence(ForcePart) /\ \A x : x \in Range(ForcePart) <=> both /\ x = secure
      /\ \A K : both /\ secure \in K => IsFirst(ForcePart, K, secure)
  BY <1>1, <1>2, OneOrNone
<1>5. /\ Sequence(DefaultPart) /\ \A x : x \in Range(DefaultPart) <=> up /\ x = default
      /\ \A K : up /\ default \in K => IsFirst(DefaultPart, K, default)
  BY <1>1, <1>2, OneOrNone
<1> QED
  BY <1>3, <1>4, <1>5 DEF deny, secure, default, up, both

\* The lines of the frontend are those of its parts.
LEMMA FrontendRange ==
  ASSUME WellFormed(config), NEW routes \in ListDomainsByFrontend
  PROVE  /\ Sequence(FrontendLines(routes))
         /\ \A x : x \in Range(FrontendLines(routes)) <=>
              \/ x \in Range(BindPart) \/ x \in Range(LimitPart) \/ x \in Range(AclPart(routes))
              \/ x \in Range(ForcePart) \/ x \in Range(RedirectPart(routes))
              \/ x \in Range(RulePart) \/ x \in Range(UsePart(routes)) \/ x \in Range(DefaultPart)
<1> DEFINE s1 == BindPart  s2 == LimitPart  s3 == AclPart(routes)  s4 == ForcePart
           s5 == RedirectPart(routes)  s6 == RulePart  s7 == UsePart(routes)  s8 == DefaultPart
<1>1. Sequence(s1) /\ Sequence(s3) /\ Sequence(s5) /\ Sequence(s6) /\ Sequence(s7)
  BY BindFacts, AclFacts, RedirectFacts, RuleFacts, UseFacts
<1>2. Sequence(s2) /\ Sequence(s4) /\ Sequence(s8)
  BY SmallParts
<1>3. FrontendLines(routes) = s1 \o s2 \o s3 \o s4 \o s5 \o s6 \o s7 \o s8
  BY DEF FrontendLines
<1> HIDE DEF s1, s2, s3, s4, s5, s6, s7, s8
<1> DEFINE t2 == s1 \o s2  t3 == t2 \o s3  t4 == t3 \o s4  t5 == t4 \o s5  t6 == t5 \o s6
           t7 == t6 \o s7  t8 == t7 \o s8
<1>4. Sequence(t2) /\ Range(t2) = Range(s1) \cup Range(s2)
  BY <1>1, <1>2, Joined, JoinedRange
<1>5. FrontendLines(routes) = t8
  BY <1>3
<1> HIDE DEF t2
<1>6. Sequence(t3) /\ Range(t3) = Range(t2) \cup Range(s3)
  BY <1>1, <1>4, Joined, JoinedRange
<1> HIDE DEF t3
<1>7. Sequence(t4) /\ Range(t4) = Range(t3) \cup Range(s4)
  BY <1>2, <1>6, Joined, JoinedRange
<1> HIDE DEF t4
<1>8. Sequence(t5) /\ Range(t5) = Range(t4) \cup Range(s5)
  BY <1>1, <1>7, Joined, JoinedRange
<1> HIDE DEF t5
<1>9. Sequence(t6) /\ Range(t6) = Range(t5) \cup Range(s6)
  BY <1>1, <1>8, Joined, JoinedRange
<1> HIDE DEF t6
<1>10. Sequence(t7) /\ Range(t7) = Range(t6) \cup Range(s7)
  BY <1>1, <1>9, Joined, JoinedRange
<1> HIDE DEF t7
<1>11. Sequence(t8) /\ Range(t8) = Range(t7) \cup Range(s8)
  BY <1>2, <1>10, Joined, JoinedRange
<1> HIDE DEF t8
<1>12. \A x : x \in Range(t8) <=>
         \/ x \in Range(s1) \/ x \in Range(s2) \/ x \in Range(s3) \/ x \in Range(s4)
         \/ x \in Range(s5) \/ x \in Range(s6) \/ x \in Range(s7) \/ x \in Range(s8)
  BY <1>4, <1>6, <1>7, <1>8, <1>9, <1>10, <1>11
<1> QED
  BY <1>5, <1>11, <1>12 DEF s1, s2, s3, s4, s5, s6, s7, s8

-----------------------------------------------------------------------------
(* The sections of the file.                                               *)

\* The snippets of one kind, as lines.
LEMMA LineFacts ==
  ASSUME WellFormed(config), NEW kind
  PROVE  LET snippets == config.snippets IN
         /\ Sequence(SnippetLines(kind))
         /\ \A x : x \in Range(SnippetLines(kind)) <=>
              \E k \in DOMAIN snippets :
                snippets[k].enabled /\ snippets[k].section = kind /\ x = SnippetLine(snippets[k])
<1> DEFINE rows == config.snippets
           g == [k \in DOMAIN rows |-> Opt(rows[k].section = kind, <<SnippetLine(rows[k])>>)]
           p == [k \in DOMAIN rows |->
                   Opt(rows[k].enabled, Opt(rows[k].section = kind, <<SnippetLine(rows[k])>>))]
<1>1. SnippetLines(kind) = FlattenSeq(p)
  BY DEF SnippetLines, OfKind, Written
<1>2. Sequence(rows)
  BY Tables
<1> HIDE DEF rows
<1>3. p = [k \in DOMAIN rows |-> p[k]]
  OBVIOUS
<1>4. \A k \in DOMAIN rows : p[k] = Opt(rows[k].enabled, g[k])
  OBVIOUS
<1>5. ASSUME NEW k \in DOMAIN rows
      PROVE  /\ Sequence(g[k])
             /\ \A x : x \in Range(g[k]) <=> rows[k].section = kind /\ x = SnippetLine(rows[k])
  <2> DEFINE b == rows[k].section = kind
             y == SnippetLine(rows[k])
  <2>1. b \in BOOLEAN /\ g[k] = Opt(b, <<y>>)
    OBVIOUS
  <2> HIDE DEF b, y, g
  <2>2. Sequence(g[k]) /\ \A x : x \in Range(g[k]) <=> b /\ x = y
    BY <2>1, OneOrNone
  <2> QED
    BY <2>2 DEF b, y
<1> HIDE DEF p, g
<1>6. /\ Sequence(FlattenSeq(p))
      /\ \A x : x \in Range(FlattenSeq(p)) <=>
           \E k \in DOMAIN rows : rows[k].enabled /\ x \in Range(g[k])
  BY <1>2, <1>3, <1>4, <1>5, WrittenFacts
<1>7. ASSUME NEW x
      PROVE  x \in Range(FlattenSeq(p)) <=>
               \E k \in DOMAIN rows :
                 rows[k].enabled /\ rows[k].section = kind /\ x = SnippetLine(rows[k])
  BY <1>5, <1>6
<1> QED
  BY <1>1, <1>6, <1>7 DEF rows

\* The snippets of one kind, as sections of their own.
LEMMA OwnFacts ==
  ASSUME WellFormed(config), NEW kind
  PROVE  LET snippets == config.snippets IN
         /\ Sequence(OwnSections(kind))
         /\ \A x : x \in Range(OwnSections(kind)) <=>
              \E k \in DOMAIN snippets :
                snippets[k].enabled /\ snippets[k].section = kind /\ x = OwnSection(snippets[k])
<1> DEFINE rows == config.snippets
           g == [k \in DOMAIN rows |-> Opt(rows[k].section = kind, <<OwnSection(rows[k])>>)]
           p == [k \in DOMAIN rows |->
                   Opt(rows[k].enabled, Opt(rows[k].section = kind, <<OwnSection(rows[k])>>))]
<1>1. OwnSections(kind) = FlattenSeq(p)
  BY DEF OwnSections, OfKind, Written
<1>2. Sequence(rows)
  BY Tables
<1> HIDE DEF rows
<1>3. p = [k \in DOMAIN rows |-> p[k]]
  OBVIOUS
<1>4. \A k \in DOMAIN rows : p[k] = Opt(rows[k].enabled, g[k])
  OBVIOUS
<1>5. ASSUME NEW k \in DOMAIN rows
      PROVE  /\ Sequence(g[k])
             /\ \A x : x \in Range(g[k]) <=> rows[k].section = kind /\ x = OwnSection(rows[k])
  <2> DEFINE b == rows[k].section = kind
             y == OwnSection(rows[k])
  <2>1. b \in BOOLEAN /\ g[k] = Opt(b, <<y>>)
    OBVIOUS
  <2> HIDE DEF b, y, g
  <2>2. Sequence(g[k]) /\ \A x : x \in Range(g[k]) <=> b /\ x = y
    BY <2>1, OneOrNone
  <2> QED
    BY <2>2 DEF b, y
<1> HIDE DEF p, g
<1>6. /\ Sequence(FlattenSeq(p))
      /\ \A x : x \in Range(FlattenSeq(p)) <=>
           \E k \in DOMAIN rows : rows[k].enabled /\ x \in Range(g[k])
  BY <1>2, <1>3, <1>4, <1>5, WrittenFacts
<1>7. ASSUME NEW x
      PROVE  x \in Range(FlattenSeq(p)) <=>
               \E k \in DOMAIN rows :
                 rows[k].enabled /\ rows[k].section = kind /\ x = OwnSection(rows[k])
  BY <1>5, <1>6
<1> QED
  BY <1>1, <1>6, <1>7 DEF rows

\* The sections of several kinds, one kind after the other.
LEMMA OrderedFacts ==
  ASSUME WellFormed(config), NEW kinds, Sequence(kinds)
  PROVE  LET snippets == config.snippets IN
         /\ Sequence(InOrder(kinds))
         /\ \A x : x \in Range(InOrder(kinds)) <=>
              \E k \in DOMAIN snippets :
                /\ snippets[k].enabled /\ snippets[k].section \in Range(kinds)
                /\ x = OwnSection(snippets[k])
<1> DEFINE p == [i \in DOMAIN kinds |-> OwnSections(kinds[i])]  rows == config.snippets
<1>1. InOrder(kinds) = FlattenSeq(p)
  BY DEF InOrder
<1>2. DOMAIN p = DOMAIN kinds /\ p = [i \in DOMAIN kinds |-> p[i]]
  OBVIOUS
<1>3. \A i \in DOMAIN p : p[i] = OwnSections(kinds[i])
  OBVIOUS
<1> HIDE DEF p, rows
<1>4. Sequence(p)
  BY <1>2, SequenceDomain, Listed
<1>5. \A i \in DOMAIN p : /\ Sequence(p[i])
                          /\ \A x : x \in Range(p[i]) <=>
                               \E k \in DOMAIN rows :
                                 /\ rows[k].enabled /\ rows[k].section = kinds[i]
                                 /\ x = OwnSection(rows[k])
  BY <1>3, OwnFacts DEF rows
<1>6. Sequence(FlattenSeq(p))
  BY <1>4, <1>5, FlatSequence
<1>7. ASSUME NEW x
      PROVE  x \in Range(FlattenSeq(p)) <=>
               \E k \in DOMAIN rows :
                 rows[k].enabled /\ rows[k].section \in Range(kinds) /\ x = OwnSection(rows[k])
  <2>1. x \in Range(FlattenSeq(p)) <=> \E i \in DOMAIN p : x \in Range(p[i])
    BY <1>4, <1>5, FlatRange
  <2>2. \A y : y \in Range(kinds) <=> \E i \in DOMAIN p : y = kinds[i]
    BY <1>2 DEF Range
  <2> QED
    BY <2>1, <2>2, <1>5
<1> QED
  BY <1>1, <1>6, <1>7 DEF rows

-----------------------------------------------------------------------------
(* What a sequence has exactly once.                                       *)

Once(s, x) == \E i \in DOMAIN s : \A j \in DOMAIN s : s[j] = x <=> j = i

\* What only one of two sequences has, and once, they have once when joined.
LEMMA JoinedOnce ==
  ASSUME NEW x, NEW s, Sequence(s), NEW t, Sequence(t),
         (Once(s, x) /\ x \notin Range(t)) \/ (x \notin Range(s) /\ Once(t, x))
  PROVE  Once(s \o t, x)
<1>1. Len(s) \in Nat /\ Len(t) \in Nat /\ DOMAIN s = 1..Len(s) /\ DOMAIN t = 1..Len(t)
  BY SequenceDomain
<1>2. Sequence(s \o t) /\ Len(s \o t) = Len(s) + Len(t)
  BY Joined
<1>3. DOMAIN (s \o t) = 1..(Len(s) + Len(t))
  BY <1>2, SequenceDomain
<1>4. \A j \in DOMAIN s : j \in DOMAIN (s \o t) /\ (s \o t)[j] = s[j]
  BY <1>1, <1>3, Joined
<1>5. \A j \in DOMAIN t : Len(s) + j \in DOMAIN (s \o t) /\ (s \o t)[Len(s) + j] = t[j]
  <2>1. \A j \in DOMAIN t : Len(s) + j \in DOMAIN (s \o t)
    BY <1>1, <1>3
  <2> QED
    BY <2>1, <1>1, Joined
<1>6. \A j \in DOMAIN s : s[j] \in Range(s)
  BY DEF Range
<1>7. \A j \in DOMAIN t : t[j] \in Range(t)
  BY DEF Range
<1>8. CASE Once(s, x) /\ x \notin Range(t)
  <2>1. PICK i \in DOMAIN s : \A j \in DOMAIN s : s[j] = x <=> j = i
    BY <1>8 DEF Once
  <2>2. ASSUME NEW j \in DOMAIN (s \o t) PROVE (s \o t)[j] = x <=> j = i
    <3>1. CASE j \in DOMAIN s /\ (s \o t)[j] = s[j]
      BY <3>1, <2>1
    <3>2. CASE \E m \in DOMAIN t : j = Len(s) + m /\ (s \o t)[j] = t[m]
      <4>1. PICK m \in DOMAIN t : j = Len(s) + m /\ (s \o t)[j] = t[m]
        BY <3>2
      <4>2. j # i
        BY <4>1, <2>1, <1>1
      <4> QED
        BY <4>1, <4>2, <1>7, <1>8
    <3> QED
      BY <3>1, <3>2, JoinedIndex
  <2> QED
    BY <2>1, <2>2, <1>4 DEF Once
<1>9. CASE x \notin Range(s) /\ Once(t, x)
  <2>1. PICK i \in DOMAIN t : \A j \in DOMAIN t : t[j] = x <=> j = i
    BY <1>9 DEF Once
  <2>2. ASSUME NEW j \in DOMAIN (s \o t) PROVE (s \o t)[j] = x <=> j = Len(s) + i
    <3>1. CASE j \in DOMAIN s /\ (s \o t)[j] = s[j]
      <4>1. j # Len(s) + i
        BY <3>1, <2>1, <1>1
      <4> QED
        BY <3>1, <4>1, <1>6, <1>9
    <3>2. CASE \E m \in DOMAIN t : j = Len(s) + m /\ (s \o t)[j] = t[m]
      <4>1. PICK m \in DOMAIN t : j = Len(s) + m /\ (s \o t)[j] = t[m]
        BY <3>2
      <4>2. j = Len(s) + i <=> m = i
        BY <4>1, <2>1, <1>1
      <4> QED
        BY <4>1, <4>2, <2>1
    <3> QED
      BY <3>1, <3>2, JoinedIndex
  <2>3. Len(s) + i \in DOMAIN (s \o t)
    BY <2>1, <1>5
  <2> QED
    BY <2>2, <2>3 DEF Once
<1> QED
  BY <1>8, <1>9

\* What one part has once, and no other part has, is there once.
LEMMA FlatOnce ==
  ASSUME NEW ss, Sequence(ss), \A i \in DOMAIN ss : Sequence(ss[i]), NEW x,
         NEW k \in DOMAIN ss, Once(ss[k], x), \A m \in DOMAIN ss : m # k => x \notin Range(ss[m])
  PROVE  Once(FlattenSeq(ss), x)
<1> DEFINE out == FlattenSeq(ss)
<1>1. PICK at : Placed(ss, out, at)
  BY Places
<1> HIDE DEF out
<1>2. PICK i \in DOMAIN ss[k] : \A j \in DOMAIN ss[k] : ss[k][j] = x <=> j = i
  BY DEF Once
<1>3. at[k] + i \in DOMAIN out /\ out[at[k] + i] = x
  BY <1>1, <1>2 DEF Placed
<1>4. ASSUME NEW j \in DOMAIN out, out[j] = x PROVE j = at[k] + i
  <2>1. PICK m \in DOMAIN ss : \E n \in DOMAIN ss[m] : j = at[m] + n /\ out[j] = ss[m][n]
    BY <1>1 DEF Placed
  <2>2. PICK n \in DOMAIN ss[m] : j = at[m] + n /\ out[j] = ss[m][n]
    BY <2>1
  <2>3. x \in Range(ss[m])
    BY <2>2, <1>4 DEF Range
  <2>4. m = k /\ n = i
    BY <2>2, <2>3, <1>2, <1>4
  <2> QED
    BY <2>2, <2>4
<1>5. Once(out, x)
  BY <1>3, <1>4 DEF Once
<1> QED
  BY <1>5 DEF out

\* What a loop adds once for one enabled row, and for no other, it writes once.
LEMMA WrittenOnce ==
  ASSUME NEW rows, Sequence(rows), NEW g, NEW p, p = [k \in DOMAIN rows |-> p[k]],
         \A k \in DOMAIN rows : p[k] = Opt(rows[k].enabled, g[k]) /\ Sequence(g[k]),
         NEW x, NEW k \in DOMAIN rows, rows[k].enabled, Once(g[k], x),
         \A m \in DOMAIN rows : m # k => x \notin Range(g[m])
  PROVE  Once(FlattenSeq(p), x)
<1>1. DOMAIN p = DOMAIN rows
  OBVIOUS
<1>2. Sequence(p)
  BY SequenceDomain, Listed
<1>3. \A m \in DOMAIN rows : p[m] = (IF rows[m].enabled THEN g[m] ELSE <<>>)
  BY DEF Opt
<1>4. \A m \in DOMAIN p : Sequence(p[m])
  BY <1>1, <1>3, NoElement
<1>5. x \notin Range(<<>>)
  BY NoElement DEF Range
<1>6. Once(p[k], x) /\ \A m \in DOMAIN p : m # k => x \notin Range(p[m])
  BY <1>1, <1>3, <1>5
<1> QED
  BY <1>1, <1>2, <1>4, <1>6, FlatOnce

\* A sequence of one element has it once.
LEMMA OneOnce ==
  ASSUME NEW x
  PROVE  Once(<<x>>, x) /\ Range(<<x>>) = {x} /\ Sequence(<<x>>)
BY OneElement DEF Once, Range

-----------------------------------------------------------------------------
(* The sections of the whole file.                                         *)

DefaultsPart == Written(config.defaults, LAMBDA d : <<RenderDefaults(d)>>)
BackendPart(backends) == [k \in DOMAIN backends |-> RenderBackend(backends[k])]

\* The sections that come before the proxies.
Head3 == <<RenderGlobal>> \o RenderSectionSnippets \o DefaultsPart

\* The file is the head, the frontend, the backends and the trailing snippets.
LEMMA ContentParts ==
  ASSUME NEW routes, NEW backends
  PROVE  Content(routes, backends) =
           Head3 \o <<RenderFrontend(config.frontend, routes)>> \o BackendPart(backends)
             \o RenderTrailingSnippets
BY DEF Content, Head3, DefaultsPart, BackendPart

\* The enabled defaults sections.
LEMMA DefaultsFacts ==
  ASSUME WellFormed(config)
  PROVE  LET rows == config.defaults IN
         /\ Sequence(DefaultsPart)
         /\ \A x : x \in Range(DefaultsPart) <=>
              \E k \in DOMAIN rows : rows[k].enabled /\ x = RenderDefaults(rows[k])
<1> DEFINE rows == config.defaults
           g == [k \in DOMAIN rows |-> <<RenderDefaults(rows[k])>>]
           p == [k \in DOMAIN rows |-> Opt(rows[k].enabled, <<RenderDefaults(rows[k])>>)]
<1>1. DefaultsPart = FlattenSeq(p)
  BY DEF DefaultsPart, Written
<1>2. Sequence(rows)
  BY Tables
<1> HIDE DEF rows
<1>3. p = [k \in DOMAIN rows |-> p[k]]
  OBVIOUS
<1>4. \A k \in DOMAIN rows : p[k] = Opt(rows[k].enabled, g[k])
  OBVIOUS
<1>5. \A k \in DOMAIN rows : g[k] = <<RenderDefaults(rows[k])>>
  OBVIOUS
<1> HIDE DEF p, g
<1>6. \A k \in DOMAIN rows :
        Sequence(g[k]) /\ \A x : x \in Range(g[k]) <=> x = RenderDefaults(rows[k])
  BY <1>5, OneOnce
<1>7. /\ Sequence(FlattenSeq(p))
      /\ \A x : x \in Range(FlattenSeq(p)) <=>
           \E k \in DOMAIN rows : rows[k].enabled /\ x \in Range(g[k])
  BY <1>2, <1>3, <1>4, <1>6, WrittenFacts
<1>8. \A x : x \in Range(FlattenSeq(p)) <=>
        \E k \in DOMAIN rows : rows[k].enabled /\ x = RenderDefaults(rows[k])
  BY <1>6, <1>7
<1> QED
  BY <1>1, <1>7, <1>8 DEF rows

\* The sections of the enabled backends.
LEMMA BackendFacts ==
  ASSUME WellFormed(config), NEW backends \in ListBackends
  PROVE  /\ Sequence(BackendPart(backends))
         /\ \A x : x \in Range(BackendPart(backends)) <=>
              \E b : BackendUp(b) /\ x = RenderBackend(b)
<1>1. Sequence(backends) /\ \A b : b \in Range(backends) <=> BackendUp(b)
  BY BackendsListed
<1> DEFINE s == BackendPart(backends)
<1>2. DOMAIN s = DOMAIN backends /\ s = [k \in DOMAIN backends |-> s[k]]
  BY DEF BackendPart
<1>3. \A k \in DOMAIN backends : s[k] = RenderBackend(backends[k])
  BY DEF BackendPart
<1> HIDE DEF s
<1>4. Sequence(s)
  BY <1>1, <1>2, SequenceDomain, Listed
<1>5. \A x : x \in Range(s) <=> \E b \in Range(backends) : x = RenderBackend(b)
  BY <1>2, <1>3 DEF Range
<1> QED
  BY <1>1, <1>4, <1>5 DEF s

\* The snippets' own sections before the proxies and after them.
LEMMA OwnKinds ==
  ASSUME WellFormed(config)
  PROVE  LET snippets == config.snippets IN
         /\ Sequence(RenderSectionSnippets) /\ Sequence(RenderTrailingSnippets)
         /\ \A x : x \in Range(RenderSectionSnippets) <=>
              \E k \in DOMAIN snippets :
                /\ snippets[k].enabled /\ snippets[k].section \in Range(SectionOrder)
                /\ x = OwnSection(snippets[k])
         /\ \A x : x \in Range(RenderTrailingSnippets) <=>
              \E k \in DOMAIN snippets :
                /\ snippets[k].enabled /\ snippets[k].section \in {"listen", "raw", "http-errors"}
                /\ x = OwnSection(snippets[k])
<1> DEFINE trailing == <<"listen", "raw", "http-errors">>
<1>1. /\ DOMAIN SectionOrder = 1..11 /\ SectionOrder = [i \in 1..11 |-> SectionOrder[i]]
      /\ DOMAIN trailing = 1..3 /\ trailing = [i \in 1..3 |-> trailing[i]]
  BY DEF SectionOrder
<1>2. Sequence(SectionOrder) /\ Sequence(trailing)
  BY <1>1, Listed
<1>3. Range(trailing) = {"listen", "raw", "http-errors"}
  <2>1. DOMAIN trailing = 1..3 /\ trailing[1] = "listen" /\ trailing[2] = "raw"
        /\ trailing[3] = "http-errors"
    OBVIOUS
  <2> HIDE DEF trailing
  <2> QED
    BY <2>1 DEF Range
<1>4. RenderSectionSnippets = InOrder(SectionOrder) /\ RenderTrailingSnippets = InOrder(trailing)
  BY DEF RenderSectionSnippets, RenderTrailingSnippets
<1> HIDE DEF trailing
<1> QED
  BY <1>2, <1>3, <1>4, OrderedFacts

\* The kinds of sections that are written among the snippets.
LEMMA OrderKinds ==
  Range(SectionOrder) =
    {"crt-store", "resolvers", "userlist", "peers", "cache", "ring", "mailers", "log-forward",
     "program", "fcgi-app", "traces"}
<1>1. /\ DOMAIN SectionOrder = 1..11
      /\ SectionOrder[1] = "crt-store" /\ SectionOrder[2] = "resolvers"
      /\ SectionOrder[3] = "userlist" /\ SectionOrder[4] = "peers" /\ SectionOrder[5] = "cache"
      /\ SectionOrder[6] = "ring" /\ SectionOrder[7] = "mailers"
      /\ SectionOrder[8] = "log-forward" /\ SectionOrder[9] = "program"
      /\ SectionOrder[10] = "fcgi-app" /\ SectionOrder[11] = "traces"
  BY DEF SectionOrder
<1>2. \A i \in 1..11 : \/ i = 1 \/ i = 2 \/ i = 3 \/ i = 4 \/ i = 5 \/ i = 6
                       \/ i = 7 \/ i = 8 \/ i = 9 \/ i = 10 \/ i = 11
  OBVIOUS
<1>3. Range(SectionOrder) = {SectionOrder[i] : i \in 1..11}
  BY <1>1 DEF Range
<1> QED
  BY <1>1, <1>2, <1>3

\* The sections of the file are those of its parts.
LEMMA HeadRange ==
  ASSUME WellFormed(config)
  PROVE  /\ Sequence(Head3)
         /\ \A x : x \in Range(Head3) <=>
              \/ x = RenderGlobal \/ x \in Range(RenderSectionSnippets) \/ x \in Range(DefaultsPart)
<1> DEFINE a == <<RenderGlobal>>  b == RenderSectionSnippets  c == DefaultsPart  t == a \o b
<1>1. Sequence(a) /\ Sequence(b) /\ Sequence(c) /\ Range(a) = {RenderGlobal}
  BY OneOnce, OwnKinds, DefaultsFacts
<1>2. Head3 = t \o c
  BY DEF Head3
<1> HIDE DEF a, b, c
<1>3. Sequence(t) /\ Range(t) = Range(a) \cup Range(b)
  BY <1>1, Joined, JoinedRange
<1> HIDE DEF t
<1>4. Sequence(t \o c) /\ Range(t \o c) = Range(t) \cup Range(c)
  BY <1>1, <1>3, Joined, JoinedRange
<1> QED
  BY <1>1, <1>2, <1>3, <1>4 DEF b, c

\* The sections of the file are those of these parts.
LEMMA ContentRange ==
  ASSUME WellFormed(config), NEW routes \in ListDomainsByFrontend, NEW backends \in ListBackends
  PROVE  /\ Sequence(Content(routes, backends))
         /\ \A x : x \in Range(Content(routes, backends)) <=>
              \/ x \in Range(Head3) \/ x = RenderFrontend(config.frontend, routes)
              \/ x \in Range(BackendPart(backends)) \/ x \in Range(RenderTrailingSnippets)
<1> DEFINE y == RenderFrontend(config.frontend, routes)
           a == Head3  b == <<y>>  c == BackendPart(backends)  d == RenderTrailingSnippets
           t == a \o b  u == t \o c
<1>1. Sequence(a) /\ Sequence(b) /\ Sequence(c) /\ Sequence(d) /\ Range(b) = {y}
  BY OneOnce, OwnKinds, HeadRange, BackendFacts
<1>2. Content(routes, backends) = u \o d
  BY ContentParts
<1> HIDE DEF a, b, c, d, y
<1>3. Sequence(t) /\ Range(t) = Range(a) \cup Range(b)
  BY <1>1, Joined, JoinedRange
<1> HIDE DEF t
<1>4. Sequence(u) /\ Range(u) = Range(t) \cup Range(c)
  BY <1>1, <1>3, Joined, JoinedRange
<1> HIDE DEF u
<1>5. Sequence(u \o d) /\ Range(u \o d) = Range(u) \cup Range(d)
  BY <1>1, <1>4, Joined, JoinedRange
<1> QED
  BY <1>1, <1>2, <1>3, <1>4, <1>5 DEF a, c, d, y

Early == {"global", "defaults"} \cup Range(SectionOrder)
Late == {"listen", "raw", "http-errors"}

\* Which kinds of sections each part of the file has.
LEMMA SectionKinds ==
  ASSUME WellFormed(config), NEW routes \in ListDomainsByFrontend, NEW backends \in ListBackends
  PROVE  /\ \A x \in Range(Head3) : x.kind \in Early
         /\ RenderFrontend(config.frontend, routes).kind = "frontend"
         /\ \A x \in Range(BackendPart(backends)) : x.kind = "backend"
         /\ \A x \in Range(RenderTrailingSnippets) : x.kind \in Late
<1>1. RenderGlobal.kind = "global" /\ \A d : RenderDefaults(d).kind = "defaults"
  BY DEF RenderGlobal, RenderDefaults, Section
<1>2. \A b : RenderBackend(b).kind = "backend"
  BY DEF RenderBackend, Section
<1>3. \A s : OwnSection(s).kind = s.section
  BY DEF OwnSection, Section
<1>4. \A x \in Range(RenderSectionSnippets) : x.kind \in Early
  BY <1>3, OwnKinds DEF Early
<1>5. \A x \in Range(DefaultsPart) : x.kind \in Early
  BY <1>1, DefaultsFacts DEF Early
<1>6. RenderGlobal.kind \in Early
  BY <1>1 DEF Early
<1>7. \A x \in Range(Head3) : x.kind \in Early
  BY <1>4, <1>5, <1>6, HeadRange
<1>8. \A x \in Range(BackendPart(backends)) : x.kind = "backend"
  BY <1>2, BackendFacts
<1>9. \A x \in Range(RenderTrailingSnippets) : x.kind \in Late
  BY <1>3, OwnKinds DEF Late
<1> QED
  BY <1>7, <1>8, <1>9, FrontendSection

\* No kind of section belongs to two parts of the file.
LEMMA KindsApart ==
  /\ "frontend" \notin Early /\ "backend" \notin Early /\ "frontend" \notin Late
  /\ "backend" \notin Late /\ Early \cap Late = {}
BY OrderKinds DEF Early, Late

\* What only one part of the file has, and once, the file has once.
LEMMA ContentOnce ==
  ASSUME WellFormed(config), NEW routes \in ListDomainsByFrontend, NEW backends \in ListBackends,
         NEW x
  PROVE  LET y == RenderFrontend(config.frontend, routes)
             c == BackendPart(backends)  d == RenderTrailingSnippets
         IN  /\ Once(Head3, x) /\ x # y /\ x \notin Range(c) /\ x \notin Range(d) =>
                  Once(Content(routes, backends), x)
             /\ x \notin Range(Head3) /\ x = y /\ x \notin Range(c) /\ x \notin Range(d) =>
                  Once(Content(routes, backends), x)
             /\ x \notin Range(Head3) /\ x # y /\ x \notin Range(c) /\ Once(d, x) =>
                  Once(Content(routes, backends), x)
<1> DEFINE y == RenderFrontend(config.frontend, routes)
           a == Head3  b == <<y>>  c == BackendPart(backends)  d == RenderTrailingSnippets
           t == a \o b  u == t \o c
<1>1. Sequence(a) /\ Sequence(b) /\ Sequence(c) /\ Sequence(d) /\ Range(b) = {y} /\ Once(b, y)
  BY OneOnce, OwnKinds, HeadRange, BackendFacts
<1>2. Content(routes, backends) = u \o d
  BY ContentParts
<1> HIDE DEF a, b, c, d, y
<1>3. Sequence(t) /\ Range(t) = Range(a) \cup Range(b)
  BY <1>1, Joined, JoinedRange
<1>4. /\ Once(a, x) /\ x # y => Once(t, x)
      /\ x \notin Range(a) /\ x = y => Once(t, x)
  BY <1>1, JoinedOnce
<1> HIDE DEF t
<1>5. Sequence(u) /\ Range(u) = Range(t) \cup Range(c)
  BY <1>1, <1>3, Joined, JoinedRange
<1>6. Once(t, x) /\ x \notin Range(c) => Once(u, x)
  BY <1>1, <1>3, JoinedOnce
<1> HIDE DEF u
<1>7. /\ Once(u, x) /\ x \notin Range(d) => Once(u \o d, x)
      /\ x \notin Range(u) /\ Once(d, x) => Once(u \o d, x)
  BY <1>1, <1>5, JoinedOnce
<1> QED
  BY <1>1, <1>2, <1>3, <1>4, <1>5, <1>6, <1>7 DEF a, c, d, y

\* Of a rendered file, the frontend HAProxy reads is the one that was rendered.
LEMMA FrontendInFile ==
  ASSUME WellFormed(config), NEW routes \in ListDomainsByFrontend, NEW backends \in ListBackends,
         file = Content(routes, backends)
  PROVE  /\ Frontend = FrontendLines(routes)
         /\ \E k \in DOMAIN file : \A q \in DOMAIN file : file[q].kind = "frontend" <=> q = k
<1> DEFINE y == RenderFrontend(config.frontend, routes)
<1>1. \A x \in Range(file) : x.kind = "frontend" <=> x = y
  BY ContentRange, SectionKinds, KindsApart
<1>2. y \notin Range(Head3) /\ y \notin Range(BackendPart(backends))
      /\ y \notin Range(RenderTrailingSnippets)
  BY SectionKinds, KindsApart
<1>3. Once(file, y)
  BY <1>2, ContentOnce
<1>4. y.lines = FrontendLines(routes)
  BY FrontendSection
<1> HIDE DEF y
<1>5. PICK k \in DOMAIN file : \A q \in DOMAIN file : file[q] = y <=> q = k
  BY <1>3 DEF Once
<1>6. \A q \in DOMAIN file : file[q] \in Range(file)
  BY DEF Range
<1>7. \A q \in DOMAIN file : file[q].kind = "frontend" <=> q = k
  BY <1>1, <1>5, <1>6
<1> DEFINE c == CHOOSE q \in DOMAIN file : file[q].kind = "frontend"
<1>8. c \in DOMAIN file /\ file[c].kind = "frontend"
  BY <1>7
<1>9. Frontend = file[c].lines
  BY DEF Frontend
<1> HIDE DEF c
<1>10. file[c] = y
  BY <1>5, <1>7, <1>8
<1> QED
  BY <1>4, <1>7, <1>9, <1>10

\* A loaded configuration is not empty.
LEMMA Loaded ==
  ASSUME Rendered, file # <<>>
  PROVE  /\ WellFormed(config)
         /\ \E routes \in ListDomainsByFrontend, backends \in ListBackends :
              file = Content(routes, backends) /\ warnings = Warnings(routes, backends)
BY DEF Rendered, FromRows

-----------------------------------------------------------------------------
(* The lines of the frontend.                                              *)

\* Of which kind the lines of each part are, and what they say.
LEMMA LineKinds ==
  ASSUME WellFormed(config), NEW routes \in ListDomainsByFrontend
  PROVE  /\ \A x \in Range(BindPart) : x.kind = "bind"
         /\ \A x \in Range(LimitPart) : x.kind = "http-request"
         /\ \A x \in Range(AclPart(routes)) : x.kind = "acl"
         /\ \A x \in Range(ForcePart) : x.kind = "http-request"
         /\ \A x \in Range(RedirectPart(routes)) : x.kind = "http-request"
         /\ \A x \in Range(RulePart) : x.kind \in {"http-request", "use_backend"}
         /\ \A x \in Range(UsePart(routes)) : x.kind = "use_backend"
         /\ \A x \in Range(DefaultPart) : x.kind = "default_backend"
<1>1. \A kind, do, cond, on : Act(kind, do, cond, on).kind = kind
  BY DEF Act
<1>2. \A name, how, arg : AclLine(name, how, arg).kind = "acl"
  BY DEF AclLine
<1>3. \A x \in Range(BindPart) : x.kind = "bind"
  BY BindFacts
<1>4. /\ \A x \in Range(LimitPart) : x.kind = "http-request"
      /\ \A x \in Range(ForcePart) : x.kind = "http-request"
      /\ \A x \in Range(DefaultPart) : x.kind = "default_backend"
  BY <1>1, SmallParts
<1>5. ASSUME NEW x \in Range(AclPart(routes)) PROVE x.kind = "acl"
  <2>1. PICK d \in config.routes : x \in Range(RouteACLs(d))
    BY AclFacts
  <2>2. d.match \in {"exact", "subdomain", "wildcard", "regex"}
    BY Columns
  <2>3. CASE x \in Range(HostACLLines(AclName("host", d), d))
    <3> DEFINE name == AclName("host", d)  h == Hostnames[d.hostname]
    <3>1. \E how, arg : x = AclLine(name, how, arg)
      BY <2>2, <2>3, HostLines
    <3> QED
      BY <3>1, <1>2
  <2>4. CASE x = AclLine(AclName("path", d), "beg", d.path)
    BY <2>4, <1>2
  <2> QED
    BY <2>1, <2>2, <2>3, <2>4, RouteLines
<1>6. ASSUME NEW x \in Range(RedirectPart(routes)) PROVE x.kind = "http-request"
  <2>1. PICK d \in config.routes : x \in Range(RouteRedirects(config.frontend, d))
    BY RedirectFacts
  <2>2. d.redirect \in BOOLEAN
    BY Columns
  <2>3. x = ToTLS(d) \/ x = ToLocation(d)
    BY <2>1, <2>2, RedirectLines
  <2> QED
    BY <2>3, <1>1 DEF ToTLS, ToLocation
<1>7. ASSUME NEW x \in Range(UsePart(routes)) PROVE x.kind = "use_backend"
  <2>1. PICK d \in config.routes : x \in Range(UseBackend(d))
    BY UseFacts
  <2>2. x = ToBackend(d)
    BY <2>1, UseLines
  <2> QED
    BY <2>2, <1>1 DEF ToBackend
<1>8. ASSUME NEW x \in Range(RulePart) PROVE x.kind \in {"http-request", "use_backend"}
  <2>1. PICK k \in DOMAIN config.frontend.rules : x = RenderRule(config.frontend.rules[k])
    BY RuleFacts
  <2>2. x.kind = config.frontend.rules[k].directive
    BY <2>1, <1>1 DEF RenderRule
  <2> QED
    BY <2>2, Tables
<1> QED
  BY <1>3, <1>4, <1>5, <1>6, <1>7, <1>8

\* Every rendered file has one frontend, made of directives of known kinds, and the
\* rows it is made from have the shape of their tables.
THEOREM TypeCorrect == Spec => []TypeOK
<1>1. Rendered => TypeOK
  <2> SUFFICES ASSUME Rendered PROVE TypeOK
    OBVIOUS
  <2>1. WellFormed(config)
    BY DEF Rendered
  <2>2. \A d \in config.routes : d \in Domain(DOMAIN config.backends)
    BY <2>1 DEF WellFormed
  <2>3. config.snippets \in Seq(Snippet)
    BY <2>1 DEF WellFormed
  <2>4. \A k \in DOMAIN config.snippets : config.snippets[k] \in Snippet
    <3> HIDE DEF Snippet
    <3> QED
      BY <2>3, ElementOfSeq, LenProperties
  <2>5. ASSUME file # <<>>
        PROVE  /\ \E k \in DOMAIN file : \A q \in DOMAIN file : file[q].kind = "frontend" <=> q = k
               /\ \A k \in DOMAIN Frontend :
                    Frontend[k].kind \in
                      {"bind", "acl", "http-request", "use_backend", "default_backend"}
    <3>1. PICK routes \in ListDomainsByFrontend, backends \in ListBackends :
            file = Content(routes, backends)
      BY <2>5, Loaded
    <3>2. /\ Frontend = FrontendLines(routes)
          /\ \E k \in DOMAIN file : \A q \in DOMAIN file : file[q].kind = "frontend" <=> q = k
      BY <2>1, <3>1, FrontendInFile
    <3>3. \A x \in Range(FrontendLines(routes)) :
            x.kind \in {"bind", "acl", "http-request", "use_backend", "default_backend"}
      BY <2>1, FrontendRange, LineKinds
    <3>4. \A k \in DOMAIN Frontend : Frontend[k] \in Range(FrontendLines(routes))
      BY <3>2 DEF Range
    <3> QED
      BY <3>2, <3>3, <3>4
  <2> QED
    BY <2>2, <2>4, <2>5 DEF TypeOK
<1> QED
  BY <1>1, InductiveInvariant, PTL

-----------------------------------------------------------------------------
(* What the tests of the routes accept.                                    *)

\* Ends with, or is: the two lines of a subdomain route.
LEMMA SuffixIsStrictOrSame ==
  ASSUME NEW t \in Seq(STRING), NEW h \in Seq(STRING)
  PROVE  IsSuffix(t, h) <=> h = t \/ StrictSuffix(t, h)
<1>1. Len(t) \in Nat /\ Len(h) \in Nat /\ DOMAIN t = 1..Len(t) /\ DOMAIN h = 1..Len(h)
  BY LenProperties
<1>2. Len(t) # Len(h) => h # t
  OBVIOUS
<1>3. IsSuffix(t, h) => Len(t) <= Len(h)
  <2>1. Len(Reverse(t)) = Len(t) /\ Len(Reverse(h)) = Len(h)
    BY <1>1 DEF Reverse
  <2> QED
    BY <2>1 DEF IsSuffix, IsPrefix
<1>4. IsSuffix(t, t)
  <2>1. Len(Reverse(t)) <= Len(Reverse(t))
    BY <1>1 DEF Reverse
  <2> QED
    BY <2>1 DEF IsSuffix, IsPrefix
<1>5. ASSUME IsSuffix(t, h), Len(t) = Len(h) PROVE h = t
  <2> DEFINE n == Len(t)  r == Reverse(t)  q == Reverse(h)
  <2>1. /\ Len(r) = n /\ Len(q) = n /\ r \in Seq(STRING) /\ q \in Seq(STRING)
        /\ \A i \in 1..n : r[i] = t[(n - i) + 1] /\ q[i] = h[(n - i) + 1]
    BY <1>1, <1>5 DEF Reverse
  <2>2. SubSeq(r, 1, n) = SubSeq(q, 1, n)
    BY <2>1, <1>5 DEF IsSuffix, IsPrefix
  <2> HIDE DEF n, r, q
  <2>3. n \in Nat
    BY <1>1 DEF n
  <2>4. \A i \in 1..n : r[i] = q[i]
    <3>1. \A i \in 1..n : SubSeq(r, 1, n)[i] = r[i] /\ SubSeq(q, 1, n)[i] = q[i]
      BY <2>1, <2>3
    <3> QED
      BY <3>1, <2>2
  <2>5. ASSUME NEW i \in 1..n PROVE t[i] = h[i]
    <3> DEFINE j == (n - i) + 1
    <3>1. j \in 1..n /\ (n - j) + 1 = i
      BY <2>3
    <3> HIDE DEF j
    <3>2. r[j] = t[i] /\ q[j] = h[i]
      BY <2>1, <3>1
    <3> QED
      BY <3>1, <3>2, <2>4
  <2>6. \A i \in 1..Len(h) : h[i] = t[i]
    BY <2>5, <1>5 DEF n
  <2> QED
    BY <2>6, <1>5, SeqEqual
<1>6. ASSUME IsSuffix(t, h) PROVE h = t \/ StrictSuffix(t, h)
  <2>1. CASE Len(t) = Len(h)
    BY <2>1, <1>5, <1>6
  <2>2. CASE Len(t) # Len(h)
    <3> DEFINE n == Len(t)  m == Len(h)
    <3>1. n \in Nat /\ m \in Nat /\ n <= m /\ n # m
      BY <2>2, <1>1, <1>3, <1>6
    <3> HIDE DEF n, m
    <3>2. n < m
      BY <3>1
    <3>3. Len(t) < Len(h)
      BY <3>2 DEF n, m
    <3> QED
      BY <3>3, <1>6 DEF StrictSuffix
  <2> QED
    BY <2>1, <2>2
<1>7. h = t \/ StrictSuffix(t, h) => IsSuffix(t, h)
  BY <1>4 DEF StrictSuffix
<1> QED
  BY <1>6, <1>7

\* Every path begins with the empty one.
LEMMA NoPath ==
  ASSUME NEW p \in Seq(STRING)
  PROVE  IsPrefix(<<>>, p)
<1>1. Len(<<>>) = 0 /\ Len(p) \in Nat
  BY LenProperties
<1>2. SubSeq(p, 1, 0) = <<>> /\ SubSeq(<<>>, 1, 0) = <<>>
  BY SubSeqEmpty, EmptySeq
<1> QED
  BY <1>1, <1>2 DEF IsPrefix

\* A test of the frontend holds when a route that is enabled wrote it and it accepts
\* the request.
LEMMA HoldsOf ==
  ASSUME WellFormed(config), NEW routes \in ListDomainsByFrontend, Frontend = FrontendLines(routes),
         NEW name, NEW req
  PROVE  Holds(name, req) <=>
           \E d \in config.routes : \E l \in Range(RouteACLs(d)) :
             d.enabled /\ l.name = name /\ Tests(l, req)
<1>1. \A l : l \in Range(Frontend) /\ l.kind = "acl" <=> l \in Range(AclPart(routes))
  BY FrontendRange, LineKinds
<1>2. Holds(name, req) <=>
        \E l \in Range(Frontend) : l.kind = "acl" /\ l.name = name /\ Tests(l, req)
  BY DEF Holds, Range
<1>3. \A l : l \in Range(AclPart(routes)) <=>
        \E d \in config.routes : d.enabled /\ l \in Range(RouteACLs(d))
  BY AclFacts
<1> QED
  BY <1>1, <1>2, <1>3

\* The names of a route's tests are its own.
LEMMA NamesApart ==
  ASSUME WellFormed(config), NEW d \in config.routes, NEW e \in config.routes
  PROVE  /\ AclName("host", d) # AclName("path", e)
         /\ AclName("host", d) = AclName("host", e) => d = e
         /\ AclName("path", d) = AclName("path", e) => d = e
<1>1. \A x, y \in config.routes : x.id = y.id => x = y
  BY DEF WellFormed
<1> QED
  BY <1>1 DEF AclName

\* What the lines of a host accept is what the row means.
LEMMA HostTests ==
  ASSUME WellFormed(config), NEW d \in config.routes, NEW req \in Requests, NEW name
  PROVE  (\E l \in Range(HostACLLines(name, d)) : Tests(l, req)) <=> MatchesHost(d, req.host)
<1> DEFINE h == Hostnames[d.hostname]  lines == HostACLLines(name, d)
<1>1. d.match \in {"exact", "subdomain", "wildcard", "regex"} /\ d.hostname \in DOMAIN Hostnames
  BY Columns
<1>2. h \in Seq(STRING) /\ req.host \in Seq(STRING)
  <2>1. h \in Seq(STRING)
    BY <1>1, HostnamesAssumption, ElementOfSeq, LenProperties
  <2> QED
    BY <2>1, RequestsAssumption
<1>3. Bare(h) \in Seq(STRING)
  <2>1. h # <<>> => Tail(h) \in Seq(STRING)
    BY <1>2, HeadTailProperties
  <2> HIDE DEF h
  <2> QED
    BY <1>2, <2>1 DEF Bare
<1>4. \A arg : /\ Tests(AclLine(name, "str", arg), req) <=> req.host = arg
               /\ Tests(AclLine(name, "end", arg), req) <=> StrictSuffix(arg, req.host)
               /\ Tests(AclLine(name, "reg", arg), req) <=> req.host \in Regex[arg]
  BY DEF Tests, AclLine
<1>5. /\ d.match = "exact" => Range(lines) = {AclLine(name, "str", h)}
      /\ d.match = "subdomain" =>
           Range(lines) = {AclLine(name, "str", Bare(h)), AclLine(name, "end", Bare(h))}
      /\ d.match = "wildcard" => Range(lines) = {AclLine(name, "end", Bare(h))}
      /\ d.match = "regex" => Range(lines) = {AclLine(name, "reg", d.hostname)}
  BY <1>1, HostLines
<1>6. MatchesHost(d, req.host) <=>
        \/ d.match = "exact" /\ req.host = h
        \/ d.match = "subdomain" /\ IsSuffix(Bare(h), req.host)
        \/ d.match = "wildcard" /\ StrictSuffix(Bare(h), req.host)
        \/ d.match = "regex" /\ req.host \in Regex[d.hostname]
  BY DEF MatchesHost
<1>7. IsSuffix(Bare(h), req.host) <=> req.host = Bare(h) \/ StrictSuffix(Bare(h), req.host)
  BY <1>2, <1>3, SuffixIsStrictOrSame
<1> HIDE DEF h, lines
<1>8. (\E l \in Range(lines) : Tests(l, req)) <=> MatchesHost(d, req.host)
  <2>1. CASE d.match = "exact"
    BY <2>1, <1>4, <1>5, <1>6
  <2>2. CASE d.match = "subdomain"
    BY <2>2, <1>4, <1>5, <1>6, <1>7
  <2>3. CASE d.match = "wildcard"
    BY <2>3, <1>4, <1>5, <1>6
  <2>4. CASE d.match = "regex"
    BY <2>4, <1>4, <1>5, <1>6
  <2> QED
    BY <1>1, <2>1, <2>2, <2>3, <2>4
<1> QED
  BY <1>8 DEF lines

\* The condition of a route's lines holds for the requests the row covers, and no
\* other: no test of another route counts for it.
LEMMA CondHolds ==
  ASSUME WellFormed(config), NEW routes \in ListDomainsByFrontend, Frontend = FrontendLines(routes),
         NEW d \in config.routes, d.enabled, NEW req \in Requests
  PROVE  (\A name \in Cond(d) : Holds(name, req)) <=> d \in Covering(req)
<1> DEFINE host == AclName("host", d)  path == AclName("path", d)
           H(e) == HostACLLines(AclName("host", e), e)
           P(e) == AclLine(AclName("path", e), "beg", e.path)
<1>1. \A e \in config.routes : \A l : l \in Range(RouteACLs(e)) <=>
        l \in Range(H(e)) \/ (e.path # <<>> /\ l = P(e))
  BY Columns, RouteLines
<1>2. \A e \in config.routes : \A l \in Range(H(e)) : l.name = AclName("host", e)
  <2>1. \A name, how, arg : AclLine(name, how, arg).name = name
    BY DEF AclLine
  <2> TAKE e \in config.routes
  <2>2. e.match \in {"exact", "subdomain", "wildcard", "regex"}
    BY Columns
  <2>3. \A l \in Range(H(e)) : \E how, arg : l = AclLine(AclName("host", e), how, arg)
    BY <2>2, HostLines
  <2> QED
    BY <2>1, <2>3
<1>3. \A e : P(e).name = AclName("path", e)
  BY DEF AclLine
<1>4. Tests(P(d), req) <=> IsPrefix(d.path, req.path)
  BY DEF Tests, AclLine
<1>5. (\E l \in Range(H(d)) : Tests(l, req)) <=> MatchesHost(d, req.host)
  BY HostTests
<1> HIDE DEF H, P
<1>6. Holds(host, req) <=> MatchesHost(d, req.host)
  <2>1. Holds(host, req) <=>
          \E e \in config.routes : \E l \in Range(RouteACLs(e)) :
            e.enabled /\ l.name = host /\ Tests(l, req)
    BY HoldsOf
  <2>2. \A e \in config.routes : \A l \in Range(RouteACLs(e)) :
          l.name = host => e = d /\ l \in Range(H(d))
    BY <1>1, <1>2, <1>3, NamesApart
  <2>3. \A l \in Range(H(d)) : l \in Range(RouteACLs(d)) /\ l.name = host
    BY <1>1, <1>2
  <2> QED
    BY <2>1, <2>2, <2>3, <1>5
<1>7. d.path # <<>> => (Holds(path, req) <=> IsPrefix(d.path, req.path))
  <2>1. Holds(path, req) <=>
          \E e \in config.routes : \E l \in Range(RouteACLs(e)) :
            e.enabled /\ l.name = path /\ Tests(l, req)
    BY HoldsOf
  <2>2. \A e \in config.routes : \A l \in Range(RouteACLs(e)) :
          l.name = path => e = d /\ l = P(d)
    BY <1>1, <1>2, <1>3, NamesApart
  <2>3. d.path # <<>> => P(d) \in Range(RouteACLs(d)) /\ P(d).name = path
    BY <1>1, <1>3
  <2> QED
    BY <2>1, <2>2, <2>3, <1>4
<1>8. d.path = <<>> => IsPrefix(d.path, req.path)
  <2>1. req.path \in Seq(STRING)
    BY RequestsAssumption
  <2> QED
    BY <2>1, NoPath
<1>9. d \in Covering(req) <=> MatchesHost(d, req.host) /\ IsPrefix(d.path, req.path)
  BY DEF Covering
<1>10. Cond(d) = {host} \cup IF d.path = <<>> THEN {} ELSE {path}
  BY DEF Cond
<1> HIDE DEF host, path
<1>11. CASE d.path = <<>>
  BY <1>11, <1>6, <1>8, <1>9, <1>10
<1>12. CASE d.path # <<>>
  BY <1>12, <1>6, <1>7, <1>9, <1>10
<1> QED
  BY <1>11, <1>12

-----------------------------------------------------------------------------
(* Which line of the frontend answers.                                     *)

\* A part that comes after parts without a line of the set decides which is first.
LEMMA FrontendFirst ==
  ASSUME WellFormed(config), NEW routes \in ListDomainsByFrontend, NEW K, NEW l
  PROVE  LET early == Lacks(BindPart, K) /\ Lacks(LimitPart, K) /\ Lacks(AclPart(routes), K)
             rest == Lacks(ForcePart, K) /\ Lacks(RedirectPart(routes), K)
             out == FrontendLines(routes)
         IN  /\ Lacks(BindPart, K) /\ IsFirst(LimitPart, K, l) => IsFirst(out, K, l)
             /\ early /\ IsFirst(ForcePart, K, l) => IsFirst(out, K, l)
             /\ early /\ Lacks(ForcePart, K) /\ IsFirst(RedirectPart(routes), K, l) =>
                  IsFirst(out, K, l)
             /\ early /\ rest /\ IsFirst(RulePart, K, l) => IsFirst(out, K, l)
             /\ early /\ rest /\ Lacks(RulePart, K) /\ IsFirst(UsePart(routes), K, l) =>
                  IsFirst(out, K, l)
             /\ early /\ rest /\ Lacks(RulePart, K) /\ Lacks(UsePart(routes), K)
                  /\ IsFirst(DefaultPart, K, l) => IsFirst(out, K, l)
             /\ early /\ rest /\ Lacks(RulePart, K) /\ Lacks(UsePart(routes), K)
                  /\ Lacks(DefaultPart, K) => Lacks(out, K)
<1> DEFINE s1 == BindPart  s2 == LimitPart  s3 == AclPart(routes)  s4 == ForcePart
           s5 == RedirectPart(routes)  s6 == RulePart  s7 == UsePart(routes)  s8 == DefaultPart
           t2 == s1 \o s2  t3 == t2 \o s3  t4 == t3 \o s4  t5 == t4 \o s5  t6 == t5 \o s6
           t7 == t6 \o s7  t8 == t7 \o s8
           A(s) == Lacks(s, K)
           B(s) == IsFirst(s, K, l)
<1>1. Sequence(s1) /\ Sequence(s3) /\ Sequence(s5) /\ Sequence(s6) /\ Sequence(s7)
  BY BindFacts, AclFacts, RedirectFacts, RuleFacts, UseFacts
<1>2. Sequence(s2) /\ Sequence(s4) /\ Sequence(s8)
  BY SmallParts
<1>3. FrontendLines(routes) = t8
  BY DEF FrontendLines
<1> HIDE DEF s1, s2, s3, s4, s5, s6, s7, s8
<1>4. /\ Sequence(t2) /\ (A(s1) /\ A(s2) => A(t2)) /\ (B(s1) => B(t2))
      /\ A(s1) /\ B(s2) => B(t2)
  BY <1>1, <1>2, Joined, JoinedLacks, JoinedFirst, JoinedFirstAfter
<1> HIDE DEF t2
<1>5. /\ Sequence(t3) /\ (A(t2) /\ A(s3) => A(t3)) /\ (B(t2) => B(t3))
      /\ A(t2) /\ B(s3) => B(t3)
  BY <1>1, <1>2, <1>4, Joined, JoinedLacks, JoinedFirst, JoinedFirstAfter
<1> HIDE DEF t3
<1>6. /\ Sequence(t4) /\ (A(t3) /\ A(s4) => A(t4)) /\ (B(t3) => B(t4))
      /\ A(t3) /\ B(s4) => B(t4)
  BY <1>1, <1>2, <1>5, Joined, JoinedLacks, JoinedFirst, JoinedFirstAfter
<1> HIDE DEF t4
<1>7. /\ Sequence(t5) /\ (A(t4) /\ A(s5) => A(t5)) /\ (B(t4) => B(t5))
      /\ A(t4) /\ B(s5) => B(t5)
  BY <1>1, <1>2, <1>6, Joined, JoinedLacks, JoinedFirst, JoinedFirstAfter
<1> HIDE DEF t5
<1>8. /\ Sequence(t6) /\ (A(t5) /\ A(s6) => A(t6)) /\ (B(t5) => B(t6))
      /\ A(t5) /\ B(s6) => B(t6)
  BY <1>1, <1>2, <1>7, Joined, JoinedLacks, JoinedFirst, JoinedFirstAfter
<1> HIDE DEF t6
<1>9. /\ Sequence(t7) /\ (A(t6) /\ A(s7) => A(t7)) /\ (B(t6) => B(t7))
      /\ A(t6) /\ B(s7) => B(t7)
  BY <1>1, <1>2, <1>8, Joined, JoinedLacks, JoinedFirst, JoinedFirstAfter
<1> HIDE DEF t7
<1>10. (A(t7) /\ A(s8) => A(t8)) /\ (B(t7) => B(t8)) /\ (A(t7) /\ B(s8) => B(t8))
  BY <1>1, <1>2, <1>9, Joined, JoinedLacks, JoinedFirst, JoinedFirstAfter
<1> HIDE DEF t8
<1>11. /\ A(s1) /\ B(s2) => B(t8)
       /\ A(s1) /\ A(s2) /\ A(s3) /\ B(s4) => B(t8)
       /\ A(s1) /\ A(s2) /\ A(s3) /\ A(s4) /\ B(s5) => B(t8)
       /\ A(s1) /\ A(s2) /\ A(s3) /\ A(s4) /\ A(s5) /\ B(s6) => B(t8)
       /\ A(s1) /\ A(s2) /\ A(s3) /\ A(s4) /\ A(s5) /\ A(s6) /\ B(s7) => B(t8)
       /\ A(s1) /\ A(s2) /\ A(s3) /\ A(s4) /\ A(s5) /\ A(s6) /\ A(s7) /\ B(s8) => B(t8)
       /\ A(s1) /\ A(s2) /\ A(s3) /\ A(s4) /\ A(s5) /\ A(s6) /\ A(s7) /\ A(s8) => A(t8)
  <2> HIDE DEF A, B
  <2>1. B(t2) => B(t8)
    BY <1>5, <1>6, <1>7, <1>8, <1>9, <1>10
  <2>2. B(t3) => B(t8)
    BY <1>6, <1>7, <1>8, <1>9, <1>10
  <2>3. B(t4) => B(t8)
    BY <1>7, <1>8, <1>9, <1>10
  <2>4. B(t5) => B(t8)
    BY <1>8, <1>9, <1>10
  <2>5. B(t6) => B(t8)
    BY <1>9, <1>10
  <2>6. B(t7) => B(t8)
    BY <1>10
  <2>7. B(t8) => B(t8)
    OBVIOUS
  <2>8. A(s1) /\ A(s2) => A(t2)
    BY <1>4
  <2>9. A(s1) /\ A(s2) /\ A(s3) => A(t3)
    BY <1>5, <2>8
  <2>10. A(s1) /\ A(s2) /\ A(s3) /\ A(s4) => A(t4)
    BY <1>6, <2>9
  <2>11. A(s1) /\ A(s2) /\ A(s3) /\ A(s4) /\ A(s5) => A(t5)
    BY <1>7, <2>10
  <2>12. A(s1) /\ A(s2) /\ A(s3) /\ A(s4) /\ A(s5) /\ A(s6) => A(t6)
    BY <1>8, <2>11
  <2>13. A(s1) /\ A(s2) /\ A(s3) /\ A(s4) /\ A(s5) /\ A(s6) /\ A(s7) => A(t7)
    BY <1>9, <2>12
  <2>14. A(s1) /\ A(s2) /\ A(s3) /\ A(s4) /\ A(s5) /\ A(s6) /\ A(s7) /\ A(s8) => A(t8)
    BY <1>10, <2>13
  <2>15. A(s1) /\ B(s2) => B(t8)
    BY <1>4, <2>1
  <2>16. A(s1) /\ A(s2) /\ A(s3) /\ B(s4) => B(t8)
    BY <1>6, <2>3, <2>9
  <2>17. A(s1) /\ A(s2) /\ A(s3) /\ A(s4) /\ B(s5) => B(t8)
    BY <1>7, <2>4, <2>10
  <2>18. A(s1) /\ A(s2) /\ A(s3) /\ A(s4) /\ A(s5) /\ B(s6) => B(t8)
    BY <1>8, <2>5, <2>11
  <2>19. A(s1) /\ A(s2) /\ A(s3) /\ A(s4) /\ A(s5) /\ A(s6) /\ B(s7) => B(t8)
    BY <1>9, <2>6, <2>12
  <2>20. A(s1) /\ A(s2) /\ A(s3) /\ A(s4) /\ A(s5) /\ A(s6) /\ A(s7) /\ B(s8) => B(t8)
    BY <1>10, <2>7, <2>13
  <2> QED
    BY <2>14, <2>15, <2>16, <2>17, <2>18, <2>19, <2>20
<1> QED
  BY <1>3, <1>11 DEF s1, s2, s3, s4, s5, s6, s7, s8

\* The lines of a kind that act on a request.
Candidates(kind, req) == {l \in Range(Frontend) : l.kind = kind /\ Acts(l, req)}

\* The first of them is the one HAProxy takes.
LEMMA TakesFirst ==
  ASSUME Sequence(Frontend), NEW kind, NEW req, NEW l, IsFirst(Frontend, Candidates(kind, req), l)
  PROVE  Acting(kind, req) # {} /\ Frontend[Min(Acting(kind, req))] = l
<1> DEFINE K == Candidates(kind, req)  S == Acting(kind, req)
<1>1. PICK i \in DOMAIN Frontend :
        Frontend[i] = l /\ \A j \in DOMAIN Frontend : j < i => Frontend[j] \notin K
  BY DEF IsFirst
<1>2. \A j \in DOMAIN Frontend : Frontend[j] \in K <=> j \in S
  BY DEF Candidates, Acting, Range
<1>3. S \subseteq DOMAIN Frontend /\ DOMAIN Frontend \subseteq Nat /\ l \in K
  BY SequenceDomain DEF Acting, IsFirst
<1> HIDE DEF K, S
<1>4. i \in S
  BY <1>1, <1>2, <1>3
<1>5. Min(S) \in S /\ \A m \in S : Min(S) <= m
  BY <1>3, <1>4, MinIsLeast
<1>6. Min(S) = i
  <2>1. ~(Min(S) < i)
    BY <1>1, <1>2, <1>3, <1>5
  <2>2. Min(S) <= i /\ Min(S) \in Nat /\ i \in Nat
    BY <1>3, <1>4, <1>5
  <2> QED
    BY <2>1, <2>2
<1> QED
  BY <1>1, <1>4, <1>6 DEF S

\* When there is none, none acts.
LEMMA TakesNone ==
  ASSUME NEW kind, NEW req, Lacks(Frontend, Candidates(kind, req))
  PROVE  Acting(kind, req) = {}
BY DEF Lacks, Candidates, Acting, Range

\* The lines that act: those of routes on what the route covers.
LEMMA WhatActs ==
  ASSUME WellFormed(config), NEW routes \in ListDomainsByFrontend, Frontend = FrontendLines(routes),
         NEW req \in Requests
  PROVE  /\ Acts(Act("http-request", <<"deny">>, {}, "fast"), req) <=> req.fast
         /\ Acts(Act("http-request", <<"https">>, {}, "clear"), req) <=> ~req.tls
         /\ Acts(Act("default_backend", <<"backend", config.frontend.default>>, {}, "any"), req)
         /\ \A r : Acts(RenderRule(r), req) <=> On(r.on, req)
         /\ \A d \in config.routes : d.enabled =>
              /\ Acts(ToTLS(d), req) <=> ~req.tls /\ d \in Covering(req)
              /\ Acts(ToLocation(d), req) <=> d \in Covering(req)
              /\ Acts(ToBackend(d), req) <=> d \in Covering(req)
<1>1. \A kind, do, cond, on :
        Acts(Act(kind, do, cond, on), req) <=> On(on, req) /\ \A name \in cond : Holds(name, req)
  BY DEF Acts, Act
<1>2. /\ On("fast", req) <=> req.fast
      /\ On("clear", req) <=> ~req.tls
      /\ On("any", req)
  BY DEF On
<1>3. \A d \in config.routes : d.enabled =>
        ((\A name \in Cond(d) : Holds(name, req)) <=> d \in Covering(req))
  BY CondHolds
<1> QED
  BY <1>1, <1>2, <1>3 DEF RenderRule, ToTLS, ToLocation, ToBackend

\* The frontend is a sequence that has the lines of its parts.
LEMMA InFrontend ==
  ASSUME WellFormed(config), NEW routes \in ListDomainsByFrontend, Frontend = FrontendLines(routes)
  PROVE  /\ Sequence(Frontend)
         /\ Range(LimitPart) \subseteq Range(Frontend) /\ Range(ForcePart) \subseteq Range(Frontend)
         /\ Range(RedirectPart(routes)) \subseteq Range(Frontend)
         /\ Range(RulePart) \subseteq Range(Frontend)
         /\ Range(UsePart(routes)) \subseteq Range(Frontend)
         /\ Range(DefaultPart) \subseteq Range(Frontend)
BY FrontendRange

\* A part has no element of a set when its range has none.
LEMMA LacksRange ==
  ASSUME NEW s, NEW K, \A x \in Range(s) : x \notin K
  PROVE  Lacks(s, K)
BY DEF Lacks, Range

\* The first rule of a kind that acts is the first of the operator's rules that does.
LEMMA RulesFirst ==
  ASSUME WellFormed(config), NEW routes \in ListDomainsByFrontend, Frontend = FrontendLines(routes),
         NEW req \in Requests, NEW kind
  PROVE  LET K == Candidates(kind, req) IN
         /\ FirstRule(kind, req) = {} => Lacks(RulePart, K)
         /\ FirstRule(kind, req) # {} =>
              \E r : /\ FirstRule(kind, req) = {r} /\ r.directive = kind
                     /\ IsFirst(RulePart, K, RenderRule(r))
<1> DEFINE K == Candidates(kind, req)  rules == config.frontend.rules
           acting == {k \in DOMAIN rules :
                        rules[k].enabled /\ rules[k].directive = kind /\ On(rules[k].on, req)}
<1>1. FirstRule(kind, req) = IF acting = {} THEN {} ELSE {rules[Min(acting)]}
  BY DEF FirstRule
<1>2. ASSUME NEW k \in DOMAIN rules, rules[k].enabled
      PROVE  RenderRule(rules[k]) \in K <=> k \in acting
  <2>1. RenderRule(rules[k]) \in Range(RulePart)
    BY <1>2, RuleFacts
  <2>2. RenderRule(rules[k]) \in Range(Frontend)
    BY <2>1, InFrontend
  <2>3. RenderRule(rules[k]).kind = rules[k].directive
    BY DEF RenderRule, Act
  <2>4. Acts(RenderRule(rules[k]), req) <=> On(rules[k].on, req)
    BY WhatActs
  <2> QED
    BY <1>2, <2>2, <2>3, <2>4 DEF Candidates
<1>3. acting \subseteq DOMAIN rules /\ DOMAIN rules \subseteq Nat
  BY Tables, SequenceDomain
<1>4. \A k \in acting : rules[k].enabled /\ rules[k].directive = kind
  OBVIOUS
<1>5. /\ \A x : x \in Range(RulePart) <=>
           \E k \in DOMAIN rules : rules[k].enabled /\ x = RenderRule(rules[k])
      /\ \A k \in DOMAIN rules :
           rules[k].enabled /\ RenderRule(rules[k]) \in K
             /\ (\A m \in DOMAIN rules : m < k /\ rules[m].enabled => RenderRule(rules[m]) \notin K)
           => IsFirst(RulePart, K, RenderRule(rules[k]))
  BY RuleFacts
<1> HIDE DEF acting, K, rules
<1>6. CASE acting = {}
  <2>1. \A x \in Range(RulePart) : x \notin K
    BY <1>2, <1>5, <1>6
  <2> QED
    BY <1>1, <1>6, <2>1, LacksRange DEF K
<1>7. CASE acting # {}
  <2> DEFINE k == Min(acting)
  <2>1. k \in acting /\ \A m \in acting : k <= m
    BY <1>3, <1>7, MinIsLeast
  <2> HIDE DEF k
  <2>2. k \in DOMAIN rules /\ rules[k].enabled /\ rules[k].directive = kind
        /\ RenderRule(rules[k]) \in K
    BY <1>2, <1>3, <1>4, <2>1
  <2>3. ASSUME NEW m \in DOMAIN rules, m < k, rules[m].enabled
        PROVE  RenderRule(rules[m]) \notin K
    <3>1. m \in Nat /\ k \in Nat
      BY <1>3, <2>2
    <3>2. m \notin acting
      BY <3>1, <2>1, <2>3
    <3> QED
      BY <1>2, <2>3, <3>2
  <2>4. IsFirst(RulePart, K, RenderRule(rules[k]))
    BY <1>5, <2>2, <2>3
  <2>5. FirstRule(kind, req) = {rules[k]}
    BY <1>1, <1>7 DEF k
  <2> QED
    BY <2>2, <2>4, <2>5 DEF K
<1> QED
  BY <1>6, <1>7

\* The first route of a set, in the order they are written.
LEMMA FirstRoute ==
  ASSUME WellFormed(config), NEW routes \in ListDomainsByFrontend,
         NEW S \in SUBSET config.routes, S # {}
  PROVE  \E k \in DOMAIN routes :
           /\ routes[k] \in First(S)
           /\ \A m \in DOMAIN routes : m < k => routes[m] \notin S
<1> DEFINE ks == {k \in DOMAIN routes : routes[k] \in S}
<1>1. Sequence(routes) /\ Range(routes) = config.routes
      /\ \A i, j \in DOMAIN routes : i <= j => Before(routes[i], routes[j])
  BY RoutesListed
<1>2. DOMAIN routes \subseteq Nat
  BY <1>1, SequenceDomain
<1>3. \A e \in S : \E m \in ks : routes[m] = e
  BY <1>1 DEF Range
<1>4. ks # {} /\ ks \subseteq Nat
  BY <1>2, <1>3
<1>5. PICK k \in ks : \A m \in ks : k <= m
  BY <1>4, Least
<1>6. \A e \in S : Before(routes[k], e)
  BY <1>1, <1>3, <1>5
<1>7. routes[k] \in First(S)
  BY <1>5, <1>6 DEF First
<1>8. ASSUME NEW m \in DOMAIN routes, m < k
      PROVE  routes[m] \notin S
  <2>1. m \notin ks
    BY <1>2, <1>5, <1>8
  <2> QED
    BY <2>1
<1> QED
  BY <1>5, <1>7, <1>8

\* The first redirect that acts is the one of the first route that redirects.
LEMMA RedirectsFirst ==
  ASSUME WellFormed(config), NEW routes \in ListDomainsByFrontend, Frontend = FrontendLines(routes),
         NEW req \in Requests, config.frontend.http, ~(config.frontend.force /\ ~req.tls)
  PROVE  LET K == Candidates("http-request", req)
             insists(d) == d.force /\ ~req.tls
             redirecting == {d \in Covering(req) : insists(d) \/ d.redirect}
         IN  /\ redirecting = {} => Lacks(RedirectPart(routes), K)
             /\ redirecting # {} =>
                  \E d \in First(redirecting) :
                    IsFirst(RedirectPart(routes), K, IF insists(d) THEN ToTLS(d) ELSE ToLocation(d))
<1> DEFINE K == Candidates("http-request", req)
           insists(d) == d.force /\ ~req.tls
           redirecting == {d \in Covering(req) : insists(d) \/ d.redirect}
           line(d) == IF insists(d) THEN ToTLS(d) ELSE ToLocation(d)
           lines(d) == RouteRedirects(config.frontend, d)
<1>1. \A d \in config.routes : d.enabled =>
        /\ Acts(ToTLS(d), req) <=> ~req.tls /\ d \in Covering(req)
        /\ Acts(ToLocation(d), req) <=> d \in Covering(req)
  BY WhatActs
<1>2. /\ \A x : x \in Range(RedirectPart(routes)) <=>
           \E d \in config.routes : d.enabled /\ x \in Range(lines(d))
      /\ \A L, l : \A k \in DOMAIN routes :
           /\ routes[k].enabled /\ IsFirst(lines(routes[k]), L, l)
           /\ \A m \in DOMAIN routes : m < k /\ routes[m].enabled => Lacks(lines(routes[m]), L)
           => IsFirst(RedirectPart(routes), L, l)
  BY RedirectFacts
<1>3. Range(RedirectPart(routes)) \subseteq Range(Frontend)
  BY InFrontend
<1>4. \A d \in config.routes : d.redirect \in BOOLEAN
  BY Columns
<1>5. \A d : ToTLS(d).kind = "http-request" /\ ToLocation(d).kind = "http-request"
  BY DEF ToTLS, ToLocation, Act
<1>6. ASSUME NEW d \in config.routes, d.enabled
      PROVE  /\ Insists(d) /\ ToTLS(d) \in K <=> insists(d) /\ d \in Covering(req)
             /\ d.redirect /\ ToLocation(d) \in K <=> d.redirect /\ d \in Covering(req)
  <2>1. \A x : x \in Range(lines(d)) <=>
          (Insists(d) /\ x = ToTLS(d)) \/ (d.redirect /\ x = ToLocation(d))
    BY <1>4, RedirectLines
  <2>2. /\ Insists(d) => ToTLS(d) \in Range(Frontend)
        /\ d.redirect => ToLocation(d) \in Range(Frontend)
    BY <1>2, <1>3, <1>6, <2>1
  <2>3. insists(d) => Insists(d)
    BY DEF Insists
  <2>4. Insists(d) => d.force
    BY DEF Insists
  <2> QED
    BY <1>1, <1>5, <1>6, <2>2, <2>3, <2>4 DEF Candidates
<1>7. \A d \in Covering(req) : d \in config.routes /\ d.enabled
  BY DEF Covering
<1>8. ASSUME NEW d \in config.routes, d.enabled, d \notin redirecting
      PROVE  Lacks(lines(d), K)
  BY <1>4, <1>6, <1>8, RedirectLines
<1>9. ASSUME NEW d \in redirecting
      PROVE  IsFirst(lines(d), K, line(d))
  <2>1. d \in config.routes /\ d.enabled /\ d \in Covering(req)
    BY <1>7
  <2>2. CASE insists(d)
    <3>1. Insists(d) /\ ToTLS(d) \in K
      BY <1>6, <2>1, <2>2
    <3>2. line(d) = ToTLS(d)
      BY <2>2
    <3> QED
      BY <1>4, <2>1, <3>1, <3>2, RedirectLines
  <2>3. CASE ~insists(d)
    <3>1. ~(Insists(d) /\ ToTLS(d) \in K) /\ d.redirect /\ ToLocation(d) \in K
      BY <1>6, <2>1, <2>3
    <3>2. line(d) = ToLocation(d)
      BY <2>3
    <3> QED
      BY <1>4, <2>1, <3>1, <3>2, RedirectLines
  <2> QED
    BY <2>2, <2>3
<1>10. redirecting \subseteq config.routes /\ \A d \in redirecting : d.enabled
  BY <1>7
<1>11. Range(routes) = config.routes
  BY RoutesListed
<1>12. \A k \in DOMAIN routes : routes[k] \in config.routes
  BY <1>11 DEF Range
<1>13. First(redirecting) \subseteq redirecting
  BY DEF First
<1> HIDE DEF redirecting, K, line, lines
<1>14. CASE redirecting = {}
  <2>1. \A d \in config.routes : d.enabled => Lacks(lines(d), K)
    BY <1>8, <1>14
  <2>2. \A d \in config.routes : d.enabled => \A x \in Range(lines(d)) : x \notin K
    BY <2>1 DEF Lacks, Range
  <2>3. \A x \in Range(RedirectPart(routes)) : x \notin K
    BY <1>2, <2>2
  <2> QED
    BY <1>14, <2>3, LacksRange DEF redirecting, K
<1>15. CASE redirecting # {}
  <2>1. PICK k \in DOMAIN routes : /\ routes[k] \in First(redirecting)
                                   /\ \A m \in DOMAIN routes : m < k => routes[m] \notin redirecting
    BY <1>10, <1>15, FirstRoute
  <2>2. routes[k].enabled /\ IsFirst(lines(routes[k]), K, line(routes[k]))
    BY <1>9, <1>10, <1>13, <2>1
  <2>3. \A m \in DOMAIN routes : m < k /\ routes[m].enabled => Lacks(lines(routes[m]), K)
    BY <1>8, <1>12, <2>1
  <2>4. IsFirst(RedirectPart(routes), K, line(routes[k]))
    BY <1>2, <2>2, <2>3
  <2> QED
    BY <1>15, <2>1, <2>4 DEF redirecting, K, line
<1> QED
  BY <1>14, <1>15

\* The first use_backend of the routes that acts is the one of the first route with an
\* enabled backend.
LEMMA UsesFirst ==
  ASSUME WellFormed(config), NEW routes \in ListDomainsByFrontend, Frontend = FrontendLines(routes),
         NEW req \in Requests
  PROVE  LET K == Candidates("use_backend", req)
             serving == {d \in Covering(req) : d.backend # None /\ BackendUp(d.backend)}
         IN  /\ serving = {} => Lacks(UsePart(routes), K)
             /\ serving # {} =>
                  \E d \in First(serving) : IsFirst(UsePart(routes), K, ToBackend(d))
<1> DEFINE K == Candidates("use_backend", req)
           serving == {d \in Covering(req) : d.backend # None /\ BackendUp(d.backend)}
<1>1. \A d \in config.routes : d.enabled => (Acts(ToBackend(d), req) <=> d \in Covering(req))
  BY WhatActs
<1>2. /\ \A x : x \in Range(UsePart(routes)) <=>
           \E d \in config.routes : d.enabled /\ x \in Range(UseBackend(d))
      /\ \A L, l : \A k \in DOMAIN routes :
           /\ routes[k].enabled /\ IsFirst(UseBackend(routes[k]), L, l)
           /\ \A m \in DOMAIN routes : m < k /\ routes[m].enabled => Lacks(UseBackend(routes[m]), L)
           => IsFirst(UsePart(routes), L, l)
  BY UseFacts
<1>3. Range(UsePart(routes)) \subseteq Range(Frontend)
  BY InFrontend
<1>4. \A d : ToBackend(d).kind = "use_backend"
  BY DEF ToBackend, Act
<1>5. ASSUME NEW d \in config.routes, d.enabled
      PROVE  Serves(d) /\ ToBackend(d) \in K <=> d \in serving
  <2>1. Serves(d) => ToBackend(d) \in Range(UseBackend(d))
    BY UseLines
  <2>2. Serves(d) => ToBackend(d) \in Range(Frontend)
    BY <1>2, <1>3, <1>5, <2>1
  <2> QED
    BY <1>1, <1>4, <1>5, <2>2 DEF Candidates, Serves
<1>6. serving \subseteq config.routes /\ \A d \in serving : d.enabled
  BY DEF Covering
<1>7. ASSUME NEW d \in config.routes, d.enabled, d \notin serving
      PROVE  Lacks(UseBackend(d), K)
  BY <1>5, <1>7, UseLines
<1>8. ASSUME NEW d \in serving
      PROVE  IsFirst(UseBackend(d), K, ToBackend(d))
  BY <1>5, <1>6, UseLines
<1>9. Range(routes) = config.routes
  BY RoutesListed
<1>10. \A k \in DOMAIN routes : routes[k] \in config.routes
  BY <1>9 DEF Range
<1>11. First(serving) \subseteq serving
  BY DEF First
<1> HIDE DEF serving, K
<1>12. CASE serving = {}
  <2>1. \A d \in config.routes : d.enabled => Lacks(UseBackend(d), K)
    BY <1>7, <1>12
  <2>2. \A d \in config.routes : d.enabled => \A x \in Range(UseBackend(d)) : x \notin K
    BY <2>1 DEF Lacks, Range
  <2>3. \A x \in Range(UsePart(routes)) : x \notin K
    BY <1>2, <2>2
  <2> QED
    BY <1>12, <2>3, LacksRange DEF serving, K
<1>13. CASE serving # {}
  <2>1. PICK k \in DOMAIN routes : /\ routes[k] \in First(serving)
                                   /\ \A m \in DOMAIN routes : m < k => routes[m] \notin serving
    BY <1>6, <1>13, FirstRoute
  <2>2. routes[k].enabled /\ IsFirst(UseBackend(routes[k]), K, ToBackend(routes[k]))
    BY <1>6, <1>8, <1>11, <2>1
  <2>3. \A m \in DOMAIN routes : m < k /\ routes[m].enabled => Lacks(UseBackend(routes[m]), K)
    BY <1>7, <1>10, <2>1
  <2>4. IsFirst(UsePart(routes), K, ToBackend(routes[k]))
    BY <1>2, <2>2, <2>3
  <2> QED
    BY <1>13, <2>1, <2>4 DEF serving, K
<1> QED
  BY <1>12, <1>13

\* The kinds that the parts of the frontend do not write.
LEMMA KindLacks ==
  ASSUME WellFormed(config), NEW routes \in ListDomainsByFrontend, NEW kind, NEW req
  PROVE  LET K == Candidates(kind, req) IN
         /\ kind # "bind" => Lacks(BindPart, K)
         /\ kind # "http-request" =>
              Lacks(LimitPart, K) /\ Lacks(ForcePart, K) /\ Lacks(RedirectPart(routes), K)
         /\ kind # "acl" => Lacks(AclPart(routes), K)
         /\ kind \notin {"http-request", "use_backend"} => Lacks(RulePart, K)
         /\ kind # "use_backend" => Lacks(UsePart(routes), K)
         /\ kind # "default_backend" => Lacks(DefaultPart, K)
<1> DEFINE K == Candidates(kind, req)
<1>1. \A x \in K : x.kind = kind
  BY DEF Candidates
<1> HIDE DEF K
<1>2. \A s : (\A x \in Range(s) : x.kind # kind) => Lacks(s, K)
  BY <1>1, LacksRange
<1>3. /\ \A x \in Range(BindPart) : x.kind = "bind"
      /\ \A x \in Range(LimitPart) : x.kind = "http-request"
      /\ \A x \in Range(AclPart(routes)) : x.kind = "acl"
      /\ \A x \in Range(ForcePart) : x.kind = "http-request"
      /\ \A x \in Range(RedirectPart(routes)) : x.kind = "http-request"
      /\ \A x \in Range(RulePart) : x.kind \in {"http-request", "use_backend"}
      /\ \A x \in Range(UsePart(routes)) : x.kind = "use_backend"
      /\ \A x \in Range(DefaultPart) : x.kind = "default_backend"
  BY LineKinds
<1>4. kind # "bind" => Lacks(BindPart, K)
  BY <1>2, <1>3
<1>5. kind # "http-request" =>
        Lacks(LimitPart, K) /\ Lacks(ForcePart, K) /\ Lacks(RedirectPart(routes), K)
  BY <1>2, <1>3
<1>6. kind # "acl" => Lacks(AclPart(routes), K)
  BY <1>2, <1>3
<1>7. kind \notin {"http-request", "use_backend"} => Lacks(RulePart, K)
  BY <1>2, <1>3
<1>8. kind # "use_backend" => Lacks(UsePart(routes), K)
  BY <1>2, <1>3
<1>9. kind # "default_backend" => Lacks(DefaultPart, K)
  BY <1>2, <1>3
<1> QED
  BY <1>4, <1>5, <1>6, <1>7, <1>8, <1>9 DEF K

\* Which http-request line acts first: the rate limit, the frontend's redirect, the
\* first route that redirects, the operator's rules, or none.
LEMMA HttpTaken ==
  ASSUME WellFormed(config), NEW routes \in ListDomainsByFrontend, Frontend = FrontendLines(routes),
         NEW req \in Requests, config.frontend.http
  PROVE  LET f == config.frontend
             K == Candidates("http-request", req)
             taken(answers) == \E l : IsFirst(Frontend, K, l) /\ l.do \in answers
             insists(d) == d.force /\ ~req.tls
             redirecting == {d \in Covering(req) : insists(d) \/ d.redirect}
         IN  IF f.limited /\ req.fast THEN taken({<<"deny">>})
             ELSE IF f.force /\ ~req.tls THEN taken({<<"https">>})
             ELSE IF redirecting # {}
               THEN taken({IF insists(d) THEN <<"https">> ELSE <<"location", d.id>> :
                             d \in First(redirecting)})
             ELSE IF FirstRule("http-request", req) # {} THEN taken({<<"deny">>})
             ELSE Lacks(Frontend, K)
<1> DEFINE f == config.frontend
           K == Candidates("http-request", req)
           taken(answers) == \E l : IsFirst(Frontend, K, l) /\ l.do \in answers
           insists(d) == d.force /\ ~req.tls
           redirecting == {d \in Covering(req) : insists(d) \/ d.redirect}
           answer(d) == IF insists(d) THEN <<"https">> ELSE <<"location", d.id>>
           deny == Act("http-request", <<"deny">>, {}, "fast")
           secure == Act("http-request", <<"https">>, {}, "clear")
<1>1. /\ Lacks(BindPart, K) /\ Lacks(AclPart(routes), K) /\ Lacks(UsePart(routes), K)
      /\ Lacks(DefaultPart, K)
  BY KindLacks
<1>2. /\ Range(LimitPart) \subseteq Range(Frontend) /\ Range(ForcePart) \subseteq Range(Frontend)
  BY InFrontend
<1>3. /\ \A x : x \in Range(LimitPart) <=> f.limited /\ x = deny
      /\ \A x : x \in Range(ForcePart) <=> f.http /\ f.force /\ x = secure
      /\ \A L : f.limited /\ deny \in L => IsFirst(LimitPart, L, deny)
      /\ \A L : f.http /\ f.force /\ secure \in L => IsFirst(ForcePart, L, secure)
  BY SmallParts
<1>4. /\ Acts(deny, req) <=> req.fast
      /\ Acts(secure, req) <=> ~req.tls
  BY WhatActs
<1>5. deny.kind = "http-request" /\ secure.kind = "http-request"
      /\ deny.do = <<"deny">> /\ secure.do = <<"https">>
  BY DEF Act
<1>6. \A r : r.directive = "http-request" => RenderRule(r).do = <<"deny">>
  BY DEF RenderRule, Act
<1>7. \A d : ToTLS(d).do = <<"https">> /\ ToLocation(d).do = <<"location", d.id>>
  BY DEF ToTLS, ToLocation, Act
<1>8. \A x : x \in K <=> x \in Range(Frontend) /\ x.kind = "http-request" /\ Acts(x, req)
  BY DEF Candidates
<1> HIDE DEF deny, secure
<1>9. IF f.limited /\ req.fast THEN IsFirst(LimitPart, K, deny) ELSE Lacks(LimitPart, K)
  <2>1. f.limited => (deny \in K <=> req.fast)
    BY <1>2, <1>3, <1>4, <1>5, <1>8
  <2>2. f.limited /\ req.fast => IsFirst(LimitPart, K, deny)
    BY <1>3, <2>1
  <2>3. ~(f.limited /\ req.fast) => \A x \in Range(LimitPart) : x \notin K
    BY <1>3, <2>1
  <2>4. ~(f.limited /\ req.fast) => Lacks(LimitPart, K)
    BY <2>3, LacksRange
  <2> QED
    BY <2>2, <2>4
<1>10. IF f.force /\ ~req.tls THEN IsFirst(ForcePart, K, secure) ELSE Lacks(ForcePart, K)
  <2>1. f.force => (secure \in K <=> ~req.tls)
    BY <1>2, <1>3, <1>4, <1>5, <1>8
  <2>2. f.force /\ ~req.tls => IsFirst(ForcePart, K, secure)
    BY <1>3, <2>1
  <2>3. ~(f.force /\ ~req.tls) => \A x \in Range(ForcePart) : x \notin K
    BY <1>3, <2>1
  <2>4. ~(f.force /\ ~req.tls) => Lacks(ForcePart, K)
    BY <2>3, LacksRange
  <2> QED
    BY <2>2, <2>4
<1>11. ~(f.force /\ ~req.tls) =>
         /\ redirecting = {} => Lacks(RedirectPart(routes), K)
         /\ redirecting # {} =>
              \E d \in First(redirecting) :
                IsFirst(RedirectPart(routes), K, IF insists(d) THEN ToTLS(d) ELSE ToLocation(d))
  BY RedirectsFirst
<1>12. /\ FirstRule("http-request", req) = {} => Lacks(RulePart, K)
       /\ FirstRule("http-request", req) # {} =>
            \E r : r.directive = "http-request" /\ IsFirst(RulePart, K, RenderRule(r))
  BY RulesFirst
<1> DEFINE out == Frontend
<1>13. LET early == Lacks(BindPart, K) /\ Lacks(LimitPart, K) /\ Lacks(AclPart(routes), K)
           rest == Lacks(ForcePart, K) /\ Lacks(RedirectPart(routes), K)
       IN  /\ \A l : Lacks(BindPart, K) /\ IsFirst(LimitPart, K, l) => IsFirst(out, K, l)
           /\ \A l : early /\ IsFirst(ForcePart, K, l) => IsFirst(out, K, l)
           /\ \A l : early /\ Lacks(ForcePart, K) /\ IsFirst(RedirectPart(routes), K, l) =>
                       IsFirst(out, K, l)
           /\ \A l : early /\ rest /\ IsFirst(RulePart, K, l) => IsFirst(out, K, l)
           /\ early /\ rest /\ Lacks(RulePart, K) /\ Lacks(UsePart(routes), K)
                /\ Lacks(DefaultPart, K) => Lacks(out, K)
  BY FrontendFirst
<1> HIDE DEF K, redirecting, out
<1>14. CASE f.limited /\ req.fast
  <2>1. IsFirst(out, K, deny)
    BY <1>1, <1>9, <1>13, <1>14
  <2> QED
    BY <1>5, <1>14, <2>1 DEF K, out
<1>15. CASE ~(f.limited /\ req.fast) /\ f.force /\ ~req.tls
  <2>1. IsFirst(out, K, secure)
    BY <1>1, <1>9, <1>10, <1>13, <1>15
  <2> QED
    BY <1>5, <1>15, <2>1 DEF K, out
<1>16. CASE ~(f.limited /\ req.fast) /\ ~(f.force /\ ~req.tls) /\ redirecting # {}
  <2>1. PICK d \in First(redirecting) :
          IsFirst(RedirectPart(routes), K, IF insists(d) THEN ToTLS(d) ELSE ToLocation(d))
    BY <1>11, <1>16
  <2> DEFINE l == IF insists(d) THEN ToTLS(d) ELSE ToLocation(d)
  <2>2. IsFirst(out, K, l)
    BY <1>1, <1>9, <1>10, <1>13, <1>16, <2>1
  <2>3. l.do = answer(d)
    BY <1>7
  <2>4. l.do \in {answer(e) : e \in First(redirecting)}
    BY <2>3
  <2> QED
    BY <1>16, <2>2, <2>4 DEF K, out, redirecting
<1>17. CASE /\ ~(f.limited /\ req.fast) /\ ~(f.force /\ ~req.tls) /\ redirecting = {}
            /\ FirstRule("http-request", req) # {}
  <2>1. PICK r : r.directive = "http-request" /\ IsFirst(RulePart, K, RenderRule(r))
    BY <1>12, <1>17
  <2>2. IsFirst(out, K, RenderRule(r))
    BY <1>1, <1>9, <1>10, <1>11, <1>13, <1>17, <2>1
  <2>3. RenderRule(r).do = <<"deny">>
    BY <1>6, <2>1
  <2> QED
    BY <1>17, <2>2, <2>3 DEF K, out, redirecting
<1>18. CASE /\ ~(f.limited /\ req.fast) /\ ~(f.force /\ ~req.tls) /\ redirecting = {}
            /\ FirstRule("http-request", req) = {}
  <2>1. Lacks(out, K)
    BY <1>1, <1>9, <1>10, <1>11, <1>12, <1>13, <1>18
  <2> QED
    BY <1>18, <2>1 DEF K, out, redirecting
<1> QED
  BY <1>14, <1>15, <1>16, <1>17, <1>18 DEF redirecting

\* Which use_backend line acts first: the operator's rules, the first route with an
\* enabled backend, or none.
LEMMA UseTaken ==
  ASSUME WellFormed(config), NEW routes \in ListDomainsByFrontend, Frontend = FrontendLines(routes),
         NEW req \in Requests
  PROVE  LET K == Candidates("use_backend", req)
             taken(answers) == \E l : IsFirst(Frontend, K, l) /\ l.do \in answers
             serving == {d \in Covering(req) : d.backend # None /\ BackendUp(d.backend)}
         IN  IF FirstRule("use_backend", req) # {}
               THEN taken({<<"backend", r.arg>> : r \in FirstRule("use_backend", req)})
             ELSE IF serving # {} THEN taken({<<"backend", d.backend>> : d \in First(serving)})
             ELSE Lacks(Frontend, K)
<1> DEFINE K == Candidates("use_backend", req)
           serving == {d \in Covering(req) : d.backend # None /\ BackendUp(d.backend)}
           out == Frontend
<1>1. /\ Lacks(BindPart, K) /\ Lacks(LimitPart, K) /\ Lacks(AclPart(routes), K)
      /\ Lacks(ForcePart, K) /\ Lacks(RedirectPart(routes), K) /\ Lacks(DefaultPart, K)
  BY KindLacks
<1>2. /\ FirstRule("use_backend", req) = {} => Lacks(RulePart, K)
      /\ FirstRule("use_backend", req) # {} =>
           \E r : /\ FirstRule("use_backend", req) = {r} /\ r.directive = "use_backend"
                  /\ IsFirst(RulePart, K, RenderRule(r))
  BY RulesFirst
<1>3. /\ serving = {} => Lacks(UsePart(routes), K)
      /\ serving # {} => \E d \in First(serving) : IsFirst(UsePart(routes), K, ToBackend(d))
  BY UsesFirst
<1>4. LET early == Lacks(BindPart, K) /\ Lacks(LimitPart, K) /\ Lacks(AclPart(routes), K)
          rest == Lacks(ForcePart, K) /\ Lacks(RedirectPart(routes), K)
      IN  /\ \A l : early /\ rest /\ IsFirst(RulePart, K, l) => IsFirst(out, K, l)
          /\ \A l : early /\ rest /\ Lacks(RulePart, K) /\ IsFirst(UsePart(routes), K, l) =>
                      IsFirst(out, K, l)
          /\ early /\ rest /\ Lacks(RulePart, K) /\ Lacks(UsePart(routes), K)
               /\ Lacks(DefaultPart, K) => Lacks(out, K)
  BY FrontendFirst
<1>5. \A r : r.directive = "use_backend" => RenderRule(r).do = <<"backend", r.arg>>
  BY DEF RenderRule, Act
<1>6. \A d : ToBackend(d).do = <<"backend", d.backend>>
  BY DEF ToBackend, Act
<1> HIDE DEF K, serving, out
<1>7. CASE FirstRule("use_backend", req) # {}
  <2>1. PICK r : /\ FirstRule("use_backend", req) = {r} /\ r.directive = "use_backend"
                 /\ IsFirst(RulePart, K, RenderRule(r))
    BY <1>2, <1>7
  <2>2. IsFirst(out, K, RenderRule(r))
    BY <1>1, <1>4, <2>1
  <2>3. RenderRule(r).do \in {<<"backend", q.arg>> : q \in FirstRule("use_backend", req)}
    BY <1>5, <2>1
  <2> QED
    BY <1>7, <2>2, <2>3 DEF K, out
<1>8. CASE FirstRule("use_backend", req) = {} /\ serving # {}
  <2>1. PICK d \in First(serving) : IsFirst(UsePart(routes), K, ToBackend(d))
    BY <1>3, <1>8
  <2>2. IsFirst(out, K, ToBackend(d))
    BY <1>1, <1>2, <1>4, <1>8, <2>1
  <2>3. ToBackend(d).do \in {<<"backend", e.backend>> : e \in First(serving)}
    BY <1>6
  <2> QED
    BY <1>8, <2>2, <2>3 DEF K, out, serving
<1>9. CASE FirstRule("use_backend", req) = {} /\ serving = {}
  <2>1. Lacks(out, K)
    BY <1>1, <1>2, <1>3, <1>4, <1>9
  <2> QED
    BY <1>9, <2>1 DEF K, out, serving
<1> QED
  BY <1>7, <1>8, <1>9

\* The default_backend line acts when its backend is rendered.
LEMMA DefaultTaken ==
  ASSUME WellFormed(config), NEW routes \in ListDomainsByFrontend, Frontend = FrontendLines(routes),
         NEW req \in Requests
  PROVE  LET f == config.frontend
             K == Candidates("default_backend", req)
         IN  IF f.default # None /\ BackendUp(f.default)
               THEN \E l : IsFirst(Frontend, K, l) /\ l.do = <<"backend", f.default>>
             ELSE Lacks(Frontend, K)
<1> DEFINE f == config.frontend
           K == Candidates("default_backend", req)
           up == f.default # None /\ BackendUp(f.default)
           line == Act("default_backend", <<"backend", f.default>>, {}, "any")
           out == Frontend
<1>1. /\ Lacks(BindPart, K) /\ Lacks(LimitPart, K) /\ Lacks(AclPart(routes), K)
      /\ Lacks(ForcePart, K) /\ Lacks(RedirectPart(routes), K) /\ Lacks(RulePart, K)
      /\ Lacks(UsePart(routes), K)
  BY KindLacks
<1>2. /\ \A x : x \in Range(DefaultPart) <=> up /\ x = line
      /\ \A L : up /\ line \in L => IsFirst(DefaultPart, L, line)
  BY SmallParts
<1>3. Range(DefaultPart) \subseteq Range(Frontend)
  BY InFrontend
<1>4. Acts(line, req)
  BY WhatActs
<1>5. line.kind = "default_backend" /\ line.do = <<"backend", f.default>>
  BY DEF Act
<1>6. LET early == Lacks(BindPart, K) /\ Lacks(LimitPart, K) /\ Lacks(AclPart(routes), K)
          rest == Lacks(ForcePart, K) /\ Lacks(RedirectPart(routes), K)
      IN  /\ \A l : early /\ rest /\ Lacks(RulePart, K) /\ Lacks(UsePart(routes), K)
                      /\ IsFirst(DefaultPart, K, l) => IsFirst(out, K, l)
          /\ early /\ rest /\ Lacks(RulePart, K) /\ Lacks(UsePart(routes), K)
               /\ Lacks(DefaultPart, K) => Lacks(out, K)
  BY FrontendFirst
<1>7. up => line \in K
  BY <1>2, <1>3, <1>4, <1>5 DEF Candidates
<1> HIDE DEF K, line, up, out
<1>8. CASE up
  <2>1. IsFirst(out, K, line)
    BY <1>1, <1>2, <1>6, <1>7, <1>8
  <2> QED
    BY <1>5, <1>8, <2>1 DEF K, up, out
<1>9. CASE ~up
  <2>1. Lacks(DefaultPart, K)
    BY <1>2, <1>9, LacksRange
  <2>2. Lacks(out, K)
    BY <1>1, <1>6, <2>1
  <2> QED
    BY <1>9, <2>2 DEF K, up, out
<1> QED
  BY <1>8, <1>9

\* The answer is what the line that is taken does.
LEMMA AnswerTaken ==
  ASSUME Sequence(Frontend), NEW req
  PROVE  LET K(kind) == Candidates(kind, req) IN
         /\ \A l : IsFirst(Frontend, K("http-request"), l) => Answer(req) = l.do
         /\ Lacks(Frontend, K("http-request")) =>
              /\ \A l : IsFirst(Frontend, K("use_backend"), l) => Answer(req) = l.do
              /\ Lacks(Frontend, K("use_backend")) =>
                   /\ \A l : IsFirst(Frontend, K("default_backend"), l) => Answer(req) = l.do
                   /\ Lacks(Frontend, K("default_backend")) => Answer(req) = <<None>>
<1> DEFINE K(kind) == Candidates(kind, req)
           A(kind) == Acting(kind, req)
           first(kind) == Frontend[Min(A(kind))].do
<1>1. \A kind, l : IsFirst(Frontend, K(kind), l) => A(kind) # {} /\ first(kind) = l.do
  BY TakesFirst
<1>2. \A kind : Lacks(Frontend, K(kind)) => A(kind) = {}
  BY TakesNone
<1>3. Answer(req) =
        IF A("http-request") # {} THEN first("http-request")
        ELSE IF A("use_backend") # {} THEN first("use_backend")
        ELSE IF A("default_backend") # {} THEN first("default_backend") ELSE <<None>>
  BY DEF Answer
<1> HIDE DEF K, A, first
<1> QED
  BY <1>1, <1>2, <1>3 DEF K

\* HAProxy's answer is one of those the rows mean.
LEMMA AnswerIntended ==
  ASSUME WellFormed(config), NEW routes \in ListDomainsByFrontend, Frontend = FrontendLines(routes),
         NEW req \in Requests, config.frontend.http
  PROVE  Answer(req) \in Intended(req)
<1> DEFINE f == config.frontend
           insists(d) == d.force /\ ~req.tls
           redirecting == {d \in Covering(req) : insists(d) \/ d.redirect}
           serving == {d \in Covering(req) : d.backend # None /\ BackendUp(d.backend)}
           H == Candidates("http-request", req)
           U == Candidates("use_backend", req)
           D == Candidates("default_backend", req)
           taken(K, answers) == \E l : IsFirst(Frontend, K, l) /\ l.do \in answers
           b1 == f.limited /\ req.fast
           b2 == f.force /\ ~req.tls
           b6 == f.default # None /\ BackendUp(f.default)
           o3 == {IF insists(d) THEN <<"https">> ELSE <<"location", d.id>> :
                    d \in First(redirecting)}
           o5 == {<<"backend", r.arg>> : r \in FirstRule("use_backend", req)}
           o6 == {<<"backend", d.backend>> : d \in First(serving)}
           h == FirstRule("http-request", req)
           u == FirstRule("use_backend", req)
           a == Answer(req)
<1>1. Intended(req) =
        IF b1 THEN {<<"deny">>} ELSE IF b2 THEN {<<"https">>} ELSE IF redirecting # {} THEN o3
        ELSE IF h # {} THEN {<<"deny">>} ELSE IF u # {} THEN o5 ELSE IF serving # {} THEN o6
        ELSE IF b6 THEN {<<"backend", f.default>>} ELSE {<<None>>}
  BY DEF Intended
<1>2. IF b1 THEN taken(H, {<<"deny">>}) ELSE IF b2 THEN taken(H, {<<"https">>})
      ELSE IF redirecting # {} THEN taken(H, o3)
      ELSE IF h # {} THEN taken(H, {<<"deny">>}) ELSE Lacks(Frontend, H)
  BY HttpTaken
<1>3. IF u # {} THEN taken(U, o5) ELSE IF serving # {} THEN taken(U, o6) ELSE Lacks(Frontend, U)
  BY UseTaken
<1>4. IF b6 THEN taken(D, {<<"backend", f.default>>}) ELSE Lacks(Frontend, D)
  <2>1. IF b6 THEN \E l : IsFirst(Frontend, D, l) /\ l.do = <<"backend", f.default>>
        ELSE Lacks(Frontend, D)
    BY DefaultTaken
  <2> QED
    BY <2>1
<1>5. Sequence(Frontend)
  BY InFrontend
<1>6. /\ \A l : IsFirst(Frontend, H, l) => a = l.do
      /\ Lacks(Frontend, H) =>
           /\ \A l : IsFirst(Frontend, U, l) => a = l.do
           /\ Lacks(Frontend, U) =>
                /\ \A l : IsFirst(Frontend, D, l) => a = l.do
                /\ Lacks(Frontend, D) => a = <<None>>
  BY <1>5, AnswerTaken
<1>7. /\ \A S : taken(H, S) => a \in S
      /\ Lacks(Frontend, H) => \A S : taken(U, S) => a \in S
      /\ Lacks(Frontend, H) /\ Lacks(Frontend, U) => \A S : taken(D, S) => a \in S
  BY <1>6
<1> HIDE DEF redirecting, serving, H, U, D, taken, b1, b2, b6, o3, o5, o6, h, u, a
<1>8. a \in Intended(req)
  BY <1>1, <1>2, <1>3, <1>4, <1>6, <1>7
<1> QED
  BY <1>8 DEF a

\* Routes are compared by two numbers, so being first in order carries over.
LEMMA FirstCarries ==
  ASSUME WellFormed(config), NEW S \in SUBSET config.routes, NEW R \in SUBSET S,
         NEW e \in First(S), e \in R, NEW d \in First(R)
  PROVE  d \in First(S)
<1>1. d \in S /\ e \in S /\ Before(d, e) /\ \A x \in S : Before(e, x)
  BY DEF First
<1>2. \A x \in S : x.order \in Int /\ x.hostname \in Int
  <2>1. config.routes \subseteq Domain(DOMAIN config.backends)
    BY DEF WellFormed
  <2>2. DOMAIN Hostnames \subseteq Int
    BY HostnamesAssumption
  <2> QED
    BY <2>1, <2>2 DEF Domain
<1>3. \A x \in S : Before(d, x)
  BY <1>1, <1>2 DEF Before
<1> QED
  BY <1>1, <1>3 DEF First

\* Where nothing but the routes has a say, what is intended is what the first of them
\* does, unless a redirect overtakes it.
LEMMA IntendedIsFirst ==
  ASSUME WellFormed(config), NEW req \in Requests, Answer(req) \in Intended(req), Plain
  PROVE  FirstDecides(req) \/ Overtaken(req)
<1> DEFINE f == config.frontend
           insists(d) == d.force /\ ~req.tls
           redirecting == {d \in Covering(req) : insists(d) \/ d.redirect}
           serving == {d \in Covering(req) : d.backend # None /\ BackendUp(d.backend)}
           o3 == {IF insists(d) THEN <<"https">> ELSE <<"location", d.id>> :
                    d \in First(redirecting)}
           o6 == {<<"backend", d.backend>> : d \in First(serving)}
           S == Deciding(req)
           a == Answer(req)
<1>1. FirstRule("http-request", req) = {} /\ FirstRule("use_backend", req) = {}
  BY DEF Plain, FirstRule
<1>2. redirecting # {} => a \in o3
  BY <1>1 DEF Intended, Plain
<1>3. redirecting = {} /\ serving # {} => a \in o6
  BY <1>1 DEF Intended, Plain
<1>4. /\ S = redirecting \cup serving
      /\ S \subseteq config.routes
      /\ \A d \in S : d \in redirecting <=> Redirects(d, req)
  BY DEF Deciding, Redirects, Covering
<1>5. \A d \in redirecting : Destination(d, req) =
        IF insists(d) THEN <<"https">> ELSE <<"location", d.id>>
  BY DEF Destination
<1>6. \A d \in serving : d \notin redirecting => Destination(d, req) = <<"backend", d.backend>>
  BY DEF Destination
<1> HIDE DEF S, a
<1>7. CASE redirecting # {} /\ ~Overtaken(req)
  <2>1. PICK e \in First(S) : Redirects(e, req)
    BY <1>4, <1>7 DEF Overtaken, S
  <2>2. e \in redirecting
    BY <1>4, <2>1 DEF First
  <2>3. PICK d \in First(redirecting) :
          a = IF insists(d) THEN <<"https">> ELSE <<"location", d.id>>
    BY <1>2, <1>7
  <2>4. a = Destination(d, req)
    BY <1>5, <2>3 DEF First
  <2> HIDE DEF redirecting, serving
  <2>5. d \in First(S)
    BY <1>4, <2>1, <2>2, <2>3, FirstCarries
  <2> QED
    BY <2>4, <2>5 DEF FirstDecides, S, a
<1>8. CASE redirecting = {}
  <2>1. S = serving
    BY <1>4, <1>8
  <2>2. SUFFICES ASSUME serving # {}
                 PROVE  FirstDecides(req)
    BY <2>1 DEF FirstDecides, S
  <2>3. PICK d \in First(serving) : a = <<"backend", d.backend>>
    BY <1>3, <1>8, <2>2
  <2>4. a = Destination(d, req)
    BY <1>6, <1>8, <2>3 DEF First
  <2> QED
    BY <2>1, <2>3, <2>4 DEF FirstDecides, S, a
<1> QED
  BY <1>7, <1>8

\* The promise of the renderer, for every database and every list of requests: HAProxy
\* sends a request where the rows say, and by the order of the routes where nothing else
\* has a say, unless a redirect overtakes a route.
THEOREM Routed == Spec => []RoutedAsStored
<1>1. Rendered => RoutedAsStored
  <2>1. SUFFICES ASSUME Rendered, file # <<>>, config.frontend.http, NEW req \in Requests
                 PROVE  /\ Answer(req) \in Intended(req)
                        /\ Plain => FirstDecides(req) \/ Overtaken(req)
    BY DEF RoutedAsStored
  <2>2. WellFormed(config)
    BY <2>1, Loaded
  <2>3. PICK routes \in ListDomainsByFrontend, backends \in ListBackends :
          file = Content(routes, backends) /\ warnings = Warnings(routes, backends)
    BY <2>1, Loaded
  <2>4. Frontend = FrontendLines(routes)
    BY <2>2, <2>3, FrontendInFile
  <2>5. Answer(req) \in Intended(req)
    BY <2>1, <2>2, <2>4, AnswerIntended
  <2> QED
    BY <2>2, <2>5, IntendedIsFirst
<1> QED
  BY <1>1, InductiveInvariant, PTL

\* A backend's section: its name, and a line for each of its enabled servers.
LEMMA BackendLines ==
  ASSUME WellFormed(config), NEW b \in DOMAIN config.backends
  PROVE  LET rows == config.backends[b].servers  section == RenderBackend(b) IN
         /\ section.kind = "backend" /\ section.name = b /\ Sequence(section.lines)
         /\ \A x : x \in Range(section.lines) <=>
              \E k \in DOMAIN rows :
                rows[k].enabled /\ x = ServerLine(config.backends[b], rows[k])
<1> DEFINE bk == config.backends[b]
           rows == bk.servers
           g == [k \in DOMAIN rows |-> <<ServerLine(bk, rows[k])>>]
           p == [k \in DOMAIN rows |-> Opt(rows[k].enabled, <<ServerLine(bk, rows[k])>>)]
<1>1. RenderBackend(b).lines = FlattenSeq(p)
  BY DEF RenderBackend, Section, Written
<1>2. RenderBackend(b).kind = "backend" /\ RenderBackend(b).name = b
  BY DEF RenderBackend, Section
<1>3. Sequence(rows)
  BY Tables
<1> HIDE DEF rows, bk
<1>4. p = [k \in DOMAIN rows |-> p[k]]
  OBVIOUS
<1>5. \A k \in DOMAIN rows : p[k] = Opt(rows[k].enabled, g[k]) /\ Sequence(g[k])
  BY OneElement
<1>6. \A k \in DOMAIN rows : DOMAIN g[k] = {1} /\ g[k][1] = ServerLine(bk, rows[k])
  BY OneElement
<1> HIDE DEF p, g
<1>7. /\ Sequence(FlattenSeq(p))
      /\ \A x : x \in Range(FlattenSeq(p)) <=>
           \E k \in DOMAIN rows : rows[k].enabled /\ x \in Range(g[k])
  BY <1>3, <1>4, <1>5, WrittenFacts
<1>8. \A k \in DOMAIN rows : \A x : x \in Range(g[k]) <=> x = ServerLine(bk, rows[k])
  BY <1>6 DEF Range
<1>9. \A x : x \in Range(FlattenSeq(p)) <=>
        \E k \in DOMAIN rows : rows[k].enabled /\ x = ServerLine(bk, rows[k])
  BY <1>7, <1>8
<1> QED
  BY <1>1, <1>2, <1>7, <1>9 DEF rows, bk

\* The backends in the file are the enabled ones, each in a section of its name.
LEMMA BackendsInFile ==
  ASSUME WellFormed(config), NEW routes \in ListDomainsByFrontend, NEW backends \in ListBackends,
         file = Content(routes, backends)
  PROVE  /\ \A s \in DOMAIN file : file[s].kind = "backend" =>
              \E b \in DOMAIN config.backends : BackendUp(b) /\ file[s] = RenderBackend(b)
         /\ \A b : BackendUp(b) => \E s \in DOMAIN file : file[s] = RenderBackend(b)
<1> DEFINE y == RenderFrontend(config.frontend, routes)
<1>1. \A x : x \in Range(file) <=>
        \/ x \in Range(Head3) \/ x = y \/ x \in Range(BackendPart(backends))
        \/ x \in Range(RenderTrailingSnippets)
  BY ContentRange
<1>2. /\ \A x \in Range(Head3) : x.kind \in Early
      /\ y.kind = "frontend"
      /\ \A x \in Range(RenderTrailingSnippets) : x.kind \in Late
  BY SectionKinds
<1>3. \A x : x \in Range(BackendPart(backends)) <=> \E b : BackendUp(b) /\ x = RenderBackend(b)
  BY BackendFacts
<1> HIDE DEF y
<1>4. \A x \in Range(file) : x.kind = "backend" => \E b : BackendUp(b) /\ x = RenderBackend(b)
  BY <1>1, <1>2, <1>3, KindsApart
<1>5. \A b : BackendUp(b) => RenderBackend(b) \in Range(file)
  BY <1>1, <1>3
<1>6. \A b : BackendUp(b) => b \in DOMAIN config.backends
  BY DEF BackendUp
<1>7. \A s \in DOMAIN file : file[s] \in Range(file)
  BY DEF Range
<1>8. \A x \in Range(file) : \E s \in DOMAIN file : file[s] = x
  BY DEF Range
<1> QED
  BY <1>4, <1>5, <1>6, <1>7, <1>8

\* What it means that a render warned of nothing.
LEMMA NoWarning ==
  ASSUME WellFormed(config), NEW routes \in ListDomainsByFrontend, NEW backends \in ListBackends,
         Warnings(routes, backends) = {}
  PROVE  /\ AnyEnabled(config.frontend.binds)
         /\ \A d \in config.routes : d.enabled /\ d.backend # None => BackendUp(d.backend)
         /\ \A b : BackendUp(b) =>
              LET servers == config.backends[b].servers IN
              /\ AnyEnabled(servers)
              /\ config.backends[b].cookie =>
                   \A k \in DOMAIN servers : servers[k].enabled => servers[k].cookie
<1>1. /\ FrontendWarnings(config.frontend, routes) = {}
      /\ \A k \in DOMAIN backends : BackendWarnings(backends[k]) = {}
  BY DEF Warnings
<1>2. \A b, w : Warn(b, w) = {} => ~b
  BY DEF Warn
<1>3. AnyEnabled(config.frontend.binds)
  BY <1>1, <1>2 DEF FrontendWarnings
<1>4. SkippedRoutes(routes) = {}
  BY <1>1 DEF FrontendWarnings
<1>5. \A k \in DOMAIN routes :
        routes[k].enabled /\ routes[k].backend # None => BackendUp(routes[k].backend)
  BY <1>4 DEF SkippedRoutes
<1>6. Range(routes) = config.routes
  BY RoutesListed
<1>7. \A d \in config.routes : d.enabled /\ d.backend # None => BackendUp(d.backend)
  BY <1>5, <1>6 DEF Range
<1>8. ASSUME NEW b, BackendUp(b)
      PROVE  LET servers == config.backends[b].servers IN
             /\ AnyEnabled(servers)
             /\ config.backends[b].cookie =>
                  \A k \in DOMAIN servers : servers[k].enabled => servers[k].cookie
  <2>1. b \in Range(backends)
    BY <1>8, BackendsListed
  <2>2. BackendWarnings(b) = {}
    BY <1>1, <2>1 DEF Range
  <2> DEFINE bk == config.backends[b]  servers == bk.servers
             lonely == bk.cookie
                         /\ \E k \in DOMAIN servers : servers[k].enabled /\ ~servers[k].cookie
  <2>3. Warn(~AnyEnabled(servers), <<"no server", b>>) = {} /\ Warn(lonely, <<"no cookie", b>>) = {}
    BY <2>2 DEF BackendWarnings
  <2>4. AnyEnabled(servers) /\ ~lonely
    BY <1>2, <2>3
  <2> QED
    BY <2>4
<1> QED
  BY <1>3, <1>7, <1>8

\* A backend the rows choose has a section with a server.
LEMMA BackendServes ==
  ASSUME WellFormed(config), NEW routes \in ListDomainsByFrontend, NEW backends \in ListBackends,
         file = Content(routes, backends), Warnings(routes, backends) = {}
  PROVE  /\ \A b : BackendUp(b) =>
              \E s \in DOMAIN file :
                file[s].kind = "backend" /\ file[s].name = b /\ file[s].lines # <<>>
         /\ \A s \in DOMAIN file : file[s].kind = "backend" =>
              /\ file[s].lines # <<>>
              /\ config.backends[file[s].name].cookie =>
                   \A k \in DOMAIN file[s].lines : file[s].lines[k].cookie
<1>1. ASSUME NEW b \in DOMAIN config.backends, BackendUp(b)
      PROVE  LET section == RenderBackend(b) IN
             /\ section.kind = "backend" /\ section.name = b /\ section.lines # <<>>
             /\ config.backends[b].cookie => \A k \in DOMAIN section.lines : section.lines[k].cookie
  <2> DEFINE bk == config.backends[b]  rows == bk.servers  lines == RenderBackend(b).lines
  <2>1. /\ RenderBackend(b).kind = "backend" /\ RenderBackend(b).name = b
        /\ \A x : x \in Range(lines) <=>
             \E k \in DOMAIN rows : rows[k].enabled /\ x = ServerLine(bk, rows[k])
    BY BackendLines
  <2>2. /\ AnyEnabled(rows)
        /\ bk.cookie => \A k \in DOMAIN rows : rows[k].enabled => rows[k].cookie
    BY <1>1, NoWarning
  <2> HIDE DEF bk, rows, lines
  <2>3. \E k \in DOMAIN rows : rows[k].enabled
    BY <2>2 DEF AnyEnabled
  <2>4. \E x : x \in Range(lines)
    BY <2>1, <2>3
  <2>5. lines # <<>>
    <3>1. Range(<<>>) = {}
      BY NoElement DEF Range
    <3> QED
      BY <3>1, <2>4
  <2>6. ASSUME bk.cookie, NEW k \in DOMAIN lines
        PROVE  lines[k].cookie
    <3>1. lines[k] \in Range(lines)
      BY DEF Range
    <3>2. PICK m \in DOMAIN rows : rows[m].enabled /\ lines[k] = ServerLine(bk, rows[m])
      BY <2>1, <3>1
    <3>3. rows[m].cookie
      BY <2>2, <2>6, <3>2
    <3>4. ServerLine(bk, rows[m]).cookie = (rows[m].cookie /\ bk.cookie)
      BY DEF ServerLine
    <3>5. ServerLine(bk, rows[m]).cookie
      BY <2>6, <3>3, <3>4, Zenon
    <3> QED
      BY <3>2, <3>5, Zenon
  <2> QED
    BY <2>1, <2>5, <2>6 DEF lines, bk
<1>2. \A b : BackendUp(b) => b \in DOMAIN config.backends
  BY DEF BackendUp
<1>3. /\ \A s \in DOMAIN file : file[s].kind = "backend" =>
           \E b \in DOMAIN config.backends : BackendUp(b) /\ file[s] = RenderBackend(b)
      /\ \A b : BackendUp(b) => \E s \in DOMAIN file : file[s] = RenderBackend(b)
  BY BackendsInFile
<1>4. ASSUME NEW b, BackendUp(b)
      PROVE  \E s \in DOMAIN file :
               file[s].kind = "backend" /\ file[s].name = b /\ file[s].lines # <<>>
  <2>1. PICK s \in DOMAIN file : file[s] = RenderBackend(b)
    BY <1>3, <1>4
  <2>2. file[s].kind = "backend" /\ file[s].name = b /\ file[s].lines # <<>>
    BY <1>1, <1>2, <1>4, <2>1
  <2> QED
    BY <2>2
<1>5. ASSUME NEW s \in DOMAIN file, file[s].kind = "backend"
      PROVE  /\ file[s].lines # <<>>
             /\ config.backends[file[s].name].cookie =>
                  \A k \in DOMAIN file[s].lines : file[s].lines[k].cookie
  <2>1. PICK b \in DOMAIN config.backends : BackendUp(b) /\ file[s] = RenderBackend(b)
    BY <1>3, <1>5
  <2>2. /\ file[s].name = b /\ file[s].lines # <<>>
        /\ config.backends[b].cookie => \A k \in DOMAIN file[s].lines : file[s].lines[k].cookie
    BY <1>1, <2>1
  <2> QED
    BY <2>2
<1> QED
  BY <1>4, <1>5

\* Where the rows send a request when no enabled route is skipped: never nowhere if a
\* route with a destination covers it, and to a backend only one of a rule or one that
\* is rendered.
LEMMA QuietAnswers ==
  ASSUME WellFormed(config), NEW req, NEW a \in Intended(req),
         \A d \in config.routes : d.enabled /\ d.backend # None => BackendUp(d.backend)
  PROVE  /\ (\E d \in Covering(req) : HasDestination(d)) => a # <<None>>
         /\ a[1] = "backend" =>
              BackendUp(a[2]) \/ \E r \in FirstRule("use_backend", req) : a[2] = r.arg
<1> DEFINE f == config.frontend
           insists(d) == d.force /\ ~req.tls
           redirecting == {d \in Covering(req) : insists(d) \/ d.redirect}
           serving == {d \in Covering(req) : d.backend # None /\ BackendUp(d.backend)}
           b1 == f.limited /\ req.fast
           b2 == f.force /\ ~req.tls
           b6 == f.default # None /\ BackendUp(f.default)
           o3 == {IF insists(d) THEN <<"https">> ELSE <<"location", d.id>> :
                    d \in First(redirecting)}
           o5 == {<<"backend", r.arg>> : r \in FirstRule("use_backend", req)}
           o6 == {<<"backend", d.backend>> : d \in First(serving)}
           h == FirstRule("http-request", req)
           u == FirstRule("use_backend", req)
           good == \/ BackendUp(a[2])
                   \/ \E r \in FirstRule("use_backend", req) : a[2] = r.arg
           other == a # <<None>> /\ a[1] # "backend"
           there == a # <<None>> /\ good
<1>1. Intended(req) =
        IF b1 THEN {<<"deny">>} ELSE IF b2 THEN {<<"https">>} ELSE IF redirecting # {} THEN o3
        ELSE IF h # {} THEN {<<"deny">>} ELSE IF u # {} THEN o5 ELSE IF serving # {} THEN o6
        ELSE IF b6 THEN {<<"backend", f.default>>} ELSE {<<None>>}
  BY DEF Intended
<1>2. a \in {<<"deny">>} => other
  BY DEF None
<1>3. a \in {<<"https">>} => other
  BY DEF None
<1>4. a \in o3 => other
  <2>1. \A n : <<"location", n>> # <<"none">> /\ <<"location", n>>[1] # "backend"
    OBVIOUS
  <2>2. <<"https">> # <<"none">> /\ <<"https">>[1] # "backend"
    OBVIOUS
  <2>3. a \in o3 => a = <<"https">> \/ \E n : a = <<"location", n>>
    OBVIOUS
  <2> HIDE DEF o3
  <2> QED
    BY <2>1, <2>2, <2>3 DEF None
<1>5. a \in o5 => there
  BY DEF None
<1>6. a \in o6 => there
  BY DEF First, None
<1>7. b6 /\ a \in {<<"backend", f.default>>} => there
  BY DEF None
<1>8. a \in {<<None>>} => a[1] # "backend"
  BY DEF None
<1>9. ASSUME NEW d \in Covering(req), HasDestination(d)
      PROVE  redirecting # {} \/ serving # {}
  <2>1. d \in config.routes /\ d.enabled
    BY DEF Covering
  <2>2. d.redirect => d \in redirecting
    OBVIOUS
  <2>3. d.backend # None => d \in serving
    BY <2>1
  <2> QED
    BY <1>9, <2>2, <2>3 DEF HasDestination
<1>10. (\E d \in Covering(req) : HasDestination(d)) => redirecting # {} \/ serving # {}
  BY <1>9
<1> HIDE DEF redirecting, serving, b1, b2, b6, o3, o5, o6, h, u
<1>11. redirecting # {} \/ serving # {} => a # <<None>>
  BY <1>1, <1>2, <1>3, <1>4, <1>5, <1>6
<1>12. a[1] = "backend" => good
  BY <1>1, <1>2, <1>3, <1>4, <1>5, <1>6, <1>7, <1>8
<1> QED
  BY <1>10, <1>11, <1>12

\* A rule that is chosen is in the frontend, so an accepted file has its backend.
LEMMA ChosenRule ==
  ASSUME WellFormed(config), NEW routes \in ListDomainsByFrontend, Frontend = FrontendLines(routes),
         NEW req \in Requests, NEW r \in FirstRule("use_backend", req), Accepted
  PROVE  \E s \in DOMAIN file : file[s].kind = "backend" /\ file[s].name = r.arg
<1>1. /\ r.directive = "use_backend"
      /\ IsFirst(RulePart, Candidates("use_backend", req), RenderRule(r))
  BY RulesFirst
<1>2. RenderRule(r) \in Range(Frontend)
  BY <1>1 DEF IsFirst, Candidates
<1>3. RenderRule(r).kind = "use_backend" /\ RenderRule(r).do = <<"backend", r.arg>>
  BY <1>1 DEF RenderRule, Act
<1>4. PICK k \in DOMAIN Frontend : Frontend[k] = RenderRule(r)
  BY <1>2 DEF Range
<1>5. \E s \in DOMAIN file : file[s].kind = "backend" /\ file[s].name = Frontend[k].do[2]
  BY <1>3, <1>4 DEF Accepted
<1>6. Frontend[k].do[2] = r.arg
  BY <1>3, <1>4
<1> QED
  BY <1>5, <1>6

\* A file that HAProxy accepts and the panel warned of nothing about serves what the
\* rows promise: this is what makes a quiet deployment a safe one.
THEOREM QuietServes == Spec => []QuietMeansServed
<1>1. Rendered => QuietMeansServed
  <2>1. SUFFICES ASSUME Rendered, file # <<>>, config.frontend.http, Accepted, warnings = {}
                 PROVE  QuietMeansServed
    BY DEF QuietMeansServed
  <2>2. WellFormed(config)
    BY <2>1, Loaded
  <2>3. PICK routes \in ListDomainsByFrontend, backends \in ListBackends :
          file = Content(routes, backends) /\ warnings = Warnings(routes, backends)
    BY <2>1, Loaded
  <2>4. Frontend = FrontendLines(routes)
    BY <2>2, <2>3, FrontendInFile
  <2>5. /\ AnyEnabled(config.frontend.binds)
        /\ \A d \in config.routes : d.enabled /\ d.backend # None => BackendUp(d.backend)
    BY <2>1, <2>2, <2>3, NoWarning
  <2>6. \E k \in DOMAIN Frontend : Frontend[k].kind = "bind"
    <3>1. [kind |-> "bind"] \in Range(BindPart)
      BY <2>2, <2>5, BindFacts
    <3>2. [kind |-> "bind"] \in Range(Frontend)
      BY <2>2, <2>4, <3>1, FrontendRange
    <3> QED
      BY <3>2 DEF Range
  <2>7. /\ \A b : BackendUp(b) =>
             \E s \in DOMAIN file :
               file[s].kind = "backend" /\ file[s].name = b /\ file[s].lines # <<>>
        /\ \A s \in DOMAIN file : file[s].kind = "backend" =>
             /\ file[s].lines # <<>>
             /\ config.backends[file[s].name].cookie =>
                  \A k \in DOMAIN file[s].lines : file[s].lines[k].cookie
    BY <2>1, <2>2, <2>3, BackendServes
  <2>8. ASSUME NEW req \in Requests, \E d \in Covering(req) : HasDestination(d)
        PROVE  /\ Answer(req) # <<None>>
               /\ Answer(req)[1] = "backend" =>
                    \E s \in DOMAIN file : file[s].kind = "backend" /\ file[s].name = Answer(req)[2]
                                            /\ file[s].lines # <<>>
    <3> DEFINE a == Answer(req)
    <3>1. a \in Intended(req)
      BY <2>1, <2>2, <2>4, AnswerIntended
    <3> HIDE DEF a
    <3>2. /\ a # <<None>>
          /\ a[1] = "backend" =>
               BackendUp(a[2]) \/ \E r \in FirstRule("use_backend", req) : a[2] = r.arg
      BY <2>2, <2>5, <2>8, <3>1, QuietAnswers
    <3>3. \A r \in FirstRule("use_backend", req) :
            \E s \in DOMAIN file : file[s].kind = "backend" /\ file[s].name = r.arg
      BY <2>1, <2>2, <2>4, ChosenRule
    <3>4. a[1] = "backend" =>
            \E s \in DOMAIN file : file[s].kind = "backend" /\ file[s].name = a[2]
                                    /\ file[s].lines # <<>>
      BY <2>7, <3>2, <3>3
    <3> QED
      BY <3>2, <3>4 DEF a
  <2> QED
    BY <2>6, <2>7, <2>8 DEF QuietMeansServed
<1> QED
  BY <1>1, InductiveInvariant, PTL

-----------------------------------------------------------------------------
(* The snippets in the file.                                               *)

\* A snippet's line, and its section, tell it apart: they carry its id.
LEMMA SnippetsApart ==
  ASSUME WellFormed(config), NEW k \in DOMAIN config.snippets, NEW m \in DOMAIN config.snippets
  PROVE  /\ SnippetLine(config.snippets[m]) = SnippetLine(config.snippets[k]) => m = k
         /\ OwnSection(config.snippets[m]) = OwnSection(config.snippets[k]) => m = k
<1> DEFINE s == config.snippets[k]  t == config.snippets[m]
<1>1. t.id = s.id => m = k
  BY DEF WellFormed
<1>2. \A r : SnippetLine(r).id = r.id /\ OwnSection(r).name = r.id
  BY DEF SnippetLine, OwnSection, Section
<1> HIDE DEF s, t
<1>3. /\ SnippetLine(t) = SnippetLine(s) => m = k
      /\ OwnSection(t) = OwnSection(s) => m = k
  BY <1>1, <1>2
<1> QED
  BY <1>3 DEF s, t

\* What is written for one snippet only is written once.
LEMMA OfKindOnce ==
  ASSUME WellFormed(config), NEW kind, NEW w, NEW p,
         p = [m \in DOMAIN config.snippets |->
                Opt(config.snippets[m].enabled,
                    Opt(config.snippets[m].section = kind, <<w[m]>>))],
         NEW k \in DOMAIN config.snippets, config.snippets[k].enabled,
         config.snippets[k].section = kind, \A m \in DOMAIN config.snippets : w[m] = w[k] => m = k
  PROVE  Once(FlattenSeq(p), w[k])
<1> DEFINE rows == config.snippets
           g == [m \in DOMAIN rows |-> Opt(rows[m].section = kind, <<w[m]>>)]
<1>1. Sequence(rows)
  BY Tables
<1>2. p = [m \in DOMAIN rows |-> p[m]]
  OBVIOUS
<1>3. \A m \in DOMAIN rows : p[m] = Opt(rows[m].enabled, g[m])
  OBVIOUS
<1>4. ASSUME NEW m \in DOMAIN rows
      PROVE  Sequence(g[m]) /\ \A x \in Range(g[m]) : x = w[m]
  <2> DEFINE b == rows[m].section = kind
             y == w[m]
  <2>1. b \in BOOLEAN /\ g[m] = Opt(b, <<y>>)
    OBVIOUS
  <2> HIDE DEF b, y, g
  <2>2. Sequence(g[m]) /\ \A x : x \in Range(g[m]) <=> b /\ x = y
    BY <2>1, OneOrNone
  <2> QED
    BY <2>2 DEF y
<1>5. g[k] = <<w[k]>>
  BY DEF Opt
<1>6. rows[k].enabled /\ \A m \in DOMAIN rows : w[m] = w[k] => m = k
  OBVIOUS
<1> HIDE DEF g, rows
<1>7. Once(g[k], w[k])
  BY <1>5, OneOnce
<1>8. k \in DOMAIN rows
  BY DEF rows
<1>9. \A m \in DOMAIN rows : m # k => w[k] \notin Range(g[m])
  BY <1>4, <1>6
<1> QED
  BY <1>1, <1>2, <1>3, <1>4, <1>6, <1>7, <1>8, <1>9, WrittenOnce

\* An enabled snippet has one line among those of its kind, and one section of its own.
LEMMA SnippetOnce ==
  ASSUME WellFormed(config), NEW k \in DOMAIN config.snippets, config.snippets[k].enabled
  PROVE  LET s == config.snippets[k] IN
         /\ Once(SnippetLines(s.section), SnippetLine(s))
         /\ Once(OwnSections(s.section), OwnSection(s))
<1> DEFINE rows == config.snippets
           kind == rows[k].section
           v == [m \in DOMAIN rows |-> SnippetLine(rows[m])]
           w == [m \in DOMAIN rows |-> OwnSection(rows[m])]
           p == [m \in DOMAIN rows |->
                   Opt(rows[m].enabled, Opt(rows[m].section = kind, <<SnippetLine(rows[m])>>))]
           q == [m \in DOMAIN rows |->
                   Opt(rows[m].enabled, Opt(rows[m].section = kind, <<OwnSection(rows[m])>>))]
<1>1. SnippetLines(kind) = FlattenSeq(p)
  BY DEF SnippetLines, OfKind, Written
<1>2. OwnSections(kind) = FlattenSeq(q)
  BY DEF OwnSections, OfKind, Written
<1>3. p = [m \in DOMAIN rows |-> Opt(rows[m].enabled, Opt(rows[m].section = kind, <<v[m]>>))]
  OBVIOUS
<1>4. q = [m \in DOMAIN rows |-> Opt(rows[m].enabled, Opt(rows[m].section = kind, <<w[m]>>))]
  OBVIOUS
<1>5. \A m \in DOMAIN rows : (v[m] = v[k] => m = k) /\ (w[m] = w[k] => m = k)
  BY SnippetsApart
<1>6. v[k] = SnippetLine(rows[k]) /\ w[k] = OwnSection(rows[k])
  OBVIOUS
<1> HIDE DEF p, q, v, w
<1>7. Once(FlattenSeq(p), v[k])
  BY <1>3, <1>5, OfKindOnce
<1>8. Once(FlattenSeq(q), w[k])
  BY <1>4, <1>5, OfKindOnce
<1> QED
  BY <1>1, <1>2, <1>6, <1>7, <1>8

\* Its section comes once among several kinds that name its kind once.
LEMMA OrderedOnce ==
  ASSUME WellFormed(config), NEW kinds, Sequence(kinds),
         NEW k \in DOMAIN config.snippets, config.snippets[k].enabled,
         NEW i \in DOMAIN kinds, kinds[i] = config.snippets[k].section,
         \A m \in DOMAIN kinds : kinds[m] = kinds[i] => m = i
  PROVE  Once(InOrder(kinds), OwnSection(config.snippets[k]))
<1> DEFINE p == [m \in DOMAIN kinds |-> OwnSections(kinds[m])]  x == OwnSection(config.snippets[k])
<1>1. InOrder(kinds) = FlattenSeq(p)
  BY DEF InOrder
<1>2. DOMAIN p = DOMAIN kinds /\ p = [m \in DOMAIN kinds |-> p[m]]
  OBVIOUS
<1>3. \A m \in DOMAIN p : p[m] = OwnSections(kinds[m])
  OBVIOUS
<1>4. x.kind = kinds[i]
  BY DEF OwnSection, Section
<1>5. \A r : OwnSection(r).kind = r.section
  BY DEF OwnSection, Section
<1>6. Once(OwnSections(kinds[i]), x)
  BY SnippetOnce
<1> HIDE DEF p, x
<1>7. Sequence(p)
  BY <1>2, SequenceDomain, Listed
<1>8. \A m \in DOMAIN p : Sequence(p[m]) /\ \A y \in Range(p[m]) : y.kind = kinds[m]
  BY <1>3, <1>5, OwnFacts
<1>9. \A m \in DOMAIN p : m # i => x \notin Range(p[m])
  BY <1>2, <1>4, <1>8
<1>10. Once(p[i], x) /\ i \in DOMAIN p
  BY <1>2, <1>3, <1>6
<1>11. Once(FlattenSeq(p), x)
  BY <1>7, <1>8, <1>9, <1>10, FlatOnce
<1> QED
  BY <1>1, <1>11 DEF x

\* Neither list of kinds names a kind twice.
LEMMA NoKindTwice ==
  LET trailing == <<"listen", "raw", "http-errors">> IN
  /\ Sequence(SectionOrder) /\ Sequence(trailing) /\ Range(trailing) = Late
  /\ \A i, m \in DOMAIN SectionOrder : SectionOrder[i] = SectionOrder[m] => i = m
  /\ \A i, m \in DOMAIN trailing : trailing[i] = trailing[m] => i = m
<1> DEFINE trailing == <<"listen", "raw", "http-errors">>  order == SectionOrder
<1>1. /\ DOMAIN order = 1..11 /\ order = [i \in 1..11 |-> order[i]]
      /\ DOMAIN trailing = 1..3 /\ trailing = [i \in 1..3 |-> trailing[i]]
  BY DEF SectionOrder
<1>2. Sequence(order) /\ Sequence(trailing)
  BY <1>1, Listed
<1>3. trailing[1] = "listen" /\ trailing[2] = "raw" /\ trailing[3] = "http-errors"
  OBVIOUS
<1>4. /\ order[1] = "crt-store" /\ order[2] = "resolvers"
      /\ order[3] = "userlist" /\ order[4] = "peers" /\ order[5] = "cache"
      /\ order[6] = "ring" /\ order[7] = "mailers"
      /\ order[8] = "log-forward" /\ order[9] = "program"
      /\ order[10] = "fcgi-app" /\ order[11] = "traces"
  BY DEF SectionOrder
<1> HIDE DEF trailing, order
<1>5. Range(trailing) = Late
  BY <1>1, <1>3 DEF Range, Late
<1>6. \A i, m \in 1..3 : trailing[i] = trailing[m] => i = m
  BY <1>3
<1>7. \A i, m \in 1..11 : order[i] = order[m] => i = m
  BY <1>4
<1> QED
  BY <1>1, <1>2, <1>5, <1>6, <1>7 DEF trailing, order

\* What only one part of the head has, and once, the head has once.
LEMMA HeadOnce ==
  ASSUME WellFormed(config), NEW x
  PROVE  /\ x = RenderGlobal /\ x \notin Range(RenderSectionSnippets)
              /\ x \notin Range(DefaultsPart)
              => Once(Head3, x)
         /\ x # RenderGlobal /\ Once(RenderSectionSnippets, x) /\ x \notin Range(DefaultsPart)
              => Once(Head3, x)
<1> DEFINE a == <<RenderGlobal>>  b == RenderSectionSnippets  c == DefaultsPart  t == a \o b
<1>1. /\ Sequence(a) /\ Sequence(b) /\ Sequence(c)
      /\ Range(a) = {RenderGlobal} /\ Once(a, RenderGlobal)
  BY OneOnce, OwnKinds, DefaultsFacts
<1>2. Head3 = t \o c
  BY DEF Head3
<1> HIDE DEF a, b, c
<1>3. /\ Sequence(t)
      /\ x = RenderGlobal /\ x \notin Range(b) => Once(t, x)
      /\ x # RenderGlobal /\ Once(b, x) => Once(t, x)
  BY <1>1, Joined, JoinedOnce
<1> HIDE DEF t
<1>4. Once(t, x) /\ x \notin Range(c) => Once(t \o c, x)
  BY <1>1, <1>3, JoinedOnce
<1> QED
  BY <1>2, <1>3, <1>4 DEF b, c

\* The kinds of the sections one by one.
LEMMA KindOfSections ==
  ASSUME WellFormed(config)
  PROVE  /\ RenderGlobal.kind = "global"
         /\ \A x \in Range(RenderSectionSnippets) : x.kind \in Range(SectionOrder)
         /\ \A x \in Range(DefaultsPart) : x.kind = "defaults"
         /\ "global" \notin Range(SectionOrder) /\ "defaults" \notin Range(SectionOrder)
<1>1. RenderGlobal.kind = "global" /\ \A d : RenderDefaults(d).kind = "defaults"
  BY DEF RenderGlobal, RenderDefaults, Section
<1>2. \A s : OwnSection(s).kind = s.section
  BY DEF OwnSection, Section
<1>3. \A x \in Range(RenderSectionSnippets) : x.kind \in Range(SectionOrder)
  BY <1>2, OwnKinds
<1>4. \A x \in Range(DefaultsPart) : x.kind = "defaults"
  BY <1>1, DefaultsFacts
<1> QED
  BY <1>1, <1>3, <1>4, OrderKinds

\* The file has one global section, and one section for each enabled snippet that has
\* its own.
LEMMA SectionsOnce ==
  ASSUME WellFormed(config), NEW routes \in ListDomainsByFrontend, NEW backends \in ListBackends
  PROVE  /\ Once(Content(routes, backends), RenderGlobal)
         /\ \A k \in DOMAIN config.snippets :
              /\ config.snippets[k].enabled
              /\ config.snippets[k].section \in Range(SectionOrder) \cup Late
              => Once(Content(routes, backends), OwnSection(config.snippets[k]))
<1> DEFINE y == RenderFrontend(config.frontend, routes)
           c == BackendPart(backends)  d == RenderTrailingSnippets  b == RenderSectionSnippets
           out == Content(routes, backends)
<1>1. /\ \A x \in Range(Head3) : x.kind \in Early
      /\ y.kind = "frontend"
      /\ \A x \in Range(c) : x.kind = "backend"
      /\ \A x \in Range(d) : x.kind \in Late
  BY SectionKinds
<1>2. /\ RenderGlobal.kind = "global"
      /\ \A x \in Range(b) : x.kind \in Range(SectionOrder)
      /\ \A x \in Range(DefaultsPart) : x.kind = "defaults"
      /\ "global" \notin Range(SectionOrder) /\ "defaults" \notin Range(SectionOrder)
  BY KindOfSections
<1>3. \A x : /\ Once(Head3, x) /\ x # y /\ x \notin Range(c) /\ x \notin Range(d) => Once(out, x)
             /\ x \notin Range(Head3) /\ x # y /\ x \notin Range(c) /\ Once(d, x) => Once(out, x)
  BY ContentOnce
<1>4. \A r : OwnSection(r).kind = r.section
  BY DEF OwnSection, Section
<1>5. "global" \in Early /\ \A kind \in Range(SectionOrder) : kind \in Early
  BY DEF Early
<1>6. LET trailing == <<"listen", "raw", "http-errors">> IN
      /\ Sequence(SectionOrder) /\ Sequence(trailing) /\ Range(trailing) = Late
      /\ \A i, m \in DOMAIN SectionOrder : SectionOrder[i] = SectionOrder[m] => i = m
      /\ \A i, m \in DOMAIN trailing : trailing[i] = trailing[m] => i = m
  BY NoKindTwice
<1> DEFINE trailing == <<"listen", "raw", "http-errors">>
<1>7. b = InOrder(SectionOrder) /\ d = InOrder(trailing)
  BY DEF RenderSectionSnippets, RenderTrailingSnippets
<1> HIDE DEF y, c, d, b, out, trailing
<1>8. Once(out, RenderGlobal)
  <2>1. Once(Head3, RenderGlobal)
    BY <1>2, HeadOnce DEF b
  <2>2. RenderGlobal # y /\ RenderGlobal \notin Range(c) /\ RenderGlobal \notin Range(d)
    BY <1>1, <1>2, <1>5, KindsApart
  <2> QED
    BY <1>3, <2>1, <2>2
<1>9. ASSUME NEW k \in DOMAIN config.snippets, config.snippets[k].enabled,
             config.snippets[k].section \in Range(SectionOrder)
      PROVE  Once(out, OwnSection(config.snippets[k]))
  <2> DEFINE x == OwnSection(config.snippets[k])
  <2>1. PICK i \in DOMAIN SectionOrder : SectionOrder[i] = config.snippets[k].section
    BY <1>9 DEF Range
  <2>2. Once(b, x)
    BY <1>6, <1>7, <1>9, <2>1, OrderedOnce
  <2>3. x.kind \in Range(SectionOrder)
    BY <1>4, <1>9
  <2> HIDE DEF x
  <2>4. x # RenderGlobal /\ x \notin Range(DefaultsPart)
    BY <1>2, <2>3
  <2>5. Once(Head3, x)
    BY <2>2, <2>4, HeadOnce DEF b
  <2>6. x # y /\ x \notin Range(c) /\ x \notin Range(d)
    BY <1>1, <1>5, <2>3, KindsApart
  <2>7. Once(out, x)
    BY <1>3, <2>5, <2>6
  <2> QED
    BY <2>7 DEF x
<1>10. ASSUME NEW k \in DOMAIN config.snippets, config.snippets[k].enabled,
              config.snippets[k].section \in Late
       PROVE  Once(out, OwnSection(config.snippets[k]))
  <2> DEFINE x == OwnSection(config.snippets[k])
  <2>1. Sequence(trailing) /\ Range(trailing) = Late
        /\ \A i, m \in DOMAIN trailing : trailing[i] = trailing[m] => i = m
    BY <1>6 DEF trailing
  <2>2. PICK i \in DOMAIN trailing : trailing[i] = config.snippets[k].section
    BY <1>10, <2>1 DEF Range
  <2>3. Once(d, x)
    BY <1>7, <1>10, <2>1, <2>2, OrderedOnce
  <2>4. x.kind \in Late
    BY <1>4, <1>10
  <2> HIDE DEF x
  <2>5. x \notin Range(Head3) /\ x # y /\ x \notin Range(c)
    BY <1>1, <2>4, KindsApart
  <2>6. Once(out, x)
    BY <1>3, <2>3, <2>5
  <2> QED
    BY <2>6 DEF x
<1> QED
  BY <1>8, <1>9, <1>10 DEF out

\* The head comes first: a section of its kinds stands before the proxies.
LEMMA HeadFirst ==
  ASSUME WellFormed(config), NEW routes \in ListDomainsByFrontend, NEW backends \in ListBackends,
         file = Content(routes, backends)
  PROVE  /\ Len(Head3) \in Nat
         /\ \A i \in DOMAIN Head3 : i \in DOMAIN file /\ file[i] = Head3[i]
         /\ \A i \in DOMAIN file : file[i].kind \in Early => i \in DOMAIN Head3
         /\ \A i, q \in DOMAIN file :
              file[i].kind \in Early /\ file[q].kind \in {"frontend", "backend"} => i < q
<1> DEFINE y == RenderFrontend(config.frontend, routes)
           a == Head3  b == <<y>>  c == BackendPart(backends)  d == RenderTrailingSnippets
           t == a \o b  u == t \o c
<1>1. Sequence(a) /\ Sequence(b) /\ Sequence(c) /\ Sequence(d) /\ Range(b) = {y}
  BY OneOnce, OwnKinds, HeadRange, BackendFacts
<1>2. file = u \o d
  BY ContentParts
<1>3. /\ \A x \in Range(a) : x.kind \in Early
      /\ y.kind = "frontend"
      /\ \A x \in Range(c) : x.kind = "backend"
      /\ \A x \in Range(d) : x.kind \in Late
  BY SectionKinds
<1> HIDE DEF a, b, c, d, y
<1>4. Sequence(t) /\ Len(t) = Len(a) + Len(b) /\ \A i \in 1..Len(a) : t[i] = a[i]
  BY <1>1, Joined
<1>5. \A i \in DOMAIN t : (i \in DOMAIN a /\ t[i] = a[i]) \/ t[i] \in Range(b)
  BY <1>1, JoinedIndex DEF Range
<1> HIDE DEF t
<1>6. Sequence(u) /\ Len(u) = Len(t) + Len(c) /\ \A i \in 1..Len(t) : u[i] = t[i]
  BY <1>1, <1>4, Joined
<1>7. \A i \in DOMAIN u : (i \in DOMAIN t /\ u[i] = t[i]) \/ u[i] \in Range(c)
  BY <1>1, <1>4, JoinedIndex DEF Range
<1> HIDE DEF u
<1>8. Sequence(file) /\ Len(file) = Len(u) + Len(d) /\ \A i \in 1..Len(u) : file[i] = u[i]
  <2>1. /\ Sequence(u \o d) /\ Len(u \o d) = Len(u) + Len(d)
        /\ \A i \in 1..Len(u) : (u \o d)[i] = u[i]
    BY <1>1, <1>6, Joined
  <2> QED
    BY <1>2, <2>1
<1>9. \A i \in DOMAIN file : (i \in DOMAIN u /\ file[i] = u[i]) \/ file[i] \in Range(d)
  BY <1>1, <1>2, <1>6, JoinedIndex DEF Range
<1>10. /\ Len(a) \in Nat /\ DOMAIN a = 1..Len(a) /\ Len(b) \in Nat /\ Len(c) \in Nat
       /\ Len(d) \in Nat /\ DOMAIN file = 1..Len(file)
  BY <1>1, <1>8, SequenceDomain
<1>11. \A i \in DOMAIN a : i \in DOMAIN file /\ file[i] = a[i]
  <2> DEFINE n1 == Len(a)  n2 == Len(b)  n3 == Len(c)  n4 == Len(d)
  <2>1. n1 \in Nat /\ n2 \in Nat /\ n3 \in Nat /\ n4 \in Nat
    BY <1>10
  <2>2. Len(t) = n1 + n2 /\ Len(u) = n1 + n2 + n3 /\ Len(file) = n1 + n2 + n3 + n4
    BY <1>4, <1>6, <1>8
  <2>3. DOMAIN a = 1..n1
    BY <1>10
  <2> HIDE DEF n1, n2, n3, n4
  <2>4. \A i \in DOMAIN a : i \in 1..Len(t) /\ i \in 1..Len(u) /\ i \in 1..Len(file)
    BY <2>1, <2>2, <2>3
  <2> QED
    BY <1>4, <1>6, <1>8, <1>10, <2>4
<1>12. \A i \in DOMAIN file :
         (i \in DOMAIN a /\ file[i] = a[i]) \/ file[i].kind \in {"frontend", "backend"} \cup Late
  BY <1>1, <1>3, <1>5, <1>7, <1>9
<1>13. \A i \in DOMAIN a : a[i].kind \in Early
  BY <1>3 DEF Range
<1>14. ASSUME NEW i \in DOMAIN file, file[i].kind \in Early
       PROVE  i \in DOMAIN a
  BY <1>12, <1>14, KindsApart
<1>15. ASSUME NEW i \in DOMAIN file, NEW q \in DOMAIN file, file[i].kind \in Early,
              file[q].kind \in {"frontend", "backend"}
       PROVE  i < q
  <2>1. i \in DOMAIN a
    BY <1>14, <1>15
  <2>2. q \notin DOMAIN a
    BY <1>11, <1>13, <1>15, KindsApart
  <2> QED
    BY <1>10, <2>1, <2>2
<1> QED
  BY <1>10, <1>11, <1>14, <1>15 DEF a

\* The enabled rows of the table defaults and the defaults sections of the file are in
\* bijection.
LEMMA DefaultsPlaces ==
  ASSUME WellFormed(config), NEW routes \in ListDomainsByFrontend, NEW backends \in ListBackends,
         file = Content(routes, backends)
  PROVE  LET E == {k \in DOMAIN config.defaults : config.defaults[k].enabled} IN
         \E g : /\ \A k \in E : /\ g[k] \in DOMAIN file /\ file[g[k]].kind = "defaults"
                                /\ file[g[k]].lines = SnippetLines("defaults-extra")
                /\ \A k, m \in E : g[k] = g[m] => k = m
                /\ \A i \in DOMAIN file : file[i].kind = "defaults" => \E k \in E : g[k] = i
<1> DEFINE rows == config.defaults
           E == {k \in DOMAIN rows : rows[k].enabled}
           p == [k \in DOMAIN rows |-> Opt(rows[k].enabled, <<RenderDefaults(rows[k])>>)]
           a == <<RenderGlobal>>  b == RenderSectionSnippets  t == a \o b  c == DefaultsPart
           n == Len(t)
<1>1. c = FlattenSeq(p) /\ Head3 = t \o c
  BY DEF DefaultsPart, Written, Head3
<1>2. Sequence(rows)
  BY Tables
<1>3. /\ \A d : RenderDefaults(d).kind = "defaults"
      /\ \A d : RenderDefaults(d).lines = SnippetLines("defaults-extra")
  BY DEF RenderDefaults, Section
<1>4. DOMAIN rows \subseteq Nat /\ E \subseteq DOMAIN rows
  BY <1>2, SequenceDomain
<1>5. DOMAIN p = DOMAIN rows /\ p = [k \in DOMAIN rows |-> p[k]]
  OBVIOUS
<1>6. \A k \in E : p[k] = <<RenderDefaults(rows[k])>>
  BY DEF Opt
<1>7. \A k \in DOMAIN rows : k \notin E => p[k] = <<>>
  BY DEF Opt
<1>8. Sequence(a) /\ Sequence(b) /\ Sequence(c) /\ Range(a) = {RenderGlobal}
  BY OneOnce, OwnKinds, DefaultsFacts
<1> HIDE DEF a, b, c, p, E, rows
<1>9. Sequence(t) /\ Range(t) = Range(a) \cup Range(b)
  BY <1>8, Joined, JoinedRange
<1> HIDE DEF t
<1>10. n \in Nat /\ Len(c) \in Nat /\ DOMAIN c = 1..Len(c) /\ DOMAIN Head3 = 1..Len(Head3)
  BY <1>8, <1>9, SequenceDomain, HeadRange
<1>11. Len(Head3) = n + Len(c) /\ \A i \in DOMAIN c : Head3[n + i] = c[i]
  BY <1>1, <1>8, <1>9, <1>10, Joined
<1>12. \A i \in DOMAIN Head3 : Head3[i] \in Range(t) \/ \E j \in DOMAIN c : i = n + j
  BY <1>1, <1>8, <1>9, JoinedIndex DEF Range
<1> HIDE DEF n
<1>13. \A i \in DOMAIN c : n + i \in DOMAIN Head3
  BY <1>10, <1>11
<1>14. /\ \A i \in DOMAIN Head3 : i \in DOMAIN file /\ file[i] = Head3[i]
       /\ \A i \in DOMAIN file : file[i].kind \in Early => i \in DOMAIN Head3
  BY HeadFirst
<1>15. \A x \in Range(t) : x.kind # "defaults"
  BY <1>8, <1>9, KindOfSections DEF b
<1>16. \A k \in E : DOMAIN p[k] = {1} /\ p[k][1] = RenderDefaults(rows[k]) /\ Len(p[k]) = 1
  BY <1>6, OneElement
<1>17. Sequence(p) /\ \A k \in DOMAIN p : Sequence(p[k])
  <2>1. Sequence(p)
    BY <1>2, <1>5, SequenceDomain, Listed
  <2>2. ASSUME NEW k \in DOMAIN p
        PROVE  Sequence(p[k])
    <3>1. CASE k \in E
      <4>1. p[k] = <<RenderDefaults(rows[k])>>
        BY <1>6, <3>1
      <4> QED
        BY <4>1, OneElement
    <3>2. CASE k \notin E
      BY <1>5, <1>7, <3>2, NoElement
    <3> QED
      BY <3>1, <3>2
  <2> QED
    BY <2>1, <2>2
<1>18. PICK at : Placed(p, c, at)
  BY <1>1, <1>17, Places
<1>19. /\ \A k \in DOMAIN p : at[k] \in Nat
       /\ \A k \in DOMAIN p : \A j \in DOMAIN p[k] :
            at[k] + j \in DOMAIN c /\ c[at[k] + j] = p[k][j]
       /\ \A k, m \in DOMAIN p : k < m => at[k] + Len(p[k]) <= at[m]
       /\ \A i \in DOMAIN c : \E k \in DOMAIN p : \E j \in DOMAIN p[k] : i = at[k] + j
  BY <1>18 DEF Placed
<1> DEFINE g == [k \in E |-> n + (at[k] + 1)]
<1>20. ASSUME NEW k \in E
       PROVE  /\ g[k] \in DOMAIN file /\ file[g[k]].kind = "defaults"
              /\ file[g[k]].lines = SnippetLines("defaults-extra")
  <2>1. k \in DOMAIN p /\ 1 \in DOMAIN p[k]
    BY <1>4, <1>5, <1>16
  <2>2. at[k] + 1 \in DOMAIN c /\ c[at[k] + 1] = RenderDefaults(rows[k])
    BY <1>16, <1>19, <2>1
  <2>3. n + (at[k] + 1) \in DOMAIN file /\ file[n + (at[k] + 1)] = RenderDefaults(rows[k])
    BY <1>11, <1>13, <1>14, <2>2
  <2> QED
    BY <1>3, <2>3
<1>21. ASSUME NEW k \in E, NEW m \in E, g[k] = g[m]
       PROVE  k = m
  <2>1. /\ k \in Nat /\ m \in Nat /\ at[k] \in Nat /\ at[m] \in Nat
        /\ k \in DOMAIN p /\ m \in DOMAIN p
    BY <1>4, <1>5, <1>19
  <2>2. at[k] = at[m]
    BY <1>10, <1>21, <2>1
  <2>3. k < m => at[k] + 1 <= at[m]
    BY <1>16, <1>19, <2>1
  <2>4. m < k => at[m] + 1 <= at[k]
    BY <1>16, <1>19, <2>1
  <2> QED
    BY <2>1, <2>2, <2>3, <2>4
<1>22. ASSUME NEW i \in DOMAIN file, file[i].kind = "defaults"
       PROVE  \E k \in E : g[k] = i
  <2>1. i \in DOMAIN Head3 /\ Head3[i].kind = "defaults"
    BY <1>14, <1>22 DEF Early
  <2>2. PICK j \in DOMAIN c : i = n + j
    BY <1>12, <1>15, <2>1
  <2>3. PICK k \in DOMAIN p : \E q \in DOMAIN p[k] : j = at[k] + q
    BY <1>19
  <2>4. PICK q \in DOMAIN p[k] : j = at[k] + q
    BY <2>3
  <2>5. k \in E
    BY <1>5, <1>7, <2>4, NoElement
  <2>6. q = 1
    BY <1>16, <2>4, <2>5
  <2>7. g[k] = i
    BY <2>2, <2>4, <2>5, <2>6
  <2> QED
    BY <2>5, <2>7
<1> HIDE DEF g
<1> QED
  BY <1>20, <1>21, <1>22 DEF E, rows

\* No line of the proxies is a snippet's.
LEMMA ProxiesApart ==
  ASSUME WellFormed(config), NEW routes \in ListDomainsByFrontend, NEW s
  PROVE  /\ SnippetLine(s) \notin Range(RenderFrontend(config.frontend, routes).lines)
         /\ \A b : BackendUp(b) => SnippetLine(s) \notin Range(RenderBackend(b).lines)
<1>1. SnippetLine(s).kind = "snippet"
  BY DEF SnippetLine
<1>2. RenderFrontend(config.frontend, routes).lines = FrontendLines(routes)
  BY FrontendSection
<1> DEFINE x == SnippetLine(s)
<1>3. x \notin Range(FrontendLines(routes))
  <2> HIDE DEF x
  <2>1. /\ \A l \in Range(BindPart) : l.kind = "bind"
        /\ \A l \in Range(LimitPart) : l.kind = "http-request"
        /\ \A l \in Range(AclPart(routes)) : l.kind = "acl"
        /\ \A l \in Range(ForcePart) : l.kind = "http-request"
        /\ \A l \in Range(RedirectPart(routes)) : l.kind = "http-request"
        /\ \A l \in Range(RulePart) : l.kind \in {"http-request", "use_backend"}
        /\ \A l \in Range(UsePart(routes)) : l.kind = "use_backend"
        /\ \A l \in Range(DefaultPart) : l.kind = "default_backend"
    BY LineKinds
  <2>2. x \in Range(FrontendLines(routes)) <=>
          \/ x \in Range(BindPart) \/ x \in Range(LimitPart) \/ x \in Range(AclPart(routes))
          \/ x \in Range(ForcePart) \/ x \in Range(RedirectPart(routes)) \/ x \in Range(RulePart)
          \/ x \in Range(UsePart(routes)) \/ x \in Range(DefaultPart)
    BY FrontendRange
  <2>3. x.kind = "snippet"
    BY <1>1 DEF x
  <2> QED
    BY <2>1, <2>2, <2>3
<1>4. ASSUME NEW b, BackendUp(b)
      PROVE  x \notin Range(RenderBackend(b).lines)
  <2>1. b \in DOMAIN config.backends
    BY <1>4 DEF BackendUp
  <2>2. \A bk, sv : ServerLine(bk, sv).kind = "server"
    BY DEF ServerLine
  <2> HIDE DEF x
  <2>3. \A l \in Range(RenderBackend(b).lines) : l.kind = "server"
    BY <2>1, <2>2, BackendLines
  <2>4. x.kind = "snippet"
    BY <1>1 DEF x
  <2> QED
    BY <2>3, <2>4
<1> QED
  BY <1>2, <1>3, <1>4 DEF x

\* Where a snippet's line can be: in the section of its kind, if it is enabled.
LEMMA WhereLines ==
  ASSUME WellFormed(config), NEW routes \in ListDomainsByFrontend, NEW backends \in ListBackends,
         NEW k \in DOMAIN config.snippets, NEW x \in Range(Content(routes, backends)),
         SnippetLine(config.snippets[k]) \in Range(x.lines)
  PROVE  LET s == config.snippets[k] IN
         /\ s.enabled
         /\ \/ s.section = "global-extra" /\ x = RenderGlobal
            \/ s.section = "defaults-extra" /\ x.kind = "defaults"
            \/ s.section \in Range(SectionOrder) \cup Late /\ x = OwnSection(s)
<1> DEFINE rows == config.snippets  s == rows[k]  line == SnippetLine(s)
<1>1. \/ x = RenderGlobal \/ x \in Range(RenderSectionSnippets) \/ x \in Range(DefaultsPart)
      \/ x = RenderFrontend(config.frontend, routes)
      \/ x \in Range(BackendPart(backends)) \/ x \in Range(RenderTrailingSnippets)
  BY ContentRange, HeadRange
<1>2. \A m \in DOMAIN rows : SnippetLine(rows[m]) = line => m = k
  BY SnippetsApart
<1>3. /\ RenderGlobal.lines = SnippetLines("global-extra")
      /\ \A d : RenderDefaults(d).lines = SnippetLines("defaults-extra")
  BY DEF RenderGlobal, RenderDefaults, Section
<1>4. \A kind : line \in Range(SnippetLines(kind)) => s.enabled /\ s.section = kind
  <2>1. ASSUME NEW kind, line \in Range(SnippetLines(kind))
        PROVE  s.enabled /\ s.section = kind
    <3>1. PICK m \in DOMAIN rows : rows[m].enabled /\ rows[m].section = kind
                                   /\ line = SnippetLine(rows[m])
      BY <2>1, LineFacts
    <3>2. m = k
      BY <1>2, <3>1
    <3> QED
      BY <3>1, <3>2
  <2> QED
    BY <2>1
<1>5. \A m \in DOMAIN rows : line \in Range(OwnSection(rows[m]).lines) => m = k
  <2>1. \A r : OwnSection(r).lines = <<SnippetLine(r)>>
    BY DEF OwnSection, Section
  <2>2. \A y : Range(<<y>>) = {y}
    BY OneOnce
  <2>3. ASSUME NEW m \in DOMAIN rows, line \in Range(OwnSection(rows[m]).lines)
        PROVE  m = k
    <3>1. Range(OwnSection(rows[m]).lines) = {SnippetLine(rows[m])}
      BY <2>1, <2>2
    <3>2. SnippetLine(rows[m]) = line
      BY <2>3, <3>1
    <3> QED
      BY <1>2, <3>2
  <2> QED
    BY <2>3
<1>6. line \in Range(x.lines)
  OBVIOUS
<1> HIDE DEF line
<1>7. CASE x = RenderGlobal
  BY <1>3, <1>4, <1>6, <1>7
<1>8. CASE x \in Range(DefaultsPart)
  <2>1. \E d : x = RenderDefaults(d)
    BY <1>8, DefaultsFacts
  <2>2. x.kind = "defaults"
    BY <1>8, KindOfSections
  <2>3. line \in Range(SnippetLines("defaults-extra"))
    BY <1>3, <1>6, <2>1
  <2> QED
    BY <1>4, <2>2, <2>3
<1>9. CASE x \in Range(RenderSectionSnippets) \/ x \in Range(RenderTrailingSnippets)
  <2>1. \E m \in DOMAIN rows : /\ rows[m].enabled
                               /\ rows[m].section \in Range(SectionOrder) \cup Late
                               /\ x = OwnSection(rows[m])
    BY <1>9, OwnKinds DEF Late
  <2>2. PICK m \in DOMAIN rows : /\ rows[m].enabled
                                 /\ rows[m].section \in Range(SectionOrder) \cup Late
                                 /\ x = OwnSection(rows[m])
    BY <2>1
  <2>3. m = k
    BY <1>5, <1>6, <2>2
  <2> QED
    BY <2>2, <2>3
<1>10. CASE x = RenderFrontend(config.frontend, routes)
  BY <1>6, <1>10, ProxiesApart DEF line
<1>11. CASE x \in Range(BackendPart(backends))
  <2>1. \E b : BackendUp(b) /\ x = RenderBackend(b)
    BY <1>11, BackendFacts
  <2> QED
    BY <1>6, <2>1, ProxiesApart DEF line
<1> QED
  BY <1>1, <1>7, <1>8, <1>9, <1>10, <1>11

\* Where a snippet appears, spelled out.
LEMMA AppearsAt ==
  ASSUME NEW s, NEW p
  PROVE  p \in Appears(s) <=>
           \E k \in DOMAIN file : \E j \in DOMAIN file[k].lines :
             p = <<k, j>> /\ file[k].lines[j] = SnippetLine(s)
BY DEF Appears

\* A line that one section has, once, appears once.
LEMMA OneAppearance ==
  ASSUME NEW s, NEW x, Once(file, x), Once(x.lines, SnippetLine(s)),
         \A y \in Range(file) : SnippetLine(s) \in Range(y.lines) => y = x
  PROVE  Cardinality(Appears(s)) = 1
<1> DEFINE line == SnippetLine(s)
<1>1. PICK i \in DOMAIN file : \A j \in DOMAIN file : file[j] = x <=> j = i
  BY DEF Once
<1>2. PICK n \in DOMAIN x.lines : \A j \in DOMAIN x.lines : x.lines[j] = line <=> j = n
  BY DEF Once
<1>3. file[i] = x /\ x.lines[n] = line
  BY <1>1, <1>2
<1>4. \A k \in DOMAIN file : \A j \in DOMAIN file[k].lines :
        file[k].lines[j] = line => k = i /\ j = n
  <2>1. ASSUME NEW k \in DOMAIN file, NEW j \in DOMAIN file[k].lines, file[k].lines[j] = line
        PROVE  k = i /\ j = n
    <3>1. file[k] \in Range(file) /\ line \in Range(file[k].lines)
      BY <2>1 DEF Range
    <3>2. file[k] = x
      BY <3>1
    <3> QED
      BY <1>1, <1>2, <2>1, <3>2
  <2> QED
    BY <2>1
<1> HIDE DEF line
<1>5. \A p : p \in Appears(s) <=> p = <<i, n>>
  <2>1. ASSUME NEW p
        PROVE  p \in Appears(s) <=> p = <<i, n>>
    <3>1. p \in Appears(s) <=>
            \E k \in DOMAIN file : \E j \in DOMAIN file[k].lines :
              p = <<k, j>> /\ file[k].lines[j] = line
      BY AppearsAt DEF line
    <3> QED
      BY <1>2, <1>3, <1>4, <3>1
  <2> QED
    BY <2>1
<1>6. Appears(s) = {<<i, n>>}
  BY <1>5
<1> QED
  BY <1>6, FS_Singleton

\* A line that every defaults section has, once, and no other section, appears as often
\* as there are enabled rows of defaults.
LEMMA DefaultsAppearance ==
  ASSUME WellFormed(config), NEW routes \in ListDomainsByFrontend, NEW backends \in ListBackends,
         file = Content(routes, backends), NEW s,
         Once(SnippetLines("defaults-extra"), SnippetLine(s)),
         \A y \in Range(file) : SnippetLine(s) \in Range(y.lines) => y.kind = "defaults"
  PROVE  Cardinality(Appears(s)) =
           Cardinality({k \in DOMAIN config.defaults : config.defaults[k].enabled})
<1> DEFINE E == {k \in DOMAIN config.defaults : config.defaults[k].enabled}
           line == SnippetLine(s)  lines == SnippetLines("defaults-extra")
<1>1. PICK g : /\ \A k \in E : /\ g[k] \in DOMAIN file /\ file[g[k]].kind = "defaults"
                               /\ file[g[k]].lines = lines
               /\ \A k, m \in E : g[k] = g[m] => k = m
               /\ \A i \in DOMAIN file : file[i].kind = "defaults" => \E k \in E : g[k] = i
  BY DefaultsPlaces
<1>2. PICK n \in DOMAIN lines : \A j \in DOMAIN lines : lines[j] = line <=> j = n
  BY DEF Once
<1>3. IsFiniteSet(E)
  <2>1. Len(config.defaults) \in Nat /\ DOMAIN config.defaults = 1..Len(config.defaults)
    BY Tables, SequenceDomain
  <2>2. IsFiniteSet(DOMAIN config.defaults)
    BY <2>1, FS_Interval
  <2> QED
    BY <2>2, FS_Subset
<1> DEFINE h == [k \in E |-> <<g[k], n>>]  T == Appears(s)
<1>4. \A y \in Range(file) : line \in Range(y.lines) => y.kind = "defaults"
  OBVIOUS
<1>5. \A p : p \in T <=>
        \E k \in DOMAIN file : \E j \in DOMAIN file[k].lines :
          p = <<k, j>> /\ file[k].lines[j] = line
  BY AppearsAt
<1> HIDE DEF E, line, lines, T
<1>6. ASSUME NEW k \in E
      PROVE  h[k] \in T
  <2>1. h[k] = <<g[k], n>> /\ g[k] \in DOMAIN file /\ file[g[k]].lines = lines
    BY <1>1
  <2>2. n \in DOMAIN file[g[k]].lines /\ file[g[k]].lines[n] = line
    BY <1>2, <2>1
  <2> QED
    BY <1>5, <2>1, <2>2
<1>7. ASSUME NEW p \in T
      PROVE  \E k \in E : h[k] = p
  <2>1. PICK i \in DOMAIN file : \E j \in DOMAIN file[i].lines :
          p = <<i, j>> /\ file[i].lines[j] = line
    BY <1>5
  <2>2. PICK j \in DOMAIN file[i].lines : p = <<i, j>> /\ file[i].lines[j] = line
    BY <2>1
  <2>3. file[i] \in Range(file) /\ line \in Range(file[i].lines)
    BY <2>2 DEF Range
  <2>4. PICK k \in E : g[k] = i
    BY <1>1, <1>4, <2>3
  <2>5. file[i].lines = lines
    BY <1>1, <2>4
  <2>6. j = n
    BY <1>2, <2>2, <2>5
  <2>7. h[k] = p
    BY <2>2, <2>4, <2>6
  <2> QED
    BY <2>7
<1>8. ASSUME NEW k \in E, NEW m \in E, h[k] = h[m]
      PROVE  k = m
  <2>1. g[k] = g[m]
    BY <1>8
  <2> QED
    BY <1>1, <2>1
<1>9. h \in [E -> T]
  <2>1. \A k \in E : <<g[k], n>> \in T
    BY <1>6
  <2> QED
    BY <2>1
<1> HIDE DEF h
<1>10. h \in Injection(E, T)
  BY <1>8, <1>9 DEF Injection, IsInjective
<1>11. h \in Surjection(E, T)
  BY <1>7, <1>9 DEF Surjection
<1>12. ExistsBijection(E, T)
  BY <1>10, <1>11 DEF ExistsBijection, Bijection
<1>13. Cardinality(T) = Cardinality(E)
  BY <1>3, <1>12, FS_Bijection
<1> QED
  BY <1>13 DEF T, E

\* A snippet is written as often as it should be.
LEMMA AppearsInTimes ==
  ASSUME WellFormed(config), NEW routes \in ListDomainsByFrontend, NEW backends \in ListBackends,
         file = Content(routes, backends), NEW k \in DOMAIN config.snippets
  PROVE  Cardinality(Appears(config.snippets[k])) = Times(config.snippets[k])
<1> DEFINE s == config.snippets[k]  line == SnippetLine(s)
<1>1. \A x \in Range(file) : line \in Range(x.lines) =>
        /\ s.enabled
        /\ \/ s.section = "global-extra" /\ x = RenderGlobal
           \/ s.section = "defaults-extra" /\ x.kind = "defaults"
           \/ s.section \in Range(SectionOrder) \cup Late /\ x = OwnSection(s)
  BY WhereLines
<1>2. s.section \in SectionTypes
  <2>1. config.snippets \in Seq(Snippet)
    BY DEF WellFormed
  <2>2. s \in Snippet
    BY <2>1, ElementOfSeq, LenProperties
  <2> QED
    BY <2>2 DEF Snippet
<1>3. /\ "global-extra" \notin Range(SectionOrder) \cup Late
      /\ "defaults-extra" \notin Range(SectionOrder) \cup Late
  BY OrderKinds DEF Late
<1>4. \/ s.section = "global-extra" \/ s.section = "defaults-extra"
      \/ s.section \in Range(SectionOrder) \cup Late
  <2>1. \A kind \in SectionTypes :
          \/ kind = "global-extra" \/ kind = "defaults-extra"
          \/ kind \in Range(SectionOrder) \cup Late
    BY OrderKinds DEF SectionTypes, Late
  <2> QED
    BY <1>2, <2>1
<1>5. /\ Once(file, RenderGlobal)
      /\ s.enabled /\ s.section \in Range(SectionOrder) \cup Late => Once(file, OwnSection(s))
  BY SectionsOnce
<1>6. s.enabled => Once(SnippetLines(s.section), line)
  BY SnippetOnce
<1>7. CASE ~s.enabled
  <2>1. ASSUME NEW p \in Appears(s)
        PROVE  FALSE
    <3>1. PICK i \in DOMAIN file : \E j \in DOMAIN file[i].lines : file[i].lines[j] = line
      BY AppearsAt
    <3>2. file[i] \in Range(file) /\ line \in Range(file[i].lines)
      BY <3>1 DEF Range
    <3> QED
      BY <1>1, <1>7, <3>2
  <2>2. Appears(s) = {}
    BY <2>1
  <2>3. Times(s) = 0
    BY <1>7 DEF Times
  <2> QED
    BY <2>2, <2>3, FS_EmptySet
<1>8. CASE s.enabled /\ s.section = "defaults-extra"
  <2>1. Once(SnippetLines("defaults-extra"), line)
    BY <1>6, <1>8
  <2>2. \A x \in Range(file) : line \in Range(x.lines) => x.kind = "defaults"
    BY <1>1, <1>3, <1>8
  <2>3. Times(s) = Cardinality({m \in DOMAIN config.defaults : config.defaults[m].enabled})
    BY <1>8 DEF Times
  <2> QED
    BY <2>1, <2>2, <2>3, DefaultsAppearance
<1>9. CASE s.enabled /\ s.section = "global-extra"
  <2>1. RenderGlobal.lines = SnippetLines("global-extra")
    BY DEF RenderGlobal, Section
  <2>2. Once(RenderGlobal.lines, line)
    BY <1>6, <1>9, <2>1
  <2>3. \A x \in Range(file) : line \in Range(x.lines) => x = RenderGlobal
    BY <1>1, <1>3, <1>9
  <2>4. Times(s) = 1
    BY <1>9 DEF Times
  <2> QED
    BY <1>5, <2>2, <2>3, <2>4, OneAppearance
<1>10. CASE s.enabled /\ s.section \in Range(SectionOrder) \cup Late
  <2>1. OwnSection(s).lines = <<line>>
    BY DEF OwnSection, Section
  <2>2. Once(OwnSection(s).lines, line)
    BY <2>1, OneOnce
  <2>3. \A x \in Range(file) : line \in Range(x.lines) => x = OwnSection(s)
    BY <1>1, <1>3, <1>10
  <2>4. Times(s) = 1
    BY <1>3, <1>10 DEF Times
  <2>5. Once(file, OwnSection(s))
    BY <1>5, <1>10
  <2> QED
    BY <2>2, <2>3, <2>4, <2>5, OneAppearance
<1> QED
  BY <1>4, <1>7, <1>8, <1>9, <1>10

\* The operator's snippets end up where the panel says, for every database: each enabled
\* one once in a section of its kind, and what the proxies reference before them.
THEOREM SnippetsPlaced == Spec => []SnippetsInPlace
<1>1. Rendered => SnippetsInPlace
  <2>1. SUFFICES ASSUME Rendered, file # <<>>, NEW k \in DOMAIN config.snippets
                 PROVE  LET s == config.snippets[k] IN
                        /\ Cardinality(Appears(s)) = Times(s)
                        /\ \A p \in Appears(s) :
                             /\ file[p[1]].kind = Home(s)
                             /\ s.section \notin {"listen", "raw", "http-errors"} =>
                                  \A q \in DOMAIN file :
                                    file[q].kind \in {"frontend", "backend"} => p[1] < q
    BY DEF SnippetsInPlace
  <2>2. WellFormed(config)
    BY <2>1, Loaded
  <2>3. PICK routes \in ListDomainsByFrontend, backends \in ListBackends :
          file = Content(routes, backends) /\ warnings = Warnings(routes, backends)
    BY <2>1, Loaded
  <2> DEFINE s == config.snippets[k]
  <2>4. Cardinality(Appears(s)) = Times(s)
    BY <2>2, <2>3, AppearsInTimes
  <2>5. ASSUME NEW p \in Appears(s)
        PROVE  /\ file[p[1]].kind = Home(s)
               /\ s.section \notin {"listen", "raw", "http-errors"} =>
                    \A q \in DOMAIN file : file[q].kind \in {"frontend", "backend"} => p[1] < q
    <3>1. PICK i \in DOMAIN file : \E j \in DOMAIN file[i].lines :
            p = <<i, j>> /\ file[i].lines[j] = SnippetLine(s)
      BY AppearsAt
    <3>2. p[1] = i
      BY <3>1
    <3>3. file[i] \in Range(file) /\ SnippetLine(s) \in Range(file[i].lines)
      BY <3>1 DEF Range
    <3>4. \/ s.section = "global-extra" /\ file[i] = RenderGlobal
          \/ s.section = "defaults-extra" /\ file[i].kind = "defaults"
          \/ s.section \in Range(SectionOrder) \cup Late /\ file[i] = OwnSection(s)
      BY <2>2, <2>3, <3>3, WhereLines
    <3>5. RenderGlobal.kind = "global" /\ OwnSection(s).kind = s.section
      BY DEF RenderGlobal, OwnSection, Section
    <3>6. /\ "global-extra" \notin Range(SectionOrder) \cup Late
          /\ "defaults-extra" \notin Range(SectionOrder) \cup Late
      BY OrderKinds DEF Late
    <3>7. file[i].kind = Home(s)
      BY <3>4, <3>5, <3>6 DEF Home
    <3>8. s.section \notin Late => file[i].kind \in Early
      BY <3>4, <3>5 DEF Early
    <3>9. \A q \in DOMAIN file :
            file[i].kind \in Early /\ file[q].kind \in {"frontend", "backend"} => i < q
      BY <2>2, <2>3, HeadFirst
    <3> QED
      BY <3>2, <3>7, <3>8, <3>9 DEF Late
  <2> QED
    BY <2>4, <2>5
<1> QED
  BY <1>1, InductiveInvariant, PTL
=============================================================================
