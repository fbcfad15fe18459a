-------------------------- MODULE EnumerationProofs --------------------------
(***************************************************************************)
(* What Ascending gives, for every finite set of natural numbers, what     *)
(* SetToSeq gives, for every finite set, and what becomes of a queue.      *)
(***************************************************************************)
EXTENDS Enumeration, Sequences, SequencesExt, TLAPS, FiniteSetTheorems,
        SequenceTheorems, WellFoundedInduction

-----------------------------------------------------------------------------
(* Enumerations                                                            *)

(* Of finite sets of numbers with a property, one has it and no smaller one. *)
LEMMA SmallestSet ==
    ASSUME NEW T, \A S \in T : S \subseteq Nat /\ IsFiniteSet(S), T # {}
    PROVE  \E S \in T : \A m \in S : S \ {m} \notin T
<1> DEFINE R == StrictSubsetOrdering(Nat)
           F == FiniteSubsetsOf(Nat)
<1>1. IsWellFoundedOn(R, F)
  BY FS_StrictSubsetOrderingWellFounded
<1>2. T \subseteq F
  BY DEF FiniteSubsetsOf
<1> HIDE DEF R, F
<1>3. PICK S \in T : \A U \in T : ~ (<<U, S>> \in R)
  BY <1>1, <1>2, WFMin
<1>4. ASSUME NEW m \in S, S \ {m} \in T PROVE FALSE
  <2>1. <<S \ {m}, S>> \in R
    BY <1>4 DEF R, StrictSubsetOrdering
  <2>2. QED
    BY <1>3, <1>4, <2>1
<1>5. QED
  BY <1>3, <1>4

(* A finite set of numbers has a greatest.                                   *)
LEMMA Greatest ==
    ASSUME NEW S, S \subseteq Nat, IsFiniteSet(S), S # {}
    PROVE  \E m \in S : \A x \in S : x <= m
<1> DEFINE has(U) == \E m \in U : \A x \in U : x <= m
           T == {U \in SUBSET S : U # {} /\ ~has(U)}
<1>1. SUFFICES ASSUME T # {} PROVE FALSE
  <2>1. S \notin T => has(S)
    OBVIOUS
  <2>2. QED
    BY <2>1
<1>2. \A U \in T : U \subseteq Nat /\ IsFiniteSet(U)
  BY FS_Subset
<1> HIDE DEF T
<1>3. PICK U \in T : \A m \in U : U \ {m} \notin T
  BY <1>1, <1>2, SmallestSet
<1>4. U \subseteq S /\ U # {} /\ ~has(U)
  BY <1>3 DEF T
<1>5. PICK m \in U : TRUE
  BY <1>4
<1>6. CASE U \ {m} = {}
  <2>1. \A x \in U : x = m
    BY <1>6
  <2>2. m <= m
    BY <1>4, <1>5
  <2>3. QED
    BY <1>4, <1>5, <2>1, <2>2
<1>7. CASE U \ {m} # {}
  <2>1. U \ {m} \in SUBSET S /\ U \ {m} \notin T
    BY <1>3, <1>4, <1>5
  <2>2. PICK k \in U \ {m} : \A x \in U \ {m} : x <= k
    BY <1>7, <2>1 DEF T
  <2>3. k \in Nat /\ m \in Nat /\ \A x \in U : x \in Nat
    BY <1>4, <1>5
  <2>4. CASE k <= m
    <3>1. \A x \in U : x <= m
      BY <2>2, <2>3, <2>4
    <3>2. QED
      BY <1>4, <1>5, <3>1
  <2>5. CASE m <= k
    <3>1. \A x \in U : x <= k
      BY <2>2, <2>3, <2>5
    <3>2. QED
      BY <1>4, <2>2, <3>1
  <2>6. QED
    BY <2>3, <2>4, <2>5
<1>8. QED
  BY <1>6, <1>7

(* The order on sequences of numbers.                                        *)
Enumerates(s, S) ==
    /\ s \in [1 .. Cardinality(S) -> S]
    /\ \A i, j \in 1 .. Cardinality(S) : i < j => s[i] < s[j]

(* Every finite set of numbers can be gone through in their order.           *)
LEMMA EnumerationExists ==
    ASSUME NEW S, S \subseteq Nat, IsFiniteSet(S)
    PROVE  \E s : Enumerates(s, S)
<1> DEFINE has(U) == \E s : Enumerates(s, U)
           T == {U \in SUBSET S : ~has(U)}
<1>1. SUFFICES ASSUME T # {} PROVE FALSE
  <2>1. S \notin T => has(S)
    OBVIOUS
  <2>2. QED
    BY <2>1
<1>2. \A U \in T : U \subseteq Nat /\ IsFiniteSet(U)
  BY FS_Subset
<1> HIDE DEF T
<1>3. PICK U \in T : \A m \in U : U \ {m} \notin T
  BY <1>1, <1>2, SmallestSet
<1>4. U \subseteq S /\ U \subseteq Nat /\ IsFiniteSet(U) /\ ~has(U)
  BY <1>2, <1>3 DEF T
<1>5. CASE U = {}
  <2>1. Cardinality(U) = 0
    BY <1>5, FS_EmptySet
  <2>2. 1 .. Cardinality(U) = {}
    BY <2>1
  <2>3. Enumerates([i \in {} |-> 0], U)
    BY <2>2 DEF Enumerates
  <2>4. QED
    BY <1>4, <2>3
<1>6. CASE U # {}
  <2>1. PICK m \in U : \A x \in U : x <= m
    BY <1>4, <1>6, Greatest
  <2> DEFINE V == U \ {m}
             n == Cardinality(V)
  <2>2. IsFiniteSet(V) /\ n = Cardinality(U) - 1
    BY <1>4, <2>1, FS_RemoveElement
  <2>3. n \in Nat /\ Cardinality(U) \in Nat
    BY <1>4, <2>2, FS_CardinalityType
  <2>4. Cardinality(U) = n + 1
    BY <2>2, <2>3
  <2>5. V \in SUBSET S /\ V \notin T
    BY <1>3, <1>4, <2>1
  <2>6. PICK s : Enumerates(s, V)
    BY <2>5 DEF T
  <2>7. s \in [1 .. n -> V] /\ \A i, j \in 1 .. n : i < j => s[i] < s[j]
    BY <2>6 DEF Enumerates
  <2> HIDE DEF n
  <2> DEFINE t == [i \in 1 .. n + 1 |-> IF i = n + 1 THEN m ELSE s[i]]
  <2>8. \A i \in 1 .. n + 1 : i # n + 1 => i \in 1 .. n /\ t[i] = s[i] /\ t[i] \in V
    BY <2>3, <2>7
  <2>9. t[n + 1] = m
    BY <2>3
  <2>10. t \in [1 .. n + 1 -> U]
    BY <2>1, <2>8
  <2>11. \A x \in V : x \in Nat /\ m \in Nat /\ x < m
    BY <1>4, <2>1
  <2> HIDE DEF t, V
  <2>12. ASSUME NEW i \in 1 .. n + 1, NEW j \in 1 .. n + 1, i < j PROVE t[i] < t[j]
    <3>1. i # n + 1
      BY <2>3, <2>12
    <3>2. CASE j = n + 1
      BY <2>8, <2>9, <2>11, <3>1, <3>2
    <3>3. CASE j # n + 1
      BY <2>7, <2>8, <2>12, <3>1, <3>3
    <3>4. QED
      BY <3>2, <3>3
  <2>13. Enumerates(t, U)
    BY <2>4, <2>10, <2>12 DEF Enumerates
  <2>14. QED
    BY <1>4, <2>13
<1>7. QED
  BY <1>5, <1>6

(* Ascending goes through every number once, from the least to the greatest. *)
LEMMA AscendingOrders ==
    ASSUME NEW S, S \subseteq Nat, IsFiniteSet(S)
    PROVE  /\ Cardinality(S) \in Nat
           /\ Ascending(S) \in [1 .. Cardinality(S) -> S]
           /\ \A i, j \in 1 .. Cardinality(S) : i < j => Ascending(S)[i] < Ascending(S)[j]
           /\ \A x \in S : \E i \in 1 .. Cardinality(S) : Ascending(S)[i] = x
<1> DEFINE D == 1 .. Cardinality(S)
           s == Ascending(S)
<1>1. Cardinality(S) \in Nat
  BY FS_CardinalityType
<1>2. Enumerates(s, S)
  BY EnumerationExists DEF Enumerates, Ascending
<1>3. s \in [D -> S] /\ \A i, j \in D : i < j => s[i] < s[j]
  BY <1>2 DEF Enumerates
<1>4. IsFiniteSet(D) /\ Cardinality(D) = Cardinality(S)
  <2>1. IsFiniteSet(D)
    BY <1>1, FS_Interval
  <2>2. Cardinality(D) = IF 1 > Cardinality(S) THEN 0 ELSE Cardinality(S) - 1 + 1
    BY <1>1, FS_Interval
  <2>3. QED
    BY <1>1, <2>1, <2>2
<1> HIDE DEF s
<1>5. IsInjective(s)
  <2>1. ASSUME NEW i \in D, NEW j \in D, s[i] = s[j] PROVE i = j
    <3>1. s[i] \in S /\ s[j] \in S
      BY <1>3
    <3>2. s[i] \in Nat /\ s[j] \in Nat
      BY <3>1
    <3>3. i \in Nat /\ j \in Nat
      BY <1>1
    <3>4. ~(i < j) /\ ~(j < i)
      BY <1>3, <2>1, <3>2
    <3>5. QED
      BY <3>3, <3>4
  <2>2. DOMAIN s = D
    BY <1>3
  <2> HIDE DEF D
  <2>3. QED
    BY <2>1, <2>2 DEF IsInjective
<1> HIDE DEF D
<1>6. s \in Injection(D, S)
  BY <1>3, <1>5 DEF Injection
<1>7. s \in Surjection(D, S)
  BY <1>4, <1>6, FS_Injection
<1>8. \A x \in S : \E i \in D : s[i] = x
  BY <1>7 DEF Surjection
<1>9. QED
  BY <1>1, <1>3, <1>8 DEF D, s

(* SetToSeq lists the elements of a finite set, each once.                   *)
LEMMA ListsTheSet ==
    ASSUME NEW S, IsFiniteSet(S)
    PROVE  /\ SetToSeq(S) \in Seq(S) /\ Range(SetToSeq(S)) = S
           /\ DOMAIN SetToSeq(S) = 1 .. Cardinality(S) /\ Cardinality(S) \in Nat
           /\ \A i, j \in DOMAIN SetToSeq(S) : SetToSeq(S)[i] = SetToSeq(S)[j] => i = j
<1> DEFINE n == Cardinality(S)
           D == 1 .. n
           s == SetToSeq(S)
<1>1. n \in Nat /\ ExistsBijection(D, S)
  BY FS_CardinalityType
<1>2. \E f \in [D -> S] : IsInjective(f)
  BY <1>1 DEF ExistsBijection, Bijection, Injection, IsInjective
<1>3. s = CHOOSE f \in [D -> S] : IsInjective(f)
  BY DEF SetToSeq
<1> HIDE DEF s, D
<1>4. s \in [D -> S] /\ IsInjective(s)
  BY <1>2, <1>3
<1>5. IsFiniteSet(D) /\ Cardinality(D) = n
  BY <1>1, FS_Interval DEF D
<1>6. s \in Surjection(D, S)
  <2>1. s \in Injection(D, S)
    BY <1>4 DEF Injection, IsInjective
  <2>2. QED
    BY <1>5, <2>1, FS_Injection DEF n
<1>7. Range(s) = S
  BY <1>4, <1>6 DEF Range, Surjection
<1>8. s \in Seq(S)
  BY <1>1, <1>4, SeqDef DEF D
<1>9. \A i, j \in DOMAIN s : s[i] = s[j] => i = j
  BY <1>4 DEF IsInjective
<1>10. DOMAIN s = 1 .. n
  BY <1>4 DEF D
<1>11. QED
  BY <1>1, <1>7, <1>8, <1>9, <1>10 DEF s, n

-----------------------------------------------------------------------------
(* Queues                                                                  *)

(* The empty sequence holds nothing.                                         *)
LEMMA NothingInEmpty == Range(<<>>) = {} /\ DOMAIN <<>> = {}
BY DEF Range

(* Taking the first element of a queue.                                    *)
LEMMA TakeFirst ==
    ASSUME NEW S, NEW s \in Seq(S), s # <<>>
    PROVE  /\ Head(s) \in S /\ Tail(s) \in Seq(S) /\ Head(s) = s[1]
           /\ Len(s) \in Nat \ {0} /\ Len(Tail(s)) = Len(s) - 1
           /\ DOMAIN s = 1 .. Len(s) /\ DOMAIN Tail(s) = 1 .. Len(s) - 1
           /\ \A i \in 1 .. Len(s) - 1 : Tail(s)[i] = s[i + 1]
           /\ Range(s) = {Head(s)} \union Range(Tail(s))
<1>1. /\ Head(s) \in S /\ Tail(s) \in Seq(S) /\ Head(s) = s[1]
      /\ Len(s) \in Nat \ {0} /\ Len(Tail(s)) = Len(s) - 1
      /\ DOMAIN s = 1 .. Len(s) /\ DOMAIN Tail(s) = 1 .. Len(s) - 1
      /\ \A i \in 1 .. Len(s) - 1 : Tail(s)[i] = s[i + 1]
  BY HeadTailProperties, LenProperties
<1>2. \A i \in 1 .. Len(s) : i = 1 \/ i - 1 \in 1 .. Len(s) - 1
  BY <1>1
<1>3. \A i \in 1 .. Len(s) : i # 1 => s[i] = Tail(s)[i - 1]
  BY <1>1, <1>2
<1>4. \A i \in 1 .. Len(s) - 1 : i + 1 \in 1 .. Len(s)
  BY <1>1
<1>5. Range(s) = {Head(s)} \union Range(Tail(s))
  <2>1. ASSUME NEW x \in Range(s) PROVE x \in {Head(s)} \union Range(Tail(s))
    <3>1. PICK i \in 1 .. Len(s) : x = s[i]
      BY <1>1 DEF Range
    <3>2. QED
      BY <1>1, <1>2, <1>3, <3>1 DEF Range
  <2>2. {Head(s)} \union Range(Tail(s)) \subseteq Range(s)
    BY <1>1, <1>4 DEF Range
  <2>3. QED
    BY <2>1, <2>2
<1>6. QED
  BY <1>1, <1>5

(* Putting an element at the end of one.                                     *)
LEMMA PutLast ==
    ASSUME NEW S, NEW s \in Seq(S), NEW e \in S
    PROVE  /\ Append(s, e) \in Seq(S) /\ Append(s, e) # <<>>
           /\ Len(s) \in Nat /\ Len(Append(s, e)) = Len(s) + 1
           /\ DOMAIN s = 1 .. Len(s) /\ DOMAIN Append(s, e) = 1 .. Len(s) + 1
           /\ \A i \in 1 .. Len(s) : Append(s, e)[i] = s[i]
           /\ Append(s, e)[Len(s) + 1] = e
           /\ Range(Append(s, e)) = Range(s) \union {e}
<1>1. /\ Append(s, e) \in Seq(S) /\ Append(s, e) # <<>>
      /\ Len(s) \in Nat /\ Len(Append(s, e)) = Len(s) + 1
      /\ DOMAIN s = 1 .. Len(s) /\ DOMAIN Append(s, e) = 1 .. Len(s) + 1
      /\ \A i \in 1 .. Len(s) : Append(s, e)[i] = s[i]
      /\ Append(s, e)[Len(s) + 1] = e
  BY AppendProperties, LenProperties
<1>2. \A i \in 1 .. Len(s) + 1 : i \in 1 .. Len(s) \/ i = Len(s) + 1
  BY <1>1
<1>3. 1 .. Len(s) \subseteq 1 .. Len(s) + 1 /\ Len(s) + 1 \in 1 .. Len(s) + 1
  BY <1>1
<1>4. Range(Append(s, e)) = Range(s) \union {e}
  <2>1. Range(Append(s, e)) \subseteq Range(s) \union {e}
    BY <1>1, <1>2 DEF Range
  <2>2. Range(s) \union {e} \subseteq Range(Append(s, e))
    BY <1>1, <1>3 DEF Range
  <2>3. QED
    BY <2>1, <2>2
<1>5. QED
  BY <1>1, <1>4

\* x has at most one place in q.
Single(x, q) == \A i, j \in DOMAIN q : q[i] = x /\ q[j] = x => i = j

(* What is single stays so while the queue moves; a single head is gone.     *)
LEMMA SingleTail ==
    ASSUME NEW S, NEW s \in Seq(S), s # <<>>, NEW x, Single(x, s)
    PROVE  Single(x, Tail(s)) /\ (x = Head(s) => x \notin Range(Tail(s)))
<1>1. /\ Head(s) = s[1] /\ Len(s) \in Nat \ {0}
      /\ DOMAIN s = 1 .. Len(s) /\ DOMAIN Tail(s) = 1 .. Len(s) - 1
      /\ \A i \in 1 .. Len(s) - 1 : Tail(s)[i] = s[i + 1]
  BY TakeFirst
<1>2. \A i \in 1 .. Len(s) - 1 : i + 1 \in 1 .. Len(s) /\ i + 1 # 1
  BY <1>1
<1>3. \A i, j \in 1 .. Len(s) - 1 : i + 1 = j + 1 => i = j
  OBVIOUS
<1>4. Single(x, Tail(s))
  BY <1>1, <1>2, <1>3 DEF Single
<1>5. x = Head(s) => x \notin Range(Tail(s))
  BY <1>1, <1>2 DEF Single, Range
<1>6. QED
  BY <1>4, <1>5

(* And while another joins it, or it joins one that does not hold it.        *)
LEMMA SingleAppend ==
    ASSUME NEW S, NEW s \in Seq(S), NEW e \in S, NEW x, Single(x, s), x # e \/ x \notin Range(s)
    PROVE  Single(x, Append(s, e))
<1>1. /\ Len(s) \in Nat /\ DOMAIN s = 1 .. Len(s) /\ DOMAIN Append(s, e) = 1 .. Len(s) + 1
      /\ \A i \in 1 .. Len(s) : Append(s, e)[i] = s[i]
      /\ Append(s, e)[Len(s) + 1] = e
  BY PutLast
<1>2. \A i \in 1 .. Len(s) + 1 : i \in 1 .. Len(s) \/ i = Len(s) + 1
  BY <1>1
<1>3. CASE x # e
  BY <1>1, <1>2, <1>3 DEF Single
<1>4. CASE x \notin Range(s)
  <2>1. \A i \in 1 .. Len(s) : s[i] # x
    BY <1>1, <1>4 DEF Range
  <2>2. QED
    BY <1>1, <1>2, <2>1 DEF Single
<1>5. QED
  BY <1>3, <1>4

(* An element that goes before the others.                                   *)
LEMMA PutFirst ==
    ASSUME NEW S, NEW s \in Seq(S), NEW e \in S
    PROVE  /\ <<e>> \o s \in Seq(S) /\ Range(<<e>> \o s) = Range(s) \union {e}
           /\ \A x : Single(x, s) /\ x # e => Single(x, <<e>> \o s)
<1> DEFINE q == <<e>> \o s
<1>1. <<e>> \in Seq(S) /\ Len(<<e>>) = 1 /\ <<e>>[1] = e
  OBVIOUS
<1>2. Len(s) \in Nat /\ DOMAIN s = 1 .. Len(s)
  BY LenProperties
<1>3. /\ q \in Seq(S) /\ Len(q) = 1 + Len(s)
      /\ \A i \in 1 .. 1 + Len(s) : q[i] = IF i <= 1 THEN e ELSE s[i - 1]
  <2>1. /\ <<e>> \o s \in Seq(S) /\ Len(<<e>> \o s) = Len(<<e>>) + Len(s)
        /\ \A i \in 1 .. Len(<<e>>) + Len(s) :
               (<<e>> \o s)[i] = IF i <= Len(<<e>>) THEN <<e>>[i] ELSE s[i - Len(<<e>>)]
    BY ONLY <1>1, s \in Seq(S), ConcatProperties
  <2> HIDE DEF q
  <2>2. q \in Seq(S) /\ Len(q) = 1 + Len(s)
    BY <1>1, <2>1 DEF q
  <2>3. ASSUME NEW i \in 1 .. 1 + Len(s) PROVE q[i] = IF i <= 1 THEN e ELSE s[i - 1]
    <3>1. q[i] = IF i <= 1 THEN <<e>>[i] ELSE s[i - 1]
      BY <1>1, <2>1 DEF q
    <3>2. i <= 1 => i = 1
      BY <1>2
    <3>3. QED
      BY <1>1, <3>1, <3>2
  <2>4. QED
    BY <2>2, <2>3
<1>4. DOMAIN q = 1 .. 1 + Len(s)
  BY <1>2, <1>3, LenProperties
<1> HIDE DEF q
<1>5. q[1] = e /\ 1 \in 1 .. 1 + Len(s)
  BY <1>2, <1>3
<1>6. \A i \in 1 .. Len(s) : i + 1 \in 1 .. 1 + Len(s) /\ q[i + 1] = s[i]
  <2>1. ASSUME NEW i \in 1 .. Len(s) PROVE i + 1 \in 1 .. 1 + Len(s) /\ q[i + 1] = s[i]
    <3>1. i + 1 \in 1 .. 1 + Len(s) /\ ~(i + 1 <= 1) /\ (i + 1) - 1 = i
      BY <1>2
    <3>2. QED
      BY <1>3, <3>1
  <2>2. QED
    BY <2>1
<1>7. \A i \in 1 .. 1 + Len(s) : i # 1 => i - 1 \in 1 .. Len(s) /\ q[i] = s[i - 1]
  BY <1>2, <1>3
<1>8. Range(q) = Range(s) \union {e}
  <2>1. Range(q) \subseteq Range(s) \union {e}
    BY <1>2, <1>4, <1>5, <1>7 DEF Range
  <2>2. Range(s) \union {e} \subseteq Range(q)
    BY <1>2, <1>4, <1>5, <1>6 DEF Range
  <2>3. QED
    BY <2>1, <2>2
<1>9. ASSUME NEW x, Single(x, s), x # e PROVE Single(x, q)
  <2>1. \A i, j \in 1 .. 1 + Len(s) : i # 1 /\ j # 1 /\ i - 1 = j - 1 => i = j
    BY <1>2
  <2>2. QED
    BY <1>2, <1>4, <1>5, <1>7, <1>9, <2>1 DEF Single
<1>10. QED
  BY <1>3, <1>8, <1>9 DEF q
===============================================================================
