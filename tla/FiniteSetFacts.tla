--------------------------- MODULE FiniteSetFacts ----------------------------
(***************************************************************************)
(* Facts about finite sets and sequences that the proofs of several        *)
(* modules need: sums, the least and the greatest number, the first n in   *)
(* ascending order, what appending does to the positions of a sequence.    *)
(*                                                                         *)
(* Each is proved by its least counterexample (WFMin): an induction rule   *)
(* with an operator parameter cannot be cited.                             *)
(***************************************************************************)
EXTENDS Subsequences, FiniteSetTheorems, SequenceTheorems, WellFoundedInduction, TLAPS

-----------------------------------------------------------------------------
(* Sums over finite sets.                                                  *)

\* The element a sum takes first.
Chosen(s) == CHOOSE x \in s : TRUE

\* F gives each subset of S the sum of g over it.
Adds(F, g, S) ==
    F = [s \in SUBSET S |-> IF s = {} THEN 0 ELSE g[Chosen(s)] + F[s \ {Chosen(s)}]]

\* A set of subsets of a finite set has one that contains no other.
LEMMA SmallestSubset ==
    ASSUME NEW S, IsFiniteSet(S), NEW bad, bad \subseteq SUBSET S, bad # {}
    PROVE  \E s \in bad : \A t \in SUBSET s : t # s => t \notin bad
<1>1. IsWellFoundedOn(StrictSubsetOrdering(S), FiniteSubsetsOf(S))
  BY FS_StrictSubsetOrderingWellFounded
<1>2. bad \subseteq FiniteSubsetsOf(S)
  BY FS_Subset DEF FiniteSubsetsOf
<1>3. PICK s \in bad : \A t \in bad : <<t, s>> \notin StrictSubsetOrdering(S)
  BY <1>1, <1>2, WFMin
<1> QED
  BY <1>3 DEF StrictSubsetOrdering

\* Two sums of the same numbers are equal, on whatever set they are defined.
LEMMA SumUnique ==
    ASSUME NEW S, IsFiniteSet(S), NEW T \in SUBSET S, NEW g, NEW h, NEW F, NEW G,
           Adds(F, g, S), Adds(G, h, T), \A x \in T : g[x] = h[x]
    PROVE  \A s \in SUBSET T : F[s] = G[s]
<1> DEFINE bad == {s \in SUBSET T : F[s] # G[s]}
<1> SUFFICES ASSUME bad # {} PROVE FALSE
  OBVIOUS
<1>1. PICK s \in bad : \A t \in SUBSET s : t # s => t \notin bad
  <2>1. bad \subseteq SUBSET S
    OBVIOUS
  <2> HIDE DEF bad
  <2> QED
    BY <2>1, SmallestSubset
<1>2. F[s] = (IF s = {} THEN 0 ELSE g[Chosen(s)] + F[s \ {Chosen(s)}])
  BY DEF Adds
<1>3. G[s] = (IF s = {} THEN 0 ELSE h[Chosen(s)] + G[s \ {Chosen(s)}])
  BY DEF Adds
<1>4. CASE s = {}
  BY <1>2, <1>3, <1>4
<1>5. CASE s # {}
  <2>1. Chosen(s) \in s
    BY <1>5 DEF Chosen
  <2>2. F[s \ {Chosen(s)}] = G[s \ {Chosen(s)}]
    BY <1>1, <2>1
  <2> QED
    BY <1>2, <1>3, <1>5, <2>1, <2>2
<1> QED
  BY <1>4, <1>5

\* Natural numbers have a sum.
LEMMA SumExists ==
    ASSUME NEW S, IsFiniteSet(S), NEW g, \A x \in S : g[x] \in Nat
    PROVE  \E F \in [SUBSET S -> Nat] : Adds(F, g, S)
<1> DEFINE Sum(T, F) == F \in [SUBSET T -> Nat] /\ Adds(F, g, T)
           bad == {T \in SUBSET S : ~ \E F : Sum(T, F)}
<1> SUFFICES ASSUME bad # {} PROVE FALSE
  OBVIOUS
<1>1. PICK T \in bad : \A t \in SUBSET T : t # T => t \notin bad
  <2>1. bad \subseteq SUBSET S
    OBVIOUS
  <2> HIDE DEF bad
  <2> QED
    BY <2>1, SmallestSubset
<1> DEFINE sum(t) == CHOOSE F : Sum(t, F)
           less(s) == s \ {Chosen(s)}
<1>2. \A t \in SUBSET T : t # T => Sum(t, sum(t))
  <2> TAKE t \in SUBSET T
  <2> HAVE t # T
  <2>1. \E F : Sum(t, F)
    BY <1>1
  <2> HIDE DEF Sum
  <2> QED
    BY <2>1
<1> DEFINE F == [s \in SUBSET T |-> IF s = {} THEN 0 ELSE g[Chosen(s)] + sum(less(s))[less(s)]]
<1>3. ASSUME NEW s \in SUBSET T, s # {}
      PROVE  /\ Chosen(s) \in s /\ less(s) \in SUBSET T /\ less(s) # T
             /\ g[Chosen(s)] \in Nat /\ Sum(less(s), sum(less(s)))
  <2>1. Chosen(s) \in s
    BY <1>3 DEF Chosen
  <2>2. less(s) \in SUBSET T /\ less(s) # T
    BY <2>1
  <2> HIDE DEF sum, less, Sum
  <2> QED
    BY <1>2, <2>1, <2>2
<1>4. F \in [SUBSET T -> Nat]
  <2> SUFFICES ASSUME NEW s \in SUBSET T, s # {} PROVE g[Chosen(s)] + sum(less(s))[less(s)] \in Nat
    OBVIOUS
  <2>1. g[Chosen(s)] \in Nat /\ sum(less(s)) \in [SUBSET less(s) -> Nat]
    BY <1>3
  <2> HIDE DEF sum, less
  <2> QED
    BY <2>1
<1>5. ASSUME NEW s \in SUBSET T, s # {} PROVE F[less(s)] = sum(less(s))[less(s)]
  <2> DEFINE r == less(s)
  <2>1. r \in SUBSET T /\ r # T /\ Adds(sum(r), g, r) /\ IsFiniteSet(r)
    BY <1>3, <1>5, FS_Subset
  <2>2. sum(r)[r] = (IF r = {} THEN 0 ELSE g[Chosen(r)] + sum(r)[less(r)])
    <3> HIDE DEF r, sum
    <3> QED BY <2>1 DEF Adds
  <2>3. CASE r = {}
    BY <2>1, <2>2, <2>3
  <2>4. CASE r # {}
    <3>1. Chosen(r) \in r /\ Adds(sum(less(r)), g, less(r))
      BY <1>3, <2>1, <2>4
    <3>2. sum(r)[less(r)] = sum(less(r))[less(r)]
      <4> HIDE DEF r, sum
      <4>1. less(r) \in SUBSET r
        OBVIOUS
      <4> HIDE DEF less
      <4> QED BY <2>1, <3>1, <4>1, SumUnique
    <3>3. F[r] = g[Chosen(r)] + sum(less(r))[less(r)]
      BY <2>1, <2>4
    <3> HIDE DEF F, sum
    <3> QED
      BY <2>2, <2>4, <3>2, <3>3
  <2> QED
    BY <2>3, <2>4
<1>6. Adds(F, g, T)
  <2> DEFINE G == [s \in SUBSET T |-> IF s = {} THEN 0 ELSE g[Chosen(s)] + F[less(s)]]
  <2>1. ASSUME NEW s \in SUBSET T PROVE F[s] = G[s]
    <3>1. CASE s = {}
      BY <3>1
    <3>2. CASE s # {}
      <4>1. F[s] = g[Chosen(s)] + sum(less(s))[less(s)] /\ G[s] = g[Chosen(s)] + F[less(s)]
        BY <3>2
      <4> HIDE DEF F, sum, less, G
      <4> QED
        BY <1>5, <3>2, <4>1
    <3> QED
      BY <3>1, <3>2
  <2>2. F = G
    <3>1. F = [s \in SUBSET T |-> F[s]] /\ G = [s \in SUBSET T |-> G[s]]
      OBVIOUS
    <3> HIDE DEF F, G
    <3> QED
      BY <2>1, <3>1
  <2> HIDE DEF F
  <2> QED
    BY <2>2 DEF Adds
<1> QED
  <2>1. Sum(T, F)
    BY <1>4, <1>6
  <2> HIDE DEF Sum, F
  <2> QED BY <2>1

\* Chosen number can be taken out of a sum.
LEMMA SumWithout ==
    ASSUME NEW S, IsFiniteSet(S), NEW g, NEW F \in [SUBSET S -> Nat], Adds(F, g, S),
           \A x \in S : g[x] \in Nat
    PROVE  \A s \in SUBSET S : \A x \in s : F[s] = g[x] + F[s \ {x}]
<1> DEFINE bad == {s \in SUBSET S : \E x \in s : F[s] # g[x] + F[s \ {x}]}
<1> SUFFICES ASSUME bad # {} PROVE FALSE
  OBVIOUS
<1>1. PICK s \in bad : \A t \in SUBSET s : t # s => t \notin bad
  <2>1. bad \subseteq SUBSET S
    OBVIOUS
  <2> HIDE DEF bad
  <2> QED
    BY <2>1, SmallestSubset
<1>2. PICK x \in s : F[s] # g[x] + F[s \ {x}]
  OBVIOUS
<1> DEFINE a == Chosen(s)
<1>3. a \in s /\ F[s] = g[a] + F[s \ {a}]
  BY DEF Chosen, Adds
<1>4. a # x
  BY <1>2, <1>3
<1>5. F[s \ {a}] = g[x] + F[(s \ {a}) \ {x}]
  BY <1>1, <1>3, <1>4
<1>6. F[s \ {x}] = g[a] + F[(s \ {x}) \ {a}]
  BY <1>1, <1>3, <1>4
<1>7. (s \ {a}) \ {x} = (s \ {x}) \ {a}
  OBVIOUS
<1> DEFINE rest == F[(s \ {x}) \ {a}]
<1>8. rest \in Nat /\ g[x] \in Nat /\ g[a] \in Nat
  BY <1>2, <1>3
<1>9. F[s] = g[a] + (g[x] + rest) /\ F[s \ {x}] = g[a] + rest
  BY <1>3, <1>5, <1>6, <1>7
<1>10. g[a] + (g[x] + rest) = g[x] + (g[a] + rest)
  <2> HIDE DEF rest, a
  <2> QED BY <1>8
<1> QED
  BY <1>2, <1>9, <1>10

-----------------------------------------------------------------------------
(* Sets of numbers: their least and greatest, and their first n in order.  *)

\* A set of naturals that is not empty has a least element.
LEMMA LeastElement ==
    ASSUME NEW S, S \subseteq Nat, S # {}
    PROVE  \E x \in S : \A y \in S : x <= y
<1>1. PICK x \in S : \A y \in S : <<y, x>> \notin OpToRel(<, Nat)
  BY NatLessThanWellFounded, WFMin
<1>2. \A y \in S : ~ y < x
  BY <1>1 DEF OpToRel
<1> QED
  BY <1>2

\* If it is bounded it has a greatest one.
LEMMA GreatestElement ==
    ASSUME NEW S, S \subseteq Nat, S # {}, NEW n \in Nat, \A x \in S : x <= n
    PROVE  \E x \in S : \A y \in S : y <= x
<1> DEFINE bounds == {u \in Nat : \A x \in S : x <= u}
<1>1. PICK u \in bounds : \A v \in bounds : u <= v
  <2>1. bounds \subseteq Nat /\ n \in bounds
    OBVIOUS
  <2> HIDE DEF bounds
  <2> QED
    BY <2>1, LeastElement
<1>2. u \in S
  <2> SUFFICES ASSUME u \notin S PROVE FALSE
    OBVIOUS
  <2>1. u \in Nat /\ \A x \in S : x < u /\ x \in Nat
    BY <1>1
  <2>2. PICK x \in S : x < u /\ x \in Nat
    BY <2>1
  <2>3. u - 1 \in Nat /\ \A y \in S : y <= u - 1
    BY <2>1, <2>2
  <2> QED
    BY <1>1, <2>1, <2>3
<1> QED
  BY <1>1, <1>2

\* s is the first n ids of a set, ascending.
First(s, ids, n) ==
    /\ s \in [1..n -> ids]
    /\ \A i, j \in 1..n : i < j => s[i] < s[j]
    /\ \A id \in ids \ {s[i] : i \in 1..n} : \A i \in 1..n : s[i] < id

\* A finite set has a first n, up to its cardinality.
LEMMA FirstExists ==
    ASSUME NEW ids, ids \subseteq Nat, IsFiniteSet(ids)
    PROVE  \A n \in 0..Cardinality(ids) : \E s : First(s, ids, n)
<1> DEFINE bad == {n \in 0..Cardinality(ids) : ~ \E s : First(s, ids, n)}
<1> SUFFICES ASSUME bad # {} PROVE FALSE
  OBVIOUS
<1>1. Cardinality(ids) \in Nat
  BY FS_CardinalityType
<1>2. PICK n \in bad : \A m \in bad : n <= m
  <2>1. bad \subseteq Nat
    BY <1>1
  <2> HIDE DEF bad
  <2> QED
    BY <2>1, LeastElement
<1>3. n # 0
  <2>1. First([i \in 1..0 |-> 0], ids, 0)
    BY DEF First
  <2> QED
    BY <2>1
<1>4. PICK s : First(s, ids, n - 1)
  <2>1. n - 1 \in 0..Cardinality(ids) /\ n - 1 \notin bad
    BY <1>1, <1>2, <1>3
  <2> QED
    BY <2>1
<1> DEFINE taken == {s[i] : i \in 1..(n - 1)}
<1>5. ids \ taken # {}
  <2> SUFFICES ASSUME ids \ taken = {} PROVE FALSE
    OBVIOUS
  <2>1. s \in Surjection(1..(n - 1), ids)
    BY <1>4 DEF First, Surjection
  <2>2. IsFiniteSet(1..(n - 1)) /\ Cardinality(1..(n - 1)) = n - 1
    <3>1. n \in Nat /\ n - 1 \in Int /\ 1 \in Int
      BY <1>1
    <3>2. /\ IsFiniteSet(1..(n - 1))
          /\ Cardinality(1..(n - 1)) = IF 1 > n - 1 THEN 0 ELSE (n - 1) - 1 + 1
      BY <3>1, FS_Interval
    <3> QED
      BY <1>3, <3>1, <3>2
  <2>3. Cardinality(ids) <= n - 1
    BY <2>1, <2>2, FS_Surjection
  <2> QED
    BY <1>1, <2>3
<1>6. PICK next \in ids \ taken : \A y \in ids \ taken : next <= y
  BY <1>5, LeastElement
<1> DEFINE t == [i \in 1..n |-> IF i = n THEN next ELSE s[i]]
<1>7. First(t, ids, n)
  <2>1. n \in Nat /\ \A i \in 1..n : i = n \/ i \in 1..(n - 1)
    BY <1>1
  <2>2. t \in [1..n -> ids]
    BY <1>4, <2>1 DEF First
  <2>3. \A i, j \in 1..n : i < j => t[i] < t[j]
    <3> SUFFICES ASSUME NEW i \in 1..n, NEW j \in 1..n, i < j PROVE t[i] < t[j]
      OBVIOUS
    <3>1. i \in 1..(n - 1) /\ t[i] = s[i]
      BY <2>1
    <3>2. CASE j = n
      BY <1>4, <3>1, <3>2 DEF First
    <3>3. CASE j # n
      BY <1>4, <2>1, <3>1, <3>3 DEF First
    <3> QED
      BY <3>2, <3>3
  <2>4. \A id \in ids \ {t[i] : i \in 1..n} : \A i \in 1..n : t[i] < id
    <3> SUFFICES ASSUME NEW id \in ids, id \notin {t[i] : i \in 1..n}, NEW i \in 1..n
                 PROVE  t[i] < id
      OBVIOUS
    <3>1. n \in 1..n /\ t[n] = next
      BY <1>1, <1>3
    <3>2. id # next /\ id \notin taken
      <4>1. \A j \in 1..(n - 1) : j \in 1..n /\ t[j] = s[j]
        BY <2>1
      <4> QED
        BY <3>1, <4>1
    <3>3. id \in Nat /\ next \in Nat /\ next < id
      BY <1>6, <3>2
    <3>4. CASE i = n
      BY <3>1, <3>3, <3>4
    <3>5. CASE i # n
      <4>1. i \in 1..(n - 1) /\ t[i] = s[i]
        BY <2>1, <3>5
      <4> QED
        BY <1>4, <3>2, <4>1 DEF First
    <3> QED
      BY <3>4, <3>5
  <2> HIDE DEF t
  <2> QED
    BY <2>2, <2>3, <2>4 DEF First
<1> HIDE DEF t
<1> QED
  BY <1>7

\* Finitely many numbers in ascending order: each is there, once.
LEMMA InOrderIs ==
    ASSUME NEW S, S \subseteq Nat, IsFiniteSet(S)
    PROVE  /\ Cardinality(S) \in Nat
           /\ InOrder(S) \in [1..Cardinality(S) -> S]
           /\ \A i, j \in 1..Cardinality(S) : i < j => InOrder(S)[i] < InOrder(S)[j]
           /\ \A i, j \in 1..Cardinality(S) : i # j => InOrder(S)[i] # InOrder(S)[j]
           /\ \A x \in S : \E i \in 1..Cardinality(S) : InOrder(S)[i] = x
<1> DEFINE k == Cardinality(S)
           Is(s) == \A i, j \in 1..k : i < j => s[i] < s[j]
<1>1. k \in Nat /\ k \in 0..k
  BY FS_CardinalityType
<1>2. \E s \in [1..k -> S] : Is(s)
  <2>1. PICK s : First(s, S, k)
    BY <1>1, FirstExists
  <2> QED
    BY <2>1 DEF First
<1>3. InOrder(S) = CHOOSE s \in [1..k -> S] : Is(s)
  BY DEF InOrder
<1> DEFINE o == InOrder(S)
<1>4. o \in [1..k -> S] /\ Is(o)
  <2> HIDE DEF Is, k
  <2> QED
    BY <1>2, <1>3
<1> HIDE DEF o, k
<1>5. \A i, j \in 1..k : i # j => o[i] # o[j]
  <2> SUFFICES ASSUME NEW i \in 1..k, NEW j \in 1..k, i # j, o[i] = o[j] PROVE FALSE
    OBVIOUS
  <2>1. i < j \/ j < i
    BY <1>1
  <2>2. o[i] \in Nat /\ o[j] \in Nat
    BY <1>4
  <2> QED
    BY <1>4, <2>1, <2>2
<1>6. o \in Injection(1..k, S)
  BY <1>4, <1>5 DEF Injection, IsInjective
<1>7. Cardinality(1..k) = Cardinality(S)
  BY <1>1, FS_Interval DEF k
<1>8. o \in Surjection(1..k, S)
  BY <1>6, <1>7, FS_Injection
<1>9. \A x \in S : \E i \in 1..k : o[i] = x
  BY <1>8 DEF Surjection
<1> QED
  BY <1>1, <1>4, <1>5, <1>9 DEF k, o, Is

-----------------------------------------------------------------------------
(* Sequences, given by their positions.                                    *)

IsSequence(s) == Len(s) \in Nat /\ s = [j \in 1..Len(s) |-> s[j]]

\* The positions of a sequence.
LEMMA DomainOf ==
    ASSUME NEW s, IsSequence(s)
    PROVE  DOMAIN s = 1..Len(s) /\ IsFiniteSet(DOMAIN s) /\ Len(s) \in Nat
<1>1. DOMAIN s = 1..Len(s) /\ Len(s) \in Nat
  BY DEF IsSequence
<1>2. IsFiniteSet(1..Len(s))
  BY <1>1, FS_Interval
<1> QED
  BY <1>1, <1>2

\* One more element.
LEMMA Appended ==
    ASSUME NEW s, IsSequence(s), NEW m
    PROVE  /\ IsSequence(Append(s, m)) /\ Len(Append(s, m)) = Len(s) + 1
           /\ DOMAIN Append(s, m) = DOMAIN s \cup {Len(s) + 1} /\ Len(s) + 1 \notin DOMAIN s
           /\ \A j \in DOMAIN s : Append(s, m)[j] = s[j]
           /\ Append(s, m)[Len(s) + 1] = m
<1> DEFINE n == Len(s)
           S == {s[i] : i \in 1..n} \cup {m}
<1>1. n \in Nat /\ s \in [1..n -> S] /\ m \in S
  BY DEF IsSequence
<1>2. s \in Seq(S)
  BY <1>1, SeqDef
<1> HIDE DEF S
<1>3. Append(s, m) \in Seq(S) /\ Len(Append(s, m)) = n + 1
      /\ (\A i \in 1..n : Append(s, m)[i] = s[i]) /\ Append(s, m)[n + 1] = m
  BY <1>1, <1>2, AppendProperties
<1>4. Append(s, m) = [i \in 1..(n + 1) |-> Append(s, m)[i]] /\ DOMAIN Append(s, m) = 1..(n + 1)
  BY <1>1, <1>3, LenProperties
<1>5. 1..(n + 1) = 1..n \cup {n + 1} /\ n + 1 \notin 1..n /\ n + 1 \in Nat
  BY <1>1
<1> QED
  BY <1>3, <1>4, <1>5, DomainOf DEF IsSequence

\* The beginning of a sequence.
LEMMA PartOf ==
    ASSUME NEW s, IsSequence(s), NEW n \in 0..Len(s)
    PROVE  /\ IsSequence(SubSeq(s, 1, n)) /\ Len(SubSeq(s, 1, n)) = n /\ DOMAIN SubSeq(s, 1, n) = 1..n
           /\ \A i \in 1..n : SubSeq(s, 1, n)[i] = s[i]
<1> DEFINE S == {s[i] : i \in 1..Len(s)}
<1>1. Len(s) \in Nat /\ \A i \in 1..n : s[i] \in S
  BY DEF IsSequence
<1> HIDE DEF S
<1>2. n \in Int /\ 1 \in Int /\ n - 1 + 1 = n /\ 0 <= n
  BY <1>1
<1>3. /\ SubSeq(s, 1, n) \in Seq(S) /\ Len(SubSeq(s, 1, n)) = n
      /\ \A i \in 1..n : SubSeq(s, 1, n)[i] = s[i]
  BY <1>1, <1>2, SubSeqProperties
<1>4. SubSeq(s, 1, n) = [i \in 1..n |-> SubSeq(s, 1, n)[i]] /\ DOMAIN SubSeq(s, 1, n) = 1..n
  BY <1>2, <1>3, LenProperties
<1> QED
  BY <1>1, <1>3, <1>4 DEF IsSequence

\* Its beginning is not changed by one more element.
LEMMA PartOfAppended ==
    ASSUME NEW s, IsSequence(s), NEW m, NEW n \in 0..Len(s)
    PROVE  SubSeq(Append(s, m), 1, n) = SubSeq(s, 1, n) /\ SubSeq(Append(s, m), 1, Len(s) + 1) = Append(s, m)
<1> DEFINE t == Append(s, m)
<1>1. /\ IsSequence(t) /\ Len(t) = Len(s) + 1 /\ DOMAIN t = DOMAIN s \cup {Len(s) + 1}
      /\ \A i \in DOMAIN s : t[i] = s[i]
  BY Appended
<1>2. Len(s) \in Nat /\ DOMAIN s = 1..Len(s) /\ t = [i \in 1..Len(t) |-> t[i]]
  BY <1>1, DomainOf DEF IsSequence
<1> HIDE DEF t
<1>3. n \in 0..Len(t) /\ Len(t) \in 0..Len(t) /\ 1..n \subseteq DOMAIN s
  BY <1>1, <1>2
<1>4. /\ SubSeq(t, 1, n) = [i \in 1..n |-> SubSeq(t, 1, n)[i]] /\ SubSeq(s, 1, n) = [i \in 1..n |-> SubSeq(s, 1, n)[i]]
      /\ SubSeq(t, 1, Len(t)) = [i \in 1..Len(t) |-> SubSeq(t, 1, Len(t))[i]]
  BY <1>1, <1>3, PartOf DEF IsSequence
<1>5. /\ \A i \in 1..n : SubSeq(t, 1, n)[i] = t[i] /\ SubSeq(s, 1, n)[i] = s[i]
      /\ \A i \in 1..Len(t) : SubSeq(t, 1, Len(t))[i] = t[i]
  BY <1>1, <1>3, PartOf
<1> QED
  BY <1>1, <1>2, <1>3, <1>4, <1>5 DEF t

\* Another element in a place of it.
LEMMA Replaced ==
    ASSUME NEW s, IsSequence(s), NEW i \in DOMAIN s, NEW m
    PROVE  IsSequence([s EXCEPT ![i] = m]) /\ DOMAIN [s EXCEPT ![i] = m] = DOMAIN s
<1> DEFINE S == {s[j] : j \in 1..Len(s)} \cup {m}
           t == [s EXCEPT ![i] = m]
<1>1. Len(s) \in Nat /\ s \in [1..Len(s) -> S] /\ m \in S /\ i \in 1..Len(s)
  BY DomainOf DEF IsSequence
<1>2. s \in Seq(S)
  BY <1>1, SeqDef
<1> HIDE DEF S
<1>3. t \in Seq(S) /\ Len(t) = Len(s)
  BY <1>1, <1>2, ExceptSeq
<1>4. t = [j \in 1..Len(t) |-> t[j]] /\ DOMAIN t = DOMAIN s
  BY <1>1, <1>3, LenProperties
<1> QED
  BY <1>1, <1>3, <1>4 DEF IsSequence

\* A sequence followed by another.
LEMMA Concatenated ==
    ASSUME NEW s, IsSequence(s), NEW r, IsSequence(r)
    PROVE  /\ IsSequence(s \o r) /\ Len(s \o r) = Len(s) + Len(r)
           /\ \A i \in 1..Len(s) + Len(r) : (s \o r)[i] = IF i <= Len(s) THEN s[i] ELSE r[i - Len(s)]
<1> DEFINE S == {s[i] : i \in DOMAIN s} \cup {r[i] : i \in DOMAIN r}
<1>1. Len(s) \in Nat /\ Len(r) \in Nat /\ DOMAIN s = 1..Len(s) /\ DOMAIN r = 1..Len(r)
  BY DomainOf
<1>2. s \in [1..Len(s) -> S] /\ r \in [1..Len(r) -> S]
  BY <1>1 DEF IsSequence
<1> HIDE DEF S
<1>3. s \in Seq(S) /\ r \in Seq(S)
  BY <1>1, <1>2, SeqDef
<1>4. /\ s \o r \in Seq(S) /\ Len(s \o r) = Len(s) + Len(r)
      /\ \A i \in 1..Len(s) + Len(r) : (s \o r)[i] = IF i <= Len(s) THEN s[i] ELSE r[i - Len(s)]
  BY <1>3, ConcatProperties
<1>5. Len(s \o r) \in Nat /\ s \o r = [j \in 1..Len(s \o r) |-> (s \o r)[j]]
  BY <1>4, LenProperties
<1> QED
  BY <1>4, <1>5 DEF IsSequence
==========================================================================
