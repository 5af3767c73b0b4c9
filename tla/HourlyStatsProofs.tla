------------------------- MODULE HourlyStatsProofs -------------------------
(***************************************************************************)
(* Proofs about the hourly statistics and what the archive keeps of them,  *)
(* for any calendar, any retention and any number of crawls, failures and  *)
(* requests: sums over finite sets, the columns of a row, the calendar, and *)
(* then the clock, the hourly rows and the snapshots of the archive.       *)
(***************************************************************************)
EXTENDS Archive, FiniteSetTheorems, WellFoundedInduction, TLAPS

\* A nonempty set of naturals has a least element.
LEMMA LeastNat ==
  ASSUME NEW S \in SUBSET Nat, S # {}
  PROVE  \E n \in S : \A m \in S : n =< m
  <1> DEFINE R == OpToRel(<, Nat)
  <1>1. \E n \in S : \A m \in S : <<m, n>> \notin R
    <2>1. IsWellFoundedOn(R, Nat)
      BY NatLessThanWellFounded, Zenon
    <2> HIDE DEF R
    <2> QED BY <2>1, WFMin, Zenon
  <1>2. PICK n \in S : \A m \in S : <<m, n>> \notin R
    BY <1>1, Zenon
  <1>3. ASSUME NEW m \in S, m < n PROVE FALSE
    BY <1>2, <1>3, Zenon DEF OpToRel
  <1> QED BY <1>3

\* A finite set can be taken apart one element at a time.
LEMMA SmallestSet ==
  ASSUME NEW B, B # {}, \A s \in B : IsFiniteSet(s)
  PROVE  \E s \in B : \A x \in s : s \ {x} \notin B
  <1> DEFINE C == {Cardinality(s) : s \in B}
  <1>1. C \in SUBSET Nat /\ C # {}
    BY FS_CardinalityType
  <1>2. PICK n \in C : \A m \in C : n =< m
    <2> HIDE DEF C
    <2> QED BY <1>1, LeastNat
  <1>3. PICK s \in B : n = Cardinality(s)
    BY <1>2
  <1>4. ASSUME NEW x \in s, s \ {x} \in B PROVE FALSE
    <2>1. Cardinality(s \ {x}) = n - 1 /\ n \in Nat
      BY <1>3, FS_RemoveElement, FS_CardinalityType
    <2>2. n =< Cardinality(s \ {x})
      BY <1>2, <1>4
    <2> QED BY <2>1, <2>2
  <1> QED BY <1>4

\* The recursion behind SumFunctionOnSet.
SumStep(h, g, s) == IF s = {} THEN 0 ELSE g[CHOOSE x \in s : TRUE] + h[s \ {CHOOSE x \in s : TRUE}]
Iter(g, S) == CHOOSE h : h = [s \in SUBSET S |-> SumStep(h, g, s)]

\* The sum of the library, as the value of that recursion.
LEMMA SumIsIter == ASSUME NEW g, NEW S PROVE SumFunctionOnSet(g, S) = Iter(g, S)[S]
  BY DEF SumFunctionOnSet, FoldFunctionOnSet, MapThenFoldSet, Iter, SumStep

\* It has a solution for the subsets of S with up to n elements.
Good(g, S, n) ==
  \E h : /\ h = [s \in SUBSET S |-> h[s]]
         /\ \A s \in SUBSET S : Cardinality(s) =< n => h[s] = SumStep(h, g, s)

\* The recursion has a solution up to any size: one more round of it is right
\* for sets with one more element.
LEMMA AllGood ==
  ASSUME NEW g, NEW S, IsFiniteSet(S)
  PROVE  \A n \in Nat : Good(g, S, n)
  <1> DEFINE B == {n \in Nat : ~Good(g, S, n)}
  <1>1. SUFFICES ASSUME B # {} PROVE FALSE
    OBVIOUS
  <1>2. PICK n \in B : \A m \in B : n =< m
    <2>1. B \in SUBSET Nat
      OBVIOUS
    <2> HIDE DEF B
    <2> QED BY <1>1, <2>1, LeastNat
  <1>3. \A s \in SUBSET S : IsFiniteSet(s) /\ Cardinality(s) \in Nat
    BY FS_Subset, FS_CardinalityType
  <1>4. CASE n = 0
    <2> DEFINE h == [s \in SUBSET S |-> 0]
    <2>1. \A s \in SUBSET S : Cardinality(s) =< n => h[s] = SumStep(h, g, s)
      <3> SUFFICES ASSUME NEW s \in SUBSET S, Cardinality(s) =< n PROVE h[s] = SumStep(h, g, s)
        OBVIOUS
      <3>1. s = {}
        BY <1>3, <1>4, FS_EmptySet
      <3> QED BY <3>1 DEF SumStep
    <2>2. h = [s \in SUBSET S |-> h[s]]
      OBVIOUS
    <2> HIDE DEF h
    <2> QED BY <1>2, <2>1, <2>2, Zenon DEF Good
  <1>5. CASE n # 0
    <2>1. n - 1 \in Nat /\ n - 1 \notin B
      BY <1>2, <1>5
    <2>2. Good(g, S, n - 1)
      BY <2>1
    <2>3. PICK k : /\ k = [s \in SUBSET S |-> k[s]]
                   /\ \A s \in SUBSET S : Cardinality(s) =< n - 1 => k[s] = SumStep(k, g, s)
      BY <2>2, Zenon DEF Good
    <2> DEFINE h == [s \in SUBSET S |-> SumStep(k, g, s)]
    <2>4. \A s \in SUBSET S : Cardinality(s) =< n => h[s] = SumStep(h, g, s)
      <3> SUFFICES ASSUME NEW s \in SUBSET S, Cardinality(s) =< n PROVE h[s] = SumStep(h, g, s)
        BY Zenon
      <3>1. CASE s = {}
        BY <3>1 DEF SumStep
      <3>2. CASE s # {}
        <4> DEFINE x == CHOOSE x \in s : TRUE
        <4>1. x \in s
          BY <3>2
        <4>2. Cardinality(s \ {x}) =< n - 1
          <5> HIDE DEF x
          <5>1. Cardinality(s \ {x}) = Cardinality(s) - 1
            BY <4>1, <1>3, FS_RemoveElement
          <5> QED BY <5>1, <1>3, <2>1
        <4>3. k[s \ {x}] = SumStep(k, g, s \ {x}) /\ h[s \ {x}] = SumStep(k, g, s \ {x})
          BY <2>3, <4>2, Zenon
        <4>4. h[s] = SumStep(k, g, s)
          OBVIOUS
        <4>5. SumStep(k, g, s) = g[x] + k[s \ {x}] /\ SumStep(h, g, s) = g[x] + h[s \ {x}]
          BY <3>2 DEF SumStep
        <4> QED BY <4>3, <4>4, <4>5
      <3> QED BY <3>1, <3>2
    <2>5. h = [s \in SUBSET S |-> h[s]]
      OBVIOUS
    <2> HIDE DEF h
    <2> QED BY <1>2, <2>4, <2>5, Zenon DEF Good
  <1> QED BY <1>4, <1>5

\* Hence it has a solution for all subsets of a finite set.
LEMMA IterExists ==
  ASSUME NEW g, NEW S, IsFiniteSet(S)
  PROVE  Iter(g, S) = [s \in SUBSET S |-> SumStep(Iter(g, S), g, s)]
  <1>1. Cardinality(S) \in Nat
    BY FS_CardinalityType
  <1>2. PICK h : /\ h = [s \in SUBSET S |-> h[s]]
                 /\ \A s \in SUBSET S : Cardinality(s) =< Cardinality(S) => h[s] = SumStep(h, g, s)
    <2>1. Good(g, S, Cardinality(S))
      BY <1>1, AllGood
    <2> QED BY <2>1, Zenon DEF Good
  <1>3. \A s \in SUBSET S : h[s] = SumStep(h, g, s)
    BY <1>2, FS_Subset, Zenon
  <1>4. h = [s \in SUBSET S |-> SumStep(h, g, s)]
    BY <1>2, <1>3, Zenon
  <1> QED BY <1>4 DEF Iter

\* The solutions for a set and for a part of it agree on the part.
LEMMA IterAgrees ==
  ASSUME NEW g, NEW S, IsFiniteSet(S), NEW T \in SUBSET S
  PROVE  \A s \in SUBSET T : Iter(g, S)[s] = Iter(g, T)[s]
  <1> DEFINE B == {s \in SUBSET T : Iter(g, S)[s] # Iter(g, T)[s]}
  <1> SUFFICES ASSUME B # {} PROVE FALSE
    OBVIOUS
  <1>0. IsFiniteSet(T)
    BY FS_Subset
  <1>1. PICK s \in B : \A x \in s : s \ {x} \notin B
    <2>1. \A s \in B : IsFiniteSet(s)
      BY <1>0, FS_Subset
    <2> HIDE DEF B
    <2> QED BY <2>1, SmallestSet, SMTT(30)
  <1>2. Iter(g, S)[s] = SumStep(Iter(g, S), g, s) /\ Iter(g, T)[s] = SumStep(Iter(g, T), g, s)
    <2>1. /\ Iter(g, S) = [r \in SUBSET S |-> SumStep(Iter(g, S), g, r)]
          /\ Iter(g, T) = [r \in SUBSET T |-> SumStep(Iter(g, T), g, r)]
      BY <1>0, IterExists, Zenon
    <2> s \in SUBSET S /\ s \in SUBSET T
      OBVIOUS
    <2> HIDE DEF B
    <2> DEFINE h == Iter(g, S)
               k == Iter(g, T)
    <2>2. h = [r \in SUBSET S |-> SumStep(h, g, r)] /\ k = [r \in SUBSET T |-> SumStep(k, g, r)]
      BY <2>1, Zenon
    <2> HIDE DEF h, k
    <2>3. h[s] = SumStep(h, g, s) /\ k[s] = SumStep(k, g, s)
      BY <2>2
    <2> QED BY <2>3 DEF h, k
  <1>3. CASE s = {}
    BY <1>2, <1>3 DEF SumStep
  <1>4. CASE s # {}
    <2>1. s \ {CHOOSE x \in s : TRUE} \notin B
      BY <1>1, <1>4, Zenon
    <2> QED BY <1>2, <1>4, <2>1 DEF SumStep
  <1> QED BY <1>3, <1>4

\* Nothing to add.
LEMMA SumEmpty == ASSUME NEW g PROVE SumFunctionOnSet(g, {}) = 0
  <1>1. Iter(g, {}) = [s \in SUBSET {} |-> SumStep(Iter(g, {}), g, s)]
    BY FS_EmptySet, IterExists, Zenon
  <1>2. Iter(g, {})[{}] = SumStep(Iter(g, {}), g, {})
    BY <1>1
  <1> QED BY <1>2, SumIsIter DEF SumStep

\* The recursion takes out some element.
LEMMA SumChosen ==
  ASSUME NEW g, NEW S, IsFiniteSet(S), S # {}
  PROVE  \E x \in S : SumFunctionOnSet(g, S) = g[x] + SumFunctionOnSet(g, S \ {x})
  <1> DEFINE x == CHOOSE x \in S : TRUE
  <1>1. x \in S
    OBVIOUS
  <1>2. Iter(g, S)[S] = g[x] + Iter(g, S)[S \ {x}]
    <2> DEFINE h == Iter(g, S)
    <2>1. h = [r \in SUBSET S |-> SumStep(h, g, r)]
      BY IterExists, ZenonT(40)
    <2> HIDE DEF h
    <2>2. h[S] = SumStep(h, g, S)
      BY <2>1
    <2>3. h[S] = g[x] + h[S \ {x}]
      BY <2>2 DEF SumStep
    <2> QED BY <2>3 DEF h
  <1> HIDE DEF x
  <1>3. Iter(g, S)[S \ {x}] = Iter(g, S \ {x})[S \ {x}]
    BY IterAgrees
  <1> QED BY <1>1, <1>2, <1>3, SumIsIter, Zenon

\* A sum of naturals is one.
LEMMA SumNat ==
  ASSUME NEW g, NEW S, IsFiniteSet(S), \A k \in S : g[k] \in Nat
  PROVE  SumFunctionOnSet(g, S) \in Nat
  <1> DEFINE B == {s \in SUBSET S : SumFunctionOnSet(g, s) \notin Nat}
  <1> SUFFICES ASSUME B # {} PROVE FALSE
    OBVIOUS
  <1>1. \A s \in B : IsFiniteSet(s)
    BY FS_Subset
  <1>2. PICK s \in B : \A x \in s : s \ {x} \notin B
    <2> HIDE DEF B
    <2> QED BY <1>1, SmallestSet, Zenon
  <1>3. s # {}
    BY <1>2, SumEmpty
  <1>4. PICK x \in s : SumFunctionOnSet(g, s) = g[x] + SumFunctionOnSet(g, s \ {x})
    BY <1>1, <1>2, <1>3, SumChosen
  <1>5. SumFunctionOnSet(g, s \ {x}) \in Nat /\ g[x] \in Nat
    BY <1>2, <1>4
  <1> QED BY <1>2, <1>4, <1>5

\* Any element may be taken out of a sum.
LEMMA SumTakesOut ==
  ASSUME NEW g, NEW S, IsFiniteSet(S), \A k \in S : g[k] \in Nat, NEW y \in S
  PROVE  SumFunctionOnSet(g, S) = g[y] + SumFunctionOnSet(g, S \ {y})
  <1> DEFINE Bad(s, x) == SumFunctionOnSet(g, s) # g[x] + SumFunctionOnSet(g, s \ {x})
             B == {s \in SUBSET S : \E x \in s : Bad(s, x)}
  <1> SUFFICES ASSUME B # {} PROVE FALSE
    BY Zenon
  <1>1. \A s \in SUBSET S : IsFiniteSet(s) /\ SumFunctionOnSet(g, s) \in Nat
    BY FS_Subset, SumNat
  <1>2. PICK s \in B : \A x \in s : s \ {x} \notin B
    <2>1. \A s \in B : IsFiniteSet(s)
      BY <1>1
    <2> HIDE DEF B
    <2> QED BY <2>1, SmallestSet, SMTT(30)
  <1>3. PICK x \in s : Bad(s, x)
    BY <1>2
  <1>4. PICK c \in s : SumFunctionOnSet(g, s) = g[c] + SumFunctionOnSet(g, s \ {c})
    BY <1>1, <1>3, SumChosen
  <1>5. c # x
    BY <1>3, <1>4
  <1>6. s \ {c} \in SUBSET S /\ s \ {x} \in SUBSET S /\ x \in s \ {c} /\ c \in s \ {x}
    BY <1>5
  <1>7. ~Bad(s \ {c}, x) /\ ~Bad(s \ {x}, c)
    <2>1. s \ {c} \notin B /\ s \ {x} \notin B
      BY <1>2, Zenon
    <2> HIDE DEF Bad
    <2> QED BY <1>6, <2>1, SMTT(30)
  <1>8. (s \ {c}) \ {x} = (s \ {x}) \ {c} /\ (s \ {c}) \ {x} \in SUBSET S
    OBVIOUS
  <1> DEFINE r == SumFunctionOnSet(g, (s \ {c}) \ {x})
  <1>9. SumFunctionOnSet(g, s \ {c}) = g[x] + r /\ SumFunctionOnSet(g, s \ {x}) = g[c] + r
    BY <1>7, <1>8, Zenon
  <1>10. r \in Nat /\ g[x] \in Nat /\ g[c] \in Nat
    BY <1>1, <1>8
  <1> HIDE DEF r
  <1>11. SumFunctionOnSet(g, s) = g[x] + SumFunctionOnSet(g, s \ {x})
    BY <1>4, <1>9, <1>10
  <1> QED BY <1>3, <1>11

\* An element that is not yet in it adds its value.
LEMMA SumAdd ==
  ASSUME NEW g, NEW S, IsFiniteSet(S), NEW y, y \notin S, \A k \in S \cup {y} : g[k] \in Nat
  PROVE  SumFunctionOnSet(g, S \cup {y}) = g[y] + SumFunctionOnSet(g, S)
  <1>1. IsFiniteSet(S \cup {y}) /\ (S \cup {y}) \ {y} = S
    BY FS_AddElement
  <1>2. SumFunctionOnSet(g, S \cup {y}) = g[y] + SumFunctionOnSet(g, (S \cup {y}) \ {y})
    BY <1>1, SumTakesOut
  <1> QED BY <1>1, <1>2

\* The sum of a part, with smaller values, is at most the whole.
LEMMA SumMonotone ==
  ASSUME NEW g, NEW h, NEW T, IsFiniteSet(T), NEW S \in SUBSET T,
         \A k \in T : h[k] \in Nat, \A k \in S : g[k] \in Nat /\ g[k] =< h[k]
  PROVE  SumFunctionOnSet(g, S) =< SumFunctionOnSet(h, T)
  <1> DEFINE B == {t \in SUBSET T : ~(SumFunctionOnSet(g, S \cap t) =< SumFunctionOnSet(h, t))}
  <1>1. S \cap T = S
    OBVIOUS
  <1> SUFFICES ASSUME B # {} PROVE FALSE
    BY <1>1
  <1>2. PICK t \in B : \A x \in t : t \ {x} \notin B
    <2>1. \A t \in B : IsFiniteSet(t)
      BY FS_Subset
    <2> HIDE DEF B
    <2> QED BY <2>1, SmallestSet, Zenon
  <1>3. t # {}
    <2>1. S \cap {} = {}
      OBVIOUS
    <2>2. SumFunctionOnSet(g, {}) = 0 /\ SumFunctionOnSet(h, {}) = 0
      BY SumEmpty
    <2> QED BY <1>2, <2>1, <2>2
  <1>4. PICK x \in t : TRUE
    BY <1>3
  <1> DEFINE u == t \ {x}
             a == SumFunctionOnSet(g, S \cap u)
             b == SumFunctionOnSet(h, u)
  <1>5. a =< b
    BY <1>2, <1>4
  <1>6. /\ IsFiniteSet(t) /\ IsFiniteSet(u) /\ IsFiniteSet(S \cap u) /\ IsFiniteSet(S \cap t)
    BY FS_Subset
  <1>7. a \in Nat /\ b \in Nat
    BY <1>6, SumNat
  <1>8. SumFunctionOnSet(h, t) = h[x] + b
    BY <1>4, <1>6, SumTakesOut
  <1>9. h[x] \in Nat
    BY <1>4
  <1>10. CASE x \in S
    <2>1. (S \cap t) \ {x} = S \cap u /\ x \in S \cap t
      BY <1>4, <1>10
    <2>2. SumFunctionOnSet(g, S \cap t) = g[x] + SumFunctionOnSet(g, (S \cap t) \ {x})
      BY <1>6, <2>1, SumTakesOut
    <2>3. SumFunctionOnSet(g, S \cap t) = g[x] + a /\ g[x] \in Nat /\ g[x] =< h[x]
      BY <1>10, <2>1, <2>2
    <2>4. ~(SumFunctionOnSet(g, S \cap t) =< SumFunctionOnSet(h, t))
      BY <1>2
    <2> HIDE DEF a, b
    <2> QED BY <1>5, <1>7, <1>8, <1>9, <2>3, <2>4
  <1>11. CASE x \notin S
    <2>1. S \cap t = S \cap u
      BY <1>11
    <2>2. SumFunctionOnSet(g, S \cap t) = a
      BY <2>1
    <2>4. ~(SumFunctionOnSet(g, S \cap t) =< SumFunctionOnSet(h, t))
      BY <1>2
    <2> HIDE DEF a, b
    <2> QED BY <1>5, <1>7, <1>8, <1>9, <2>2, <2>4
  <1> QED BY <1>10, <1>11

\* Only the values at the elements matter.
LEMMA SumSame ==
  ASSUME NEW g, NEW h, NEW S, IsFiniteSet(S), \A k \in S : g[k] \in Nat /\ g[k] = h[k]
  PROVE  SumFunctionOnSet(g, S) = SumFunctionOnSet(h, S)
  <1>1. SumFunctionOnSet(g, S) =< SumFunctionOnSet(h, S)
    BY SumMonotone
  <1>2. SumFunctionOnSet(h, S) =< SumFunctionOnSet(g, S)
    BY SumMonotone
  <1>3. SumFunctionOnSet(g, S) \in Nat /\ SumFunctionOnSet(h, S) \in Nat
    BY SumNat
  <1> QED BY <1>1, <1>2, <1>3

\* The sum of two sets that have nothing in common.
LEMMA SumUnion ==
  ASSUME NEW g, NEW S, NEW T, IsFiniteSet(S), IsFiniteSet(T), S \cap T = {}, \A k \in S \cup T : g[k] \in Nat
  PROVE  SumFunctionOnSet(g, S \cup T) = SumFunctionOnSet(g, S) + SumFunctionOnSet(g, T)
  <1> DEFINE B == {t \in SUBSET T :
                     SumFunctionOnSet(g, S \cup t) # SumFunctionOnSet(g, S) + SumFunctionOnSet(g, t)}
  <1> SUFFICES ASSUME B # {} PROVE FALSE
    OBVIOUS
  <1>1. PICK t \in B : \A x \in t : t \ {x} \notin B
    <2>1. \A t \in B : IsFiniteSet(t)
      BY FS_Subset
    <2> HIDE DEF B
    <2> QED BY <2>1, SmallestSet, Zenon
  <1> DEFINE n == SumFunctionOnSet(g, S)
  <1>2. n \in Nat
    BY SumNat
  <1>3. t # {}
    <2>1. S \cup {} = S
      OBVIOUS
    <2>2. SumFunctionOnSet(g, {}) = 0
      BY SumEmpty
    <2> QED BY <1>1, <1>2, <2>1, <2>2
  <1>4. PICK x \in t : TRUE
    BY <1>3
  <1> DEFINE u == t \ {x}
             a == SumFunctionOnSet(g, u)
  <1>5. SumFunctionOnSet(g, S \cup u) = n + a
    BY <1>1, <1>4
  <1>6. IsFiniteSet(t) /\ IsFiniteSet(u) /\ IsFiniteSet(S \cup t) /\ IsFiniteSet(S \cup u)
    <2>1. IsFiniteSet(t) /\ IsFiniteSet(u)
      BY FS_Subset
    <2> QED BY <2>1, FS_Union, Zenon
  <1>7. a \in Nat /\ g[x] \in Nat
    BY <1>4, <1>6, SumNat
  <1>8. SumFunctionOnSet(g, t) = g[x] + a
    BY <1>4, <1>6, SumTakesOut
  <1>9. SumFunctionOnSet(g, S \cup t) = g[x] + (n + a)
    <2>1. (S \cup t) \ {x} = S \cup u /\ x \in S \cup t
      BY <1>4
    <2>2. SumFunctionOnSet(g, S \cup t) = g[x] + SumFunctionOnSet(g, (S \cup t) \ {x})
      BY <1>6, <2>1, SumTakesOut
    <2> QED BY <1>5, <2>1, <2>2
  <1>10. SumFunctionOnSet(g, S \cup t) # n + SumFunctionOnSet(g, t)
    BY <1>1
  <1> HIDE DEF n, a
  <1> QED BY <1>2, <1>7, <1>8, <1>9, <1>10

Together(D, W) == UNION {D[w] : w \in W}

\* The parts of a partition have nothing in common.
Apart(D, W) == \A v, w \in W : v # w => D[v] \cap D[w] = {}

\* In s what g adds up to on each part.
PartSums(s, g, D, W) ==
  /\ \A w \in W : IsFiniteSet(D[w]) /\ s[w] = SumFunctionOnSet(g, D[w])
  /\ \A w \in W : \A k \in D[w] : g[k] \in Nat

\* Adding up what the parts of a partition add up to.
LEMMA SumOfSums ==
  ASSUME NEW g, NEW W, IsFiniteSet(W), NEW D, NEW s, PartSums(s, g, D, W), Apart(D, W)
  PROVE  SumFunctionOnSet(s, W) = SumFunctionOnSet(g, Together(D, W))
  <1> USE DEF PartSums, Apart
  <1> DEFINE All(V) == UNION {D[w] : w \in V}
             B == {V \in SUBSET W : ~(IsFiniteSet(All(V)) /\ SumFunctionOnSet(s, V) = SumFunctionOnSet(g, All(V)))}
  <1> SUFFICES ASSUME B # {} PROVE FALSE
    BY Zenon DEF Together
  <1>1. PICK V \in B : \A x \in V : V \ {x} \notin B
    <2>1. \A t \in B : IsFiniteSet(t)
      BY FS_Subset
    <2> HIDE DEF B
    <2> QED BY <2>1, SmallestSet, Zenon
  <1>2. V # {}
    <2>1. All({}) = {}
      OBVIOUS
    <2> HIDE DEF All
    <2>2. SumFunctionOnSet(s, {}) = 0 /\ SumFunctionOnSet(g, {}) = 0 /\ IsFiniteSet({})
      BY SumEmpty, FS_EmptySet
    <2> QED BY <1>1, <2>1, <2>2
  <1>3. PICK x \in V : TRUE
    BY <1>2
  <1> DEFINE U == V \ {x}
  <1>4. IsFiniteSet(All(U)) /\ SumFunctionOnSet(s, U) = SumFunctionOnSet(g, All(U))
    <2> HIDE DEF All
    <2> QED BY <1>1, <1>3
  <1>5. All(V) = All(U) \cup D[x]
    BY <1>3
  <1>6. All(U) \cap D[x] = {}
    BY <1>1, <1>3
  <1>7. \A k \in All(U) \cup D[x] : g[k] \in Nat
    BY <1>1, <1>3
  <1>8. IsFiniteSet(D[x]) /\ s[x] = SumFunctionOnSet(g, D[x])
    BY <1>1, <1>3
  <1>9. IsFiniteSet(V) /\ \A w \in V : s[w] \in Nat
    <2>1. \A w \in W : SumFunctionOnSet(g, D[w]) \in Nat
      BY SumNat
    <2> QED BY <1>1, <2>1, FS_Subset
  <1>10. SumFunctionOnSet(s, V) = s[x] + SumFunctionOnSet(s, U)
    BY <1>3, <1>9, SumTakesOut
  <1> DEFINE A == All(U)
             E == D[x]
  <1>11. /\ IsFiniteSet(A) /\ IsFiniteSet(E) /\ A \cap E = {} /\ \A k \in A \cup E : g[k] \in Nat
    BY <1>4, <1>6, <1>7, <1>8
  <1>12. All(V) = A \cup E /\ SumFunctionOnSet(s, V) = SumFunctionOnSet(g, E) + SumFunctionOnSet(g, A)
    BY <1>4, <1>5, <1>8, <1>10
  <1>13. ~(IsFiniteSet(All(V)) /\ SumFunctionOnSet(s, V) = SumFunctionOnSet(g, All(V)))
    BY <1>1
  <1> HIDE DEF A, E, All
  <1>14. SumFunctionOnSet(g, A \cup E) = SumFunctionOnSet(g, A) + SumFunctionOnSet(g, E) /\ IsFiniteSet(A \cup E)
    <2>1. SumFunctionOnSet(g, A \cup E) = SumFunctionOnSet(g, A) + SumFunctionOnSet(g, E)
      BY <1>11, SumUnion
    <2>2. IsFiniteSet(A \cup E)
      BY <1>11, FS_Union, Zenon
    <2> QED BY <2>1, <2>2
  <1>15. SumFunctionOnSet(g, A) \in Nat /\ SumFunctionOnSet(g, E) \in Nat
    BY <1>11, SumNat
  <1> QED BY <1>12, <1>13, <1>14, <1>15
-----------------------------------------------------------------------------
\* A finite nonempty set of naturals has a greatest element, and Max is it.
LEMMA MaxOfNats ==
  ASSUME NEW S \in SUBSET Nat, IsFiniteSet(S), S # {}
  PROVE  Max(S) \in S /\ \A y \in S : y =< Max(S)
  <1> DEFINE B == {s \in SUBSET S : s # {} /\ ~\E x \in s : \A y \in s : y =< x}
  <1>1. B = {}
    <2> SUFFICES ASSUME B # {} PROVE FALSE
      OBVIOUS
    <2>1. PICK s \in B : \A x \in s : s \ {x} \notin B
      <3>1. \A s \in B : IsFiniteSet(s)
        BY FS_Subset, Zenon
      <3> HIDE DEF B
      <3> QED BY <3>1, SmallestSet, Zenon
    <2>2. PICK x \in s : TRUE
      BY <2>1, Zenon
    <2>3. CASE s \ {x} = {}
      BY <2>1, <2>2, <2>3
    <2>4. CASE s \ {x} # {}
      <3>1. PICK y \in s \ {x} : \A z \in s \ {x} : z =< y
        BY <2>1, <2>2, <2>4
      <3>2. \A z \in s : z \in Nat
        BY <2>1
      <3>3. CASE x =< y
        BY <2>1, <3>1, <3>2, <3>3
      <3>4. CASE y =< x
        BY <2>1, <2>2, <3>1, <3>2, <3>4
      <3> QED BY <2>2, <3>1, <3>2, <3>3, <3>4
    <2> QED BY <2>3, <2>4
  <1>2. \E x \in S : \A y \in S : x >= y
    BY <1>1
  <1> QED BY <1>2, Zenon DEF Max

\* And Min is the least element.
LEMMA MinOfNats ==
  ASSUME NEW S \in SUBSET Nat, S # {}
  PROVE  Min(S) \in S /\ \A y \in S : Min(S) =< y
  BY LeastNat, Zenon DEF Min
-----------------------------------------------------------------------------
\* What it means to be the least, and the greatest, price of a set of sales.
Lowest(p, S) ==
  \/ p = NoPrice /\ Priced(S) = {}
  \/ (\E i \in Priced(S) : p = Price[i]) /\ \A i \in Priced(S) : p =< Price[i]
Highest(p, S) ==
  \/ p = NoPrice /\ Priced(S) = {}
  \/ (\E i \in Priced(S) : p = Price[i]) /\ \A i \in Priced(S) : Price[i] =< p

\* The sales of an hour are finitely many, and their prices are numbers.
LEMMA PricesFinite ==
  ASSUME NEW S \in SUBSET Items
  PROVE  /\ IsFiniteSet(S) /\ IsFiniteSet(Priced(S)) /\ IsFiniteSet(Prices(S))
         /\ Prices(S) \in SUBSET Nat /\ (Priced(S) # {} => Prices(S) # {})
         /\ Cardinality(S) \in Nat /\ Cardinality(Priced(S)) \in Nat
  <1>1. IsFiniteSet(S) /\ IsFiniteSet(Priced(S))
    BY PriceAssumption, FS_Subset DEF Priced
  <1>2. IsFiniteSet(Prices(S))
    <2> DEFINE f == [i \in Priced(S) |-> Price[i]]
    <2>1. f \in Surjection(Priced(S), Prices(S))
      BY DEF Surjection, Prices
    <2> HIDE DEF f
    <2> QED BY <1>1, <2>1, FS_Surjection
  <1>3. Prices(S) \in SUBSET Nat /\ (Priced(S) # {} => Prices(S) # {})
    BY PriceAssumption DEF Prices, Priced
  <1> QED BY <1>1, <1>2, <1>3, FS_CardinalityType

\* MinPrice is the least price, and nothing else is.
LEMMA LowestIsMin ==
  ASSUME NEW S \in SUBSET Items
  PROVE  Lowest(MinPrice(S), S) /\ \A p : Lowest(p, S) => p = MinPrice(S)
  <1>1. CASE Priced(S) = {}
    BY <1>1 DEF Lowest, MinPrice
  <1>2. CASE Priced(S) # {}
    <2>1. Min(Prices(S)) \in Prices(S) /\ \A y \in Prices(S) : Min(Prices(S)) =< y
      BY <1>2, PricesFinite, MinOfNats
    <2>2. MinPrice(S) = Min(Prices(S)) /\ Prices(S) \in SUBSET Nat
      BY <1>2, PricesFinite DEF MinPrice
    <2>3. Lowest(MinPrice(S), S)
      BY <2>1, <2>2 DEF Lowest, Prices
    <2>4. ASSUME NEW p, Lowest(p, S) PROVE p = MinPrice(S)
      <3>1. p \in Prices(S) /\ \A y \in Prices(S) : p =< y
        BY <1>2, <2>4 DEF Lowest, Prices
      <3> QED BY <2>1, <2>2, <3>1
    <2> QED BY <2>3, <2>4
  <1> QED BY <1>1, <1>2

\* And MaxPrice is the greatest.
LEMMA HighestIsMax ==
  ASSUME NEW S \in SUBSET Items
  PROVE  Highest(MaxPrice(S), S) /\ \A p : Highest(p, S) => p = MaxPrice(S)
  <1>1. CASE Priced(S) = {}
    BY <1>1 DEF Highest, MaxPrice
  <1>2. CASE Priced(S) # {}
    <2>1. Max(Prices(S)) \in Prices(S) /\ \A y \in Prices(S) : y =< Max(Prices(S))
      BY <1>2, PricesFinite, MaxOfNats
    <2>2. MaxPrice(S) = Max(Prices(S)) /\ Prices(S) \in SUBSET Nat
      BY <1>2, PricesFinite DEF MaxPrice
    <2>3. Highest(MaxPrice(S), S)
      BY <2>1, <2>2 DEF Highest, Prices
    <2>4. ASSUME NEW p, Highest(p, S) PROVE p = MaxPrice(S)
      <3>1. p \in Prices(S) /\ \A y \in Prices(S) : y =< p
        BY <1>2, <2>4 DEF Highest, Prices
      <3> QED BY <2>1, <2>2, <3>1
    <2> QED BY <2>3, <2>4
  <1> QED BY <1>1, <1>2

\* The extremes of the hour and of a crawl give those of both: the smaller of
\* the two, where a NULL is no price at all.
LEMMA MinOfBoth ==
  ASSUME NEW S \in SUBSET Items, NEW T \in SUBSET Items
  PROVE  /\ MinPrice(S \cup T) =
              IF MinPrice(T) # NoPrice /\ (MinPrice(S) = NoPrice \/ MinPrice(T) < MinPrice(S))
              THEN MinPrice(T) ELSE MinPrice(S)
         /\ MinPrice(S) \in Nat
  <1> DEFINE p == MinPrice(S)
             q == MinPrice(T)
             m == IF q # NoPrice /\ (p = NoPrice \/ q < p) THEN q ELSE p
  <1>1. Lowest(p, S) /\ Lowest(q, T)
    BY LowestIsMin
  <1>2. Priced(S \cup T) = Priced(S) \cup Priced(T)
    BY DEF Priced
  <1>3. \A i \in Priced(S) \cup Priced(T) : Price[i] \in Nat /\ Price[i] > 0
    BY PriceAssumption DEF Priced
  <1>4. \A r : Lowest(r, S \cup T) => r = MinPrice(S \cup T)
    <2>1. S \cup T \in SUBSET Items
      OBVIOUS
    <2> QED BY <2>1, LowestIsMin
  <1> HIDE DEF p, q
  <1>5. p \in Nat /\ q \in Nat
    BY <1>1, <1>3 DEF Lowest, NoPrice
  <1>6. Lowest(m, S \cup T)
    BY <1>1, <1>2, <1>3, <1>5 DEF Lowest, NoPrice
  <1>7. m = MinPrice(S \cup T)
    BY <1>4, <1>6
  <1> QED BY <1>5, <1>7 DEF p, q

\* The same for the greater of the two.
LEMMA MaxOfBoth ==
  ASSUME NEW S \in SUBSET Items, NEW T \in SUBSET Items
  PROVE  /\ MaxPrice(S \cup T) =
              IF MaxPrice(T) # NoPrice /\ (MaxPrice(S) = NoPrice \/ MaxPrice(T) > MaxPrice(S))
              THEN MaxPrice(T) ELSE MaxPrice(S)
         /\ MaxPrice(S) \in Nat
  <1> DEFINE p == MaxPrice(S)
             q == MaxPrice(T)
             m == IF q # NoPrice /\ (p = NoPrice \/ q > p) THEN q ELSE p
  <1>1. Highest(p, S) /\ Highest(q, T)
    BY HighestIsMax
  <1>2. Priced(S \cup T) = Priced(S) \cup Priced(T)
    BY DEF Priced
  <1>3. \A i \in Priced(S) \cup Priced(T) : Price[i] \in Nat /\ Price[i] > 0
    BY PriceAssumption DEF Priced
  <1>4. \A r : Highest(r, S \cup T) => r = MaxPrice(S \cup T)
    <2>1. S \cup T \in SUBSET Items
      OBVIOUS
    <2> QED BY <2>1, HighestIsMax
  <1> HIDE DEF p, q
  <1>5. p \in Nat /\ q \in Nat
    BY <1>1, <1>3 DEF Highest, NoPrice
  <1>6. Highest(m, S \cup T)
    BY <1>1, <1>2, <1>3, <1>5 DEF Highest, NoPrice
  <1>7. m = MaxPrice(S \cup T)
    BY <1>4, <1>6
  <1> QED BY <1>5, <1>7 DEF p, q

RowType ==
  [inserted : BOOLEAN, inflow : Nat, outflow : Nat, liquidity : [num : Nat, den : Nat],
   minPrice : Nat, minItem : Items \cup {NoItem}, maxPrice : Nat, maxItem : Items \cup {NoItem},
   samples : Nat]

\* The columns of u when the batch is added to r.
Merged(u, r, in, batch) ==
  /\ u \in RowType /\ u.inserted = r.inserted
  /\ u.inflow = r.inflow + in /\ u.outflow = r.outflow + Cardinality(batch)
  /\ u.samples = r.samples + Cardinality(Priced(batch))
  /\ u.minPrice = IF Lower(r, MinPrice(batch)) THEN MinPrice(batch) ELSE r.minPrice
  /\ u.maxPrice = IF Higher(r, MaxPrice(batch)) THEN MaxPrice(batch) ELSE r.maxPrice

\* The columns after the ON DUPLICATE KEY UPDATE, assignment by assignment.
LEMMA UpdatedColumns ==
  ASSUME NEW r \in RowType, NEW in \in Nat, NEW batch \in SUBSET Items,
         NEW lo \in Items \cup {NoItem}, NEW hi \in Items \cup {NoItem}
  PROVE  Merged(Updated(r, in, batch, lo, hi), r, in, batch)
  <1> DEFINE out == Cardinality(batch)
             n == Cardinality(Priced(batch))
             p == MinPrice(batch)
             q == MaxPrice(batch)
             a1 == SetInflow(r, in)
             a == SetLiquidity(a1, in, out)
             b1 == SetMaxPrice(a, q)
             b == SetMaxPriceItem(b1, q, hi)
             c1 == SetMinPrice(b, p)
             c == SetMinPriceItem(c1, p, lo)
             u1 == SetOutflow(c, out)
             u == SetSamples(u1, n)
  <1>1. out \in Nat /\ n \in Nat /\ p \in Nat /\ q \in Nat
    BY PricesFinite, MinOfBoth, MaxOfBoth
  <1>2. Updated(r, in, batch, lo, hi) = u
    BY DEF Updated
  <1> HIDE DEF out, n, p, q
  <1>3. /\ a \in RowType /\ a.inserted = r.inserted /\ a.inflow = r.inflow + in /\ a.outflow = r.outflow
        /\ a.samples = r.samples /\ a.minPrice = r.minPrice /\ a.maxPrice = r.maxPrice
    <2>1. /\ a1 \in RowType /\ a1.inserted = r.inserted /\ a1.inflow = r.inflow + in /\ a1.outflow = r.outflow
          /\ a1.samples = r.samples /\ a1.minPrice = r.minPrice /\ a1.maxPrice = r.maxPrice
      BY DEF SetInflow, RowType
    <2> HIDE DEF a1
    <2> DEFINE v == IF a1.inflow + in > 0 THEN Ratio(a1.outflow + out, a1.inflow + in) ELSE NoRatio
    <2>2. v \in [num : Nat, den : Nat]
      BY <1>1, <2>1 DEF RowType, Ratio, NoRatio
    <2>3. a = [a1 EXCEPT !.liquidity = v]
      BY DEF SetLiquidity
    <2> HIDE DEF v, a
    <2> QED BY <2>1, <2>2, <2>3 DEF RowType
  <1> HIDE DEF a
  <1>4. /\ b1 \in RowType /\ b1.inserted = a.inserted /\ b1.inflow = a.inflow /\ b1.outflow = a.outflow
        /\ b1.samples = a.samples /\ b1.minPrice = a.minPrice
        /\ b1.maxPrice = IF Higher(r, q) THEN q ELSE r.maxPrice
    BY <1>1, <1>3 DEF SetMaxPrice, Higher, RowType
  <1> HIDE DEF b1
  <1>5. /\ b \in RowType /\ b.inserted = b1.inserted /\ b.inflow = b1.inflow /\ b.outflow = b1.outflow
        /\ b.samples = b1.samples /\ b.minPrice = b1.minPrice /\ b.maxPrice = b1.maxPrice
    BY <1>4 DEF SetMaxPriceItem, RowType
  <1> HIDE DEF b
  <1>6. /\ c1 \in RowType /\ c1.inserted = b.inserted /\ c1.inflow = b.inflow /\ c1.outflow = b.outflow
        /\ c1.samples = b.samples /\ c1.maxPrice = b.maxPrice
        /\ c1.minPrice = IF Lower(r, p) THEN p ELSE r.minPrice
    BY <1>1, <1>3, <1>4, <1>5 DEF SetMinPrice, Lower, RowType
  <1> HIDE DEF c1
  <1>7. /\ c \in RowType /\ c.inserted = c1.inserted /\ c.inflow = c1.inflow /\ c.outflow = c1.outflow
        /\ c.samples = c1.samples /\ c.minPrice = c1.minPrice /\ c.maxPrice = c1.maxPrice
    BY <1>6 DEF SetMinPriceItem, RowType
  <1> HIDE DEF c
  <1>8. /\ u \in RowType /\ u.inserted = c.inserted /\ u.inflow = c.inflow /\ u.outflow = c.outflow + out
        /\ u.samples = c.samples + n /\ u.minPrice = c.minPrice /\ u.maxPrice = c.maxPrice
    <2>1. /\ u1 \in RowType /\ u1.inserted = c.inserted /\ u1.inflow = c.inflow /\ u1.outflow = c.outflow + out
          /\ u1.samples = c.samples /\ u1.minPrice = c.minPrice /\ u1.maxPrice = c.maxPrice
      BY <1>1, <1>7 DEF SetOutflow, RowType
    <2> HIDE DEF u1
    <2> QED BY <1>1, <2>1 DEF SetSamples, RowType
  <1> HIDE DEF u
  <1>9. Merged(u, r, in, batch)
    BY <1>3, <1>4, <1>5, <1>6, <1>7, <1>8 DEF out, n, p, q, Merged
  <1> QED BY <1>2, <1>9

\* An item is in the row at most once (an item that is gone is not sold again),
\* and a row that is not inserted has nothing to say.
RowInv ==
  /\ gone \in SUBSET Items /\ sold \in SUBSET gone /\ listed \in Nat
  /\ row \in RowType
  /\ row.inserted = FALSE => sold = {} /\ listed = 0
  /\ RowSummarisesHour

\* The empty row, of the first hour or of the next one.
LEMMA EmptyRow ==
  /\ Empty \in RowType /\ Empty.inserted = FALSE
  /\ Empty.minPrice = MinPrice({}) /\ Empty.maxPrice = MaxPrice({})
  /\ Empty.outflow = Cardinality({}) /\ Empty.samples = Cardinality(Priced({})) /\ Empty.inflow = 0
  <1>1. Priced({}) = {} /\ Cardinality({}) = 0
    BY FS_EmptySet DEF Priced
  <1> QED BY <1>1 DEF Empty, RowType, NoRatio, Ratio, NoPrice, NoItem, MinPrice, MaxPrice

\* Nothing is sold in the beginning.
LEMMA InitRow == Init => RowInv
  BY EmptyRow DEF Init, RowInv, RowSummarisesHour

\* The item of an extreme is a sale of the crawl, or NULL.
LEMMA ItemTypes ==
  ASSUME NEW batch \in SUBSET Items, NEW p
  PROVE  ItemsAt(batch, p) \in SUBSET (Items \cup {NoItem})
  BY DEF ItemsAt

\* How many there are of two sets of sales with nothing in common.
LEMMA CountBoth ==
  ASSUME NEW S \in SUBSET Items, NEW T \in SUBSET Items, S \cap T = {}
  PROVE  /\ Cardinality(S \cup T) = Cardinality(S) + Cardinality(T)
         /\ Cardinality(Priced(S \cup T)) = Cardinality(Priced(S)) + Cardinality(Priced(T))
  <1>1. ASSUME NEW A, NEW B, IsFiniteSet(A), IsFiniteSet(B), A \cap B = {}
        PROVE  Cardinality(A \cup B) = Cardinality(A) + Cardinality(B)
    <2>1. Cardinality(A \cap B) = 0 /\ Cardinality(A) \in Nat /\ Cardinality(B) \in Nat
      BY <1>1, FS_EmptySet, FS_CardinalityType, Zenon
    <2>2. Cardinality(A \cup B) = Cardinality(A) + Cardinality(B) - Cardinality(A \cap B)
      BY <1>1, FS_Union
    <2> QED BY <2>1, <2>2
  <1>2. Priced(S \cup T) = Priced(S) \cup Priced(T) /\ Priced(S) \cap Priced(T) = {}
    BY DEF Priced
  <1>3. IsFiniteSet(S) /\ IsFiniteSet(T) /\ IsFiniteSet(Priced(S)) /\ IsFiniteSet(Priced(T))
    BY PricesFinite
  <1>4. Cardinality(S \cup T) = Cardinality(S) + Cardinality(T)
    BY <1>1, <1>3
  <1>5. Cardinality(Priced(S) \cup Priced(T)) = Cardinality(Priced(S)) + Cardinality(Priced(T))
    BY <1>1, <1>2, <1>3
  <1> QED BY <1>2, <1>4, <1>5

\* AggregateHourlyStats: the row and the totals of the hour go together.
LEMMA CrawlRow ==
  ASSUME RowInv, NEW in \in 0 .. MaxInflow, NEW batch \in SUBSET (Items \ gone), Crawl(in, batch)
  PROVE  /\ RowInv'
         /\ row'.inserted = TRUE
         /\ row'.inflow = row.inflow + in /\ row'.outflow = row.outflow + Cardinality(batch)
  <1> in \in Nat
    BY CrawlBounds
  <1>1. PICK lo \in ItemsAt(batch, MinPrice(batch)), hi \in ItemsAt(batch, MaxPrice(batch)) :
          row' = IF row.inserted THEN Updated(row, in, batch, lo, hi) ELSE Fresh(in, batch, lo, hi)
    BY DEF Crawl, AggregateHourlyStats
  <1>2. sold' = sold \cup batch /\ listed' = listed + in /\ gone' = gone \cup batch
    BY DEF Crawl, AggregateHourlyStats
  <1>3. /\ batch \in SUBSET Items /\ sold \in SUBSET Items /\ sold \cap batch = {}
        /\ lo \in Items \cup {NoItem} /\ hi \in Items \cup {NoItem}
    <2>1. batch \in SUBSET Items /\ sold \in SUBSET Items /\ sold \cap batch = {}
      BY DEF RowInv
    <2> QED BY <2>1, ItemTypes
  <1>4. row \in RowType /\ row.inserted \in BOOLEAN /\ row.inflow \in Nat /\ row.outflow \in Nat
    BY DEF RowInv, RowType
  <1>5. gone' \in SUBSET Items /\ sold' \in SUBSET gone' /\ listed' \in Nat
    BY <1>2, <1>3 DEF RowInv
  <1>6. /\ row.minPrice = MinPrice(sold) /\ row.maxPrice = MaxPrice(sold)
        /\ row.outflow = Cardinality(sold) /\ row.samples = Cardinality(Priced(sold))
        /\ row.inflow = listed
    BY DEF RowInv, RowSummarisesHour
  <1>7. /\ Cardinality(sold') = Cardinality(sold) + Cardinality(batch)
        /\ Cardinality(Priced(sold')) = Cardinality(Priced(sold)) + Cardinality(Priced(batch))
    BY <1>2, <1>3, CountBoth
  <1>8. CASE row.inserted = TRUE
    <2>1. row' = Updated(row, in, batch, lo, hi)
      BY <1>1, <1>8
    <2>2. /\ row' \in RowType /\ row'.inserted = TRUE
          /\ row'.inflow = row.inflow + in /\ row'.outflow = row.outflow + Cardinality(batch)
          /\ row'.samples = row.samples + Cardinality(Priced(batch))
          /\ row'.minPrice = IF Lower(row, MinPrice(batch)) THEN MinPrice(batch) ELSE row.minPrice
          /\ row'.maxPrice = IF Higher(row, MaxPrice(batch)) THEN MaxPrice(batch) ELSE row.maxPrice
      <3>1. row \in RowType /\ in \in Nat /\ batch \in SUBSET Items
            /\ lo \in Items \cup {NoItem} /\ hi \in Items \cup {NoItem}
        BY <1>3, <1>4
      <3>2. Merged(Updated(row, in, batch, lo, hi), row, in, batch)
        BY <3>1, UpdatedColumns, Zenon
      <3>3. Merged(row', row, in, batch)
        BY <2>1, <3>2, Zenon
      <3> QED BY <1>8, <3>3 DEF Merged
    <2>3. row'.minPrice = MinPrice(sold')
      BY <1>2, <1>3, <1>6, <2>2, MinOfBoth DEF Lower
    <2>4. row'.maxPrice = MaxPrice(sold')
      BY <1>2, <1>3, <1>6, <2>2, MaxOfBoth DEF Higher
    <2>5. row'.outflow = Cardinality(sold') /\ row'.samples = Cardinality(Priced(sold')) /\ row'.inflow = listed'
      BY <1>2, <1>6, <1>7, <2>2
    <2>6. RowSummarisesHour'
      BY <2>3, <2>4, <2>5 DEF RowSummarisesHour, MinPrice, MaxPrice, Priced, Prices
    <2> QED BY <1>5, <2>2, <2>6 DEF RowInv, RowType
  <1>9. CASE row.inserted = FALSE
    <2>1. row' = Fresh(in, batch, lo, hi)
      BY <1>1, <1>9
    <2>2. sold = {} /\ listed = 0
      BY <1>9 DEF RowInv
    <2>3. sold' = batch /\ listed' = in
      BY <1>2, <2>2
    <2>4. /\ row' \in RowType /\ row'.inserted = TRUE /\ row'.inflow = in /\ row'.outflow = Cardinality(batch)
          /\ row'.samples = Cardinality(Priced(batch))
          /\ row'.minPrice = MinPrice(batch) /\ row'.maxPrice = MaxPrice(batch)
      <3>1. /\ Cardinality(batch) \in Nat /\ Cardinality(Priced(batch)) \in Nat
            /\ MinPrice(batch) \in Nat /\ MaxPrice(batch) \in Nat
        BY <1>3, PricesFinite, MinOfBoth, MaxOfBoth
      <3> QED BY <1>3, <2>1, <3>1 DEF Fresh, RowType, Ratio, NoRatio
    <2>5. row.inflow = 0 /\ row.outflow = 0 /\ Cardinality(batch) \in Nat
      BY <1>3, <1>6, <2>2, FS_EmptySet, PricesFinite
    <2>6. RowSummarisesHour'
      BY <2>3, <2>4 DEF RowSummarisesHour, MinPrice, MaxPrice, Priced, Prices
    <2>7. RowInv'
      BY <1>5, <2>4, <2>6 DEF RowInv, RowType
    <2> QED BY <2>4, <2>5, <2>7
  <1> QED BY <1>4, <1>8, <1>9, Zenon

\* The row of the next hour is empty, and nothing else touches the row.
LEMMA NextRow == RowInv /\ [Next]_vars => RowInv'
  <1> SUFFICES ASSUME RowInv, [Next]_vars PROVE RowInv'
    OBVIOUS
  <1>1. ASSUME NEW in \in 0 .. MaxInflow, NEW batch \in SUBSET (Items \ gone), Crawl(in, batch) PROVE RowInv'
    BY <1>1, CrawlRow, Zenon
  <1>2. CASE HourEnds
    <2>1. row' = Empty /\ sold' = {} /\ listed' = 0 /\ gone' = gone
      BY <1>2 DEF HourEnds, NextBucket
    <2>2. RowSummarisesHour'
      BY <2>1, EmptyRow DEF RowSummarisesHour, MinPrice, MaxPrice, Priced, Prices
    <2> QED BY <2>1, <2>2, EmptyRow DEF RowInv
  <1>3. ASSUME UNCHANGED <<rowVars, gone>> PROVE RowInv'
    BY <1>3 DEF RowInv, RowSummarisesHour, rowVars, MinPrice, MaxPrice, Priced, Prices
  <1>4. CASE RunDailyArchive \/ RunWeeklyArchive \/ RunMonthlyArchive \/ RunCleanup \/ Missed
    BY <1>3, <1>4 DEF RunDailyArchive, RunWeeklyArchive, RunMonthlyArchive, RunCleanup, Missed
  <1>5. ASSUME NEW d \in DOMAIN truth, TriggerDailyArchive(d) \/ TriggerWeeklyArchive(d) PROVE RowInv'
    BY <1>3, <1>5 DEF TriggerDailyArchive, TriggerWeeklyArchive
  <1>6. CASE UNCHANGED vars
    BY <1>3, <1>6 DEF vars
  <1> QED BY <1>1, <1>2, <1>4, <1>5, <1>6 DEF Next

\* AggregateHourlyStats: however the sales of an hour are spread over its
\* crawls, the row has their extremes and their numbers.
THEOREM RowIsSummary == Spec => []RowSummarisesHour
  <1>1. RowInv => RowSummarisesHour
    BY DEF RowInv
  <1> QED BY <1>1, InitRow, NextRow, PTL DEF Spec
-----------------------------------------------------------------------------
\* The constants of the calendar and of the clean-up are numbers.
LEMMA CalendarNumbers ==
  /\ HoursPerDay \in Nat /\ HoursPerDay > 0 /\ WeekLength \in Nat /\ WeekLength > 0 /\ MaxDay \in Nat
  /\ HourlyRetention \in Nat /\ SnapshotAge \in Nat /\ SnapshotAge > 0 /\ DailyRetention \in Nat
  /\ DailyRetention >= WeekLength /\ WeeklyRetention \in Nat
  BY CalendarAssumption, RetentionAssumption

Monday(w) == \E q \in Int : w = WeekLength * q

\* Division with a remainder.
LEMMA Division ==
  ASSUME NEW d \in Int, NEW n \in Int, n > 0
  PROVE  (\E q \in Int : d = n * q + (d % n)) /\ d % n \in 0 .. n - 1
  <1>1. \E q \in Int : d = n * q + (d % n)
    BY Z3
  <1>2. d % n \in 0 .. n - 1
    OBVIOUS
  <1> QED BY <1>1, <1>2

\* Multiples are a whole length apart.
LEMMA Multiples ==
  ASSUME NEW a \in Int, NEW b \in Int, NEW n \in Int, n > 0, n * a < n * b
  PROVE  n * a + n =< n * b
  <1>1. a < b
    OBVIOUS
  <1>2. PICK c \in Nat : b = a + 1 + c
    <2>1. b - a - 1 \in Nat /\ b = a + 1 + (b - a - 1)
      BY <1>1
    <2> QED BY <2>1
  <1>3. n * b = n * a + n + n * c
    BY <1>2
  <1>4. n * c \in Nat /\ n * a \in Int /\ n * b \in Int
    OBVIOUS
  <1> QED BY <1>3, <1>4

\* toMondayJST: the Monday of the week the day lies in.
LEMMA MondayOfDay ==
  ASSUME NEW d \in Int
  PROVE  /\ ToMonday(d) \in Int /\ Monday(ToMonday(d))
         /\ ToMonday(d) =< d /\ d < ToMonday(d) + WeekLength
         /\ (d % WeekLength = 0 => ToMonday(d) = d)
  <1>1. WeekLength \in Int /\ WeekLength > 0
    BY CalendarNumbers
  <1>2. d % WeekLength \in 0 .. WeekLength - 1 /\ \E q \in Int : d = WeekLength * q + (d % WeekLength)
    BY <1>1, Division
  <1>3. PICK q \in Int : d = WeekLength * q + (d % WeekLength)
    BY <1>2
  <1>4. WeekLength * q \in Int
    BY <1>1
  <1> DEFINE r == d % WeekLength
             m == WeekLength * q
  <1>5. r \in Int /\ 0 =< r /\ r < WeekLength /\ d = m + r /\ m \in Int
    BY <1>1, <1>2, <1>3, <1>4
  <1>6. ToMonday(d) = d - r
    BY DEF ToMonday
  <1> HIDE DEF r, m
  <1>7. ToMonday(d) = m
    BY <1>5, <1>6
  <1>8. Monday(m)
    BY DEF Monday, m
  <1>9. d % WeekLength = 0 => m = d
    BY <1>5 DEF r
  <1> QED BY <1>1, <1>5, <1>7, <1>8, <1>9

\* Different weeks do not overlap.
LEMMA WeeksApart ==
  ASSUME NEW v \in Int, NEW w \in Int, Monday(v), Monday(w), v < w
  PROVE  v + WeekLength =< w
  <1>1. WeekLength \in Int /\ WeekLength > 0
    BY CalendarNumbers
  <1>2. PICK a \in Int : v = WeekLength * a
    BY DEF Monday
  <1>3. PICK b \in Int : w = WeekLength * b
    BY DEF Monday
  <1>4. WeekLength * a < WeekLength * b
    BY <1>2, <1>3
  <1> QED BY <1>1, <1>2, <1>3, <1>4, Multiples

\* A day lies in one week only.
LEMMA WeekOfDay ==
  ASSUME NEW d \in Int, NEW w \in Int, Monday(w), w =< d, d < w + WeekLength
  PROVE  ToMonday(d) = w
  <1>1. WeekLength \in Int /\ ToMonday(d) \in Int /\ Monday(ToMonday(d))
        /\ ToMonday(d) =< d /\ d < ToMonday(d) + WeekLength
    BY MondayOfDay, CalendarNumbers
  <1>2. ~(ToMonday(d) < w)
    BY <1>1, WeeksApart
  <1>3. ~(w < ToMonday(d))
    BY <1>1, WeeksApart
  <1> QED BY <1>1, <1>2, <1>3

\* A later day lies in the same week or in a later one.
LEMMA MondayMonotone ==
  ASSUME NEW d \in Int, NEW e \in Int, d =< e
  PROVE  ToMonday(d) =< ToMonday(e)
  <1>1. /\ WeekLength \in Int /\ ToMonday(d) \in Int /\ Monday(ToMonday(d)) /\ ToMonday(d) =< d
        /\ ToMonday(e) \in Int /\ Monday(ToMonday(e)) /\ e < ToMonday(e) + WeekLength
    BY MondayOfDay, CalendarNumbers
  <1>2. ~(ToMonday(e) < ToMonday(d))
    BY <1>1, WeeksApart
  <1> QED BY <1>1, <1>2

\* The days of a week, by their Monday.
LEMMA DaysOfWeek ==
  ASSUME NEW w \in Int, Monday(w)
  PROVE  /\ \A d \in Int : d \in WeekDays(w) <=> ToMonday(d) = w
         /\ \A d \in WeekDays(w) : d \in Int /\ w =< d /\ d < w + WeekLength
         /\ ToMonday(w) = w
  <1>1. WeekLength \in Int /\ WeekLength > 0
    BY CalendarNumbers
  <1>2. ASSUME NEW d \in Int PROVE d \in WeekDays(w) <=> ToMonday(d) = w
    BY <1>1, MondayOfDay, WeekOfDay DEF WeekDays
  <1>3. \A d \in WeekDays(w) : d \in Int /\ w =< d /\ d < w + WeekLength
    BY <1>1 DEF WeekDays
  <1>4. ToMonday(w) = w
    BY <1>1, WeekOfDay
  <1> QED BY <1>2, <1>3, <1>4
-----------------------------------------------------------------------------
RowTotals == [inflow : Nat, outflow : Nat, samples : Nat]
IsTable(f) == \A k \in DOMAIN f : f[k] \in RowTotals
AtMost(r, s) == r.inflow =< s.inflow /\ r.outflow =< s.outflow /\ r.samples =< s.samples

\* Totals are the same when their columns are.
LEMMA SameTotals ==
  ASSUME NEW r \in RowTotals, NEW s \in RowTotals,
         r.inflow = s.inflow, r.outflow = s.outflow, r.samples = s.samples
  PROVE  r = s
  BY DEF RowTotals

\* The columns of a sum are the sums of the columns.
LEMMA SumOfTable ==
  ASSUME NEW f, IsTable(f), NEW K \in SUBSET DOMAIN f, IsFiniteSet(K)
  PROVE  /\ Sum(f, K) \in RowTotals
         /\ Sum(f, K).inflow = SumFunctionOnSet(Column(f, "inflow"), K)
         /\ Sum(f, K).outflow = SumFunctionOnSet(Column(f, "outflow"), K)
         /\ Sum(f, K).samples = SumFunctionOnSet(Column(f, "samples"), K)
  <1>1. ASSUME NEW c \in {"inflow", "outflow", "samples"} PROVE SumFunctionOnSet(Column(f, c), K) \in Nat
    <2> DEFINE g == Column(f, c)
    <2>1. \A k \in K : g[k] \in Nat
      BY DEF Column, IsTable, RowTotals
    <2> HIDE DEF g
    <2>2. SumFunctionOnSet(g, K) \in Nat
      BY <2>1, SumNat
    <2> QED BY <2>2 DEF g
  <1> QED BY <1>1 DEF Sum, Totals, RowTotals

\* What a table says about other keys does not matter.
LEMMA SumOfSameRows ==
  ASSUME NEW f, NEW g, IsTable(f), IsTable(g), NEW K \in SUBSET DOMAIN f, K \subseteq DOMAIN g, IsFiniteSet(K),
         \A k \in K : f[k] = g[k]
  PROVE  Sum(f, K) = Sum(g, K)
  <1>1. ASSUME NEW c \in {"inflow", "outflow", "samples"}
        PROVE  SumFunctionOnSet(Column(f, c), K) = SumFunctionOnSet(Column(g, c), K)
    <2> DEFINE a == Column(f, c)
               b == Column(g, c)
    <2>1. \A k \in K : a[k] \in Nat /\ a[k] = b[k]
      BY DEF Column, IsTable, RowTotals
    <2> HIDE DEF a, b
    <2>2. SumFunctionOnSet(a, K) = SumFunctionOnSet(b, K)
      BY <2>1, SumSame
    <2> QED BY <2>2 DEF a, b
  <1> QED BY <1>1 DEF Sum

\* Fewer and smaller rows add up to less.
LEMMA SumOfSmallerRows ==
  ASSUME NEW f, NEW g, IsTable(f), IsTable(g), NEW K \in SUBSET DOMAIN g, NEW J \in SUBSET K, J \subseteq DOMAIN f,
         IsFiniteSet(K), \A k \in J : AtMost(f[k], g[k])
  PROVE  AtMost(Sum(f, J), Sum(g, K))
  <1>0. IsFiniteSet(J)
    BY FS_Subset
  <1>1. ASSUME NEW c \in {"inflow", "outflow", "samples"}
        PROVE  SumFunctionOnSet(Column(f, c), J) =< SumFunctionOnSet(Column(g, c), K)
    <2> DEFINE a == Column(f, c)
               b == Column(g, c)
    <2>1. \A k \in K : b[k] \in Nat
      BY DEF Column, IsTable, RowTotals
    <2>2. \A k \in J : a[k] \in Nat /\ a[k] =< b[k]
      BY DEF Column, IsTable, RowTotals, AtMost
    <2> HIDE DEF a, b
    <2>3. SumFunctionOnSet(a, J) =< SumFunctionOnSet(b, K)
      BY <2>1, <2>2, SumMonotone
    <2> QED BY <2>3 DEF a, b
  <1> QED BY <1>0, <1>1, SumOfTable DEF AtMost

\* Column by column, s is a and b together.
AddsUp(s, a, b) ==
  /\ s.inflow = a.inflow + b.inflow /\ s.outflow = a.outflow + b.outflow
  /\ s.samples = a.samples + b.samples

\* One more row.
LEMMA SumWithRow ==
  ASSUME NEW f, IsTable(f), NEW k \in DOMAIN f, NEW K \in SUBSET DOMAIN f, k \notin K, IsFiniteSet(K)
  PROVE  AddsUp(Sum(f, K \cup {k}), Sum(f, K), f[k]) /\ IsFiniteSet(K \cup {k})
  <1>0. IsFiniteSet(K \cup {k}) /\ K \cup {k} \in SUBSET DOMAIN f
    BY FS_AddElement
  <1>1. ASSUME NEW c \in {"inflow", "outflow", "samples"}
        PROVE  SumFunctionOnSet(Column(f, c), K \cup {k}) = SumFunctionOnSet(Column(f, c), K) + f[k][c]
    <2> DEFINE a == Column(f, c)
    <2>1. \A j \in K \cup {k} : a[j] \in Nat
      BY DEF Column, IsTable, RowTotals
    <2>2. a[k] = f[k][c]
      BY DEF Column
    <2> HIDE DEF a
    <2>3. SumFunctionOnSet(a, K \cup {k}) = a[k] + SumFunctionOnSet(a, K)
      BY <2>1, SumAdd
    <2>4. SumFunctionOnSet(a, K) \in Nat /\ a[k] \in Nat
      BY <2>1, SumNat
    <2>5. SumFunctionOnSet(a, K \cup {k}) = SumFunctionOnSet(a, K) + f[k][c]
      BY <2>2, <2>3, <2>4
    <2> QED BY <2>5 DEF a
  <1>2. /\ Sum(f, K \cup {k}).inflow = Sum(f, K).inflow + f[k].inflow
        /\ Sum(f, K \cup {k}).outflow = Sum(f, K).outflow + f[k].outflow
        /\ Sum(f, K \cup {k}).samples = Sum(f, K).samples + f[k].samples
    BY <1>0, <1>1, SumOfTable
  <1> QED BY <1>0, <1>2 DEF AddsUp

\* No rows, no totals.
LEMMA SumOfNoRows == ASSUME NEW f PROVE Sum(f, {}) = Nothing
  BY SumEmpty DEF Sum, Nothing

\* A row is written and the others stay as they are.
LEMMA PutRow ==
  ASSUME NEW f, NEW k, NEW v
  PROVE  /\ DOMAIN Put(f, k, v) = DOMAIN f \cup {k} /\ Put(f, k, v)[k] = v
         /\ \A j \in DOMAIN f : j # k => Put(f, k, v)[j] = f[j]
         /\ (IsTable(f) /\ v \in RowTotals => IsTable(Put(f, k, v)))
  BY DEF Put, IsTable

\* Totals of which columns may be missing.
Partial(v, t) == \A c \in {"inflow", "outflow", "samples"} : v[c] \in {0, t[c]}

\* A row is written whose totals t have only grown: a full one as it is, and
\* one with columns missing does no harm.
Written(g, f, k, v, t) ==
  /\ IsTable(g) /\ DOMAIN g = DOMAIN f \cup {k}
  /\ \A j \in DOMAIN f : j # k => g[j] = f[j]
  /\ AtMost(g[k], t) /\ (v = t => g[k] = t)
  /\ k \in DOMAIN f /\ f[k] = t /\ Partial(v, t) => g[k] = t

\* GORM's update leaves the columns that are zero as they were.
LEMMA UpsertRow ==
  ASSUME NEW f, IsTable(f), NEW k, NEW v \in RowTotals, NEW t \in RowTotals,
         k \in DOMAIN f => AtMost(f[k], t), AtMost(v, t)
  PROVE  Written(Upsert(f, k, v), f, k, v, t)
  <1> DEFINE g == Upsert(f, k, v)
  <1> DEFINE u == IF k \in DOMAIN f THEN [c \in DOMAIN v |-> IF v[c] = 0 THEN f[k][c] ELSE v[c]] ELSE v
  <1>1. g = Put(f, k, u)
    BY DEF Upsert
  <1>2. u \in RowTotals /\ AtMost(u, t)
    <2>1. CASE k \in DOMAIN f
      BY <2>1 DEF IsTable, RowTotals, AtMost
    <2> QED BY <2>1
  <1>3. v = t => u = t
    <2>1. CASE k \in DOMAIN f
      <3> SUFFICES ASSUME v = t PROVE u = t
        OBVIOUS
      <3>1. u.inflow = t.inflow /\ u.outflow = t.outflow /\ u.samples = t.samples
        BY <2>1 DEF IsTable, RowTotals, AtMost
      <3> HIDE DEF u
      <3> QED BY <1>2, <3>1, SameTotals
    <2> QED BY <2>1
  <1>4. k \in DOMAIN f /\ f[k] = t /\ Partial(v, t) => u = t
    <2> SUFFICES ASSUME k \in DOMAIN f, f[k] = t, Partial(v, t) PROVE u = t
      OBVIOUS
    <2>1. u.inflow = t.inflow /\ u.outflow = t.outflow /\ u.samples = t.samples
      BY DEF RowTotals, Partial
    <2> HIDE DEF u
    <2> QED BY <1>2, <2>1, SameTotals
  <1> HIDE DEF u
  <1>5. /\ DOMAIN g = DOMAIN f \cup {k} /\ g[k] = u /\ IsTable(g)
        /\ \A j \in DOMAIN f : j # k => g[j] = f[j]
    BY <1>1, <1>2 DEF Put, IsTable
  <1> QED BY <1>2, <1>3, <1>4, <1>5 DEF Written
-----------------------------------------------------------------------------
Slots == {"daily", "weekly", "monthly", "cleanup", "crawl"}

\* The night's job, and the Monday's, have had their minute.
NightOver(d) == d < day /\ ~(d + 1 = day /\ slot = "daily")
WeekOver(w) == w + WeekLength < day \/ (w + WeekLength = day /\ slot \notin {"daily", "weekly"})

\* The clock, and the days that were crawled.
ClockInv ==
  /\ day \in 0 .. MaxDay /\ hour \in Nat /\ slot \in Slots
  /\ slot # "crawl" => day > 0
  /\ slot = "weekly" => day % WeekLength = 0
  /\ slot = "monthly" => day \in MonthStarts
  /\ IsTable(truth) /\ DOMAIN truth \in SUBSET (0 .. day)

\* What the crawls of a day have added up to so far.
Due(d) == IF d \in DOMAIN truth THEN truth[d] ELSE Nothing

\* The hourly rows of a day.
RowsOf(f, d) == {k \in DOMAIN f : k[1] = d}

\* The hourly rows of a day are all there or none is: all of them until the
\* night's job is over, and today's together with the current row.
HourlyTable(h) == IsTable(h) /\ IsFiniteSet(DOMAIN h) /\ DOMAIN h \in SUBSET (Nat \X Nat)
HourlyInv ==
  /\ HourlyTable(hourly)
  /\ \A k \in DOMAIN hourly : k[1] < day \/ (k[1] = day /\ k[2] < hour)
  /\ Sum(hourly, RowsOf(hourly, day)).samples = 0
  /\ Sum(hourly, RowsOf(hourly, day)).inflow + row.inflow = Due(day).inflow
  /\ Sum(hourly, RowsOf(hourly, day)).outflow + row.outflow = Due(day).outflow
  /\ day \in DOMAIN truth <=> RowsOf(hourly, day) # {} \/ row.inserted = TRUE
  /\ \A d \in 0 .. day - 1 : RowsOf(hourly, d) # {} =>
       /\ d \in DOMAIN truth
       /\ Sum(hourly, RowsOf(hourly, d)) = [truth[d] EXCEPT !.samples = 0]
  /\ \A d \in DOMAIN truth : d < day /\ ~NightOver(d) => RowsOf(hourly, d) # {}

\* So are the snapshots.
SnapshotInv ==
  /\ \A d \in DOMAIN snapshots :
       d \in DOMAIN truth /\ snapshots[d] \in SUBSET gone /\ Cardinality(snapshots[d]) = truth[d].samples
  /\ \A d \in DOMAIN truth : d \notin DOMAIN snapshots /\ truth[d].samples # 0 => NightOver(d)

\* A daily row never says too much; after its night it is right unless the job
\* failed, and it stays until the week is over.
DailyInv ==
  /\ IsTable(daily) /\ DOMAIN daily \in SUBSET DOMAIN truth
  /\ \A d \in DOMAIN daily : AtMost(daily[d], truth[d])
  /\ \A d \in DOMAIN daily : NightOver(d) /\ <<"day", d>> \notin failed => daily[d] = truth[d]
  /\ \A d \in DOMAIN truth : NightOver(d) /\ ~WeekOver(ToMonday(d)) => d \in DOMAIN daily \/ <<"day", d>> \in failed

\* The same of a weekly row, until it is old.
WeeklyInv ==
  /\ IsTable(weekly)
  /\ \A w \in DOMAIN weekly :
       (\E d \in DOMAIN truth : ToMonday(d) = w) /\ AtMost(weekly[w], TruthOf(WeekDays(w)))
  /\ \A d \in DOMAIN truth : WeekOver(ToMonday(d)) =>
       \/ <<"week", ToMonday(d)>> \in failed
       \/ InWeekly(ToMonday(d))
       \/ ToMonday(d) < ToMonday(day - WeeklyRetention)

\* A weekly row of a week that is not over has been noted; a monthly row is of
\* a month that is over, and written on the first of the next.
MonthOver(m) == \E n \in MonthStarts : m < n /\ (n < day \/ (n = day /\ slot \in {"cleanup", "crawl"}))
MonthlyInv ==
  /\ \A w \in DOMAIN weekly : w + WeekLength > day => <<"month", MonthOf(w)>> \in failed
  /\ \A m \in DOMAIN monthly : m \in MonthStarts /\ MonthOver(m)
  /\ MonthlyFullWeeks

\* Clean-ups delete rows and change none.
LEMMA DropRows ==
  ASSUME NEW f, NEW K
  PROVE  /\ DOMAIN Drop(f, K) = DOMAIN f \ K /\ \A k \in DOMAIN f \ K : Drop(f, K)[k] = f[k]
         /\ (IsTable(f) => IsTable(Drop(f, K)))
  BY DEF Drop, Restrict, IsTable

\* What a crawl adds to the totals of its day.
LEMMA CrawlTruth ==
  ASSUME ClockInv, NEW in \in 0 .. MaxInflow, NEW batch \in SUBSET (Items \ gone), Crawl(in, batch)
  PROVE  /\ IsTable(truth') /\ DOMAIN truth' = DOMAIN truth \cup {day}
         /\ \A d \in DOMAIN truth : d # day => truth'[d] = truth[d]
         /\ Due(day) \in RowTotals /\ truth'[day] \in RowTotals
         /\ truth'[day].inflow = Due(day).inflow + in
         /\ truth'[day].outflow = Due(day).outflow + Cardinality(batch)
         /\ truth'[day].samples = Due(day).samples + Cardinality(batch)
         /\ AtMost(Due(day), truth'[day])
  <1> DEFINE t == IF day \in DOMAIN truth THEN truth[day] ELSE Nothing
             n == Cardinality(batch)
             v == Totals(t.inflow + in, t.outflow + n, t.samples + n)
  <1>1. truth' = Put(truth, day, v)
    BY DEF Crawl
  <1>2. in \in Nat /\ n \in Nat
    <2>1. batch \in SUBSET Items
      OBVIOUS
    <2> QED BY <2>1, PricesFinite, CrawlBounds
  <1>3. t = Due(day) /\ t \in RowTotals
    BY DEF Due, ClockInv, IsTable, RowTotals, Nothing, Totals
  <1>4. v \in RowTotals /\ v.inflow = t.inflow + in /\ v.outflow = t.outflow + n /\ v.samples = t.samples + n
    BY <1>2, <1>3 DEF Totals, RowTotals
  <1> HIDE DEF t, n, v
  <1>5. AtMost(t, v)
    <2>1. t.inflow \in Nat /\ t.outflow \in Nat /\ t.samples \in Nat
      BY <1>3 DEF RowTotals
    <2>2. t.inflow =< v.inflow /\ t.outflow =< v.outflow /\ t.samples =< v.samples
      BY <1>2, <1>4, <2>1
    <2> QED BY <2>2 DEF AtMost
  <1>6. IsTable(truth)
    BY DEF ClockInv
  <1>7. truth'[day] = v /\ DOMAIN truth' = DOMAIN truth \cup {day} /\ IsTable(truth')
        /\ \A d \in DOMAIN truth : d # day => truth'[d] = truth[d]
    <2>1. /\ DOMAIN Put(truth, day, v) = DOMAIN truth \cup {day} /\ Put(truth, day, v)[day] = v
          /\ \A j \in DOMAIN truth : j # day => Put(truth, day, v)[j] = truth[j]
          /\ (IsTable(truth) /\ v \in RowTotals => IsTable(Put(truth, day, v)))
      BY PutRow, Zenon
    <2> QED BY <1>1, <1>4, <1>6, <2>1
  <1> QED BY <1>3, <1>4, <1>5, <1>7 DEF n

\* The hours go by.
LEMMA HourEndsClock ==
  ASSUME ClockInv, HourEnds
  PROVE  /\ ClockInv' /\ truth' = truth /\ row' = Empty
         /\ \/ day' = day /\ hour' = hour + 1 /\ slot' = slot
            \/ day' = day + 1 /\ hour' = 0 /\ slot' = "daily"
  <1>1. truth' = truth /\ row' = Empty /\ slot = "crawl" /\ day < MaxDay
        /\ \/ day' = day /\ hour' = hour + 1 /\ slot' = slot
           \/ day' = day + 1 /\ hour' = 0 /\ slot' = "daily"
    BY DEF HourEnds, NextBucket
  <1> QED BY <1>1, CalendarNumbers DEF ClockInv, Slots

\* The jobs of the night come one after the other.
LEMMA NextClock == ClockInv /\ [Next]_vars => ClockInv'
  <1> SUFFICES ASSUME ClockInv, [Next]_vars PROVE ClockInv'
    OBVIOUS
  <1>1. ASSUME NEW in \in 0 .. MaxInflow, NEW batch \in SUBSET (Items \ gone), Crawl(in, batch) PROVE ClockInv'
    <2>1. UNCHANGED clock
      BY <1>1 DEF Crawl
    <2>2. IsTable(truth') /\ DOMAIN truth' = DOMAIN truth \cup {day}
      BY <1>1, CrawlTruth, Zenon
    <2> QED BY <2>1, <2>2, CalendarNumbers DEF ClockInv, clock
  <1>2. CASE HourEnds
    BY <1>2, HourEndsClock
  <1>3. CASE slot # "crawl" /\ slot' \in {"weekly", "monthly", "cleanup", "crawl"} /\ UNCHANGED <<day, hour, truth>>
             /\ (slot' = "weekly" => day % WeekLength = 0) /\ (slot' = "monthly" => day \in MonthStarts)
    BY <1>3 DEF ClockInv, Slots
  <1>4. CASE RunDailyArchive
    <2>1. slot = "daily" /\ slot' = AfterDaily /\ UNCHANGED <<day, hour, truth>>
      BY <1>4 DEF RunDailyArchive
    <2> QED BY <1>3, <2>1 DEF AfterDaily
  <1>5. CASE RunWeeklyArchive
    <2>1. slot = "weekly" /\ slot' = AfterWeekly /\ UNCHANGED <<day, hour, truth>>
      BY <1>5 DEF RunWeeklyArchive
    <2> QED BY <1>3, <2>1 DEF AfterWeekly
  <1>6. CASE RunMonthlyArchive
    BY <1>3, <1>6 DEF RunMonthlyArchive
  <1>7. CASE RunCleanup
    BY <1>3, <1>7 DEF RunCleanup
  <1>8. CASE Missed
    <2>1. slot # "crawl" /\ slot' \in {AfterDaily, AfterWeekly, "cleanup"} /\ UNCHANGED <<day, hour, truth>>
      BY <1>8 DEF Missed
    <2> QED BY <1>3, <2>1 DEF AfterDaily, AfterWeekly
  <1>9. ASSUME UNCHANGED <<clock, truth>> PROVE ClockInv'
    BY <1>9 DEF ClockInv, clock
  <1>10. ASSUME NEW d \in DOMAIN truth, TriggerDailyArchive(d) \/ TriggerWeeklyArchive(d) PROVE ClockInv'
    BY <1>9, <1>10 DEF TriggerDailyArchive, TriggerWeeklyArchive
  <1>11. CASE UNCHANGED vars
    BY <1>9, <1>11 DEF vars
  <1> QED BY <1>1, <1>2, <1>4, <1>5, <1>6, <1>7, <1>8, <1>10, <1>11 DEF Next

\* The rows of a day have a sum.
LEMMA RowsHaveSum ==
  ASSUME NEW h, HourlyTable(h), NEW d
  PROVE  /\ RowsOf(h, d) \in SUBSET DOMAIN h /\ IsFiniteSet(RowsOf(h, d))
         /\ Sum(h, RowsOf(h, d)) \in RowTotals
  <1>1. RowsOf(h, d) \in SUBSET DOMAIN h
    BY DEF RowsOf
  <1>2. IsFiniteSet(RowsOf(h, d))
    BY <1>1, FS_Subset DEF HourlyTable
  <1> QED BY <1>1, <1>2, SumOfTable DEF HourlyTable

\* In g the rows of h and one more, v of hour r of day e.
OneMore(g, h, e, r, v) ==
  /\ HourlyTable(g) /\ DOMAIN g = DOMAIN h \cup {<<e, r>>}
  /\ \A d \in Nat : d # e => RowsOf(g, d) = RowsOf(h, d) /\ Sum(g, RowsOf(g, d)) = Sum(h, RowsOf(h, d))
  /\ RowsOf(g, e) # {}
  /\ AddsUp(Sum(g, RowsOf(g, e)), Sum(h, RowsOf(h, e)), v)

\* The current row joins the others of its day.
LEMMA RowsWithCurrent ==
  ASSUME NEW h, HourlyTable(h), NEW e \in Nat, NEW r \in Nat, NEW v \in RowTotals, <<e, r>> \notin DOMAIN h,
         NEW g, g = Put(h, <<e, r>>, v)
  PROVE  OneMore(g, h, e, r, v)
  <1> DEFINE k == <<e, r>>
  <1>1. DOMAIN g = DOMAIN h \cup {k} /\ g[k] = v /\ \A j \in DOMAIN h : j # k => g[j] = h[j]
    BY DEF Put
  <1>2. IsTable(h) /\ IsTable(g)
    <2>1. IsTable(h)
      BY DEF HourlyTable
    <2>2. IsTable(h) /\ v \in RowTotals => IsTable(Put(h, k, v))
      BY PutRow, Zenon
    <2> QED BY <2>1, <2>2
  <1>3. HourlyTable(g)
    <2>1. IsFiniteSet(DOMAIN h \cup {k})
      BY FS_AddElement DEF HourlyTable
    <2>2. k \in Nat \X Nat
      OBVIOUS
    <2> QED BY <1>1, <1>2, <2>1, <2>2 DEF HourlyTable
  <1>4. RowsOf(g, e) = RowsOf(h, e) \cup {k} /\ k \notin RowsOf(h, e)
        /\ \A d \in Nat : d # e => RowsOf(g, d) = RowsOf(h, d)
    <2>1. k[1] = e
      OBVIOUS
    <2> HIDE DEF k
    <2> QED BY <1>1, <2>1 DEF RowsOf, k
  <1> HIDE DEF k
  <1>5. ASSUME NEW d \in Nat PROVE Sum(g, RowsOf(h, d)) = Sum(h, RowsOf(h, d))
    <2>1. RowsOf(h, d) \in SUBSET DOMAIN h /\ IsFiniteSet(RowsOf(h, d)) /\ RowsOf(h, d) \subseteq DOMAIN g
      BY <1>1, RowsHaveSum
    <2>2. \A j \in RowsOf(h, d) : h[j] = g[j]
      BY <1>1, <2>1 DEF k
    <2> QED BY <1>2, <2>1, <2>2, SumOfSameRows
  <1>6. RowsOf(h, e) \in SUBSET DOMAIN g /\ IsFiniteSet(RowsOf(h, e))
    BY <1>1, RowsHaveSum
  <1>7. AddsUp(Sum(g, RowsOf(h, e) \cup {k}), Sum(g, RowsOf(h, e)), g[k])
    <2>1. k \in DOMAIN g /\ k \notin RowsOf(h, e)
      BY <1>1, <1>4
    <2> QED BY <1>2, <1>6, <2>1, SumWithRow, Zenon
  <1>8. AddsUp(Sum(g, RowsOf(g, e)), Sum(h, RowsOf(h, e)), v)
    BY <1>1, <1>4, <1>5, <1>7, Zenon
  <1>9. RowsOf(g, e) # {}
    BY <1>4, Zenon
  <1>10. \A d \in Nat : d # e => RowsOf(g, d) = RowsOf(h, d) /\ Sum(g, RowsOf(g, d)) = Sum(h, RowsOf(h, d))
    BY <1>4, <1>5, Zenon
  <1> QED BY <1>1, <1>3, <1>8, <1>9, <1>10, Zenon DEF OneMore, k

\* A row that is not inserted has counted nothing.
LEMMA RowNumbers ==
  ASSUME RowInv
  PROVE  /\ row.inflow \in Nat /\ row.outflow \in Nat /\ row.inserted \in BOOLEAN
         /\ (row.inserted = FALSE => row.inflow = 0 /\ row.outflow = 0)
  <1>1. row.inflow \in Nat /\ row.outflow \in Nat /\ row.inserted \in BOOLEAN
    BY DEF RowInv, RowType
  <1>2. Cardinality({}) = 0
    BY FS_EmptySet
  <1> QED BY <1>1, <1>2 DEF RowInv, RowSummarisesHour

\* The hourly rows in MySQL, the current one included, add up to their day.
LEMMA RowsAddUp ==
  ASSUME ClockInv, RowInv, HourlyInv
  PROVE  /\ HourlyTable(HourlyRows)
         /\ \A k \in DOMAIN HourlyRows : k[1] < day \/ (k[1] = day /\ k[2] =< hour)
         /\ \A d \in 0 .. day - 1 : RowsOf(HourlyRows, d) = RowsOf(hourly, d)
         /\ day \in DOMAIN truth <=> RowsOf(HourlyRows, day) # {}
         /\ \A d \in 0 .. day : RowsOf(HourlyRows, d) # {} =>
              d \in DOMAIN truth /\ Sum(HourlyRows, RowsOf(HourlyRows, d)) = [truth[d] EXCEPT !.samples = 0]
  <1>0. /\ day \in Nat /\ hour \in Nat /\ row.inflow \in Nat /\ row.outflow \in Nat
        /\ HourlyTable(hourly) /\ IsTable(truth)
    BY RowNumbers DEF ClockInv, HourlyInv
  <1>a. ASSUME NEW f, HourlyTable(f), day \in DOMAIN truth,
               Sum(f, RowsOf(f, day)).inflow = truth[day].inflow,
               Sum(f, RowsOf(f, day)).outflow = truth[day].outflow,
               Sum(f, RowsOf(f, day)).samples = 0
        PROVE  Sum(f, RowsOf(f, day)) = [truth[day] EXCEPT !.samples = 0]
    <2>1. Sum(f, RowsOf(f, day)) \in RowTotals /\ truth[day] \in RowTotals
      BY <1>0, <1>a, RowsHaveSum DEF IsTable
    <2>2. /\ [truth[day] EXCEPT !.samples = 0] \in RowTotals
          /\ [truth[day] EXCEPT !.samples = 0].inflow = truth[day].inflow
          /\ [truth[day] EXCEPT !.samples = 0].outflow = truth[day].outflow
          /\ [truth[day] EXCEPT !.samples = 0].samples = 0
      BY <2>1 DEF RowTotals
    <2> QED BY <1>a, <2>1, <2>2, SameTotals, Zenon
  <1>1. CASE row.inserted = TRUE
    <2> DEFINE v == Totals(row.inflow, row.outflow, 0)
    <2>1. HourlyRows = Put(hourly, <<day, hour>>, v)
      BY <1>1 DEF HourlyRows
    <2>2. v \in RowTotals /\ v.inflow = row.inflow /\ v.outflow = row.outflow /\ v.samples = 0
      BY <1>0 DEF Totals, RowTotals
    <2>3. <<day, hour>> \notin DOMAIN hourly
      BY <1>0 DEF HourlyInv
    <2> HIDE DEF v
    <2>4. /\ HourlyTable(HourlyRows) /\ DOMAIN HourlyRows = DOMAIN hourly \cup {<<day, hour>>}
          /\ \A d \in Nat : d # day => RowsOf(HourlyRows, d) = RowsOf(hourly, d)
                                       /\ Sum(HourlyRows, RowsOf(HourlyRows, d)) = Sum(hourly, RowsOf(hourly, d))
          /\ RowsOf(HourlyRows, day) # {}
          /\ Sum(HourlyRows, RowsOf(HourlyRows, day)).inflow = Sum(hourly, RowsOf(hourly, day)).inflow + v.inflow
          /\ Sum(HourlyRows, RowsOf(HourlyRows, day)).outflow = Sum(hourly, RowsOf(hourly, day)).outflow + v.outflow
          /\ Sum(HourlyRows, RowsOf(HourlyRows, day)).samples = Sum(hourly, RowsOf(hourly, day)).samples + v.samples
      <3>1. OneMore(HourlyRows, hourly, day, hour, v)
        BY <1>0, <2>1, <2>2, <2>3, RowsWithCurrent, Zenon
      <3> QED BY <3>1, Zenon DEF OneMore, AddsUp
    <2>5. day \in DOMAIN truth
      BY <1>1 DEF HourlyInv
    <2>6. Sum(HourlyRows, RowsOf(HourlyRows, day)) = [truth[day] EXCEPT !.samples = 0]
      <3>1. /\ Sum(HourlyRows, RowsOf(HourlyRows, day)).inflow = truth[day].inflow
            /\ Sum(HourlyRows, RowsOf(HourlyRows, day)).outflow = truth[day].outflow
            /\ Sum(HourlyRows, RowsOf(HourlyRows, day)).samples = 0
        BY <2>2, <2>4, <2>5 DEF HourlyInv, Due
      <3> QED BY <1>a, <2>4, <2>5, <3>1
    <2>7. \A k \in DOMAIN HourlyRows : k[1] < day \/ (k[1] = day /\ k[2] =< hour)
      <3>1. <<day, hour>>[1] = day /\ <<day, hour>>[2] =< hour
        BY <1>0
      <3>2. \A k \in DOMAIN hourly : k[1] < day \/ (k[1] = day /\ k[2] =< hour)
        BY <1>0 DEF HourlyInv, HourlyTable
      <3> QED BY <2>4, <3>1, <3>2, Zenon
    <2>8. \A d \in 0 .. day : d = day \/ (d \in 0 .. day - 1 /\ d \in Nat /\ d # day)
      BY <1>0
    <2>9. \A d \in 0 .. day - 1 : RowsOf(HourlyRows, d) = RowsOf(hourly, d)
      BY <1>0, <2>4
    <2>10. ASSUME NEW d \in 0 .. day - 1, RowsOf(HourlyRows, d) # {}
           PROVE  d \in DOMAIN truth /\ Sum(HourlyRows, RowsOf(HourlyRows, d)) = [truth[d] EXCEPT !.samples = 0]
      <3>1. RowsOf(hourly, d) # {} /\ Sum(HourlyRows, RowsOf(HourlyRows, d)) = Sum(hourly, RowsOf(hourly, d))
        BY <1>0, <2>4, <2>10
      <3> QED BY <3>1 DEF HourlyInv
    <2> QED BY <2>4, <2>5, <2>6, <2>7, <2>8, <2>9, <2>10
  <1>2. CASE row.inserted = FALSE
    <2>1. HourlyRows = hourly /\ row.inflow = 0 /\ row.outflow = 0
      BY <1>2, RowNumbers, Zenon DEF HourlyRows
    <2>2. day \in DOMAIN truth <=> RowsOf(hourly, day) # {}
      BY <1>2 DEF HourlyInv
    <2>3. Sum(hourly, RowsOf(hourly, day)) \in RowTotals
      BY <1>0, RowsHaveSum
    <2>4. day \in DOMAIN truth => Sum(hourly, RowsOf(hourly, day)) = [truth[day] EXCEPT !.samples = 0]
      <3>1. day \in DOMAIN truth =>
              /\ Sum(hourly, RowsOf(hourly, day)).inflow = truth[day].inflow
              /\ Sum(hourly, RowsOf(hourly, day)).outflow = truth[day].outflow
              /\ Sum(hourly, RowsOf(hourly, day)).samples = 0
        BY <2>1, <2>3 DEF HourlyInv, Due, RowTotals
      <3> QED BY <1>0, <1>a, <3>1
    <2>5. \A k \in DOMAIN hourly : k[1] < day \/ (k[1] = day /\ k[2] =< hour)
      BY <1>0 DEF HourlyInv, HourlyTable
    <2>6. \A d \in 0 .. day : d = day \/ d \in 0 .. day - 1
      BY <1>0
    <2>7. \A d \in 0 .. day - 1 : RowsOf(hourly, d) # {} =>
            d \in DOMAIN truth /\ Sum(hourly, RowsOf(hourly, d)) = [truth[d] EXCEPT !.samples = 0]
      BY DEF HourlyInv
    <2> QED BY <1>0, <2>1, <2>2, <2>4, <2>5, <2>6, <2>7
  <1> QED BY <1>1, <1>2, RowNumbers, Zenon

\* CleanupOldHourlyData: all the rows of a day go, or none.
LEMMA DropOldRows ==
  ASSUME NEW h, HourlyTable(h), NEW c \in Int, NEW g, g = Drop(h, {k \in DOMAIN h : k[1] < c})
  PROVE  /\ HourlyTable(g) /\ DOMAIN g \in SUBSET DOMAIN h
         /\ \A d \in Nat : IF d < c THEN RowsOf(g, d) = {}
                           ELSE RowsOf(g, d) = RowsOf(h, d) /\ Sum(g, RowsOf(g, d)) = Sum(h, RowsOf(h, d))
  <1> DEFINE K == {k \in DOMAIN h : k[1] < c}
  <1>1. DOMAIN g = DOMAIN h \ K /\ (\A k \in DOMAIN h \ K : g[k] = h[k]) /\ IsTable(h)
    BY DropRows, Zenon DEF HourlyTable
  <1>2. IsTable(g)
    BY <1>1 DEF IsTable
  <1>3. HourlyTable(g)
    <2>1. IsFiniteSet(DOMAIN g)
      BY <1>1, FS_Subset DEF HourlyTable
    <2> QED BY <1>1, <1>2, <2>1, Zenon DEF HourlyTable
  <1>4. ASSUME NEW d \in Nat, d < c PROVE RowsOf(g, d) = {}
    BY <1>1, <1>4, Zenon DEF RowsOf
  <1>5. ASSUME NEW d \in Nat, ~(d < c)
        PROVE  RowsOf(g, d) = RowsOf(h, d) /\ Sum(g, RowsOf(g, d)) = Sum(h, RowsOf(h, d))
    <2>1. RowsOf(g, d) = RowsOf(h, d)
      BY <1>1, <1>5, Zenon DEF RowsOf
    <2>2. RowsOf(g, d) \in SUBSET DOMAIN g /\ IsFiniteSet(RowsOf(g, d)) /\ RowsOf(g, d) \subseteq DOMAIN h
      BY <1>1, <1>3, RowsHaveSum, Zenon
    <2>3. \A k \in RowsOf(g, d) : g[k] = h[k]
      BY <1>1, <2>2
    <2>4. Sum(g, RowsOf(g, d)) = Sum(h, RowsOf(g, d))
      BY <1>1, <1>2, <2>2, <2>3, SumOfSameRows
    <2> QED BY <2>1, <2>4
  <1> QED BY <1>1, <1>3, <1>4, <1>5

\* A crawl counts in its row what it adds to its day.
LEMMA CrawlHourly ==
  ASSUME ClockInv, RowInv, HourlyInv,
         NEW in \in 0 .. MaxInflow, NEW batch \in SUBSET (Items \ gone), Crawl(in, batch)
  PROVE  HourlyInv'
  <1> DEFINE S == Sum(hourly, RowsOf(hourly, day))
  <1>1. UNCHANGED <<day, hour, slot, hourly>>
    BY DEF Crawl, clock
  <1>2. row'.inserted = TRUE /\ row'.inflow = row.inflow + in /\ row'.outflow = row.outflow + Cardinality(batch)
    BY CrawlRow, Zenon
  <1>3. /\ DOMAIN truth' = DOMAIN truth \cup {day} /\ \A d \in DOMAIN truth : d # day => truth'[d] = truth[d]
        /\ truth'[day].inflow = Due(day).inflow + in
        /\ truth'[day].outflow = Due(day).outflow + Cardinality(batch)
    BY CrawlTruth
  <1>4. Due(day)' = truth'[day]
    BY <1>1, <1>3 DEF Due
  <1>5. S \in RowTotals /\ in \in Nat /\ Cardinality(batch) \in Nat /\ row.inflow \in Nat /\ row.outflow \in Nat
        /\ day \in Nat
    <2>1. batch \in SUBSET Items
      OBVIOUS
    <2>2. S \in RowTotals
      BY RowsHaveSum DEF HourlyInv
    <2>3. in \in Nat
      BY CrawlBounds
    <2>4. Cardinality(batch) \in Nat
      BY <2>1, PricesFinite
    <2>5. row.inflow \in Nat /\ row.outflow \in Nat
      BY RowNumbers
    <2>6. day \in Nat
      BY DEF ClockInv
    <2> QED BY <2>2, <2>3, <2>4, <2>5, <2>6, Zenon
  <1>6. S.inflow + row.inflow = Due(day).inflow /\ S.outflow + row.outflow = Due(day).outflow
    BY DEF HourlyInv
  <1>7. S.inflow + row'.inflow = truth'[day].inflow /\ S.outflow + row'.outflow = truth'[day].outflow
    <2> HIDE DEF S
    <2>1. S.inflow \in Nat /\ S.outflow \in Nat
      BY <1>5 DEF RowTotals
    <2>2. S.inflow + (row.inflow + in) = Due(day).inflow + in
          /\ S.outflow + (row.outflow + Cardinality(batch)) = Due(day).outflow + Cardinality(batch)
      BY <1>5, <1>6, <2>1
    <2> QED BY <1>2, <1>3, <2>2
  <1>8. \A d \in 0 .. day - 1 : d \in DOMAIN truth => truth'[d] = truth[d]
    BY <1>3, <1>5
  <1>9. \A d \in DOMAIN truth' : d < day => d \in DOMAIN truth
    BY <1>3, <1>5
  <1> QED BY <1>1, <1>2, <1>3, <1>4, <1>7, <1>8, <1>9 DEF HourlyInv, NightOver

\* The current row is stored when its hour ends.
LEMMA HourEndsHourly == ASSUME ClockInv, RowInv, HourlyInv, HourEnds PROVE HourlyInv'
  <1>1. /\ truth' = truth /\ row' = Empty /\ day \in Nat /\ hour \in Nat /\ hourly' = HourlyRows
        /\ \/ day' = day /\ hour' = hour + 1 /\ slot' = slot
           \/ day' = day + 1 /\ hour' = 0 /\ slot' = "daily"
    BY HourEndsClock DEF ClockInv, HourEnds
  <1>2. row'.inserted = FALSE /\ row'.inflow = 0 /\ row'.outflow = 0
    BY <1>1, EmptyRow, FS_EmptySet
  <1>3. /\ HourlyTable(hourly')
        /\ \A k \in DOMAIN hourly' : k[1] < day \/ (k[1] = day /\ k[2] =< hour)
        /\ \A d \in 0 .. day - 1 : RowsOf(hourly', d) = RowsOf(hourly, d)
        /\ day \in DOMAIN truth <=> RowsOf(hourly', day) # {}
        /\ \A d \in 0 .. day : RowsOf(hourly', d) # {} =>
             d \in DOMAIN truth /\ Sum(hourly', RowsOf(hourly', d)) = [truth[d] EXCEPT !.samples = 0]
    BY <1>1, RowsAddUp
  <1>4. \A d : Sum(hourly', RowsOf(hourly', d)) \in RowTotals
    BY <1>3, RowsHaveSum
  <1>5. Sum(hourly', {}) = Nothing /\ Nothing.inflow = 0 /\ Nothing.outflow = 0 /\ Nothing.samples = 0
    BY SumOfNoRows DEF Nothing, Totals
  <1>6. CASE day' = day /\ hour' = hour + 1 /\ slot' = slot
    <2>1. \A k \in DOMAIN hourly' : k[1] < day' \/ (k[1] = day' /\ k[2] < hour')
      BY <1>1, <1>3, <1>6 DEF HourlyTable
    <2>2. day \in 0 .. day
      BY <1>1
    <2>3. /\ Sum(hourly', RowsOf(hourly', day)).samples = 0
          /\ Sum(hourly', RowsOf(hourly', day)).inflow = Due(day).inflow
          /\ Sum(hourly', RowsOf(hourly', day)).outflow = Due(day).outflow
      <3>1. CASE day \in DOMAIN truth
        <4>1. truth[day] \in RowTotals /\ Due(day) = truth[day]
          BY <3>1 DEF ClockInv, IsTable, Due
        <4>2. Sum(hourly', RowsOf(hourly', day)) = [truth[day] EXCEPT !.samples = 0]
          BY <1>3, <2>2, <3>1
        <4> QED BY <4>1, <4>2 DEF RowTotals
      <3>2. CASE day \notin DOMAIN truth
        BY <1>3, <1>5, <3>2, Zenon DEF Due
      <3> QED BY <3>1, <3>2
    <2>4. /\ Sum(hourly', RowsOf(hourly', day)).inflow + row'.inflow = Due(day).inflow
          /\ Sum(hourly', RowsOf(hourly', day)).outflow + row'.outflow = Due(day).outflow
      BY <1>2, <1>4, <2>3 DEF RowTotals
    <2>5. Due(day)' = Due(day)
      BY <1>1, <1>6 DEF Due
    <2>6. \A d \in 0 .. day - 1 : d \in 0 .. day
      BY <1>1
    <2>7. \A d \in DOMAIN truth : d < day => d \in 0 .. day - 1
      BY <1>1 DEF ClockInv
    <2> QED BY <1>1, <1>2, <1>3, <1>6, <2>1, <2>3, <2>4, <2>5, <2>6, <2>7 DEF HourlyInv, NightOver
  <1>7. CASE day' = day + 1 /\ hour' = 0 /\ slot' = "daily"
    <2>1. \A k \in DOMAIN hourly' : k[1] < day'
      BY <1>1, <1>3, <1>7 DEF HourlyTable
    <2>2. RowsOf(hourly', day') = {}
      BY <1>1, <1>3, <1>7, <2>1 DEF RowsOf, HourlyTable
    <2>3. day' \notin DOMAIN truth /\ Due(day)' = Nothing
      BY <1>1, <1>7 DEF ClockInv, Due
    <2>4. /\ Sum(hourly', RowsOf(hourly', day')).samples = 0
          /\ Sum(hourly', RowsOf(hourly', day')).inflow + row'.inflow = Due(day)'.inflow
          /\ Sum(hourly', RowsOf(hourly', day')).outflow + row'.outflow = Due(day)'.outflow
      BY <1>2, <1>5, <2>2, <2>3
    <2>5. 0 .. day' - 1 = 0 .. day
      BY <1>1, <1>7
    <2>6. ASSUME NEW d \in DOMAIN truth, d < day', ~NightOver(d)' PROVE RowsOf(hourly', d) # {}
      <3>1. d + 1 = day' /\ d \in Nat
        BY <1>1, <1>7, <2>6 DEF NightOver, ClockInv
      <3>2. d = day
        BY <1>1, <1>7, <3>1
      <3> QED BY <1>3, <3>2
    <2> QED BY <1>1, <1>2, <1>3, <2>1, <2>2, <2>3, <2>4, <2>5, <2>6 DEF HourlyInv
  <1> QED BY <1>1, <1>6, <1>7

\* The steps other than a crawl and the end of an hour: nothing is counted, and
\* a night or a week that is over stays over.
Quiet ==
  /\ UNCHANGED <<rowVars, day, hour, gone, truth>>
  /\ slot' = slot \/ (slot' # "daily" /\ (slot' = "weekly" => slot = "daily"))
Job ==
  \/ RunDailyArchive \/ RunWeeklyArchive \/ RunMonthlyArchive \/ Missed
  \/ \E d \in DOMAIN truth : TriggerDailyArchive(d) \/ TriggerWeeklyArchive(d)

\* An archive job leaves the hourly rows and the snapshots alone.
LEMMA JobIsQuiet == Job => Quiet /\ UNCHANGED <<hourly, snapshots>>
  <1> SUFFICES ASSUME Job PROVE Quiet /\ UNCHANGED <<hourly, snapshots>>
    OBVIOUS
  <1>0. AfterDaily # "daily" /\ AfterWeekly \notin {"daily", "weekly"}
    BY DEF AfterDaily, AfterWeekly
  <1>1. CASE RunDailyArchive
    BY <1>0, <1>1 DEF RunDailyArchive, Quiet
  <1>2. CASE RunWeeklyArchive
    BY <1>0, <1>2 DEF RunWeeklyArchive, Quiet
  <1>3. CASE RunMonthlyArchive
    BY <1>3 DEF RunMonthlyArchive, Quiet
  <1>4. CASE Missed
    BY <1>0, <1>4 DEF Missed, Quiet, tables
  <1>5. ASSUME NEW d \in DOMAIN truth, TriggerDailyArchive(d) \/ TriggerWeeklyArchive(d)
        PROVE  Quiet /\ UNCHANGED <<hourly, snapshots>>
    BY <1>5 DEF TriggerDailyArchive, TriggerWeeklyArchive, Quiet, clock
  <1> QED BY <1>1, <1>2, <1>3, <1>4, <1>5 DEF Job

\* What a clean-up deletes, table by table, if it does not fail.
LEMMA CleanupDrops ==
  ASSUME RunCleanup
  PROVE  /\ Quiet /\ slot = "cleanup" /\ slot' = "crawl" /\ UNCHANGED <<monthly, failed>>
         /\ hourly' = hourly \/ hourly' = Drop(hourly, {k \in DOMAIN hourly : k[1] < day - HourlyRetention})
         /\ daily' = daily \/ daily' = Drop(daily, {d \in DOMAIN daily : d < day - DailyRetention})
         /\ weekly' = weekly \/ weekly' = Drop(weekly, {w \in DOMAIN weekly : w < ToMonday(day - WeeklyRetention)})
         /\ snapshots' = snapshots \/ snapshots' = Drop(snapshots, DOMAIN snapshots \cap {day - SnapshotAge})
  <1>1. /\ Quiet /\ slot = "cleanup" /\ slot' = "crawl" /\ UNCHANGED <<monthly, failed>>
        /\ hourly' = hourly \/ hourly' = Drop(hourly, Old["hourly"])
        /\ daily' = daily \/ daily' = Drop(daily, Old["daily"])
        /\ weekly' = weekly \/ weekly' = Drop(weekly, Old["weekly"])
        /\ snapshots' = snapshots \/ snapshots' = Drop(snapshots, Old["snapshots"])
    BY Zenon DEF RunCleanup, Quiet
  <1>2. /\ Old["hourly"] = {k \in DOMAIN hourly : k[1] < day - HourlyRetention}
        /\ Old["daily"] = {d \in DOMAIN daily : d < day - DailyRetention}
        /\ Old["weekly"] = {w \in DOMAIN weekly : w < ToMonday(day - WeeklyRetention)}
        /\ Old["snapshots"] = DOMAIN snapshots \cap {day - SnapshotAge}
    BY Zenon DEF Old
  <1> QED BY <1>1, <1>2

\* Every step is one of five.
LEMMA StepKinds ==
  [Next]_vars =>
    \/ \E in \in 0 .. MaxInflow, batch \in SUBSET (Items \ gone) : Crawl(in, batch)
    \/ HourEnds \/ Job \/ RunCleanup \/ UNCHANGED vars
  BY DEF Next, Job

\* The hourly rows through all of this.
LEMMA NextHourly == ClockInv /\ RowInv /\ HourlyInv /\ [Next]_vars => HourlyInv'
  <1> SUFFICES ASSUME ClockInv, RowInv, HourlyInv, [Next]_vars PROVE HourlyInv'
    OBVIOUS
  <1>1. ASSUME NEW in \in 0 .. MaxInflow, NEW batch \in SUBSET (Items \ gone), Crawl(in, batch) PROVE HourlyInv'
    BY <1>1, CrawlHourly
  <1>2. CASE HourEnds
    BY <1>2, HourEndsHourly
  <1>3. ASSUME Quiet, UNCHANGED hourly PROVE HourlyInv'
    <2>1. UNCHANGED <<row, day, hour, truth, hourly>> /\ (slot' = slot \/ slot' # "daily")
      BY <1>3 DEF Quiet, rowVars
    <2>2. Due(day)' = Due(day)
      BY <2>1 DEF Due
    <2>3. \A d \in DOMAIN truth : d < day /\ ~NightOver(d)' => ~NightOver(d)
      BY <2>1 DEF NightOver
    <2> QED BY <2>1, <2>2, <2>3 DEF HourlyInv
  <1>4. CASE RunCleanup
    <2>1. /\ Quiet /\ slot' = "crawl" /\ UNCHANGED <<row, day, hour, truth>>
          /\ hourly' = hourly \/ hourly' = Drop(hourly, {k \in DOMAIN hourly : k[1] < day - HourlyRetention})
      BY <1>4, CleanupDrops, Zenon DEF Quiet, rowVars
    <2>2. CASE hourly' = hourly
      BY <1>3, <2>1, <2>2
    <2>3. CASE hourly' = Drop(hourly, {k \in DOMAIN hourly : k[1] < day - HourlyRetention})
      <3>1. day \in Nat /\ day - HourlyRetention \in Int /\ ~(day < day - HourlyRetention) /\ HourlyTable(hourly)
        BY CalendarNumbers DEF ClockInv, HourlyInv
      <3>2. /\ HourlyTable(hourly') /\ DOMAIN hourly' \in SUBSET DOMAIN hourly
            /\ \A d \in Nat : IF d < day - HourlyRetention THEN RowsOf(hourly', d) = {}
                              ELSE RowsOf(hourly', d) = RowsOf(hourly, d)
                                   /\ Sum(hourly', RowsOf(hourly', d)) = Sum(hourly, RowsOf(hourly, d))
        BY <2>3, <3>1, DropOldRows
      <3>3. RowsOf(hourly', day) = RowsOf(hourly, day)
            /\ Sum(hourly', RowsOf(hourly', day)) = Sum(hourly, RowsOf(hourly, day))
        BY <3>1, <3>2
      <3>4. Due(day)' = Due(day)
        BY <2>1 DEF Due
      <3>5. \A d \in 0 .. day - 1 : RowsOf(hourly', d) # {} =>
              RowsOf(hourly, d) # {} /\ Sum(hourly', RowsOf(hourly', d)) = Sum(hourly, RowsOf(hourly, d))
        BY <3>1, <3>2
      <3>6. \A d \in DOMAIN truth : d < day => NightOver(d)'
        BY <2>1 DEF NightOver
      <3>7. \A k \in DOMAIN hourly' : k[1] < day \/ (k[1] = day /\ k[2] < hour)
        BY <3>2 DEF HourlyInv
      <3> QED BY <2>1, <3>2, <3>3, <3>4, <3>5, <3>6, <3>7 DEF HourlyInv
    <2> QED BY <2>1, <2>2, <2>3
  <1>5. CASE Job
    BY <1>3, <1>5, JobIsQuiet
  <1>6. CASE UNCHANGED vars
    BY <1>3, <1>6 DEF vars, Quiet, rowVars, clock, tables
  <1> QED BY <1>1, <1>2, <1>4, <1>5, <1>6, StepKinds

\* The snapshots of a day are as many as its samples, or deleted.
LEMMA NextSnapshots == ClockInv /\ RowInv /\ SnapshotInv /\ [Next]_vars => SnapshotInv'
  <1> SUFFICES ASSUME ClockInv, RowInv, SnapshotInv, [Next]_vars PROVE SnapshotInv'
    OBVIOUS
  <1>1. ASSUME NEW in \in 0 .. MaxInflow, NEW batch \in SUBSET (Items \ gone), Crawl(in, batch) PROVE SnapshotInv'
    <2> DEFINE old == IF day \in DOMAIN snapshots THEN snapshots[day] ELSE {}
    <2>1. /\ UNCHANGED <<day, hour, slot>> /\ gone' = gone \cup batch /\ slot = "crawl"
          /\ snapshots' = IF batch = {} THEN snapshots ELSE Put(snapshots, day, batch \cup old)
      BY <1>1 DEF Crawl, clock
    <2>2. /\ DOMAIN truth' = DOMAIN truth \cup {day} /\ \A d \in DOMAIN truth : d # day => truth'[d] = truth[d]
          /\ Due(day) \in RowTotals /\ truth'[day].samples = Due(day).samples + Cardinality(batch)
      BY <1>1, CrawlTruth
    <2>3. old \in SUBSET gone /\ gone \in SUBSET Items /\ batch \in SUBSET Items /\ old \in SUBSET Items
          /\ old \cap batch = {}
      BY <1>1, Zenon DEF SnapshotInv, RowInv
    <2>4. Cardinality(old) = Due(day).samples
      <3>1. CASE day \in DOMAIN snapshots
        BY <3>1 DEF SnapshotInv, Due
      <3>2. CASE day \notin DOMAIN snapshots /\ day \in DOMAIN truth
        <4>1. truth[day].samples = 0
          BY <2>1, <3>2 DEF SnapshotInv, NightOver, ClockInv
        <4> QED BY <3>2, <4>1, FS_EmptySet DEF Due
      <3>3. CASE day \notin DOMAIN snapshots /\ day \notin DOMAIN truth
        BY <3>3, FS_EmptySet DEF Due, Nothing, Totals
      <3> QED BY <3>1, <3>2, <3>3
    <2>5. Cardinality(batch \cup old) = truth'[day].samples
      <3>1. Cardinality(old \cup batch) = Cardinality(old) + Cardinality(batch) /\ batch \cup old = old \cup batch
        BY <2>3, CountBoth
      <3> QED BY <2>2, <2>4, <3>1, Zenon
    <2> HIDE DEF old
    <2>6. CASE batch = {}
      <3>1. Cardinality(old) = truth'[day].samples /\ snapshots' = snapshots /\ gone' = gone
        <4>1. batch \cup old = old /\ snapshots' = snapshots /\ gone' = gone
          BY <2>1, <2>6
        <4> QED BY <2>5, <4>1
      <3>2. \A d \in DOMAIN snapshots : d \in DOMAIN truth'
        BY <2>2 DEF SnapshotInv
      <3>3. \A d \in DOMAIN snapshots : Cardinality(snapshots[d]) = truth'[d].samples
        BY <2>2, <3>1 DEF SnapshotInv, old
      <3>4. \A d \in DOMAIN truth' : d \notin DOMAIN snapshots /\ truth'[d].samples # 0 => NightOver(d)'
        <4>1. day \notin DOMAIN snapshots => truth'[day].samples = 0
          BY <3>1, FS_EmptySet DEF old
        <4> QED BY <2>1, <2>2, <4>1 DEF SnapshotInv, NightOver
      <3> QED BY <3>1, <3>2, <3>3, <3>4 DEF SnapshotInv
    <2>7. CASE batch # {}
      <3>1. /\ DOMAIN snapshots' = DOMAIN snapshots \cup {day} /\ snapshots'[day] = batch \cup old
            /\ \A d \in DOMAIN snapshots : d # day => snapshots'[d] = snapshots[d]
        BY <2>1, <2>7 DEF Put
      <3>2. \A d \in DOMAIN snapshots' : d \in DOMAIN truth' /\ snapshots'[d] \in SUBSET gone'
        BY <2>1, <2>2, <2>3, <3>1, Zenon DEF SnapshotInv
      <3>3. \A d \in DOMAIN snapshots' : Cardinality(snapshots'[d]) = truth'[d].samples
        BY <2>2, <2>5, <3>1, Zenon DEF SnapshotInv
      <3>4. \A d \in DOMAIN truth' : d \notin DOMAIN snapshots' /\ truth'[d].samples # 0 => NightOver(d)'
        BY <2>1, <2>2, <3>1, Zenon DEF SnapshotInv, NightOver
      <3> QED BY <3>2, <3>3, <3>4 DEF SnapshotInv
    <2> QED BY <2>6, <2>7
  <1>2. CASE HourEnds
    <2>1. UNCHANGED <<snapshots, gone, truth>> /\ day \in Nat /\ slot = "crawl"
          /\ ((day' = day /\ slot' = slot) \/ day' = day + 1)
      BY <1>2, HourEndsClock DEF HourEnds, ClockInv
    <2>2. \A d \in DOMAIN truth : NightOver(d) => NightOver(d)'
      BY <2>1 DEF NightOver, ClockInv
    <2> QED BY <2>1, <2>2 DEF SnapshotInv
  <1>3. ASSUME Quiet, UNCHANGED snapshots PROVE SnapshotInv'
    <2>1. UNCHANGED <<day, truth, gone, snapshots>> /\ (slot' = slot \/ slot' # "daily")
      BY <1>3 DEF Quiet
    <2>2. \A d \in DOMAIN truth : NightOver(d) => NightOver(d)'
      BY <2>1 DEF NightOver
    <2> QED BY <2>1, <2>2, Zenon DEF SnapshotInv
  <1>4. CASE RunCleanup
    <2>1. /\ Quiet /\ slot' = "crawl" /\ slot = "cleanup" /\ UNCHANGED <<day, truth, gone>>
          /\ snapshots' = snapshots \/ snapshots' = Drop(snapshots, DOMAIN snapshots \cap {day - SnapshotAge})
      BY <1>4, CleanupDrops DEF Quiet
    <2>2. CASE snapshots' = Drop(snapshots, DOMAIN snapshots \cap {day - SnapshotAge})
      <3>1. DOMAIN snapshots' = DOMAIN snapshots \ {day - SnapshotAge}
            /\ \A d \in DOMAIN snapshots' : snapshots'[d] = snapshots[d]
        BY <2>2 DEF Drop, Restrict
      <3>2. NightOver(day - SnapshotAge)' /\ \A d \in DOMAIN truth : NightOver(d) => NightOver(d)'
        BY <2>1, CalendarNumbers DEF NightOver, ClockInv
      <3> QED BY <2>1, <3>1, <3>2 DEF SnapshotInv
    <2> QED BY <1>3, <2>1, <2>2
  <1>5. CASE Job
    BY <1>3, <1>5, JobIsQuiet
  <1>6. CASE UNCHANGED vars
    BY <1>3, <1>6 DEF vars, Quiet, rowVars, clock, tables
  <1> QED BY <1>1, <1>2, <1>4, <1>5, <1>6, StepKinds
=============================================================================
