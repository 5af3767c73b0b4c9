------------------------ MODULE ResultPipelineProofs ------------------------
(***************************************************************************)
(* Proofs about ResultPipeline, for every set of results and of workers,   *)
(* every assignment of results to tasks, every threshold and every set of  *)
(* steps that may fail.                                                    *)
(***************************************************************************)
EXTENDS ResultPipeline, SequenceTheorems, FiniteSetTheorems, WellFoundedInduction, TLAPS

\* What the lists promise, whoever moves an entry.
ListInv ==
  /\ results \in Seq(Entry) /\ processing \in Seq(Entry) /\ dead \in Seq(Entry)
  /\ pushed \subseteq Results /\ removed \subseteq Results
  /\ ResultConservation /\ RetryBudget

\* What it speaks of; most steps leave all of it alone.
contents == <<lists, pushed, removed>>

\* A step that leaves the lists alone keeps what they promise.
LEMMA ListsUnchanged ==
  ASSUME ListInv, UNCHANGED contents
  PROVE  ListInv'
BY DEF ListInv, contents, lists, ResultConservation, RetryBudget

-----------------------------------------------------------------------------
(* Entries moving between the lists.                                       *)

\* LPUSH of a CrawlResponse adds it, and keeps the results of the list apart if
\* it was not there.
LEMMA ConsResult ==
  ASSUME NEW s \in Seq(Entry), NEW e \in Entry
  PROVE  /\ Cons(e, s) \in Seq(Entry)
         /\ ToSet(Cons(e, s)) = ToSet(s) \cup {e}
         /\ Ids(Cons(e, s)) = Ids(s) \cup {e.id}
         /\ OneEntryPerId(s) /\ e.id \notin Ids(s) => OneEntryPerId(Cons(e, s))
<1> DEFINE c == Cons(e, s)
<1>1. /\ c \in Seq(Entry)
      /\ Len(c) = Len(s) + 1
      /\ c[1] = e
      /\ \A i \in 1..Len(s) : c[i + 1] = s[i]
  BY DEF Cons
<1>2. DOMAIN c = 1..(Len(s) + 1) /\ DOMAIN s = 1..Len(s) /\ Len(s) \in Nat
  BY <1>1
<1>3. \A i \in DOMAIN c : i = 1 \/ (i - 1 \in DOMAIN s /\ c[i] = s[i - 1])
  <2>1. SUFFICES ASSUME NEW i \in 2..(Len(s) + 1)
                 PROVE  i - 1 \in DOMAIN s /\ c[i] = s[i - 1]
    BY <1>2
  <2>2. i - 1 \in 1..Len(s) /\ (i - 1) + 1 = i
    BY <1>2
  <2> QED BY <2>2, <1>1, <1>2
<1>4. ToSet(c) = ToSet(s) \cup {e}
  <2>1. ToSet(c) \subseteq ToSet(s) \cup {e}
    BY <1>3, <1>1 DEF ToSet
  <2>2. e \in ToSet(c)
    BY <1>1, <1>2 DEF ToSet
  <2>3. ASSUME NEW i \in DOMAIN s PROVE s[i] \in ToSet(c)
    <3>1. i + 1 \in DOMAIN c /\ c[i + 1] = s[i]
      BY <1>1, <1>2
    <3> QED BY <3>1 DEF ToSet
  <2> QED BY <2>1, <2>2, <2>3 DEF ToSet
<1>5. ASSUME OneEntryPerId(s), e.id \notin Ids(s)
      PROVE  OneEntryPerId(c)
  <2>1. SUFFICES ASSUME NEW i \in DOMAIN c, NEW k \in DOMAIN c,
                        c[i].id = c[k].id
                 PROVE  i = k
    BY DEF OneEntryPerId
  <2>2. \A m \in DOMAIN s : s[m].id # e.id
    BY <1>5 DEF Ids, ToSet
  <2>3. CASE i = 1 /\ k = 1
    BY <2>3
  <2>4. CASE i = 1 /\ k # 1
    BY <2>4, <2>1, <2>2, <1>1, <1>3
  <2>5. CASE i # 1 /\ k = 1
    BY <2>5, <2>1, <2>2, <1>1, <1>3
  <2>6. CASE i # 1 /\ k # 1
    <3>1. i - 1 = k - 1
      BY <2>6, <2>1, <1>3, <1>5 DEF OneEntryPerId
    <3> QED BY <3>1, <1>2
  <2> QED BY <2>3, <2>4, <2>5, <2>6
<1>6. Ids(c) = Ids(s) \cup {e.id}
  BY <1>4 DEF Ids
<1> QED BY <1>1, <1>4, <1>5, <1>6

\* Of a list that holds no result twice, removing a position removes its result.
LEMMA RemoveAtResult ==
  ASSUME NEW s \in Seq(Entry), OneEntryPerId(s), NEW n \in DOMAIN s
  PROVE  /\ RemoveAt(s, n) \in Seq(Entry)
         /\ ToSet(RemoveAt(s, n)) = ToSet(s) \ {s[n]}
         /\ Ids(RemoveAt(s, n)) = Ids(s) \ {s[n].id}
         /\ OneEntryPerId(RemoveAt(s, n))
<1> DEFINE r == RemoveAt(s, n)
           old(i) == IF i < n THEN i ELSE i + 1
<1>0. Len(s) \in Nat /\ DOMAIN s = 1..Len(s) /\ n \in 1..Len(s) /\ Len(s) >= 1
  BY LenProperties
<1>1. /\ r \in Seq(Entry)
      /\ Len(r) = Len(s) - 1
      /\ \A i \in 1..(Len(s) - 1) : r[i] = s[old(i)]
  <2> DEFINE p == SubSeq(s, 1, n - 1)
             q == SubSeq(s, n + 1, Len(s))
  <2>1. /\ p \in Seq(Entry)
        /\ Len(p) = n - 1
        /\ \A i \in 1..(n - 1) : p[i] = s[i]
    <3>1. \A i \in 1..(n - 1) : s[i] \in Entry
      BY <1>0, ElementOfSeq
    <3>2. /\ p \in Seq(Entry)
          /\ Len(p) = IF 1 <= n - 1 THEN (n - 1) - 1 + 1 ELSE 0
          /\ \A i \in 1..((n - 1) - 1 + 1) : p[i] = s[1 + i - 1]
      BY <3>1, <1>0, SubSeqProperties
    <3> QED BY <3>2, <1>0
  <2>2. /\ q \in Seq(Entry)
        /\ Len(q) = Len(s) - n
        /\ \A i \in 1..(Len(s) - n) : q[i] = s[n + i]
    <3>1. \A i \in (n + 1)..Len(s) : s[i] \in Entry
      BY <1>0, ElementOfSeq
    <3>2. /\ q \in Seq(Entry)
          /\ Len(q) = IF n + 1 <= Len(s) THEN Len(s) - (n + 1) + 1 ELSE 0
          /\ \A i \in 1..(Len(s) - (n + 1) + 1) : q[i] = s[(n + 1) + i - 1]
      BY <3>1, <1>0, SubSeqProperties
    <3> QED BY <3>2, <1>0
  <2>3. /\ p \o q \in Seq(Entry)
        /\ Len(p \o q) = Len(p) + Len(q)
        /\ \A i \in 1..(Len(p) + Len(q)) :
             (p \o q)[i] = IF i <= Len(p) THEN p[i] ELSE q[i - Len(p)]
    BY <2>1, <2>2, ConcatProperties, Zenon
  <2>4. r = p \o q
    BY DEF RemoveAt
  <2> HIDE DEF p, q, r
  <2>5. ASSUME NEW i \in 1..(Len(s) - 1) PROVE r[i] = s[old(i)]
    <3>1. CASE i < n
      <4>1. i \in 1..(n - 1) /\ old(i) = i
        BY <3>1, <1>0
      <4>2. i \in 1..(Len(p) + Len(q)) /\ i <= Len(p)
        BY <4>1, <2>1, <2>2, <1>0
      <4>3. r[i] = p[i]
        BY <4>2, <2>3, <2>4
      <4> QED BY <4>1, <4>3, <2>1
    <3>2. CASE i >= n
      <4>1. i - (n - 1) \in 1..(Len(s) - n) /\ n + (i - (n - 1)) = i + 1
        BY <3>2, <1>0
      <4>2. i \in 1..(Len(p) + Len(q)) /\ ~(i <= Len(p))
        BY <3>2, <2>1, <2>2, <1>0
      <4>3. r[i] = q[i - (n - 1)]
        BY <4>2, <2>1, <2>3, <2>4
      <4> QED BY <4>1, <4>3, <3>2, <2>2, <1>0
    <3> QED BY <3>1, <3>2, <1>0
  <2>6. Len(r) = Len(s) - 1
    <3>1. Len(r) = Len(p) + Len(q)
      BY <2>3, <2>4
    <3>2. Len(p) = n - 1 /\ Len(q) = Len(s) - n
      BY <2>1, <2>2
    <3>3. (n - 1) + (Len(s) - n) = Len(s) - 1
      BY <1>0
    <3> QED BY <3>1, <3>2, <3>3
  <2> QED BY <2>3, <2>4, <2>5, <2>6
<1> HIDE DEF r
<1>2. DOMAIN r = 1..(Len(s) - 1)
  BY <1>1, LenProperties
<1>3. \A i \in DOMAIN r : old(i) \in DOMAIN s /\ old(i) # n /\ r[i] = s[old(i)]
  BY <1>0, <1>1, <1>2
<1>4. \A i, k \in DOMAIN r : old(i) = old(k) => i = k
  BY <1>0, <1>2
<1>5. \A m \in DOMAIN s : m # n => \E i \in DOMAIN r : old(i) = m
  <2>1. SUFFICES ASSUME NEW m \in DOMAIN s, m # n
                 PROVE  \E i \in DOMAIN r : old(i) = m
    OBVIOUS
  <2>2. CASE m < n
    BY <2>2, <1>0, <1>2
  <2>3. CASE m > n
    <3>1. m - 1 \in DOMAIN r /\ old(m - 1) = m
      BY <2>3, <1>0, <1>2
    <3> QED BY <3>1
  <2> QED BY <2>1, <2>2, <2>3, <1>0
<1> HIDE DEF old
<1>6. ToSet(r) = ToSet(s) \ {s[n]}
  <2>1. ToSet(r) \subseteq ToSet(s) \ {s[n]}
    BY <1>3 DEF ToSet, OneEntryPerId
  <2>2. ASSUME NEW m \in DOMAIN s, s[m] # s[n] PROVE s[m] \in ToSet(r)
    <3>1. PICK i \in DOMAIN r : old(i) = m
      BY <2>2, <1>5
    <3> QED BY <3>1, <1>3 DEF ToSet
  <2> QED BY <2>1, <2>2, Zenon DEF ToSet
<1>7. Ids(r) = Ids(s) \ {s[n].id}
  <2>1. \A e \in ToSet(s) : e.id = s[n].id <=> e = s[n]
    BY DEF ToSet, OneEntryPerId
  <2> QED BY <2>1, <1>6 DEF Ids
<1>8. OneEntryPerId(r)
  BY <1>3, <1>4 DEF OneEntryPerId
<1> QED BY <1>1, <1>6, <1>7, <1>8 DEF r

\* The tail that BRPOPLPUSH and RPOPLPUSH take, and what they leave.
LEMMA FrontResult ==
  ASSUME NEW s \in Seq(Entry), s # << >>
  PROVE  /\ Last(s) \in Entry /\ Last(s) \in ToSet(s)
         /\ Front(s) \in Seq(Entry)
         /\ ToSet(s) = ToSet(Front(s)) \cup {Last(s)}
         /\ Ids(s) = Ids(Front(s)) \cup {Last(s).id}
         /\ OneEntryPerId(s) => /\ OneEntryPerId(Front(s))
                               /\ Last(s).id \notin Ids(Front(s))
<1> DEFINE n == Len(s)
           f == Front(s)
<1>1. n \in Nat /\ n >= 1 /\ DOMAIN s = 1..n /\ \A i \in 1..n : s[i] \in Entry
  BY LenProperties, EmptySeq, ElementOfSeq
<1>2. Last(s) = s[n] /\ n \in DOMAIN s
  BY <1>1 DEF Last
<1>3. /\ f \in Seq(Entry)
      /\ Len(f) = n - 1
      /\ \A i \in 1..(n - 1) : f[i] = s[i]
  <2>1. \A i \in 1..(n - 1) : s[i] \in Entry
    BY <1>1
  <2>2. /\ f \in Seq(Entry)
        /\ Len(f) = IF 1 <= n - 1 THEN (n - 1) - 1 + 1 ELSE 0
        /\ \A i \in 1..((n - 1) - 1 + 1) : f[i] = s[1 + i - 1]
    BY <2>1, <1>1, SubSeqProperties DEF Front
  <2> HIDE DEF f, n
  <2>3. Len(f) = n - 1
    BY <2>2, <1>1
  <2>4. \A i \in 1..(n - 1) : i \in 1..((n - 1) - 1 + 1) /\ 1 + i - 1 = i
    BY <1>1
  <2> QED BY <2>2, <2>3, <2>4
<1>4. DOMAIN f = 1..(n - 1)
  BY <1>3, LenProperties
<1> HIDE DEF f, n
<1>5. \A i \in DOMAIN f : i \in DOMAIN s /\ i # n /\ f[i] = s[i]
  BY <1>1, <1>3, <1>4
<1>6. \A i \in DOMAIN s : i = n \/ i \in DOMAIN f
  BY <1>1, <1>4
<1>7. ToSet(s) = ToSet(f) \cup {Last(s)}
  BY <1>2, <1>5, <1>6 DEF ToSet
<1>8. ASSUME OneEntryPerId(s)
      PROVE  OneEntryPerId(f) /\ Last(s).id \notin Ids(f)
  BY <1>8, <1>2, <1>5 DEF OneEntryPerId, Ids, ToSet
<1>9. Last(s) \in Entry /\ Last(s) \in ToSet(s)
  BY <1>1, <1>2 DEF ToSet
<1>10. Ids(s) = Ids(f) \cup {Last(s).id}
  BY <1>7 DEF Ids
<1> QED BY <1>3, <1>7, <1>8, <1>9, <1>10 DEF f

\* LREM of a raw entry that is in the list removes its only occurrence.
LEMMA RemoveFirstResult ==
  ASSUME NEW s \in Seq(Entry), OneEntryPerId(s), NEW e \in ToSet(s)
  PROVE  \E n \in DOMAIN s : s[n] = e /\ RemoveFirst(s, e) = RemoveAt(s, n)
<1>1. PICK n \in DOMAIN s : s[n] = e
  BY DEF ToSet
<1>2. DOMAIN s = 1..Len(s)
  BY LenProperties
<1> DEFINE I == {k \in DOMAIN s : s[k] = e}
<1>3. I = {n}
  BY <1>1, <1>2 DEF OneEntryPerId
<1>4. n \in Int
  BY <1>2, LenProperties
<1>5. I # {} /\ Min(I) = n
  BY <1>3, <1>4 DEF Min
<1>6. RemoveFirst(s, e) = RemoveFirstOf(s, I)
  BY DEF RemoveFirst
<1> HIDE DEF I
<1>7. RemoveFirst(s, e) = RemoveAt(s, n)
  BY <1>5, <1>6 DEF RemoveFirstOf
<1> QED BY <1>1, <1>7

\* What a list holds are entries.
LEMMA InList ==
  ASSUME NEW s \in Seq(Entry), NEW e \in ToSet(s)
  PROVE  /\ e \in Entry /\ e.id \in Results /\ e.retry \in Nat
         /\ e.id \in Ids(s)
<1>1. e \in Entry
  BY ElementOfSeq, LenProperties DEF ToSet
<1> QED BY <1>1 DEF Entry, Ids

\* PushResult of a result not pushed before.
LEMMA PushKeepsLists ==
  ASSUME ListInv, NEW r \in Results, PushResult(r)
  PROVE  ListInv'
<1> DEFINE e == [id |-> r, retry |-> 0]
<1>0. /\ results \in Seq(Entry) /\ ResultConservation /\ RetryBudget
      /\ e \in Entry /\ e.id = r /\ e.retry = 0
  BY DEF ListInv, Entry
<1>1. /\ results' = Cons(e, results) /\ pushed' = pushed \cup {r} /\ r \notin pushed
      /\ UNCHANGED <<processing, dead, removed>>
  BY DEF PushResult, history
<1> HIDE DEF e
<1>2. r \notin Ids(results) \cup Ids(processing) \cup Ids(dead) \cup removed
  BY <1>0, <1>1 DEF ResultConservation
<1>3. OneEntryPerId(results) /\ e.id \notin Ids(results)
  BY <1>0, <1>2 DEF ResultConservation
<1>4. /\ results' \in Seq(Entry)
      /\ ToSet(results') = ToSet(results) \cup {e}
      /\ Ids(results') = Ids(results) \cup {r}
      /\ OneEntryPerId(results')
  BY <1>0, <1>1, <1>3, ConsResult
<1>5. ResultConservation'
  BY <1>0, <1>1, <1>2, <1>4 DEF ResultConservation
<1>6. RetryBudget'
  <2>1. e.retry <= MaxRetries
    BY <1>0, PipelineBounds
  <2> QED BY <1>0, <1>1, <1>4, <2>1 DEF RetryBudget
<1> QED BY <1>1, <1>4, <1>5, <1>6 DEF ListInv

\* BRPOPLPUSH from results to processing.
LEMMA PopKeepsLists ==
  ASSUME ListInv, results # << >>,
         processing' = Cons(Last(results), processing),
         results' = Front(results),
         UNCHANGED <<dead, pushed, removed>>
  PROVE  ListInv' /\ Last(results).id \in Results
<1> DEFINE e == Last(results)
<1>0. /\ results \in Seq(Entry) /\ processing \in Seq(Entry)
      /\ ResultConservation /\ RetryBudget
  BY DEF ListInv
<1>1. OneEntryPerId(results) /\ OneEntryPerId(processing)
  BY <1>0 DEF ResultConservation
<1>2. /\ e \in Entry /\ e \in ToSet(results)
      /\ results' \in Seq(Entry)
      /\ ToSet(results) = ToSet(results') \cup {e}
      /\ Ids(results) = Ids(results') \cup {e.id}
      /\ OneEntryPerId(results') /\ e.id \notin Ids(results')
  BY <1>0, <1>1, FrontResult
<1>3. processing' = Cons(e, processing)
  OBVIOUS
<1> HIDE DEF e
<1>4. e.id \notin Ids(processing)
  BY <1>0, <1>2 DEF ResultConservation
<1>5. /\ processing' \in Seq(Entry)
      /\ ToSet(processing') = ToSet(processing) \cup {e}
      /\ Ids(processing') = Ids(processing) \cup {e.id}
      /\ OneEntryPerId(processing')
  <2>1. processing \in Seq(Entry) /\ e \in Entry
    BY <1>0, <1>2
  <2>2. OneEntryPerId(processing) /\ e.id \notin Ids(processing)
    BY <1>1, <1>4
  <2> QED BY <1>3, <2>1, <2>2, ConsResult
<1>6. ResultConservation'
  BY <1>0, <1>2, <1>4, <1>5 DEF ResultConservation
<1>7. RetryBudget'
  BY <1>0, <1>2, <1>5 DEF RetryBudget
<1>8. e.id \in Results
  BY <1>2 DEF Entry
<1> QED BY <1>2, <1>5, <1>6, <1>7, <1>8 DEF ListInv, e

\* RPOPLPUSH at the analyzer's start is the same move backwards.
LEMMA RecoverKeepsLists ==
  ASSUME ListInv, processing # << >>,
         results' = Cons(Last(processing), results),
         processing' = Front(processing),
         UNCHANGED <<dead, pushed, removed>>
  PROVE  ListInv' /\ Last(processing).id \in Results
<1> DEFINE e == Last(processing)
<1>0. /\ results \in Seq(Entry) /\ processing \in Seq(Entry)
      /\ ResultConservation /\ RetryBudget
  BY DEF ListInv
<1>1. OneEntryPerId(results) /\ OneEntryPerId(processing)
  BY <1>0 DEF ResultConservation
<1>2. /\ e \in Entry /\ e \in ToSet(processing)
      /\ processing' \in Seq(Entry)
      /\ ToSet(processing) = ToSet(processing') \cup {e}
      /\ Ids(processing) = Ids(processing') \cup {e.id}
      /\ OneEntryPerId(processing') /\ e.id \notin Ids(processing')
  BY <1>0, <1>1, FrontResult
<1>3. results' = Cons(e, results)
  OBVIOUS
<1> HIDE DEF e
<1>4. e.id \notin Ids(results)
  BY <1>0, <1>2 DEF ResultConservation
<1>5. /\ results' \in Seq(Entry)
      /\ ToSet(results') = ToSet(results) \cup {e}
      /\ Ids(results') = Ids(results) \cup {e.id}
      /\ OneEntryPerId(results')
  <2>1. results \in Seq(Entry) /\ e \in Entry
    BY <1>0, <1>2
  <2>2. OneEntryPerId(results) /\ e.id \notin Ids(results)
    BY <1>1, <1>4
  <2> QED BY <1>3, <2>1, <2>2, ConsResult
<1>6. ResultConservation'
  BY <1>0, <1>2, <1>4, <1>5 DEF ResultConservation
<1>7. RetryBudget'
  BY <1>0, <1>2, <1>5 DEF RetryBudget
<1>8. e.id \in Results
  BY <1>2 DEF Entry
<1> QED BY <1>2, <1>5, <1>6, <1>7, <1>8 DEF ListInv, e

\* A nonempty set of naturals has a least element, and Min is it.
LEMMA MinOfNats ==
  ASSUME NEW T \in SUBSET Nat, T # {}
  PROVE  Min(T) \in T
<1> DEFINE R == OpToRel(<, Nat)
<1>1. PICK x \in T : \A y \in T : ~(<<y, x>> \in R)
  BY NatLessThanWellFounded, WFMin, Zenon
<1>2. \A y \in T : x <= y
  <2>1. SUFFICES ASSUME NEW y \in T, y < x PROVE FALSE
    OBVIOUS
  <2>2. <<y, x>> \in R
    BY <2>1 DEF OpToRel
  <2> QED BY <2>2, <1>1, Zenon
<1> HIDE DEF R
<1> QED BY <1>2, Zenon DEF Min

\* ackResultScript finds a result of the task or finds none; what it takes out
\* is a result of that task, though not always the worker's own.
LEMMA AckKeepsLists ==
  ASSUME ListInv, NEW w \in Workers, AckResult(w)
  PROVE  /\ ListInv'
         /\ \A r \in removed' \ removed : TaskOf[r] = TaskOf[wres[w]]
<1> DEFINE t == TaskOf[wres[w]]
           same == {k \in DOMAIN processing : TaskOf[processing[k].id] = t}
<1>0. processing \in Seq(Entry) /\ ResultConservation /\ RetryBudget
  BY DEF ListInv
<1>1. UNCHANGED <<results, dead, pushed>>
  BY DEF AckResult, sent
<1>2. CASE same = {}
  <2>1. UNCHANGED <<processing, removed>>
    BY <1>2 DEF AckResult
  <2>2. ListInv'
    BY <1>1, <2>1, ListsUnchanged DEF contents, lists
  <2> QED BY <2>1, <2>2
<1>3. CASE same # {}
  <2> DEFINE n == Min(same)
  <2>1. n \in DOMAIN processing /\ TaskOf[processing[n].id] = t
    <3>1. same \in SUBSET Nat
      BY <1>0, LenProperties
    <3> HIDE DEF same
    <3>2. n \in same
      BY <1>3, <3>1, MinOfNats
    <3> QED BY <3>2 DEF same
  <2>2. /\ processing' = RemoveAt(processing, n)
        /\ removed' = removed \cup {processing[n].id}
    BY <1>3 DEF AckResult
  <2> HIDE DEF n
  <2>3. processing[n] \in ToSet(processing)
    BY <2>1 DEF ToSet
  <2>4. processing[n].id \in Results /\ processing[n].id \in Ids(processing)
    BY <1>0, <2>3, InList
  <2>5. OneEntryPerId(processing)
    BY <1>0 DEF ResultConservation
  <2>6. /\ processing' \in Seq(Entry)
        /\ ToSet(processing') = ToSet(processing) \ {processing[n]}
        /\ Ids(processing') = Ids(processing) \ {processing[n].id}
        /\ OneEntryPerId(processing')
    BY <1>0, <2>1, <2>2, <2>5, RemoveAtResult
  <2>7. ResultConservation'
    BY <1>0, <1>1, <2>2, <2>4, <2>6 DEF ResultConservation
  <2>8. RetryBudget'
    BY <1>0, <1>1, <2>6 DEF RetryBudget
  <2>9. ListInv'
    BY <1>1, <2>2, <2>4, <2>6, <2>7, <2>8 DEF ListInv
  <2> QED BY <2>1, <2>2, <2>9
<1> QED BY <1>2, <1>3

\* rescueResultScript on any raw entry the janitor may have listed, however
\* stale the listing.
LEMMA RescueKeepsLists ==
  ASSUME ListInv, NEW raw, Rescue(raw), UNCHANGED <<pushed, removed>>
  PROVE  ListInv'
<1> DEFINE again == [raw EXCEPT !.retry = @ + 1]
<1>0. /\ results \in Seq(Entry) /\ processing \in Seq(Entry)
      /\ dead \in Seq(Entry) /\ pushed \subseteq Results /\ removed \subseteq Results
      /\ ResultConservation /\ RetryBudget
  BY DEF ListInv
<1>1. CASE raw \notin ToSet(processing)
  BY <1>1, ListsUnchanged DEF Rescue, contents, lists
<1>2. CASE raw \in ToSet(processing)
  <2>1. Requeue(raw, raw.retry + 1 > MaxRetries)
    BY <1>2 DEF Rescue
  <2>2. OneEntryPerId(processing) /\ OneEntryPerId(results) /\ OneEntryPerId(dead)
    BY <1>0 DEF ResultConservation
  <2>3. PICK n \in DOMAIN processing :
          processing[n] = raw /\ RemoveFirst(processing, raw) = RemoveAt(processing, n)
    BY <1>0, <1>2, <2>2, RemoveFirstResult
  <2>4. processing' = RemoveAt(processing, n)
    BY <2>1, <2>3 DEF Requeue
  <2>5. /\ processing' \in Seq(Entry)
        /\ ToSet(processing') = ToSet(processing) \ {raw}
        /\ Ids(processing') = Ids(processing) \ {raw.id}
        /\ OneEntryPerId(processing')
    BY <1>0, <2>2, <2>3, <2>4, RemoveAtResult
  <2>6. /\ raw \in Entry /\ raw.id \in Results /\ raw.retry \in Nat
        /\ raw.id \in Ids(processing)
    BY <1>0, <1>2, InList
  <2>7. again \in Entry /\ again.id = raw.id /\ again.retry = raw.retry + 1
    BY <2>6 DEF Entry
  <2>8. raw.id \notin Ids(results) \cup Ids(dead) \cup removed
    BY <1>0, <2>6 DEF ResultConservation
  <2>9. raw.retry <= MaxRetries
    BY <1>0, <1>2 DEF RetryBudget
  <2>10. CASE raw.retry + 1 > MaxRetries
    <3>1. dead' = Cons(again, dead) /\ results' = results
      BY <2>1, <2>10 DEF Requeue
    <3> HIDE DEF again
    <3>2. /\ dead' \in Seq(Entry)
          /\ ToSet(dead') = ToSet(dead) \cup {again}
          /\ Ids(dead') = Ids(dead) \cup {raw.id}
          /\ OneEntryPerId(dead')
      <4>1. dead \in Seq(Entry) /\ again \in Entry /\ again.id \notin Ids(dead)
        BY <1>0, <2>7, <2>8
      <4> QED BY <2>2, <2>7, <3>1, <4>1, ConsResult
    <3>3. ResultConservation'
      BY <1>0, <2>5, <2>6, <2>8, <3>1, <3>2 DEF ResultConservation
    <3>4. again.retry = MaxRetries + 1
      BY <2>6, <2>7, <2>9, <2>10, PipelineBounds
    <3>5. RetryBudget'
      BY <1>0, <2>5, <3>1, <3>2, <3>4 DEF RetryBudget
    <3> QED BY <1>0, <2>5, <3>1, <3>2, <3>3, <3>5 DEF ListInv
  <2>11. CASE ~(raw.retry + 1 > MaxRetries)
    <3>1. results' = Cons(again, results) /\ dead' = dead
      BY <2>1, <2>11 DEF Requeue
    <3> HIDE DEF again
    <3>2. /\ results' \in Seq(Entry)
          /\ ToSet(results') = ToSet(results) \cup {again}
          /\ Ids(results') = Ids(results) \cup {raw.id}
          /\ OneEntryPerId(results')
      <4>1. results \in Seq(Entry) /\ again \in Entry /\ again.id \notin Ids(results)
        BY <1>0, <2>7, <2>8
      <4> QED BY <2>2, <2>7, <3>1, <4>1, ConsResult
    <3>3. ResultConservation'
      BY <1>0, <2>5, <2>6, <2>8, <3>1, <3>2 DEF ResultConservation
    <3>4. again.retry <= MaxRetries
      BY <2>6, <2>7, <2>11, PipelineBounds
    <3>5. RetryBudget'
      BY <1>0, <2>5, <3>1, <3>2, <3>4 DEF RetryBudget
    <3> QED BY <1>0, <2>5, <3>1, <3>2, <3>3, <3>5 DEF ListInv
  <2> QED BY <2>10, <2>11
<1> QED BY <1>1, <1>2

-----------------------------------------------------------------------------
(* The rest of the state, part by part.                                    *)

RedisOK ==
  /\ started \in [Tasks -> Ages \cup {NotStarted}]
  /\ crawledAt \in [Results -> Ages]
StoreOK ==
  /\ item \in [Items -> Statuses \cup {None}]
  /\ inflow \in [Items -> Nat] /\ outflow \in [Items -> Nat]
  /\ turned \subseteq Items
WorkersOK ==
  /\ wpc \in [Workers -> Steps]
  /\ wres \in [Workers -> Results \cup {None}]
  /\ \A w \in Workers : wpc[w] # "idle" => wres[w] \in Results
  /\ wfirst \in [Workers -> BOOLEAN]
  /\ wold \in [Workers -> [Items -> Statuses \cup {None}]]
  /\ wleft \in [Workers -> Seq(Sighting)]
AnalyzerOK ==
  /\ apc \in {"recover", "hdel", "up"}
  /\ rtask \in Tasks \cup {None}
  /\ apc = "hdel" => rtask \in Tasks
  /\ restarts \in 0..MaxRestarts
JanitorOK ==
  /\ jpc \in {"idle", "list", "rescue", "clean"}
  /\ jseen \in [Tasks -> Ages \cup {NotStarted}]
  /\ jpc = "rescue" => jraws # << >>
  /\ jraws \in Seq(Entry) /\ jstuck \subseteq Entry /\ jorphans \subseteq Tasks

\* A worker that is about to mark or acknowledge has a finished task in hand;
\* without this RemovedOnlyIfFinished would not survive MarkProcessed or
\* AckResult.
FinishInv ==
  /\ processed \subseteq finished /\ finished \subseteq Tasks
  /\ \A r \in removed : TaskOf[r] \in finished
  /\ \A w \in Workers : wpc[w] \in {"mark", "ack"} => TaskOf[wres[w]] \in finished

IndInv ==
  /\ ListInv /\ RedisOK /\ StoreOK /\ WorkersOK /\ AnalyzerOK /\ JanitorOK
  /\ FinishInv

\* The parts make up the type invariant and the promises.
LEMMA IndInvImplies ==
  IndInv => /\ TypeOK /\ ResultConservation /\ RetryBudget
            /\ RemovedOnlyIfFinished
<1>1. IndInv => TypeOK
  BY Zenon DEF IndInv, ListInv, RedisOK, StoreOK, WorkersOK, AnalyzerOK, JanitorOK,
         FinishInv, TypeOK
<1>2. IndInv => ResultConservation /\ RetryBudget /\ RemovedOnlyIfFinished
  BY DEF IndInv, ListInv, FinishInv, RemovedOnlyIfFinished
<1> QED BY <1>1, <1>2

\* An empty list is a list, and an empty reply a reply.
LEMMA Nothings ==
  /\ << >> \in Seq(Entry) /\ << >> \in Seq(Sighting)
  /\ Nothing \in [Tasks -> Ages \cup {NotStarted}]
  /\ Unread \in [Items -> Statuses \cup {None}]
BY DEF Nothing, Unread

\* The initial state.
LEMMA InitInv == Init => IndInv
<1> SUFFICES ASSUME Init PROVE IndInv
  OBVIOUS
<1>1. ListInv
  <2>1. ToSet(results) = {} /\ ToSet(processing) = {} /\ ToSet(dead) = {}
    BY DEF Init, ToSet
  <2>2. Ids(results) = {} /\ Ids(processing) = {} /\ Ids(dead) = {}
    BY <2>1 DEF Ids
  <2>3. ResultConservation /\ RetryBudget
    BY <2>1, <2>2 DEF Init, ResultConservation, RetryBudget, OneEntryPerId
  <2> QED BY <2>3, Nothings DEF Init, ListInv
<1>2. RedisOK /\ StoreOK
  BY Nothings, PipelineBounds DEF Init, RedisOK, StoreOK, Ages
<1>3. WorkersOK
  BY Nothings DEF Init, WorkersOK, Steps
<1>4. AnalyzerOK /\ JanitorOK
  BY Nothings, PipelineBounds DEF Init, AnalyzerOK, JanitorOK
<1>5. FinishInv
  BY DEF Init, FinishInv
<1> QED BY <1>1, <1>2, <1>3, <1>4, <1>5 DEF IndInv

\* A part whose variables a step leaves alone stays as it is.
LEMMA PartsUnchanged ==
  /\ RedisOK /\ UNCHANGED <<started, crawledAt>> => RedisOK'
  /\ StoreOK /\ UNCHANGED <<store, turned>> => StoreOK'
  /\ WorkersOK /\ UNCHANGED workers => WorkersOK'
  /\ AnalyzerOK /\ UNCHANGED analyzer => AnalyzerOK'
  /\ JanitorOK /\ UNCHANGED janitor => JanitorOK'
  /\ FinishInv /\ UNCHANGED <<processed, finished, removed, wpc, wres>> => FinishInv'
BY DEF RedisOK, StoreOK, WorkersOK, AnalyzerOK, JanitorOK, FinishInv, store,
       workers, analyzer, janitor

\* Deleting a field of the started hash, or setting it to now.
LEMMA StartedChanges ==
  ASSUME RedisOK, NEW t, NEW age \in {0, NotStarted},
         started' = [started EXCEPT ![t] = age], UNCHANGED crawledAt
  PROVE  RedisOK'
<1>1. age \in Ages \cup {NotStarted}
  BY PipelineBounds DEF Ages
<1> QED BY <1>1, Zenon DEF RedisOK

\* The worker gives up what it holds.
LEMMA ReleaseKeeps ==
  ASSUME WorkersOK, NEW w \in Workers, Release(w)
  PROVE  /\ WorkersOK'
         /\ FinishInv /\ UNCHANGED <<processed, finished, removed>> => FinishInv'
BY Nothings DEF WorkersOK, Release, FinishInv, Steps

\* A worker that holds a result goes on to its next step.
LEMMA GoKeeps ==
  ASSUME WorkersOK, NEW w \in Workers, wpc[w] # "idle",
         NEW to \in Steps \ {"idle"}, wpc' = [wpc EXCEPT ![w] = to],
         UNCHANGED wres,
         wfirst' \in [Workers -> BOOLEAN],
         wold' \in [Workers -> [Items -> Statuses \cup {None}]],
         wleft' \in [Workers -> Seq(Sighting)]
  PROVE  WorkersOK'
BY Zenon DEF WorkersOK

\* The janitor's state is reset.
LEMMA JanitorIdleOK == JanitorIdle => JanitorOK'
BY Nothings DEF JanitorIdle, JanitorOK

-----------------------------------------------------------------------------
(* The steps of processOne.                                                *)

\* How often an item is new, or newly sold, in a result is a number.
LEMMA CountsAreNat ==
  ASSUME NEW w \in Workers, wres[w] \in Results, NEW i \in Items
  PROVE  Listings(w, i) \in Nat /\ Sales(w, i) \in Nat
<1>1. /\ DOMAIN Sightings[wres[w]] = 1..Len(Sightings[wres[w]])
      /\ Len(Sightings[wres[w]]) \in Nat
  BY ResultAssumption, LenProperties
<1>2. IsFiniteSet(DOMAIN Sightings[wres[w]])
  BY <1>1, FS_Interval
<1>3. \A K \in SUBSET (DOMAIN Sightings[wres[w]]) : Cardinality(K) \in Nat
  BY <1>2, FS_Subset, FS_CardinalityType
<1> QED BY <1>3 DEF Listings, Sales, SightingsOf

\* PopResult, RecordStart and the idempotency check.
LEMMA TakeUpKeeps ==
  ASSUME IndInv, NEW w \in Workers,
         PopResult(w) \/ RecordStart(w) \/ CheckProcessed(w)
  PROVE  IndInv'
<1> USE DEF IndInv
<1>1. CASE PopResult(w)
  <2>1. ListInv' /\ Last(results).id \in Results
    BY <1>1, PopKeepsLists DEF PopResult, sent, history
  <2>2. WorkersOK'
    BY <1>1, <2>1 DEF PopResult, Go, WorkersOK, Steps
  <2>3. RedisOK' /\ StoreOK' /\ AnalyzerOK' /\ JanitorOK'
    BY <1>1, PartsUnchanged DEF PopResult, sent, history
  <2>4. FinishInv'
    BY <1>1, Zenon DEF PopResult, Go, FinishInv, WorkersOK, history
  <2> QED BY <2>1, <2>2, <2>3, <2>4
<1>2. CASE RecordStart(w)
  <2>1. ListInv'
    BY <1>2, ListsUnchanged, Zenon DEF RecordStart, contents, sent, history
  <2>2. RedisOK'
    BY <1>2, StartedChanges, PartsUnchanged, Zenon DEF RecordStart, sent
  <2>3. WorkersOK'
    BY <1>2 DEF RecordStart, Go, WorkersOK, Steps
  <2>4. StoreOK' /\ AnalyzerOK' /\ JanitorOK'
    BY <1>2, PartsUnchanged DEF RecordStart, history
  <2>5. FinishInv'
    BY <1>2 DEF RecordStart, Go, FinishInv, WorkersOK, history
  <2> QED BY <2>1, <2>2, <2>3, <2>4, <2>5
<1>3. CASE CheckProcessed(w)
  <2>0. wres[w] \in Results /\ TaskOf[wres[w]] \in Tasks
    BY <1>3, Zenon DEF CheckProcessed, WorkersOK, Tasks
  <2>1. ListInv'
    BY <1>3, ListsUnchanged DEF CheckProcessed, contents, sent
  <2>2. WorkersOK'
    BY <1>3, Zenon DEF CheckProcessed, Go, WorkersOK, Steps
  <2>3. RedisOK' /\ StoreOK' /\ AnalyzerOK' /\ JanitorOK'
    BY <1>3, PartsUnchanged DEF CheckProcessed, sent
  <2>4. FinishInv'
    BY <1>3, <2>0 DEF CheckProcessed, Go, FinishInv, WorkersOK
  <2> QED BY <2>1, <2>2, <2>3, <2>4
<1> QED BY <1>1, <1>2, <1>3

\* The state machine: the count, the reads and the writes.
LEMMA StateMachineKeeps ==
  ASSUME IndInv, NEW w \in Workers,
         CountItems(w) \/ ReadStates(w) \/ WriteState(w) \/ WritesDone(w)
  PROVE  IndInv'
<1> USE DEF IndInv
<1>1. CASE CountItems(w)
  <2>1. ListInv'
    BY <1>1, ListsUnchanged DEF CountItems, contents, sent, history
  <2>2. wfirst' \in [Workers -> BOOLEAN]
    BY <1>1, Zenon DEF CountItems, WorkersOK
  <2>3. WorkersOK'
    BY <1>1, <2>2, Zenon DEF CountItems, Go, WorkersOK, Steps
  <2>4. RedisOK' /\ StoreOK' /\ AnalyzerOK' /\ JanitorOK'
    BY <1>1, PartsUnchanged DEF CountItems, sent, history
  <2>5. FinishInv'
    BY <1>1, Zenon DEF CountItems, Go, FinishInv, WorkersOK, history
  <2> QED BY <2>1, <2>3, <2>4, <2>5
<1>2. CASE ReadStates(w)
  <2>1. ListInv'
    BY <1>2, ListsUnchanged, Zenon DEF ReadStates, contents, sent, history
  <2>2. Sightings[wres[w]] \in Seq(Sighting)
    BY <1>2, ResultAssumption DEF ReadStates, Go, WorkersOK
  <2>3. WorkersOK'
    BY <1>2, <2>2 DEF ReadStates, Go, WorkersOK, StoreOK, Steps
  <2>4. RedisOK' /\ StoreOK' /\ AnalyzerOK' /\ JanitorOK'
    BY <1>2, PartsUnchanged, Zenon DEF ReadStates, sent, history
  <2>5. FinishInv'
    BY <1>2 DEF ReadStates, Go, FinishInv, WorkersOK, history
  <2> QED BY <2>1, <2>3, <2>4, <2>5
<1>3. CASE WriteState(w)
  <2>1. ListInv'
    BY <1>3, ListsUnchanged, Zenon DEF WriteState, contents, sent
  <2>2. wleft[w] \in Seq(Sighting) /\ wleft[w] # << >>
    BY <1>3, Zenon DEF WriteState, WorkersOK
  <2>3. Head(wleft[w]) \in Sighting /\ Tail(wleft[w]) \in Seq(Sighting)
    BY <2>2, HeadTailProperties
  <2>4. Head(wleft[w]).item \in Items /\ Head(wleft[w]).status \in Statuses
    BY <2>3 DEF Sighting
  <2>5. WorkersOK'
    BY <1>3, <2>3 DEF WriteState, WorkersOK
  <2>6. StoreOK'
    BY <1>3, <2>4 DEF WriteState, StoreOK
  <2>7. RedisOK' /\ AnalyzerOK' /\ JanitorOK' /\ FinishInv'
    BY <1>3, PartsUnchanged, Zenon DEF WriteState, sent
  <2> QED BY <2>1, <2>5, <2>6, <2>7
<1>4. CASE WritesDone(w)
  <2>1. ListInv'
    BY <1>4, ListsUnchanged, Zenon DEF WritesDone, contents, sent, history
  <2>2. WorkersOK'
    BY <1>4 DEF WritesDone, Go, WorkersOK, Steps
  <2>3. RedisOK' /\ StoreOK' /\ AnalyzerOK' /\ JanitorOK'
    BY <1>4, PartsUnchanged DEF WritesDone, sent, history
  <2>4. FinishInv'
    BY <1>4 DEF WritesDone, Go, FinishInv, WorkersOK, history
  <2> QED BY <2>1, <2>2, <2>3, <2>4
<1> QED BY <1>1, <1>2, <1>3, <1>4

\* The statistics, and the ways processOne ends.
LEMMA FinishKeeps ==
  ASSUME IndInv, NEW w \in Workers,
         \/ UpsertStats(w) \/ ProcessFails(w) \/ MarkProcessed(w)
         \/ AckResult(w) \/ AckFails(w)
  PROVE  IndInv'
<1> USE DEF IndInv
<1>1. CASE UpsertStats(w)
  <2>0. wres[w] \in Results /\ TaskOf[wres[w]] \in Tasks
    BY <1>1 DEF UpsertStats, Go, WorkersOK, Tasks
  <2>1. ListInv'
    BY <1>1, ListsUnchanged DEF UpsertStats, contents, sent
  <2>2. WorkersOK'
    BY <1>1 DEF UpsertStats, Go, WorkersOK, Steps
  <2>3. StoreOK'
    <3>1. CASE wfirst[w]
      BY <1>1, <3>1, Zenon DEF UpsertStats, StoreOK
    <3>2. CASE ~wfirst[w]
      <4>1. /\ inflow' = [i \in Items |-> inflow[i] + Listings(w, i)]
            /\ outflow' = [i \in Items |-> outflow[i] + Sales(w, i)]
            /\ UNCHANGED <<item, turned>>
        BY <1>1, <3>2 DEF UpsertStats
      <4>2. \A i \in Items : /\ inflow[i] + Listings(w, i) \in Nat
                             /\ outflow[i] + Sales(w, i) \in Nat
        <5>1. SUFFICES ASSUME NEW i \in Items
                       PROVE  /\ inflow[i] + Listings(w, i) \in Nat
                              /\ outflow[i] + Sales(w, i) \in Nat
          BY Zenon
        <5>2. inflow[i] \in Nat /\ outflow[i] \in Nat
          BY DEF StoreOK
        <5>3. Listings(w, i) \in Nat /\ Sales(w, i) \in Nat
          BY <2>0, CountsAreNat, Zenon
        <5>4. \A a, b \in Nat : a + b \in Nat
          OBVIOUS
        <5> QED BY <5>2, <5>3, <5>4, Zenon
      <4> QED BY <4>1, <4>2 DEF StoreOK
    <3> QED BY <3>1, <3>2
  <2>4. RedisOK' /\ AnalyzerOK' /\ JanitorOK'
    BY <1>1, PartsUnchanged DEF UpsertStats, sent
  <2>5. FinishInv'
    BY <1>1, <2>0 DEF UpsertStats, Go, FinishInv, WorkersOK
  <2> QED BY <2>1, <2>2, <2>3, <2>4, <2>5
<1>2. CASE ProcessFails(w) \/ AckFails(w)
  <2>1. ListInv'
    BY <1>2, ListsUnchanged DEF ProcessFails, AckFails, contents, sent, history
  <2>2. WorkersOK' /\ FinishInv'
    BY <1>2, ReleaseKeeps DEF ProcessFails, AckFails, history
  <2>3. RedisOK' /\ StoreOK' /\ AnalyzerOK' /\ JanitorOK'
    BY <1>2, PartsUnchanged DEF ProcessFails, AckFails, sent, history
  <2> QED BY <2>1, <2>2, <2>3
<1>3. CASE MarkProcessed(w)
  <2>1. ListInv'
    BY <1>3, ListsUnchanged, Zenon DEF MarkProcessed, contents, sent, history
  <2>2. WorkersOK'
    BY <1>3 DEF MarkProcessed, Go, WorkersOK, Steps
  <2>3. RedisOK' /\ StoreOK' /\ AnalyzerOK' /\ JanitorOK'
    BY <1>3, PartsUnchanged DEF MarkProcessed, sent, history
  <2>4. FinishInv'
    BY <1>3 DEF MarkProcessed, Go, FinishInv, WorkersOK, history
  <2> QED BY <2>1, <2>2, <2>3, <2>4
<1>4. CASE AckResult(w)
  <2>1. ListInv' /\ \A r \in removed' \ removed : TaskOf[r] = TaskOf[wres[w]]
    BY <1>4, AckKeepsLists, Zenon
  <2>2. /\ started' = [started EXCEPT ![TaskOf[wres[w]]] = NotStarted]
        /\ Release(w) /\ wpc[w] = "ack"
        /\ UNCHANGED <<processed, store, sent, janitor, analyzer, finished, turned>>
    BY <1>4, Zenon DEF AckResult
  <2>3. RedisOK'
    BY <2>2, StartedChanges, Zenon DEF sent
  <2>4. WorkersOK'
    BY <2>2, ReleaseKeeps, Zenon
  <2>5. StoreOK' /\ AnalyzerOK' /\ JanitorOK'
    BY <2>2, PartsUnchanged, Zenon
  <2>6. FinishInv'
    <3>1. TaskOf[wres[w]] \in finished
      BY <2>2, Zenon DEF FinishInv
    <3>2. \A r \in removed' : TaskOf[r] \in finished
      BY <2>1, <3>1, Zenon DEF FinishInv
    <3>3. \A v \in Workers : wpc'[v] \in {"mark", "ack"} => TaskOf[wres'[v]] \in finished
      BY <2>2, Zenon DEF FinishInv, Release, WorkersOK
    <3> QED BY <2>2, <3>2, <3>3, Zenon DEF FinishInv
  <2> QED BY <2>1, <2>3, <2>4, <2>5, <2>6, Zenon
<1> QED BY <1>1, <1>2, <1>3, <1>4

-----------------------------------------------------------------------------
(* The janitor, the recovery, the restart and the clock.                   *)

\* RescueStuckResults, command by command.
LEMMA JanitorKeeps == IndInv /\ Janitor => IndInv'
<1> SUFFICES ASSUME IndInv, Janitor PROVE IndInv'
  OBVIOUS
<1> USE DEF IndInv
<1>1. CASE JanitorHGetAll
  <2>1. ListInv'
    BY <1>1, ListsUnchanged DEF JanitorHGetAll, contents, sent, history
  <2>2. JanitorOK'
    BY <1>1 DEF JanitorHGetAll, JanitorOK, RedisOK
  <2>3. RedisOK' /\ StoreOK' /\ WorkersOK' /\ AnalyzerOK' /\ FinishInv'
    BY <1>1, PartsUnchanged DEF JanitorHGetAll, sent, history, workers
  <2> QED BY <2>1, <2>2, <2>3
<1>2. CASE JanitorLRange
  <2>1. ListInv'
    BY <1>2, ListsUnchanged DEF JanitorLRange, contents, sent, history
  <2>2. RedisOK' /\ StoreOK' /\ WorkersOK' /\ AnalyzerOK' /\ FinishInv'
    BY <1>2, PartsUnchanged DEF JanitorLRange, sent, history, workers
  <2> DEFINE stuck == {e \in ToSet(processing) : OverThreshold(e)}
  <2>3. processing \in Seq(Entry) /\ stuck \subseteq Entry
    BY InList DEF ListInv
  <2>4. stuck # {} => processing # << >>
    BY DEF ToSet
  <2> HIDE DEF stuck
  <2>5. /\ \/ /\ jpc' = "clean"
              /\ jorphans' = {t \in Tasks : jseen[t] # NotStarted}
              /\ UNCHANGED <<jraws, jstuck>>
           \/ /\ stuck # {} /\ jpc' = "rescue"
              /\ jraws' = processing /\ jstuck' = stuck /\ UNCHANGED jorphans
           \/ jpc' = "idle" /\ UNCHANGED <<jraws, jstuck, jorphans>>
        /\ jseen' = Nothing
    BY <1>2 DEF JanitorLRange, stuck
  <2>6. JanitorOK'
    BY <2>3, <2>4, <2>5, Nothings DEF JanitorOK
  <2> QED BY <2>1, <2>2, <2>6
<1>3. CASE JanitorRescue
  <2>1. UNCHANGED <<processed, store, sent, workers, analyzer, history>>
    BY <1>3 DEF JanitorRescue
  <2>2. Rescue(Head(jraws)) \/ UNCHANGED <<lists, started>>
    BY <1>3 DEF JanitorRescue
  <2>3. ListInv'
    <3>1. CASE Rescue(Head(jraws))
      BY <2>1, <3>1, RescueKeepsLists DEF sent, history
    <3>2. CASE UNCHANGED <<lists, started>>
      BY <2>1, <3>2, ListsUnchanged DEF contents, sent, history
    <3> QED BY <2>2, <3>1, <3>2
  <2>4. RedisOK'
    <3>1. UNCHANGED started \/ started' = [started EXCEPT ![TaskOf[Head(jraws).id]] = NotStarted]
      BY <2>2 DEF Rescue, Requeue
    <3> QED BY <2>1, <3>1, StartedChanges, PartsUnchanged DEF sent
  <2>5. StoreOK' /\ WorkersOK' /\ AnalyzerOK' /\ FinishInv'
    BY <2>1, PartsUnchanged DEF history, workers
  <2>6. JanitorOK'
    <3>1. CASE Len(jraws) = 1
      BY <1>3, <3>1, JanitorIdleOK DEF JanitorRescue
    <3>2. CASE Len(jraws) # 1
      <4>1. /\ jpc = "rescue" /\ jraws' = Tail(jraws)
            /\ UNCHANGED <<jpc, jseen, jstuck, jorphans>>
        BY <1>3, <3>2 DEF JanitorRescue
      <4>2. jraws \in Seq(Entry) /\ jraws # << >>
        BY <4>1 DEF JanitorOK
      <4>3. Tail(jraws) \in Seq(Entry) /\ Len(Tail(jraws)) = Len(jraws) - 1
        BY <4>2, HeadTailProperties
      <4>4. Tail(jraws) # << >>
        <5>1. Len(jraws) - 1 # 0
          BY <3>2, <4>2, LenProperties
        <5> QED BY <4>3, <5>1, Zenon
      <4> QED BY <4>1, <4>3, <4>4 DEF JanitorOK
    <3> QED BY <3>1, <3>2
  <2> QED BY <2>3, <2>4, <2>5, <2>6
<1>4. ASSUME NEW t \in Tasks, JanitorClean(t) PROVE IndInv'
  <2>1. ListInv'
    BY <1>4, ListsUnchanged DEF JanitorClean, contents, sent, history
  <2>2. RedisOK'
    BY <1>4, StartedChanges, Zenon DEF JanitorClean, sent
  <2>3. StoreOK' /\ WorkersOK' /\ AnalyzerOK' /\ FinishInv'
    BY <1>4, PartsUnchanged DEF JanitorClean, history, workers
  <2>4. JanitorOK'
    BY <1>4, JanitorIdleOK DEF JanitorClean, JanitorOK
  <2> QED BY <2>1, <2>2, <2>3, <2>4
<1> QED BY <1>1, <1>2, <1>3, <1>4 DEF Janitor

\* RecoverOrphanedResults, and the restart that leads to it.
LEMMA RecoveryKeeps == IndInv /\ (Recovery \/ RestartAnalyzer) => IndInv'
<1> SUFFICES ASSUME IndInv, Recovery \/ RestartAnalyzer PROVE IndInv'
  OBVIOUS
<1> USE DEF IndInv
<1>1. CASE RecoverMove
  <2>1. ListInv' /\ Last(processing).id \in Results
    BY <1>1, RecoverKeepsLists DEF RecoverMove, sent, history
  <2>2. AnalyzerOK'
    BY <1>1, <2>1 DEF RecoverMove, AnalyzerOK, Tasks
  <2>3. RedisOK' /\ StoreOK' /\ WorkersOK' /\ JanitorOK' /\ FinishInv'
    BY <1>1, PartsUnchanged DEF RecoverMove, sent, history, workers
  <2> QED BY <2>1, <2>2, <2>3
<1>2. CASE RecoverHDel
  <2>1. ListInv'
    BY <1>2, ListsUnchanged DEF RecoverHDel, contents, sent, history
  <2>2. RedisOK'
    BY <1>2, StartedChanges, Zenon DEF RecoverHDel, sent
  <2>3. AnalyzerOK'
    BY <1>2 DEF RecoverHDel, AnalyzerOK
  <2>4. StoreOK' /\ WorkersOK' /\ JanitorOK' /\ FinishInv'
    BY <1>2, PartsUnchanged DEF RecoverHDel, history, workers
  <2> QED BY <2>1, <2>2, <2>3, <2>4
<1>3. CASE RecoverDone
  <2>1. ListInv'
    BY <1>3, ListsUnchanged DEF RecoverDone, contents, sent, history
  <2>2. AnalyzerOK'
    BY <1>3 DEF RecoverDone, AnalyzerOK
  <2>3. RedisOK' /\ StoreOK' /\ WorkersOK' /\ JanitorOK' /\ FinishInv'
    BY <1>3, PartsUnchanged DEF RecoverDone, sent, history, workers
  <2> QED BY <2>1, <2>2, <2>3
<1>4. CASE RestartAnalyzer
  <2>1. ListInv'
    BY <1>4, ListsUnchanged DEF RestartAnalyzer, contents, sent, history
  <2>2. WorkersOK'
    BY <1>4, Nothings DEF RestartAnalyzer, Rest, WorkersOK, Steps
  <2>3. AnalyzerOK'
    BY <1>4, PipelineBounds DEF RestartAnalyzer, AnalyzerOK
  <2>4. JanitorOK'
    BY <1>4, JanitorIdleOK DEF RestartAnalyzer
  <2>5. RedisOK' /\ StoreOK'
    BY <1>4, PartsUnchanged DEF RestartAnalyzer, sent, history
  <2>6. FinishInv'
    BY <1>4 DEF RestartAnalyzer, Rest, FinishInv, history
  <2> QED BY <2>1, <2>2, <2>3, <2>4, <2>5, <2>6
<1> QED BY <1>1, <1>2, <1>3, <1>4 DEF Recovery

\* An age one older is an age.
LEMMA OlderIsAge ==
  ASSUME NEW a \in Ages \cup {NotStarted}
  PROVE  /\ Older(a) \in Ages \cup {NotStarted}
         /\ a \in Ages => Older(a) \in Ages
BY PipelineBounds DEF Older, Ages, NotStarted

\* Tick changes ages only.
LEMMA TickKeeps == IndInv /\ Tick => IndInv'
<1> SUFFICES ASSUME IndInv, Tick PROVE IndInv'
  OBVIOUS
<1> USE DEF IndInv
<1>1. ListInv'
  BY ListsUnchanged DEF Tick, contents, history
<1>2. RedisOK'
  <2>1. started' \in [Tasks -> Ages \cup {NotStarted}]
    BY OlderIsAge DEF Tick, RedisOK
  <2>2. 0 \in Ages
    BY PipelineBounds DEF Ages
  <2>3. crawledAt' \in [Results -> Ages]
    BY <2>2, OlderIsAge DEF Tick, RedisOK
  <2> QED BY <2>1, <2>3 DEF RedisOK
<1>3. JanitorOK'
  <2>1. jseen' \in [Tasks -> Ages \cup {NotStarted}]
    BY OlderIsAge DEF Tick, JanitorOK
  <2> QED BY <2>1 DEF Tick, JanitorOK
<1>4. StoreOK' /\ WorkersOK' /\ AnalyzerOK' /\ FinishInv'
  BY PartsUnchanged, Zenon DEF Tick, history, workers
<1> QED BY <1>1, <1>2, <1>3, <1>4

\* Every step keeps the inductive invariant.
LEMMA NextInv == IndInv /\ [Next]_vars => IndInv'
<1> SUFFICES ASSUME IndInv, [Next]_vars PROVE IndInv'
  OBVIOUS
<1>1. ASSUME NEW r \in Results, PushResult(r) PROVE IndInv'
  <2>1. ListInv'
    BY <1>1, PushKeepsLists DEF IndInv
  <2>2. /\ RedisOK' /\ StoreOK' /\ WorkersOK' /\ AnalyzerOK' /\ JanitorOK'
        /\ FinishInv'
    BY <1>1, PartsUnchanged DEF IndInv, PushResult, history, workers
  <2> QED BY <2>1, <2>2 DEF IndInv
<1>2. ASSUME NEW w \in Workers, Worker(w) \/ ProcessFails(w) \/ AckFails(w)
      PROVE  IndInv'
  BY <1>2, TakeUpKeeps, StateMachineKeeps, FinishKeeps DEF Worker
<1>3. CASE Janitor
  BY <1>3, JanitorKeeps
<1>4. CASE Recovery \/ RestartAnalyzer
  BY <1>4, RecoveryKeeps
<1>5. CASE Tick
  BY <1>5, TickKeeps
<1>6. CASE UNCHANGED vars
  <2>1. ListInv'
    BY <1>6, ListsUnchanged DEF IndInv, vars, contents, sent, history
  <2>2. /\ RedisOK' /\ StoreOK' /\ WorkersOK' /\ AnalyzerOK' /\ JanitorOK'
        /\ FinishInv'
    BY <1>6, PartsUnchanged DEF IndInv, vars, sent, history, workers
  <2> QED BY <2>1, <2>2 DEF IndInv
<1> QED BY <1>1, <1>2, <1>3, <1>4, <1>5, <1>6 DEF Next

\* The inductive invariant holds in every state of every behaviour.
LEMMA Invariant == Spec => []IndInv
BY InitInv, NextInv, PTL DEF Spec

\* Every variable keeps its type; in particular a worker past its pop always
\* has a result in hand, and the janitor's loop never runs over the end of its
\* listing.
THEOREM ResultTypes == Spec => []TypeOK
BY Invariant, IndInvImplies, PTL

\* No result is lost or duplicated by any interleaving of pops, faults,
\* acknowledgements by task id, rescues from stale listings and recoveries.
THEOREM ResultsConserved == Spec => []ResultConservation
BY Invariant, IndInvImplies, PTL

\* A result leaves Redis only after its task was processed to the end.
THEOREM RemovedAreFinished == Spec => []RemovedOnlyIfFinished
BY Invariant, IndInvImplies, PTL

\* Results are requeued at most MaxRetries times and buried after just that many.
THEOREM RetriesBounded == Spec => []RetryBudget
BY Invariant, IndInvImplies, PTL

-----------------------------------------------------------------------------
(* The result queue implements the life cycle of TaskLifeCycle.  A list is *)
(* mapped to the set of its entries; that no result is in two places makes *)
(* what leaves a list leave the set.                                       *)

\* What a step of the pipeline is to the life cycle.
CycleStep == LifeCycle!Next \/ UNCHANGED LifeCycle!vars

\* A step that leaves the lists and the removed results alone stutters.
LEMMA CycleStutter ==
  ASSUME UNCHANGED <<lists, removed>>
  PROVE  CycleStep
BY DEF CycleStep, LifeCycle!vars, lists

\* What the life cycle needs to know of the lists.
LEMMA ListFacts ==
  ASSUME ListInv
  PROVE  /\ results \in Seq(Entry) /\ processing \in Seq(Entry) /\ dead \in Seq(Entry)
         /\ OneEntryPerId(results) /\ OneEntryPerId(processing) /\ OneEntryPerId(dead)
BY DEF ListInv, ResultConservation

\* RPOPLPUSH and BRPOPLPUSH take one entry out of one set and put it into the
\* other.
LEMMA MovedEntry ==
  ASSUME NEW s \in Seq(Entry), NEW u \in Seq(Entry), s # << >>, OneEntryPerId(s)
  PROVE  /\ Last(s) \in ToSet(s)
         /\ ToSet(Front(s)) = ToSet(s) \ {Last(s)}
         /\ ToSet(Cons(Last(s), u)) = ToSet(u) \cup {Last(s)}
<1> DEFINE e == Last(s)
<1>1. /\ e \in Entry /\ e \in ToSet(s)
      /\ ToSet(s) = ToSet(Front(s)) \cup {e} /\ e.id \notin Ids(Front(s))
  BY FrontResult
<1> HIDE DEF e
<1>2. e \notin ToSet(Front(s))
  BY <1>1 DEF Ids
<1>3. ToSet(Cons(e, u)) = ToSet(u) \cup {e}
  BY <1>1, ConsResult, Zenon
<1> QED BY <1>1, <1>2, <1>3 DEF e

\* PushResult submits a result that was never there.
LEMMA CyclePush ==
  ASSUME ListInv, NEW r \in Results, PushResult(r)
  PROVE  CycleStep
<1> DEFINE e == [id |-> r, retry |-> 0]
<1>1. /\ results' = Cons(e, results) /\ r \notin pushed
      /\ UNCHANGED <<processing, dead, removed>>
  BY DEF PushResult, history
<1>2. e \in Entry
  BY DEF Entry
<1>3. ToSet(results') = ToSet(results) \cup {e}
  <2> HIDE DEF e
  <2> QED BY <1>1, <1>2, ListFacts, ConsResult, Zenon
<1>4. r \notin LifeCycle!Known
  <2>1. r \notin Ids(results) \cup Ids(processing) \cup Ids(dead) \cup removed
    BY <1>1 DEF ListInv, ResultConservation
  <2> QED BY <2>1, Zenon DEF Ids, LifeCycle!Known
<1>5. LifeCycle!Submit(r)
  BY <1>1, <1>3, <1>4 DEF LifeCycle!Submit
<1> QED BY <1>5 DEF CycleStep, LifeCycle!Next

\* PopResult starts the result at the tail of the queue, and the recovery at the
\* analyzer's start makes a running result wait again.
LEMMA CycleMove ==
  ASSUME ListInv, (\E w \in Workers : PopResult(w)) \/ RecoverMove
  PROVE  CycleStep
<1>1. ASSUME NEW w \in Workers, PopResult(w) PROVE CycleStep
  <2>1. /\ results # << >> /\ results' = Front(results)
        /\ processing' = Cons(Last(results), processing) /\ UNCHANGED <<dead, removed>>
    BY <1>1 DEF PopResult, history
  <2>2. /\ Last(results) \in ToSet(results)
        /\ ToSet(Front(results)) = ToSet(results) \ {Last(results)}
        /\ ToSet(Cons(Last(results), processing)) = ToSet(processing) \cup {Last(results)}
    BY <2>1, ListFacts, MovedEntry
  <2>3. LifeCycle!Start(Last(results))
    BY <2>1, <2>2 DEF LifeCycle!Start
  <2> QED BY <2>2, <2>3 DEF CycleStep, LifeCycle!Next
<1>2. CASE RecoverMove
  <2>1. /\ processing # << >> /\ processing' = Front(processing)
        /\ results' = Cons(Last(processing), results) /\ UNCHANGED <<dead, removed>>
    BY <1>2, Zenon DEF RecoverMove, history
  <2>2. /\ Last(processing) \in ToSet(processing)
        /\ ToSet(Front(processing)) = ToSet(processing) \ {Last(processing)}
        /\ ToSet(Cons(Last(processing), results)) = ToSet(results) \cup {Last(processing)}
    BY <2>1, ListFacts, MovedEntry
  <2>3. LifeCycle!Recover(Last(processing))
    BY <2>1, <2>2 DEF LifeCycle!Recover
  <2> QED BY <2>2, <2>3 DEF CycleStep, LifeCycle!Next
<1> QED BY <1>1, <1>2

\* ackResultScript finishes one running result of the task, or does nothing if
\* janitor or recovery took them all away meanwhile.
LEMMA CycleAck ==
  ASSUME ListInv, NEW w \in Workers, AckResult(w)
  PROVE  CycleStep
<1> DEFINE same == {k \in DOMAIN processing : TaskOf[processing[k].id] = TaskOf[wres[w]]}
<1>1. UNCHANGED <<results, dead>>
  BY DEF AckResult
<1>2. CASE same = {}
  BY <1>1, <1>2, CycleStutter DEF AckResult, lists
<1>3. CASE same # {}
  <2> DEFINE n == Min(same)
  <2>1. /\ processing' = RemoveAt(processing, n)
        /\ removed' = removed \cup {processing[n].id}
    BY <1>3 DEF AckResult
  <2>2. same \in SUBSET Nat /\ same \subseteq DOMAIN processing
    <3>1. same \subseteq DOMAIN processing
      OBVIOUS
    <3> HIDE DEF same
    <3>2. processing \in Seq(Entry)
      BY ListFacts
    <3>3. DOMAIN processing = 1..Len(processing) /\ Len(processing) \in Nat
      BY <3>2, LenProperties
    <3> QED BY <3>1, <3>3
  <2> HIDE DEF same
  <2>3. n \in DOMAIN processing
    BY <1>3, <2>2, MinOfNats, Zenon
  <2> HIDE DEF n
  <2>4. ToSet(processing') = ToSet(processing) \ {processing[n]}
    BY <2>1, <2>3, ListFacts, RemoveAtResult
  <2>5. processing[n] \in ToSet(processing)
    BY <2>3 DEF ToSet
  <2>6. LifeCycle!Finish(processing[n])
    BY <1>1, <2>1, <2>4 DEF LifeCycle!Finish
  <2> QED BY <2>5, <2>6 DEF CycleStep, LifeCycle!Next
<1> QED BY <1>2, <1>3

\* rescueResultScript retries or buries what it finds in processing, by its retry
\* count, and does nothing if the listing was out of date.
LEMMA CycleRescue ==
  ASSUME ListInv, NEW raw, Rescue(raw), UNCHANGED removed
  PROVE  CycleStep
<1> DEFINE again == [raw EXCEPT !.retry = @ + 1]
<1>1. CASE raw \notin ToSet(processing)
  BY <1>1, CycleStutter DEF Rescue
<1>2. CASE raw \in ToSet(processing)
  <2>1. Requeue(raw, raw.retry + 1 > MaxRetries)
    BY <1>2 DEF Rescue
  <2>2. raw \in Entry /\ raw.retry \in Nat /\ raw.retry <= MaxRetries
    <3>1. raw \in Entry /\ raw.retry \in Nat
      BY <1>2, ListFacts, InList
    <3> QED BY <1>2, <3>1 DEF ListInv, RetryBudget
  <2>3. again \in Entry
    BY <2>2 DEF Entry
  <2>4. ToSet(processing') = ToSet(processing) \ {raw}
    <3>1. PICK n \in DOMAIN processing :
            processing[n] = raw /\ RemoveFirst(processing, raw) = RemoveAt(processing, n)
      BY <1>2, ListFacts, RemoveFirstResult
    <3>2. processing' = RemoveAt(processing, n)
      BY <2>1, <3>1 DEF Requeue
    <3> QED BY <3>1, <3>2, ListFacts, RemoveAtResult
  <2>5. CASE raw.retry + 1 > MaxRetries
    <3>1. dead' = Cons(again, dead) /\ UNCHANGED results
      BY <2>1, <2>5 DEF Requeue
    <3>2. ToSet(dead') = ToSet(dead) \cup {again}
      <4> HIDE DEF again
      <4> QED BY <2>3, <3>1, ListFacts, ConsResult, Zenon
    <3>3. raw.retry = MaxRetries
      BY <2>2, <2>5, PipelineBounds
    <3>4. LifeCycle!Bury(raw)
      BY <2>4, <3>1, <3>2, <3>3 DEF LifeCycle!Bury
    <3> QED BY <1>2, <3>4 DEF CycleStep, LifeCycle!Next
  <2>6. CASE ~(raw.retry + 1 > MaxRetries)
    <3>1. results' = Cons(again, results) /\ UNCHANGED dead
      BY <2>1, <2>6 DEF Requeue
    <3>2. ToSet(results') = ToSet(results) \cup {again}
      <4> HIDE DEF again
      <4> QED BY <2>3, <3>1, ListFacts, ConsResult, Zenon
    <3>3. raw.retry < MaxRetries
      BY <2>2, <2>6, PipelineBounds
    <3>4. LifeCycle!Retry(raw)
      BY <2>4, <3>1, <3>2, <3>3 DEF LifeCycle!Retry
    <3> QED BY <1>2, <3>4 DEF CycleStep, LifeCycle!Next
  <2> QED BY <2>5, <2>6
<1> QED BY <1>1, <1>2

\* Every step of the pipeline is a step of the life cycle or none.
LEMMA CycleNext ==
  ASSUME ListInv, [Next]_vars
  PROVE  CycleStep
<1>1. ASSUME NEW w \in Workers, Worker(w) \/ ProcessFails(w) \/ AckFails(w)
      PROVE  CycleStep
  <2>1. CASE PopResult(w)
    BY <2>1, CycleMove
  <2>2. CASE AckResult(w)
    BY <2>2, CycleAck
  <2>3. CASE RecordStart(w) \/ CheckProcessed(w) \/ CountItems(w) \/ ReadStates(w) \/ WritesDone(w)
    BY <2>3, CycleStutter, Zenon
    DEF RecordStart, CheckProcessed, CountItems, ReadStates, WritesDone, history
  <2>4. CASE WriteState(w) \/ UpsertStats(w) \/ MarkProcessed(w) \/ ProcessFails(w) \/ AckFails(w)
    BY <2>4, CycleStutter, Zenon
    DEF WriteState, UpsertStats, MarkProcessed, ProcessFails, AckFails, history
  <2> QED BY <1>1, <2>1, <2>2, <2>3, <2>4, Zenon DEF Worker
<1>2. CASE Janitor
  <2>1. CASE JanitorRescue
    <3>1. CASE Head(jraws) \in jstuck
      BY <2>1, <3>1, CycleRescue, Zenon DEF JanitorRescue, history
    <3>2. CASE Head(jraws) \notin jstuck
      BY <2>1, <3>2, CycleStutter, Zenon DEF JanitorRescue, history
    <3> QED BY <3>1, <3>2
  <2>2. CASE JanitorHGetAll \/ JanitorLRange \/ \E t \in Tasks : JanitorClean(t)
    BY <2>2, CycleStutter, Zenon DEF JanitorHGetAll, JanitorLRange, JanitorClean, history
  <2> QED BY <1>2, <2>1, <2>2, Zenon DEF Janitor
<1>3. CASE RecoverHDel \/ RecoverDone \/ RestartAnalyzer \/ Tick \/ UNCHANGED vars
  BY <1>3, CycleStutter, Zenon
  DEF RecoverHDel, RecoverDone, RestartAnalyzer, Tick, vars, history
<1> QED BY <1>1, <1>2, <1>3, CyclePush, CycleMove, Zenon DEF Next, Recovery

\* The result queue, with its workers, janitor and recovery, treats every result
\* as the life cycle says, as the task queue does every task.
THEOREM ImplementsLifeCycle == Spec => KeepsLifeCycle
<1>1. Init => LifeCycle!Init
  BY DEF Init, LifeCycle!Init, ToSet
<1>2. IndInv /\ [Next]_vars => [LifeCycle!Next]_(LifeCycle!vars)
  BY CycleNext DEF CycleStep, IndInv
<1> QED BY <1>1, <1>2, Invariant, PTL DEF Spec, KeepsLifeCycle, LifeCycle!Spec

-----------------------------------------------------------------------------
(* New listings are counted once.                                          *)

\* One pipeline worker: two of them may read the hash of an item before either
\* writes it, and then both count the listing.
OneWorker == \A v, w \in Workers : v = w

\* A crawl reports an item on sale once: fetchPageContent keeps one entry per
\* source_id of a page.  An item that slips to the next page between two fetches
\* is reported twice and, both replies being empty, counted twice.  (On sale and
\* sold in one crawl is allowed: the two searches are made one after the other.)
OneListingEach ==
  \A r \in Results : \A k, l \in DOMAIN Sightings[r] :
    /\ Sightings[r][k].item = Sightings[r][l].item
    /\ Sightings[r][k].status = "available" /\ Sightings[r][l].status = "available"
    => k = l

Batch(w) == Sightings[wres[w]]

\* A counted item has a hash, and the worker knows it: if its reply shows none,
\* the item is not counted yet, and every sighting in its hands is written
\* before it is counted.
CountInv ==
  /\ \A w \in Workers : wpc[w] = "stats" => wleft[w] = << >>
  /\ \A i \in Items :
      /\ inflow[i] \in {0, 1}
      /\ inflow[i] # 0 => item[i] # None
      /\ \A w \in Workers : wpc[w] \in {"write", "stats"} =>
           /\ wold[w][i] = None => inflow[i] = 0
           /\ \A k \in DOMAIN Batch(w) :
                Batch(w)[k].item = i => item[i] # None \/ Batch(w)[k] \in ToSet(wleft[w])

\* What is known of an item.
LEMMA CountOfItem ==
  ASSUME CountInv, NEW i \in Items
  PROVE  inflow[i] \in {0, 1} /\ (inflow[i] # 0 => item[i] # None)
BY Zenon DEF CountInv

\* An item that the worker is about to count is written and not counted yet.
LEMMA WrittenNotCounted ==
  ASSUME CountInv, NEW w \in Workers, NEW i \in Items, wpc[w] = "stats", wold[w][i] = None,
         \E k \in DOMAIN Batch(w) : Batch(w)[k].item = i
  PROVE  inflow[i] = 0 /\ item[i] # None
<1>1. wleft[w] = << >>
  BY Zenon DEF CountInv
<1>2. wpc[w] \in {"write", "stats"}
  OBVIOUS
<1>3. /\ wold[w][i] = None => inflow[i] = 0
      /\ \A k \in DOMAIN Batch(w) : Batch(w)[k].item = i => item[i] # None \/ Batch(w)[k] \in ToSet(wleft[w])
  BY <1>2, Zenon DEF CountInv
<1>4. ToSet(<< >>) = {}
  BY DEF ToSet
<1> QED BY <1>1, <1>3, <1>4, Zenon

\* The head of a list and what its tail holds are what the list holds.
LEMMA HeadTailSet ==
  ASSUME NEW S, NEW q \in Seq(S), q # << >>
  PROVE  ToSet(q) = ToSet(Tail(q)) \cup {Head(q)}
<1>1. /\ Len(q) \in Nat /\ Len(q) >= 1 /\ DOMAIN q = 1..Len(q)
      /\ Tail(q) \in Seq(S) /\ Len(Tail(q)) = Len(q) - 1 /\ Head(q) = q[1]
      /\ \A n \in 1..(Len(q) - 1) : Tail(q)[n] = q[n + 1]
  BY LenProperties, EmptySeq, HeadTailProperties
<1>2. DOMAIN Tail(q) = 1..(Len(q) - 1)
  BY <1>1, LenProperties
<1>3. \A n \in DOMAIN q : n = 1 \/ (n - 1 \in DOMAIN Tail(q) /\ Tail(q)[n - 1] = q[n])
  <2>1. SUFFICES ASSUME NEW n \in 2..Len(q)
                 PROVE  n - 1 \in DOMAIN Tail(q) /\ Tail(q)[n - 1] = q[n]
    BY <1>1
  <2>2. n - 1 \in 1..(Len(q) - 1) /\ (n - 1) + 1 = n
    BY <1>1
  <2> QED BY <1>1, <1>2, <2>2
<1>4. \A n \in DOMAIN Tail(q) : n + 1 \in DOMAIN q /\ Tail(q)[n] = q[n + 1]
  BY <1>1, <1>2
<1>5. 1 \in DOMAIN q
  BY <1>1
<1>6. ToSet(Tail(q)) \subseteq ToSet(q)
  BY <1>4 DEF ToSet
<1>7. Head(q) \in ToSet(q)
  BY <1>1, <1>5 DEF ToSet
<1>8. ASSUME NEW n \in DOMAIN q PROVE q[n] \in ToSet(Tail(q)) \cup {Head(q)}
  BY <1>1, <1>3, Zenon DEF ToSet
<1> QED BY <1>6, <1>7, <1>8 DEF ToSet

\* A step after which no worker is between its reads and its count, and which
\* changes neither hashes nor counts.
LEMMA CountAway ==
  ASSUME CountInv, UNCHANGED <<inflow, item>>,
         \A w \in Workers : wpc'[w] \notin {"write", "stats"}
  PROVE  CountInv'
BY DEF CountInv

\* A step that touches nothing of it.
LEMMA CountUnchanged ==
  ASSUME CountInv, UNCHANGED <<inflow, item, wpc, wres, wold, wleft>>
  PROVE  CountInv'
BY DEF CountInv, Batch

\* One item of a result is listed at most once, and only if it is a sighting of
\* the result and the state read has no hash for it.
LEMMA ListingsBound ==
  ASSUME OneListingEach, NEW w \in Workers, wres[w] \in Results, NEW i \in Items
  PROVE  /\ Listings(w, i) \in {0, 1}
         /\ Listings(w, i) # 0 => /\ wold[w][i] = None
                                  /\ \E k \in DOMAIN Batch(w) : Batch(w)[k].item = i
<1> DEFINE K == {k \in SightingsOf(w, i) : NewListing(wold[w][i], Sightings[wres[w]][k])}
<1>1. \A k, l \in K : k = l
  BY Zenon DEF OneListingEach, SightingsOf, NewListing
<1>2. CASE K = {}
  BY <1>2, FS_EmptySet, Zenon DEF Listings
<1>3. CASE K # {}
  <2>1. PICK k \in K : TRUE
    BY <1>3
  <2>2. K = {k}
    BY <1>1, <2>1, Zenon
  <2>3. Cardinality(K) = 1
    BY <2>2, FS_Singleton, Zenon
  <2>4. /\ wold[w][i] = None
        /\ k \in DOMAIN Batch(w) /\ Batch(w)[k].item = i
    BY <2>1 DEF SightingsOf, NewListing, Batch
  <2> QED BY <2>3, <2>4, Zenon DEF Listings
<1> QED BY <1>2, <1>3, Zenon

\* The one worker's steps keep the count right.
LEMMA WorkerCounts ==
  ASSUME OneWorker, OneListingEach, IndInv, CountInv, NEW w \in Workers,
         Worker(w) \/ ProcessFails(w) \/ AckFails(w)
  PROVE  CountInv'
<1>0. /\ WorkersOK /\ StoreOK /\ \A v \in Workers : v = w
  BY DEF IndInv, OneWorker
<1>1. CASE \/ PopResult(w) \/ RecordStart(w) \/ CheckProcessed(w) \/ CountItems(w)
           \/ MarkProcessed(w)
  <2>1. UNCHANGED <<inflow, item>> /\ wpc'[w] \in {"popped", "check", "ack", "mark", "count", "read"}
    BY <1>0, <1>1, Zenon DEF PopResult, RecordStart, CheckProcessed, CountItems, MarkProcessed,
                      Go, store, WorkersOK
  <2> QED BY <1>0, <2>1, CountAway
<1>2. CASE ProcessFails(w) \/ AckFails(w) \/ AckResult(w)
  <2>1. UNCHANGED <<inflow, item>> /\ wpc'[w] = "idle"
    BY <1>0, <1>2, Zenon DEF ProcessFails, AckFails, AckResult, Release, store, WorkersOK
  <2> QED BY <1>0, <2>1, CountAway
<1>3. CASE ReadStates(w)
  <2>1. /\ wold'[w] = item /\ wleft'[w] = Sightings[wres[w]]
        /\ wpc'[w] = "write" /\ UNCHANGED <<inflow, item, wres>>
    BY <1>0, <1>3 DEF ReadStates, Go, store, WorkersOK
  <2>2. \A k \in DOMAIN Batch(w) : Batch(w)[k] \in ToSet(wleft'[w])
    BY <2>1, Zenon DEF Batch, ToSet
  <2>3. Batch(w)' = Batch(w)
    BY <2>1 DEF Batch
  <2> QED BY <1>0, <2>1, <2>2, <2>3, Zenon DEF CountInv
<1>4. CASE WriteState(w)
  <2> DEFINE s == Head(wleft[w])
  <2>1. wleft[w] \in Seq(Sighting) /\ wleft[w] # << >>
    BY <1>0, <1>4, Zenon DEF WriteState, WorkersOK
  <2>2. s \in Sighting /\ s.item \in Items /\ s.status # None
    <3>1. s \in Sighting
      BY <2>1, HeadTailProperties, Zenon
    <3> HIDE DEF s
    <3> QED BY <3>1 DEF Sighting, Statuses, None
  <2>3. /\ item' = [item EXCEPT ![s.item] = s.status]
        /\ wleft'[w] = Tail(wleft[w]) /\ wpc[w] = "write"
        /\ UNCHANGED <<inflow, wpc, wres, wold>>
    BY <1>0, <1>4, Zenon DEF WriteState, WorkersOK
  <2>4. ToSet(wleft[w]) = ToSet(Tail(wleft[w])) \cup {s}
    BY <2>1, HeadTailSet, Zenon
  <2> HIDE DEF s
  <2>5. \A i \in Items : item[i] # None \/ i = s.item => item'[i] # None
    BY <1>0, <2>2, <2>3, Zenon DEF StoreOK
  <2>6. Batch(w)' = Batch(w)
    BY <2>3 DEF Batch
  <2>7. ASSUME NEW i \in Items, NEW k \in DOMAIN Batch(w), Batch(w)[k].item = i
        PROVE  item'[i] # None \/ Batch(w)[k] \in ToSet(wleft'[w])
    BY <2>3, <2>4, <2>5, <2>7, Zenon DEF CountInv
  <2> QED BY <1>0, <2>3, <2>5, <2>6, <2>7, Zenon DEF CountInv
<1>5. CASE WritesDone(w)
  <2>1. /\ wpc[w] = "write" /\ wpc'[w] = "stats" /\ wleft[w] = << >>
        /\ UNCHANGED <<inflow, item, wres, wold, wleft>>
    BY <1>0, <1>5 DEF WritesDone, Go, store, WorkersOK
  <2>2. Batch(w)' = Batch(w)
    BY <2>1, Zenon DEF Batch
  <2> QED BY <1>0, <2>1, <2>2, Zenon DEF CountInv
<1>6. CASE UpsertStats(w)
  <2>1. wpc[w] = "stats" /\ wpc'[w] = "mark" /\ wres[w] \in Results /\ UNCHANGED item
    BY <1>0, <1>6 DEF UpsertStats, Go, WorkersOK
  <2>3. CASE wfirst[w]
    BY <1>0, <1>6, <2>1, <2>3, CountAway DEF UpsertStats
  <2>4. CASE ~wfirst[w]
    <3>1. inflow' = [i \in Items |-> inflow[i] + Listings(w, i)]
      BY <1>6, <2>4 DEF UpsertStats
    <3>2. ASSUME NEW i \in Items
          PROVE  inflow'[i] \in {0, 1} /\ (inflow'[i] # 0 => item'[i] # None)
      <4>1. inflow[i] \in {0, 1} /\ (inflow[i] # 0 => item[i] # None)
        BY CountOfItem, Zenon
      <4>2. CASE Listings(w, i) = 0
        <5>1. inflow'[i] = inflow[i] + 0
          BY <3>1, <4>2, Zenon
        <5>2. \A n \in {0, 1} : n + 0 = n
          OBVIOUS
        <5>3. inflow'[i] = inflow[i]
          BY <4>1, <5>1, <5>2, Zenon
        <5> QED BY <2>1, <4>1, <5>3, Zenon
      <4>3. CASE Listings(w, i) # 0
        <5>1. /\ Listings(w, i) = 1 /\ wold[w][i] = None
              /\ \E k \in DOMAIN Batch(w) : Batch(w)[k].item = i
          BY <2>1, <4>3, ListingsBound, Zenon
        <5>2. inflow[i] = 0 /\ item[i] # None
          BY <2>1, <5>1, WrittenNotCounted, Zenon
        <5>3. inflow'[i] = 1
          <6>1. inflow'[i] = inflow[i] + Listings(w, i)
            BY <3>1, Zenon
          <6>2. 0 + 1 = 1
            OBVIOUS
          <6> QED BY <5>1, <5>2, <6>1, <6>2, Zenon
        <5> QED BY <2>1, <5>2, <5>3, Zenon
      <4> QED BY <4>2, <4>3
    <3> QED BY <1>0, <2>1, <3>2, Zenon DEF CountInv
  <2> QED BY <2>3, <2>4
<1> QED BY <1>1, <1>2, <1>3, <1>4, <1>5, <1>6 DEF Worker

\* So do the steps of everyone else.
LEMMA NextCounts ==
  ASSUME OneWorker, OneListingEach
  PROVE  IndInv /\ CountInv /\ [Next]_vars => CountInv'
<1> SUFFICES ASSUME IndInv, CountInv, [Next]_vars PROVE CountInv'
  OBVIOUS
<1>1. ASSUME NEW r \in Results, PushResult(r) PROVE CountInv'
  BY <1>1, CountUnchanged DEF PushResult, store, workers
<1>2. ASSUME NEW w \in Workers, Worker(w) \/ ProcessFails(w) \/ AckFails(w)
      PROVE  CountInv'
  BY <1>2, WorkerCounts
<1>3. CASE Janitor
  BY <1>3, CountUnchanged, Zenon DEF Janitor, JanitorHGetAll, JanitorLRange, JanitorRescue,
                              JanitorClean, store, workers
<1>4. CASE Recovery
  BY <1>4, CountUnchanged, Zenon DEF Recovery, RecoverMove, RecoverHDel, RecoverDone, store,
                              workers
<1>5. CASE RestartAnalyzer
  BY <1>5, CountAway DEF RestartAnalyzer, Rest, store
<1>6. CASE Tick
  BY <1>6, CountUnchanged, Zenon DEF Tick, store, workers
<1>7. CASE UNCHANGED vars
  BY <1>7, CountUnchanged DEF vars, store, workers
<1> QED BY <1>1, <1>2, <1>3, <1>4, <1>5, <1>6, <1>7 DEF Next

\* With one worker, and crawls that report an item on sale once, a new listing
\* is counted at most once, wherever the processing of its results fails, is
\* cut off by a restart, or is repeated under the same or another task.
THEOREM ListingsCountedOnce ==
  ASSUME OneWorker, OneListingEach
  PROVE  Spec => []InflowCountedOnce
<1>1. Init => CountInv
  BY DEF Init, CountInv
<1>2. IndInv /\ CountInv /\ [Next]_vars => CountInv'
  BY NextCounts
<1>3. CountInv => InflowCountedOnce
  BY DEF CountInv, InflowCountedOnce
<1> QED BY <1>1, <1>2, <1>3, Invariant, PTL DEF Spec
=============================================================================
