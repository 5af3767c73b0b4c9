-------------------------- MODULE TaskQueueProofs --------------------------
(***************************************************************************)
(* Proofs about TaskQueue, for every number of tasks, IPs, workers and     *)
(* janitors, every threshold and every retry limit.                        *)
(***************************************************************************)
EXTENDS TaskQueue, SequenceTheorems, TLAPS

-----------------------------------------------------------------------------
(* What the list commands do to the contents of a list.  The proofs below  *)
(* cite these lemmas instead of positions.                                 *)

\* LPUSH adds one entry, and keeps ids unique if its id is new to the list.
LEMMA ConsEntry ==
  ASSUME NEW S, NEW s \in Seq(S), NEW e \in S
  PROVE  /\ Cons(e, s) \in Seq(S)
         /\ ToSet(Cons(e, s)) = ToSet(s) \cup {e}
         /\ Ids(Cons(e, s)) = Ids(s) \cup {e.id}
         /\ OneEntryPerId(s) /\ e.id \notin Ids(s) => OneEntryPerId(Cons(e, s))
<1> DEFINE c == Cons(e, s)
<1>1. /\ c \in Seq(S)
      /\ Len(c) = Len(s) + 1
      /\ c[1] = e
      /\ \A i \in 1..Len(s) : c[i + 1] = s[i]
  BY DEF Cons
<1>2. DOMAIN c = 1..(Len(s) + 1) /\ DOMAIN s = 1..Len(s) /\ Len(s) \in Nat
  BY <1>1
<1>3. \A i \in DOMAIN c : i = 1 \/ (i - 1 \in DOMAIN s /\ c[i] = s[i - 1])
  <2>1. SUFFICES ASSUME NEW i \in 2..(Len(s) + 1)
                 PROVE  i - 1 \in DOMAIN s /\ c[i] = s[i - 1]
    BY <1>2
  <2>2. i - 1 \in 1..Len(s) /\ (i - 1) + 1 = i
    BY <1>2
  <2> QED BY <2>2, <1>1, <1>2
<1>4. ToSet(c) = ToSet(s) \cup {e}
  <2>1. ToSet(c) \subseteq ToSet(s) \cup {e}
    BY <1>3, <1>1 DEF ToSet
  <2>2. e \in ToSet(c)
    BY <1>1, <1>2 DEF ToSet
  <2>3. ASSUME NEW i \in DOMAIN s PROVE s[i] \in ToSet(c)
    <3>1. i + 1 \in DOMAIN c /\ c[i + 1] = s[i]
      BY <1>1, <1>2
    <3> QED BY <3>1 DEF ToSet
  <2> QED BY <2>1, <2>2, <2>3, Zenon DEF ToSet
<1>5. ASSUME OneEntryPerId(s), e.id \notin Ids(s)
      PROVE  OneEntryPerId(c)
  <2>1. SUFFICES ASSUME NEW i \in DOMAIN c, NEW k \in DOMAIN c,
                        c[i].id = c[k].id
                 PROVE  i = k
    BY DEF OneEntryPerId
  <2>2. \A m \in DOMAIN s : s[m].id # e.id
    BY <1>5 DEF Ids, ToSet
  <2>3. CASE i = 1 /\ k = 1
    BY <2>3
  <2>4. CASE i = 1 /\ k # 1
    BY <2>4, <2>1, <2>2, <1>1, <1>3
  <2>5. CASE i # 1 /\ k = 1
    BY <2>5, <2>1, <2>2, <1>1, <1>3
  <2>6. CASE i # 1 /\ k # 1
    <3>1. i - 1 = k - 1
      BY <2>6, <2>1, <1>3, <1>5 DEF OneEntryPerId
    <3> QED BY <3>1, <1>2
  <2> QED BY <2>3, <2>4, <2>5, <2>6
<1>6. Ids(c) = Ids(s) \cup {e.id}
  BY <1>4 DEF Ids
<1> QED BY <1>1, <1>4, <1>5, <1>6

\* Removing one position of a list with unique ids removes just that entry.
LEMMA RemoveAtEntry ==
  ASSUME NEW S, NEW s \in Seq(S), OneEntryPerId(s), NEW n \in DOMAIN s
  PROVE  /\ RemoveAt(s, n) \in Seq(S)
         /\ ToSet(RemoveAt(s, n)) = ToSet(s) \ {s[n]}
         /\ Ids(RemoveAt(s, n)) = Ids(s) \ {s[n].id}
         /\ OneEntryPerId(RemoveAt(s, n))
<1> DEFINE r == RemoveAt(s, n)
           old(i) == IF i < n THEN i ELSE i + 1
<1>0. Len(s) \in Nat /\ DOMAIN s = 1..Len(s) /\ n \in 1..Len(s) /\ Len(s) >= 1
  BY LenProperties
<1>1. /\ r \in Seq(S)
      /\ Len(r) = Len(s) - 1
      /\ \A i \in 1..(Len(s) - 1) : r[i] = s[old(i)]
  <2> DEFINE p == SubSeq(s, 1, n - 1)
             q == SubSeq(s, n + 1, Len(s))
  <2>1. /\ p \in Seq(S)
        /\ Len(p) = n - 1
        /\ \A i \in 1..(n - 1) : p[i] = s[i]
    <3>1. \A i \in 1..(n - 1) : s[i] \in S
      BY <1>0, ElementOfSeq
    <3>2. /\ p \in Seq(S)
          /\ Len(p) = IF 1 <= n - 1 THEN (n - 1) - 1 + 1 ELSE 0
          /\ \A i \in 1..((n - 1) - 1 + 1) : p[i] = s[1 + i - 1]
      BY <3>1, <1>0, SubSeqProperties
    <3> QED BY <3>2, <1>0
  <2>2. /\ q \in Seq(S)
        /\ Len(q) = Len(s) - n
        /\ \A i \in 1..(Len(s) - n) : q[i] = s[n + i]
    <3>1. \A i \in (n + 1)..Len(s) : s[i] \in S
      BY <1>0, ElementOfSeq
    <3>2. /\ q \in Seq(S)
          /\ Len(q) = IF n + 1 <= Len(s) THEN Len(s) - (n + 1) + 1 ELSE 0
          /\ \A i \in 1..(Len(s) - (n + 1) + 1) : q[i] = s[(n + 1) + i - 1]
      BY <3>1, <1>0, SubSeqProperties
    <3> QED BY <3>2, <1>0
  <2>3. /\ p \o q \in Seq(S)
        /\ Len(p \o q) = Len(p) + Len(q)
        /\ \A i \in 1..(Len(p) + Len(q)) :
             (p \o q)[i] = IF i <= Len(p) THEN p[i] ELSE q[i - Len(p)]
    BY <2>1, <2>2, ConcatProperties, Zenon
  <2>4. r = p \o q
    BY DEF RemoveAt
  <2> HIDE DEF p, q, r
  <2>5. ASSUME NEW i \in 1..(Len(s) - 1) PROVE r[i] = s[old(i)]
    <3>1. CASE i < n
      <4>1. i \in 1..(n - 1) /\ old(i) = i
        BY <3>1, <1>0
      <4>2. i \in 1..(Len(p) + Len(q)) /\ i <= Len(p)
        BY <4>1, <2>1, <2>2, <1>0
      <4>3. r[i] = p[i]
        BY <4>2, <2>3, <2>4
      <4> QED BY <4>1, <4>3, <2>1
    <3>2. CASE i >= n
      <4>1. i - (n - 1) \in 1..(Len(s) - n) /\ n + (i - (n - 1)) = i + 1
        BY <3>2, <1>0
      <4>2. i \in 1..(Len(p) + Len(q)) /\ ~(i <= Len(p))
        BY <3>2, <2>1, <2>2, <1>0
      <4>3. r[i] = q[i - (n - 1)]
        BY <4>2, <2>1, <2>3, <2>4
      <4> QED BY <4>1, <4>3, <3>2, <2>2, <1>0
    <3> QED BY <3>1, <3>2, <1>0
  <2>6. Len(r) = Len(s) - 1
    <3>1. Len(r) = Len(p) + Len(q)
      BY <2>3, <2>4
    <3>2. Len(p) = n - 1 /\ Len(q) = Len(s) - n
      BY <2>1, <2>2
    <3>3. (n - 1) + (Len(s) - n) = Len(s) - 1
      BY <1>0
    <3> QED BY <3>1, <3>2, <3>3
  <2> QED BY <2>3, <2>4, <2>5, <2>6
<1> HIDE DEF r
<1>2. DOMAIN r = 1..(Len(s) - 1)
  BY <1>1, LenProperties
<1>3. \A i \in DOMAIN r : old(i) \in DOMAIN s /\ old(i) # n /\ r[i] = s[old(i)]
  BY <1>0, <1>1, <1>2
<1>4. \A i, k \in DOMAIN r : old(i) = old(k) => i = k
  BY <1>0, <1>2
<1>5. \A m \in DOMAIN s : m # n => \E i \in DOMAIN r : old(i) = m
  <2>1. SUFFICES ASSUME NEW m \in DOMAIN s, m # n
                 PROVE  \E i \in DOMAIN r : old(i) = m
    OBVIOUS
  <2>2. CASE m < n
    BY <2>2, <1>0, <1>2
  <2>3. CASE m > n
    <3>1. m - 1 \in DOMAIN r /\ old(m - 1) = m
      BY <2>3, <1>0, <1>2
    <3> QED BY <3>1
  <2> QED BY <2>1, <2>2, <2>3, <1>0
<1> HIDE DEF old
<1>6. ToSet(r) = ToSet(s) \ {s[n]}
  <2>1. ToSet(r) \subseteq ToSet(s) \ {s[n]}
    BY <1>3 DEF ToSet, OneEntryPerId
  <2>2. ASSUME NEW m \in DOMAIN s, s[m] # s[n] PROVE s[m] \in ToSet(r)
    <3>1. PICK i \in DOMAIN r : old(i) = m
      BY <2>2, <1>5
    <3> QED BY <3>1, <1>3 DEF ToSet
  <2> QED BY <2>1, <2>2, Zenon DEF ToSet
<1>7. Ids(r) = Ids(s) \ {s[n].id}
  <2>1. \A e \in ToSet(s) : e.id = s[n].id <=> e = s[n]
    BY DEF ToSet, OneEntryPerId
  <2> QED BY <2>1, <1>6 DEF Ids
<1>8. OneEntryPerId(r)
  BY <1>3, <1>4 DEF OneEntryPerId
<1> QED BY <1>1, <1>6, <1>7, <1>8 DEF r

\* RPOP takes the last entry off; the rest of the list is what was before it.
LEMMA FrontEntry ==
  ASSUME NEW S, NEW s \in Seq(S), s # << >>
  PROVE  /\ Last(s) \in S /\ Last(s) \in ToSet(s)
         /\ Front(s) \in Seq(S)
         /\ ToSet(s) = ToSet(Front(s)) \cup {Last(s)}
         /\ Ids(s) = Ids(Front(s)) \cup {Last(s).id}
         /\ OneEntryPerId(s) => /\ OneEntryPerId(Front(s))
                               /\ Last(s).id \notin Ids(Front(s))
<1> DEFINE n == Len(s)
           f == Front(s)
<1>1. n \in Nat /\ n >= 1 /\ DOMAIN s = 1..n /\ \A i \in 1..n : s[i] \in S
  BY LenProperties, EmptySeq, ElementOfSeq
<1>2. Last(s) = s[n] /\ n \in DOMAIN s
  BY <1>1 DEF Last
<1>3. /\ f \in Seq(S)
      /\ Len(f) = n - 1
      /\ \A i \in 1..(n - 1) : f[i] = s[i]
  <2>1. \A i \in 1..(n - 1) : s[i] \in S
    BY <1>1
  <2>2. /\ f \in Seq(S)
        /\ Len(f) = IF 1 <= n - 1 THEN (n - 1) - 1 + 1 ELSE 0
        /\ \A i \in 1..((n - 1) - 1 + 1) : f[i] = s[1 + i - 1]
    BY <2>1, <1>1, SubSeqProperties DEF Front
  <2> HIDE DEF f, n
  <2>3. Len(f) = n - 1
    BY <2>2, <1>1
  <2>4. \A i \in 1..(n - 1) : i \in 1..((n - 1) - 1 + 1) /\ 1 + i - 1 = i
    BY <1>1
  <2> QED BY <2>2, <2>3, <2>4
<1>4. DOMAIN f = 1..(n - 1)
  BY <1>3, LenProperties
<1> HIDE DEF f, n
<1>5. \A i \in DOMAIN f : i \in DOMAIN s /\ i # n /\ f[i] = s[i]
  BY <1>1, <1>3, <1>4
<1>6. \A i \in DOMAIN s : i = n \/ i \in DOMAIN f
  BY <1>1, <1>4
<1>7. ToSet(s) = ToSet(f) \cup {Last(s)}
  BY <1>2, <1>5, <1>6 DEF ToSet
<1>8. ASSUME OneEntryPerId(s)
      PROVE  OneEntryPerId(f) /\ Last(s).id \notin Ids(f)
  BY <1>8, <1>2, <1>5 DEF OneEntryPerId, Ids, ToSet
<1>9. Last(s) \in S /\ Last(s) \in ToSet(s)
  BY <1>1, <1>2 DEF ToSet
<1>10. Ids(s) = Ids(f) \cup {Last(s).id}
  BY <1>7 DEF Ids
<1> QED BY <1>3, <1>7, <1>8, <1>9, <1>10 DEF f

\* In a list with unique ids, LREM of an entry that is there removes it.
LEMMA RemoveFirstEntry ==
  ASSUME NEW S, NEW s \in Seq(S), OneEntryPerId(s), NEW e \in ToSet(s)
  PROVE  \E n \in DOMAIN s : s[n] = e /\ RemoveFirst(s, e) = RemoveAt(s, n)
<1>1. PICK n \in DOMAIN s : s[n] = e
  BY DEF ToSet
<1>2. DOMAIN s = 1..Len(s)
  BY LenProperties
<1> DEFINE I == {k \in DOMAIN s : s[k] = e}
<1>3. I = {n}
  BY <1>1, <1>2 DEF OneEntryPerId
<1>4. n \in Int
  BY <1>2, LenProperties
<1>5. I # {} /\ Min(I) = n
  BY <1>3, <1>4 DEF Min
<1>6. RemoveFirst(s, e) = RemoveFirstOf(s, I)
  BY DEF RemoveFirst
<1> HIDE DEF I
<1>7. RemoveFirst(s, e) = RemoveAt(s, n)
  BY <1>5, <1>6 DEF RemoveFirstOf
<1> QED BY <1>1, <1>7

\* The acknowledgement's search by id removes the one entry with that id.
LEMMA RemoveMatchEntry ==
  ASSUME NEW S, NEW s \in Seq(S), OneEntryPerId(s), NEW t, t \in Ids(s)
  PROVE  \E n \in DOMAIN s :
           s[n].id = t /\ RemoveId(s, t) = RemoveAt(s, n)
<1>1. PICK n \in DOMAIN s : s[n].id = t
  BY DEF ToSet, Ids
<1>2. DOMAIN s = 1..Len(s)
  BY LenProperties
<1> DEFINE I == {k \in DOMAIN s : s[k].id = t}
<1>3. I = {n}
  BY <1>1, <1>2 DEF OneEntryPerId
<1>4. n \in Int
  BY <1>2, LenProperties
<1>5. I # {} /\ Min(I) = n
  BY <1>3, <1>4 DEF Min
<1>6. RemoveId(s, t) = RemoveFirstOf(s, I)
  BY DEF RemoveId
<1> HIDE DEF I
<1>7. RemoveId(s, t) = RemoveAt(s, n)
  BY <1>5, <1>6 DEF RemoveFirstOf
<1> QED BY <1>1, <1>7

\* With no entry of that id, it leaves the list as it is.
LEMMA RemoveNoMatch ==
  ASSUME NEW S, NEW s \in Seq(S), NEW t, t \notin Ids(s)
  PROVE  RemoveId(s, t) = s
<1>1. {k \in DOMAIN s : s[k].id = t} = {}
  BY DEF Ids, ToSet
<1> QED BY <1>1 DEF RemoveId, RemoveFirstOf

-----------------------------------------------------------------------------

\* The four promises need each other: that an id is nowhere twice makes a
\* removal take an IP's only task, which is what keeps its mark exact.
Promises ==
  TaskConservation /\ PendingBacked /\ DedupUnlessStrayed /\ RetryBudget

IndInv == TypeOK /\ Promises

\* What the promises are about; most steps leave all of it alone.
contents == <<queue, processing, dead, pending, pushed, acked, strayed>>

-----------------------------------------------------------------------------

\* A step of a crawl, a janitor or the clock that leaves the lists, the pending
\* set and the histories alone keeps every promise.
LEMMA PromisesUnchanged ==
  ASSUME Promises, UNCHANGED contents
  PROVE  Promises'
BY DEF Promises, contents, TaskConservation, PendingBacked, DedupUnlessStrayed,
       RetryBudget, Live

\* The initial state keeps every promise.
LEMMA InitInv == Init => IndInv
<1> SUFFICES ASSUME Init PROVE IndInv
  OBVIOUS
<1>1. ToSet(queue) = {} /\ ToSet(processing) = {} /\ ToSet(dead) = {}
  BY DEF Init, ToSet
<1>2. Ids(queue) = {} /\ Ids(processing) = {} /\ Ids(dead) = {}
  BY <1>1 DEF Ids
<1>3. TypeOK
  BY JanitorAssumption, BoundAssumption
  DEF Init, TypeOK, Nothing, NotStarted, Ages, NoTask
<1>4. TaskConservation
  BY <1>2 DEF Init, TaskConservation, OneEntryPerId
<1>5. PendingBacked /\ DedupUnlessStrayed /\ RetryBudget
  BY <1>1 DEF Init, PendingBacked, DedupUnlessStrayed, RetryBudget, Live
<1> QED BY <1>3, <1>4, <1>5 DEF IndInv, Promises

-----------------------------------------------------------------------------
(* Entries moving between the lists.                                       *)

\* LPUSH of a CrawlRequest to one of the task lists.
LEMMA ConsTask ==
  ASSUME NEW s \in Seq(Entry), NEW e \in Entry
  PROVE  /\ Cons(e, s) \in Seq(Entry)
         /\ ToSet(Cons(e, s)) = ToSet(s) \cup {e}
         /\ Ids(Cons(e, s)) = Ids(s) \cup {e.id}
         /\ OneEntryPerId(s) /\ e.id \notin Ids(s) => OneEntryPerId(Cons(e, s))
BY ConsEntry

\* BRPOPLPUSH and RPOPLPUSH between queue and processing change nothing the
\* promises speak of.
LEMMA PopKeepsPromises ==
  ASSUME IndInv, queue # << >>,
         processing' = Cons(Last(queue), processing),
         queue' = Front(queue),
         UNCHANGED <<dead, pending, pushed, acked, strayed>>
  PROVE  /\ Promises'
         /\ queue' \in Seq(Entry) /\ processing' \in Seq(Entry)
         /\ Last(queue).id \in Tasks
<1> DEFINE e == Last(queue)
<1>0. queue \in Seq(Entry) /\ processing \in Seq(Entry)
  BY DEF IndInv, TypeOK
<1>1. TaskConservation
  BY DEF IndInv, Promises
<1>2. /\ e \in Entry /\ e \in ToSet(queue)
      /\ Front(queue) \in Seq(Entry)
      /\ ToSet(queue) = ToSet(queue') \cup {e}
      /\ Ids(queue) = Ids(queue') \cup {e.id}
      /\ OneEntryPerId(queue') /\ e.id \notin Ids(queue')
  BY <1>0, <1>1, FrontEntry DEF TaskConservation
<1>3. e.id \notin Ids(processing)
  BY <1>1, <1>2 DEF TaskConservation
<1>4. /\ processing' \in Seq(Entry)
      /\ ToSet(processing') = ToSet(processing) \cup {e}
      /\ Ids(processing') = Ids(processing) \cup {e.id}
      /\ OneEntryPerId(processing')
  BY <1>0, <1>1, <1>2, <1>3, ConsTask, Zenon DEF TaskConservation
<1>5. TaskConservation'
  BY <1>1, <1>2, <1>3, <1>4 DEF TaskConservation
<1>6. Live' = Live
  BY <1>2, <1>4 DEF Live
<1>7. (PendingBacked /\ DedupUnlessStrayed /\ RetryBudget)'
  BY <1>6 DEF IndInv, Promises, PendingBacked, DedupUnlessStrayed, RetryBudget
<1> QED BY <1>2, <1>4, <1>5, <1>7 DEF Promises, Entry

\* The recovery's move is the same one backwards.
LEMMA RecoverKeepsPromises ==
  ASSUME IndInv, processing # << >>,
         queue' = Cons(Last(processing), queue),
         processing' = Front(processing),
         UNCHANGED <<dead, pending, pushed, acked, strayed>>
  PROVE  /\ Promises'
         /\ queue' \in Seq(Entry) /\ processing' \in Seq(Entry)
         /\ Last(processing).id \in Tasks
<1> DEFINE e == Last(processing)
<1>0. queue \in Seq(Entry) /\ processing \in Seq(Entry)
  BY DEF IndInv, TypeOK
<1>1. TaskConservation
  BY DEF IndInv, Promises
<1>2. /\ e \in Entry /\ e \in ToSet(processing)
      /\ Front(processing) \in Seq(Entry)
      /\ ToSet(processing) = ToSet(processing') \cup {e}
      /\ Ids(processing) = Ids(processing') \cup {e.id}
      /\ OneEntryPerId(processing') /\ e.id \notin Ids(processing')
  BY <1>0, <1>1, FrontEntry DEF TaskConservation
<1>3. e.id \notin Ids(queue)
  BY <1>1, <1>2 DEF TaskConservation
<1>4. /\ queue' \in Seq(Entry)
      /\ ToSet(queue') = ToSet(queue) \cup {e}
      /\ Ids(queue') = Ids(queue) \cup {e.id}
      /\ OneEntryPerId(queue')
  BY <1>0, <1>1, <1>2, <1>3, ConsTask, Zenon DEF TaskConservation
<1>5. TaskConservation'
  BY <1>1, <1>2, <1>3, <1>4 DEF TaskConservation
<1>6. Live' = Live
  BY <1>2, <1>4 DEF Live
<1>7. (PendingBacked /\ DedupUnlessStrayed /\ RetryBudget)'
  BY <1>6 DEF IndInv, Promises, PendingBacked, DedupUnlessStrayed, RetryBudget
<1> QED BY <1>2, <1>4, <1>5, <1>7 DEF Promises, Entry

\* PushTask of a new id for an unmarked IP.
LEMMA PushKeepsPromises ==
  ASSUME IndInv, NEW t \in Tasks, t \notin pushed, IpOf[t] \notin pending,
         pending' = pending \cup {IpOf[t]},
         queue' = Cons([id |-> t, retry |-> 0], queue),
         pushed' = pushed \cup {t},
         UNCHANGED <<processing, dead, acked, strayed>>
  PROVE  Promises' /\ queue' \in Seq(Entry)
<1> DEFINE e == [id |-> t, retry |-> 0]
<1>0. queue \in Seq(Entry) /\ e \in Entry /\ e.id = t /\ e.retry = 0
  BY DEF IndInv, TypeOK, Entry
<1> HIDE DEF e
<1>1. TaskConservation
  BY DEF IndInv, Promises
<1>2. t \notin Ids(queue) \cup Ids(processing) \cup Ids(dead) \cup acked
  BY <1>1 DEF TaskConservation
<1>3. /\ queue' \in Seq(Entry)
      /\ ToSet(queue') = ToSet(queue) \cup {e}
      /\ Ids(queue') = Ids(queue) \cup {t}
      /\ OneEntryPerId(queue')
  BY <1>0, <1>1, <1>2, ConsTask DEF TaskConservation, e
<1>4. TaskConservation'
  BY <1>1, <1>2, <1>3 DEF TaskConservation
<1>5. Live' = Live \cup {e}
  BY <1>3 DEF Live
<1>6. PendingBacked'
  BY <1>0, <1>5 DEF IndInv, Promises, PendingBacked
<1>7. \A f \in Live : IpOf[f.id] = IpOf[t] => IpOf[t] \in strayed
  BY DEF IndInv, Promises, DedupUnlessStrayed
<1>8. DedupUnlessStrayed'
  BY <1>0, <1>5, <1>7 DEF IndInv, Promises, DedupUnlessStrayed
<1>9. RetryBudget'
  BY <1>0, <1>5, BoundAssumption DEF IndInv, Promises, RetryBudget
<1> QED BY <1>3, <1>4, <1>6, <1>8, <1>9 DEF Promises

\* An entry that leaves processing for good takes its IP's mark along: by
\* DedupUnlessStrayed it was the IP's only task, unless the IP had strayed.
LEMMA RemovalKeepsIpPromises ==
  ASSUME IndInv, NEW e \in ToSet(processing),
         pending' = pending \ {IpOf[e.id]},
         queue' = queue,
         ToSet(processing') = ToSet(processing) \ {e},
         strayed' = strayed
  PROVE  (PendingBacked /\ DedupUnlessStrayed)'
<1>1. PendingBacked /\ DedupUnlessStrayed
  BY DEF IndInv, Promises
<1>2. Live' \subseteq Live /\ Live \subseteq Live' \cup {e}
  BY DEF Live
<1>3. e \in Live
  BY DEF Live
<1>4. PendingBacked'
  BY <1>1, <1>2 DEF PendingBacked
<1>5. \A q \in ToSet(queue), p \in ToSet(processing) : q # p
  BY DEF IndInv, Promises, TaskConservation, Ids
<1>6. e \notin Live'
  BY <1>5 DEF Live
<1>7. DedupUnlessStrayed'
  <2>1. SUFFICES ASSUME NEW f \in Live', IpOf[f.id] \notin strayed
                 PROVE  /\ IpOf[f.id] \in pending'
                        /\ \A g \in Live' : IpOf[g.id] = IpOf[f.id] => g = f
    BY DEF DedupUnlessStrayed
  <2>2. f \in Live /\ f # e
    BY <1>2, <1>6, <2>1
  <2>3. IpOf[f.id] # IpOf[e.id]
    BY <1>1, <1>3, <2>1, <2>2 DEF DedupUnlessStrayed
  <2> QED BY <1>1, <1>2, <2>1, <2>2, <2>3 DEF DedupUnlessStrayed
<1> QED BY <1>4, <1>7

\* ackTaskScript, with and without an entry to remove.
LEMMA AckKeepsPromises ==
  ASSUME IndInv, NEW t \in Tasks,
         processing' = RemoveId(processing, t),
         pending' = pending \ {IpOf[t]},
         acked' = IF InProcessing(t) THEN acked \cup {t} ELSE acked,
         strayed' = IF ~InProcessing(t) /\ IpOf[t] \in pending
                      THEN strayed \cup {IpOf[t]} ELSE strayed,
         UNCHANGED <<queue, dead, pushed>>
  PROVE  Promises' /\ processing' \in Seq(Entry)
<1>0. processing \in Seq(Entry)
  BY DEF IndInv, TypeOK
<1>1. TaskConservation /\ PendingBacked /\ DedupUnlessStrayed /\ RetryBudget
  BY DEF IndInv, Promises
<1>2. InProcessing(t) <=> t \in Ids(processing)
  BY DEF InProcessing, Ids
<1>3. CASE t \in Ids(processing)
  <2>1. PICK n \in DOMAIN processing :
          processing[n].id = t /\ processing' = RemoveAt(processing, n)
    BY <1>0, <1>1, <1>3, RemoveMatchEntry DEF TaskConservation
  <2>2. /\ processing' \in Seq(Entry)
        /\ ToSet(processing') = ToSet(processing) \ {processing[n]}
        /\ Ids(processing') = Ids(processing) \ {t}
        /\ OneEntryPerId(processing')
    BY <1>0, <1>1, <2>1, RemoveAtEntry DEF TaskConservation
  <2>3. TaskConservation'
    BY <1>1, <1>2, <1>3, <2>2 DEF TaskConservation
  <2>4. processing[n] \in ToSet(processing)
    BY DEF ToSet
  <2>5. (PendingBacked /\ DedupUnlessStrayed)'
    BY <1>2, <1>3, <2>1, <2>2, <2>4, RemovalKeepsIpPromises
  <2>6. RetryBudget'
    BY <1>1, <2>2 DEF RetryBudget, Live
  <2> QED BY <2>2, <2>3, <2>5, <2>6 DEF Promises
<1>4. CASE t \notin Ids(processing)
  <2>1. processing' = processing
    BY <1>0, <1>4, RemoveNoMatch
  <2>2. Live' = Live
    BY <2>1 DEF Live
  <2>3. TaskConservation' /\ RetryBudget'
    BY <1>1, <1>2, <1>4, <2>1, <2>2 DEF TaskConservation, RetryBudget
  <2>4. PendingBacked'
    BY <1>1, <2>2 DEF PendingBacked
  <2>5. DedupUnlessStrayed'
    <3>1. CASE IpOf[t] \in pending
      BY <1>1, <1>2, <1>4, <2>2, <3>1 DEF DedupUnlessStrayed
    <3>2. CASE IpOf[t] \notin pending
      BY <1>1, <1>2, <1>4, <2>2, <3>2 DEF DedupUnlessStrayed
    <3> QED BY <3>1, <3>2
  <2> QED BY <1>0, <2>1, <2>3, <2>4, <2>5 DEF Promises
<1> QED BY <1>3, <1>4

\* rescueScript on any raw entry a janitor may have listed, however stale.
LEMMA RescueKeepsPromises ==
  ASSUME IndInv, NEW raw, Rescue(raw), UNCHANGED <<pushed, acked, strayed>>
  PROVE  /\ Promises'
         /\ queue' \in Seq(Entry) /\ processing' \in Seq(Entry)
         /\ dead' \in Seq(Entry) /\ pending' \subseteq IPs
         /\ started' \in [Tasks -> Ages \cup {NotStarted}]
<1> DEFINE again == [raw EXCEPT !.retry = @ + 1]
<1>0. /\ queue \in Seq(Entry) /\ processing \in Seq(Entry)
      /\ dead \in Seq(Entry) /\ pending \subseteq IPs
      /\ started \in [Tasks -> Ages \cup {NotStarted}]
  BY DEF IndInv, TypeOK
<1>1. TaskConservation /\ PendingBacked /\ DedupUnlessStrayed /\ RetryBudget
  BY DEF IndInv, Promises
<1>2. CASE raw \notin ToSet(processing)
  <2>1. UNCHANGED <<queue, processing, dead, pending, started>>
    BY <1>2 DEF Rescue, redis
  <2>2. Promises'
    BY <2>1, PromisesUnchanged DEF IndInv, contents
  <2> QED BY <1>0, <2>1, <2>2
<1>3. CASE raw \in ToSet(processing)
  <2>1. PICK n \in DOMAIN processing :
          processing[n] = raw /\ RemoveFirst(processing, raw) = RemoveAt(processing, n)
    BY <1>0, <1>1, <1>3, RemoveFirstEntry DEF TaskConservation
  <2>2. processing' = RemoveAt(processing, n)
    BY <1>3, <2>1 DEF Rescue
  <2>3. /\ processing' \in Seq(Entry)
        /\ ToSet(processing') = ToSet(processing) \ {raw}
        /\ Ids(processing') = Ids(processing) \ {raw.id}
        /\ OneEntryPerId(processing')
    BY <1>0, <1>1, <2>1, <2>2, RemoveAtEntry DEF TaskConservation
  <2>4. raw \in Entry
    BY <1>0, <2>1, ElementOfSeq, LenProperties
  <2>5. again \in Entry /\ again.id = raw.id /\ again.retry = raw.retry + 1
    BY <2>4 DEF Entry
  <2>6. raw.id \in Ids(processing)
    BY <1>3 DEF Ids
  <2>7. raw.id \notin Ids(queue) \cup Ids(dead) \cup acked
    BY <1>1, <2>6 DEF TaskConservation
  <2>8. started' \in [Tasks -> Ages \cup {NotStarted}]
    BY <1>0, <1>3 DEF Rescue
  <2>9. raw.retry \in Nat /\ raw.retry <= MaxRetries
    BY <1>1, <1>3, <2>4 DEF RetryBudget, Live, Entry
  <2>10. CASE again.retry > MaxRetries
    <3>1. /\ dead' = Cons(again, dead) /\ pending' = pending \ {IpOf[raw.id]}
          /\ queue' = queue
      BY <1>3, <2>10 DEF Rescue
    <3> HIDE DEF again
    <3>2. /\ dead' \in Seq(Entry)
          /\ ToSet(dead') = ToSet(dead) \cup {again}
          /\ Ids(dead') = Ids(dead) \cup {raw.id}
          /\ OneEntryPerId(dead')
      <4>1. OneEntryPerId(dead) /\ again.id \notin Ids(dead)
        BY <1>1, <2>5, <2>7 DEF TaskConservation
      <4>2. dead \in Seq(Entry) /\ again \in Entry
        BY <1>0, <2>5
      <4>3. /\ Cons(again, dead) \in Seq(Entry)
            /\ ToSet(Cons(again, dead)) = ToSet(dead) \cup {again}
            /\ Ids(Cons(again, dead)) = Ids(dead) \cup {again.id}
            /\ OneEntryPerId(Cons(again, dead))
        BY <4>1, <4>2, ConsTask
      <4> QED BY <2>5, <3>1, <4>3
    <3>3. TaskConservation'
      BY <1>1, <2>3, <2>6, <2>7, <3>1, <3>2 DEF TaskConservation
    <3>4. (PendingBacked /\ DedupUnlessStrayed)'
      BY <1>3, <2>3, <3>1, RemovalKeepsIpPromises
    <3>5. again.retry = MaxRetries + 1
      BY <2>5, <2>9, <2>10, BoundAssumption
    <3>6. RetryBudget'
      BY <1>1, <2>3, <3>1, <3>2, <3>5 DEF RetryBudget, Live
    <3> QED BY <1>0, <2>3, <2>8, <3>1, <3>2, <3>3, <3>4, <3>6 DEF Promises
  <2>11. CASE ~(again.retry > MaxRetries)
    <3>1. queue' = Cons(again, queue) /\ dead' = dead /\ pending' = pending
      BY <1>3, <2>11 DEF Rescue
    <3>2. again.retry <= MaxRetries
      BY <2>5, <2>9, <2>11, BoundAssumption
    <3> HIDE DEF again
    <3>3. /\ queue' \in Seq(Entry)
          /\ ToSet(queue') = ToSet(queue) \cup {again}
          /\ Ids(queue') = Ids(queue) \cup {raw.id}
          /\ OneEntryPerId(queue')
      <4>1. OneEntryPerId(queue) /\ again.id \notin Ids(queue)
        BY <1>1, <2>5, <2>7 DEF TaskConservation
      <4>2. queue \in Seq(Entry) /\ again \in Entry
        BY <1>0, <2>5
      <4>3. /\ Cons(again, queue) \in Seq(Entry)
            /\ ToSet(Cons(again, queue)) = ToSet(queue) \cup {again}
            /\ Ids(Cons(again, queue)) = Ids(queue) \cup {again.id}
            /\ OneEntryPerId(Cons(again, queue))
        BY <4>1, <4>2, ConsTask
      <4> QED BY <2>5, <3>1, <4>3
    <3>4. TaskConservation'
      BY <1>1, <2>3, <2>6, <2>7, <3>1, <3>3 DEF TaskConservation
    <3>5. Live' = (Live \ {raw}) \cup {again}
      <4>1. raw \notin ToSet(queue)
        BY <2>7 DEF Ids
      <4> QED BY <2>3, <3>3, <4>1 DEF Live
    <3>6. PendingBacked'
      <4>1. SUFFICES ASSUME NEW ip \in pending
                     PROVE  \E f \in Live' : IpOf[f.id] = ip
        BY <3>1 DEF PendingBacked
      <4>2. PICK f \in Live : IpOf[f.id] = ip
        BY <1>1, <4>1 DEF PendingBacked
      <4> QED BY <2>5, <3>5, <4>2
    <3>7. raw \in Live
      BY <1>3 DEF Live
    <3>8. DedupUnlessStrayed'
      BY <1>1, <2>5, <3>1, <3>5, <3>7 DEF DedupUnlessStrayed
    <3>9. RetryBudget'
      BY <1>1, <3>1, <3>2, <3>5 DEF RetryBudget
    <3> QED BY <1>0, <2>3, <2>8, <3>1, <3>3, <3>4, <3>6, <3>8, <3>9 DEF Promises
  <2> QED BY <2>10, <2>11
<1> QED BY <1>2, <1>3

-----------------------------------------------------------------------------
(* Every step keeps the inductive invariant.                               *)

JanitorType ==
  /\ jpc \in [Janitors -> {"idle", "list", "rescue", "clean"}]
  /\ jseen \in [Janitors -> [Tasks -> Ages \cup {NotStarted}]]
  /\ jraws \in [Janitors -> Seq(Entry)]
  /\ \A j \in Janitors : jpc[j] = "rescue" => jraws[j] # << >>
  /\ jstuck \in [Janitors -> SUBSET Entry]
  /\ jorphans \in [Janitors -> SUBSET Tasks]

\* The empty started hash is a started hash.
LEMMA NothingType == Nothing \in [Tasks -> Ages \cup {NotStarted}]
BY DEF Nothing

\* Ending a RescueStuckTasks call keeps the janitors' variables well typed.
LEMMA IdleType ==
  ASSUME JanitorType, NEW j \in Janitors, Idle(j)
  PROVE  JanitorType'
<1>1. << >> \in Seq(Entry)
  OBVIOUS
<1>2. jseen' \in [Janitors -> [Tasks -> Ages \cup {NotStarted}]]
  BY NothingType DEF JanitorType, Idle
<1>3. jpc' \in [Janitors -> {"idle", "list", "rescue", "clean"}]
  BY DEF JanitorType, Idle
<1>4. jraws' \in [Janitors -> Seq(Entry)]
  BY <1>1 DEF JanitorType, Idle
<1>5. ASSUME NEW k \in Janitors, jpc'[k] = "rescue" PROVE jraws'[k] # << >>
  BY <1>5 DEF JanitorType, Idle
<1>6. jstuck' \in [Janitors -> SUBSET Entry] /\ jorphans' \in [Janitors -> SUBSET Tasks]
  BY DEF JanitorType, Idle
<1> QED BY <1>2, <1>3, <1>4, <1>5, <1>6 DEF JanitorType

\* Every operation of the queue, in any interleaving, keeps the inductive
\* invariant: one step per action, types first and promises second.
LEMMA NextInv == IndInv /\ [Next]_vars => IndInv'
<1> SUFFICES ASSUME IndInv, [Next]_vars PROVE IndInv'
  OBVIOUS
<1> USE DEF IndInv
<1>0. TypeOK /\ Promises
  OBVIOUS
<1>1. ASSUME NEW t \in Tasks, PushTask(t) PROVE IndInv'
  <2>1. CASE IpOf[t] \in pending
    <3>1. UNCHANGED contents
      BY <1>1, <2>1, Zenon DEF PushTask, contents, redis, requests, history
    <3>2. TypeOK'
      BY <1>1, <2>1 DEF PushTask, TypeOK, redis, requests, workers, janitors, analyzer, history
    <3> QED BY <3>1, <3>2, PromisesUnchanged
  <2>2. CASE IpOf[t] \notin pending
    <3>1. Promises' /\ queue' \in Seq(Entry)
      BY <1>1, <2>2, PushKeepsPromises, Zenon DEF PushTask, history
    <3>2. pending' \subseteq IPs /\ pushed' \subseteq Tasks
      <4>1. pending' = pending \cup {IpOf[t]} /\ pushed' = pushed \cup {t}
        BY <1>1, <2>2 DEF PushTask
      <4>2. pending \subseteq IPs /\ pushed \subseteq Tasks /\ IpOf[t] \in IPs
        BY <1>1, TaskAssumption DEF TypeOK
      <4> QED BY <1>1, <4>1, <4>2
    <3>3. createdAt' \in [Tasks -> Ages]
      <4>1. createdAt' = [createdAt EXCEPT ![t] = 0]
        BY <1>1, <2>2 DEF PushTask
      <4>2. createdAt \in [Tasks -> Ages] /\ 0 \in Ages
        BY JanitorAssumption DEF TypeOK, Ages
      <4> QED BY <4>1, <4>2
    <3>4. TypeOK'
      BY <1>1, <2>2, <3>1, <3>2, <3>3
      DEF PushTask, TypeOK, workers, janitors, analyzer, history
    <3> QED BY <3>1, <3>4
  <2> QED BY <2>1, <2>2
<1>2. ASSUME NEW w \in Workers, PopTask(w) PROVE IndInv'
  <2>1. /\ Promises' /\ queue' \in Seq(Entry) /\ processing' \in Seq(Entry)
        /\ Last(queue).id \in Tasks
    BY <1>2, PopKeepsPromises DEF PopTask, requests, history
  <2>2. TypeOK'
    BY <1>2, <2>1 DEF PopTask, TypeOK, WorkerSteps, requests, janitors, analyzer, history
  <2> QED BY <2>1, <2>2
<1>3. ASSUME NEW w \in Workers, RecordStart(w) PROVE IndInv'
  <2>1. UNCHANGED contents
    BY <1>3, Zenon DEF RecordStart, contents, redis, requests, workers, janitors, analyzer, history, Ages
  <2>2. TypeOK'
    BY <1>3, JanitorAssumption DEF RecordStart, TypeOK, WorkerSteps, redis, requests, workers, janitors, analyzer, history, Ages
  <2> QED BY <2>1, <2>2, PromisesUnchanged DEF IndInv
<1>4. ASSUME NEW w \in Workers, LoseStart(w) PROVE IndInv'
  <2>1. UNCHANGED contents
    BY <1>4 DEF LoseStart, contents, redis, requests, workers, janitors, analyzer, history
  <2>2. TypeOK'
    BY <1>4 DEF LoseStart, TypeOK, WorkerSteps, redis, requests, workers, janitors, analyzer, history
  <2> QED BY <2>1, <2>2, PromisesUnchanged DEF IndInv
<1>5. ASSUME NEW w \in Workers, FinishCrawl(w) PROVE IndInv'
  <2>1. UNCHANGED contents
    BY <1>5 DEF FinishCrawl, contents, redis, requests, workers, janitors, analyzer, history
  <2>2. TypeOK'
    BY <1>5 DEF FinishCrawl, TypeOK, WorkerSteps, redis, requests, workers, janitors, analyzer, history
  <2> QED BY <2>1, <2>2, PromisesUnchanged DEF IndInv
<1>6. ASSUME NEW w \in Workers, TimeoutTask(w) PROVE IndInv'
  <2>1. UNCHANGED contents
    BY <1>6 DEF TimeoutTask, contents, redis, requests, workers, janitors, analyzer, history
  <2>2. TypeOK'
    BY <1>6 DEF TimeoutTask, TypeOK, WorkerSteps, redis, requests, workers, janitors, analyzer, history
  <2> QED BY <2>1, <2>2, PromisesUnchanged DEF IndInv
<1>7. ASSUME NEW w \in Workers, AckTask(w) PROVE IndInv'
  <2>1. wtask[w] \in Tasks
    BY <1>7, Zenon DEF AckTask, TypeOK
  <2>2. Promises' /\ processing' \in Seq(Entry)
    BY <1>7, <2>1, AckKeepsPromises, Zenon DEF AckTask, requests
  <2>3. TypeOK'
    BY <1>7, <2>1, <2>2, TaskAssumption
    DEF AckTask, TypeOK, WorkerSteps, requests, janitors, analyzer
  <2> QED BY <2>2, <2>3
<1>8. ASSUME NEW w \in Workers, CrashWorker(w) PROVE IndInv'
  <2>1. UNCHANGED contents
    BY <1>8 DEF CrashWorker, contents, redis, requests, workers, janitors, analyzer, history
  <2>2. TypeOK'
    BY <1>8 DEF CrashWorker, TypeOK, WorkerSteps, redis, requests, workers, janitors, analyzer, history
  <2> QED BY <2>1, <2>2, PromisesUnchanged DEF IndInv
<1>9. ASSUME NEW j \in Janitors, JanitorHGetAll(j) PROVE IndInv'
  <2>1. UNCHANGED contents
    BY <1>9 DEF JanitorHGetAll, contents, redis, requests, workers, janitors, analyzer, history
  <2>2. TypeOK'
    BY <1>9 DEF JanitorHGetAll, TypeOK, WorkerSteps, redis, requests, workers, janitors, analyzer, history
  <2> QED BY <2>1, <2>2, PromisesUnchanged DEF IndInv
<1>10. ASSUME NEW j \in Janitors, JanitorLRange(j) PROVE IndInv'
  <2> DEFINE stuck == {e \in ToSet(processing) : OverThreshold(j, e)}
             orphans == {t \in Tasks : jseen[j][t] # NotStarted}
  <2>1. UNCHANGED contents
    BY <1>10 DEF JanitorLRange, contents, redis, requests, history
  <2>2. stuck \subseteq Entry
    <3>1. \A i \in DOMAIN processing : processing[i] \in Entry
      BY ElementOfSeq, LenProperties DEF TypeOK
    <3> QED BY <3>1 DEF ToSet
  <2>3. orphans \subseteq Tasks
    OBVIOUS
  <2>4. stuck # {} => processing # << >>
    BY DEF ToSet
  <2> HIDE DEF stuck, orphans
  <2>5. JanitorType
    BY DEF TypeOK, JanitorType
  <2>6. jseen' \in [Janitors -> [Tasks -> Ages \cup {NotStarted}]]
    BY <1>10, <2>5, NothingType DEF JanitorLRange, JanitorType
  <2>7. JanitorType'
    <3>1. CASE /\ jpc' = [jpc EXCEPT ![j] = "clean"]
               /\ jorphans' = [jorphans EXCEPT ![j] = orphans]
               /\ UNCHANGED <<jraws, jstuck>>
      BY <2>3, <2>5, <2>6, <3>1 DEF JanitorType
    <3>2. CASE /\ stuck # {}
               /\ jpc' = [jpc EXCEPT ![j] = "rescue"]
               /\ jraws' = [jraws EXCEPT ![j] = processing]
               /\ jstuck' = [jstuck EXCEPT ![j] = stuck]
               /\ UNCHANGED jorphans
      <4>1. processing \in Seq(Entry)
        BY DEF TypeOK
      <4> QED BY <2>2, <2>4, <2>5, <2>6, <3>2, <4>1 DEF JanitorType
    <3>3. CASE /\ jpc' = [jpc EXCEPT ![j] = "idle"]
               /\ UNCHANGED <<jraws, jstuck, jorphans>>
      BY <2>5, <2>6, <3>3 DEF JanitorType
    <3> QED BY <1>10, <3>1, <3>2, <3>3 DEF JanitorLRange, stuck, orphans
  <2>8. TypeOK'
    BY <1>10, <2>7
    DEF JanitorLRange, JanitorType, TypeOK, redis, requests, workers, analyzer, history
  <2> QED BY <2>1, <2>8, PromisesUnchanged
<1>11. ASSUME NEW j \in Janitors, JanitorRescue(j) PROVE IndInv'
  <2> DEFINE raw == Head(jraws[j])
  <2>1. /\ jraws[j] \in Seq(Entry) /\ jraws[j] # << >>
        /\ Tail(jraws[j]) \in Seq(Entry)
        /\ Len(jraws[j]) # 1 => Tail(jraws[j]) # << >>
    <3>1. jraws[j] \in Seq(Entry) /\ jraws[j] # << >>
      BY <1>11 DEF JanitorRescue, TypeOK
    <3>2. Tail(jraws[j]) \in Seq(Entry) /\ Len(Tail(jraws[j])) = Len(jraws[j]) - 1
      BY <3>1, HeadTailProperties
    <3>3. Len(jraws[j]) \in Nat /\ Len(<< >>) = 0
      BY <3>1, LenProperties, EmptySeq
    <3>4. Len(jraws[j]) # 1 => Len(Tail(jraws[j])) # 0
      BY <3>2, <3>3
    <3>5. Len(jraws[j]) # 1 => Tail(jraws[j]) # << >>
      BY <3>3, <3>4, Zenon
    <3> QED BY <3>1, <3>2, <3>5
  <2>2. /\ Promises'
        /\ queue' \in Seq(Entry) /\ processing' \in Seq(Entry)
        /\ dead' \in Seq(Entry) /\ pending' \subseteq IPs
        /\ started' \in [Tasks -> Ages \cup {NotStarted}]
    <3>1. UNCHANGED <<pushed, acked, strayed>>
      BY <1>11 DEF JanitorRescue, requests, history
    <3>2. CASE raw \in jstuck[j]
      BY <1>11, <3>1, <3>2, RescueKeepsPromises DEF JanitorRescue
    <3>3. CASE raw \notin jstuck[j]
      <4>1. UNCHANGED redis
        BY <1>11, <3>3 DEF JanitorRescue
      <4>2. UNCHANGED contents
        BY <3>1, <4>1 DEF contents, redis
      <4> QED BY <4>1, <4>2, PromisesUnchanged DEF redis, TypeOK
    <3> QED BY <3>2, <3>3
  <2>3. JanitorType
    BY DEF TypeOK, JanitorType
  <2>4. JanitorType'
    <3>1. CASE Len(jraws[j]) = 1
      BY <1>11, <2>3, <3>1, IdleType DEF JanitorRescue
    <3>2. CASE Len(jraws[j]) # 1
      BY <1>11, <2>1, <2>3, <3>2, Zenon DEF JanitorRescue, JanitorType
    <3> QED BY <3>1, <3>2
  <2>5. TypeOK'
    BY <1>11, <2>2, <2>4, Zenon
    DEF JanitorRescue, JanitorType, TypeOK, requests, workers, analyzer, history
  <2> QED BY <2>2, <2>5
<1>12. ASSUME NEW j \in Janitors, NEW t \in Tasks, JanitorClean(j, t) PROVE IndInv'
  <2>1. UNCHANGED contents
    BY <1>12, Zenon DEF JanitorClean, contents, requests, history
  <2>2. JanitorType
    BY DEF TypeOK, JanitorType
  <2>3. JanitorType'
    <3>1. CASE jorphans[j] = {t}
      BY <1>12, <2>2, <3>1, IdleType, Zenon DEF JanitorClean
    <3>2. CASE jorphans[j] # {t}
      <4>1. /\ jorphans' = [jorphans EXCEPT ![j] = @ \ {t}]
            /\ UNCHANGED <<jpc, jseen, jraws, jstuck>>
        BY <1>12, <3>2, Zenon DEF JanitorClean
      <4>2. jorphans' \in [Janitors -> SUBSET Tasks]
        BY <2>2, <4>1 DEF JanitorType
      <4> QED BY <2>2, <4>1, <4>2, Zenon DEF JanitorType
    <3> QED BY <3>1, <3>2, Zenon
  <2>4. TypeOK'
    BY <1>12, <2>3
    DEF JanitorClean, JanitorType, TypeOK, requests, workers, analyzer, history
  <2> QED BY <2>1, <2>4, PromisesUnchanged
<1>13. ASSUME RecoverMove PROVE IndInv'
  <2>1. /\ Promises' /\ queue' \in Seq(Entry) /\ processing' \in Seq(Entry)
        /\ Last(processing).id \in Tasks
    BY <1>13, RecoverKeepsPromises DEF RecoverMove, requests, history
  <2>2. TypeOK'
    BY <1>13, <2>1 DEF RecoverMove, TypeOK, requests, workers, janitors, history
  <2> QED BY <2>1, <2>2
<1>14. ASSUME RecoverHDel PROVE IndInv'
  <2>1. UNCHANGED contents
    BY <1>14 DEF RecoverHDel, contents, redis, requests, workers, janitors, analyzer, history
  <2>2. TypeOK'
    BY <1>14 DEF RecoverHDel, TypeOK, WorkerSteps, redis, requests, workers, janitors, analyzer, history
  <2> QED BY <2>1, <2>2, PromisesUnchanged DEF IndInv
<1>15. ASSUME RecoverDone PROVE IndInv'
  <2>1. UNCHANGED contents
    BY <1>15 DEF RecoverDone, contents, redis, requests, workers, janitors, analyzer, history
  <2>2. TypeOK'
    BY <1>15 DEF RecoverDone, TypeOK, WorkerSteps, redis, requests, workers, janitors, analyzer, history
  <2> QED BY <2>1, <2>2, PromisesUnchanged DEF IndInv
<1>16. ASSUME RestartAnalyzer PROVE IndInv'
  <2>1. UNCHANGED contents
    BY <1>16 DEF RestartAnalyzer, contents, redis, requests, workers, janitors, analyzer, history, Idle, Nothing, NotStarted
  <2>2. TypeOK'
    BY <1>16, JanitorAssumption, BoundAssumption DEF RestartAnalyzer, TypeOK, WorkerSteps, redis, requests, workers, janitors, analyzer, history, Idle, Nothing, NotStarted
  <2> QED BY <2>1, <2>2, PromisesUnchanged DEF IndInv
<1>17. ASSUME Tick PROVE IndInv'
  <2>1. UNCHANGED contents
    BY <1>17, Zenon DEF Tick, contents, history
  <2>2. \A a \in Ages \cup {NotStarted} : Older(a) \in Ages \cup {NotStarted}
    BY JanitorAssumption DEF Older, Ages, NotStarted
  <2>3. \A a \in Ages : Older(a) \in Ages
    BY JanitorAssumption DEF Older, Ages, NotStarted
  <2>4. started' \in [Tasks -> Ages \cup {NotStarted}]
    BY <1>17, <2>2 DEF Tick, TypeOK
  <2>5. createdAt' \in [Tasks -> Ages]
    BY <1>17, <2>3, JanitorAssumption DEF Tick, TypeOK, Ages
  <2>6. jseen' \in [Janitors -> [Tasks -> Ages \cup {NotStarted}]]
    BY <1>17, <2>2 DEF Tick, TypeOK
  <2>7. TypeOK'
    BY <1>17, <2>4, <2>5, <2>6 DEF Tick, TypeOK, workers, analyzer, history
  <2> QED BY <2>1, <2>7, PromisesUnchanged
<1>18. ASSUME UNCHANGED vars PROVE IndInv'
  <2>1. UNCHANGED contents
    BY <1>18 DEF contents, vars, redis, requests, history
  <2>2. TypeOK'
    BY <1>18 DEF TypeOK, vars, redis, requests, workers, janitors, analyzer, history
  <2> QED BY <2>1, <2>2, PromisesUnchanged
<1> QED
  BY <1>1, <1>2, <1>3, <1>4, <1>5, <1>6, <1>7, <1>8, <1>9, <1>10, <1>11, <1>12,
     <1>13, <1>14, <1>15, <1>16, <1>17, <1>18
  DEF Next, Crawler, Janitor, Recovery

-----------------------------------------------------------------------------
(* The theorems.                                                           *)

\* The inductive invariant holds in every state of every behaviour.
THEOREM Invariance == Spec => []IndInv
BY InitInv, NextInv, PTL DEF Spec

\* Every variable keeps its type, whatever is interleaved with the two-command
\* operations of redisqueue.
THEOREM TypeCorrect == Spec => []TypeOK
BY Invariance, PTL DEF IndInv

\* No interleaving of PushTask, PopTask, AckTask, the rescues of any number of
\* janitors and the start-up recovery loses or doubles a task.
THEOREM TasksConserved == Spec => []TaskConservation
BY Invariance, PTL DEF IndInv, Promises

\* No IP keeps its pending mark without a task: the scheduler's push for it
\* cannot be refused for ever on behalf of a task that is gone.
THEOREM NoPendingLeak == Spec => []PendingBacked
BY Invariance, PTL DEF IndInv, Promises

\* PushTask's deduplication is exact until an AckTask arrives for an entry that
\* is no longer in processing.
THEOREM DedupExact == Spec => []DedupUnlessStrayed
BY Invariance, PTL DEF IndInv, Promises

\* The retry limit of RescueStuckTasks holds for any number of janitors.
THEOREM RetriesBounded == Spec => []RetryBudget
BY Invariance, PTL DEF IndInv, Promises

-----------------------------------------------------------------------------
(* The retry count is never turned back.                                   *)

RetryKept ==
  \A e \in Live, f \in (Live \cup ToSet(dead))' :
     e.id = f.id => f.retry >= e.retry

\* An id says which entry it is: no two lists, and no two places of one, hold
\* it with different retry counts.
LEMMA IdDeterminesEntry ==
  ASSUME IndInv
  PROVE  /\ \A e \in Live, f \in Live \cup ToSet(dead) : e.id = f.id => e = f
         /\ \A e \in Live : e.retry \in Nat
<1>1. TaskConservation /\ TypeOK
  BY DEF IndInv, Promises
<1>2. /\ \A e \in ToSet(queue) : e.id \in Ids(queue)
      /\ \A e \in ToSet(processing) : e.id \in Ids(processing)
      /\ \A e \in ToSet(dead) : e.id \in Ids(dead)
  BY DEF Ids
<1>3. /\ \A e, f \in ToSet(queue) : e.id = f.id => e = f
      /\ \A e, f \in ToSet(processing) : e.id = f.id => e = f
  BY <1>1 DEF TaskConservation, OneEntryPerId, ToSet
<1>4. \A e \in Live, f \in Live \cup ToSet(dead) : e.id = f.id => e = f
  BY <1>1, <1>2, <1>3 DEF TaskConservation, Live
<1>5. ToSet(queue) \subseteq Entry /\ ToSet(processing) \subseteq Entry
  <2>1. /\ \A i \in DOMAIN queue : queue[i] \in Entry
        /\ \A i \in DOMAIN processing : processing[i] \in Entry
    BY <1>1, ElementOfSeq, LenProperties DEF TypeOK
  <2> QED BY <2>1 DEF ToSet
<1> QED BY <1>4, <1>5 DEF Live, Entry

\* A step after which every entry is an old one, or a new one with a new id.
LEMMA RetryKeptBySubset ==
  ASSUME IndInv,
         \A f \in (Live \cup ToSet(dead))' :
            f \in Live \cup ToSet(dead) \/ \A e \in Live : e.id # f.id
  PROVE  RetryKept
<1>1. SUFFICES ASSUME NEW e \in Live, NEW f \in (Live \cup ToSet(dead))',
                      e.id = f.id
               PROVE  f.retry >= e.retry
  BY DEF RetryKept
<1>2. f = e /\ e.retry \in Nat
  BY <1>1, IdDeterminesEntry
<1> QED BY <1>2

\* No operation lowers a retry count: only rescueScript writes one, and it
\* writes the removed entry's count plus one.
LEMMA NextRetryKept ==
  ASSUME IndInv, [Next]_vars
  PROVE  RetryKept
<1>0. /\ queue \in Seq(Entry) /\ processing \in Seq(Entry) /\ TaskConservation
  BY DEF IndInv, TypeOK, Promises
<1>1. ASSUME UNCHANGED <<queue, processing, dead>> PROVE RetryKept
  BY <1>1, RetryKeptBySubset DEF Live
<1>2. ASSUME NEW t \in Tasks, PushTask(t) PROVE RetryKept
  <2> DEFINE new == [id |-> t, retry |-> 0]
  <2>1. CASE IpOf[t] \in pending
    BY <1>1, <1>2, <2>1 DEF PushTask, redis
  <2>2. CASE IpOf[t] \notin pending
    <3>1. queue' = Cons(new, queue) /\ UNCHANGED <<processing, dead>>
      BY <1>2, <2>2, Zenon DEF PushTask
    <3>2. new \in Entry /\ new.id = t
      BY DEF Entry
    <3> HIDE DEF new
    <3>3. ToSet(queue') = ToSet(queue) \cup {new}
      BY <1>0, <3>1, <3>2, ConsTask
    <3>4. \A e \in Live : e.id # t
      BY <1>0, <1>2, Zenon DEF TaskConservation, Ids, Live, PushTask
    <3> QED BY <3>1, <3>2, <3>3, <3>4, RetryKeptBySubset DEF Live
  <2> QED BY <2>1, <2>2
<1>3. ASSUME NEW w \in Workers, PopTask(w) PROVE RetryKept
  <2>1. /\ queue # << >> /\ queue' = Front(queue)
        /\ processing' = Cons(Last(queue), processing) /\ dead' = dead
    BY <1>3 DEF PopTask
  <2>2. Last(queue) \in Entry /\ ToSet(queue) = ToSet(queue') \cup {Last(queue)}
    BY <1>0, <2>1, FrontEntry
  <2>3. ToSet(processing') = ToSet(processing) \cup {Last(queue)}
    BY <1>0, <2>1, <2>2, ConsTask, Zenon
  <2> QED BY <2>1, <2>2, <2>3, RetryKeptBySubset DEF Live
<1>4. ASSUME NEW w \in Workers, AckTask(w) PROVE RetryKept
  <2> DEFINE t == wtask[w]
  <2>1. processing' = RemoveId(processing, t) /\ UNCHANGED <<queue, dead>>
    BY <1>4 DEF AckTask
  <2>2. ToSet(processing') \subseteq ToSet(processing)
    <3>1. CASE t \in Ids(processing)
      <4>1. PICK n \in DOMAIN processing : RemoveId(processing, t) = RemoveAt(processing, n)
        BY <1>0, <3>1, RemoveMatchEntry, Zenon DEF TaskConservation
      <4> QED BY <1>0, <2>1, <4>1, RemoveAtEntry DEF TaskConservation
    <3>2. CASE t \notin Ids(processing)
      BY <1>0, <2>1, <3>2, RemoveNoMatch
    <3> QED BY <3>1, <3>2
  <2> QED BY <2>1, <2>2, RetryKeptBySubset DEF Live
<1>5. ASSUME NEW raw, Rescue(raw) PROVE RetryKept
  <2> DEFINE again == [raw EXCEPT !.retry = @ + 1]
  <2>1. CASE raw \notin ToSet(processing)
    BY <1>1, <1>5, <2>1 DEF Rescue, redis
  <2>2. CASE raw \in ToSet(processing)
    <3>1. raw \in Live
      BY <2>2 DEF Live
    <3>2. raw \in Entry
      BY <1>0, <2>2, ElementOfSeq, LenProperties DEF ToSet
    <3>3. again \in Entry /\ again.id = raw.id /\ again.retry = raw.retry + 1 /\ raw.retry \in Nat
      BY <3>2 DEF Entry
    <3>4. PICK n \in DOMAIN processing :
            RemoveFirst(processing, raw) = RemoveAt(processing, n)
      BY <1>0, <2>2, RemoveFirstEntry DEF TaskConservation
    <3>5. processing' = RemoveAt(processing, n)
      BY <1>5, <2>2, <3>4 DEF Rescue
    <3>6. ToSet(processing') \subseteq ToSet(processing)
      BY <1>0, <3>5, RemoveAtEntry DEF TaskConservation
    <3>7. \/ queue' = queue /\ dead' = Cons(again, dead)
          \/ dead' = dead /\ queue' = Cons(again, queue)
      BY <1>5, <2>2 DEF Rescue
    <3> HIDE DEF again
    <3>8. dead \in Seq(Entry)
      BY DEF IndInv, TypeOK
    <3>9. (Live \cup ToSet(dead))' \subseteq (Live \cup ToSet(dead)) \cup {again}
      <4>1. CASE queue' = queue /\ dead' = Cons(again, dead)
        <5>1. ToSet(dead') = ToSet(dead) \cup {again}
          BY <3>3, <3>8, <4>1, ConsTask
        <5> QED BY <3>6, <4>1, <5>1 DEF Live
      <4>2. CASE dead' = dead /\ queue' = Cons(again, queue)
        <5>1. ToSet(queue') = ToSet(queue) \cup {again}
          BY <1>0, <3>3, <4>2, ConsTask, Zenon
        <5> QED BY <3>6, <4>2, <5>1 DEF Live
      <4> QED BY <3>7, <4>1, <4>2
    <3>10. SUFFICES ASSUME NEW e \in Live, NEW f \in (Live \cup ToSet(dead))',
                           e.id = f.id
                    PROVE  f.retry >= e.retry
      BY DEF RetryKept
    <3>11. CASE f \in Live \cup ToSet(dead)
      BY <3>10, <3>11, IdDeterminesEntry
    <3>12. CASE f = again
      <4>1. e = raw
        BY <3>1, <3>3, <3>10, <3>12, IdDeterminesEntry
      <4> QED BY <3>3, <3>12, <4>1
    <3> QED BY <3>9, <3>10, <3>11, <3>12
  <2> QED BY <2>1, <2>2
<1>6. ASSUME NEW j \in Janitors, JanitorRescue(j) PROVE RetryKept
  <2>1. CASE Head(jraws[j]) \in jstuck[j]
    BY <1>5, <1>6, <2>1, Zenon DEF JanitorRescue
  <2>2. CASE Head(jraws[j]) \notin jstuck[j]
    BY <1>1, <1>6, <2>2 DEF JanitorRescue, redis
  <2> QED BY <2>1, <2>2
<1>7. ASSUME RecoverMove PROVE RetryKept
  <2>1. /\ processing # << >> /\ processing' = Front(processing)
        /\ queue' = Cons(Last(processing), queue) /\ dead' = dead
    BY <1>7 DEF RecoverMove
  <2>2. /\ Last(processing) \in Entry
        /\ ToSet(processing) = ToSet(processing') \cup {Last(processing)}
    BY <1>0, <2>1, FrontEntry
  <2>3. ToSet(queue') = ToSet(queue) \cup {Last(processing)}
    BY <1>0, <2>1, <2>2, ConsTask, Zenon
  <2> QED BY <2>1, <2>2, <2>3, RetryKeptBySubset DEF Live
<1>8. ASSUME NEW w \in Workers,
             RecordStart(w) \/ LoseStart(w) \/ FinishCrawl(w) \/ TimeoutTask(w)
               \/ CrashWorker(w)
      PROVE  RetryKept
  BY <1>1, <1>8 DEF RecordStart, LoseStart, FinishCrawl, TimeoutTask, CrashWorker, redis
<1>9. ASSUME NEW j \in Janitors,
             JanitorHGetAll(j) \/ JanitorLRange(j) \/ \E t \in Tasks : JanitorClean(j, t)
      PROVE  RetryKept
  BY <1>1, <1>9, Zenon DEF JanitorHGetAll, JanitorLRange, JanitorClean, redis
<1>10. ASSUME RecoverHDel \/ RecoverDone \/ RestartAnalyzer \/ Tick \/ UNCHANGED vars
       PROVE  RetryKept
  BY <1>1, <1>10, Zenon DEF RecoverHDel, RecoverDone, RestartAnalyzer, Tick, vars, redis
<1> QED
  BY <1>2, <1>3, <1>4, <1>6, <1>7, <1>8, <1>9, <1>10
  DEF Next, Crawler, Janitor, Recovery

\* No rescue from a stale listing, no recovery and no push ever lowers the
\* retry count of a task.
THEOREM RetryMonotone == Spec => RetryNeverReset
<1>1. IndInv /\ [Next]_vars => [RetryKept]_vars
  BY NextRetryKept
<1>2. RetryNeverReset <=> [][RetryKept]_vars
  BY DEF RetryNeverReset, RetryKept
<1> QED BY <1>1, <1>2, Invariance, PTL DEF Spec
-----------------------------------------------------------------------------
(***************************************************************************)
(* The task queue implements the task life cycle.  Each list is mapped to  *)
(* the set of its entries; that no id is in two places (TaskConservation)  *)
(* makes taking an entry off a list take it out of the set.                *)
(***************************************************************************)

\* What a step of the queue is to the life cycle.
CycleStep == LifeCycle!Next \/ UNCHANGED LifeCycle!vars

\* Empty lists are an initial state of the life cycle.
LEMMA CycleInit == Init => LifeCycle!Init
BY DEF Init, LifeCycle!Init, ToSet

\* A step that leaves the lists and the acknowledged tasks alone stutters.
LEMMA CycleStutter ==
  ASSUME UNCHANGED <<queue, processing, dead, acked>>
  PROVE  CycleStep
BY DEF CycleStep, LifeCycle!vars

\* The last entry leaves a list without duplicates for good.
LEMMA FrontWithout ==
  ASSUME NEW s \in Seq(Entry), s # << >>, OneEntryPerId(s)
  PROVE  Last(s) \in Entry /\ Last(s) \in ToSet(s) /\ ToSet(Front(s)) = ToSet(s) \ {Last(s)}
<1>1. /\ Last(s) \in Entry /\ Last(s) \in ToSet(s)
      /\ ToSet(s) = ToSet(Front(s)) \cup {Last(s)}
      /\ Last(s).id \notin Ids(Front(s))
  BY FrontEntry
<1>2. Last(s) \notin ToSet(Front(s))
  BY <1>1 DEF Ids
<1> QED BY <1>1, <1>2

\* PushTask submits a new task, or is refused.
LEMMA CyclePush ==
  ASSUME IndInv, NEW t \in Tasks, PushTask(t)
  PROVE  CycleStep
<1> DEFINE new == [id |-> t, retry |-> 0]
<1>1. CASE IpOf[t] \in pending
  BY <1>1, CycleStutter DEF PushTask, redis, history
<1>2. CASE IpOf[t] \notin pending
  <2>1. queue' = Cons(new, queue) /\ UNCHANGED <<processing, dead, acked>>
    BY <1>2 DEF PushTask, history
  <2>2. new \in Entry /\ queue \in Seq(Entry)
    BY DEF Entry, IndInv, TypeOK
  <2>3. ToSet(queue') = ToSet(queue) \cup {new}
    <3> HIDE DEF new
    <3> QED BY <2>1, <2>2, ConsTask
  <2>4. t \notin LifeCycle!Known
    BY Zenon DEF IndInv, Promises, TaskConservation, Ids, PushTask, LifeCycle!Known
  <2>5. LifeCycle!Submit(t)
    BY <2>1, <2>3, <2>4 DEF LifeCycle!Submit
  <2> QED BY <2>5 DEF CycleStep, LifeCycle!Next
<1> QED BY <1>1, <1>2

\* BRPOPLPUSH starts the task at the tail of the queue.
LEMMA CyclePop ==
  ASSUME IndInv, NEW w \in Workers, PopTask(w)
  PROVE  CycleStep
<1> DEFINE e == Last(queue)
<1>0. queue \in Seq(Entry) /\ processing \in Seq(Entry) /\ OneEntryPerId(queue)
  BY DEF IndInv, TypeOK, Promises, TaskConservation
<1>1. /\ queue # << >> /\ queue' = Front(queue)
      /\ processing' = Cons(e, processing) /\ UNCHANGED <<dead, acked>>
  BY DEF PopTask, history
<1>2. e \in Entry /\ e \in ToSet(queue) /\ ToSet(queue') = ToSet(queue) \ {e}
  BY <1>0, <1>1, FrontWithout
<1>3. ToSet(processing') = ToSet(processing) \cup {e}
  BY <1>0, <1>1, <1>2, ConsTask, Zenon
<1>4. LifeCycle!Start(e)
  BY <1>1, <1>2, <1>3 DEF LifeCycle!Start
<1> QED BY <1>2, <1>4 DEF CycleStep, LifeCycle!Next

\* RPOPLPUSH at the analyzer's start makes a running task wait again.
LEMMA CycleRecover ==
  ASSUME IndInv, RecoverMove
  PROVE  CycleStep
<1> DEFINE e == Last(processing)
<1>0. queue \in Seq(Entry) /\ processing \in Seq(Entry) /\ OneEntryPerId(processing)
  BY DEF IndInv, TypeOK, Promises, TaskConservation
<1>1. /\ processing # << >> /\ processing' = Front(processing)
      /\ queue' = Cons(e, queue) /\ UNCHANGED <<dead, acked>>
  BY DEF RecoverMove, history
<1>2. e \in Entry /\ e \in ToSet(processing) /\ ToSet(processing') = ToSet(processing) \ {e}
  BY <1>0, <1>1, FrontWithout
<1>3. ToSet(queue') = ToSet(queue) \cup {e}
  BY <1>0, <1>1, <1>2, ConsTask, Zenon
<1>4. LifeCycle!Recover(e)
  BY <1>1, <1>2, <1>3 DEF LifeCycle!Recover
<1> QED BY <1>2, <1>4 DEF CycleStep, LifeCycle!Next

\* ackTaskScript finishes the task if it is still running, and is nothing to
\* the life cycle if a janitor or the recovery took it away meanwhile.
LEMMA CycleAck ==
  ASSUME IndInv, NEW w \in Workers, AckTask(w)
  PROVE  CycleStep
<1> DEFINE t == wtask[w]
<1>0. processing \in Seq(Entry) /\ OneEntryPerId(processing)
  BY DEF IndInv, TypeOK, Promises, TaskConservation
<1>1. /\ processing' = RemoveId(processing, t) /\ UNCHANGED <<queue, dead>>
      /\ acked' = IF InProcessing(t) THEN acked \cup {t} ELSE acked
  BY DEF AckTask
<1>2. InProcessing(t) <=> t \in Ids(processing)
  BY DEF InProcessing, Ids
<1>3. CASE t \in Ids(processing)
  <2>1. PICK n \in DOMAIN processing :
          processing[n].id = t /\ processing' = RemoveAt(processing, n)
    BY <1>0, <1>1, <1>3, RemoveMatchEntry
  <2>2. ToSet(processing') = ToSet(processing) \ {processing[n]}
    BY <1>0, <2>1, RemoveAtEntry
  <2>3. processing[n] \in ToSet(processing)
    BY DEF ToSet
  <2>4. LifeCycle!Finish(processing[n])
    BY <1>1, <1>2, <1>3, <2>1, <2>2 DEF LifeCycle!Finish
  <2> QED BY <2>3, <2>4 DEF CycleStep, LifeCycle!Next
<1>4. CASE t \notin Ids(processing)
  BY <1>0, <1>1, <1>2, <1>4, RemoveNoMatch, CycleStutter
<1> QED BY <1>3, <1>4

\* rescueScript retries or buries what it finds in processing, by its retry
\* count, and is nothing to the life cycle if the listing was out of date.
LEMMA CycleRescue ==
  ASSUME IndInv, NEW raw, Rescue(raw), UNCHANGED acked
  PROVE  CycleStep
<1> DEFINE again == [raw EXCEPT !.retry = @ + 1]
<1>0. /\ queue \in Seq(Entry) /\ processing \in Seq(Entry) /\ dead \in Seq(Entry)
      /\ OneEntryPerId(processing) /\ RetryBudget
  BY DEF IndInv, TypeOK, Promises, TaskConservation
<1>1. CASE raw \notin ToSet(processing)
  BY <1>1, CycleStutter DEF Rescue, redis
<1>2. CASE raw \in ToSet(processing)
  <2>1. raw \in Entry /\ raw.retry \in Nat /\ raw.retry <= MaxRetries
    <3>1. raw \in Entry
      BY <1>0, <1>2, ElementOfSeq, LenProperties DEF ToSet
    <3>2. raw.retry \in Nat
      BY <3>1 DEF Entry
    <3>3. raw.retry <= MaxRetries
      BY <1>0, <1>2 DEF RetryBudget, Live
    <3> QED BY <3>1, <3>2, <3>3
  <2>2. again \in Entry /\ again.retry = raw.retry + 1
    BY <2>1 DEF Entry
  <2>3. PICK n \in DOMAIN processing :
          processing[n] = raw /\ RemoveFirst(processing, raw) = RemoveAt(processing, n)
    BY <1>0, <1>2, RemoveFirstEntry
  <2>4. processing' = RemoveAt(processing, n)
    BY <1>2, <2>3 DEF Rescue
  <2>5. ToSet(processing') = ToSet(processing) \ {raw}
    BY <1>0, <2>3, <2>4, RemoveAtEntry
  <2>6. CASE again.retry > MaxRetries
    <3>1. dead' = Cons(again, dead) /\ UNCHANGED queue
      BY <1>2, <2>6 DEF Rescue
    <3>2. ToSet(dead') = ToSet(dead) \cup {again}
      <4> HIDE DEF again
      <4> QED BY <1>0, <2>2, <3>1, ConsTask, Zenon
    <3>3. raw.retry = MaxRetries
      BY <2>1, <2>2, <2>6, BoundAssumption
    <3>4. LifeCycle!Bury(raw)
      BY <2>5, <3>1, <3>2, <3>3 DEF LifeCycle!Bury
    <3> QED BY <1>2, <3>4 DEF CycleStep, LifeCycle!Next
  <2>7. CASE ~(again.retry > MaxRetries)
    <3>1. queue' = Cons(again, queue) /\ UNCHANGED dead
      BY <1>2, <2>7 DEF Rescue
    <3>2. ToSet(queue') = ToSet(queue) \cup {again}
      <4> HIDE DEF again
      <4> QED BY <1>0, <2>2, <3>1, ConsTask, Zenon
    <3>3. raw.retry < MaxRetries
      BY <2>1, <2>2, <2>7, BoundAssumption
    <3>4. LifeCycle!Retry(raw)
      BY <2>5, <3>1, <3>2, <3>3 DEF LifeCycle!Retry
    <3> QED BY <1>2, <3>4 DEF CycleStep, LifeCycle!Next
  <2> QED BY <2>6, <2>7
<1> QED BY <1>1, <1>2

\* Every step of the queue is a step of the life cycle or none.
LEMMA CycleNext ==
  ASSUME IndInv, [Next]_vars
  PROVE  CycleStep
<1>1. ASSUME NEW w \in Workers, Crawler(w) \/ LoseStart(w) \/ CrashWorker(w)
      PROVE  CycleStep
  <2>1. CASE PopTask(w)
    BY <2>1, CyclePop
  <2>2. CASE AckTask(w)
    BY <2>2, CycleAck
  <2>3. CASE RecordStart(w) \/ LoseStart(w) \/ FinishCrawl(w) \/ TimeoutTask(w) \/ CrashWorker(w)
    BY <2>3, CycleStutter
    DEF RecordStart, LoseStart, FinishCrawl, TimeoutTask, CrashWorker, redis, history
  <2> QED BY <1>1, <2>1, <2>2, <2>3 DEF Crawler
<1>2. ASSUME NEW j \in Janitors, Janitor(j)
      PROVE  CycleStep
  <2>1. CASE JanitorRescue(j)
    <3>1. CASE Head(jraws[j]) \in jstuck[j]
      BY <2>1, <3>1, CycleRescue, Zenon DEF JanitorRescue, history
    <3>2. CASE Head(jraws[j]) \notin jstuck[j]
      BY <2>1, <3>2, CycleStutter, Zenon DEF JanitorRescue, redis, history
    <3> QED BY <3>1, <3>2
  <2>2. CASE JanitorHGetAll(j) \/ JanitorLRange(j) \/ \E t \in Tasks : JanitorClean(j, t)
    BY <2>2, CycleStutter, Zenon DEF JanitorHGetAll, JanitorLRange, JanitorClean, redis, history
  <2> QED BY <1>2, <2>1, <2>2 DEF Janitor
<1>3. CASE RecoverHDel \/ RecoverDone \/ RestartAnalyzer \/ Tick \/ UNCHANGED vars
  BY <1>3, CycleStutter, Zenon
  DEF RecoverHDel, RecoverDone, RestartAnalyzer, Tick, vars, redis, history
<1> QED
  BY <1>1, <1>2, <1>3, CyclePush, CycleRecover DEF Next, Recovery

\* The queue of internal/pkg/redisqueue, with its crawlers, janitors and start-up
\* recovery, behaves towards its users like the life cycle of single tasks.
THEOREM ImplementsLifeCycle == Spec => KeepsLifeCycle
<1>1. IndInv /\ [Next]_vars => [LifeCycle!Next]_(LifeCycle!vars)
  BY CycleNext DEF CycleStep
<1> QED BY <1>1, CycleInit, Invariance, PTL DEF Spec, KeepsLifeCycle, LifeCycle!Spec
=============================================================================
