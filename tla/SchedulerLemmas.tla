-------------------------- MODULE SchedulerLemmas --------------------------
(***************************************************************************)
(* Facts about the queue operations of Scheduler, for every queue, policy  *)
(* and priority assignment.                                                *)
(***************************************************************************)
EXTENDS Scheduler, SequenceTheorems, WellFoundedInduction, TLAPS

-----------------------------------------------------------------------------
(* A non-empty set of naturals has a least element, and Min is it.         *)
LEMMA MinIsLeast ==
  ASSUME NEW S \in SUBSET Nat, S # {}
  PROVE  Min(S) \in S /\ \A y \in S : Min(S) <= y
<1> DEFINE R == OpToRel(<, Nat)
<1>1. \E x \in S : \A y \in S : ~(<<y, x>> \in R)
  <2>1. IsWellFoundedOn(R, Nat)
    BY NatLessThanWellFounded, Zenon
  <2> HIDE DEF R
  <2> QED BY <2>1, WFMin, Zenon
<1>2. \A x, y \in S : <<y, x>> \in R <=> y < x
  BY DEF OpToRel
<1>3. \E x \in S : \A y \in S : ~(y < x)
  <2> HIDE DEF R
  <2> QED BY <1>1, <1>2, Zenon
<1>4. \A x, y \in S : ~(y < x) => x <= y
  OBVIOUS
<1>5. \E x \in S : \A y \in S : x <= y
  BY <1>3, <1>4, Zenon
<1> QED BY <1>5, Zenon DEF Min

(* Induction up to n, for a property given as a set: a least number that   *)
(* does not have it cannot exist.                                          *)
LEMMA UpTo ==
  ASSUME NEW n \in Nat, NEW S, 0 \in S, \A i \in 0..n : i # n /\ i \in S => i + 1 \in S
  PROVE  \A i \in 0..n : i \in S
<1> DEFINE B == {i \in 0..n : i \notin S}
<1> SUFFICES ASSUME B # {} PROVE FALSE
  BY Zenon
<1>1. B \in SUBSET Nat
  OBVIOUS
<1>2. Min(B) \in B /\ \A y \in B : Min(B) <= y
  BY <1>1, MinIsLeast, Zenon
<1> DEFINE m == Min(B)
<1>3. m \in 0..n /\ m \notin S /\ \A y \in 0..n : y \notin S => m <= y
  BY <1>2, Zenon
<1> HIDE DEF m, B
<1>4. m # 0
  BY <1>3, Zenon
<1>5. m - 1 \in 0..n /\ m - 1 # n /\ (m - 1) + 1 = m /\ ~(m <= m - 1)
  BY <1>3, <1>4
<1> QED BY <1>3, <1>5, Zenon

-----------------------------------------------------------------------------
(* Taking the first element off a queue.                                   *)
LEMMA HeadTailRange ==
  ASSUME NEW S, NEW q \in Seq(S), q # <<>>
  PROVE  /\ Head(q) \in S /\ Tail(q) \in Seq(S)
         /\ Head(q) \in Range(q)
         /\ Range(q) = {Head(q)} \cup Range(Tail(q))
         /\ IsInjective(q) => IsInjective(Tail(q)) /\ Head(q) \notin Range(Tail(q))
<1> DEFINE r == Tail(q)
<1>1. /\ Len(q) \in Nat \ {0} /\ DOMAIN q = 1..Len(q)
      /\ r \in Seq(S) /\ Len(r) = Len(q) - 1 /\ DOMAIN r = 1..Len(r)
      /\ \A i \in 1..Len(r) : r[i] = q[i + 1]
      /\ Head(q) \in S /\ Head(q) = q[1]
  BY EmptySeq, LenProperties, HeadTailProperties
<1> HIDE DEF r
<1> 1 \in 1..Len(q) /\ \A i \in 1..Len(r) : i + 1 \in 1..Len(q) /\ i + 1 # 1
  BY <1>1
<1>2. Head(q) \in Range(q) /\ Range(r) \subseteq Range(q)
  BY <1>1 DEF Range
<1>3. ASSUME NEW x \in Range(q) PROVE x \in {Head(q)} \cup Range(r)
  <2>1. PICK i \in 1..Len(q) : x = q[i]
    BY <1>1, <1>3 DEF Range
  <2>2. i # 1 => i - 1 \in 1..Len(r) /\ x = r[i - 1]
    BY <1>1, <2>1
  <2> QED BY <1>1, <2>1, <2>2, Zenon DEF Range
<1>4. ASSUME IsInjective(q)
      PROVE  IsInjective(r) /\ Head(q) \notin Range(r)
  <2>1. \A i, j \in 1..Len(q) : q[i] = q[j] => i = j
    BY <1>1, <1>4, Zenon DEF IsInjective
  <2>2. \A i, j \in 1..Len(r) : r[i] = r[j] => i = j
    BY <1>1, <2>1
  <2>3. \A i \in 1..Len(r) : r[i] # Head(q)
    BY <1>1, <2>1
  <2> QED BY <1>1, <2>2, <2>3 DEF IsInjective, Range
<1> QED BY <1>1, <1>2, <1>3, <1>4 DEF r

(* Adding an element at the tail.                                          *)
LEMMA AppendRange ==
  ASSUME NEW S, NEW q \in Seq(S), NEW t \in S
  PROVE  /\ Append(q, t) \in Seq(S)
         /\ Range(Append(q, t)) = Range(q) \cup {t}
         /\ IsInjective(q) /\ t \notin Range(q) => IsInjective(Append(q, t))
<1> DEFINE r == Append(q, t)
<1>1. /\ Len(q) \in Nat /\ DOMAIN q = 1..Len(q)
      /\ r \in Seq(S) /\ Len(r) = Len(q) + 1 /\ DOMAIN r = 1..Len(r)
      /\ \A i \in 1..Len(q) : r[i] = q[i]
      /\ r[Len(q) + 1] = t
  BY LenProperties, AppendProperties
<1> HIDE DEF r
<1>2. ASSUME NEW x \in Range(r) PROVE x \in Range(q) \cup {t}
  <2>1. PICK i \in 1..Len(r) : x = r[i]
    BY <1>1, <1>2 DEF Range
  <2>2. i \in 1..Len(q) \/ i = Len(q) + 1
    BY <1>1
  <2> QED BY <1>1, <2>1, <2>2 DEF Range
<1>3. Range(q) \cup {t} \subseteq Range(r)
  BY <1>1 DEF Range
<1>4. IsInjective(q) /\ t \notin Range(q) => IsInjective(r)
  <2> SUFFICES ASSUME IsInjective(q), t \notin Range(q),
                      NEW i \in 1..Len(r), NEW j \in 1..Len(r), r[i] = r[j]
               PROVE  i = j
    BY <1>1 DEF IsInjective
  <2>1. \A k \in 1..Len(q) : q[k] # t
    BY <1>1, Zenon DEF Range
  <2> QED BY <1>1, <2>1 DEF IsInjective
<1> QED BY <1>1, <1>2, <1>3, <1>4 DEF r

(* Inserting an element at position k.                                     *)
LEMMA InsertedAtShape ==
  ASSUME NEW S, NEW q \in Seq(S), NEW t \in S, NEW k \in 1..Len(q)
  PROVE  /\ InsertedAt(q, k, t) \in Seq(S)
         /\ Len(InsertedAt(q, k, t)) = Len(q) + 1
         /\ \A i \in 1..Len(q) + 1 : InsertedAt(q, k, t)[i] =
              IF i < k THEN q[i] ELSE IF i = k THEN t ELSE q[i - 1]
<1> DEFINE a == SubSeq(q, 1, k - 1)
           b == SubSeq(q, k, Len(q))
           m == a \o <<t>>
<1>0. Len(q) \in Nat /\ \A i \in 1..Len(q) : q[i] \in S
  BY LenProperties
<1>1. /\ a \in Seq(S) /\ Len(a) = k - 1
      /\ \A i \in 1..k - 1 : a[i] = q[i]
  <2>1. \A i \in 1..k - 1 : q[i] \in S
    BY <1>0
  <2> QED BY <1>0, <2>1, SubSeqProperties
<1>2. /\ b \in Seq(S) /\ Len(b) = Len(q) - k + 1
      /\ \A i \in 1..Len(q) - k + 1 : b[i] = q[k + i - 1]
  <2>1. \A i \in k..Len(q) : q[i] \in S
    BY <1>0
  <2> QED BY <1>0, <2>1, SubSeqProperties
<1>3. <<t>> \in Seq(S) /\ Len(<<t>>) = 1 /\ <<t>>[1] = t
  OBVIOUS
<1> HIDE DEF a, b
<1>4. /\ m \in Seq(S) /\ Len(m) = k
      /\ \A i \in 1..k : m[i] = IF i < k THEN q[i] ELSE t
  BY <1>1, <1>3, ConcatProperties
<1> HIDE DEF m
<1>5. /\ m \o b \in Seq(S) /\ Len(m \o b) = Len(q) + 1
      /\ \A i \in 1..Len(q) + 1 : (m \o b)[i] = IF i <= k THEN m[i] ELSE b[i - k]
  BY <1>0, <1>2, <1>4, ConcatProperties, SMTT(60)
<1>6. \A i \in 1..Len(q) + 1 : (m \o b)[i] =
         IF i < k THEN q[i] ELSE IF i = k THEN t ELSE q[i - 1]
  BY <1>0, <1>2, <1>4, <1>5
<1>7. InsertedAt(q, k, t) = m \o b
  BY DEF InsertedAt, m, a, b
<1> QED BY <1>5, <1>6, <1>7

\* Inserting t adds it to the elements and repeats none.
LEMMA InsertedAtRange ==
  ASSUME NEW S, NEW q \in Seq(S), NEW t \in S, NEW k \in 1..Len(q)
  PROVE  /\ Range(InsertedAt(q, k, t)) = Range(q) \cup {t}
         /\ IsInjective(q) /\ t \notin Range(q) => IsInjective(InsertedAt(q, k, t))
<1> DEFINE r == InsertedAt(q, k, t)
<1>1. /\ Len(q) \in Nat /\ DOMAIN q = 1..Len(q)
      /\ r \in Seq(S) /\ Len(r) = Len(q) + 1 /\ DOMAIN r = 1..Len(r)
      /\ \A i \in 1..Len(r) : r[i] =
            IF i < k THEN q[i] ELSE IF i = k THEN t ELSE q[i - 1]
  BY LenProperties, InsertedAtShape
<1> HIDE DEF r
<1>2. ASSUME NEW x \in Range(r) PROVE x \in Range(q) \cup {t}
  <2>1. PICK i \in 1..Len(r) : x = r[i]
    BY <1>1, <1>2 DEF Range
  <2>2. \/ x = t
        \/ \E j \in 1..Len(q) : x = q[j]
    <3>1. /\ i < k => i \in 1..Len(q)
          /\ i > k => i - 1 \in 1..Len(q)
      BY <1>1
    <3> QED BY <1>1, <2>1, <3>1
  <2> QED BY <1>1, <2>2, Zenon DEF Range
<1>3. ASSUME NEW x \in Range(q) \cup {t} PROVE x \in Range(r)
  <2>1. \E i \in 1..Len(r) : x = r[i]
    <3>1. CASE x = t
      BY <1>1, <3>1
    <3>2. CASE x # t
      <4>1. PICK i \in 1..Len(q) : x = q[i]
        BY <1>1, <1>3, <3>2 DEF Range
      <4>2. /\ i < k => i \in 1..Len(r) /\ r[i] = x
            /\ i >= k => i + 1 \in 1..Len(r) /\ r[i + 1] = x
        BY <1>1, <4>1
      <4> QED BY <1>1, <4>2
    <3> QED BY <3>1, <3>2
  <2> QED BY <1>1, <2>1, SMTT(30) DEF Range
<1>4. ASSUME IsInjective(q), t \notin Range(q) PROVE IsInjective(r)
  <2>1. \A i, j \in 1..Len(q) : q[i] = q[j] => i = j
    BY <1>1, <1>4, Zenon DEF IsInjective
  <2>2. \A i \in 1..Len(q) : q[i] # t
    BY <1>1, <1>4, Zenon DEF Range
  <2>3. \A i, j \in 1..Len(r) : r[i] = r[j] => i = j
    BY <1>1, <2>1, <2>2, SMTT(30)
  <2> QED BY <1>1, <2>3 DEF IsInjective
<1> QED BY <1>2, <1>3, <1>4 DEF r

-----------------------------------------------------------------------------
(* What thread_scheduler_enqueue adds and keeps, under either policy.      *)
LEMMA EnqueueRange ==
  ASSUME NEW q \in Seq(Threads), NEW t \in Threads, NEW prio
  PROVE  /\ thread_scheduler_enqueue(q, t, prio) \in Seq(Threads)
         /\ Range(thread_scheduler_enqueue(q, t, prio)) = Range(q) \cup {t}
         /\ IsInjective(q) => IsInjective(thread_scheduler_enqueue(q, t, prio))
<1> DEFINE lower == {i \in 1..Len(q) : PRIO /\ prio[t] > prio[q[i]]}
           e == thread_scheduler_enqueue(q, t, prio)
<1>1. ASSUME t \in Range(q)
      PROVE  e \in Seq(Threads) /\ Range(e) = Range(q) \cup {t}
             /\ (IsInjective(q) => IsInjective(e))
  <2>1. e = q
    BY <1>1 DEF thread_scheduler_enqueue
  <2> HIDE DEF e, lower
  <2> QED BY <1>1, <2>1
<1>2. ASSUME t \notin Range(q), lower = {}
      PROVE  e \in Seq(Threads) /\ Range(e) = Range(q) \cup {t}
             /\ (IsInjective(q) => IsInjective(e))
  <2>1. e = Append(q, t)
    BY <1>2 DEF thread_scheduler_enqueue
  <2> HIDE DEF e, lower
  <2> QED BY <1>2, <2>1, AppendRange
<1>3. ASSUME t \notin Range(q), lower # {}
      PROVE  e \in Seq(Threads) /\ Range(e) = Range(q) \cup {t}
             /\ (IsInjective(q) => IsInjective(e))
  <2>1. e = InsertedAt(q, Min(lower), t)
    BY <1>3 DEF thread_scheduler_enqueue
  <2>2. lower \in SUBSET Nat /\ lower \subseteq 1..Len(q)
    BY LenProperties
  <2> HIDE DEF e, lower
  <2>3. Min(lower) \in 1..Len(q)
    BY <1>3, <2>2, MinIsLeast, Zenon
  <2> QED BY <1>3, <2>1, <2>3, InsertedAtShape, InsertedAtRange
<1> QED BY <1>1, <1>2, <1>3

(* thread_scheduler_enqueue keeps a queue sorted (PRIO).                   *)
LEMMA EnqueueSorted ==
  ASSUME NEW q \in Seq(Threads), NEW t \in Threads, NEW prio \in [Threads -> Int],
         PRIO, Sorted(q, prio)
  PROVE  Sorted(thread_scheduler_enqueue(q, t, prio), prio)
<1> DEFINE lower == {i \in 1..Len(q) : PRIO /\ prio[t] > prio[q[i]]}
<1>0. /\ Len(q) \in Nat /\ \A i \in 1..Len(q) : q[i] \in Threads
      /\ \A i \in 1..Len(q) : prio[q[i]] \in Int
      /\ prio[t] \in Int
  BY LenProperties
<1>1. CASE t \in Range(q)
  BY <1>1 DEF thread_scheduler_enqueue
<1>2. CASE t \notin Range(q) /\ lower = {}
  <2> DEFINE r == Append(q, t)
  <2>1. thread_scheduler_enqueue(q, t, prio) = r
    BY <1>2 DEF thread_scheduler_enqueue
  <2>2. /\ Len(r) = Len(q) + 1 /\ r[Len(q) + 1] = t
        /\ \A i \in 1..Len(q) : r[i] = q[i]
    BY AppendProperties
  <2>3. \A i \in 1..Len(q) : prio[q[i]] >= prio[t]
    BY <1>0, <1>2
  <2> HIDE DEF r
  <2>4. Sorted(r, prio)
    BY <1>0, <2>2, <2>3, SMTT(30) DEF Sorted
  <2> QED BY <2>1, <2>4
<1>3. CASE t \notin Range(q) /\ lower # {}
  <2> DEFINE k == Min(lower)
             r == InsertedAt(q, k, t)
  <2>1. thread_scheduler_enqueue(q, t, prio) = r
    BY <1>3 DEF thread_scheduler_enqueue
  <2>2. k \in lower /\ \A i \in lower : k <= i
    <3>1. lower \in SUBSET Nat
      BY <1>0
    <3> HIDE DEF lower
    <3> QED BY <1>3, <3>1, MinIsLeast
  <2> HIDE DEF k
  <2>3. /\ k \in 1..Len(q) /\ prio[t] > prio[q[k]]
        /\ \A i \in 1..Len(q) : i < k => prio[q[i]] >= prio[t]
    BY <1>0, <2>2
  <2>4. \A i \in 1..Len(q) : i >= k => prio[t] >= prio[q[i]]
    <3> SUFFICES ASSUME NEW i \in 1..Len(q), i >= k PROVE prio[t] >= prio[q[i]]
      OBVIOUS
    <3>1. prio[q[k]] >= prio[q[i]]
      BY <1>0, <2>3 DEF Sorted
    <3> QED BY <1>0, <2>3, <3>1
  <2>5. /\ Len(r) = Len(q) + 1
        /\ \A i \in 1..Len(q) + 1 : r[i] =
             IF i < k THEN q[i] ELSE IF i = k THEN t ELSE q[i - 1]
    BY <2>3, InsertedAtShape
  <2> HIDE DEF r, lower
  <2>6. Sorted(r, prio)
    <3> SUFFICES ASSUME NEW i \in 1..Len(r), NEW j \in 1..Len(r), i < j
                 PROVE  prio[r[i]] >= prio[r[j]]
      BY DEF Sorted
    <3>1. \A a, b \in 1..Len(q) : a < b => prio[q[a]] >= prio[q[b]]
      BY DEF Sorted
    <3>2. CASE i < k /\ j < k
      <4>1. i \in 1..Len(q) /\ j \in 1..Len(q) /\ r[i] = q[i] /\ r[j] = q[j]
        BY <1>0, <2>3, <2>5, <3>2
      <4> QED BY <3>1, <4>1
    <3>3. CASE i < k /\ j = k
      <4>1. i \in 1..Len(q) /\ r[i] = q[i] /\ r[j] = t
        BY <1>0, <2>3, <2>5, <3>3
      <4> QED BY <2>3, <3>3, <4>1
    <3>4. CASE i < k /\ j > k
      <4>1. /\ i \in 1..Len(q) /\ j - 1 \in 1..Len(q) /\ i < j - 1
            /\ r[i] = q[i] /\ r[j] = q[j - 1]
        BY <1>0, <2>3, <2>5, <3>4
      <4> QED BY <3>1, <4>1, Zenon
    <3>5. CASE i = k /\ j > k
      <4>1. j - 1 \in 1..Len(q) /\ j - 1 >= k /\ r[i] = t /\ r[j] = q[j - 1]
        BY <1>0, <2>3, <2>5, <3>5
      <4> QED BY <1>0, <2>4, <4>1
    <3>6. CASE i > k /\ j > k
      <4>1. /\ i - 1 \in 1..Len(q) /\ j - 1 \in 1..Len(q) /\ i - 1 < j - 1
            /\ r[i] = q[i - 1] /\ r[j] = q[j - 1]
        BY <1>0, <2>3, <2>5, <3>6
      <4> QED BY <3>1, <4>1, SMTT(30)
    <3> QED BY <1>0, <2>3, <2>5, <3>2, <3>3, <3>4, <3>5, <3>6
  <2> QED BY <2>1, <2>6
<1> QED BY <1>1, <1>2, <1>3

-----------------------------------------------------------------------------
(* Removing position k from a queue.                                       *)
LEMMA RemovedAtShape ==
  ASSUME NEW S, NEW q \in Seq(S), NEW k \in 1..Len(q)
  PROVE  /\ RemovedAt(q, k) \in Seq(S)
         /\ Len(RemovedAt(q, k)) = Len(q) - 1
         /\ \A i \in 1..Len(q) - 1 : RemovedAt(q, k)[i] = IF i < k THEN q[i] ELSE q[i + 1]
<1> DEFINE a == SubSeq(q, 1, k - 1)
           b == SubSeq(q, k + 1, Len(q))
<1>0. Len(q) \in Nat /\ \A i \in 1..Len(q) : q[i] \in S
  BY LenProperties
<1>1. /\ a \in Seq(S) /\ Len(a) = k - 1
      /\ \A i \in 1..k - 1 : a[i] = q[i]
  <2>1. \A i \in 1..k - 1 : q[i] \in S
    BY <1>0
  <2> QED BY <1>0, <2>1, SubSeqProperties
<1>2. /\ b \in Seq(S) /\ Len(b) = Len(q) - k
      /\ \A i \in 1..Len(q) - k : b[i] = q[k + i]
  <2>1. \A i \in k + 1..Len(q) : q[i] \in S
    BY <1>0
  <2>2. k + 1 \in Int /\ Len(q) \in Int /\ Len(q) - (k + 1) + 1 = Len(q) - k
    BY <1>0
  <2>3. /\ b \in Seq(S)
        /\ Len(b) = IF k + 1 <= Len(q) THEN Len(q) - (k + 1) + 1 ELSE 0
        /\ \A i \in 1..Len(q) - (k + 1) + 1 : b[i] = q[(k + 1) + i - 1]
    BY <2>1, <2>2, SubSeqProperties
  <2> HIDE DEF b
  <2>4. \A i \in 1..Len(q) - k : (k + 1) + i - 1 = k + i
    BY <1>0
  <2>5. Len(b) = Len(q) - k
    BY <1>0, <2>3, SMTT(30)
  <2>6. \A i \in 1..Len(q) - k : b[i] = q[(k + 1) + i - 1]
    BY <2>2, <2>3, Zenon
  <2> QED BY <2>3, <2>4, <2>5, <2>6
<1> HIDE DEF a, b
<1>3. /\ a \o b \in Seq(S) /\ Len(a \o b) = Len(q) - 1
      /\ \A i \in 1..Len(q) - 1 : (a \o b)[i] = IF i <= k - 1 THEN a[i] ELSE b[i - (k - 1)]
  BY <1>0, <1>1, <1>2, ConcatProperties
<1>4. \A i \in 1..Len(q) - 1 : (a \o b)[i] = IF i < k THEN q[i] ELSE q[i + 1]
  <2> SUFFICES ASSUME NEW i \in 1..Len(q) - 1
               PROVE  (a \o b)[i] = IF i < k THEN q[i] ELSE q[i + 1]
    BY Zenon
  <2>1. CASE i < k
    BY <1>0, <1>1, <1>3, <2>1
  <2>2. CASE i >= k
    <3>1. i - (k - 1) \in 1..Len(q) - k /\ k + (i - (k - 1)) = i + 1
      BY <1>0, <2>2
    <3>2. (a \o b)[i] = b[i - (k - 1)]
      BY <1>0, <1>3, <2>2
    <3>3. b[i - (k - 1)] = q[k + (i - (k - 1))]
      BY <1>2, <3>1
    <3>4. (a \o b)[i] = q[i + 1]
      BY <3>1, <3>2, <3>3
    <3> QED BY <1>0, <2>2, <3>4
  <2>3. i < k \/ i >= k
    BY <1>0
  <2> QED BY <2>1, <2>2, <2>3, Zenon
<1>5. RemovedAt(q, k) = a \o b
  BY DEF RemovedAt, a, b
<1> QED BY <1>3, <1>4, <1>5

(* Unlinking a thread that is in the queue removes one occurrence of it.   *)
LEMMA UnlinkedIsRemovedAt ==
  ASSUME NEW S, NEW q \in Seq(S), NEW t, t \in Range(q)
  PROVE  \E k \in 1..Len(q) : q[k] = t /\ Unlinked(q, t) = RemovedAt(q, k)
<1> DEFINE I == {i \in 1..Len(q) : q[i] = t}
<1>1. \E i \in 1..Len(q) : q[i] = t
  BY LenProperties DEF Range
<1>2. I # {} /\ I \in SUBSET Nat
  BY <1>1, LenProperties
<1>3. Unlinked(q, t) = RemovedAt(q, Min(I))
  BY <1>1, <1>2 DEF Unlinked
<1>4. Min(I) \in I
  <2> HIDE DEF I
  <2> QED BY <1>2, MinIsLeast
<1> QED BY <1>3, <1>4, Zenon

\* Unlinking a thread the list does not hold leaves the list alone.
LEMMA UnlinkedAbsent ==
  ASSUME NEW S, NEW q \in Seq(S), NEW t, t \notin Range(q)
  PROVE  Unlinked(q, t) = q
<1>1. ~ \E i \in 1..Len(q) : q[i] = t
  BY LenProperties DEF Range
<1> QED BY <1>1 DEF Unlinked

\* TAILQ_REMOVE takes out the thread and nothing else.
LEMMA UnlinkedRange ==
  ASSUME NEW S, NEW q \in Seq(S), NEW t
  PROVE  /\ Unlinked(q, t) \in Seq(S)
         /\ Range(Unlinked(q, t)) \subseteq Range(q)
         /\ Range(q) \subseteq Range(Unlinked(q, t)) \cup {t}
         /\ IsInjective(q) => IsInjective(Unlinked(q, t)) /\ t \notin Range(Unlinked(q, t))
<1> DEFINE r == Unlinked(q, t)
<1>1. ASSUME t \notin Range(q)
      PROVE  r \in Seq(S) /\ Range(r) \subseteq Range(q) /\ Range(q) \subseteq Range(r) \cup {t}
             /\ (IsInjective(q) => IsInjective(r) /\ t \notin Range(r))
  <2>1. r = q
    BY <1>1, UnlinkedAbsent
  <2> HIDE DEF r
  <2> QED BY <1>1, <2>1
<1>2. ASSUME t \in Range(q)
      PROVE  r \in Seq(S) /\ Range(r) \subseteq Range(q) /\ Range(q) \subseteq Range(r) \cup {t}
             /\ (IsInjective(q) => IsInjective(r) /\ t \notin Range(r))
  <2>1. PICK k \in 1..Len(q) : q[k] = t /\ r = RemovedAt(q, k)
    BY <1>2, UnlinkedIsRemovedAt
  <2> HIDE DEF r
  <2>2. /\ Len(q) \in Nat /\ DOMAIN q = 1..Len(q)
        /\ r \in Seq(S) /\ Len(r) = Len(q) - 1 /\ DOMAIN r = 1..Len(r)
        /\ \A i \in 1..Len(r) : r[i] = IF i < k THEN q[i] ELSE q[i + 1]
    BY <2>1, LenProperties, RemovedAtShape, Zenon
  <2>3. \A i \in 1..Len(r) : i \in 1..Len(q) /\ i + 1 \in 1..Len(q)
    BY <2>2
  <2>4. Range(r) \subseteq Range(q)
    BY <2>2, <2>3, Zenon DEF Range
  <2>5. ASSUME NEW x \in Range(q), x # t PROVE x \in Range(r)
    <3>1. PICK i \in 1..Len(q) : x = q[i]
      BY <2>2, <2>5 DEF Range
    <3>2. /\ i < k => i \in 1..Len(r) /\ r[i] = x
          /\ i > k => i - 1 \in 1..Len(r) /\ r[i - 1] = x
          /\ i < k \/ i > k
      BY <2>1, <2>2, <2>5, <3>1
    <3> QED BY <2>2, <3>2, Zenon DEF Range
  <2>6. ASSUME IsInjective(q) PROVE IsInjective(r) /\ t \notin Range(r)
    <3>1. \A i, j \in 1..Len(q) : q[i] = q[j] => i = j
      BY <2>2, <2>6, Zenon DEF IsInjective
    <3>2. \A i, j \in 1..Len(r) : r[i] = r[j] => i = j
      BY <2>2, <2>3, <3>1
    <3>3. \A i \in 1..Len(r) : r[i] # t
      BY <2>1, <2>2, <2>3, <3>1
    <3> QED BY <2>2, <3>2, <3>3, SMTT(30) DEF IsInjective, Range
  <2> QED BY <2>2, <2>4, <2>5, <2>6
<1> QED BY <1>1, <1>2

-----------------------------------------------------------------------------
(* Lists put together and cut.                                             *)
\* Two lists without repetition or common element, one after the other.
LEMMA ConcatInjective ==
  ASSUME NEW S, NEW p \in Seq(S), NEW q \in Seq(S), IsInjective(p), IsInjective(q),
         Range(p) \cap Range(q) = {}
  PROVE  IsInjective(p \o q)
<1> DEFINE r == p \o q
<1>1. /\ Len(p) \in Nat /\ Len(q) \in Nat /\ DOMAIN p = 1..Len(p) /\ DOMAIN q = 1..Len(q)
      /\ r \in Seq(S) /\ Len(r) = Len(p) + Len(q)
  BY LenProperties, ConcatProperties
<1>2. DOMAIN r = 1..Len(p) + Len(q)
  BY <1>1, LenProperties
<1>3. \A i \in 1..Len(p) + Len(q) : r[i] = IF i <= Len(p) THEN p[i] ELSE q[i - Len(p)]
  BY ConcatProperties
<1> HIDE DEF r
<1>4. \A i \in 1..Len(p) + Len(q) : i > Len(p) => i - Len(p) \in 1..Len(q)
  BY <1>1
<1>5. /\ \A i \in 1..Len(p) : p[i] \in Range(p)
      /\ \A i \in 1..Len(q) : q[i] \in Range(q)
  BY <1>1, Zenon DEF Range
<1>6. ASSUME NEW i \in 1..Len(p) + Len(q), NEW k \in 1..Len(p) + Len(q), r[i] = r[k]
      PROVE  i = k
  <2>1. CASE i <= Len(p) /\ k <= Len(p)
    <3>1. i \in 1..Len(p) /\ k \in 1..Len(p) /\ p[i] = p[k]
      BY <1>1, <1>3, <1>6, <2>1
    <3> QED BY <1>1, <3>1, Zenon DEF IsInjective
  <2>2. CASE i > Len(p) /\ k > Len(p)
    <3>1. /\ i - Len(p) \in 1..Len(q) /\ k - Len(p) \in 1..Len(q)
          /\ q[i - Len(p)] = q[k - Len(p)]
      BY <1>1, <1>3, <1>4, <1>6, <2>2
    <3>2. i - Len(p) = k - Len(p)
      BY <1>1, <3>1, SMTT(30) DEF IsInjective
    <3> QED BY <1>1, <3>2
  <2>3. CASE i <= Len(p) /\ k > Len(p)
    <3>1. i \in 1..Len(p) /\ k - Len(p) \in 1..Len(q) /\ p[i] = q[k - Len(p)]
      BY <1>1, <1>3, <1>4, <1>6, <2>3
    <3> QED BY <1>5, <3>1
  <2>4. CASE i > Len(p) /\ k <= Len(p)
    <3>1. k \in 1..Len(p) /\ i - Len(p) \in 1..Len(q) /\ p[k] = q[i - Len(p)]
      BY <1>1, <1>3, <1>4, <1>6, <2>4
    <3> QED BY <1>5, <3>1
  <2> QED BY <1>1, <2>1, <2>2, <2>3, <2>4
<1> QED BY <1>2, <1>6 DEF IsInjective, r

\* The elements of two lists, one after the other.
LEMMA ConcatRange ==
  ASSUME NEW S, NEW p \in Seq(S), NEW q \in Seq(S)
  PROVE  Range(p \o q) = Range(p) \cup Range(q)
<1> DEFINE r == p \o q
<1>1. /\ Len(p) \in Nat /\ Len(q) \in Nat /\ DOMAIN p = 1..Len(p) /\ DOMAIN q = 1..Len(q)
      /\ r \in Seq(S) /\ Len(r) = Len(p) + Len(q)
  BY LenProperties, ConcatProperties
<1>2. DOMAIN r = 1..Len(p) + Len(q)
  BY <1>1, LenProperties
<1>3. \A i \in 1..Len(p) + Len(q) : r[i] = IF i <= Len(p) THEN p[i] ELSE q[i - Len(p)]
  BY ConcatProperties
<1> HIDE DEF r
<1>4. ASSUME NEW i \in DOMAIN r PROVE r[i] \in Range(p) \cup Range(q)
  <2>1. CASE i <= Len(p)
    <3>1. i \in DOMAIN p /\ r[i] = p[i]
      BY <1>1, <1>2, <1>3, <2>1
    <3> QED BY <3>1 DEF Range
  <2>2. CASE i > Len(p)
    <3>1. i - Len(p) \in DOMAIN q /\ r[i] = q[i - Len(p)]
      BY <1>1, <1>2, <1>3, <2>2
    <3> QED BY <3>1 DEF Range
  <2> QED BY <1>1, <1>2, <2>1, <2>2
<1>5. ASSUME NEW i \in DOMAIN p PROVE p[i] \in Range(r)
  <2>1. i \in DOMAIN r /\ r[i] = p[i]
    BY <1>1, <1>2, <1>3
  <2> QED BY <2>1 DEF Range
<1>6. ASSUME NEW i \in DOMAIN q PROVE q[i] \in Range(r)
  <2>1. i + Len(p) \in DOMAIN r /\ (i + Len(p)) - Len(p) = i /\ ~(i + Len(p) <= Len(p))
    BY <1>1, <1>2
  <2>2. r[i + Len(p)] = q[i]
    BY <1>2, <1>3, <2>1
  <2> QED BY <2>1, <2>2 DEF Range
<1> QED BY <1>4, <1>5, <1>6, Zenon DEF Range, r

\* A list and the part of it that the pool takes.
LEMMA PrefixRange ==
  ASSUME NEW S, NEW ss \in Seq(S), NEW n \in 0..Len(ss)
  PROVE  /\ SubSeq(ss, 1, n) \in Seq(S) /\ Len(SubSeq(ss, 1, n)) = n
         /\ Range(ss) = Range(SubSeq(ss, 1, n)) \cup {ss[i] : i \in n + 1 .. Len(ss)}
         /\ IsInjective(ss) => /\ IsInjective(SubSeq(ss, 1, n))
                               /\ \A i \in n + 1 .. Len(ss) : ss[i] \notin Range(SubSeq(ss, 1, n))
<1> DEFINE k == SubSeq(ss, 1, n)
<1>1. Len(ss) \in Nat /\ DOMAIN ss = 1..Len(ss) /\ \A i \in 1..Len(ss) : ss[i] \in S
  BY LenProperties
<1>2. \A i \in 1..n : ss[i] \in S
  BY <1>1
<1>3. /\ k \in Seq(S) /\ Len(k) = n
      /\ \A i \in 1..n : k[i] = ss[i]
  <2>1. /\ k \in Seq(S)
        /\ Len(k) = IF 1 <= n THEN n - 1 + 1 ELSE 0
        /\ \A i \in 1..(n - 1 + 1) : k[i] = ss[1 + i - 1]
    BY <1>1, <1>2, SubSeqProperties
  <2> QED BY <1>1, <2>1
<1>4. DOMAIN k = 1..n
  BY <1>3, LenProperties
<1> HIDE DEF k
<1>5. Range(ss) = Range(k) \cup {ss[i] : i \in n + 1 .. Len(ss)}
  <2>1. \A i \in 1..Len(ss) : i \in 1..n \/ i \in n + 1 .. Len(ss)
    BY <1>1
  <2>2. \A i \in 1..n : i \in 1..Len(ss)
    BY <1>1
  <2>3. \A i \in n + 1 .. Len(ss) : i \in 1..Len(ss)
    BY <1>1
  <2> QED BY <1>1, <1>3, <1>4, <2>1, <2>2, <2>3, Zenon DEF Range
<1>6. ASSUME IsInjective(ss)
      PROVE  /\ IsInjective(k)
             /\ \A i \in n + 1 .. Len(ss) : ss[i] \notin Range(k)
  <2>1. \A i, j \in 1..Len(ss) : ss[i] = ss[j] => i = j
    BY <1>1, <1>6, Zenon DEF IsInjective
  <2>2. \A i \in 1..n : i \in 1..Len(ss)
    BY <1>1
  <2>3. \A i \in n + 1 .. Len(ss) : i \in 1..Len(ss) /\ \A j \in 1..n : i # j
    BY <1>1
  <2>4. \A i, j \in 1..n : k[i] = k[j] => i = j
    BY <1>3, <2>1, <2>2, Zenon
  <2>5. \A i \in n + 1 .. Len(ss), j \in 1..n : ss[i] # k[j]
    BY <1>3, <2>1, <2>2, <2>3, Zenon
  <2> QED BY <1>4, <2>4, <2>5, Zenon DEF IsInjective, Range
<1> QED BY <1>3, <1>5, <1>6 DEF k

-----------------------------------------------------------------------------
(***************************************************************************)
(* The scheduling calls.  CpuOK is what they rely on, Handover what each   *)
(* of them guarantees: the runnable threads stay the same, one of them has *)
(* the CPU, the others are queued, and nobody else's state changes.        *)
(***************************************************************************)
CpuOK ==
  /\ IsInjective(ready_queue)
  /\ current_thread \notin Range(ready_queue)
  /\ state[current_thread] = "RUNNING"
  /\ \A t \in Range(ready_queue) : state[t] = "READY"

Handover ==
  /\ CpuOK'
  /\ Range(ready_queue') \cup {current_thread'} = Range(ready_queue) \cup {current_thread}
  /\ \A t \in Threads : t \notin Range(ready_queue) \cup {current_thread} => state'[t] = state[t]

\* thread_set_priority stores a priority inside the limits.
LEMMA ClampType ==
  ASSUME NEW p \in Int
  PROVE  Clamp(p) \in Priorities
BY SchedulerAssumption DEF Clamp, Priorities

\* Aging keeps every priority inside the limits.
LEMMA AgedType ==
  ASSUME SchedTypeOK
  PROVE  Aged \in [Threads -> Priorities]
<1>1. \A t \in Threads : priority[t] \in Int /\ priority[t] \in Priorities
  BY SchedulerAssumption DEF SchedTypeOK, Priorities
<1>2. \A t \in Threads : priority[t] + THREAD_WAIT \in Int /\ priority[t] - THREAD_AGING \in Int
  BY <1>1, SchedulerAssumption
<1>3. \A t \in Threads : /\ Clamp(priority[t] + THREAD_WAIT) \in Priorities
                         /\ Clamp(priority[t] - THREAD_AGING) \in Priorities
  BY <1>2, ClampType
<1> QED BY <1>1, <1>3 DEF Aged

(* The queue and states after current_thread takes its place in the queue  *)
(* q and next, which was queued, takes the CPU.                            *)
LEMMA SwitchHandover ==
  ASSUME SchedTypeOK, CpuOK, NEW next \in Range(ready_queue),
         current_thread' = next,
         state' = [state EXCEPT ![current_thread] = "READY", ![next] = "RUNNING"],
         ready_queue' \in Seq(Threads), IsInjective(ready_queue'),
         Range(ready_queue') = (Range(ready_queue) \ {next}) \cup {current_thread}
  PROVE  Handover /\ current_thread' \in Threads /\ state' \in [Threads -> States]
<1>1. Range(ready_queue) \subseteq Threads /\ current_thread \in Threads
  BY RangeOfSeq DEF SchedTypeOK
<1>2. state \in [Threads -> States] /\ next # current_thread
  BY DEF SchedTypeOK, CpuOK
<1>3. /\ state' \in [Threads -> States]
      /\ \A t \in Threads : state'[t] = IF t = next THEN "RUNNING"
                              ELSE IF t = current_thread THEN "READY" ELSE state[t]
  BY <1>1, <1>2 DEF States
<1>4. CpuOK'
  BY <1>1, <1>2, <1>3 DEF CpuOK
<1> QED BY <1>1, <1>2, <1>3, <1>4 DEF Handover

\* thread_yield hands the CPU over, or keeps the caller on it.
LEMMA YieldHandover ==
  ASSUME SchedTypeOK, CpuOK, NEW resume, thread_yield(resume)
  PROVE  SchedTypeOK' /\ Handover
<1> DEFINE next == Head(ready_queue)
           rest == Tail(ready_queue)
<1>0. priority' \in [Threads -> Priorities]
  BY AgedType DEF thread_yield
<1>1. CASE UNCHANGED <<current_thread, state, ready_queue>>
  BY <1>0, <1>1 DEF SchedTypeOK, Handover, CpuOK
<1>2. ASSUME ready_queue # <<>>
      PROVE  /\ next \in Threads /\ rest \in Seq(Threads) /\ next \in Range(ready_queue)
             /\ Range(ready_queue) = {next} \cup Range(rest)
             /\ IsInjective(rest) /\ next \notin Range(rest)
  BY <1>2, HeadTailRange DEF SchedTypeOK, CpuOK
<1>3. CASE /\ ready_queue # <<>>
           /\ ready_queue' = thread_scheduler_enqueue(rest, next, Aged)
           /\ UNCHANGED <<current_thread, state>>
  <2> HIDE DEF next, rest
  <2>1. /\ ready_queue' \in Seq(Threads) /\ IsInjective(ready_queue')
        /\ Range(ready_queue') = Range(rest) \cup {next}
    BY <1>2, <1>3, EnqueueRange
  <2>2. Range(ready_queue') = Range(ready_queue)
    BY <1>2, <1>3, <2>1
  <2> QED BY <1>0, <1>3, <2>1, <2>2 DEF SchedTypeOK, Handover, CpuOK
<1>4. CASE /\ ready_queue # <<>>
           /\ ready_queue' = thread_scheduler_enqueue(rest, current_thread, Aged)
           /\ swap_thread([state EXCEPT ![current_thread] = "READY"], next)
  <2> HIDE DEF next, rest
  <2>1. /\ ready_queue' \in Seq(Threads) /\ IsInjective(ready_queue')
        /\ Range(ready_queue') = Range(rest) \cup {current_thread}
    BY <1>2, <1>4, EnqueueRange DEF SchedTypeOK
  <2>2. Range(ready_queue') = (Range(ready_queue) \ {next}) \cup {current_thread}
    BY <1>2, <1>4, <2>1
  <2>3. /\ current_thread' = next
        /\ state' = [state EXCEPT ![current_thread] = "READY", ![next] = "RUNNING"]
    BY <1>4 DEF swap_thread
  <2>4. Handover /\ current_thread' \in Threads /\ state' \in [Threads -> States]
    BY <1>2, <1>4, <2>1, <2>2, <2>3, SwitchHandover, Zenon
  <2> QED BY <1>0, <2>1, <2>4 DEF SchedTypeOK
<1> QED BY <1>1, <1>3, <1>4 DEF thread_yield

(* The directed switch, on a queue q that holds the queued threads.        *)
LEMMA SwitchToHandover ==
  ASSUME SchedTypeOK, CpuOK,
         NEW q \in Seq(Threads), IsInjective(q), Range(q) = Range(ready_queue),
         NEW prio \in [Threads -> Priorities],
         NEW target \in Range(ready_queue), SwitchTo(q, prio, target)
  PROVE  SchedTypeOK' /\ Handover
<1> DEFINE e == thread_scheduler_enqueue(q, current_thread, prio)
<1>1. /\ e \in Seq(Threads) /\ IsInjective(e)
      /\ Range(e) = Range(ready_queue) \cup {current_thread}
  BY EnqueueRange DEF SchedTypeOK
<1>2. ready_queue' = Unlinked(e, target) /\ priority' = prio
  BY DEF SwitchTo
<1> HIDE DEF e
<1>3. /\ ready_queue' \in Seq(Threads) /\ IsInjective(ready_queue')
      /\ target \notin Range(ready_queue')
      /\ Range(ready_queue') \subseteq Range(e) /\ Range(e) \subseteq Range(ready_queue') \cup {target}
  BY <1>1, <1>2, UnlinkedRange
<1>4. Range(ready_queue') = (Range(ready_queue) \ {target}) \cup {current_thread}
  BY <1>1, <1>3 DEF CpuOK
<1>5. /\ current_thread' = target
      /\ state' = [state EXCEPT ![current_thread] = "READY", ![target] = "RUNNING"]
  BY DEF SwitchTo, swap_thread
<1>6. Handover /\ current_thread' \in Threads /\ state' \in [Threads -> States]
  BY <1>3, <1>4, <1>5, SwitchHandover, Zenon
<1> QED BY <1>2, <1>3, <1>6 DEF SchedTypeOK

\* So does thread_yield_to, for a target that is queued when it is READY.
LEMMA YieldToHandover ==
  ASSUME SchedTypeOK, CpuOK, NEW target \in Threads,
         state[target] = "READY" => target \in Range(ready_queue),
         thread_yield_to(target)
  PROVE  SchedTypeOK' /\ Handover
<1>1. CASE thread_yield("user")
  BY <1>1, YieldHandover
<1>2. CASE state[target] = "READY" /\ SwitchTo(ready_queue, priority, target)
  BY <1>2, SwitchToHandover DEF SchedTypeOK, CpuOK
<1> QED BY <1>1, <1>2 DEF thread_yield_to

\* And thread_set_priority, which may yield to the thread it raised.
LEMMA SetPriorityHandover ==
  ASSUME SchedTypeOK, CpuOK, NEW t \in Threads, NEW p \in Int,
         state[t] = "READY" => t \in Range(ready_queue),
         thread_set_priority(t, p)
  PROVE  SchedTypeOK' /\ Handover
<1> DEFINE prio == [priority EXCEPT ![t] = Clamp(p)]
           u == Unlinked(ready_queue, t)
           moved == thread_scheduler_enqueue(u, t, prio)
<1>1. prio \in [Threads -> Priorities]
  BY ClampType DEF SchedTypeOK
<1>2. ASSUME state[t] = "READY"
      PROVE  moved \in Seq(Threads) /\ IsInjective(moved) /\ Range(moved) = Range(ready_queue)
  <2>1. /\ u \in Seq(Threads) /\ IsInjective(u)
        /\ Range(u) \subseteq Range(ready_queue) /\ Range(ready_queue) \subseteq Range(u) \cup {t}
    BY UnlinkedRange DEF SchedTypeOK, CpuOK
  <2> HIDE DEF u, prio
  <2>2. moved \in Seq(Threads) /\ IsInjective(moved) /\ Range(moved) = Range(u) \cup {t}
    BY <2>1, EnqueueRange
  <2> QED BY <1>2, <2>1, <2>2
<1>3. CASE priority' = prio /\ UNCHANGED <<current_thread, state, ready_queue>>
  BY <1>1, <1>3 DEF SchedTypeOK, Handover, CpuOK
<1>4. CASE /\ state[t] = "READY" /\ priority' = prio /\ ready_queue' = moved
           /\ UNCHANGED <<current_thread, state>>
  <2> HIDE DEF prio, moved
  <2> QED BY <1>1, <1>2, <1>4 DEF SchedTypeOK, Handover, CpuOK
<1>5. CASE state[t] = "READY" /\ SwitchTo(moved, prio, t)
  <2> HIDE DEF prio, moved
  <2> QED BY <1>1, <1>2, <1>5, SwitchToHandover
<1> QED BY <1>3, <1>4, <1>5 DEF thread_set_priority

-----------------------------------------------------------------------------
(***************************************************************************)
(* The scheduling calls keep the queue sorted.                             *)
(***************************************************************************)
\* What is left of a sorted queue is sorted.
LEMMA TailSorted ==
  ASSUME NEW q \in Seq(Threads), q # <<>>, NEW prio, Sorted(q, prio)
  PROVE  Sorted(Tail(q), prio)
<1> DEFINE r == Tail(q)
<1>1. Len(q) \in Nat /\ Len(r) = Len(q) - 1 /\ \A i \in 1..Len(r) : r[i] = q[i + 1]
  BY HeadTailProperties
<1> HIDE DEF r
<1>2. ASSUME NEW i \in 1..Len(r), NEW j \in 1..Len(r), i < j
      PROVE  prio[r[i]] >= prio[r[j]]
  <2>1. /\ i + 1 \in 1..Len(q) /\ j + 1 \in 1..Len(q) /\ i + 1 < j + 1
        /\ r[i] = q[i + 1] /\ r[j] = q[j + 1]
    BY <1>1, <1>2
  <2> QED BY <2>1, Zenon DEF Sorted
<1>3. Sorted(r, prio)
  BY <1>2 DEF Sorted
<1> QED BY <1>3 DEF r

LEMMA UnlinkedSorted ==
  ASSUME NEW q \in Seq(Threads), NEW t, NEW prio, Sorted(q, prio)
  PROVE  Sorted(Unlinked(q, t), prio)
<1>1. CASE t \notin Range(q)
  BY <1>1, UnlinkedAbsent
<1>2. CASE t \in Range(q)
  <2>1. PICK k \in 1..Len(q) : Unlinked(q, t) = RemovedAt(q, k)
    BY <1>2, UnlinkedIsRemovedAt
  <2> DEFINE r == RemovedAt(q, k)
             At(i) == IF i < k THEN i ELSE i + 1
  <2>2. Len(r) = Len(q) - 1 /\ \A i \in 1..Len(q) - 1 : r[i] = IF i < k THEN q[i] ELSE q[i + 1]
    BY RemovedAtShape
  <2>3. Len(q) \in Nat
    BY LenProperties
  <2> HIDE DEF r
  <2>4. ASSUME NEW i \in 1..Len(r), NEW j \in 1..Len(r), i < j
        PROVE  prio[r[i]] >= prio[r[j]]
    <3>1. /\ At(i) \in 1..Len(q) /\ At(j) \in 1..Len(q) /\ At(i) < At(j)
          /\ r[i] = q[At(i)] /\ r[j] = q[At(j)]
      BY <2>2, <2>3, <2>4
    <3> HIDE DEF At
    <3> QED BY <3>1, Zenon DEF Sorted
  <2>5. Sorted(r, prio)
    BY <2>4 DEF Sorted
  <2> QED BY <2>1, <2>5 DEF r
<1> QED BY <1>1, <1>2

\* The order depends on the priorities of the queued threads only.
LEMMA SortedSame ==
  ASSUME NEW q \in Seq(Threads), NEW prio, NEW other, Sorted(q, prio),
         \A t \in Range(q) : other[t] = prio[t]
  PROVE  Sorted(q, other)
<1>1. \A i \in 1..Len(q) : q[i] \in Range(q)
  BY LenProperties DEF Range
<1> QED BY <1>1 DEF Sorted

\* Aging adds the same to all queued threads and caps it: no two of them
\* change places.
LEMMA AgedSorted ==
  ASSUME SchedTypeOK, PRIO, Sorted(ready_queue, priority)
  PROVE  Sorted(ready_queue, Aged)
<1>1. \A t \in Range(ready_queue) : t \in Threads /\ priority[t] \in Int
  BY RangeOfSeq DEF SchedTypeOK, Priorities
<1>2. ASSUME NEW i \in 1..Len(ready_queue), NEW j \in 1..Len(ready_queue), i < j
      PROVE  Aged[ready_queue[i]] >= Aged[ready_queue[j]]
  <2>1. ready_queue[i] \in Range(ready_queue) /\ ready_queue[j] \in Range(ready_queue)
    BY LenProperties DEF SchedTypeOK, Range
  <2>2. priority[ready_queue[i]] >= priority[ready_queue[j]]
    BY <1>2 DEF Sorted
  <2>3. /\ Aged[ready_queue[i]] = Clamp(priority[ready_queue[i]] + THREAD_WAIT)
        /\ Aged[ready_queue[j]] = Clamp(priority[ready_queue[j]] + THREAD_WAIT)
    BY <1>1, <2>1, Zenon DEF Aged
  <2>4. priority[ready_queue[i]] \in Int /\ priority[ready_queue[j]] \in Int
    BY <1>1, <2>1, Zenon
  <2> QED BY <2>2, <2>3, <2>4, SchedulerAssumption DEF Clamp
<1> QED BY <1>2 DEF Sorted

LEMMA PrioritiesInt ==
  ASSUME NEW prio \in [Threads -> Priorities]
  PROVE  prio \in [Threads -> Int]
BY SchedulerAssumption DEF Priorities

\* thread_yield: the head or the caller is enqueued behind the rest.
LEMMA YieldSorted ==
  ASSUME SchedTypeOK, QueueSorted, NEW resume, thread_yield(resume)
  PROVE  QueueSorted'
<1> SUFFICES ASSUME PRIO PROVE Sorted(ready_queue', priority')
  BY DEF QueueSorted
<1>1. priority' = Aged /\ Aged \in [Threads -> Int] /\ Sorted(ready_queue, Aged)
  BY AgedType, AgedSorted, PrioritiesInt DEF thread_yield, QueueSorted
<1>2. CASE ready_queue = <<>> /\ ready_queue' = ready_queue
  BY <1>1, <1>2
<1>3. ASSUME ready_queue # <<>>, NEW t \in Threads,
             ready_queue' = thread_scheduler_enqueue(Tail(ready_queue), t, Aged)
      PROVE  Sorted(ready_queue', priority')
  <2>1. Tail(ready_queue) \in Seq(Threads) /\ Sorted(Tail(ready_queue), Aged)
    BY <1>1, <1>3, TailSorted DEF SchedTypeOK
  <2> QED BY <1>1, <1>3, <2>1, EnqueueSorted, Zenon
<1>4. ready_queue # <<>> => Head(ready_queue) \in Threads
  BY DEF SchedTypeOK
<1> QED BY <1>2, <1>3, <1>4, Zenon DEF thread_yield, SchedTypeOK

LEMMA SwitchToSorted ==
  ASSUME SchedTypeOK, NEW q \in Seq(Threads), NEW prio \in [Threads -> Priorities],
         PRIO, Sorted(q, prio), NEW target, SwitchTo(q, prio, target)
  PROVE  Sorted(ready_queue', priority')
<1> DEFINE e == thread_scheduler_enqueue(q, current_thread, prio)
<1>1. ready_queue' = Unlinked(e, target) /\ priority' = prio
  BY DEF SwitchTo
<1>2. e \in Seq(Threads) /\ Sorted(e, prio)
  BY EnqueueRange, EnqueueSorted, PrioritiesInt, Zenon DEF SchedTypeOK
<1> HIDE DEF e
<1> QED BY <1>1, <1>2, UnlinkedSorted

\* thread_yield_to.
LEMMA YieldToSorted ==
  ASSUME SchedTypeOK, QueueSorted, NEW target, thread_yield_to(target)
  PROVE  QueueSorted'
<1>1. CASE thread_yield("user")
  BY <1>1, YieldSorted
<1>2. CASE SwitchTo(ready_queue, priority, target)
  BY <1>2, SwitchToSorted DEF QueueSorted, SchedTypeOK
<1> QED BY <1>1, <1>2 DEF thread_yield_to

\* thread_set_priority: a queued thread is taken out and inserted again.
LEMMA SetPrioritySorted ==
  ASSUME SchedTypeOK, CpuOK, QueueSorted, NEW t \in Threads, NEW p \in Int,
         thread_set_priority(t, p)
  PROVE  QueueSorted'
<1> SUFFICES ASSUME PRIO PROVE Sorted(ready_queue', priority')
  BY DEF QueueSorted
<1> DEFINE prio == [priority EXCEPT ![t] = Clamp(p)]
           u == Unlinked(ready_queue, t)
           moved == thread_scheduler_enqueue(u, t, prio)
<1>1. /\ prio \in [Threads -> Priorities] /\ \A s \in Threads \ {t} : prio[s] = priority[s]
      /\ ready_queue \in Seq(Threads) /\ Range(ready_queue) \subseteq Threads
      /\ Sorted(ready_queue, priority)
  BY ClampType, RangeOfSeq DEF SchedTypeOK, QueueSorted
<1>2. /\ u \in Seq(Threads) /\ Sorted(u, priority)
      /\ Range(u) \subseteq Range(ready_queue) /\ t \notin Range(u)
  BY <1>1, UnlinkedRange, UnlinkedSorted DEF CpuOK
<1> HIDE DEF prio, u
<1>3. Sorted(u, prio)
  BY <1>1, <1>2, SortedSame
<1>4. moved \in Seq(Threads) /\ Sorted(moved, prio)
  BY <1>1, <1>2, <1>3, EnqueueRange, EnqueueSorted, PrioritiesInt
<1> HIDE DEF moved
<1>5. CASE state[t] # "READY" /\ priority' = prio /\ ready_queue' = ready_queue
  <2>1. t \notin Range(ready_queue)
    BY <1>5 DEF CpuOK
  <2>2. \A s \in Range(ready_queue) : prio[s] = priority[s]
    BY <1>1, <2>1
  <2> QED BY <1>1, <1>5, <2>2, SortedSame
<1>6. CASE priority' = prio /\ ready_queue' = moved
  BY <1>4, <1>6
<1>7. CASE SwitchTo(moved, prio, t)
  BY <1>1, <1>4, <1>7, SwitchToSorted
<1> QED BY <1>5, <1>6, <1>7 DEF thread_set_priority, prio, u, moved

\* The threads lined up in any order.
LEMMA OrdersType ==
  ASSUME NEW S, Cardinality(S) \in Nat, NEW q \in Orders(S)
  PROVE  q \in Seq(S) /\ IsInjective(q) /\ Range(q) = S
<1>1. /\ q \in [1..Cardinality(S) -> S] /\ IsInjective(q)
      /\ \A s \in S : \E i \in 1..Cardinality(S) : q[i] = s
  BY DEF Orders, Bijection, Injection, Surjection
<1>2. q \in Seq(S)
  BY <1>1
<1> QED BY <1>1, <1>2 DEF Range

-----------------------------------------------------------------------------
(***************************************************************************)
(* thread_cond_broadcast enqueues the waiters one after the other.         *)
(***************************************************************************)
\* The queues along the way, up to the n-th waiter.
Stages(q, ts, prio, n) ==
  {g \in [0..n -> Seq(Threads)] :
     g[0] = q /\ \A i \in 1..n : g[i] = thread_scheduler_enqueue(g[i - 1], ts[i], prio)}

LEMMA StagesExist ==
  ASSUME NEW q \in Seq(Threads), NEW ts \in Seq(Threads), NEW prio
  PROVE  Stages(q, ts, prio, Len(ts)) # {}
<1> DEFINE S == {n \in 0..Len(ts) : Stages(q, ts, prio, n) # {}}
<1>1. Len(ts) \in Nat /\ \A i \in 1..Len(ts) : ts[i] \in Threads
  BY LenProperties, Zenon
<1>2. 0 \in S
  <2> DEFINE g == [i \in 0..0 |-> q]
  <2>1. g \in [0..0 -> Seq(Threads)] /\ g[0] = q /\ \A i \in 1..0 : FALSE
    OBVIOUS
  <2>2. g \in Stages(q, ts, prio, 0)
    BY <2>1, Zenon DEF Stages
  <2> QED BY <1>1, <2>2
<1>3. ASSUME NEW n \in 0..Len(ts), n # Len(ts), n \in S PROVE n + 1 \in S
  <2>1. PICK g \in [0..n -> Seq(Threads)] :
          g[0] = q /\ \A i \in 1..n : g[i] = thread_scheduler_enqueue(g[i - 1], ts[i], prio)
    BY <1>3, Zenon DEF Stages
  <2> DEFINE last == thread_scheduler_enqueue(g[n], ts[n + 1], prio)
             h == [i \in 0..n + 1 |-> IF i = n + 1 THEN last ELSE g[i]]
  <2>2. n + 1 \in 1..Len(ts) /\ n \in 0..n /\ n + 1 \in 0..Len(ts)
    BY <1>1, <1>3
  <2>3. last \in Seq(Threads)
    BY <1>1, <2>1, <2>2, EnqueueRange
  <2> HIDE DEF last
  <2>4. h \in [0..n + 1 -> Seq(Threads)] /\ h[0] = q
    BY <1>1, <2>1, <2>3
  <2>5. ASSUME NEW i \in 1..n + 1
        PROVE  h[i] = thread_scheduler_enqueue(h[i - 1], ts[i], prio)
    <3>1. CASE i = n + 1
      <4>1. i \in 0..n + 1 /\ i - 1 \in 0..n + 1 /\ i - 1 # n + 1 /\ i - 1 = n
        BY <3>1
      <4>2. h[i] = last /\ h[i - 1] = g[n]
        BY <3>1, <4>1, Zenon
      <4> QED BY <3>1, <4>2, Zenon DEF last
    <3>2. CASE i # n + 1
      <4>1. i \in 1..n /\ i \in 0..n + 1 /\ i - 1 \in 0..n + 1 /\ i - 1 # n + 1
        BY <3>2
      <4>2. h[i] = g[i] /\ h[i - 1] = g[i - 1]
        BY <3>2, <4>1, Zenon
      <4> QED BY <2>1, <4>1, <4>2, Zenon
    <3> QED BY <3>1, <3>2, Zenon
  <2> HIDE DEF h
  <2>6. h \in Stages(q, ts, prio, n + 1)
    BY <2>4, <2>5, Zenon DEF Stages
  <2> QED BY <2>2, <2>6, Zenon
<1> HIDE DEF S
<1>4. \A n \in 0..Len(ts) : n \in S
  BY <1>1, <1>2, <1>3, UpTo, Zenon
<1> QED BY <1>1, <1>4 DEF S

\* EnqueueAll is the last one.
LEMMA EnqueueAllIsLast ==
  ASSUME NEW q \in Seq(Threads), NEW ts \in Seq(Threads), NEW prio
  PROVE  \E h : /\ h[0] = q
                /\ \A i \in 1..Len(ts) : h[i] = thread_scheduler_enqueue(h[i - 1], ts[i], prio)
                /\ EnqueueAll(q, ts, prio) = h[Len(ts)]
<1> DEFINE N == Len(ts)
           IsIt(f) == f = [i \in 0..N |-> IF i = 0 THEN q
                                          ELSE thread_scheduler_enqueue(f[i - 1], ts[i], prio)]
<1>1. N \in Nat
  BY LenProperties
<1>0. PICK g \in Stages(q, ts, prio, N) : TRUE
  BY StagesExist, Zenon
<1>2. /\ g \in [0..N -> Seq(Threads)] /\ g[0] = q
      /\ \A i \in 1..N : g[i] = thread_scheduler_enqueue(g[i - 1], ts[i], prio)
  BY <1>0, Zenon DEF Stages
<1>3. IsIt(g)
  <2>1. \A i \in 0..N : i = 0 \/ i \in 1..N
    BY <1>1
  <2>2. \A i \in 0..N : g[i] = IF i = 0 THEN q ELSE thread_scheduler_enqueue(g[i - 1], ts[i], prio)
    BY <1>2, <2>1, Zenon
  <2>3. g = [i \in 0..N |-> g[i]]
    BY <1>2, Zenon
  <2> QED BY <2>2, <2>3, Zenon
<1> DEFINE h == CHOOSE f : IsIt(f)
<1>4. IsIt(h)
  BY <1>3, Zenon
<1>5. EnqueueAll(q, ts, prio) = h[N]
  BY Zenon DEF EnqueueAll
<1> HIDE DEF h
<1>6. 0 \in 0..N /\ \A i \in 1..N : i \in 0..N /\ i # 0
  BY <1>1
<1>7. \A i \in 0..N : h[i] = IF i = 0 THEN q ELSE thread_scheduler_enqueue(h[i - 1], ts[i], prio)
  BY <1>4, Zenon
<1>8. h[0] = q /\ \A i \in 1..N : h[i] = thread_scheduler_enqueue(h[i - 1], ts[i], prio)
  BY <1>6, <1>7, Zenon
<1> QED BY <1>5, <1>8, Zenon

\* It adds all of the waiters, and repeats no thread.
LEMMA EnqueueAllRange ==
  ASSUME NEW q \in Seq(Threads), NEW ts \in Seq(Threads), NEW prio, IsInjective(q)
  PROVE  /\ EnqueueAll(q, ts, prio) \in Seq(Threads)
         /\ IsInjective(EnqueueAll(q, ts, prio))
         /\ Range(EnqueueAll(q, ts, prio)) = Range(q) \cup Range(ts)
<1>1. Len(ts) \in Nat /\ DOMAIN ts = 1..Len(ts) /\ \A i \in 1..Len(ts) : ts[i] \in Threads
  BY LenProperties, Zenon
<1>2. PICK h : /\ h[0] = q
               /\ \A i \in 1..Len(ts) : h[i] = thread_scheduler_enqueue(h[i - 1], ts[i], prio)
               /\ EnqueueAll(q, ts, prio) = h[Len(ts)]
  BY EnqueueAllIsLast
<1> DEFINE First(n) == {ts[j] : j \in 1..n}
           Good(n) == /\ h[n] \in Seq(Threads) /\ IsInjective(h[n])
                      /\ Range(h[n]) = Range(q) \cup First(n)
           S == {n \in 0..Len(ts) : Good(n)}
<1>3. 0 \in S
  <2>1. First(0) = {}
    OBVIOUS
  <2> HIDE DEF First
  <2>2. 0 \in 0..Len(ts)
    BY <1>1
  <2>3. Good(0)
    BY <1>2, <2>1, Zenon
  <2> QED BY <2>2, <2>3, Zenon
<1>4. ASSUME NEW n \in 0..Len(ts), n # Len(ts), n \in S PROVE n + 1 \in S
  <2>0. n # Len(ts) /\ Len(ts) \in Nat
    BY <1>1, <1>4, Zenon
  <2>1. n + 1 \in 1..Len(ts) /\ (n + 1) - 1 = n /\ n + 1 \in 0..Len(ts)
    BY <2>0
  <2>2. h[n + 1] = thread_scheduler_enqueue(h[n], ts[n + 1], prio)
    BY <1>2, <2>1, Zenon
  <2>3. First(n + 1) = First(n) \cup {ts[n + 1]}
    <3>1. \A j \in 1..n + 1 : j \in 1..n \/ j = n + 1
      BY <2>1
    <3>2. n + 1 \in 1..n + 1 /\ \A j \in 1..n : j \in 1..n + 1
      BY <2>1
    <3> QED BY <3>1, <3>2, Zenon
  <2>4. Good(n)
    BY <1>4, Zenon
  <2> HIDE DEF First
  <2>5. Good(n + 1)
    <3>1. h[n] \in Seq(Threads) /\ IsInjective(h[n]) /\ Range(h[n]) = Range(q) \cup First(n)
      BY <2>4, Zenon
    <3>2. ts[n + 1] \in Threads
      BY <1>1, <2>1, Zenon
    <3>3. /\ h[n + 1] \in Seq(Threads) /\ IsInjective(h[n + 1])
          /\ Range(h[n + 1]) = Range(h[n]) \cup {ts[n + 1]}
      <4> DEFINE a == h[n]
                 b == ts[n + 1]
      <4>1. a \in Seq(Threads) /\ b \in Threads /\ IsInjective(a)
        BY <3>1, <3>2, Zenon
      <4> HIDE DEF a, b
      <4>2. /\ thread_scheduler_enqueue(a, b, prio) \in Seq(Threads)
            /\ IsInjective(thread_scheduler_enqueue(a, b, prio))
            /\ Range(thread_scheduler_enqueue(a, b, prio)) = Range(a) \cup {b}
        BY <4>1, EnqueueRange, Zenon
      <4> QED BY <2>2, <4>2, Zenon DEF a, b
    <3> QED BY <2>3, <3>1, <3>3, Zenon
  <2> QED BY <2>1, <2>5, Zenon
<1> HIDE DEF S
<1>5. \A n \in 0..Len(ts) : n \in S
  BY <1>1, <1>3, <1>4, UpTo, Zenon
<1>6. Len(ts) \in S
  BY <1>1, <1>5
<1>7. First(Len(ts)) = Range(ts)
  BY <1>1 DEF Range
<1> HIDE DEF First
<1>8. Good(Len(ts))
  BY <1>6, Zenon DEF S
<1> QED BY <1>2, <1>7, <1>8, Zenon
=============================================================================
