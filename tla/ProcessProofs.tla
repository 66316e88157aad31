---------------------------- MODULE ProcessProofs ----------------------------
(***************************************************************************)
(* Proofs about the process table and the ready queue of module Process,   *)
(* for every size of the table, width of the priorities and set of program *)
(* priorities, as long as "kill 9" is not used (it leaves killed processes *)
(* in the ready queue; module Process has the run that shows this).        *)
(***************************************************************************)
EXTENDS Process, FiniteSetTheorems, SequenceTheorems, TLAPS

\* Rotating a queue keeps its length and its entries, and moves entry k + 1 to the front.
LEMMA RotateByFacts ==
  ASSUME NEW S, NEW q \in Seq(S), NEW k \in DOMAIN q
  PROVE  /\ RotateBy(q, k) \in Seq(S)
         /\ Len(RotateBy(q, k)) = Len(q)
         /\ \A i \in 1..Len(q) :
              RotateBy(q, k)[i] = IF i <= Len(q) - k THEN q[k + i] ELSE q[i - (Len(q) - k)]
<1>a. PICK a : a = SubSeq(q, k + 1, Len(q)) OBVIOUS
<1>b. PICK b : b = SubSeq(q, 1, k) OBVIOUS
<1>0. /\ k \in 1..Len(q) /\ Len(q) \in Nat
      /\ \A i \in 1..Len(q) : q[i] \in S
  BY LenProperties, ElementOfSeq
<1>1. /\ a \in Seq(S)
      /\ Len(a) = Len(q) - k
      /\ \A i \in 1..(Len(q) - k) : a[i] = q[k + i]
  <2>1. \A i \in (k + 1)..Len(q) : q[i] \in S
    BY <1>0
  <2>2. /\ a \in Seq(S)
        /\ Len(a) = IF k + 1 <= Len(q) THEN Len(q) - (k + 1) + 1 ELSE 0
        /\ \A i \in 1..(Len(q) - (k + 1) + 1) : a[i] = q[(k + 1) + i - 1]
    BY <1>0, <1>a, <1>b, <2>1, SubSeqProperties
  <2>3. Len(q) - (k + 1) + 1 = Len(q) - k
    BY <1>0
  <2>4. \A i \in 1..(Len(q) - k) : (k + 1) + i - 1 = k + i
    BY <1>0
  <2> QED BY <1>0, <2>2, <2>3, <2>4
<1>2. /\ b \in Seq(S)
      /\ Len(b) = k
      /\ \A i \in 1..k : b[i] = q[i]
  <2>1. \A i \in 1..k : q[i] \in S
    BY <1>0
  <2>2. /\ b \in Seq(S)
        /\ Len(b) = IF 1 <= k THEN k - 1 + 1 ELSE 0
        /\ \A i \in 1..(k - 1 + 1) : b[i] = q[1 + i - 1]
    BY <1>0, <1>a, <1>b, <2>1, SubSeqProperties
  <2> QED BY <1>0, <2>2
<1>3. /\ a \o b \in Seq(S)
      /\ Len(a \o b) = Len(a) + Len(b)
      /\ \A i \in 1..(Len(a) + Len(b)) :
           (a \o b)[i] = IF i <= Len(a) THEN a[i] ELSE b[i - Len(a)]
  BY <1>1, <1>2, ConcatProperties
<1>4. RotateBy(q, k) = a \o b
  BY <1>a, <1>b DEF RotateBy
<1>5. Len(a) + Len(b) = Len(q)
  <2>1. k \in Int /\ Len(q) \in Int
    BY <1>0
  <2>2. Len(a) = Len(q) - k /\ Len(b) = k
    BY <1>1, <1>2
  <2>3. (Len(q) - k) + k = Len(q)
    BY <2>1
  <2> QED BY <2>2, <2>3
<1>6. ASSUME NEW i \in 1..Len(q)
      PROVE  (a \o b)[i] = IF i <= Len(q) - k THEN q[k + i] ELSE q[i - (Len(q) - k)]
  <2>1. (a \o b)[i] = IF i <= Len(q) - k THEN a[i] ELSE b[i - (Len(q) - k)]
    BY <1>1, <1>3, <1>5
  <2>2. CASE i <= Len(q) - k
    BY <1>0, <1>1, <2>1, <2>2
  <2>3. CASE ~(i <= Len(q) - k)
    <3>1. i - (Len(q) - k) \in 1..k
      BY <1>0, <2>3
    <3> QED BY <1>2, <2>1, <2>3, <3>1
  <2> QED BY <2>2, <2>3
<1> QED BY <1>3, <1>4, <1>5, <1>6

\* Removing position j from a queue shortens it by one and keeps the others in order.
LEMMA RemoveAtFacts ==
  ASSUME NEW S, NEW q \in Seq(S), NEW j \in DOMAIN q
  PROVE  /\ RemoveAt(q, j) \in Seq(S)
         /\ Len(RemoveAt(q, j)) = Len(q) - 1
         /\ \A i \in 1..(Len(q) - 1) :
              RemoveAt(q, j)[i] = IF i < j THEN q[i] ELSE q[i + 1]
<1>a. PICK a : a = SubSeq(q, 1, j - 1) OBVIOUS
<1>b. PICK b : b = SubSeq(q, j + 1, Len(q)) OBVIOUS
<1>0. /\ j \in 1..Len(q) /\ Len(q) \in Nat
      /\ \A i \in 1..Len(q) : q[i] \in S
  BY LenProperties, ElementOfSeq
<1>1. /\ a \in Seq(S)
      /\ Len(a) = j - 1
      /\ \A i \in 1..(j - 1) : a[i] = q[i]
  <2>1. \A i \in 1..(j - 1) : q[i] \in S
    BY <1>0
  <2>2. /\ a \in Seq(S)
        /\ Len(a) = IF 1 <= j - 1 THEN (j - 1) - 1 + 1 ELSE 0
        /\ \A i \in 1..((j - 1) - 1 + 1) : a[i] = q[1 + i - 1]
    BY <1>0, <1>a, <1>b, <2>1, SubSeqProperties
  <2> QED BY <1>0, <2>2
<1>2. /\ b \in Seq(S)
      /\ Len(b) = Len(q) - j
      /\ \A i \in 1..(Len(q) - j) : b[i] = q[j + i]
  <2>1. \A i \in (j + 1)..Len(q) : q[i] \in S
    BY <1>0
  <2>2. /\ b \in Seq(S)
        /\ Len(b) = IF j + 1 <= Len(q) THEN Len(q) - (j + 1) + 1 ELSE 0
        /\ \A i \in 1..(Len(q) - (j + 1) + 1) : b[i] = q[(j + 1) + i - 1]
    BY <1>0, <1>a, <1>b, <2>1, SubSeqProperties
  <2>3. Len(q) - (j + 1) + 1 = Len(q) - j
    BY <1>0
  <2>4. \A i \in 1..(Len(q) - j) : (j + 1) + i - 1 = j + i
    BY <1>0
  <2> QED BY <1>0, <2>2, <2>3, <2>4
<1>3. /\ a \o b \in Seq(S)
      /\ Len(a \o b) = Len(a) + Len(b)
      /\ \A i \in 1..(Len(a) + Len(b)) :
           (a \o b)[i] = IF i <= Len(a) THEN a[i] ELSE b[i - Len(a)]
  BY <1>1, <1>2, ConcatProperties
<1>4. RemoveAt(q, j) = a \o b
  BY <1>a, <1>b DEF RemoveAt
<1>5. Len(a) + Len(b) = Len(q) - 1
  <2>1. j \in Int /\ Len(q) \in Int
    BY <1>0
  <2>2. Len(a) = j - 1 /\ Len(b) = Len(q) - j
    BY <1>1, <1>2
  <2> QED BY <2>1, <2>2
<1>6. ASSUME NEW i \in 1..(Len(q) - 1)
      PROVE  (a \o b)[i] = IF i < j THEN q[i] ELSE q[i + 1]
  <2>1. (a \o b)[i] = IF i <= j - 1 THEN a[i] ELSE b[i - (j - 1)]
    BY <1>1, <1>3, <1>5
  <2>2. CASE i < j
    BY <1>0, <1>1, <2>1, <2>2
  <2>3. CASE ~(i < j)
    <3>1. /\ i - (j - 1) \in 1..(Len(q) - j)
          /\ j + (i - (j - 1)) = i + 1
          /\ ~(i <= j - 1)
      BY <1>0, <2>3
    <3> QED BY <1>2, <2>1, <2>3, <3>1
  <2> QED BY <2>2, <2>3
<1> QED BY <1>3, <1>4, <1>5, <1>6

-----------------------------------------------------------------------------
(* Queues that hold each process of a set T once. *)

QueueOf(q, T) ==
  /\ q \in Seq(Pids)
  /\ Len(q) <= PROCESS_LIMIT
  /\ IsInjective(q)
  /\ ToSet(q) = T

\* The scheduler's rotation permutes the queue.
LEMMA RotateQueue ==
  ASSUME NEW T, NEW q, QueueOf(q, T), NEW k \in DOMAIN q
  PROVE  /\ QueueOf(RotateBy(q, k), T)
         /\ RotateBy(q, k) # <<>>
         /\ RotateBy(q, k)[1] \in T
<1> DEFINE r == RotateBy(q, k)
<1>0. q \in Seq(Pids) /\ Len(q) \in Nat /\ DOMAIN q = 1..Len(q) /\ k \in 1..Len(q)
  BY LenProperties DEF QueueOf
<1>1. /\ r \in Seq(Pids)
      /\ Len(r) = Len(q)
      /\ \A i \in 1..Len(q) :
           r[i] = IF i <= Len(q) - k THEN q[k + i] ELSE q[i - (Len(q) - k)]
  BY <1>0, RotateByFacts
<1>2. DOMAIN r = 1..Len(q)
  BY <1>1, LenProperties
<1> HIDE DEF r
<1>3. IsInjective(r)
  <2> SUFFICES ASSUME NEW a \in 1..Len(q), NEW b \in 1..Len(q), r[a] = r[b]
               PROVE  a = b
    BY <1>2 DEF IsInjective
  <2> DEFINE pos(i) == IF i <= Len(q) - k THEN k + i ELSE i - (Len(q) - k)
  <2>1. pos(a) \in 1..Len(q) /\ pos(b) \in 1..Len(q)
    BY <1>0
  <2>2. r[a] = q[pos(a)] /\ r[b] = q[pos(b)]
    BY <1>1
  <2>3. pos(a) = pos(b)
    BY <1>0, <2>1, <2>2 DEF QueueOf, IsInjective
  <2> QED BY <1>0, <2>3
<1>4. ToSet(r) = ToSet(q)
  <2>1. ASSUME NEW i \in 1..Len(q) PROVE r[i] \in ToSet(q)
    <3>1. CASE i <= Len(q) - k
      <4>1. k + i \in 1..Len(q)
        BY <1>0, <3>1
      <4>2. r[i] = q[k + i]
        BY <1>1, <3>1
      <4> QED BY <1>0, <4>1, <4>2 DEF ToSet
    <3>2. CASE ~(i <= Len(q) - k)
      <4>1. i - (Len(q) - k) \in 1..Len(q)
        BY <1>0, <3>2
      <4>2. r[i] = q[i - (Len(q) - k)]
        BY <1>1, <3>2
      <4> QED BY <1>0, <4>1, <4>2 DEF ToSet
    <3> QED BY <3>1, <3>2
  <2>2. ASSUME NEW i \in 1..Len(q) PROVE q[i] \in ToSet(r)
    <3>1. CASE i <= k
      <4>1. (Len(q) - k) + i \in 1..Len(q) /\ ((Len(q) - k) + i) - (Len(q) - k) = i
        BY <1>0, <3>1
      <4>2. ~((Len(q) - k) + i <= Len(q) - k)
        BY <1>0, <3>1
      <4>3. r[(Len(q) - k) + i] = q[i]
        BY <1>1, <4>1, <4>2
      <4> QED BY <1>2, <4>1, <4>3 DEF ToSet
    <3>2. CASE ~(i <= k)
      <4>1. i - k \in 1..Len(q) /\ i - k <= Len(q) - k /\ k + (i - k) = i
        BY <1>0, <3>2
      <4>2. r[i - k] = q[i]
        BY <1>1, <4>1
      <4> QED BY <1>2, <4>1, <4>2 DEF ToSet
    <3> QED BY <3>1, <3>2
  <2>3. ToSet(r) \subseteq ToSet(q)
    BY <1>2, <2>1 DEF ToSet
  <2>4. ToSet(q) \subseteq ToSet(r)
    BY <1>0, <2>2 DEF ToSet
  <2> QED BY <2>3, <2>4
<1>5. r # <<>>
  BY <1>0, <1>1, EmptySeq
<1>6. r[1] \in T
  <2>1. r[1] \in ToSet(r)
    BY <1>0, <1>2 DEF ToSet
  <2> QED BY <2>1, <1>4 DEF QueueOf
<1>7. QueueOf(r, T)
  BY <1>1, <1>3, <1>4 DEF QueueOf
<1> QED BY <1>5, <1>6, <1>7 DEF r

\* rq_rm takes exactly the process out of the queue and keeps the head if that is another.
LEMMA RemoveQueue ==
  ASSUME NEW T, NEW q, QueueOf(q, T), NEW p \in Pids
  PROVE  /\ QueueOf(RqRm(q, p), T \ {p})
         /\ (q # <<>> /\ q[1] # p) => RqRm(q, p) # <<>> /\ RqRm(q, p)[1] = q[1]
<1>0. q \in Seq(Pids) /\ Len(q) \in Nat /\ DOMAIN q = 1..Len(q)
  BY LenProperties DEF QueueOf
<1>1. CASE \E j \in DOMAIN q : q[j] = p
  <2>1. PICK j \in DOMAIN q : q[j] = p
    BY <1>1
  <2>2. RmPositions(q, p) = {j}
    <3>1. \A i \in DOMAIN q : q[i] = p => i = j
      BY <2>1 DEF QueueOf, IsInjective
    <3>2. j \in RmPositions(q, p)
      <4>1. j - 1 \in 0..(j - 1) /\ (j - (j - 1)) % 2 = 1 /\ (j - 1) + 1 = j
        BY <1>0
      <4>2. j - 1 > 0 => q[j - 1] # p
        BY <1>0, <3>1
      <4>3. \A x \in ((j - 1) + 1)..j : q[x] = p
        BY <1>0, <2>1
      <4> QED BY <2>1, <4>1, <4>2, <4>3 DEF RmPositions
    <3>3. \A i \in RmPositions(q, p) : i = j
      BY <3>1 DEF RmPositions
    <3> QED BY <3>2, <3>3
  <2>3. RqRm(q, p) = RemoveAt(q, j)
    BY <2>2 DEF RqRm
  <2>4. PICK r : r = RemoveAt(q, j) OBVIOUS
  <2>5. /\ r \in Seq(Pids)
        /\ Len(r) = Len(q) - 1
        /\ \A i \in 1..(Len(q) - 1) : r[i] = IF i < j THEN q[i] ELSE q[i + 1]
    BY <1>0, <2>4, RemoveAtFacts
  <2>6. DOMAIN r = 1..(Len(q) - 1)
    BY <2>5, LenProperties
  <2>7. IsInjective(r)
    <3> SUFFICES ASSUME NEW a \in 1..(Len(q) - 1), NEW b \in 1..(Len(q) - 1), r[a] = r[b]
                 PROVE  a = b
      BY <2>6 DEF IsInjective
    <3> DEFINE pos(i) == IF i < j THEN i ELSE i + 1
    <3>1. pos(a) \in 1..Len(q) /\ pos(b) \in 1..Len(q)
      BY <1>0
    <3>2. r[a] = q[pos(a)] /\ r[b] = q[pos(b)]
      BY <2>5
    <3>3. pos(a) = pos(b)
      BY <1>0, <3>1, <3>2 DEF QueueOf, IsInjective
    <3> QED BY <1>0, <3>3
  <2>8. ToSet(r) = ToSet(q) \ {p}
    <3>1. ASSUME NEW i \in 1..(Len(q) - 1) PROVE r[i] \in ToSet(q) \ {p}
      <4>1. CASE i < j
        BY <1>0, <2>1, <2>5, <4>1 DEF ToSet, QueueOf, IsInjective
      <4>2. CASE ~(i < j)
        BY <1>0, <2>1, <2>5, <4>2 DEF ToSet, QueueOf, IsInjective
      <4> QED BY <4>1, <4>2
    <3>2. ASSUME NEW i \in 1..Len(q), q[i] # p PROVE q[i] \in ToSet(r)
      <4>1. CASE i < j
        <5>1. i \in 1..(Len(q) - 1) /\ r[i] = q[i]
          BY <1>0, <2>5, <4>1
        <5> QED BY <2>6, <5>1 DEF ToSet
      <4>2. CASE i > j
        <5>1. i - 1 \in 1..(Len(q) - 1) /\ ~(i - 1 < j) /\ (i - 1) + 1 = i
          BY <1>0, <4>2
        <5>2. r[i - 1] = q[i]
          BY <2>5, <5>1
        <5> QED BY <2>6, <5>1, <5>2 DEF ToSet
      <4>3. i # j
        BY <2>1, <3>2
      <4> QED BY <1>0, <4>1, <4>2, <4>3
    <3>3. ToSet(r) \subseteq ToSet(q) \ {p}
      BY <2>6, <3>1 DEF ToSet
    <3>4. ToSet(q) \ {p} \subseteq ToSet(r)
      BY <1>0, <3>2 DEF ToSet
    <3> QED BY <3>3, <3>4
  <2>9. QueueOf(r, T \ {p})
    <3>1. Len(r) <= PROCESS_LIMIT
      BY <1>0, <2>5, ProcessAssumption DEF QueueOf
    <3> QED BY <2>5, <2>7, <2>8, <3>1 DEF QueueOf
  <2>10. (q # <<>> /\ q[1] # p) => r # <<>> /\ r[1] = q[1]
    <3> SUFFICES ASSUME q # <<>>, q[1] # p
                 PROVE  r # <<>> /\ r[1] = q[1]
      OBVIOUS
    <3>1. 1 < j /\ 1 \in 1..(Len(q) - 1)
      BY <1>0, <2>1
    <3>2. r[1] = q[1]
      BY <2>5, <3>1
    <3>3. Len(r) # 0
      BY <1>0, <2>5, <3>1
    <3> QED BY <2>5, <3>2, <3>3, EmptySeq
  <2> QED BY <2>3, <2>4, <2>9, <2>10
<1>2. CASE ~(\E j \in DOMAIN q : q[j] = p)
  <2>1. RmPositions(q, p) = {}
    BY <1>2 DEF RmPositions
  <2>2. RqRm(q, p) = q
    BY <2>1 DEF RqRm
  <2>3. p \notin T
    BY <1>2 DEF QueueOf, ToSet
  <2>4. T \ {p} = T
    BY <2>3
  <2> QED BY <2>2, <2>4
<1> QED BY <1>1, <1>2

\* There is room in the queue for a process that is not in it: fork's rq_add never drops.
LEMMA AddQueue ==
  ASSUME NEW T, NEW q, QueueOf(q, T), NEW p \in Pids \ T
  PROVE  /\ QueueOf(RqAdd(q, p), T \cup {p})
         /\ RqAdd(q, p) = Append(q, p)
<1>0. q \in Seq(Pids) /\ Len(q) \in Nat /\ DOMAIN q = 1..Len(q) /\ PROCESS_LIMIT \in Nat
  BY LenProperties, ProcessAssumption DEF QueueOf
<1>1. Len(q) < PROCESS_LIMIT
  <2>1. q \in [1..Len(q) -> Pids \ {p}]
    <3>1. \A i \in 1..Len(q) : q[i] \in Pids \ {p}
      BY <1>0, ElementOfSeq DEF QueueOf, ToSet
    <3>2. q = [i \in 1..Len(q) |-> q[i]]
      BY <1>0
    <3> QED BY <3>1, <3>2
  <2>2. q \in Injection(1..Len(q), Pids \ {p})
    BY <2>1 DEF Injection, IsInjective, QueueOf
  <2>3. /\ IsFiniteSet(Pids) /\ Cardinality(Pids) = PROCESS_LIMIT
    BY <1>0, FS_Interval, ProcessAssumption DEF Pids
  <2>4. /\ IsFiniteSet(Pids \ {p}) /\ Cardinality(Pids \ {p}) = PROCESS_LIMIT - 1
    BY <2>3, FS_RemoveElement
  <2>5. Cardinality(1..Len(q)) <= PROCESS_LIMIT - 1
    BY <2>2, <2>4, FS_Injection
  <2>6. Cardinality(1..Len(q)) = Len(q)
    BY <1>0, FS_Interval
  <2> QED BY <1>0, <2>5, <2>6
<1>2. PICK r : r = Append(q, p) OBVIOUS
<1>3. /\ r \in Seq(Pids)
      /\ Len(r) = Len(q) + 1
      /\ \A i \in 1..Len(q) : r[i] = q[i]
      /\ r[Len(q) + 1] = p
  BY <1>0, <1>2, AppendProperties
<1>4. DOMAIN r = 1..(Len(q) + 1)
  BY <1>3, LenProperties
<1>5. \A i \in 1..Len(q) : q[i] # p
  BY <1>0 DEF QueueOf, ToSet
<1>6. IsInjective(r)
  <2> SUFFICES ASSUME NEW a \in 1..(Len(q) + 1), NEW b \in 1..(Len(q) + 1), r[a] = r[b]
               PROVE  a = b
    BY <1>4 DEF IsInjective
  <2>1. a \in 1..Len(q) /\ b \in 1..Len(q) => a = b
    BY <1>0, <1>3 DEF QueueOf, IsInjective
  <2>2. a = Len(q) + 1 => b = Len(q) + 1
    BY <1>0, <1>3, <1>5
  <2>3. b = Len(q) + 1 => a = Len(q) + 1
    BY <1>0, <1>3, <1>5
  <2> QED BY <1>0, <2>1, <2>2, <2>3
<1>7. ToSet(r) = T \cup {p}
  <2>1. ToSet(q) = T
    BY DEF QueueOf
  <2>2. ToSet(r) \subseteq ToSet(q) \cup {p}
    <3> SUFFICES ASSUME NEW i \in 1..(Len(q) + 1)
                 PROVE  r[i] \in ToSet(q) \cup {p}
      BY <1>4 DEF ToSet
    <3>1. CASE i \in 1..Len(q)
      BY <1>0, <1>3, <3>1 DEF ToSet
    <3>2. CASE i = Len(q) + 1
      BY <1>3, <3>2
    <3> QED BY <1>0, <3>1, <3>2
  <2>3. ToSet(q) \subseteq ToSet(r)
    <3> SUFFICES ASSUME NEW i \in 1..Len(q)
                 PROVE  q[i] \in ToSet(r)
      BY <1>0 DEF ToSet
    <3>1. i \in DOMAIN r /\ r[i] = q[i]
      BY <1>0, <1>3, <1>4
    <3> QED BY <3>1 DEF ToSet
  <2>4. p \in ToSet(r)
    <3>1. Len(q) + 1 \in DOMAIN r
      BY <1>0, <1>4
    <3> QED BY <1>3, <3>1 DEF ToSet
  <2> QED BY <2>1, <2>2, <2>3, <2>4
<1>8. RqAdd(q, p) = r
  BY <1>1, <1>2 DEF RqAdd
<1>9. Len(r) <= PROCESS_LIMIT
  BY <1>0, <1>1, <1>3
<1> QED BY <1>2, <1>3, <1>6, <1>7, <1>8, <1>9 DEF QueueOf

-----------------------------------------------------------------------------
(***************************************************************************)
(* The inductive invariant.  Neither the agreement of queue and table nor  *)
(* the position of the running process is inductive alone: fork may give   *)
(* slot 0 to a shell that has killed itself, and that the queue is empty   *)
(* then, so that the shell is again at its head, follows from              *)
(* DeadRunsOnlyWhenIdle and from the shell's code only ever running in     *)
(* slot 0.                                                                 *)
(***************************************************************************)

ShellPoints == {"prompt", "reading", "raise", "yield"}

\* The shell's code runs in slot 0 only.
ShellInSlotZero ==
  \A p \in Pids \ {0} : ctx[p] \notin ShellPoints /\ (current = p => cpu \notin ShellPoints)

\* Only a TERMINATED process has returned from cexit().
GoneIsDead ==
  /\ cpu = "gone" => pst[current] = "TERMINATED"
  /\ \A p \in Pids : (p # current /\ ctx[p] = "gone") => pst[p] = "TERMINATED"

\* A dead process that is still running is not about to exec and not in a program.
DeadIsNotLoaded == pst[current] = "TERMINATED" => cpu \notin {"child", "user"}

LiveIn(st) == {p \in Pids : st[p] # "TERMINATED"}

IInv ==
  /\ KernelTypeOK
  /\ QueueOf(rq, LiveIn(pst))
  /\ CurrentAtHead
  /\ DeadRunsOnlyWhenIdle
  /\ ShellInSlotZero
  /\ GoneIsDead
  /\ DeadIsNotLoaded

\* What the scheduler does to the invariant, in any handler that calls it with the
\* new process states, priorities and queue and with the context to save.
LEMMA SchedulerKeeps ==
  ASSUME IInv,
         NEW st \in [Pids -> PState], pst' = st,
         NEW q, QueueOf(q, LiveIn(st)),
         NEW pr \in [Pids -> Prio], NEW df \in [Pids -> Prio], defp' = df,
         NEW here \in Points,
         st[current] # "TERMINATED" => (q # <<>> /\ q[1] = current),
         here \in ShellPoints => current = 0,
         here = "gone" => st[current] = "TERMINATED",
         st[current] = "TERMINATED" => here \notin {"child", "user"},
         \A p \in Pids : pst[p] = "TERMINATED" => st[p] = "TERMINATED",
         Scheduler(st, q, pr, df, here)
  PROVE  IInv'
<1> USE DEF Pids
<1>0. PICK M \in Nat \ {0, 1} : M = UINT_MOD
  BY ProcessAssumption
<1>1. ASSUME NEW f \in {"none", "rotate"}, NoDispatch(q, pr, here, f), q = <<>> \/ f = "rotate"
      PROVE  IInv'
  <2>1. KernelTypeOK'
    BY <1>1 DEF IInv, KernelTypeOK, NoDispatch, QueueOf
  <2>2. QueueOf(rq, LiveIn(pst))'
    BY <1>1 DEF NoDispatch, QueueOf, LiveIn
  <2>3. CurrentAtHead'
    BY <1>1 DEF NoDispatch, CurrentAtHead
  <2>4. DeadRunsOnlyWhenIdle'
    BY <1>1 DEF NoDispatch, DeadRunsOnlyWhenIdle
  <2>5. ShellInSlotZero'
    BY <1>1 DEF NoDispatch, ShellInSlotZero, IInv, KernelTypeOK
  <2>6. GoneIsDead'
    BY <1>1 DEF NoDispatch, GoneIsDead, IInv, KernelTypeOK
  <2>7. DeadIsNotLoaded'
    BY <1>1 DEF NoDispatch, DeadIsNotLoaded
  <2> QED BY <2>1, <2>2, <2>3, <2>4, <2>5, <2>6, <2>7 DEF IInv
<1>2. ASSUME NEW k \in Rotations(q, st), Dispatch(RotateBy(q, k), pr, df, here)
      PROVE  IInv'
  <2>1. k \in DOMAIN q
    BY DEF Rotations
  <2>2. PICK r : r = RotateBy(q, k) OBVIOUS
  <2>3. QueueOf(r, LiveIn(st)) /\ r # <<>> /\ r[1] \in LiveIn(st) /\ st[r[1]] = "EXECUTING"
    BY <2>1, <2>2, RotateQueue DEF Rotations
  <2>4. r[1] \in Pids /\ current \in Pids
    BY <2>3 DEF LiveIn, IInv, KernelTypeOK
  <2>5. /\ rq' = r /\ fault' = "none" /\ fresh' = fresh \ {r[1]}
        /\ current' = r[1]
    BY <1>2, <2>2 DEF Dispatch
  <2>6. \/ r[1] = current /\ cpu' = here /\ ctx' = ctx
        \/ r[1] # current /\ cpu' = ctx[r[1]] /\ ctx' = [ctx EXCEPT ![current] = here]
    BY <1>2, <2>2 DEF Dispatch
  <2>7. ctx \in [Pids -> Points] /\ ctx' \in [Pids -> Points] /\ cpu' \in Points
    BY <2>4, <2>6 DEF IInv, KernelTypeOK
  <2>8. prio' \in [Pids -> Prio]
    <3>1. ResetPrio(r, pr, df) \in [Pids -> Prio]
      BY DEF ResetPrio
    <3>2. PICK reset \in [Pids -> Prio] : reset = ResetPrio(r, pr, df)
      BY <3>1
    <3>3. \/ prio' = reset
          \/ prio' = [reset EXCEPT ![current] = (reset[current] - 1) % UINT_MOD]
      BY <1>2, <2>2, <3>2 DEF Dispatch
    <3>4. reset[current] \in Int
      BY <2>4, <3>2 DEF Prio
    <3>5. (reset[current] - 1) % UINT_MOD \in Prio
      BY <1>0, <3>4 DEF Prio
    <3> QED BY <2>4, <3>2, <3>3, <3>5
  <2>9. KernelTypeOK'
    BY <2>3, <2>4, <2>5, <2>7, <2>8 DEF IInv, KernelTypeOK, QueueOf
  <2>10. QueueOf(rq, LiveIn(pst))'
    BY <2>3, <2>5 DEF QueueOf, LiveIn
  <2>11. CurrentAtHead' /\ DeadRunsOnlyWhenIdle' /\ DeadIsNotLoaded'
    BY <2>3, <2>5 DEF CurrentAtHead, DeadRunsOnlyWhenIdle, DeadIsNotLoaded
  <2>12. ShellInSlotZero'
    <3> SUFFICES ASSUME NEW p \in Pids \ {0}
                 PROVE  ctx'[p] \notin ShellPoints /\ (current' = p => cpu' \notin ShellPoints)
      BY DEF ShellInSlotZero
    <3>1. ctx[p] \notin ShellPoints
      BY DEF IInv, ShellInSlotZero
    <3>2. p = current => here \notin ShellPoints
      BY DEF ShellPoints
    <3> QED BY <2>4, <2>5, <2>6, <2>7, <3>1, <3>2
  <2>13. GoneIsDead'
    <3>1. cpu' = "gone" => pst'[current'] = "TERMINATED"
      BY <2>3, <2>4, <2>5, <2>6 DEF IInv, GoneIsDead
    <3>2. ASSUME NEW p \in Pids, p # current', ctx'[p] = "gone"
          PROVE  pst'[p] = "TERMINATED"
      BY <2>4, <2>5, <2>6, <2>7, <3>2 DEF IInv, GoneIsDead
    <3> QED BY <3>1, <3>2 DEF GoneIsDead
  <2> QED BY <2>9, <2>10, <2>11, <2>12, <2>13 DEF IInv
<1> QED BY <1>1, <1>2 DEF Scheduler

-----------------------------------------------------------------------------
\* The reset state satisfies the invariant.
LEMMA InitInv == Init => IInv
<1> SUFFICES ASSUME Init PROVE IInv
  OBVIOUS
<1> USE ProcessAssumption DEF Init, Pids
<1>1. rq \in Seq(Pids) /\ Len(rq) = 1 /\ rq[1] = 0 /\ DOMAIN rq = 1..1
  OBVIOUS
<1>2. KernelTypeOK
  BY <1>1 DEF KernelTypeOK, PState, Points, Prio
<1>3. QueueOf(rq, LiveIn(pst))
  <2>1. LiveIn(pst) = {0}
    BY DEF LiveIn
  <2>2. ToSet(rq) = {0} /\ IsInjective(rq)
    BY <1>1 DEF ToSet, IsInjective
  <2>3. Len(rq) <= PROCESS_LIMIT
    BY <1>1
  <2> QED BY <1>1, <2>1, <2>2, <2>3 DEF QueueOf
<1>4. CurrentAtHead /\ DeadRunsOnlyWhenIdle
  BY <1>1 DEF CurrentAtHead, DeadRunsOnlyWhenIdle
<1>5. ShellInSlotZero /\ GoneIsDead /\ DeadIsNotLoaded
  BY DEF ShellInSlotZero, GoneIsDead, ShellPoints, DeadIsNotLoaded
<1> QED BY <1>2, <1>3, <1>4, <1>5 DEF IInv

\* A handler that only moves the running program on, to a point that is not a dead end.
LEMMA MoveOn ==
  ASSUME IInv, fault = "none", NEW here \in Points \ {"gone"},
         here \in ShellPoints => current = 0,
         pst[current] = "TERMINATED" => (rq = <<>> \/ here = "raise") /\ here \notin {"child", "user"},
         cpu' = here, UNCHANGED <<pst, defp, prio, ctx, rq, current, fault, fresh>>
  PROVE  IInv'
<1>1. KernelTypeOK'
  BY DEF IInv, KernelTypeOK
<1>2. QueueOf(rq, LiveIn(pst))'
  BY DEF IInv, QueueOf, LiveIn
<1>3. CurrentAtHead' /\ DeadRunsOnlyWhenIdle'
  BY DEF IInv, CurrentAtHead, DeadRunsOnlyWhenIdle
<1>4. ShellInSlotZero' /\ GoneIsDead' /\ DeadIsNotLoaded'
  BY DEF IInv, ShellInSlotZero, GoneIsDead, DeadIsNotLoaded
<1> QED BY <1>1, <1>2, <1>3, <1>4 DEF IInv

\* fork, in the lowest free slot.
LEMMA ForkKeeps ==
  ASSUME IInv, fault = "none", Fork
  PROVE  IInv'
<1> USE DEF Pids
<1>0. UINT_MOD \in Nat \ {0, 1} /\ PROCESS_LIMIT \in Nat \ {0}
  BY ProcessAssumption
<1>1. PICK p \in Terminated :
        /\ \A o \in Terminated : p <= o
        /\ pst'   = [pst  EXCEPT ![p] = "EXECUTING"]
        /\ ctx'   = [ctx  EXCEPT ![p] = AfterFork(0)]
        /\ defp'  = [defp EXCEPT ![p] = TOP_PRIO]
        /\ prio'  = [prio EXCEPT ![p] = TOP_PRIO]
        /\ rq'    = RqAdd(rq, p)
        /\ fresh' = fresh \cup {p}
        /\ cpu'   = AfterFork(p)
  BY DEF Fork
<1>2. cpu = "reading" /\ current' = current /\ fault' = fault
  BY DEF Fork
<1>3. current = 0
  BY <1>2 DEF IInv, ShellInSlotZero, ShellPoints, KernelTypeOK
<1>4. p \in Pids /\ pst[p] = "TERMINATED"
  BY <1>1 DEF Terminated
<1>5. QueueOf(rq', LiveIn(pst) \cup {p}) /\ rq' = Append(rq, p)
  <2>1. p \in Pids \ LiveIn(pst)
    BY <1>4 DEF LiveIn
  <2> QED BY <1>1, <2>1, AddQueue DEF IInv
<1>6. LiveIn(pst') = LiveIn(pst) \cup {p}
  BY <1>1, <1>4 DEF LiveIn, IInv, KernelTypeOK
<1>7. TOP_PRIO \in Prio
  BY <1>0 DEF TOP_PRIO, Prio
<1>8. AfterFork(0) = "child" /\ AfterFork(p) = IF p = 0 THEN "child" ELSE "raise"
  BY DEF AfterFork
<1>9. KernelTypeOK'
  BY <1>1, <1>2, <1>4, <1>5, <1>7, <1>8 DEF IInv, KernelTypeOK, PState, Points, QueueOf
<1>10. QueueOf(rq, LiveIn(pst))'
  BY <1>5, <1>6 DEF QueueOf, LiveIn
<1>11. CurrentAtHead' /\ DeadRunsOnlyWhenIdle' /\ DeadIsNotLoaded'
  <2>1. CASE pst[0] = "TERMINATED"
    <3>1. p = 0
      BY <1>0, <1>1, <1>4, <2>1 DEF Terminated
    <3>2. rq = <<>>
      BY <1>2, <1>3, <2>1 DEF IInv, DeadRunsOnlyWhenIdle
    <3>3. rq' # <<>> /\ rq'[1] = 0
      BY <1>5, <3>1, <3>2
    <3>4. pst'[0] = "EXECUTING"
      BY <1>1, <1>4, <3>1 DEF IInv, KernelTypeOK
    <3> QED BY <1>2, <1>3, <3>3, <3>4 DEF CurrentAtHead, DeadRunsOnlyWhenIdle, DeadIsNotLoaded
  <2>2. CASE pst[0] # "TERMINATED"
    <3>1. p # 0 /\ rq # <<>> /\ rq[1] = 0
      BY <1>3, <1>4, <2>2 DEF IInv, CurrentAtHead
    <3>2. rq \in Seq(Pids) /\ Len(rq) \in Nat /\ Len(rq) # 0
      BY <3>1, LenProperties, EmptySeq DEF IInv, KernelTypeOK
    <3>3. Len(rq') = Len(rq) + 1 /\ rq'[1] = rq[1] /\ rq' \in Seq(Pids)
      BY <1>4, <1>5, <3>2, AppendProperties
    <3>4. rq' # <<>> /\ rq'[1] = 0
      BY <3>1, <3>2, <3>3
    <3>5. pst'[0] # "TERMINATED"
      BY <1>1, <2>2, <3>1 DEF IInv, KernelTypeOK
    <3> QED BY <1>2, <1>3, <3>4, <3>5 DEF CurrentAtHead, DeadRunsOnlyWhenIdle, DeadIsNotLoaded
  <2> QED BY <2>1, <2>2
<1>12. ShellInSlotZero'
  BY <1>1, <1>2, <1>3, <1>4, <1>8 DEF IInv, KernelTypeOK, ShellInSlotZero, ShellPoints
<1>13. GoneIsDead'
  BY <1>1, <1>2, <1>3, <1>4, <1>8 DEF IInv, KernelTypeOK, GoneIsDead
<1> QED BY <1>9, <1>10, <1>11, <1>12, <1>13 DEF IInv

\* kill( d, SIGKILL ) from the shell.
LEMMA KillKeeps ==
  ASSUME IInv, fault = "none", NEW d, KillProcess(d)
  PROVE  IInv'
<1>1. d \in Pids /\ cpu = "reading" /\ current = 0
  BY DEF KillProcess, IInv, ShellInSlotZero, ShellPoints, KernelTypeOK
<1>2. /\ pst' = [pst EXCEPT ![d] = "TERMINATED"]
      /\ rq' = RqRm(rq, d) /\ fresh' = fresh \ {d} /\ cpu' = "raise"
      /\ UNCHANGED <<defp, prio, ctx, current, fault>>
  BY DEF KillProcess
<1>3. /\ QueueOf(rq', LiveIn(pst) \ {d})
      /\ (rq # <<>> /\ rq[1] # d) => rq' # <<>> /\ rq'[1] = rq[1]
  BY <1>1, <1>2, RemoveQueue DEF IInv
<1>4. LiveIn(pst') = LiveIn(pst) \ {d}
  BY <1>1, <1>2 DEF LiveIn, IInv, KernelTypeOK
<1>5. KernelTypeOK'
  BY <1>1, <1>2, <1>3 DEF IInv, KernelTypeOK, PState, Points, QueueOf
<1>6. QueueOf(rq, LiveIn(pst))'
  BY <1>3, <1>4 DEF QueueOf, LiveIn
<1>7. CurrentAtHead' /\ DeadRunsOnlyWhenIdle'
  BY <1>1, <1>2, <1>3 DEF IInv, KernelTypeOK, CurrentAtHead, DeadRunsOnlyWhenIdle
<1>8. ShellInSlotZero' /\ GoneIsDead' /\ DeadIsNotLoaded'
  BY <1>1, <1>2 DEF IInv, KernelTypeOK, ShellInSlotZero, GoneIsDead, DeadIsNotLoaded
<1> QED BY <1>5, <1>6, <1>7, <1>8 DEF IInv

\* exec in the forked child: the program gets the priority of its file.
LEMMA ExecKeeps ==
  ASSUME IInv, fault = "none", NEW pr \in ExecPrio, Exec(pr)
  PROVE  IInv'
<1>1. cpu = "child" /\ current \in Pids /\ pr \in Prio /\ pst[current] # "TERMINATED"
  BY ProcessAssumption DEF Exec, IInv, KernelTypeOK, Prio, DeadIsNotLoaded
<1>2. /\ pst'  = [pst  EXCEPT ![current] = "EXECUTING"]
      /\ ctx'  = [ctx  EXCEPT ![current] = "user"]
      /\ defp' = [defp EXCEPT ![current] = pr]
      /\ prio' = [prio EXCEPT ![current] = pr]
      /\ cpu'  = "user"
      /\ UNCHANGED <<rq, current, fault, fresh>>
  BY DEF Exec
<1>3. LiveIn(pst') = LiveIn(pst)
  BY <1>1, <1>2 DEF LiveIn, IInv, KernelTypeOK
<1>4. KernelTypeOK'
  BY <1>1, <1>2 DEF IInv, KernelTypeOK, PState, Points
<1>5. QueueOf(rq, LiveIn(pst))'
  BY <1>2, <1>3 DEF IInv, QueueOf, LiveIn
<1>6. CurrentAtHead' /\ DeadRunsOnlyWhenIdle' /\ DeadIsNotLoaded'
  BY <1>1, <1>2 DEF IInv, KernelTypeOK, CurrentAtHead, DeadRunsOnlyWhenIdle, DeadIsNotLoaded
<1>7. ShellInSlotZero' /\ GoneIsDead'
  BY <1>1, <1>2 DEF IInv, KernelTypeOK, ShellInSlotZero, GoneIsDead, ShellPoints
<1> QED BY <1>4, <1>5, <1>6, <1>7 DEF IInv

\* The handlers that call the scheduler without changing the process states.
LEMMA RescheduleKeeps ==
  ASSUME IInv, fault = "none",
         NEW pr \in [Pids -> Prio], NEW df \in [Pids -> Prio], defp' = df, UNCHANGED pst,
         NEW here \in Points,
         here \in ShellPoints => current = 0,
         here = "gone" => pst[current] = "TERMINATED",
         pst[current] = "TERMINATED" => here \notin {"child", "user"},
         Scheduler(pst, rq, pr, df, here)
  PROVE  IInv'
<1>1. pst \in [Pids -> PState] /\ QueueOf(rq, LiveIn(pst))
  BY DEF IInv, KernelTypeOK
<1>2. pst[current] # "TERMINATED" => (rq # <<>> /\ rq[1] = current)
  BY DEF IInv, CurrentAtHead
<1> QED BY <1>1, <1>2, SchedulerKeeps

\* cexit().
LEMMA RaiseKillKeeps ==
  ASSUME IInv, fault = "none", RaiseKill
  PROVE  IInv'
<1>1. current \in Pids /\ pst \in [Pids -> PState] /\ defp \in [Pids -> Prio] /\ prio \in [Pids -> Prio]
  BY DEF IInv, KernelTypeOK
<1>2. PICK st : st = [pst EXCEPT ![current] = "TERMINATED"] OBVIOUS
<1>3. PICK q : q = RqRm(rq, current) OBVIOUS
<1>4. /\ st \in [Pids -> PState] /\ st[current] = "TERMINATED"
      /\ \A p \in Pids : pst[p] = "TERMINATED" => st[p] = "TERMINATED"
  BY <1>1, <1>2 DEF PState
<1>5. QueueOf(q, LiveIn(st))
  <2>1. LiveIn(st) = LiveIn(pst) \ {current}
    BY <1>1, <1>2 DEF LiveIn
  <2>2. QueueOf(q, LiveIn(pst) \ {current})
    BY <1>1, <1>3, RemoveQueue DEF IInv
  <2> QED BY <2>1, <2>2
<1>6. pst' = st /\ defp' = defp /\ Scheduler(st, q, prio, defp, "gone")
  BY <1>2, <1>3 DEF RaiseKill
<1>7. "gone" \in Points /\ "gone" \notin ShellPoints /\ "gone" \notin {"child", "user"}
  BY DEF Points, ShellPoints
<1> QED BY <1>1, <1>4, <1>5, <1>6, <1>7, SchedulerKeeps

\* Every step of the system keeps the invariant, unless it is "kill 9".
LEMMA NextInv ==
  ASSUME IInv, [Next]_procVars, ~nine'
  PROVE  IInv'
<1> USE DEF ShellPoints
<1>0. /\ current \in Pids /\ cpu \in Points /\ prio \in [Pids -> Prio] /\ defp \in [Pids -> Prio]
      /\ cpu \in ShellPoints => current = 0
      /\ cpu = "gone" => pst[current] = "TERMINATED"
      /\ pst[current] = "TERMINATED" => cpu \notin {"child", "user"}
      /\ (pst[current] = "TERMINATED" /\ fault = "none" /\ cpu # "raise") => rq = <<>>
  BY DEF IInv, KernelTypeOK, ShellInSlotZero, GoneIsDead, DeadIsNotLoaded, DeadRunsOnlyWhenIdle
<1>1. ASSUME UNCHANGED procVars PROVE IInv'
  <2>1. KernelTypeOK'
    BY <1>1 DEF IInv, KernelTypeOK, procVars
  <2>2. QueueOf(rq, LiveIn(pst))'
    BY <1>1 DEF IInv, QueueOf, LiveIn, procVars
  <2>3. CurrentAtHead' /\ DeadRunsOnlyWhenIdle' /\ DeadIsNotLoaded'
    BY <1>1 DEF IInv, CurrentAtHead, DeadRunsOnlyWhenIdle, DeadIsNotLoaded, procVars
  <2>4. ShellInSlotZero' /\ GoneIsDead'
    BY <1>1 DEF IInv, ShellInSlotZero, GoneIsDead, procVars
  <2> QED BY <2>1, <2>2, <2>3, <2>4 DEF IInv
<1>2. ASSUME fault = "none", EnterRead PROVE IInv'
  BY <1>0, <1>2, MoveOn DEF EnterRead, Points
<1>3. ASSUME fault = "none", Fork PROVE IInv'
  BY <1>3, ForkKeeps
<1>4. ASSUME fault = "none", ForkFull PROVE IInv'
  BY <1>0, <1>4, MoveOn DEF ForkFull, AfterFork, Points
<1>5. ASSUME fault = "none", OtherCommand PROVE IInv'
  BY <1>0, <1>5, MoveOn DEF OtherCommand, Points
<1>6. ASSUME fault = "none", Quit PROVE IInv'
  BY <1>0, <1>6, MoveOn DEF Quit, Points
<1>7. ASSUME fault = "none", NEW d \in KillDigits, KillProcess(d) PROVE IInv'
  BY <1>7, KillKeeps
<1>8. ASSUME fault = "none", NEW d \in KillDigits, KillBounds(d) PROVE IInv'
  <2>1. KernelTypeOK'
    BY <1>8 DEF IInv, KernelTypeOK, KillBounds
  <2>2. QueueOf(rq, LiveIn(pst))'
    BY <1>8 DEF IInv, QueueOf, LiveIn, KillBounds
  <2>3. CurrentAtHead' /\ DeadRunsOnlyWhenIdle' /\ DeadIsNotLoaded'
    BY <1>8 DEF IInv, CurrentAtHead, DeadRunsOnlyWhenIdle, DeadIsNotLoaded, KillBounds
  <2>4. ShellInSlotZero' /\ GoneIsDead'
    BY <1>8 DEF IInv, ShellInSlotZero, GoneIsDead, KillBounds
  <2> QED BY <2>1, <2>2, <2>3, <2>4 DEF IInv
<1>9. ASSUME fault = "none", KillNine PROVE IInv'
  BY <1>9 DEF KillNine
<1>10. ASSUME fault = "none", RaisePri0 PROVE IInv'
  <2>1. PICK df : df = [defp EXCEPT ![current] = 0] OBVIOUS
  <2>2. PICK pr : pr = [prio EXCEPT ![current] = 0] OBVIOUS
  <2>3. 0 \in Prio
    BY ProcessAssumption DEF Prio
  <2>4. df \in [Pids -> Prio] /\ pr \in [Pids -> Prio]
    BY <1>0, <2>1, <2>2, <2>3
  <2>5. cpu = "raise" /\ defp' = df /\ Scheduler(pst, rq, pr, df, "yield") /\ UNCHANGED pst
    BY <1>10, <2>1, <2>2 DEF RaisePri0
  <2> QED BY <1>0, <1>10, <2>4, <2>5, RescheduleKeeps DEF Points
<1>11. ASSUME fault = "none", Yield PROVE IInv'
  <2>1. cpu = "yield" /\ defp' = defp /\ Scheduler(pst, rq, prio, defp, "prompt") /\ UNCHANGED pst
    BY <1>11 DEF Yield
  <2> QED BY <1>0, <1>11, <2>1, RescheduleKeeps DEF Points
<1>12. ASSUME fault = "none", ExecFails PROVE IInv'
  BY <1>0, <1>12, MoveOn DEF ExecFails, Points
<1>13. ASSUME fault = "none", Exit \/ ProgramExit PROVE IInv'
  BY <1>13, RaiseKillKeeps DEF Exit, ProgramExit
<1>14. ASSUME fault = "none", NEW pr \in ExecPrio, Exec(pr) PROVE IInv'
  BY <1>14, ExecKeeps
<1>15. ASSUME fault = "none", TimerIrq PROVE IInv'
  <2>1. defp' = defp /\ Scheduler(pst, rq, prio, defp, cpu) /\ UNCHANGED pst
    BY <1>15 DEF TimerIrq
  <2> QED BY <1>0, <1>15, <2>1, RescheduleKeeps
<1>16. ASSUME fault = "none", UartIrq PROVE IInv'
  <2>1. PICK df : df = [defp EXCEPT ![0] = TOP_PRIO] OBVIOUS
  <2>2. PICK pr : pr = [prio EXCEPT ![0] = TOP_PRIO] OBVIOUS
  <2>3. TOP_PRIO \in Prio
    BY ProcessAssumption DEF Prio, TOP_PRIO
  <2>4. df \in [Pids -> Prio] /\ pr \in [Pids -> Prio]
    BY <1>0, <2>1, <2>2, <2>3
  <2>5. defp' = df /\ Scheduler(pst, rq, pr, df, cpu) /\ UNCHANGED pst
    BY <1>16, <2>1, <2>2 DEF UartIrq
  <2> QED BY <1>0, <1>16, <2>4, <2>5, RescheduleKeeps
<1> QED
  BY <1>1, <1>2, <1>3, <1>4, <1>5, <1>6, <1>7, <1>8, <1>9, <1>10, <1>11, <1>12, <1>13,
     <1>14, <1>15, <1>16
     DEF Next, ProcStep, Shell, Interrupt, Halted

-----------------------------------------------------------------------------
(* The theorems.  SafeInv makes the invariant a formula about every instance. *)

SafeInv == nine \in BOOLEAN /\ (~nine => IInv)

\* The inductive invariant holds in every reachable state.
LEMMA Invariance == Spec => []SafeInv
<1>1. Init => SafeInv
  BY InitInv DEF SafeInv, Init
<1>2. SafeInv /\ [Next]_procVars => SafeInv'
  <2> SUFFICES ASSUME SafeInv, [Next]_procVars PROVE SafeInv'
    OBVIOUS
  <2>1. nine' \in BOOLEAN /\ (~nine' => ~nine)
    BY DEF SafeInv, Next, KillNine, Halted, procVars
  <2> QED BY <2>1, NextInv DEF SafeInv
<1> QED BY <1>1, <1>2, PTL DEF Spec

\* Unless "kill 9" is used, every variable keeps its type, for every size of the
\* process table and of the priorities; in particular rq never outgrows its array.
THEOREM TypeCorrect == Spec => [](~nine => TypeOK)
<1>1. SafeInv => (~nine => TypeOK)
  BY DEF SafeInv, IInv, TypeOK
<1> QED BY <1>1, Invariance, PTL

\* The ready queue holds exactly the processes that are not TERMINATED, each once.
THEOREM QueueCorrect == Spec => []QueueMatchesTable
<1>1. SafeInv => QueueMatchesTable
  <2> SUFFICES ASSUME IInv PROVE IsInjective(rq) /\ ToSet(rq) = Pids \ Terminated
    BY DEF SafeInv, QueueMatchesTable
  <2>1. LiveIn(pst) = Pids \ Terminated
    BY DEF LiveIn, Terminated
  <2> QED BY <2>1 DEF IInv, QueueOf
<1> QED BY <1>1, Invariance, PTL

\* The running process, unless it was killed, is at the head of the ready queue.
THEOREM HeadCorrect == Spec => [](~nine => CurrentAtHead)
<1>1. SafeInv => (~nine => CurrentAtHead)
  BY DEF SafeInv, IInv
<1> QED BY <1>1, Invariance, PTL

\* A TERMINATED process is resumed only when the ready queue is empty.
THEOREM DeadCorrect == Spec => [](~nine => DeadRunsOnlyWhenIdle)
<1>1. SafeInv => (~nine => DeadRunsOnlyWhenIdle)
  BY DEF SafeInv, IInv
<1> QED BY <1>1, Invariance, PTL

\* Only slot 0 ever holds the shell.
THEOREM ShellCorrect == Spec => [](~nine => OneShell)
<1>1. SafeInv => (~nine => OneShell)
  <2> SUFFICES ASSUME IInv, NEW p \in Pids \ {0}, pst[p] # "TERMINATED"
               PROVE  ContextOf(p) \in {"child", "user", "exit"}
    BY DEF SafeInv, OneShell
  <2>1. ContextOf(p) \in Points
    BY DEF IInv, KernelTypeOK, ContextOf
  <2>2. ContextOf(p) \notin ShellPoints /\ ContextOf(p) # "gone"
    BY DEF IInv, ShellInSlotZero, GoneIsDead, ContextOf
  <2> QED BY <2>1, <2>2 DEF Points, ShellPoints
<1> QED BY <1>1, Invariance, PTL
=============================================================================
