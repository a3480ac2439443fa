-------------------------- MODULE RunJournalProofs --------------------------
(* Proofs about RunJournal, for every set of runs, every threshold and     *)
(* page limit and every number of events.                                  *)
EXTENDS RunJournal, FiniteSetTheorems, SequenceTheorems, WellFoundedInduction, TLAPS

-----------------------------------------------------------------------------
(* Sets of numbers.                                                        *)

(* A set of numbers that is not empty has a least one.                     *)
LEMMA LeastOf ==
  ASSUME NEW S \in SUBSET Nat, S # {}
  PROVE  \E m \in S : \A n \in S : m <= n
<1>1. PICK m \in S : \A n \in S : ~ (<<n, m>> \in OpToRel(<, Nat))
  BY WFMin, NatLessThanWellFounded, Zenon
<1>2. \A n \in S : ~ (n < m)
  BY <1>1 DEF OpToRel
<1>. QED
  BY <1>2

(* And a greatest one, when it has a bound.                                *)
LEMMA GreatestOf ==
  ASSUME NEW S \in SUBSET Nat, S # {}, NEW top \in Nat, \A n \in S : n <= top
  PROVE  \E m \in S : \A n \in S : n <= m
<1>. DEFINE T == {top - n : n \in S}
<1>1. T \in SUBSET Nat /\ T # {}
  <2>1. \A n \in S : top - n \in Nat
    OBVIOUS
  <2>. QED
    BY <2>1
<1>2. PICK d \in T : \A e \in T : d <= e
  BY <1>1, LeastOf
<1>3. PICK m \in S : d = top - m
  BY <1>2
<1>4. ASSUME NEW n \in S PROVE n <= m
  <2>1. top - n \in T
    OBVIOUS
  <2>. QED
    BY <2>1, <1>2, <1>3
<1>. QED
  BY <1>3, <1>4

(* MaxOf is the greatest number of a set, and 0 of none.                   *)
LEMMA MaxOfFacts ==
  ASSUME NEW S \in SUBSET Nat, NEW top \in Nat, \A n \in S : n <= top
  PROVE  /\ MaxOf(S) \in Nat /\ \A n \in S : n <= MaxOf(S)
         /\ S # {} => MaxOf(S) \in S
         /\ S = {} => MaxOf(S) = 0
<1>1. CASE S = {}
  BY <1>1 DEF MaxOf
<1>2. CASE S # {}
  <2>1. \E m \in S : \A n \in S : n <= m
    BY <1>2, GreatestOf
  <2>. QED
    BY <1>2, <2>1 DEF MaxOf
<1>. QED
  BY <1>1, <1>2

(* Whoever is among the first k of S has all before it there too.          *)
LEMMA FirstIsClosed ==
  ASSUME NEW S \in SUBSET Nat, NEW k \in Nat, NEW m \in FirstOf(S, k), NEW n \in S, n <= m
  PROVE  n \in FirstOf(S, k)
<1>. DEFINE Below(j) == {i \in S : i < j}
<1>0. m \in Nat /\ n \in Nat
  BY DEF FirstOf
<1>1. Below(m) \in SUBSET Nat /\ \A i \in Below(m) : i <= m
  <2>1. \A i \in Below(m) : i \in Nat /\ i <= m
    BY <1>0
  <2>. QED
    BY <2>1
<1>2. IsFiniteSet(Below(m))
  BY <1>0, <1>1, FS_BoundedSetOfNaturals
<1>3. Below(n) \in SUBSET Below(m)
  <2>1. \A i \in Below(n) : i \in Nat /\ i < m
    BY <1>0
  <2>. QED
    BY <2>1
<1>4. Cardinality(Below(n)) <= Cardinality(Below(m))
  BY <1>2, <1>3, FS_Subset
<1>5. IsFiniteSet(Below(n))
  BY <1>2, <1>3, FS_Subset
<1>6. Cardinality(Below(n)) \in Nat /\ Cardinality(Below(m)) \in Nat
  BY <1>2, <1>5, FS_CardinalityType
<1>7. Cardinality(Below(m)) < k
  BY DEF FirstOf
<1>8. Cardinality(Below(n)) < k
  BY <1>4, <1>6, <1>7
<1>. QED
  BY <1>8 DEF FirstOf

(* If the first k + 1 of S are k at most, they are all of S, and the first *)
(* k of them too.                                                          *)
LEMMA FirstIsAll ==
  ASSUME NEW S \in SUBSET Nat, NEW top \in Nat, \A n \in S : n <= top,
         NEW k \in Nat, Cardinality(FirstOf(S, k + 1)) <= k
  PROVE  FirstOf(FirstOf(S, k + 1), k) = S
<1>. DEFINE found == FirstOf(S, k + 1)
            Below(j) == {i \in S : i < j}
<1>1. IsFiniteSet(S)
  BY FS_BoundedSetOfNaturals
<1>2. found \in SUBSET S
  BY DEF FirstOf
<1>3. IsFiniteSet(found) /\ Cardinality(found) \in Nat
  BY <1>1, <1>2, FS_Subset, FS_CardinalityType
<1>4. found = S
  <2>. SUFFICES ASSUME S \ found # {} PROVE FALSE
    BY <1>2
  <2>1. PICK m \in S \ found : \A n \in S \ found : m <= n
    BY LeastOf
  <2>2. Below(m) \in SUBSET found
    <3>1. ASSUME NEW i \in Below(m) PROVE i \in found
      <4>1. i \in S /\ i \in Nat /\ m \in Nat /\ i < m
        BY <2>1
      <4>. QED
        BY <4>1, <2>1
    <3>. QED
      BY <3>1, Zenon
  <2>3. Cardinality(Below(m)) <= Cardinality(found) /\ Cardinality(Below(m)) \in Nat
    BY <2>2, <1>3, FS_Subset, FS_CardinalityType
  <2>4. ~ (Cardinality(Below(m)) < k + 1)
    BY <2>1 DEF FirstOf
  <2>. QED
    BY <2>3, <2>4, <1>3
<1>5. ASSUME NEW n \in found PROVE n \in FirstOf(found, k)
  <2>. DEFINE less == {i \in found : i < n}
  <2>1. Cardinality(found \ {n}) = Cardinality(found) - 1 /\ IsFiniteSet(found \ {n})
    BY <1>3, FS_RemoveElement
  <2>2. less \in SUBSET (found \ {n})
    <3>1. n \in Nat
      BY <1>2
    <3>2. \A i \in less : i # n
      BY <3>1
    <3>. QED
      BY <3>2
  <2>3. Cardinality(less) <= Cardinality(found \ {n}) /\ Cardinality(less) \in Nat
    BY <2>1, <2>2, FS_Subset, FS_CardinalityType
  <2>4. Cardinality(less) < k
    BY <2>1, <2>3, <1>3
  <2>. QED
    BY <2>4 DEF FirstOf
<1>6. FirstOf(found, k) \subseteq found
  BY DEF FirstOf
<1>. QED
  BY <1>4, <1>5, <1>6
-----------------------------------------------------------------------------
(* Two sequences that lie one behind the other.                            *)

(* The places in two sequences laid side by side.                          *)
LEMMA BesideFacts ==
  ASSUME NEW a \in Nat, NEW b \in Nat
  PROVE  /\ \A i \in 1..a : i \in 1..(a + b) /\ i <= a
         /\ \A i \in 1..b : a + i \in 1..(a + b) /\ ~ (a + i <= a) /\ (a + i) - a = i
         /\ \A i \in 1..(a + b) : ~ (i <= a) => i - a \in 1..b
  OBVIOUS

After(n, m) == [i \in 1..m |-> n + i]
Beside(a, b, n, m) ==
  /\ Len(a) + Len(b) = m
  /\ \A i \in 1..Len(a) : a[i] = n + i
  /\ \A i \in 1..Len(b) : b[i] = n + Len(a) + i

(* Two sequences joined count on from m when both do, the second after the first. *)
LEMMA LaidOut ==
  ASSUME NEW a \in Seq(Nat), NEW b \in Seq(Nat), NEW m \in Nat, NEW n \in Nat
  PROVE  a \o b = After(n, m) <=> Beside(a, b, n, m)
<1>. DEFINE q == a \o b
            f == [i \in 1..m |-> n + i]
<1>1. /\ q \in Seq(Nat) /\ Len(q) = Len(a) + Len(b)
      /\ \A i \in 1..(Len(a) + Len(b)) : q[i] = IF i <= Len(a) THEN a[i] ELSE b[i - Len(a)]
  BY ConcatProperties
<1>2. Len(a) \in Nat /\ Len(b) \in Nat
  BY LenProperties
<1>3. q \in [1..Len(q) -> Nat]
  BY <1>1, LenProperties
<1>n. Len(q) \in Nat
  BY <1>1, LenProperties
<1>. HIDE DEF q
<1>4. ASSUME q = f
      PROVE  /\ Len(a) + Len(b) = m
             /\ \A i \in 1..Len(a) : a[i] = n + i
             /\ \A i \in 1..Len(b) : b[i] = n + Len(a) + i
  <2>1. 1..Len(q) = 1..m
    BY <1>3, <1>4
  <2>2. Len(q) = m
    <3>1. ASSUME NEW x \in Nat, NEW y \in Nat, 1..x = 1..y PROVE x <= y
      <4>1. CASE x = 0
        BY <4>1
      <4>2. CASE x # 0
        <5>1. x \in 1..x
          BY <4>2
        <5>2. x \in 1..y
          BY <3>1, <5>1, Zenon
        <5>. QED
          BY <5>2
      <4>. QED
        BY <4>1, <4>2
    <3>2. Len(q) <= m /\ m <= Len(q)
      BY <1>n, <2>1, <3>1
    <3>. QED
      BY <1>n, <3>2
  <2>3. \A i \in 1..m : q[i] = n + i
    BY <1>4
  <2>4. ASSUME NEW i \in 1..Len(a) PROVE a[i] = n + i
    BY <1>1, <1>2, <2>2, <2>3
  <2>5. ASSUME NEW i \in 1..Len(b) PROVE b[i] = n + Len(a) + i
    <3>1. Len(a) + i \in 1..m /\ ~ (Len(a) + i <= Len(a)) /\ (Len(a) + i) - Len(a) = i
      BY <1>1, <1>2, <2>2
    <3>2. q[Len(a) + i] = b[i]
      BY <1>1, <2>2, <3>1
    <3>3. q[Len(a) + i] = n + (Len(a) + i)
      BY <2>3, <3>1
    <3>. QED
      BY <3>2, <3>3, <1>2
  <2>. QED
    BY <1>1, <2>2, <2>4, <2>5
<1>5. ASSUME /\ Len(a) + Len(b) = m
             /\ \A i \in 1..Len(a) : a[i] = n + i
             /\ \A i \in 1..Len(b) : b[i] = n + Len(a) + i
      PROVE  q = f
  <2>1. Len(q) = m
    BY <1>1, <1>5
  <2>2. ASSUME NEW i \in 1..m PROVE q[i] = n + i
    <3>1. CASE i <= Len(a)
      <4>1. i \in 1..Len(a) /\ i \in 1..(Len(a) + Len(b))
        BY <1>2, <1>5, <3>1
      <4>. QED
        BY <1>1, <1>5, <3>1, <4>1
    <3>2. CASE ~ (i <= Len(a))
      <4>1. i - Len(a) \in 1..Len(b)
        BY <1>2, <1>5, <3>2
      <4>2. q[i] = b[i - Len(a)]
        BY <1>1, <1>5, <3>2
      <4>3. b[i - Len(a)] = n + Len(a) + (i - Len(a))
        BY <1>5, <4>1
      <4>. QED
        BY <1>2, <4>2, <4>3
    <3>. QED
      BY <3>1, <3>2
  <2>. QED
    BY <1>3, <2>1, <2>2
<1>. QED
  BY <1>4, <1>5 DEF q, After, Beside

-----------------------------------------------------------------------------
(* What the operations do to the queue of a run.                           *)

(* The assumptions on the constants.                                       *)
LEMMA Constants ==
  /\ FlushThreshold \in Nat \ {0} /\ PageLimit \in Nat \ {0} /\ None \notin Nat
  /\ Backends \subseteq {"memory", "jsonl", "db"}
  BY ThresholdAssumption, LimitAssumption, NoneAssumption, BackendsAssumption

OthersKept(r) ==
  \A q \in Runs \ {r} : batch'[q] = batch[q] /\ buffer'[q] = buffer[q] /\ emitted'[q] = emitted[q]

(* A new event is the last in batch and buffer together.                   *)
LEMMA PutFacts ==
  ASSUME TypeOK, NEW r \in Runs, NEW category \in Categories, NEW flush \in BOOLEAN,
         NEW loop \in BOOLEAN, Put(r, category, flush, loop)
  PROVE  /\ emitted' \in [Runs -> Seq(Categories)]
         /\ batch' \in [Runs -> Seq(Nat)] /\ buffer' \in [Runs -> Seq(Nat)]
         /\ OthersKept(r)
         /\ Len(emitted'[r]) = Len(emitted[r]) + 1
         /\ \A i \in 1..Len(emitted[r]) : emitted'[r][i] = emitted[r][i]
         /\ \E b \in Seq(Nat) :
              /\ Len(b) = Len(buffer[r]) + 1 /\ b[Len(buffer[r]) + 1] = Len(emitted[r]) + 1
              /\ \A i \in 1..Len(buffer[r]) : b[i] = buffer[r][i]
              /\ \/ batch[r] = << >> /\ batch'[r] = b /\ buffer'[r] = << >>
                 \/ batch'[r] = batch[r] /\ buffer'[r] = b
<1>. DEFINE e == Append(emitted[r], category)
            b == Append(buffer[r], Len(emitted[r]) + 1)
<1>1. /\ e \in Seq(Categories) /\ Len(e) = Len(emitted[r]) + 1
      /\ \A i \in 1..Len(emitted[r]) : e[i] = emitted[r][i]
  BY AppendProperties DEF TypeOK
<1>2. Len(emitted[r]) + 1 \in Nat
  BY LenProperties DEF TypeOK
<1>3. /\ b \in Seq(Nat) /\ Len(b) = Len(buffer[r]) + 1
      /\ b[Len(buffer[r]) + 1] = Len(emitted[r]) + 1
      /\ \A i \in 1..Len(buffer[r]) : b[i] = buffer[r][i]
  BY <1>2, AppendProperties DEF TypeOK
<1>4. << >> \in Seq(Nat)
  BY EmptySeq
<1>5. /\ emitted' = [emitted EXCEPT ![r] = e]
      /\ \/ /\ batch[r] = << >>
            /\ buffer' = [buffer EXCEPT ![r] = << >>] /\ batch' = [batch EXCEPT ![r] = b]
         \/ buffer' = [buffer EXCEPT ![r] = b] /\ batch' = batch
  BY DEF Put
<1>6. /\ emitted \in [Runs -> Seq(Categories)]
      /\ batch \in [Runs -> Seq(Nat)] /\ buffer \in [Runs -> Seq(Nat)]
  BY DEF TypeOK
<1>. HIDE DEF e, b
<1>7. /\ emitted' \in [Runs -> Seq(Categories)] /\ emitted'[r] = e
      /\ \A q \in Runs \ {r} : emitted'[q] = emitted[q]
  BY <1>1, <1>5, <1>6
<1>8. CASE /\ batch[r] = << >>
           /\ buffer' = [buffer EXCEPT ![r] = << >>] /\ batch' = [batch EXCEPT ![r] = b]
  <2>1. /\ batch' \in [Runs -> Seq(Nat)] /\ buffer' \in [Runs -> Seq(Nat)]
        /\ batch'[r] = b /\ buffer'[r] = << >>
        /\ \A q \in Runs \ {r} : batch'[q] = batch[q] /\ buffer'[q] = buffer[q]
    BY <1>3, <1>4, <1>6, <1>8
  <2>. QED
    BY <1>1, <1>3, <1>7, <1>8, <2>1 DEF OthersKept
<1>9. CASE buffer' = [buffer EXCEPT ![r] = b] /\ batch' = batch
  <2>1. /\ buffer' \in [Runs -> Seq(Nat)] /\ buffer'[r] = b
        /\ \A q \in Runs \ {r} : buffer'[q] = buffer[q]
    BY <1>3, <1>6, <1>9
  <2>. QED
    BY <1>1, <1>3, <1>6, <1>7, <1>9, <2>1 DEF OthersKept
<1>. QED
  BY <1>5, <1>8, <1>9

(* A chunk moves from the front of the buffer to the batch.                *)
LEMMA ChunkFacts ==
  ASSUME TypeOK, NEW r \in Runs, FlushChunk(r)
  PROVE  /\ batch' \in [Runs -> Seq(Nat)] /\ buffer' \in [Runs -> Seq(Nat)]
         /\ OthersKept(r)
         /\ \E k \in 0..Len(buffer[r]) :
              /\ Len(batch'[r]) = k /\ Len(buffer'[r]) = Len(buffer[r]) - k
              /\ \A i \in 1..k : batch'[r][i] = buffer[r][i]
              /\ \A i \in 1..(Len(buffer[r]) - k) : buffer'[r][i] = buffer[r][k + i]
<1>. DEFINE b == buffer[r]
            k == MinNat(FlushThreshold, Len(b))
            front == SubSeq(b, 1, k)
            rest == SubSeq(b, k + 1, Len(b))
<1>1. b \in Seq(Nat) /\ b \in [1..Len(b) -> Nat]
  BY LenProperties DEF TypeOK
<1>n. Len(b) \in Nat
  BY LenProperties DEF TypeOK
<1>2. k \in 0..Len(b)
  BY <1>n, Constants DEF MinNat
<1>3. /\ batch' = [batch EXCEPT ![r] = front] /\ buffer' = [buffer EXCEPT ![r] = rest]
      /\ emitted' = emitted
  BY DEF FlushChunk
<1>. HIDE DEF b, k
<1>4. /\ front \in Seq(Nat) /\ Len(front) = k
      /\ \A i \in 1..k : front[i] = b[i]
  <2>1. \A i \in 1..k : b[i] \in Nat
    BY <1>1, <1>2
  <2>2. /\ front \in Seq(Nat) /\ Len(front) = IF 1 <= k THEN k - 1 + 1 ELSE 0
        /\ \A i \in 1..(k - 1 + 1) : front[i] = b[1 + i - 1]
    BY <1>2, <2>1, SubSeqProperties
  <2>. HIDE DEF front
  <2>. QED
    BY <1>2, <2>2
<1>5. /\ rest \in Seq(Nat) /\ Len(rest) = Len(b) - k
      /\ \A i \in 1..(Len(b) - k) : rest[i] = b[k + i]
  <2>0. k + 1 \in Int /\ Len(b) \in Int
    BY <1>1, <1>n, <1>2
  <2>1. \A i \in (k + 1)..Len(b) : b[i] \in Nat
    BY <1>1, <1>n, <1>2
  <2>2. /\ rest \in Seq(Nat) /\ Len(rest) = IF k + 1 <= Len(b) THEN Len(b) - (k + 1) + 1 ELSE 0
        /\ \A i \in 1..(Len(b) - (k + 1) + 1) : rest[i] = b[k + 1 + i - 1]
    BY <2>0, <2>1, SubSeqProperties
  <2>. HIDE DEF rest
  <2>3. Len(b) - (k + 1) + 1 = Len(b) - k
    BY <1>1, <1>n, <1>2
  <2>4. ASSUME NEW i \in 1..(Len(b) - k) PROVE rest[i] = b[k + i]
    <3>1. k + 1 + i - 1 = k + i
      BY <1>1, <1>n, <1>2
    <3>2. rest[i] = b[k + 1 + i - 1]
      BY <2>2, <2>3
    <3>. QED
      BY <3>1, <3>2
  <2>5. Len(rest) = Len(b) - k
    <3>1. CASE k + 1 <= Len(b)
      BY <2>2, <2>3, <3>1
    <3>2. CASE ~ (k + 1 <= Len(b))
      <4>1. Len(b) - k = 0
        BY <1>n, <1>2, <3>2
      <4>. QED
        BY <2>2, <3>2, <4>1
    <3>. QED
      BY <3>1, <3>2
  <2>. QED
    BY <2>2, <2>4, <2>5
<1>. HIDE DEF front, rest
<1>6. batch \in [Runs -> Seq(Nat)] /\ buffer \in [Runs -> Seq(Nat)]
  BY DEF TypeOK
<1>7. /\ batch' \in [Runs -> Seq(Nat)] /\ buffer' \in [Runs -> Seq(Nat)]
      /\ batch'[r] = front /\ buffer'[r] = rest
      /\ OthersKept(r)
  BY <1>3, <1>4, <1>5, <1>6 DEF OthersKept
<1>. QED
  BY <1>2, <1>4, <1>5, <1>7 DEF b

(* A batch that was refused comes back in front of the buffer.             *)
LEMMA BackFacts ==
  ASSUME TypeOK, NEW r \in Runs, PutBack(r)
  PROVE  /\ batch' \in [Runs -> Seq(Nat)] /\ buffer' \in [Runs -> Seq(Nat)]
         /\ OthersKept(r) /\ emitted' = emitted
         /\ batch'[r] = << >> /\ buffer'[r] = batch[r] \o buffer[r]
         /\ Len(buffer'[r]) = Len(batch[r]) + Len(buffer[r])
         /\ \A i \in 1..(Len(batch[r]) + Len(buffer[r])) :
              buffer'[r][i] = IF i <= Len(batch[r]) THEN batch[r][i] ELSE buffer[r][i - Len(batch[r])]
<1>. DEFINE q == batch[r] \o buffer[r]
<1>1. /\ q \in Seq(Nat) /\ Len(q) = Len(batch[r]) + Len(buffer[r])
      /\ \A i \in 1..(Len(batch[r]) + Len(buffer[r])) :
           q[i] = IF i <= Len(batch[r]) THEN batch[r][i] ELSE buffer[r][i - Len(batch[r])]
  BY ConcatProperties DEF TypeOK
<1>2. /\ buffer' = [buffer EXCEPT ![r] = q] /\ batch' = [batch EXCEPT ![r] = << >>]
      /\ emitted' = emitted
  BY DEF PutBack
<1>3. batch \in [Runs -> Seq(Nat)] /\ buffer \in [Runs -> Seq(Nat)] /\ << >> \in Seq(Nat)
  BY EmptySeq DEF TypeOK
<1>. HIDE DEF q
<1>4. /\ batch' \in [Runs -> Seq(Nat)] /\ buffer' \in [Runs -> Seq(Nat)]
      /\ batch'[r] = << >> /\ buffer'[r] = q /\ OthersKept(r)
  BY <1>1, <1>2, <1>3 DEF OthersKept
<1>. QED
  BY <1>1, <1>2, <1>4 DEF q

(* A batch that was written is gone from the queue.                        *)
LEMMA WrittenFacts ==
  ASSUME TypeOK, NEW r \in Runs, Written(r)
  PROVE  /\ batch' \in [Runs -> Seq(Nat)] /\ buffer' = buffer /\ emitted' = emitted
         /\ batch'[r] = << >> /\ OthersKept(r)
  BY EmptySeq DEF TypeOK, Written, OthersKept
-----------------------------------------------------------------------------
(* The rows.                                                               *)

(* The last number is that of a row.                                       *)
LEMMA TopFacts ==
  ASSUME TypeOK, Top
  PROVE  /\ MaxSeq \in Nat /\ \A w \in rows : w.seq <= MaxSeq
         /\ rows # {} => \E w \in rows : w.seq = MaxSeq
<1>. DEFINE S == {w.seq : w \in rows}
<1>1. \A w \in rows : w.seq \in Nat
  BY DEF TypeOK, Row
<1>2. S \in SUBSET Nat
  BY <1>1
<1>3. PICK top \in Nat : \A n \in S : n <= top
  <2>1. CASE rows = {}
    <3>1. \A n \in S : n <= 0
      BY <2>1
    <3>. QED
      BY <3>1
  <2>2. CASE rows # {}
    BY <1>1, <2>2 DEF Top
  <2>. QED
    BY <2>1, <2>2
<1>4. MaxOf(S) \in Nat /\ (\A n \in S : n <= MaxOf(S)) /\ (S # {} => MaxOf(S) \in S)
  BY <1>2, <1>3, MaxOfFacts
<1>5. rows # {} => S # {}
  OBVIOUS
<1>. QED
  BY <1>4, <1>5 DEF MaxSeq

(* The first k events of a batch get the numbers after n, each its own.    *)
LEMMA NumberedFacts ==
  ASSUME TypeOK, QueuedIsKnown, NEW r \in Runs, NEW k \in 0..Len(batch[r]), NEW n \in Nat
  PROVE  /\ Numbered(r, k, n) \subseteq Row
         /\ \A w \in Numbered(r, k, n) : \E i \in 1..k :
              w.seq = n + i /\ w.run = r /\ w.event = batch[r][i]
         /\ \A i \in 1..k : \E w \in Numbered(r, k, n) :
              w.seq = n + i /\ w.run = r /\ w.event = batch[r][i]
         /\ \A v, w \in Numbered(r, k, n) : v.seq = w.seq => v = w
<1>. DEFINE row(i) == [seq |-> n + i, run |-> r, event |-> batch[r][i],
                       category |-> emitted[r][batch[r][i]]]
<1>1. Numbered(r, k, n) = {row(i) : i \in 1..k}
  BY DEF Numbered
<1>2. Len(batch[r]) \in Nat
  BY LenProperties DEF TypeOK
<1>3. ASSUME NEW i \in 1..k PROVE row(i) \in Row
  <2>1. i \in 1..Len(batch[r]) /\ n + i \in Nat \ {0}
    BY <1>2
  <2>2. batch[r][i] \in 1..Len(emitted[r]) /\ emitted[r] \in Seq(Categories)
    BY <2>1 DEF QueuedIsKnown, TypeOK
  <2>3. emitted[r][batch[r][i]] \in Categories
    BY <2>2, ElementOfSeq
  <2>4. batch[r][i] \in Nat
    BY <2>1, ElementOfSeq DEF TypeOK
  <2>. QED
    BY <2>1, <2>3, <2>4 DEF Row
<1>4. ASSUME NEW v \in Numbered(r, k, n), NEW w \in Numbered(r, k, n), v.seq = w.seq
      PROVE  v = w
  <2>1. PICK i \in 1..k : v = row(i)
    BY <1>1
  <2>2. PICK j \in 1..k : w = row(j)
    BY <1>1
  <2>3. n + i = n + j
    BY <1>4, <2>1, <2>2
  <2>4. i = j
    BY <2>3
  <2>. QED
    BY <2>1, <2>2, <2>4
<1>5. Numbered(r, k, n) \subseteq Row
  BY <1>1, <1>3
<1>6. ASSUME NEW w \in Numbered(r, k, n)
      PROVE  \E i \in 1..k : w.seq = n + i /\ w.run = r /\ w.event = batch[r][i]
  BY <1>1
<1>7. ASSUME NEW i \in 1..k
      PROVE  \E w \in Numbered(r, k, n) : w.seq = n + i /\ w.run = r /\ w.event = batch[r][i]
  <2>1. row(i) \in Numbered(r, k, n)
    BY <1>1
  <2>. QED
    BY <2>1
<1>. QED
  BY <1>4, <1>5, <1>6, <1>7

(* The rows that readers find of the first k events of a batch.            *)
Lost(r) == backend = "jsonl" /\ r \in torn
Legible(r, k, n) == {w \in Numbered(r, k, n) : Lost(r) => w.seq # n + 1}

(* A batch, or the front of one, goes behind all rows.                     *)
Grows(r, k, n) ==
  /\ n \in Nat /\ k \in 0..Len(batch[r]) /\ \A w \in rows : w.seq <= n
  /\ rows' = rows \cup Legible(r, k, n)
  /\ torn' \subseteq Runs /\ glued' \subseteq Runs /\ glued \subseteq glued'
  /\ Lost(r) /\ k > 0 => r \in glued'

(* All but the first are legible, and that one too unless the file is torn. *)
LEMMA LegibleFacts ==
  ASSUME TypeOK, QueuedIsKnown, NEW r \in Runs, NEW k \in 0..Len(batch[r]), NEW n \in Nat
  PROVE  /\ Legible(r, k, n) \subseteq Numbered(r, k, n)
         /\ ~Lost(r) => Legible(r, k, n) = Numbered(r, k, n)
         /\ k = 0 => Legible(r, k, n) = {}
         /\ Legible(r, k, n) # {} => \E w \in Legible(r, k, n) : w.seq = n + k
<1>1. k \in Nat
  BY LenProperties DEF TypeOK
<1>0. /\ Numbered(r, k, n) \subseteq Row
      /\ \A w \in Numbered(r, k, n) : \E i \in 1..k :
           w.seq = n + i /\ w.run = r /\ w.event = batch[r][i]
      /\ \A i \in 1..k : \E w \in Numbered(r, k, n) :
           w.seq = n + i /\ w.run = r /\ w.event = batch[r][i]
      /\ \A v, w \in Numbered(r, k, n) : v.seq = w.seq => v = w
  BY NumberedFacts
<1>2. /\ \A w \in Numbered(r, k, n) : \E i \in 1..k : w.seq = n + i
      /\ \A i \in 1..k : \E w \in Numbered(r, k, n) : w.seq = n + i
  BY <1>0
<1>3. Legible(r, k, n) \subseteq Numbered(r, k, n)
  BY DEF Legible
<1>4. ~Lost(r) => Legible(r, k, n) = Numbered(r, k, n)
  BY DEF Legible
<1>5. k = 0 => Legible(r, k, n) = {}
  BY <1>2, <1>3
<1>6. ASSUME Legible(r, k, n) # {} PROVE \E w \in Legible(r, k, n) : w.seq = n + k
  <2>1. PICK v \in Legible(r, k, n) : TRUE
    BY <1>6
  <2>2. PICK i \in 1..k : v.seq = n + i
    BY <1>2, <1>3
  <2>3. k \in 1..k
    BY <1>1
  <2>4. PICK w \in Numbered(r, k, n) : w.seq = n + k
    BY <1>2, <2>3
  <2>5. CASE i = k
    BY <2>1, <2>2, <2>5
  <2>6. CASE i # k
    <3>1. n + k # n + 1
      BY <1>1, <2>6
    <3>. QED
      BY <2>4, <3>1 DEF Legible
  <2>. QED
    BY <2>5, <2>6
<1>. QED
  BY <1>3, <1>4, <1>5, <1>6

(* New rows come after all others, with numbers of their own.              *)
LEMMA GrowsFacts ==
  ASSUME TypeOK, QueuedIsKnown, NEW r \in Runs, NEW k, NEW n, Grows(r, k, n)
  PROVE  /\ rows' \subseteq Row /\ rows \subseteq rows'
         /\ \A w \in rows' : w \in rows \/ (w.seq > n /\ w.run = r)
         /\ \A w \in rows' : w.seq <= n + k
         /\ ~Lost(r) => \A i \in 1..k : \E w \in rows' : w.run = r /\ w.event = batch[r][i]
         /\ SeqUnique => SeqUnique'
         /\ Top => Top'
<1>1. /\ n \in Nat /\ k \in 0..Len(batch[r]) /\ \A w \in rows : w.seq <= n
      /\ rows' = rows \cup Legible(r, k, n)
  BY DEF Grows
<1>l. /\ Legible(r, k, n) \subseteq Numbered(r, k, n)
      /\ ~Lost(r) => Legible(r, k, n) = Numbered(r, k, n)
      /\ Legible(r, k, n) # {} => \E w \in Legible(r, k, n) : w.seq = n + k
  BY <1>1, LegibleFacts
<1>2. /\ Numbered(r, k, n) \subseteq Row
      /\ \A w \in Numbered(r, k, n) : \E i \in 1..k :
           w.seq = n + i /\ w.run = r /\ w.event = batch[r][i]
      /\ \A i \in 1..k : \E w \in Numbered(r, k, n) :
           w.seq = n + i /\ w.run = r /\ w.event = batch[r][i]
      /\ \A v, w \in Numbered(r, k, n) : v.seq = w.seq => v = w
  BY <1>1, NumberedFacts
<1>3. k \in Nat
  BY <1>1, LenProperties DEF TypeOK
<1>4. \A w \in Numbered(r, k, n) : w.seq > n /\ w.seq <= n + k /\ w.run = r
  BY <1>1, <1>2, <1>3
<1>5. \A w \in rows : w.seq \in Nat
  BY DEF TypeOK, Row
<1>6. rows' \subseteq Row
  BY <1>1, <1>l, <1>2 DEF TypeOK
<1>7. \A w \in rows' : w.seq <= n + k
  BY <1>1, <1>l, <1>3, <1>4, <1>5
<1>8. SeqUnique => SeqUnique'
  <2>. SUFFICES ASSUME SeqUnique, NEW v \in rows', NEW w \in rows', v.seq = w.seq PROVE v = w
    BY DEF SeqUnique
  <2>1. v \in rows <=> w \in rows
    BY <1>1, <1>l, <1>4, <1>5
  <2>. QED
    BY <1>1, <1>l, <1>2, <2>1 DEF SeqUnique
<1>9. Top => Top'
  <2>1. CASE Legible(r, k, n) = {}
    <3>1. rows' = rows
      BY <1>1, <2>1
    <3>. QED
      BY <3>1 DEF Top
  <2>2. CASE Legible(r, k, n) # {}
    <3>1. PICK w \in Legible(r, k, n) : w.seq = n + k
      BY <1>l, <2>2
    <3>. QED
      BY <1>1, <1>7, <3>1 DEF Top
  <2>. QED
    BY <2>1, <2>2
<1>10. \A w \in rows' : w \in rows \/ (w.seq > n /\ w.run = r)
  BY <1>1, <1>l, <1>4
<1>11. ASSUME ~Lost(r), NEW i \in 1..k
       PROVE  \E w \in rows' : w.run = r /\ w.event = batch[r][i]
  BY <1>1, <1>l, <1>2, <1>11
<1>12. rows \subseteq rows'
  BY <1>1
<1>. QED
  BY <1>6, <1>7, <1>8, <1>9, <1>10, <1>11, <1>12

(* What the actions that write a batch have in common.                     *)
Stores(r, k, n) ==
  /\ Grows(r, k, n) /\ counter' \in Nat /\ (backend # "db" => n + k <= counter')
  /\ \/ Written(r) /\ k = Len(batch[r])
     \/ PutBack(r) /\ backend = "jsonl"

(* Every store adds its rows behind those it has.                          *)
LEMMA StoresFacts ==
  ASSUME TypeOK, Top, CounterAhead, NEW r \in Runs,
         PutMemory(r) \/ PutJsonl(r) \/ PutJsonlPartly(r) \/ Commit(r)
  PROVE  \E k, n : Stores(r, k, n)
<1>1. /\ Len(batch[r]) \in Nat /\ Len(batch[r]) \in 0..Len(batch[r]) /\ counter \in Nat
  BY LenProperties DEF TypeOK
<1>t. torn \subseteq Runs /\ glued \subseteq Runs
  BY DEF TypeOK
<1>w. ASSUME backend # "jsonl", NEW k, NEW n PROVE Legible(r, k, n) = Numbered(r, k, n)
  BY <1>w DEF Legible, Lost
<1>a. ASSUME NEW k \in Nat, AppendLines(r, k), backend = "jsonl"
      PROVE  /\ rows' = rows \cup Legible(r, k, counter)
             /\ glued' \subseteq Runs /\ glued \subseteq glued'
             /\ Lost(r) /\ k > 0 => r \in glued'
  BY <1>a, <1>t DEF AppendLines, Legible, Lost
<1>2. CASE PutMemory(r)
  <2>1. backend # "jsonl" /\ ~Lost(r)
    BY <1>2 DEF PutMemory, Lost
  <2>2. Stores(r, Len(batch[r]), counter)
    BY <1>1, <1>2, <1>t, <1>w, <2>1 DEF PutMemory, Stores, Grows, CounterAhead
  <2>. QED
    BY <2>2
<1>5. CASE PutJsonl(r)
  <2>1. /\ backend = "jsonl" /\ AppendLines(r, Len(batch[r])) /\ torn' \subseteq Runs
        /\ counter' = counter + Len(batch[r]) /\ Written(r)
    BY <1>5, <1>t DEF PutJsonl
  <2>2. Stores(r, Len(batch[r]), counter)
    BY <1>1, <1>a, <2>1 DEF Stores, Grows, CounterAhead
  <2>. QED
    BY <2>2
<1>3. CASE PutJsonlPartly(r)
  <2>1. PICK k \in 0..(Len(batch[r]) - 1) :
          /\ AppendLines(r, k) /\ counter' = counter + k + 1
          /\ torn' \in {torn \cup {r}, IF k > 0 THEN torn \ {r} ELSE torn}
    BY <1>3 DEF PutJsonlPartly
  <2>2. torn' \subseteq Runs /\ k \in Nat /\ k \in 0..Len(batch[r])
    BY <1>1, <1>t, <2>1
  <2>3. backend = "jsonl" /\ PutBack(r)
    BY <1>3 DEF PutJsonlPartly
  <2>4. Stores(r, k, counter)
    BY <1>1, <1>a, <2>1, <2>2, <2>3 DEF Stores, Grows, CounterAhead
  <2>. QED
    BY <2>4
<1>4. CASE Commit(r)
  <2>1. MaxSeq \in Nat /\ \A w \in rows : w.seq <= MaxSeq
    BY TopFacts
  <2>2. backend # "jsonl" /\ ~Lost(r)
    BY <1>4 DEF Commit, Lost
  <2>3. Stores(r, Len(batch[r]), MaxSeq)
    BY <1>1, <1>4, <1>t, <1>w, <2>1, <2>2 DEF Commit, Stores, Grows
  <2>. QED
    BY <2>3
<1>. QED
  BY <1>2, <1>3, <1>4, <1>5
-----------------------------------------------------------------------------
(* Types.                                                                  *)

Records(r, category) ==
  /\ phase[r] = "running"
  /\ \E flush, loop \in BOOLEAN : Put(r, category, flush, loop)
  /\ UNCHANGED <<backend, phase, highest, storeVars, clientVars>>

(* The kinds of steps.                                                     *)
LEMMA Kinds ==
  ASSUME TypeOK, Top, CounterAhead, Next
  PROVE  \/ \E r \in Runs, category \in Categories : Records(r, category)
         \/ \E r \in Runs : \/ Start(r) \/ Finish(r) \/ ReadHighest(r)
                            \/ FlushDone(r) \/ FlushChunk(r) \/ Refused(r)
         \/ \E r \in Runs : \E k, n : Stores(r, k, n)
         \/ Crash \/ Follow \/ NextPage
         \/ \E r \in Runs, dir \in {"forward", "backward"} : OpenPager(r, dir)
<1>1. ASSUME NEW r \in Runs, NEW category \in Categories, NEW flush \in BOOLEAN,
             Record(r, category, flush)
      PROVE  Records(r, category)
  BY <1>1 DEF Record, Records
<1>2. ASSUME NEW r \in Runs, ChainStart(r) \/ RecordTrace(r) \/ RecordMessage(r) \/ ChainEnd(r)
      PROVE  \E category \in Categories : Records(r, category)
  BY <1>1, <1>2 DEF ChainStart, RecordTrace, RecordMessage, ChainEnd, Categories
<1>3. ASSUME NEW r \in Runs, WriteStep(r)
      PROVE  ReadHighest(r) \/ Refused(r) \/ \E k, n : Stores(r, k, n)
  BY <1>3, StoresFacts DEF WriteStep
<1>. QED
  BY <1>2, <1>3 DEF Next

(* The types hold at the start.                                            *)
LEMMA TypeInit == Init => TypeOK
<1>. SUFFICES ASSUME Init PROVE TypeOK
  OBVIOUS
<1>1. << >> \in Seq(Nat) /\ << >> \in Seq(Categories)
  BY EmptySeq
<1>. QED
  BY <1>1 DEF Init, TypeOK, Phases, NoPager

(* The ends of a page are numbers.                                         *)
LEMMA PageType ==
  ASSUME NEW S \in SUBSET Nat, NEW top \in Nat, \A n \in S : n <= top, S # {}
  PROVE  /\ MaxOf(S) \in Nat
         /\ (CHOOSE m \in S : \A n \in S : m <= n) \in Nat
<1>1. \E m \in S : \A n \in S : m <= n
  BY LeastOf
<1>. QED
  BY <1>1, MaxOfFacts

(* The numbers of messages are those of rows.                              *)
LEMMA MessagesFacts ==
  ASSUME TypeOK, Top
  PROVE  /\ Messages \in SUBSET Nat /\ \A n \in Messages : n <= MaxSeq
         /\ \A r : MessagesOf(r) \subseteq Messages
         /\ \A n \in Messages : \E w \in rows : w.seq = n
<1>1. \A w \in rows : w.seq \in Nat
  BY DEF TypeOK, Row
<1>. QED
  BY <1>1, TopFacts DEF Messages, MessagesOf

(* A page of a client.                                                     *)
Found(p, S) == IF p.dir = "forward" THEN PageAfter(S, p.cursor, PageLimit + 1)
               ELSE PageBefore(S, p.cursor, PageLimit + 1)

(* A page holds only what was asked for.                                   *)
LEMMA FoundFacts ==
  ASSUME NEW S, NEW p, NEW k
  PROVE  FirstOf(Found(p, S), k) \subseteq S /\ Found(p, S) \subseteq S
  BY DEF Found, PageAfter, PageBefore, FirstOf, LastOf

(* What a client has after its next page.                                  *)
LEMMA NextPageFacts ==
  ASSUME TypeOK, Top, NextPage
  PROVE  LET S == MessagesOf(pager.run)
             page == FirstOf(Found(pager, S), PageLimit)
         IN  /\ pager'.run = pager.run /\ pager'.dir = pager.dir /\ pager.more
             /\ pager.run \in Runs
             /\ pager'.given = pager.given \cup page
             /\ pager'.more = (Cardinality(Found(pager, S)) > PageLimit)
             /\ page = {} => pager'.cursor = pager.cursor
             /\ page # {} /\ pager.dir = "forward" => pager'.cursor = MaxOf(page)
             /\ page \in SUBSET Nat /\ \A n \in page : n <= MaxSeq
             /\ pager' \in [run : Runs \cup {None}, dir : {"forward", "backward"},
                            cursor : Nat \cup {None}, given : SUBSET Nat, more : BOOLEAN]
             /\ UNCHANGED <<backend, phase, journalVars, storeVars, follower>>
<1>. DEFINE S == MessagesOf(pager.run)
            found == Found(pager, S)
            page == FirstOf(found, PageLimit)
            most == Cardinality(found) > PageLimit
            place == IF page = {} THEN pager.cursor
                     ELSE IF pager.dir = "forward" THEN MaxOf(page)
                     ELSE CHOOSE m \in page : \A n \in page : m <= n
<1>1. /\ pager' = [pager EXCEPT !.given = pager.given \cup page, !.more = most, !.cursor = place]
      /\ pager.run # None /\ pager.more
      /\ UNCHANGED <<backend, phase, journalVars, storeVars, follower>>
  BY DEF NextPage, Found
<1>2. page \in SUBSET Nat /\ \A n \in page : n <= MaxSeq
  <2>1. page \subseteq S
    BY FoundFacts
  <2>2. S \subseteq Messages
    BY MessagesFacts
  <2>. QED
    BY <2>1, <2>2, MessagesFacts
<1>3. place \in Nat \cup {None}
  <2>1. CASE page = {}
    BY <2>1 DEF TypeOK
  <2>2. CASE page # {}
    BY <1>2, <2>2, TopFacts, PageType
  <2>. QED
    BY <2>1, <2>2
<1>4. most \in BOOLEAN
  OBVIOUS
<1>5. /\ pager \in [run : Runs \cup {None}, dir : {"forward", "backward"},
                    cursor : Nat \cup {None}, given : SUBSET Nat, more : BOOLEAN]
  BY DEF TypeOK
<1>6. (page = {} => place = pager.cursor)
      /\ (page # {} /\ pager.dir = "forward" => place = MaxOf(page))
  OBVIOUS
<1>. HIDE DEF S, found, page, most, place
<1>7. /\ pager'.run = pager.run /\ pager'.dir = pager.dir
      /\ pager'.given = pager.given \cup page /\ pager'.more = most /\ pager'.cursor = place
      /\ pager' \in [run : Runs \cup {None}, dir : {"forward", "backward"},
                     cursor : Nat \cup {None}, given : SUBSET Nat, more : BOOLEAN]
  BY <1>1, <1>2, <1>3, <1>4, <1>5
<1>8. pager.run \in Runs
  BY <1>1, <1>5
<1>. QED
  BY <1>1, <1>2, <1>6, <1>7, <1>8 DEF S, found, page, most
(* A step of a run changes its own phase.                                  *)
LEMMA PhaseFacts ==
  ASSUME TypeOK, NEW r \in Runs, NEW where \in Phases, Goto(r, where)
  PROVE  /\ phase' \in [Runs -> Phases] /\ phase'[r] = where
         /\ \A q \in Runs \ {r} : phase'[q] = phase[q]
  BY DEF TypeOK, Goto

(* The phase of a run after its batch was written or refused.              *)
LEMMA StoresPhase ==
  ASSUME TypeOK, NEW r \in Runs, Written(r) \/ PutBack(r)
  PROVE  /\ phase' \in [Runs -> Phases] /\ highest' \in [Runs -> Nat \cup {None}]
         /\ \A q \in Runs \ {r} : phase'[q] = phase[q]
         /\ phase[r] # "writing" => phase'[r] = phase[r]
         /\ phase[r] = "writing" => phase'[r] \in {"flushing", "failed"}
  BY DEF TypeOK, Goto, Phases, Written, PutBack

(* What a client has after its next poll.                                  *)
LEMMA FollowFacts ==
  ASSUME TypeOK, Top, Follow
  PROVE  LET page == PageAfter(Messages, follower.after, PageLimit) IN
         /\ page # {} /\ page \in SUBSET Nat /\ \A n \in page : n <= MaxSeq
         /\ page \subseteq Messages
         /\ follower'.after = MaxOf(page) /\ follower'.given = follower.given \cup page
         /\ follower' \in [after : Nat, given : SUBSET Nat]
<1>. DEFINE page == PageAfter(Messages, follower.after, PageLimit)
<1>1. page # {} /\ follower' = [after |-> MaxOf(page), given |-> follower.given \cup page]
  BY DEF Follow
<1>2. page \subseteq Messages
  BY DEF PageAfter, FirstOf
<1>3. page \in SUBSET Nat /\ \A n \in page : n <= MaxSeq
  BY <1>2, MessagesFacts
<1>4. MaxOf(page) \in Nat
  BY <1>1, <1>3, TopFacts, PageType
<1>5. follower.given \in SUBSET Nat
  BY DEF TypeOK
<1>. HIDE DEF page
<1>6. follower' \in [after : Nat, given : SUBSET Nat]
  BY <1>1, <1>3, <1>4, <1>5
<1>. QED
  BY <1>1, <1>2, <1>3, <1>6 DEF page

(* Every step keeps the types.                                             *)
LEMMA TypeInv ==
  ASSUME TypeOK, Top, CounterAhead, QueuedIsKnown, [Next]_vars PROVE TypeOK'
<1>. USE DEF journalVars, storeVars, clientVars
<1>1. ASSUME NEW r \in Runs, NEW category \in Categories, Records(r, category) PROVE TypeOK'
  <2>1. /\ emitted' \in [Runs -> Seq(Categories)]
        /\ batch' \in [Runs -> Seq(Nat)] /\ buffer' \in [Runs -> Seq(Nat)]
    BY <1>1, PutFacts DEF Records
  <2>2. UNCHANGED <<backend, phase, highest, rows, counter, torn, glued, follower, pager>>
    BY <1>1 DEF Records
  <2>. QED
    BY <2>1, <2>2 DEF TypeOK
<1>2. ASSUME NEW r \in Runs, Start(r) \/ Finish(r) \/ FlushDone(r) PROVE TypeOK'
  <2>1. phase' \in [Runs -> Phases]
    BY <1>2, PhaseFacts DEF Phases, Start, Finish, FlushDone
  <2>. QED
    BY <1>2, <2>1 DEF TypeOK, Start, Finish, FlushDone
<1>3. ASSUME NEW r \in Runs, ReadHighest(r) PROVE TypeOK'
  <2>1. MaxSeq \in Nat
    BY TopFacts
  <2>. QED
    BY <1>3, <2>1 DEF TypeOK, ReadHighest
<1>4. ASSUME NEW r \in Runs, FlushChunk(r) PROVE TypeOK'
  <2>1. phase' \in [Runs -> Phases]
    BY <1>4, PhaseFacts DEF Phases, FlushChunk
  <2>. QED
    BY <1>4, <2>1, ChunkFacts DEF TypeOK, FlushChunk
<1>5. ASSUME NEW r \in Runs, Refused(r) PROVE TypeOK'
  <2>1. PutBack(r) /\ UNCHANGED storeVars
    BY <1>5 DEF Refused
  <2>. QED
    BY <2>1, StoresPhase, BackFacts DEF TypeOK, PutBack
<1>6. ASSUME NEW r \in Runs, NEW k, NEW n, Stores(r, k, n) PROVE TypeOK'
  <2>1. rows' \subseteq Row /\ counter' \in Nat /\ torn' \subseteq Runs /\ glued' \subseteq Runs
    BY <1>6, GrowsFacts DEF Stores, Grows
  <2>2. CASE Written(r)
    BY <2>1, <2>2, StoresPhase, WrittenFacts DEF TypeOK, Written
  <2>3. CASE PutBack(r)
    BY <2>1, <2>3, StoresPhase, BackFacts DEF TypeOK, PutBack
  <2>. QED
    BY <1>6, <2>2, <2>3 DEF Stores
<1>7. CASE Crash
  <2>1. << >> \in Seq(Nat) /\ MaxSeq \in Nat
    BY EmptySeq, TopFacts
  <2>2. phase' \in [Runs -> Phases]
    BY <1>7 DEF TypeOK, Crash, Phases
  <2>. QED
    BY <1>7, <2>1, <2>2 DEF TypeOK, Crash
<1>8. CASE Follow
  BY <1>8, FollowFacts DEF TypeOK, Follow
<1>9. CASE NextPage
  BY <1>9, NextPageFacts DEF TypeOK
<1>10. ASSUME NEW r \in Runs, NEW dir \in {"forward", "backward"}, OpenPager(r, dir) PROVE TypeOK'
  BY <1>10 DEF TypeOK, OpenPager
<1>11. CASE UNCHANGED vars
  BY <1>11 DEF TypeOK, vars
<1>. QED
  BY <1>1, <1>2, <1>3, <1>4, <1>5, <1>6, <1>7, <1>8, <1>9, <1>10, <1>11, Kinds
-----------------------------------------------------------------------------
(* What waits to be written.                                               *)

(* The steps that leave the queues and what they hold as they are.         *)
QueuesKept == UNCHANGED <<emitted, buffer, batch>>

(* What a step can do to the events that wait.                             *)
LEMMA QueueSteps ==
  ASSUME TypeOK, Top, CounterAhead, [Next]_vars
  PROVE  \/ \E r \in Runs, category \in Categories : Records(r, category)
         \/ \E r \in Runs : FlushChunk(r)
         \/ \E r \in Runs : PutBack(r)
         \/ \E r \in Runs : Written(r)
         \/ Crash
         \/ QueuesKept
<1>. USE DEF journalVars, QueuesKept
<1>1. ASSUME NEW r \in Runs, Start(r) \/ Finish(r) \/ ReadHighest(r) \/ FlushDone(r)
      PROVE  QueuesKept
  BY <1>1 DEF Start, Finish, ReadHighest, FlushDone
<1>2. ASSUME NEW r \in Runs, NEW k, NEW n, Stores(r, k, n) PROVE Written(r) \/ PutBack(r)
  BY <1>2 DEF Stores
<1>3. Follow \/ NextPage \/ (\E r \in Runs, dir \in {"forward", "backward"} : OpenPager(r, dir))
      \/ UNCHANGED vars => QueuesKept
  BY DEF Follow, NextPage, OpenPager, vars
<1>. QED
  BY <1>1, <1>2, <1>3, Kinds DEF Refused

(* A crash empties what waits in memory.                                   *)
LEMMA CrashFacts ==
  ASSUME TypeOK, Crash, NEW r \in Runs
  PROVE  /\ batch'[r] = << >> /\ buffer'[r] = << >> /\ emitted' = emitted
         /\ phase'[r] = IF Survives(r) THEN phase[r] ELSE "lost"
  BY DEF Crash

(* What waits to be written was recorded: every step keeps it.             *)
LEMMA KnownInv ==
  ASSUME TypeOK, Top, CounterAhead, QueuedIsKnown, [Next]_vars PROVE QueuedIsKnown'
<1>0. \A r \in Runs : Len(batch[r]) \in Nat /\ Len(buffer[r]) \in Nat /\ Len(emitted[r]) \in Nat
  BY LenProperties DEF TypeOK
<1>e. 1..Len(<< >>) = {}
  BY EmptySeq
<1>. DEFINE Known(r) == /\ \A i \in 1..Len(batch[r]) : batch[r][i] \in 1..Len(emitted[r])
                        /\ \A i \in 1..Len(buffer[r]) : buffer[r][i] \in 1..Len(emitted[r])
<1>f. ASSUME NEW r \in Runs, OthersKept(r), Known(r)' PROVE QueuedIsKnown'
  BY <1>f DEF QueuedIsKnown, OthersKept
<1>1. ASSUME NEW r \in Runs, NEW category \in Categories, Records(r, category)
      PROVE  QueuedIsKnown'
  <2>0. PICK flush \in BOOLEAN, loop \in BOOLEAN : Put(r, category, flush, loop)
    BY <1>1 DEF Records
  <2>1. OthersKept(r) /\ Len(emitted'[r]) = Len(emitted[r]) + 1
    BY <2>0, PutFacts
  <2>2. PICK b \in Seq(Nat) :
          /\ Len(b) = Len(buffer[r]) + 1 /\ b[Len(buffer[r]) + 1] = Len(emitted[r]) + 1
          /\ \A i \in 1..Len(buffer[r]) : b[i] = buffer[r][i]
          /\ \/ batch[r] = << >> /\ batch'[r] = b /\ buffer'[r] = << >>
             \/ batch'[r] = batch[r] /\ buffer'[r] = b
    BY <2>0, PutFacts
  <2>3. ASSUME NEW i \in 1..Len(b) PROVE b[i] \in 1..Len(emitted'[r])
    <3>1. CASE i = Len(buffer[r]) + 1
      BY <1>0, <2>1, <2>2, <3>1
    <3>2. CASE i # Len(buffer[r]) + 1
      <4>1. i \in 1..Len(buffer[r])
        BY <1>0, <2>2, <3>2
      <4>2. buffer[r][i] \in 1..Len(emitted[r])
        BY <4>1 DEF QueuedIsKnown
      <4>3. b[i] = buffer[r][i]
        BY <2>2, <4>1
      <4>. QED
        BY <1>0, <2>1, <4>2, <4>3
    <3>. QED
      BY <3>1, <3>2
  <2>4. ASSUME NEW i \in 1..Len(batch[r]) PROVE batch[r][i] \in 1..Len(emitted'[r])
    BY <1>0, <2>1 DEF QueuedIsKnown
  <2>5. /\ \A i \in 1..Len(batch'[r]) : batch'[r][i] \in 1..Len(emitted'[r])
        /\ \A i \in 1..Len(buffer'[r]) : buffer'[r][i] \in 1..Len(emitted'[r])
    BY <1>e, <2>2, <2>3, <2>4
  <2>. QED
    BY <1>f, <2>1, <2>5
<1>2. ASSUME NEW r \in Runs, FlushChunk(r) PROVE QueuedIsKnown'
  <2>1. OthersKept(r) /\ emitted' = emitted
    BY <1>2, ChunkFacts DEF FlushChunk
  <2>2. PICK k \in 0..Len(buffer[r]) :
          /\ Len(batch'[r]) = k /\ Len(buffer'[r]) = Len(buffer[r]) - k
          /\ \A i \in 1..k : batch'[r][i] = buffer[r][i]
          /\ \A i \in 1..(Len(buffer[r]) - k) : buffer'[r][i] = buffer[r][k + i]
    BY <1>2, ChunkFacts
  <2>3. \A i \in 1..k : i \in 1..Len(buffer[r])
    BY <1>0
  <2>4. \A i \in 1..(Len(buffer[r]) - k) : k + i \in 1..Len(buffer[r])
    BY <1>0
  <2>5. /\ \A i \in 1..Len(batch'[r]) : batch'[r][i] \in 1..Len(emitted'[r])
        /\ \A i \in 1..Len(buffer'[r]) : buffer'[r][i] \in 1..Len(emitted'[r])
    BY <2>1, <2>2, <2>3, <2>4 DEF QueuedIsKnown
  <2>. QED
    BY <1>f, <2>1, <2>5
<1>3. ASSUME NEW r \in Runs, PutBack(r) PROVE QueuedIsKnown'
  <2>1. /\ OthersKept(r) /\ emitted' = emitted /\ batch'[r] = << >>
        /\ Len(buffer'[r]) = Len(batch[r]) + Len(buffer[r])
        /\ \A i \in 1..(Len(batch[r]) + Len(buffer[r])) :
             buffer'[r][i] = IF i <= Len(batch[r]) THEN batch[r][i] ELSE buffer[r][i - Len(batch[r])]
    BY <1>3, BackFacts
  <2>2. ASSUME NEW i \in 1..Len(buffer'[r]) PROVE buffer'[r][i] \in 1..Len(emitted'[r])
    <3>1. CASE i <= Len(batch[r])
      <4>1. i \in 1..Len(batch[r])
        BY <1>0, <2>1, <3>1
      <4>. QED
        BY <2>1, <3>1, <4>1 DEF QueuedIsKnown
    <3>2. CASE ~ (i <= Len(batch[r]))
      <4>1. i - Len(batch[r]) \in 1..Len(buffer[r])
        <5>1. i \in 1..(Len(batch[r]) + Len(buffer[r]))
          BY <2>1
        <5>2. Len(batch[r]) \in Nat /\ Len(buffer[r]) \in Nat
          BY <1>0
        <5>. QED
          BY <3>2, <5>1, <5>2, BesideFacts, Zenon
      <4>. QED
        BY <2>1, <3>2, <4>1 DEF QueuedIsKnown
    <3>. QED
      BY <3>1, <3>2
  <2>. QED
    BY <1>e, <1>f, <2>1, <2>2
<1>4. ASSUME NEW r \in Runs, Written(r) PROVE QueuedIsKnown'
  <2>1. OthersKept(r) /\ emitted' = emitted /\ buffer' = buffer /\ batch'[r] = << >>
    BY <1>4, WrittenFacts
  <2>2. \A i \in 1..Len(buffer[r]) : buffer[r][i] \in 1..Len(emitted[r])
    BY DEF QueuedIsKnown
  <2>. QED
    BY <1>e, <1>f, <2>1, <2>2
<1>5. CASE Crash
  BY <1>5, <1>e, CrashFacts DEF QueuedIsKnown
<1>6. CASE QueuesKept
  BY <1>6 DEF QueuesKept, QueuedIsKnown
<1>. QED
  BY <1>1, <1>2, <1>3, <1>4, <1>5, <1>6, QueueSteps

(* Nothing waits when batch and buffer are empty.                          *)
LEMMA QueueEmpty ==
  ASSUME NEW a \in Seq(Nat), NEW b \in Seq(Nat)
  PROVE  a \o b = << >> <=> a = << >> /\ b = << >>
  BY ConcatEqualIffEmpty

(* Every step keeps the order of the phases.                               *)
LEMMA FitInv ==
  ASSUME TypeOK, Top, CounterAhead, PhasesFit, [Next]_vars PROVE PhasesFit'
<1>0. \A r \in Runs : batch[r] \in Seq(Nat) /\ buffer[r] \in Seq(Nat) /\ phase[r] \in Phases
  BY DEF TypeOK
<1>e. << >> \in Seq(Nat) /\ << >> \o << >> = << >>
  BY EmptySeq, QueueEmpty
<1>. DEFINE Fits(r) == /\ phase[r] = "new" => emitted[r] = << >>
                       /\ phase[r] \in Over => batch[r] = << >>
                       /\ phase[r] \in {"new", "ended", "lost"} => Queued(r) = << >>
<1>f. ASSUME NEW r \in Runs, OthersKept(r), \A q \in Runs \ {r} : phase'[q] = phase[q], Fits(r)'
      PROVE  PhasesFit'
  BY <1>f DEF PhasesFit, OthersKept, Queued
<1>1. ASSUME NEW r \in Runs, NEW category \in Categories, Records(r, category)
      PROVE  PhasesFit'
  <2>1. OthersKept(r) /\ phase' = phase /\ phase[r] = "running"
    BY <1>1, PutFacts DEF Records
  <2>. QED
    BY <1>f, <2>1 DEF Over
<1>2. ASSUME NEW r \in Runs, Start(r) \/ Finish(r) \/ FlushDone(r) PROVE PhasesFit'
  <2>1. /\ OthersKept(r) /\ UNCHANGED <<emitted, batch, buffer>>
        /\ \A q \in Runs \ {r} : phase'[q] = phase[q]
    BY <1>2, PhaseFacts DEF Phases, Start, Finish, FlushDone, OthersKept, journalVars
  <2>2. CASE FlushDone(r)
    BY <1>e, <1>f, <2>1, <2>2 DEF FlushDone, Queued, Goto, TypeOK
  <2>3. CASE Start(r) \/ Finish(r)
    <3>1. phase'[r] \in {"running", "flushing"}
      BY <2>3, PhaseFacts DEF Start, Finish, Phases
    <3>. QED
      BY <1>f, <2>1, <3>1 DEF Over
  <2>. QED
    BY <1>2, <2>2, <2>3
<1>3. ASSUME NEW r \in Runs, ReadHighest(r) PROVE PhasesFit'
  BY <1>3 DEF ReadHighest, PhasesFit, Queued
<1>4. ASSUME NEW r \in Runs, FlushChunk(r) PROVE PhasesFit'
  <2>1. phase'[r] = "writing" /\ \A q \in Runs \ {r} : phase'[q] = phase[q]
    BY <1>4, PhaseFacts DEF FlushChunk, Phases
  <2>2. OthersKept(r)
    BY <1>4, ChunkFacts
  <2>. QED
    BY <1>f, <2>1, <2>2 DEF Over
<1>5. ASSUME NEW r \in Runs, Written(r) \/ PutBack(r) PROVE PhasesFit'
  <2>1. /\ OthersKept(r) /\ emitted' = emitted /\ batch'[r] = << >>
        /\ buffer'[r] = buffer[r] \/ buffer'[r] = batch[r] \o buffer[r]
    BY <1>5, WrittenFacts, BackFacts
  <2>2. /\ \A q \in Runs \ {r} : phase'[q] = phase[q]
        /\ phase'[r] = phase[r] \/ phase'[r] \in {"flushing", "failed"}
    BY <1>5, StoresPhase
  <2>3. Fits(r)'
    <3>1. CASE phase'[r] \in {"flushing", "failed"}
      BY <2>1, <3>1
    <3>2. CASE phase'[r] \notin {"flushing", "failed"}
      <4>1. phase'[r] = phase[r]
        BY <2>2, <3>2
      <4>2. ASSUME phase[r] \in {"new", "ended", "lost"} PROVE batch'[r] \o buffer'[r] = << >>
        <5>1. batch[r] \o buffer[r] = << >>
          BY <4>2 DEF PhasesFit, Queued
        <5>2. batch[r] = << >> /\ buffer[r] = << >>
          BY <1>0, <5>1, QueueEmpty
        <5>. QED
          BY <1>e, <2>1, <5>1, <5>2
      <4>. QED
        BY <2>1, <4>1, <4>2 DEF PhasesFit, Queued
    <3>. QED
      BY <3>1, <3>2
  <2>. QED
    BY <1>f, <2>1, <2>2, <2>3
<1>6. CASE Crash
  BY <1>6, <1>e, CrashFacts DEF PhasesFit, Survives, Over, Queued
<1>7. ASSUME UNCHANGED <<phase, emitted, batch, buffer>> PROVE PhasesFit'
  BY <1>7 DEF PhasesFit, Queued
<1>8. Follow \/ NextPage \/ (\E r \in Runs, dir \in {"forward", "backward"} : OpenPager(r, dir))
      \/ UNCHANGED vars => PhasesFit'
  BY <1>7 DEF Follow, NextPage, OpenPager, vars, journalVars
<1>. QED
  BY <1>1, <1>2, <1>3, <1>4, <1>5, <1>6, <1>8, Kinds DEF Stores, Refused
-----------------------------------------------------------------------------
(* Nothing is lost.                                                        *)

(* What a step can do to the rows.                                         *)
LEMMA RowSteps ==
  ASSUME TypeOK, Top, CounterAhead, [Next]_vars
  PROVE  /\ backend' = backend
         /\ \/ \E r \in Runs : \E k, n : Stores(r, k, n)
            \/ UNCHANGED <<rows, counter>>
            \/ Crash
         /\ glued \subseteq glued'
<1>. USE DEF storeVars
<1>1. ASSUME NEW r \in Runs, Start(r) \/ Finish(r) \/ ReadHighest(r) \/ FlushDone(r)
                             \/ FlushChunk(r) \/ Refused(r)
      PROVE  UNCHANGED <<backend, rows, counter, glued>>
  BY <1>1 DEF Start, Finish, ReadHighest, FlushDone, FlushChunk, Refused, PutBack
<1>2. ASSUME NEW r \in Runs, NEW k, NEW n, Stores(r, k, n) PROVE backend' = backend /\ glued \subseteq glued'
  BY <1>2 DEF Stores, Written, PutBack, Grows
<1>3. Follow \/ NextPage \/ (\E r \in Runs, dir \in {"forward", "backward"} : OpenPager(r, dir))
      \/ UNCHANGED vars => UNCHANGED <<backend, rows, counter, glued>>
  BY DEF Follow, NextPage, OpenPager, vars
<1>4. ASSUME NEW r \in Runs, NEW category \in Categories, Records(r, category)
      PROVE  UNCHANGED <<backend, rows, counter, glued>>
  BY <1>4 DEF Records
<1>. QED
  BY <1>1, <1>2, <1>3, <1>4, Kinds DEF Crash

(* A crash excepted, no step takes rows away, brings a run back or ends it *)
(* but FlushDone.                                                          *)
LEMMA Onwards ==
  ASSUME TypeOK, Top, CounterAhead, QueuedIsKnown, [Next]_vars, ~Crash
  PROVE  /\ rows \subseteq rows'
         /\ \A r \in Runs : phase[r] = "lost" <=> phase'[r] = "lost"
         /\ \A r \in Runs : phase'[r] = "ended" => phase[r] = "ended" \/ FlushDone(r)
         /\ \A r \in Runs : phase[r] \in Over => phase'[r] = phase[r]
<1>1. rows \subseteq rows'
  BY RowSteps, GrowsFacts DEF Stores
<1>. DEFINE Goes(r) == /\ phase[r] = "lost" <=> phase'[r] = "lost"
                       /\ phase'[r] = "ended" => phase[r] = "ended" \/ FlushDone(r)
                       /\ phase[r] \in Over => phase'[r] = phase[r]
<1>. SUFFICES \A q \in Runs : Goes(q)
  BY <1>1
<1>2. ASSUME NEW r \in Runs, Start(r) \/ Finish(r) \/ FlushDone(r) \/ FlushChunk(r)
      PROVE  \A q \in Runs : Goes(q)
  <2>1. CASE Start(r) \/ Finish(r) \/ FlushChunk(r)
    <3>1. /\ phase[r] \in {"new", "running", "flushing"}
          /\ phase'[r] \in {"running", "flushing", "writing"}
          /\ \A q \in Runs \ {r} : phase'[q] = phase[q]
      BY <2>1, PhaseFacts DEF Start, Finish, FlushChunk, Phases
    <3>. QED
      BY <3>1 DEF Over
  <2>2. CASE FlushDone(r)
    <3>1. /\ phase[r] = "flushing" /\ phase'[r] = "ended"
          /\ \A q \in Runs \ {r} : phase'[q] = phase[q]
      BY <2>2, PhaseFacts DEF FlushDone, Phases
    <3>. QED
      BY <2>2, <3>1 DEF Over
  <2>. QED
    BY <1>2, <2>1, <2>2
<1>3. ASSUME NEW r \in Runs, Written(r) \/ PutBack(r) PROVE \A q \in Runs : Goes(q)
  <2>1. /\ phase[r] # "writing" => phase'[r] = phase[r]
        /\ phase[r] = "writing" => phase'[r] \in {"flushing", "failed"}
        /\ \A q \in Runs \ {r} : phase'[q] = phase[q]
    BY <1>3, StoresPhase
  <2>. QED
    BY <2>1 DEF Over
<1>4. ASSUME phase' = phase PROVE \A q \in Runs : Goes(q)
  BY <1>4
<1>5. ASSUME NEW r \in Runs, ReadHighest(r) PROVE phase' = phase
  BY <1>5 DEF ReadHighest
<1>6. Follow \/ NextPage \/ (\E r \in Runs, dir \in {"forward", "backward"} : OpenPager(r, dir))
      \/ UNCHANGED vars => phase' = phase
  BY DEF Follow, NextPage, OpenPager, vars
<1>. QED
  BY <1>2, <1>3, <1>4, <1>5, <1>6, Kinds DEF Stores, Refused, Records

Somewhere(r, m) ==
  \/ \E w \in rows : w.run = r /\ w.event = m
  \/ \E i \in 1..Len(batch[r]) : batch[r][i] = m
  \/ \E i \in 1..Len(buffer[r]) : buffer[r][i] = m

(* No step loses an event.                                                 *)
LEMMA AtLeastInv ==
  ASSUME TypeOK, Top, CounterAhead, QueuedIsKnown, PhasesFit, AtLeastOnce, [Next]_vars
  PROVE  AtLeastOnce'
<1>0. \A r \in Runs : Len(batch[r]) \in Nat /\ Len(buffer[r]) \in Nat /\ Len(emitted[r]) \in Nat
  BY LenProperties DEF TypeOK
<1>e. 1..Len(<< >>) = {}
  BY EmptySeq
<1>. SUFFICES ASSUME backend = "jsonl", NEW q \in Runs, q \notin glued', phase'[q] # "lost",
                     NEW m \in 1..Len(emitted'[q])
              PROVE  Somewhere(q, m)'
  BY RowSteps DEF AtLeastOnce, Somewhere
<1>g. q \notin glued
  BY RowSteps
<1>1. CASE Crash
  <2>1. emitted'[q] = emitted[q] /\ rows' = rows /\ Survives(q)
    BY <1>1, CrashFacts DEF Crash
  <2>2. phase[q] = "ended"
    BY <1>e, <2>1 DEF Survives, PhasesFit
  <2>3. batch[q] \o buffer[q] = << >>
    BY <2>2 DEF PhasesFit, Queued
  <2>4. batch[q] = << >> /\ buffer[q] = << >>
    BY <2>3, QueueEmpty DEF TypeOK
  <2>5. Somewhere(q, m)
    BY <1>g, <2>1, <2>2 DEF AtLeastOnce, Somewhere
  <2>. QED
    BY <1>e, <2>1, <2>4, <2>5 DEF Somewhere
<1>2. ASSUME ~Crash PROVE Somewhere(q, m)'
  <2>1. rows \subseteq rows' /\ phase[q] # "lost"
    BY <1>2, Onwards
  <2>2. ASSUME m \in 1..Len(emitted[q]) PROVE Somewhere(q, m)
    BY <1>g, <2>1, <2>2 DEF AtLeastOnce, Somewhere
  <2>3. ASSUME emitted'[q] = emitted[q], batch'[q] = batch[q], buffer'[q] = buffer[q]
        PROVE  Somewhere(q, m)'
    BY <2>1, <2>2, <2>3 DEF Somewhere
  <2>4. ASSUME NEW category \in Categories, Records(q, category) PROVE Somewhere(q, m)'
    <3>0. PICK flush \in BOOLEAN, loop \in BOOLEAN : Put(q, category, flush, loop)
      BY <2>4 DEF Records
    <3>1. Len(emitted'[q]) = Len(emitted[q]) + 1
      BY <3>0, PutFacts
    <3>2. PICK b \in Seq(Nat) :
            /\ Len(b) = Len(buffer[q]) + 1 /\ b[Len(buffer[q]) + 1] = Len(emitted[q]) + 1
            /\ \A i \in 1..Len(buffer[q]) : b[i] = buffer[q][i]
            /\ \/ batch[q] = << >> /\ batch'[q] = b /\ buffer'[q] = << >>
               \/ batch'[q] = batch[q] /\ buffer'[q] = b
      BY <3>0, PutFacts
    <3>3. ASSUME NEW i \in 1..Len(b), b[i] = m PROVE Somewhere(q, m)'
      BY <3>2, <3>3 DEF Somewhere
    <3>4. CASE m = Len(emitted[q]) + 1
      <4>1. Len(buffer[q]) + 1 \in 1..Len(b)
        BY <1>0, <3>2
      <4>. QED
        BY <3>2, <3>3, <3>4, <4>1
    <3>5. CASE m # Len(emitted[q]) + 1
      <4>1. m \in 1..Len(emitted[q])
        BY <1>0, <3>1, <3>5
      <4>2. \A i \in 1..Len(buffer[q]) : i \in 1..Len(b)
        BY <1>0, <3>2
      <4>3. CASE \E i \in 1..Len(buffer[q]) : buffer[q][i] = m
        BY <3>2, <3>3, <4>2, <4>3
      <4>4. CASE \E i \in 1..Len(batch[q]) : batch[q][i] = m
        <5>1. batch'[q] = batch[q]
          BY <1>e, <3>2, <4>4
        <5>. QED
          BY <4>4, <5>1 DEF Somewhere
      <4>. QED
        BY <2>1, <2>2, <4>1, <4>3, <4>4 DEF Somewhere
    <3>. QED
      BY <3>4, <3>5
  <2>5. CASE FlushChunk(q)
    <3>1. emitted'[q] = emitted[q] /\ batch[q] = << >>
      BY <2>5 DEF FlushChunk
    <3>2. PICK k \in 0..Len(buffer[q]) :
            /\ Len(batch'[q]) = k /\ Len(buffer'[q]) = Len(buffer[q]) - k
            /\ \A i \in 1..k : batch'[q][i] = buffer[q][i]
            /\ \A i \in 1..(Len(buffer[q]) - k) : buffer'[q][i] = buffer[q][k + i]
      BY <2>5, ChunkFacts
    <3>3. ASSUME NEW i \in 1..Len(buffer[q]), buffer[q][i] = m PROVE Somewhere(q, m)'
      <4>0. Len(buffer[q]) \in Nat /\ k \in Nat
        BY <1>0
      <4>1. CASE i <= k
        <5>1. i \in 1..k
          BY <4>0, <4>1
        <5>. QED
          BY <3>2, <3>3, <5>1 DEF Somewhere
      <4>2. CASE ~ (i <= k)
        <5>1. i - k \in 1..(Len(buffer[q]) - k) /\ k + (i - k) = i
          BY <4>0, <4>2
        <5>. QED
          BY <3>2, <3>3, <5>1 DEF Somewhere
      <4>. QED
        BY <4>1, <4>2
    <3>. QED
      BY <1>e, <2>1, <2>2, <3>1, <3>3 DEF Somewhere
  <2>6. CASE PutBack(q)
    <3>1. /\ emitted' = emitted /\ Len(buffer'[q]) = Len(batch[q]) + Len(buffer[q])
          /\ \A i \in 1..(Len(batch[q]) + Len(buffer[q])) :
               buffer'[q][i] = IF i <= Len(batch[q]) THEN batch[q][i] ELSE buffer[q][i - Len(batch[q])]
      BY <2>6, BackFacts
    <3>0. Len(buffer[q]) \in Nat /\ Len(batch[q]) \in Nat
      BY <1>0
    <3>2. ASSUME NEW i \in 1..Len(batch[q]), batch[q][i] = m PROVE Somewhere(q, m)'
      <4>1. i \in 1..(Len(batch[q]) + Len(buffer[q])) /\ i <= Len(batch[q])
        BY <3>0, BesideFacts, Zenon
      <4>. QED
        BY <3>1, <3>2, <4>1 DEF Somewhere
    <3>3. ASSUME NEW i \in 1..Len(buffer[q]), buffer[q][i] = m PROVE Somewhere(q, m)'
      <4>1. /\ Len(batch[q]) + i \in 1..(Len(batch[q]) + Len(buffer[q]))
            /\ ~ (Len(batch[q]) + i <= Len(batch[q])) /\ (Len(batch[q]) + i) - Len(batch[q]) = i
        BY <3>0, BesideFacts, Zenon
      <4>. QED
        BY <3>1, <3>3, <4>1 DEF Somewhere
    <3>. QED
      BY <2>1, <2>2, <3>1, <3>2, <3>3 DEF Somewhere
  <2>7. ASSUME Written(q), NEW k, NEW n, Stores(q, k, n) PROVE Somewhere(q, m)'
    <3>1. CASE PutBack(q)
      BY <2>6, <3>1
    <3>2. CASE ~PutBack(q)
      <4>1. k = Len(batch[q]) /\ Grows(q, k, n)
        BY <2>7, <3>2 DEF Stores
      <4>2. \A i \in 1..Len(batch[q]) : \E w \in rows' : w.run = q /\ w.event = batch[q][i]
        <5>1. CASE Lost(q)
          <6>1. ~ (k > 0)
            BY <4>1, <5>1 DEF Grows
          <6>2. 1..Len(batch[q]) = {}
            BY <1>0, <4>1, <6>1
          <6>. QED
            BY <6>2
        <5>2. CASE ~Lost(q)
          BY <4>1, <5>2, GrowsFacts
        <5>. QED
          BY <5>1, <5>2
      <4>3. emitted' = emitted /\ buffer' = buffer
        BY <2>7, WrittenFacts
      <4>. QED
        BY <2>1, <2>2, <4>2, <4>3 DEF Somewhere
    <3>. QED
      BY <3>1, <3>2
  <2>8. ASSUME NEW r \in Runs, r # q, OthersKept(r) PROVE Somewhere(q, m)'
    BY <2>3, <2>8 DEF OthersKept
  <2>9. ASSUME NEW r \in Runs, NEW k, NEW n, Stores(r, k, n) PROVE Somewhere(q, m)'
    <3>1. OthersKept(r) /\ (Written(r) \/ PutBack(r))
      BY <2>9, WrittenFacts, BackFacts DEF Stores
    <3>2. CASE r = q
      BY <2>6, <2>7, <2>9, <3>1, <3>2
    <3>. QED
      BY <2>8, <3>1, <3>2
  <2>10. ASSUME NEW r \in Runs, NEW category \in Categories, Records(r, category)
         PROVE  Somewhere(q, m)'
    BY <2>4, <2>8, <2>10, PutFacts DEF Records
  <2>11. ASSUME NEW r \in Runs, FlushChunk(r) PROVE Somewhere(q, m)'
    BY <2>5, <2>8, <2>11, ChunkFacts
  <2>12. ASSUME NEW r \in Runs, PutBack(r) PROVE Somewhere(q, m)'
    BY <2>6, <2>8, <2>12, BackFacts
  <2>13. ASSUME UNCHANGED <<emitted, batch, buffer>> PROVE Somewhere(q, m)'
    BY <2>3, <2>13
  <2>14. ASSUME NEW r \in Runs, Start(r) \/ Finish(r) \/ ReadHighest(r) \/ FlushDone(r)
         PROVE  UNCHANGED <<emitted, batch, buffer>>
    BY <2>14 DEF Start, Finish, ReadHighest, FlushDone, journalVars
  <2>15. Follow \/ NextPage \/ (\E r \in Runs, dir \in {"forward", "backward"} : OpenPager(r, dir))
         \/ UNCHANGED vars => UNCHANGED <<emitted, batch, buffer>>
    BY DEF Follow, NextPage, OpenPager, vars, journalVars
  <2>. QED
    BY <1>2, <2>9, <2>10, <2>11, <2>12, <2>13, <2>14, <2>15, Kinds DEF Refused
<1>. QED
  BY <1>1, <1>2
-----------------------------------------------------------------------------
(* Exactly once.                                                           *)

Laid(q, n) == Beside(batch[q], buffer[q], n, Len(emitted[q]) - n)

(* The queue holds the events after the first n: in this state and the next. *)
LEMMA LaidQueue ==
  ASSUME NEW q \in Runs
  PROVE  /\ TypeOK => \A n \in 0..Len(emitted[q]) :
              Queued(q) = [i \in 1..(Len(emitted[q]) - n) |-> n + i] <=> Laid(q, n)
         /\ TypeOK' => \A n \in 0..Len(emitted'[q]) :
              Queued(q)' = [i \in 1..(Len(emitted'[q]) - n) |-> n + i] <=> Laid(q, n)'
<1>1. ASSUME NEW e \in Seq(Categories), NEW n \in 0..Len(e) PROVE Len(e) - n \in Nat /\ n \in Nat
  <2>1. Len(e) \in Nat
    BY LenProperties
  <2>. QED
    BY <2>1
<1>2. ASSUME TypeOK, NEW n \in 0..Len(emitted[q])
      PROVE  Queued(q) = [i \in 1..(Len(emitted[q]) - n) |-> n + i] <=> Laid(q, n)
  <2>1. Len(emitted[q]) - n \in Nat /\ n \in Nat /\ batch[q] \in Seq(Nat) /\ buffer[q] \in Seq(Nat)
    BY <1>1, <1>2 DEF TypeOK
  <2>2. PICK m \in Nat, a \in Seq(Nat), b \in Seq(Nat) :
          m = Len(emitted[q]) - n /\ a = batch[q] /\ b = buffer[q]
    BY <2>1
  <2>3. a \o b = After(n, m) <=> Beside(a, b, n, m)
    <3>1. n \in Nat
      BY <2>1
    <3>. QED
      BY <3>1, LaidOut, Zenon
  <2>. QED
    BY <2>2, <2>3, Zenon DEF Queued, Laid, After
<1>3. ASSUME TypeOK', NEW n \in 0..Len(emitted'[q])
      PROVE  Queued(q)' = [i \in 1..(Len(emitted'[q]) - n) |-> n + i] <=> Laid(q, n)'
  <2>1. Len(emitted'[q]) - n \in Nat /\ n \in Nat
        /\ batch'[q] \in Seq(Nat) /\ buffer'[q] \in Seq(Nat)
    BY <1>1, <1>3 DEF TypeOK
  <2>2. PICK m \in Nat, a \in Seq(Nat), b \in Seq(Nat) :
          m = Len(emitted'[q]) - n /\ a = batch'[q] /\ b = buffer'[q]
    BY <2>1
  <2>3. a \o b = After(n, m) <=> Beside(a, b, n, m)
    <3>1. n \in Nat
      BY <2>1
    <3>. QED
      BY <3>1, LaidOut, Zenon
  <2>. QED
    BY <2>2, <2>3, Zenon DEF Queued, Laid, After
<1>. QED
  BY <1>2, <1>3

(* The same rows store the same events.                                    *)
LEMMA StoredSame ==
  ASSUME NEW q \in Runs, NEW n, \A w : w \in rows /\ w.run = q <=> w \in rows' /\ w.run = q
  PROVE  StoredUpTo(q, n) => StoredUpTo(q, n)'
<1>1. {w \in rows' : w.run = q} = {w \in rows : w.run = q}
  OBVIOUS
<1>. QED
  BY <1>1 DEF StoredUpTo

(* A batch that follows on the first n events makes them more.             *)
LEMMA StoredGrows ==
  ASSUME TypeOK, QueuedIsKnown, backend # "jsonl", NEW r \in Runs, NEW n \in Nat, NEW k,
         NEW top, Grows(r, k, top), StoredUpTo(r, n)
  PROVE  (\A i \in 1..k : batch[r][i] = n + i) => StoredUpTo(r, n + k)'
<1>. DEFINE mine == {w \in rows : w.run = r}
            new == Numbered(r, k, top)
<1>2. /\ top \in Nat /\ (\A w \in rows : w.seq <= top) /\ rows' = rows \cup new
      /\ k \in 0..Len(batch[r])
  BY DEF Grows, Legible, Lost
<1>1. k \in Nat
  BY <1>2, LenProperties DEF TypeOK
<1>3. /\ \A w \in new : \E i \in 1..k : w.seq = top + i /\ w.run = r /\ w.event = batch[r][i]
      /\ \A i \in 1..k : \E w \in new : w.seq = top + i /\ w.run = r /\ w.event = batch[r][i]
  <2>1. /\ Numbered(r, k, top) \subseteq Row
        /\ \A w \in Numbered(r, k, top) : \E i \in 1..k :
             w.seq = top + i /\ w.run = r /\ w.event = batch[r][i]
        /\ \A i \in 1..k : \E w \in Numbered(r, k, top) :
             w.seq = top + i /\ w.run = r /\ w.event = batch[r][i]
        /\ \A v, w \in Numbered(r, k, top) : v.seq = w.seq => v = w
    BY <1>2, NumberedFacts
  <2>. QED
    BY <2>1
<1>. SUFFICES ASSUME \A i \in 1..k : batch[r][i] = n + i PROVE StoredUpTo(r, n + k)'
  OBVIOUS
<1>4. /\ {w.event : w \in mine} = 1..n
      /\ \A v, w \in mine : v.seq < w.seq <=> v.event < w.event
  BY DEF StoredUpTo
<1>5. \A w \in rows : w.seq \in Nat
  BY DEF TypeOK, Row
<1>b. \A i \in 1..k : batch[r][i] = n + i
  OBVIOUS
<1>. HIDE DEF new
<1>6. \A w \in new : \E i \in 1..k : w.seq = top + i /\ w.event = n + i
  BY <1>3, <1>b
<1>7. {w \in rows' : w.run = r} = mine \cup new
  BY <1>2, <1>3
<1>8. \A w \in mine : w.seq \in Nat /\ w.seq <= top /\ w.event \in 1..n
  BY <1>2, <1>4, <1>5
<1>. HIDE DEF mine
<1>9. {w.event : w \in mine \cup new} = 1..(n + k)
  <2>1. ASSUME NEW w \in mine \cup new PROVE w.event \in 1..(n + k)
    BY <1>1, <1>6, <1>8
  <2>2. ASSUME NEW m \in 1..(n + k) PROVE \E w \in mine \cup new : w.event = m
    <3>1. CASE m <= n
      <4>1. m \in 1..n
        BY <3>1
      <4>2. m \in {w.event : w \in mine}
        BY <1>4, <4>1
      <4>. QED
        BY <4>2
    <3>2. CASE ~ (m <= n)
      <4>1. m - n \in 1..k /\ n + (m - n) = m
        BY <1>1, <3>2
      <4>2. PICK w \in new : w.event = batch[r][m - n]
        BY <1>3, <4>1
      <4>. QED
        BY <1>b, <4>1, <4>2
    <3>. QED
      BY <3>1, <3>2
  <2>. QED
    BY <2>1, <2>2
<1>10. ASSUME NEW v \in mine \cup new, NEW w \in mine \cup new
       PROVE  v.seq < w.seq <=> v.event < w.event
  <2>1. CASE v \in mine /\ w \in mine
    BY <1>4, <2>1
  <2>2. CASE v \in mine /\ w \in new
    <3>1. PICK i \in 1..k : w.seq = top + i /\ w.event = n + i
      BY <1>6, <2>2
    <3>. QED
      BY <1>1, <1>2, <1>8, <2>2, <3>1
  <2>3. CASE v \in new /\ w \in mine
    <3>1. PICK i \in 1..k : v.seq = top + i /\ v.event = n + i
      BY <1>6, <2>3
    <3>. QED
      BY <1>1, <1>2, <1>8, <2>3, <3>1
  <2>4. CASE v \in new /\ w \in new
    <3>1. PICK i \in 1..k : v.seq = top + i /\ v.event = n + i
      BY <1>6, <2>4
    <3>2. PICK j \in 1..k : w.seq = top + j /\ w.event = n + j
      BY <1>6, <2>4
    <3>. QED
      BY <1>1, <1>2, <3>1, <3>2
  <2>. QED
    BY <2>1, <2>2, <2>3, <2>4
<1>11. /\ {w.event : w \in {w \in rows' : w.run = r}} = 1..(n + k)
       /\ \A v, w \in {w \in rows' : w.run = r} : v.seq < w.seq <=> v.event < w.event
  BY <1>7, <1>9, <1>10
<1>. QED
  BY <1>11 DEF StoredUpTo
(* What ExactlyOnce says of one run.                                       *)
Once(q) ==
  \E n \in 0..Len(emitted[q]) : StoredUpTo(q, n) /\ (phase[q] # "lost" => Laid(q, n))

(* ExactlyOnce, run by run.                                                *)
LEMMA OnceFacts ==
  /\ TypeOK => (ExactlyOnce <=> (backend # "jsonl" => \A q \in Runs : Once(q)))
  /\ TypeOK' => (ExactlyOnce' <=> (backend' # "jsonl" => \A q \in Runs : Once(q)'))
<1>1. ASSUME TypeOK PROVE ExactlyOnce <=> (backend # "jsonl" => \A q \in Runs : Once(q))
  BY <1>1, LaidQueue DEF ExactlyOnce, Once
<1>2. ASSUME TypeOK' PROVE ExactlyOnce' <=> (backend' # "jsonl" => \A q \in Runs : Once(q)')
  BY <1>2, LaidQueue DEF ExactlyOnce, Once
<1>. QED
  BY <1>1, <1>2

(* The sum of what is stored and what waits.                               *)
LEMMA Sums ==
  ASSUME NEW a \in Nat, NEW b \in Nat, NEW c \in Nat, NEW n \in Nat, a + b = c - n
  PROVE  n + a \in 0..c
  OBVIOUS

(* The queue of a run moves on as a whole.                                 *)
LEMMA LaidPut ==
  ASSUME TypeOK, NEW q \in Runs, NEW n \in 0..Len(emitted[q]), Laid(q, n),
         NEW category \in Categories, Records(q, category)
  PROVE  n \in 0..Len(emitted'[q]) /\ Laid(q, n)'
<1>0. PICK flush \in BOOLEAN, loop \in BOOLEAN : Put(q, category, flush, loop)
  BY DEF Records
<1>1. Len(emitted'[q]) = Len(emitted[q]) + 1
  BY <1>0, PutFacts
<1>2. PICK b \in Seq(Nat) :
        /\ Len(b) = Len(buffer[q]) + 1 /\ b[Len(buffer[q]) + 1] = Len(emitted[q]) + 1
        /\ \A i \in 1..Len(buffer[q]) : b[i] = buffer[q][i]
        /\ \/ batch[q] = << >> /\ batch'[q] = b /\ buffer'[q] = << >>
           \/ batch'[q] = batch[q] /\ buffer'[q] = b
  BY <1>0, PutFacts
<1>3. /\ Len(batch[q]) \in Nat /\ Len(buffer[q]) \in Nat /\ Len(emitted[q]) \in Nat /\ n \in Nat
  BY LenProperties DEF TypeOK
<1>4. /\ Len(batch[q]) + Len(buffer[q]) = Len(emitted[q]) - n
      /\ \A i \in 1..Len(batch[q]) : batch[q][i] = n + i
      /\ \A i \in 1..Len(buffer[q]) : buffer[q][i] = n + Len(batch[q]) + i
  BY DEF Laid, Beside
<1>s. Len(batch[q]) + Len(buffer[q]) = Len(emitted[q]) - n
  BY <1>4
<1>5. Len(batch[q]) + Len(b) = Len(emitted'[q]) - n
  <2>1. Len(b) = Len(buffer[q]) + 1
    BY <1>2
  <2>. QED
    <3>. DEFINE a == Len(batch[q])
                b1 == Len(buffer[q])
                c == Len(emitted[q])
    <3>a. a \in Nat /\ b1 \in Nat /\ c \in Nat /\ n \in Nat /\ a + b1 = c - n
      BY <1>3, <1>s
    <3>b. a + (b1 + 1) = (c + 1) - n
      <4>. HIDE DEF a, b1, c
      <4>. QED
        BY <3>a
    <3>. QED
      BY <1>1, <2>1, <3>b
<1>6. ASSUME NEW i \in 1..Len(b) PROVE b[i] = n + Len(batch[q]) + i
  <2>1. CASE i = Len(buffer[q]) + 1
    <3>1. b[i] = Len(emitted[q]) + 1
      BY <1>2, <2>1
    <3>. QED
      <4>. DEFINE a == Len(batch[q])
                  b1 == Len(buffer[q])
                  c == Len(emitted[q])
      <4>a. a \in Nat /\ b1 \in Nat /\ c \in Nat /\ n \in Nat /\ a + b1 = c - n
        BY <1>3, <1>s
      <4>b. n + a + (b1 + 1) = c + 1
        <5>. HIDE DEF a, b1, c
        <5>. QED
          BY <4>a
      <4>. QED
        BY <2>1, <3>1, <4>b
  <2>2. CASE i # Len(buffer[q]) + 1
    <3>1. i \in 1..Len(buffer[q])
      BY <1>2, <1>3, <2>2
    <3>. QED
      BY <1>2, <1>4, <3>1
  <2>. QED
    BY <2>1, <2>2
<1>e. Len(<< >>) = 0 /\ 1..Len(<< >>) = {}
  BY EmptySeq
<1>7. CASE batch[q] = << >> /\ batch'[q] = b /\ buffer'[q] = << >>
  <2>1. Len(batch[q]) = 0 /\ Len(b) \in Nat
    BY <1>e, <1>7, LenProperties
  <2>2. Len(b) + 0 = Len(emitted'[q]) - n
    BY <1>5, <2>1
  <2>3. \A i \in 1..Len(b) : b[i] = n + i
    BY <1>3, <1>6, <2>1
  <2>. QED
    BY <1>e, <1>1, <1>3, <1>7, <2>2, <2>3 DEF Laid, Beside
<1>8. CASE batch'[q] = batch[q] /\ buffer'[q] = b
  BY <1>1, <1>3, <1>4, <1>5, <1>6, <1>8 DEF Laid, Beside
<1>. QED
  BY <1>2, <1>7, <1>8

(* Taking a chunk leaves the queue as it was,                              *)
LEMMA LaidChunk ==
  ASSUME TypeOK, NEW q \in Runs, NEW n \in 0..Len(emitted[q]), Laid(q, n), FlushChunk(q)
  PROVE  Laid(q, n)'
<1>1. emitted'[q] = emitted[q] /\ batch[q] = << >>
  BY DEF FlushChunk
<1>2. PICK k \in 0..Len(buffer[q]) :
        /\ Len(batch'[q]) = k /\ Len(buffer'[q]) = Len(buffer[q]) - k
        /\ \A i \in 1..k : batch'[q][i] = buffer[q][i]
        /\ \A i \in 1..(Len(buffer[q]) - k) : buffer'[q][i] = buffer[q][k + i]
  BY ChunkFacts
<1>3. /\ Len(buffer[q]) \in Nat /\ Len(emitted[q]) \in Nat /\ n \in Nat
  BY LenProperties DEF TypeOK
<1>4. Len(batch[q]) = 0
  BY <1>1, EmptySeq
<1>5. /\ Len(buffer[q]) = Len(emitted[q]) - n
      /\ \A i \in 1..Len(buffer[q]) : buffer[q][i] = n + i
  BY <1>3, <1>4 DEF Laid, Beside
<1>6. k \in Nat
  BY <1>3
<1>7. ASSUME NEW i \in 1..k PROVE batch'[q][i] = n + i
  <2>1. i \in 1..Len(buffer[q])
    BY <1>3
  <2>. QED
    BY <1>2, <1>5, <2>1
<1>8. ASSUME NEW i \in 1..(Len(buffer[q]) - k) PROVE buffer'[q][i] = n + k + i
  <2>1. k + i \in 1..Len(buffer[q])
    BY <1>3
  <2>2. buffer[q][k + i] = n + (k + i)
    BY <1>5, <2>1
  <2>. QED
    BY <1>2, <1>3, <1>6, <2>2
<1>9. Len(batch'[q]) + Len(buffer'[q]) = Len(emitted[q]) - n
  BY <1>2, <1>3, <1>5, <1>6
<1>. QED
  BY <1>1, <1>2, <1>7, <1>8, <1>9 DEF Laid, Beside

(* and so does putting it back.                                            *)
LEMMA LaidBack ==
  ASSUME TypeOK, NEW q \in Runs, NEW n \in 0..Len(emitted[q]), Laid(q, n), PutBack(q)
  PROVE  Laid(q, n)'
<1>1. /\ emitted' = emitted /\ batch'[q] = << >>
      /\ Len(buffer'[q]) = Len(batch[q]) + Len(buffer[q])
      /\ \A i \in 1..(Len(batch[q]) + Len(buffer[q])) :
           buffer'[q][i] = IF i <= Len(batch[q]) THEN batch[q][i] ELSE buffer[q][i - Len(batch[q])]
  BY BackFacts
<1>2. /\ Len(batch[q]) \in Nat /\ Len(buffer[q]) \in Nat /\ n \in Nat
  BY LenProperties DEF TypeOK
<1>3. /\ Len(batch[q]) + Len(buffer[q]) = Len(emitted[q]) - n
      /\ \A i \in 1..Len(batch[q]) : batch[q][i] = n + i
      /\ \A i \in 1..Len(buffer[q]) : buffer[q][i] = n + Len(batch[q]) + i
  BY DEF Laid, Beside
<1>4. ASSUME NEW i \in 1..Len(buffer'[q]) PROVE buffer'[q][i] = n + i
  <2>0. i \in 1..(Len(batch[q]) + Len(buffer[q]))
    BY <1>1
  <2>1. CASE i <= Len(batch[q])
    <3>1. i \in 1..Len(batch[q])
      BY <1>2, <2>0, <2>1
    <3>. QED
      BY <1>1, <1>3, <2>0, <2>1, <3>1
  <2>2. CASE ~ (i <= Len(batch[q]))
    <3>1. i - Len(batch[q]) \in 1..Len(buffer[q])
      BY <1>2, <2>0, <2>2, BesideFacts, Zenon
    <3>2. buffer'[q][i] = n + Len(batch[q]) + (i - Len(batch[q]))
      BY <1>1, <1>3, <2>0, <2>2, <3>1
    <3>. QED
      BY <1>2, <3>2
  <2>. QED
    BY <2>1, <2>2
<1>5. Len(<< >>) = 0 /\ 1..Len(<< >>) = {}
  BY EmptySeq
<1>c. Len(emitted[q]) \in Nat
  BY LenProperties DEF TypeOK
<1>6. 0 + Len(buffer'[q]) = Len(emitted[q]) - n
  <2>1. Len(buffer'[q]) = Len(batch[q]) + Len(buffer[q])
    BY <1>1
  <2>2. Len(batch[q]) + Len(buffer[q]) = Len(emitted[q]) - n
    BY <1>3
  <2>. QED
    <3>. DEFINE a == Len(batch[q])
                b1 == Len(buffer[q])
                c == Len(emitted[q])
    <3>a. a \in Nat /\ b1 \in Nat /\ c \in Nat /\ n \in Nat /\ a + b1 = c - n
      BY <1>c, <1>2, <2>2
    <3>b. 0 + (a + b1) = c - n
      <4>. HIDE DEF a, b1, c
      <4>. QED
        BY <3>a
    <3>. QED
      BY <2>1, <3>b
<1>7. \A i \in 1..Len(buffer'[q]) : buffer'[q][i] = n + 0 + i
  BY <1>2, <1>4
<1>. QED
  BY <1>1, <1>5, <1>6, <1>7 DEF Laid, Beside

(* A batch that is written leaves the queue, and the stored events go on.  *)
LEMMA LaidWritten ==
  ASSUME TypeOK, NEW q \in Runs, NEW n \in 0..Len(emitted[q]), Laid(q, n), Written(q)
  PROVE  /\ n + Len(batch[q]) \in 0..Len(emitted[q])
         /\ \A i \in 1..Len(batch[q]) : batch[q][i] = n + i
         /\ \A k : k = Len(batch[q]) => Laid(q, n + k)'
<1>1. emitted' = emitted /\ buffer' = buffer /\ batch'[q] = << >>
  BY WrittenFacts
<1>2. /\ Len(batch[q]) \in Nat /\ Len(buffer[q]) \in Nat /\ n \in Nat /\ Len(emitted[q]) \in Nat
  BY LenProperties DEF TypeOK
<1>3. /\ Len(batch[q]) + Len(buffer[q]) = Len(emitted[q]) - n
      /\ \A i \in 1..Len(batch[q]) : batch[q][i] = n + i
      /\ \A i \in 1..Len(buffer[q]) : buffer[q][i] = n + Len(batch[q]) + i
  BY DEF Laid, Beside
<1>s. Len(batch[q]) + Len(buffer[q]) = Len(emitted[q]) - n
  BY <1>3
<1>4. n + Len(batch[q]) \in 0..Len(emitted[q])
  BY <1>2, <1>s, Sums, Zenon
<1>5. ASSUME NEW k, k = Len(batch[q]) PROVE Laid(q, n + k)'
  <2>1. Len(<< >>) = 0 /\ 1..Len(<< >>) = {}
    BY EmptySeq
  <2>2. 0 + Len(buffer[q]) = Len(emitted[q]) - (n + k)
    <3>. DEFINE a == Len(batch[q])
                b1 == Len(buffer[q])
                c == Len(emitted[q])
    <3>a. a \in Nat /\ b1 \in Nat /\ c \in Nat /\ n \in Nat /\ a + b1 = c - n
      BY <1>2, <1>s
    <3>b. 0 + b1 = c - (n + a)
      <4>. HIDE DEF a, b1, c
      <4>. QED
        BY <3>a
    <3>. QED
      BY <1>5, <3>b
  <2>3. \A i \in 1..Len(buffer[q]) : buffer[q][i] = (n + k) + 0 + i
    BY <1>2, <1>3, <1>5
  <2>. QED
    BY <1>1, <2>1, <2>2, <2>3 DEF Laid, Beside
<1>. QED
  BY <1>3, <1>4, <1>5
(* No step loses, repeats or reorders an event.                            *)
LEMMA OnceInv ==
  ASSUME TypeOK, TypeOK', Top, CounterAhead, QueuedIsKnown, PhasesFit, ExactlyOnce, [Next]_vars
  PROVE  ExactlyOnce'
<1>b. backend' = backend
  BY RowSteps
<1>. SUFFICES ASSUME backend # "jsonl", NEW q \in Runs PROVE Once(q)'
  BY <1>b, OnceFacts
<1>1. PICK n \in 0..Len(emitted[q]) : StoredUpTo(q, n) /\ (phase[q] # "lost" => Laid(q, n))
  BY OnceFacts DEF Once
<1>e. Len(<< >>) = 0 /\ 1..Len(<< >>) = {}
  BY EmptySeq
<1>n. n \in Nat /\ Len(emitted[q]) \in Nat
  BY LenProperties DEF TypeOK
<1>o. ASSUME phase'[q] = "lost" <=> phase[q] = "lost", emitted'[q] = emitted[q],
             \A w : w \in rows /\ w.run = q <=> w \in rows' /\ w.run = q,
             phase[q] # "lost" => Laid(q, n)'
      PROVE  Once(q)'
  BY <1>1, <1>o, StoredSame DEF Once
<1>2. CASE Crash
  <2>1. /\ batch'[q] = << >> /\ buffer'[q] = << >> /\ emitted' = emitted
        /\ phase'[q] = IF Survives(q) THEN phase[q] ELSE "lost"
        /\ backend # "memory" => rows' = rows
        /\ backend = "memory" => rows' = {}
    BY <1>2, CrashFacts DEF Crash
  <2>2. CASE backend = "memory"
    <3>1. StoredUpTo(q, 0)'
      BY <2>1, <2>2 DEF StoredUpTo
    <3>2. 0 \in 0..Len(emitted'[q])
      BY <1>n, <2>1
    <3>3. ASSUME phase'[q] # "lost" PROVE Laid(q, 0)'
      <4>1. emitted[q] = << >>
        BY <2>1, <2>2, <3>3 DEF Survives, PhasesFit
      <4>. QED
        BY <1>e, <2>1, <4>1 DEF Laid, Beside
    <3>. QED
      BY <3>1, <3>2, <3>3 DEF Once
  <2>3. CASE backend # "memory"
    <3>1. StoredUpTo(q, n)'
      BY <1>1, <2>1, <2>3, StoredSame
    <3>2. ASSUME phase'[q] # "lost" PROVE Laid(q, n)'
      <4>1. phase[q] \in {"new", "ended"}
        BY <2>1, <3>2 DEF Survives
      <4>2. batch[q] = << >> /\ buffer[q] = << >>
        BY <4>1, QueueEmpty DEF PhasesFit, Queued, TypeOK
      <4>3. Laid(q, n)
        BY <1>1, <4>1
      <4>. QED
        BY <2>1, <4>2, <4>3 DEF Laid
    <3>. QED
      BY <2>1, <3>1, <3>2 DEF Once
  <2>. QED
    BY <2>2, <2>3
<1>3. ASSUME ~Crash PROVE Once(q)'
  <2>l. phase'[q] = "lost" <=> phase[q] = "lost"
    BY <1>3, Onwards
  <2>1. ASSUME rows' = rows, emitted'[q] = emitted[q], batch'[q] = batch[q], buffer'[q] = buffer[q]
        PROVE  Once(q)'
    BY <1>1, <1>o, <2>1, <2>l DEF Laid
  <2>2. ASSUME NEW category \in Categories, Records(q, category) PROVE Once(q)'
    <3>1. rows' = rows /\ phase[q] # "lost"
      BY <2>2 DEF Records, storeVars
    <3>2. n \in 0..Len(emitted'[q]) /\ Laid(q, n)'
      BY <1>1, <2>2, <3>1, LaidPut
    <3>3. StoredUpTo(q, n)'
      BY <1>1, <3>1, StoredSame
    <3>. QED
      BY <3>2, <3>3 DEF Once
  <2>3. ASSUME FlushChunk(q) PROVE Once(q)'
    <3>1. rows' = rows /\ emitted' = emitted /\ phase[q] # "lost"
      BY <2>3 DEF FlushChunk, storeVars
    <3>2. Laid(q, n)'
      BY <1>1, <2>3, <3>1, LaidChunk
    <3>. QED
      BY <1>o, <2>l, <3>1, <3>2
  <2>4. ASSUME Refused(q) PROVE Once(q)'
    <3>1. rows' = rows /\ PutBack(q) /\ emitted' = emitted
      BY <2>4 DEF Refused, storeVars, PutBack
    <3>2. phase[q] # "lost" => Laid(q, n)'
      BY <1>1, <3>1, LaidBack
    <3>. QED
      BY <1>o, <2>l, <3>1, <3>2
  <2>5. ASSUME NEW k, NEW top, Stores(q, k, top) PROVE Once(q)'
    <3>1. Written(q) /\ k = Len(batch[q]) /\ Grows(q, k, top)
      BY <2>5 DEF Stores
    <3>2. emitted' = emitted
      BY <3>1, WrittenFacts
    <3>3. CASE phase[q] = "lost"
      <4>1. k = 0
        BY <1>e, <3>1, <3>3 DEF PhasesFit, Over
      <4>2. \A i \in 1..k : batch[q][i] = n + i
        BY <4>1
      <4>3. StoredUpTo(q, n + k)'
        BY <1>1, <1>n, <3>1, <4>2, StoredGrows
      <4>4. n + k = n
        BY <1>n, <4>1
      <4>5. StoredUpTo(q, n)'
        BY <4>3, <4>4
      <4>. QED
        BY <2>l, <3>2, <3>3, <4>5 DEF Once
    <3>4. CASE phase[q] # "lost"
      <4>1. /\ n + k \in 0..Len(emitted[q]) /\ Laid(q, n + k)'
            /\ \A i \in 1..k : batch[q][i] = n + i
        BY <1>1, <3>1, <3>4, LaidWritten
      <4>2. StoredUpTo(q, n + k)'
        BY <1>1, <1>n, <3>1, <4>1, StoredGrows
      <4>. QED
        BY <3>2, <4>1, <4>2 DEF Once
    <3>. QED
      BY <3>3, <3>4
  <2>6. ASSUME NEW r \in Runs \ {q}, NEW k, NEW top, Stores(r, k, top) PROVE Once(q)'
    <3>1. OthersKept(r)
      BY <2>6, WrittenFacts, BackFacts DEF Stores
    <3>2. /\ rows \subseteq rows'
          /\ \A w \in rows' : w \in rows \/ (w.seq > top /\ w.run = r)
      BY <2>6, GrowsFacts DEF Stores
    <3>3. \A w : w \in rows /\ w.run = q <=> w \in rows' /\ w.run = q
      BY <3>2
    <3>. QED
      BY <1>1, <1>o, <2>l, <3>1, <3>3 DEF OthersKept, Laid
  <2>7. ASSUME NEW r \in Runs \ {q}, OthersKept(r), rows' = rows PROVE Once(q)'
    BY <2>1, <2>7 DEF OthersKept
  <2>8. ASSUME NEW r \in Runs, FlushChunk(r) PROVE Once(q)'
    <3>1. rows' = rows /\ OthersKept(r)
      BY <2>8, ChunkFacts DEF FlushChunk, storeVars
    <3>. QED
      BY <2>3, <2>7, <2>8, <3>1
  <2>9. ASSUME NEW r \in Runs, Refused(r) PROVE Once(q)'
    <3>1. rows' = rows /\ OthersKept(r)
      BY <2>9, BackFacts DEF Refused, storeVars
    <3>. QED
      BY <2>4, <2>7, <2>9, <3>1
  <2>10. ASSUME NEW r \in Runs, NEW category \in Categories, Records(r, category) PROVE Once(q)'
    <3>1. rows' = rows /\ OthersKept(r)
      BY <2>10, PutFacts DEF Records, storeVars
    <3>. QED
      BY <2>2, <2>7, <2>10, <3>1
  <2>11. ASSUME NEW r \in Runs, Start(r) \/ Finish(r) \/ ReadHighest(r) \/ FlushDone(r)
         PROVE  UNCHANGED <<rows, emitted, batch, buffer>>
    BY <2>11 DEF Start, Finish, ReadHighest, FlushDone, journalVars, storeVars
  <2>12. Follow \/ NextPage \/ (\E r \in Runs, dir \in {"forward", "backward"} : OpenPager(r, dir))
         \/ UNCHANGED vars => UNCHANGED <<rows, emitted, batch, buffer>>
    BY DEF Follow, NextPage, OpenPager, vars, journalVars, storeVars
  <2>. QED
    BY <1>3, <2>1, <2>5, <2>6, <2>8, <2>9, <2>10, <2>11, <2>12, Kinds
<1>. QED
  BY <1>2, <1>3

-----------------------------------------------------------------------------
(* What an ended run recorded is stored.                                   *)

(* The worker that goes on after its final flush leaves all events stored. *)
LEMMA EndedInv ==
  ASSUME TypeOK, Top, CounterAhead, QueuedIsKnown, PhasesFit, ExactlyOnce, AtLeastOnce,
         EndedIsStored, [Next]_vars
  PROVE  EndedIsStored'
<1>. SUFFICES ASSUME NEW q \in Runs, phase'[q] = "ended", NEW m \in 1..Len(emitted'[q]),
                     ~ (backend' = "jsonl" /\ q \in glued')
              PROVE  \E w \in rows' : w.run = q /\ w.event = m
  BY DEF EndedIsStored
<1>g. ~ (backend = "jsonl" /\ q \in glued)
  BY RowSteps
<1>1. CASE Crash
  <2>1. phase[q] = "ended" /\ rows' = rows /\ emitted' = emitted
    BY <1>1, CrashFacts DEF Crash, Survives
  <2>. QED
    BY <1>g, <2>1 DEF EndedIsStored
<1>2. CASE FlushDone(q)
  <2>1. /\ batch[q] = << >> /\ buffer[q] = << >> /\ phase[q] = "flushing"
        /\ rows' = rows /\ emitted' = emitted
    BY <1>2 DEF FlushDone, journalVars, storeVars
  <2>e. Len(<< >>) = 0 /\ 1..Len(<< >>) = {}
    BY EmptySeq
  <2>2. CASE backend = "jsonl"
    BY <1>g, <2>1, <2>2, <2>e DEF AtLeastOnce
  <2>3. CASE backend # "jsonl"
    <3>1. PICK n \in 0..Len(emitted[q]) : StoredUpTo(q, n) /\ Laid(q, n)
      BY <2>1, <2>3, OnceFacts DEF Once
    <3>2. 0 + 0 = Len(emitted[q]) - n
      BY <2>1, <2>e, <3>1 DEF Laid, Beside
    <3>3. Len(emitted[q]) \in Nat
      BY LenProperties DEF TypeOK
    <3>4. n = Len(emitted[q])
      <4>. DEFINE c == Len(emitted[q])
      <4>1. c \in Nat /\ n \in 0..c /\ 0 + 0 = c - n
        BY <3>2, <3>3
      <4>2. n = c
        <5>. HIDE DEF c
        <5>. QED
          BY <4>1
      <4>. QED
        BY <4>2
    <3>5. m \in 1..n
      BY <2>1, <3>4
    <3>6. m \in {w.event : w \in {v \in rows : v.run = q}}
      BY <3>1, <3>5 DEF StoredUpTo
    <3>. QED
      BY <2>1, <3>6
  <2>. QED
    BY <2>2, <2>3
<1>3. ASSUME ~Crash, ~FlushDone(q)
      PROVE  \E w \in rows' : w.run = q /\ w.event = m
  <2>1. rows \subseteq rows' /\ phase[q] = "ended"
    BY <1>3, Onwards
  <2>2. emitted'[q] = emitted[q]
    <3>1. ASSUME NEW r \in Runs, NEW category \in Categories, Records(r, category)
          PROVE  emitted'[q] = emitted[q]
      <4>1. OthersKept(r) /\ phase[r] = "running"
        BY <3>1, PutFacts DEF Records
      <4>. QED
        BY <2>1, <4>1 DEF OthersKept
    <3>2. ASSUME NEW r \in Runs, Written(r) \/ PutBack(r) \/ FlushChunk(r) PROVE emitted' = emitted
      BY <3>2 DEF Written, PutBack, FlushChunk
    <3>. QED
      BY <1>3, <3>1, <3>2, QueueSteps DEF QueuesKept
  <2>. QED
    BY <1>g, <2>1, <2>2 DEF EndedIsStored
<1>. QED
  BY <1>1, <1>2, <1>3
-----------------------------------------------------------------------------
(* The numbers of the rows.                                                *)

(* Every step keeps the numbers apart and the counter ahead.               *)
LEMMA NumbersInv ==
  ASSUME TypeOK, Top, CounterAhead, QueuedIsKnown, SeqUnique, [Next]_vars
  PROVE  SeqUnique' /\ Top' /\ CounterAhead'
<1>1. ASSUME NEW r \in Runs, NEW k, NEW n, Stores(r, k, n) PROVE SeqUnique' /\ Top' /\ CounterAhead'
  <2>1. SeqUnique' /\ Top'
    BY <1>1, GrowsFacts DEF Stores
  <2>2. /\ rows' \subseteq Row /\ (\A w \in rows' : w.seq <= n + k)
        /\ backend # "db" => n + k <= counter'
        /\ counter' \in Nat /\ n \in Nat /\ k \in Nat
    <3>1. /\ Grows(r, k, n) /\ (backend # "db" => n + k <= counter') /\ counter' \in Nat
      BY <1>1 DEF Stores
    <3>2. n \in Nat /\ k \in 0..Len(batch[r])
      BY <3>1 DEF Grows
    <3>3. k \in Nat
      BY <3>2, LenProperties DEF TypeOK
    <3>. QED
      BY <3>1, <3>2, <3>3, GrowsFacts
  <2>3. backend' = backend
    BY RowSteps
  <2>4. \A w \in rows' : w.seq \in Nat
    BY <2>2 DEF Row
  <2>. QED
    BY <2>1, <2>2, <2>3, <2>4 DEF CounterAhead
<1>2. CASE UNCHANGED <<rows, counter>>
  BY <1>2, RowSteps DEF SeqUnique, Top, CounterAhead
<1>3. CASE Crash
  <2>1. MaxSeq \in Nat /\ \A w \in rows : w.seq <= MaxSeq
    BY TopFacts
  <2>2. /\ rows' = IF backend = "memory" THEN {} ELSE rows
        /\ counter' = IF backend = "jsonl" THEN MaxSeq ELSE 0
        /\ backend' = backend
    BY <1>3 DEF Crash
  <2>3. backend \in {"memory", "jsonl", "db"}
    BY Constants DEF TypeOK
  <2>. QED
    BY <2>1, <2>2, <2>3 DEF SeqUnique, Top, CounterAhead
<1>. QED
  BY <1>1, <1>2, <1>3, RowSteps

-----------------------------------------------------------------------------
(* The readers.                                                            *)

(* Where rows stay, new ones come behind the last.                         *)
LEMMA NewBehind ==
  ASSUME TypeOK, Top, CounterAhead, QueuedIsKnown, [Next]_vars, backend # "memory"
  PROVE  /\ rows \subseteq rows'
         /\ \A v \in rows' \ rows, w \in rows : w.seq < v.seq
<1>1. ASSUME NEW r \in Runs, NEW k, NEW n, Stores(r, k, n)
      PROVE  \A v \in rows' \ rows, w \in rows : w.seq < v.seq
  <2>1. n \in Nat /\ \A w \in rows : w.seq <= n /\ w.seq \in Nat
    BY <1>1 DEF Stores, Grows, TypeOK, Row
  <2>2. rows' \subseteq Row /\ \A v \in rows' \ rows : v.seq > n
    BY <1>1, GrowsFacts DEF Stores
  <2>3. \A v \in rows' : v.seq \in Nat
    BY <2>2 DEF Row
  <2>. QED
    BY <2>1, <2>2, <2>3
<1>2. CASE Crash
  BY <1>2 DEF Crash
<1>. QED
  BY <1>1, <1>2, RowSteps, Onwards

(* Nobody else moves the client that polls.                                *)
LEMMA NoFollow ==
  ASSUME TypeOK, Top, CounterAhead, [Next]_vars, ~Follow
  PROVE  follower' = follower
<1>. USE DEF clientVars
<1>1. ASSUME NEW r \in Runs, Start(r) \/ Finish(r) \/ ReadHighest(r) \/ FlushDone(r)
                             \/ FlushChunk(r) \/ Refused(r)
      PROVE  follower' = follower
  BY <1>1 DEF Start, Finish, ReadHighest, FlushDone, FlushChunk, Refused, PutBack
<1>2. ASSUME NEW r \in Runs, NEW k, NEW n, Stores(r, k, n) PROVE follower' = follower
  BY <1>2 DEF Stores, Written, PutBack
<1>3. Crash \/ NextPage \/ (\E r \in Runs, dir \in {"forward", "backward"} : OpenPager(r, dir))
      \/ UNCHANGED vars => follower' = follower
  BY DEF Crash, NextPage, OpenPager, vars
<1>4. ASSUME NEW r \in Runs, NEW category \in Categories, Records(r, category)
      PROVE  follower' = follower
  BY <1>4 DEF Records
<1>. QED
  BY <1>1, <1>2, <1>3, <1>4, Kinds

(* No step adds a row behind the client that polls.                        *)
LEMMA FollowerInv ==
  ASSUME TypeOK, Top, CounterAhead, QueuedIsKnown, FollowerBehind, NoneSkipped, [Next]_vars
  PROVE  FollowerBehind' /\ NoneSkipped'
<1>. SUFFICES ASSUME backend # "memory"
              PROVE  /\ follower'.after # 0 => \E w \in rows' : follower'.after <= w.seq
                     /\ \A n \in Messages' : n <= follower'.after => n \in follower'.given
  BY RowSteps DEF FollowerBehind, NoneSkipped
<1>1. \A w \in rows : w.seq \in Nat /\ w.seq # 0
  BY DEF TypeOK, Row
<1>2. follower.after \in Nat
  BY DEF TypeOK
<1>3. CASE Follow
  <2>. DEFINE page == PageAfter(Messages, follower.after, PageLimit)
              later == {n \in Messages : n > follower.after}
  <2>1. /\ page # {} /\ page \in SUBSET Nat /\ (\A n \in page : n <= MaxSeq) /\ page \subseteq Messages
        /\ follower'.after = MaxOf(page) /\ follower'.given = follower.given \cup page
    BY <1>3, FollowFacts
  <2>2. MaxOf(page) \in page /\ \A n \in page : n <= MaxOf(page)
    BY <2>1, TopFacts, MaxOfFacts
  <2>3. rows' = rows
    BY <1>3 DEF Follow, storeVars
  <2>4. Messages' = Messages
    BY <2>3 DEF Messages
  <2>5. \E w \in rows' : w.seq = MaxOf(page)
    BY <2>1, <2>2, <2>3, MessagesFacts
  <2>6. ASSUME NEW n \in Messages, n <= MaxOf(page) PROVE n \in follower'.given
    <3>0. n \in Nat /\ MaxOf(page) \in Nat
      BY <2>1, <2>2, MessagesFacts
    <3>1. CASE n <= follower.after
      BY <2>1, <3>1 DEF NoneSkipped
    <3>2. CASE ~ (n <= follower.after)
      <4>1. n \in later /\ later \in SUBSET Nat
        <5>1. later \subseteq Messages /\ Messages \in SUBSET Nat
          BY MessagesFacts
        <5>2. n > follower.after
          BY <1>2, <3>0, <3>2
        <5>. QED
          BY <5>1, <5>2
      <4>2. page = FirstOf(later, PageLimit)
        BY DEF PageAfter
      <4>3. PageLimit \in Nat
        BY Constants
      <4>4. n \in page
        BY <2>2, <2>6, <4>1, <4>2, <4>3, FirstIsClosed
      <4>. QED
        BY <2>1, <4>4
    <3>. QED
      BY <3>1, <3>2
  <2>7. MaxOf(page) <= MaxOf(page)
    BY <2>1, <2>2
  <2>. QED
    BY <2>1, <2>4, <2>5, <2>6, <2>7
<1>4. CASE ~Follow
  <2>1. follower' = follower
    BY <1>4, NoFollow
  <2>2. rows \subseteq rows' /\ \A v \in rows' \ rows, w \in rows : w.seq < v.seq
    BY NewBehind
  <2>3. follower'.after # 0 => \E w \in rows' : follower'.after <= w.seq
    BY <2>1, <2>2 DEF FollowerBehind
  <2>4. ASSUME NEW n \in Messages', n <= follower.after PROVE n \in follower.given
    <3>1. PICK v \in rows' : v.seq = n /\ v.category = "message"
      BY DEF Messages
    <3>2. v \in rows
      <4>. SUFFICES ASSUME v \notin rows PROVE FALSE
        OBVIOUS
      <4>0. v.seq \in Nat /\ v.seq # 0
        <5>1. rows' \subseteq Row
          BY TypeInv DEF TypeOK
        <5>. QED
          BY <5>1 DEF Row
      <4>1. follower.after # 0
        BY <1>2, <2>4, <3>1, <4>0
      <4>2. PICK w \in rows : follower.after <= w.seq
        BY <4>1 DEF FollowerBehind
      <4>3. w.seq < v.seq /\ w.seq \in Nat
        BY <1>1, <2>2, <4>2
      <4>. QED
        BY <1>2, <2>4, <3>1, <4>0, <4>2, <4>3
    <3>3. n \in Messages
      BY <3>1, <3>2 DEF Messages
    <3>. QED
      BY <2>4, <3>3 DEF NoneSkipped
  <2>. QED
    BY <2>1, <2>3, <2>4
<1>. QED
  BY <1>3, <1>4
(* The pager's run is over, and nothing is added to its messages.          *)
LEMMA PagerKept ==
  ASSUME TypeOK, Top, CounterAhead, QueuedIsKnown, PhasesFit, [Next]_vars, backend # "memory",
         NEW q \in Runs, phase[q] \in Over
  PROVE  MessagesOf(q)' = MessagesOf(q)
<1>1. ASSUME NEW r \in Runs, NEW k, NEW n, Stores(r, k, n)
      PROVE  \A w : w \in rows' /\ w.run = q <=> w \in rows /\ w.run = q
  <2>1. /\ Grows(r, k, n) /\ rows \subseteq rows'
        /\ \A w \in rows' : w \in rows \/ (w.seq > n /\ w.run = r)
    BY <1>1, GrowsFacts DEF Stores
  <2>2. CASE r # q
    BY <2>1, <2>2
  <2>3. CASE r = q
    <3>1. batch[r] = << >>
      BY <2>3 DEF PhasesFit
    <3>2. k \in 0..0
      BY <2>1, <3>1, EmptySeq DEF Grows
    <3>3. Numbered(r, k, n) = {}
      BY <3>2 DEF Numbered
    <3>4. rows' = rows
      BY <2>1, <3>3 DEF Grows, Legible
    <3>. QED
      BY <3>4
  <2>. QED
    BY <2>2, <2>3
<1>2. CASE Crash
  BY <1>2 DEF Crash, MessagesOf
<1>3. CASE UNCHANGED <<rows, counter>>
  BY <1>3 DEF MessagesOf
<1>4. ASSUME \A w : w \in rows' /\ w.run = q <=> w \in rows /\ w.run = q
      PROVE  MessagesOf(q)' = MessagesOf(q)
  <2>1. {w \in rows' : w.category = "message" /\ w.run = q} =
        {w \in rows : w.category = "message" /\ w.run = q}
    BY <1>4
  <2>. QED
    BY <2>1 DEF MessagesOf
<1>. QED
  BY <1>1, <1>2, <1>3, <1>4, RowSteps

(* Nobody else moves the client that pages.                                *)
LEMMA NoPaging ==
  ASSUME TypeOK, Top, CounterAhead, [Next]_vars, ~NextPage,
         ~ \E r \in Runs, dir \in {"forward", "backward"} : OpenPager(r, dir)
  PROVE  pager' = pager
<1>. USE DEF clientVars
<1>1. ASSUME NEW r \in Runs, Start(r) \/ Finish(r) \/ ReadHighest(r) \/ FlushDone(r)
                             \/ FlushChunk(r) \/ Refused(r)
      PROVE  pager' = pager
  BY <1>1 DEF Start, Finish, ReadHighest, FlushDone, FlushChunk, Refused, PutBack
<1>2. ASSUME NEW r \in Runs, NEW k, NEW n, Stores(r, k, n) PROVE pager' = pager
  BY <1>2 DEF Stores, Written, PutBack
<1>3. Crash \/ Follow \/ UNCHANGED vars => pager' = pager
  BY DEF Crash, Follow, vars
<1>4. ASSUME NEW r \in Runs, NEW category \in Categories, Records(r, category) PROVE pager' = pager
  BY <1>4 DEF Records
<1>. QED
  BY <1>1, <1>2, <1>3, <1>4, Kinds

(* A page forward gives what its cursor passes, and the last one all.      *)
LEMMA PageForward ==
  ASSUME NEW S \in SUBSET Nat, NEW top \in Nat, \A n \in S : n <= top,
         NEW cursor \in Nat, NEW m \in S, cursor < m
  PROVE  LET found == PageAfter(S, cursor, PageLimit + 1)
             page == FirstOf(found, PageLimit)
         IN  /\ page # {} /\ m <= MaxOf(page) => m \in page
             /\ ~ (Cardinality(found) > PageLimit) => m \in page
<1>. DEFINE later == {n \in S : n > cursor}
            found == FirstOf(later, PageLimit + 1)
            page == FirstOf(found, PageLimit)
<1>1. PageLimit \in Nat /\ PageLimit + 1 \in Nat
  BY Constants
<1>2. later \in SUBSET Nat /\ (\A n \in later : n <= top) /\ m \in later
  <2>1. m \in Nat /\ m > cursor
    OBVIOUS
  <2>2. later \subseteq S
    OBVIOUS
  <2>. QED
    BY <2>1, <2>2
<1>3. found = PageAfter(S, cursor, PageLimit + 1)
  BY DEF PageAfter
<1>4. page \subseteq found /\ found \subseteq later
  BY DEF FirstOf
<1>. HIDE DEF later
<1>5. ASSUME page # {}, m <= MaxOf(page) PROVE m \in page
  <2>1. page \in SUBSET Nat /\ \A n \in page : n <= top
    BY <1>2, <1>4
  <2>2. MaxOf(page) \in page
    BY <1>5, <2>1, MaxOfFacts
  <2>3. m \in found
    BY <1>1, <1>2, <1>4, <1>5, <2>2, FirstIsClosed
  <2>4. found \in SUBSET Nat
    BY <1>2, <1>4
  <2>. QED
    BY <1>1, <1>5, <2>2, <2>3, <2>4, FirstIsClosed
<1>6. ASSUME ~ (Cardinality(found) > PageLimit) PROVE m \in page
  <2>1. IsFiniteSet(later)
    BY <1>2, FS_BoundedSetOfNaturals
  <2>2. found \in SUBSET later
    BY <1>4
  <2>3. Cardinality(found) \in Nat
    BY <2>1, <2>2, FS_Subset, FS_CardinalityType
  <2>4. Cardinality(found) <= PageLimit
    BY <1>1, <1>6, <2>3
  <2>5. page = later
    BY <1>1, <1>2, <2>4, FirstIsAll
  <2>. QED
    BY <1>2, <2>5
<1>. QED
  BY <1>3, <1>5, <1>6

(* No step makes a client page over what it has not seen.                  *)
LEMMA PagingInv ==
  ASSUME TypeOK, Top, CounterAhead, QueuedIsKnown, PhasesFit, Paging, [Next]_vars
  PROVE  Paging'
<1>. DEFINE P == /\ phase[pager.run] \in Over
                 /\ pager.dir = "forward" =>
                      /\ pager.cursor \in Nat
                      /\ backend # "memory" => \A n \in MessagesOf(pager.run) :
                           n <= pager.cursor \/ ~pager.more => n \in pager.given
<1>. SUFFICES ASSUME pager'.run # None PROVE P'
  BY DEF Paging
<1>b. backend' = backend
  BY RowSteps
<1>t. pager.run \in Runs \cup {None}
  BY DEF TypeOK
<1>1. ASSUME NEW r \in Runs, NEW dir \in {"forward", "backward"}, OpenPager(r, dir) PROVE P'
  <2>1. /\ phase[r] \in Over /\ phase' = phase
        /\ pager' = [run |-> r, dir |-> dir, cursor |-> IF dir = "forward" THEN 0 ELSE None,
                     given |-> {}, more |-> TRUE]
        /\ rows' = rows
    BY <1>1 DEF OpenPager, storeVars
  <2>2. MessagesOf(r)' = MessagesOf(r)
    BY <2>1 DEF MessagesOf
  <2>3. \A n \in MessagesOf(r) : n \in Nat /\ ~ (n <= 0)
    BY DEF MessagesOf, TypeOK, Row
  <2>. QED
    BY <2>1, <2>2, <2>3
<1>2. CASE NextPage
  <2>. DEFINE S == MessagesOf(pager.run)
              page == FirstOf(Found(pager, S), PageLimit)
  <2>1. /\ pager'.run = pager.run /\ pager'.dir = pager.dir /\ pager.run \in Runs /\ pager.more
        /\ pager'.given = pager.given \cup page
        /\ pager'.more = (Cardinality(Found(pager, S)) > PageLimit)
        /\ page = {} => pager'.cursor = pager.cursor
        /\ page # {} /\ pager.dir = "forward" => pager'.cursor = MaxOf(page)
        /\ page \in SUBSET Nat /\ \A n \in page : n <= MaxSeq
        /\ UNCHANGED <<backend, phase, journalVars, storeVars, follower>>
    BY <1>2, NextPageFacts
  <2>n. pager.run # None
    BY <1>2 DEF NextPage
  <2>2. phase'[pager'.run] \in Over
    BY <2>1, <2>n DEF Paging
  <2>3. MessagesOf(pager.run)' = S
    <3>1. rows' = rows /\ pager'.run = pager.run
      BY <2>1 DEF storeVars
    <3>. QED
      BY <3>1 DEF MessagesOf
  <2>4. ASSUME pager.dir = "forward"
        PROVE  /\ pager'.cursor \in Nat
               /\ backend # "memory" => \A n \in S :
                    n <= pager'.cursor \/ ~pager'.more => n \in pager'.given
    <3>1. pager.cursor \in Nat
      BY <2>4, <2>n DEF Paging
    <3>2. MaxOf(page) \in Nat
      BY <2>1, TopFacts, MaxOfFacts
    <3>3. pager'.cursor \in Nat
      BY <2>1, <2>4, <3>1, <3>2
    <3>4. ASSUME backend # "memory", NEW n \in S, n <= pager'.cursor \/ ~pager'.more
          PROVE  n \in pager'.given
      <4>1. S \in SUBSET Nat /\ MaxSeq \in Nat /\ \A j \in S : j <= MaxSeq
        BY MessagesFacts, TopFacts
      <4>2. CASE n <= pager.cursor
        BY <2>1, <2>4, <2>n, <3>4, <4>2 DEF Paging
      <4>3. CASE ~ (n <= pager.cursor)
        <5>1. pager.cursor < n
          BY <3>1, <4>1, <4>3
        <5>2. Found(pager, S) = PageAfter(S, pager.cursor, PageLimit + 1)
          BY <2>4 DEF Found
        <5>3. /\ page # {} /\ n <= MaxOf(page) => n \in page
              /\ ~ (Cardinality(Found(pager, S)) > PageLimit) => n \in page
          BY <3>1, <4>1, <5>1, <5>2, PageForward
        <5>4. n \in page
          BY <2>1, <2>4, <3>4, <4>3, <5>3
        <5>. QED
          BY <2>1, <5>4
      <4>. QED
        BY <4>2, <4>3
    <3>. QED
      BY <3>3, <3>4
  <2>. QED
    BY <1>b, <2>1, <2>2, <2>3, <2>4
<1>3. ASSUME ~NextPage, ~ \E r \in Runs, dir \in {"forward", "backward"} : OpenPager(r, dir)
      PROVE  P'
  <2>1. pager' = pager /\ pager.run \in Runs /\ P
    BY <1>3, <1>t, NoPaging DEF Paging
  <2>2. phase'[pager.run] \in Over
    <3>1. CASE Crash
      BY <2>1, <3>1, CrashFacts DEF Over, Survives
    <3>2. CASE ~Crash
      BY <2>1, <3>2, Onwards
    <3>. QED
      BY <3>1, <3>2
  <2>3. PICK q \in Runs : q = pager.run
    BY <2>1
  <2>4. ASSUME backend # "memory" PROVE MessagesOf(pager.run)' = MessagesOf(pager.run)
    <3>1. MessagesOf(q)' = MessagesOf(q)
      BY <2>1, <2>3, <2>4, PagerKept
    <3>2. pager'.run = q
      BY <2>1, <2>3
    <3>3. MessagesOf(pager.run)' = MessagesOf(q)'
      BY <3>2 DEF MessagesOf
    <3>. QED
      BY <2>3, <3>1, <3>3
  <2>. QED
    BY <1>b, <2>1, <2>2, <2>4
<1>. QED
  BY <1>1, <1>2, <1>3
-----------------------------------------------------------------------------
(* The theorems.                                                           *)

(* A client at the end has everything.                                     *)
LEMMA PagingShows ==
  /\ Paging => ForwardComplete
  /\ Paging' => ForwardComplete'
  BY DEF Paging, ForwardComplete, Finished

(* The invariant holds at the start,                                       *)
LEMMA IndInit == Init => IndInv
<1>. SUFFICES ASSUME Init PROVE IndInv
  OBVIOUS
<1>1. TypeOK
  BY TypeInit
<1>e. Len(<< >>) = 0 /\ 1..Len(<< >>) = {} /\ << >> \o << >> = << >>
  BY EmptySeq, QueueEmpty
<1>2. AtLeastOnce /\ EndedIsStored /\ SeqUnique /\ NoneSkipped /\ QueuedIsKnown /\ PhasesFit
      /\ Top /\ CounterAhead /\ FollowerBehind /\ Paging
  BY <1>e DEF Init, AtLeastOnce, EndedIsStored, SeqUnique, NoneSkipped, Messages, QueuedIsKnown,
              PhasesFit, Over, Queued, Top, CounterAhead, FollowerBehind, Paging, NoPager
<1>3. ExactlyOnce
  <2>. SUFFICES ASSUME NEW q \in Runs PROVE Once(q)
    BY <1>1, OnceFacts
  <2>1. emitted[q] = << >> /\ batch[q] = << >> /\ buffer[q] = << >> /\ rows = {}
    BY DEF Init
  <2>2. 0 \in 0..Len(emitted[q]) /\ StoredUpTo(q, 0) /\ Laid(q, 0)
    BY <1>e, <2>1 DEF StoredUpTo, Laid, Beside
  <2>. QED
    BY <2>2 DEF Once
<1>. QED
  BY <1>1, <1>2, <1>3, PagingShows DEF IndInv, Safety

(* and every step keeps it.                                                *)
LEMMA IndNext == IndInv /\ [Next]_vars => IndInv'
<1>. SUFFICES ASSUME IndInv, [Next]_vars PROVE IndInv'
  OBVIOUS
<1>1. /\ TypeOK /\ AtLeastOnce /\ EndedIsStored /\ SeqUnique /\ ExactlyOnce /\ NoneSkipped
      /\ QueuedIsKnown /\ PhasesFit /\ Top /\ CounterAhead /\ FollowerBehind /\ Paging
  BY DEF IndInv, Safety
<1>2. TypeOK'
  BY <1>1, TypeInv
<1>3. QueuedIsKnown' /\ PhasesFit' /\ AtLeastOnce' /\ EndedIsStored'
  BY <1>1, KnownInv, FitInv, AtLeastInv, EndedInv
<1>4. ExactlyOnce'
  BY <1>1, <1>2, OnceInv
<1>5. SeqUnique' /\ Top' /\ CounterAhead'
  BY <1>1, NumbersInv
<1>6. FollowerBehind' /\ NoneSkipped'
  BY <1>1, FollowerInv
<1>7. Paging'
  BY <1>1, PagingInv
<1>. QED
  BY <1>2, <1>3, <1>4, <1>5, <1>6, <1>7, PagingShows DEF IndInv, Safety

(* The inductive invariant, and with it types and the order of the phases, *)
(* holds in every state the journals, the store and its readers reach.     *)
THEOREM Invariance == Spec => []IndInv
  BY IndInit, IndNext, PTL DEF Spec

(* Where a batch is written as a whole, nothing a run recorded is lost,    *)
(* doubled or moved by failing, refused and overlapping writes.            *)
THEOREM StoredOnce == Spec => []ExactlyOnce
<1>1. IndInv => ExactlyOnce
  BY DEF IndInv
<1>. QED
  BY <1>1, Invariance, PTL

(* Where a batch can be written half, no event of a run that goes on or    *)
(* ended is missing, unless a line was appended to a torn one.             *)
THEOREM StoredAtLeast == Spec => []AtLeastOnce
<1>1. IndInv => AtLeastOnce
  BY DEF IndInv, Safety
<1>. QED
  BY <1>1, Invariance, PTL

(* A worker whose final flush did not fail leaves its run stored, also     *)
(* what a task was still writing, but for a line appended to a torn one.   *)
THEOREM FlushStores == Spec => []EndedIsStored
<1>1. IndInv => EndedIsStored
  BY DEF IndInv, Safety
<1>. QED
  BY <1>1, Invariance, PTL

(* No number is given twice in a thread.                                   *)
THEOREM NumbersUnique == Spec => []SeqUnique
<1>1. IndInv => SeqUnique
  BY DEF IndInv, Safety
<1>. QED
  BY <1>1, Invariance, PTL

(* No message appears behind the cursor of a client that polls.            *)
THEOREM FollowerSeesAll == Spec => []NoneSkipped
<1>1. IndInv => NoneSkipped
  BY DEF IndInv
<1>. QED
  BY <1>1, Invariance, PTL

(* A client that pages forward to the end has all messages of the run.     *)
THEOREM PagerSeesAll == Spec => []ForwardComplete
<1>1. IndInv => ForwardComplete
  BY DEF IndInv, Safety
<1>. QED
  BY <1>1, Invariance, PTL
=============================================================================
