---------------------------- MODULE AgentProofs ----------------------------
(***************************************************************************)
(* Proofs about the lead agent: its loop (AgentLoop), the subagents it     *)
(* starts (SubagentTasks) and the breaker of its model calls               *)
(* (CircuitBreaker), each for every value of its constants.                *)
(*                                                                         *)
(* The lemmas come first: about numbers, about FlattenSeq and the places   *)
(* of its elements, about sums, and about what each middleware does to a   *)
(* history.                                                                *)
(***************************************************************************)
EXTENDS AgentLoop, CircuitBreaker, SubagentTasks, FiniteSetTheorems,
        SequenceTheorems, WellFoundedInduction, TLAPS

-----------------------------------------------------------------------------
(* Numbers.                                                                *)

(* A set of numbers that is not empty has a least one.                     *)
LEMMA LeastOf ==
  ASSUME NEW S \in SUBSET Nat, S # {}
  PROVE  \E m \in S : \A n \in S : m <= n
<1>1. PICK m \in S : \A n \in S : ~ (<<n, m>> \in OpToRel(<, Nat))
  BY WFMin, NatLessThanWellFounded, Zenon
<1>2. \A n \in S : ~ (n < m)
  BY <1>1 DEF OpToRel
<1>. QED
  BY <1>2

(* And a greatest one, when it has a bound.                                *)
LEMMA GreatestOf ==
  ASSUME NEW S \in SUBSET Nat, S # {}, NEW top \in Nat, \A n \in S : n <= top
  PROVE  \E m \in S : \A n \in S : n <= m
<1>. DEFINE T == {top - n : n \in S}
<1>1. T \in SUBSET Nat /\ T # {}
  <2>1. \A n \in S : top - n \in Nat
    OBVIOUS
  <2>. QED
    BY <2>1
<1>2. PICK d \in T : \A e \in T : d <= e
  BY <1>1, LeastOf
<1>3. PICK m \in S : d = top - m
  BY <1>2
<1>4. ASSUME NEW n \in S PROVE n <= m
  <2>1. top - n \in T
    OBVIOUS
  <2>. QED
    BY <2>1, <1>2, <1>3
<1>. QED
  BY <1>3, <1>4

(* Induction, for the numbers of which something is true.                  *)
LEMMA UpTo ==
  ASSUME NEW n \in Nat, NEW T, 0 \in T,
    \A i \in 0..(n - 1) : i \in T => i + 1 \in T
  PROVE  \A i \in 0..n : i \in T
<1>. DEFINE Out == (0..n) \ T
<1>. SUFFICES ASSUME Out # {} PROVE FALSE
  OBVIOUS
<1>1. Out \in SUBSET Nat
  OBVIOUS
<1>2. PICK m \in Out : \A i \in Out : m <= i
  BY <1>1, LeastOf
<1>3. m # 0 /\ m - 1 \in 0..(n - 1)
  BY <1>2
<1>4. m - 1 \in T
  BY <1>2, <1>3
<1>. QED
  BY <1>2, <1>3, <1>4

-----------------------------------------------------------------------------
(* FlattenSeq and At.                                                      *)

(* The length of two sequences joined.                                     *)
LEMMA LenOfJoin ==
  ASSUME NEW S, NEW u \in Seq(S), NEW v \in Seq(S)
  PROVE  Len(u \o v) = Len(u) + Len(v)
BY ConcatProperties

(* The place of the k-th message behind the first of a block.              *)
LEMMA Inside ==
  ASSUME NEW o \in Nat, NEW n \in Nat, NEW k \in 0..n
  PROVE  k + 1 \in 1..(n + 1) /\ (o + 1) + k = o + (k + 1)
OBVIOUS

(* The sequence of the first n elements of s joined.                       *)
LEMMA JoinExists ==
  ASSUME NEW S, NEW s \in Seq(Seq(S))
  PROVE  \E f \in [1..Len(s) -> Seq(S)] :
           \A i \in 1..Len(s) : f[i] = IF i = 1 THEN s[i] ELSE f[i - 1] \o s[i]
<1>. DEFINE Joins(n, f) ==
       /\ f \in [1..n -> Seq(S)]
       /\ \A i \in 1..n : f[i] = IF i = 1 THEN s[i] ELSE f[i - 1] \o s[i]
     T == {n \in Nat : \E f : Joins(n, f)}
<1>1. 0 \in T
  <2>1. Joins(0, [i \in 1..0 |-> << >>])
    OBVIOUS
  <2>. QED
    BY <2>1
<1>2. ASSUME NEW n \in 0..(Len(s) - 1), n \in T PROVE n + 1 \in T
  <2>1. PICK f : Joins(n, f)
    BY <1>2
  <2>. DEFINE g == [i \in 1..(n + 1) |->
                      IF i = n + 1 THEN IF i = 1 THEN s[i] ELSE f[i - 1] \o s[i] ELSE f[i]]
  <2>2. \A i \in 1..(n + 1) : s[i] \in Seq(S)
    BY <1>2
  <2>3. g \in [1..(n + 1) -> Seq(S)]
    BY <1>2, <2>1, <2>2
  <2>4. ASSUME NEW i \in 1..(n + 1)
        PROVE g[i] = IF i = 1 THEN s[i] ELSE g[i - 1] \o s[i]
    <3>1. CASE i = n + 1
      <4>1. g[i] = IF i = 1 THEN s[i] ELSE f[i - 1] \o s[i]
        BY <3>1
      <4>2. i # 1 => g[i - 1] = f[i - 1]
        BY <1>2, <3>1
      <4>. QED
        BY <4>1, <4>2
    <3>2. CASE i # n + 1
      <4>1. i \in 1..n /\ g[i] = f[i]
        BY <1>2, <3>2
      <4>2. i # 1 => g[i - 1] = f[i - 1]
        BY <1>2, <4>1
      <4>. QED
        BY <4>1, <4>2, <2>1
    <3>. QED
      BY <3>1, <3>2
  <2>5. Joins(n + 1, g)
    BY <2>3, <2>4
  <2>6. n + 1 \in Nat
    BY <1>2
  <2>. HIDE DEF g, Joins
  <2>. QED
    BY <2>5, <2>6
<1>. HIDE DEF T
<1>3. Len(s) \in T
  <2>1. Len(s) \in Nat
    OBVIOUS
  <2>2. \A i \in 0..Len(s) : i \in T
    BY <2>1, <1>1, <1>2, UpTo
  <2>. QED
    BY <2>1, <2>2
<1>. QED
  BY <1>3 DEF T

(* Where the elements of the elements of s are in FlattenSeq(s): those of  *)
(* s[i] follow off[i - 1].                                                 *)
Offsets(s, off) ==
  /\ off \in [0..Len(s) -> Nat] /\ off[0] = 0
  /\ \A i \in 1..Len(s) : off[i] = off[i - 1] + Len(s[i])

(* FlattenSeq joins the elements of s, each at its offset, and nothing else. *)
LEMMA FlattenFacts ==
  ASSUME NEW S, NEW s \in Seq(Seq(S))
  PROVE  /\ FlattenSeq(s) \in Seq(S)
         /\ \E off :
              /\ Offsets(s, off)
              /\ Len(FlattenSeq(s)) = off[Len(s)]
              /\ \A i, j \in 0..Len(s) : i <= j => off[i] <= off[j]
              /\ \A i \in 1..Len(s) : \A j \in 1..Len(s[i]) :
                   FlattenSeq(s)[off[i - 1] + j] = s[i][j]
              /\ \A p \in 1..Len(FlattenSeq(s)) : \E i \in 1..Len(s) :
                   off[i - 1] < p /\ p <= off[i]
<1>. DEFINE L == Len(s)
<1>0. L \in Nat /\ \A i \in 1..L : s[i] \in Seq(S) /\ Len(s[i]) \in Nat
  OBVIOUS
<1>1. PICK f \in [1..L -> Seq(S)] :
        \A i \in 1..L : f[i] = IF i = 1 THEN s[i] ELSE f[i - 1] \o s[i]
  BY JoinExists
<1>. HIDE DEF L
<1>5. ASSUME L # 0 PROVE f[1] = s[1]
  <2>1. 1 \in 1..L
    BY <1>0, <1>5
  <2>. QED
    BY <2>1, <1>1
<1>6. ASSUME NEW i \in 1..L, i # 1
      PROVE i - 1 \in 1..L /\ f[i] = f[i - 1] \o s[i]
  <2>1. f[i] = f[i - 1] \o s[i]
    BY <1>1, <1>6
  <2>. QED
    BY <2>1, <1>0, <1>6
<1>2. CASE L = 0
  <2>1. s = << >> /\ FlattenSeq(s) = << >>
    BY <1>2 DEF FlattenSeq, L
  <2>. DEFINE off == [i \in 0..0 |-> 0]
  <2>2. Offsets(s, off)
    BY <2>1 DEF Offsets
  <2>3. Len(s) = 0 /\ Len(FlattenSeq(s)) = 0 /\ FlattenSeq(s) \in Seq(S) /\ off[0] = 0
    <3>1. << >> \in Seq(S) /\ Len(<< >>) = 0 /\ off[0] = 0
      OBVIOUS
    <3>. HIDE DEF off
    <3>. QED
      BY <2>1, <3>1
  <2>4. \A i, j \in 0..0 : i <= j => off[i] <= off[j]
    OBVIOUS
  <2>5. 1..0 = {}
    OBVIOUS
  <2>. HIDE DEF off
  <2>. QED
    BY <2>2, <2>3, <2>4, <2>5
<1>3. CASE L # 0
  <2>. DEFINE off == [i \in 0..L |-> IF i = 0 THEN 0 ELSE Len(f[i])]
  <2>0. \A i \in 1..L : f[i] \in Seq(S) /\ Len(f[i]) \in Nat
    <3>1. \A i \in 1..L : f[i] \in Seq(S)
      BY <1>1
    <3>. QED
      BY <3>1
  <2>1. FlattenSeq(s) = f[L]
    <3>. DEFINE flatten[i \in 1..Len(s)] == IF i = 1 THEN s[i] ELSE flatten[i - 1] \o s[i]
    <3>1. FlattenSeq(s) = flatten[L]
      BY <1>3, Zenon DEF FlattenSeq, L
    <3>2. f = [i \in 1..Len(s) |-> IF i = 1 THEN s[i] ELSE f[i - 1] \o s[i]]
      BY <1>1 DEF L
    <3>3. flatten = [i \in 1..Len(s) |-> IF i = 1 THEN s[i] ELSE flatten[i - 1] \o s[i]]
      BY <3>2
    <3>. HIDE DEF flatten
    <3>4. \A i \in 1..L : flatten[i] = IF i = 1 THEN s[i] ELSE flatten[i - 1] \o s[i]
      BY <3>3 DEF L
    <3>8. flatten[1] = s[1] /\ \A i \in 1..L : i # 1 => flatten[i] = flatten[i - 1] \o s[i]
      <4>1. 1 \in 1..L
        BY <1>0, <1>3
      <4>. QED
        BY <4>1, <3>4
    <3>. DEFINE T == {n \in Nat : n = 0 \/ flatten[n] = f[n]}
    <3>5. 0 \in T
      OBVIOUS
    <3>6. ASSUME NEW n \in 0..(L - 1), n \in T PROVE n + 1 \in T
      <4>1. n + 1 \in 1..L /\ n + 1 \in Nat /\ (n + 1) - 1 = n
        BY <1>0
      <4>2. CASE n = 0
        BY <4>1, <4>2, <1>5, <3>8, <1>3
      <4>3. CASE n # 0
        <5>1. n + 1 # 1 /\ flatten[n] = f[n]
          BY <3>6, <4>3, <4>1
        <5>2. f[n + 1] = f[n] \o s[n + 1]
          BY <4>1, <5>1, <1>6
        <5>3. flatten[n + 1] = flatten[n] \o s[n + 1]
          BY <4>1, <5>1, <3>8
        <5>. QED
          BY <4>1, <5>1, <5>2, <5>3
      <4>. QED
        BY <4>2, <4>3
    <3>. HIDE DEF T
    <3>9. \A i \in 0..L : i \in T
      BY <1>0, <3>5, <3>6, UpTo
    <3>7. L \in T
      BY <1>0, <3>9
    <3>. QED
      BY <1>3, <3>1, <3>7 DEF T
  <2>2. Offsets(s, off)
    <3>1. off \in [0..L -> Nat] /\ off[0] = 0
      BY <2>0, <1>0
    <3>3. \A i \in 1..L : off[i] = Len(f[i])
      BY <1>0
    <3>2. ASSUME NEW i \in 1..L PROVE off[i] = off[i - 1] + Len(s[i])
      <4>0. Len(s[i]) \in Nat
        BY <1>0
      <4>1. CASE i = 1
        <5>1. off[1] = Len(s[1]) /\ i - 1 = 0
          BY <4>1, <3>3, <1>5, <1>3
        <5>. QED
          BY <5>1, <4>1, <4>0, <3>1
      <4>2. CASE i # 1
        <5>1. i - 1 \in 1..L /\ f[i] = f[i - 1] \o s[i]
          BY <1>6, <4>2
        <5>3. f[i - 1] \in Seq(S) /\ s[i] \in Seq(S)
          BY <5>1, <2>0, <1>0
        <5>2. Len(f[i]) = Len(f[i - 1]) + Len(s[i])
          <6>1. Len(f[i - 1] \o s[i]) = Len(f[i - 1]) + Len(s[i])
            BY <5>3, LenOfJoin, Zenon
          <6>. QED
            BY Zenon, <6>1, <5>1
        <5>4. off[i] = Len(f[i]) /\ off[i - 1] = Len(f[i - 1])
          BY <5>1, <3>3
        <5>. QED
          BY <5>2, <5>4
      <4>. QED
        BY <4>1, <4>2
    <3>. HIDE DEF off
    <3>. QED
      BY <3>1, <3>2 DEF Offsets, L
  <2>. HIDE DEF off
  <2>3. \A i \in 1..L : off[i] = Len(f[i])
    BY <1>0 DEF off
  <2>9. /\ off[0] = 0 /\ \A i \in 0..L : off[i] \in Nat
        /\ \A i \in 1..L : i - 1 \in 0..L /\ off[i] = off[i - 1] + Len(s[i])
    BY <2>2, <1>0 DEF Offsets, L
  <2>4. \A i, j \in 0..L : i <= j => off[i] <= off[j]
    <3>. SUFFICES ASSUME NEW i \in 0..L
         PROVE \A j \in 0..L : i <= j => off[i] <= off[j]
      OBVIOUS
    <3>. DEFINE T == {n \in Nat : i <= n => off[i] <= off[n]}
    <3>1. 0 \in T
      BY <2>9
    <3>2. ASSUME NEW n \in 0..(L - 1), n \in T PROVE n + 1 \in T
      <4>1. n + 1 \in 1..L /\ n \in 0..L
        BY <1>0
      <4>2. off[n + 1] = off[n] + Len(s[n + 1]) /\ off[n] \in Nat /\ off[i] \in Nat
        <5>1. (n + 1) - 1 = n
          OBVIOUS
        <5>. QED
          BY <4>1, <5>1, <2>9
      <4>3. Len(s[n + 1]) \in Nat
        BY <4>1, <1>0
      <4>4. CASE i = n + 1
        BY <4>4, <4>1, <4>2
      <4>5. CASE i <= n
        BY <4>5, <4>1, <4>2, <4>3, <3>2
      <4>. QED
        BY <4>1, <4>4, <4>5
    <3>. HIDE DEF T
    <3>3. \A j \in 0..L : j \in T
      BY <1>0, <3>1, <3>2, UpTo
    <3>. QED
      BY <3>3 DEF T
  <2>5. \A m \in 1..L : \A i \in 1..m : \A j \in 1..Len(s[i]) : f[m][off[i - 1] + j] = s[i][j]
    <3>. DEFINE T == {n \in Nat : \A i \in 1..n : \A j \in 1..Len(s[i]) :
                        f[n][off[i - 1] + j] = s[i][j]}
    <3>1. 0 \in T
      OBVIOUS
    <3>2. ASSUME NEW n \in 0..(L - 1), n \in T PROVE n + 1 \in T
      <4>n. n + 1 \in Nat
        BY <1>0
      <4>. SUFFICES ASSUME NEW i \in 1..(n + 1), NEW j \in 1..Len(s[i])
                    PROVE  f[n + 1][off[i - 1] + j] = s[i][j]
        BY Zenon, <4>n
      <4>0. n + 1 \in 1..L /\ i \in 1..L /\ i - 1 \in 0..L /\ (n + 1) - 1 = n
        BY <1>0
      <4>1. CASE n = 0
        <5>1. i = 1 /\ i - 1 = 0
          BY <4>1
        <5>2. f[n + 1] = s[1] /\ off[i - 1] = 0
          BY <5>1, <4>1, <1>3, <1>5, <2>9
        <5>. QED
          BY <5>1, <5>2, <4>1
      <4>2. CASE n # 0
        <5>1. n \in 1..L /\ f[n + 1] = f[n] \o s[n + 1]
          <6>1. n + 1 # 1
            BY <4>2
          <6>. QED
            BY <4>0, <6>1, <1>6
        <5>. DEFINE l == Len(f[n])
                    d == off[i - 1]
                    k == Len(s[n + 1])
        <5>2. off[n] = l /\ off[i] = d + Len(s[i])
          BY <5>1, <4>0, <2>3, <2>9
        <5>3. d \in Nat /\ l \in Nat /\ off[i] \in Nat /\ k \in Nat /\ Len(s[i]) \in Nat
          <6>1. l \in Nat
            BY <5>1, <2>0
          <6>2. k \in Nat /\ Len(s[i]) \in Nat
            BY <4>0, <1>0
          <6>3. d \in Nat
            BY <4>0, <2>9
          <6>4. i \in 0..L
            BY <4>0
          <6>5. off[i] \in Nat
            BY <6>4, <2>9
          <6>. QED
            BY <6>1, <6>2, <6>3, <6>5
        <5>4. f[n] \in Seq(S) /\ s[n + 1] \in Seq(S)
          BY <5>1, <4>0, <1>0, <1>1
        <5>5. \A p \in 1..(l + k) :
                f[n + 1][p] = IF p <= l THEN f[n][p] ELSE s[n + 1][p - l]
          BY <5>1, <5>4, ConcatProperties
        <5>6. CASE i = n + 1
          <6>0. d = l /\ k = Len(s[i])
            BY <5>6, <5>2, <4>0
          <6>. HIDE DEF l, d, k
          <6>1. l + j \in 1..(l + k) /\ ~(l + j <= l) /\ (l + j) - l = j
            BY <6>0, <5>3
          <6>2. f[n + 1][l + j] = s[n + 1][j]
            BY <6>1, <5>5
          <6>. QED
            BY <6>0, <6>2, <5>6 DEF d
        <5>7. CASE i # n + 1
          <6>1. i \in 1..n /\ n \in 0..L /\ i \in 0..L
            BY <5>7, <5>1, <4>0
          <6>4. off[i] <= l
            BY <6>1, <2>4, <5>2
          <6>3. f[n][d + j] = s[i][j]
            BY <6>1, <3>2
          <6>. HIDE DEF l, d, k
          <6>2. d + j \in 1..(l + k) /\ d + j <= l
            BY <6>4, <5>2, <5>3
          <6>5. f[n + 1][d + j] = s[i][j]
            BY <6>2, <6>3, <5>5
          <6>. QED
            BY <6>5 DEF d
        <5>. QED
          BY <5>6, <5>7
      <4>. QED
        BY <4>1, <4>2
    <3>. HIDE DEF T
    <3>3. \A n \in 0..L : n \in T
      BY <1>0, <3>1, <3>2, UpTo
    <3>4. \A n \in 1..L : n \in T
      BY <1>0, <3>3
    <3>. QED
      BY <3>4 DEF T
  <2>6. ASSUME NEW p \in 1..off[L]
        PROVE \E i \in 1..L : off[i - 1] < p /\ p <= off[i]
    <3>. DEFINE T == {n \in 0..L : p <= off[n]}
    <3>1. L \in T /\ T \in SUBSET Nat
      BY <1>0, <2>9
    <3>2. PICK i \in T : \A n \in T : i <= n
      BY <3>1, LeastOf
    <3>3. i # 0 /\ i \in 1..L /\ i - 1 \in 0..L
      BY <3>2, <1>0, <2>9
    <3>4. i - 1 \notin T
      BY <3>2, <3>3
    <3>5. off[i - 1] \in Nat
      BY <3>3, <2>9
    <3>. QED
      BY <3>2, <3>3, <3>4, <3>5
  <2>7. Len(FlattenSeq(s)) = off[L] /\ FlattenSeq(s) \in Seq(S)
    BY <1>3, <1>0, <2>1, <2>0, <2>3
  <2>8. \A i \in 1..L : \A j \in 1..Len(s[i]) : FlattenSeq(s)[off[i - 1] + j] = s[i][j]
    <3>1. L \in 1..L
      BY <1>0, <1>3
    <3>. QED
      BY <3>1, <2>1, <2>5
  <2>. QED
    BY <2>2, <2>4, <2>6, <2>7, <2>8 DEF L
<1>. QED
  BY <1>2, <1>3

(* At(s, I) has the elements of s at I in their order: h tells where each  *)
(* of them was.                                                            *)
Picks(s, I, h) ==
  /\ h \in [1..Len(At(s, I)) -> I \cap (1..Len(s))]
  /\ \A k \in 1..Len(At(s, I)) : At(s, I)[k] = s[h[k]]
  /\ \A k, l \in 1..Len(At(s, I)) : k < l <=> h[k] < h[l]
  /\ \A i \in I \cap (1..Len(s)) : \E k \in 1..Len(At(s, I)) : h[k] = i

(* At picks the elements at the indices in I, in their order.              *)
LEMMA AtFacts ==
  ASSUME NEW S, NEW s \in Seq(S), NEW I
  PROVE  At(s, I) \in Seq(S) /\ \E h : Picks(s, I, h)
<1>. DEFINE b == [i \in DOMAIN s |-> IF i \in I THEN <<s[i]>> ELSE << >>]
            L == Len(s)
            f == FlattenSeq(b)
<1>1. L \in Nat /\ DOMAIN s = 1..L /\ \A i \in 1..L : s[i] \in S
  OBVIOUS
<1>2. b \in Seq(Seq(S)) /\ Len(b) = L
  <2>1. \A i \in 1..L : <<s[i]>> \in Seq(S) /\ << >> \in Seq(S)
    BY <1>1
  <2>2. b \in [1..L -> Seq(S)]
    BY <1>1, <2>1
  <2>. HIDE DEF b, L
  <2>. QED
    BY <2>2, <1>1
<1>3. \A i \in 1..L : /\ i \in I => b[i] = <<s[i]>> /\ Len(b[i]) = 1 /\ b[i][1] = s[i]
                      /\ i \notin I => b[i] = << >> /\ Len(b[i]) = 0
  BY <1>1
<1>4. At(s, I) = f
  BY DEF At
<1>. HIDE DEF b, f, L
<1>5. f \in Seq(S)
  BY <1>2, FlattenFacts DEF f
<1>6. PICK off :
        /\ Offsets(b, off)
        /\ Len(f) = off[L]
        /\ \A i, j \in 0..L : i <= j => off[i] <= off[j]
        /\ \A i \in 1..L : \A j \in 1..Len(b[i]) : f[off[i - 1] + j] = b[i][j]
        /\ \A p \in 1..Len(f) : \E i \in 1..L : off[i - 1] < p /\ p <= off[i]
  BY <1>2, FlattenFacts DEF f
<1>7. /\ off[0] = 0 /\ \A i \in 0..L : off[i] \in Nat
      /\ \A i \in 1..L : i - 1 \in 0..L /\ off[i] = off[i - 1] + Len(b[i])
  BY <1>1, <1>2, <1>6 DEF Offsets
<1>. DEFINE h == [p \in 1..Len(f) |-> CHOOSE i \in 1..L : off[i - 1] < p /\ p <= off[i]]
<1>8. ASSUME NEW p \in 1..Len(f)
      PROVE  h[p] \in I \cap (1..L) /\ off[h[p]] = p /\ f[p] = s[h[p]]
  <2>1. h[p] \in 1..L /\ off[h[p] - 1] < p /\ p <= off[h[p]]
    BY <1>6
  <2>. HIDE DEF h
  <2>2. PICK i \in 1..L : i = h[p]
    BY <2>1
  <2>3. off[i] = off[i - 1] + Len(b[i]) /\ off[i - 1] \in Nat /\ off[i] \in Nat /\ p \in Int
    <3>1. i \in 0..L /\ i - 1 \in 0..L
      BY <1>7
    <3>2. p \in Int
      BY <1>5
    <3>. QED
      BY <3>1, <3>2, <1>7
  <2>4. i \in I
    BY <2>1, <2>2, <2>3, <1>3
  <2>5. Len(b[i]) = 1 /\ b[i][1] = s[i]
    BY <2>4, <1>3
  <2>6. p = off[i - 1] + 1
    BY <2>1, <2>2, <2>3, <2>5
  <2>7. f[off[i - 1] + 1] = b[i][1]
    BY <2>5, <1>6
  <2>. QED
    BY <2>2, <2>3, <2>4, <2>5, <2>6, <2>7
<1>11. h \in [1..Len(f) -> I \cap (1..L)]
  BY <1>8
<1>. HIDE DEF h
<1>9. ASSUME NEW i \in I \cap (1..L)
      PROVE off[i] \in 1..Len(f) /\ h[off[i]] = i
  <2>1. i \in 0..L /\ L \in 0..L /\ i <= L
    BY <1>1
  <2>2. off[i] <= Len(f) /\ off[i] = off[i - 1] + 1 /\ off[i - 1] \in Nat /\ off[i] \in Nat
    BY <2>1, <1>3, <1>6, <1>7
  <2>3. off[i] \in 1..Len(f)
    BY <2>2, <1>5
  <2>4. PICK j \in 1..L : j = h[off[i]] /\ off[j] = off[i] /\ j \in I
    BY <2>3, <1>8
  <2>5. off[j] = off[j - 1] + 1 /\ off[j - 1] \in Nat
    BY <2>4, <1>3, <1>7
  <2>6. ~(i < j)
    <3>1. i < j => i <= j - 1 /\ j - 1 \in 0..L
      BY <2>1, <1>7
    <3>2. i < j => off[i] <= off[j - 1]
      BY <3>1, <2>1, <1>6
    <3>. QED
      BY <3>2, <2>2, <2>4, <2>5
  <2>7. ~(j < i)
    <3>1. j < i => j <= i - 1 /\ i - 1 \in 0..L /\ j \in 0..L
      BY <2>1, <1>7
    <3>2. j < i => off[j] <= off[i - 1]
      BY <3>1, <1>6
    <3>. QED
      BY <3>2, <2>2, <2>4
  <2>. QED
    BY <2>3, <2>4, <2>6, <2>7
<1>10. ASSUME NEW k \in 1..Len(f), NEW l \in 1..Len(f)
       PROVE k < l <=> h[k] < h[l]
  <2>1. PICK i, j \in 1..L : i = h[k] /\ j = h[l] /\ off[i] = k /\ off[j] = l
    BY <1>8
  <2>2. i \in 0..L /\ j \in 0..L
    OBVIOUS
  <2>3. (i <= j => k <= l) /\ (j <= i => l <= k)
    BY <2>1, <2>2, <1>6
  <2>4. k \in Int /\ l \in Int
    BY <1>5
  <2>. QED
    BY <2>1, <2>3, <2>4
<1>12. Picks(s, I, h)
  BY <1>4, <1>8, <1>9, <1>10, <1>11 DEF Picks, L
<1>. QED
  BY <1>4, <1>5, <1>12

(* So many elements has it as there are indices.                           *)
LEMMA AtLength ==
  ASSUME NEW S, NEW s \in Seq(S), NEW I \in SUBSET (1..Len(s))
  PROVE  IsFiniteSet(I) /\ Len(At(s, I)) = Cardinality(I)
<1>1. PICK h : Picks(s, I, h)
  BY AtFacts
<1>2. At(s, I) \in Seq(S)
  BY AtFacts
<1>. DEFINE n == Len(At(s, I))
<1>3. n \in Nat /\ I \cap (1..Len(s)) = I
  <2>1. n \in Nat
    BY <1>2
  <2>. QED
    BY <2>1
<1>7. /\ h \in [1..n -> I]
      /\ \A k, l \in 1..n : k < l <=> h[k] < h[l]
      /\ \A i \in I : \E k \in 1..n : h[k] = i
  BY <1>1, <1>3 DEF Picks
<1>. HIDE DEF n
<1>4. h \in Surjection(1..n, I)
  BY <1>7 DEF Surjection
<1>5. h \in Injection(1..n, I)
  <2>1. ASSUME NEW k \in 1..n, NEW l \in 1..n, h[k] = h[l] PROVE k = l
    <3>1. h[k] \in Int
      <4>1. h[k] \in I /\ I \subseteq Int
        BY <1>7
      <4>. QED
        BY <4>1
    <3>2. ~(k < l) /\ ~(l < k)
      BY <1>7, <2>1, <3>1
    <3>. QED
      BY <3>2, <1>3
  <2>. QED
    BY <2>1, <1>7 DEF Injection, IsInjective
<1>6. IsFiniteSet(1..n) /\ Cardinality(1..n) = n
  BY <1>3, FS_Interval, 1 \in Int, n \in Int
<1>. QED
  BY <1>4, <1>5, <1>6, FS_Surjection DEF n

-----------------------------------------------------------------------------
(* What the model is sent.                                                 *)

WellFormed(ms) ==
  /\ ms \in Seq(Messages)
  /\ \A i \in DOMAIN ms : ms[i].calls # << >> => ms[i].type = "ai"
Sound(ms, n) ==
  /\ WellFormed(ms) /\ CallsApart(ms) /\ ResultsFollow(ms)
  /\ \A i \in DOMAIN ms : \A k \in DOMAIN ms[i].calls : ms[i].calls[k].id <= n

(* The types of messages and calls.                                        *)
LEMMA MessageFacts ==
  /\ \A i \in Nat : Message("tool", << >>, i) \in Messages
  /\ \A type \in Types, calls \in Seq(Call), i \in Nat : Message(type, calls, i) \in Messages
  /\ \A m \in Messages : m.type \in Types /\ m.calls \in Seq(Call) /\ m.id \in Nat
  /\ \A c \in Call : c.id \in Nat /\ c.kind \in Kinds /\ Result(c) \in Messages
<1>1. << >> \in Seq(Call) /\ "tool" \in Types
  BY DEF Types
<1>2. \A type \in Types, calls \in Seq(Call), i \in Nat : Message(type, calls, i) \in Messages
  BY DEF Message, Messages
<1>3. \A c \in Call : c.id \in Nat /\ c.kind \in Kinds
  BY DEF Call
<1>4. \A m \in Messages : m.type \in Types /\ m.calls \in Seq(Call) /\ m.id \in Nat
  BY DEF Messages
<1>. QED
  BY <1>1, <1>2, <1>3, <1>4 DEF Result

(* One result for each call, with its id.                                  *)
LEMMA ResultsFacts ==
  ASSUME NEW cs \in Seq(Call)
  PROVE  /\ Results(cs) \in Seq(Messages) /\ Len(Results(cs)) = Len(cs)
         /\ \A k \in 1..Len(cs) :
              /\ Results(cs)[k] = Result(cs[k])
              /\ Result(cs[k]).type = "tool" /\ Result(cs[k]).calls = << >>
              /\ Result(cs[k]).id = cs[k].id
<1>1. Len(cs) \in Nat /\ DOMAIN cs = 1..Len(cs) /\ \A k \in 1..Len(cs) : cs[k] \in Call
  OBVIOUS
<1>2. \A k \in 1..Len(cs) : Result(cs[k]) \in Messages
  BY <1>1, MessageFacts
<1>3. Results(cs) = [k \in 1..Len(cs) |-> Result(cs[k])]
  BY <1>1 DEF Results
<1>4. Results(cs) \in [1..Len(cs) -> Messages]
  BY <1>2, <1>3
<1>5. Results(cs) \in Seq(Messages) /\ Len(Results(cs)) = Len(cs)
  BY <1>1, <1>3, <1>4
<1>. QED
  BY <1>3, <1>5 DEF Result, Message

Unanswered(ms, cs) == {n \in 1..Len(cs) : cs[n].id \notin Answered(ms)}

(* The pending calls are those without a result.                           *)
LEMMA PendingFacts ==
  ASSUME NEW ms, NEW cs \in Seq(Call)
  PROVE  /\ Pending(ms, cs) \in Seq(Call)
         /\ Len(Pending(ms, cs)) = Cardinality(Unanswered(ms, cs))
         /\ \A k \in 1..Len(Pending(ms, cs)) :
              \E n \in Unanswered(ms, cs) : Pending(ms, cs)[k] = cs[n]
         /\ \A n \in Unanswered(ms, cs) :
              \E k \in 1..Len(Pending(ms, cs)) : Pending(ms, cs)[k] = cs[n]
         /\ cs = << >> => Len(Pending(ms, cs)) = 0
<1>. DEFINE I == Unanswered(ms, cs)
<1>1. DOMAIN cs = 1..Len(cs) /\ I \in SUBSET (1..Len(cs)) /\ I \cap (1..Len(cs)) = I
  BY DEF Unanswered
<1>2. Pending(ms, cs) = At(cs, I)
  BY <1>1 DEF Pending, Unanswered
<1>. HIDE DEF I
<1>3. PICK h : Picks(cs, I, h)
  BY AtFacts
<1>4. At(cs, I) \in Seq(Call) /\ Len(At(cs, I)) = Cardinality(I)
  BY <1>1, AtFacts, AtLength
<1>5. /\ \A k \in 1..Len(At(cs, I)) : \E n \in I : At(cs, I)[k] = cs[n]
      /\ \A n \in I : \E k \in 1..Len(At(cs, I)) : At(cs, I)[k] = cs[n]
  BY <1>1, <1>3 DEF Picks
<1>6. ASSUME cs = << >> PROVE Len(At(cs, I)) = 0
  <2>1. I = {}
    BY <1>1, <1>6
  <2>. QED
    BY <2>1, <1>4, FS_EmptySet
<1>. QED
  BY <1>2, <1>4, <1>5, <1>6 DEF I

(* Message i is at pos[i] of what the model is sent, with the results that *)
(* were missing behind it.                                                 *)
Missing(ms, i) == Pending(ms, ms[i].calls)
Positions(ms, pos) ==
  /\ \A i \in 1..(Len(ms) + 1) : pos[i] \in Nat
  /\ pos[1] = 1 /\ Len(Patched(ms)) = pos[Len(ms) + 1] - 1
  /\ \A i \in 1..Len(ms) : pos[i + 1] = pos[i] + Len(Missing(ms, i)) + 1
  /\ \A i, j \in 1..(Len(ms) + 1) : i <= j => pos[i] <= pos[j]
  /\ \A i \in 1..Len(ms) :
       /\ Patched(ms)[pos[i]] = ms[i]
       /\ \A k \in 1..Len(Missing(ms, i)) :
            Patched(ms)[pos[i] + k] = Result(Missing(ms, i)[k])
  /\ \A p \in 1..Len(Patched(ms)) : \E i \in 1..Len(ms) :
       pos[i] <= p /\ p <= pos[i] + Len(Missing(ms, i))

(* Every message is in what the model is sent, and behind it the results it misses. *)
LEMMA PatchedFacts ==
  ASSUME NEW ms \in Seq(Messages)
  PROVE  Patched(ms) \in Seq(Messages) /\ \E pos : Positions(ms, pos)
<1>. DEFINE L == Len(ms)
            b == [i \in DOMAIN ms |-> <<ms[i]>> \o Results(Pending(ms, ms[i].calls))]
            q(i) == Len(Missing(ms, i))
<1>1. L \in Nat /\ DOMAIN ms = 1..L /\ \A i \in 1..L : ms[i] \in Messages
  OBVIOUS
<1>2. ASSUME NEW i \in 1..L
      PROVE  /\ b[i] \in Seq(Messages) /\ Len(b[i]) = q(i) + 1 /\ q(i) \in Nat
             /\ b[i][1] = ms[i] /\ \A k \in 1..q(i) : b[i][k + 1] = Result(Missing(ms, i)[k])
  <2>1. Missing(ms, i) \in Seq(Call)
    BY <1>1, MessageFacts, PendingFacts DEF Missing
  <2>2. /\ Results(Missing(ms, i)) \in Seq(Messages) /\ Len(Results(Missing(ms, i))) = q(i)
        /\ \A k \in 1..q(i) : Results(Missing(ms, i))[k] = Result(Missing(ms, i)[k])
    BY <2>1, ResultsFacts
  <2>3. b[i] = <<ms[i]>> \o Results(Missing(ms, i))
    BY <1>1 DEF Missing
  <2>4. <<ms[i]>> \in Seq(Messages) /\ Len(<<ms[i]>>) = 1 /\ <<ms[i]>>[1] = ms[i]
    BY <1>1
  <2>5. q(i) \in Nat
    BY <2>1
  <2>. HIDE DEF b, q
  <2>6. /\ b[i] \in Seq(Messages) /\ Len(b[i]) = 1 + q(i)
        /\ \A k \in 1..(1 + q(i)) :
             b[i][k] = IF k <= 1 THEN <<ms[i]>>[k] ELSE Results(Missing(ms, i))[k - 1]
    BY <2>2, <2>3, <2>4, ConcatProperties
  <2>7. b[i][1] = ms[i]
    <3>1. 1 \in 1..(1 + q(i)) /\ 1 <= 1
      BY <2>5
    <3>. QED
      BY Zenon, <3>1, <2>4, <2>6
  <2>8. ASSUME NEW k \in 1..q(i) PROVE b[i][k + 1] = Result(Missing(ms, i)[k])
    <3>1. k + 1 \in 1..(1 + q(i)) /\ ~(k + 1 <= 1) /\ (k + 1) - 1 = k
      BY <2>5
    <3>. QED
      BY <3>1, <2>2, <2>6
  <2>. QED
    BY <2>5, <2>6, <2>7, <2>8
<1>3. b \in Seq(Seq(Messages)) /\ Len(b) = L
  <2>1. b \in [1..L -> Seq(Messages)]
    BY <1>1, <1>2
  <2>. HIDE DEF b
  <2>. QED
    BY <1>1, <2>1
<1>. DEFINE F == Patched(ms)
<1>4. F = FlattenSeq(b)
  BY DEF Patched
<1>. HIDE DEF b, L, F
<1>5. PICK off :
        /\ Offsets(b, off)
        /\ Len(F) = off[L]
        /\ \A i, j \in 0..L : i <= j => off[i] <= off[j]
        /\ \A i \in 1..L : \A j \in 1..Len(b[i]) : F[off[i - 1] + j] = b[i][j]
        /\ \A p \in 1..Len(F) : \E i \in 1..L : off[i - 1] < p /\ p <= off[i]
  <2>1. \E off :
          /\ Offsets(b, off)
          /\ Len(FlattenSeq(b)) = off[Len(b)]
          /\ \A i, j \in 0..Len(b) : i <= j => off[i] <= off[j]
          /\ \A i \in 1..Len(b) : \A j \in 1..Len(b[i]) :
               FlattenSeq(b)[off[i - 1] + j] = b[i][j]
          /\ \A p \in 1..Len(FlattenSeq(b)) : \E i \in 1..Len(b) :
               off[i - 1] < p /\ p <= off[i]
    BY <1>3, FlattenFacts, Zenon
  <2>2. Len(b) = L
    BY <1>3
  <2>. HIDE DEF Offsets
  <2>. QED
    BY <2>1, <2>2, <1>4
<1>6. F \in Seq(Messages)
  BY <1>3, <1>4, FlattenFacts
<1>7. /\ off[0] = 0 /\ \A i \in 0..L : off[i] \in Nat
      /\ \A i \in 1..L : i - 1 \in 0..L /\ off[i] = off[i - 1] + q(i) + 1
  <2>1. /\ off[0] = 0 /\ \A i \in 0..L : off[i] \in Nat
        /\ \A i \in 1..L : off[i] = off[i - 1] + Len(b[i])
    BY <1>3, <1>5 DEF Offsets
  <2>2. ASSUME NEW i \in 1..L
        PROVE i - 1 \in 0..L /\ off[i] = off[i - 1] + q(i) + 1
    <3>1. off[i] = off[i - 1] + (q(i) + 1) /\ q(i) \in Nat
      BY <2>1, <1>2
    <3>2. i - 1 \in 0..L
      BY <1>1
    <3>3. off[i - 1] \in Nat
      BY <3>2, <2>1
    <3>. HIDE DEF q
    <3>. QED
      BY <3>1, <3>2, <3>3
  <2>. QED
    BY <2>1, <2>2
<1>. DEFINE pos == [i \in 1..(L + 1) |-> off[i - 1] + 1]
<1>8. \A i \in 1..(L + 1) : pos[i] \in Nat /\ pos[i] = off[i - 1] + 1 /\ i - 1 \in 0..L
  BY <1>1, <1>7
<1>9. pos[1] = 1 /\ Len(F) = pos[L + 1] - 1
  <2>1. 1 \in 1..(L + 1) /\ L + 1 \in 1..(L + 1) /\ L \in 0..L
    BY <1>1
  <2>2. pos[1] = off[0] + 1 /\ pos[L + 1] = off[L] + 1
    BY <2>1, <1>1
  <2>. QED
    BY <2>1, <2>2, <1>5, <1>7
<1>. HIDE DEF pos
<1>10. \A i \in 1..L : pos[i + 1] = pos[i] + q(i) + 1
  <2>1. ASSUME NEW i \in 1..L
        PROVE pos[i + 1] = off[i] + 1 /\ pos[i] = off[i - 1] + 1
    <3>1. i + 1 \in 1..(L + 1) /\ i \in 1..(L + 1) /\ (i + 1) - 1 = i
      BY <1>1
    <3>. QED
      BY <3>1, <1>8
  <2>2. ASSUME NEW i \in 1..L
        PROVE off[i] = off[i - 1] + q(i) + 1 /\ off[i - 1] \in Nat /\ q(i) \in Nat
    BY <1>2, <1>7
  <2>. HIDE DEF q
  <2>. QED
    BY <2>1, <2>2
<1>11. \A i, j \in 1..(L + 1) : i <= j => pos[i] <= pos[j]
  <2>. SUFFICES ASSUME NEW i \in 1..(L + 1), NEW j \in 1..(L + 1), i <= j
       PROVE pos[i] <= pos[j]
    OBVIOUS
  <2>1. off[i - 1] <= off[j - 1] /\ off[i - 1] \in Nat /\ off[j - 1] \in Nat
    <3>1. i - 1 <= j - 1 /\ i - 1 \in 0..L /\ j - 1 \in 0..L
      BY <1>1
    <3>. QED
      BY <3>1, <1>5, <1>7
  <2>. QED
    BY <2>1, <1>8
<1>12. ASSUME NEW i \in 1..L
       PROVE  F[pos[i]] = ms[i] /\ \A k \in 1..q(i) : F[pos[i] + k] = Result(Missing(ms, i)[k])
  <2>1. pos[i] = off[i - 1] + 1 /\ off[i - 1] \in Nat
    <3>1. i \in 1..(L + 1)
      BY <1>1
    <3>. QED
      BY <3>1, <1>7, <1>8
  <2>2. Len(b[i]) = q(i) + 1 /\ q(i) \in Nat
    BY <1>2
  <2>3. ASSUME NEW k \in 0..q(i) PROVE F[pos[i] + k] = b[i][k + 1]
    <3>1. k + 1 \in 1..(q(i) + 1) /\ (off[i - 1] + 1) + k = off[i - 1] + (k + 1)
      <4>. HIDE DEF q
      <4>. QED
        BY <2>1, <2>2, Inside, Zenon
    <3>2. k + 1 \in 1..Len(b[i]) /\ pos[i] + k = off[i - 1] + (k + 1)
      <4>. HIDE DEF q
      <4>. QED
        BY Zenon, <3>1, <2>1, <2>2
    <3>3. F[off[i - 1] + (k + 1)] = b[i][k + 1]
      <4>1. \A j \in 1..Len(b[i]) : F[off[i - 1] + j] = b[i][j]
        BY Zenon, <1>5, <1>3
      <4>. QED
        BY Zenon, <4>1, <3>2
    <3>. QED
      BY Zenon, <3>2, <3>3
  <2>4. F[pos[i]] = b[i][1]
    <3>1. 0 \in 0..q(i) /\ pos[i] + 0 = pos[i] /\ 0 + 1 = 1
      BY <2>1, <2>2
    <3>2. F[pos[i] + 0] = b[i][0 + 1]
      BY <3>1, <2>3
    <3>. QED
      BY <3>1, <3>2
  <2>5. \A k \in 1..q(i) : k \in 0..q(i)
    BY <2>2
  <2>. QED
    BY <2>3, <2>4, <2>5, <1>2
<1>13. ASSUME NEW p \in 1..Len(F)
       PROVE \E i \in 1..L : pos[i] <= p /\ p <= pos[i] + q(i)
  <2>1. PICK i \in 1..L : off[i - 1] < p /\ p <= off[i]
    BY <1>5
  <2>2. pos[i] = off[i - 1] + 1 /\ off[i] = off[i - 1] + q(i) + 1 /\ off[i - 1] \in Nat
        /\ q(i) \in Nat /\ p \in Int
    <3>1. i \in 1..(L + 1)
      BY <1>1
    <3>. QED
      BY <3>1, <1>2, <1>6, <1>7, <1>8
  <2>. QED
    BY <2>1, <2>2
<1>14. Positions(ms, pos)
  BY <1>8, <1>9, <1>10, <1>11, <1>12, <1>13 DEF Positions, F, L
<1>. QED
  BY <1>6, <1>14 DEF F

(* The results of message i: what follows it up to the next message that   *)
(* is no result, and nothing else.                                         *)
Block(ms, i, r) ==
  /\ r \in 0..(Len(ms) - i)
  /\ \A k \in 1..r :
       /\ ms[i + k].type = "tool" /\ ms[i + k].calls = << >>
       /\ \E m \in 1..Len(ms[i].calls) : ms[i].calls[m].id = ms[i + k].id
  /\ \A j \in OfType(ms, "tool") : \A m \in 1..Len(ms[i].calls) :
       ms[i].calls[m].id = ms[j].id => j - i \in 1..r

(* In a sound history the results of an answer follow it in one block.     *)
LEMMA BlockExists ==
  ASSUME NEW n, NEW ms, Sound(ms, n), NEW i \in 1..Len(ms), ms[i].calls # << >>
  PROVE  \E r : Block(ms, i, r)
<1>. DEFINE L == Len(ms)
            T == {r \in 0..(L - i) : \A k \in 1..r : ms[i + k].type = "tool"}
<1>1. /\ L \in Nat /\ DOMAIN ms = 1..L /\ i \in DOMAIN ms
      /\ \A j \in 1..L : ms[j].calls \in Seq(Call)
      /\ \A j \in 1..L : ms[j].calls # << >> => ms[j].type = "ai"
  <2>1. ms \in Seq(Messages)
    BY DEF Sound, WellFormed
  <2>. QED
    BY <2>1, MessageFacts DEF Sound, WellFormed
<1>2. \A j \in 1..L : DOMAIN ms[j].calls = 1..Len(ms[j].calls)
  BY <1>1
<1>. HIDE DEF L
<1>3. PICK r \in T : \A s \in T : s <= r
  <2>1. T \in SUBSET Nat /\ 0 \in T /\ L - i \in Nat /\ \A s \in T : s <= L - i
    BY <1>1
  <2>. HIDE DEF T
  <2>. QED
    BY <2>1, GreatestOf
<1>4. ASSUME NEW j \in OfType(ms, "tool"), NEW a \in DOMAIN ms, Follows(ms, j, a)
      PROVE  /\ j \in 1..L /\ a \in 1..L /\ a < j
             /\ \A k \in 1..L : a < k /\ k <= j => ms[k].type = "tool"
             /\ \E m \in 1..Len(ms[a].calls) : ms[a].calls[m].id = ms[j].id
             /\ ms[a].calls # << >>
  <2>1. j \in 1..L /\ a \in 1..L
    BY <1>1 DEF OfType
  <2>2. \E m \in 1..Len(ms[a].calls) : ms[a].calls[m].id = ms[j].id
    BY <1>2, <1>4, <2>1 DEF Follows
  <2>3. \A k \in 1..L : a < k /\ k <= j => ms[k].type = "tool"
    <3>. SUFFICES ASSUME NEW k \in 1..L, a < k, k <= j
         PROVE ms[k].type = "tool"
      OBVIOUS
    <3>1. k \in (a + 1)..j
      BY <1>1, <2>1
    <3>. QED
      BY <3>1, <1>4 DEF Follows
  <2>. QED
    BY <2>1, <2>2, <2>3, <1>4 DEF Follows
<1>5. ms[i].type = "ai"
  BY <1>1
<1>6. ASSUME NEW k \in 1..r
      PROVE  /\ ms[i + k].type = "tool" /\ ms[i + k].calls = << >>
             /\ \E m \in 1..Len(ms[i].calls) : ms[i].calls[m].id = ms[i + k].id
  <2>0. r \in 0..(L - i) /\ \A l \in 1..r : ms[i + l].type = "tool"
    BY <1>3
  <2>1. i + k \in 1..L /\ ms[i + k].type = "tool"
    BY <1>1, <2>0
  <2>2. i + k \in OfType(ms, "tool")
    BY <1>1, <2>1 DEF OfType
  <2>3. PICK a \in DOMAIN ms : Follows(ms, i + k, a)
    BY <2>2 DEF Sound, ResultsFollow
  <2>4. /\ a \in 1..L /\ a < i + k
        /\ \A l \in 1..L : a < l /\ l <= i + k => ms[l].type = "tool"
        /\ \E m \in 1..Len(ms[a].calls) : ms[a].calls[m].id = ms[i + k].id
        /\ ms[a].calls # << >>
    BY <1>4, <2>2, <2>3
  <2>5. ~(a < i)
    BY <2>4, <1>1, <1>5
  <2>6. ~(i < a)
    <3>. SUFFICES ASSUME i < a PROVE FALSE
      OBVIOUS
    <3>0. a \in Nat /\ a < i + k /\ i \in Nat /\ r \in Nat /\ k \in 1..r
      BY <2>4, <2>0, <1>1
    <3>1. a - i \in 1..r /\ i + (a - i) = a
      BY <3>0
    <3>2. ms[a].type = "tool"
      BY <3>1, <2>0
    <3>. QED
      BY <3>2, <2>4, <1>1
  <2>7. a = i
    BY <2>4, <2>5, <2>6, <1>1
  <2>. QED
    BY <2>1, <2>4, <2>7, <1>1
<1>7. ASSUME NEW j \in OfType(ms, "tool"), NEW m \in 1..Len(ms[i].calls),
             ms[i].calls[m].id = ms[j].id
      PROVE  j - i \in 1..r
  <2>1. PICK a \in DOMAIN ms : Follows(ms, j, a)
    BY DEF Sound, ResultsFollow
  <2>2. PICK l \in 1..Len(ms[a].calls) : ms[a].calls[l].id = ms[j].id
    BY <1>4, <2>1
  <2>3. a = i
    <3>1. a \in 1..L
      BY <1>1
    <3>. QED
      BY <1>1, <1>2, <1>7, <2>2, <3>1 DEF Sound, CallsApart
  <2>4. /\ j \in 1..L /\ i < j
        /\ \A k \in 1..L : i < k /\ k <= j => ms[k].type = "tool"
    BY <1>4, <2>1, <2>3
  <2>5. ASSUME NEW k \in 1..(j - i) PROVE ms[i + k].type = "tool"
    <3>1. i + k \in 1..L /\ i < i + k /\ i + k <= j
      BY <1>1, <2>4
    <3>. QED
      BY <3>1, <2>4
  <2>6. j - i \in 0..(L - i)
    BY <1>1, <2>4
  <2>7. j - i \in T
    BY <2>5, <2>6
  <2>8. j - i <= r
    BY <1>3, <2>7
  <2>. QED
    BY <2>4, <2>6, <2>8, <1>1, <1>3
<1>8. r \in 0..(L - i)
  BY <1>3
<1>. QED
  BY <1>6, <1>7, <1>8 DEF Block, L

(* With the missing ones they are as many as its calls.                    *)
LEMMA BlockLength ==
  ASSUME NEW n, NEW ms, Sound(ms, n), NEW i \in 1..Len(ms),
    ms[i].calls # << >>,
         NEW r, Block(ms, i, r)
  PROVE  Len(Missing(ms, i)) + r = Len(ms[i].calls)
<1>. DEFINE C == 1..Len(ms[i].calls)
            U == Unanswered(ms, ms[i].calls)
            A == C \ U
            f == [k \in 1..r |-> CHOOSE m \in C : ms[i].calls[m].id = ms[i + k].id]
<1>1. ms \in Seq(Messages) /\ DOMAIN ms = 1..Len(ms) /\ ms[i].calls \in Seq(Call)
  <2>1. ms \in Seq(Messages)
    BY DEF Sound, WellFormed
  <2>. QED
    BY <2>1, MessageFacts
<1>2. Len(ms[i].calls) \in Nat /\ Len(ms) \in Nat /\ DOMAIN ms[i].calls = C
  BY <1>1
<1>3. r \in Nat /\ \A k \in 1..r : i + k \in 1..Len(ms)
  BY <1>2 DEF Block
<1>4. \A k \in 1..r : f[k] \in C /\ ms[i].calls[f[k]].id = ms[i + k].id
  BY DEF Block
<1>. HIDE DEF f
<1>5. \A k \in 1..r : i + k \in OfType(ms, "tool")
  BY <1>1, <1>3 DEF OfType, Block
<1>6. \A m \in C : m \in A <=> ms[i].calls[m].id \in Answered(ms)
  BY DEF Unanswered
<1>7. f \in [1..r -> A]
  <2>1. \A k \in 1..r : ms[i + k].id \in Answered(ms)
    BY <1>5 DEF Answered
  <2>2. \A k \in 1..r : f[k] \in A
    BY <2>1, <1>4, <1>6
  <2>3. f = [k \in 1..r |-> f[k]]
    BY DEF f
  <2>. QED
    BY <2>2, <2>3
<1>8. ASSUME NEW k \in 1..r, NEW l \in 1..r, f[k] = f[l] PROVE k = l
  <2>1. ms[i + k].id = ms[i + l].id
    BY <1>4, <1>8
  <2>2. i + k = i + l
    BY <2>1, <1>5 DEF Sound, ResultsFollow
  <2>. QED
    BY <2>2, <1>3, <1>2
<1>9. ASSUME NEW m \in A PROVE \E k \in 1..r : f[k] = m
  <2>1. m \in C /\ ms[i].calls[m].id \in Answered(ms)
    BY <1>6
  <2>2. PICK j \in OfType(ms, "tool") : ms[j].id = ms[i].calls[m].id
    BY <2>1 DEF Answered
  <2>3. j - i \in 1..r /\ j \in 1..Len(ms)
    BY <2>1, <2>2, <1>1 DEF Block, OfType
  <2>4. PICK k \in 1..r : k = j - i /\ i + k = j
    BY <2>3, <1>2
  <2>5. ms[i].calls[f[k]].id = ms[i].calls[m].id
    BY <2>2, <2>4, <1>4
  <2>6. f[k] = m
    BY <2>1, <2>5, <1>1, <1>2, <1>4 DEF Sound, CallsApart
  <2>. QED
    BY <2>6
<1>. HIDE DEF A
<1>10. Cardinality(A) = r
  <2>1. f \in Injection(1..r, A) /\ f \in Surjection(1..r, A)
    BY <1>7, <1>8, <1>9 DEF Injection, IsInjective, Surjection
  <2>2. IsFiniteSet(1..r) /\ Cardinality(1..r) = r
    BY <1>3, FS_Interval, 1 \in Int, r \in Int
  <2>. QED
    BY <2>1, <2>2, FS_Surjection
<1>11. IsFiniteSet(C) /\ Cardinality(C) = Len(ms[i].calls)
  <2>1. 1 \in Int /\ Len(ms[i].calls) \in Int
    BY <1>2
  <2>2. IsFiniteSet(C) /\ Cardinality(C) = IF 1 > Len(ms[i].calls) THEN 0 ELSE Len(ms[i].calls) - 1 + 1
    BY <2>1, FS_Interval
  <2>. QED
    BY <2>2, <1>2
<1>12. C \cap U = U
  BY DEF Unanswered
<1>13. Cardinality(A) = Cardinality(C) - Cardinality(U)
  <2>. HIDE DEF C, U
  <2>1. Cardinality(C \ U) = Cardinality(C) - Cardinality(C \cap U)
    BY <1>11, FS_Difference
  <2>. QED
    BY <2>1, <1>12 DEF A
<1>14. Len(Missing(ms, i)) = Cardinality(U) /\ Len(Missing(ms, i)) \in Nat
  BY <1>1, PendingFacts DEF Missing
<1>. QED
  BY <1>10, <1>11, <1>13, <1>14, <1>3, <1>2

(* What follows message i in what the model is sent.                       *)
Placed(ms, pos, i, r) ==
  /\ pos[i] \in 1..Len(Patched(ms)) /\ pos[i] + Len(ms[i].calls) <= Len(Patched(ms))
  /\ \A k \in 1..Len(Missing(ms, i)) :
       Patched(ms)[pos[i] + k] = Result(Missing(ms, i)[k])
  /\ \A k \in 1..r :
       /\ pos[i + k] = pos[i] + Len(Missing(ms, i)) + k
       /\ Patched(ms)[pos[i] + Len(Missing(ms, i)) + k] = ms[i + k]

(* Patching moves the block of an answer behind its new results, in one piece. *)
LEMMA BlockPositions ==
  ASSUME NEW n, NEW ms, Sound(ms, n), NEW pos, Positions(ms, pos),
         NEW i \in 1..Len(ms), ms[i].calls # << >>, NEW r, Block(ms, i, r)
  PROVE  Placed(ms, pos, i, r)
<1>. DEFINE L == Len(ms)
            q == Len(Missing(ms, i))
            F == Patched(ms)
<1>1. ms \in Seq(Messages)
  BY DEF Sound, WellFormed
<1>2. L \in Nat /\ i \in 1..L /\ \A j \in 1..L : ms[j].calls \in Seq(Call)
  BY <1>1, MessageFacts
<1>3. q \in Nat /\ Len(ms[i].calls) \in Nat
  BY <1>2, PendingFacts DEF Missing
<1>4. q + r = Len(ms[i].calls)
  BY BlockLength
<1>5. r \in Nat /\ \A k \in 1..r : i + k \in 1..L /\ ms[i + k].calls = << >>
  <2>1. r \in 0..(L - i) /\ \A k \in 1..r : ms[i + k].calls = << >>
    BY DEF Block
  <2>2. r \in Nat /\ \A k \in 1..r : i + k \in 1..L
    BY <2>1, <1>2
  <2>. HIDE DEF L
  <2>. QED
    BY <2>1, <2>2
<1>6. \A k \in 1..r : Len(Missing(ms, i + k)) = 0
  BY <1>2, <1>5, PendingFacts DEF Missing
<1>. HIDE DEF L, q, F
<1>7. /\ \A j \in 1..(L + 1) : pos[j] \in Nat
      /\ pos[1] = 1 /\ Len(F) = pos[L + 1] - 1
      /\ \A j \in 1..L : pos[j + 1] = pos[j] + Len(Missing(ms, j)) + 1
      /\ \A j, l \in 1..(L + 1) : j <= l => pos[j] <= pos[l]
      /\ \A j \in 1..L : F[pos[j]] = ms[j]
      /\ \A k \in 1..q : F[pos[i] + k] = Result(Missing(ms, i)[k])
  BY <1>2 DEF Positions, F, L, q
<1>8. \A k \in 0..r : i + k + 1 \in 1..(L + 1) /\ pos[i + k + 1] = pos[i] + q + k + 1
  <2>. DEFINE T == {k \in Nat : i + k + 1 \in 1..(L + 1) /\ pos[i + k + 1] = pos[i] + q + k + 1}
  <2>0. pos[i] \in Nat
    <3>1. i \in 1..(L + 1)
      BY <1>2
    <3>. QED
      BY <3>1, <1>7
  <2>1. 0 \in T
    <3>1. i + 0 + 1 = i + 1 /\ i + 1 \in 1..(L + 1)
      BY <1>2
    <3>2. pos[i + 1] = pos[i] + q + 1
      BY <1>2, <1>7 DEF q
    <3>. QED
      BY <3>1, <3>2, <2>0, <1>3
  <2>2. ASSUME NEW k \in 0..(r - 1), k \in T PROVE k + 1 \in T
    <3>1. k + 1 \in 1..r /\ i + k + 1 = i + (k + 1)
      BY <1>2, <1>5
    <3>2. i + k + 1 \in 1..L /\ Len(Missing(ms, i + k + 1)) = 0
      BY <3>1, <1>5, <1>6
    <3>3. pos[i + k + 1] = pos[i] + q + k + 1
      BY <2>2
    <3>4. pos[i + k + 1 + 1] = pos[i + k + 1] + 0 + 1
      BY <3>2, <1>7
    <3>5. i + k + 1 + 1 \in 1..(L + 1) /\ i + (k + 1) + 1 = i + k + 1 + 1
      BY <3>2, <1>2
    <3>6. pos[i + (k + 1) + 1] = pos[i] + q + (k + 1) + 1
      <4>1. k \in Nat
        BY <1>5
      <4>2. pos[i + (k + 1) + 1] = pos[i + k + 1 + 1]
        BY <3>5
      <4>3. \A x, y \in Nat : x = y + q + k + 1 => x + 0 + 1 = y + q + (k + 1) + 1
        BY <4>1, <1>3
      <4>4. pos[i + k + 1] \in Nat
        <5>1. \A y \in Nat : y + q + k + 1 \in Nat
          BY <4>1, <1>3
        <5>. QED
          BY <5>1, <3>3, <2>0
      <4>5. pos[i + k + 1] + 0 + 1 = pos[i] + q + (k + 1) + 1
        BY <4>3, <4>4, <3>3, <2>0
      <4>. QED
        BY <4>2, <4>5, <3>4
    <3>. QED
      BY <3>5, <3>6
  <2>. HIDE DEF T
  <2>3. \A k \in 0..r : k \in T
    BY <1>5, <2>1, <2>2, UpTo
  <2>. QED
    BY <2>3 DEF T
<1>9. ASSUME NEW k \in 1..r
      PROVE  pos[i + k] = pos[i] + q + k /\ F[pos[i] + q + k] = ms[i + k]
  <2>1. k - 1 \in 0..r /\ i + (k - 1) + 1 = i + k
    BY <1>2, <1>5
  <2>2. pos[i + (k - 1) + 1] = pos[i] + q + (k - 1) + 1
    BY <2>1, <1>8
  <2>3. pos[i] \in Nat
    <3>1. i \in 1..(L + 1)
      BY <1>2
    <3>. QED
      BY <3>1, <1>7
  <2>4. pos[i + k] = pos[i] + q + k
    BY <2>1, <2>2, <2>3, <1>3
  <2>. QED
    BY <2>4, <1>5, <1>7
<1>10. pos[i] + q + r + 1 <= pos[L + 1] /\ 1 <= pos[i] /\ pos[i] \in Nat /\ pos[L + 1] \in Nat
  <2>1. r \in 0..r /\ 1 \in 1..(L + 1) /\ i \in 1..(L + 1) /\ L + 1 \in 1..(L + 1)
    BY <1>2, <1>5
  <2>2. i + r + 1 \in 1..(L + 1) /\ pos[i + r + 1] = pos[i] + q + r + 1
    BY <2>1, <1>8
  <2>3. i + r + 1 <= L + 1 /\ 1 <= i
    BY <2>2, <1>2
  <2>. QED
    BY <2>1, <2>2, <2>3, <1>7
<1>11. pos[i] \in 1..Len(F) /\ pos[i] + Len(ms[i].calls) <= Len(F)
  BY <1>3, <1>4, <1>5, <1>7, <1>10
<1>. QED
  BY <1>7, <1>9, <1>11 DEF F, q, Placed

(* Every answer with calls is followed by their results.                   *)
LEMMA AnswersArePaired ==
  ASSUME NEW n, NEW ms, Sound(ms, n), NEW pos, Positions(ms, pos),
         NEW i \in 1..Len(ms), ms[i].calls # << >>
  PROVE  LET F == Patched(ms)
             last == pos[i] + Len(ms[i].calls)
         IN  /\ last <= Len(F)
             /\ \A j \in (pos[i] + 1)..last : F[j].type = "tool"
             /\ {F[j].id : j \in (pos[i] + 1)..last} = {c.id : c \in ToSet(ms[i].calls)}
<1>. DEFINE F == Patched(ms)
            q == Len(Missing(ms, i))
            calls == ms[i].calls
            p == pos[i]
<1>1. ms \in Seq(Messages)
  BY DEF Sound, WellFormed
<1>2. /\ calls \in Seq(Call) /\ Len(calls) \in Nat /\ DOMAIN calls = 1..Len(calls)
      /\ DOMAIN ms = 1..Len(ms) /\ Len(ms) \in Nat
  BY <1>1, MessageFacts
<1>3. PICK r : Block(ms, i, r)
  BY BlockExists
<1>4. q + r = Len(calls)
  BY <1>3, BlockLength
<1>5. /\ p \in 1..Len(F) /\ p + Len(calls) <= Len(F)
      /\ \A k \in 1..q : F[p + k] = Result(Missing(ms, i)[k])
      /\ \A k \in 1..r : F[p + q + k] = ms[i + k]
  <2>1. Placed(ms, pos, i, r)
    BY <1>3, BlockPositions
  <2>. QED
    BY <2>1 DEF Placed
<1>6. /\ q \in Nat /\ Missing(ms, i) \in Seq(Call)
      /\ \A k \in 1..q : \E m \in Unanswered(ms, calls) : Missing(ms, i)[k] = calls[m]
      /\ \A m \in Unanswered(ms, calls) : \E k \in 1..q : Missing(ms, i)[k] = calls[m]
  BY <1>2, PendingFacts DEF Missing
<1>7. /\ r \in Nat
      /\ \A k \in 1..r : ms[i + k].type = "tool"
      /\ \A k \in 1..r : \E m \in 1..Len(calls) : calls[m].id = ms[i + k].id
      /\ \A j \in OfType(ms, "tool") : \A m \in 1..Len(calls) :
           calls[m].id = ms[j].id => j - i \in 1..r
  <2>1. r \in 0..(Len(ms) - i)
    BY <1>3 DEF Block
  <2>2. r \in Nat
    BY <2>1, <1>2
  <2>3. \A k \in 1..r : /\ ms[i + k].type = "tool"
                         /\ \E m \in 1..Len(calls) : calls[m].id = ms[i + k].id
    BY <1>3 DEF Block
  <2>4. \A j \in OfType(ms, "tool") : \A m \in 1..Len(calls) :
           calls[m].id = ms[j].id => j - i \in 1..r
    BY <1>3 DEF Block
  <2>. QED
    BY <2>2, <2>3, <2>4
<1>8. \A k \in 1..q : /\ F[p + k].type = "tool" /\ F[p + k].id = Missing(ms, i)[k].id
  <2>1. \A k \in 1..q : Result(Missing(ms, i)[k]).type = "tool"
                        /\ Result(Missing(ms, i)[k]).id = Missing(ms, i)[k].id
    BY <1>6, ResultsFacts
  <2>. QED
    BY <2>1, <1>5
<1>9. Unanswered(ms, calls) \subseteq 1..Len(calls)
  BY DEF Unanswered
<1>. HIDE DEF F, q, calls, p
<1>10. \A j \in (p + 1)..(p + Len(calls)) : \/ \E k \in 1..q : j = p + k
                                           \/ \E k \in 1..r : j = p + q + k
  <2>. SUFFICES ASSUME NEW j \in (p + 1)..(p + Len(calls))
                PROVE  \/ \E k \in 1..q : j = p + k
                       \/ \E k \in 1..r : j = p + q + k
    OBVIOUS
  <2>0. p \in Int
    BY <1>5
  <2>1. CASE j <= p + q
    <3>1. j - p \in 1..q /\ j = p + (j - p)
      BY <2>0, <2>1, <1>2, <1>6
    <3>. QED
      BY <3>1
  <2>2. CASE ~(j <= p + q)
    <3>1. j - (p + q) \in 1..r /\ j = p + q + (j - (p + q))
      BY <2>0, <2>2, <1>4, <1>6, <1>7
    <3>. QED
      BY <3>1
  <2>. QED
    BY <2>1, <2>2
<1>11. \A k \in 1..q : p + k \in (p + 1)..(p + Len(calls))
  BY <1>4, <1>5, <1>6, <1>7
<1>12. \A k \in 1..r : p + q + k \in (p + 1)..(p + Len(calls))
  BY <1>4, <1>5, <1>6, <1>7
<1>13. \A j \in (p + 1)..(p + Len(calls)) : F[j].type = "tool"
  <2>1. \A k \in 1..r : F[p + q + k].type = "tool"
    BY <1>5, <1>7
  <2>2. \A k \in 1..q : F[p + k].type = "tool"
    BY <1>8
  <2>. QED
    BY <2>1, <2>2, <1>10
<1>14. \A j \in (p + 1)..(p + Len(calls)) : \E m \in 1..Len(calls) : calls[m].id = F[j].id
  <2>1. ASSUME NEW k \in 1..q
        PROVE \E m \in 1..Len(calls) : calls[m].id = F[p + k].id
    <3>1. PICK m \in Unanswered(ms, calls) : Missing(ms, i)[k] = calls[m]
      BY <1>6
    <3>2. F[p + k].id = calls[m].id
      BY <3>1, <1>8
    <3>. QED
      BY <3>2, <1>9
  <2>2. ASSUME NEW k \in 1..r
        PROVE \E m \in 1..Len(calls) : calls[m].id = F[p + q + k].id
    BY <1>5, <1>7
  <2>. QED
    BY <2>1, <2>2, <1>10
<1>15. \A m \in 1..Len(calls) : \E j \in (p + 1)..(p + Len(calls)) : calls[m].id = F[j].id
  <2>. SUFFICES ASSUME NEW m \in 1..Len(calls)
                PROVE  \E j \in (p + 1)..(p + Len(calls)) : calls[m].id = F[j].id
    OBVIOUS
  <2>1. CASE m \in Unanswered(ms, calls)
    <3>1. PICK k \in 1..q : Missing(ms, i)[k] = calls[m]
      BY <2>1, <1>6
    <3>2. F[p + k].id = calls[m].id
      BY <3>1, <1>8
    <3>. QED
      BY <3>2, <1>11
  <2>2. CASE m \notin Unanswered(ms, calls)
    <3>1. PICK j \in OfType(ms, "tool") : ms[j].id = calls[m].id
      BY <2>2 DEF Unanswered, Answered
    <3>2. j - i \in 1..r
      BY <3>1, <1>7
    <3>3. PICK k \in 1..r : k = j - i
      BY <3>2
    <3>4. i + k = j
      BY <3>1, <3>3, <1>2 DEF OfType
    <3>5. F[p + q + k].id = calls[m].id
      BY <3>1, <3>4, <1>5
    <3>. QED
      BY <3>5, <1>12
  <2>. QED
    BY <2>1, <2>2
<1>16. ToSet(calls) = {calls[m] : m \in 1..Len(calls)}
  BY <1>2 DEF ToSet
<1>17. {F[j].id : j \in (p + 1)..(p + Len(calls))} = {c.id : c \in ToSet(calls)}
  <2>1. {c.id : c \in ToSet(calls)} = {calls[m].id : m \in 1..Len(calls)}
    BY <1>16
  <2>. DEFINE J == (p + 1)..(p + Len(calls))
              M == 1..Len(calls)
  <2>2. /\ \A j \in J : \E m \in M : calls[m].id = F[j].id
        /\ \A m \in M : \E j \in J : calls[m].id = F[j].id
    BY <1>14, <1>15
  <2>. HIDE DEF J, M
  <2>3. {F[j].id : j \in J} = {calls[m].id : m \in M}
    BY <2>2
  <2>. QED
    BY <2>1, <2>3 DEF J, M
<1>. QED
  BY <1>5, <1>13, <1>17 DEF F, calls, p

(* Every result has its answer before it.                                  *)
LEMMA ResultsArePaired ==
  ASSUME NEW n, NEW ms, Sound(ms, n), NEW pos, Positions(ms, pos),
         NEW p \in 1..Len(Patched(ms)), Patched(ms)[p].type = "tool"
  PROVE  LET F == Patched(ms)
         IN  \E a \in DOMAIN F : /\ a < p /\ p <= a + Len(F[a].calls)
                                 /\ \E c \in ToSet(F[a].calls) : c.id = F[p].id
<1>. DEFINE F == Patched(ms)
<1>1. ms \in Seq(Messages) /\ F \in Seq(Messages)
  BY PatchedFacts DEF Sound, WellFormed
<1>2. /\ DOMAIN ms = 1..Len(ms) /\ Len(ms) \in Nat /\ DOMAIN F = 1..Len(F)
      /\ \A i \in 1..Len(ms) : /\ ms[i].calls \in Seq(Call) /\ Len(ms[i].calls) \in Nat
                               /\ DOMAIN ms[i].calls = 1..Len(ms[i].calls)
  BY <1>1, MessageFacts
<1>3. PICK i \in 1..Len(ms) : pos[i] <= p /\ p <= pos[i] + Len(Missing(ms, i))
  BY DEF Positions
<1>. DEFINE q == Len(Missing(ms, i))
<1>4. /\ pos[i] \in Nat /\ q \in Nat /\ p \in Int
      /\ F[pos[i]] = ms[i] /\ \A k \in 1..q : F[pos[i] + k] = Result(Missing(ms, i)[k])
  <2>1. i \in 1..(Len(ms) + 1)
    BY <1>2
  <2>2. Missing(ms, i) \in Seq(Call)
    BY <1>2, PendingFacts DEF Missing
  <2>. QED
    BY <2>1, <2>2 DEF Positions
<1>5. ASSUME NEW j \in 1..Len(ms), ms[j].calls # << >>, pos[j] < p,
             p <= pos[j] + Len(ms[j].calls),
             \E m \in 1..Len(ms[j].calls) : ms[j].calls[m].id = F[p].id
      PROVE  \E a \in DOMAIN F : /\ a < p /\ p <= a + Len(F[a].calls)
                                 /\ \E c \in ToSet(F[a].calls) : c.id = F[p].id
  <2>1. PICK r : Block(ms, j, r)
    BY <1>5, BlockExists
  <2>2. pos[j] \in DOMAIN F /\ F[pos[j]] = ms[j]
    <3>1. Placed(ms, pos, j, r)
      BY <1>5, <2>1, BlockPositions
    <3>. QED
      BY <3>1, <1>2 DEF Placed, Positions
  <2>3. \E c \in ToSet(ms[j].calls) : c.id = F[p].id
    BY <1>2, <1>5 DEF ToSet
  <2>. QED
    BY <2>2, <2>3, <1>5
<1>. HIDE DEF F
<1>6. CASE p = pos[i]
  <2>1. F[p] = ms[i] /\ i \in OfType(ms, "tool")
    BY <1>2, <1>4, <1>6 DEF OfType, F
  <2>2. PICK a \in DOMAIN ms : Follows(ms, i, a)
    BY <2>1 DEF Sound, ResultsFollow
  <2>3. PICK m \in 1..Len(ms[a].calls) : ms[a].calls[m].id = ms[i].id
    BY <2>2, <1>2 DEF Follows
  <2>4. a \in 1..Len(ms) /\ ms[a].calls # << >>
    BY <2>3, <1>2
  <2>5. PICK r : Block(ms, a, r)
    BY <2>4, BlockExists
  <2>6. i - a \in 1..r
    BY <2>1, <2>3, <2>5 DEF Block
  <2>7. PICK k \in 1..r : k = i - a /\ a + k = i
    BY <2>4, <2>6
  <2>8. pos[i] = pos[a] + Len(Missing(ms, a)) + k
    <3>1. \A l \in 1..r : pos[a + l] = pos[a] + Len(Missing(ms, a)) + l
      <4>1. Placed(ms, pos, a, r)
        BY <2>4, <2>5, BlockPositions
      <4>. QED
        BY <4>1 DEF Placed
    <3>2. pos[a + k] = pos[a] + Len(Missing(ms, a)) + k
      BY <3>1
    <3>. QED
      BY <3>2, <2>7
  <2>9. Len(Missing(ms, a)) + r = Len(ms[a].calls)
    BY <2>4, <2>5, BlockLength
  <2>10. r \in Nat /\ Len(Missing(ms, a)) \in Nat /\ pos[a] \in Nat
    <3>1. Missing(ms, a) \in Seq(Call)
      BY <2>4, <1>2, PendingFacts DEF Missing
    <3>2. pos[a] \in Nat
      BY <2>4, <1>2 DEF Positions
    <3>. QED
      BY <2>5, <3>1, <3>2 DEF Block
  <2>11. pos[a] < p /\ p <= pos[a] + Len(ms[a].calls)
    BY <2>8, <2>9, <2>10, <1>6
  <2>. QED
    BY <2>1, <2>3, <2>4, <2>11, <1>5 DEF F
<1>7. CASE p # pos[i]
  <2>1. PICK k \in 1..q : p = pos[i] + k
    <3>1. p - pos[i] \in 1..q /\ p = pos[i] + (p - pos[i])
      BY <1>3, <1>4, <1>7
    <3>. QED
      BY <3>1
  <2>2. /\ Missing(ms, i) \in Seq(Call) /\ q = Cardinality(Unanswered(ms, ms[i].calls))
        /\ \E m \in Unanswered(ms, ms[i].calls) : Missing(ms, i)[k] = ms[i].calls[m]
        /\ ms[i].calls = << >> => q = 0
    BY <1>2, PendingFacts DEF Missing
  <2>3. F[p].id = Missing(ms, i)[k].id
    <3>1. Result(Missing(ms, i)[k]).id = Missing(ms, i)[k].id
      BY <2>2, ResultsFacts
    <3>. QED
      BY <3>1, <2>1, <1>4
  <2>4. ms[i].calls # << >>
    BY <2>1, <2>2
  <2>5. PICK r : Block(ms, i, r)
    BY <2>4, BlockExists
  <2>6. q + r = Len(ms[i].calls) /\ r \in Nat
    <3>1. r \in 0..(Len(ms) - i)
      BY <2>5 DEF Block
    <3>2. r \in Nat
      BY <3>1, <1>2
    <3>. QED
      BY <2>4, <2>5, <3>2, BlockLength
  <2>7. pos[i] < p /\ p <= pos[i] + Len(ms[i].calls)
    BY <2>1, <2>6, <1>4
  <2>8. \E m \in 1..Len(ms[i].calls) : ms[i].calls[m].id = F[p].id
    BY <2>2, <2>3 DEF Unanswered
  <2>. QED
    BY <2>4, <2>7, <2>8, <1>5 DEF F
<1>. QED
  BY <1>6, <1>7 DEF F

(* A sound history is well-formed once it is patched.                      *)
LEMMA PatchedIsPaired ==
  ASSUME NEW n, NEW ms, Sound(ms, n)
  PROVE  Paired(Patched(ms))
<1>. DEFINE F == Patched(ms)
<1>1. ms \in Seq(Messages)
  BY DEF Sound, WellFormed
<1>2. F \in Seq(Messages)
  BY <1>1, PatchedFacts
<1>3. PICK pos : Positions(ms, pos)
  BY <1>1, PatchedFacts
<1>4. ASSUME NEW p \in DOMAIN F, F[p].calls # << >>
      PROVE  LET last == p + Len(F[p].calls) IN
             /\ last <= Len(F)
             /\ \A j \in (p + 1)..last : F[j].type = "tool"
             /\ {F[j].id : j \in (p + 1)..last} = {c.id : c \in ToSet(F[p].calls)}
  <2>1. p \in 1..Len(F)
    BY <1>2
  <2>2. PICK i \in 1..Len(ms) : pos[i] <= p /\ p <= pos[i] + Len(Missing(ms, i))
    BY <2>1, <1>3 DEF Positions
  <2>3. p = pos[i]
    <3>. SUFFICES ASSUME p # pos[i] PROVE FALSE
      OBVIOUS
    <3>1. pos[i] \in Nat /\ Missing(ms, i) \in Seq(Call)
      <4>1. i \in 1..(Len(ms) + 1) /\ ms[i].calls \in Seq(Call)
        BY <1>1, MessageFacts
      <4>. QED
        BY <4>1, <1>3, PendingFacts DEF Positions, Missing
    <3>2. PICK k \in 1..Len(Missing(ms, i)) : p = pos[i] + k
      <4>1. Len(Missing(ms, i)) \in Nat /\ p \in Int
        BY <3>1, <2>1
      <4>2. p - pos[i] \in 1..Len(Missing(ms, i)) /\ p = pos[i] + (p - pos[i])
        BY <4>1, <3>1, <2>2
      <4>. QED
        BY <4>2
    <3>3. F[p] = Result(Missing(ms, i)[k])
      BY <3>2, <1>3 DEF Positions
    <3>4. Result(Missing(ms, i)[k]).calls = << >>
      BY <3>1, ResultsFacts
    <3>. QED
      BY <3>3, <3>4, <1>4
  <2>4. F[p] = ms[i]
    BY <2>3, <1>3 DEF Positions
  <2>. HIDE DEF F
  <2>5. ms[i].calls # << >>
    BY <1>4, <2>4
  <2>6. LET last == pos[i] + Len(ms[i].calls)
        IN  /\ last <= Len(F)
            /\ \A j \in (pos[i] + 1)..last : F[j].type = "tool"
            /\ {F[j].id : j \in (pos[i] + 1)..last} = {c.id : c \in ToSet(ms[i].calls)}
    BY <1>3, <2>5, AnswersArePaired DEF F
  <2>. QED
    BY <2>3, <2>4, <2>6
<1>5. ASSUME NEW p \in DOMAIN F, F[p].type = "tool"
      PROVE  \E a \in DOMAIN F : /\ a < p /\ p <= a + Len(F[a].calls)
                                 /\ \E c \in ToSet(F[a].calls) : c.id = F[p].id
  <2>1. p \in 1..Len(F)
    BY <1>2
  <2>. QED
    BY <2>1, <1>3, <1>5, ResultsArePaired
<1>. QED
  BY <1>4, <1>5 DEF Paired

-----------------------------------------------------------------------------
(* What the nodes do to the messages keeps them sound.                     *)

(* The types of a sound history.                                           *)
LEMMA SoundFacts ==
  ASSUME NEW n, NEW ms, Sound(ms, n)
  PROVE  /\ ms \in Seq(Messages) /\ Len(ms) \in Nat /\ DOMAIN ms = 1..Len(ms)
         /\ \A i \in 1..Len(ms) :
              /\ ms[i] \in Messages /\ ms[i].type \in Types /\ ms[i].id \in Nat
              /\ ms[i].calls \in Seq(Call) /\ Len(ms[i].calls) \in Nat
              /\ DOMAIN ms[i].calls = 1..Len(ms[i].calls)
              /\ ms[i].calls # << >> => ms[i].type = "ai"
<1>1. ms \in Seq(Messages)
  BY DEF Sound, WellFormed
<1>. QED
  BY <1>1, MessageFacts DEF Sound, WellFormed

(* The same by numbers.                                                    *)
LEMMA SoundCalls ==
  ASSUME NEW n, NEW ms, Sound(ms, n)
  PROVE  /\ \A i \in 1..Len(ms) : \A k \in 1..Len(ms[i].calls) :
              ms[i].calls[k] \in Call /\ ms[i].calls[k].id \in Nat /\ ms[i].calls[k].id <= n
         /\ \A i, j \in 1..Len(ms) :
              \A k \in 1..Len(ms[i].calls), l \in 1..Len(ms[j].calls) :
                ms[i].calls[k].id = ms[j].calls[l].id => i = j /\ k = l
         /\ \A j \in 1..Len(ms) : ms[j].type = "tool" => \E a \in 1..Len(ms) : Follows(ms, j, a)
         /\ \A i, j \in 1..Len(ms) :
              ms[i].type = "tool" /\ ms[j].type = "tool" /\ ms[i].id = ms[j].id => i = j
<1>1. /\ DOMAIN ms = 1..Len(ms)
      /\ \A i \in 1..Len(ms) : ms[i].calls \in Seq(Call)
                               /\ DOMAIN ms[i].calls = 1..Len(ms[i].calls)
  BY SoundFacts
<1>2. CallsApart(ms) /\ ResultsFollow(ms)
      /\ \A i \in DOMAIN ms : \A k \in DOMAIN ms[i].calls : ms[i].calls[k].id <= n
  BY DEF Sound
<1>3. ASSUME NEW i \in 1..Len(ms), NEW k \in 1..Len(ms[i].calls)
      PROVE  ms[i].calls[k] \in Call /\ ms[i].calls[k].id \in Nat /\ ms[i].calls[k].id <= n
  <2>1. ms[i].calls[k] \in Call
    BY <1>1
  <2>. QED
    BY <2>1, <1>1, <1>2, MessageFacts
<1>4. ASSUME NEW i \in 1..Len(ms), NEW j \in 1..Len(ms),
             NEW k \in 1..Len(ms[i].calls), NEW l \in 1..Len(ms[j].calls),
             ms[i].calls[k].id = ms[j].calls[l].id
      PROVE  i = j /\ k = l
  <2>1. i \in DOMAIN ms /\ j \in DOMAIN ms /\ k \in DOMAIN ms[i].calls /\ l \in DOMAIN ms[j].calls
    BY <1>1
  <2>. QED
    BY <2>1, <1>2, <1>4, Zenon DEF CallsApart
<1>5. ASSUME NEW j \in 1..Len(ms), ms[j].type = "tool"
      PROVE  /\ j \in OfType(ms, "tool")
             /\ \E a \in 1..Len(ms) : Follows(ms, j, a)
  <2>1. j \in OfType(ms, "tool")
    BY <1>1, <1>5 DEF OfType
  <2>. QED
    BY <2>1, <1>1, <1>2 DEF ResultsFollow
<1>6. ASSUME NEW i \in 1..Len(ms), NEW j \in 1..Len(ms),
             ms[i].type = "tool", ms[j].type = "tool", ms[i].id = ms[j].id
      PROVE  i = j
  BY <1>5, <1>6, <1>2 DEF ResultsFollow
<1>. QED
  BY <1>3, <1>4, <1>5, <1>6

(* In a sound history a call is known by its id.                           *)
LEMMA IdsApart ==
  ASSUME NEW n, NEW ms, Sound(ms, n), NEW i \in 1..Len(ms),
    NEW j \in 1..Len(ms),
         NEW k \in 1..Len(ms[i].calls), NEW l \in 1..Len(ms[j].calls),
         ms[i].calls[k].id = ms[j].calls[l].id
  PROVE  i = j /\ k = l
BY SoundCalls, Zenon

(* The calls of one answer are apart.                                      *)
LEMMA OwnCallsApart ==
  ASSUME NEW n, NEW ms, Sound(ms, n), NEW i \in 1..Len(ms)
  PROVE  \A k, l \in 1..Len(ms[i].calls) : ms[i].calls[k].id = ms[i].calls[l].id => k = l
<1>1. i \in DOMAIN ms /\ DOMAIN ms[i].calls = 1..Len(ms[i].calls)
  BY SoundFacts
<1>. QED
  BY <1>1 DEF Sound, CallsApart

(* What there is to show of a history for it to be sound.                  *)
LEMMA SoundFrom ==
  ASSUME NEW n, NEW ms \in Seq(Messages),
         \A i \in 1..Len(ms) : ms[i].calls # << >> => ms[i].type = "ai",
         \A i \in 1..Len(ms) : \A k \in 1..Len(ms[i].calls) : ms[i].calls[k].id <= n,
         \A i, j \in 1..Len(ms) :
              \A k \in 1..Len(ms[i].calls), l \in 1..Len(ms[j].calls) :
                ms[i].calls[k].id = ms[j].calls[l].id => i = j /\ k = l,
         \A j \in 1..Len(ms) : ms[j].type = "tool" => \E a \in 1..Len(ms) : Follows(ms, j, a),
         \A i, j \in 1..Len(ms) :
              ms[i].type = "tool" /\ ms[j].type = "tool" /\ ms[i].id = ms[j].id => i = j
  PROVE  Sound(ms, n)
<1>1. DOMAIN ms = 1..Len(ms)
  OBVIOUS
<1>2. \A i \in 1..Len(ms) : DOMAIN ms[i].calls = 1..Len(ms[i].calls)
  <2>1. \A i \in 1..Len(ms) : ms[i] \in Messages
    OBVIOUS
  <2>2. \A i \in 1..Len(ms) : ms[i].calls \in Seq(Call)
    BY <2>1, MessageFacts
  <2>. QED
    BY <2>2
<1>3. WellFormed(ms)
  BY <1>1 DEF WellFormed
<1>4. CallsApart(ms)
  <2>. SUFFICES ASSUME NEW i \in DOMAIN ms, NEW j \in DOMAIN ms,
                       NEW k \in DOMAIN ms[i].calls, NEW l \in DOMAIN ms[j].calls,
                       ms[i].calls[k].id = ms[j].calls[l].id
                PROVE  i = j /\ k = l
    BY DEF CallsApart
  <2>1. /\ i \in 1..Len(ms) /\ j \in 1..Len(ms)
        /\ k \in 1..Len(ms[i].calls) /\ l \in 1..Len(ms[j].calls)
    BY <1>1, <1>2
  <2>. QED
    BY <2>1, Zenon
<1>5. ResultsFollow(ms)
  <2>1. \A j \in OfType(ms, "tool") : j \in 1..Len(ms) /\ ms[j].type = "tool"
    BY <1>1 DEF OfType
  <2>. QED
    BY <1>1, <2>1 DEF ResultsFollow
<1>6. \A i \in DOMAIN ms : \A k \in DOMAIN ms[i].calls : ms[i].calls[k].id <= n
  BY <1>1, <1>2
<1>. QED
  BY <1>3, <1>4, <1>5, <1>6 DEF Sound

(* Whether a result follows its answer depends on what is before it.       *)
LEMMA FollowsBefore ==
  ASSUME NEW ms, NEW ns, NEW j \in Nat, NEW a \in Nat, Follows(ms, j, a),
         \A k \in a..j : ns[k] = ms[k]
  PROVE  Follows(ns, j, a)
<1>1. a \in a..j /\ j \in a..j /\ \A k \in (a + 1)..j : k \in a..j
  BY DEF Follows
<1>2. ns[a] = ms[a] /\ ns[j] = ms[j] /\ \A k \in (a + 1)..j : ns[k] = ms[k]
  BY <1>1
<1>. QED
  BY <1>2 DEF Follows

(* A message that is no result, with new calls or none.                    *)
LEMMA SoundAppend ==
  ASSUME NEW n \in Nat, NEW o \in Nat, n <= o, NEW ms, Sound(ms, n),
         NEW m \in Messages, m.type # "tool", m.calls # << >> => m.type = "ai",
         \A k \in DOMAIN m.calls : n < m.calls[k].id /\ m.calls[k].id <= o,
         \A k, l \in DOMAIN m.calls : m.calls[k].id = m.calls[l].id => k = l
  PROVE  Sound(Append(ms, m), o)
<1>. DEFINE L == Len(ms)
            ns == Append(ms, m)
<1>1. /\ ms \in Seq(Messages) /\ L \in Nat /\ DOMAIN ms = 1..L
      /\ \A i \in 1..L : /\ ms[i].calls \in Seq(Call) /\ DOMAIN ms[i].calls = 1..Len(ms[i].calls)
                         /\ ms[i].calls # << >> => ms[i].type = "ai"
  BY SoundFacts
<1>2. /\ ns \in Seq(Messages) /\ DOMAIN ns = 1..(L + 1) /\ ns[L + 1] = m
      /\ \A i \in 1..L : ns[i] = ms[i]
  BY <1>1
<1>. HIDE DEF L, ns
<1>3. \A i \in 1..(L + 1) : i \in 1..L \/ i = L + 1
  BY <1>1
<1>4. WellFormed(ns)
  BY <1>1, <1>2, <1>3 DEF WellFormed
<1>5. \A i \in 1..L : \A k \in DOMAIN ms[i].calls : ms[i].calls[k].id <= n /\ ms[i].calls[k].id \in Nat
  <2>1. \A i \in 1..L : \A k \in 1..Len(ms[i].calls) :
          ms[i].calls[k].id <= n /\ ms[i].calls[k].id \in Nat
    BY SoundCalls DEF L
  <2>. QED
    BY <2>1, <1>1
<1>6. \A k \in DOMAIN m.calls : m.calls[k].id \in Nat
  BY MessageFacts
<1>7. \A i \in DOMAIN ns : \A k \in DOMAIN ns[i].calls : ns[i].calls[k].id <= o
  BY <1>2, <1>3, <1>5
<1>8. CallsApart(ns)
  <2>. SUFFICES ASSUME NEW i \in 1..(L + 1), NEW j \in 1..(L + 1),
                       NEW k \in DOMAIN ns[i].calls, NEW l \in DOMAIN ns[j].calls,
                       ns[i].calls[k].id = ns[j].calls[l].id
                PROVE  i = j /\ k = l
    BY <1>2 DEF CallsApart
  <2>1. CASE i \in 1..L /\ j \in 1..L
    <3>1. /\ i \in 1..Len(ms) /\ j \in 1..Len(ms) /\ ns[i] = ms[i] /\ ns[j] = ms[j]
          /\ k \in 1..Len(ms[i].calls) /\ l \in 1..Len(ms[j].calls)
      BY <2>1, <1>1, <1>2 DEF L
    <3>2. ms[i].calls[k].id = ms[j].calls[l].id
      BY <3>1
    <3>. QED
      BY <3>1, <3>2, IdsApart
  <2>2. CASE i = L + 1 /\ j = L + 1
    BY <2>2, <1>2
  <2>3. CASE i \in 1..L /\ j = L + 1
    <3>1. ns[i].calls[k].id <= n /\ n < ns[j].calls[l].id
      BY <2>3, <1>2, <1>5
    <3>. QED
      BY <3>1, <2>3, <1>2, <1>5
  <2>4. CASE i = L + 1 /\ j \in 1..L
    <3>1. ns[j].calls[l].id <= n /\ n < ns[i].calls[k].id
      BY <2>4, <1>2, <1>5
    <3>. QED
      BY <3>1, <2>4, <1>2, <1>5
  <2>. QED
    BY <2>1, <2>2, <2>3, <2>4, <1>3
<1>9. OfType(ns, "tool") = OfType(ms, "tool")
  BY <1>1, <1>2, <1>3 DEF OfType
<1>10. ResultsFollow(ns)
  <2>. SUFFICES ASSUME NEW j \in OfType(ms, "tool")
                PROVE  /\ \E a \in DOMAIN ns : Follows(ns, j, a)
                       /\ \A i \in OfType(ms, "tool") : ns[i].id = ns[j].id => i = j
    BY <1>9 DEF ResultsFollow
  <2>1. OfType(ms, "tool") \subseteq 1..L
    BY <1>1 DEF OfType
  <2>2. PICK a \in 1..L : Follows(ms, j, a)
    BY <1>1 DEF Sound, ResultsFollow
  <2>3. \A k \in a..j : ns[k] = ms[k]
    <3>1. \A k \in a..j : k \in 1..L
      BY <2>1, <1>1
    <3>. QED
      BY <3>1, <1>2
  <2>4. Follows(ns, j, a)
    BY <2>1, <2>2, <2>3, FollowsBefore
  <2>5. a \in DOMAIN ns
    BY <1>1, <1>2
  <2>6. \A i \in OfType(ms, "tool") : ns[i].id = ns[j].id => i = j
    BY <2>1, <1>2 DEF Sound, ResultsFollow
  <2>. QED
    BY <2>4, <2>5, <2>6
<1>. QED
  BY <1>4, <1>7, <1>8, <1>10 DEF Sound, ns

(* A message without calls that is no result may be added.                 *)
LEMMA SoundNote ==
  ASSUME NEW n \in Nat, NEW ms, Sound(ms, n), NEW m \in Messages,
         m.type # "tool", m.calls = << >>
  PROVE  Sound(Append(ms, m), n)
<1>1. DOMAIN m.calls = {}
  OBVIOUS
<1>2. n <= n
  OBVIOUS
<1>. QED
  BY <1>1, <1>2, SoundAppend

(* The length of two histories joined.                                     *)
LEMMA JoinedLength ==
  ASSUME NEW ps \in Seq(Messages), NEW qs \in Seq(Messages)
  PROVE  Len(ps \o qs) = Len(ps) + Len(qs)
OBVIOUS

(* Results of calls of the last answer that have none.                     *)
Extended(ms, cs, a, n) ==
  /\ Sound(ms \o Results(cs), n)
  /\ \A k \in (a + 1)..Len(ms \o Results(cs)) : (ms \o Results(cs))[k].type = "tool"
  /\ \A k \in 1..Len(ms) : (ms \o Results(cs))[k] = ms[k]
  /\ Len(ms \o Results(cs)) = Len(ms) + Len(cs)

(* So may the results of pending calls of the last answer.                 *)
LEMMA SoundResults ==
  ASSUME NEW n, NEW ms, Sound(ms, n), NEW a \in 1..Len(ms),
         \A k \in (a + 1)..Len(ms) : ms[k].type = "tool",
         NEW cs \in Seq(Call),
         \A k \in 1..Len(cs) : \E m \in 1..Len(ms[a].calls) : cs[k] = ms[a].calls[m],
         \A k, l \in 1..Len(cs) : cs[k].id = cs[l].id => k = l,
         \A k \in 1..Len(cs) : cs[k].id \notin Answered(ms)
  PROVE  Extended(ms, cs, a, n)
<1>. DEFINE L == Len(ms)
            C == Len(cs)
            R == Results(cs)
            ns == ms \o Results(cs)
<1>1. /\ ms \in Seq(Messages) /\ L \in Nat /\ DOMAIN ms = 1..L
      /\ \A i \in 1..L : /\ ms[i].calls \in Seq(Call) /\ DOMAIN ms[i].calls = 1..Len(ms[i].calls)
                         /\ ms[i].calls # << >> => ms[i].type = "ai"
  BY SoundFacts
<1>2. /\ R \in Seq(Messages) /\ Len(R) = C
      /\ \A k \in 1..C : R[k].type = "tool" /\ R[k].calls = << >> /\ R[k].id = cs[k].id
  BY ResultsFacts
<1>3. C \in Nat
  OBVIOUS
<1>. HIDE DEF C, R
<1>22. /\ ms \o R \in Seq(Messages) /\ Len(ms \o R) = L + C
      /\ \A i \in 1..(L + C) : (ms \o R)[i] = IF i <= L THEN ms[i] ELSE R[i - L]
  <2>1. ms \in Seq(Messages) /\ R \in Seq(Messages) /\ Len(R) = C
    BY <1>1, <1>2
  <2>. HIDE DEF L
  <2>2. ms \o R \in Seq(Messages)
    BY <2>1
  <2>4. Len(ms \o R) = Len(ms) + Len(R)
    BY <2>1, JoinedLength, Zenon
  <2>3. \A i \in 1..(Len(ms) + Len(R)) : (ms \o R)[i] = IF i <= Len(ms) THEN ms[i] ELSE R[i - Len(ms)]
    BY <2>1, ConcatProperties
  <2>. QED
    BY <2>1, <2>2, <2>3, <2>4 DEF L
<1>. HIDE DEF L, ns
<1>. USE DEF R
<1>20. ns = ms \o R
  BY DEF ns
<1>. HIDE DEF R
<1>4. /\ ns \in Seq(Messages) /\ Len(ns) = L + C
      /\ \A i \in 1..(L + C) : ns[i] = IF i <= L THEN ms[i] ELSE R[i - L]
  BY <1>22, <1>20
<1>5. DOMAIN ns = 1..(L + C)
  BY <1>4
<1>6. \A i \in 1..L : ns[i] = ms[i]
  BY <1>1, <1>3, <1>4
<1>7. \A k \in 1..C : ns[L + k] = R[k] /\ L + k \in 1..(L + C)
  BY <1>1, <1>3, <1>4
<1>8. \A i \in 1..(L + C) : i \in 1..L \/ \E k \in 1..C : i = L + k
  <2>. SUFFICES ASSUME NEW i \in 1..(L + C), i \notin 1..L
       PROVE \E k \in 1..C : i = L + k
    OBVIOUS
  <2>1. i - L \in 1..C /\ i = L + (i - L)
    BY <1>1, <1>3
  <2>. QED
    BY <2>1
<1>9. \A k \in 1..C : ns[L + k].type = "tool" /\ ns[L + k].calls = << >> /\ ns[L + k].id = cs[k].id
  BY <1>2, <1>7
<1>10. WellFormed(ns)
  BY <1>1, <1>4, <1>5, <1>6, <1>8, <1>9 DEF WellFormed
<1>11. \A i \in DOMAIN ns : ns[i].calls = << >> \/ i \in 1..L
  BY <1>5, <1>8, <1>9
<1>12. \A i \in DOMAIN ns : \A k \in DOMAIN ns[i].calls : i \in 1..L /\ ns[i] = ms[i]
  BY <1>6, <1>11
<1>13. \A i \in DOMAIN ns : \A k \in DOMAIN ns[i].calls : ns[i].calls[k].id <= n
  BY <1>1, <1>12 DEF Sound
<1>14. CallsApart(ns)
  <2>. SUFFICES ASSUME NEW i \in DOMAIN ns, NEW j \in DOMAIN ns,
                       NEW k \in DOMAIN ns[i].calls, NEW l \in DOMAIN ns[j].calls,
                       ns[i].calls[k].id = ns[j].calls[l].id
                PROVE  i = j /\ k = l
    BY DEF CallsApart
  <2>1. i \in DOMAIN ms /\ j \in DOMAIN ms /\ ns[i] = ms[i] /\ ns[j] = ms[j]
    BY <1>1, <1>12
  <2>. QED
    BY <2>1 DEF Sound, CallsApart
<1>15. \A k \in (a + 1)..(L + C) : ns[k].type = "tool"
  <2>. SUFFICES ASSUME NEW k \in (a + 1)..(L + C) PROVE ns[k].type = "tool"
    OBVIOUS
  <2>1. CASE k \in 1..L
    <3>1. k \in (a + 1)..L
      BY <2>1, <1>1 DEF L
    <3>. QED
      BY <2>1, <3>1, <1>6 DEF L
  <2>2. CASE k \notin 1..L
    <3>1. k \in 1..(L + C)
      BY <1>1, <1>3 DEF L
    <3>. QED
      BY <2>2, <3>1, <1>8, <1>9
  <2>. QED
    BY <2>1, <2>2
<1>16. a \in 1..L /\ a \in DOMAIN ns /\ ns[a] = ms[a]
  BY <1>1, <1>3, <1>5, <1>6 DEF L
<1>17. ResultsFollow(ns)
  <2>. SUFFICES ASSUME NEW j \in OfType(ns, "tool")
                PROVE  /\ \E b \in DOMAIN ns : Follows(ns, j, b)
                       /\ \A i \in OfType(ns, "tool") : ns[i].id = ns[j].id => i = j
    BY DEF ResultsFollow
  <2>0. /\ j \in 1..(L + C) /\ OfType(ms, "tool") \subseteq 1..L
        /\ \A i \in OfType(ns, "tool") : i \in OfType(ms, "tool") \/ \E k \in 1..C : i = L + k
    BY <1>1, <1>5, <1>6, <1>8 DEF OfType
  <2>1. \A i \in OfType(ms, "tool"), k \in 1..C : ns[i].id # ns[L + k].id
    <3>. SUFFICES ASSUME NEW i \in OfType(ms, "tool"), NEW k \in 1..C
                  PROVE  ns[i].id # ns[L + k].id
      OBVIOUS
    <3>1. ns[i].id = ms[i].id /\ ms[i].id \in Answered(ms)
      BY <2>0, <1>6 DEF Answered
    <3>2. ns[L + k].id \notin Answered(ms)
      BY <1>9 DEF C
    <3>. QED
      BY <3>1, <3>2
  <2>2. CASE j \in OfType(ms, "tool")
    <3>1. PICK b \in 1..L : Follows(ms, j, b)
      BY <2>2, <1>1 DEF Sound, ResultsFollow
    <3>2. \A k \in b..j : ns[k] = ms[k]
      <4>1. \A k \in b..j : k \in 1..L
        BY <2>0, <2>2, <1>1
      <4>. QED
        BY <4>1, <1>6
    <3>5. j \in Nat /\ b \in Nat
      BY <2>0, <1>1, <1>3
    <3>6. b \in DOMAIN ns
      BY <1>1, <1>3, <1>5
    <3>7. Follows(ns, j, b)
      BY <3>1, <3>2, <3>5, FollowsBefore
    <3>3. Follows(ns, j, b) /\ b \in DOMAIN ns
      BY <3>6, <3>7
    <3>4. ASSUME NEW i \in OfType(ns, "tool"), ns[i].id = ns[j].id PROVE i = j
      <4>1. i \in OfType(ms, "tool")
        BY <2>0, <2>1, <2>2, <3>4
      <4>2. ms[i].id = ms[j].id
        BY <4>1, <2>0, <2>2, <3>4, <1>6
      <4>. QED
        BY <4>1, <4>2, <2>2 DEF Sound, ResultsFollow
    <3>. QED
      BY <3>3, <3>4
  <2>3. CASE \E k \in 1..C : j = L + k
    <3>1. PICK k \in 1..C : j = L + k
      BY <2>3
    <3>2. Follows(ns, j, a)
      <4>1. a < j
        BY <3>1, <1>1, <1>16
      <4>2. \A l \in (a + 1)..j : ns[l].type = "tool"
        <5>1. \A l \in (a + 1)..j : l \in (a + 1)..(L + C)
          BY <2>0, <1>1, <1>3, <1>16
        <5>. QED
          BY <5>1, <1>15
      <4>3. PICK m \in 1..Len(ms[a].calls) : cs[k] = ms[a].calls[m]
        BY DEF C
      <4>5. m \in DOMAIN ns[a].calls
        BY <1>1, <1>16
      <4>6. ns[j].id = cs[k].id /\ ns[a] = ms[a]
        BY <3>1, <1>9, <1>16
      <4>4. \E q \in DOMAIN ns[a].calls : ns[a].calls[q].id = ns[j].id
        BY <4>3, <4>5, <4>6
      <4>. QED
        BY <4>1, <4>2, <4>4 DEF Follows
    <3>3. ASSUME NEW i \in OfType(ns, "tool"), ns[i].id = ns[j].id PROVE i = j
      <4>1. PICK l \in 1..C : i = L + l
        BY <2>0, <2>1, <3>1, <3>3
      <4>2. cs[l].id = cs[k].id
        BY <4>1, <3>1, <3>3, <1>9
      <4>3. l = k
        BY <4>2 DEF C
      <4>. QED
        BY <4>1, <4>3, <3>1
    <3>. QED
      BY <3>2, <3>3, <1>16
  <2>. QED
    BY <2>0, <2>2, <2>3
<1>18. Sound(ns, n)
  BY <1>10, <1>13, <1>14, <1>17 DEF Sound
<1>. QED
  BY <1>4, <1>6, <1>15, <1>18 DEF Extended, ns, L, C

(* The last answer with fewer calls.                                       *)
LEMMA SoundReplaced ==
  ASSUME NEW n, NEW ms, Sound(ms, n), ms # << >>, ms[Len(ms)].type = "ai",
         NEW cs \in Seq(Call),
         \A k \in 1..Len(cs) : \E m \in 1..Len(ms[Len(ms)].calls) : cs[k] = ms[Len(ms)].calls[m],
         \A k, l \in 1..Len(cs) : cs[k].id = cs[l].id => k = l
  PROVE  Sound([ms EXCEPT ![Len(ms)].calls = cs], n)
<1>. DEFINE L == Len(ms)
            ns == [ms EXCEPT ![L].calls = cs]
<1>1. /\ ms \in Seq(Messages) /\ L \in Nat /\ DOMAIN ms = 1..L
      /\ \A i \in 1..L : /\ ms[i].calls \in Seq(Call) /\ DOMAIN ms[i].calls = 1..Len(ms[i].calls)
                         /\ ms[i].calls # << >> => ms[i].type = "ai"
                         /\ ms[i] \in Messages
  BY SoundFacts
<1>2. L \in 1..L /\ ms[L].type = "ai"
  BY <1>1
<1>3. [ms[L] EXCEPT !.calls = cs] \in Messages
  BY <1>1, <1>2 DEF Messages
<1>4. ns[L] = [ms[L] EXCEPT !.calls = cs] /\ \A i \in 1..L : i # L => ns[i] = ms[i]
  BY <1>1, <1>2
<1>5. ns[L].calls = cs /\ ns[L].type = "ai" /\ ns[L].id = ms[L].id
  BY <1>1, <1>2, <1>4 DEF Messages
<1>6. ns \in Seq(Messages) /\ DOMAIN ns = 1..L /\ Len(ns) = L
  BY <1>1, <1>2, <1>3
<1>7. DOMAIN cs = 1..Len(cs)
  OBVIOUS
<1>8. \A k \in 1..Len(cs) : \E m \in 1..Len(ms[L].calls) : cs[k] = ms[L].calls[m]
  OBVIOUS
<1>. HIDE DEF ns, L
<1>15. \A i \in 1..L : i = L \/ ns[i] = ms[i]
  BY <1>4
<1>16. \A i \in 1..L : ns[i].type = ms[i].type /\ ns[i].id = ms[i].id
  BY <1>2, <1>5, <1>15
<1>17. \A i \in 1..L : ns[i].calls # << >> => ns[i].type = "ai"
  BY <1>1, <1>5, <1>15
<1>9. WellFormed(ns)
  BY <1>6, <1>17 DEF WellFormed
<1>10. \A i \in 1..L : \A k \in DOMAIN ns[i].calls : \E m \in 1..Len(ms[i].calls) :
         ns[i].calls[k] = ms[i].calls[m]
  <2>. TAKE i \in 1..L
  <2>1. CASE i = L
    <3>1. ns[i].calls = cs
      BY <2>1, <1>5
    <3>2. \A k \in DOMAIN cs : \E m \in 1..Len(ms[L].calls) : cs[k] = ms[L].calls[m]
      BY <1>7, <1>8
    <3>. QED
      BY <2>1, <3>1, <3>2, Zenon
  <2>2. CASE ns[i] = ms[i]
    BY <2>2, <1>1
  <2>. QED
    BY <2>1, <2>2, <1>15
<1>11. \A i \in DOMAIN ns : \A k \in DOMAIN ns[i].calls : ns[i].calls[k].id <= n
  <2>. TAKE i \in DOMAIN ns
  <2>. TAKE k \in DOMAIN ns[i].calls
  <2>1. i \in 1..L
    BY <1>6
  <2>2. PICK m \in 1..Len(ms[i].calls) : ns[i].calls[k] = ms[i].calls[m]
    BY <2>1, <1>10
  <2>. QED
    BY <2>1, <2>2, SoundCalls DEF L
<1>18. \A i \in 1..L :
         \A k, l \in 1..Len(ms[i].calls) : ms[i].calls[k].id = ms[i].calls[l].id => k = l
  BY OwnCallsApart DEF L
<1>12. CallsApart(ns)
  <2>. SUFFICES ASSUME NEW i \in 1..L, NEW j \in 1..L,
                       NEW k \in DOMAIN ns[i].calls, NEW l \in DOMAIN ns[j].calls,
                       ns[i].calls[k].id = ns[j].calls[l].id
                PROVE  i = j /\ k = l
    BY <1>6 DEF CallsApart
  <2>4. PICK p \in 1..Len(ms[i].calls) : ns[i].calls[k] = ms[i].calls[p]
    BY <1>10
  <2>5. PICK q \in 1..Len(ms[j].calls) : ns[j].calls[l] = ms[j].calls[q]
    BY <1>10
  <2>6. ms[i].calls[p].id = ms[j].calls[q].id
    BY <2>4, <2>5
  <2>1. i = j
    BY <2>6, IdsApart DEF L
  <2>2. CASE i = L
    <3>1. k \in 1..Len(cs) /\ l \in 1..Len(cs) /\ cs[k].id = cs[l].id
      BY <2>1, <2>2, <1>5, <1>7
    <3>. QED
      BY <2>1, <3>1
  <2>3. CASE ns[i] = ms[i]
    <3>1. /\ k \in 1..Len(ms[i].calls) /\ l \in 1..Len(ms[i].calls)
          /\ ms[i].calls[k].id = ms[i].calls[l].id
      BY <2>1, <2>3, <1>1
    <3>2. k = l
      BY <3>1, <1>18, Zenon
    <3>. QED
      BY <2>1, <3>2
  <2>. QED
    BY <2>2, <2>3, <1>15
<1>13. OfType(ns, "tool") = OfType(ms, "tool") /\ \A i \in OfType(ms, "tool") : i \in 1..L /\ i # L
  <2>1. OfType(ns, "tool") = {i \in 1..L : ns[i].type = "tool"}
    BY <1>6 DEF OfType
  <2>2. OfType(ms, "tool") = {i \in 1..L : ms[i].type = "tool"}
    BY <1>1 DEF OfType
  <2>3. \A i \in 1..L : ns[i].type = "tool" <=> ms[i].type = "tool"
    BY <1>16
  <2>4. \A i \in 1..L : ms[i].type = "tool" => i # L
    BY <1>2
  <2>. QED
    BY <2>1, <2>2, <2>3, <2>4, Zenon
<1>14. ResultsFollow(ns)
  <2>. SUFFICES ASSUME NEW j \in OfType(ms, "tool")
                PROVE  /\ \E a \in DOMAIN ns : Follows(ns, j, a)
                       /\ \A i \in OfType(ms, "tool") : ns[i].id = ns[j].id => i = j
    BY <1>13 DEF ResultsFollow
  <2>2. PICK a \in 1..L : Follows(ms, j, a)
    BY <1>1 DEF Sound, ResultsFollow
  <2>3. \A k \in a..j : ns[k] = ms[k]
    <3>1. \A k \in a..j : k \in 1..L /\ k # L
      BY <1>1, <1>13
    <3>. QED
      BY <3>1, <1>4
  <2>5. j \in Nat /\ a \in Nat
    BY <1>1, <1>13
  <2>4. Follows(ns, j, a)
    BY <2>2, <2>3, <2>5, FollowsBefore
  <2>6. \A i \in OfType(ms, "tool") : ns[i].id = ns[j].id => i = j
    BY <1>4, <1>13 DEF Sound, ResultsFollow
  <2>. QED
    BY <2>4, <2>6, <1>6
<1>. QED
  BY <1>9, <1>11, <1>12, <1>14 DEF Sound, ns, L

(* What At takes from the calls of an answer.                              *)
LEMMA TakenFacts ==
  ASSUME NEW cs \in Seq(Call), NEW I
  PROVE  /\ At(cs, I) \in Seq(Call)
         /\ \A k \in 1..Len(At(cs, I)) : \E m \in I \cap (1..Len(cs)) : At(cs, I)[k] = cs[m]
         /\ \A m \in I \cap (1..Len(cs)) : \E k \in 1..Len(At(cs, I)) : At(cs, I)[k] = cs[m]
         /\ (\A k, l \in 1..Len(cs) : cs[k].id = cs[l].id => k = l) =>
              \A k, l \in 1..Len(At(cs, I)) : At(cs, I)[k].id = At(cs, I)[l].id => k = l
<1>. DEFINE As == At(cs, I)
<1>1. As \in Seq(Call) /\ \E h : Picks(cs, I, h)
  BY AtFacts
<1>2. PICK h : Picks(cs, I, h)
  BY <1>1
<1>3. /\ h \in [1..Len(As) -> I \cap (1..Len(cs))]
      /\ \A k \in 1..Len(As) : As[k] = cs[h[k]]
      /\ \A k, l \in 1..Len(As) : k < l <=> h[k] < h[l]
      /\ \A i \in I \cap (1..Len(cs)) : \E k \in 1..Len(As) : h[k] = i
  BY <1>2 DEF Picks
<1>4. Len(As) \in Nat /\ Len(cs) \in Nat
  BY <1>1
<1>. HIDE DEF As
<1>5. \A k \in 1..Len(As) : h[k] \in I \cap (1..Len(cs))
  BY <1>3
<1>6. \A k, l \in 1..Len(As) : h[k] = h[l] => k = l
  BY <1>3, <1>4, <1>5
<1>7. (\A k, l \in 1..Len(cs) : cs[k].id = cs[l].id => k = l) =>
        \A k, l \in 1..Len(As) : As[k].id = As[l].id => k = l
  BY <1>3, <1>5, <1>6
<1>8. \A k \in 1..Len(As) : \E m \in I \cap (1..Len(cs)) : As[k] = cs[m]
  BY <1>3, <1>5
<1>9. \A m \in I \cap (1..Len(cs)) : \E k \in 1..Len(As) : As[k] = cs[m]
  BY <1>3
<1>. QED
  BY <1>1, <1>7, <1>8, <1>9 DEF As

(* Some of the messages in their order, with some of their calls: what     *)
(* remains is sound when with every result its call remains.               *)
Thins(ns, ms, h) ==
  /\ h \in [1..Len(ns) -> 1..Len(ms)]
  /\ \A i, j \in 1..Len(ns) : i < j <=> h[i] < h[j]
  /\ \A i \in 1..Len(ns) :
       /\ ns[i].type = ms[h[i]].type /\ ns[i].id = ms[h[i]].id
       /\ \A k \in 1..Len(ns[i].calls) : \E m \in 1..Len(ms[h[i]].calls) :
            ns[i].calls[k] = ms[h[i]].calls[m]
       /\ \A k, l \in 1..Len(ns[i].calls) : ns[i].calls[k].id = ns[i].calls[l].id => k = l
  /\ \A j \in 1..Len(ns) : ns[j].type = "tool" => \E b \in 1..Len(ns) :
       /\ b < j /\ \A k \in (h[b] + 1)..h[j] : ms[k].type = "tool"
       /\ \E m \in 1..Len(ns[b].calls) : ns[b].calls[m].id = ns[j].id

(* A history stays sound when messages and calls are dropped, each call with its result. *)
LEMMA SoundThinned ==
  ASSUME NEW n, NEW ms, Sound(ms, n), NEW ns \in Seq(Messages), NEW h,
    Thins(ns, ms, h)
  PROVE  Sound(ns, n)
<1>1. /\ ms \in Seq(Messages) /\ Len(ms) \in Nat /\ DOMAIN ms = 1..Len(ms)
      /\ \A i \in 1..Len(ms) : /\ ms[i].calls \in Seq(Call)
                               /\ DOMAIN ms[i].calls = 1..Len(ms[i].calls)
                               /\ Len(ms[i].calls) \in Nat
                               /\ ms[i].calls # << >> => ms[i].type = "ai"
  BY SoundFacts
<1>2. /\ Len(ns) \in Nat /\ DOMAIN ns = 1..Len(ns)
      /\ \A i \in 1..Len(ns) : /\ ns[i] \in Messages /\ ns[i].calls \in Seq(Call)
                               /\ DOMAIN ns[i].calls = 1..Len(ns[i].calls)
                               /\ Len(ns[i].calls) \in Nat
                               /\ ns[i].calls # << >> => 1 \in 1..Len(ns[i].calls)
  <2>1. \A i \in 1..Len(ns) : ns[i] \in Messages
    OBVIOUS
  <2>2. \A i \in 1..Len(ns) : ns[i].calls \in Seq(Call)
    BY <2>1, MessageFacts
  <2>. QED
    BY <2>1, <2>2
<1>3. /\ \A i \in 1..Len(ns) : h[i] \in 1..Len(ms)
      /\ \A i, j \in 1..Len(ns) : i < j <=> h[i] < h[j]
      /\ \A i \in 1..Len(ns) :
           /\ ns[i].type = ms[h[i]].type /\ ns[i].id = ms[h[i]].id
           /\ \A k \in 1..Len(ns[i].calls) : \E m \in 1..Len(ms[h[i]].calls) :
                ns[i].calls[k] = ms[h[i]].calls[m]
  BY DEF Thins
<1>4. \A i, j \in 1..Len(ns) : h[i] = h[j] => i = j
  <2>1. \A i, j \in 1..Len(ns) : i < j => h[i] < h[j]
    BY <1>3
  <2>2. \A i \in 1..Len(ns) : h[i] \in Int
    BY <1>1, <1>3
  <2>. SUFFICES ASSUME NEW i \in 1..Len(ns), NEW j \in 1..Len(ns), h[i] = h[j]
                PROVE  i = j
    OBVIOUS
  <2>3. h[i] \in Int /\ ~(h[i] < h[j]) /\ ~(h[j] < h[i])
    BY <2>2
  <2>4. ~(i < j) /\ ~(j < i)
    BY <2>1, <2>3
  <2>. QED
    BY <2>4, <1>2
<1>5. WellFormed(ns)
  <2>1. ASSUME NEW i \in 1..Len(ns), ns[i].calls # << >>
        PROVE ns[i].type = "ai"
    <3>1. PICK m \in 1..Len(ms[h[i]].calls) : ns[i].calls[1] = ms[h[i]].calls[m]
      BY <2>1, <1>2, <1>3
    <3>2. ms[h[i]].calls # << >>
      BY <3>1, <1>1, <1>3
    <3>. QED
      BY <3>2, <1>1, <1>3
  <2>. QED
    BY <2>1, <1>2 DEF WellFormed
<1>6. ASSUME NEW i \in 1..Len(ns), NEW k \in 1..Len(ns[i].calls)
      PROVE ns[i].calls[k].id <= n
  <2>1. PICK m \in 1..Len(ms[h[i]].calls) : ns[i].calls[k] = ms[h[i]].calls[m]
    BY <1>3
  <2>2. h[i] \in 1..Len(ms)
    BY <1>3
  <2>. QED
    BY <2>1, <2>2, SoundCalls
<1>7. ASSUME NEW i \in 1..Len(ns), NEW j \in 1..Len(ns),
             NEW k \in 1..Len(ns[i].calls), NEW l \in 1..Len(ns[j].calls),
             ns[i].calls[k].id = ns[j].calls[l].id
      PROVE  i = j /\ k = l
  <2>1. PICK p \in 1..Len(ms[h[i]].calls) : ns[i].calls[k] = ms[h[i]].calls[p]
    BY <1>3
  <2>2. PICK q \in 1..Len(ms[h[j]].calls) : ns[j].calls[l] = ms[h[j]].calls[q]
    BY <1>3
  <2>3. h[i] \in 1..Len(ms) /\ h[j] \in 1..Len(ms)
    BY <1>3
  <2>4. ms[h[i]].calls[p].id = ms[h[j]].calls[q].id
    BY <1>7, <2>1, <2>2
  <2>5. h[i] = h[j]
    BY <2>3, <2>4, IdsApart
  <2>6. i = j
    BY <2>5, <1>4
  <2>. QED
    BY <1>7, <2>6 DEF Thins
<1>8. ASSUME NEW j \in 1..Len(ns), ns[j].type = "tool"
      PROVE  /\ \E a \in 1..Len(ns) : Follows(ns, j, a)
             /\ \A i \in 1..Len(ns) : ns[i].type = "tool" /\ ns[i].id = ns[j].id => i = j
  <2>1. PICK b \in 1..Len(ns) :
          /\ b < j /\ \A k \in (h[b] + 1)..h[j] : ms[k].type = "tool"
          /\ \E m \in 1..Len(ns[b].calls) : ns[b].calls[m].id = ns[j].id
    BY <1>8 DEF Thins
  <2>2. ASSUME NEW k \in (b + 1)..j PROVE ns[k].type = "tool"
    <3>1. k \in 1..Len(ns) /\ b < k /\ (k < j \/ k = j)
      BY <1>2
    <3>2. h[b] < h[k] /\ (h[k] < h[j] \/ h[k] = h[j])
      BY <3>1, <1>3
    <3>3. h[k] \in Nat /\ h[b] \in Nat /\ h[j] \in Nat
      BY <3>1, <1>3
    <3>5. \A x, y, z \in Nat : x < y /\ (y < z \/ y = z) => y \in (x + 1)..z
      OBVIOUS
    <3>4. h[k] \in (h[b] + 1)..h[j]
      BY <3>2, <3>3, <3>5
    <3>. QED
      BY <3>1, <3>4, <2>1, <1>3
  <2>3. Follows(ns, j, b)
    BY <2>1, <2>2, <1>2 DEF Follows
  <2>4. ASSUME NEW i \in 1..Len(ns), ns[i].type = "tool", ns[i].id = ns[j].id
        PROVE i = j
    <3>1. /\ h[i] \in 1..Len(ms) /\ h[j] \in 1..Len(ms)
          /\ ms[h[i]].type = "tool" /\ ms[h[j]].type = "tool"
      BY <2>4, <1>3, <1>8
    <3>2. ms[h[i]].id = ms[h[j]].id
      BY <2>4, <1>3
    <3>3. h[i] = h[j]
      BY <3>1, <3>2, SoundCalls
    <3>. QED
      BY <3>3, <1>4
  <2>. QED
    BY <2>3, <2>4
<1>9. \A i \in 1..Len(ns) : ns[i].calls # << >> => ns[i].type = "ai"
  BY <1>2, <1>5 DEF WellFormed
<1>. QED
  BY <1>6, <1>7, <1>8, <1>9, SoundFrom

(* Two sound sequences, one behind the other.                              *)
LEMMA SoundJoined ==
  ASSUME NEW n, NEW ps, NEW qs, Sound(ps, n), Sound(qs, n),
         \A i \in DOMAIN ps, j \in DOMAIN qs : \A k \in DOMAIN ps[i].calls, l \in DOMAIN qs[j].calls :
           ps[i].calls[k].id # qs[j].calls[l].id
  PROVE  Sound(ps \o qs, n)
<1>. DEFINE ns == ps \o qs
            P == Len(ps)
            Q == Len(qs)
<1>1. /\ ps \in Seq(Messages) /\ P \in Nat /\ DOMAIN ps = 1..P
      /\ qs \in Seq(Messages) /\ Q \in Nat /\ DOMAIN qs = 1..Q
  BY SoundFacts
<1>2. ns \in Seq(Messages) /\ Len(ns) = P + Q /\ DOMAIN ns = 1..(P + Q)
  BY <1>1
<1>3. /\ \A i \in 1..P : ns[i] = ps[i]
      /\ \A i \in 1..Q : ns[P + i] = qs[i]
  BY <1>1
<1>4. \A i \in 1..(P + Q) : i \in 1..P \/ \E k \in 1..Q : i = P + k
  <2>1. \A i \in 1..(P + Q) : i \notin 1..P => i - P \in 1..Q /\ i = P + (i - P)
    BY <1>1
  <2>. QED
    BY <2>1
<1>5. \A i \in 1..P : i \in DOMAIN ns
  BY <1>1, <1>2
<1>6. \A i \in 1..Q : P + i \in DOMAIN ns
  BY <1>1, <1>2
<1>. HIDE DEF ns, P, Q
<1>14. /\ \A i \in 1..P : DOMAIN ps[i].calls = 1..Len(ps[i].calls)
       /\ \A i \in 1..Q : DOMAIN qs[i].calls = 1..Len(qs[i].calls)
  BY SoundFacts DEF P, Q
<1>15. \A i \in 1..P : ps[i].calls # << >> => ps[i].type = "ai"
  BY SoundFacts DEF P
<1>16. \A i \in 1..Q : qs[i].calls # << >> => qs[i].type = "ai"
  BY SoundFacts DEF Q
<1>7. ASSUME NEW i \in 1..(P + Q), ns[i].calls # << >> PROVE ns[i].type = "ai"
  <2>1. CASE i \in 1..P
    BY <2>1, <1>3, <1>7, <1>15
  <2>2. CASE \E k \in 1..Q : i = P + k
    <3>1. PICK k \in 1..Q : i = P + k
      BY <2>2
    <3>2. ns[i] = qs[k]
      BY <3>1, <1>3
    <3>. QED
      BY <3>2, <1>7, <1>16
  <2>. QED
    BY <1>4, <2>1, <2>2
<1>8. ASSUME NEW i \in 1..(P + Q), NEW k \in 1..Len(ns[i].calls)
      PROVE ns[i].calls[k].id <= n
  <2>1. CASE i \in 1..P
    <3>1. ns[i] = ps[i] /\ i \in 1..Len(ps)
      BY <2>1, <1>3 DEF P
    <3>. QED
      BY <3>1, SoundCalls
  <2>2. CASE \E q \in 1..Q : i = P + q
    <3>1. PICK q \in 1..Q : i = P + q
      BY <2>2
    <3>2. ns[i] = qs[q] /\ q \in 1..Len(qs)
      BY <3>1, <1>3 DEF Q
    <3>. QED
      BY <3>2, SoundCalls
  <2>. QED
    BY <1>4, <2>1, <2>2
<1>17. ASSUME NEW i \in 1..P, NEW j \in 1..Q,
              NEW k \in 1..Len(ps[i].calls), NEW l \in 1..Len(qs[j].calls)
       PROVE  ps[i].calls[k].id # qs[j].calls[l].id
  <2>1. i \in DOMAIN ps /\ j \in DOMAIN qs /\ k \in DOMAIN ps[i].calls /\ l \in DOMAIN qs[j].calls
    BY <1>1, <1>14
  <2>. QED
    BY <2>1
<1>9. ASSUME NEW i \in 1..(P + Q), NEW j \in 1..(P + Q),
             NEW k \in 1..Len(ns[i].calls), NEW l \in 1..Len(ns[j].calls),
             ns[i].calls[k].id = ns[j].calls[l].id
      PROVE  i = j /\ k = l
  <2>1. CASE i \in 1..P /\ j \in 1..P
    <3>1. ns[i] = ps[i] /\ ns[j] = ps[j]
      BY <2>1, <1>3
    <3>2. i \in 1..Len(ps) /\ j \in 1..Len(ps)
      BY <2>1 DEF P
    <3>3. /\ k \in 1..Len(ps[i].calls) /\ l \in 1..Len(ps[j].calls)
          /\ ps[i].calls[k].id = ps[j].calls[l].id
      BY <3>1, <1>9
    <3>. QED
      BY <3>2, <3>3, IdsApart
  <2>2. CASE i \in 1..P /\ \E q \in 1..Q : j = P + q
    <3>1. PICK q \in 1..Q : j = P + q
      BY <2>2
    <3>2. ns[i] = ps[i] /\ ns[j] = qs[q]
      BY <2>2, <3>1, <1>3
    <3>. QED
      BY <2>2, <3>2, <1>9, <1>17
  <2>3. CASE j \in 1..P /\ \E q \in 1..Q : i = P + q
    <3>1. PICK q \in 1..Q : i = P + q
      BY <2>3
    <3>2. ns[j] = ps[j] /\ ns[i] = qs[q]
      BY <2>3, <3>1, <1>3
    <3>3. ps[j].calls[l].id # qs[q].calls[k].id
      <4>1. k \in 1..Len(qs[q].calls) /\ l \in 1..Len(ps[j].calls)
        BY <3>2
      <4>. QED
        BY <4>1, <2>3, <1>17
    <3>. QED
      BY <3>2, <3>3, <1>9
  <2>4. CASE (\E p \in 1..Q : i = P + p) /\ (\E q \in 1..Q : j = P + q)
    <3>1. PICK p \in 1..Q : i = P + p
      BY <2>4
    <3>4. PICK q \in 1..Q : j = P + q
      BY <2>4
    <3>2. ns[i] = qs[p] /\ ns[j] = qs[q]
      BY <3>1, <3>4, <1>3
    <3>5. p \in 1..Len(qs) /\ q \in 1..Len(qs)
      BY DEF Q
    <3>6. /\ k \in 1..Len(qs[p].calls) /\ l \in 1..Len(qs[q].calls)
          /\ qs[p].calls[k].id = qs[q].calls[l].id
      BY <3>2, <1>9
    <3>3. p = q /\ k = l
      BY <3>5, <3>6, IdsApart
    <3>. QED
      BY <3>1, <3>3, <3>4
  <2>. QED
    BY <1>4, <2>1, <2>2, <2>3, <2>4
<1>10. ASSUME NEW j \in 1..P, ns[j].type = "tool"
       PROVE  j \in OfType(ps, "tool") /\ \E a \in 1..P : Follows(ps, j, a) /\ Follows(ns, j, a)
  <2>1. j \in OfType(ps, "tool")
    BY <1>1, <1>3, <1>10 DEF OfType
  <2>2. PICK a \in 1..P : Follows(ps, j, a)
    BY <2>1, <1>1 DEF Sound, ResultsFollow
  <2>3. \A k \in a..j : ns[k] = ps[k]
    BY <1>1, <1>3
  <2>4. Follows(ns, j, a)
    BY <2>2, <2>3, FollowsBefore
  <2>. QED
    BY <2>1, <2>2, <2>4
<1>11. ASSUME NEW j \in 1..Q, ns[P + j].type = "tool"
       PROVE  j \in OfType(qs, "tool")
              /\ \E a \in 1..Q : Follows(qs, j, a) /\ Follows(ns, P + j, P + a)
  <2>1. j \in OfType(qs, "tool")
    BY <1>1, <1>3, <1>11 DEF OfType
  <2>2. PICK a \in 1..Q : Follows(qs, j, a)
    BY <2>1, <1>1 DEF Sound, ResultsFollow
  <2>3. ASSUME NEW k \in (P + a + 1)..(P + j) PROVE ns[k].type = "tool"
    <3>1. k - P \in (a + 1)..j /\ k - P \in 1..Q /\ k = P + (k - P)
      BY <1>1
    <3>2. ns[k] = qs[k - P]
      BY <3>1, <1>3
    <3>. QED
      BY <3>1, <3>2, <2>2 DEF Follows
  <2>4. P + a < P + j
    BY <2>2, <1>1 DEF Follows
  <2>5. \E m \in DOMAIN ns[P + a].calls : ns[P + a].calls[m].id = ns[P + j].id
    BY <2>2, <1>3 DEF Follows
  <2>6. Follows(ns, P + j, P + a)
    BY <2>3, <2>4, <2>5 DEF Follows
  <2>. QED
    BY <2>1, <2>2, <2>6
<1>12. ASSUME NEW i \in 1..P, NEW j \in 1..Q, ns[i].type = "tool", ns[P + j].type = "tool"
       PROVE  ns[i].id # ns[P + j].id
  <2>1. PICK a \in 1..P : Follows(ps, i, a)
    BY <1>10, <1>12
  <2>2. PICK b \in 1..Q : Follows(qs, j, b)
    BY <1>11, <1>12
  <2>3. PICK k \in DOMAIN ps[a].calls : ps[a].calls[k].id = ps[i].id
    BY <2>1 DEF Follows
  <2>4. PICK l \in DOMAIN qs[b].calls : qs[b].calls[l].id = qs[j].id
    BY <2>2 DEF Follows
  <2>5. ps[a].calls[k].id # qs[b].calls[l].id
    BY <1>1
  <2>. QED
    BY <2>3, <2>4, <2>5, <1>3
<1>13. ASSUME NEW j \in 1..(P + Q), ns[j].type = "tool"
       PROVE  /\ \E a \in 1..(P + Q) : Follows(ns, j, a)
              /\ \A i \in 1..(P + Q) : ns[i].type = "tool" /\ ns[i].id = ns[j].id => i = j
  <2>1. CASE j \in 1..P
    <3>1. \E a \in 1..(P + Q) : Follows(ns, j, a)
      BY <2>1, <1>2, <1>5, <1>10, <1>13
    <3>2. ASSUME NEW i \in 1..(P + Q), ns[i].type = "tool", ns[i].id = ns[j].id
          PROVE i = j
      <4>1. i \in 1..P
        BY <2>1, <3>2, <1>4, <1>12, <1>13
      <4>2. i \in OfType(ps, "tool") /\ j \in OfType(ps, "tool")
        BY <2>1, <3>2, <4>1, <1>10, <1>13
      <4>. QED
        BY <2>1, <3>2, <4>1, <4>2, <1>3 DEF Sound, ResultsFollow
    <3>. QED
      BY <3>1, <3>2
  <2>2. CASE \E q \in 1..Q : j = P + q
    <3>0. PICK q \in 1..Q : j = P + q
      BY <2>2
    <3>1. \E a \in 1..(P + Q) : Follows(ns, j, a)
      BY <3>0, <1>2, <1>6, <1>11, <1>13
    <3>2. ASSUME NEW i \in 1..(P + Q), ns[i].type = "tool", ns[i].id = ns[j].id
          PROVE i = j
      <4>1. PICK p \in 1..Q : i = P + p
        BY <3>0, <3>2, <1>4, <1>12, <1>13
      <4>2. p \in OfType(qs, "tool") /\ q \in OfType(qs, "tool")
        BY <3>0, <3>2, <4>1, <1>11, <1>13
      <4>3. p = q
        BY <3>0, <3>2, <4>1, <4>2, <1>3 DEF Sound, ResultsFollow
      <4>. QED
        BY <3>0, <4>1, <4>3
    <3>. QED
      BY <3>1, <3>2
  <2>. QED
    BY <1>4, <2>1, <2>2
<1>18. Sound(ns, n)
  BY <1>2, <1>7, <1>8, <1>9, <1>13, SoundFrom
<1>. QED
  BY <1>18 DEF ns

(* What is left of the messages from a place on where no result stands.    *)
LEMMA SoundRest ==
  ASSUME NEW n, NEW ms, Sound(ms, n), NEW c \in 0..(Len(ms) - 1),
    ms[c + 1].type # "tool"
  PROVE  Sound(SubSeq(ms, c + 1, Len(ms)), n)
<1>. DEFINE ns == SubSeq(ms, c + 1, Len(ms))
            h == [i \in 1..(Len(ms) - c) |-> c + i]
<1>1. ms \in Seq(Messages) /\ Len(ms) \in Nat /\ DOMAIN ms = 1..Len(ms)
  BY SoundFacts
<1>2. ns \in Seq(Messages) /\ Len(ns) = Len(ms) - c /\ \A i \in 1..Len(ns) : ns[i] = ms[c + i]
  BY <1>1
<1>3. h \in [1..Len(ns) -> 1..Len(ms)] /\ \A i \in 1..Len(ns) : h[i] = c + i
  BY <1>1, <1>2
<1>. HIDE DEF ns, h
<1>4. \A i, j \in 1..Len(ns) : i < j <=> h[i] < h[j]
  BY <1>1, <1>2, <1>3
<1>5. \A i \in 1..Len(ns) : c + i \in 1..Len(ms)
  BY <1>1, <1>2
<1>6. ASSUME NEW i \in 1..Len(ns)
      PROVE  /\ ns[i].type = ms[h[i]].type /\ ns[i].id = ms[h[i]].id
             /\ \A k \in 1..Len(ns[i].calls) : \E m \in 1..Len(ms[h[i]].calls) :
                  ns[i].calls[k] = ms[h[i]].calls[m]
             /\ \A k, l \in 1..Len(ns[i].calls) : ns[i].calls[k].id = ns[i].calls[l].id => k = l
  <2>1. ns[i] = ms[h[i]] /\ h[i] \in 1..Len(ms)
    BY <1>2, <1>3, <1>5
  <2>2. \A k, l \in 1..Len(ms[h[i]].calls) : ms[h[i]].calls[k].id = ms[h[i]].calls[l].id => k = l
    BY <2>1, OwnCallsApart
  <2>. QED
    BY <2>1, <2>2
<1>7. ASSUME NEW j \in 1..Len(ns), ns[j].type = "tool"
      PROVE  \E b \in 1..Len(ns) :
               /\ b < j /\ \A k \in (h[b] + 1)..h[j] : ms[k].type = "tool"
               /\ \E m \in 1..Len(ns[b].calls) : ns[b].calls[m].id = ns[j].id
  <2>1. c + j \in OfType(ms, "tool")
    BY <1>1, <1>2, <1>5, <1>7 DEF OfType
  <2>2. PICK a \in 1..Len(ms) : Follows(ms, c + j, a)
    BY <2>1, <1>1 DEF Sound, ResultsFollow
  <2>3. a > c
    <3>1. a <= c => c + 1 \in (a + 1)..(c + j)
      BY <1>1, <1>2
    <3>. QED
      BY <3>1, <2>2, <1>1 DEF Follows
  <2>4. a - c \in 1..Len(ns) /\ a - c < j /\ a = c + (a - c)
    BY <2>2, <2>3, <1>1, <1>2 DEF Follows
  <2>5. ns[a - c] = ms[a] /\ h[a - c] = a /\ h[j] = c + j /\ ns[j] = ms[c + j]
    BY <2>4, <1>2, <1>3
  <2>6. DOMAIN ms[a].calls = 1..Len(ms[a].calls)
    BY SoundFacts
  <2>. QED
    BY <2>2, <2>4, <2>5, <2>6 DEF Follows
<1>8. Thins(ns, ms, h)
  BY <1>3, <1>4, <1>6, <1>7 DEF Thins
<1>9. Sound(ns, n)
  BY <1>2, <1>8, SoundThinned
<1>. QED
  BY <1>9 DEF ns

(* The beginning of a sound history is sound.                              *)
LEMMA SoundStart ==
  ASSUME NEW n, NEW ms, Sound(ms, n), NEW c \in 0..Len(ms)
  PROVE  /\ Sound(SubSeq(ms, 1, c), n) /\ Len(SubSeq(ms, 1, c)) = c
         /\ \A i \in 1..c : SubSeq(ms, 1, c)[i] = ms[i]
<1>. DEFINE ns == SubSeq(ms, 1, c)
            h == [i \in 1..c |-> i]
<1>1. ms \in Seq(Messages) /\ Len(ms) \in Nat /\ DOMAIN ms = 1..Len(ms)
  BY SoundFacts
<1>2. ns \in Seq(Messages) /\ Len(ns) = c /\ \A i \in 1..Len(ns) : ns[i] = ms[i]
  BY <1>1
<1>3. h \in [1..Len(ns) -> 1..Len(ms)] /\ \A i \in 1..Len(ns) : h[i] = i
  BY <1>1, <1>2
<1>. HIDE DEF ns, h
<1>4. \A i, j \in 1..Len(ns) : i < j <=> h[i] < h[j]
  BY <1>3
<1>5. \A i \in 1..Len(ns) : i \in 1..Len(ms)
  BY <1>1, <1>2
<1>6. ASSUME NEW i \in 1..Len(ns)
      PROVE  /\ ns[i].type = ms[h[i]].type /\ ns[i].id = ms[h[i]].id
             /\ \A k \in 1..Len(ns[i].calls) : \E m \in 1..Len(ms[h[i]].calls) :
                  ns[i].calls[k] = ms[h[i]].calls[m]
             /\ \A k, l \in 1..Len(ns[i].calls) : ns[i].calls[k].id = ns[i].calls[l].id => k = l
  <2>1. ns[i] = ms[h[i]] /\ h[i] \in 1..Len(ms)
    BY <1>2, <1>3, <1>5
  <2>2. \A k, l \in 1..Len(ms[h[i]].calls) : ms[h[i]].calls[k].id = ms[h[i]].calls[l].id => k = l
    BY <2>1, OwnCallsApart
  <2>. QED
    BY <2>1, <2>2
<1>7. ASSUME NEW j \in 1..Len(ns), ns[j].type = "tool"
      PROVE  \E b \in 1..Len(ns) :
               /\ b < j /\ \A k \in (h[b] + 1)..h[j] : ms[k].type = "tool"
               /\ \E m \in 1..Len(ns[b].calls) : ns[b].calls[m].id = ns[j].id
  <2>1. j \in OfType(ms, "tool")
    BY <1>1, <1>2, <1>5, <1>7 DEF OfType
  <2>2. PICK a \in 1..Len(ms) : Follows(ms, j, a)
    BY <2>1, <1>1 DEF Sound, ResultsFollow
  <2>3. a \in 1..Len(ns) /\ a < j
    BY <2>2, <1>1, <1>2 DEF Follows
  <2>4. ns[a] = ms[a] /\ h[a] = a /\ h[j] = j /\ ns[j] = ms[j]
    BY <2>3, <1>2, <1>3
  <2>5. DOMAIN ms[a].calls = 1..Len(ms[a].calls)
    BY SoundFacts
  <2>. QED
    BY <2>2, <2>3, <2>4, <2>5 DEF Follows
<1>8. Thins(ns, ms, h)
  BY <1>3, <1>4, <1>6, <1>7 DEF Thins
<1>9. Sound(ns, n)
  BY <1>2, <1>8, SoundThinned
<1>. QED
  BY <1>2, <1>9 DEF ns

(* The rescued answers keep the calls whose results are rescued with them. *)
KeepsReads(ms, i) ==
  /\ SkillReads(ms, i) \in Seq(Call)
  /\ \A k \in 1..Len(SkillReads(ms, i)) : \E m \in 1..Len(ms[i].calls) :
       SkillReads(ms, i)[k] = ms[i].calls[m]
  /\ \A m \in 1..Len(ms[i].calls) : (\E j \in SkillResults(ms, i) : ms[j].id = ms[i].calls[m].id) =>
       \E k \in 1..Len(SkillReads(ms, i)) : SkillReads(ms, i)[k] = ms[i].calls[m]
  /\ \A k, l \in 1..Len(SkillReads(ms, i)) :
       SkillReads(ms, i)[k].id = SkillReads(ms, i)[l].id => k = l
CallsFrom(ns, ms) ==
  \A x \in 1..Len(ns) : \A k \in 1..Len(ns[x].calls) :
    \E i \in 1..Len(ms) : \E m \in 1..Len(ms[i].calls) : ns[x].calls[k] = ms[i].calls[m]

(* What is rescued of a sound history is sound, and has no calls of its own. *)
LEMMA SoundRescued ==
  ASSUME NEW n, NEW ms, Sound(ms, n), NEW S \in Selections(ms)
  PROVE  /\ Sound(Rescued(ms, S), n)
         /\ CallsFrom(Rescued(ms, S), ms)
<1>. DEFINE base == [i \in DOMAIN ms |->
                      IF i \in S THEN [ms[i] EXCEPT !.calls = SkillReads(ms, i)] ELSE ms[i]]
            I == S \cup UNION {SkillResults(ms, i) : i \in S}
            ns == At(base, I)
<1>1. /\ ms \in Seq(Messages) /\ Len(ms) \in Nat /\ DOMAIN ms = 1..Len(ms)
      /\ \A i \in 1..Len(ms) : /\ ms[i] \in Messages /\ ms[i].calls \in Seq(Call)
                               /\ DOMAIN ms[i].calls = 1..Len(ms[i].calls)
                               /\ Len(ms[i].calls) \in Nat
                               /\ ms[i].calls # << >> => ms[i].type = "ai"
  BY SoundFacts
<1>2. S \subseteq 1..Len(ms) /\ \A i \in S : SkillResults(ms, i) # {}
  BY <1>1 DEF Selections
<1>3. \A i \in 1..Len(ms) : \A j \in SkillResults(ms, i) :
        /\ j \in 1..Len(ms) /\ j > i /\ \A k \in (i + 1)..j : ms[k].type = "tool"
        /\ \E m \in 1..Len(ms[i].calls) : ms[i].calls[m].id = ms[j].id
  <2>. SUFFICES ASSUME NEW i \in 1..Len(ms), NEW j \in SkillResults(ms, i)
                PROVE  /\ j \in 1..Len(ms) /\ j > i /\ \A k \in (i + 1)..j : ms[k].type = "tool"
                       /\ \E m \in 1..Len(ms[i].calls) : ms[i].calls[m].id = ms[j].id
    OBVIOUS
  <2>1. PICK c \in ToSet(ms[i].calls) : c.id = ms[j].id
    BY DEF SkillResults
  <2>2. \E m \in 1..Len(ms[i].calls) : ms[i].calls[m] = c
    BY <1>1 DEF ToSet
  <2>. QED
    BY <2>1, <2>2, <1>1 DEF SkillResults
<1>4. \A i \in S : ms[i].type = "ai" /\ i \in 1..Len(ms)
  <2>1. ASSUME NEW i \in S PROVE ms[i].calls # << >> /\ i \in 1..Len(ms)
    <3>1. PICK j \in SkillResults(ms, i) : TRUE
      BY <1>2
    <3>2. PICK m \in 1..Len(ms[i].calls) : ms[i].calls[m].id = ms[j].id
      BY <1>2, <1>3, <3>1
    <3>. QED
      BY <1>1, <1>2, <3>2
  <2>. QED
    BY <2>1, <1>1
<1>5. \A i \in 1..Len(ms) : KeepsReads(ms, i)
  <2>. TAKE i \in 1..Len(ms)
  <2>. DEFINE cs == ms[i].calls
              reads == {m \in 1..Len(cs) : \E j \in SkillResults(ms, i) : ms[j].id = cs[m].id}
              As == SkillReads(ms, i)
  <2>1. As = At(cs, reads)
    BY <1>1 DEF SkillReads
  <2>2. \A k, l \in 1..Len(cs) : cs[k].id = cs[l].id => k = l
    BY OwnCallsApart
  <2>3. cs \in Seq(Call) /\ reads \subseteq 1..Len(cs)
    BY <1>1
  <2>. HIDE DEF cs, reads, As
  <2>4. /\ At(cs, reads) \in Seq(Call)
        /\ \A k \in 1..Len(At(cs, reads)) : \E m \in reads \cap (1..Len(cs)) :
             At(cs, reads)[k] = cs[m]
        /\ \A m \in reads \cap (1..Len(cs)) : \E k \in 1..Len(At(cs, reads)) :
             At(cs, reads)[k] = cs[m]
        /\ \A k, l \in 1..Len(At(cs, reads)) : At(cs, reads)[k].id = At(cs, reads)[l].id => k = l
    BY <2>2, <2>3, TakenFacts
  <2>5. \A k \in 1..Len(As) : \E m \in 1..Len(cs) : As[k] = cs[m]
    BY <2>1, <2>4
  <2>6. \A m \in 1..Len(cs) : (\E j \in SkillResults(ms, i) : ms[j].id = cs[m].id) => m \in reads
    BY DEF reads
  <2>7. \A m \in 1..Len(cs) : (\E j \in SkillResults(ms, i) : ms[j].id = cs[m].id) =>
          \E k \in 1..Len(As) : As[k] = cs[m]
    <3>. TAKE m \in 1..Len(cs)
    <3>. HAVE \E j \in SkillResults(ms, i) : ms[j].id = cs[m].id
    <3>1. m \in reads \cap (1..Len(cs))
      BY <2>6
    <3>. QED
      BY <3>1, <2>1, <2>4
  <2>8. As \in Seq(Call) /\ \A k, l \in 1..Len(As) : As[k].id = As[l].id => k = l
    BY <2>1, <2>4
  <2>. QED
    BY <2>5, <2>7, <2>8 DEF KeepsReads, cs, As
<1>6. base \in Seq(Messages) /\ Len(base) = Len(ms)
  <2>1. \A i \in 1..Len(ms) : base[i] \in Messages
    <3>1. \A i \in 1..Len(ms) : [ms[i] EXCEPT !.calls = SkillReads(ms, i)] \in Messages
      <4>. TAKE i \in 1..Len(ms)
      <4>1. ms[i] \in Messages /\ SkillReads(ms, i) \in Seq(Call)
        BY <1>1, <1>5 DEF KeepsReads
      <4>2. \A m \in Messages, cs \in Seq(Call) : [m EXCEPT !.calls = cs] \in Messages
        BY DEF Messages
      <4>. QED
        BY <4>1, <4>2
    <3>. QED
      BY <3>1, <1>1
  <2>. QED
    BY <2>1, <1>1
<1>7. \A i \in 1..Len(ms) :
        /\ base[i].type = ms[i].type /\ base[i].id = ms[i].id
        /\ i \in S => base[i].calls = SkillReads(ms, i)
        /\ i \notin S => base[i].calls = ms[i].calls
  <2>1. \A i \in 1..Len(ms) : base[i] =
          IF i \in S THEN [ms[i] EXCEPT !.calls = SkillReads(ms, i)] ELSE ms[i]
    BY <1>1
  <2>2. \A i \in 1..Len(ms) :
          LET e == [ms[i] EXCEPT !.calls = SkillReads(ms, i)]
          IN  e.type = ms[i].type /\ e.id = ms[i].id /\ e.calls = SkillReads(ms, i)
    BY <1>1 DEF Messages
  <2>. QED
    BY <2>1, <2>2
<1>8. ns = Rescued(ms, S)
  BY DEF Rescued
<1>. HIDE DEF base, I
<1>9. ns \in Seq(Messages) /\ \E h : Picks(base, I, h)
  BY <1>6, AtFacts
<1>10. PICK h : Picks(base, I, h)
  BY <1>9
<1>11. /\ h \in [1..Len(ns) -> I \cap (1..Len(ms))]
       /\ \A k \in 1..Len(ns) : ns[k] = base[h[k]]
       /\ \A k, l \in 1..Len(ns) : k < l <=> h[k] < h[l]
       /\ \A i \in I \cap (1..Len(ms)) : \E k \in 1..Len(ns) : h[k] = i
  BY <1>6, <1>10 DEF Picks
<1>12. Len(ns) \in Nat /\ DOMAIN ns = 1..Len(ns)
  BY <1>9
<1>. HIDE DEF ns
<1>13. h \in [1..Len(ns) -> 1..Len(ms)] /\ \A x \in 1..Len(ns) : h[x] \in I /\ h[x] \in 1..Len(ms)
  BY <1>11
<1>14. \A x \in 1..Len(ns) :
        /\ ns[x].type = ms[h[x]].type /\ ns[x].id = ms[h[x]].id
        /\ \A k \in 1..Len(ns[x].calls) : \E m \in 1..Len(ms[h[x]].calls) :
             ns[x].calls[k] = ms[h[x]].calls[m]
        /\ \A k, l \in 1..Len(ns[x].calls) : ns[x].calls[k].id = ns[x].calls[l].id => k = l
  <2>. SUFFICES ASSUME NEW x \in 1..Len(ns)
                PROVE  /\ ns[x].type = ms[h[x]].type /\ ns[x].id = ms[h[x]].id
                       /\ \A k \in 1..Len(ns[x].calls) : \E m \in 1..Len(ms[h[x]].calls) :
                            ns[x].calls[k] = ms[h[x]].calls[m]
                       /\ \A k, l \in 1..Len(ns[x].calls) :
                            ns[x].calls[k].id = ns[x].calls[l].id => k = l
    OBVIOUS
  <2>1. ns[x] = base[h[x]] /\ h[x] \in 1..Len(ms)
    BY <1>11, <1>13
  <2>2. CASE h[x] \in S
    <3>1. ns[x].calls = SkillReads(ms, h[x])
      BY <2>1, <2>2, <1>7
    <3>2. KeepsReads(ms, h[x])
      BY <2>1, <1>5
    <3>3. /\ \A k \in 1..Len(ns[x].calls) : \E m \in 1..Len(ms[h[x]].calls) :
               ns[x].calls[k] = ms[h[x]].calls[m]
          /\ \A k, l \in 1..Len(ns[x].calls) : ns[x].calls[k].id = ns[x].calls[l].id => k = l
      BY <3>1, <3>2 DEF KeepsReads
    <3>4. ns[x].type = ms[h[x]].type /\ ns[x].id = ms[h[x]].id
      BY <2>1, <1>7
    <3>. QED
      BY <3>3, <3>4
  <2>3. CASE h[x] \notin S
    <3>1. ns[x].calls = ms[h[x]].calls
      BY <2>1, <2>3, <1>7
    <3>2. \A k, l \in 1..Len(ns[x].calls) : ns[x].calls[k].id = ns[x].calls[l].id => k = l
      BY <3>1, <2>1, OwnCallsApart
    <3>3. ns[x].type = ms[h[x]].type /\ ns[x].id = ms[h[x]].id
      BY <2>1, <1>7
    <3>. QED
      BY <3>1, <3>2, <3>3
  <2>. QED
    BY <2>2, <2>3
<1>15. ASSUME NEW j \in 1..Len(ns), ns[j].type = "tool"
       PROVE  \E b \in 1..Len(ns) :
               /\ b < j /\ \A k \in (h[b] + 1)..h[j] : ms[k].type = "tool"
               /\ \E m \in 1..Len(ns[b].calls) : ns[b].calls[m].id = ns[j].id
  <2>1. ms[h[j]].type = "tool" /\ ns[j].id = ms[h[j]].id
    BY <1>14, <1>15
  <2>2. h[j] \notin S
    BY <2>1, <1>4
  <2>3. PICK a \in S : h[j] \in SkillResults(ms, a)
    BY <2>2, <1>13 DEF I
  <2>4. a \in I \cap (1..Len(ms))
    BY <1>4 DEF I
  <2>5. PICK b \in 1..Len(ns) : h[b] = a
    BY <2>4, <1>11
  <2>6. h[b] < h[j] /\ \A k \in (h[b] + 1)..h[j] : ms[k].type = "tool"
    BY <2>3, <2>5, <1>3, <1>4
  <2>7. b < j
    BY <2>6, <1>11
  <2>11. a \in 1..Len(ms)
    BY <1>4
  <2>8. PICK m \in 1..Len(ms[a].calls) : ms[a].calls[m].id = ms[h[j]].id
    BY <2>3, <2>11, <1>3, Zenon
  <2>9. \E k \in 1..Len(SkillReads(ms, a)) : SkillReads(ms, a)[k] = ms[a].calls[m]
    <3>1. KeepsReads(ms, a)
      BY <2>11, <1>5
    <3>2. \E i \in SkillResults(ms, a) : ms[i].id = ms[a].calls[m].id
      BY <2>3, <2>8
    <3>. QED
      BY <3>1, <3>2 DEF KeepsReads
  <2>10. ns[b].calls = SkillReads(ms, a)
    BY <2>5, <1>4, <1>7, <1>11
  <2>. QED
    BY <2>1, <2>6, <2>7, <2>8, <2>9, <2>10
<1>16. Thins(ns, ms, h)
  BY <1>11, <1>13, <1>14, <1>15 DEF Thins
<1>17. Sound(ns, n)
  BY <1>9, <1>16, SoundThinned
<1>18. CallsFrom(ns, ms)
  <2>. SUFFICES ASSUME NEW x \in 1..Len(ns), NEW k \in 1..Len(ns[x].calls)
                PROVE  \E i \in 1..Len(ms) : \E m \in 1..Len(ms[i].calls) :
                         ns[x].calls[k] = ms[i].calls[m]
    BY DEF CallsFrom
  <2>1. h[x] \in 1..Len(ms)
    BY <1>13
  <2>2. \E m \in 1..Len(ms[h[x]].calls) : ns[x].calls[k] = ms[h[x]].calls[m]
    BY <1>14
  <2>. QED
    BY <2>1, <2>2, Zenon
<1>. QED
  BY <1>8, <1>17, <1>18

(* The places in two sequences joined.                                     *)
LEMMA BothSides ==
  ASSUME NEW N \in Nat, NEW d \in 1..(N - 1), NEW x \in 1..d,
    NEW y \in 1..(N - d)
  PROVE  x \in 1..N /\ d + y \in 1..N /\ x # d + y
<1>1. x \in 1..N
  OBVIOUS
<1>2. d + y \in 1..N
  OBVIOUS
<1>3. x # d + y
  OBVIOUS
<1>. QED
  BY <1>1, <1>2, <1>3

(* What a summarization leaves.                                            *)
LEMMA SoundSummarized ==
  ASSUME NEW n \in Nat, NEW ms, Sound(ms, n), NEW c \in 1..(Len(ms) - 1),
         ms[c + 1].type # "tool", NEW S \in Selections(SubSeq(ms, 1, c))
  PROVE  Sound(<<Note("summary")>> \o Rescued(SubSeq(ms, 1, c), S)
               \o SubSeq(ms, c + 1, Len(ms)), n)
<1>. DEFINE ps == SubSeq(ms, 1, c)
            rs == Rescued(ps, S)
            qs == SubSeq(ms, c + 1, Len(ms))
            note == <<Note("summary")>>
<1>1. ms \in Seq(Messages) /\ Len(ms) \in Nat /\ DOMAIN ms = 1..Len(ms)
  BY SoundFacts
<1>2. Sound(ps, n) /\ Len(ps) = c /\ \A i \in 1..c : ps[i] = ms[i]
  BY <1>1, SoundStart
<1>3. Sound(rs, n) /\ CallsFrom(rs, ps)
  <2>1. Sound(ps, n) /\ S \in Selections(ps)
    BY <1>2
  <2>. HIDE DEF ps
  <2>. QED
    BY <2>1, SoundRescued
<1>4. Sound(qs, n) /\ Len(qs) = Len(ms) - c /\ \A j \in 1..(Len(ms) - c) : qs[j] = ms[c + j]
  BY <1>1, SoundRest
<1>5. Sound(note, n)
  <2>1. Note("summary") \in Messages /\ Note("summary").type = "summary"
        /\ Note("summary").calls = << >>
    BY MessageFacts DEF Note, Message, Types
  <2>2. note \in Seq(Messages) /\ DOMAIN note = {1} /\ note[1] = Note("summary")
    BY <2>1
  <2>. QED
    BY <2>1, <2>2 DEF Sound, WellFormed, CallsApart, ResultsFollow, OfType
<1>. HIDE DEF note, ps, rs, qs
<1>6. Sound(note \o rs, n) /\ CallsFrom(note \o rs, ps)
  <2>1. note = <<Note("summary")>> /\ Note("summary").calls = << >>
    BY DEF note, Note, Message
  <2>2. DOMAIN note = {1} /\ note[1].calls = << >> /\ DOMAIN note[1].calls = {}
    BY <2>1
  <2>3. Sound(note \o rs, n)
    <3>1. \A i \in DOMAIN note, j \in DOMAIN rs :
            \A k \in DOMAIN note[i].calls, l \in DOMAIN rs[j].calls :
              note[i].calls[k].id # rs[j].calls[l].id
      BY <2>2
    <3>. QED
      BY <3>1, <1>3, <1>5, SoundJoined
  <2>4. rs \in Seq(Messages) /\ DOMAIN rs = 1..Len(rs) /\ Len(rs) \in Nat
    BY <1>3, SoundFacts
  <2>5. /\ Len(note \o rs) = 1 + Len(rs) /\ (note \o rs)[1] = note[1]
        /\ \A x \in 2..(1 + Len(rs)) : (note \o rs)[x] = rs[x - 1] /\ x - 1 \in 1..Len(rs)
    BY <2>1, <2>4
  <2>6. ASSUME NEW x \in 1..Len(note \o rs), NEW k \in 1..Len((note \o rs)[x].calls)
        PROVE  \E i \in 1..Len(ps) : \E m \in 1..Len(ps[i].calls) :
                 (note \o rs)[x].calls[k] = ps[i].calls[m]
    <3>1. x # 1
      BY <2>2, <2>5, <2>6
    <3>2. (note \o rs)[x] = rs[x - 1] /\ x - 1 \in 1..Len(rs)
      BY <3>1, <2>4, <2>5
    <3>3. PICK y \in 1..Len(rs) : y = x - 1
      BY <3>2
    <3>4. k \in 1..Len(rs[y].calls) /\ (note \o rs)[x] = rs[y]
      BY <3>2, <3>3, <2>6
    <3>5. \E i \in 1..Len(ps) : \E m \in 1..Len(ps[i].calls) : rs[y].calls[k] = ps[i].calls[m]
      BY <3>4, <1>3 DEF CallsFrom
    <3>. QED
      BY <3>4, <3>5
  <2>7. CallsFrom(note \o rs, ps)
    BY <2>6, Zenon DEF CallsFrom
  <2>. QED
    BY <2>3, <2>7
<1>10. note \o rs \in Seq(Messages) /\ qs \in Seq(Messages)
  BY <1>4, <1>6, SoundFacts
<1>7. ASSUME NEW i \in DOMAIN (note \o rs), NEW j \in DOMAIN qs,
             NEW k \in DOMAIN (note \o rs)[i].calls, NEW l \in DOMAIN qs[j].calls
      PROVE  (note \o rs)[i].calls[k].id # qs[j].calls[l].id
  <2>0. /\ i \in 1..Len(note \o rs) /\ j \in 1..Len(qs)
        /\ k \in 1..Len((note \o rs)[i].calls) /\ l \in 1..Len(qs[j].calls)
    <3>0. \A s \in Seq(Messages) : DOMAIN s = 1..Len(s)
      OBVIOUS
    <3>1. i \in 1..Len(note \o rs) /\ j \in 1..Len(qs)
      BY <3>0, <1>10, Zenon
    <3>2. DOMAIN (note \o rs)[i].calls = 1..Len((note \o rs)[i].calls)
      BY <3>1, <1>6, SoundFacts
    <3>3. DOMAIN qs[j].calls = 1..Len(qs[j].calls)
      BY <3>1, <1>4, SoundFacts
    <3>. QED
      BY <3>1, <3>2, <3>3
  <2>1. PICK p \in 1..Len(ps) : \E m \in 1..Len(ps[p].calls) :
          (note \o rs)[i].calls[k] = ps[p].calls[m]
    BY <2>0, <1>6 DEF CallsFrom
  <2>2. PICK m \in 1..Len(ps[p].calls) : (note \o rs)[i].calls[k] = ps[p].calls[m]
    BY <2>1
  <2>3. p \in 1..c /\ j \in 1..(Len(ms) - c)
    BY <2>0, <1>2, <1>4
  <2>4. ps[p] = ms[p] /\ qs[j] = ms[c + j]
    BY <2>3, <1>2, <1>4
  <2>5. p \in 1..Len(ms) /\ c + j \in 1..Len(ms) /\ p # c + j
    BY <2>3, <1>1, BothSides
  <2>6. PICK q \in 1..Len(ms) : q = c + j
    BY <2>5
  <2>7. m \in 1..Len(ms[p].calls) /\ l \in 1..Len(ms[q].calls) /\ p # q
    BY <2>0, <2>4, <2>5, <2>6
  <2>8. ms[p].calls[m].id # ms[q].calls[l].id
    BY <2>5, <2>7, IdsApart
  <2>. QED
    BY <2>2, <2>4, <2>6, <2>8
<1>8. Sound((note \o rs) \o qs, n)
  BY <1>4, <1>6, <1>7, SoundJoined
<1>9. <<Note("summary")>> \o Rescued(SubSeq(ms, 1, c), S) \o SubSeq(ms, c + 1, Len(ms))
        = (note \o rs) \o qs
  BY DEF note, rs, qs, ps
<1>. QED
  BY <1>8, <1>9

(* The last answer.                                                        *)
LEMMA LastAnswerIs ==
  ASSUME NEW n, NEW ms, Sound(ms, n), NEW a \in 1..Len(ms), ms[a].type = "ai",
         \A j \in (a + 1)..Len(ms) : ms[j].type = "tool"
  PROVE  (CHOOSE i \in OfType(ms, "ai") : \A j \in OfType(ms, "ai") : j <= i) = a
<1>. DEFINE ais == OfType(ms, "ai")
<1>1. ms \in Seq(Messages) /\ Len(ms) \in Nat /\ DOMAIN ms = 1..Len(ms)
  BY SoundFacts
<1>2. a \in ais /\ \A j \in ais : j <= a
  <2>1. a \in ais
    BY <1>1 DEF OfType
  <2>2. ASSUME NEW j \in ais PROVE j <= a
    <3>1. j \in 1..Len(ms) /\ ms[j].type # "tool"
      BY <1>1 DEF OfType
    <3>2. ~ (j \in (a + 1)..Len(ms))
      BY <3>1
    <3>. QED
      BY <3>1, <3>2, <1>1
  <2>. QED
    BY <2>1, <2>2
<1>3. ais \subseteq Nat
  BY <1>1 DEF OfType
<1>. DEFINE x == CHOOSE i \in ais : \A j \in ais : j <= i
<1>4. x \in ais /\ \A j \in ais : j <= x
  BY <1>2
<1>5. x = a
  BY <1>2, <1>3, <1>4
<1>. QED
  BY <1>5

(* Where messages are cut no result is first.                              *)
LEMMA CutoffFacts ==
  ASSUME NEW n, Sound(messages, n), Cutoff > 0
  PROVE  Cutoff \in 1..(Len(messages) - 1) /\ messages[Cutoff + 1].type # "tool"
<1>. DEFINE safe == {i \in 1..(Len(messages) - Keep) : messages[i + 1].type # "tool"}
<1>1. Len(messages) \in Nat /\ Keep \in Nat \ {0}
  BY SoundFacts, LimitAssumption
<1>2. safe # {}
  BY DEF Cutoff
<1>3. safe \in SUBSET Nat /\ \A i \in safe : i <= Len(messages)
  BY <1>1
<1>4. \E i \in safe : \A j \in safe : j <= i
  <2>. HIDE DEF safe
  <2>. QED
    BY <1>1, <1>2, <1>3, GreatestOf
<1>5. Cutoff \in safe
  <2>1. Cutoff = CHOOSE i \in safe : \A j \in safe : j <= i
    BY <1>2 DEF Cutoff
  <2>. HIDE DEF safe
  <2>. QED
    BY <2>1, <1>4
<1>. QED
  BY <1>1, <1>5

-----------------------------------------------------------------------------
(* The messages, step by step.                                             *)

(* Standing is soundness of the history in the state,                      *)
LEMMA StandingIsSound ==
  /\ TypeOK /\ Standing => Sound(messages, issued)
  /\ Sound(messages, issued) => Standing
BY DEF TypeOK, Standing, Sound, WellFormed

(* and in the next one.                                                    *)
LEMMA StandingIsSoundNext ==
  Sound(messages', issued') => Standing'
BY DEF Standing, Sound

(* Right after the model its answer is last, and none of its calls has a   *)
(* result.                                                                 *)
LEMMA AnswerAtEnd ==
  ASSUME TypeOK, Standing, AnswerLast, node \in {"loop", "limit", "todo"}
  PROVE  /\ Len(messages) \in 1..Len(messages) /\ messages # << >>
         /\ Last(messages) = messages[Len(messages)] /\ Last(messages).type = "ai"
         /\ Last(messages).calls \in Seq(Call)
         /\ \A k, l \in 1..Len(Last(messages).calls) :
              Last(messages).calls[k].id = Last(messages).calls[l].id => k = l
         /\ \A k \in 1..Len(Last(messages).calls) :
              Last(messages).calls[k].id \notin Answered(messages)
         /\ \A k \in (Len(messages) + 1)..Len(messages) : messages[k].type = "tool"
<1>. DEFINE L == Len(messages)
<1>1. Sound(messages, issued)
  BY StandingIsSound
<1>2. /\ messages \in Seq(Messages) /\ L \in Nat /\ DOMAIN messages = 1..L
      /\ \A i \in 1..L : messages[i].calls \in Seq(Call)
                         /\ DOMAIN messages[i].calls = 1..Len(messages[i].calls)
  BY <1>1, SoundFacts
<1>3. L \in 1..L /\ Last(messages) = messages[L] /\ messages # << >> /\ Last(messages).type = "ai"
  BY <1>2 DEF AnswerLast, Last
<1>4. \A k, l \in 1..Len(Last(messages).calls) :
        Last(messages).calls[k].id = Last(messages).calls[l].id => k = l
  BY <1>1, <1>3, OwnCallsApart
<1>5. ASSUME NEW k \in 1..Len(Last(messages).calls),
             Last(messages).calls[k].id \in Answered(messages)
      PROVE  FALSE
  <2>1. PICK j \in OfType(messages, "tool") : messages[j].id = messages[L].calls[k].id
    BY <1>3, <1>5 DEF Answered
  <2>2. PICK a \in 1..L : Follows(messages, j, a)
    BY <1>1, <1>2 DEF Sound, ResultsFollow
  <2>3. PICK m \in 1..Len(messages[a].calls) : messages[a].calls[m].id = messages[j].id
    BY <2>2, <1>2 DEF Follows
  <2>4. k \in 1..Len(messages[L].calls) /\ messages[L].calls[k].id = messages[a].calls[m].id
    BY <2>1, <2>3, <1>3, <1>5
  <2>5. a = L
    BY <2>4, <1>1, <1>3, IdsApart
  <2>6. j \in 1..L /\ a < j
    BY <2>2, <1>2 DEF Follows, OfType
  <2>. QED
    BY <2>5, <2>6, <1>2
<1>6. \A k \in (L + 1)..L : messages[k].type = "tool"
  BY <1>2
<1>. QED
  BY <1>2, <1>3, <1>4, <1>5, <1>6

(* At the tools the last answer is the one whose results are to come.      *)
LEMMA AnswerAtTools ==
  ASSUME TypeOK, Standing, AnswerLast, node = "tools"
  PROVE  /\ LastAnswer.calls \in Seq(Call)
         /\ Pending(messages, LastAnswer.calls) \in Seq(Call)
         /\ \E a \in 1..Len(messages) :
              /\ LastAnswer = messages[a] /\ messages[a].type = "ai"
              /\ \A k \in (a + 1)..Len(messages) : messages[k].type = "tool"
         /\ LET cs == Pending(messages, LastAnswer.calls)
            IN  /\ \A k \in 1..Len(cs) : \E m \in 1..Len(LastAnswer.calls) :
                     cs[k] = LastAnswer.calls[m]
                /\ \A k, l \in 1..Len(cs) : cs[k].id = cs[l].id => k = l
                /\ \A k \in 1..Len(cs) : cs[k].id \notin Answered(messages)
<1>. DEFINE cs == Pending(messages, LastAnswer.calls)
<1>1. Sound(messages, issued)
  BY StandingIsSound
<1>2. /\ DOMAIN messages = 1..Len(messages)
      /\ \A i \in 1..Len(messages) : messages[i].calls \in Seq(Call)
  BY <1>1, SoundFacts
<1>3. PICK a \in 1..Len(messages) :
        /\ messages[a].type = "ai"
        /\ \A k \in (a + 1)..Len(messages) : messages[k].type = "tool"
  BY <1>2 DEF AnswerLast, OfType
<1>4. LastAnswer = messages[a]
  <2>1. (CHOOSE i \in OfType(messages, "ai") : \A j \in OfType(messages, "ai") : j <= i) = a
    BY <1>1, <1>3, LastAnswerIs
  <2>. QED
    BY <2>1, Zenon DEF LastAnswer
<1>5. LastAnswer.calls \in Seq(Call)
  BY <1>2, <1>4
<1>6. /\ cs \in Seq(Call)
      /\ \A k \in 1..Len(cs) : \E m \in Unanswered(messages, LastAnswer.calls) :
           cs[k] = LastAnswer.calls[m]
  BY <1>5, PendingFacts
<1>7. \A k, l \in 1..Len(cs) : cs[k].id = cs[l].id => k = l
  <2>1. \A k, l \in 1..Len(LastAnswer.calls) :
          LastAnswer.calls[k].id = LastAnswer.calls[l].id => k = l
    BY <1>1, <1>4, OwnCallsApart
  <2>2. cs = At(LastAnswer.calls,
                {i \in DOMAIN LastAnswer.calls : LastAnswer.calls[i].id \notin Answered(messages)})
    BY DEF Pending
  <2>. DEFINE As == LastAnswer.calls
              I == {i \in DOMAIN As : As[i].id \notin Answered(messages)}
  <2>3. cs = At(As, I) /\ As \in Seq(Call) /\ \A k, l \in 1..Len(As) : As[k].id = As[l].id => k = l
    BY <2>1, <2>2, <1>5
  <2>. HIDE DEF cs, As, I
  <2>4. \A k, l \in 1..Len(At(As, I)) : At(As, I)[k].id = At(As, I)[l].id => k = l
    BY <2>3, TakenFacts
  <2>. QED
    BY <2>3, <2>4, Zenon
<1>8. /\ \A k \in 1..Len(cs) : \E m \in 1..Len(LastAnswer.calls) : cs[k] = LastAnswer.calls[m]
      /\ \A k \in 1..Len(cs) : cs[k].id \notin Answered(messages)
  BY <1>6 DEF Unanswered
<1>. QED
  BY <1>3, <1>4, <1>5, <1>6, <1>7, <1>8

(* Some of the calls of an answer, and their results.                      *)
TakenFrom(cs, all) ==
  /\ cs \in Seq(Call)
  /\ \A k \in 1..Len(cs) : \E m \in 1..Len(all) : cs[k] = all[m]
  /\ \A k, l \in 1..Len(cs) : cs[k].id = cs[l].id => k = l
Unresolved(cs, ms) == \A k \in 1..Len(cs) : cs[k].id \notin Answered(ms)

(* Some of the calls of an answer are taken from it.                       *)
LEMMA TakenPart ==
  ASSUME NEW all \in Seq(Call), NEW I,
         \A k, l \in 1..Len(all) : all[k].id = all[l].id => k = l
  PROVE  TakenFrom(At(all, I), all)
<1>1. At(all, I) \in Seq(Call)
  BY TakenFacts
<1>2. \A k \in 1..Len(At(all, I)) : \E m \in 1..Len(all) : At(all, I)[k] = all[m]
  <2>1. \A k \in 1..Len(At(all, I)) : \E m \in I \cap (1..Len(all)) : At(all, I)[k] = all[m]
    BY TakenFacts
  <2>. QED
    BY <2>1
<1>3. \A k, l \in 1..Len(At(all, I)) : At(all, I)[k].id = At(all, I)[l].id => k = l
  BY TakenFacts
<1>. QED
  BY <1>1, <1>2, <1>3 DEF TakenFrom

(* Results of calls taken from the last answer may be added.               *)
LEMMA TakenAnswered ==
  ASSUME NEW n, NEW ms, Sound(ms, n), NEW a \in 1..Len(ms),
         \A k \in (a + 1)..Len(ms) : ms[k].type = "tool",
         NEW cs, TakenFrom(cs, ms[a].calls), Unresolved(cs, ms)
  PROVE  Extended(ms, cs, a, n)
<1>1. /\ cs \in Seq(Call)
      /\ \A k \in 1..Len(cs) : \E m \in 1..Len(ms[a].calls) : cs[k] = ms[a].calls[m]
      /\ \A k, l \in 1..Len(cs) : cs[k].id = cs[l].id => k = l
      /\ \A k \in 1..Len(cs) : cs[k].id \notin Answered(ms)
  BY DEF TakenFrom, Unresolved
<1>. QED
  BY <1>1, SoundResults

(* Taking calls from the last answer.                                      *)
LEMMA ReplacedFacts ==
  ASSUME TypeOK, Standing, AnswerLast, node \in {"loop", "limit", "todo"},
         NEW cs, TakenFrom(cs, Last(messages).calls)
  PROVE  /\ Sound(Replaced(cs), issued) /\ Replaced(cs) # << >>
         /\ Last(Replaced(cs)).type = "ai" /\ Last(Replaced(cs)).calls = cs
<1>1. Sound(messages, issued)
  BY StandingIsSound
<1>2. /\ Len(messages) \in 1..Len(messages) /\ messages # << >>
      /\ Last(messages) = messages[Len(messages)] /\ messages[Len(messages)].type = "ai"
  BY AnswerAtEnd
<1>8. /\ cs \in Seq(Call)
      /\ \A k \in 1..Len(cs) : \E m \in 1..Len(messages[Len(messages)].calls) :
           cs[k] = messages[Len(messages)].calls[m]
      /\ \A k, l \in 1..Len(cs) : cs[k].id = cs[l].id => k = l
  BY <1>2 DEF TakenFrom
<1>3. Sound(Replaced(cs), issued)
  BY <1>1, <1>2, <1>8, SoundReplaced DEF Replaced
<1>4. messages \in Seq(Messages) /\ messages[Len(messages)] \in Messages
  BY <1>1, <1>2, SoundFacts
<1>5. /\ Len(Replaced(cs)) = Len(messages)
      /\ Replaced(cs)[Len(messages)] = [messages[Len(messages)] EXCEPT !.calls = cs]
  BY <1>2, <1>4 DEF Replaced
<1>6. [messages[Len(messages)] EXCEPT !.calls = cs].type = "ai"
      /\ [messages[Len(messages)] EXCEPT !.calls = cs].calls = cs
  BY <1>2, <1>4 DEF Messages
<1>7. Len(Replaced(cs)) # 0
  BY <1>2, <1>5
<1>. QED
  BY <1>3, <1>5, <1>6, <1>7 DEF Last

(* Every step leaves the messages sound and the answer where it is needed. *)
LEMMA NotesStand ==
  ASSUME TypeOK, Standing, AnswerLast,
         UNCHANGED issued, node' \in {"idle", "summarize", "remind", "model"},
         \/ UNCHANGED messages
         \/ \E m \in Messages : /\ m.type # "tool" /\ m.calls = << >>
                                /\ messages' = Append(messages, m)
  PROVE  Sound(messages', issued') /\ AnswerLast'
<1>1. Sound(messages, issued) /\ issued \in Nat
  BY StandingIsSound, BoundAssumption DEF TypeOK
<1>2. Sound(messages', issued)
  BY <1>1, SoundNote
<1>. QED
  BY <1>2 DEF AnswerLast

(* Notes are messages that are no results.                                 *)
LEMMA NoteFacts ==
  /\ \A type \in Types \ {"tool"} : \A i \in Nat :
       /\ Message(type, << >>, i) \in Messages
       /\ Message(type, << >>, i).type # "tool" /\ Message(type, << >>, i).calls = << >>
  /\ \A type : Note(type) = Message(type, << >>, 0)
BY MessageFacts DEF Message, Note

(* A summary, with what it rescues and keeps, is a sound history.          *)
LEMMA SummarizeStands ==
  ASSUME TypeOK, Standing, AnswerLast, Summarize
  PROVE  Sound(messages', issued') /\ AnswerLast'
<1>1. Sound(messages, issued) /\ issued \in Nat
  BY StandingIsSound, BoundAssumption DEF TypeOK
<1>2. CASE messages' = messages
  BY <1>2, NotesStand DEF Summarize
<1>3. CASE Cutoff > 0 /\ \E S \in Selections(SubSeq(messages, 1, Cutoff)) :
             messages' = <<Note("summary")>> \o Rescued(SubSeq(messages, 1, Cutoff), S)
                         \o SubSeq(messages, Cutoff + 1, Len(messages))
  <2>1. PICK S \in Selections(SubSeq(messages, 1, Cutoff)) :
             messages' = <<Note("summary")>> \o Rescued(SubSeq(messages, 1, Cutoff), S)
                         \o SubSeq(messages, Cutoff + 1, Len(messages))
    BY <1>3
  <2>2. Cutoff \in 1..(Len(messages) - 1) /\ messages[Cutoff + 1].type # "tool"
    BY <1>1, <1>3, CutoffFacts
  <2>3. Sound(messages', issued)
    <3>. DEFINE c == Cutoff
    <3>1. c \in 1..(Len(messages) - 1) /\ messages[c + 1].type # "tool"
          /\ S \in Selections(SubSeq(messages, 1, c))
          /\ messages' = <<Note("summary")>> \o Rescued(SubSeq(messages, 1, c), S)
                         \o SubSeq(messages, c + 1, Len(messages))
      BY <2>1, <2>2
    <3>. HIDE DEF c
    <3>. QED
      BY <1>1, <3>1, SoundSummarized
  <2>. QED
    BY <2>3 DEF Summarize, AnswerLast
<1>. QED
  BY <1>2, <1>3 DEF Summarize

(* A reminder is added at the end.                                         *)
LEMMA RemindStands ==
  ASSUME TypeOK, Standing, AnswerLast, Remind
  PROVE  Sound(messages', issued') /\ AnswerLast'
<1>1. todos.by \in Nat
  BY DEF TypeOK
<1>2. \/ UNCHANGED messages
      \/ messages' = Append(messages, Message("todo_reminder", << >>, todos.by))
  BY DEF Remind
<1>3. "todo_reminder" \in Types \ {"tool"}
  BY DEF Types
<1>4. node' = "model" /\ issued' = issued
  BY DEF Remind
<1>. QED
  BY <1>1, <1>2, <1>3, <1>4, NoteFacts, NotesStand

(* New calls have new ids.                                                 *)
LEMMA ModelStands ==
  ASSUME TypeOK, Standing, AnswerLast, Model
  PROVE  Sound(messages', issued') /\ AnswerLast'
<1>1. Sound(messages, issued) /\ issued \in Nat
  BY StandingIsSound, BoundAssumption DEF TypeOK
<1>2. PICK a \in Answers :
        /\ issued' = issued + Len(a)
        /\ messages' = Append(messages,
             Message("ai", [i \in DOMAIN a |-> [id |-> issued + i, kind |-> a[i]]], 0))
  BY DEF Model
<1>. DEFINE cs == [i \in DOMAIN a |-> [id |-> issued + i, kind |-> a[i]]]
            m == Message("ai", cs, 0)
<1>3. a \in Seq(Kinds) /\ Len(a) \in Nat /\ DOMAIN a = 1..Len(a)
  BY AnswersAssumption
<1>4. cs \in Seq(Call) /\ Len(cs) = Len(a) /\ DOMAIN cs = 1..Len(a)
  <2>1. \A i \in 1..Len(a) : [id |-> issued + i, kind |-> a[i]] \in Call
    BY <1>1, <1>3 DEF Call
  <2>. QED
    BY <2>1, <1>3
<1>5. \A i \in 1..Len(a) : cs[i].id = issued + i /\ cs[i].kind = a[i]
  BY <1>3
<1>. HIDE DEF cs
<1>6. m \in Messages /\ m.type = "ai" /\ m.calls = cs
  BY <1>4, MessageFacts DEF Message, Types
<1>7. issued' \in Nat /\ issued <= issued'
  BY <1>1, <1>2, <1>3
<1>15. \A x, y, z \in Nat : 1 <= y /\ y <= z => x < x + y /\ x + y <= x + z
  OBVIOUS
<1>8. \A k \in DOMAIN m.calls : issued < m.calls[k].id /\ m.calls[k].id <= issued'
  <2>. TAKE k \in DOMAIN m.calls
  <2>1. k \in 1..Len(a)
    BY <1>4, <1>6
  <2>2. k \in Nat /\ 1 <= k /\ k <= Len(a)
    BY <2>1, <1>3
  <2>3. m.calls[k].id = issued + k
    BY <2>1, <1>5, <1>6
  <2>4. issued < issued + k /\ issued + k <= issued + Len(a)
    BY <2>2, <1>1, <1>3, <1>15
  <2>. QED
    BY <2>3, <2>4, <1>2
<1>9. \A k, l \in DOMAIN m.calls : m.calls[k].id = m.calls[l].id => k = l
  BY <1>1, <1>3, <1>4, <1>5, <1>6
<1>10. messages' = Append(messages, m)
  BY <1>2 DEF cs
<1>. HIDE DEF m
<1>11. Sound(messages', issued')
  <2>. DEFINE o == issued'
  <2>1. o \in Nat /\ issued <= o
    BY <1>7
  <2>2. \A k \in DOMAIN m.calls : issued < m.calls[k].id /\ m.calls[k].id <= o
    BY <1>8
  <2>. HIDE DEF o
  <2>3. Sound(Append(messages, m), o)
    BY <2>1, <2>2, <1>1, <1>6, <1>9, SoundAppend
  <2>. QED
    BY <2>3, <1>10 DEF o
<1>12. messages' # << >> /\ Last(messages') = m
  <2>1. messages \in Seq(Messages)
    BY DEF TypeOK
  <2>2. Len(messages') = Len(messages) + 1 /\ messages'[Len(messages) + 1] = m
        /\ Len(messages) \in Nat
    BY <2>1, <1>6, <1>10
  <2>3. messages' # << >>
    BY <2>1, <1>10, <1>6
  <2>. QED
    BY <2>2, <2>3 DEF Last
<1>13. [i \in DOMAIN m.calls |-> m.calls[i].kind] = a
  BY <1>3, <1>4, <1>5, <1>6
<1>14. AnswerLast'
  BY <1>6, <1>12, <1>13 DEF AnswerLast, Model
<1>. QED
  BY <1>11, <1>14

(* The loop detector leaves the answer or takes all its calls.             *)
LEMMA LoopStands ==
  ASSUME TypeOK, Standing, AnswerLast,
    LoopNone \/ LoopStop \/ LoopWarn \/ LoopCount
  PROVE  Sound(messages', issued') /\ AnswerLast'
<1>1. node = "loop" /\ node' = "limit" /\ issued' = issued
      /\ (messages' = messages \/ messages' = Replaced(<< >>))
  BY DEF LoopNone, LoopStop, LoopWarn, LoopCount
<1>2. CASE messages' = messages
  <2>1. Sound(messages, issued)
    BY StandingIsSound
  <2>. QED
    BY <2>1, <1>1, <1>2 DEF AnswerLast
<1>3. CASE messages' = Replaced(<< >>)
  <2>1. TakenFrom(<< >>, Last(messages).calls)
    BY DEF TakenFrom
  <2>3. /\ Sound(Replaced(<< >>), issued) /\ Replaced(<< >>) # << >>
        /\ Last(Replaced(<< >>)).type = "ai"
    BY <2>1, <1>1, ReplacedFacts
  <2>2. Sound(messages', issued) /\ messages' # << >> /\ Last(messages').type = "ai"
    BY <2>3, <1>3
  <2>. QED
    BY <2>2, <1>1 DEF AnswerLast
<1>. QED
  BY <1>1, <1>2, <1>3

(* Task calls are dropped from an answer that has no results yet.          *)
LEMMA LimitStands ==
  ASSUME TypeOK, Standing, AnswerLast, Limit
  PROVE  /\ Sound(messages', issued') /\ AnswerLast'
         /\ \E I : /\ I \subseteq 1..Len(Last(messages).calls)
                   /\ Last(messages').calls = At(Last(messages).calls, I)
<1>. DEFINE calls == Last(messages).calls
            tasks(i) == {j \in 1..i : calls[j].kind = "task"}
            kept == {i \in DOMAIN calls :
                       calls[i].kind = "task" => Cardinality(tasks(i)) <= MaxConcurrent}
            cs == At(calls, kept)
<1>1. /\ node = "limit" /\ node' = "todo" /\ issued' = issued
      /\ messages' = Replaced(cs)
  BY DEF Limit
<1>2. /\ calls \in Seq(Call)
      /\ \A k, l \in 1..Len(calls) : calls[k].id = calls[l].id => k = l
  BY <1>1, AnswerAtEnd
<1>3. kept \subseteq 1..Len(calls)
  BY <1>2
<1>. HIDE DEF calls, kept
<1>4. TakenFrom(cs, calls)
  BY <1>2, TakenPart
<1>. HIDE DEF cs
<1>5. TakenFrom(cs, Last(messages).calls) /\ node \in {"loop", "limit", "todo"}
  BY <1>1, <1>4 DEF calls
<1>6. /\ Sound(Replaced(cs), issued) /\ Replaced(cs) # << >>
      /\ Last(Replaced(cs)).type = "ai" /\ Last(Replaced(cs)).calls = cs
  BY <1>5, ReplacedFacts
<1>7. Sound(messages', issued') /\ AnswerLast'
  BY <1>1, <1>6 DEF AnswerLast
<1>8. Last(messages').calls = At(Last(messages).calls, kept)
  BY <1>1, <1>6 DEF cs, calls
<1>. QED
  BY <1>3, <1>7, <1>8 DEF calls

(* The lists of the last answer are refused.                               *)
LEMMA RefuseStands ==
  ASSUME TypeOK, Standing, AnswerLast, RefuseLists
  PROVE  Sound(messages', issued') /\ AnswerLast'
<1>. DEFINE L == Len(messages)
            cs == At(Last(messages).calls, Lists(Last(messages).calls))
<1>1. /\ node = "todo" /\ node' \in {"summarize", "tools"} /\ issued' = issued
      /\ messages' = messages \o Results(cs)
  BY DEF RefuseLists
<1>2. /\ L \in 1..L /\ Last(messages) = messages[L] /\ Last(messages).type = "ai"
      /\ Last(messages).calls \in Seq(Call)
      /\ \A k, l \in 1..Len(Last(messages).calls) :
           Last(messages).calls[k].id = Last(messages).calls[l].id => k = l
      /\ \A k \in 1..Len(Last(messages).calls) : Last(messages).calls[k].id \notin Answered(messages)
      /\ \A k \in (L + 1)..L : messages[k].type = "tool"
  BY <1>1, AnswerAtEnd
<1>3. TakenFrom(cs, messages[L].calls)
  <2>. DEFINE all == Last(messages).calls
              I == Lists(Last(messages).calls)
  <2>1. all \in Seq(Call) /\ \A k, l \in 1..Len(all) : all[k].id = all[l].id => k = l
    BY <1>2
  <2>. HIDE DEF all, I
  <2>2. TakenFrom(At(all, I), all)
    BY <2>1, TakenPart
  <2>. QED
    BY <2>2, <1>2 DEF all, I
<1>. HIDE DEF cs
<1>4. Unresolved(cs, messages)
  <2>. SUFFICES ASSUME NEW k \in 1..Len(cs)
       PROVE cs[k].id \notin Answered(messages)
    BY DEF Unresolved
  <2>1. PICK m \in 1..Len(Last(messages).calls) : cs[k] = Last(messages).calls[m]
    BY <1>2, <1>3 DEF TakenFrom
  <2>. QED
    BY <2>1, <1>2
<1>5. Sound(messages, issued)
  BY StandingIsSound
<1>9. Extended(messages, cs, L, issued)
  BY <1>2, <1>3, <1>4, <1>5, TakenAnswered
<1>6. /\ Sound(messages \o Results(cs), issued)
      /\ \A k \in (L + 1)..Len(messages \o Results(cs)) : (messages \o Results(cs))[k].type = "tool"
      /\ \A k \in 1..L : (messages \o Results(cs))[k] = messages[k]
      /\ Len(messages \o Results(cs)) = L + Len(cs) /\ cs \in Seq(Call)
  BY <1>3, <1>9 DEF Extended, TakenFrom
<1>7. L \in DOMAIN messages' /\ messages'[L].type = "ai"
  <2>1. DOMAIN messages' = 1..Len(messages')
    BY <1>1, <1>6, SoundFacts
  <2>. QED
    BY <2>1, <1>1, <1>2, <1>6
<1>8. AnswerLast'
  BY <1>1, <1>6, <1>7 DEF AnswerLast, OfType
<1>. QED
  BY <1>1, <1>6, <1>8

(* All calls of the last answer that were left get their results.          *)
LEMMA ToolsStand ==
  ASSUME TypeOK, Standing, AnswerLast, RunTools
  PROVE  Sound(messages', issued') /\ AnswerLast'
<1>. DEFINE cs == Pending(messages, LastAnswer.calls)
<1>1. /\ node = "tools" /\ node' \in {"summarize", "idle"} /\ issued' = issued
      /\ messages' = messages \o Results(cs)
  BY DEF RunTools
<1>2. TakenFrom(cs, LastAnswer.calls) /\ Unresolved(cs, messages)
  BY <1>1, AnswerAtTools DEF TakenFrom, Unresolved
<1>3. PICK a \in 1..Len(messages) :
        /\ LastAnswer = messages[a]
        /\ \A k \in (a + 1)..Len(messages) : messages[k].type = "tool"
  BY <1>1, AnswerAtTools
<1>4. Sound(messages, issued)
  BY StandingIsSound
<1>. HIDE DEF cs
<1>6. Extended(messages, cs, a, issued)
  BY <1>2, <1>3, <1>4, TakenAnswered
<1>5. Sound(messages \o Results(cs), issued)
  BY <1>6 DEF Extended
<1>. QED
  BY <1>1, <1>5 DEF AnswerLast

(* No step leaves the history unsound.                                     *)
LEMMA MessagesStand ==
  ASSUME TypeOK, Standing, AnswerLast, [Next]_vars
  PROVE  Sound(messages', issued') /\ AnswerLast'
<1>0. Sound(messages, issued)
  BY StandingIsSound
<1>1. CASE UNCHANGED vars
  BY <1>0, <1>1 DEF vars, AnswerLast
<1>2. CASE Turn
  <2>1. issued' = issued /\ node' = "summarize" /\ messages' = Append(messages, Note("human"))
    BY <1>2 DEF Turn
  <2>2. "human" \in Types \ {"tool"} /\ 0 \in Nat
    BY DEF Types
  <2>. QED
    BY <2>1, <2>2, NoteFacts, NotesStand
<1>3. CASE Summarize
  BY <1>3, SummarizeStands
<1>4. CASE Remind
  BY <1>4, RemindStands
<1>5. CASE Model
  BY <1>5, ModelStands
<1>6. CASE LoopNone \/ LoopStop \/ LoopWarn \/ LoopCount
  BY <1>6, LoopStands
<1>7. CASE Limit
  BY <1>7, LimitStands
<1>8. CASE RefuseLists
  BY <1>8, RefuseStands
<1>9. CASE GoToTools
  <2>1. /\ node = "todo" /\ node' = "tools" /\ messages' = messages /\ issued' = issued
    BY <1>9 DEF GoToTools
  <2>2. /\ Len(messages) \in 1..Len(messages) /\ messages[Len(messages)].type = "ai"
        /\ \A k \in (Len(messages) + 1)..Len(messages) : messages[k].type = "tool"
    BY <2>1, AnswerAtEnd
  <2>3. DOMAIN messages = 1..Len(messages)
    BY <1>0, SoundFacts
  <2>4. Len(messages) \in OfType(messages, "ai")
    BY <2>2, <2>3 DEF OfType
  <2>. QED
    BY <1>0, <2>1, <2>2, <2>4 DEF AnswerLast
<1>10. CASE End
  <2>1. /\ issued' = issued /\ node' \in {"summarize", "idle"}
        /\ \/ UNCHANGED messages
           \/ messages' = Append(messages, Note("todo_completion_reminder"))
    BY <1>10 DEF End
  <2>2. "todo_completion_reminder" \in Types \ {"tool"} /\ 0 \in Nat
    BY DEF Types
  <2>. QED
    BY <2>1, <2>2, NoteFacts, NotesStand
<1>11. CASE RunTools
  BY <1>11, ToolsStand
<1>12. CASE Cancel
  BY <1>12, NotesStand DEF Cancel
<1>. QED
  BY <1>1, <1>2, <1>3, <1>4, <1>5, <1>6, <1>7, <1>8, <1>9, <1>10, <1>11,
    <1>12 DEF Next, Step

-----------------------------------------------------------------------------
(* Counting.                                                               *)

(* A finite set of numbers has a bound.                                    *)
LEMMA BoundOf ==
  ASSUME NEW S \in SUBSET Nat, IsFiniteSet(S)
  PROVE  \E b \in Nat : \A n \in S : n <= b
<1>0. PICK n \in Nat : ExistsBijection(1..n, S)
  BY FS_NatBijection
<1>1. PICK f : n \in Nat /\ f \in Bijection(1..n, S)
  BY <1>0 DEF ExistsBijection
<1>2. f \in [1..n -> S] /\ \A x \in S : \E i \in 1..n : f[i] = x
  BY <1>1 DEF Bijection, Injection, Surjection, IsInjective
<1>6. \A i \in 1..n : f[i] \in Nat
  BY <1>2
<1>. DEFINE T == {i \in Nat : i <= n => \E b \in Nat : \A j \in 1..i : f[j] <= b}
<1>3. 0 \in T
  OBVIOUS
<1>4. ASSUME NEW i \in 0..(n - 1), i \in T PROVE i + 1 \in T
  <2>1. PICK b \in Nat : \A j \in 1..i : f[j] <= b
    BY <1>4
  <2>5. i + 1 \in 1..n /\ \A j \in 1..i : j \in 1..n
    BY <1>1
  <2>2. f[i + 1] \in Nat
    BY <2>5, <1>6
  <2>. DEFINE c == IF f[i + 1] <= b THEN b ELSE f[i + 1]
  <2>3. c \in Nat /\ b <= c /\ f[i + 1] <= c
    BY <2>2
  <2>. HIDE DEF c
  <2>4. ASSUME NEW j \in 1..(i + 1) PROVE f[j] <= c
    <3>1. CASE j = i + 1
      BY <3>1, <2>3
    <3>2. CASE j \in 1..i
      <4>1. f[j] <= b /\ f[j] \in Nat
        BY <3>2, <2>1, <2>5, <1>6
      <4>. QED
        BY <4>1, <2>3
    <3>. QED
      BY <3>1, <3>2
  <2>. QED
    BY <2>3, <2>4
<1>5. n \in T
  <2>. HIDE DEF T
  <2>1. \A i \in 0..n : i \in T
    BY <1>3, <1>4, UpTo
  <2>. QED
    BY <2>1
<1>7. PICK b \in Nat : \A j \in 1..n : f[j] <= b
  <2>1. n <= n /\ n \in Nat
    OBVIOUS
  <2>. QED
    BY <2>1, <1>5
<1>8. \A x \in S : x <= b
  BY <1>2, <1>7
<1>. QED
  BY <1>8

(* Where a sequence has something is a finite set.                         *)
LEMMA PlacesFinite ==
  ASSUME NEW n \in Nat, NEW I \in SUBSET (1..n)
  PROVE  IsFiniteSet(I) /\ Cardinality(I) \in Nat
<1>1. IsFiniteSet(1..n)
  BY 1 \in Int, n \in Int, FS_Interval
<1>2. IsFiniteSet(I)
  BY <1>1, FS_Subset
<1>. QED
  BY <1>2, FS_CardinalityType

(* As many, or fewer, as an injection into the other set exists.           *)
LEMMA NoMoreThan ==
  ASSUME NEW I, NEW J, IsFiniteSet(J), NEW f \in [I -> J],
         \A i, j \in I : f[i] = f[j] => i = j
  PROVE  IsFiniteSet(I) /\ Cardinality(I) <= Cardinality(J)
<1>1. f \in Injection(I, J)
  BY DEF Injection, IsInjective
<1>. QED
  BY <1>1, FS_Injection DEF ExistsInjection

(* The number of uses of a tool in a sequence of calls.                    *)
LEMMA UsesFacts ==
  ASSUME NEW cs \in Seq(Call), NEW t
  PROVE  Uses(cs, t) \in Nat /\ (cs = << >> => Uses(cs, t) = 0)
<1>. DEFINE I == {i \in DOMAIN cs : ToolOf[cs[i].kind] = t}
<1>1. I \in SUBSET (1..Len(cs)) /\ Len(cs) \in Nat
  OBVIOUS
<1>2. cs = << >> => I = {}
  OBVIOUS
<1>3. Uses(cs, t) = Cardinality(I)
  BY DEF Uses
<1>. HIDE DEF I
<1>4. Cardinality(I) \in Nat
  BY <1>1, PlacesFinite
<1>5. cs = << >> => Cardinality(I) = 0
  BY <1>2, FS_EmptySet
<1>. QED
  BY <1>3, <1>4, <1>5

(* Of some of the calls no more use a tool than of all of them.            *)
LEMMA UsesOfSome ==
  ASSUME NEW cs \in Seq(Call), NEW I, NEW t
  PROVE  Uses(At(cs, I), t) <= Uses(cs, t)
<1>. DEFINE As == At(cs, I)
            mine == {i \in DOMAIN As : ToolOf[As[i].kind] = t}
            all == {i \in DOMAIN cs : ToolOf[cs[i].kind] = t}
<1>1. As \in Seq(Call) /\ \E h : Picks(cs, I, h)
  BY AtFacts
<1>2. PICK h : Picks(cs, I, h)
  BY <1>1
<1>3. /\ h \in [1..Len(As) -> I \cap (1..Len(cs))]
      /\ \A k \in 1..Len(As) : As[k] = cs[h[k]]
      /\ \A k, l \in 1..Len(As) : k < l <=> h[k] < h[l]
  BY <1>2 DEF Picks
<1>4. DOMAIN As = 1..Len(As) /\ DOMAIN cs = 1..Len(cs) /\ Len(cs) \in Nat /\ Len(As) \in Nat
  BY <1>1
<1>. HIDE DEF As
<1>5. \A k \in 1..Len(As) : h[k] \in 1..Len(cs)
  BY <1>3
<1>6. \A k, l \in 1..Len(As) : h[k] = h[l] => k = l
  BY <1>3, <1>4, <1>5
<1>. DEFINE f == [k \in mine |-> h[k]]
<1>7. f \in [mine -> all] /\ \A k, l \in mine : f[k] = f[l] => k = l
  BY <1>3, <1>4, <1>5, <1>6
<1>8. IsFiniteSet(all)
  BY <1>4, PlacesFinite
<1>. HIDE DEF f, mine, all
<1>9. Cardinality(mine) <= Cardinality(all)
  BY <1>7, <1>8, NoMoreThan
<1>. QED
  BY <1>9 DEF Uses, mine, all, As

(* The most calls of a tool in one answer.                                 *)
LEMMA InOneAnswerFacts ==
  ASSUME NEW t
  PROVE  /\ InOneAnswer(t) \in Nat
         /\ \A cs \in Seq(Call) : [i \in DOMAIN cs |-> cs[i].kind] \in Answers =>
              Uses(cs, t) <= InOneAnswer(t)
<1>. DEFINE Of(a) == Cardinality({i \in DOMAIN a : ToolOf[a[i]] = t})
            S == {Of(a) : a \in Answers}
<1>1. \A a \in Answers : Of(a) \in Nat
  <2>1. ASSUME NEW a \in Answers PROVE Of(a) \in Nat
    <3>1. a \in Seq(Kinds)
      BY AnswersAssumption
    <3>2. Len(a) \in Nat /\ {i \in DOMAIN a : ToolOf[a[i]] = t} \in SUBSET (1..Len(a))
      BY <3>1
    <3>. QED
      BY <3>2, PlacesFinite
  <2>. QED
    BY <2>1
<1>2. S \in SUBSET Nat /\ S # {}
  BY <1>1, AnswersAssumption
<1>3. IsFiniteSet(S)
  <2>. DEFINE f == [a \in Answers |-> Of(a)]
  <2>1. f \in Surjection(Answers, S)
    BY DEF Surjection
  <2>. HIDE DEF f, S
  <2>. QED
    BY <2>1, AnswersAssumption, FS_Surjection DEF ExistsSurjection
<1>. HIDE DEF S
<1>4. PICK b \in Nat : \A n \in S : n <= b
  BY <1>2, <1>3, BoundOf
<1>5. \E m \in S : \A n \in S : n <= m
  BY <1>2, <1>4, GreatestOf
<1>6. \E m \in S : \A n \in S : m >= n
  BY <1>5, <1>2
<1>7. Max(S) \in S /\ \A n \in S : Max(S) >= n
  BY <1>6 DEF Max
<1>8. InOneAnswer(t) = Max(S)
  BY DEF InOneAnswer, S
<1>9. ASSUME NEW cs \in Seq(Call), [i \in DOMAIN cs |-> cs[i].kind] \in Answers
      PROVE  Uses(cs, t) <= InOneAnswer(t)
  <2>. DEFINE a == [i \in DOMAIN cs |-> cs[i].kind]
  <2>1. {i \in DOMAIN a : ToolOf[a[i]] = t} = {i \in DOMAIN cs : ToolOf[cs[i].kind] = t}
    OBVIOUS
  <2>2. Of(a) = Uses(cs, t)
    BY <2>1 DEF Uses
  <2>3. Of(a) \in S
    BY <1>9 DEF S
  <2>. HIDE DEF Of, a
  <2>. QED
    BY <2>2, <2>3, <1>2, <1>7, <1>8
<1>. QED
  BY <1>2, <1>7, <1>8, <1>9

-----------------------------------------------------------------------------
(* The window of the loop detector.                                        *)

Shift(s, n) == IF Len(s) + 1 <= n THEN 0 ELSE 1

Slid(r, s, x, n) ==
  /\ Len(r) = Len(s) + 1 - Shift(s, n) /\ Len(r) <= n
  /\ Len(r) \in 1..Len(r) /\ r[Len(r)] = x
  /\ \A i \in 1..(Len(r) - 1) : i + Shift(s, n) \in 1..Len(s) /\ r[i] = s[i + Shift(s, n)]

(* Appending to a window moves it by one when it is full.                  *)
LEMMA LastOfFacts ==
  ASSUME NEW S, NEW s \in Seq(S), NEW x \in S, NEW n \in Nat \ {0}, Len(s) <= n
  PROVE  LastOf(Append(s, x), n) \in Seq(S) /\ Slid(LastOf(Append(s, x), n), s, x, n)
<1>. DEFINE w == Append(s, x)
<1>1. w \in Seq(S) /\ Len(w) = Len(s) + 1 /\ w[Len(s) + 1] = x /\ Len(s) \in Nat
      /\ \A i \in 1..Len(s) : w[i] = s[i]
  OBVIOUS
<1>. HIDE DEF w
<1>2. CASE Len(s) + 1 <= n
  <2>1. LastOf(w, n) = w /\ Shift(s, n) = 0
    BY <1>1, <1>2 DEF LastOf, Shift
  <2>. QED
    BY <2>1, <1>1, <1>2 DEF w, Slid
<1>3. CASE ~ (Len(s) + 1 <= n)
  <2>1. Len(s) = n /\ Len(w) = n + 1
    BY <1>1, <1>3
  <2>2. LastOf(w, n) = SubSeq(w, 2, n + 1) /\ Shift(s, n) = 1
    BY <1>1, <2>1 DEF LastOf, Shift
  <2>3. /\ SubSeq(w, 2, n + 1) \in Seq(S) /\ Len(SubSeq(w, 2, n + 1)) = n
        /\ \A i \in 1..n : SubSeq(w, 2, n + 1)[i] = w[i + 1]
    BY <1>1, <2>1
  <2>4. \A i \in 1..(n - 1) : i + 1 \in 1..Len(s)
    BY <2>1
  <2>5. SubSeq(w, 2, n + 1)[n] = x
    BY <1>1, <2>1, <2>3
  <2>. QED
    BY <1>1, <2>1, <2>2, <2>3, <2>4, <2>5 DEF w, Slid
<1>. QED
  BY <1>2, <1>3

(* The set of some calls is a set of calls.                                *)
LEMMA HashFacts ==
  ASSUME NEW cs \in Seq(Call)
  PROVE  Hash(cs) \in CallSets
<1>1. \A k \in Kinds : Cardinality({i \in DOMAIN cs : cs[i].kind = k}) \in Nat
  <2>. TAKE k \in Kinds
  <2>. DEFINE I == {i \in DOMAIN cs : cs[i].kind = k}
  <2>1. I \in SUBSET (1..Len(cs)) /\ Len(cs) \in Nat
    OBVIOUS
  <2>. HIDE DEF I
  <2>2. Cardinality(I) \in Nat
    BY <2>1, PlacesFinite
  <2>. QED
    BY <2>2 DEF I
<1>. QED
  BY <1>1 DEF Hash, CallSets

(* The count of a tool does not fall, and rises with each call of it.      *)
LEMMA CountFacts ==
  ASSUME TypeOK, NEW cs, NEW t \in Tools, NEW n \in Nat
  PROVE  /\ Count(cs, t, n) \in Nat /\ freq[t] <= Count(cs, t, n)
         /\ \A i \in 1..n : ToolOf[cs[i].kind] = t => freq[t] + 1 <= Count(cs, t, n)
<1>. DEFINE I == {i \in 1..n : ToolOf[cs[i].kind] = t}
<1>1. IsFiniteSet(I) /\ Cardinality(I) \in Nat
  BY PlacesFinite
<1>2. freq[t] \in Nat
  BY DEF TypeOK
<1>3. \A i \in I : Cardinality(I) # 0
  BY <1>1, FS_EmptySet
<1>. HIDE DEF I
<1>4. Count(cs, t, n) = freq[t] + Cardinality(I)
  BY DEF Count, I
<1>5. \A i \in 1..n : ToolOf[cs[i].kind] = t => i \in I
  BY DEF I
<1>. QED
  BY <1>1, <1>2, <1>3, <1>4, <1>5

(* Which calls are counted.                                                *)
Hits(cs) ==
  {i \in DOMAIN cs :
     \/ Count(cs, ToolOf[cs[i].kind], i) >= FreqHardLimit
     \/ /\ Count(cs, ToolOf[cs[i].kind], i) >= FreqWarn
        /\ ToolOf[cs[i].kind] \notin freqWarned}

(* What LoopCount does: all is counted, or up to the first call that hits a limit. *)
LEMMA LoopCountFacts ==
  ASSUME TypeOK, Standing, AnswerLast, LoopCount
  PROVE  LET cs == Last(messages).calls
         IN  /\ cs \in Seq(Call)
             /\ Hits(cs) = {} =>
                  /\ freq' = [t \in Tools |-> Count(cs, t, Len(cs))]
                  /\ freqWarned' = freqWarned /\ messages' = messages
             /\ Hits(cs) # {} => \E n \in 1..Len(cs) :
                  /\ n \in Hits(cs) /\ ToolOf[cs[n].kind] \in Tools
                  /\ freq' = [t \in Tools |-> Count(cs, t, n)]
                  /\ \/ /\ Count(cs, ToolOf[cs[n].kind], n) >= FreqHardLimit
                        /\ freqWarned' = freqWarned /\ messages' = Replaced(<< >>)
                     \/ /\ ~ (Count(cs, ToolOf[cs[n].kind], n) >= FreqHardLimit)
                        /\ freqWarned' = freqWarned \cup {ToolOf[cs[n].kind]}
                        /\ messages' = messages
<1>. DEFINE cs == Last(messages).calls
            UsedTool(i) == ToolOf[cs[i].kind]
            n == IF Hits(cs) = {} THEN Len(cs)
                 ELSE CHOOSE i \in Hits(cs) : \A j \in Hits(cs) : i <= j
            stop == Hits(cs) # {} /\ Count(cs, UsedTool(n), n) >= FreqHardLimit
<1>1. cs \in Seq(Call)
  BY AnswerAtEnd DEF LoopCount
<1>2. /\ freq' = [t \in Tools |-> Count(cs, t, n)]
      /\ freqWarned' = IF Hits(cs) # {} /\ ~stop THEN freqWarned \cup {UsedTool(n)} ELSE freqWarned
      /\ messages' = IF stop THEN Replaced(<< >>) ELSE messages
  BY DEF LoopCount, Hits
<1>3. DOMAIN cs = 1..Len(cs) /\ Len(cs) \in Nat
  BY <1>1
<1>4. \A i \in 1..Len(cs) : UsedTool(i) \in Tools
  <2>1. \A i \in 1..Len(cs) : cs[i] \in Call
    BY <1>1
  <2>. QED
    BY <2>1 DEF Call, Tools
<1>. HIDE DEF cs
<1>5. CASE Hits(cs) = {}
  <2>1. n = Len(cs) /\ ~stop
    BY <1>5
  <2>. HIDE DEF n, stop
  <2>. QED
    BY <2>1, <1>1, <1>2, <1>5 DEF cs
<1>6. CASE Hits(cs) # {}
  <2>1. Hits(cs) \in SUBSET Nat
    BY <1>3 DEF Hits
  <2>2. \E i \in Hits(cs) : \A j \in Hits(cs) : i <= j
    BY <2>1, <1>6, LeastOf
  <2>3. n \in Hits(cs)
    BY <2>2, <1>6
  <2>4. n \in 1..Len(cs)
    BY <2>3, <1>3 DEF Hits
  <2>5. stop <=> Count(cs, UsedTool(n), n) >= FreqHardLimit
    BY <1>6
  <2>. HIDE DEF n, stop
  <2>6. /\ n \in Hits(cs) /\ UsedTool(n) \in Tools
        /\ freq' = [t \in Tools |-> Count(cs, t, n)]
        /\ \/ /\ Count(cs, UsedTool(n), n) >= FreqHardLimit
              /\ freqWarned' = freqWarned /\ messages' = Replaced(<< >>)
           \/ /\ ~ (Count(cs, UsedTool(n), n) >= FreqHardLimit)
              /\ freqWarned' = freqWarned \cup {UsedTool(n)}
              /\ messages' = messages
    BY <2>3, <2>4, <2>5, <1>2, <1>4, <1>6
  <2>. QED
    BY <2>4, <2>6, <1>1, <1>6 DEF cs
<1>. QED
  BY <1>5, <1>6

(* Track puts the new set last and moves the others.                       *)
LEMMA TrackFacts ==
  ASSUME TypeOK, NEW cs \in Seq(Call), Track(cs)
  PROVE  /\ window' \in Seq(CallSets) /\ Len(window') <= WindowSize
         /\ ran' \in Seq(BOOLEAN) /\ Len(ran') = Len(window')
         /\ window' # << >> /\ Last(window') = Hash(cs)
         /\ Len(window') \in 1..Len(window') /\ ~ ran'[Len(window')]
         /\ \E d \in {0, 1} : \A i \in 1..(Len(window') - 1) :
              /\ i + d \in 1..Len(window)
              /\ window'[i] = window[i + d] /\ ran'[i] = ran[i + d]
<1>1. WindowSize \in Nat \ {0}
  BY ThresholdAssumption
<1>2. /\ window \in Seq(CallSets) /\ Len(window) <= WindowSize
      /\ ran \in Seq(BOOLEAN) /\ Len(ran) = Len(window)
  BY DEF TypeOK
<1>3. Hash(cs) \in CallSets
  BY HashFacts
<1>. DEFINE d == Shift(window, WindowSize)
<1>4. Shift(ran, WindowSize) = d /\ d \in {0, 1}
  BY <1>2 DEF Shift
<1>5. /\ window' \in Seq(CallSets) /\ Len(window') = Len(window) + 1 - d
      /\ Len(window') <= WindowSize
      /\ Len(window') \in 1..Len(window') /\ window'[Len(window')] = Hash(cs)
      /\ \A i \in 1..(Len(window') - 1) :
           i + d \in 1..Len(window) /\ window'[i] = window[i + d]
  <2>. DEFINE r == LastOf(Append(window, Hash(cs)), WindowSize)
  <2>1. /\ r \in Seq(CallSets) /\ Len(r) = Len(window) + 1 - d /\ Len(r) <= WindowSize
        /\ Len(r) \in 1..Len(r) /\ r[Len(r)] = Hash(cs)
        /\ \A i \in 1..(Len(r) - 1) : i + d \in 1..Len(window) /\ r[i] = window[i + d]
    <3>1. r \in Seq(CallSets) /\ Slid(r, window, Hash(cs), WindowSize)
      BY <1>1, <1>2, <1>3, LastOfFacts
    <3>. QED
      BY <3>1 DEF Slid
  <2>2. window' = r
    BY DEF Track
  <2>. HIDE DEF r, d
  <2>. QED
    BY <2>1, <2>2
<1>6. /\ ran' \in Seq(BOOLEAN) /\ Len(ran') = Len(ran) + 1 - d
      /\ ran'[Len(ran')] = FALSE
      /\ \A i \in 1..(Len(ran') - 1) : ran'[i] = ran[i + d]
  <2>. DEFINE r == LastOf(Append(ran, FALSE), WindowSize)
  <2>0. FALSE \in BOOLEAN /\ Len(ran) <= WindowSize
    BY <1>2
  <2>1. /\ r \in Seq(BOOLEAN) /\ Len(r) = Len(ran) + 1 - Shift(ran, WindowSize)
        /\ r[Len(r)] = FALSE
        /\ \A i \in 1..(Len(r) - 1) : r[i] = ran[i + Shift(ran, WindowSize)]
    <3>1. r \in Seq(BOOLEAN) /\ Slid(r, ran, FALSE, WindowSize)
      BY <1>1, <1>2, <2>0, LastOfFacts
    <3>. QED
      BY <3>1, Zenon DEF Slid
  <2>2. ran' = r
    BY DEF Track
  <2>. HIDE DEF r, d
  <2>. QED
    BY <2>1, <2>2, <1>4
<1>. HIDE DEF d
<1>7. Len(ran') = Len(window')
  BY <1>2, <1>5, <1>6
<1>8. \A i \in 1..(Len(window') - 1) :
        i + d \in 1..Len(window) /\ window'[i] = window[i + d] /\ ran'[i] = ran[i + d]
  BY <1>5, <1>6, <1>7
<1>9. window' # << >>
  BY <1>5
<1>10. \E e \in {0, 1} : \A i \in 1..(Len(window') - 1) :
         i + e \in 1..Len(window) /\ window'[i] = window[i + e] /\ ran'[i] = ran[i + e]
  BY <1>4, <1>8
<1>11. ~ ran'[Len(window')]
  BY <1>6, <1>7
<1>. QED
  BY <1>5, <1>6, <1>7, <1>9, <1>10, <1>11 DEF Last

-----------------------------------------------------------------------------
(* Types.                                                                  *)

(* A sequence with one element replaced is one of the same length.         *)
LEMMA StillSequence ==
  ASSUME NEW S, NEW s \in Seq(S), NEW i, NEW x \in S
  PROVE  [s EXCEPT ![i] = x] \in Seq(S) /\ Len([s EXCEPT ![i] = x]) = Len(s)
<1>. DEFINE r == [s EXCEPT ![i] = x]
<1>1. s \in [1..Len(s) -> S] /\ Len(s) \in Nat
  OBVIOUS
<1>2. r \in [1..Len(s) -> S]
  BY <1>1
<1>. HIDE DEF r
<1>3. r \in Seq(S) /\ Len(r) = Len(s)
  BY <1>1, <1>2
<1>. QED
  BY <1>3 DEF r

DetectorTyped ==
  /\ window \in Seq(CallSets) /\ Len(window) <= WindowSize
  /\ ran \in Seq(BOOLEAN) /\ Len(ran) = Len(window)
  /\ warned \subseteq CallSets /\ IsFiniteSet(warned)
  /\ freqWarned \subseteq Tools /\ IsFiniteSet(freqWarned)
  /\ freq \in [Tools -> Nat] /\ used \in [Tools -> Nat]

(* The variables of the loop detector keep their types.                    *)
LEMMA DetectorStep ==
  ASSUME TypeOK, Standing, AnswerLast, [Next]_vars
  PROVE  DetectorTyped'
<1>0. DetectorTyped
  BY DEF TypeOK, DetectorTyped
<1>. DEFINE cs == Last(messages).calls
<1>1. CASE UNCHANGED <<detector, ran, used>>
  BY <1>0, <1>1 DEF DetectorTyped, detector
<1>2. CASE Turn
  <2>1. CASE UNCHANGED <<detector, ran, used>>
    BY <2>1, <1>1
  <2>2. CASE /\ window' = << >> /\ warned' = {} /\ freqWarned' = {}
             /\ freq' = [t \in Tools |-> 0]
             /\ ran' = << >> /\ used' = [t \in Tools |-> 0]
    <3>1. WindowSize \in Nat
      BY ThresholdAssumption
    <3>2. IsFiniteSet({})
      BY FS_EmptySet
    <3>. QED
      BY <2>2, <3>1, <3>2 DEF DetectorTyped
  <2>. QED
    BY <1>2, <2>1, <2>2 DEF Turn
<1>3. CASE LoopStop
  <2>1. /\ node = "loop" /\ Track(cs)
        /\ warned' = warned /\ freq' = freq /\ freqWarned' = freqWarned /\ used' = used
    BY <1>3 DEF LoopStop
  <2>2. cs \in Seq(Call)
    BY <2>1, AnswerAtEnd
  <2>. HIDE DEF cs
  <2>. QED
    BY <2>1, <2>2, <1>0, TrackFacts DEF DetectorTyped
<1>4. CASE LoopWarn
  <2>1. /\ node = "loop" /\ Track(cs) /\ warned' = warned \cup {Hash(cs)}
        /\ freq' = freq /\ freqWarned' = freqWarned /\ used' = used
    BY <1>4 DEF LoopWarn
  <2>2. cs \in Seq(Call)
    BY <2>1, AnswerAtEnd
  <2>. HIDE DEF cs
  <2>3. IsFiniteSet(warned') /\ warned' \subseteq CallSets
    BY <2>1, <2>2, <1>0, HashFacts, FS_AddElement DEF DetectorTyped
  <2>. QED
    BY <2>1, <2>2, <2>3, <1>0, TrackFacts DEF DetectorTyped
<1>5. CASE LoopCount
  <2>1. node = "loop" /\ Track(cs) /\ warned' = warned /\ used' = used
    BY <1>5 DEF LoopCount
  <2>2. cs \in Seq(Call)
    BY <2>1, AnswerAtEnd
  <2>3. \/ /\ freq' = [t \in Tools |-> Count(cs, t, Len(cs))] /\ freqWarned' = freqWarned
        \/ \E n \in 1..Len(cs) :
             /\ freq' = [t \in Tools |-> Count(cs, t, n)] /\ ToolOf[cs[n].kind] \in Tools
             /\ freqWarned' \in {freqWarned, freqWarned \cup {ToolOf[cs[n].kind]}}
    BY <1>5, LoopCountFacts
  <2>. HIDE DEF cs
  <2>4. freq' \in [Tools -> Nat]
    <3>1. \E n \in Nat : freq' = [t \in Tools |-> Count(cs, t, n)]
      BY <2>2, <2>3
    <3>. QED
      BY <3>1, CountFacts
  <2>5. freqWarned' \subseteq Tools /\ IsFiniteSet(freqWarned')
    <3>1. freqWarned \subseteq Tools /\ IsFiniteSet(freqWarned)
      BY <1>0 DEF DetectorTyped
    <3>2. CASE freqWarned' = freqWarned
      BY <3>1, <3>2
    <3>3. CASE \E t \in Tools : freqWarned' = freqWarned \cup {t}
      <4>1. PICK t \in Tools : freqWarned' = freqWarned \cup {t}
        BY <3>3
      <4>2. IsFiniteSet(freqWarned \cup {t})
        BY <3>1, FS_AddElement
      <4>. QED
        BY <3>1, <4>1, <4>2
    <3>. QED
      BY <2>3, <3>2, <3>3
  <2>. QED
    BY <2>1, <2>2, <2>4, <2>5, <1>0, TrackFacts DEF DetectorTyped
<1>6. CASE RunTools
  <2>. DEFINE ps == Pending(messages, LastAnswer.calls)
  <2>1. /\ ran' = [ran EXCEPT ![Len(ran)] = TRUE]
        /\ used' = [t \in Tools |-> used[t] + Uses(ps, t)]
        /\ UNCHANGED detector /\ node = "tools"
    BY <1>6 DEF RunTools
  <2>2. ps \in Seq(Call)
    BY <2>1, AnswerAtTools
  <2>. HIDE DEF ps
  <2>3. used' \in [Tools -> Nat]
    BY <2>1, <2>2, <1>0, UsesFacts DEF DetectorTyped
  <2>4. ran' \in Seq(BOOLEAN) /\ Len(ran') = Len(ran)
    <3>1. ran \in Seq(BOOLEAN)
      BY <1>0 DEF DetectorTyped
    <3>2. TRUE \in BOOLEAN
      OBVIOUS
    <3>3. [ran EXCEPT ![Len(ran)] = TRUE] \in Seq(BOOLEAN)
          /\ Len([ran EXCEPT ![Len(ran)] = TRUE]) = Len(ran)
      BY <3>1, <3>2, StillSequence
    <3>. QED
      BY <3>3, <2>1
  <2>. QED
    BY <2>1, <2>3, <2>4, <1>0 DEF DetectorTyped, detector
<1>7. ASSUME Summarize \/ Remind \/ Model \/ LoopNone \/ Limit \/ RefuseLists \/ GoToTools
             \/ End \/ Cancel \/ UNCHANGED vars
      PROVE  UNCHANGED <<detector, ran, used>>
  BY <1>7 DEF Summarize, Remind, Model, LoopNone, Limit, RefuseLists,
    GoToTools, End, Cancel, vars
<1>. QED
  BY <1>1, <1>2, <1>3, <1>4, <1>5, <1>6, <1>7 DEF Next, Step

(* Every variable keeps its type.                                          *)
LEMMA TypeStep ==
  ASSUME TypeOK, Standing, AnswerLast, [Next]_vars
  PROVE  TypeOK'
<1>1. DetectorTyped'
  BY DetectorStep
<1>2. /\ messages' \in Seq(Messages)
      /\ \A i \in DOMAIN messages' : messages'[i].calls # << >> => messages'[i].type = "ai"
  BY MessagesStand DEF Sound, WellFormed
<1>3. node' \in Nodes /\ turns' \in 0..MaxTurns
  <2>1. node \in Nodes /\ turns \in 0..MaxTurns /\ MaxTurns \in Nat
    BY BoundAssumption DEF TypeOK
  <2>2. turns' \in 0..MaxTurns
    <3>1. CASE Turn
      BY <2>1, <3>1 DEF Turn
    <3>2. Summarize \/ Remind \/ Model \/ LoopNone => turns' = turns
      BY DEF Summarize, Remind, Model, LoopNone
    <3>3. LoopStop => turns' = turns
      BY DEF LoopStop
    <3>4. LoopWarn => turns' = turns
      BY DEF LoopWarn
    <3>5. ASSUME LoopCount PROVE turns' = turns
      BY <3>5, Zenon DEF LoopCount
    <3>6. Limit \/ RefuseLists \/ GoToTools => turns' = turns
      BY DEF Limit, RefuseLists, GoToTools
    <3>7. End \/ RunTools \/ Cancel => turns' = turns
      BY DEF End, RunTools, Cancel
    <3>8. UNCHANGED vars => turns' = turns
      BY DEF vars
    <3>. QED
      BY <2>1, <3>1, <3>2, <3>3, <3>4, <3>5, <3>6, <3>7, <3>8 DEF Next, Step
  <2>3. node' \in Nodes
    <3>1. Turn \/ Summarize \/ Remind \/ Model => node' \in Nodes
      BY DEF Turn, Summarize, Remind, Model, Nodes
    <3>2. LoopNone \/ LoopStop \/ LoopWarn \/ LoopCount => node' = "limit"
      <4>1. LoopNone \/ LoopStop => node' = "limit"
        BY DEF LoopNone, LoopStop
      <4>2. LoopWarn => node' = "limit"
        BY DEF LoopWarn
      <4>3. ASSUME LoopCount PROVE node' = "limit"
        BY <4>3, Zenon DEF LoopCount
      <4>. QED
        BY <4>1, <4>2, <4>3
    <3>3. Limit \/ GoToTools \/ Cancel => node' \in Nodes
      BY DEF Limit, GoToTools, Cancel, Nodes
    <3>4. RefuseLists => node' \in {"summarize", "tools"}
      BY DEF RefuseLists
    <3>5. End \/ RunTools => node' \in {"summarize", "idle"}
      BY DEF End, RunTools
    <3>6. UNCHANGED vars => node' = node
      BY DEF vars
    <3>. QED
      BY <2>1, <3>1, <3>2, <3>3, <3>4, <3>5, <3>6 DEF Next, Step, Nodes
  <2>. QED
    BY <2>2, <2>3
<1>4. issued' \in 0..MaxCalls
  <2>1. issued \in 0..MaxCalls /\ MaxCalls \in Nat
    BY BoundAssumption DEF TypeOK
  <2>2. CASE Model
    <3>1. PICK a \in Answers : issued + Len(a) <= MaxCalls /\ issued' = issued + Len(a)
      BY <2>2 DEF Model
    <3>2. Len(a) \in Nat
      BY AnswersAssumption
    <3>. QED
      BY <2>1, <3>1, <3>2
  <2>3. CASE UNCHANGED issued
    BY <2>1, <2>3
  <2>. QED
    BY <2>2, <2>3 DEF Next, Step, Turn, Summarize, Remind, LoopNone, LoopStop,
      LoopWarn,
       LoopCount, Limit, RefuseLists, GoToTools, End, RunTools, Cancel, vars
<1>5. todos' \in [by : Nat, open : BOOLEAN]
  <2>1. todos \in [by : Nat, open : BOOLEAN]
    BY DEF TypeOK
  <2>2. CASE RunTools
    <3>. DEFINE cs == Pending(messages, LastAnswer.calls)
    <3>1. \/ todos' = todos
          \/ \E i \in DOMAIN cs : todos' = [by |-> cs[i].id, open |-> cs[i].kind = "plan"]
      BY <2>2 DEF RunTools, Lists
    <3>2. cs \in Seq(Call)
      BY <2>2, AnswerAtTools DEF RunTools
    <3>. HIDE DEF cs
    <3>3. \A i \in DOMAIN cs : cs[i].id \in Nat
      <4>1. \A i \in DOMAIN cs : cs[i] \in Call
        BY <3>2
      <4>. QED
        BY <4>1, MessageFacts
    <3>4. CASE \E i \in DOMAIN cs : todos' = [by |-> cs[i].id, open |-> cs[i].kind = "plan"]
      <4>1. PICK i \in DOMAIN cs : todos' = [by |-> cs[i].id, open |-> cs[i].kind = "plan"]
        BY <3>4
      <4>2. cs[i].id \in Nat /\ (cs[i].kind = "plan") \in BOOLEAN
        BY <3>3
      <4>. QED
        BY <4>1, <4>2
    <3>. QED
      BY <2>1, <3>1, <3>4
  <2>3. CASE UNCHANGED todos
    BY <2>1, <2>3
  <2>. QED
    BY <2>2, <2>3 DEF Next, Step, Turn, Summarize, Remind, Model, LoopNone,
      LoopStop, LoopWarn,
       LoopCount, Limit, RefuseLists, GoToTools, End, Cancel, vars
<1>. QED
  BY <1>1, <1>2, <1>3, <1>4, <1>5 DEF TypeOK, DetectorTyped

-----------------------------------------------------------------------------
(* The calls that are to come.                                             *)

(* The coming calls are calls.                                             *)
LEMMA ComingTyped ==
  ASSUME TypeOK, Standing, AnswerLast
  PROVE  /\ Coming \in Seq(Call)
         /\ node \in {"limit", "todo"} => Coming = Last(messages).calls
         /\ node \notin {"limit", "todo", "tools"} => Coming = << >>
<1>1. node \in {"limit", "todo"} => Last(messages).calls \in Seq(Call)
  BY AnswerAtEnd
<1>2. node = "tools" => Pending(messages, LastAnswer.calls) \in Seq(Call)
  BY AnswerAtTools
<1>. QED
  BY <1>1, <1>2 DEF Coming

(* After these steps no call is coming.                                    *)
LEMMA ComingEnds ==
  ASSUME Turn \/ Summarize \/ Remind \/ Model \/ End \/ RunTools \/ Cancel
  PROVE  Coming' = << >> /\ node' # "tools"
<1>1. node' \notin {"limit", "todo", "tools"}
  BY DEF Turn, Summarize, Remind, Model, End, RunTools, Cancel
<1>. QED
  BY <1>1 DEF Coming

(* The loop detector takes all the calls, or lets all of them pass.        *)
LEMMA ComingFromLoop ==
  ASSUME TypeOK, Standing, AnswerLast, node = "loop", node' = "limit"
  PROVE  /\ messages' = messages => Coming' = Last(messages).calls
         /\ messages' = Replaced(<< >>) => Coming' = << >>
<1>1. Coming' = Last(messages').calls
  BY DEF Coming
<1>2. TakenFrom(<< >>, Last(messages).calls)
  BY DEF TakenFrom
<1>3. Last(Replaced(<< >>)).calls = << >>
  BY <1>2, ReplacedFacts
<1>. QED
  BY <1>1, <1>3

(* Later on calls only get fewer.                                          *)
LEMMA ComingShrinks ==
  ASSUME TypeOK, Standing, AnswerLast, Limit \/ RefuseLists \/ GoToTools
  PROVE  /\ Coming' = << >> \/ \E I : Coming' = At(Coming, I)
         /\ node' = "tools" => Coming # << >>
<1>0. node \in {"limit", "todo"} /\ Coming = Last(messages).calls /\ Coming \in Seq(Call)
  <2>1. node \in {"limit", "todo"}
    BY DEF Limit, RefuseLists, GoToTools
  <2>. QED
    BY <2>1, ComingTyped
<1>1. CASE Limit
  <2>1. node' = "todo"
    BY <1>1 DEF Limit
  <2>2. Coming' = Last(messages').calls
    BY <2>1 DEF Coming
  <2>. QED
    BY <1>0, <1>1, <2>1, <2>2, LimitStands
<1>2. CASE (RefuseLists \/ GoToTools) /\ node' = "tools"
  <2>. DEFINE L == Len(messages)
  <2>1. /\ L \in 1..L /\ Last(messages) = messages[L] /\ messages[L].type = "ai"
        /\ \A k \in (L + 1)..L : messages[k].type = "tool"
    BY <1>0, AnswerAtEnd
  <2>2. Sound(messages', issued') /\ Sound(messages, issued)
    BY MessagesStand, StandingIsSound DEF Next, Step
  <2>3. /\ L \in 1..Len(messages') /\ messages'[L] = messages[L]
        /\ \A k \in (L + 1)..Len(messages') : messages'[k].type = "tool"
    <3>1. CASE messages' = messages
      BY <3>1, <2>1
    <3>2. CASE RefuseLists
      <4>. DEFINE cs == At(Last(messages).calls, Lists(Last(messages).calls))
      <4>1. messages' = messages \o Results(cs)
        BY <3>2 DEF RefuseLists
      <4>2. cs \in Seq(Call)
        BY <1>0, TakenFacts
      <4>. HIDE DEF cs
      <4>3. /\ Results(cs) \in Seq(Messages) /\ Len(Results(cs)) = Len(cs) /\ Len(cs) \in Nat
            /\ \A k \in 1..Len(cs) : Results(cs)[k].type = "tool"
        BY <4>2, ResultsFacts
      <4>4. messages \in Seq(Messages) /\ L \in Nat
        BY DEF TypeOK
      <4>5. Len(messages') = L + Len(cs) /\ messages'[L] = messages[L]
        <5>1. Len(messages \o Results(cs)) = L + Len(Results(cs))
          BY <4>3, <4>4, JoinedLength
        <5>2. (messages \o Results(cs))[L] = messages[L]
          BY <4>3, <4>4, <2>1
        <5>. QED
          BY <5>1, <5>2, <4>1, <4>3
      <4>6. ASSUME NEW k \in (L + 1)..Len(messages')
            PROVE messages'[k].type = "tool"
        <5>1. k - L \in 1..Len(cs) /\ messages'[k] = Results(cs)[k - L]
          BY <4>1, <4>3, <4>4, <4>5
        <5>. QED
          BY <5>1, <4>3
      <4>. QED
        BY <4>3, <4>4, <4>5, <4>6, <2>1
    <3>. QED
      BY <1>2, <3>1, <3>2 DEF GoToTools
  <2>4. LastAnswer' = messages[L]
    <3>. DEFINE ms == messages'
                o == issued'
    <3>1. Sound(ms, o) /\ L \in 1..Len(ms) /\ ms[L] = messages[L]
          /\ ms[L].type = "ai" /\ \A k \in (L + 1)..Len(ms) : ms[k].type = "tool"
      BY <2>1, <2>2, <2>3
    <3>. HIDE DEF ms, o, L
    <3>2. (CHOOSE i \in OfType(ms, "ai") : \A j \in OfType(ms, "ai") : j <= i) = L
      BY <3>1, LastAnswerIs
    <3>3. LastAnswer' = ms[CHOOSE i \in OfType(ms, "ai") : \A j \in OfType(ms, "ai") : j <= i]
      BY DEF LastAnswer, ms
    <3>. QED
      BY <3>1, <3>2, <3>3
  <2>5. Coming' = Pending(messages', LastAnswer'.calls)
    BY <1>2 DEF Coming
  <2>6. Coming' = Pending(messages', Coming)
    BY <1>0, <2>1, <2>4, <2>5
  <2>7. Pending(messages', Coming) =
          At(Coming, {i \in DOMAIN Coming : Coming[i].id \notin Answered(messages')})
    BY DEF Pending
  <2>8. Coming # << >>
    <3>1. CASE GoToTools
      BY <3>1, <1>0 DEF GoToTools
    <3>2. CASE RefuseLists
      <4>1. Cardinality(Lists(Last(messages).calls)) > 1
        BY <3>2 DEF RefuseLists
      <4>2. Last(messages).calls = << >> => Lists(Last(messages).calls) = {}
        BY DEF Lists
      <4>3. Lists(Last(messages).calls) # {}
        BY <4>1, FS_EmptySet
      <4>. QED
        BY <4>2, <4>3, <1>0
    <3>. QED
      BY <1>2, <3>1, <3>2
  <2>. QED
    BY <2>6, <2>7, <2>8
<1>3. CASE RefuseLists /\ node' # "tools"
  <2>1. node' = "summarize"
    BY <1>3 DEF RefuseLists
  <2>. QED
    BY <2>1 DEF Coming
<1>4. GoToTools => node' = "tools"
  BY DEF GoToTools
<1>. QED
  BY <1>1, <1>2, <1>3, <1>4

-----------------------------------------------------------------------------
(* A model that works on a list is shown it.                               *)

(* ListsInOrder of a history, a list and whether the last answer may still *)
(* lose its calls.                                                         *)
InOrder(ms, by, late) ==
  \A i \in 1..Len(ms) : Shown(ms[i]) # {} =>
    \E j \in i..Len(ms) : /\ late => j < Len(ms) \/ i = j
                          /\ \E n \in Shown(ms[j]) : n >= by
Hides(ms) == \A i \in 1..Len(ms) : Shown(ms[i]) = {}

(* What is shown by a message without calls, and by one with a list.       *)
LEMMA ShownFacts ==
  /\ \A m \in Messages : m.calls = << >> /\ m.type # "todo_reminder" => Shown(m) = {}
  /\ \A m \in Messages : m.type = "todo_reminder" => m.id \in Shown(m)
  /\ \A m \in Messages : \A k \in 1..Len(m.calls) : IsTodos(m.calls[k]) => m.calls[k].id \in Shown(m)
  /\ \A m \in Messages : \A n \in Shown(m) :
       m.type = "todo_reminder" \/ \E k \in 1..Len(m.calls) : IsTodos(m.calls[k]) /\ n = m.calls[k].id
<1>1. \A m \in Messages : m.calls \in Seq(Call) /\ DOMAIN m.calls = 1..Len(m.calls)
  BY MessageFacts
<1>2. ASSUME NEW m \in Messages, m.calls = << >>, m.type # "todo_reminder" PROVE Shown(m) = {}
  <2>1. Lists(m.calls) = {}
    BY <1>2 DEF Lists
  <2>. QED
    BY <2>1, <1>2 DEF Shown
<1>3. ASSUME NEW m \in Messages, m.type = "todo_reminder" PROVE m.id \in Shown(m)
  BY <1>3 DEF Shown
<1>4. ASSUME NEW m \in Messages, NEW k \in 1..Len(m.calls), IsTodos(m.calls[k])
      PROVE  m.calls[k].id \in Shown(m)
  <2>1. k \in Lists(m.calls)
    BY <1>1, <1>4 DEF Lists
  <2>. QED
    BY <2>1 DEF Shown
<1>5. ASSUME NEW m \in Messages, NEW n \in Shown(m), m.type # "todo_reminder"
      PROVE  \E k \in 1..Len(m.calls) : IsTodos(m.calls[k]) /\ n = m.calls[k].id
  BY <1>1, <1>5 DEF Shown, Lists
<1>. QED
  BY <1>2, <1>3, <1>4, <1>5

(* A message at the end.                                                   *)
LEMMA OrderAppended ==
  ASSUME NEW ms \in Seq(Messages), NEW by, InOrder(ms, by, FALSE), NEW m \in Messages,
         Shown(m) # {} => \E n \in Shown(m) : n >= by
  PROVE  InOrder(Append(ms, m), by, TRUE)
<1>. DEFINE ns == Append(ms, m)
            L == Len(ms)
<1>1. /\ L \in Nat /\ Len(ns) = L + 1 /\ ns[L + 1] = m
      /\ \A i \in 1..L : ns[i] = ms[i]
  OBVIOUS
<1>. HIDE DEF ns
<1>2. ASSUME NEW i \in 1..Len(ns), Shown(ns[i]) # {}
      PROVE  \E j \in i..Len(ns) : (j < Len(ns) \/ i = j) /\ \E n \in Shown(ns[j]) : n >= by
  <2>1. CASE i = L + 1
    BY <2>1, <1>1, <1>2
  <2>2. CASE i # L + 1
    <3>1. i \in 1..L /\ Shown(ms[i]) # {}
      BY <2>2, <1>1, <1>2
    <3>2. PICK j \in i..L : \E n \in Shown(ms[j]) : n >= by
      BY <3>1 DEF InOrder
    <3>3. j \in i..Len(ns) /\ j < Len(ns) /\ ns[j] = ms[j]
      BY <3>1, <3>2, <1>1
    <3>. QED
      BY <3>2, <3>3
  <2>. QED
    BY <2>1, <2>2
<1>. QED
  BY <1>2 DEF InOrder, ns

(* Nothing is lost when the last answer has come to stay.                  *)
LEMMA OrderStays ==
  ASSUME NEW ms, NEW by, NEW late \in BOOLEAN, InOrder(ms, by, late)
  PROVE  InOrder(ms, by, FALSE)
BY DEF InOrder

(* Messages that show no list, in front and at the end.                    *)
LEMMA OrderBetween ==
  ASSUME NEW ms \in Seq(Messages), NEW by, InOrder(ms, by, FALSE),
         NEW ps \in Seq(Messages), Hides(ps), NEW rs \in Seq(Messages), Hides(rs)
  PROVE  InOrder(ps \o ms, by, FALSE) /\ InOrder(ms \o rs, by, FALSE)
<1>. DEFINE P == Len(ps)
            L == Len(ms)
            R == Len(rs)
<1>1. P \in Nat /\ L \in Nat /\ R \in Nat
  OBVIOUS
<1>2. /\ Len(ps \o ms) = P + L
      /\ \A i \in 1..P : (ps \o ms)[i] = ps[i]
      /\ \A i \in (P + 1)..(P + L) : (ps \o ms)[i] = ms[i - P] /\ i - P \in 1..L
      /\ \A i \in 1..L : (ps \o ms)[P + i] = ms[i]
  BY <1>1
<1>3. /\ Len(ms \o rs) = L + R
      /\ \A i \in 1..L : (ms \o rs)[i] = ms[i]
      /\ \A i \in (L + 1)..(L + R) : (ms \o rs)[i] = rs[i - L] /\ i - L \in 1..R
  BY <1>1
<1>4. ASSUME NEW i \in 1..(P + L), Shown((ps \o ms)[i]) # {}
      PROVE  \E j \in i..(P + L) : \E n \in Shown((ps \o ms)[j]) : n >= by
  <2>0. \A x \in 1..P : Shown((ps \o ms)[x]) = {}
    BY <1>2 DEF Hides
  <2>1. i \in (P + 1)..(P + L)
    <3>1. ~ (i \in 1..P)
      BY <2>0, <1>4
    <3>. QED
      BY <3>1, <1>1
  <2>2. PICK x \in 1..L : x = i - P /\ (ps \o ms)[i] = ms[x]
    BY <2>1, <1>2
  <2>3. PICK y \in x..L : \E n \in Shown(ms[y]) : n >= by
    BY <2>2, <1>4 DEF InOrder
  <2>4. P + y \in i..(P + L) /\ (ps \o ms)[P + y] = ms[y]
    BY <2>1, <2>2, <2>3, <1>1, <1>2
  <2>. QED
    BY <2>3, <2>4
<1>5. ASSUME NEW i \in 1..(L + R), Shown((ms \o rs)[i]) # {}
      PROVE  \E j \in i..(L + R) : \E n \in Shown((ms \o rs)[j]) : n >= by
  <2>0. \A x \in (L + 1)..(L + R) : Shown((ms \o rs)[x]) = {}
    BY <1>3 DEF Hides
  <2>1. i \in 1..L
    <3>1. ~ (i \in (L + 1)..(L + R))
      BY <2>0, <1>5
    <3>. QED
      BY <3>1, <1>1
  <2>2. PICK y \in i..L : \E n \in Shown(ms[y]) : n >= by
    BY <2>1, <1>3, <1>5 DEF InOrder
  <2>3. y \in i..(L + R) /\ (ms \o rs)[y] = ms[y]
    BY <2>1, <2>2, <1>1, <1>3
  <2>. QED
    BY <2>2, <2>3
<1>6. InOrder(ps \o ms, by, FALSE)
  BY <1>2, <1>4 DEF InOrder
<1>7. InOrder(ms \o rs, by, FALSE)
  BY <1>3, <1>5 DEF InOrder
<1>. QED
  BY <1>6, <1>7

(* The end of a history.                                                   *)
LEMMA OrderRest ==
  ASSUME NEW ms \in Seq(Messages), NEW by, InOrder(ms, by, FALSE), NEW c \in 1..(Len(ms) - 1)
  PROVE  /\ SubSeq(ms, c + 1, Len(ms)) \in Seq(Messages)
         /\ InOrder(SubSeq(ms, c + 1, Len(ms)), by, FALSE)
<1>. DEFINE qs == SubSeq(ms, c + 1, Len(ms))
            L == Len(ms)
<1>1. /\ L \in Nat /\ c \in Nat /\ Len(qs) = L - c
      /\ \A i \in 1..(L - c) : qs[i] = ms[c + i]
  OBVIOUS
<1>3. qs \in Seq(Messages)
  OBVIOUS
<1>. HIDE DEF qs
<1>2. ASSUME NEW i \in 1..(L - c), Shown(qs[i]) # {}
      PROVE  \E j \in i..(L - c) : \E n \in Shown(qs[j]) : n >= by
  <2>1. PICK x \in 1..L : x = c + i /\ qs[i] = ms[x]
    BY <1>1
  <2>2. PICK y \in x..L : \E n \in Shown(ms[y]) : n >= by
    BY <2>1, <1>2 DEF InOrder
  <2>3. PICK j \in i..(L - c) : y = c + j
    <3>1. y - c \in i..(L - c) /\ y = c + (y - c)
      BY <2>1, <2>2, <1>1
    <3>. QED
      BY <3>1
  <2>4. qs[j] = ms[y]
    BY <2>3, <1>1
  <2>. QED
    BY <2>2, <2>4
<1>4. InOrder(qs, by, FALSE)
  BY <1>1, <1>2 DEF InOrder
<1>. QED
  BY <1>3, <1>4 DEF qs

(* Calls are taken from the last answer, either all or no list.            *)
LEMMA OrderReplaced ==
  ASSUME NEW ms \in Seq(Messages), ms # << >>, NEW by, InOrder(ms, by, TRUE), NEW cs \in Seq(Call),
         LET m == [ms[Len(ms)] EXCEPT !.calls = cs]
         IN  Shown(m) = {} \/ Shown(m) = Shown(ms[Len(ms)])
  PROVE  InOrder([ms EXCEPT ![Len(ms)].calls = cs], by, TRUE)
<1>. DEFINE L == Len(ms)
            m == [ms[L] EXCEPT !.calls = cs]
            ns == [ms EXCEPT ![L].calls = cs]
<1>1. L \in Nat /\ L >= 1 /\ L \in 1..L
  OBVIOUS
<1>2. Len(ns) = L /\ ns[L] = m /\ \A i \in 1..L : i # L => ns[i] = ms[i]
  BY <1>1
<1>3. Shown(m) = {} \/ Shown(m) = Shown(ms[L])
  OBVIOUS
<1>. HIDE DEF ns, m
<1>4. ASSUME NEW i \in 1..L, Shown(ns[i]) # {}
      PROVE  \E j \in i..L : (j < L \/ i = j) /\ \E n \in Shown(ns[j]) : n >= by
  <2>1. Shown(ms[i]) = Shown(ns[i])
    BY <1>2, <1>3, <1>4
  <2>2. PICK j \in i..L : (j < L \/ i = j) /\ \E n \in Shown(ms[j]) : n >= by
    BY <2>1, <1>4 DEF InOrder
  <2>3. Shown(ns[j]) = Shown(ms[j])
    <3>1. CASE i = j
      BY <3>1, <2>1
    <3>2. CASE j < L
      <4>1. j \in 1..L /\ j # L
        BY <3>2, <1>1
      <4>. QED
        BY <4>1, <1>2
    <3>. QED
      BY <2>2, <3>1, <3>2
  <2>. QED
    BY <2>2, <2>3
<1>5. InOrder(ns, by, TRUE)
  BY <1>2, <1>4 DEF InOrder
<1>. QED
  BY <1>5 DEF ns

(* What is rescued shows no list.                                          *)
LEMMA RescuedHides ==
  ASSUME NEW n, NEW ms, Sound(ms, n), NEW S \in Selections(ms)
  PROVE  Rescued(ms, S) \in Seq(Messages) /\ Hides(Rescued(ms, S))
<1>. DEFINE base == [i \in DOMAIN ms |->
                      IF i \in S THEN [ms[i] EXCEPT !.calls = SkillReads(ms, i)] ELSE ms[i]]
            I == S \cup UNION {SkillResults(ms, i) : i \in S}
            ns == At(base, I)
<1>1. /\ ms \in Seq(Messages) /\ Len(ms) \in Nat /\ DOMAIN ms = 1..Len(ms)
      /\ \A i \in 1..Len(ms) : /\ ms[i] \in Messages /\ ms[i].calls \in Seq(Call)
                               /\ DOMAIN ms[i].calls = 1..Len(ms[i].calls)
                               /\ ms[i].calls # << >> => ms[i].type = "ai"
  BY SoundFacts
<1>2. S \subseteq 1..Len(ms) /\ \A i \in S : SkillResults(ms, i) # {}
  BY <1>1 DEF Selections
<1>3. \A i \in 1..Len(ms) : \A j \in SkillResults(ms, i) :
        j \in 1..Len(ms) /\ ms[j].type = "tool" /\ ms[i].type = "ai"
  <2>. SUFFICES ASSUME NEW i \in 1..Len(ms), NEW j \in SkillResults(ms, i)
                PROVE  j \in 1..Len(ms) /\ ms[j].type = "tool" /\ ms[i].type = "ai"
    OBVIOUS
  <2>1. j \in 1..Len(ms) /\ j > i /\ \A k \in (i + 1)..j : ms[k].type = "tool"
    BY <1>1 DEF SkillResults
  <2>2. PICK c \in ToSet(ms[i].calls) : TRUE
    BY DEF SkillResults
  <2>3. ms[i].calls # << >>
    BY <2>2 DEF ToSet
  <2>4. j \in (i + 1)..j
    BY <2>1
  <2>. QED
    BY <2>1, <2>3, <2>4, <1>1
<1>4. ASSUME NEW i \in 1..Len(ms)
      PROVE  SkillReads(ms, i) \in Seq(Call)
             /\ \A k \in 1..Len(SkillReads(ms, i)) : ~ IsTodos(SkillReads(ms, i)[k])
  <2>. DEFINE cs == ms[i].calls
              reads == {m \in 1..Len(cs) : \E j \in SkillResults(ms, i) : ms[j].id = cs[m].id}
              As == SkillReads(ms, i)
  <2>1. As = At(cs, reads)
    BY <1>1 DEF SkillReads
  <2>2. cs \in Seq(Call) /\ \A m \in 1..Len(cs) : cs[m] \in Call /\ cs[m].kind \in Kinds
    BY <1>1, MessageFacts
  <2>3. \A m \in reads : cs[m].kind = "skill"
    <3>. SUFFICES ASSUME NEW m \in reads PROVE cs[m].kind = "skill"
      OBVIOUS
    <3>1. PICK j \in SkillResults(ms, i) : ms[j].id = cs[m].id
      OBVIOUS
    <3>2. PICK c \in ToSet(ms[i].calls) : c.kind = "skill" /\ c.id = ms[j].id
      BY DEF SkillResults
    <3>3. PICK l \in 1..Len(cs) : cs[l] = c
      BY <1>1, <3>2 DEF ToSet
    <3>4. cs[l].id = cs[m].id /\ m \in 1..Len(cs)
      BY <3>1, <3>2, <3>3
    <3>5. l = m
      BY <3>4, OwnCallsApart
    <3>. QED
      BY <3>2, <3>3, <3>5
  <2>. HIDE DEF cs, reads, As
  <2>4. /\ At(cs, reads) \in Seq(Call)
        /\ \A k \in 1..Len(At(cs, reads)) : \E m \in reads \cap (1..Len(cs)) :
             At(cs, reads)[k] = cs[m]
    BY <2>2, TakenFacts
  <2>5. ASSUME NEW k \in 1..Len(As) PROVE ~ IsTodos(As[k])
    <3>1. PICK m \in reads \cap (1..Len(cs)) : As[k] = cs[m]
      BY <2>1, <2>4, Zenon
    <3>2. As[k].kind = "skill" /\ As[k].kind \in Kinds
      BY <3>1, <2>2, <2>3
    <3>. QED
      BY <3>2, ToolAssumption DEF IsTodos
  <2>6. As \in Seq(Call)
    BY <2>1, <2>4, Zenon
  <2>. QED
    BY <2>5, <2>6 DEF As
<1>5. \A i \in 1..Len(ms) : base[i] \in Messages
  BY <1>1, <1>4 DEF Messages
<1>6. base \in Seq(Messages) /\ Len(base) = Len(ms)
  BY <1>1, <1>5
<1>7. \A i \in I : i \in 1..Len(ms) /\ Shown(base[i]) = {}
  <2>1. ASSUME NEW i \in S PROVE i \in 1..Len(ms) /\ Shown(base[i]) = {}
    <3>1. i \in 1..Len(ms) /\ ms[i].type = "ai"
      BY <1>2, <1>3
    <3>2. base[i] \in Messages /\ base[i].type = "ai" /\ base[i].calls = SkillReads(ms, i)
      BY <3>1, <1>1, <1>5 DEF Messages
    <3>. HIDE DEF base
    <3>3. \A n_1 \in Shown(base[i]) : FALSE
      BY <3>1, <3>2, <1>4, ShownFacts
    <3>. QED
      BY <3>1, <3>3
  <2>2. ASSUME NEW i \in S, NEW j \in SkillResults(ms, i), j \notin S
        PROVE  j \in 1..Len(ms) /\ Shown(base[j]) = {}
    <3>1. j \in 1..Len(ms) /\ ms[j].type = "tool" /\ base[j] = ms[j]
      BY <1>1, <1>2, <1>3, <2>2
    <3>2. ms[j].calls = << >> /\ ms[j] \in Messages
      BY <3>1, <1>1
    <3>. QED
      BY <3>1, <3>2, ShownFacts
  <2>. QED
    BY <2>1, <2>2
<1>. HIDE DEF base, I
<1>8. ns \in Seq(Messages) /\ \E h : Picks(base, I, h)
  BY <1>6, AtFacts
<1>9. PICK h : Picks(base, I, h)
  BY <1>8
<1>10. ASSUME NEW x \in 1..Len(ns) PROVE Shown(ns[x]) = {}
  <2>1. h[x] \in I /\ ns[x] = base[h[x]]
    BY <1>9 DEF Picks
  <2>. QED
    BY <2>1, <1>7
<1>11. ns = Rescued(ms, S)
  BY DEF Rescued, base, I
<1>. HIDE DEF ns
<1>12. Hides(ns)
  BY <1>10 DEF Hides
<1>. QED
  BY <1>8, <1>11, <1>12

(* ListsInOrder by these words.                                            *)
Late == node \in {"loop", "limit", "todo"}
OrderNow(ms, by) == InOrder(ms, by, FALSE) /\ (Late => InOrder(ms, by, TRUE))
LEMMA OrderIs ==
  /\ TypeOK => (ListsInOrder <=> todos.by <= issued /\ OrderNow(messages, todos.by))
  /\ messages' \in Seq(Messages) =>
       (ListsInOrder' <=> /\ todos'.by <= issued' /\ InOrder(messages', todos'.by, FALSE)
                          /\ Late' => InOrder(messages', todos'.by, TRUE))
<1>1. \A ms \in Seq(Messages) : DOMAIN ms = 1..Len(ms)
  OBVIOUS
<1>2. ASSUME TypeOK
      PROVE  ListsInOrder <=> todos.by <= issued /\ OrderNow(messages, todos.by)
  <2>1. DOMAIN messages = 1..Len(messages)
    BY <1>1, <1>2 DEF TypeOK
  <2>2. CASE Late
    BY <2>1, <2>2 DEF ListsInOrder, OrderNow, InOrder, Late
  <2>3. CASE ~ Late
    BY <2>1, <2>3 DEF ListsInOrder, OrderNow, InOrder, Late
  <2>. QED
    BY <2>2, <2>3
<1>3. ASSUME messages' \in Seq(Messages)
      PROVE  ListsInOrder' <=> /\ todos'.by <= issued' /\ InOrder(messages', todos'.by, FALSE)
                               /\ Late' => InOrder(messages', todos'.by, TRUE)
  <2>1. DOMAIN messages' = 1..Len(messages')
    BY <1>1, <1>3
  <2>2. CASE Late'
    BY <2>1, <2>2 DEF ListsInOrder, InOrder, Late
  <2>3. CASE ~ Late'
    BY <2>1, <2>3 DEF ListsInOrder, InOrder, Late
  <2>. QED
    BY <2>2, <2>3
<1>. QED
  BY <1>2, <1>3

(* A summary keeps the end of the history, and shows no list before it.    *)
LEMMA SummarizeOrder ==
  ASSUME TypeOK, Standing, ListsInOrder, Summarize
  PROVE  InOrder(messages', todos.by, FALSE)
<1>1. Sound(messages, issued) /\ messages \in Seq(Messages)
  BY StandingIsSound DEF TypeOK
<1>2. InOrder(messages, todos.by, FALSE)
  BY OrderIs DEF OrderNow
<1>3. CASE messages' = messages
  BY <1>2, <1>3
<1>4. ASSUME Cutoff > 0, NEW S \in Selections(SubSeq(messages, 1, Cutoff)),
             messages' = <<Note("summary")>> \o Rescued(SubSeq(messages, 1, Cutoff), S)
                         \o SubSeq(messages, Cutoff + 1, Len(messages))
      PROVE  InOrder(messages', todos.by, FALSE)
  <2>. DEFINE c == Cutoff
              ps == SubSeq(messages, 1, c)
              rs == Rescued(ps, S)
              qs == SubSeq(messages, c + 1, Len(messages))
              note == <<Note("summary")>>
  <2>1. c \in 1..(Len(messages) - 1)
    BY <1>1, <1>4, CutoffFacts
  <2>2. messages' = note \o rs \o qs /\ S \in Selections(ps)
    BY <1>4
  <2>. HIDE DEF c
  <2>3. Sound(ps, issued)
    BY <1>1, <2>1, SoundStart
  <2>4. InOrder(qs, todos.by, FALSE) /\ qs \in Seq(Messages)
    BY <1>1, <1>2, <2>1, OrderRest
  <2>. HIDE DEF ps, qs
  <2>5. rs \in Seq(Messages) /\ Hides(rs)
    BY <2>2, <2>3, RescuedHides
  <2>. HIDE DEF rs
  <2>6. note \in Seq(Messages) /\ Hides(note)
    <3>1. Note("summary") \in Messages /\ Note("summary").calls = << >>
          /\ Note("summary").type = "summary"
      BY NoteFacts DEF Types, Note, Message
    <3>2. Shown(Note("summary")) = {}
      BY <3>1, ShownFacts
    <3>. QED
      BY <3>1, <3>2 DEF Hides
  <2>. HIDE DEF note
  <2>7. note \o rs \in Seq(Messages) /\ Hides(note \o rs)
    <3>1. note \o rs \in Seq(Messages) /\ Len(note) \in Nat /\ Len(rs) \in Nat
          /\ Len(note \o rs) = Len(note) + Len(rs)
      BY <2>5, <2>6
    <3>2. ASSUME NEW x \in 1..(Len(note) + Len(rs)) PROVE Shown((note \o rs)[x]) = {}
      <4>1. CASE x \in 1..Len(note)
        <5>1. (note \o rs)[x] = note[x]
          BY <4>1, <2>5, <2>6
        <5>. QED
          BY <4>1, <5>1, <2>6 DEF Hides
      <4>2. CASE ~ (x \in 1..Len(note))
        <5>1. (note \o rs)[x] = rs[x - Len(note)] /\ x - Len(note) \in 1..Len(rs)
          BY <4>2, <3>1, <2>5, <2>6
        <5>. QED
          BY <5>1, <2>5 DEF Hides
      <4>. QED
        BY <4>1, <4>2
    <3>. QED
      BY <3>1, <3>2 DEF Hides
  <2>8. InOrder((note \o rs) \o qs, todos.by, FALSE)
    BY <2>4, <2>7, OrderBetween
  <2>. QED
    BY <2>2, <2>8
<1>. QED
  BY <1>3, <1>4 DEF Summarize

(* The calls that the subagent limit drops write no list.                  *)
LEMMA LimitOrder ==
  ASSUME TypeOK, Standing, AnswerLast, ListsInOrder, Limit
  PROVE  InOrder(messages', todos.by, TRUE)
<1>. DEFINE calls == Last(messages).calls
            tasks(i) == {j \in 1..i : calls[j].kind = "task"}
            kept == {i \in DOMAIN calls :
                       calls[i].kind = "task" => Cardinality(tasks(i)) <= MaxConcurrent}
            cs == At(calls, kept)
            L == Len(messages)
            m == [messages[L] EXCEPT !.calls = cs]
<1>1. node = "limit" /\ messages' = [messages EXCEPT ![L].calls = cs]
  BY DEF Limit, Replaced
<1>2. /\ L \in 1..L /\ messages # << >> /\ Last(messages) = messages[L]
      /\ messages[L].type = "ai" /\ calls \in Seq(Call)
  BY <1>1, AnswerAtEnd
<1>3. /\ messages \in Seq(Messages) /\ messages[L] \in Messages /\ calls = messages[L].calls
      /\ DOMAIN calls = 1..Len(calls) /\ \A k \in 1..Len(calls) : calls[k].kind \in Kinds
  BY <1>2, MessageFacts DEF TypeOK
<1>4. InOrder(messages, todos.by, TRUE)
  BY <1>1, OrderIs DEF OrderNow, Late
<1>5. \A k \in 1..Len(calls) : IsTodos(calls[k]) => k \in kept
  BY <1>3, ToolAssumption DEF IsTodos
<1>6. kept \subseteq 1..Len(calls)
  BY <1>3
<1>. HIDE DEF calls, kept
<1>7. /\ cs \in Seq(Call)
      /\ \A k \in 1..Len(cs) : \E l \in kept \cap (1..Len(calls)) : cs[k] = calls[l]
      /\ \A l \in kept \cap (1..Len(calls)) : \E k \in 1..Len(cs) : cs[k] = calls[l]
  BY <1>2, TakenFacts
<1>. HIDE DEF cs
<1>8. m \in Messages /\ m.type = "ai" /\ m.calls = cs
  BY <1>2, <1>3, <1>7 DEF Messages
<1>. HIDE DEF m
<1>9. Shown(m) \subseteq Shown(messages[L])
  <2>. SUFFICES ASSUME NEW n \in Shown(m) PROVE n \in Shown(messages[L])
    OBVIOUS
  <2>1. PICK k \in 1..Len(cs) : IsTodos(cs[k]) /\ n = cs[k].id
    BY <1>8, ShownFacts
  <2>2. PICK l \in 1..Len(calls) : cs[k] = calls[l]
    BY <1>7
  <2>. QED
    BY <2>1, <2>2, <1>3, ShownFacts
<1>10. Shown(messages[L]) \subseteq Shown(m)
  <2>. SUFFICES ASSUME NEW n \in Shown(messages[L]) PROVE n \in Shown(m)
    OBVIOUS
  <2>1. PICK l \in 1..Len(calls) : IsTodos(calls[l]) /\ n = calls[l].id
    BY <1>2, <1>3, ShownFacts
  <2>2. PICK k \in 1..Len(cs) : cs[k] = calls[l]
    BY <2>1, <1>5, <1>7
  <2>. QED
    BY <2>1, <2>2, <1>8, ShownFacts
<1>11. Shown(m) = Shown(messages[L])
  BY <1>9, <1>10
<1>12. InOrder([messages EXCEPT ![L].calls = cs], todos.by, TRUE)
  BY <1>2, <1>3, <1>4, <1>7, <1>11, OrderReplaced DEF m
<1>. QED
  BY <1>1, <1>12

(* The results of some calls show no list.                                 *)
LEMMA ResultsHide ==
  ASSUME NEW cs \in Seq(Call)
  PROVE  Results(cs) \in Seq(Messages) /\ Hides(Results(cs))
<1>1. /\ Results(cs) \in Seq(Messages) /\ Len(Results(cs)) = Len(cs)
      /\ \A k \in 1..Len(cs) : Results(cs)[k].type = "tool" /\ Results(cs)[k].calls = << >>
  BY ResultsFacts
<1>2. \A k \in 1..Len(cs) : Results(cs)[k] \in Messages
  BY <1>1
<1>. QED
  BY <1>1, <1>2, ShownFacts DEF Hides

(* The tools write the list of the last answer, which stands there.        *)
LEMMA ToolsOrder ==
  ASSUME TypeOK, Standing, AnswerLast, ListsInOrder, RunTools
  PROVE  InOrder(messages', todos'.by, FALSE) /\ todos'.by <= issued
<1>. DEFINE cs == Pending(messages, LastAnswer.calls)
            L == Len(messages)
<1>1. /\ node = "tools" /\ messages' = messages \o Results(cs)
      /\ \/ todos' = todos
         \/ \E i \in Lists(cs) : todos' = [by |-> cs[i].id, open |-> cs[i].kind = "plan"]
  BY DEF RunTools
<1>2. /\ cs \in Seq(Call) /\ LastAnswer.calls \in Seq(Call)
      /\ \A k \in 1..Len(cs) : \E m \in 1..Len(LastAnswer.calls) : cs[k] = LastAnswer.calls[m]
  BY <1>1, AnswerAtTools
<1>3. PICK a \in 1..L :
        /\ LastAnswer = messages[a]
        /\ \A k \in (a + 1)..L : messages[k].type = "tool"
  BY <1>1, AnswerAtTools
<1>4. Sound(messages, issued) /\ messages \in Seq(Messages) /\ L \in Nat
  BY StandingIsSound DEF TypeOK
<1>5. todos.by <= issued /\ InOrder(messages, todos.by, FALSE)
  BY OrderIs DEF OrderNow
<1>. HIDE DEF cs
<1>6. Results(cs) \in Seq(Messages) /\ Hides(Results(cs))
  BY <1>2, ResultsHide
<1>7. CASE todos' = todos
  <2>1. InOrder(messages \o Results(cs), todos.by, FALSE)
    BY <1>4, <1>5, <1>6, OrderBetween
  <2>. QED
    BY <2>1, <1>1, <1>5, <1>7
<1>8. ASSUME NEW i \in Lists(cs), todos' = [by |-> cs[i].id, open |-> cs[i].kind = "plan"]
      PROVE  InOrder(messages', todos'.by, FALSE) /\ todos'.by <= issued
  <2>1. i \in 1..Len(cs) /\ IsTodos(cs[i])
    BY <1>2 DEF Lists
  <2>2. PICK k \in 1..Len(messages[a].calls) : cs[i] = messages[a].calls[k]
    BY <2>1, <1>2, <1>3
  <2>. DEFINE by == cs[i].id
  <2>3. by \in Nat /\ by <= issued
    BY <2>2, <1>4, SoundCalls
  <2>4. messages[a] \in Messages
    BY <1>4
  <2>5. by \in Shown(messages[a])
    BY <2>1, <2>2, <2>4, ShownFacts
  <2>6. \A x \in 1..L : Shown(messages[x]) # {} => x <= a
    <3>. SUFFICES ASSUME NEW x \in 1..L, x > a PROVE Shown(messages[x]) = {}
      BY <1>4
    <3>1. messages[x] \in Messages /\ messages[x].type = "tool"
      BY <1>3, <1>4
    <3>2. messages[x].calls = << >>
      BY <3>1, <1>4, SoundFacts
    <3>. QED
      BY <3>1, <3>2, ShownFacts
  <2>. HIDE DEF by
  <2>7. InOrder(messages, by, FALSE)
    <3>. SUFFICES ASSUME NEW x \in 1..L, Shown(messages[x]) # {}
                  PROVE  \E j \in x..L : \E n \in Shown(messages[j]) : n >= by
      BY DEF InOrder
    <3>0. x <= a
      BY <2>6
    <3>1. a \in x..L
      BY <3>0, <1>4
    <3>. QED
      BY <3>1, <2>3, <2>5
  <2>8. InOrder(messages \o Results(cs), by, FALSE)
    BY <2>7, <1>4, <1>6, OrderBetween
  <2>9. todos'.by = by
    BY <1>8 DEF by
  <2>. QED
    BY <2>3, <2>8, <2>9, <1>1
<1>. QED
  BY <1>1, <1>7, <1>8

(* The other steps add a message at the end, or take the calls of the last *)
(* answer.                                                                 *)
LEMMA OtherOrder ==
  ASSUME TypeOK, Standing, AnswerLast, ListsInOrder,
         Turn \/ Remind \/ Model \/ LoopNone \/ LoopStop \/ LoopWarn \/ LoopCount
           \/ RefuseLists \/ GoToTools \/ End \/ Cancel
  PROVE  /\ InOrder(messages', todos.by, FALSE)
         /\ Late' => InOrder(messages', todos.by, TRUE)
         /\ UNCHANGED todos
<1>. DEFINE by == todos.by
<1>1. /\ messages \in Seq(Messages) /\ by \in Nat /\ issued \in Nat /\ by <= issued
      /\ InOrder(messages, by, FALSE) /\ (Late => InOrder(messages, by, TRUE))
  <2>1. messages \in Seq(Messages) /\ by \in Nat /\ issued \in Nat
    BY BoundAssumption DEF TypeOK
  <2>2. by <= issued /\ OrderNow(messages, by)
    BY OrderIs
  <2>. QED
    BY <2>1, <2>2 DEF OrderNow
<1>2. ASSUME NEW m \in Messages, Shown(m) # {} => \E n \in Shown(m) : n >= by
      PROVE  InOrder(Append(messages, m), by, TRUE) /\ InOrder(Append(messages, m), by, FALSE)
  <2>1. InOrder(Append(messages, m), by, TRUE)
    BY <1>1, <1>2, OrderAppended
  <2>. QED
    BY <2>1, OrderStays
<1>3. \A type \in {"human", "todo_completion_reminder"} :
        /\ InOrder(Append(messages, Note(type)), by, TRUE)
        /\ InOrder(Append(messages, Note(type)), by, FALSE)
  <2>1. \A type \in {"human", "todo_completion_reminder"} :
          Note(type) \in Messages /\ Note(type).calls = << >> /\ Note(type).type = type
    BY NoteFacts DEF Types, Note, Message
  <2>2. \A type \in {"human", "todo_completion_reminder"} : Shown(Note(type)) = {}
    BY <2>1, ShownFacts
  <2>. QED
    BY <2>1, <2>2, <1>2
<1>4. CASE Turn
  <2>1. messages' = Append(messages, Note("human")) /\ node' = "summarize" /\ UNCHANGED todos
    BY <1>4 DEF Turn
  <2>. QED
    BY <2>1, <1>3 DEF Late
<1>5. CASE Remind
  <2>. DEFINE m == Message("todo_reminder", << >>, by)
  <2>1. m \in Messages /\ m.type = "todo_reminder" /\ m.id = by
    BY <1>1, NoteFacts DEF Types, Message
  <2>2. by \in Shown(m) /\ by >= by
    BY <2>1, <1>1, ShownFacts
  <2>3. messages' = messages \/ messages' = Append(messages, m)
    BY <1>5 DEF Remind
  <2>4. ~ Late' /\ UNCHANGED todos
    BY <1>5 DEF Remind, Late
  <2>. HIDE DEF m
  <2>5. InOrder(Append(messages, m), by, FALSE)
    BY <2>1, <2>2, <1>2
  <2>. QED
    BY <2>3, <2>4, <2>5, <1>1
<1>6. CASE Model
  <2>1. PICK a \in Answers :
          messages' = Append(messages,
            Message("ai", [i \in DOMAIN a |-> [id |-> issued + i, kind |-> a[i]]], 0))
    BY <1>6 DEF Model
  <2>. DEFINE cs == [i \in DOMAIN a |-> [id |-> issued + i, kind |-> a[i]]]
              m == Message("ai", cs, 0)
  <2>2. a \in Seq(Kinds) /\ Len(a) \in Nat /\ DOMAIN a = 1..Len(a)
    BY AnswersAssumption
  <2>3. cs \in Seq(Call) /\ Len(cs) = Len(a)
    <3>1. \A i \in 1..Len(a) : [id |-> issued + i, kind |-> a[i]] \in Call
      BY <1>1, <2>2 DEF Call
    <3>. QED
      BY <3>1, <2>2
  <2>4. \A k \in 1..Len(cs) : cs[k].id = issued + k
    BY <2>2, <2>3
  <2>7. messages' = Append(messages, m) /\ UNCHANGED todos
    BY <2>1, <1>6 DEF Model
  <2>. HIDE DEF cs
  <2>5. m \in Messages /\ m.type = "ai" /\ m.calls = cs
    BY <2>3, MessageFacts DEF Message, Types
  <2>. HIDE DEF m
  <2>6. ASSUME NEW n \in Shown(m) PROVE n >= by
    <3>1. PICK k \in 1..Len(cs) : n = cs[k].id
      BY <2>5, ShownFacts
    <3>2. n = issued + k /\ k \in Nat
      BY <3>1, <2>3, <2>4
    <3>. QED
      BY <3>2, <1>1
  <2>8. InOrder(Append(messages, m), by, TRUE) /\ InOrder(Append(messages, m), by, FALSE)
    BY <2>5, <2>6, <1>2
  <2>. QED
    BY <2>7, <2>8
<1>7. CASE LoopNone \/ LoopStop \/ LoopWarn \/ LoopCount
  <2>1. /\ node = "loop" /\ node' = "limit"
        /\ messages' = messages \/ messages' = Replaced(<< >>)
        /\ UNCHANGED todos
    <3>1. CASE LoopNone
      BY <3>1 DEF LoopNone
    <3>2. CASE LoopStop
      BY <3>2 DEF LoopStop
    <3>3. CASE LoopWarn
      BY <3>3 DEF LoopWarn
    <3>4. CASE LoopCount
      <4>1. node = "loop" /\ node' = "limit"
        BY <3>4, Zenon DEF LoopCount
      <4>2. messages' = messages \/ messages' = Replaced(<< >>)
        BY <3>4, Zenon DEF LoopCount
      <4>3. UNCHANGED todos
        BY <3>4, Zenon DEF LoopCount
      <4>. QED
        BY <4>1, <4>2, <4>3
    <3>. QED
      BY <1>7, <3>1, <3>2, <3>3, <3>4
  <2>2. InOrder(messages, by, TRUE)
    BY <2>1, <1>1 DEF Late
  <2>. DEFINE L == Len(messages)
              m == [messages[L] EXCEPT !.calls = << >>]
  <2>3. messages # << >> /\ messages[L].type = "ai" /\ messages[L] \in Messages
    BY <2>1, <1>1, AnswerAtEnd
  <2>6. << >> \in Seq(Call)
    OBVIOUS
  <2>4. m \in Messages /\ m.type = "ai" /\ m.calls = << >>
    BY <2>3, <2>6 DEF Messages
  <2>5. Shown(m) = {}
    BY <2>4, ShownFacts
  <2>7. InOrder([messages EXCEPT ![L].calls = << >>], by, TRUE)
    BY <2>2, <2>3, <2>5, <2>6, <1>1, OrderReplaced
  <2>8. InOrder(messages', by, TRUE)
    BY <2>1, <2>2, <2>7 DEF Replaced
  <2>. QED
    BY <2>1, <2>8, OrderStays
<1>8. CASE RefuseLists
  <2>. DEFINE cs == At(Last(messages).calls, Lists(Last(messages).calls))
  <2>1. /\ node = "todo" /\ node' \in {"summarize", "tools"} /\ UNCHANGED todos
        /\ messages' = messages \o Results(cs)
    BY <1>8 DEF RefuseLists
  <2>2. cs \in Seq(Call)
    BY <2>1, AnswerAtEnd, TakenFacts
  <2>. HIDE DEF cs
  <2>3. InOrder(messages \o Results(cs), by, FALSE)
    BY <2>2, <1>1, ResultsHide, OrderBetween
  <2>. QED
    BY <2>1, <2>3 DEF Late
<1>9. CASE GoToTools \/ Cancel
  <2>1. messages' = messages /\ UNCHANGED todos /\ node' \in {"tools", "idle"}
    BY <1>9 DEF GoToTools, Cancel
  <2>. QED
    BY <2>1, <1>1 DEF Late
<1>10. CASE End
  <2>1. /\ UNCHANGED todos /\ node' \in {"summarize", "idle"}
        /\ messages' = messages \/ messages' = Append(messages, Note("todo_completion_reminder"))
    BY <1>10 DEF End
  <2>. QED
    BY <2>1, <1>1, <1>3 DEF Late
<1>. QED
  BY <1>4, <1>5, <1>6, <1>7, <1>8, <1>9, <1>10

(* No step leaves the lists out of order.                                  *)
LEMMA ListsStep ==
  ASSUME TypeOK, Standing, AnswerLast, ListsInOrder, [Next]_vars
  PROVE  ListsInOrder'
<1>1. CASE UNCHANGED vars
  BY <1>1 DEF vars, ListsInOrder
<1>2. CASE Next
  <2>1. messages' \in Seq(Messages)
    BY MessagesStand, SoundFacts
  <2>2. todos.by \in Nat /\ issued \in Nat /\ todos.by <= issued
    BY OrderIs, BoundAssumption DEF TypeOK
  <2>3. CASE Model
    <3>1. issued <= issued'
      <4>1. PICK a \in Answers : issued' = issued + Len(a)
        BY <2>3 DEF Model
      <4>2. Len(a) \in Nat
        BY AnswersAssumption
      <4>. QED
        BY <4>1, <4>2, <2>2
    <3>2. InOrder(messages', todos.by, FALSE) /\ (Late' => InOrder(messages', todos.by, TRUE))
          /\ UNCHANGED todos
      BY <2>3, OtherOrder
    <3>3. issued' \in Nat
      <4>1. PICK a \in Answers : issued' = issued + Len(a)
        BY <2>3 DEF Model
      <4>2. Len(a) \in Nat
        BY AnswersAssumption
      <4>. QED
        BY <4>1, <4>2, <2>2
    <3>4. todos'.by <= issued'
      BY <3>1, <3>2, <3>3, <2>2
    <3>5. InOrder(messages', todos'.by, FALSE) /\ (Late' => InOrder(messages', todos'.by, TRUE))
      BY <3>2
    <3>. QED
      BY <3>4, <3>5, <2>1, OrderIs
  <2>4. CASE Turn \/ Remind \/ LoopNone \/ LoopStop \/ LoopWarn \/ LoopCount
               \/ RefuseLists \/ GoToTools \/ End \/ Cancel
    <3>1. InOrder(messages', todos.by, FALSE) /\ (Late' => InOrder(messages', todos.by, TRUE))
          /\ UNCHANGED todos
      BY <2>4, OtherOrder
    <3>2. issued' = issued
      BY <2>4 DEF Turn, Remind, LoopNone, LoopStop, LoopWarn, LoopCount, RefuseLists,
        GoToTools, End, Cancel
    <3>. QED
      BY <3>1, <3>2, <2>1, <2>2, OrderIs
  <2>5. CASE Summarize
    <3>1. InOrder(messages', todos.by, FALSE)
      BY <2>5, SummarizeOrder
    <3>2. UNCHANGED <<todos, issued>> /\ ~ Late'
      BY <2>5 DEF Summarize, Late
    <3>. QED
      BY <3>1, <3>2, <2>1, <2>2, OrderIs
  <2>6. CASE Limit
    <3>1. InOrder(messages', todos.by, TRUE) /\ InOrder(messages', todos.by, FALSE)
      BY <2>6, LimitOrder, OrderStays
    <3>2. UNCHANGED <<todos, issued>> /\ Late'
      BY <2>6 DEF Limit, Late
    <3>. QED
      BY <3>1, <3>2, <2>1, <2>2, OrderIs
  <2>7. CASE RunTools
    <3>1. InOrder(messages', todos'.by, FALSE) /\ todos'.by <= issued
      BY <2>7, ToolsOrder
    <3>2. UNCHANGED issued /\ ~ Late'
      BY <2>7 DEF RunTools, Late
    <3>. QED
      BY <3>1, <3>2, <2>1, OrderIs
  <2>. QED
    BY <1>2, <2>3, <2>4, <2>5, <2>6, <2>7 DEF Next, Step
<1>. QED
  BY <1>1, <1>2

(* Where the lists are in order, the model is brought to work with the     *)
(* list or a newer one in sight.                                           *)
LEMMA SeenStep ==
  ASSUME TypeOK, Standing, AnswerLast, ListSeen, ListsInOrder, [Next]_vars
  PROVE  ListSeen'
<1>1. CASE UNCHANGED vars
  BY <1>1 DEF vars, ListSeen
<1>2. CASE Remind
  <2>. SUFFICES ASSUME todos.by # 0
                PROVE  \E i \in DOMAIN messages' : \E n \in Shown(messages'[i]) : n >= todos.by
    BY <1>2 DEF ListSeen, Remind
  <2>1. messages \in Seq(Messages) /\ DOMAIN messages = 1..Len(messages) /\ todos.by \in Nat
    BY DEF TypeOK
  <2>2. CASE TodosInMessages \/ OfType(messages, "todo_reminder") # {}
    <3>1. messages' = messages
      BY <1>2, <2>2 DEF Remind
    <3>2. \E i \in 1..Len(messages) : Shown(messages[i]) # {}
      <4>1. CASE TodosInMessages
        <5>0. PICK i \in 1..Len(messages) : \E c \in ToSet(messages[i].calls) : IsTodos(c)
          BY <4>1, <2>1 DEF TodosInMessages
        <5>1. PICK c \in ToSet(messages[i].calls) : IsTodos(c)
          BY <5>0
        <5>2. messages[i] \in Messages /\ messages[i].calls \in Seq(Call)
          BY <2>1, MessageFacts
        <5>3. PICK k \in 1..Len(messages[i].calls) : messages[i].calls[k] = c
          BY <5>1, <5>2 DEF ToSet
        <5>. QED
          BY <5>1, <5>2, <5>3, ShownFacts
      <4>2. CASE OfType(messages, "todo_reminder") # {}
        <5>1. PICK i \in 1..Len(messages) : messages[i].type = "todo_reminder"
          BY <4>2, <2>1 DEF OfType
        <5>2. messages[i] \in Messages
          BY <2>1
        <5>. QED
          BY <5>1, <5>2, ShownFacts
      <4>. QED
        BY <2>2, <4>1, <4>2
    <3>3. PICK i \in 1..Len(messages) : Shown(messages[i]) # {}
      BY <3>2
    <3>4. PICK j \in i..Len(messages) : \E n \in Shown(messages[j]) : n >= todos.by
      BY <3>3, <2>1 DEF ListsInOrder
    <3>5. j \in 1..Len(messages)
      BY <2>1
    <3>. QED
      BY <3>1, <3>4, <3>5, <2>1
  <2>3. CASE ~ (TodosInMessages \/ OfType(messages, "todo_reminder") # {})
    <3>. DEFINE m == Message("todo_reminder", << >>, todos.by)
    <3>1. messages' = Append(messages, m)
      BY <1>2, <2>3 DEF Remind
    <3>2. m \in Messages /\ m.type = "todo_reminder" /\ m.id = todos.by
      BY <2>1, NoteFacts DEF Message, Types
    <3>3. todos.by \in Shown(m) /\ todos.by >= todos.by
      BY <3>2, <2>1, ShownFacts
    <3>. HIDE DEF m
    <3>4. Len(messages) + 1 \in DOMAIN messages' /\ messages'[Len(messages) + 1] = m
      BY <3>1, <3>2, <2>1
    <3>. QED
      BY <3>3, <3>4
  <2>. QED
    BY <2>2, <2>3
<1>3. node' # "model" => ListSeen'
  BY DEF ListSeen
<1>4. Next => Remind \/ node' # "model"
  BY DEF Next, Step, Turn, Summarize, Remind, Model, LoopNone, LoopStop,
    LoopWarn, LoopCount,
     Limit, RefuseLists, GoToTools, End, RunTools, Cancel
<1>. QED
  BY <1>1, <1>2, <1>3, <1>4

-----------------------------------------------------------------------------
(* The same calls again and again.                                         *)

(* Where a set of calls stands in the window that reached the tools.       *)
RanAt(x) == {i \in DOMAIN window : window[i] = x /\ ran[i]}

(* RepeatsStopped for all sets of calls, in the window or not.             *)
LEMMA RepeatsEverywhere ==
  ASSUME TypeOK, RepeatsStopped, NEW x
  PROVE  IsFiniteSet(RanAt(x)) /\ Cardinality(RanAt(x)) \in Nat /\ Cardinality(RanAt(x)) < HardLimit
<1>1. DOMAIN window = 1..Len(window) /\ Len(window) \in Nat
  BY DEF TypeOK
<1>2. IsFiniteSet(RanAt(x)) /\ Cardinality(RanAt(x)) \in Nat
  BY <1>1, PlacesFinite DEF RanAt
<1>3. CASE x \in ToSet(window)
  BY <1>2, <1>3 DEF RepeatsStopped, RanAt
<1>4. CASE x \notin ToSet(window)
  <2>1. RanAt(x) = {}
    BY <1>1, <1>4 DEF RanAt, ToSet
  <2>. QED
    BY <2>1, <1>2, FS_EmptySet, ThresholdAssumption
<1>. QED
  BY <1>3, <1>4, <1>2

(* A set that enters the window has not been run.                          *)
LEMMA TrackRepeats ==
  ASSUME TypeOK, RepeatsStopped, NEW cs \in Seq(Call), Track(cs)
  PROVE  RepeatsStopped'
<1>1. PICK d \in {0, 1} : \A i \in 1..(Len(window') - 1) :
        /\ i + d \in 1..Len(window) /\ window'[i] = window[i + d] /\ ran'[i] = ran[i + d]
  BY TrackFacts
<1>2. /\ window' \in Seq(CallSets) /\ Len(window') \in 1..Len(window') /\ ~ ran'[Len(window')]
  BY TrackFacts
<1>3. DOMAIN window' = 1..Len(window') /\ DOMAIN window = 1..Len(window) /\ Len(window) \in Nat
      /\ Len(window') \in Nat
  BY <1>2 DEF TypeOK
<1>4. ASSUME NEW x
      PROVE Cardinality({i \in DOMAIN window' : window'[i] = x /\ ran'[i]}) < HardLimit
  <2>. DEFINE new == {i \in DOMAIN window' : window'[i] = x /\ ran'[i]}
              f == [i \in new |-> i + d]
  <2>1. \A i \in new : i \in 1..(Len(window') - 1)
    BY <1>2, <1>3
  <2>2. f \in [new -> RanAt(x)]
    BY <2>1, <1>1, <1>3 DEF RanAt
  <2>3. \A i, j \in new : f[i] = f[j] => i = j
    BY <2>1
  <2>4. IsFiniteSet(RanAt(x)) /\ Cardinality(RanAt(x)) \in Nat /\ Cardinality(RanAt(x)) < HardLimit
    BY RepeatsEverywhere
  <2>5. new \in SUBSET (1..Len(window'))
    BY <1>3
  <2>. HIDE DEF f, new
  <2>6. Cardinality(new) <= Cardinality(RanAt(x))
    BY <2>2, <2>3, <2>4, NoMoreThan
  <2>7. Cardinality(new) \in Nat
    BY <2>5, <1>3, PlacesFinite
  <2>8. Cardinality(new) < HardLimit
    BY <2>4, <2>6, <2>7, ThresholdAssumption
  <2>. QED
    BY <2>8 DEF new
<1>. QED
  BY <1>4 DEF RepeatsStopped

(* Only a set below the hard limit reaches the tools.                      *)
LEMMA RepeatsStep ==
  ASSUME TypeOK, Standing, AnswerLast, RepeatsStopped, NotTooMany, [Next]_vars
  PROVE  RepeatsStopped' /\ NotTooMany'
<1>. DEFINE cs == Last(messages).calls
<1>1. CASE UNCHANGED vars
  BY <1>1 DEF vars, detector, RepeatsStopped, NotTooMany, Coming, LastAnswer
<1>2. ASSUME UNCHANGED <<window, ran>> PROVE RepeatsStopped'
  BY <1>2 DEF RepeatsStopped
<1>3. ASSUME Turn \/ Summarize \/ Remind \/ Model \/ End \/ RunTools \/ Cancel
      PROVE NotTooMany'
  BY <1>3, ComingEnds DEF NotTooMany
<1>4. CASE Turn
  <2>1. UNCHANGED <<window, ran>> \/ window' = << >>
    BY <1>4 DEF Turn, detector
  <2>2. window' = << >> => RepeatsStopped'
    BY DEF RepeatsStopped, ToSet
  <2>. QED
    BY <2>1, <2>2, <1>2, <1>3, <1>4
<1>5. CASE Summarize \/ Remind \/ Model \/ End \/ Cancel
  <2>1. UNCHANGED <<window, ran>>
    BY <1>5 DEF Summarize, Remind, Model, End, Cancel, detector
  <2>. QED
    BY <2>1, <1>2, <1>3, <1>5
<1>6. CASE LoopNone
  <2>1. UNCHANGED <<window, ran, messages>> /\ cs = << >> /\ node = "loop" /\ node' = "limit"
    BY <1>6 DEF LoopNone, detector
  <2>2. Coming' = << >> /\ node' # "tools"
    BY <2>1, ComingFromLoop
  <2>. QED
    BY <2>1, <2>2, <1>2 DEF NotTooMany
<1>7. CASE LoopStop
  <2>1. Track(cs) /\ messages' = Replaced(<< >>) /\ node = "loop" /\ node' = "limit"
    BY <1>7 DEF LoopStop
  <2>2. cs \in Seq(Call)
    BY <2>1, AnswerAtEnd
  <2>3. Coming' = << >> /\ node' # "tools"
    BY <2>1, ComingFromLoop
  <2>. QED
    BY <2>1, <2>2, <2>3, TrackRepeats DEF NotTooMany
<1>8. CASE LoopWarn \/ LoopCount
  <2>1. Track(cs) /\ node = "loop" /\ node' = "limit" /\ Occurs(window', Hash(cs)) < HardLimit
    <3>1. CASE LoopCount
      BY <3>1 DEF LoopCount
    <3>2. CASE LoopWarn
      <4>1. Track(cs) /\ node = "loop" /\ node' = "limit"
            /\ Occurs(window', Hash(cs)) \in WarnThreshold..(HardLimit - 1)
        BY <3>2 DEF LoopWarn
      <4>. QED
        BY <4>1, ThresholdAssumption
    <3>. QED
      BY <1>8, <3>1, <3>2
  <2>2. cs \in Seq(Call)
    BY <2>1, AnswerAtEnd
  <2>3. window' # << >> /\ Last(window') = Hash(cs)
    BY <2>1, <2>2, TrackFacts
  <2>. QED
    BY <2>1, <2>2, <2>3, TrackRepeats DEF NotTooMany
<1>9. CASE Limit \/ RefuseLists \/ GoToTools
  <2>1. UNCHANGED <<window, ran>>
    BY <1>9 DEF Limit, RefuseLists, GoToTools, detector
  <2>2. Coming = << >> => Coming' = << >>
    <3>1. ASSUME NEW I, Coming = << >> PROVE At(Coming, I) = << >>
      <4>1. Coming \in Seq(Call)
        BY ComingTyped
      <4>2. /\ At(Coming, I) \in Seq(Call)
            /\ \A k \in 1..Len(At(Coming, I)) : \E m \in I \cap (1..Len(Coming)) : TRUE
        BY <4>1, TakenFacts
      <4>3. Len(Coming) = 0
        BY <3>1
      <4>. QED
        BY <4>2, <4>3
    <3>. QED
      BY <3>1, <1>9, ComingShrinks
  <2>3. node' = "tools" => Coming # << >>
    BY <1>9, ComingShrinks
  <2>. QED
    BY <2>1, <2>2, <2>3, <1>2 DEF NotTooMany
<1>10. CASE RunTools
  <2>1. window' = window /\ ran' = [ran EXCEPT ![Len(ran)] = TRUE] /\ node = "tools"
    BY <1>10 DEF RunTools, detector
  <2>2. window # << >> /\ Occurs(window, Last(window)) < HardLimit
    BY <2>1 DEF NotTooMany
  <2>3. /\ DOMAIN window = 1..Len(window) /\ Len(window) \in Nat \ {0}
        /\ DOMAIN ran = 1..Len(window) /\ Len(ran) = Len(window)
    BY <2>2 DEF TypeOK
  <2>4. /\ \A i \in 1..Len(window) : i # Len(window) => ran'[i] = ran[i]
    BY <2>1, <2>3
  <2>5. ASSUME NEW x
        PROVE Cardinality({i \in DOMAIN window : window[i] = x /\ ran'[i]}) < HardLimit
    <3>. DEFINE new == {i \in DOMAIN window : window[i] = x /\ ran'[i]}
    <3>1. CASE x = Last(window)
      <4>. DEFINE all == {i \in DOMAIN window : window[i] = x}
      <4>1. new \subseteq all /\ all \in SUBSET (1..Len(window))
        BY <2>3
      <4>2. IsFiniteSet(all) /\ Cardinality(all) \in Nat
        BY <4>1, <2>3, PlacesFinite
      <4>3. Cardinality(all) < HardLimit
        BY <3>1, <2>2 DEF Occurs
      <4>. HIDE DEF new, all
      <4>4. Cardinality(new) <= Cardinality(all) /\ Cardinality(new) \in Nat
        BY <4>1, <4>2, FS_Subset, FS_CardinalityType
      <4>. QED
        BY <4>2, <4>3, <4>4, ThresholdAssumption DEF new
    <3>2. CASE x # Last(window)
      <4>1. window[Len(window)] # x
        BY <3>2, <2>3 DEF Last
      <4>2. new = RanAt(x)
        <5>1. \A i \in 1..Len(window) : window[i] = x => ran'[i] = ran[i]
          BY <4>1, <2>4
        <5>. QED
          BY <5>1, <2>3, Zenon DEF RanAt
      <4>. QED
        BY <4>2, RepeatsEverywhere
    <3>. QED
      BY <3>1, <3>2
  <2>6. RepeatsStopped'
    BY <2>1, <2>5 DEF RepeatsStopped
  <2>. QED
    BY <2>6, <1>3, <1>10
<1>. QED
  BY <1>1, <1>4, <1>5, <1>6, <1>7, <1>8, <1>9, <1>10 DEF Next, Step

-----------------------------------------------------------------------------
(* The calls by tool.                                                      *)

Slack(A, w, f, t) ==
  A * (Cardinality(w) + Cardinality(f \ {t})) + (A - 1) * Cardinality(f \cap {t})

(* The sums of what one warning more leaves uncounted.                     *)
LEMMA SlackSums ==
  ASSUME NEW A \in Nat, NEW m \in Nat, NEW n \in Nat, NEW k \in Nat
  PROVE  /\ A * ((m + 1) + n) + (A - 1) * k = (A * (m + n) + (A - 1) * k) + A
         /\ A * (m + (n + 1)) + (A - 1) * k = (A * (m + n) + (A - 1) * k) + A
         /\ A * (m + n) + (A - 1) * 1 = (A * (m + n) + (A - 1) * 0) + (A - 1)
<1>1. (m + 1) + n = (m + n) + 1 /\ m + (n + 1) = (m + n) + 1 /\ m + n \in Nat
  OBVIOUS
<1>2. \A x \in Nat : A * (x + 1) = A * x + A /\ A * x \in Nat
  OBVIOUS
<1>3. A * ((m + n) + 1) = A * (m + n) + A /\ A * (m + n) \in Nat
  BY <1>1, <1>2
<1>4. (A - 1) * k \in Int
  OBVIOUS
<1>5. (A - 1) * 1 = A - 1 /\ (A - 1) * 0 = 0
  OBVIOUS
<1>6. \A x, y \in Int : (x + A) + y = (x + y) + A
  OBVIOUS
<1>7. (A * (m + n) + A) + (A - 1) * k = (A * (m + n) + (A - 1) * k) + A
  BY <1>3, <1>4, <1>6
<1>8. A * (m + n) + (A - 1) * 1 = (A * (m + n) + (A - 1) * 0) + (A - 1)
  BY <1>3, <1>5
<1>. QED
  BY <1>1, <1>3, <1>7, <1>8

(* The uncounted calls are a number.                                       *)
LEMMA SlackTyped ==
  ASSUME NEW A \in Nat \ {0}, NEW w, NEW f, NEW t, IsFiniteSet(w),
    IsFiniteSet(f)
  PROVE  /\ Slack(A, w, f, t) \in Nat
         /\ IsFiniteSet(f \ {t}) /\ Cardinality(f \ {t}) \in Nat
         /\ Cardinality(w) \in Nat /\ Cardinality(f \cap {t}) \in Nat
<1>1. /\ IsFiniteSet(f \ {t}) /\ IsFiniteSet(f \cap {t}) /\ Cardinality(w) \in Nat
      /\ Cardinality(f \ {t}) \in Nat /\ Cardinality(f \cap {t}) \in Nat
  BY FS_Subset, FS_CardinalityType, f \ {t} \subseteq f, f \cap {t} \subseteq f
<1>2. \A x, y, z \in Nat : A * (x + y) + (A - 1) * z \in Nat
  <2>1. \A x \in Nat : A * x \in Nat /\ (A - 1) * x \in Nat
    OBVIOUS
  <2>. QED
    BY <2>1
<1>. QED
  BY <1>1, <1>2 DEF Slack

(* A set warned about leaves one answer uncounted,                         *)
LEMMA SlackWarned ==
  ASSUME NEW A \in Nat \ {0}, NEW w, NEW f, NEW t, IsFiniteSet(w),
    IsFiniteSet(f),
         NEW x, x \notin w
  PROVE  Slack(A, w \cup {x}, f, t) = Slack(A, w, f, t) + A
<1>. DEFINE m == Cardinality(w)
            n == Cardinality(f \ {t})
            k == Cardinality(f \cap {t})
<1>1. m \in Nat /\ n \in Nat /\ k \in Nat
  BY SlackTyped
<1>2. Cardinality(w \cup {x}) = m + 1
  BY FS_AddElement
<1>3. Slack(A, w, f, t) = A * (m + n) + (A - 1) * k
  BY DEF Slack
<1>4. Slack(A, w \cup {x}, f, t) = A * ((m + 1) + n) + (A - 1) * k
  BY <1>2 DEF Slack
<1>. HIDE DEF m, n, k
<1>. QED
  BY <1>1, <1>3, <1>4, SlackSums

(* and so does another tool warned about;                                  *)
LEMMA SlackOther ==
  ASSUME NEW A \in Nat \ {0}, NEW w, NEW f, NEW t, IsFiniteSet(w),
    IsFiniteSet(f),
         NEW u, u \notin f, u # t
  PROVE  Slack(A, w, f \cup {u}, t) = Slack(A, w, f, t) + A
<1>. DEFINE m == Cardinality(w)
            n == Cardinality(f \ {t})
            k == Cardinality(f \cap {t})
<1>1. m \in Nat /\ n \in Nat /\ k \in Nat /\ IsFiniteSet(f \ {t})
  BY SlackTyped
<1>2. (f \cup {u}) \ {t} = (f \ {t}) \cup {u} /\ (f \cup {u}) \cap {t} = f \cap {t}
  OBVIOUS
<1>3. Cardinality((f \cup {u}) \ {t}) = n + 1
  <2>1. u \notin f \ {t}
    OBVIOUS
  <2>. QED
    BY <2>1, <1>1, <1>2, FS_AddElement
<1>4. Cardinality((f \cup {u}) \cap {t}) = k
  BY <1>2
<1>5. Slack(A, w, f, t) = A * (m + n) + (A - 1) * k
  BY DEF Slack
<1>. HIDE DEF n, k
<1>6. Slack(A, w, f \cup {u}, t) = A * (m + (n + 1)) + (A - 1) * k
  BY <1>3, <1>4 DEF Slack
<1>. HIDE DEF m
<1>. QED
  BY <1>1, <1>5, <1>6, SlackSums

(* the warning about the tool itself leaves all but one call of an answer. *)
LEMMA SlackOwn ==
  ASSUME NEW A \in Nat \ {0}, NEW w, NEW f, NEW t, IsFiniteSet(w),
    IsFiniteSet(f), t \notin f
  PROVE  Slack(A, w, f \cup {t}, t) = Slack(A, w, f, t) + (A - 1)
<1>. DEFINE m == Cardinality(w)
            n == Cardinality(f \ {t})
<1>1. m \in Nat /\ n \in Nat
  BY SlackTyped
<1>2. (f \cup {t}) \ {t} = f \ {t} /\ f \cap {t} = {} /\ (f \cup {t}) \cap {t} = {t}
  OBVIOUS
<1>3. Cardinality({}) = 0 /\ Cardinality({t}) = 1
  BY FS_EmptySet, FS_Singleton
<1>4. Cardinality(f \cap {t}) = 0 /\ Cardinality((f \cup {t}) \cap {t}) = 1
      /\ Cardinality((f \cup {t}) \ {t}) = n
  BY <1>2, <1>3
<1>. HIDE DEF n
<1>5. Slack(A, w, f, t) = A * (m + n) + (A - 1) * 0
  BY <1>4 DEF Slack, n
<1>6. Slack(A, w, f \cup {t}, t) = A * (m + n) + (A - 1) * 1
  BY <1>4 DEF Slack
<1>. HIDE DEF m
<1>. QED
  BY <1>1, <1>5, <1>6, SlackSums

(* Sums of what has been used, what is to come and what is uncounted.      *)
LEMMA ChargeSums ==
  ASSUME NEW a \in Nat \ {0}, NEW u \in Nat, NEW s \in Nat, NEW f \in Nat,
    NEW g \in Nat,
         NEW c \in Nat, NEW limit \in Nat,
         u <= a, s <= f + c, s < limit + c
  PROVE  /\ f <= g => s + u <= g + (c + a) /\ s + u < limit + (c + a)
         /\ f + 1 <= g /\ g < limit =>
              s + u <= g + (c + (a - 1)) /\ s + u < limit + (c + (a - 1))
OBVIOUS

(* The numbers that speak of a tool.                                       *)
LEMMA ToolFacts ==
  ASSUME TypeOK, Standing, AnswerLast, NEW t \in Tools, InOneAnswer(t) > 0
  PROVE  /\ used[t] \in Nat /\ freq[t] \in Nat /\ Uncounted(t) \in Nat
         /\ InOneAnswer(t) \in Nat \ {0} /\ FreqHardLimit \in Nat \ {0}
         /\ Uses(Coming, t) \in Nat /\ (Coming = << >> => Uses(Coming, t) = 0)
         /\ Uncounted(t) = Slack(InOneAnswer(t), warned, freqWarned, t)
         /\ IsFiniteSet(warned) /\ IsFiniteSet(freqWarned)
<1>1. used[t] \in Nat /\ freq[t] \in Nat /\ IsFiniteSet(warned) /\ IsFiniteSet(freqWarned)
  BY DEF TypeOK
<1>2. InOneAnswer(t) \in Nat \ {0}
  BY InOneAnswerFacts
<1>3. Uncounted(t) = Slack(InOneAnswer(t), warned, freqWarned, t)
  BY DEF Uncounted, Slack
<1>4. Uncounted(t) \in Nat
  BY <1>1, <1>2, <1>3, SlackTyped
<1>5. Coming \in Seq(Call)
  BY ComingTyped
<1>. QED
  BY <1>1, <1>2, <1>3, <1>4, <1>5, UsesFacts, FrequencyAssumption

(* What the invariant says of one tool, and that it is kept when the calls *)
(* to come get fewer and nothing else is changed.                          *)
ChargedFor(t) ==
  /\ used[t] + Uses(Coming, t) <= freq[t] + Uncounted(t)
  /\ used[t] + Uses(Coming, t) < FreqHardLimit + Uncounted(t)

(* Fewer coming calls stay charged.                                        *)
LEMMA FewerAreCharged ==
  ASSUME TypeOK, Standing, AnswerLast, NEW t \in Tools, InOneAnswer(t) > 0,
    ChargedFor(t),
         used' = used, freq' = freq, warned' = warned, freqWarned' = freqWarned,
         Coming' = Coming \/ Coming' = << >> \/ \E I : Coming' = At(Coming, I)
  PROVE  ChargedFor(t)'
<1>1. Uncounted(t)' = Uncounted(t)
  BY DEF Uncounted
<1>2. Coming \in Seq(Call)
  BY ComingTyped
<1>3. Coming' \in Seq(Call) /\ Uses(Coming', t) <= Uses(Coming, t)
  <2>1. CASE Coming' = Coming
    BY <2>1, <1>2, UsesFacts
  <2>2. CASE Coming' = << >>
    <3>1. << >> \in Seq(Call)
      OBVIOUS
    <3>2. Uses(<< >>, t) = 0 /\ Uses(Coming, t) \in Nat
      BY <3>1, <1>2, UsesFacts
    <3>3. Uses(Coming', t) = 0
      BY <3>2, <2>2
    <3>. QED
      BY <3>1, <3>2, <3>3, <2>2
  <2>3. CASE \E I : Coming' = At(Coming, I)
    BY <2>3, <1>2, TakenFacts, UsesOfSome
  <2>. QED
    BY <2>1, <2>2, <2>3
<1>4. Uses(Coming', t) \in Nat /\ Uses(Coming, t) \in Nat
  BY <1>2, <1>3, UsesFacts
<1>5. used[t] \in Nat /\ freq[t] \in Nat /\ Uncounted(t) \in Nat /\ FreqHardLimit \in Nat
  BY ToolFacts
<1>. QED
  BY <1>1, <1>3, <1>4, <1>5 DEF ChargedFor

(* The calls that a warning about their set lets pass are charged to it.   *)
LEMMA WarnCharges ==
  ASSUME TypeOK, Standing, AnswerLast, LoopWarn, NEW t \in Tools,
    InOneAnswer(t) > 0, ChargedFor(t)
  PROVE  ChargedFor(t)'
<1>. DEFINE cs == Last(messages).calls
            A == InOneAnswer(t)
<1>1. /\ node = "loop" /\ node' = "limit" /\ messages' = messages
      /\ used' = used /\ freq' = freq /\ freqWarned' = freqWarned
      /\ Hash(cs) \notin warned /\ warned' = warned \cup {Hash(cs)}
  BY DEF LoopWarn
<1>2. cs \in Seq(Call) /\ [i \in DOMAIN cs |-> cs[i].kind] \in Answers
  BY <1>1, AnswerAtEnd DEF AnswerLast
<1>3. Coming = << >> /\ Coming' = cs
  BY <1>1, ComingTyped, ComingFromLoop
<1>4. Uses(cs, t) \in Nat /\ Uses(cs, t) <= A
  BY <1>2, UsesFacts, InOneAnswerFacts
<1>5. /\ used[t] \in Nat /\ freq[t] \in Nat /\ Uncounted(t) \in Nat
      /\ A \in Nat \ {0} /\ FreqHardLimit \in Nat \ {0} /\ Uses(Coming, t) = 0
      /\ Uncounted(t) = Slack(A, warned, freqWarned, t)
      /\ IsFiniteSet(warned) /\ IsFiniteSet(freqWarned)
  BY <1>3, ToolFacts
<1>. HIDE DEF cs
<1>6. Uncounted(t)' = Slack(A, warned', freqWarned', t)
  BY DEF Uncounted, Slack
<1>. HIDE DEF A
<1>7. Uncounted(t)' = Uncounted(t) + A
  <2>1. Slack(A, warned \cup {Hash(cs)}, freqWarned, t) = Slack(A, warned, freqWarned, t) + A
    BY <1>1, <1>5, SlackWarned
  <2>. QED
    BY <2>1, <1>1, <1>5, <1>6
<1>8. used[t] <= freq[t] + Uncounted(t) /\ used[t] < FreqHardLimit + Uncounted(t)
  BY <1>5 DEF ChargedFor
<1>9. /\ used[t] + Uses(cs, t) <= freq[t] + (Uncounted(t) + A)
      /\ used[t] + Uses(cs, t) < FreqHardLimit + (Uncounted(t) + A)
  <2>1. freq[t] <= freq[t]
    BY <1>5
  <2>. QED
    BY <2>1, <1>4, <1>5, <1>8, ChargeSums
<1>. QED
  BY <1>1, <1>3, <1>7, <1>9 DEF ChargedFor

(* The others are charged to the count, or to the warning about a tool.    *)
LEMMA CountCharges ==
  ASSUME TypeOK, Standing, AnswerLast, LoopCount, NEW t \in Tools,
    InOneAnswer(t) > 0, ChargedFor(t)
  PROVE  ChargedFor(t)'
<1>. DEFINE cs == Last(messages).calls
            A == InOneAnswer(t)
            U == Uses(cs, t)
<1>1. /\ node = "loop" /\ node' = "limit" /\ used' = used /\ warned' = warned
  BY DEF LoopCount
<1>2. cs \in Seq(Call) /\ [i \in DOMAIN cs |-> cs[i].kind] \in Answers
  BY <1>1, AnswerAtEnd DEF AnswerLast
<1>3. /\ Coming = << >> /\ (messages' = messages => Coming' = cs)
      /\ (messages' = Replaced(<< >>) => Coming' = << >>)
  BY <1>1, ComingTyped, ComingFromLoop
<1>4. U \in Nat /\ U <= A /\ Uses(<< >>, t) = 0
  <2>1. << >> \in Seq(Call)
    OBVIOUS
  <2>. QED
    BY <1>2, <2>1, UsesFacts, InOneAnswerFacts
<1>5. /\ used[t] \in Nat /\ freq[t] \in Nat /\ Uncounted(t) \in Nat
      /\ A \in Nat \ {0} /\ FreqHardLimit \in Nat \ {0} /\ Uses(Coming, t) = 0
      /\ Uncounted(t) = Slack(A, warned, freqWarned, t)
      /\ IsFiniteSet(warned) /\ IsFiniteSet(freqWarned)
  BY <1>3, ToolFacts
<1>6. /\ Hits(cs) = {} =>
           /\ freq' = [r \in Tools |-> Count(cs, r, Len(cs))]
           /\ freqWarned' = freqWarned /\ messages' = messages
      /\ Hits(cs) # {} => \E n \in 1..Len(cs) :
           /\ n \in Hits(cs) /\ ToolOf[cs[n].kind] \in Tools
           /\ freq' = [r \in Tools |-> Count(cs, r, n)]
           /\ \/ /\ Count(cs, ToolOf[cs[n].kind], n) >= FreqHardLimit
                 /\ freqWarned' = freqWarned /\ messages' = Replaced(<< >>)
              \/ /\ ~ (Count(cs, ToolOf[cs[n].kind], n) >= FreqHardLimit)
                 /\ freqWarned' = freqWarned \cup {ToolOf[cs[n].kind]}
                 /\ messages' = messages
  BY LoopCountFacts
<1>7. Uncounted(t)' = Slack(A, warned', freqWarned', t)
  BY DEF Uncounted, Slack
<1>8. used[t] <= freq[t] + Uncounted(t) /\ used[t] < FreqHardLimit + Uncounted(t)
  BY <1>5 DEF ChargedFor
<1>9. DOMAIN cs = 1..Len(cs) /\ Len(cs) \in Nat
  BY <1>2
<1>10. ChargedFor(t)' <=> /\ used'[t] + Uses(Coming', t) <= freq'[t] + Uncounted(t)'
                          /\ used'[t] + Uses(Coming', t) < FreqHardLimit + Uncounted(t)'
  BY DEF ChargedFor
<1>. HIDE DEF cs, A
<1>11. CASE Hits(cs) = {}
  <2>1. /\ freq'[t] = Count(cs, t, Len(cs)) /\ Coming' = cs
        /\ Uncounted(t)' = Uncounted(t)
    BY <1>1, <1>3, <1>5, <1>6, <1>7, <1>11
  <2>2. Count(cs, t, Len(cs)) = freq[t] + U
    <3>1. {i \in 1..Len(cs) : ToolOf[cs[i].kind] = t}
            = {i \in DOMAIN cs : ToolOf[cs[i].kind] = t}
      BY <1>9
    <3>. QED
      BY <3>1 DEF Count, Uses
  <2>3. U > 0 => freq[t] + U < FreqHardLimit
    <3>. SUFFICES ASSUME U > 0 PROVE freq[t] + U < FreqHardLimit
      OBVIOUS
    <3>. DEFINE I == {i \in 1..Len(cs) : ToolOf[cs[i].kind] = t}
    <3>1. I # {}
      <4>1. U = Cardinality(I)
        BY <1>9 DEF Uses
      <4>. QED
        BY <4>1, FS_EmptySet
    <3>2. I \in SUBSET Nat /\ \A i \in I : i <= Len(cs)
      BY <1>9
    <3>3. PICK m \in I : \A i \in I : i <= m
      <4>. HIDE DEF I
      <4>. QED
        BY <3>1, <3>2, <1>9, GreatestOf
    <3>4. {i \in 1..m : ToolOf[cs[i].kind] = t} = I
      BY <3>3, <1>9
    <3>5. Count(cs, t, m) = freq[t] + U
      BY <3>4, <1>9 DEF Count, Uses
    <3>6. m \in DOMAIN cs /\ ToolOf[cs[m].kind] = t
      BY <3>3, <1>9
    <3>7. ~ (Count(cs, t, m) >= FreqHardLimit)
      BY <3>6, <1>11 DEF Hits
    <3>. QED
      BY <3>5, <3>7, <1>4, <1>5
  <2>. HIDE DEF U
  <2>4. /\ used[t] + U <= freq[t] + U + Uncounted(t)
        /\ used[t] + U < FreqHardLimit + Uncounted(t)
    BY <2>3, <1>4, <1>5, <1>8
  <2>. QED
    BY <2>1, <2>2, <2>4, <1>1, <1>10 DEF U
<1>12. CASE Hits(cs) # {}
  <2>1. PICK n \in 1..Len(cs) :
           /\ n \in Hits(cs) /\ ToolOf[cs[n].kind] \in Tools
           /\ freq' = [r \in Tools |-> Count(cs, r, n)]
           /\ \/ /\ Count(cs, ToolOf[cs[n].kind], n) >= FreqHardLimit
                 /\ freqWarned' = freqWarned /\ messages' = Replaced(<< >>)
              \/ /\ ~ (Count(cs, ToolOf[cs[n].kind], n) >= FreqHardLimit)
                 /\ freqWarned' = freqWarned \cup {ToolOf[cs[n].kind]}
                 /\ messages' = messages
    BY <1>6, <1>12
  <2>. DEFINE u == ToolOf[cs[n].kind]
  <2>2. /\ freq'[t] \in Nat /\ freq[t] <= freq'[t] /\ freq'[t] = Count(cs, t, n)
        /\ u = t => freq[t] + 1 <= freq'[t]
    <3>1. n \in Nat /\ n \in 1..n
      BY <1>9
    <3>2. Count(cs, t, n) \in Nat /\ freq[t] <= Count(cs, t, n)
      BY <3>1, CountFacts
    <3>3. u = t => freq[t] + 1 <= Count(cs, t, n)
      BY <3>1, CountFacts
    <3>4. freq'[t] = Count(cs, t, n)
      BY <2>1
    <3>. QED
      BY <3>2, <3>3, <3>4
  <2>. HIDE DEF u
  <2>3. CASE freqWarned' = freqWarned /\ messages' = Replaced(<< >>)
    <3>1. Coming' = << >> /\ Uncounted(t)' = Uncounted(t)
      BY <2>3, <1>1, <1>3, <1>5, <1>7
    <3>2. /\ used[t] + 0 <= freq'[t] + Uncounted(t)
          /\ used[t] + 0 < FreqHardLimit + Uncounted(t)
      BY <2>2, <1>5, <1>8
    <3>. QED
      BY <3>1, <3>2, <1>1, <1>4, <1>10
  <2>4. CASE /\ ~ (Count(cs, u, n) >= FreqHardLimit)
             /\ freqWarned' = freqWarned \cup {u} /\ messages' = messages
    <3>1. u \notin freqWarned /\ Coming' = cs
      BY <2>1, <2>4, <1>3 DEF Hits, u
    <3>2. CASE u = t
      <4>1. Uncounted(t)' = Uncounted(t) + (A - 1)
        <5>1. Slack(A, warned, freqWarned \cup {t}, t) = Slack(A, warned, freqWarned, t) + (A - 1)
          BY <3>1, <3>2, <1>5, SlackOwn
        <5>. QED
          BY <5>1, <3>2, <2>4, <1>1, <1>5, <1>7
      <4>2. freq'[t] < FreqHardLimit
        BY <3>2, <2>2, <2>4, <1>5
      <4>3. freq[t] + 1 <= freq'[t]
        BY <3>2, <2>2
      <4>. HIDE DEF U
      <4>4. /\ used[t] + U <= freq'[t] + (Uncounted(t) + (A - 1))
            /\ used[t] + U < FreqHardLimit + (Uncounted(t) + (A - 1))
        BY <4>2, <4>3, <2>2, <1>4, <1>5, <1>8, ChargeSums
      <4>. QED
        BY <4>1, <4>4, <3>1, <1>1, <1>10 DEF U
    <3>3. CASE u # t
      <4>1. Uncounted(t)' = Uncounted(t) + A
        <5>1. Slack(A, warned, freqWarned \cup {u}, t) = Slack(A, warned, freqWarned, t) + A
          BY <3>1, <3>3, <1>5, SlackOther
        <5>. QED
          BY <5>1, <2>4, <1>1, <1>5, <1>7
      <4>. HIDE DEF U
      <4>2. /\ used[t] + U <= freq'[t] + (Uncounted(t) + A)
            /\ used[t] + U < FreqHardLimit + (Uncounted(t) + A)
        BY <2>2, <1>4, <1>5, <1>8, ChargeSums
      <4>. QED
        BY <4>1, <4>2, <3>1, <1>1, <1>10 DEF U
    <3>. QED
      BY <3>2, <3>3
  <2>. QED
    BY <2>1, <2>3, <2>4 DEF u
<1>. QED
  BY <1>11, <1>12

(* No step leaves a use of a tool uncharged.                               *)
LEMMA ChargedStep ==
  ASSUME TypeOK, Standing, AnswerLast, Charged, [Next]_vars
  PROVE  Charged'
<1>. SUFFICES ASSUME NEW t \in Tools, InOneAnswer(t) > 0 PROVE ChargedFor(t)'
  BY DEF Charged, ChargedFor
<1>0. ChargedFor(t)
  BY DEF Charged, ChargedFor
<1>. DEFINE Same == used' = used /\ freq' = freq /\ warned' = warned /\ freqWarned' = freqWarned
<1>1. CASE UNCHANGED vars
  <2>1. Coming' = Coming /\ Same
    BY <1>1 DEF vars, detector, Coming, LastAnswer
  <2>. QED
    BY <2>1, <1>0, FewerAreCharged
<1>2. CASE Turn /\ ~ Same
  <2>1. /\ warned' = {} /\ freqWarned' = {}
        /\ freq' = [s \in Tools |-> 0] /\ used' = [s \in Tools |-> 0]
    BY <1>2 DEF Turn, detector
  <2>2. Coming' = << >>
    BY <1>2, ComingEnds
  <2>3. Uses(<< >>, t) = 0
    <3>1. << >> \in Seq(Call)
      OBVIOUS
    <3>. QED
      BY <3>1, UsesFacts
  <2>4. InOneAnswer(t) \in Nat /\ FreqHardLimit \in Nat \ {0}
    BY InOneAnswerFacts, FrequencyAssumption
  <2>5. Uncounted(t)' = 0
    <3>1. Uncounted(t)' = InOneAnswer(t) * (Cardinality({}) + Cardinality({} \ {t}))
                          + (InOneAnswer(t) - 1) * Cardinality({} \cap {t})
      BY <2>1 DEF Uncounted
    <3>2. Cardinality({}) = 0 /\ {} \ {t} = {} /\ {} \cap {t} = {}
      BY FS_EmptySet
    <3>3. InOneAnswer(t) * (0 + 0) + (InOneAnswer(t) - 1) * 0 = 0
      BY <2>4
    <3>. QED
      BY <3>1, <3>2, <3>3
  <2>. QED
    BY <2>1, <2>2, <2>3, <2>4, <2>5 DEF ChargedFor
<1>3. CASE (Turn /\ Same) \/ Summarize \/ Remind \/ Model \/ End \/ Cancel
  <2>1. Same
    BY <1>3 DEF Summarize, Remind, Model, End, Cancel, detector
  <2>2. Coming' = << >>
    BY <1>3, ComingEnds
  <2>. QED
    BY <2>1, <2>2, <1>0, FewerAreCharged
<1>4. CASE LoopNone \/ LoopStop
  <2>1. Same /\ node = "loop" /\ node' = "limit"
        /\ \/ messages' = messages /\ Last(messages).calls = << >>
           \/ messages' = Replaced(<< >>)
    BY <1>4 DEF LoopNone, LoopStop, detector
  <2>2. Coming' = << >>
    BY <2>1, ComingFromLoop
  <2>. QED
    BY <2>1, <2>2, <1>0, FewerAreCharged
<1>5. CASE LoopWarn
  BY <1>0, <1>5, WarnCharges
<1>6. CASE LoopCount
  BY <1>0, <1>6, CountCharges
<1>7. CASE Limit \/ RefuseLists \/ GoToTools
  <2>1. Same
    BY <1>7 DEF Limit, RefuseLists, GoToTools, detector
  <2>2. Coming' = << >> \/ \E I : Coming' = At(Coming, I)
    BY <1>7, ComingShrinks
  <2>. QED
    BY <2>1, <2>2, <1>0, FewerAreCharged
<1>8. CASE RunTools
  <2>1. /\ freq' = freq /\ warned' = warned /\ freqWarned' = freqWarned
        /\ used' = [s \in Tools |-> used[s] + Uses(Coming, s)]
    BY <1>8 DEF RunTools, detector, Coming
  <2>2. Coming' = << >>
    BY <1>8, ComingEnds
  <2>3. Uses(<< >>, t) = 0
    <3>1. << >> \in Seq(Call)
      OBVIOUS
    <3>. QED
      BY <3>1, UsesFacts
  <2>4. Uncounted(t)' = Uncounted(t)
    BY <2>1 DEF Uncounted
  <2>5. used'[t] + Uses(Coming', t) = used[t] + Uses(Coming, t)
    BY <2>1, <2>2, <2>3, ToolFacts
  <2>. QED
    BY <2>1, <2>4, <2>5, <1>0 DEF ChargedFor
<1>. QED
  BY <1>1, <1>2, <1>3, <1>4, <1>5, <1>6, <1>7, <1>8 DEF Next, Step

(* What is charged is below the limit of the tool.                         *)
LEMMA ChargedIsEnough ==
  ASSUME TypeOK, Standing, AnswerLast, Charged
  PROVE  FrequencyStopped
<1>. SUFFICES ASSUME NEW t \in Tools, InOneAnswer(t) > 0
              PROVE  used[t] < FreqHardLimit + Uncounted(t)
  BY DEF FrequencyStopped
<1>1. used[t] + Uses(Coming, t) < FreqHardLimit + Uncounted(t)
  BY DEF Charged
<1>. QED
  BY <1>1, ToolFacts

-----------------------------------------------------------------------------
(* The theorems.                                                           *)

(* The invariant holds at the start,                                       *)
LEMMA Starts ==
  ASSUME Init
  PROVE  IndInv
<1>1. /\ node = "idle" /\ messages = << >> /\ todos = [by |-> 0, open |-> FALSE]
      /\ issued = 0 /\ turns = 0 /\ window = << >> /\ warned = {} /\ freqWarned = {}
      /\ freq = [t \in Tools |-> 0] /\ ran = << >> /\ used = [t \in Tools |-> 0]
  BY DEF Init, NewDetector
<1>2. TypeOK
  <2>1. /\ MaxCalls \in Nat /\ MaxTurns \in Nat /\ WindowSize \in Nat /\ IsFiniteSet({})
    BY BoundAssumption, ThresholdAssumption, FS_EmptySet
  <2>2. << >> \in Seq(Messages) /\ << >> \in Seq(CallSets) /\ << >> \in Seq(BOOLEAN)
        /\ DOMAIN << >> = {} /\ Len(<< >>) = 0
    OBVIOUS
  <2>. QED
    BY <1>1, <2>1, <2>2 DEF TypeOK, Nodes
<1>3. Standing
  <2>1. DOMAIN messages = {}
    BY <1>1
  <2>. QED
    BY <2>1 DEF Standing, CallsApart, ResultsFollow, OfType
<1>4. AnswerLast /\ ListSeen /\ ListsInOrder /\ Coming = << >>
  <2>1. DOMAIN messages = {} /\ todos.by = 0
    BY <1>1
  <2>. QED
    BY <1>1, <2>1 DEF AnswerLast, ListSeen, ListsInOrder, Coming
<1>5. RepeatsStopped /\ NotTooMany
  BY <1>1, <1>4 DEF RepeatsStopped, NotTooMany, ToSet
<1>6. Charged
  <2>. SUFFICES ASSUME NEW t \in Tools, InOneAnswer(t) > 0
                PROVE  /\ used[t] + Uses(Coming, t) <= freq[t] + Uncounted(t)
                       /\ used[t] + Uses(Coming, t) < FreqHardLimit + Uncounted(t)
    BY DEF Charged
  <2>1. used[t] = 0 /\ freq[t] = 0
    BY <1>1
  <2>2. Uses(Coming, t) = 0 /\ Uncounted(t) \in Nat /\ FreqHardLimit \in Nat \ {0}
    BY <1>2, <1>3, <1>4, ToolFacts
  <2>. QED
    BY <2>1, <2>2
<1>7. FrequencyStopped
  BY <1>2, <1>3, <1>4, <1>6, ChargedIsEnough
<1>. QED
  BY <1>2, <1>3, <1>4, <1>5, <1>6, <1>7 DEF IndInv

(* and every step keeps it.                                                *)
LEMMA Steps ==
  ASSUME IndInv, [Next]_vars
  PROVE  IndInv'
<1>1. /\ TypeOK /\ Standing /\ AnswerLast /\ ListSeen /\ ListsInOrder
      /\ RepeatsStopped /\ NotTooMany /\ Charged
  BY DEF IndInv
<1>2. TypeOK'
  BY <1>1, TypeStep
<1>3. Standing' /\ AnswerLast'
  BY <1>1, MessagesStand, StandingIsSoundNext
<1>4. ListSeen' /\ ListsInOrder'
  BY <1>1, ListsStep, SeenStep
<1>5. RepeatsStopped' /\ NotTooMany'
  BY <1>1, RepeatsStep
<1>6. Charged'
  BY <1>1, ChargedStep
<1>7. FrequencyStopped'
  <2>. SUFFICES ASSUME NEW t \in Tools, InOneAnswer(t) > 0
                PROVE  used'[t] < FreqHardLimit + Uncounted(t)'
    BY DEF FrequencyStopped
  <2>1. used'[t] + Uses(Coming', t) < FreqHardLimit + Uncounted(t)'
    BY <1>6 DEF Charged
  <2>2. (Coming \in Seq(Call))'
    BY <1>2, <1>3, ComingTyped, PTL
  <2>3. Uses(Coming', t) \in Nat
    BY <2>2, UsesFacts
  <2>4. used'[t] \in Nat /\ IsFiniteSet(warned') /\ IsFiniteSet(freqWarned')
    BY <1>2 DEF TypeOK
  <2>5. InOneAnswer(t) \in Nat \ {0} /\ FreqHardLimit \in Nat
    BY InOneAnswerFacts, FrequencyAssumption
  <2>6. Slack(InOneAnswer(t), warned', freqWarned', t) \in Nat
    BY <2>4, <2>5, SlackTyped
  <2>7. Uncounted(t)' = Slack(InOneAnswer(t), warned', freqWarned', t)
    BY DEF Uncounted, Slack
  <2>8. Uncounted(t)' \in Nat
    BY <2>6, <2>7
  <2>. QED
    BY <2>1, <2>3, <2>4, <2>5, <2>8
<1>. QED
  BY <1>2, <1>3, <1>4, <1>5, <1>6, <1>7 DEF IndInv

(* The strengthened invariant holds in every behavior.                     *)
THEOREM Invariance == Spec => []IndInv
<1>1. Init => IndInv
  BY Starts
<1>2. IndInv /\ [Next]_vars => IndInv'
  BY Steps
<1>. QED
  BY <1>1, <1>2, PTL DEF Spec

(* What the model is sent is well-formed.                                  *)
THEOREM RequestsPaired == Spec => []RequestPaired
<1>1. IndInv => RequestPaired
  <2>. SUFFICES ASSUME IndInv PROVE Paired(Patched(messages))
    BY DEF RequestPaired
  <2>1. Sound(messages, issued)
    BY StandingIsSound DEF IndInv
  <2>. QED
    BY <2>1, PatchedIsPaired
<1>. QED
  BY <1>1, Invariance, PTL

(* A model that works on a list is shown it, or one that was to replace it. *)
THEOREM ListsAreSeen == Spec => []ListSeen
<1>1. IndInv => ListSeen
  BY DEF IndInv
<1>. QED
  BY <1>1, Invariance, PTL

(* The same calls reach the tools less than HardLimit times in the window. *)
THEOREM RepeatsAreStopped == Spec => []RepeatsStopped
<1>1. IndInv => RepeatsStopped
  BY DEF IndInv
<1>. QED
  BY <1>1, Invariance, PTL

(* A tool is used less often than its limit, but for uncounted calls.      *)
THEOREM FrequencyIsStopped == Spec => []FrequencyStopped
<1>1. IndInv => FrequencyStopped
  BY DEF IndInv
<1>. QED
  BY <1>1, Invariance, PTL

-----------------------------------------------------------------------------
(* SubagentTasks.  Each lemma about a step has one step per action.        *)

(* Every step keeps the types.                                             *)
LEMMA TasksTyped == ASSUME TasksTypeOK, StatusFits, PollsLeft,
  [TasksNext]_taskVars PROVE TasksTypeOK'
<1> USE DEF taskVars, resultVars, execVars, callerVars, SchedTo, CoroTo,
  CallerTo
<1>1. ASSUME NEW t \in Task, ExecuteAsync(t)
      PROVE  TasksTypeOK'
  BY <1>1, MaxPollsAssumption DEF StatusFits, TasksTypeOK, SubagentStatus,
     Terminal, SchedPlace, Busy, CoroPlace, CallerPlace, Report, ExecuteAsync
<1>2. ASSUME NEW t \in Task, Poll(t)
      PROVE  TasksTypeOK'
  <2>1. seen' \in [Task -> Terminal \cup {"none"}]
    BY <1>2 DEF TasksTypeOK, Poll, SubagentStatus, Terminal
  <2>2. caller' \in [Task -> CallerPlace]
    BY <1>2 DEF TasksTypeOK, Poll, CallerPlace
  <2>3. told' \in [Task -> Report]
    BY <1>2 DEF TasksTypeOK, Poll, Report, Ended
  <2>. QED  BY <1>2, <2>1, <2>2, <2>3 DEF TasksTypeOK, Poll
<1>3. ASSUME NEW t \in Task, ReportEnd(t)
      PROVE  TasksTypeOK'
  <2>1. told' \in [Task -> Report]
    BY <1>3 DEF TasksTypeOK, ReportEnd, Report, Saying, Cleanup, Ended
  <2>2. listed' \in [Task -> BOOLEAN]
    BY Zenon, <1>3 DEF TasksTypeOK, ReportEnd, Saying, Cleanup, Ended
  <2>3. caller' \in [Task -> CallerPlace]
    BY <1>3 DEF TasksTypeOK, ReportEnd, CallerPlace
  <2>. QED  BY <1>3, <2>1, <2>2, <2>3 DEF TasksTypeOK, ReportEnd
<1>4. ASSUME NEW t \in Task, Wake(t)
      PROVE  TasksTypeOK'
  <2>1. polls' \in [Task -> 0 .. MaxPolls + 1]
    BY <1>4, MaxPollsAssumption DEF TasksTypeOK, Wake, PollsLeft
  <2>2. caller' \in [Task -> CallerPlace]
    BY <1>4 DEF TasksTypeOK, Wake, CallerPlace
  <2>3. told' \in [Task -> Report]
    BY <1>4 DEF TasksTypeOK, Wake, Report
  <2>. QED  BY <1>4, <2>1, <2>2, <2>3 DEF TasksTypeOK, Wake
<1>5. ASSUME NEW t \in Task, CancelCaller(t)
      PROVE  TasksTypeOK'
  <2>1. cancel' \in [Task -> BOOLEAN]
    BY Zenon, <1>5 DEF TasksTypeOK, CancelCaller
  <2>2. polls' \in [Task -> 0 .. MaxPolls + 1]
    BY <1>5, MaxPollsAssumption DEF TasksTypeOK, CancelCaller, PollsLeft
  <2>3. caller' \in [Task -> CallerPlace]
    BY <1>5 DEF TasksTypeOK, CancelCaller, CallerPlace
  <2>. QED  BY <1>5, <2>1, <2>2, <2>3 DEF TasksTypeOK, CancelCaller
<1>6. ASSUME NEW t \in Task, Janitor(t)
      PROVE  TasksTypeOK'
  <2>1. listed' \in [Task -> BOOLEAN]
    BY Zenon, <1>6 DEF TasksTypeOK, Janitor, Cleanup, Ended
  <2>2. caller' \in [Task -> CallerPlace]
    BY <1>6 DEF TasksTypeOK, Janitor, CallerPlace
  <2>. QED  BY <1>6, <2>1, <2>2 DEF TasksTypeOK, Janitor
<1>7. ASSUME NEW t \in Task, JanitorWake(t)
      PROVE  TasksTypeOK'
  <2>1. polls' \in [Task -> 0 .. MaxPolls + 1]
    BY <1>7, MaxPollsAssumption DEF TasksTypeOK, JanitorWake, PollsLeft
  <2>2. caller' \in [Task -> CallerPlace]
    BY <1>7 DEF TasksTypeOK, JanitorWake, CallerPlace
  <2>. QED  BY <1>7, <2>1, <2>2 DEF TasksTypeOK, JanitorWake
<1>8. ASSUME NEW t \in Task, BeginTask(t)
      PROVE  TasksTypeOK'
  BY <1>8, MaxPollsAssumption DEF StatusFits, TasksTypeOK, SubagentStatus,
     Terminal, SchedPlace, Busy, CoroPlace, CallerPlace, Report, BeginTask
<1>9. ASSUME NEW t \in Task, Submit(t)
      PROVE  TasksTypeOK'
  <2>1. status' \in [Task -> SubagentStatus \cup {"none"}]
    BY <1>9 DEF TasksTypeOK, Submit, SubagentStatus, Terminal
  <2>2. stamped' \in [Task -> BOOLEAN]
    BY Zenon, <1>9 DEF TasksTypeOK, Submit
  <2>3. coro' \in [Task -> CoroPlace]
    BY <1>9 DEF TasksTypeOK, Submit, CoroPlace
  <2>4. sched' \in [Task -> SchedPlace]
    BY <1>9 DEF TasksTypeOK, Submit, SchedPlace, Busy
  <2>. QED  BY <1>9, <2>1, <2>2, <2>3, <2>4 DEF TasksTypeOK, Submit
<1>10. ASSUME NEW t \in Task, Collect(t)
      PROVE  TasksTypeOK'
  <2>1. stamped' \in [Task -> BOOLEAN]
    BY Zenon, <1>10 DEF TasksTypeOK, Collect
  <2>2. sched' \in [Task -> SchedPlace]
    BY <1>10 DEF TasksTypeOK, Collect, SchedPlace, Busy
  <2>. QED  BY <1>10, <2>1, <2>2 DEF TasksTypeOK, Collect
<1>11. ASSUME NEW t \in Task, Expire(t)
      PROVE  TasksTypeOK'
  BY <1>11, MaxPollsAssumption DEF StatusFits, TasksTypeOK, SubagentStatus,
     Terminal, SchedPlace, Busy, CoroPlace, CallerPlace, Report, Expire
<1>12. ASSUME NEW t \in Task, TimeOut(t)
      PROVE  TasksTypeOK'
  BY <1>12, MaxPollsAssumption DEF StatusFits, TasksTypeOK, SubagentStatus,
     Terminal, SchedPlace, Busy, CoroPlace, CallerPlace, Report, TimeOut
<1>13. ASSUME NEW t \in Task, Signal(t)
      PROVE  TasksTypeOK'
  BY <1>13, MaxPollsAssumption DEF StatusFits, TasksTypeOK, SubagentStatus,
     Terminal, SchedPlace, Busy, CoroPlace, CallerPlace, Report, Signal
<1>14. ASSUME NEW t \in Task, Stop(t)
      PROVE  TasksTypeOK'
  <2>1. status' \in [Task -> SubagentStatus \cup {"none"}]
    BY <1>14 DEF TasksTypeOK, Stop, SubagentStatus, Terminal
  <2>2. stamped' \in [Task -> BOOLEAN]
    BY Zenon, <1>14 DEF TasksTypeOK, Stop
  <2>3. coro' \in [Task -> CoroPlace]
    BY <1>14 DEF TasksTypeOK, Stop, CoroPlace
  <2>. QED  BY <1>14, <2>1, <2>2, <2>3 DEF TasksTypeOK, Stop
<1>15. ASSUME NEW t \in Task, Begin(t)
      PROVE  TasksTypeOK'
  BY <1>15, MaxPollsAssumption DEF StatusFits, TasksTypeOK, SubagentStatus,
     Terminal, SchedPlace, Busy, CoroPlace, CallerPlace, Report, Begin
<1>16. ASSUME NEW t \in Task, Finish(t)
      PROVE  TasksTypeOK'
  BY <1>16, MaxPollsAssumption DEF StatusFits, TasksTypeOK, SubagentStatus,
     Terminal, SchedPlace, Busy, CoroPlace, CallerPlace, Report, Finish
<1>17. ASSUME NEW t \in Task, Store(t)
      PROVE  TasksTypeOK'
  BY <1>17, MaxPollsAssumption DEF StatusFits, TasksTypeOK, SubagentStatus,
     Terminal, SchedPlace, Busy, CoroPlace, CallerPlace, Report, Store
<1>18. ASSUME NEW t \in Task, Raise(t)
      PROVE  TasksTypeOK'
  BY <1>18, MaxPollsAssumption DEF StatusFits, TasksTypeOK, SubagentStatus,
     Terminal, SchedPlace, Busy, CoroPlace, CallerPlace, Report, Raise
<1>19. ASSUME NEW t \in Task, Fail(t)
      PROVE  TasksTypeOK'
  BY <1>19, MaxPollsAssumption DEF StatusFits, TasksTypeOK, SubagentStatus,
     Terminal, SchedPlace, Busy, CoroPlace, CallerPlace, Report, Fail
<1>20. ASSUME NEW t \in Task, Unwind(t)
      PROVE  TasksTypeOK'
  BY <1>20, MaxPollsAssumption DEF StatusFits, TasksTypeOK, SubagentStatus,
     Terminal, SchedPlace, Busy, CoroPlace, CallerPlace, Report, Unwind
<1>21. CASE UNCHANGED taskVars
  BY <1>21, MaxPollsAssumption DEF StatusFits, TasksTypeOK, SubagentStatus,
     Terminal, SchedPlace, Busy, CoroPlace, CallerPlace, Report
<1>. QED  BY <1>1, <1>2, <1>3, <1>4, <1>5, <1>6, <1>7, <1>8, <1>9, <1>10,
   <1>11, <1>12, <1>13, <1>14, <1>15, <1>16, <1>17, <1>18, <1>19, <1>20, <1>21
   DEF TasksNext, Tool, RunTask, Execute, Agent

(* Every step keeps the status in line with where the threads are.         *)
LEMMA FitsInv ==
  ASSUME TasksTypeOK, StatusFits, ListedWhileNeeded, RemovedHasEnded,
    [TasksNext]_taskVars
  PROVE  StatusFits'
<1> USE DEF taskVars, resultVars, execVars, callerVars, SchedTo, CoroTo,
  CallerTo
<1>1. ASSUME NEW t \in Task, ExecuteAsync(t)
      PROVE  StatusFits'
  BY <1>1 DEF TasksTypeOK, StatusFits, Terminal, ExecuteAsync
<1>2. ASSUME NEW t \in Task, Poll(t)
      PROVE  StatusFits'
  BY <1>2 DEF TasksTypeOK, StatusFits, Terminal, Poll, Ended
<1>3. ASSUME NEW t \in Task, ReportEnd(t)
      PROVE  StatusFits'
  BY <1>3 DEF TasksTypeOK, StatusFits, Terminal, ReportEnd, Saying, Cleanup,
    Ended
<1>4. ASSUME NEW t \in Task, Wake(t)
      PROVE  StatusFits'
  BY <1>4 DEF TasksTypeOK, StatusFits, Terminal, Wake
<1>5. ASSUME NEW t \in Task, CancelCaller(t)
      PROVE  StatusFits'
  BY <1>5 DEF TasksTypeOK, StatusFits, Terminal, CancelCaller
<1>6. ASSUME NEW t \in Task, Janitor(t)
      PROVE  StatusFits'
  BY <1>6 DEF TasksTypeOK, StatusFits, Terminal, Janitor, Cleanup, Ended
<1>7. ASSUME NEW t \in Task, JanitorWake(t)
      PROVE  StatusFits'
  BY <1>7 DEF TasksTypeOK, StatusFits, Terminal, JanitorWake
<1>8. ASSUME NEW t \in Task, BeginTask(t)
      PROVE  StatusFits'
  BY <1>8 DEF TasksTypeOK, StatusFits, Terminal, BeginTask
<1>9. ASSUME NEW t \in Task, Submit(t)
      PROVE  StatusFits'
  BY <1>9 DEF TasksTypeOK, StatusFits, Terminal, Submit
<1>10. ASSUME NEW t \in Task, Collect(t)
      PROVE  StatusFits'
  BY <1>10 DEF TasksTypeOK, StatusFits, Terminal, Collect
<1>11. ASSUME NEW t \in Task, Expire(t)
      PROVE  StatusFits'
  BY <1>11 DEF TasksTypeOK, StatusFits, Terminal, Expire
<1>12. ASSUME NEW t \in Task, TimeOut(t)
      PROVE  StatusFits'
  BY <1>12 DEF TasksTypeOK, StatusFits, Terminal, TimeOut
<1>13. ASSUME NEW t \in Task, Signal(t)
      PROVE  StatusFits'
  BY <1>13 DEF TasksTypeOK, StatusFits, Terminal, Signal
<1>14. ASSUME NEW t \in Task, Stop(t)
      PROVE  StatusFits'
  BY <1>14 DEF TasksTypeOK, StatusFits, Terminal, Stop
<1>15. ASSUME NEW t \in Task, Begin(t)
      PROVE  StatusFits'
  BY <1>15 DEF TasksTypeOK, StatusFits, Terminal, Begin
<1>16. ASSUME NEW t \in Task, Finish(t)
      PROVE  StatusFits'
  BY <1>16 DEF TasksTypeOK, StatusFits, Terminal, Finish
<1>17. ASSUME NEW t \in Task, Store(t)
      PROVE  StatusFits'
  BY <1>17 DEF TasksTypeOK, StatusFits, Terminal, Store
<1>18. ASSUME NEW t \in Task, Raise(t)
      PROVE  StatusFits'
  BY <1>18 DEF TasksTypeOK, StatusFits, Terminal, Raise
<1>19. ASSUME NEW t \in Task, Fail(t)
      PROVE  StatusFits'
  BY <1>19 DEF TasksTypeOK, StatusFits, Terminal, Fail
<1>20. ASSUME NEW t \in Task, Unwind(t)
      PROVE  StatusFits'
  BY <1>20 DEF TasksTypeOK, StatusFits, Terminal, Unwind
<1>21. CASE UNCHANGED taskVars
  BY <1>21 DEF TasksTypeOK, StatusFits, Terminal
<1>. QED  BY <1>1, <1>2, <1>3, <1>4, <1>5, <1>6, <1>7, <1>8, <1>9, <1>10,
   <1>11, <1>12, <1>13, <1>14, <1>15, <1>16, <1>17, <1>18, <1>19, <1>20, <1>21
   DEF TasksNext, Tool, RunTask, Execute, Agent

(* Every step leaves polls to those who go on polling.                     *)
LEMMA PollsInv ==
  ASSUME TasksTypeOK, PollsLeft, [TasksNext]_taskVars
  PROVE  PollsLeft'
<1> USE DEF taskVars, resultVars, execVars, callerVars, SchedTo, CoroTo,
  CallerTo
<1>1. ASSUME NEW t \in Task, ExecuteAsync(t)
      PROVE  PollsLeft'
  BY <1>1, MaxPollsAssumption DEF TasksTypeOK, PollsLeft, ExecuteAsync
<1>2. ASSUME NEW t \in Task, Poll(t)
      PROVE  PollsLeft'
  BY <1>2, MaxPollsAssumption DEF TasksTypeOK, PollsLeft, Poll, Ended
<1>3. ASSUME NEW t \in Task, ReportEnd(t)
      PROVE  PollsLeft'
  BY <1>3, MaxPollsAssumption DEF TasksTypeOK, PollsLeft, ReportEnd, Saying,
     Cleanup, Ended
<1>4. ASSUME NEW t \in Task, Wake(t)
      PROVE  PollsLeft'
  BY <1>4, MaxPollsAssumption DEF TasksTypeOK, PollsLeft, Wake
<1>5. ASSUME NEW t \in Task, CancelCaller(t)
      PROVE  PollsLeft'
  BY <1>5, MaxPollsAssumption DEF TasksTypeOK, PollsLeft, CancelCaller
<1>6. ASSUME NEW t \in Task, Janitor(t)
      PROVE  PollsLeft'
  BY <1>6, MaxPollsAssumption DEF TasksTypeOK, PollsLeft, Janitor, Cleanup,
    Ended
<1>7. ASSUME NEW t \in Task, JanitorWake(t)
      PROVE  PollsLeft'
  BY <1>7, MaxPollsAssumption DEF TasksTypeOK, PollsLeft, JanitorWake
<1>8. ASSUME NEW t \in Task, BeginTask(t)
      PROVE  PollsLeft'
  BY <1>8, MaxPollsAssumption DEF TasksTypeOK, PollsLeft, BeginTask
<1>9. ASSUME NEW t \in Task, Submit(t)
      PROVE  PollsLeft'
  BY <1>9, MaxPollsAssumption DEF TasksTypeOK, PollsLeft, Submit
<1>10. ASSUME NEW t \in Task, Collect(t)
      PROVE  PollsLeft'
  BY <1>10, MaxPollsAssumption DEF TasksTypeOK, PollsLeft, Collect
<1>11. ASSUME NEW t \in Task, Expire(t)
      PROVE  PollsLeft'
  BY <1>11, MaxPollsAssumption DEF TasksTypeOK, PollsLeft, Expire
<1>12. ASSUME NEW t \in Task, TimeOut(t)
      PROVE  PollsLeft'
  BY <1>12, MaxPollsAssumption DEF TasksTypeOK, PollsLeft, TimeOut
<1>13. ASSUME NEW t \in Task, Signal(t)
      PROVE  PollsLeft'
  BY <1>13, MaxPollsAssumption DEF TasksTypeOK, PollsLeft, Signal
<1>14. ASSUME NEW t \in Task, Stop(t)
      PROVE  PollsLeft'
  BY <1>14, MaxPollsAssumption DEF TasksTypeOK, PollsLeft, Stop
<1>15. ASSUME NEW t \in Task, Begin(t)
      PROVE  PollsLeft'
  BY <1>15, MaxPollsAssumption DEF TasksTypeOK, PollsLeft, Begin
<1>16. ASSUME NEW t \in Task, Finish(t)
      PROVE  PollsLeft'
  BY <1>16, MaxPollsAssumption DEF TasksTypeOK, PollsLeft, Finish
<1>17. ASSUME NEW t \in Task, Store(t)
      PROVE  PollsLeft'
  BY <1>17, MaxPollsAssumption DEF TasksTypeOK, PollsLeft, Store
<1>18. ASSUME NEW t \in Task, Raise(t)
      PROVE  PollsLeft'
  BY <1>18, MaxPollsAssumption DEF TasksTypeOK, PollsLeft, Raise
<1>19. ASSUME NEW t \in Task, Fail(t)
      PROVE  PollsLeft'
  BY <1>19, MaxPollsAssumption DEF TasksTypeOK, PollsLeft, Fail
<1>20. ASSUME NEW t \in Task, Unwind(t)
      PROVE  PollsLeft'
  BY <1>20, MaxPollsAssumption DEF TasksTypeOK, PollsLeft, Unwind
<1>21. CASE UNCHANGED taskVars
  BY <1>21, MaxPollsAssumption DEF TasksTypeOK, PollsLeft
<1>. QED  BY <1>1, <1>2, <1>3, <1>4, <1>5, <1>6, <1>7, <1>8, <1>9, <1>10,
   <1>11, <1>12, <1>13, <1>14, <1>15, <1>16, <1>17, <1>18, <1>19, <1>20, <1>21
   DEF TasksNext, Tool, RunTask, Execute, Agent

(* Every step keeps listed the entries that somebody still needs.          *)
LEMMA ListedInv ==
  ASSUME TasksTypeOK, StatusFits, ListedWhileNeeded, [TasksNext]_taskVars
  PROVE  ListedWhileNeeded'
<1> USE DEF taskVars, resultVars, execVars, callerVars, SchedTo, CoroTo,
  CallerTo
<1>1. ASSUME NEW t \in Task, ExecuteAsync(t)
      PROVE  ListedWhileNeeded'
  BY <1>1 DEF TasksTypeOK, StatusFits, ListedWhileNeeded, Terminal,
    ExecuteAsync
<1>2. ASSUME NEW t \in Task, Poll(t)
      PROVE  ListedWhileNeeded'
  BY <1>2 DEF TasksTypeOK, StatusFits, ListedWhileNeeded, Terminal, Poll, Ended
<1>3. ASSUME NEW t \in Task, ReportEnd(t)
      PROVE  ListedWhileNeeded'
  BY <1>3 DEF TasksTypeOK, StatusFits, ListedWhileNeeded, Terminal, ReportEnd,
     Saying, Cleanup, Ended
<1>4. ASSUME NEW t \in Task, Wake(t)
      PROVE  ListedWhileNeeded'
  BY <1>4 DEF TasksTypeOK, StatusFits, ListedWhileNeeded, Terminal, Wake
<1>5. ASSUME NEW t \in Task, CancelCaller(t)
      PROVE  ListedWhileNeeded'
  BY <1>5 DEF TasksTypeOK, StatusFits, ListedWhileNeeded, Terminal,
    CancelCaller
<1>6. ASSUME NEW t \in Task, Janitor(t)
      PROVE  ListedWhileNeeded'
  BY <1>6 DEF TasksTypeOK, StatusFits, ListedWhileNeeded, Terminal, Janitor,
     Cleanup, Ended
<1>7. ASSUME NEW t \in Task, JanitorWake(t)
      PROVE  ListedWhileNeeded'
  BY <1>7 DEF TasksTypeOK, StatusFits, ListedWhileNeeded, Terminal, JanitorWake
<1>8. ASSUME NEW t \in Task, BeginTask(t)
      PROVE  ListedWhileNeeded'
  BY <1>8 DEF TasksTypeOK, StatusFits, ListedWhileNeeded, Terminal, BeginTask
<1>9. ASSUME NEW t \in Task, Submit(t)
      PROVE  ListedWhileNeeded'
  BY <1>9 DEF TasksTypeOK, StatusFits, ListedWhileNeeded, Terminal, Submit
<1>10. ASSUME NEW t \in Task, Collect(t)
      PROVE  ListedWhileNeeded'
  BY <1>10 DEF TasksTypeOK, StatusFits, ListedWhileNeeded, Terminal, Collect
<1>11. ASSUME NEW t \in Task, Expire(t)
      PROVE  ListedWhileNeeded'
  BY <1>11 DEF TasksTypeOK, StatusFits, ListedWhileNeeded, Terminal, Expire
<1>12. ASSUME NEW t \in Task, TimeOut(t)
      PROVE  ListedWhileNeeded'
  BY <1>12 DEF TasksTypeOK, StatusFits, ListedWhileNeeded, Terminal, TimeOut
<1>13. ASSUME NEW t \in Task, Signal(t)
      PROVE  ListedWhileNeeded'
  BY <1>13 DEF TasksTypeOK, StatusFits, ListedWhileNeeded, Terminal, Signal
<1>14. ASSUME NEW t \in Task, Stop(t)
      PROVE  ListedWhileNeeded'
  BY <1>14 DEF TasksTypeOK, StatusFits, ListedWhileNeeded, Terminal, Stop
<1>15. ASSUME NEW t \in Task, Begin(t)
      PROVE  ListedWhileNeeded'
  BY <1>15 DEF TasksTypeOK, StatusFits, ListedWhileNeeded, Terminal, Begin
<1>16. ASSUME NEW t \in Task, Finish(t)
      PROVE  ListedWhileNeeded'
  BY <1>16 DEF TasksTypeOK, StatusFits, ListedWhileNeeded, Terminal, Finish
<1>17. ASSUME NEW t \in Task, Store(t)
      PROVE  ListedWhileNeeded'
  BY <1>17 DEF TasksTypeOK, StatusFits, ListedWhileNeeded, Terminal, Store
<1>18. ASSUME NEW t \in Task, Raise(t)
      PROVE  ListedWhileNeeded'
  BY <1>18 DEF TasksTypeOK, StatusFits, ListedWhileNeeded, Terminal, Raise
<1>19. ASSUME NEW t \in Task, Fail(t)
      PROVE  ListedWhileNeeded'
  BY <1>19 DEF TasksTypeOK, StatusFits, ListedWhileNeeded, Terminal, Fail
<1>20. ASSUME NEW t \in Task, Unwind(t)
      PROVE  ListedWhileNeeded'
  BY <1>20 DEF TasksTypeOK, StatusFits, ListedWhileNeeded, Terminal, Unwind
<1>21. CASE UNCHANGED taskVars
  BY <1>21 DEF TasksTypeOK, StatusFits, ListedWhileNeeded, Terminal
<1>. QED  BY <1>1, <1>2, <1>3, <1>4, <1>5, <1>6, <1>7, <1>8, <1>9, <1>10,
   <1>11, <1>12, <1>13, <1>14, <1>15, <1>16, <1>17, <1>18, <1>19, <1>20, <1>21
   DEF TasksNext, Tool, RunTask, Execute, Agent

(* An entry is removed when its task has ended, and no step takes a task   *)
(* back from a terminal status.                                            *)
LEMMA RemovedInv ==
  ASSUME TasksTypeOK, StatusFits, ListedWhileNeeded, RemovedHasEnded,
    [TasksNext]_taskVars
  PROVE  RemovedHasEnded'
<1> USE DEF taskVars, resultVars, execVars, callerVars, SchedTo, CoroTo,
  CallerTo
<1>1. ASSUME NEW t \in Task, ExecuteAsync(t)
      PROVE  RemovedHasEnded'
  BY <1>1 DEF TasksTypeOK, StatusFits, ListedWhileNeeded, RemovedHasEnded,
     Terminal, ExecuteAsync
<1>2. ASSUME NEW t \in Task, Poll(t)
      PROVE  RemovedHasEnded'
  BY <1>2 DEF TasksTypeOK, StatusFits, ListedWhileNeeded, RemovedHasEnded,
     Terminal, Poll, Ended
<1>3. ASSUME NEW t \in Task, ReportEnd(t)
      PROVE  RemovedHasEnded'
  BY <1>3 DEF TasksTypeOK, StatusFits, ListedWhileNeeded, RemovedHasEnded,
     Terminal, ReportEnd, Saying, Cleanup, Ended
<1>4. ASSUME NEW t \in Task, Wake(t)
      PROVE  RemovedHasEnded'
  BY <1>4 DEF TasksTypeOK, StatusFits, ListedWhileNeeded, RemovedHasEnded,
     Terminal, Wake
<1>5. ASSUME NEW t \in Task, CancelCaller(t)
      PROVE  RemovedHasEnded'
  BY <1>5 DEF TasksTypeOK, StatusFits, ListedWhileNeeded, RemovedHasEnded,
     Terminal, CancelCaller
<1>6. ASSUME NEW t \in Task, Janitor(t)
      PROVE  RemovedHasEnded'
  BY <1>6 DEF TasksTypeOK, StatusFits, ListedWhileNeeded, RemovedHasEnded,
     Terminal, Janitor, Cleanup, Ended
<1>7. ASSUME NEW t \in Task, JanitorWake(t)
      PROVE  RemovedHasEnded'
  BY <1>7 DEF TasksTypeOK, StatusFits, ListedWhileNeeded, RemovedHasEnded,
     Terminal, JanitorWake
<1>8. ASSUME NEW t \in Task, BeginTask(t)
      PROVE  RemovedHasEnded'
  BY <1>8 DEF TasksTypeOK, StatusFits, ListedWhileNeeded, RemovedHasEnded,
     Terminal, BeginTask
<1>9. ASSUME NEW t \in Task, Submit(t)
      PROVE  RemovedHasEnded'
  BY <1>9 DEF TasksTypeOK, StatusFits, ListedWhileNeeded, RemovedHasEnded,
     Terminal, Submit
<1>10. ASSUME NEW t \in Task, Collect(t)
      PROVE  RemovedHasEnded'
  BY <1>10 DEF TasksTypeOK, StatusFits, ListedWhileNeeded, RemovedHasEnded,
     Terminal, Collect
<1>11. ASSUME NEW t \in Task, Expire(t)
      PROVE  RemovedHasEnded'
  BY <1>11 DEF TasksTypeOK, StatusFits, ListedWhileNeeded, RemovedHasEnded,
     Terminal, Expire
<1>12. ASSUME NEW t \in Task, TimeOut(t)
      PROVE  RemovedHasEnded'
  BY <1>12 DEF TasksTypeOK, StatusFits, ListedWhileNeeded, RemovedHasEnded,
     Terminal, TimeOut
<1>13. ASSUME NEW t \in Task, Signal(t)
      PROVE  RemovedHasEnded'
  BY <1>13 DEF TasksTypeOK, StatusFits, ListedWhileNeeded, RemovedHasEnded,
     Terminal, Signal
<1>14. ASSUME NEW t \in Task, Stop(t)
      PROVE  RemovedHasEnded'
  BY <1>14 DEF TasksTypeOK, StatusFits, ListedWhileNeeded, RemovedHasEnded,
     Terminal, Stop
<1>15. ASSUME NEW t \in Task, Begin(t)
      PROVE  RemovedHasEnded'
  BY <1>15 DEF TasksTypeOK, StatusFits, ListedWhileNeeded, RemovedHasEnded,
     Terminal, Begin
<1>16. ASSUME NEW t \in Task, Finish(t)
      PROVE  RemovedHasEnded'
  BY <1>16 DEF TasksTypeOK, StatusFits, ListedWhileNeeded, RemovedHasEnded,
     Terminal, Finish
<1>17. ASSUME NEW t \in Task, Store(t)
      PROVE  RemovedHasEnded'
  BY <1>17 DEF TasksTypeOK, StatusFits, ListedWhileNeeded, RemovedHasEnded,
     Terminal, Store
<1>18. ASSUME NEW t \in Task, Raise(t)
      PROVE  RemovedHasEnded'
  BY <1>18 DEF TasksTypeOK, StatusFits, ListedWhileNeeded, RemovedHasEnded,
     Terminal, Raise
<1>19. ASSUME NEW t \in Task, Fail(t)
      PROVE  RemovedHasEnded'
  BY <1>19 DEF TasksTypeOK, StatusFits, ListedWhileNeeded, RemovedHasEnded,
     Terminal, Fail
<1>20. ASSUME NEW t \in Task, Unwind(t)
      PROVE  RemovedHasEnded'
  BY <1>20 DEF TasksTypeOK, StatusFits, ListedWhileNeeded, RemovedHasEnded,
     Terminal, Unwind
<1>21. CASE UNCHANGED taskVars
  BY <1>21 DEF TasksTypeOK, StatusFits, ListedWhileNeeded, RemovedHasEnded,
     Terminal
<1>. QED  BY <1>1, <1>2, <1>3, <1>4, <1>5, <1>6, <1>7, <1>8, <1>9, <1>10,
   <1>11, <1>12, <1>13, <1>14, <1>15, <1>16, <1>17, <1>18, <1>19, <1>20, <1>21
   DEF TasksNext, Tool, RunTask, Execute, Agent

(* The result is written before COMPLETED, and never taken back.           *)
LEMMA ResultInv ==
  ASSUME TasksTypeOK, StatusFits, ListedWhileNeeded, ResultFirst,
    NeverDisappears,
         CompletedHasResult, [TasksNext]_taskVars
  PROVE  ResultFirst' /\ CompletedHasResult' /\ NeverDisappears'
<1> USE DEF taskVars, resultVars, execVars, callerVars, SchedTo, CoroTo,
  CallerTo
<1>1. ASSUME NEW t \in Task, ExecuteAsync(t)
      PROVE  ResultFirst' /\ CompletedHasResult' /\ NeverDisappears'
  BY <1>1 DEF TasksTypeOK, StatusFits, ListedWhileNeeded, ResultFirst,
     NeverDisappears, CompletedHasResult, ExecuteAsync
<1>2. ASSUME NEW t \in Task, Poll(t)
      PROVE  ResultFirst' /\ CompletedHasResult' /\ NeverDisappears'
  <2>1. ResultFirst'
    BY <1>2 DEF TasksTypeOK, ResultFirst, CompletedHasResult, Poll, Ended
  <2>2. CompletedHasResult'
    BY <1>2 DEF TasksTypeOK, StatusFits, ResultFirst, CompletedHasResult, Poll,
       Ended
  <2>3. NeverDisappears'
    BY <1>2 DEF TasksTypeOK, ListedWhileNeeded, NeverDisappears, Poll, Ended
  <2>. QED  BY <2>1, <2>2, <2>3
<1>3. ASSUME NEW t \in Task, ReportEnd(t)
      PROVE  ResultFirst' /\ CompletedHasResult' /\ NeverDisappears'
  BY <1>3 DEF TasksTypeOK, StatusFits, ListedWhileNeeded, ResultFirst,
     NeverDisappears, CompletedHasResult, ReportEnd, Saying, Cleanup, Ended
<1>4. ASSUME NEW t \in Task, Wake(t)
      PROVE  ResultFirst' /\ CompletedHasResult' /\ NeverDisappears'
  <2>1. ResultFirst'
    BY <1>4 DEF TasksTypeOK, ResultFirst, CompletedHasResult, Wake
  <2>2. CompletedHasResult'
    BY <1>4 DEF TasksTypeOK, StatusFits, ResultFirst, CompletedHasResult, Wake
  <2>3. NeverDisappears'
    BY <1>4 DEF TasksTypeOK, ListedWhileNeeded, NeverDisappears, Wake
  <2>. QED  BY <2>1, <2>2, <2>3
<1>5. ASSUME NEW t \in Task, CancelCaller(t)
      PROVE  ResultFirst' /\ CompletedHasResult' /\ NeverDisappears'
  BY <1>5 DEF TasksTypeOK, StatusFits, ListedWhileNeeded, ResultFirst,
     NeverDisappears, CompletedHasResult, CancelCaller
<1>6. ASSUME NEW t \in Task, Janitor(t)
      PROVE  ResultFirst' /\ CompletedHasResult' /\ NeverDisappears'
  BY <1>6 DEF TasksTypeOK, StatusFits, ListedWhileNeeded, ResultFirst,
     NeverDisappears, CompletedHasResult, Janitor, Cleanup, Ended
<1>7. ASSUME NEW t \in Task, JanitorWake(t)
      PROVE  ResultFirst' /\ CompletedHasResult' /\ NeverDisappears'
  BY <1>7 DEF TasksTypeOK, StatusFits, ListedWhileNeeded, ResultFirst,
     NeverDisappears, CompletedHasResult, JanitorWake
<1>8. ASSUME NEW t \in Task, BeginTask(t)
      PROVE  ResultFirst' /\ CompletedHasResult' /\ NeverDisappears'
  BY <1>8 DEF TasksTypeOK, StatusFits, ListedWhileNeeded, ResultFirst,
     NeverDisappears, CompletedHasResult, BeginTask
<1>9. ASSUME NEW t \in Task, Submit(t)
      PROVE  ResultFirst' /\ CompletedHasResult' /\ NeverDisappears'
  <2>1. ResultFirst'
    <3>1. UNCHANGED <<result, seen>>
      BY <1>9 DEF Submit
    <3>2. \A q \in Task : coro'[q] = "storing" => coro[q] = "storing"
      BY <1>9 DEF TasksTypeOK, Submit
    <3>. QED  BY <3>1, <3>2 DEF ResultFirst
  <2>2. CompletedHasResult'
    <3>1. UNCHANGED <<result, told>>
      BY <1>9 DEF Submit
    <3>2. \A q \in Task : status'[q] = "completed" => status[q] = "completed"
      BY <1>9 DEF TasksTypeOK, Submit
    <3>. QED  BY <3>1, <3>2 DEF CompletedHasResult
  <2>3. NeverDisappears'
    BY <1>9 DEF TasksTypeOK, ListedWhileNeeded, NeverDisappears, Submit
  <2>. QED  BY <2>1, <2>2, <2>3
<1>10. ASSUME NEW t \in Task, Collect(t)
      PROVE  ResultFirst' /\ CompletedHasResult' /\ NeverDisappears'
  BY <1>10 DEF TasksTypeOK, StatusFits, ListedWhileNeeded, ResultFirst,
     NeverDisappears, CompletedHasResult, Collect
<1>11. ASSUME NEW t \in Task, Expire(t)
      PROVE  ResultFirst' /\ CompletedHasResult' /\ NeverDisappears'
  BY <1>11 DEF TasksTypeOK, StatusFits, ListedWhileNeeded, ResultFirst,
     NeverDisappears, CompletedHasResult, Expire
<1>12. ASSUME NEW t \in Task, TimeOut(t)
      PROVE  ResultFirst' /\ CompletedHasResult' /\ NeverDisappears'
  BY <1>12 DEF TasksTypeOK, StatusFits, ListedWhileNeeded, ResultFirst,
     NeverDisappears, CompletedHasResult, TimeOut
<1>13. ASSUME NEW t \in Task, Signal(t)
      PROVE  ResultFirst' /\ CompletedHasResult' /\ NeverDisappears'
  BY <1>13 DEF TasksTypeOK, StatusFits, ListedWhileNeeded, ResultFirst,
     NeverDisappears, CompletedHasResult, Signal
<1>14. ASSUME NEW t \in Task, Stop(t)
      PROVE  ResultFirst' /\ CompletedHasResult' /\ NeverDisappears'
  BY <1>14 DEF TasksTypeOK, StatusFits, ListedWhileNeeded, ResultFirst,
     NeverDisappears, CompletedHasResult, Stop
<1>15. ASSUME NEW t \in Task, Begin(t)
      PROVE  ResultFirst' /\ CompletedHasResult' /\ NeverDisappears'
  BY <1>15 DEF TasksTypeOK, StatusFits, ListedWhileNeeded, ResultFirst,
     NeverDisappears, CompletedHasResult, Begin
<1>16. ASSUME NEW t \in Task, Finish(t)
      PROVE  ResultFirst' /\ CompletedHasResult' /\ NeverDisappears'
  BY <1>16 DEF TasksTypeOK, StatusFits, ListedWhileNeeded, ResultFirst,
     NeverDisappears, CompletedHasResult, Finish
<1>17. ASSUME NEW t \in Task, Store(t)
      PROVE  ResultFirst' /\ CompletedHasResult' /\ NeverDisappears'
  BY <1>17 DEF TasksTypeOK, StatusFits, ListedWhileNeeded, ResultFirst,
     NeverDisappears, CompletedHasResult, Store
<1>18. ASSUME NEW t \in Task, Raise(t)
      PROVE  ResultFirst' /\ CompletedHasResult' /\ NeverDisappears'
  BY <1>18 DEF TasksTypeOK, StatusFits, ListedWhileNeeded, ResultFirst,
     NeverDisappears, CompletedHasResult, Raise
<1>19. ASSUME NEW t \in Task, Fail(t)
      PROVE  ResultFirst' /\ CompletedHasResult' /\ NeverDisappears'
  BY <1>19 DEF TasksTypeOK, StatusFits, ListedWhileNeeded, ResultFirst,
     NeverDisappears, CompletedHasResult, Fail
<1>20. ASSUME NEW t \in Task, Unwind(t)
      PROVE  ResultFirst' /\ CompletedHasResult' /\ NeverDisappears'
  BY <1>20 DEF TasksTypeOK, StatusFits, ListedWhileNeeded, ResultFirst,
     NeverDisappears, CompletedHasResult, Unwind
<1>21. CASE UNCHANGED taskVars
  BY <1>21 DEF TasksTypeOK, StatusFits, ListedWhileNeeded, ResultFirst,
     NeverDisappears, CompletedHasResult
<1>. QED  BY <1>1, <1>2, <1>3, <1>4, <1>5, <1>6, <1>7, <1>8, <1>9, <1>10,
   <1>11, <1>12, <1>13, <1>14, <1>15, <1>16, <1>17, <1>18, <1>19, <1>20, <1>21
   DEF TasksNext, Tool, RunTask, Execute, Agent

(* While the timeout holds the lock no coroutine can become cancelled, and *)
(* a cancelled task is not one that a timeout takes for running.           *)
LEMMA AloneInv ==
  ASSUME TasksTypeOK, StatusFits, CancelledAlone, [TasksNext]_taskVars
  PROVE  CancelledAlone' /\ CancelledStays
<1> USE DEF taskVars, resultVars, execVars, callerVars, SchedTo, CoroTo,
  CallerTo
<1>1. ASSUME NEW t \in Task, ExecuteAsync(t)
      PROVE  CancelledAlone' /\ CancelledStays
  BY <1>1 DEF TasksTypeOK, StatusFits, CancelledAlone, CancelledStays,
    LockFree,
     ExecuteAsync
<1>2. ASSUME NEW t \in Task, Poll(t)
      PROVE  CancelledAlone' /\ CancelledStays
  BY <1>2 DEF TasksTypeOK, StatusFits, CancelledAlone, CancelledStays,
    LockFree,
     Poll, Ended
<1>3. ASSUME NEW t \in Task, ReportEnd(t)
      PROVE  CancelledAlone' /\ CancelledStays
  BY <1>3 DEF TasksTypeOK, StatusFits, CancelledAlone, CancelledStays,
    LockFree,
     ReportEnd, Saying, Cleanup, Ended
<1>4. ASSUME NEW t \in Task, Wake(t)
      PROVE  CancelledAlone' /\ CancelledStays
  BY <1>4 DEF TasksTypeOK, StatusFits, CancelledAlone, CancelledStays,
    LockFree,
     Wake
<1>5. ASSUME NEW t \in Task, CancelCaller(t)
      PROVE  CancelledAlone' /\ CancelledStays
  BY <1>5 DEF TasksTypeOK, StatusFits, CancelledAlone, CancelledStays,
    LockFree,
     CancelCaller
<1>6. ASSUME NEW t \in Task, Janitor(t)
      PROVE  CancelledAlone' /\ CancelledStays
  BY <1>6 DEF TasksTypeOK, StatusFits, CancelledAlone, CancelledStays,
    LockFree,
     Janitor, Cleanup, Ended
<1>7. ASSUME NEW t \in Task, JanitorWake(t)
      PROVE  CancelledAlone' /\ CancelledStays
  BY <1>7 DEF TasksTypeOK, StatusFits, CancelledAlone, CancelledStays,
    LockFree,
     JanitorWake
<1>8. ASSUME NEW t \in Task, BeginTask(t)
      PROVE  CancelledAlone' /\ CancelledStays
  BY <1>8 DEF TasksTypeOK, StatusFits, CancelledAlone, CancelledStays,
    LockFree,
     BeginTask
<1>9. ASSUME NEW t \in Task, Submit(t)
      PROVE  CancelledAlone' /\ CancelledStays
  BY <1>9 DEF TasksTypeOK, StatusFits, CancelledAlone, CancelledStays,
    LockFree,
     Submit
<1>10. ASSUME NEW t \in Task, Collect(t)
      PROVE  CancelledAlone' /\ CancelledStays
  BY <1>10 DEF TasksTypeOK, StatusFits, CancelledAlone, CancelledStays,
    LockFree,
     Collect
<1>11. ASSUME NEW t \in Task, Expire(t)
      PROVE  CancelledAlone' /\ CancelledStays
  BY <1>11 DEF TasksTypeOK, StatusFits, CancelledAlone, CancelledStays,
    LockFree,
     Expire
<1>12. ASSUME NEW t \in Task, TimeOut(t)
      PROVE  CancelledAlone' /\ CancelledStays
  BY <1>12 DEF TasksTypeOK, StatusFits, CancelledAlone, CancelledStays,
    LockFree,
     TimeOut
<1>13. ASSUME NEW t \in Task, Signal(t)
      PROVE  CancelledAlone' /\ CancelledStays
  BY <1>13 DEF TasksTypeOK, StatusFits, CancelledAlone, CancelledStays,
    LockFree,
     Signal
<1>14. ASSUME NEW t \in Task, Stop(t)
      PROVE  CancelledAlone' /\ CancelledStays
  BY <1>14 DEF TasksTypeOK, StatusFits, CancelledAlone, CancelledStays,
    LockFree,
     Stop
<1>15. ASSUME NEW t \in Task, Begin(t)
      PROVE  CancelledAlone' /\ CancelledStays
  BY <1>15 DEF TasksTypeOK, StatusFits, CancelledAlone, CancelledStays,
    LockFree,
     Begin
<1>16. ASSUME NEW t \in Task, Finish(t)
      PROVE  CancelledAlone' /\ CancelledStays
  BY <1>16 DEF TasksTypeOK, StatusFits, CancelledAlone, CancelledStays,
    LockFree,
     Finish
<1>17. ASSUME NEW t \in Task, Store(t)
      PROVE  CancelledAlone' /\ CancelledStays
  BY <1>17 DEF TasksTypeOK, StatusFits, CancelledAlone, CancelledStays,
    LockFree,
     Store
<1>18. ASSUME NEW t \in Task, Raise(t)
      PROVE  CancelledAlone' /\ CancelledStays
  BY <1>18 DEF TasksTypeOK, StatusFits, CancelledAlone, CancelledStays,
    LockFree,
     Raise
<1>19. ASSUME NEW t \in Task, Fail(t)
      PROVE  CancelledAlone' /\ CancelledStays
  BY <1>19 DEF TasksTypeOK, StatusFits, CancelledAlone, CancelledStays,
    LockFree,
     Fail
<1>20. ASSUME NEW t \in Task, Unwind(t)
      PROVE  CancelledAlone' /\ CancelledStays
  BY <1>20 DEF TasksTypeOK, StatusFits, CancelledAlone, CancelledStays,
    LockFree,
     Unwind
<1>21. CASE UNCHANGED taskVars
  BY <1>21 DEF TasksTypeOK, StatusFits, CancelledAlone, CancelledStays,
    LockFree
<1>. QED  BY <1>1, <1>2, <1>3, <1>4, <1>5, <1>6, <1>7, <1>8, <1>9, <1>10,
   <1>11, <1>12, <1>13, <1>14, <1>15, <1>16, <1>17, <1>18, <1>19, <1>20, <1>21
   DEF TasksNext, Tool, RunTask, Execute, Agent

(* The initial state satisfies the invariant.                              *)
LEMMA TasksStart == TasksInit => TasksInv
  BY MaxPollsAssumption DEF TasksInit, TasksInv, TasksTypeOK, StatusFits,
    ListedWhileNeeded,
     PollsLeft, ResultFirst, CancelledAlone, RemovedHasEnded, NeverDisappears,
     CompletedHasResult, SubagentStatus, Terminal, SchedPlace, Busy, CoroPlace,
     CallerPlace, Report

(* Every step keeps the invariant.                                         *)
LEMMA TasksStep == TasksInv /\ [TasksNext]_taskVars => TasksInv'
  BY TasksTyped, FitsInv, ListedInv, PollsInv, RemovedInv, ResultInv,
    AloneInv DEF TasksInv

-----------------------------------------------------------------------------
(* The invariant is inductive: it holds in every reachable state.          *)
THEOREM TasksInvariance == TasksSpec => []TasksInv
  BY TasksStart, TasksStep, PTL DEF TasksSpec

(* Every variable has its type, and the polls stay within their limit.     *)
THEOREM TasksTypeCorrect == TasksSpec => []TasksTypeOK
<1>1. TasksInv => TasksTypeOK
  BY DEF TasksInv
<1>. QED  BY <1>1, TasksInvariance, PTL

(* cleanup_background_task and both of its callers never remove the entry  *)
(* of a task that may still be running.                                    *)
THEOREM RemovedCorrect == TasksSpec => []RemovedHasEnded
<1>1. TasksInv => RemovedHasEnded
  BY DEF TasksInv
<1>. QED  BY <1>1, TasksInvariance, PTL

(* task_tool never finds its own task gone: its branch for a task that has *)
(* disappeared is dead code.                                               *)
THEOREM PresentCorrect == TasksSpec => []NeverDisappears
<1>1. TasksInv => NeverDisappears
  BY DEF TasksInv
<1>. QED  BY <1>1, TasksInvariance, PTL

(* COMPLETED, which is written without the lock, is never seen nor         *)
(* reported without its result.                                            *)
THEOREM ResultCorrect == TasksSpec => []CompletedHasResult
<1>1. TasksInv => CompletedHasResult
  BY DEF TasksInv
<1>. QED  BY <1>1, TasksInvariance, PTL

(* CANCELLED is never overwritten, neither by the timeout of run_task nor  *)
(* by the coroutine.                                                       *)
THEOREM CancelledCorrect == TasksSpec => CancelledIsFinal
<1>1. TasksInv /\ [TasksNext]_taskVars => [CancelledStays]_taskVars
  BY AloneInv DEF TasksInv
<1>. QED  BY <1>1, TasksInvariance, PTL DEF TasksSpec, CancelledIsFinal

-----------------------------------------------------------------------------
(* CircuitBreaker.                                                         *)

USE FailuresAssumption, AttemptsAssumption

(* The invariant of the breaker holds at the start.                        *)
LEMMA BreakerStarts == BreakerInit => BreakerInv
<1>1. BreakerInit => BreakerTypeOK
  <2>1. BreakerInit => attempt \in [Caller -> 0 .. RetryMaxAttempts]
    BY DEF BreakerInit
  <2>2. BreakerInit => probing \in [Caller -> BOOLEAN] /\ failures \in Nat
    BY DEF BreakerInit
  <2>3. BreakerInit => state \in {"closed", "open", "half_open"}
    BY DEF BreakerInit
  <2>. QED
    BY <2>1, <2>2, <2>3, Zenon DEF BreakerInit, BreakerTypeOK
<1>2. BreakerInit => ClosedBelowThreshold
  BY DEF BreakerInit, ClosedBelowThreshold
<1>3. BreakerInit => Probes = {} /\ ProbeCalls
  BY DEF BreakerInit, ProbeCalls, Probes, Calling
<1>. QED
  BY <1>1, <1>2, <1>3 DEF BreakerInv, OneProbe

(* What the end of a call does to its own variables.                       *)
LEMMA LeaveFacts ==
  ASSUME BreakerTypeOK, ProbeCalls, NEW c \in Caller, Leave(c)
  PROVE  /\ attempt' \in [Caller -> 0 .. RetryMaxAttempts]
         /\ probing' \in [Caller -> BOOLEAN]
         /\ Probes' = Probes \ {c}
         /\ ProbeCalls'
         /\ probing[c] => c \in Probes
  BY DEF Leave, Calling, BreakerTypeOK, Probes, ProbeCalls

(* Every step keeps the types.                                             *)
LEMMA BreakerTyped == BreakerTypeOK /\ ProbeCalls /\ [BreakerNext]_breakerVars => BreakerTypeOK'
<1>. SUFFICES ASSUME BreakerTypeOK, ProbeCalls, [BreakerNext]_breakerVars
     PROVE BreakerTypeOK'
  OBVIOUS
<1>1. CASE TimePasses
  BY <1>1 DEF TimePasses, BreakerTypeOK
<1>2. ASSUME NEW c \in Caller, Enter(c) PROVE BreakerTypeOK'
  <2>1. 1 \in 0 .. RetryMaxAttempts
    OBVIOUS
  <2>2. CASE AdmitClosed(c)
    BY <2>1, <2>2 DEF AdmitClosed, circuit, BreakerTypeOK
  <2>3. CASE AdmitProbe(c)
    BY <2>1, <2>3 DEF AdmitProbe, BreakerTypeOK
  <2>4. CASE FastFail(c)
    BY <2>4 DEF FastFail, breakerVars, circuit, BreakerTypeOK
  <2>. QED
    BY <1>2, <2>2, <2>3, <2>4 DEF Enter
<1>3. ASSUME NEW c \in Caller, Retry(c) PROVE BreakerTypeOK'
  <2>1. attempt[c] + 1 \in 0 .. RetryMaxAttempts
    BY <1>3 DEF Retry, BreakerTypeOK
  <2>. QED
    BY <1>3, <2>1 DEF Retry, circuit, BreakerTypeOK
<1>4. ASSUME NEW c \in Caller, EndCall(c) PROVE BreakerTypeOK'
  <2>1. /\ attempt' \in [Caller -> 0 .. RetryMaxAttempts]
        /\ probing' \in [Caller -> BOOLEAN]
    BY <1>4, LeaveFacts DEF EndCall, Succeed, FailHalfOpen, FailCounted,
      BubbleUp, Abandon
  <2>2. strayed' \in BOOLEAN /\ abandoned' \in BOOLEAN
    BY <1>4 DEF EndCall, Succeed, FailHalfOpen, FailCounted, BubbleUp, Abandon,
         Recorded, BreakerTypeOK
  <2>3. state' \in {"closed", "open", "half_open"} /\ failures' \in Nat
    BY <1>4 DEF EndCall, Succeed, FailHalfOpen, FailCounted, BubbleUp, Abandon,
         Trip, circuit, BreakerTypeOK
  <2>4. cooling' \in BOOLEAN /\ probe' \in BOOLEAN
    BY <1>4 DEF EndCall, Succeed, FailHalfOpen, FailCounted, BubbleUp, Abandon,
         Trip, circuit, BreakerTypeOK
  <2>. QED
    BY <2>1, <2>2, <2>3, <2>4 DEF BreakerTypeOK
<1>5. CASE UNCHANGED breakerVars
  BY <1>5 DEF breakerVars, circuit, BreakerTypeOK
<1>. QED
  BY <1>1, <1>2, <1>3, <1>4, <1>5 DEF BreakerNext

(* A circuit closes with no failures, and a failure that fills the count   *)
(* opens it.                                                               *)
LEMMA ThresholdInv ==
  ASSUME BreakerTypeOK, ClosedBelowThreshold,
    [BreakerNext]_breakerVars PROVE ClosedBelowThreshold'
<1>. USE DEF ClosedBelowThreshold
<1>1. CASE TimePasses
  BY <1>1 DEF TimePasses
<1>2. ASSUME NEW c \in Caller, Enter(c) \/ Retry(c) PROVE ClosedBelowThreshold'
  BY <1>2 DEF Enter, AdmitClosed, AdmitProbe, FastFail, Retry, breakerVars,
    circuit
<1>3. ASSUME NEW c \in Caller, EndCall(c) PROVE ClosedBelowThreshold'
  <2>1. CASE Succeed(c)
    BY <2>1 DEF Succeed
  <2>2. CASE FailHalfOpen(c)
    BY <2>2 DEF FailHalfOpen, Trip
  <2>3. CASE FailCounted(c)
    BY <2>3 DEF FailCounted, BreakerTypeOK
  <2>4. CASE BubbleUp(c) \/ Abandon(c)
    BY <2>4 DEF BubbleUp, Abandon, circuit
  <2>. QED
    BY <1>3, <2>1, <2>2, <2>3, <2>4 DEF EndCall
<1>4. CASE UNCHANGED breakerVars
  BY <1>4 DEF breakerVars, circuit
<1>. QED
  BY <1>1, <1>2, <1>3, <1>4 DEF BreakerNext

(* The probe in flight owns the half-open circuit: whoever ends either is  *)
(* the probe, or has strayed.                                              *)
LEMMA ProbeInv ==
  ASSUME BreakerTypeOK, OneProbe, ProbeCalls, [BreakerNext]_breakerVars
  PROVE  OneProbe' /\ ProbeCalls'
<1>1. CASE TimePasses
  BY <1>1 DEF TimePasses, OneProbe, ProbeCalls, Probes, Calling
<1>2. ASSUME NEW c \in Caller, AdmitClosed(c) PROVE OneProbe' /\ ProbeCalls'
  <2>1. Probes' = Probes /\ ProbeCalls'
    BY <1>2 DEF AdmitClosed, BreakerTypeOK, Probes, ProbeCalls, Calling
  <2>. QED
    BY <1>2, <2>1 DEF AdmitClosed, circuit, OneProbe
<1>3. ASSUME NEW c \in Caller, AdmitProbe(c) PROVE OneProbe' /\ ProbeCalls'
  <2>1. Probes' = Probes \cup {c} /\ ProbeCalls'
    BY <1>3 DEF AdmitProbe, BreakerTypeOK, Probes, ProbeCalls, Calling
  <2>2. ~strayed => Probes = {}
    BY <1>3 DEF AdmitProbe, OneProbe
  <2>. QED
    BY <1>3, <2>1, <2>2 DEF AdmitProbe, OneProbe
<1>4. ASSUME NEW c \in Caller, Retry(c) PROVE OneProbe' /\ ProbeCalls'
  <2>1. Probes' = Probes /\ ProbeCalls'
    BY <1>4 DEF Retry, BreakerTypeOK, Probes, ProbeCalls, Calling
  <2>. QED
    BY <1>4, <2>1 DEF Retry, circuit, OneProbe
<1>5. ASSUME NEW c \in Caller, EndCall(c) PROVE OneProbe' /\ ProbeCalls'
  <2>1. Leave(c)
    BY <1>5 DEF EndCall, Succeed, FailHalfOpen, FailCounted, BubbleUp, Abandon
  <2>2. Probes' = Probes \ {c} /\ ProbeCalls' /\ (probing[c] => c \in Probes)
    BY <2>1, LeaveFacts
  <2>3. CASE Abandon(c)
    BY <2>2, <2>3 DEF Abandon, circuit, OneProbe
  <2>4. CASE Recorded(c) /\ ~Abandon(c)
    <3>1. ~strayed' => ~strayed /\ (state = "half_open" => probing[c])
      BY <2>4 DEF Recorded, BreakerTypeOK
    <3>2. ~strayed' => Probes' = {}
      BY <2>2, <3>1 DEF OneProbe
    <3>. QED
      BY <2>2, <3>2 DEF OneProbe
  <2>. QED
    BY <1>5, <2>3, <2>4 DEF EndCall, Succeed, FailHalfOpen, FailCounted,
      BubbleUp
<1>6. CASE UNCHANGED breakerVars
  BY <1>6 DEF breakerVars, circuit, OneProbe, ProbeCalls, Probes, Calling
<1>7. ASSUME NEW c \in Caller, FastFail(c) PROVE UNCHANGED breakerVars
  BY <1>7 DEF FastFail
<1>. QED
  BY <1>1, <1>2, <1>3, <1>4, <1>5, <1>6, <1>7 DEF BreakerNext, Enter

(* Every step keeps the invariant.                                         *)
LEMMA BreakerSteps == BreakerInv /\ [BreakerNext]_breakerVars => BreakerInv'
  BY BreakerTyped, ThresholdInv, ProbeInv DEF BreakerInv

-----------------------------------------------------------------------------
(* The invariant holds in every reachable state.                           *)
THEOREM BreakerInvariance == BreakerSpec => []BreakerInv
  BY BreakerStarts, BreakerSteps, PTL DEF BreakerSpec

(* Every variable has its type.                                            *)
THEOREM BreakerTypeCorrect == BreakerSpec => []BreakerTypeOK
<1>1. BreakerInv => BreakerTypeOK
  BY DEF BreakerInv
<1>. QED  BY <1>1, BreakerInvariance, PTL

(* However calls of different ages end, a closed circuit can trip again.   *)
THEOREM ThresholdCorrect == BreakerSpec => []ClosedBelowThreshold
<1>1. BreakerInv => ClosedBelowThreshold
  BY DEF BreakerInv
<1>. QED  BY <1>1, BreakerInvariance, PTL

(* Until a stale call reports to a half-open circuit, one probe at a time. *)
THEOREM ProbeCorrect == BreakerSpec => []OneProbe
<1>1. BreakerInv => OneProbe
  BY DEF BreakerInv
<1>. QED  BY <1>1, BreakerInvariance, PTL
=============================================================================
