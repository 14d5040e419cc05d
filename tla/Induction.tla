------------------------------ MODULE Induction ------------------------------
(* Induction over numbers, and the existence of functions defined by recursion,
   for the provers that take no operator as an argument: what is shown of every
   number is that it is in a set, and what a recursion does with an argument is a
   function. All of it follows from the well-foundedness of the numbers. And what
   the operators on sequences return, concatenation and FlattenSeq above all. *)
EXTENDS Integers, SequencesExt, SequenceTheorems, WellFoundedInduction, TLAPS

(* A set of numbers has a least one. *)
LEMMA LeastNat ==
  ASSUME NEW S \in SUBSET Nat, S # {}
  PROVE  \E n \in S : \A m \in S : n <= m
<1> DEFINE R == {p \in Nat \X Nat : p[1] < p[2]}
<1>1. IsWellFoundedOn(R, Nat)
  BY NatLessThanWellFounded DEF OpToRel
<1> HIDE DEF R
<1>2. PICK n \in S : \A m \in S : ~(<<m, n>> \in R)
  BY <1>1, WFMin
<1>3. \A m \in S : ~(m < n)
  BY <1>2 DEF R
<1>. QED  BY <1>3

LEMMA Upwards ==
  ASSUME NEW N \in Nat, NEW S, 0 \in S,
         \A n \in 0..N - 1 : n \in S => n + 1 \in S
  PROVE  0..N \subseteq S
<1> SUFFICES ASSUME (0..N) \ S # {} PROVE FALSE
  OBVIOUS
<1>1. PICK n \in (0..N) \ S : \A m \in (0..N) \ S : n <= m
  <2>1. (0..N) \ S \in SUBSET Nat
    OBVIOUS
  <2>. QED  BY <2>1, LeastNat
<1>2. n - 1 \in 0..N - 1 /\ n - 1 \in S
  BY <1>1
<1>. QED  BY <1>1, <1>2

(* What holds of a place when it holds of all later ones holds of all places. *)
LEMMA FromTheEnd ==
  ASSUME NEW N \in Nat, NEW S,
         \A n \in 1..N : (\A k \in n + 1..N : k \in S) => n \in S
  PROVE  1..N \subseteq S
<1> DEFINE T == {m \in Nat : m < N /\ N - m \notin S}
<1> SUFFICES ASSUME T # {} PROVE FALSE
  <2>1. \A n \in 1..N : N - n \in Nat /\ N - n < N /\ N - (N - n) = n
    OBVIOUS
  <2>. QED  BY <2>1
<1>1. PICK m \in T : \A k \in T : m <= k
  BY LeastNat
<1>2. N - m \in 1..N /\ N - m \notin S
  OBVIOUS
<1>3. ASSUME NEW k \in N - m + 1..N PROVE k \in S
  <2>1. N - k \in Nat /\ N - k < m /\ N - k < N /\ N - (N - k) = k
    BY <1>2
  <2>. QED  BY <2>1, <1>1
<1>. QED  BY <1>2, <1>3

(* A recursion that goes from each argument to one of lower rank, until it comes to
   one whose value is given. *)
Recurs(D, V, given, value, K, rank, previous, step) ==
  /\ given \subseteq D /\ value \in [D -> V]
  /\ K \in Nat /\ rank \in [D -> 0..K]
  /\ previous \in [D \ given -> D] /\ step \in [D \ given -> [V -> V]]
  /\ \A d \in D \ given : rank[previous[d]] < rank[d]

Solution(f, D, V, given, value, previous, step) ==
  /\ f \in [D -> V]
  /\ \A d \in given : f[d] = value[d]
  /\ \A d \in D \ given : f[d] = step[d][f[previous[d]]]

(* It has a solution. *)
LEMMA Recursion ==
  ASSUME NEW D, NEW V, NEW given, NEW value, NEW K, NEW rank, NEW previous, NEW step,
         Recurs(D, V, given, value, K, rank, previous, step)
  PROVE  \E f : Solution(f, D, V, given, value, previous, step)
<1> USE DEF Recurs
<1> DEFINE Next(f) == [d \in D |-> IF d \in given THEN value[d] ELSE step[d][f[previous[d]]]]
           Solved(k) == {d \in D : rank[d] < k}
           S == {k \in Nat : \E f \in [D -> V] : \A d \in Solved(k) : f[d] = Next(f)[d]}
<1>1. \A f \in [D -> V] : Next(f) \in [D -> V]
  OBVIOUS
<1>2. 0 \in S
  <2>1. Solved(0) = {}
    OBVIOUS
  <2>. QED  BY <2>1
<1>3. ASSUME NEW k \in 0..K, k \in S PROVE k + 1 \in S
  <2>1. PICK f \in [D -> V] : \A d \in Solved(k) : f[d] = Next(f)[d]
    BY <1>3
  <2>2. ASSUME NEW d \in Solved(k + 1) PROVE Next(f)[d] = Next(Next(f))[d]
    <3>1. CASE d \in given
      BY <3>1
    <3>2. CASE d \notin given
      <4>1. previous[d] \in Solved(k)
        BY <3>2
      <4>2. f[previous[d]] = Next(f)[previous[d]]
        BY <4>1, <2>1
      <4>3. Next(f)[d] = step[d][f[previous[d]]]
            /\ Next(Next(f))[d] = step[d][Next(f)[previous[d]]]
        BY <3>2
      <4>. QED  BY <4>2, <4>3
    <3>. QED  BY <3>1, <3>2
  <2>3. Next(f) \in [D -> V]
    BY <1>1
  <2> HIDE DEF Next, Solved
  <2>. QED  BY <2>2, <2>3
<1> HIDE DEF S
<1>4. K + 1 \in S
  <2>1. 0..K + 1 \subseteq S
    BY <1>2, <1>3, Upwards
  <2>. QED  BY <2>1
<1>5. PICK f \in [D -> V] : \A d \in Solved(K + 1) : f[d] = Next(f)[d]
  BY <1>4 DEF S
<1>6. \A d \in D : f[d] = Next(f)[d]
  BY <1>5
<1>. QED  BY <1>6, <1>1 DEF Solution

(* The same for a function of the numbers up to N, from each to the one before. *)
Steps(N, V, first, step) == N \in Nat /\ first \in V /\ step \in [1..N -> [V -> V]]

Sums(f, N, V, first, step) ==
  f \in [0..N -> V] /\ f[0] = first /\ \A n \in 1..N : f[n] = step[n][f[n - 1]]

LEMMA Stepwise ==
  ASSUME NEW N, NEW V, NEW first, NEW step, Steps(N, V, first, step)
  PROVE  \E f : Sums(f, N, V, first, step)
<1> DEFINE D == 0..N
           given == {0}
           value == [n \in D |-> first]
           rank == [n \in D |-> n]
           previous == [n \in D \ given |-> n - 1]
<1>1. Recurs(D, V, given, value, N, rank, previous, step)
  <2>1. D \ given = 1..N /\ N \in Nat /\ given \subseteq D
    BY DEF Steps
  <2>2. value \in [D -> V] /\ rank \in [D -> 0..N] /\ step \in [D \ given -> [V -> V]]
    BY <2>1 DEF Steps
  <2>3. previous \in [D \ given -> D]
    BY <2>1
  <2>4. \A d \in D \ given : rank[previous[d]] < rank[d]
    BY <2>1
  <2> HIDE DEF D, given, value, rank, previous
  <2>. QED  BY <2>1, <2>2, <2>3, <2>4 DEF Recurs
<1>2. PICK f : Solution(f, D, V, given, value, previous, step)
  <2> HIDE DEF D, given, value, rank, previous
  <2>. QED  BY <1>1, Recursion
<1>3. f \in [D -> V] /\ f[0] = first
  BY <1>2 DEF Solution, Steps
<1>4. ASSUME NEW n \in 1..N PROVE f[n] = step[n][f[n - 1]]
  <2>1. n \in D \ given /\ previous[n] = n - 1
    OBVIOUS
  <2> HIDE DEF D, given, value, previous
  <2>. QED  BY <1>2, <2>1 DEF Solution
<1>. QED  BY <1>3, <1>4 DEF Sums

(* And to each from the one behind it. *)
SumsBack(f, N, V, first, step) ==
  f \in [1..N + 1 -> V] /\ f[N + 1] = first /\ \A n \in 1..N : f[n] = step[n][f[n + 1]]

LEMMA Backwards ==
  ASSUME NEW N, NEW V, NEW first, NEW step, Steps(N, V, first, step)
  PROVE  \E f : SumsBack(f, N, V, first, step)
<1> DEFINE D == 1..N + 1
           given == {N + 1}
           value == [n \in D |-> first]
           rank == [n \in D |-> N + 1 - n]
           previous == [n \in D \ given |-> n + 1]
<1>1. N \in Nat /\ first \in V /\ step \in [1..N -> [V -> V]]
  BY DEF Steps
<1>2. D \ given = 1..N /\ given \subseteq D /\ N + 1 \in D
  BY <1>1
<1>3. Recurs(D, V, given, value, N + 1, rank, previous, step)
  <2>1. value \in [D -> V] /\ rank \in [D -> 0..N + 1] /\ N + 1 \in Nat
    BY <1>1
  <2>2. previous \in [D \ given -> D]
    BY <1>1, <1>2
  <2>3. step \in [D \ given -> [V -> V]]
    BY <1>1, <1>2
  <2>4. \A d \in D \ given : rank[previous[d]] < rank[d]
    BY <1>1, <1>2
  <2> HIDE DEF D, given, value, rank, previous
  <2>. QED  BY <1>2, <2>1, <2>2, <2>3, <2>4 DEF Recurs
<1>4. PICK f : Solution(f, D, V, given, value, previous, step)
  <2> HIDE DEF D, given, value, rank, previous
  <2>. QED  BY <1>3, Recursion
<1>5. f \in [1..N + 1 -> V] /\ f[N + 1] = first
  BY <1>2, <1>4 DEF Solution
<1>6. ASSUME NEW n \in 1..N PROVE f[n] = step[n][f[n + 1]]
  <2>1. n \in D \ given /\ previous[n] = n + 1
    BY <1>2
  <2> HIDE DEF D, given, value, previous
  <2>. QED  BY <1>4, <2>1 DEF Solution
<1>. QED  BY <1>5, <1>6 DEF SumsBack

-----------------------------------------------------------------------------
(* Sequences. *)

LEMMA Joined ==
  ASSUME NEW S, NEW s \in Seq(S), NEW t \in Seq(S)
  PROVE  /\ s \o t \in Seq(S) /\ Len(s \o t) = Len(s) + Len(t)
         /\ \A p \in 1..Len(s) : (s \o t)[p] = s[p]
         /\ \A p \in 1..Len(t) : (s \o t)[Len(s) + p] = t[p]
<1>1. Len(s) \in Nat /\ Len(t) \in Nat
  OBVIOUS
<1>2. s \o t \in Seq(S) /\ Len(s \o t) = Len(s) + Len(t)
  OBVIOUS
<1>3. ASSUME NEW p \in 1..Len(s) PROVE (s \o t)[p] = s[p]
  BY <1>1
<1>4. ASSUME NEW p \in 1..Len(t) PROVE (s \o t)[Len(s) + p] = t[p]
  BY <1>1
<1>. QED  BY <1>2, <1>3, <1>4

LEMMA LenIs ==
  ASSUME NEW S, NEW s \in Seq(S)
  PROVE  Len(s) \in Nat /\ DOMAIN s = 1..Len(s) /\ \A i \in 1..Len(s) : s[i] \in S
OBVIOUS

LEMMA SubSeqIs ==
  ASSUME NEW S, NEW s \in Seq(S), NEW m \in 1..Len(s) + 1, NEW n \in m - 1..Len(s)
  PROVE  /\ SubSeq(s, m, n) \in Seq(S) /\ Len(SubSeq(s, m, n)) = n + 1 - m
         /\ \A i \in 1..n + 1 - m : SubSeq(s, m, n)[i] = s[m + i - 1]
<1>1. Len(s) \in Nat
  OBVIOUS
<1>2. CASE m <= n
  <2>1. SubSeq(s, m, n) \in Seq(S) /\ Len(SubSeq(s, m, n)) = n + 1 - m
    BY <1>1, <1>2
  <2>2. ASSUME NEW i \in 1..n + 1 - m PROVE SubSeq(s, m, n)[i] = s[m + i - 1]
    BY <1>1, <1>2
  <2>. QED  BY <2>1, <2>2
<1>3. CASE n = m - 1
  <2>1. SubSeq(s, m, n) = <<>>
    BY <1>1, <1>3
  <2>. QED  BY <1>1, <1>3, <2>1
<1>. QED  BY <1>1, <1>2, <1>3

(* The two halves of a sequence. *)
LEMMA HeadIs ==
  ASSUME NEW S, NEW s \in Seq(S), NEW n \in 0..Len(s)
  PROVE  /\ SubSeq(s, 1, n) \in Seq(S) /\ Len(SubSeq(s, 1, n)) = n
         /\ \A i \in 1..n : SubSeq(s, 1, n)[i] = s[i]
<1>1. Len(s) \in Nat
  OBVIOUS
<1>2. 1 \in 1..Len(s) + 1 /\ n \in 1 - 1..Len(s) /\ n + 1 - 1 = n /\ \A i \in 1..n : 1 + i - 1 = i
  BY <1>1
<1>3. /\ SubSeq(s, 1, n) \in Seq(S) /\ Len(SubSeq(s, 1, n)) = n + 1 - 1
      /\ \A i \in 1..n + 1 - 1 : SubSeq(s, 1, n)[i] = s[1 + i - 1]
  BY <1>2, SubSeqIs
<1>. QED  BY <1>2, <1>3

LEMMA TailIs ==
  ASSUME NEW S, NEW s \in Seq(S), NEW n \in 0..Len(s)
  PROVE  LET t == SubSeq(s, n + 1, Len(s)) IN
         /\ t \in Seq(S) /\ Len(t) = Len(s) - n
         /\ \A i \in 1..Len(s) - n : t[i] = s[n + i]
<1> DEFINE m == n + 1
           t == SubSeq(s, m, Len(s))
<1>1. Len(s) \in Nat
  OBVIOUS
<1>2. m \in 1..Len(s) + 1 /\ Len(s) \in m - 1..Len(s) /\ Len(s) + 1 - m = Len(s) - n
      /\ \A i \in 1..Len(s) - n : m + i - 1 = n + i
  BY <1>1
<1> HIDE DEF m
<1>3. t \in Seq(S) /\ Len(t) = Len(s) + 1 - m /\ \A i \in 1..Len(s) + 1 - m : t[i] = s[m + i - 1]
  BY <1>2, SubSeqIs
<1> HIDE DEF t
<1>4. t \in Seq(S) /\ Len(t) = Len(s) - n /\ \A i \in 1..Len(s) - n : t[i] = s[n + i]
  BY <1>2, <1>3
<1>. QED  BY <1>4 DEF t, m

LEMMA SameSeq ==
  ASSUME NEW S, NEW s \in Seq(S), NEW t \in Seq(S),
         Len(s) = Len(t), \A i \in 1..Len(s) : s[i] = t[i]
  PROVE  s = t
OBVIOUS

(* What FlattenSeq makes of the first n parts, for each n. *)
Flattens(h, parts, S) ==
  /\ h \in [0..Len(parts) -> Seq(S)] /\ h[0] = <<>>
  /\ \A n \in 1..Len(parts) : h[n] = h[n - 1] \o parts[n]

LEMMA FlatIs ==
  ASSUME NEW S, NEW parts \in Seq(Seq(S))
  PROVE  \E h : Flattens(h, parts, S) /\ FlattenSeq(parts) = h[Len(parts)]
<1> DEFINE N == Len(parts)
           T == Seq(S)
           Solves(f) == f = [n \in 1..N |-> IF n = 1 THEN parts[n] ELSE f[n - 1] \o parts[n]]
<1>1. N \in Nat /\ \A n \in 1..N : parts[n] \in T
  <2> HIDE DEF T
  <2>. QED  BY LenIs DEF T
<1>2. \A s, t \in T : s \o t \in T
  BY Joined
<1>3. <<>> \in T /\ \A t \in T : <<>> \o t = t
  OBVIOUS
<1>4. CASE N = 0
  <2>1. FlattenSeq(parts) = parts /\ parts = <<>>
    BY <1>4 DEF FlattenSeq
  <2>2. Flattens([n \in 0..0 |-> <<>>], parts, S)
    BY <1>1, <1>3, <1>4 DEF Flattens
  <2>. QED  BY <1>4, <2>1, <2>2
<1>5. CASE N # 0
  <2> DEFINE step == [n \in 1..N |-> [v \in T |-> v \o parts[n]]]
  <2>1. PICK f : Sums(f, N, T, <<>>, step)
    <3> HIDE DEF N, T
    <3>1. \A n \in 1..N : \A v \in T : v \o parts[n] \in T
      BY <1>1, <1>2
    <3>2. Steps(N, T, <<>>, step)
      BY <1>1, <1>3, <3>1 DEF Steps
    <3> HIDE DEF step
    <3>. QED  BY <3>2, Stepwise
  <2>2. \E g : Solves(g)
    <3> DEFINE g == [n \in 1..N |-> f[n]]
    <3> HIDE DEF N, T
    <3>1. \A n \in 1..N : n - 1 \in 0..N /\ n \in 0..N /\ (n = 1 \/ n - 1 \in 1..N)
      BY <1>1
    <3>2. \A n \in 1..N : f[n] = f[n - 1] \o parts[n]
      BY <2>1, <3>1 DEF Sums
    <3>3. ASSUME NEW n \in 1..N PROVE g[n] = IF n = 1 THEN parts[n] ELSE g[n - 1] \o parts[n]
      <4>1. CASE n = 1
        <5>0. n - 1 = 0
          BY <4>1
        <5>1. f[n] = f[n - 1] \o parts[n]
          BY <3>2
        <5>2. f[0] = <<>>
          BY <2>1 DEF Sums
        <5>. QED  BY <1>1, <1>3, <4>1, <5>0, <5>1, <5>2
      <4>2. CASE n # 1
        BY <3>1, <3>2, <4>2
      <4>. QED  BY <4>1, <4>2
    <3>4. g = [n \in 1..N |-> g[n]]
      OBVIOUS
    <3> HIDE DEF g
    <3>5. Solves(g)
      BY <3>3, <3>4
    <3>. QED  BY <3>5
  <2>3. PICK g : Solves(g) /\ FlattenSeq(parts) = g[N]
    <3>1. Solves(CHOOSE g : Solves(g))
      <4> HIDE DEF Solves
      <4>. QED  BY <2>2, Zenon
    <3>2. FlattenSeq(parts) = (CHOOSE g : Solves(g))[N]
      BY <1>5, Zenon DEF FlattenSeq
    <3> HIDE DEF Solves
    <3>. QED  BY <3>1, <3>2
  <2> HIDE DEF N, T, step
  <2>4. g[1] = parts[1] /\ \A n \in 2..N : g[n] = g[n - 1] \o parts[n]
    <3>1. \A n \in 1..N : g[n] = IF n = 1 THEN parts[n] ELSE g[n - 1] \o parts[n]
      BY <2>3
    <3>2. 1 \in 1..N /\ \A n \in 2..N : n \in 1..N /\ n # 1
      BY <1>1, <1>5
    <3>. QED  BY <3>1, <3>2
  <2> DEFINE h == [n \in 0..N |-> IF n = 0 THEN <<>> ELSE g[n]]
  <2>5. \A n \in 1..N : h[n] = h[n - 1] \o parts[n]
    <3>1. ASSUME NEW n \in 1..N PROVE h[n] = h[n - 1] \o parts[n]
      <4>1. n \in 0..N /\ n - 1 \in 0..N /\ n # 0 /\ (n - 1 = 0 <=> n = 1) /\ (n # 1 => n \in 2..N)
        BY <1>1
      <4>. QED  BY <1>1, <1>3, <2>4, <4>1
    <3>. QED  BY <3>1
  <2>6. h[0] = <<>> /\ h[N] = g[N]
    BY <1>1, <1>5
  <2> DEFINE W == {n \in 0..N : h[n] \in T}
  <2>7. 0..N \subseteq W
    <3>1. 0 \in W
      BY <1>1, <1>3, <2>6
    <3> HIDE DEF h
    <3>2. ASSUME NEW n \in 0..N - 1, n \in W PROVE n + 1 \in W
      <4>1. n + 1 \in 1..N /\ n + 1 \in 0..N /\ (n + 1) - 1 = n
        BY <1>1
      <4>2. h[n + 1] = h[n] \o parts[n + 1] /\ parts[n + 1] \in T
        BY <1>1, <2>5, <4>1
      <4>. QED  BY <1>2, <3>2, <4>1, <4>2
    <3> HIDE DEF W
    <3>. QED  BY <1>1, <3>1, <3>2, Upwards
  <2>8. h \in [0..N -> T]
    BY <2>7
  <2> HIDE DEF h
  <2>9. Flattens(h, parts, S)
    BY <2>5, <2>6, <2>8 DEF Flattens, N, T
  <2>. QED  BY <2>3, <2>6, <2>9 DEF N
<1>. QED  BY <1>4, <1>5

(* Each part is where those before it end. *)
PartAt(h, parts, n) ==
  /\ Len(h[n]) = Len(h[n - 1]) + Len(parts[n]) /\ Len(h[n - 1]) \in Nat
  /\ Len(h[n]) <= Len(h[Len(parts)])
  /\ \A p \in 1..Len(parts[n]) : h[Len(parts)][Len(h[n - 1]) + p] = parts[n][p]

LEMMA FlatAt ==
  ASSUME NEW S, NEW parts \in Seq(Seq(S)), NEW h, Flattens(h, parts, S), NEW n \in 1..Len(parts)
  PROVE  PartAt(h, parts, n)
<1> DEFINE N == Len(parts)
           T == Seq(S)
           Whole(k) == /\ Len(h[n]) <= Len(h[k])
                       /\ \A p \in 1..Len(parts[n]) : h[k][Len(h[n - 1]) + p] = parts[n][p]
           W == {k \in 0..N : k < n \/ Whole(k)}
<1>1. N \in Nat /\ \A k \in 1..N : parts[k] \in T
  <2> HIDE DEF T
  <2>. QED  BY LenIs DEF T
<1>2. /\ \A k \in 0..N : h[k] \in T
      /\ \A k \in 1..N : h[k] = h[k - 1] \o parts[k]
  BY DEF Flattens
<1>3. \A k \in 1..N : k - 1 \in 0..N /\ k \in 0..N
  BY <1>1
<1>4. \A s \in T : Len(s) \in Nat
  OBVIOUS
<1>5. \A s, t \in T : /\ Len(s \o t) = Len(s) + Len(t)
                      /\ \A p \in 1..Len(s) : (s \o t)[p] = s[p]
                      /\ \A p \in 1..Len(t) : (s \o t)[Len(s) + p] = t[p]
  BY Joined
<1> HIDE DEF T
<1>6. \A k \in 1..N : /\ Len(h[k]) = Len(h[k - 1]) + Len(parts[k])
                      /\ Len(h[k - 1]) \in Nat /\ Len(parts[k]) \in Nat /\ Len(h[k]) \in Nat
                      /\ \A p \in 1..Len(h[k - 1]) : h[k][p] = h[k - 1][p]
                      /\ \A p \in 1..Len(parts[k]) : h[k][Len(h[k - 1]) + p] = parts[k][p]
  <2>1. ASSUME NEW k \in 1..N
        PROVE  /\ Len(h[k]) = Len(h[k - 1]) + Len(parts[k])
               /\ Len(h[k - 1]) \in Nat /\ Len(parts[k]) \in Nat /\ Len(h[k]) \in Nat
               /\ \A p \in 1..Len(h[k - 1]) : h[k][p] = h[k - 1][p]
               /\ \A p \in 1..Len(parts[k]) : h[k][Len(h[k - 1]) + p] = parts[k][p]
    <3>1. h[k - 1] \in T /\ h[k] \in T /\ parts[k] \in T
      BY <1>1, <1>2, <1>3
    <3>2. h[k] = h[k - 1] \o parts[k]
      BY <1>2
    <3>3. Len(h[k - 1]) \in Nat /\ Len(parts[k]) \in Nat /\ Len(h[k]) \in Nat
      BY <1>4, <3>1
    <3> DEFINE a == h[k - 1]
               b == parts[k]
    <3> HIDE DEF a, b
    <3>4. a \in T /\ b \in T /\ h[k] = a \o b
      BY <3>1, <3>2 DEF a, b
    <3>5. /\ Len(h[k]) = Len(a) + Len(b)
          /\ \A p \in 1..Len(a) : h[k][p] = a[p]
          /\ \A p \in 1..Len(b) : h[k][Len(a) + p] = b[p]
      BY <1>5, <3>4
    <3>. QED  BY <3>3, <3>5 DEF a, b
  <2>. QED  BY <2>1
<1>7. 0..N \subseteq W
  <2>1. 0 \in W
    BY <1>1 DEF N
  <2>2. ASSUME NEW k \in 0..N - 1, k \in W PROVE k + 1 \in W
    <3>1. k + 1 \in 1..N /\ k + 1 \in 0..N /\ (k + 1) - 1 = k
      BY <1>1
    <3>2. CASE k + 1 < n
      BY <3>1, <3>2
    <3>3. CASE k + 1 = n
      <4>1. Whole(n)
        <5>1. Len(h[n]) \in Nat /\ \A p \in 1..Len(parts[n]) : h[n][Len(h[n - 1]) + p] = parts[n][p]
          BY <1>6
        <5>. QED  BY <5>1
      <4>. QED  BY <3>1, <3>3, <4>1
    <3>4. CASE k + 1 > n
      <4>1. Whole(k) /\ Len(h[k]) <= Len(h[k + 1])
        <5>1. Whole(k)
          BY <2>2, <3>4
        <5>2. Len(h[k + 1]) = Len(h[k]) + Len(parts[k + 1]) /\ Len(h[k]) \in Nat /\ Len(parts[k + 1]) \in Nat
          <6>1. /\ Len(h[k + 1]) = Len(h[(k + 1) - 1]) + Len(parts[k + 1])
                /\ Len(h[(k + 1) - 1]) \in Nat /\ Len(parts[k + 1]) \in Nat
            BY <1>6, <3>1
          <6>. QED  BY <3>1, <6>1
        <5>3. Len(h[k]) <= Len(h[k + 1])
          <6> DEFINE a == Len(h[k])
                     b == Len(parts[k + 1])
          <6>1. a \in Nat /\ b \in Nat /\ Len(h[k + 1]) = a + b
            BY <5>2
          <6> HIDE DEF a, b
          <6>2. a <= Len(h[k + 1])
            BY <6>1
          <6>. QED  BY <6>2 DEF a
        <5> HIDE DEF Whole
        <5>. QED  BY <5>1, <5>3
      <4>2. \A p \in 1..Len(h[k]) : h[k + 1][p] = h[k][p]
        <5>1. \A p \in 1..Len(h[(k + 1) - 1]) : h[k + 1][p] = h[(k + 1) - 1][p]
          BY <1>6, <3>1
        <5>2. (k + 1) - 1 = k
          BY <3>1
        <5>. QED  BY <5>1, <5>2
      <4>3. \A p \in 1..Len(parts[n]) : Len(h[n - 1]) + p \in 1..Len(h[k])
        <5>1. /\ Len(h[n]) = Len(h[n - 1]) + Len(parts[n]) /\ Len(h[n - 1]) \in Nat
              /\ Len(parts[n]) \in Nat /\ Len(h[n]) <= Len(h[k])
          BY <1>6, <4>1 DEF N
        <5>2. Len(h[k]) \in Nat
          BY <1>2, <1>4, <3>1
        <5> DEFINE a == Len(h[n - 1])
                   b == Len(parts[n])
                   c == Len(h[k])
                   d == Len(h[n])
        <5>3. a \in Nat /\ b \in Nat /\ c \in Nat /\ d = a + b /\ d <= c
          BY <5>1, <5>2
        <5> HIDE DEF a, b, c, d
        <5>4. \A p \in 1..b : a + p \in 1..c
          BY <5>3
        <5>. QED  BY <5>4 DEF a, b, c
      <4>4. Len(h[n]) <= Len(h[k + 1])
        <5>1. Len(h[n]) \in Nat /\ Len(h[k]) \in Nat /\ Len(h[k + 1]) \in Nat
          BY <1>6, <1>2, <1>4, <3>1 DEF N
        <5> DEFINE a == Len(h[n])
                   b == Len(h[k])
                   c == Len(h[k + 1])
        <5>2. a \in Nat /\ b \in Nat /\ c \in Nat /\ a <= b /\ b <= c
          BY <4>1, <5>1
        <5> HIDE DEF a, b, c
        <5>3. a <= c
          BY <5>2
        <5>. QED  BY <5>3 DEF a, c
      <4>5. Whole(k + 1)
        BY <4>1, <4>2, <4>3, <4>4
      <4>. QED  BY <3>1, <4>5
    <3>. QED  BY <3>1, <3>2, <3>3, <3>4
  <2> HIDE DEF W
  <2>. QED  BY <1>1, <2>1, <2>2, Upwards
<1>8. Whole(N)
  <2>1. N \in W
    <3>1. N \in 0..N
      BY <1>1
    <3> HIDE DEF W, N
    <3>. QED  BY <1>7, <3>1
  <2>2. ~(N < n)
    BY <1>1
  <2> HIDE DEF Whole
  <2>. QED  BY <2>1, <2>2
<1>. QED  BY <1>6, <1>8 DEF N, PartAt
=============================================================================
