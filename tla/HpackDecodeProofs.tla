-------------------------- MODULE HpackDecodeProofs --------------------------
(* Proofs about HpackDecode, for every table of Huffman codes of which none begins
   another, every set of fields, any number of them, and every size of the arrays:
   integers first, then Huffman codes, the parts of a field, the place of a field in
   the block, and what the decoder makes of one. *)
EXTENDS HpackDecode, Induction

-----------------------------------------------------------------------------
(* Integers: what a client writes, decode_int reads. *)

LEMMA Powers == 2^4 = 16 /\ 2^5 = 32 /\ 2^6 = 64 /\ 2^7 = 128
OBVIOUS

LEMMA Division ==
  ASSUME NEW n \in Nat
  PROVE  /\ n % 128 \in 0..127 /\ n \div 128 \in Nat
         /\ n = 128 * (n \div 128) + (n % 128)
         /\ n >= 128 => n \div 128 < n /\ n \div 128 >= 1
OBVIOUS

(* The sequence g holds num in groups: v[i] is what its octets from the i-th on are
   worth. Only the last has no top bit, and all before it are needed. *)
Holds(g, v, num) ==
  /\ g \in Seq(0..255) /\ Len(g) >= 1
  /\ v \in [1..Len(g) + 1 -> Nat] /\ v[1] = num /\ v[Len(g) + 1] = 0
  /\ \A i \in 1..Len(g) : v[i] = (g[i] % More) + More * v[i + 1]
  /\ \A i \in 1..Len(g) - 1 : g[i] >= More /\ v[i] >= More
  /\ g[Len(g)] < More

LEMMA HoldsMore ==
  ASSUME NEW g, NEW v, NEW n \in Nat, n >= More, Holds(g, v, n \div More)
  PROVE  \E w : Holds(<<More + (n % More)>> \o g, w, n)
<1> DEFINE b == More + (n % More)
           h == <<b>> \o g
           w == [i \in 1..Len(g) + 2 |-> IF i = 1 THEN n ELSE v[i - 1]]
<1>1. n % 128 \in 0..127 /\ n = 128 * (n \div 128) + (n % 128) /\ n \div 128 \in Nat
  BY Division
<1>2. g \in Seq(0..255) /\ Len(g) \in Nat /\ Len(g) >= 1
  BY DEF Holds
<1>3. b \in 0..255 /\ b >= More /\ b % More = n % More
  BY <1>1 DEF More
<1> HIDE DEF b
<1>4. <<b>> \in Seq(0..255) /\ Len(<<b>>) = 1 /\ <<b>>[1] = b
  BY <1>3
<1>5. h \in Seq(0..255) /\ Len(h) = Len(g) + 1 /\ h[1] = b
      /\ \A i \in 2..Len(h) : h[i] = g[i - 1]
  <2>1. /\ h \in Seq(0..255) /\ Len(h) = 1 + Len(g)
        /\ \A p \in 1..1 : h[p] = <<b>>[p]
        /\ \A p \in 1..Len(g) : h[1 + p] = g[p]
    BY <1>2, <1>4, Joined
  <2>2. ASSUME NEW i \in 2..Len(h) PROVE h[i] = g[i - 1]
    <3>1. i - 1 \in 1..Len(g) /\ 1 + (i - 1) = i
      BY <1>2, <2>1
    <3>. QED  BY <2>1, <3>1
  <2>3. 1 \in 1..1
    OBVIOUS
  <2>. QED  BY <1>2, <1>4, <2>1, <2>2, <2>3
<1> HIDE DEF h
<1>6. w \in [1..Len(h) + 1 -> Nat] /\ w[1] = n /\ w[Len(h) + 1] = 0
      /\ \A i \in 2..Len(h) + 1 : w[i] = v[i - 1]
  BY <1>2, <1>5 DEF Holds
<1> HIDE DEF w
<1>7. ASSUME NEW i \in 1..Len(h) PROVE w[i] = (h[i] % More) + More * w[i + 1]
  <2>1. CASE i = 1
    <3>1. w[1 + 1] = n \div More
      BY <1>2, <1>5, <1>6 DEF Holds
    <3>. QED  BY <1>1, <1>3, <1>5, <1>6, <2>1, <3>1 DEF More
  <2>2. CASE i # 1
    <3>1. i \in 2..Len(h) /\ i - 1 \in 1..Len(g) /\ i + 1 \in 2..Len(h) + 1 /\ (i + 1) - 1 = (i - 1) + 1
      BY <1>2, <1>5, <2>2
    <3>2. w[i] = v[i - 1] /\ w[i + 1] = v[(i - 1) + 1] /\ h[i] = g[i - 1]
      BY <1>5, <1>6, <3>1
    <3>3. v[i - 1] = (g[i - 1] % More) + More * v[(i - 1) + 1]
      BY <3>1 DEF Holds
    <3>. QED  BY <3>2, <3>3
  <2>. QED  BY <2>1, <2>2
<1>8. ASSUME NEW i \in 1..Len(h) - 1 PROVE h[i] >= More /\ w[i] >= More
  <2>1. CASE i = 1
    BY <1>3, <1>5, <1>6, <2>1
  <2>2. CASE i # 1
    <3>1. i \in 2..Len(h) /\ i - 1 \in 1..Len(g) - 1
      BY <1>2, <1>5, <2>2
    <3>2. w[i] = v[i - 1] /\ h[i] = g[i - 1]
      BY <1>5, <1>6, <3>1
    <3>. QED  BY <3>1, <3>2 DEF Holds
  <2>. QED  BY <2>1, <2>2
<1>9. h[Len(h)] < More
  <2>1. Len(h) \in 2..Len(h) /\ Len(h) - 1 = Len(g)
    BY <1>2, <1>5
  <2>. QED  BY <1>5, <2>1 DEF Holds
<1>10. Holds(h, w, n)
  BY <1>2, <1>5, <1>6, <1>7, <1>8, <1>9 DEF Holds
<1>. QED  BY <1>10 DEF h, b

LEMMA GroupsIs ==
  ASSUME NEW num \in Nat
  PROVE  \E v : Holds(Groups(num), v, num)
<1> DEFINE D == 0..num
           V == Seq(Nat)
           given == {n \in D : n < More}
           value == [n \in D |-> <<n>>]
           rank == [n \in D |-> n]
           previous == [n \in D \ given |-> n \div More]
           step == [n \in D \ given |-> [s \in V |-> <<More + (n % More)>> \o s]]
           Solves(f) == f = [n \in D |-> IF n < More THEN <<n>>
                                         ELSE <<More + (n % More)>> \o f[n \div More]]
<1>1. \A n \in D \ given : n \div More \in D /\ n \div More < n
  BY Division DEF More
<1>2. Recurs(D, V, given, value, num, rank, previous, step)
  <2>1. previous \in [D \ given -> D] /\ \A d \in D \ given : rank[previous[d]] < rank[d]
    BY <1>1
  <2>2. step \in [D \ given -> [V -> V]]
    <3>1. ASSUME NEW n \in D \ given, NEW s \in V PROVE <<More + (n % More)>> \o s \in V
      <4>1. n \in Nat /\ More + (n % More) \in Nat
        BY Division DEF More
      <4>2. <<More + (n % More)>> \in Seq(Nat)
        BY <4>1
      <4>. QED  BY <4>2, Joined
    <3> HIDE DEF D, V, given
    <3>. QED  BY <3>1
  <2>3. value \in [D -> V] /\ rank \in [D -> 0..num] /\ given \subseteq D
    OBVIOUS
  <2> HIDE DEF D, V, given, value, rank, previous, step
  <2>. QED  BY <2>1, <2>2, <2>3 DEF Recurs
<1>3. PICK f : Solution(f, D, V, given, value, previous, step)
  <2> HIDE DEF D, V, given, value, rank, previous, step
  <2>. QED  BY <1>2, Recursion
<1>4. Solves(f)
  <2>1. \A n \in given : f[n] = <<n>>
    BY <1>3 DEF Solution
  <2>2. ASSUME NEW n \in D \ given PROVE f[n] = <<More + (n % More)>> \o f[n \div More]
    <3>1. f[n] = step[n][f[previous[n]]] /\ previous[n] = n \div More /\ f[n \div More] \in V
      <4> HIDE DEF V, step, value
      <4>. QED  BY <1>1, <1>3 DEF Solution
    <3> HIDE DEF V, D, given, previous, value
    <3>2. step[n] = [s \in V |-> <<More + (n % More)>> \o s]
      OBVIOUS
    <3> HIDE DEF step
    <3>. QED  BY <3>1, <3>2
  <2>3. f \in [D -> V]
    BY <1>3 DEF Solution
  <2> HIDE DEF V, step, value, previous
  <2>. QED  BY <2>1, <2>2, <2>3
<1>5. PICK g : Solves(g) /\ Groups(num) = g[num]
  <2>1. Solves(CHOOSE g : Solves(g))
    <3> HIDE DEF Solves
    <3>. QED  BY <1>4, Zenon
  <2>2. Groups(num) = (CHOOSE g : Solves(g))[num]
    BY Zenon DEF Groups
  <2> HIDE DEF Solves
  <2>. QED  BY <2>1, <2>2
<1> DEFINE Bad == {n \in D : ~\E v : Holds(g[n], v, n)}
<1>6. Bad = {}
  <2> SUFFICES ASSUME Bad # {} PROVE FALSE
    OBVIOUS
  <2>1. PICK n \in Bad : \A m \in Bad : n <= m
    <3>1. Bad \in SUBSET Nat
      OBVIOUS
    <3> HIDE DEF Bad
    <3>. QED  BY <3>1, LeastNat
  <2>0. n \in D /\ n \in Nat
    OBVIOUS
  <2>2. CASE n < More
    <3>1. g[n] = <<n>>
      BY <1>5, <2>2
    <3>2. <<n>> \in Seq(0..255) /\ Len(<<n>>) = 1 /\ <<n>>[1] = n /\ n % 128 = n
      BY <2>2 DEF More
    <3> DEFINE v == [i \in 1..2 |-> IF i = 1 THEN n ELSE 0]
    <3>3. Holds(<<n>>, v, n)
      BY <2>2, <3>2 DEF Holds, More
    <3>. QED  BY <3>1, <3>3
  <2>3. CASE n >= More
    <3>1. n \in D \ given /\ n \in Nat
      BY <2>0, <2>3 DEF More
    <3>2. g[n] = <<More + (n % More)>> \o g[n \div More]
      BY <1>5, <3>1
    <3>3. n \div More \in D /\ ~(n \div More \in Bad)
      BY <1>1, <2>1, <3>1
    <3>4. PICK v : Holds(g[n \div More], v, n \div More)
      BY <3>3
    <3>5. \E w : Holds(g[n], w, n)
      BY <2>3, <3>1, <3>2, <3>4, HoldsMore, Zenon
    <3>. QED  BY <3>5
  <2>. QED  BY <2>0, <2>2, <2>3 DEF More
<1>7. num \in D
  OBVIOUS
<1>. QED  BY <1>5, <1>6, <1>7

LEMMA Shrinks ==
  ASSUME NEW a \in Nat, NEW b \in Nat, NEW q \in Nat, NEW m \in Nat,
         a >= 128 * b, a <= m, m < 128 * q + 128
  PROVE  b <= q
OBVIOUS

(* An int has no more groups than decode_int takes. *)
LEMMA GroupsEnd ==
  ASSUME NEW g, NEW v, NEW num \in 0..IntMax, Holds(g, v, num)
  PROVE  Len(g) <= 5
<1> SUFFICES ASSUME Len(g) >= 6 PROVE FALSE
  BY DEF Holds
<1> DEFINE q1 == IntMax \div 128
           q2 == q1 \div 128
           q3 == q2 \div 128
           q4 == q3 \div 128
<1>1. /\ q4 \in Nat /\ q4 < 128
      /\ IntMax \in Nat /\ IntMax < 128 * q1 + 128 /\ q1 < 128 * q2 + 128
      /\ q2 < 128 * q3 + 128 /\ q3 < 128 * q4 + 128 /\ q1 \in Nat /\ q2 \in Nat /\ q3 \in Nat
  <2>1. \A n \in Nat : n \div 128 \in Nat /\ n < 128 * (n \div 128) + 128
    BY Division
  <2>2. IntMax \in Nat /\ q4 < 128
    BY IntegerAssumption DEF More
  <2>3. q1 \in Nat /\ IntMax < 128 * q1 + 128
    BY <2>1, <2>2
  <2>4. q2 \in Nat /\ q1 < 128 * q2 + 128
    <3> HIDE DEF q1
    <3>. QED  BY <2>1, <2>3
  <2>5. q3 \in Nat /\ q2 < 128 * q3 + 128
    <3> HIDE DEF q2
    <3>. QED  BY <2>1, <2>4
  <2>6. q4 \in Nat /\ q3 < 128 * q4 + 128
    <3> HIDE DEF q3
    <3>. QED  BY <2>1, <2>5
  <2> HIDE DEF q1, q2, q3, q4
  <2>. QED  BY <2>2, <2>3, <2>4, <2>5, <2>6
<1> HIDE DEF q1, q2, q3, q4
<1>2. \A i \in 1..6 : v[i] \in Nat
  <2>1. Len(g) \in Nat /\ \A i \in 1..Len(g) + 1 : v[i] \in Nat
    BY LenIs DEF Holds
  <2>2. \A i \in 1..6 : i \in 1..Len(g) + 1
    BY <2>1
  <2>. QED  BY <2>1, <2>2
<1>3. \A i \in 1..4 : v[i] >= 128 * v[i + 1]
  <2>1. ASSUME NEW i \in 1..4 PROVE v[i] >= 128 * v[i + 1]
    <3>1. i \in 1..Len(g) /\ i + 1 \in 1..6
      <4>1. Len(g) \in Nat
        BY DEF Holds
      <4>. QED  BY <4>1
    <3>2. v[i] = (g[i] % 128) + 128 * v[i + 1]
      BY <3>1 DEF Holds, More
    <3>3. g[i] \in 0..255
      <4>1. g \in Seq(0..255)
        BY DEF Holds
      <4>. QED  BY <3>1, <4>1, LenIs
    <3>4. \A x \in 0..255 : \A y \in Nat : (x % 128) + 128 * y >= 128 * y
      BY Division
    <3>5. v[i + 1] \in Nat
      BY <1>2, <3>1
    <3>6. (g[i] % 128) + 128 * v[i + 1] >= 128 * v[i + 1]
      BY <3>3, <3>4, <3>5
    <3>. QED  BY <3>2, <3>6
  <2>. QED  BY <2>1
<1>4. v[5] >= 128 /\ v[1] = num
  BY DEF Holds, More
<1>5. v[1] >= 128 * v[2] /\ v[2] >= 128 * v[3] /\ v[3] >= 128 * v[4] /\ v[4] >= 128 * v[5]
  <2>1. 1 \in 1..4 /\ 2 \in 1..4 /\ 3 \in 1..4 /\ 4 \in 1..4 /\ 1 + 1 = 2 /\ 2 + 1 = 3 /\ 3 + 1 = 4 /\ 4 + 1 = 5
    OBVIOUS
  <2>2. \A i \in 1..4 : \A j \in 1..6 : j = i + 1 => v[i] >= 128 * v[j]
    BY <1>3
  <2>. QED  BY <2>1, <2>2
<1>6. v[1] \in Nat /\ v[2] \in Nat /\ v[3] \in Nat /\ v[4] \in Nat /\ v[5] \in Nat /\ v[1] <= IntMax
  BY <1>2, <1>4
<1> DEFINE a1 == v[1]
           a2 == v[2]
           a3 == v[3]
           a4 == v[4]
           a5 == v[5]
<1>7. /\ a1 \in Nat /\ a2 \in Nat /\ a3 \in Nat /\ a4 \in Nat /\ a5 \in Nat /\ a1 <= IntMax
      /\ a1 >= 128 * a2 /\ a2 >= 128 * a3 /\ a3 >= 128 * a4 /\ a4 >= 128 * a5 /\ a5 >= 128
  BY <1>4, <1>5, <1>6
<1> HIDE DEF a1, a2, a3, a4, a5
<1>8. a2 <= q1
  BY <1>1, <1>7, Shrinks
<1>9. a3 <= q2
  BY <1>1, <1>7, <1>8, Shrinks
<1>10. a4 <= q3
  BY <1>1, <1>7, <1>9, Shrinks
<1>11. a5 <= q4
  BY <1>1, <1>7, <1>10, Shrinks
<1>. QED  BY <1>1, <1>7, <1>11

(* The sequence s is part of the octets d, from the p-th on. *)
LiesIn(s, d, p) ==
  /\ p \in Nat \ {0} /\ p + Len(s) <= Len(d) + 1
  /\ \A k \in 1..Len(s) : d[p + k - 1] = s[k]

LEMMA PartsLie ==
  ASSUME NEW S, NEW s \in Seq(S), NEW t \in Seq(S), NEW d \in Seq(S), NEW p,
         LiesIn(s \o t, d, p)
  PROVE  LiesIn(s, d, p) /\ LiesIn(t, d, p + Len(s))
<1>1. /\ Len(s \o t) = Len(s) + Len(t) /\ Len(s) \in Nat /\ Len(t) \in Nat /\ Len(d) \in Nat
      /\ \A k \in 1..Len(s) : (s \o t)[k] = s[k]
      /\ \A k \in 1..Len(t) : (s \o t)[Len(s) + k] = t[k]
  BY Joined, LenIs
<1> DEFINE m == Len(s)
           n == Len(t)
           u == s \o t
<1>2. /\ p \in Nat \ {0} /\ m \in Nat /\ n \in Nat /\ Len(d) \in Nat
      /\ p + (m + n) <= Len(d) + 1
      /\ \A k \in 1..m + n : d[p + k - 1] = u[k]
      /\ \A k \in 1..m : u[k] = s[k]
      /\ \A k \in 1..n : u[m + k] = t[k]
  BY <1>1 DEF LiesIn
<1> HIDE DEF m, n, u
<1>3. \A k \in 1..m : k \in 1..m + n
  BY <1>2
<1>4. ASSUME NEW k \in 1..n PROVE d[(p + m) + k - 1] = t[k]
  <2>1. m + k \in 1..m + n /\ p + (m + k) - 1 = (p + m) + k - 1
    BY <1>2
  <2>2. d[p + (m + k) - 1] = u[m + k]
    BY <1>2, <2>1
  <2>. QED  BY <1>2, <2>1, <2>2
<1>5. p + m \in Nat \ {0} /\ (p + m) + n <= Len(d) + 1 /\ p + m <= Len(d) + 1
  BY <1>2
<1>. QED  BY <1>2, <1>3, <1>4, <1>5 DEF LiesIn, m, n

(* The octets of num behind the p-th one. *)
LEMMA LastIs ==
  ASSUME NEW d \in Seq(0..255), NEW p \in Nat, NEW g, NEW v, NEW num, Holds(g, v, num),
         LiesIn(g, d, p + 1)
  PROVE  LastOctet(d, p) = p + Len(g)
<1> DEFINE n == Len(g)
           e == p + n
           ends == {i \in p + 1..Len(d) : d[i] < More}
<1>1. /\ n \in Nat /\ n >= 1 /\ Len(d) \in Nat /\ p + 1 + n <= Len(d) + 1
      /\ \A k \in 1..n : d[p + 1 + k - 1] = g[k]
      /\ \A k \in 1..n - 1 : g[k] >= More
      /\ g[n] < More /\ \A k \in 1..n : g[k] \in 0..255
  <2>1. g \in Seq(0..255) /\ n >= 1 /\ (\A k \in 1..n - 1 : g[k] >= More) /\ g[n] < More
    BY DEF Holds
  <2>2. n \in Nat /\ \A k \in 1..n : g[k] \in 0..255
    BY <2>1, LenIs
  <2>3. p + 1 + n <= Len(d) + 1 /\ \A k \in 1..n : d[p + 1 + k - 1] = g[k]
    BY DEF LiesIn
  <2>4. Len(d) \in Nat
    BY LenIs
  <2>. QED  BY <2>1, <2>2, <2>3, <2>4
<1> HIDE DEF n
<1>2. e \in ends
  <2>1. n \in 1..n /\ p + 1 + n - 1 = e /\ e \in p + 1..Len(d)
    BY <1>1
  <2>. QED  BY <1>1, <2>1
<1>3. ASSUME NEW j \in ends PROVE e <= j
  <2> SUFFICES ASSUME j < e PROVE FALSE
    BY <1>1
  <2>1. j - p \in 1..n - 1 /\ j - p \in 1..n /\ p + 1 + (j - p) - 1 = j
    BY <1>1
  <2>2. d[j] = g[j - p] /\ g[j - p] >= More /\ g[j - p] \in 0..255
    BY <1>1, <2>1
  <2>3. d[j] < More
    OBVIOUS
  <2>4. \A x \in 0..255 : ~(x < More /\ x >= More)
    BY DEF More
  <2>. QED  BY <2>2, <2>3, <2>4
<1>4. \A i \in ends : (\A j \in ends : i <= j) => i = e
  <2>1. ASSUME NEW i \in ends, \A j \in ends : i <= j PROVE i = e
    <3>1. i <= e /\ e <= i /\ i \in Nat /\ e \in Nat
      BY <1>1, <1>2, <1>3, <2>1
    <3>. QED  BY <3>1
  <2>. QED  BY <2>1
<1> HIDE DEF ends, e
<1>5. (CHOOSE i \in ends : \A j \in ends : i <= j) = e
  BY <1>2, <1>3, <1>4
<1>6. LastOctet(d, p) = IF ends = {} THEN 0 ELSE CHOOSE i \in ends : \A j \in ends : i <= j
  BY DEF LastOctet, ends
<1>7. LastOctet(d, p) = e
  BY <1>2, <1>5, <1>6
<1>. QED  BY <1>7 DEF e, n

LEMMA TotalIs ==
  ASSUME NEW d \in Seq(0..255), NEW p \in Nat, NEW g, NEW v, NEW num, Holds(g, v, num),
         LiesIn(g, d, p + 1)
  PROVE  Total(d, p, p + Len(g)) = num
<1> DEFINE n == Len(g)
           e == p + n
           D == p + 1..e + 1
           Solves(f) == f = [i \in D |-> IF i > e THEN 0 ELSE (d[i] % More) + More * f[i + 1]]
           w == [i \in D |-> v[i - p]]
<1>1. /\ n \in Nat /\ n >= 1
      /\ \A k \in 1..n : d[p + 1 + k - 1] = g[k]
      /\ v[n + 1] = 0 /\ v[1] = num /\ \A k \in 1..n : v[k] = (g[k] % More) + More * v[k + 1]
  BY LenIs DEF Holds, LiesIn
<1> HIDE DEF n
<1>2. \A k \in 1..n : p + k \in D /\ p + k + 1 \in D /\ ~(p + k > e) /\ p + 1 + k - 1 = p + k
  BY <1>1
<1>3. \A i \in D : i > e => i = e + 1 /\ i - p = n + 1
  BY <1>1
<1>4. \A i \in D : ~(i > e) => i - p \in 1..n /\ p + (i - p) = i /\ i + 1 \in D /\ (i + 1) - p = (i - p) + 1
  BY <1>1
<1>5. Solves(w)
  <2>1. ASSUME NEW i \in D PROVE w[i] = IF i > e THEN 0 ELSE (d[i] % More) + More * w[i + 1]
    <3> HIDE DEF D, e
    <3>1. CASE i > e
      BY <1>1, <1>3, <3>1
    <3>2. CASE ~(i > e)
      <4>1. i - p \in 1..n /\ i + 1 \in D /\ (i + 1) - p = (i - p) + 1 /\ p + (i - p) = i
        BY <1>4, <3>2
      <4>2. d[i] = g[i - p]
        BY <1>1, <1>2, <4>1
      <4>3. w[i] = v[i - p] /\ w[i + 1] = v[(i - p) + 1]
        BY <4>1
      <4>4. v[i - p] = (g[i - p] % More) + More * v[(i - p) + 1]
        BY <1>1, <4>1
      <4>. QED  BY <3>2, <4>2, <4>3, <4>4
    <3>. QED  BY <3>1, <3>2
  <2>2. w = [i \in D |-> w[i]]
    OBVIOUS
  <2> HIDE DEF w, D, e
  <2>. QED  BY <2>1, <2>2
<1>6. PICK f : Solves(f) /\ Total(d, p, e) = f[p + 1]
  <2>1. Solves(CHOOSE f : Solves(f))
    <3> HIDE DEF Solves
    <3>. QED  BY <1>5, Zenon
  <2>2. Total(d, p, e) = (CHOOSE f : Solves(f))[p + 1]
    <3> HIDE DEF e
    <3>. QED  BY Zenon DEF Total
  <2> HIDE DEF Solves
  <2>. QED  BY <2>1, <2>2
<1> DEFINE S == {k \in 1..n + 1 : f[p + k] = v[k]}
<1>7. 1..n + 1 \subseteq S
  <2>1. ASSUME NEW k \in 1..n + 1, \A j \in k + 1..n + 1 : j \in S PROVE k \in S
    <3>1. CASE k = n + 1
      <4>1. p + k \in D /\ p + k > e
        BY <1>1, <3>1
      <4>2. f[p + k] = 0
        <5> HIDE DEF D, e
        <5>. QED  BY <1>6, <4>1
      <4>. QED  BY <1>1, <3>1, <4>2
    <3>2. CASE k # n + 1
      <4>1. k \in 1..n /\ k + 1 \in k + 1..n + 1 /\ p + k + 1 = p + (k + 1)
        BY <1>1, <3>2
      <4>2. p + k \in D /\ ~(p + k > e)
        BY <1>2, <4>1
      <4>3. f[p + k] = (d[p + k] % More) + More * f[p + k + 1]
        <5> HIDE DEF D, e
        <5>. QED  BY <1>6, <4>2
      <4>4. f[p + (k + 1)] = v[k + 1]
        BY <2>1, <4>1
      <4>5. d[p + k] = g[k] /\ v[k] = (g[k] % More) + More * v[k + 1]
        BY <1>1, <1>2, <4>1
      <4> HIDE DEF D, e
      <4>. QED  BY <4>1, <4>3, <4>4, <4>5
    <3>. QED  BY <3>1, <3>2
  <2>2. n + 1 \in Nat
    BY <1>1
  <2> HIDE DEF S
  <2>. QED  BY <2>1, <2>2, FromTheEnd
<1>8. f[p + 1] = v[1]
  <2>1. 1 \in 1..n + 1
    BY <1>1
  <2>. QED  BY <1>7, <2>1
<1>. QED  BY <1>1, <1>6, <1>8 DEF n

Kinds == {<<128, 7>>, <<0, 7>>, <<64, 6>>, <<0, 4>>, <<16, 4>>}

(* What comes in front of the groups: flags, and a mask that the prefix has room for. *)
LEMMA PrefixIs ==
  ASSUME NEW flags, NEW prefix, <<flags, prefix>> \in Kinds
  PROVE  LET mask == 2^prefix - 1 IN
         /\ mask \in 1..127 /\ flags \in Nat /\ flags + mask \in 0..255
         /\ \A n \in 0..mask : (flags + n) % 2^prefix = n
<1>1. CASE flags = 128 /\ prefix = 7
  BY <1>1, Powers
<1>2. CASE flags = 0 /\ prefix = 7
  BY <1>2, Powers
<1>3. CASE flags = 64 /\ prefix = 6
  BY <1>3, Powers
<1>4. CASE flags = 0 /\ prefix = 4
  BY <1>4, Powers
<1>5. CASE flags = 16 /\ prefix = 4
  BY <1>5, Powers
<1>. QED  BY <1>1, <1>2, <1>3, <1>4, <1>5 DEF Kinds

LEMMA WrittenIs ==
  ASSUME NEW flags, NEW prefix, <<flags, prefix>> \in Kinds, NEW num \in Nat
  PROVE  LET mask == 2^prefix - 1
             w == Written(flags, prefix, num) IN
         /\ w \in Seq(0..255) /\ Len(w) >= 1
         /\ w[1] = flags + (IF num < mask THEN num ELSE mask)
<1> DEFINE mask == 2^prefix - 1
           w == Written(flags, prefix, num)
<1>1. mask \in 1..127 /\ flags \in Nat /\ flags + mask \in 0..255
  BY PrefixIs
<1>2. w = IF num < mask THEN <<flags + num>> ELSE <<flags + mask>> \o Groups(num - mask)
  BY DEF Written
<1> HIDE DEF mask, w
<1> DEFINE Fine == /\ w \in Seq(0..255) /\ Len(w) >= 1
                   /\ w[1] = flags + (IF num < mask THEN num ELSE mask)
<1>3. ASSUME num < mask PROVE Fine
  <2>1. flags + num \in 0..255
    BY <1>1, <1>3
  <2>2. <<flags + num>> \in Seq(0..255) /\ Len(<<flags + num>>) = 1
        /\ <<flags + num>>[1] = flags + num
    BY <2>1
  <2>. QED  BY <1>2, <1>3, <2>2
<1>4. ASSUME ~(num < mask) PROVE Fine
  <2>1. num - mask \in Nat
    BY <1>1, <1>4
  <2> DEFINE g == Groups(num - mask)
             h == <<flags + mask>>
  <2>2. g \in Seq(0..255)
    BY <2>1, GroupsIs DEF Holds
  <2>3. h \in Seq(0..255) /\ Len(h) = 1 /\ h[1] = flags + mask
    BY <1>1
  <2>4. w = h \o g
    BY <1>2, <1>4
  <2> HIDE DEF g, h
  <2>5. w \in Seq(0..255) /\ Len(w) = Len(h) + Len(g) /\ w[1] = h[1]
    <3>1. 1 \in 1..Len(h)
      BY <2>3
    <3> DEFINE B == 0..255
    <3>2. h \in Seq(B) /\ g \in Seq(B)
      BY <2>2, <2>3
    <3> HIDE DEF B
    <3>3. /\ h \o g \in Seq(B) /\ Len(h \o g) = Len(h) + Len(g)
          /\ \A k \in 1..Len(h) : (h \o g)[k] = h[k]
      BY <3>2, Joined
    <3>. QED  BY <2>4, <3>1, <3>3 DEF B
  <2>6. Len(g) \in Nat
    BY <2>2
  <2>7. Len(w) >= 1
    BY <2>3, <2>5, <2>6
  <2>. QED  BY <1>4, <2>3, <2>5, <2>7
<1>5. Fine
  BY <1>3, <1>4
<1>. QED  BY <1>5 DEF w, mask

(* decode_int returns the number a client wrote and stops right behind its octets,
   for every number an int holds, each kind of prefix, and wherever it lies: no
   group is lost, none too many is read, and neither 32 bits nor the limit of five
   groups is exceeded. *)
THEOREM IntegerRead ==
  ASSUME NEW d \in Seq(0..255), NEW p,
         NEW flags, NEW prefix, <<flags, prefix>> \in Kinds, NEW num \in 0..IntMax,
         LiesIn(Written(flags, prefix, num), d, p)
  PROVE  decode_int(d, p, prefix) =
           [ok |-> TRUE, value |-> num, next |-> p + Len(Written(flags, prefix, num))]
<1> DEFINE mask == 2^prefix - 1
           w == Written(flags, prefix, num)
           first == d[p] % 2^prefix
           last == LastOctet(d, p)
           result == (mask + Total(d, p, last)) % UintSize
<1>1. /\ mask \in 1..127 /\ flags \in Nat /\ flags + mask \in 0..255
      /\ \A n \in 0..mask : (flags + n) % 2^prefix = n
  BY PrefixIs
<1>2. num \in Nat /\ UintSize \in Nat \ {0} /\ IntMax \in Nat /\ IntMax < UintSize
  BY IntegerAssumption
<1>3. w \in Seq(0..255) /\ Len(w) >= 1 /\ w[1] = flags + (IF num < mask THEN num ELSE mask)
  BY <1>2, WrittenIs
<1>4. w = IF num < mask THEN <<flags + num>> ELSE <<flags + mask>> \o Groups(num - mask)
  BY DEF Written
<1>5. /\ p \in Nat \ {0} /\ ~(p > Len(d)) /\ d[p] = w[1]
  <2>1. Len(w) \in Nat /\ Len(d) \in Nat
    BY <1>3
  <2>2. /\ p \in Nat \ {0} /\ p + Len(w) <= Len(d) + 1 /\ \A k \in 1..Len(w) : d[p + k - 1] = w[k]
    BY DEF LiesIn
  <2>3. 1 \in 1..Len(w) /\ p + 1 - 1 = p
    BY <1>3, <2>1, <2>2
  <2> HIDE DEF w
  <2>. QED  BY <1>3, <2>1, <2>2, <2>3
<1>6. decode_int(d, p, prefix) =
        IF first < mask THEN [ok |-> TRUE, value |-> first, next |-> p + 1]
        ELSE IF last = 0 \/ TooLong(p, last) \/ result > IntMax THEN Fail
        ELSE [ok |-> TRUE, value |-> result, next |-> last + 1]
  BY <1>5 DEF decode_int
<1>7. LiesIn(w, d, p)
  OBVIOUS
<1> HIDE DEF mask, w, result, last
<1>8. CASE num < mask
  <2>1. first = num
    BY <1>1, <1>2, <1>3, <1>5, <1>8
  <2>2. Len(w) = 1
    BY <1>4, <1>8
  <2>. QED  BY <1>6, <1>8, <2>1, <2>2 DEF w
<1>9. CASE ~(num < mask)
  <2>1. first = mask
    BY <1>1, <1>2, <1>3, <1>5, <1>9
  <2>2. num - mask \in Nat /\ num - mask \in 0..IntMax
    BY <1>1, <1>2, <1>9
  <2> DEFINE g == Groups(num - mask)
             h == <<flags + mask>>
  <2>3. PICK v : Holds(g, v, num - mask)
    BY <2>2, GroupsIs
  <2>4. g \in Seq(0..255) /\ Len(g) \in Nat /\ Len(g) >= 1 /\ Len(g) <= 5
    <3>1. Len(g) <= 5
      BY <2>2, <2>3, GroupsEnd
    <3>2. g \in Seq(0..255) /\ Len(g) >= 1
      BY <2>3 DEF Holds
    <3> HIDE DEF g
    <3>. QED  BY <3>1, <3>2
  <2>5. h \in Seq(0..255) /\ Len(h) = 1
    BY <1>1
  <2>6. w = h \o g
    BY <1>4, <1>9
  <2> HIDE DEF g, h
  <2>7. LiesIn(g, d, p + 1) /\ Len(w) = 1 + Len(g)
    <3>1. LiesIn(h \o g, d, p)
      BY <1>7, <2>6
    <3> DEFINE B == 0..255
    <3>2. h \in Seq(B) /\ g \in Seq(B) /\ d \in Seq(B)
      BY <2>4, <2>5
    <3> HIDE DEF B
    <3>3. LiesIn(g, d, p + Len(h))
      BY <3>1, <3>2, PartsLie
    <3>4. Len(w) = Len(h) + Len(g)
      BY <2>6, <3>2, Joined
    <3>. QED  BY <2>5, <3>3, <3>4
  <2>8. last = p + Len(g) /\ Total(d, p, last) = num - mask
    <3>1. last = LastOctet(d, p) /\ p \in Nat /\ LiesIn(g, d, p + 1)
      BY <1>5, <2>7 DEF last
    <3>2. LastOctet(d, p) = p + Len(g)
      BY <2>3, <3>1, LastIs
    <3>3. Total(d, p, p + Len(g)) = num - mask
      BY <2>3, <3>1, TotalIs
    <3>. QED  BY <3>1, <3>2, <3>3
  <2>9. result = num
    <3>1. mask + (num - mask) = num
      BY <1>1, <1>2
    <3>2. num % UintSize = num
      <4>1. num <= IntMax
        BY <1>2
      <4>2. num < UintSize
        BY <1>2, <4>1
      <4>3. \A m, n \in Nat : n < m => n % m = n
        OBVIOUS
      <4>. QED  BY <1>2, <4>2, <4>3
    <3>. QED  BY <2>8, <3>1, <3>2 DEF result
  <2>10. last # 0 /\ ~TooLong(p, last)
    BY <1>5, <2>4, <2>8 DEF TooLong
  <2>11. decode_int(d, p, prefix) = [ok |-> TRUE, value |-> num, next |-> last + 1]
    BY <1>1, <1>2, <1>6, <2>1, <2>9, <2>10
  <2>12. last + 1 = p + Len(w)
    BY <1>5, <2>4, <2>7, <2>8
  <2>. QED  BY <2>11, <2>12 DEF w
<1>. QED  BY <1>8, <1>9

-----------------------------------------------------------------------------
(* Huffman codes: a text that is coded is decoded to itself. *)

LEMMA SeqFrom ==
  ASSUME NEW S, NEW n \in Nat, NEW f \in [1..n -> S]
  PROVE  f \in Seq(S) /\ Len(f) = n
OBVIOUS

LEMMA Codes ==
  ASSUME NEW c \in DOMAIN HuffSym
  PROVE  /\ HuffSym[c] \in Seq({0, 1}) /\ Len(HuffSym[c]) \in Nat \ {0}
         /\ \E k \in 1..Len(HuffSym[c]) : k > 7 \/ HuffSym[c][k] = 0
<1>1. /\ HuffSym[c] \in Seq({0, 1})
      /\ \E k \in 1..Len(HuffSym[c]) : k > 7 \/ HuffSym[c][k] = 0
  BY BlockAssumption
<1>2. Len(HuffSym[c]) \in Nat
  BY <1>1
<1>. QED  BY <1>1, <1>2

CodeParts(s) == [i \in DOMAIN s |-> HuffSym[s[i]]]

LEMMA CodeIs ==
  ASSUME NEW s \in Text
  PROVE  /\ CodeParts(s) \in Seq(Seq({0, 1})) /\ Len(CodeParts(s)) = Len(s)
         /\ \A i \in 1..Len(s) : s[i] \in DOMAIN HuffSym /\ CodeParts(s)[i] = HuffSym[s[i]]
         /\ \E h : Flattens(h, CodeParts(s), {0, 1}) /\ Code(s) = h[Len(s)]
         /\ Code(s) \in Seq({0, 1})
<1>1. Len(s) \in Nat /\ DOMAIN s = 1..Len(s) /\ \A i \in 1..Len(s) : s[i] \in DOMAIN HuffSym
  BY LenIs DEF Text
<1>2. /\ CodeParts(s) \in Seq(Seq({0, 1})) /\ Len(CodeParts(s)) = Len(s)
      /\ \A i \in 1..Len(s) : CodeParts(s)[i] = HuffSym[s[i]]
  <2>1. \A i \in 1..Len(s) : HuffSym[s[i]] \in Seq({0, 1})
    BY <1>1, Codes
  <2> DEFINE B == Seq({0, 1})
             q == CodeParts(s)
             n == Len(s)
  <2>2. q = [i \in 1..n |-> HuffSym[s[i]]] /\ n \in Nat /\ \A i \in 1..n : HuffSym[s[i]] \in B
    BY <1>1, <2>1 DEF CodeParts
  <2> HIDE DEF B, q, n
  <2>3. q \in Seq(B) /\ Len(q) = n /\ \A i \in 1..n : q[i] = HuffSym[s[i]]
    BY <2>2
  <2>. QED  BY <2>3 DEF B, q, n
<1>3. PICK h : Flattens(h, CodeParts(s), {0, 1}) /\ FlattenSeq(CodeParts(s)) = h[Len(CodeParts(s))]
  BY <1>2, FlatIs
<1>4. Code(s) = FlattenSeq(CodeParts(s))
  BY DEF Code, CodeParts
<1>5. h[Len(s)] \in Seq({0, 1})
  BY <1>1, <1>2, <1>3 DEF Flattens
<1>. QED  BY <1>1, <1>2, <1>3, <1>4, <1>5

LEMMA OctetBits ==
  ASSUME NEW b, \A k \in 1..8 : b[k] \in {0, 1}
  PROVE  Octet(b) \in 0..255 /\ \A k \in 1..8 : BitsOf(Octet(b))[k] = b[k]
<1> DEFINE x == Octet(b)
<1>1. /\ b[1] \in {0, 1} /\ b[2] \in {0, 1} /\ b[3] \in {0, 1} /\ b[4] \in {0, 1}
      /\ b[5] \in {0, 1} /\ b[6] \in {0, 1} /\ b[7] \in {0, 1} /\ b[8] \in {0, 1}
  <2>1. 1 \in 1..8 /\ 2 \in 1..8 /\ 3 \in 1..8 /\ 4 \in 1..8
        /\ 5 \in 1..8 /\ 6 \in 1..8 /\ 7 \in 1..8 /\ 8 \in 1..8
    OBVIOUS
  <2>. QED  BY <2>1
<1> DEFINE b1 == b[1]
           b2 == b[2]
           b3 == b[3]
           b4 == b[4]
           b5 == b[5]
           b6 == b[6]
           b7 == b[7]
           b8 == b[8]
<1>2. /\ x = 128 * b1 + 64 * b2 + 32 * b3 + 16 * b4 + 8 * b5 + 4 * b6 + 2 * b7 + b8
      /\ b1 \in {0, 1} /\ b2 \in {0, 1} /\ b3 \in {0, 1} /\ b4 \in {0, 1}
      /\ b5 \in {0, 1} /\ b6 \in {0, 1} /\ b7 \in {0, 1} /\ b8 \in {0, 1}
  BY <1>1 DEF Octet
<1>3. /\ x \in 0..255
      /\ (x \div 128) % 2 = b[1] /\ (x \div 64) % 2 = b[2] /\ (x \div 32) % 2 = b[3]
      /\ (x \div 16) % 2 = b[4] /\ (x \div 8) % 2 = b[5] /\ (x \div 4) % 2 = b[6]
      /\ (x \div 2) % 2 = b[7] /\ (x \div 1) % 2 = b[8]
  <2> HIDE DEF x, b1, b2, b3, b4, b5, b6, b7, b8
  <2>1. /\ x \in 0..255
        /\ (x \div 128) % 2 = b1 /\ (x \div 64) % 2 = b2 /\ (x \div 32) % 2 = b3
        /\ (x \div 16) % 2 = b4 /\ (x \div 8) % 2 = b5 /\ (x \div 4) % 2 = b6
        /\ (x \div 2) % 2 = b7 /\ (x \div 1) % 2 = b8
    BY <1>2
  <2>. QED  BY <2>1 DEF b1, b2, b3, b4, b5, b6, b7, b8
<1> HIDE DEF x
<1>4. ASSUME NEW k \in 1..8 PROVE BitsOf(x)[k] = b[k]
  <2>1. BitsOf(x)[k] = (x \div Weights[k]) % 2
    BY DEF BitsOf
  <2>2. k \in {1, 2} \/ k \in {3, 4} \/ k \in {5, 6} \/ k = 7 \/ k = 8
    OBVIOUS
  <2>3. Weights[1] = 128 /\ Weights[2] = 64 /\ Weights[3] = 32 /\ Weights[4] = 16
        /\ Weights[5] = 8 /\ Weights[6] = 4 /\ Weights[7] = 2 /\ Weights[8] = 1
    BY DEF Weights
  <2>4. CASE k \in {1, 2}
    BY <1>3, <2>1, <2>3, <2>4
  <2>5. CASE k \in {3, 4}
    BY <1>3, <2>1, <2>3, <2>5
  <2>6. CASE k \in {5, 6}
    BY <1>3, <2>1, <2>3, <2>6
  <2>7. CASE k = 7
    BY <1>3, <2>1, <2>3, <2>7
  <2>8. CASE k = 8
    <3>1. BitsOf(x)[8] = (x \div 1) % 2
      BY <2>1, <2>3, <2>8, Zenon
    <3>2. BitsOf(x)[8] = b[8]
      BY <1>3, <3>1, Zenon
    <3>. QED  BY <2>8, <3>2, Zenon
  <2>. QED  BY <2>2, <2>4, <2>5, <2>6, <2>7, <2>8, Zenon
<1>. QED  BY <1>3, <1>4 DEF x

LEMMA Eighths ==
  ASSUME NEW n \in Nat
  PROVE  n \div 8 \in Nat /\ n % 8 \in 0..7 /\ n = 8 * (n \div 8) + (n % 8)
OBVIOUS

LEMMA BitsIs ==
  ASSUME NEW q \in Seq(0..255)
  PROVE  /\ Len(Bits(q)) = 8 * Len(q) /\ Len(q) \in Nat
         /\ \A o \in 1..Len(q) : \A k \in 1..8 : Bits(q)[8 * (o - 1) + k] = BitsOf(q[o])[k]
<1> DEFINE parts == [i \in DOMAIN q |-> BitsOf(q[i])]
           N == Len(q)
<1>1. N \in Nat /\ DOMAIN q = 1..N /\ \A i \in 1..N : q[i] \in 0..255
  BY LenIs
<1>2. ASSUME NEW x \in 0..255 PROVE BitsOf(x) \in Seq({0, 1}) /\ Len(BitsOf(x)) = 8
  <2>1. ASSUME NEW k \in 1..8 PROVE (x \div Weights[k]) % 2 \in {0, 1}
    <3>1. k \in {1, 2, 3, 4, 5, 6, 7, 8}
      OBVIOUS
    <3>2. Weights[k] \in Nat \ {0}
      BY <3>1 DEF Weights
    <3>3. \A w \in Nat \ {0} : (x \div w) % 2 \in {0, 1}
      OBVIOUS
    <3>. QED  BY <3>2, <3>3
  <2>2. BitsOf(x) = [k \in 1..8 |-> (x \div Weights[k]) % 2]
    BY DEF BitsOf
  <2> DEFINE f == BitsOf(x)
  <2>3. f \in [1..8 -> {0, 1}]
    BY <2>1, <2>2
  <2> HIDE DEF f
  <2>4. f \in Seq({0, 1}) /\ Len(f) = 8
    BY <2>3, SeqFrom
  <2>. QED  BY <2>4 DEF f
<1>3. parts \in Seq(Seq({0, 1})) /\ Len(parts) = N /\ \A i \in 1..N : parts[i] = BitsOf(q[i])
  <2> DEFINE B == Seq({0, 1})
  <2>1. \A i \in 1..N : BitsOf(q[i]) \in B
    BY <1>1, <1>2
  <2>2. parts = [i \in 1..N |-> BitsOf(q[i])]
    BY <1>1
  <2> HIDE DEF B, parts, N
  <2>3. parts \in Seq(B) /\ Len(parts) = N
    BY <1>1, <2>1, <2>2
  <2>4. \A i \in 1..N : parts[i] = BitsOf(q[i])
    BY <2>2
  <2>. QED  BY <2>3, <2>4 DEF B
<1>4. PICK h : Flattens(h, parts, {0, 1}) /\ FlattenSeq(parts) = h[Len(parts)]
  <2> HIDE DEF parts
  <2>. QED  BY <1>3, FlatIs
<1>5. Bits(q) = h[N]
  BY <1>3, <1>4 DEF Bits
<1>6. ASSUME NEW n \in 1..N PROVE PartAt(h, parts, n) /\ Len(parts[n]) = 8
  <2>1. PartAt(h, parts, n)
    <3> HIDE DEF parts
    <3>. QED  BY <1>3, <1>4, FlatAt
  <2>2. Len(parts[n]) = 8
    <3> HIDE DEF parts
    <3>1. q[n] \in 0..255 /\ parts[n] = BitsOf(q[n])
      BY <1>1, <1>3
    <3>. QED  BY <1>2, <3>1
  <2>. QED  BY <2>1, <2>2
<1> HIDE DEF parts
<1> DEFINE S == {n \in 0..N : Len(h[n]) = 8 * n}
<1>7. 0..N \subseteq S
  <2>1. 0 \in S
    BY <1>1, <1>4 DEF Flattens
  <2>2. ASSUME NEW n \in 0..N - 1, n \in S PROVE n + 1 \in S
    <3>1. n + 1 \in 1..N /\ n + 1 \in 0..N /\ (n + 1) - 1 = n
      BY <1>1
    <3>2. Len(h[n + 1]) = Len(h[(n + 1) - 1]) + Len(parts[n + 1]) /\ Len(parts[n + 1]) = 8
      BY <1>6, <3>1 DEF PartAt
    <3>3. Len(h[n + 1]) = 8 * n + 8
      BY <2>2, <3>1, <3>2
    <3>. QED  BY <3>1, <3>3
  <2> HIDE DEF S
  <2>. QED  BY <1>1, <2>1, <2>2, Upwards
<1>8. Len(Bits(q)) = 8 * N
  <2>1. N \in S
    BY <1>1, <1>7
  <2>. QED  BY <1>5, <2>1
<1>9. ASSUME NEW o \in 1..N, NEW k \in 1..8 PROVE Bits(q)[8 * (o - 1) + k] = BitsOf(q[o])[k]
  <2>1. o - 1 \in 0..N
    BY <1>1
  <2>2. Len(h[o - 1]) = 8 * (o - 1)
    BY <1>7, <2>1
  <2>3. h[Len(parts)][Len(h[o - 1]) + k] = parts[o][k]
    BY <1>6 DEF PartAt
  <2>. QED  BY <1>3, <1>5, <2>2, <2>3
<1>. QED  BY <1>1, <1>8, <1>9 DEF N

(* The octets of a text: the bits of its code, and fewer than eight ones. *)
LEMMA HuffmanIs ==
  ASSUME NEW s \in Text
  PROVE  LET q == Huffman(s)
             n == Len(Code(s)) IN
         /\ q \in Seq(0..255) /\ n \in Nat
         /\ Len(Bits(q)) \in n..n + 7
         /\ \A i \in 1..n : Bits(q)[i] = Code(s)[i]
         /\ \A i \in n + 1..Len(Bits(q)) : Bits(q)[i] = 1
<1> DEFINE code == Code(s)
           n == Len(code)
           N == (n + 7) \div 8
           bit(i) == IF i <= n THEN code[i] ELSE 1
           row(o) == [k \in 1..8 |-> bit(8 * (o - 1) + k)]
           q == Huffman(s)
<1>1. n \in Nat /\ \A i \in 1..n : code[i] \in {0, 1}
  BY CodeIs, LenIs
<1>2. N \in Nat /\ 8 * N \in n..n + 7
  BY <1>1, Eighths
<1>3. q = [o \in 1..N |-> Octet(row(o))]
  BY DEF Huffman
<1> HIDE DEF code, n, N
<1>4. \A o \in 1..N : \A k \in 1..8 : 8 * (o - 1) + k \in 1..8 * N
  BY <1>2
<1>5. \A i \in 1..8 * N : bit(i) \in {0, 1}
  BY <1>1
<1> HIDE DEF bit
<1>6. ASSUME NEW o \in 1..N
      PROVE  Octet(row(o)) \in 0..255 /\ \A k \in 1..8 : BitsOf(Octet(row(o)))[k] = row(o)[k]
  <2>1. \A k \in 1..8 : row(o)[k] \in {0, 1}
    BY <1>4, <1>5
  <2> HIDE DEF row
  <2>. QED  BY <2>1, OctetBits
<1> HIDE DEF q
<1>7. q \in Seq(0..255) /\ Len(q) = N /\ \A o \in 1..N : q[o] = Octet(row(o))
  <2> HIDE DEF row
  <2>1. \A o \in 1..N : Octet(row(o)) \in 0..255
    BY <1>6
  <2>. QED  BY <1>2, <1>3, <2>1
<1>8. Len(Bits(q)) = 8 * N
  BY <1>7, BitsIs
<1>9. ASSUME NEW i \in 1..8 * N PROVE Bits(q)[i] = bit(i)
  <2> DEFINE o == ((i - 1) \div 8) + 1
             k == ((i - 1) % 8) + 1
  <2>1. i - 1 \in Nat
    BY <1>2
  <2>2. (i - 1) \div 8 \in Nat /\ (i - 1) % 8 \in 0..7 /\ i - 1 = 8 * ((i - 1) \div 8) + ((i - 1) % 8)
    BY <2>1, Eighths
  <2>3. o \in 1..N /\ k \in 1..8 /\ 8 * (o - 1) + k = i
    BY <1>2, <2>2
  <2> HIDE DEF o, k
  <2>4. Bits(q)[8 * (o - 1) + k] = BitsOf(q[o])[k]
    BY <1>7, <2>3, BitsIs
  <2>5. BitsOf(q[o])[k] = row(o)[k]
    <3> HIDE DEF row
    <3>1. q[o] = Octet(row(o))
      BY <1>7, <2>3
    <3>2. BitsOf(Octet(row(o)))[k] = row(o)[k]
      BY <1>6, <2>3
    <3>. QED  BY <3>1, <3>2
  <2>6. row(o)[k] = bit(8 * (o - 1) + k)
    BY <2>3
  <2>. QED  BY <2>3, <2>4, <2>5, <2>6
<1>10. /\ Len(Bits(q)) \in n..n + 7
       /\ \A i \in 1..n : Bits(q)[i] = code[i]
       /\ \A i \in n + 1..Len(Bits(q)) : Bits(q)[i] = 1
  <2>1. Len(Bits(q)) \in n..n + 7
    BY <1>2, <1>8
  <2>2. \A i \in 1..n : i \in 1..8 * N /\ bit(i) = code[i]
    BY <1>1, <1>2 DEF bit
  <2>3. \A i \in n + 1..8 * N : i \in 1..8 * N /\ bit(i) = 1
    BY <1>1, <1>2 DEF bit
  <2>. QED  BY <1>8, <1>9, <2>1, <2>2, <2>3
<1>. QED  BY <1>1, <1>7, <1>10 DEF q, n, code

LEMMA ShorterCode ==
  ASSUME NEW c \in DOMAIN HuffSym, NEW e \in DOMAIN HuffSym, NEW bits, NEW i \in Nat,
         CodeAt(c, bits, i), CodeAt(e, bits, i), Len(HuffSym[c]) <= Len(HuffSym[e])
  PROVE  c = e
<1> DEFINE a == HuffSym[c]
           b == HuffSym[e]
           m == Len(a)
           B == {0, 1}
<1>1. a \in Seq(B) /\ b \in Seq(B) /\ m \in Nat /\ Len(b) \in Nat /\ m <= Len(b)
  BY Codes
<1>2. /\ \A k \in 1..m : bits[i + k - 1] = a[k]
      /\ \A k \in 1..Len(b) : bits[i + k - 1] = b[k]
  BY DEF CodeAt
<1>3. IsPrefix(a, b) => c = e
  BY BlockAssumption
<1> HIDE DEF a, b, B
<1>4. /\ SubSeq(a, 1, m) \in Seq(B) /\ Len(SubSeq(a, 1, m)) = m
      /\ \A k \in 1..m : SubSeq(a, 1, m)[k] = a[k]
  BY <1>1, HeadIs
<1>5. /\ SubSeq(b, 1, m) \in Seq(B) /\ Len(SubSeq(b, 1, m)) = m
      /\ \A k \in 1..m : SubSeq(b, 1, m)[k] = b[k]
  <2>1. m \in 0..Len(b)
    BY <1>1
  <2>. QED  BY <1>1, <2>1, HeadIs
<1>6. \A k \in 1..m : a[k] = b[k]
  BY <1>1, <1>2
<1>7. SubSeq(a, 1, m) = SubSeq(b, 1, m)
  BY <1>4, <1>5, <1>6, SameSeq
<1>. QED  BY <1>1, <1>3, <1>7 DEF IsPrefix

LEMMA OneCode ==
  ASSUME NEW c \in DOMAIN HuffSym, NEW e \in DOMAIN HuffSym, NEW bits, NEW i \in Nat,
         CodeAt(c, bits, i), CodeAt(e, bits, i)
  PROVE  c = e
<1>1. Len(HuffSym[c]) <= Len(HuffSym[e]) \/ Len(HuffSym[e]) <= Len(HuffSym[c])
  BY Codes
<1>. QED  BY <1>1, ShorterCode

(* Nothing is coded by the padding. *)
LEMMA NoCode ==
  ASSUME NEW bits, NEW i \in Nat, Len(bits) \in Nat, Len(bits) < i + 7,
         \A j \in i..Len(bits) : bits[j] = 1, NEW c \in DOMAIN HuffSym
  PROVE  ~CodeAt(c, bits, i)
<1> SUFFICES ASSUME CodeAt(c, bits, i) PROVE FALSE
  OBVIOUS
<1>1. PICK k \in 1..Len(HuffSym[c]) : k > 7 \/ HuffSym[c][k] = 0
  BY Codes
<1>2. Len(HuffSym[c]) \in Nat
  BY Codes
<1>3. i + Len(HuffSym[c]) - 1 <= Len(bits) /\ bits[i + k - 1] = HuffSym[c][k]
  BY DEF CodeAt
<1>4. i + k - 1 \in i..Len(bits) /\ k <= 7
  BY <1>2, <1>3
<1>5. bits[i + k - 1] = 1
  BY <1>4
<1>. QED  BY <1>1, <1>3, <1>4, <1>5

(* Behind its first n - 1 characters, a text is the n-th and the rest. *)
LEMMA RestIs ==
  ASSUME NEW S, NEW s \in Seq(S), NEW n \in 1..Len(s)
  PROVE  <<s[n]>> \o SubSeq(s, n + 1, Len(s)) = SubSeq(s, n, Len(s))
<1> DEFINE a == <<s[n]>>
           b == SubSeq(s, n + 1, Len(s))
           c == SubSeq(s, n, Len(s))
           N == Len(s)
<1>1. N \in Nat /\ \A i \in 1..N : s[i] \in S
  BY LenIs
<1>2. a \in Seq(S) /\ Len(a) = 1 /\ a[1] = s[n]
  BY <1>1
<1>3. b \in Seq(S) /\ Len(b) = N - n /\ \A i \in 1..N - n : b[i] = s[n + i]
  BY <1>1, TailIs
<1>4. c \in Seq(S) /\ Len(c) = N + 1 - n /\ \A i \in 1..N + 1 - n : c[i] = s[n + i - 1]
  <2>1. n \in 1..N + 1 /\ N \in n - 1..N
    BY <1>1
  <2>. QED  BY <2>1, SubSeqIs
<1> HIDE DEF a, b, c
<1>5. /\ a \o b \in Seq(S) /\ Len(a \o b) = N + 1 - n
      /\ \A i \in 1..1 : (a \o b)[i] = a[i]
      /\ \A i \in 1..N - n : (a \o b)[1 + i] = b[i]
  <2>1. /\ a \o b \in Seq(S) /\ Len(a \o b) = Len(a) + Len(b)
        /\ \A i \in 1..Len(a) : (a \o b)[i] = a[i]
        /\ \A i \in 1..Len(b) : (a \o b)[Len(a) + i] = b[i]
    <3>1. a \in Seq(S) /\ b \in Seq(S)
      BY <1>2, <1>3
    <3>. QED  BY <3>1, Joined
  <2>2. 1 + (N - n) = N + 1 - n
    BY <1>1
  <2>. QED  BY <1>2, <1>3, <2>1, <2>2
<1>6. ASSUME NEW i \in 1..N + 1 - n PROVE (a \o b)[i] = c[i]
  <2>1. CASE i = 1
    <3>1. 1 \in 1..1 /\ n + 1 - 1 = n
      BY <1>1
    <3>. QED  BY <1>2, <1>4, <1>5, <2>1, <3>1
  <2>2. CASE i # 1
    <3>1. i - 1 \in 1..N - n /\ 1 + (i - 1) = i /\ n + (i - 1) = n + i - 1
      BY <1>1, <2>2
    <3>2. (a \o b)[1 + (i - 1)] = b[i - 1] /\ b[i - 1] = s[n + (i - 1)]
      BY <1>3, <1>5, <3>1
    <3>. QED  BY <1>4, <3>1, <3>2
  <2>. QED  BY <2>1, <2>2
<1>7. a \o b = c
  BY <1>4, <1>5, <1>6, SameSeq
<1>. QED  BY <1>7 DEF a, b, c

(* huffman_decode returns the text that was coded, character by character, and takes
   no character for the padding: for every text and every prefix-free table. *)
THEOREM HuffmanRead ==
  ASSUME NEW s \in Text
  PROVE  huffman_decode(Huffman(s)) = s
<1> DEFINE q == Huffman(s)
           bits == Bits(q)
           L == Len(bits)
           D == 1..L + 1
           N == Len(s)
           n == Len(Code(s))
           C == DOMAIN HuffSym
           coded(i) == {c \in C : CodeAt(c, bits, i)}
           pick(i) == CHOOSE c \in coded(i) : TRUE
           Solves(f) == f = [i \in D |-> IF coded(i) = {} THEN <<>>
                                         ELSE <<pick(i)>> \o f[i + Len(HuffSym[pick(i)])]]
<1>1. /\ n \in Nat /\ L \in n..n + 7 /\ L \in Nat
      /\ \A i \in 1..n : bits[i] = Code(s)[i]
      /\ \A i \in n + 1..L : bits[i] = 1
  <2>1. n \in Nat /\ L \in n..n + 7
        /\ (\A i \in 1..n : bits[i] = Code(s)[i]) /\ (\A i \in n + 1..L : bits[i] = 1)
    BY HuffmanIs
  <2> HIDE DEF n, L, bits
  <2>. QED  BY <2>1
<1>2. s \in Seq(C) /\ N \in Nat /\ \A j \in 1..N : s[j] \in C
  BY LenIs DEF Text
<1> HIDE DEF q, bits, n
<1>3. ASSUME NEW i \in D, coded(i) # {}
      PROVE  pick(i) \in coded(i) /\ i + Len(HuffSym[pick(i)]) \in D /\ Len(HuffSym[pick(i)]) \in Nat \ {0}
  <2>1. pick(i) \in coded(i)
    <3> HIDE DEF coded
    <3>. QED  BY <1>3
  <2> HIDE DEF pick
  <2>2. Len(HuffSym[pick(i)]) \in Nat \ {0} /\ i + Len(HuffSym[pick(i)]) - 1 <= L
    BY <2>1, Codes DEF CodeAt
  <2>. QED  BY <1>1, <2>1, <2>2
<1>4. \E f : Solves(f)
  <2> DEFINE V == Seq(C)
             given == {i \in D : coded(i) = {}}
             value == [i \in D |-> <<>>]
             rank == [i \in D |-> L + 1 - i]
             previous == [i \in D \ given |-> i + Len(HuffSym[pick(i)])]
             step == [i \in D \ given |-> [t \in V |-> <<pick(i)>> \o t]]
  <2>0. L + 1 \in Nat
    BY <1>1
  <2>1. ASSUME NEW i \in D \ given
        PROVE  previous[i] \in D /\ rank[previous[i]] < rank[i] /\ pick(i) \in C
    <3>1. i \in D /\ coded(i) # {}
      OBVIOUS
    <3>2. pick(i) \in C
      BY <1>3, <3>1
    <3> DEFINE m == Len(HuffSym[pick(i)])
    <3> HIDE DEF coded, pick
    <3>3. i + m \in D /\ m \in Nat \ {0}
      BY <1>3, <3>1
    <3> HIDE DEF m
    <3>4. rank[i + m] = L + 1 - (i + m) /\ rank[i] = L + 1 - i
      BY <3>3
    <3>5. rank[i + m] < rank[i]
      BY <1>1, <3>3, <3>4
    <3>6. previous[i] = i + m
      BY DEF m
    <3> HIDE DEF previous, rank, D
    <3>. QED  BY <3>2, <3>3, <3>5, <3>6
  <2>2. Recurs(D, V, given, value, L + 1, rank, previous, step)
    <3>1. previous \in [D \ given -> D] /\ \A d \in D \ given : rank[previous[d]] < rank[d]
      <4> DEFINE next(i) == i + Len(HuffSym[pick(i)])
      <4>1. previous = [i \in D \ given |-> next(i)]
        OBVIOUS
      <4> HIDE DEF D, given, rank, next, previous
      <4>2. \A i \in D \ given : previous[i] \in D /\ rank[previous[i]] < rank[i]
        BY <2>1
      <4>. QED  BY <4>1, <4>2
    <3>2. step \in [D \ given -> [V -> V]]
      <4>1. ASSUME NEW i \in D \ given, NEW t \in V PROVE <<pick(i)>> \o t \in V
        <5>1. <<pick(i)>> \in Seq(C)
          <6>1. pick(i) \in C
            BY <2>1
          <6> HIDE DEF pick, C
          <6>. QED  BY <6>1
        <5> HIDE DEF pick, C
        <5>. QED  BY <5>1, Joined
      <4> HIDE DEF D, V, given, pick
      <4>. QED  BY <4>1
    <3>3. value \in [D -> V] /\ given \subseteq D
      <4> HIDE DEF D, coded
      <4>. QED  OBVIOUS
    <3>4. rank \in [D -> 0..L + 1]
      BY <1>1
    <3> HIDE DEF D, V, given, value, rank, previous, step
    <3>. QED  BY <2>0, <3>1, <3>2, <3>3, <3>4 DEF Recurs
  <2>3. PICK f : Solution(f, D, V, given, value, previous, step)
    <3> HIDE DEF D, V, given, value, rank, previous, step
    <3>. QED  BY <2>2, Recursion
  <2>4. f \in [D -> V] /\ (\A i \in given : f[i] = value[i])
        /\ \A i \in D \ given : f[i] = step[i][f[previous[i]]]
    <3> HIDE DEF D, V, given, value, previous, step
    <3>. QED  BY <2>3 DEF Solution
  <2>5. \A i \in given : f[i] = <<>>
    <3> HIDE DEF D, coded
    <3>. QED  BY <2>4
  <2>6. ASSUME NEW i \in D \ given PROVE f[i] = <<pick(i)>> \o f[i + Len(HuffSym[pick(i)])]
    <3>1. previous[i] = i + Len(HuffSym[pick(i)]) /\ previous[i] \in D
      BY <2>1
    <3>2. step[i] = [t \in V |-> <<pick(i)>> \o t]
      <4> HIDE DEF D, V, given, pick
      <4>. QED  OBVIOUS
    <3> HIDE DEF D, V, given, pick, previous, step
    <3>3. f[previous[i]] \in V
      BY <2>4, <3>1
    <3>. QED  BY <2>4, <3>1, <3>2, <3>3
  <2>7. Solves(f)
    <3> DEFINE rhs(i) == <<pick(i)>> \o f[i + Len(HuffSym[pick(i)])]
    <3>1. \A i \in D : coded(i) = {} => f[i] = <<>>
      BY <2>5
    <3>2. \A i \in D : coded(i) # {} => f[i] = rhs(i)
      BY <2>6
    <3>3. f = [i \in D |-> f[i]]
      <4> HIDE DEF D, V
      <4>. QED  BY <2>4
    <3> HIDE DEF rhs, D, coded
    <3>4. f = [i \in D |-> IF coded(i) = {} THEN <<>> ELSE rhs(i)]
      BY <3>1, <3>2, <3>3
    <3>. QED  BY <3>4 DEF rhs
  <2>. QED  BY <2>7
<1>5. PICK g : Solves(g) /\ huffman_decode(q) = g[1]
  <2>1. Solves(CHOOSE f : Solves(f))
    <3> HIDE DEF Solves
    <3>. QED  BY <1>4, Zenon
  <2>2. huffman_decode(q) = (CHOOSE f : Solves(f))[1]
    BY Zenon DEF huffman_decode, bits
  <2> HIDE DEF Solves
  <2>. QED  BY <2>1, <2>2
<1>6. /\ \A i \in D : coded(i) = {} => g[i] = <<>>
      /\ \A i \in D : \A c \in C : coded(i) = {c} => g[i] = <<c>> \o g[i + Len(HuffSym[c])]
  <2>1. \A i \in D : g[i] = IF coded(i) = {} THEN <<>>
                            ELSE <<pick(i)>> \o g[i + Len(HuffSym[pick(i)])]
    <3> HIDE DEF D, coded, pick
    <3>. QED  BY <1>5
  <2>2. \A i \in D : \A c \in C : coded(i) = {c} => pick(i) = c
    <3> HIDE DEF D, coded
    <3>. QED  OBVIOUS
  <2> HIDE DEF D, coded, pick, C
  <2>. QED  BY <2>1, <2>2
<1> DEFINE parts == CodeParts(s)
<1>7. PICK h : Flattens(h, parts, {0, 1}) /\ Code(s) = h[N]
  BY CodeIs
<1>8. /\ parts \in Seq(Seq({0, 1})) /\ Len(parts) = N
      /\ \A j \in 1..N : parts[j] = HuffSym[s[j]]
  BY CodeIs
<1> HIDE DEF parts
<1> DEFINE pos(j) == 1 + Len(h[j])
<1>9. ASSUME NEW j \in 1..N
      PROVE  /\ pos(j - 1) \in D /\ pos(j - 1) + Len(HuffSym[s[j]]) = pos(j) /\ pos(j) \in D
             /\ coded(pos(j - 1)) = {s[j]}
  <2>1. PartAt(h, parts, j)
    BY <1>7, <1>8, FlatAt
  <2>2. /\ Len(h[j]) = Len(h[j - 1]) + Len(HuffSym[s[j]]) /\ Len(h[j - 1]) \in Nat
        /\ Len(h[j]) <= n
        /\ \A k \in 1..Len(HuffSym[s[j]]) : Code(s)[Len(h[j - 1]) + k] = HuffSym[s[j]][k]
    BY <1>7, <1>8, <2>1 DEF PartAt, n
  <2> DEFINE a == Len(h[j - 1])
             m == Len(HuffSym[s[j]])
             b == Len(h[j])
  <2>3. m \in Nat /\ a \in Nat /\ b = a + m /\ b <= n /\ s[j] \in C
    BY <1>2, <2>2, Codes
  <2>4. \A k \in 1..m : Code(s)[a + k] = HuffSym[s[j]][k]
    BY <2>2
  <2> HIDE DEF a, b, m, C
  <2>5. 1 + a \in D /\ 1 + a + m = 1 + b /\ 1 + b \in D
    BY <1>1, <2>3
  <2>6. (1 + a) + m - 1 <= L
    BY <1>1, <2>3
  <2>7. ASSUME NEW k \in 1..m PROVE bits[(1 + a) + k - 1] = HuffSym[s[j]][k]
    <3>1. (1 + a) + k - 1 = a + k /\ a + k \in 1..n
      BY <1>1, <2>3
    <3>2. bits[a + k] = Code(s)[a + k]
      BY <1>1, <3>1
    <3>. QED  BY <2>4, <3>1, <3>2
  <2>8. CodeAt(s[j], bits, 1 + a)
    BY <2>6, <2>7 DEF CodeAt, m
  <2>9. coded(1 + a) = {s[j]}
    <3>1. 1 + a \in Nat
      BY <2>3
    <3>2. \A c \in C : CodeAt(c, bits, 1 + a) => c = s[j]
      BY <2>3, <2>8, <3>1, OneCode DEF C
    <3>. QED  BY <2>3, <2>8, <3>2
  <2> HIDE DEF D, coded
  <2>. QED  BY <2>5, <2>9 DEF a, b, m
<1>10. /\ pos(N) = n + 1 /\ n + 1 \in D /\ pos(0) = 1
  BY <1>1, <1>7 DEF Flattens, n
<1>11. coded(n + 1) = {}
  <2>1. n + 1 \in Nat /\ L < n + 1 + 7
    BY <1>1
  <2>2. \A c \in C : ~CodeAt(c, bits, n + 1)
    BY <1>1, <2>1, NoCode
  <2>. QED  BY <2>2
<1> HIDE DEF coded, D
<1> DEFINE S == {k \in 1..N + 1 : g[pos(k - 1)] = SubSeq(s, k, N)}
<1>12. 1..N + 1 \subseteq S
  <2>1. ASSUME NEW k \in 1..N + 1, \A j \in k + 1..N + 1 : j \in S PROVE k \in S
    <3>1. CASE k = N + 1
      <4>1. g[n + 1] = <<>> /\ k - 1 = N
        BY <1>2, <1>6, <1>10, <1>11, <3>1
      <4>2. SubSeq(s, N + 1, N) = <<>>
        BY <1>2
      <4>. QED  BY <1>10, <3>1, <4>1, <4>2
    <3>2. CASE k # N + 1
      <4>1. k \in 1..N /\ k + 1 \in k + 1..N + 1 /\ (k + 1) - 1 = k
        BY <1>2, <3>2
      <4>2. g[pos(k - 1)] = <<s[k]>> \o g[pos(k)]
        <5>1. /\ pos(k - 1) \in D /\ pos(k - 1) + Len(HuffSym[s[k]]) = pos(k)
              /\ coded(pos(k - 1)) = {s[k]} /\ s[k] \in C
          BY <1>2, <1>9, <4>1
        <5> HIDE DEF pos
        <5>. QED  BY <1>6, <5>1
      <4>3. g[pos(k)] = SubSeq(s, k + 1, N)
        <5>1. k + 1 \in S
          BY <2>1, <4>1
        <5>. QED  BY <4>1, <5>1
      <4>4. <<s[k]>> \o SubSeq(s, k + 1, N) = SubSeq(s, k, N)
        BY <1>2, <4>1, RestIs
      <4> HIDE DEF pos
      <4>. QED  BY <4>2, <4>3, <4>4
    <3>. QED  BY <3>1, <3>2
  <2>2. N + 1 \in Nat
    BY <1>2
  <2> HIDE DEF S
  <2>. QED  BY <2>1, <2>2, FromTheEnd
<1>13. g[1] = SubSeq(s, 1, N)
  <2>1. 1 \in S /\ 1 - 1 = 0
    <3>1. 1 \in 1..N + 1
      BY <1>2
    <3> HIDE DEF S
    <3>. QED  BY <1>12, <3>1
  <2>2. g[pos(1 - 1)] = SubSeq(s, 1, N)
    BY <2>1
  <2> HIDE DEF pos
  <2>. QED  BY <1>10, <2>1, <2>2
<1>14. SubSeq(s, 1, N) = s
  <2>1. N \in 0..N
    BY <1>2
  <2>2. SubSeq(s, 1, N) \in Seq(C) /\ Len(SubSeq(s, 1, N)) = N /\ \A i \in 1..N : SubSeq(s, 1, N)[i] = s[i]
    BY <1>2, <2>1, HeadIs
  <2>. QED  BY <1>2, <2>2, SameSeq
<1>. QED  BY <1>5, <1>13, <1>14 DEF q

-----------------------------------------------------------------------------
(* Strings and fields. *)

LEMMA TextOctets ==
  ASSUME NEW s \in Text
  PROVE  s \in Seq(0..255) /\ Len(s) \in Nat
<1>1. Len(s) \in Nat /\ \A i \in 1..Len(s) : s[i] \in 0..255
  BY BlockAssumption, LenIs DEF Text
<1>2. s = [i \in 1..Len(s) |-> s[i]]
  BY DEF Text
<1> DEFINE n == Len(s)
<1> HIDE DEF n
<1>3. n \in Nat /\ s \in [1..n -> 0..255]
  BY <1>1, <1>2 DEF n
<1>4. s \in Seq(0..255) /\ Len(s) = n
  BY <1>3, SeqFrom
<1>. QED  BY <1>3, <1>4

(* The octets behind the length of a string. *)
Body(s, huffman) == IF huffman THEN Huffman(s) ELSE s
Mark(huffman) == IF huffman THEN 128 ELSE 0

Halves(s, huffman, w, body) ==
  /\ body \in Seq(0..255) /\ Len(body) \in Nat /\ <<Mark(huffman), 7>> \in Kinds
  /\ String(s, huffman) = w \o body
  /\ w \in Seq(0..255) /\ Len(w) >= 1 /\ (w[1] >= 128 <=> huffman)
  /\ String(s, huffman) \in Seq(0..255) /\ Len(String(s, huffman)) = Len(w) + Len(body)

LEMMA StringIs ==
  ASSUME NEW s \in Text, NEW huffman \in BOOLEAN
  PROVE  Halves(s, huffman, Written(Mark(huffman), 7, Len(Body(s, huffman))), Body(s, huffman))
<1> DEFINE body == Body(s, huffman)
           w == Written(Mark(huffman), 7, Len(body))
<1>1. body \in Seq(0..255) /\ Len(body) \in Nat
  <2>1. body \in Seq(0..255)
    BY TextOctets, HuffmanIs DEF Body
  <2> HIDE DEF body
  <2>. QED  BY <2>1
<1>2. <<Mark(huffman), 7>> \in Kinds /\ String(s, huffman) = w \o body
  BY DEF Mark, Kinds, String, Body
<1> HIDE DEF body
<1>3. /\ w \in Seq(0..255) /\ Len(w) >= 1
      /\ w[1] = Mark(huffman) + (IF Len(body) < 2^7 - 1 THEN Len(body) ELSE 2^7 - 1)
  <2> DEFINE fl == Mark(huffman)
             pr == 7
             n == Len(body)
  <2>1. <<fl, pr>> \in Kinds /\ n \in Nat
    BY <1>1, <1>2
  <2> HIDE DEF fl, pr, n
  <2>2. LET mask == 2^pr - 1
            u == Written(fl, pr, n) IN
        /\ u \in Seq(0..255) /\ Len(u) >= 1
        /\ u[1] = fl + (IF n < mask THEN n ELSE mask)
    BY <2>1, WrittenIs
  <2>. QED  BY <2>2 DEF fl, pr, n
<1>4. w[1] >= 128 <=> huffman
  <2> DEFINE x == w[1]
             n == Len(body)
  <2>1. n \in Nat /\ x = Mark(huffman) + (IF n < 128 - 1 THEN n ELSE 128 - 1)
    BY <1>1, <1>3, Powers
  <2> HIDE DEF x, n
  <2>2. x >= 128 <=> huffman
    BY <2>1 DEF Mark
  <2>. QED  BY <2>2 DEF x
<1> HIDE DEF w
<1>5. w \o body \in Seq(0..255) /\ Len(w \o body) = Len(w) + Len(body)
  BY <1>1, <1>3, Joined
<1>6. Halves(s, huffman, w, body)
  BY <1>1, <1>2, <1>3, <1>4, <1>5 DEF Halves
<1>. QED  BY <1>6 DEF body, w

LEMMA StringOctets ==
  ASSUME NEW s \in Text, NEW huffman \in BOOLEAN
  PROVE  String(s, huffman) \in Seq(0..255)
<1> DEFINE body == Body(s, huffman)
           w == Written(Mark(huffman), 7, Len(body))
<1>1. Halves(s, huffman, w, body)
  BY StringIs
<1>. QED  BY <1>1 DEF Halves

(* What decode_int says of the string that begins at the p-th octet of d: it has the
   octets whole, body behind their length. *)
StringAt(len, d, p, whole, body, huffman) ==
  /\ len.ok /\ len.value = Len(body)
  /\ len.next + len.value = p + Len(whole)
  /\ len.next + len.value <= Len(d) + 1
  /\ SubSeq(d, len.next, len.next + len.value - 1) = body
  /\ p <= Len(d) /\ (d[p] >= 128 <=> huffman)

LEMMA StringRead ==
  ASSUME NEW d \in Seq(0..255), NEW p, NEW s \in Text, NEW huffman \in BOOLEAN,
         Len(Body(s, huffman)) <= IntMax, LiesIn(String(s, huffman), d, p)
  PROVE  StringAt(decode_int(d, p, 7), d, p, String(s, huffman), Body(s, huffman), huffman)
<1> DEFINE body == Body(s, huffman)
           w == Written(Mark(huffman), 7, Len(body))
           len == decode_int(d, p, 7)
           v == String(s, huffman)
<1>1. /\ body \in Seq(0..255) /\ Len(body) \in Nat /\ <<Mark(huffman), 7>> \in Kinds
      /\ v = w \o body
      /\ w \in Seq(0..255) /\ Len(w) >= 1 /\ (w[1] >= 128 <=> huffman)
      /\ Len(v) = Len(w) + Len(body)
  <2>1. Halves(s, huffman, w, body)
    BY StringIs
  <2>. QED  BY <2>1 DEF Halves
<1>2. Len(body) \in 0..IntMax
  BY <1>1, IntegerAssumption
<1> HIDE DEF body, v
<1>3. LiesIn(w, d, p) /\ LiesIn(body, d, p + Len(w))
  <2> HIDE DEF w
  <2>1. LiesIn(w \o body, d, p)
    BY <1>1 DEF v
  <2>. QED  BY <1>1, <2>1, PartsLie
<1>4. len = [ok |-> TRUE, value |-> Len(body), next |-> p + Len(w)]
  BY <1>1, <1>2, <1>3, IntegerRead
<1> HIDE DEF w, len
<1>5. Len(w) \in Nat /\ Len(d) \in Nat /\ p \in Nat \ {0} /\ p + Len(w) <= Len(d) + 1
      /\ (\A k \in 1..Len(w) : d[p + k - 1] = w[k])
      /\ (p + Len(w)) + Len(body) <= Len(d) + 1
      /\ \A k \in 1..Len(body) : d[(p + Len(w)) + k - 1] = body[k]
  BY <1>1, <1>3 DEF LiesIn
<1>6. p <= Len(d) /\ d[p] = w[1]
  <2>1. 1 \in 1..Len(w) /\ p + 1 - 1 = p /\ p <= Len(d)
    BY <1>1, <1>5
  <2>. QED  BY <1>5, <2>1
<1>7. SubSeq(d, p + Len(w), p + Len(w) + Len(body) - 1) = body
  <2> DEFINE m == p + Len(w)
             n == m + Len(body) - 1
             t == SubSeq(d, m, n)
  <2> DEFINE B == 0..255
  <2>1. m \in 1..Len(d) + 1 /\ n \in m - 1..Len(d) /\ n + 1 - m = Len(body)
    BY <1>1, <1>5
  <2>0. d \in Seq(B) /\ body \in Seq(B)
    BY <1>1
  <2>2. \A k \in 1..Len(body) : d[m + k - 1] = body[k]
    BY <1>5
  <2> HIDE DEF m, n, B
  <2>3. t \in Seq(B) /\ Len(t) = n + 1 - m /\ \A k \in 1..n + 1 - m : t[k] = d[m + k - 1]
    BY <2>0, <2>1, SubSeqIs
  <2> HIDE DEF t
  <2>4. t = body
    BY <2>0, <2>1, <2>2, <2>3, SameSeq
  <2>. QED  BY <2>4 DEF t, n, m
<1>8. /\ len.ok /\ len.value = Len(body)
      /\ len.next + len.value = p + Len(v)
      /\ len.next + len.value <= Len(d) + 1
      /\ SubSeq(d, len.next, len.next + len.value - 1) = body
  <2>1. len.ok /\ len.value = Len(body) /\ len.next = p + Len(w)
    BY <1>4
  <2>2. (p + Len(w)) + Len(body) = p + Len(v)
    BY <1>1, <1>5
  <2>. QED  BY <1>5, <1>7, <2>1, <2>2
<1>. QED  BY <1>1, <1>6, <1>8 DEF len, v, body, StringAt

IsLiteral(f) == f.rep \in {"incremental", "without", "never"}

LEMMA FieldIs ==
  ASSUME NEW f \in Fields
  PROVE  \/ f.rep = "indexed" /\ f.index \in 0..IntMax /\ f.index # 0
         \/ f.rep = "resize"
         \/ /\ IsLiteral(f) /\ f.index \in 0..IntMax
            /\ f.name \in Text /\ f.name_huffman \in BOOLEAN
            /\ f.value \in Text /\ f.huffman \in BOOLEAN
            /\ Len(Body(f.name, f.name_huffman)) <= IntMax
            /\ Len(Body(f.value, f.huffman)) <= IntMax
<1>1. f \in Field
  BY BlockAssumption
<1>2. /\ f.rep # "resize" => f.index <= IntMax
      /\ f.rep \notin {"indexed", "resize"} => \A s \in {f.name, f.value} :
           Len(s) <= IntMax /\ Len(Huffman(s)) <= IntMax
  BY BlockAssumption
<1>3. IntMax \in Nat
  BY IntegerAssumption
<1>4. CASE f.rep = "indexed"
  <2>1. f.index \in Nat \ {0}
    BY <1>1, <1>4 DEF Field
  <2>. QED  BY <1>2, <1>3, <1>4, <2>1
<1>5. CASE f.rep \notin {"indexed", "resize"}
  <2>1. /\ IsLiteral(f) /\ f.index \in Nat /\ f.name \in Text /\ f.name_huffman \in BOOLEAN
        /\ f.value \in Text /\ f.huffman \in BOOLEAN
    BY <1>1, <1>5 DEF Field, IsLiteral
  <2>2. /\ Len(f.name) <= IntMax /\ Len(Huffman(f.name)) <= IntMax
        /\ Len(f.value) <= IntMax /\ Len(Huffman(f.value)) <= IntMax
    BY <1>2, <1>5
  <2>3. f.index \in 0..IntMax
    BY <1>2, <1>3, <1>5, <2>1
  <2>. QED  BY <2>1, <2>2, <2>3 DEF Body
<1>. QED  BY <1>4, <1>5

(* The three parts of a literal. *)
Index(f) == Written(Flags[f.rep], Prefix[f.rep], f.index)
NamePart(f) == IF f.index = 0 THEN String(f.name, f.name_huffman) ELSE <<>>
ValuePart(f) == String(f.value, f.huffman)

Parts(f, a, b, c) ==
  /\ Octets(f) = (a \o b) \o c
  /\ a \in Seq(0..255) /\ b \in Seq(0..255) /\ c \in Seq(0..255)
  /\ Len(a) >= 1
  /\ f.rep = "incremental" => a[1] \in 64..127
  /\ f.rep = "without" => a[1] \in 0..15
  /\ f.rep = "never" => a[1] \in 16..31

LEMMA LiteralIs ==
  ASSUME NEW f \in Fields, IsLiteral(f)
  PROVE  /\ Parts(f, Index(f), NamePart(f), ValuePart(f))
         /\ <<Flags[f.rep], Prefix[f.rep]>> \in Kinds
         /\ f.rep = "incremental" => Prefix[f.rep] = 6
         /\ f.rep = "without" => Prefix[f.rep] = 4
<1>1. /\ f.index \in Nat /\ f.name \in Text /\ f.name_huffman \in BOOLEAN
      /\ f.value \in Text /\ f.huffman \in BOOLEAN
  BY FieldIs DEF IsLiteral
<1>2. Octets(f) = (Index(f) \o NamePart(f)) \o ValuePart(f)
  BY DEF Octets, IsLiteral, Index, NamePart, ValuePart
<1>3. NamePart(f) \in Seq(0..255) /\ ValuePart(f) \in Seq(0..255)
  <2>1. ValuePart(f) \in Seq(0..255)
    BY <1>1, StringOctets DEF ValuePart
  <2>2. String(f.name, f.name_huffman) \in Seq(0..255) /\ <<>> \in Seq(0..255)
    BY <1>1, StringOctets
  <2>. QED  BY <2>1, <2>2 DEF NamePart
<1>4. /\ f.rep = "incremental" => Flags[f.rep] = 64 /\ Prefix[f.rep] = 6
      /\ f.rep = "without" => Flags[f.rep] = 0 /\ Prefix[f.rep] = 4
      /\ f.rep = "never" => Flags[f.rep] = 16 /\ Prefix[f.rep] = 4
  BY DEF Flags, Prefix
<1>5. <<Flags[f.rep], Prefix[f.rep]>> \in Kinds
  BY <1>4 DEF IsLiteral, Kinds
<1> DEFINE fl == Flags[f.rep]
           pr == Prefix[f.rep]
           w == Written(fl, pr, f.index)
<1>6. /\ w \in Seq(0..255) /\ Len(w) >= 1
      /\ w[1] = fl + (IF f.index < 2^pr - 1 THEN f.index ELSE 2^pr - 1)
  <2> HIDE DEF fl, pr
  <2>1. <<fl, pr>> \in Kinds
    BY <1>5 DEF fl, pr
  <2>. QED  BY <1>1, <2>1, WrittenIs
<1> HIDE DEF w
<1>7. /\ f.rep = "incremental" => w[1] \in 64..127
      /\ f.rep = "without" => w[1] \in 0..15
      /\ f.rep = "never" => w[1] \in 16..31
  <2> DEFINE x == w[1]
             k == f.index
  <2>1. k \in Nat /\ x = fl + (IF k < 2^pr - 1 THEN k ELSE 2^pr - 1)
    BY <1>1, <1>6
  <2> HIDE DEF x, k
  <2>2. CASE f.rep = "incremental"
    <3>1. fl = 64 /\ 2^pr = 64
      BY <1>4, <2>2, Powers
    <3> HIDE DEF fl, pr
    <3>. QED  BY <2>1, <2>2, <3>1 DEF x
  <2>3. CASE f.rep = "without"
    <3>1. fl = 0 /\ 2^pr = 16
      BY <1>4, <2>3, Powers
    <3> HIDE DEF fl, pr
    <3>. QED  BY <2>1, <2>3, <3>1 DEF x
  <2>4. CASE f.rep = "never"
    <3>1. fl = 16 /\ 2^pr = 16
      BY <1>4, <2>4, Powers
    <3> HIDE DEF fl, pr
    <3>. QED  BY <2>1, <2>4, <3>1 DEF x
  <2>. QED  BY <2>2, <2>3, <2>4
<1>8. Parts(f, Index(f), NamePart(f), ValuePart(f))
  <2> DEFINE b == NamePart(f)
             c == ValuePart(f)
  <2>1. Index(f) = w
    BY DEF w, Index
  <2> HIDE DEF b, c
  <2>2. Parts(f, w, b, c)
    BY <1>2, <1>3, <1>6, <1>7, <2>1 DEF Parts, b, c
  <2>. QED  BY <2>1, <2>2 DEF b, c
<1>. QED  BY <1>4, <1>5, <1>8

LEMMA OctetsIs ==
  ASSUME NEW f \in Fields
  PROVE  Octets(f) \in Seq(0..255)
<1>1. CASE f.rep = "indexed"
  <2>1. <<128, 7>> \in Kinds /\ f.index \in Nat
    BY <1>1, FieldIs DEF Kinds, IsLiteral
  <2>2. Octets(f) = Written(128, 7, f.index)
    BY <1>1 DEF Octets
  <2> DEFINE fl == 128
             pr == 7
             n == f.index
  <2> HIDE DEF fl, pr, n
  <2>3. <<fl, pr>> \in Kinds /\ n \in Nat
    BY <2>1 DEF fl, pr, n
  <2>4. Written(fl, pr, n) \in Seq(0..255)
    BY <2>3, WrittenIs
  <2>. QED  BY <2>2, <2>4 DEF fl, pr, n
<1>2. CASE f.rep = "resize"
  <2>1. Octets(f) = <<32>>
    BY <1>2, Powers DEF Octets, Written
  <2>. QED  BY <2>1
<1>3. CASE IsLiteral(f)
  <2> DEFINE a == Index(f)
             b == NamePart(f)
             c == ValuePart(f)
  <2>0. Parts(f, a, b, c)
    BY <1>3, LiteralIs
  <2> HIDE DEF a, b, c
  <2>1. a \in Seq(0..255) /\ b \in Seq(0..255) /\ c \in Seq(0..255) /\ Octets(f) = (a \o b) \o c
    BY <2>0 DEF Parts
  <2>2. a \o b \in Seq(0..255)
    BY <2>1, Joined
  <2>3. (a \o b) \o c \in Seq(0..255)
    BY <2>1, <2>2, Joined
  <2>. QED  BY <2>1, <2>3
<1>. QED  BY <1>1, <1>2, <1>3, FieldIs

-----------------------------------------------------------------------------
(* The block: where its fields are in the octets. *)

LEMMA FlatFirst ==
  ASSUME NEW S, NEW parts \in Seq(Seq(S)), NEW h, Flattens(h, parts, S),
         NEW n \in 0..Len(parts)
  PROVE  FlattenSeq([j \in 1..n |-> parts[j]]) = h[n]
<1> DEFINE first == [j \in 1..n |-> parts[j]]
           T == Seq(S)
<1>1. Len(parts) \in Nat /\ \A j \in 1..Len(parts) : parts[j] \in T
  <2> HIDE DEF T
  <2>. QED  BY LenIs DEF T
<1>2. n \in Nat /\ 1..n \subseteq 1..Len(parts)
  BY <1>1
<1>3. first \in Seq(T) /\ Len(first) = n
  <2> HIDE DEF T
  <2>1. first \in [1..n -> T]
    BY <1>1, <1>2
  <2> HIDE DEF first
  <2>. QED  BY <1>2, <2>1, SeqFrom
<1>4. \A j \in 1..n : first[j] = parts[j]
  OBVIOUS
<1> HIDE DEF first
<1>5. PICK g : Flattens(g, first, S) /\ FlattenSeq(first) = g[Len(first)]
  BY <1>3, FlatIs
<1> DEFINE W == {k \in 0..n : g[k] = h[k]}
<1>6. 0 \in W
  BY <1>2, <1>5 DEF Flattens
<1>7. \A k \in 0..n - 1 : k \in W => k + 1 \in W
  <2> SUFFICES ASSUME NEW k \in 0..n - 1, k \in W PROVE k + 1 \in W
    OBVIOUS
  <2>0. g[k] = h[k] /\ k + 1 \in 0..n
    BY <1>2
  <2>1. k + 1 \in 1..n /\ k + 1 \in 1..Len(parts) /\ (k + 1) - 1 = k
    BY <1>1, <1>2
  <2>2. g[k + 1] = g[k] \o first[k + 1] /\ h[k + 1] = h[k] \o parts[k + 1]
    BY <1>3, <1>5, <2>1 DEF Flattens
  <2>3. g[k + 1] = h[k + 1]
    BY <1>4, <2>0, <2>1, <2>2
  <2>. QED  BY <2>0, <2>3
<1>8. n \in W
  <2> HIDE DEF W
  <2>1. 0..n \subseteq W
    BY <1>2, <1>6, <1>7, Upwards
  <2>. QED  BY <1>2, <2>1
<1>. QED  BY <1>3, <1>5, <1>8 DEF first

Whole ==
  /\ block \in Blocks /\ wanted \in {Path, Method}
  /\ data = FlattenSeq([i \in DOMAIN block |-> Octets(block[i])])

LEMMA FieldPlaces ==
  ASSUME Whole
  PROVE  /\ Len(block) \in Nat /\ DOMAIN block = 1..Len(block)
         /\ data \in Seq(0..255) /\ Len(data) \in Nat
         /\ FieldStart(1) = 1 /\ FieldStart(Len(block) + 1) = Len(data) + 1
         /\ \A i \in 1..Len(block) :
              /\ block[i] \in Fields
              /\ LiesIn(Octets(block[i]), data, FieldStart(i))
              /\ FieldStart(i + 1) = FieldStart(i) + Len(Octets(block[i]))
<1>1. PICK n \in 1..MaxFields : block \in [1..n -> Fields]
  BY DEF Whole, Blocks
<1>2. n \in Nat /\ DOMAIN block = 1..n /\ Len(block) = n /\ \A i \in 1..n : block[i] \in Fields
  <2>1. n \in Nat
    BY BlockAssumption
  <2>. QED  BY <1>1, <2>1, SeqFrom
<1> DEFINE O == Seq(0..255)
           parts == [i \in 1..n |-> Octets(block[i])]
<1>3. parts \in [1..n -> O]
  <2>1. \A i \in 1..n : Octets(block[i]) \in O
    BY <1>2, OctetsIs
  <2> HIDE DEF O
  <2>. QED  BY <2>1
<1>4. \A i \in 1..n : parts[i] = Octets(block[i])
  OBVIOUS
<1>5. data = FlattenSeq(parts)
  BY <1>2 DEF Whole
<1>6. \A i \in 1..n + 1 : [j \in 1..i - 1 |-> Octets(block[j])] = [j \in 1..i - 1 |-> parts[j]]
  <2> SUFFICES ASSUME NEW i \in 1..n + 1
                PROVE  [j \in 1..i - 1 |-> Octets(block[j])] = [j \in 1..i - 1 |-> parts[j]]
    OBVIOUS
  <2>1. \A j \in 1..i - 1 : j \in 1..n
    BY <1>2
  <2>2. \A j \in 1..i - 1 : Octets(block[j]) = parts[j]
    BY <1>4, <2>1
  <2> HIDE DEF parts
  <2>. QED  BY <2>2
<1> HIDE DEF parts
<1>7. parts \in Seq(O) /\ Len(parts) = n
  <2> HIDE DEF O
  <2>. QED  BY <1>2, <1>3, SeqFrom
<1>8. PICK h : Flattens(h, parts, 0..255) /\ FlattenSeq(parts) = h[n]
  BY <1>7, FlatIs
<1>9. \A i \in 1..n + 1 : FieldStart(i) = 1 + Len(h[i - 1])
  <2> TAKE i \in 1..n + 1
  <2> DEFINE m == i - 1
  <2>1. m \in 0..Len(parts)
    BY <1>2, <1>7
  <2>2. FlattenSeq([j \in 1..m |-> parts[j]]) = h[m]
    <3> HIDE DEF m
    <3> DEFINE B == 0..255
    <3> HIDE DEF B
    <3>1. parts \in Seq(Seq(B)) /\ Flattens(h, parts, B)
      BY <1>7, <1>8 DEF B
    <3>. QED  BY <2>1, <3>1, FlatFirst
  <2>. QED  BY <1>6, <2>2 DEF FieldStart
<1>10. h[0] = <<>> /\ h \in [0..n -> O]
  BY <1>7, <1>8 DEF Flattens
<1>11. data = h[n] /\ data \in O /\ Len(data) \in Nat
  <2>1. n \in 0..n
    BY <1>2
  <2>2. data = h[n] /\ data \in O
    BY <1>5, <1>8, <1>10, <2>1
  <2>. QED  BY <2>2, LenIs
<1>12. FieldStart(1) = 1
  <2>1. 1 \in 1..n + 1 /\ 1 - 1 = 0 /\ Len(<<>>) = 0
    BY <1>2
  <2>. QED  BY <1>9, <1>10, <2>1
<1>13. FieldStart(n + 1) = Len(data) + 1
  <2>1. n + 1 \in 1..n + 1 /\ (n + 1) - 1 = n
    BY <1>2
  <2>. QED  BY <1>9, <1>11, <2>1
<1>14. ASSUME NEW i \in 1..n
       PROVE  /\ LiesIn(Octets(block[i]), data, FieldStart(i))
              /\ FieldStart(i + 1) = FieldStart(i) + Len(Octets(block[i]))
  <2> DEFINE a == Len(h[i - 1])
             b == Len(h[i])
             s == parts[i]
             l == Len(s)
  <2>1. /\ b = a + l /\ a \in Nat /\ b <= Len(data)
        /\ \A p \in 1..l : data[a + p] = s[p]
    <3>1. i \in 1..Len(parts)
      BY <1>7
    <3>2. PartAt(h, parts, i)
      BY <1>7, <1>8, <3>1, FlatAt
    <3>. QED  BY <1>7, <1>11, <3>2 DEF PartAt
  <2>2. l \in Nat
    <3>1. s \in O
      BY <1>3
    <3> HIDE DEF s
    <3>. QED  BY <3>1, LenIs
  <2>3. FieldStart(i) = 1 + a /\ FieldStart(i + 1) = 1 + b
    <3>1. i \in 1..n + 1 /\ i + 1 \in 1..n + 1 /\ (i + 1) - 1 = i
      BY <1>2
    <3>. QED  BY <1>9, <3>1
  <2> DEFINE p == 1 + a
  <2>4. LiesIn(s, data, p)
    <3> HIDE DEF a, b, s
    <3>1. p \in Nat \ {0} /\ p + l <= Len(data) + 1
      BY <1>11, <2>1, <2>2
    <3>2. \A k \in 1..l : p + k - 1 = a + k
      BY <2>1, <2>2
    <3> HIDE DEF p
    <3>3. \A k \in 1..l : data[p + k - 1] = s[k]
      BY <2>1, <3>2
    <3>. QED  BY <3>1, <3>3 DEF LiesIn
  <2>5. 1 + b = (1 + a) + l
    <3> HIDE DEF a, b, s
    <3>. QED  BY <2>1, <2>2
  <2>. QED  BY <1>4, <2>3, <2>4, <2>5
<1>. QED  BY <1>2, <1>11, <1>12, <1>13, <1>14

-----------------------------------------------------------------------------
(* One field: what the decoder makes of it. *)

(* The ranges of a first octet, by which the decoder tells representations. *)
Starts(f, octet) ==
  /\ f.rep = "indexed" => octet \in 128..255
  /\ f.rep = "resize" => octet = 32
  /\ f.rep = "incremental" => octet \in 64..127
  /\ f.rep = "without" => octet \in 0..15
  /\ f.rep = "never" => octet \in 16..31

LEMMA FirstOctet ==
  ASSUME NEW f \in Fields
  PROVE  Len(Octets(f)) >= 1 /\ Starts(f, Octets(f)[1])
<1>1. CASE f.rep = "indexed"
  <2> DEFINE fl == 128
             pr == 7
             n == f.index
             w == Written(fl, pr, n)
  <2>0. <<fl, pr>> \in Kinds /\ n \in Nat
    BY <1>1, FieldIs DEF Kinds, IsLiteral
  <2>1. n \in Nat /\ 2^pr = 128 /\ fl = 128
    BY <2>0, Powers
  <2>2. Octets(f) = w
    BY <1>1 DEF Octets
  <2> HIDE DEF fl, pr, n
  <2>3. w \in Seq(0..255) /\ Len(w) >= 1 /\ w[1] = fl + (IF n < 2^pr - 1 THEN n ELSE 2^pr - 1)
    <3>1. LET mask == 2^pr - 1
              u == Written(fl, pr, n) IN
          /\ u \in Seq(0..255) /\ Len(u) >= 1
          /\ u[1] = fl + (IF n < mask THEN n ELSE mask)
      BY <2>0, WrittenIs
    <3>. QED  BY <3>1
  <2> DEFINE x == w[1]
  <2>4. x = 128 + (IF n < 128 - 1 THEN n ELSE 128 - 1)
    BY <2>1, <2>3
  <2> HIDE DEF x
  <2>5. x \in 128..255
    BY <2>1, <2>4
  <2>. QED  BY <1>1, <2>2, <2>3, <2>5 DEF x, Starts
<1>2. CASE f.rep = "resize"
  <2>1. Octets(f) = <<32>>
    BY <1>2, Powers DEF Octets, Written
  <2>. QED  BY <1>2, <2>1 DEF Starts
<1>3. CASE IsLiteral(f)
  <2> DEFINE a == Index(f)
             b == NamePart(f)
             c == ValuePart(f)
  <2>0. Parts(f, a, b, c)
    BY <1>3, LiteralIs
  <2> HIDE DEF a, b, c
  <2>1. /\ a \in Seq(0..255) /\ b \in Seq(0..255) /\ c \in Seq(0..255)
        /\ Octets(f) = (a \o b) \o c /\ Len(a) >= 1 /\ Starts(f, a[1])
    BY <1>3, <2>0 DEF Parts, Starts, IsLiteral
  <2>2. /\ a \o b \in Seq(0..255) /\ Len(a \o b) = Len(a) + Len(b)
        /\ \A k \in 1..Len(a) : (a \o b)[k] = a[k]
    BY <2>1, Joined
  <2> DEFINE e == a \o b
  <2> HIDE DEF e
  <2>3. /\ Len(e \o c) = Len(e) + Len(c)
        /\ \A k \in 1..Len(e) : (e \o c)[k] = e[k]
    BY <2>1, <2>2, Joined DEF e
  <2>4. Len(a) \in Nat /\ Len(b) \in Nat /\ Len(c) \in Nat
    BY <2>1, LenIs
  <2>5. 1 \in 1..Len(a) /\ 1 \in 1..Len(e) /\ Len(e \o c) >= 1
    BY <2>1, <2>2, <2>3, <2>4 DEF e
  <2>6. (e \o c)[1] = a[1]
    BY <2>2, <2>3, <2>5 DEF e
  <2>. QED  BY <2>1, <2>5, <2>6 DEF e
<1>. QED  BY <1>1, <1>2, <1>3, FieldIs

LEMMA FirstOctetRead ==
  ASSUME NEW f \in Fields, NEW d \in Seq(0..255), NEW p, LiesIn(Octets(f), d, p)
  PROVE  p \in 1..Len(d) /\ Starts(f, d[p])
<1> DEFINE o == Octets(f)
           n == Len(o)
<1>1. o \in Seq(0..255) /\ n >= 1 /\ Starts(f, o[1])
  BY FirstOctet, OctetsIs
<1>2. /\ p \in Nat \ {0} /\ p + n <= Len(d) + 1
      /\ \A k \in 1..n : d[p + k - 1] = o[k]
  BY DEF LiesIn
<1>3. n \in Nat /\ Len(d) \in Nat
  BY <1>1, LenIs
<1> HIDE DEF o
<1>4. p \in 1..Len(d) /\ 1 \in 1..n /\ p + 1 - 1 = p
  <2> HIDE DEF n
  <2>. QED  BY <1>1, <1>2, <1>3
<1>5. d[p] = o[1]
  BY <1>2, <1>4
<1>. QED  BY <1>1, <1>4, <1>5

LEMMA IndexedRead ==
  ASSUME NEW f \in Fields, f.rep = "indexed", NEW d \in Seq(0..255), NEW p,
         LiesIn(Octets(f), d, p)
  PROVE  decode_int(d, p, 7) = [ok |-> TRUE, value |-> f.index, next |-> p + Len(Octets(f))]
<1> DEFINE fl == 128
           pr == 7
           n == f.index
<1>1. <<fl, pr>> \in Kinds /\ n \in 0..IntMax
  BY FieldIs DEF Kinds, IsLiteral
<1>2. Octets(f) = Written(fl, pr, n)
  BY DEF Octets
<1> HIDE DEF fl, pr, n
<1>3. decode_int(d, p, pr) = [ok |-> TRUE, value |-> n, next |-> p + Len(Written(fl, pr, n))]
  BY <1>1, <1>2, IntegerRead
<1>. QED  BY <1>2, <1>3 DEF pr, n

(* The parts of a literal field lie one behind the other. *)
LEMMA LiteralPlaces ==
  ASSUME NEW f \in Fields, IsLiteral(f), NEW d \in Seq(0..255), NEW p,
         LiesIn(Octets(f), d, p)
  PROVE  LET q == p + Len(Index(f))
             r == q + Len(NamePart(f)) IN
         /\ LiesIn(Index(f), d, p) /\ LiesIn(NamePart(f), d, q) /\ LiesIn(ValuePart(f), d, r)
         /\ r + Len(ValuePart(f)) = p + Len(Octets(f))
<1> DEFINE a == Index(f)
           b == NamePart(f)
           c == ValuePart(f)
           q == p + Len(a)
           r == q + Len(b)
           B == 0..255
<1>0. Parts(f, a, b, c)
  BY LiteralIs
<1> HIDE DEF a, b, c
<1>1. /\ a \in Seq(B) /\ b \in Seq(B) /\ c \in Seq(B) /\ Octets(f) = (a \o b) \o c
  BY <1>0 DEF Parts
<1> DEFINE e == a \o b
<1> HIDE DEF B
<1>2. e \in Seq(B) /\ Len(e) = Len(a) + Len(b)
  BY <1>1, Joined
<1> HIDE DEF e
<1>3. Len(e \o c) = Len(e) + Len(c)
  BY <1>1, <1>2, Joined
<1>4. d \in Seq(B) /\ LiesIn(e \o c, d, p) /\ p \in Nat
  BY <1>1 DEF B, e, LiesIn
<1>5. LiesIn(e, d, p) /\ LiesIn(c, d, p + Len(e))
  BY <1>1, <1>2, <1>4, PartsLie
<1>6. LiesIn(a, d, p) /\ LiesIn(b, d, p + Len(a))
  <2>1. LiesIn(a \o b, d, p)
    BY <1>5 DEF e
  <2>. QED  BY <1>1, <1>4, <2>1, PartsLie
<1>7. Len(a) \in Nat /\ Len(b) \in Nat /\ Len(c) \in Nat
  BY <1>1, LenIs
<1>8. p + Len(e) = r /\ r + Len(c) = p + Len(e \o c)
  BY <1>2, <1>3, <1>4, <1>7
<1>9. LiesIn(a, d, p) /\ LiesIn(b, d, q) /\ LiesIn(c, d, r)
  BY <1>5, <1>6, <1>8
<1>10. Octets(f) = e \o c
  BY <1>1 DEF e
<1> HIDE DEF q, r
<1>11. LiesIn(a, d, p) /\ LiesIn(b, d, q) /\ LiesIn(c, d, r) /\ r + Len(c) = p + Len(Octets(f))
  BY <1>8, <1>9, <1>10
<1>. QED  BY <1>11 DEF q, r, a, b, c

LEMMA SomeName ==
  Path # NoName /\ Method # NoName
<1>1. Len(Path) = 2 /\ Len(Method) = 2 /\ Len(NoName) = 0
  BY DEF Path, Method, NoName
<1>. QED  BY <1>1

LEMMA NameTextRead ==
  ASSUME NEW f \in Fields, IsLiteral(f), f.index = 0, NEW d \in Seq(0..255), NEW q,
         LiesIn(NamePart(f), d, q)
  PROVE  StringAt(decode_int(d, q, 7), d, q, NamePart(f), Body(f.name, f.name_huffman),
                  f.name_huffman)
<1>1. /\ f.name \in Text /\ f.name_huffman \in BOOLEAN
      /\ Len(Body(f.name, f.name_huffman)) <= IntMax
  BY FieldIs DEF IsLiteral
<1>2. NamePart(f) = String(f.name, f.name_huffman)
  BY DEF NamePart
<1>. QED  BY <1>1, <1>2, StringRead

(* The name of a literal field, as the decoder reads it. *)
LEMMA NameRead ==
  ASSUME NEW f \in Fields, IsLiteral(f), f.rep # "never", wanted \in {Path, Method},
         data \in Seq(0..255), NEW q, LiesIn(NamePart(f), data, q), q \in Nat,
         NEW index, index.value = f.index, index.next = q
  PROVE  LET name == LiteralName(index) IN
         /\ name.ok <=> Readable(f)
         /\ Readable(f) => /\ name.next = q + Len(NamePart(f))
                           /\ name.name = wanted <=> Seen(f)
<1> DEFINE name == LiteralName(index)
<1>1. /\ f.rep \notin {"never", "resize", "indexed"} /\ wanted # NoName
  BY SomeName DEF IsLiteral
<1>2. CASE f.index # 0
  <2>1. name = [ok |-> TRUE, next |-> q, name |-> NameOf(f)]
    BY <1>1, <1>2 DEF LiteralName, NameOf
  <2>2. Readable(f) /\ (Seen(f) <=> NameOf(f) = wanted)
    BY <1>1, <1>2 DEF Readable, Seen, Is
  <2>3. q + Len(NamePart(f)) = q
    BY <1>2 DEF NamePart
  <2> HIDE DEF name
  <2>. QED  BY <2>1, <2>2, <2>3 DEF name
<1>3. CASE f.index = 0
  <2> DEFINE huffman == f.name_huffman
             body == Body(f.name, huffman)
             len == decode_int(data, q, 7)
  <2>1. /\ f.name \in Text /\ huffman \in BOOLEAN /\ Len(body) <= IntMax
    BY FieldIs DEF IsLiteral
  <2>2. NamePart(f) = String(f.name, huffman)
    BY <1>3 DEF NamePart
  <2>3. /\ len.ok /\ len.value = Len(body)
        /\ len.next + len.value = q + Len(NamePart(f))
        /\ len.next + len.value <= Len(data) + 1
        /\ SubSeq(data, len.next, len.next + len.value - 1) = body
        /\ q <= Len(data) /\ (data[q] >= 128 <=> huffman)
    BY <1>3, NameTextRead DEF StringAt
  <2>4. Marked(q) <=> huffman
    BY <2>3 DEF Marked
  <2>5. Readable(f) <=> Len(body) < NameSize
    BY <1>1, <1>3 DEF Readable, Body
  <2>6. Seen(f) <=> f.name = wanted /\ ~huffman
    BY <1>1, <1>3 DEF Seen, Is, NameOf
  <2>7. name = IF ~len.ok \/ len.value >= NameSize
                 THEN [ok |-> FALSE, next |-> q, name |-> NoName]
                 ELSE [ok |-> Marked(q) \/ len.next + len.value <= Len(data) + 1,
                       next |-> len.next + len.value,
                       name |-> IF Marked(q) THEN NoName ELSE Slice(len.next, len.value)]
    BY <1>3 DEF LiteralName
  <2>8. Slice(len.next, len.value) = body
    BY <2>3 DEF Slice
  <2>9. ~huffman => body = f.name
    BY DEF Body
  <2>10. len.value >= NameSize <=> ~Readable(f)
    <3>1. Len(body) \in Nat /\ NameSize \in Nat
      BY <2>1, StringIs, BlockAssumption DEF Halves
    <3> HIDE DEF body, len
    <3>. QED  BY <2>3, <2>5, <3>1
  <2> HIDE DEF name, body, huffman, len
  <2>11. CASE Readable(f)
    <3>1. name = [ok |-> Marked(q) \/ len.next + len.value <= Len(data) + 1,
                  next |-> len.next + len.value,
                  name |-> IF Marked(q) THEN NoName ELSE Slice(len.next, len.value)]
      BY <2>3, <2>7, <2>10, <2>11
    <3>2. name.ok /\ name.next = q + Len(NamePart(f))
      BY <2>3, <3>1
    <3>3. name.name = IF huffman THEN NoName ELSE f.name
      BY <2>4, <2>8, <2>9, <3>1
    <3>. QED  BY <1>1, <2>6, <2>11, <3>2, <3>3 DEF name
  <2>12. CASE ~Readable(f)
    <3>1. ~name.ok
      BY <2>7, <2>10, <2>12
    <3>. QED  BY <2>12, <3>1 DEF name
  <2>. QED  BY <2>11, <2>12
<1>. QED  BY <1>2, <1>3

(* Its value, when the place of it is known. *)
LEMMA ValueRead ==
  ASSUME NEW f \in Fields, IsLiteral(f), data \in Seq(0..255), NEW r,
         LiesIn(ValuePart(f), data, r)
  PROVE  LET len == decode_int(data, r, 7) IN
         /\ len.ok /\ PastValue(len) = r + Len(ValuePart(f)) /\ PastValue(len) <= Len(data) + 1
         /\ Value(len.next, len.value, Marked(r)) = ValueOf(f)
<1> DEFINE huffman == f.huffman
           s == f.value
           len == decode_int(data, r, 7)
<1>1. s \in Text /\ huffman \in BOOLEAN /\ Len(Body(s, huffman)) <= IntMax
  BY FieldIs DEF IsLiteral
<1>2. LiesIn(String(s, huffman), data, r) /\ ValuePart(f) = String(s, huffman)
  BY DEF ValuePart
<1>3. ValueOf(f) = s
  BY DEF ValueOf, IsLiteral
<1> HIDE DEF s, huffman
<1>4. StringAt(len, data, r, ValuePart(f), Body(s, huffman), huffman)
  BY <1>1, <1>2, StringRead
<1>5. /\ len.ok /\ PastValue(len) = r + Len(ValuePart(f)) /\ PastValue(len) <= Len(data) + 1
      /\ Slice(len.next, len.value) = Body(s, huffman) /\ (Marked(r) <=> huffman)
  BY <1>2, <1>4 DEF PastValue, Slice, Marked, StringAt
<1> HIDE DEF len
<1>6. Value(len.next, len.value, Marked(r)) = s
  <2>1. CASE huffman
    <3>1. Body(s, huffman) = Huffman(s)
      BY <2>1 DEF Body
    <3>. QED  BY <1>1, <1>5, <2>1, <3>1, HuffmanRead DEF Value
  <2>2. CASE ~huffman
    <3>1. Body(s, huffman) = s
      BY <2>2 DEF Body
    <3>. QED  BY <1>5, <2>2, <3>1 DEF Value
  <2>. QED  BY <2>1, <2>2
<1>. QED  BY <1>3, <1>5, <1>6 DEF len

-----------------------------------------------------------------------------
(* The decoder: field by field. *)

(* What a step makes of the i-th field. *)
Outcome(i) ==
  \/ /\ Readable(block[i]) /\ Seen(block[i])
     /\ status' = "found" /\ out' = Cut(ValueOf(block[i])) /\ at' = at
  \/ /\ Readable(block[i]) /\ ~Seen(block[i])
     /\ status' = status /\ out' = out /\ at' = FieldStart(i + 1)
  \/ /\ ~Readable(block[i])
     /\ status' = "failed" /\ out' = out /\ at' = at

LEMMA IndexedStep ==
  ASSUME Whole, NEW i \in 1..Len(block), at = FieldStart(i), block[i].rep = "indexed", Indexed
  PROVE  Outcome(i)
<1> DEFINE f == block[i]
           o == Octets(f)
           p == FieldStart(i)
           index == decode_int(data, p, 7)
<1>1. /\ f \in Fields /\ data \in Seq(0..255) /\ LiesIn(o, data, p)
      /\ FieldStart(i + 1) = p + Len(o)
  BY FieldPlaces
<1>2. f.rep = "indexed" /\ f.index # 0 /\ f.index \in Nat
  BY <1>1, FieldIs DEF IsLiteral
<1>3. Readable(f) /\ (Seen(f) <=> NameOf(f) = wanted)
  BY <1>2 DEF Readable, Seen, Is
<1>4. NameOf(f) = IF f.index < TableSize THEN StaticName(f.index) ELSE NoName
  BY <1>2 DEF NameOf
<1>5. ValueOf(f) = StaticValue(f.index)
  BY <1>2 DEF ValueOf
<1>6. wanted # NoName
  BY SomeName DEF Whole
<1>7. IF ~index.ok THEN Break
      ELSE IF index.value \in 1..TableSize - 1 /\ StaticName(index.value) = wanted
        THEN Answer(StaticValue(index.value))
        ELSE Skip(index.next)
  BY DEF Indexed
<1> HIDE DEF f, o, p
<1>8. index = [ok |-> TRUE, value |-> f.index, next |-> p + Len(o)]
  BY <1>1, <1>2, IndexedRead DEF o
<1> HIDE DEF index
<1>9. index.ok /\ index.value = f.index /\ index.next = FieldStart(i + 1)
  BY <1>1, <1>8
<1>10. f.index \in 1..TableSize - 1 /\ StaticName(f.index) = wanted <=> Seen(f)
  <2>1. f.index \in 1..TableSize - 1 <=> f.index < TableSize
    <3> DEFINE n == f.index
    <3>1. n \in Nat /\ n # 0
      BY <1>2
    <3> HIDE DEF n
    <3>2. n \in 1..TableSize - 1 <=> n < TableSize
      BY <3>1 DEF TableSize
    <3>. QED  BY <3>2 DEF n
  <2>. QED  BY <1>3, <1>4, <1>6, <2>1
<1>11. IF Seen(f) THEN Answer(ValueOf(f)) ELSE Skip(FieldStart(i + 1))
  BY <1>5, <1>7, <1>9, <1>10
<1>12. CASE Seen(f)
  BY <1>3, <1>11, <1>12 DEF Answer, Outcome, f
<1>13. CASE ~Seen(f)
  BY <1>3, <1>11, <1>13 DEF Skip, Outcome, f
<1>. QED  BY <1>12, <1>13

LEMMA LiteralStep ==
  ASSUME Whole, NEW i \in 1..Len(block), at = FieldStart(i),
         block[i].rep \in {"incremental", "without"}, Literal(Prefix[block[i].rep])
  PROVE  Outcome(i)
<1> DEFINE f == block[i]
           p == FieldStart(i)
           pr == Prefix[f.rep]
           q == p + Len(Index(f))
           r == q + Len(NamePart(f))
           index == decode_int(data, p, pr)
           name == LiteralName(index)
           len == decode_int(data, name.next, 7)
<1>1. /\ f \in Fields /\ data \in Seq(0..255) /\ LiesIn(Octets(f), data, p)
      /\ FieldStart(i + 1) = p + Len(Octets(f))
  BY FieldPlaces
<1>2. IsLiteral(f) /\ f.rep # "never" /\ f.index \in 0..IntMax /\ wanted \in {Path, Method}
  BY <1>1, FieldIs DEF IsLiteral, Whole
<1>3. IF ~index.ok \/ ~name.ok \/ ~len.ok \/ PastValue(len) > Len(data) + 1 THEN Break
      ELSE IF name.name = wanted THEN Answer(Value(len.next, len.value, Marked(name.next)))
      ELSE Skip(PastValue(len))
  BY DEF Literal
<1> HIDE DEF f, p
<1>4. /\ LiesIn(Index(f), data, p) /\ LiesIn(NamePart(f), data, q)
      /\ LiesIn(ValuePart(f), data, r) /\ r + Len(ValuePart(f)) = p + Len(Octets(f))
  BY <1>1, <1>2, LiteralPlaces
<1>5. index = [ok |-> TRUE, value |-> f.index, next |-> q]
  <2> DEFINE fl == Flags[f.rep]
             n == f.index
  <2>1. <<fl, pr>> \in Kinds /\ n \in 0..IntMax /\ Index(f) = Written(fl, pr, n)
    BY <1>1, <1>2, LiteralIs DEF Index
  <2> HIDE DEF fl, pr, n
  <2>2. decode_int(data, p, pr) = [ok |-> TRUE, value |-> n, next |-> p + Len(Written(fl, pr, n))]
    BY <1>1, <1>4, <2>1, IntegerRead
  <2>. QED  BY <2>1, <2>2 DEF n
<1>6. q \in Nat
  BY <1>4 DEF LiesIn
<1> HIDE DEF q, r, index
<1>7. index.ok /\ index.value = f.index /\ index.next = q
  BY <1>5
<1>8. /\ name.ok <=> Readable(f)
      /\ Readable(f) => name.next = q + Len(NamePart(f)) /\ (name.name = wanted <=> Seen(f))
  BY <1>1, <1>2, <1>4, <1>6, <1>7, NameRead
<1> HIDE DEF name
<1>9. CASE ~Readable(f)
  <2>1. Break
    BY <1>3, <1>8, <1>9
  <2>. QED  BY <1>9, <2>1 DEF Break, Outcome, f
<1>10. CASE Readable(f)
  <2>1. name.next = r
    BY <1>8, <1>10 DEF r
  <2>2. /\ len.ok /\ PastValue(len) = r + Len(ValuePart(f)) /\ PastValue(len) <= Len(data) + 1
        /\ Value(len.next, len.value, Marked(name.next)) = ValueOf(f)
    BY <1>1, <1>2, <1>4, <2>1, ValueRead
  <2> HIDE DEF len
  <2> DEFINE e == PastValue(len)
             m == Len(data) + 1
  <2>3. e \in Nat /\ m \in Nat /\ e <= m
    <3>1. r + Len(ValuePart(f)) \in Nat
      <4>1. ValuePart(f) \in Seq(0..255)
        BY <1>1, <1>2, LiteralIs, Zenon DEF Parts
      <4>2. Len(ValuePart(f)) \in Nat
        BY <4>1, LenIs
      <4>. QED  BY <1>4, <4>2 DEF LiesIn
    <3>2. Len(data) \in Nat
      BY <1>1, LenIs
    <3>. QED  BY <2>2, <3>1, <3>2
  <2>4. e = FieldStart(i + 1)
    BY <1>1, <1>4, <2>2
  <2> HIDE DEF e, m
  <2>5. ~(e > m)
    BY <2>3
  <2>6. IF Seen(f) THEN Answer(ValueOf(f)) ELSE Skip(e)
    BY <1>3, <1>7, <1>8, <1>10, <2>2, <2>5 DEF e, m
  <2>7. CASE Seen(f)
    BY <1>10, <2>6, <2>7 DEF Answer, Outcome, f
  <2>8. CASE ~Seen(f)
    BY <1>10, <2>4, <2>6, <2>8 DEF Skip, Outcome, f
  <2>. QED  BY <2>7, <2>8
<1>. QED  BY <1>9, <1>10

LEMMA OctetKinds ==
  ASSUME NEW f, NEW x, Starts(f, x)
  PROVE  /\ f.rep = "indexed" => x >= 128 /\ PrefixBits(x) = 0
         /\ f.rep = "incremental" => ~(x >= 128) /\ PrefixBits(x) = 6
         /\ f.rep = "without" => ~(x >= 128) /\ PrefixBits(x) = 4
         /\ f.rep \in {"never", "resize"} => ~(x >= 128) /\ PrefixBits(x) = 0
<1>1. x \in 128..255 => x >= 128 /\ PrefixBits(x) = 0
  BY DEF PrefixBits
<1>2. x \in 64..127 => ~(x >= 128) /\ PrefixBits(x) = 6
  BY DEF PrefixBits
<1>3. x \in 0..15 => ~(x >= 128) /\ PrefixBits(x) = 4
  BY DEF PrefixBits
<1>4. x \in 16..31 \/ x = 32 => ~(x >= 128) /\ PrefixBits(x) = 0
  BY DEF PrefixBits
<1>. QED  BY <1>1, <1>2, <1>3, <1>4 DEF Starts

LEMMA FieldStep ==
  ASSUME Whole, NEW i \in 1..Len(block), at = FieldStart(i), Next
  PROVE  Outcome(i)
<1> DEFINE f == block[i]
           x == data[at]
<1>1. /\ f \in Fields /\ data \in Seq(0..255) /\ LiesIn(Octets(f), data, at)
  BY FieldPlaces
<1>2. at \in 1..Len(data) /\ Len(data) \in Nat /\ Starts(f, x)
  BY <1>1, FirstOctetRead, LenIs
<1>3. Marked(at) <=> x >= 128
  BY <1>2 DEF Marked
<1>4. x \in 0..255 /\ at <= Len(data)
  <2>1. \A k \in 1..Len(data) : data[k] \in 0..255
    BY <1>1, LenIs
  <2>2. data[at] \in 0..255
    BY <1>2, <2>1
  <2>3. at <= Len(data)
    BY <1>2
  <2>. QED  BY <2>2, <2>3
<1>5. /\ Indexed => Marked(at)
      /\ LiteralField => PrefixBits(x) # 0 /\ Literal(PrefixBits(x))
      /\ Unreadable => ~Marked(at) /\ PrefixBits(x) = 0 /\ Break
  BY <1>4 DEF Indexed, LiteralField, Unreadable
<1> HIDE DEF f, x
<1>6. CASE f.rep = "indexed"
  <2>1. x >= 128 /\ PrefixBits(x) = 0
    BY <1>2, <1>6, OctetKinds
  <2>2. Indexed
    BY <1>3, <1>5, <2>1 DEF Next
  <2>. QED  BY <1>6, <2>2, IndexedStep DEF f
<1>7. CASE f.rep \in {"incremental", "without"}
  <2>1. ~(x >= 128) /\ PrefixBits(x) = Prefix[f.rep] /\ PrefixBits(x) # 0
    <3>1. CASE f.rep = "incremental"
      BY <1>2, <3>1, OctetKinds DEF Prefix
    <3>2. CASE f.rep = "without"
      BY <1>2, <3>2, OctetKinds DEF Prefix
    <3>. QED  BY <1>7, <3>1, <3>2
  <2>2. Literal(Prefix[f.rep])
    BY <1>3, <1>5, <2>1 DEF Next
  <2>. QED  BY <1>7, <2>2, LiteralStep DEF f
<1>8. CASE f.rep \in {"never", "resize"}
  <2>1. ~(x >= 128) /\ PrefixBits(x) = 0
    BY <1>2, <1>8, OctetKinds
  <2>2. Break
    BY <1>3, <1>5, <2>1 DEF Next
  <2>3. ~Readable(f)
    BY <1>8 DEF Readable
  <2>. QED  BY <2>2, <2>3 DEF Break, Outcome, f
<1>9. f.rep \in {"indexed", "incremental", "without", "never", "resize"}
  BY <1>1, FieldIs DEF IsLiteral
<1>. QED  BY <1>6, <1>7, <1>8, <1>9

LEMMA EndStep ==
  ASSUME Whole, at = FieldStart(Len(block) + 1), Next
  PROVE  status' = "failed" /\ out' = out /\ at' = at
<1>1. at = Len(data) + 1 /\ Len(data) \in Nat
  BY FieldPlaces
<1>2. ~Marked(at) /\ ~(at <= Len(data))
  BY <1>1 DEF Marked
<1>3. Unreadable
  BY <1>2 DEF Next, Indexed, LiteralField
<1>. QED  BY <1>3 DEF Unreadable, Break

-----------------------------------------------------------------------------
(* The inductive invariant: the cursor is where some field begins, or at the end;
   nothing before it was to be answered with or to fail on, and the status is the
   one that field gives. *)

Passed(i) == \A j \in 1..i - 1 : Readable(block[j]) /\ ~Seen(block[j])

StandsAt(i) ==
  /\ at = FieldStart(i) /\ Passed(i)
  /\ status = "found" => /\ i <= Len(block) /\ Readable(block[i]) /\ Seen(block[i])
                         /\ out = Cut(ValueOf(block[i]))
  /\ status = "failed" /\ i <= Len(block) => ~Readable(block[i])

HpackInv ==
  /\ Whole /\ status \in {"reading", "found", "failed"}
  /\ \E i \in 1..Len(block) + 1 : StandsAt(i)

LEMMA HpackInit == Init => HpackInv
<1> SUFFICES ASSUME Init PROVE HpackInv
  OBVIOUS
<1>1. Whole /\ status = "reading" /\ at = 1
  BY DEF Init, Whole
<1>2. FieldStart(1) = 1 /\ 1 \in 1..Len(block) + 1
  BY <1>1, FieldPlaces
<1>3. Passed(1)
  BY DEF Passed
<1>4. StandsAt(1)
  BY <1>1, <1>2, <1>3 DEF StandsAt
<1>. QED  BY <1>1, <1>2, <1>4 DEF HpackInv

LEMMA HpackStep == HpackInv /\ [Next]_vars => HpackInv'
<1> SUFFICES ASSUME HpackInv, [Next]_vars PROVE HpackInv'
  OBVIOUS
<1>1. Whole /\ status \in {"reading", "found", "failed"}
  BY DEF HpackInv
<1>2. PICK i \in 1..Len(block) + 1 : StandsAt(i)
  BY DEF HpackInv
<1>3. Len(block) \in Nat
  BY <1>1, FieldPlaces
<1>4. block' = block /\ data' = data /\ wanted' = wanted
  BY DEF Next, Indexed, LiteralField, Unreadable, vars
<1>5. Whole'
  BY <1>1, <1>4 DEF Whole
<1>6. \A k : /\ FieldStart(k)' = FieldStart(k)
             /\ Readable(block[k])' <=> Readable(block[k])
             /\ Seen(block[k])' <=> Seen(block[k])
             /\ ValueOf(block[k])' = ValueOf(block[k])
  BY <1>4 DEF FieldStart, Readable, Seen, Is, NameOf, ValueOf
<1>7. \A k : Passed(k)' <=> Passed(k)
  BY <1>4 DEF Passed, Readable, Seen, Is, NameOf
<1>8. CASE UNCHANGED vars
  <2>1. status' = status /\ at' = at /\ out' = out
    BY <1>8 DEF vars
  <2>2. StandsAt(i)'
    BY <1>2, <1>4, <1>6, <1>7, <2>1 DEF StandsAt
  <2>. QED  BY <1>1, <1>4, <1>5, <2>1, <2>2 DEF HpackInv
<1>9. CASE Next
  <2>1. status = "reading"
    BY <1>9 DEF Next, Indexed, LiteralField, Unreadable
  <2>2. at = FieldStart(i) /\ Passed(i)
    BY <1>2 DEF StandsAt
  <2>3. CASE i <= Len(block)
    <3>1. i \in 1..Len(block)
      BY <1>3, <2>3
    <3>2. Outcome(i)
      BY <1>1, <1>9, <2>2, <3>1, FieldStep
    <3>3. CASE Readable(block[i]) /\ Seen(block[i])
      <4>1. status' = "found" /\ out' = Cut(ValueOf(block[i])) /\ at' = at
        BY <3>2, <3>3 DEF Outcome
      <4>2. StandsAt(i)'
        BY <1>4, <1>6, <1>7, <2>2, <2>3, <3>3, <4>1 DEF StandsAt, Cut
      <4>. QED  BY <1>4, <1>5, <4>1, <4>2 DEF HpackInv
    <3>4. CASE Readable(block[i]) /\ ~Seen(block[i])
      <4>1. status' = "reading" /\ at' = FieldStart(i + 1)
        BY <2>1, <3>2, <3>4 DEF Outcome
      <4>2. i + 1 \in 1..Len(block) + 1
        BY <1>3, <3>1
      <4>3. Passed(i + 1)
        <5>1. \A j \in 1..(i + 1) - 1 : j = i \/ j \in 1..i - 1
          BY <1>3, <3>1
        <5>. QED  BY <2>2, <3>4, <5>1 DEF Passed
      <4>4. StandsAt(i + 1)'
        BY <1>6, <1>7, <4>1, <4>3 DEF StandsAt
      <4>. QED  BY <1>4, <1>5, <4>1, <4>2, <4>4 DEF HpackInv
    <3>5. CASE ~Readable(block[i])
      <4>1. status' = "failed" /\ at' = at
        BY <3>2, <3>5 DEF Outcome
      <4>2. StandsAt(i)'
        BY <1>6, <1>7, <2>2, <3>5, <4>1 DEF StandsAt
      <4>. QED  BY <1>4, <1>5, <4>1, <4>2 DEF HpackInv
    <3>. QED  BY <3>3, <3>4, <3>5
  <2>4. CASE i = Len(block) + 1
    <3>1. status' = "failed" /\ at' = at
      BY <1>1, <1>9, <2>2, <2>4, EndStep
    <3>2. ~(i <= Len(block))
      BY <1>3, <2>4
    <3>3. StandsAt(i)'
      BY <1>4, <1>6, <1>7, <2>2, <3>1, <3>2 DEF StandsAt
    <3>. QED  BY <1>4, <1>5, <3>1, <3>3 DEF HpackInv
  <2>. QED  BY <1>3, <2>3, <2>4
<1>. QED  BY <1>8, <1>9

(* The place of the cursor and what the decoder has returned follow from the fields
   before it, in every reachable state of hpack_decode_path and hpack_decode_method,
   for every block and every table of codes BlockAssumption allows. *)
THEOREM HpackInvariant == Spec => []HpackInv
BY HpackInit, HpackStep, PTL DEF Spec

(* Whatever hpack_decode_path or hpack_decode_method skips, it goes on where the
   client began a field, or at the end of the block. *)
THEOREM CursorOnField == Spec => []StandsOnField
<1>1. HpackInv => StandsOnField
  BY DEF HpackInv, StandsAt, StandsOnField
<1>. QED  BY <1>1, HpackInvariant, PTL

LEMMA BlockAnswer == HpackInv => AnswersBlock
<1> SUFFICES ASSUME HpackInv, status # "reading" PROVE AnswersBlock
  BY DEF AnswersBlock
<1> DEFINE seen == {i \in DOMAIN block : Seen(block[i])}
           reached == {i \in seen : \A j \in 1..i : Readable(block[j])}
           first == CHOOSE i \in reached : \A j \in reached : i <= j
<1>1. PICK i \in 1..Len(block) + 1 : StandsAt(i)
  BY DEF HpackInv
<1>2. Len(block) \in Nat /\ DOMAIN block = 1..Len(block)
  BY FieldPlaces DEF HpackInv
<1>3. \A k \in reached : k \in 1..Len(block) /\ Seen(block[k]) /\ \A j \in 1..k : Readable(block[j])
  BY <1>2
<1>4. \A k \in reached : ~(k \in 1..i - 1)
  BY <1>1, <1>3 DEF StandsAt, Passed
<1>5. \A k \in reached : k >= i
  <2> HIDE DEF reached
  <2>. QED  BY <1>2, <1>3, <1>4
<1>6. CASE status = "found"
  <2>1. /\ i <= Len(block) /\ Readable(block[i]) /\ Seen(block[i])
        /\ out = Cut(ValueOf(block[i])) /\ Passed(i)
    BY <1>1, <1>6 DEF StandsAt
  <2>2. i \in 1..Len(block)
    BY <1>2, <2>1
  <2>3. \A j \in 1..i : Readable(block[j])
    <3>1. \A j \in 1..i : j = i \/ j \in 1..i - 1
      BY <2>2
    <3>. QED  BY <2>1, <3>1 DEF Passed
  <2>4. i \in reached
    BY <1>2, <2>1, <2>2, <2>3
  <2> HIDE DEF reached
  <2>5. first \in reached /\ \A j \in reached : first <= j
    BY <1>5, <2>4
  <2>6. first \in Nat /\ first <= i /\ i <= first
    <3> HIDE DEF first
    <3>1. first \in 1..Len(block) /\ first >= i /\ first <= i
      BY <1>3, <1>5, <2>4, <2>5
    <3>. QED  BY <1>2, <2>2, <3>1
  <2>7. first = i
    <3> HIDE DEF first
    <3>. QED  BY <2>2, <2>6
  <2>8. reached # {} /\ status = "found" /\ out = Cut(ValueOf(block[first]))
    BY <1>6, <2>1, <2>4, <2>7
  <2>. QED  BY <2>8 DEF AnswersBlock, reached
<1>7. CASE status = "failed"
  <2>1. ASSUME NEW k \in reached PROVE FALSE
    <3>1. k \in 1..Len(block) /\ k >= i /\ \A j \in 1..k : Readable(block[j])
      BY <1>3, <1>5, <2>1
    <3>2. i \in 1..k /\ i <= Len(block)
      BY <1>2, <3>1
    <3>3. ~Readable(block[i])
      BY <1>1, <1>7, <3>2 DEF StandsAt
    <3>. QED  BY <3>1, <3>2, <3>3
  <2>2. reached = {}
    BY <2>1
  <2>. QED  BY <1>7, <2>2 DEF AnswersBlock
<1>. QED  BY <1>6, <1>7 DEF HpackInv

(* hpack_decode_path and hpack_decode_method answer with the value, cut to the
   caller's array, of the first field that has the name and that they compare, if all
   up to it are understood, and fail otherwise: for every block, every table of
   prefix-free codes, every length of names and values and all sizes of arrays. *)
THEOREM BlockAnswered == Spec => []AnswersBlock
BY HpackInvariant, BlockAnswer, PTL
=============================================================================
