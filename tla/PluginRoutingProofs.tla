------------------------- MODULE PluginRoutingProofs -------------------------
(* Proofs about PluginRouting, for every configuration of plugins and every request. *)
EXTENDS PluginRouting, Induction, SequenceTheorems, FiniteSetTheorems

-----------------------------------------------------------------------------
(* Patterns. A pattern matches when the text can be cut into one piece for each byte of
   the pattern, of which that of a star before other bytes does not reach the end of
   the text. *)

Fits(pattern, text, k, from, to) ==
  IF pattern[k] = "*" THEN from <= to /\ (k = Len(pattern) \/ to <= Len(text))
  ELSE to = from + 1 /\ from <= Len(text) /\ text[from] = pattern[k]

Cut(cut, pattern, text, p, t) ==
  /\ cut \in [p..Len(pattern) + 1 -> 1..Len(text) + 1]
  /\ cut[p] = t /\ cut[Len(pattern) + 1] = Len(text) + 1
  /\ \A k \in p..Len(pattern) : Fits(pattern, text, k, cut[k], cut[k + 1])

(* The pattern from its byte p on matches the text from its byte t on. *)
Matches(pattern, text, p, t) == \E cut : Cut(cut, pattern, text, p, t)

LEMMA MatchesEnd ==
  ASSUME NEW pattern \in Text, NEW text \in Text, NEW t \in 1..Len(text) + 1
  PROVE  Matches(pattern, text, Len(pattern) + 1, t) <=> t > Len(text)
<1> DEFINE P == Len(pattern)
           T == Len(text)
<1>1. P \in Nat /\ T \in Nat
  BY DEF Text
<1> HIDE DEF P, T
<1>2. ASSUME NEW cut, Cut(cut, pattern, text, P + 1, t) PROVE t > T
  BY <1>1, <1>2 DEF Cut, P, T
<1>3. ASSUME t > T PROVE Cut([k \in P + 1..P + 1 |-> T + 1], pattern, text, P + 1, t)
  <2>1. t = T + 1 /\ P + 1..P = {} /\ P + 1 \in P + 1..P + 1 /\ T + 1 \in 1..T + 1
    BY <1>1, <1>3 DEF T
  <2>. QED  BY <2>1 DEF Cut, P, T
<1>. QED  BY <1>2, <1>3 DEF Matches, P, T

LEMMA MatchesFirst ==
  ASSUME NEW pattern \in Text, NEW text \in Text,
         NEW p \in 1..Len(pattern), NEW t \in 1..Len(text) + 1
  PROVE  Matches(pattern, text, p, t) <=>
           \E u \in 1..Len(text) + 1 : Fits(pattern, text, p, t, u) /\ Matches(pattern, text, p + 1, u)
<1> DEFINE P == Len(pattern)
           T == Len(text)
<1>1. P \in Nat /\ T \in Nat
  BY DEF Text
<1>p. p \in 1..P /\ t \in 1..T + 1 /\ p + 1 \in p..P + 1 /\ P + 1 \in p + 1..P + 1 /\ p \in p..P
  BY <1>1
<1> HIDE DEF P, T
<1>2. ASSUME NEW cut, Cut(cut, pattern, text, p, t)
      PROVE  cut[p + 1] \in 1..T + 1 /\ Fits(pattern, text, p, t, cut[p + 1])
             /\ Cut([k \in p + 1..P + 1 |-> cut[k]], pattern, text, p + 1, cut[p + 1])
  <2>1. cut \in [p..P + 1 -> 1..T + 1] /\ cut[p] = t /\ cut[P + 1] = T + 1
        /\ \A k \in p..P : Fits(pattern, text, k, cut[k], cut[k + 1])
    BY <1>2 DEF Cut, P, T
  <2>2. \A k \in p + 1..P + 1 : k \in p..P + 1
    BY <1>p, <1>1
  <2>3. \A k \in p + 1..P : k \in p..P /\ k \in p + 1..P + 1 /\ k + 1 \in p + 1..P + 1
    BY <1>p, <1>1
  <2>4. p + 1 \in p + 1..P + 1
    BY <1>p, <1>1
  <2>. QED  BY <1>p, <2>1, <2>2, <2>3, <2>4 DEF Cut, P, T
<1>3. ASSUME NEW u \in 1..T + 1, Fits(pattern, text, p, t, u),
             NEW cut, Cut(cut, pattern, text, p + 1, u)
      PROVE  Cut([k \in p..P + 1 |-> IF k = p THEN t ELSE cut[k]], pattern, text, p, t)
  <2>1. cut \in [p + 1..P + 1 -> 1..T + 1] /\ cut[p + 1] = u /\ cut[P + 1] = T + 1
        /\ \A k \in p + 1..P : Fits(pattern, text, k, cut[k], cut[k + 1])
    BY <1>3 DEF Cut, P, T
  <2>2. \A k \in p..P + 1 : k = p \/ (k \in p + 1..P + 1 /\ k # p)
    BY <1>p, <1>1
  <2>3. \A k \in p..P : /\ k \in p..P + 1 /\ k + 1 \in p..P + 1 /\ k + 1 # p
                        /\ k = p \/ (k \in p + 1..P /\ k # p)
    BY <1>p, <1>1
  <2>4. p \in p..P + 1 /\ P + 1 \in p..P + 1 /\ P + 1 # p
    BY <1>p, <1>1
  <2>. QED  BY <1>p, <1>3, <2>1, <2>2, <2>3, <2>4 DEF Cut, P, T
<1>. QED  BY <1>2, <1>3 DEF Matches, P, T

(* What match_pattern looks at from byte to byte. *)
LEMMA MatchesOn ==
  ASSUME NEW pattern \in Text, NEW text \in Text,
         NEW p \in 1..Len(pattern) + 1, NEW t \in 1..Len(text) + 1
  PROVE  Matches(pattern, text, p, t) <=>
           IF p > Len(pattern) THEN t > Len(text)
           ELSE IF pattern[p] = "*"
             THEN p = Len(pattern) \/ \E k \in t..Len(text) : Matches(pattern, text, p + 1, k)
             ELSE /\ t <= Len(text) /\ pattern[p] = text[t]
                  /\ Matches(pattern, text, p + 1, t + 1)
<1>1. Len(pattern) \in Nat /\ Len(text) \in Nat
  BY DEF Text
<1>2. CASE p > Len(pattern)
  <2>1. p = Len(pattern) + 1
    BY <1>1, <1>2
  <2>. QED  BY <1>2, <2>1, MatchesEnd
<1>3. CASE p <= Len(pattern) /\ pattern[p] = "*"
  <2>1. Matches(pattern, text, p, t) <=>
          \E u \in 1..Len(text) + 1 : Fits(pattern, text, p, t, u) /\ Matches(pattern, text, p + 1, u)
    BY <1>1, <1>3, MatchesFirst
  <2>2. CASE p = Len(pattern)
    <3>1. Len(text) + 1 \in 1..Len(text) + 1 /\ Len(text) + 1 > Len(text) /\ t <= Len(text) + 1
      BY <1>1
    <3>2. Fits(pattern, text, p, t, Len(text) + 1) /\ Matches(pattern, text, p + 1, Len(text) + 1)
      BY <1>3, <2>2, <3>1, MatchesEnd DEF Fits
    <3>. QED  BY <1>1, <1>3, <2>1, <2>2, <3>1, <3>2
  <2>3. CASE p # Len(pattern)
    <3>1. \A u \in 1..Len(text) + 1 : Fits(pattern, text, p, t, u) <=> u \in t..Len(text)
      BY <1>1, <1>3, <2>3 DEF Fits
    <3>2. \A u \in t..Len(text) : u \in 1..Len(text) + 1
      BY <1>1
    <3>. QED  BY <1>1, <1>3, <2>1, <2>3, <3>1, <3>2
  <2>. QED  BY <2>2, <2>3
<1>4. CASE p <= Len(pattern) /\ pattern[p] # "*"
  <2>1. Matches(pattern, text, p, t) <=>
          \E u \in 1..Len(text) + 1 : Fits(pattern, text, p, t, u) /\ Matches(pattern, text, p + 1, u)
    BY <1>1, <1>4, MatchesFirst
  <2>2. \A u \in 1..Len(text) + 1 : Fits(pattern, text, p, t, u) <=>
          u = t + 1 /\ t <= Len(text) /\ text[t] = pattern[p]
    BY <1>4 DEF Fits
  <2>3. t <= Len(text) => t + 1 \in 1..Len(text) + 1
    BY <1>1
  <2>. QED  BY <1>1, <1>4, <2>1, <2>2, <2>3
<1>. QED  BY <1>1, <1>2, <1>3, <1>4

(* The server's matching. *)
LEMMA ServerMatches ==
  ASSUME NEW pattern \in Text, NEW text \in Text
  PROVE  match_pattern(pattern, text) <=> Matches(pattern, text, 1, 1)
<1> DEFINE P == Len(pattern)
           T == Len(text)
           Solves(m) == m = [p \in 1..P + 1 |->
                               {t \in 1..T + 1 :
                                  IF p > P THEN t > T
                                  ELSE IF pattern[p] = "*"
                                    THEN p = P \/ \E k \in t..T : k \in m[p + 1]
                                    ELSE t <= T /\ pattern[p] = text[t] /\ t + 1 \in m[p + 1]}]
           w == [p \in 1..P + 1 |-> {t \in 1..T + 1 : Matches(pattern, text, p, t)}]
<1>1. P \in Nat /\ T \in Nat
  BY DEF Text
<1>2. \A p \in 1..P + 1, t \in 1..T + 1 :
        Matches(pattern, text, p, t) <=>
          IF p > P THEN t > T
          ELSE IF pattern[p] = "*"
            THEN p = P \/ \E k \in t..T : Matches(pattern, text, p + 1, k)
            ELSE t <= T /\ pattern[p] = text[t] /\ Matches(pattern, text, p + 1, t + 1)
  BY MatchesOn
<1>3. \A p \in 1..P + 1 : p <= P => p + 1 \in 1..P + 1
  BY <1>1
<1>4. \A t \in 1..T + 1 : (\A k \in t..T : k \in 1..T + 1) /\ (t <= T => t + 1 \in 1..T + 1)
  BY <1>1
<1> HIDE DEF P, T
<1>5. Solves(w)
  <2>1. ASSUME NEW p \in 1..P + 1
        PROVE  w[p] = {t \in 1..T + 1 :
                         IF p > P THEN t > T
                         ELSE IF pattern[p] = "*"
                           THEN p = P \/ \E k \in t..T : k \in w[p + 1]
                           ELSE t <= T /\ pattern[p] = text[t] /\ t + 1 \in w[p + 1]}
    <3>1. w[p] = {t \in 1..T + 1 : Matches(pattern, text, p, t)}
      OBVIOUS
    <3>2. p <= P => w[p + 1] = {t \in 1..T + 1 : Matches(pattern, text, p + 1, t)}
      BY <1>3
    <3> HIDE DEF w
    <3>3. ASSUME NEW t \in 1..T + 1
          PROVE  Matches(pattern, text, p, t) <=>
                   IF p > P THEN t > T
                   ELSE IF pattern[p] = "*"
                     THEN p = P \/ \E k \in t..T : k \in w[p + 1]
                     ELSE t <= T /\ pattern[p] = text[t] /\ t + 1 \in w[p + 1]
      <4>1. p > P \/ p <= P
        BY <1>1
      <4>. QED  BY <1>2, <1>4, <3>2, <4>1
    <3>. QED  BY <3>1, <3>3
  <2>. QED  BY <2>1
<1>6. PICK m : Solves(m) /\ (match_pattern(pattern, text) <=> 1 \in m[1])
  <2>1. Solves(CHOOSE m : Solves(m))
    <3> HIDE DEF Solves
    <3>. QED  BY <1>5, Zenon
  <2>2. match_pattern(pattern, text) <=> 1 \in (CHOOSE m : Solves(m))[1]
    BY Zenon DEF match_pattern, P, T
  <2> HIDE DEF Solves
  <2>. QED  BY <2>1, <2>2
<1>7. \A p \in 1..P + 1, t \in 1..T + 1 :
        t \in m[p] <=> IF p > P THEN t > T
                       ELSE IF pattern[p] = "*"
                         THEN p = P \/ \E k \in t..T : k \in m[p + 1]
                         ELSE t <= T /\ pattern[p] = text[t] /\ t + 1 \in m[p + 1]
  BY <1>6
<1> DEFINE S == {p \in 1..P + 1 : \A t \in 1..T + 1 : t \in m[p] <=> Matches(pattern, text, p, t)}
<1>8. ASSUME NEW p \in 1..P + 1, \A k \in p + 1..P + 1 : k \in S PROVE p \in S
  <2> SUFFICES ASSUME NEW t \in 1..T + 1 PROVE t \in m[p] <=> Matches(pattern, text, p, t)
    OBVIOUS
  <2>1. p <= P => \A u \in 1..T + 1 : u \in m[p + 1] <=> Matches(pattern, text, p + 1, u)
    BY <1>1, <1>8
  <2>2. p > P \/ p <= P
    BY <1>1
  <2>. QED  BY <1>2, <1>4, <1>7, <2>1, <2>2
<1>9. 1..P + 1 \subseteq S
  <2>1. P + 1 \in Nat
    BY <1>1
  <2> HIDE DEF S
  <2>. QED  BY <1>8, <2>1, FromTheEnd
<1>10. 1 \in 1..P + 1 /\ 1 \in 1..T + 1
  BY <1>1
<1>. QED  BY <1>6, <1>9, <1>10

(* Next_ finds the first such byte from a place on, or the place behind the text. *)
LEMMA NextPlace ==
  ASSUME NEW byte, NEW text \in Text, NEW from \in 1..Len(text) + 1
  PROVE  /\ Next_(byte, text, from) \in from..Len(text) + 1
         /\ \A k \in from..Next_(byte, text, from) - 1 : k \in 1..Len(text) /\ text[k] # byte
         /\ Next_(byte, text, from) <= Len(text) => text[Next_(byte, text, from)] = byte
<1> DEFINE places == {n \in from..Len(text) : text[n] = byte}
<1>1. Len(text) \in Nat
  BY DEF Text
<1>2. CASE places = {}
  <2>1. Next_(byte, text, from) = Len(text) + 1
    BY <1>2 DEF Next_
  <2>. QED  BY <1>1, <1>2, <2>1
<1>3. CASE places # {}
  <2>1. places \in SUBSET Nat
    BY <1>1
  <2>2. \E n \in places : \A k \in places : n <= k
    <3> HIDE DEF places
    <3>. QED  BY <1>3, <2>1, LeastNat
  <2>3. Next_(byte, text, from) = CHOOSE n \in places : \A k \in places : n <= k
    BY <1>3 DEF Next_
  <2>4. Next_(byte, text, from) \in places /\ \A k \in places : Next_(byte, text, from) <= k
    <3> HIDE DEF places
    <3>. QED  BY <2>2, <2>3
  <2>. QED  BY <1>1, <2>4
<1>. QED  BY <1>2, <1>3

(* A match cuts the text into the pieces that a reader of the pattern asks for. *)
LEMMA MatchedIsGlob ==
  ASSUME NEW pattern \in Text, NEW text \in Text, match_pattern(pattern, text)
  PROVE  Glob(pattern, text)
<1>1. PICK cut : Cut(cut, pattern, text, 1, 1)
  BY ServerMatches DEF Matches
<1>2. /\ cut \in [1..Len(pattern) + 1 -> 1..Len(text) + 1]
      /\ cut[1] = 1 /\ cut[Len(pattern) + 1] = Len(text) + 1
      /\ \A k \in 1..Len(pattern) : Fits(pattern, text, k, cut[k], cut[k + 1])
  BY <1>1 DEF Cut
<1>3. DOMAIN pattern = 1..Len(pattern)
  BY DEF Text
<1>4. \A k \in DOMAIN pattern :
        IF pattern[k] = "*" THEN cut[k] <= cut[k + 1]
        ELSE cut[k + 1] = cut[k] + 1 /\ text[cut[k]] = pattern[k]
  BY <1>2, <1>3 DEF Fits
<1>. QED  BY <1>2, <1>4 DEF Glob

(* A star that is not followed by a star never needs the rest of the text. *)
LEMMA GlobIsMatched ==
  ASSUME NEW pattern \in Text, NEW text \in Text, Glob(pattern, text),
         \A k \in DOMAIN pattern : pattern[k] = "*" /\ k > 1 => pattern[k - 1] # "*"
  PROVE  match_pattern(pattern, text)
<1>1. PICK cut \in [1..Len(pattern) + 1 -> 1..Len(text) + 1] :
        /\ cut[1] = 1 /\ cut[Len(pattern) + 1] = Len(text) + 1
        /\ \A k \in DOMAIN pattern :
             IF pattern[k] = "*" THEN cut[k] <= cut[k + 1]
             ELSE cut[k + 1] = cut[k] + 1 /\ text[cut[k]] = pattern[k]
  BY DEF Glob
<1>2. DOMAIN pattern = 1..Len(pattern) /\ Len(pattern) \in Nat /\ Len(text) \in Nat
  BY DEF Text
<1>3. ASSUME NEW k \in 1..Len(pattern) PROVE Fits(pattern, text, k, cut[k], cut[k + 1])
  <2>1. cut[k] \in 1..Len(text) + 1 /\ cut[k + 1] \in 1..Len(text) + 1
    BY <1>2
  <2>2. CASE pattern[k] # "*"
    <3>1. cut[k + 1] = cut[k] + 1 /\ text[cut[k]] = pattern[k]
      BY <1>1, <1>2, <2>2
    <3>2. cut[k] <= Len(text)
      BY <1>2, <2>1, <3>1
    <3>. QED  BY <2>2, <3>1, <3>2 DEF Fits
  <2>3. CASE pattern[k] = "*"
    <3>1. cut[k] <= cut[k + 1]
      BY <1>1, <1>2, <2>3
    <3>2. ASSUME k # Len(pattern) PROVE cut[k + 1] <= Len(text)
      <4>0. k \in Nat /\ 1 <= k /\ k < Len(pattern)
        <5>1. Len(pattern) \in Nat
          BY DEF Text
        <5>. QED  BY <3>2, <5>1
      <4>1. k + 1 \in 1..Len(pattern) /\ k + 1 > 1 /\ (k + 1) - 1 = k
            /\ k + 2 \in 1..Len(pattern) + 1 /\ k + 1 + 1 = k + 2
        BY <1>2, <4>0
      <4>2. pattern[k + 1] # "*"
        BY <1>2, <2>3, <4>1
      <4>3. cut[k + 2] = cut[k + 1] + 1
        BY <1>1, <1>2, <4>1, <4>2
      <4>4. cut[k + 2] \in 1..Len(text) + 1
        BY <4>1
      <4>. QED  BY <1>2, <2>1, <4>3, <4>4
    <3>. QED  BY <2>3, <3>1, <3>2 DEF Fits
  <2>. QED  BY <2>2, <2>3
<1>. QED  BY <1>1, <1>3, ServerMatches DEF Matches, Cut

-----------------------------------------------------------------------------
(* Paths. *)

LEMMA Bytes ==
  ASSUME NEW text \in Text
  PROVE  Len(text) \in Nat /\ DOMAIN text = 1..Len(text)
         /\ \A k \in 1..Len(text) : text[k] \in STRING
BY DEF Text

LEMMA PieceIs ==
  ASSUME NEW text \in Text, NEW a \in Nat \ {0}, NEW b \in Nat, a <= b + 1, b <= Len(text)
  PROVE  /\ SubSeq(text, a, b) \in Text /\ Len(SubSeq(text, a, b)) = b + 1 - a
         /\ \A k \in 1..b + 1 - a : SubSeq(text, a, b)[k] = text[a + k - 1]
<1>1. \A k \in a..b : k \in 1..Len(text)
  BY Bytes
<1>. QED  BY <1>1, Bytes DEF Text

LEMMA SameText ==
  ASSUME NEW s \in Text, NEW t \in Text, Len(s) = Len(t), \A k \in 1..Len(s) : s[k] = t[k]
  PROVE  s = t
BY SeqEqual, Bytes DEF Text

LEMMA StartsWithIs ==
  ASSUME NEW text \in Text, NEW prefix \in Text
  PROVE  StartsWith(text, prefix) <=>
           Len(prefix) <= Len(text) /\ \A k \in 1..Len(prefix) : text[k] = prefix[k]
<1>1. Len(text) \in Nat /\ Len(prefix) \in Nat
  BY Bytes
<1>2. ASSUME Len(prefix) <= Len(text)
      PROVE  /\ SubSeq(text, 1, Len(prefix)) \in Text
             /\ Len(SubSeq(text, 1, Len(prefix))) = Len(prefix)
             /\ \A k \in 1..Len(prefix) : SubSeq(text, 1, Len(prefix))[k] = text[k]
  <2>1. 1 <= Len(prefix) + 1 /\ Len(prefix) + 1 - 1 = Len(prefix) /\ 1 \in Nat \ {0}
        /\ \A k \in 1..Len(prefix) : 1 + k - 1 = k
    BY <1>1
  <2>. QED  BY <1>1, <1>2, <2>1, PieceIs
<1>. QED  BY <1>2, SameText DEF StartsWith

LEMMA NameIs ==
  ASSUME path \in Text
  PROVE  /\ Name = WithoutQuery(path)
         /\ Name \in Text /\ Len(Name) = Next_("?", path, 1) - 1
         /\ \A k \in 1..Len(Name) : Name[k] = path[k] /\ Name[k] # "?"
<1> DEFINE q == Next_("?", path, 1)
           name == SubSeq(path, 1, q - 1)
<1>1. Len(path) \in Nat /\ 1 \in 1..Len(path) + 1 /\ 1 \in Nat \ {0}
  BY DEF Text
<1>2. /\ q \in 1..Len(path) + 1
      /\ \A k \in 1..q - 1 : k \in 1..Len(path) /\ path[k] # "?"
      /\ q <= Len(path) => path[q] = "?"
  BY <1>1, NextPlace
<1> HIDE DEF q
<1>3. q - 1 \in Nat /\ 1 <= (q - 1) + 1 /\ q - 1 <= Len(path) /\ (q - 1) + 1 - 1 = q - 1
  BY <1>1, <1>2
<1>4. ASSUME NEW n \in 0..Len(path)
      PROVE  /\ SubSeq(path, 1, n) \in Text /\ Len(SubSeq(path, 1, n)) = n
             /\ DOMAIN SubSeq(path, 1, n) = 1..n
             /\ \A k \in 1..n : SubSeq(path, 1, n)[k] = path[k]
  <2>1. n \in Nat /\ 1 <= n + 1 /\ n <= Len(path) /\ n + 1 - 1 = n
        /\ \A k \in 1..n : 1 + k - 1 = k
    BY <1>1
  <2>2. /\ SubSeq(path, 1, n) \in Text /\ Len(SubSeq(path, 1, n)) = n
        /\ \A k \in 1..n : SubSeq(path, 1, n)[k] = path[k]
    BY <1>1, <2>1, PieceIs
  <2>. QED  BY <2>2, Bytes
<1>5. /\ name \in Text /\ Len(name) = q - 1 /\ DOMAIN name = 1..q - 1
      /\ \A k \in 1..q - 1 : name[k] = path[k]
  BY <1>1, <1>3, <1>4
<1> DEFINE Names == {SubSeq(path, 1, n) : n \in 0..Len(path)}
           IsName(text) == /\ \A k \in DOMAIN text : text[k] # "?"
                           /\ text = path \/ path[Len(text) + 1] = "?"
<1>6. name \in Names /\ IsName(name)
  <2>1. name \in Names
    BY <1>1, <1>3
  <2>2. \A k \in DOMAIN name : name[k] # "?"
    BY <1>2, <1>5
  <2>3. CASE q <= Len(path)
    <3>1. Len(name) + 1 = q
      BY <1>1, <1>2, <1>5
    <3>. QED  BY <1>2, <2>1, <2>2, <2>3, <3>1
  <2>4. CASE q > Len(path)
    <3>1. q - 1 = Len(path)
      BY <1>1, <1>2, <2>4
    <3>2. name = path
      <4> HIDE DEF name
      <4>. QED  BY <1>5, <3>1, SameText
    <3>. QED  BY <2>1, <2>2, <3>2
  <2>. QED  BY <1>1, <1>2, <2>3, <2>4
<1>7. ASSUME NEW n \in 0..Len(path), IsName(SubSeq(path, 1, n))
      PROVE  SubSeq(path, 1, n) = name
  <2>1. /\ \A k \in 1..n : path[k] # "?"
        /\ SubSeq(path, 1, n) = path \/ path[n + 1] = "?"
    BY <1>4, <1>7
  <2>2. ~(q <= n)
    BY <1>1, <1>2, <2>1
  <2>3. ~(n < q - 1)
    <3> SUFFICES ASSUME n < q - 1 PROVE FALSE
      OBVIOUS
    <3>1. n + 1 \in 1..q - 1 /\ n # Len(path)
      BY <1>1, <1>2
    <3>2. path[n + 1] # "?"
      BY <1>2, <3>1
    <3>. QED  BY <1>4, <2>1, <3>1, <3>2
  <2>4. n = q - 1
    BY <1>1, <1>2, <2>2, <2>3
  <2>. QED  BY <2>4
<1>8. Name = name
  <2>1. Name = CHOOSE text \in Names : IsName(text)
    BY DEF Name
  <2>2. \A text \in Names : IsName(text) => text = name
    BY <1>7
  <2> HIDE DEF Names, IsName, name
  <2>. QED  BY <1>6, <2>1, <2>2
<1>. QED  BY <1>2, <1>5, <1>8 DEF WithoutQuery, q

LEMMA SlashText == Slash \in Text /\ Len(Slash) = 1 /\ Slash[1] = "/"
<1>1. "/" \in STRING
  BY RoutingAssumption
<1>2. <<"/">> \in Seq(STRING) /\ Len(<<"/">>) = 1 /\ <<"/">>[1] = "/"
  BY <1>1
<1>. QED  BY <1>2 DEF Slash, Text

(* Where the endpoint ends in the path, for the code and for its readers. *)
LEMMA UnderIs ==
  ASSUME path \in Text, NEW endpoint \in Text
  PROVE  Under(endpoint) <=>
           IF endpoint = Slash THEN 1 <= Len(path) /\ path[1] = "/"
           ELSE /\ Len(endpoint) <= Len(path) /\ \A k \in 1..Len(endpoint) : path[k] = endpoint[k]
                /\ Len(endpoint) = Len(path) \/ path[Len(endpoint) + 1] = "/"
<1>1. Slash \in Text /\ Len(Slash) = 1 /\ Slash[1] = "/"
  BY SlashText
<1>2. CASE endpoint = Slash
  <2>1. StartsWith(path, Slash) <=> 1 <= Len(path) /\ \A k \in 1..1 : path[k] = Slash[k]
    <3>1. StartsWith(path, Slash) <=>
            Len(Slash) <= Len(path) /\ \A k \in 1..Len(Slash) : path[k] = Slash[k]
      BY <1>1, StartsWithIs
    <3>. QED  BY <1>1, <3>1
  <2>2. \A k \in 1..1 : k = 1
    OBVIOUS
  <2>. QED  BY <1>1, <1>2, <2>1, <2>2 DEF Under
<1>3. CASE endpoint # Slash
  <2>1. Len(path) \in Nat /\ Len(endpoint) \in Nat
    BY DEF Text
  <2>2. /\ path \o Slash \in Text /\ Len(path \o Slash) = Len(path) + 1
        /\ \A k \in 1..Len(path) + 1 : (path \o Slash)[k] = IF k <= Len(path) THEN path[k] ELSE "/"
    BY <1>1 DEF Text, Slash
  <2>3. /\ endpoint \o Slash \in Text /\ Len(endpoint \o Slash) = Len(endpoint) + 1
        /\ \A k \in 1..Len(endpoint) + 1 :
             (endpoint \o Slash)[k] = IF k <= Len(endpoint) THEN endpoint[k] ELSE "/"
    BY <1>1 DEF Text, Slash
  <2>4. Under(endpoint) <=>
          /\ Len(endpoint) + 1 <= Len(path) + 1
          /\ \A k \in 1..Len(endpoint) + 1 : (path \o Slash)[k] = (endpoint \o Slash)[k]
    <3>1. StartsWith(path \o Slash, endpoint \o Slash) <=>
            /\ Len(endpoint \o Slash) <= Len(path \o Slash)
            /\ \A k \in 1..Len(endpoint \o Slash) : (path \o Slash)[k] = (endpoint \o Slash)[k]
      BY <2>2, <2>3, StartsWithIs, Zenon
    <3>2. Under(endpoint) <=> StartsWith(path \o Slash, endpoint \o Slash)
      BY <1>3 DEF Under
    <3> DEFINE A == path \o Slash
               B == endpoint \o Slash
    <3>3. Len(A) = Len(path) + 1 /\ Len(B) = Len(endpoint) + 1
      BY <2>2, <2>3
    <3>4. Under(endpoint) <=> Len(B) <= Len(A) /\ \A k \in 1..Len(B) : A[k] = B[k]
      BY <3>1, <3>2
    <3> HIDE DEF A, B
    <3>5. Under(endpoint) <=> Len(endpoint) + 1 <= Len(path) + 1 /\ \A k \in 1..Len(endpoint) + 1 : A[k] = B[k]
      BY <3>3, <3>4
    <3>. QED  BY <3>5 DEF A, B
  <2>5. \A k \in 1..Len(endpoint) + 1 : k \in 1..Len(endpoint) \/ k = Len(endpoint) + 1
    BY <2>1
  <2>6. /\ \A k \in 1..Len(endpoint) : k \in 1..Len(endpoint) + 1 /\ k <= Len(endpoint)
        /\ Len(endpoint) + 1 \in 1..Len(endpoint) + 1 /\ ~(Len(endpoint) + 1 <= Len(endpoint))
    BY <2>1
  <2>7. ASSUME Len(endpoint) <= Len(path)
        PROVE  (\A k \in 1..Len(endpoint) + 1 : (path \o Slash)[k] = (endpoint \o Slash)[k]) <=>
                 /\ \A k \in 1..Len(endpoint) : path[k] = endpoint[k]
                 /\ Len(endpoint) = Len(path) \/ path[Len(endpoint) + 1] = "/"
    <3>1. \A k \in 1..Len(endpoint) : (path \o Slash)[k] = path[k] /\ (endpoint \o Slash)[k] = endpoint[k]
      <4> TAKE k \in 1..Len(endpoint)
      <4>1. k \in 1..Len(path) + 1 /\ k <= Len(path) /\ k <= Len(endpoint) /\ k \in 1..Len(endpoint) + 1
        BY <2>1, <2>7
      <4>. QED  BY <2>2, <2>3, <4>1
    <3>2. (endpoint \o Slash)[Len(endpoint) + 1] = "/"
      BY <2>3, <2>6
    <3>3. (path \o Slash)[Len(endpoint) + 1] =
             IF Len(endpoint) = Len(path) THEN "/" ELSE path[Len(endpoint) + 1]
      <4>1. Len(endpoint) + 1 \in 1..Len(path) + 1
            /\ (Len(endpoint) + 1 <= Len(path) <=> Len(endpoint) # Len(path))
        BY <2>1, <2>7
      <4>. QED  BY <2>2, <4>1
    <3> DEFINE A == path \o Slash
               B == endpoint \o Slash
    <3> HIDE DEF A, B
    <3>4. (\A k \in 1..Len(endpoint) + 1 : A[k] = B[k]) <=>
            (\A k \in 1..Len(endpoint) : A[k] = B[k]) /\ A[Len(endpoint) + 1] = B[Len(endpoint) + 1]
      BY <2>5, <2>6
    <3>. QED  BY <3>1, <3>2, <3>3, <3>4 DEF A, B
  <2>8. Len(endpoint) + 1 <= Len(path) + 1 <=> Len(endpoint) <= Len(path)
    BY <2>1
  <2>. QED  BY <1>3, <2>4, <2>7, <2>8
<1>. QED  BY <1>2, <1>3

(* A text without a question mark is its own part before the first one. *)
LEMMA WithoutQueryIs ==
  ASSUME NEW text \in Text, \A k \in 1..Len(text) : text[k] # "?"
  PROVE  WithoutQuery(text) = text
<1>1. Len(text) \in Nat /\ 1 \in 1..Len(text) + 1 /\ 1 \in Nat \ {0}
  BY DEF Text
<1>2. Next_("?", text, 1) = Len(text) + 1
  BY DEF Next_
<1>3. 1 <= Len(text) + 1 /\ Len(text) <= Len(text) /\ Len(text) + 1 - 1 = Len(text)
      /\ \A k \in 1..Len(text) : 1 + k - 1 = k
  BY <1>1
<1>4. /\ SubSeq(text, 1, Len(text)) \in Text /\ Len(SubSeq(text, 1, Len(text))) = Len(text)
      /\ \A k \in 1..Len(text) : SubSeq(text, 1, Len(text))[k] = text[k]
  BY <1>1, <1>3, PieceIs
<1>5. SubSeq(text, 1, Len(text)) = text
  BY <1>4, SameText
<1>. QED  BY <1>2, <1>3, <1>5 DEF WithoutQuery

(* The query is cut from the path and from what is left of it at one place. *)
LEMMA UnderWithin ==
  ASSUME path \in Text, NEW endpoint \in Text, \A k \in DOMAIN endpoint : endpoint[k] # "?",
         Under(endpoint)
  PROVE  /\ Within(endpoint) /\ Beyond(endpoint) \in Text
         /\ WithoutQuery(Rest(endpoint)) = Beyond(endpoint)
<1> DEFINE q == Next_("?", path, 1)
           E == Len(endpoint)
           L == Len(path)
<1>1. E \in Nat /\ L \in Nat /\ DOMAIN endpoint = 1..E /\ 1 \in 1..L + 1
  BY DEF Text
<1>2. /\ q \in 1..L + 1
      /\ \A k \in 1..q - 1 : k \in 1..L /\ path[k] # "?"
      /\ q <= L => path[q] = "?"
  BY <1>1, NextPlace
<1>3. /\ Name = WithoutQuery(path) /\ Name \in Text /\ Len(Name) = q - 1
      /\ \A k \in 1..q - 1 : Name[k] = path[k] /\ Name[k] # "?"
  BY NameIs
<1>4. /\ endpoint = Slash => 1 <= L /\ path[1] = "/"
      /\ endpoint # Slash => /\ E <= L /\ \A k \in 1..E : path[k] = endpoint[k]
                             /\ E = L \/ path[E + 1] = "/"
  BY UnderIs
<1> HIDE DEF q, E, L
<1>5. CASE endpoint = Slash
  <2>1. q # 1
    BY <1>1, <1>2, <1>4, <1>5
  <2>2. 1 <= q - 1 /\ 1 \in 1..q - 1 /\ \A k \in 1..1 : k = 1
    BY <1>1, <1>2, <2>1
  <2>3. StartsWith(Name, Slash)
    <3>1. StartsWith(Name, Slash) <=>
            Len(Slash) <= Len(Name) /\ \A k \in 1..Len(Slash) : Name[k] = Slash[k]
      BY <1>3, SlashText, StartsWithIs, Zenon
    <3>2. Name[1] = "/" /\ 1 <= Len(Name)
      BY <1>3, <1>4, <1>5, <2>2
    <3>3. Len(Slash) = 1 /\ Slash[1] = "/"
      BY SlashText
    <3>. QED  BY <2>2, <3>1, <3>2, <3>3
  <2>4. Rest(endpoint) = path
    <3>1. path # <<>>
      BY <1>1, <1>4, <1>5 DEF L
    <3>. QED  BY <1>5, <3>1 DEF Rest
  <2>. QED  BY <1>3, <1>5, <2>3, <2>4 DEF Within, Beyond
<1>6. CASE endpoint # Slash
  <2>1. ASSUME q <= E PROVE FALSE
    <3>1. q \in 1..E /\ q <= L
      BY <1>1, <1>2, <1>4, <1>6, <2>1
    <3>. QED  BY <1>1, <1>2, <1>4, <1>6, <3>1
  <2>2. E <= q - 1 /\ \A k \in 1..E : k \in 1..q - 1
    BY <1>1, <1>2, <2>1
  <2>3. CASE E = L
    <3>1. L = q - 1
      BY <1>1, <1>2, <2>2, <2>3
    <3>2. Name = endpoint
      <4>1. Len(Name) = Len(endpoint)
        BY <1>3, <2>3, <3>1 DEF E
      <4>2. \A k \in 1..Len(Name) : Name[k] = endpoint[k]
        BY <1>3, <1>4, <1>6, <2>3, <3>1
      <4>. QED  BY <1>3, <4>1, <4>2, SameText
    <3>3. After(path, E) = <<>>
      BY <1>1, <2>3 DEF After, L, Text
    <3>4. Rest(endpoint) = Slash
      BY <1>6, <3>3 DEF Rest, E
    <3>5. WithoutQuery(Slash) = Slash
      BY SlashText, WithoutQueryIs
    <3>. QED  BY <1>6, <3>2, <3>4, <3>5, SlashText DEF Within, Beyond
  <2>4. CASE E # L
    <3>1. E < L /\ path[E + 1] = "/" /\ q # E + 1
      BY <1>1, <1>2, <1>4, <1>6, <2>4
    <3>2. E + 1 <= q - 1 /\ E + 1 \in 1..q - 1 /\ q - 1 <= L
      BY <1>1, <1>2, <2>2, <3>1
    <3>3. Name[E + 1] = "/" /\ E + 1 \in DOMAIN Name
      BY <1>3, <3>1, <3>2, Bytes
    <3>4. SubSeq(Name, 1, E) = endpoint
      <4>1. 1 \in Nat \ {0} /\ 1 <= E + 1 /\ E + 1 - 1 = E /\ E <= Len(Name) /\ \A k \in 1..E : 1 + k - 1 = k
        BY <1>1, <1>3, <2>2
      <4>2. /\ SubSeq(Name, 1, E) \in Text /\ Len(SubSeq(Name, 1, E)) = E
            /\ \A k \in 1..E : SubSeq(Name, 1, E)[k] = Name[k]
        BY <1>1, <1>3, <4>1, PieceIs
      <4>3. \A k \in 1..E : SubSeq(Name, 1, E)[k] = endpoint[k]
        BY <1>3, <1>4, <1>6, <2>2, <4>2
      <4>. QED  BY <4>2, <4>3, SameText DEF E
    <3>5. Within(endpoint)
      <4>1. (E + 1) - 1 = E
        BY <1>1
      <4>. QED  BY <3>3, <3>4, <4>1 DEF Within
    <3> DEFINE rest == After(path, E)
               left == After(Name, E)
    <3>6. /\ rest \in Text /\ Len(rest) = L - E
          /\ \A k \in 1..L - E : rest[k] = path[E + k]
      <4>1. E + 1 \in Nat \ {0} /\ L \in Nat /\ E + 1 <= L + 1 /\ L <= Len(path) /\ L + 1 - (E + 1) = L - E
            /\ \A k \in 1..L - E : (E + 1) + k - 1 = E + k
        BY <1>1, <3>1 DEF L
      <4>2. /\ SubSeq(path, E + 1, L) \in Text /\ Len(SubSeq(path, E + 1, L)) = L - E
            /\ \A k \in 1..L - E : SubSeq(path, E + 1, L)[k] = path[E + k]
        BY <4>1, PieceIs
      <4>. QED  BY <4>2 DEF After, L
    <3>7. /\ left \in Text /\ Len(left) = (q - 1) - E
          /\ \A k \in 1..(q - 1) - E : left[k] = path[E + k]
      <4>1. E + 1 \in Nat \ {0} /\ q - 1 \in Nat /\ E + 1 <= (q - 1) + 1 /\ q - 1 <= Len(Name)
            /\ (q - 1) + 1 - (E + 1) = (q - 1) - E
            /\ \A k \in 1..(q - 1) - E : (E + 1) + k - 1 = E + k /\ E + k \in 1..q - 1
        BY <1>1, <1>3, <3>2
      <4>2. /\ SubSeq(Name, E + 1, q - 1) \in Text /\ Len(SubSeq(Name, E + 1, q - 1)) = (q - 1) - E
            /\ \A k \in 1..(q - 1) - E : SubSeq(Name, E + 1, q - 1)[k] = Name[E + k]
        BY <1>3, <4>1, PieceIs
      <4>. QED  BY <1>3, <4>1, <4>2 DEF After
    <3> HIDE DEF rest, left
    <3>8. Next_("?", rest, 1) = q - E
      <4> DEFINE r == Next_("?", rest, 1)
      <4>1. 1 \in 1..Len(rest) + 1
        BY <1>1, <3>1, <3>6
      <4>2. /\ r \in 1..Len(rest) + 1
            /\ \A k \in 1..r - 1 : k \in 1..Len(rest) /\ rest[k] # "?"
            /\ r <= Len(rest) => rest[r] = "?"
        BY <3>6, <4>1, NextPlace
      <4> HIDE DEF r
      <4>3. /\ r \in 1..L - E + 1
            /\ r <= L - E => path[E + r] = "?"
            /\ \A k \in 1..r - 1 : path[E + k] # "?"
        <5>1. r \in 1..L - E + 1 /\ \A k \in 1..r - 1 : k \in 1..L - E
          BY <1>1, <3>1, <3>6, <4>2
        <5>2. r <= L - E => r \in 1..L - E
          BY <1>1, <3>1, <5>1
        <5>3. r <= L - E => rest[r] = "?"
          BY <3>6, <4>2
        <5>. QED  BY <3>6, <4>2, <5>1, <5>2, <5>3
      <4>4. ASSUME r < q - E PROVE FALSE
        <5>1. r <= L - E /\ E + r \in 1..q - 1
          BY <1>1, <1>2, <3>1, <4>3, <4>4
        <5>. QED  BY <1>2, <4>3, <5>1
      <4>5. ASSUME q - E < r PROVE FALSE
        <5>1. q - E \in 1..r - 1 /\ q <= L /\ E + (q - E) = q
          BY <1>1, <1>2, <3>2, <4>3, <4>5
        <5>. QED  BY <1>2, <4>3, <5>1
      <4>6. r = q - E
        BY <1>1, <1>2, <4>3, <4>4, <4>5
      <4>. QED  BY <4>6 DEF r
    <3>9. SubSeq(rest, 1, q - E - 1) = left
      <4>1. 1 \in Nat \ {0} /\ q - E - 1 \in Nat /\ 1 <= (q - E - 1) + 1 /\ q - E - 1 <= Len(rest)
            /\ (q - E - 1) + 1 - 1 = (q - 1) - E
            /\ \A k \in 1..(q - 1) - E : 1 + k - 1 = k /\ k \in 1..L - E
        BY <1>1, <1>2, <3>1, <3>2, <3>6
      <4>2. /\ SubSeq(rest, 1, q - E - 1) \in Text /\ Len(SubSeq(rest, 1, q - E - 1)) = (q - 1) - E
            /\ \A k \in 1..(q - 1) - E : SubSeq(rest, 1, q - E - 1)[k] = rest[k]
        BY <3>6, <4>1, PieceIs
      <4>3. \A k \in 1..(q - 1) - E : SubSeq(rest, 1, q - E - 1)[k] = left[k]
        BY <3>6, <3>7, <4>1, <4>2
      <4>. QED  BY <3>7, <4>2, <4>3, SameText
    <3>10. Rest(endpoint) = rest
      <4>1. rest # <<>>
        BY <1>1, <3>1, <3>6
      <4>. QED  BY <1>6, <4>1 DEF Rest, rest, E
    <3>11. Beyond(endpoint) = left
      <4>1. Name # endpoint
        BY <1>1, <1>3, <3>2 DEF E
      <4>. QED  BY <1>6, <4>1 DEF Beyond, left, E
    <3>. QED  BY <3>5, <3>7, <3>8, <3>9, <3>10, <3>11 DEF WithoutQuery
  <2>. QED  BY <2>3, <2>4
<1>. QED  BY <1>5, <1>6

(* The code finds every such path but the one of the endpoint itself with a query. *)
LEMMA WithinUnder ==
  ASSUME path \in Text, NEW endpoint \in Text, Within(endpoint),
         Name = endpoint => Name \in {path, Slash}
  PROVE  Under(endpoint)
<1> DEFINE q == Next_("?", path, 1)
           E == Len(endpoint)
           L == Len(path)
<1>1. E \in Nat /\ L \in Nat /\ 1 \in 1..L + 1
  BY DEF Text
<1>2. /\ q \in 1..L + 1
      /\ \A k \in 1..q - 1 : k \in 1..L /\ path[k] # "?"
  BY <1>1, NextPlace
<1>3. /\ Name \in Text /\ Len(Name) = q - 1
      /\ \A k \in 1..q - 1 : Name[k] = path[k]
  BY NameIs
<1>4. Under(endpoint) <=>
           IF endpoint = Slash THEN 1 <= L /\ path[1] = "/"
           ELSE /\ E <= L /\ \A k \in 1..E : path[k] = endpoint[k]
                /\ E = L \/ path[E + 1] = "/"
  BY UnderIs
<1> HIDE DEF q, E, L
<1>5. CASE Name = endpoint /\ endpoint # Slash
  <2>1. path = endpoint
    BY <1>5
  <2>. QED  BY <1>1, <1>4, <1>5, <2>1 DEF E, L
<1>6. CASE Name = endpoint /\ endpoint = Slash
  <2>1. q = 2
    <3>1. Len(Name) = 1
      BY <1>6, SlashText
    <3>2. q \in Int
      BY <1>1, <1>2
    <3>3. q - 1 = 1
      BY <1>3, <3>1
    <3>. QED  BY <3>2, <3>3
  <2>2. 1 \in 1..q - 1
    BY <2>1
  <2>3. 1 <= L
    BY <1>1, <1>2, <2>1
  <2>. QED  BY <1>3, <1>4, <1>6, <2>2, <2>3, SlashText
<1>7. CASE endpoint = Slash /\ StartsWith(Name, Slash)
  <2>1. 1 <= Len(Name) /\ \A k \in 1..1 : Name[k] = Slash[k]
    <3>1. Slash \in Text /\ Len(Slash) = 1
      BY SlashText
    <3>2. Len(Slash) <= Len(Name) /\ \A k \in 1..Len(Slash) : Name[k] = Slash[k]
      BY <1>3, <1>7, <3>1, StartsWithIs
    <3>. QED  BY <3>1, <3>2
  <2>2. 1 \in 1..q - 1 /\ 1 \in 1..1
    BY <1>1, <1>2, <1>3, <2>1
  <2>3. path[1] = "/" /\ 1 <= L
    BY <1>1, <1>2, <1>3, <2>1, <2>2, SlashText
  <2>. QED  BY <1>4, <1>7, <2>3
<1>8. ASSUME NEW n \in DOMAIN Name, Name[n] = "/", SubSeq(Name, 1, n - 1) = endpoint
      PROVE  Under(endpoint)
  <2>1. n \in 1..q - 1
    BY <1>3, <1>8, Bytes
  <2>2. 1 \in Nat \ {0} /\ n - 1 \in Nat /\ 1 <= (n - 1) + 1 /\ n - 1 <= Len(Name) /\ (n - 1) + 1 - 1 = n - 1
        /\ \A k \in 1..n - 1 : 1 + k - 1 = k /\ k \in 1..q - 1
    BY <1>1, <1>2, <1>3, <2>1
  <2>3. /\ Len(SubSeq(Name, 1, n - 1)) = n - 1
        /\ \A k \in 1..n - 1 : SubSeq(Name, 1, n - 1)[k] = Name[k]
    BY <1>3, <2>2, PieceIs
  <2>4. E = n - 1 /\ \A k \in 1..E : path[k] = endpoint[k]
    BY <1>3, <1>8, <2>2, <2>3 DEF E
  <2>5. E + 1 = n /\ path[n] = "/" /\ E <= L
    BY <1>1, <1>2, <1>3, <1>8, <2>1, <2>4
  <2>6. CASE endpoint = Slash
    <3>1. E = 1
      BY <2>6, SlashText DEF E
    <3>2. 1 \in 1..E /\ 1 <= L
      BY <2>5, <3>1
    <3>. QED  BY <1>4, <2>4, <2>6, <3>2, SlashText
  <2>. QED  BY <1>4, <2>4, <2>5, <2>6
<1>. QED  BY <1>5, <1>6, <1>7, <1>8 DEF Within

-----------------------------------------------------------------------------
(* Forms. *)

LEMMA TextJoined ==
  ASSUME NEW s \in Text, NEW t \in Text
  PROVE  /\ s \o t \in Text /\ Len(s \o t) = Len(s) + Len(t)
         /\ \A k \in 1..Len(s) : (s \o t)[k] = s[k]
         /\ \A k \in 1..Len(t) : (s \o t)[Len(s) + k] = t[k]
<1>1. Len(s) \in Nat /\ Len(t) \in Nat
  BY DEF Text
<1>2. s \o t \in Text /\ Len(s \o t) = Len(s) + Len(t)
  BY DEF Text
<1>3. ASSUME NEW k \in 1..Len(s) PROVE (s \o t)[k] = s[k]
  <2>1. k \in 1..Len(s) + Len(t) /\ k <= Len(s)
    BY <1>1
  <2>. QED  BY <2>1 DEF Text
<1>4. ASSUME NEW k \in 1..Len(t) PROVE (s \o t)[Len(s) + k] = t[k]
  <2>1. Len(s) + k \in 1..Len(s) + Len(t) /\ ~(Len(s) + k <= Len(s)) /\ Len(s) + k - Len(s) = k
    BY <1>1
  <2>. QED  BY <2>1 DEF Text
<1>. QED  BY <1>2, <1>3, <1>4

LEMMA OneByte ==
  ASSUME NEW S, NEW b \in S
  PROVE  <<b>> \in Seq(S) /\ Len(<<b>>) = 1 /\ <<b>>[1] = b
OBVIOUS

LEMMA TwoBytes ==
  ASSUME NEW S, NEW b \in S, NEW c \in S
  PROVE  <<b, c>> \in Seq(S) /\ Len(<<b, c>>) = 2 /\ <<b, c>>[1] = b /\ <<b, c>>[2] = c
OBVIOUS

LEMMA EscapeIs ==
  /\ DOMAIN Escape = {"&", "=", "%", "+"}
  /\ Escape["&"] = <<"2", "6">> /\ Escape["="] = <<"3", "D">>
  /\ Escape["%"] = <<"2", "5">> /\ Escape["+"] = <<"2", "B">>
BY DEF Escape

(* A byte is sent as itself, a plus sign or an escape, and can be told from it. *)
LEMMA EncodedByteIs ==
  ASSUME NEW b \in STRING
  PROVE  /\ EncodedByte(b) \in Text
         /\ \A k \in 1..Len(EncodedByte(b)) : EncodedByte(b)[k] \notin {"&", "="}
         /\ \/ /\ Len(EncodedByte(b)) = 3 /\ EncodedByte(b)[1] = "%"
               /\ IsEscape(<<EncodedByte(b)[2], EncodedByte(b)[3]>>)
               /\ Unescape(<<EncodedByte(b)[2], EncodedByte(b)[3]>>) = b
            \/ /\ Len(EncodedByte(b)) = 1 /\ EncodedByte(b)[1] # "%"
               /\ b = IF EncodedByte(b)[1] = "+" THEN " " ELSE EncodedByte(b)[1]
<1>1. CASE b \in DOMAIN Escape
  <2> DEFINE Coded(x, y) == /\ Escape[b] = <<x, y>> /\ x \notin {"&", "="} /\ y \notin {"&", "="}
                            /\ \A c \in DOMAIN Escape : Escape[c] = <<x, y>> => c = b
  <2>1. PICK x \in STRING, y \in STRING : Coded(x, y)
    <3>1. b = "&" => Coded("2", "6")
      BY EscapeIs
    <3>2. b = "=" => Coded("3", "D")
      BY EscapeIs
    <3>3. b = "%" => Coded("2", "5")
      BY EscapeIs
    <3>4. b = "+" => Coded("2", "B")
      BY EscapeIs
    <3>5. {"2", "3", "5", "6", "B", "D"} \subseteq STRING
      BY RoutingAssumption
    <3>6. b = "&" \/ b = "=" \/ b = "%" \/ b = "+"
      BY <1>1, EscapeIs
    <3> HIDE DEF Coded
    <3>. QED  BY <3>1, <3>2, <3>3, <3>4, <3>5, <3>6
  <2> DEFINE s == <<"%">> \o Escape[b]
  <2>2. "%" \in STRING
    BY RoutingAssumption
  <2>3. /\ <<"%">> \in Text /\ Len(<<"%">>) = 1 /\ <<"%">>[1] = "%"
        /\ Escape[b] \in Text /\ Len(Escape[b]) = 2 /\ Escape[b][1] = x /\ Escape[b][2] = y
    <3>1. Escape[b] = <<x, y>>
      BY <2>1
    <3>2. /\ <<x, y>> \in Text /\ Len(<<x, y>>) = 2 /\ <<x, y>>[1] = x /\ <<x, y>>[2] = y
      BY TwoBytes DEF Text
    <3>3. <<"%">> \in Text /\ Len(<<"%">>) = 1 /\ <<"%">>[1] = "%"
      BY <2>2, OneByte DEF Text
    <3>. QED  BY <3>1, <3>2, <3>3
  <2>4. s \in Text /\ Len(s) = 3 /\ s[1] = "%" /\ s[2] = x /\ s[3] = y
    <3> DEFINE a == <<"%">>
               c == Escape[b]
    <3>1. a \in Text /\ Len(a) = 1 /\ a[1] = "%" /\ c \in Text /\ Len(c) = 2 /\ c[1] = x /\ c[2] = y
      BY <2>3
    <3> HIDE DEF a, c
    <3>2. /\ a \o c \in Text /\ Len(a \o c) = Len(a) + Len(c)
          /\ \A k \in 1..Len(a) : (a \o c)[k] = a[k]
          /\ \A k \in 1..Len(c) : (a \o c)[Len(a) + k] = c[k]
      BY <3>1, TextJoined, Zenon
    <3>3. 1 \in 1..Len(a) /\ 1 \in 1..Len(c) /\ 2 \in 1..Len(c)
          /\ Len(a) + 1 = 2 /\ Len(a) + 2 = 3 /\ Len(a) + Len(c) = 3
      BY <3>1
    <3>4. (a \o c)[1] = "%" /\ (a \o c)[2] = x /\ (a \o c)[3] = y
      BY <3>1, <3>2, <3>3, Zenon
    <3>. QED  BY <3>2, <3>3, <3>4 DEF a, c
  <2>6. EncodedByte(b) = s
    BY <1>1 DEF EncodedByte
  <2>7. IsEscape(<<x, y>>) /\ Unescape(<<x, y>>) = b
    BY <1>1, <2>1 DEF IsEscape, Unescape
  <2>8. \A k \in 1..3 : k = 1 \/ k = 2 \/ k = 3
    OBVIOUS
  <2> HIDE DEF s
  <2>. QED  BY <2>1, <2>4, <2>6, <2>7, <2>8
<1>2. CASE b \notin DOMAIN Escape
  <2> DEFINE c == IF b = " " THEN "+" ELSE b
  <2>1. c \in STRING /\ EncodedByte(b) = <<c>>
    BY <1>2, RoutingAssumption DEF EncodedByte
  <2>2. c # "%" /\ c \notin {"&", "="} /\ b = IF c = "+" THEN " " ELSE c
    BY <1>2, EscapeIs
  <2>3. <<c>> \in Text /\ Len(<<c>>) = 1 /\ <<c>>[1] = c
    BY <2>1, OneByte DEF Text
  <2>4. \A k \in 1..1 : k = 1
    OBVIOUS
  <2> HIDE DEF c
  <2>. QED  BY <2>1, <2>2, <2>3, <2>4
<1>. QED  BY <1>1, <1>2

(* Texts that are joined from pieces, the recursions of Encoded and FormText: e[n]
   is what the pieces from the n-th on make.                                  *)
Joins(e, N, pieces) ==
  /\ N \in Nat /\ pieces \in [1..N -> Text] /\ e \in [1..N + 1 -> Text]
  /\ e[N + 1] = <<>>
  /\ \A n \in 1..N : e[n] = pieces[n] \o e[n + 1]

LEMMA JoinsExists ==
  ASSUME NEW N \in Nat, NEW pieces \in [1..N -> Text]
  PROVE  \E e : Joins(e, N, pieces)
<1> DEFINE step == [n \in 1..N |-> [v \in Text |-> pieces[n] \o v]]
           none == <<>>
<1>1. Steps(N, Text, none, step)
  <2>1. <<>> \in Text
    BY DEF Text
  <2>2. \A n \in 1..N, v \in Text : pieces[n] \o v \in Text
    BY TextJoined
  <2>. QED  BY <2>1, <2>2 DEF Steps
<1>2. PICK e : SumsBack(e, N, Text, none, step)
  <2> HIDE DEF step, none
  <2>. QED  BY <1>1, Backwards
<1>3. e \in [1..N + 1 -> Text] /\ e[N + 1] = <<>> /\ \A n \in 1..N : e[n] = step[n][e[n + 1]]
  BY <1>2 DEF SumsBack
<1>4. \A n \in 1..N : n + 1 \in 1..N + 1 /\ e[n + 1] \in Text
  BY <1>3
<1>. QED  BY <1>3, <1>4 DEF Joins

LEMMA JoinsUnfolded ==
  ASSUME NEW N \in Nat, NEW pieces \in [1..N -> Text], NEW e,
         e = [n \in 1..N + 1 |-> IF n > N THEN <<>> ELSE pieces[n] \o e[n + 1]]
  PROVE  Joins(e, N, pieces)
<1>1. /\ DOMAIN e = 1..N + 1 /\ e = [n \in 1..N + 1 |-> e[n]] /\ e[N + 1] = <<>>
      /\ \A n \in 1..N : e[n] = pieces[n] \o e[n + 1]
  <2>1. N + 1 \in 1..N + 1 /\ N + 1 > N /\ \A n \in 1..N : n \in 1..N + 1 /\ ~(n > N)
    OBVIOUS
  <2>. QED  BY <2>1
<1> DEFINE S == {n \in 1..N + 1 : e[n] \in Text}
<1>2. ASSUME NEW n \in 1..N + 1, \A k \in n + 1..N + 1 : k \in S PROVE n \in S
  <2>1. CASE n = N + 1
    <3>1. <<>> \in Text
      BY DEF Text
    <3>. QED  BY <1>1, <2>1, <3>1
  <2>2. CASE n # N + 1
    <3>1. n \in 1..N /\ n + 1 \in n + 1..N + 1
      BY <2>2
    <3>2. e[n + 1] \in Text /\ pieces[n] \in Text
      BY <1>2, <3>1
    <3>3. pieces[n] \o e[n + 1] \in Text
      BY <3>2, TextJoined
    <3>. QED  BY <1>1, <3>1, <3>3
  <2>. QED  BY <2>1, <2>2
<1>3. 1..N + 1 \subseteq S
  <2>1. N + 1 \in Nat
    OBVIOUS
  <2> HIDE DEF S
  <2>. QED  BY <1>2, <2>1, FromTheEnd
<1>. QED  BY <1>1, <1>3 DEF Joins

(* Where a piece and what follows it stand in the whole. *)
Offset(e, n) == Len(e[1]) - Len(e[n])

LEMMA JoinsAt ==
  ASSUME NEW e, NEW N, NEW pieces, Joins(e, N, pieces), NEW n \in 1..N + 1
  PROVE  /\ Offset(e, n) \in 0..Len(e[1]) /\ Offset(e, 1) = 0
         /\ \A k \in 1..Len(e[n]) : e[1][Offset(e, n) + k] = e[n][k]
<1>1. N \in Nat /\ e \in [1..N + 1 -> Text] /\ pieces \in [1..N -> Text]
      /\ \A m \in 1..N : e[m] = pieces[m] \o e[m + 1]
  BY DEF Joins
<1>2. \A m \in 1..N + 1 : Len(e[m]) \in Nat
  BY <1>1, Bytes
<1>3. 1 \in 1..N + 1
  BY <1>1
<1> DEFINE At(m) == /\ Offset(e, m) \in 0..Len(e[1])
                    /\ \A k \in 1..Len(e[m]) : e[1][Offset(e, m) + k] = e[m][k]
           S == {m \in 0..N : At(m + 1)}
<1>4. Offset(e, 1) = 0 /\ At(1)
  <2>1. Offset(e, 1) = 0
    BY <1>2, <1>3 DEF Offset
  <2>2. \A k \in 1..Len(e[1]) : 0 + k = k
    BY <1>2, <1>3
  <2>. QED  BY <1>2, <1>3, <2>1, <2>2
<1>5. ASSUME NEW m \in 0..N - 1, m \in S PROVE m + 1 \in S
  <2>1. m + 1 \in 1..N /\ m + 2 \in 1..N + 1 /\ (m + 1) + 1 = m + 2 /\ m + 1 \in 0..N
        /\ m + 1 \in 1..N + 1
    BY <1>1
  <2> DEFINE a == pieces[m + 1]
             b == e[m + 2]
             c == e[m + 1]
  <2>2. a \in Text /\ b \in Text /\ c = a \o b
    BY <1>1, <2>1
  <2>3. At(m + 1)
    BY <1>5
  <2>d. Offset(e, m + 1) = Len(e[1]) - Len(c) /\ Offset(e, m + 2) = Len(e[1]) - Len(b)
        /\ \A k \in 1..Len(c) : e[1][Offset(e, m + 1) + k] = c[k]
        /\ Offset(e, m + 1) \in 0..Len(e[1])
    BY <2>3 DEF Offset
  <2> HIDE DEF a, b, c
  <2>4. /\ Len(c) = Len(a) + Len(b) /\ Len(a) \in Nat /\ Len(b) \in Nat /\ Len(e[1]) \in Nat
        /\ \A k \in 1..Len(b) : c[Len(a) + k] = b[k]
    BY <1>2, <1>3, <2>2, TextJoined, Bytes
  <2>5. Offset(e, m + 2) = Offset(e, m + 1) + Len(a) /\ Offset(e, m + 2) \in 0..Len(e[1])
    <3>1. Offset(e, m + 1) = Len(e[1]) - Len(c) /\ Offset(e, m + 2) = Len(e[1]) - Len(b)
      BY <2>d
    <3>2. Len(c) = Len(a) + Len(b) /\ Len(a) \in Nat /\ Len(b) \in Nat /\ Len(e[1]) \in Nat
      BY <2>4
    <3> DEFINE l == Len(e[1])
               o1 == Offset(e, m + 1)
               o2 == Offset(e, m + 2)
    <3>3. o1 = l - Len(c) /\ o2 = l - Len(b) /\ o1 \in 0..l /\ l \in Nat
      BY <2>d, <3>1, <3>2
    <3> HIDE DEF l, o1, o2
    <3>4. o2 = o1 + Len(a) /\ o2 \in 0..l
      BY <3>2, <3>3
    <3>. QED  BY <3>4 DEF l, o1, o2
  <2>6. ASSUME NEW k \in 1..Len(b) PROVE e[1][Offset(e, m + 2) + k] = b[k]
    <3>1. Len(a) + k \in 1..Len(c) /\ Offset(e, m + 2) + k = Offset(e, m + 1) + (Len(a) + k)
      BY <2>d, <2>4, <2>5
    <3>. QED  BY <2>d, <2>4, <3>1
  <2>7. At(m + 2)
    BY <2>5, <2>6 DEF b
  <2>. QED  BY <2>1, <2>7
<1>6. 0..N \subseteq S
  <2>1. 0 \in S
    <3>1. 0 \in 0..N /\ 0 + 1 = 1
      BY <1>1
    <3> HIDE DEF At
    <3>. QED  BY <1>4, <3>1
  <2> HIDE DEF S
  <2>. QED  BY <1>1, <1>5, <2>1, Upwards
<1>7. n - 1 \in 0..N /\ (n - 1) + 1 = n
  BY <1>1
<1>8. At(n)
  <2> HIDE DEF At
  <2>. QED  BY <1>6, <1>7
<1>. QED  BY <1>4, <1>8

LEMMA EncodedIs ==
  ASSUME NEW x \in Text
  PROVE  \E e : Encoded(x) = e[1] /\ Joins(e, Len(x), [n \in 1..Len(x) |-> EncodedByte(x[n])])
<1> DEFINE N == Len(x)
           pieces == [n \in 1..N |-> EncodedByte(x[n])]
           Solves(f) == f = [n \in 1..N + 1 |->
                               IF n > N THEN <<>> ELSE EncodedByte(x[n]) \o f[n + 1]]
<1>1. N \in Nat /\ \A n \in 1..N : x[n] \in STRING
  BY DEF Text
<1> HIDE DEF N
<1>2. pieces \in [1..N -> Text]
  BY <1>1, EncodedByteIs
<1>3. \A n \in 1..N + 1 : (n > N /\ n = N + 1) \/ (~(n > N) /\ n \in 1..N)
  BY <1>1
<1>4. \E f : Solves(f)
  <2>1. PICK f : Joins(f, N, pieces)
    <3> HIDE DEF pieces
    <3>. QED  BY <1>1, <1>2, JoinsExists
  <2>2. \A n \in 1..N + 1 : f[n] = IF n > N THEN <<>> ELSE EncodedByte(x[n]) \o f[n + 1]
    BY <1>3, <2>1 DEF Joins
  <2>3. f \in [1..N + 1 -> Text]
    BY <2>1 DEF Joins
  <2>. QED  BY <2>2, <2>3
<1>5. PICK e : Solves(e) /\ Encoded(x) = e[1]
  <2>1. Encoded(x) = (CHOOSE e : Solves(e))[1]
    BY Zenon DEF Encoded, N
  <2> HIDE DEF Solves
  <2>2. Solves(CHOOSE e : Solves(e))
    BY <1>4, Zenon
  <2>. QED  BY <2>1, <2>2
<1>6. e = [n \in 1..N + 1 |-> IF n > N THEN <<>> ELSE pieces[n] \o e[n + 1]]
  BY <1>3, <1>5
<1>7. Joins(e, N, pieces)
  <2> HIDE DEF pieces
  <2>. QED  BY <1>1, <1>2, <1>6, JoinsUnfolded
<1>. QED  BY <1>5, <1>7 DEF N

(* Decoding by its recursion. *)
Escaped(s, n) == s[n] = "%" /\ n + 2 <= Len(s) /\ IsEscape(<<s[n + 1], s[n + 2]>>)

Decodes(d, s) ==
  /\ d \in [1..Len(s) + 1 -> Text] /\ d[Len(s) + 1] = <<>>
  /\ \A n \in 1..Len(s) :
       d[n] = IF Escaped(s, n) THEN <<Unescape(<<s[n + 1], s[n + 2]>>)>> \o d[n + 3]
              ELSE <<IF s[n] = "+" THEN " " ELSE s[n]>> \o d[n + 1]

LEMMA DecodeIs ==
  ASSUME NEW s \in Text
  PROVE  \E d : Decodes(d, s) /\ urlDecode(s) = d[1]
<1> DEFINE N == Len(s)
           byte(n) == IF Escaped(s, n) THEN Unescape(<<s[n + 1], s[n + 2]>>)
                      ELSE IF s[n] = "+" THEN " " ELSE s[n]
           next(n) == IF Escaped(s, n) THEN n + 3 ELSE n + 1
           Solves(f) == f = [n \in 1..N + 1 |->
                               IF n > N THEN <<>>
                               ELSE IF s[n] = "%" /\ n + 2 <= N /\ IsEscape(<<s[n + 1], s[n + 2]>>)
                                 THEN <<Unescape(<<s[n + 1], s[n + 2]>>)>> \o f[n + 3]
                                 ELSE <<IF s[n] = "+" THEN " " ELSE s[n]>> \o f[n + 1]]
           D == 1..N + 1
           given == {N + 1}
           value == [n \in D |-> <<>>]
           rank == [n \in D |-> N + 1 - n]
           previous == [n \in D \ given |-> next(n)]
           step == [n \in D \ given |-> [v \in Text |-> <<byte(n)>> \o v]]
<1>1. N \in Nat /\ \A n \in 1..N : s[n] \in STRING
  BY DEF Text
<1>2. <<>> \in Text
  BY DEF Text
<1>3. \A n \in 1..N : Escaped(s, n) => n + 2 <= N
  BY DEF Escaped
<1>4. \A n \in 1..N : byte(n) \in STRING
  <2>1. ASSUME NEW n \in 1..N, Escaped(s, n) PROVE Unescape(<<s[n + 1], s[n + 2]>>) \in STRING
    <3>1. \E b \in DOMAIN Escape : Escape[b] = <<s[n + 1], s[n + 2]>>
      BY <2>1 DEF Escaped, IsEscape
    <3>2. Unescape(<<s[n + 1], s[n + 2]>>) \in DOMAIN Escape
      BY <3>1 DEF Unescape
    <3>. QED  BY <3>2, EscapeIs, RoutingAssumption
  <2>2. " " \in STRING
    BY RoutingAssumption
  <2>. QED  BY <1>1, <2>1, <2>2
<1>n. \A n \in 1..N : next(n) \in n + 1..N + 1
  BY <1>1, <1>3
<1>w. \A n \in 1..N, v \in Text : <<byte(n)>> \o v \in Text
  <2> HIDE DEF byte
  <2>1. \A n \in 1..N : <<byte(n)>> \in Text
    BY <1>4, OneByte DEF Text
  <2>. QED  BY <2>1, TextJoined
<1>u. \A f, n : n \in 1..N =>
        (IF s[n] = "%" /\ n + 2 <= N /\ IsEscape(<<s[n + 1], s[n + 2]>>)
           THEN <<Unescape(<<s[n + 1], s[n + 2]>>)>> \o f[n + 3]
           ELSE <<IF s[n] = "+" THEN " " ELSE s[n]>> \o f[n + 1])
        = <<byte(n)>> \o f[next(n)]
  BY DEF Escaped
<1> HIDE DEF N, byte, next
<1>5. D \ given = 1..N /\ given \subseteq D /\ N + 1 \in D
  BY <1>1
<1>6. Recurs(D, Text, given, value, N + 1, rank, previous, step)
  <2>1. value \in [D -> Text]
    BY <1>2
  <2>2. rank \in [D -> 0..N + 1] /\ N + 1 \in Nat
    BY <1>1
  <2>3. previous \in [D \ given -> D]
    <3>1. \A n \in 1..N : next(n) \in D
      BY <1>1, <1>n
    <3> HIDE DEF D, given
    <3>. QED  BY <1>5, <3>1
  <2>4. step \in [D \ given -> [Text -> Text]]
    BY <1>5, <1>w
  <2>5. \A d \in D \ given : rank[previous[d]] < rank[d]
    <3> TAKE d \in D \ given
    <3>1. d \in 1..N /\ next(d) \in d + 1..N + 1
      BY <1>5, <1>n
    <3>2. rank[d] = N + 1 - d /\ rank[previous[d]] = N + 1 - next(d)
      BY <1>1, <3>1
    <3>. QED  BY <1>1, <3>1, <3>2
  <2> HIDE DEF D, given, value, rank, previous, step
  <2>. QED  BY <1>5, <2>1, <2>2, <2>3, <2>4, <2>5 DEF Recurs
<1>7. PICK f : Solution(f, D, Text, given, value, previous, step)
  <2> HIDE DEF D, given, value, rank, previous, step
  <2>. QED  BY <1>6, Recursion
<1>8. f \in [1..N + 1 -> Text] /\ f[N + 1] = <<>>
      /\ \A n \in 1..N : f[n] = <<byte(n)>> \o f[next(n)]
  <2>1. f \in [1..N + 1 -> Text] /\ f[N + 1] = <<>>
    BY <1>5, <1>7 DEF Solution
  <2>2. ASSUME NEW n \in 1..N PROVE f[n] = <<byte(n)>> \o f[next(n)]
    <3>1. n \in D \ given /\ next(n) \in 1..N + 1
      BY <1>1, <1>5, <1>n
    <3>2. previous[n] = next(n) /\ step[n] = [v \in Text |-> <<byte(n)>> \o v]
      BY <3>1
    <3>3. f[n] = step[n][f[previous[n]]]
      <4> HIDE DEF D, given, value, previous, step
      <4>. QED  BY <1>7, <3>1 DEF Solution
    <3>4. f[next(n)] \in Text
      BY <2>1, <3>1
    <3>. QED  BY <3>2, <3>3, <3>4
  <2>. QED  BY <2>1, <2>2
<1>s. \A n \in 1..N + 1 : (n > N /\ n = N + 1) \/ (~(n > N) /\ n \in 1..N)
  BY <1>1
<1> DEFINE line(g, n) == IF s[n] = "%" /\ n + 2 <= N /\ IsEscape(<<s[n + 1], s[n + 2]>>)
                           THEN <<Unescape(<<s[n + 1], s[n + 2]>>)>> \o g[n + 3]
                           ELSE <<IF s[n] = "+" THEN " " ELSE s[n]>> \o g[n + 1]
<1>l. \A g : \A n \in 1..N : line(g, n) = <<byte(n)>> \o g[next(n)]
  BY <1>u
<1>9. Solves(f)
  <2> HIDE DEF line
  <2>1. \A n \in 1..N + 1 : f[n] = IF n > N THEN <<>> ELSE line(f, n)
    BY <1>8, <1>s, <1>l
  <2>2. f = [n \in 1..N + 1 |-> IF n > N THEN <<>> ELSE line(f, n)]
    BY <1>8, <2>1
  <2>. QED  BY <2>2 DEF line
<1>10. PICK d : Solves(d) /\ urlDecode(s) = d[1]
  <2>1. urlDecode(s) = (CHOOSE d : Solves(d))[1]
    BY Zenon DEF urlDecode, N
  <2> HIDE DEF Solves
  <2>2. Solves(CHOOSE d : Solves(d))
    BY <1>9, Zenon
  <2>. QED  BY <2>1, <2>2
<1>11. d = [n \in 1..N + 1 |-> IF n > N THEN <<>> ELSE line(d, n)]
  BY <1>10
<1>12. /\ DOMAIN d = 1..N + 1 /\ d = [n \in 1..N + 1 |-> d[n]] /\ d[N + 1] = <<>>
       /\ \A n \in 1..N : d[n] = <<byte(n)>> \o d[next(n)]
  <2> HIDE DEF line
  <2>1. N + 1 \in 1..N + 1 /\ N + 1 > N /\ \A n \in 1..N : n \in 1..N + 1 /\ ~(n > N)
    BY <1>1
  <2>2. DOMAIN d = 1..N + 1 /\ d = [n \in 1..N + 1 |-> d[n]]
        /\ \A n \in 1..N + 1 : d[n] = IF n > N THEN <<>> ELSE line(d, n)
    BY <1>11
  <2>. QED  BY <1>l, <2>1, <2>2
<1> DEFINE S == {n \in 1..N + 1 : d[n] \in Text}
<1>13. ASSUME NEW n \in 1..N + 1, \A k \in n + 1..N + 1 : k \in S PROVE n \in S
  <2>1. CASE n = N + 1
    BY <1>2, <1>12, <2>1
  <2>2. CASE n # N + 1
    <3>1. n \in 1..N /\ next(n) \in n + 1..N + 1
      BY <1>1, <1>n, <2>2
    <3>2. d[next(n)] \in Text
      BY <1>13, <3>1
    <3>. QED  BY <1>12, <1>w, <3>1, <3>2
  <2>. QED  BY <2>1, <2>2
<1>14. 1..N + 1 \subseteq S
  <2>1. N + 1 \in Nat
    BY <1>1
  <2> HIDE DEF S
  <2>. QED  BY <1>13, <2>1, FromTheEnd
<1>15. Decodes(d, s)
  <2>1. d \in [1..N + 1 -> Text]
    BY <1>12, <1>14
  <2>2. ASSUME NEW n \in 1..N
        PROVE  d[n] = IF Escaped(s, n) THEN <<Unescape(<<s[n + 1], s[n + 2]>>)>> \o d[n + 3]
                      ELSE <<IF s[n] = "+" THEN " " ELSE s[n]>> \o d[n + 1]
    BY <1>12 DEF byte, next
  <2>. QED  BY <1>12, <2>1, <2>2 DEF Decodes, N
<1>. QED  BY <1>10, <1>15

(* No sign and no ampersand is left in what is sent for a text. *)
LEMMA EncodedIsPlain ==
  ASSUME NEW x \in Text
  PROVE  Encoded(x) \in Text /\ \A k \in 1..Len(Encoded(x)) : Encoded(x)[k] \notin {"&", "="}
<1> DEFINE N == Len(x)
           pieces == [n \in 1..N |-> EncodedByte(x[n])]
<1>1. N \in Nat /\ \A n \in 1..N : x[n] \in STRING
  BY DEF Text
<1>2. PICK e : Encoded(x) = e[1] /\ Joins(e, N, pieces)
  BY EncodedIs
<1>3. /\ e \in [1..N + 1 -> Text] /\ e[N + 1] = <<>>
      /\ \A n \in 1..N : e[n] = EncodedByte(x[n]) \o e[n + 1]
  BY <1>2 DEF Joins
<1> HIDE DEF N, pieces
<1> DEFINE Plain(s) == \A k \in 1..Len(s) : s[k] \notin {"&", "="}
           S == {n \in 1..N + 1 : Plain(e[n])}
<1>4. ASSUME NEW n \in 1..N + 1, \A k \in n + 1..N + 1 : k \in S PROVE n \in S
  <2>1. CASE n = N + 1
    BY <1>3, <2>1
  <2>2. CASE n # N + 1
    <3> DEFINE a == EncodedByte(x[n])
               b == e[n + 1]
    <3>1. n \in 1..N /\ n + 1 \in n + 1..N + 1 /\ n + 1 \in 1..N + 1
      BY <1>1, <2>2
    <3>2. a \in Text /\ b \in Text /\ Plain(a) /\ Plain(b) /\ e[n] = a \o b
      BY <1>1, <1>3, <1>4, <3>1, EncodedByteIs
    <3> HIDE DEF a, b
    <3>3. /\ Len(a \o b) = Len(a) + Len(b) /\ Len(a) \in Nat /\ Len(b) \in Nat
          /\ \A k \in 1..Len(a) : (a \o b)[k] = a[k]
          /\ \A k \in 1..Len(b) : (a \o b)[Len(a) + k] = b[k]
      BY <3>2, TextJoined, Bytes
    <3>4. ASSUME NEW k \in 1..Len(a \o b) PROVE (a \o b)[k] \notin {"&", "="}
      <4>1. CASE k <= Len(a)
        <5>1. k \in 1..Len(a)
          BY <3>3, <4>1
        <5>. QED  BY <3>2, <3>3, <5>1
      <4>2. CASE k > Len(a)
        <5>1. k - Len(a) \in 1..Len(b) /\ Len(a) + (k - Len(a)) = k
          BY <3>3, <4>2
        <5>. QED  BY <3>2, <3>3, <5>1
      <4>. QED  BY <3>3, <4>1, <4>2
    <3>5. Plain(e[n])
      BY <3>2, <3>4
    <3>. QED  BY <3>5
  <2>. QED  BY <2>1, <2>2
<1>5. 1..N + 1 \subseteq S
  <2>1. N + 1 \in Nat
    BY <1>1
  <2> HIDE DEF S
  <2>. QED  BY <1>4, <2>1, FromTheEnd
<1>6. 1 \in 1..N + 1
  BY <1>1
<1>. QED  BY <1>2, <1>3, <1>5, <1>6

(* Every text comes out of its encoding. *)
LEMMA DecodedIsText ==
  ASSUME NEW x \in Text
  PROVE  urlDecode(Encoded(x)) = x
<1> DEFINE N == Len(x)
           pieces == [n \in 1..N |-> EncodedByte(x[n])]
           s == Encoded(x)
<1>1. N \in Nat /\ \A n \in 1..N : x[n] \in STRING
  BY DEF Text
<1>2. PICK e : s = e[1] /\ Joins(e, N, pieces)
  BY EncodedIs
<1>3. /\ e \in [1..N + 1 -> Text] /\ e[N + 1] = <<>>
      /\ \A n \in 1..N : e[n] = EncodedByte(x[n]) \o e[n + 1]
  BY <1>2 DEF Joins
<1>4. \A n \in 1..N + 1 :
        /\ Offset(e, n) \in 0..Len(s) /\ Offset(e, 1) = 0 /\ Offset(e, n) = Len(s) - Len(e[n])
        /\ \A k \in 1..Len(e[n]) : s[Offset(e, n) + k] = e[n][k]
  <2> TAKE n \in 1..N + 1
  <2>1. /\ Offset(e, n) \in 0..Len(e[1]) /\ Offset(e, 1) = 0
        /\ \A k \in 1..Len(e[n]) : e[1][Offset(e, n) + k] = e[n][k]
    <3> HIDE DEF N, pieces
    <3>. QED  BY <1>2, JoinsAt
  <2>2. Offset(e, n) = Len(e[1]) - Len(e[n]) /\ e[1] = s
    BY <1>2 DEF Offset
  <2> HIDE DEF s
  <2>. QED  BY <2>1, <2>2
<1>5. s \in Text /\ Len(s) \in Nat
  BY EncodedIsPlain, Bytes
<1> HIDE DEF N, pieces, s
<1>6. PICK d : Decodes(d, s) /\ urlDecode(s) = d[1]
  BY <1>5, DecodeIs
<1>7. /\ d \in [1..Len(s) + 1 -> Text] /\ d[Len(s) + 1] = <<>>
      /\ \A n \in 1..Len(s) :
           d[n] = IF Escaped(s, n) THEN <<Unescape(<<s[n + 1], s[n + 2]>>)>> \o d[n + 3]
                  ELSE <<IF s[n] = "+" THEN " " ELSE s[n]>> \o d[n + 1]
  BY <1>6 DEF Decodes
<1> DEFINE Ends(n) == /\ Len(d[Offset(e, n) + 1]) = N + 1 - n
                      /\ \A k \in 1..N + 1 - n : d[Offset(e, n) + 1][k] = x[n + k - 1]
           S == {n \in 1..N + 1 : Ends(n)}
<1>8. ASSUME NEW n \in 1..N + 1, \A k \in n + 1..N + 1 : k \in S PROVE n \in S
  <2>1. CASE n = N + 1
    <3>1. e[n] = <<>> /\ Offset(e, n) = Len(s)
      BY <1>3, <1>4, <1>5, <2>1
    <3>2. d[Offset(e, n) + 1] = <<>>
      BY <1>7, <3>1
    <3>3. N + 1 - n = 0
      BY <1>1, <2>1
    <3>. QED  BY <3>2, <3>3
  <2>2. CASE n # N + 1
    <3> DEFINE a == EncodedByte(x[n])
               b == e[n + 1]
               o == Offset(e, n)
               p == Offset(e, n + 1)
               later == d[p + 1]
    <3>1. n \in 1..N /\ n + 1 \in n + 1..N + 1 /\ n + 1 \in 1..N + 1
      BY <1>1, <2>2
    <3>2. /\ a \in Text /\ b \in Text /\ e[n] = a \o b
          /\ \/ /\ Len(a) = 3 /\ a[1] = "%"
                /\ IsEscape(<<a[2], a[3]>>) /\ Unescape(<<a[2], a[3]>>) = x[n]
             \/ /\ Len(a) = 1 /\ a[1] # "%"
                /\ x[n] = IF a[1] = "+" THEN " " ELSE a[1]
      BY <1>1, <1>3, <3>1, EncodedByteIs
    <3>3. /\ o \in 0..Len(s) /\ o = Len(s) - Len(e[n]) /\ p \in 0..Len(s) /\ p = Len(s) - Len(b)
          /\ \A k \in 1..Len(e[n]) : s[o + k] = e[n][k]
      BY <1>4, <3>1
    <3>4. /\ later \in Text /\ Len(later) = N - n
          /\ \A k \in 1..N - n : later[k] = x[n + k]
      <4>1. Ends(n + 1)
        BY <1>8, <3>1
      <4>2. N + 1 - (n + 1) = N - n /\ \A k \in 1..N - n : (n + 1) + k - 1 = n + k
        BY <1>1
      <4>3. p + 1 \in 1..Len(s) + 1
        BY <1>5, <3>3
      <4>. QED  BY <1>7, <4>1, <4>2, <4>3
    <3> HIDE DEF a, b, o, p, later
    <3>5. /\ Len(e[n]) = Len(a) + Len(b) /\ Len(a) \in Nat /\ Len(b) \in Nat
          /\ \A k \in 1..Len(a) : e[n][k] = a[k]
      <4>1. /\ Len(a \o b) = Len(a) + Len(b)
            /\ \A k \in 1..Len(a) : (a \o b)[k] = a[k]
        BY <3>2, TextJoined, Zenon
      <4>2. Len(a) \in Nat /\ Len(b) \in Nat
        BY <3>2, Bytes
      <4>. QED  BY <3>2, <4>1, <4>2
    <3>6. p = o + Len(a) /\ \A k \in 1..Len(a) : k \in 1..Len(e[n])
      BY <1>5, <3>3, <3>5
    <3>7. \A k \in 1..Len(a) : s[o + k] = a[k]
      BY <3>3, <3>5, <3>6
    <3>8. d[o + 1] = <<x[n]>> \o later
      <4>1. CASE /\ Len(a) = 3 /\ a[1] = "%"
                 /\ IsEscape(<<a[2], a[3]>>) /\ Unescape(<<a[2], a[3]>>) = x[n]
        <5>1. 1 \in 1..Len(a) /\ 2 \in 1..Len(a) /\ 3 \in 1..Len(a)
          BY <4>1
        <5>2. o + 1 + 1 = o + 2 /\ o + 1 + 2 = o + 3 /\ o + 1 + 3 = p + 1 /\ o + 3 <= Len(s)
              /\ o + 1 \in 1..Len(s)
          BY <1>5, <3>3, <3>5, <3>6, <4>1
        <5>3. s[o + 1] = "%" /\ s[o + 2] = a[2] /\ s[o + 3] = a[3]
          BY <3>7, <4>1, <5>1
        <5>4. Escaped(s, o + 1) /\ Unescape(<<s[o + 1 + 1], s[o + 1 + 2]>>) = x[n]
          BY <4>1, <5>2, <5>3 DEF Escaped
        <5>5. d[o + 1] = <<Unescape(<<s[o + 1 + 1], s[o + 1 + 2]>>)>> \o d[o + 1 + 3]
          BY <1>7, <5>2, <5>4
        <5>. QED  BY <5>2, <5>4, <5>5 DEF later
      <4>2. CASE /\ Len(a) = 1 /\ a[1] # "%"
                 /\ x[n] = IF a[1] = "+" THEN " " ELSE a[1]
        <5>0. Len(a) = 1
          BY <4>2
        <5>1. 1 \in 1..Len(a)
          BY <5>0
        <5>2. o + 1 + 1 = p + 1 /\ o + 1 \in 1..Len(s)
          BY <1>5, <3>3, <3>5, <3>6, <5>0
        <5>3. s[o + 1] = a[1] /\ ~Escaped(s, o + 1)
          BY <3>7, <4>2, <5>1 DEF Escaped
        <5>4. d[o + 1] = <<IF s[o + 1] = "+" THEN " " ELSE s[o + 1]>> \o d[o + 1 + 1]
          BY <1>7, <5>2, <5>3
        <5>. QED  BY <4>2, <5>2, <5>3, <5>4 DEF later
      <4>. QED  BY <3>2, <4>1, <4>2
    <3> DEFINE c == <<x[n]>>
    <3>9. c \in Text /\ Len(c) = 1 /\ c[1] = x[n]
      BY <1>1, <3>1, OneByte DEF Text
    <3>10. d[o + 1] = c \o later
      BY <3>8
    <3> HIDE DEF c
    <3>11. /\ Len(c \o later) = Len(c) + Len(later)
           /\ \A k \in 1..Len(c) : (c \o later)[k] = c[k]
           /\ \A k \in 1..Len(later) : (c \o later)[Len(c) + k] = later[k]
      BY <3>4, <3>9, TextJoined, Zenon
    <3>12. Len(d[o + 1]) = N + 1 - n
      <4>1. Len(d[o + 1]) = 1 + (N - n)
        BY <3>4, <3>9, <3>10, <3>11
      <4>. QED  BY <1>1, <4>1
    <3>13. ASSUME NEW k \in 1..N + 1 - n PROVE d[o + 1][k] = x[n + k - 1]
      <4>1. CASE k = 1
        <5>1. n + k - 1 = n /\ k \in 1..Len(c)
          BY <1>1, <3>9, <4>1
        <5>. QED  BY <3>9, <3>10, <3>11, <4>1, <5>1
      <4>2. CASE k # 1
        <5>1. k - 1 \in 1..N - n /\ Len(c) + (k - 1) = k /\ n + (k - 1) = n + k - 1
          BY <1>1, <3>9, <4>2
        <5>. QED  BY <3>4, <3>10, <3>11, <5>1
      <4>. QED  BY <4>1, <4>2
    <3>14. Ends(n)
      BY <3>12, <3>13 DEF o
    <3>. QED  BY <3>14
  <2>. QED  BY <2>1, <2>2
<1>9. 1..N + 1 \subseteq S
  <2>1. N + 1 \in Nat
    BY <1>1
  <2> HIDE DEF S
  <2>. QED  BY <1>8, <2>1, FromTheEnd
<1>10. Ends(1) /\ Offset(e, 1) = 0
  <2>1. 1 \in 1..N + 1
    BY <1>1
  <2>. QED  BY <1>4, <1>9, <2>1
<1>11. d[1] \in Text /\ Len(d[1]) = Len(x) /\ \A k \in 1..Len(d[1]) : d[1][k] = x[k]
  <2>1. 1 \in 1..Len(s) + 1 /\ 0 + 1 = 1 /\ N + 1 - 1 = N /\ \A k \in 1..N : 1 + k - 1 = k
    BY <1>1, <1>5
  <2>2. Len(d[1]) = N /\ \A k \in 1..N : d[1][k] = x[k]
    BY <1>10, <2>1
  <2>. QED  BY <1>7, <2>1, <2>2 DEF N
<1>12. d[1] = x
  BY <1>11, SameText
<1>. QED  BY <1>6, <1>12 DEF s

(* The pieces of a text by their recursion. *)
Divides(from, s) ==
  /\ from \in [1..Len(s) + 2 -> Seq(Text)]
  /\ from[Len(s) + 1] = <<>> /\ from[Len(s) + 2] = <<>>
  /\ \A n \in 1..Len(s) :
       from[n] = <<SubSeq(s, n, Next_("&", s, n) - 1)>> \o from[Next_("&", s, n) + 1]

LEMMA PiecesIs ==
  ASSUME NEW s \in Text
  PROVE  \E from : Divides(from, s) /\ Pieces(s) = from[1]
<1> DEFINE N == Len(s)
           amp(n) == Next_("&", s, n)
           piece(n) == SubSeq(s, n, amp(n) - 1)
           Solves(f) == f = [n \in 1..N + 2 |->
                               IF n > N THEN <<>>
                               ELSE <<SubSeq(s, n, Next_("&", s, n) - 1)>> \o f[Next_("&", s, n) + 1]]
           D == 1..N + 2
           given == {N + 1, N + 2}
           value == [n \in D |-> <<>>]
           rank == [n \in D |-> N + 2 - n]
           previous == [n \in D \ given |-> amp(n) + 1]
           step == [n \in D \ given |-> [v \in Seq(Text) |-> <<piece(n)>> \o v]]
<1>1. N \in Nat
  BY DEF Text
<1>2. <<>> \in Seq(Text)
  OBVIOUS
<1>3. \A n \in 1..N : amp(n) \in n..N + 1
  <2>1. \A n \in 1..N : n \in 1..N + 1
    BY <1>1
  <2>. QED  BY <2>1, NextPlace
<1>4. \A n \in 1..N : piece(n) \in Text
  <2> TAKE n \in 1..N
  <2>1. n \in Nat \ {0} /\ amp(n) - 1 \in Nat /\ n <= (amp(n) - 1) + 1 /\ amp(n) - 1 <= N
    BY <1>1, <1>3
  <2>. QED  BY <2>1, PieceIs
<1>u. \A f : \A n \in 1..N :
        <<SubSeq(s, n, Next_("&", s, n) - 1)>> \o f[Next_("&", s, n) + 1]
        = <<piece(n)>> \o f[amp(n) + 1]
  OBVIOUS
<1> HIDE DEF N, amp, piece
<1>w. \A n \in 1..N, v \in Seq(Text) : <<piece(n)>> \o v \in Seq(Text)
  BY <1>4
<1>5. D \ given = 1..N /\ given \subseteq D
  BY <1>1
<1>6. Recurs(D, Seq(Text), given, value, N + 2, rank, previous, step)
  <2>1. value \in [D -> Seq(Text)]
    BY <1>2
  <2>2. rank \in [D -> 0..N + 2] /\ N + 2 \in Nat
    BY <1>1
  <2>3. previous \in [D \ given -> D]
    BY <1>1, <1>3, <1>5
  <2>4. step \in [D \ given -> [Seq(Text) -> Seq(Text)]]
    BY <1>5, <1>w
  <2>5. \A d \in D \ given : rank[previous[d]] < rank[d]
    BY <1>1, <1>3, <1>5
  <2> HIDE DEF D, given, value, rank, previous, step
  <2>. QED  BY <1>5, <2>1, <2>2, <2>3, <2>4, <2>5 DEF Recurs
<1>7. PICK f : Solution(f, D, Seq(Text), given, value, previous, step)
  <2> HIDE DEF D, given, value, rank, previous, step
  <2>. QED  BY <1>6, Recursion
<1>8. f \in [1..N + 2 -> Seq(Text)] /\ f[N + 1] = <<>> /\ f[N + 2] = <<>>
      /\ \A n \in 1..N : f[n] = <<piece(n)>> \o f[amp(n) + 1]
  <2>1. f \in [1..N + 2 -> Seq(Text)] /\ f[N + 1] = <<>> /\ f[N + 2] = <<>>
    BY <1>5, <1>7 DEF Solution
  <2>2. ASSUME NEW n \in 1..N PROVE f[n] = <<piece(n)>> \o f[amp(n) + 1]
    <3>1. n \in D \ given /\ amp(n) + 1 \in 1..N + 2
      BY <1>1, <1>3, <1>5
    <3>2. previous[n] = amp(n) + 1 /\ step[n] = [v \in Seq(Text) |-> <<piece(n)>> \o v]
      BY <3>1
    <3>3. f[n] = step[n][f[previous[n]]]
      <4> HIDE DEF D, given, value, previous, step
      <4>. QED  BY <1>7, <3>1 DEF Solution
    <3>4. f[amp(n) + 1] \in Seq(Text)
      BY <2>1, <3>1
    <3>. QED  BY <3>2, <3>3, <3>4
  <2>. QED  BY <2>1, <2>2
<1>s. \A n \in 1..N + 2 : (n > N /\ n \in {N + 1, N + 2}) \/ (~(n > N) /\ n \in 1..N)
  BY <1>1
<1> DEFINE line(g, n) == <<SubSeq(s, n, Next_("&", s, n) - 1)>> \o g[Next_("&", s, n) + 1]
<1>l. \A g : \A n \in 1..N : line(g, n) = <<piece(n)>> \o g[amp(n) + 1]
  BY <1>u
<1>9. Solves(f)
  <2> HIDE DEF line
  <2>1. \A n \in 1..N + 2 : f[n] = IF n > N THEN <<>> ELSE line(f, n)
    BY <1>8, <1>s, <1>l
  <2>2. f = [n \in 1..N + 2 |-> IF n > N THEN <<>> ELSE line(f, n)]
    BY <1>8, <2>1
  <2>. QED  BY <2>2 DEF line
<1>10. PICK d : Solves(d) /\ Pieces(s) = d[1]
  <2>1. Pieces(s) = (CHOOSE d : Solves(d))[1]
    BY Zenon DEF Pieces, N
  <2> HIDE DEF Solves
  <2>2. Solves(CHOOSE d : Solves(d))
    BY <1>9, Zenon
  <2>. QED  BY <2>1, <2>2
<1>11. d = [n \in 1..N + 2 |-> IF n > N THEN <<>> ELSE line(d, n)]
  BY <1>10
<1>12. /\ d = [n \in 1..N + 2 |-> d[n]] /\ d[N + 1] = <<>> /\ d[N + 2] = <<>>
       /\ \A n \in 1..N : d[n] = <<piece(n)>> \o d[amp(n) + 1]
  <2> HIDE DEF line
  <2>1. /\ N + 1 \in 1..N + 2 /\ N + 1 > N /\ N + 2 \in 1..N + 2 /\ N + 2 > N
        /\ \A n \in 1..N : n \in 1..N + 2 /\ ~(n > N)
    BY <1>1
  <2>2. d = [n \in 1..N + 2 |-> d[n]]
        /\ \A n \in 1..N + 2 : d[n] = IF n > N THEN <<>> ELSE line(d, n)
    BY <1>11
  <2>. QED  BY <1>l, <2>1, <2>2
<1> DEFINE S == {n \in 1..N + 2 : d[n] \in Seq(Text)}
<1>13. ASSUME NEW n \in 1..N + 2, \A k \in n + 1..N + 2 : k \in S PROVE n \in S
  <2>1. CASE n > N
    BY <1>2, <1>12, <1>s, <2>1
  <2>2. CASE ~(n > N)
    <3>1. n \in 1..N /\ amp(n) + 1 \in n + 1..N + 2
      BY <1>1, <1>3, <1>s, <2>2
    <3>2. d[amp(n) + 1] \in Seq(Text)
      BY <1>13, <3>1
    <3>. QED  BY <1>12, <1>w, <3>1, <3>2
  <2>. QED  BY <2>1, <2>2
<1>14. 1..N + 2 \subseteq S
  <2>1. N + 2 \in Nat
    BY <1>1
  <2> HIDE DEF S
  <2>. QED  BY <1>13, <2>1, FromTheEnd
<1>15. Divides(d, s)
  <2>1. d \in [1..N + 2 -> Seq(Text)]
    BY <1>12, <1>14
  <2>2. \A n \in 1..N :
          d[n] = <<SubSeq(s, n, Next_("&", s, n) - 1)>> \o d[Next_("&", s, n) + 1]
    BY <1>12 DEF amp, piece
  <2>. QED  BY <1>12, <2>1, <2>2 DEF Divides, N
<1>. QED  BY <1>10, <1>15

(* A field as it is sent: its pair is found again at the first sign. *)
LEMMA FieldIs ==
  ASSUME NEW x \in Text, NEW y \in Text
  PROVE  /\ Field(<<x, y>>) \in Text /\ Len(Field(<<x, y>>)) > 0
         /\ \A k \in 1..Len(Field(<<x, y>>)) : Field(<<x, y>>)[k] # "&"
         /\ Pair(Field(<<x, y>>)) = <<Encoded(x), Encoded(y)>>
<1> DEFINE a == Encoded(x)
           c == Encoded(y)
           sign == <<"=">>
           f == (a \o sign) \o c
<1>1. /\ a \in Text /\ \A k \in 1..Len(a) : a[k] \notin {"&", "="}
      /\ c \in Text /\ \A k \in 1..Len(c) : c[k] \notin {"&", "="}
  BY EncodedIsPlain
<1>2. sign \in Text /\ Len(sign) = 1 /\ sign[1] = "="
  BY OneByte, RoutingAssumption DEF Text
<1>3. Field(<<x, y>>) = f
  BY DEF Field
<1> HIDE DEF a, c, sign
<1>4. Len(a) \in Nat /\ Len(c) \in Nat
  BY <1>1, Bytes
<1>5. /\ a \o sign \in Text /\ Len(a \o sign) = Len(a) + Len(sign)
      /\ \A k \in 1..Len(a) : (a \o sign)[k] = a[k]
      /\ \A k \in 1..Len(sign) : (a \o sign)[Len(a) + k] = sign[k]
  BY <1>1, <1>2, TextJoined, Zenon
<1>6. Len(a \o sign) = Len(a) + 1 /\ (a \o sign)[Len(a) + 1] = "="
  <2>1. 1 \in 1..Len(sign)
    BY <1>2
  <2>. QED  BY <1>2, <1>5, <2>1
<1> DEFINE l == Len(a)
           as == a \o sign
<1>7. as \in Text /\ Len(as) = l + 1 /\ as[l + 1] = "=" /\ l \in Nat
      /\ \A k \in 1..l : as[k] = a[k]
  BY <1>4, <1>5, <1>6
<1>8. f = as \o c
  OBVIOUS
<1> HIDE DEF as, f
<1>9. /\ f \in Text /\ Len(f) = Len(as) + Len(c)
      /\ \A k \in 1..Len(as) : f[k] = as[k]
      /\ \A k \in 1..Len(c) : f[Len(as) + k] = c[k]
  <2>1. /\ as \o c \in Text /\ Len(as \o c) = Len(as) + Len(c)
        /\ \A k \in 1..Len(as) : (as \o c)[k] = as[k]
        /\ \A k \in 1..Len(c) : (as \o c)[Len(as) + k] = c[k]
    BY <1>1, <1>7, TextJoined, Zenon
  <2>. QED  BY <1>8, <2>1
<1>10. /\ Len(f) = l + 1 + Len(c) /\ f[l + 1] = "="
       /\ \A k \in 1..l : f[k] = a[k]
       /\ \A k \in 1..Len(c) : f[l + 1 + k] = c[k]
  <2>1. l + 1 \in 1..Len(as) /\ \A k \in 1..l : k \in 1..Len(as)
    BY <1>7
  <2>. QED  BY <1>7, <1>9, <2>1
<1>11. \A k \in 1..Len(f) : f[k] # "&"
  <2> TAKE k \in 1..Len(f)
  <2>1. CASE k <= l
    <3>1. k \in 1..l
      BY <1>4, <1>10, <2>1
    <3>. QED  BY <1>1, <1>10, <3>1
  <2>2. CASE k = l + 1
    BY <1>10, <2>2
  <2>3. CASE k > l + 1
    <3>1. k - (l + 1) \in 1..Len(c) /\ l + 1 + (k - (l + 1)) = k
      BY <1>4, <1>7, <1>10, <2>3
    <3>2. f[k] = c[k - (l + 1)]
      BY <1>10, <3>1
    <3>. QED  BY <1>1, <3>1, <3>2
  <2>. QED  BY <1>4, <1>7, <1>10, <2>1, <2>2, <2>3
<1>12. Next_("=", f, 1) = l + 1
  <2> DEFINE q == Next_("=", f, 1)
  <2>1. /\ q \in 1..Len(f) + 1
        /\ \A k \in 1..q - 1 : f[k] # "="
        /\ q <= Len(f) => f[q] = "="
    <3>1. 1 \in 1..Len(f) + 1
      BY <1>4, <1>7, <1>10
    <3>2. /\ Next_("=", f, 1) \in 1..Len(f) + 1
          /\ \A k \in 1..Next_("=", f, 1) - 1 : k \in 1..Len(f) /\ f[k] # "="
          /\ Next_("=", f, 1) <= Len(f) => f[Next_("=", f, 1)] = "="
      <4>1. f \in Text
        BY <1>9
      <4>. QED  BY <3>1, <4>1, NextPlace
    <3>. QED  BY <3>2
  <2> HIDE DEF q
  <2>2. ~(q <= l)
    <3> SUFFICES ASSUME q <= l PROVE FALSE
      OBVIOUS
    <3>1. q \in 1..l /\ q <= Len(f)
      BY <1>4, <1>7, <1>10, <2>1
    <3>. QED  BY <1>1, <1>10, <2>1, <3>1
  <2>3. ~(l + 1 < q)
    <3> SUFFICES ASSUME l + 1 < q PROVE FALSE
      OBVIOUS
    <3>1. l + 1 \in 1..q - 1
      BY <1>4, <1>7, <1>10, <2>1
    <3>. QED  BY <1>10, <2>1, <3>1
  <2>4. q = l + 1
    BY <1>4, <1>7, <1>10, <2>1, <2>2, <2>3
  <2>. QED  BY <2>4 DEF q
<1>13. SubSeq(f, 1, l) = a
  <2>1. 1 \in Nat \ {0} /\ 1 <= l + 1 /\ l <= Len(f) /\ l + 1 - 1 = l /\ \A k \in 1..l : 1 + k - 1 = k
    BY <1>4, <1>7, <1>10
  <2>2. /\ SubSeq(f, 1, l) \in Text /\ Len(SubSeq(f, 1, l)) = l
        /\ \A k \in 1..l : SubSeq(f, 1, l)[k] = f[k]
    BY <1>7, <1>9, <2>1, PieceIs
  <2> DEFINE piece == SubSeq(f, 1, l)
  <2>3. piece \in Text /\ Len(piece) = Len(a) /\ \A k \in 1..Len(piece) : piece[k] = a[k]
    BY <1>10, <2>2 DEF l
  <2> HIDE DEF piece
  <2>4. piece = a
    BY <1>1, <2>3, SameText
  <2>. QED  BY <2>4 DEF piece
<1>14. SubSeq(f, l + 2, Len(f)) = c
  <2>1. /\ l + 2 \in Nat \ {0} /\ Len(f) \in Nat /\ l + 2 <= Len(f) + 1 /\ Len(f) <= Len(f)
        /\ Len(f) + 1 - (l + 2) = Len(c) /\ \A k \in 1..Len(c) : l + 2 + k - 1 = l + 1 + k
    BY <1>4, <1>7, <1>10
  <2>2. /\ SubSeq(f, l + 2, Len(f)) \in Text /\ Len(SubSeq(f, l + 2, Len(f))) = Len(c)
        /\ \A k \in 1..Len(c) : SubSeq(f, l + 2, Len(f))[k] = f[l + 1 + k]
    <3> DEFINE m == l + 2
               z == Len(f)
    <3>1. /\ m \in Nat \ {0} /\ z \in Nat /\ m <= z + 1 /\ z <= Len(f) /\ z + 1 - m = Len(c)
          /\ \A k \in 1..Len(c) : m + k - 1 = l + 1 + k
      BY <2>1
    <3> HIDE DEF m, z
    <3>2. /\ SubSeq(f, m, z) \in Text /\ Len(SubSeq(f, m, z)) = z + 1 - m
          /\ \A k \in 1..z + 1 - m : SubSeq(f, m, z)[k] = f[m + k - 1]
      BY <1>9, <3>1, PieceIs
    <3>3. /\ SubSeq(f, m, z) \in Text /\ Len(SubSeq(f, m, z)) = Len(c)
          /\ \A k \in 1..Len(c) : SubSeq(f, m, z)[k] = f[l + 1 + k]
      BY <3>1, <3>2
    <3>. QED  BY <3>3 DEF m, z
  <2> DEFINE piece == SubSeq(f, l + 2, Len(f))
  <2>3. piece \in Text /\ Len(piece) = Len(c) /\ \A k \in 1..Len(piece) : piece[k] = c[k]
    BY <1>10, <2>2
  <2> HIDE DEF piece
  <2>4. piece = c
    BY <1>1, <2>3, SameText
  <2>. QED  BY <2>4 DEF piece
<1>15. l + 1 - 1 = l /\ l + 1 + 1 = l + 2
  BY <1>7
<1>16. Pair(f) = <<a, c>>
  <2>1. Pair(f) = <<SubSeq(f, 1, Next_("=", f, 1) - 1), SubSeq(f, Next_("=", f, 1) + 1, Len(f))>>
    BY DEF Pair
  <2>. QED  BY <1>12, <1>13, <1>14, <1>15, <2>1
<1>17. Len(f) > 0
  BY <1>4, <1>7, <1>10
<1>. QED  BY <1>3, <1>9, <1>11, <1>16, <1>17 DEF a, c

LEMMA JoinedSeq ==
  ASSUME NEW S, NEW s \in Seq(S), NEW t \in Seq(S)
  PROVE  /\ s \o t \in Seq(S) /\ Len(s \o t) = Len(s) + Len(t)
         /\ \A k \in 1..Len(s) : (s \o t)[k] = s[k]
         /\ \A k \in 1..Len(t) : (s \o t)[Len(s) + k] = t[k]
<1>1. Len(s) \in Nat /\ Len(t) \in Nat
  OBVIOUS
<1>2. s \o t \in Seq(S) /\ Len(s \o t) = Len(s) + Len(t)
  OBVIOUS
<1>3. ASSUME NEW k \in 1..Len(s) PROVE (s \o t)[k] = s[k]
  <2>1. k \in 1..Len(s) + Len(t) /\ k <= Len(s)
    BY <1>1
  <2>. QED  BY <2>1
<1>4. ASSUME NEW k \in 1..Len(t) PROVE (s \o t)[Len(s) + k] = t[k]
  <2>1. Len(s) + k \in 1..Len(s) + Len(t) /\ ~(Len(s) + k <= Len(s)) /\ Len(s) + k - Len(s) = k
    BY <1>1
  <2>. QED  BY <2>1
<1>. QED  BY <1>2, <1>3, <1>4

LEMMA OneBefore ==
  ASSUME NEW S, NEW a \in S, NEW v \in Seq(S)
  PROVE  /\ <<a>> \o v \in Seq(S) /\ Len(<<a>> \o v) = Len(v) + 1
         /\ (<<a>> \o v)[1] = a /\ \A k \in 1..Len(v) : (<<a>> \o v)[k + 1] = v[k]
<1> DEFINE o == <<a>>
<1>1. o \in Seq(S) /\ Len(o) = 1 /\ o[1] = a
  BY OneByte
<1> HIDE DEF o
<1>2. Len(v) \in Nat
  OBVIOUS
<1>3. /\ o \o v \in Seq(S) /\ Len(o \o v) = Len(o) + Len(v)
      /\ \A k \in 1..Len(o) : (o \o v)[k] = o[k]
      /\ \A k \in 1..Len(v) : (o \o v)[Len(o) + k] = v[k]
  <2>1. o \in Seq(S)
    BY <1>1
  <2>. QED  BY <2>1, JoinedSeq
<1>4. Len(o \o v) = Len(v) + 1 /\ 1 \in 1..Len(o)
  BY <1>1, <1>2, <1>3
<1>5. (o \o v)[1] = a
  BY <1>1, <1>3, <1>4
<1>6. ASSUME NEW k \in 1..Len(v) PROVE (o \o v)[k + 1] = v[k]
  <2>1. Len(o) + k = k + 1
    BY <1>1, <1>2
  <2>. QED  BY <1>3, <2>1
<1>. QED  BY <1>3, <1>4, <1>5, <1>6 DEF o

Fields == Seq(Text \X Text)

LEMMA FieldsAre ==
  ASSUME NEW fs \in Fields
  PROVE  /\ Len(fs) \in Nat /\ DOMAIN fs = 1..Len(fs)
         /\ \A n \in 1..Len(fs) : /\ fs[n][1] \in Text /\ fs[n][2] \in Text
                                  /\ fs[n] = <<fs[n][1], fs[n][2]>>
<1> DEFINE P == Text \X Text
<1> HIDE DEF P
<1>1. fs \in Seq(P)
  BY DEF Fields, P
<1>2. Len(fs) \in Nat /\ DOMAIN fs = 1..Len(fs) /\ \A n \in 1..Len(fs) : fs[n] \in P
  BY <1>1
<1>3. \A f \in P : f[1] \in Text /\ f[2] \in Text /\ f = <<f[1], f[2]>>
  BY DEF P
<1>. QED  BY <1>2, <1>3

Before_(n) == IF n > 1 THEN <<"&">> ELSE <<>>

LEMMA BeforeIs ==
  ASSUME NEW n \in Nat
  PROVE  /\ Before_(n) \in Text /\ Len(Before_(n)) = IF n > 1 THEN 1 ELSE 0
         /\ n > 1 => Before_(n)[1] = "&"
<1>1. "&" \in STRING
  BY RoutingAssumption
<1>2. <<"&">> \in Text /\ Len(<<"&">>) = 1 /\ <<"&">>[1] = "&"
  BY <1>1, OneByte DEF Text
<1>3. <<>> \in Text /\ Len(<<>>) = 0
  BY DEF Text
<1>. QED  BY <1>2, <1>3 DEF Before_

LEMMA FormTextIs ==
  ASSUME NEW fs \in Fields
  PROVE  \E t : FormText(fs) = t[1] /\ Joins(t, Len(fs), [n \in 1..Len(fs) |-> Before_(n) \o Field(fs[n])])
<1> DEFINE N == Len(fs)
           pieces == [n \in 1..N |-> Before_(n) \o Field(fs[n])]
           line(f, n) == (IF n > 1 THEN <<"&">> ELSE <<>>) \o Field(fs[n]) \o f[n + 1]
           Solves(f) == f = [n \in 1..N + 1 |->
                               IF n > N THEN <<>>
                               ELSE (IF n > 1 THEN <<"&">> ELSE <<>>) \o Field(fs[n]) \o f[n + 1]]
<1>1. N \in Nat
  BY FieldsAre
<1>2. \A n \in 1..N : Before_(n) \o Field(fs[n]) \in Text
  <2> TAKE n \in 1..N
  <2>1. Field(fs[n]) \in Text
    BY FieldsAre, FieldIs
  <2>2. Before_(n) \in Text
    <3>1. n \in Nat
      BY <1>1
    <3>. QED  BY <3>1, BeforeIs
  <2>. QED  BY <2>1, <2>2, TextJoined
<1>3. \A f, n : line(f, n) = (Before_(n) \o Field(fs[n])) \o f[n + 1]
  BY DEF Before_
<1> HIDE DEF N
<1>4. pieces \in [1..N -> Text]
  BY <1>2
<1>5. \A n \in 1..N + 1 : (n > N /\ n = N + 1) \/ (~(n > N) /\ n \in 1..N)
  BY <1>1
<1>6. \A f : \A n \in 1..N : line(f, n) = pieces[n] \o f[n + 1]
  <2> HIDE DEF line
  <2>. QED  BY <1>3
<1>7. \E f : Solves(f)
  <2>1. PICK f : Joins(f, N, pieces)
    <3> HIDE DEF pieces
    <3>. QED  BY <1>1, <1>4, JoinsExists
  <2>2. f \in [1..N + 1 -> Text] /\ f[N + 1] = <<>> /\ \A n \in 1..N : f[n] = pieces[n] \o f[n + 1]
    <3> HIDE DEF pieces
    <3>. QED  BY <2>1 DEF Joins
  <2> HIDE DEF pieces, line
  <2>3. f = [n \in 1..N + 1 |-> IF n > N THEN <<>> ELSE line(f, n)]
    <3>1. \A n \in 1..N + 1 : f[n] = IF n > N THEN <<>> ELSE line(f, n)
      BY <1>5, <1>6, <2>2
    <3>. QED  BY <2>2, <3>1
  <2>4. Solves(f)
    BY <2>3 DEF line
  <2>. QED  BY <2>4
<1>8. PICK t : Solves(t) /\ FormText(fs) = t[1]
  <2>1. FormText(fs) = (CHOOSE t : Solves(t))[1]
    BY Zenon DEF FormText, N
  <2> HIDE DEF Solves
  <2>2. Solves(CHOOSE t : Solves(t))
    BY <1>7, Zenon
  <2>. QED  BY <2>1, <2>2
<1>9. t = [n \in 1..N + 1 |-> IF n > N THEN <<>> ELSE line(t, n)]
  BY <1>8
<1>10. t = [n \in 1..N + 1 |-> IF n > N THEN <<>> ELSE pieces[n] \o t[n + 1]]
  <2> HIDE DEF pieces, line
  <2>1. \A n \in 1..N + 1 : (IF n > N THEN <<>> ELSE line(t, n)) =
                            (IF n > N THEN <<>> ELSE pieces[n] \o t[n + 1])
    BY <1>5, <1>6
  <2>. QED  BY <1>9, <2>1
<1>11. Joins(t, N, pieces)
  <2> HIDE DEF pieces
  <2>. QED  BY <1>1, <1>4, <1>10, JoinsUnfolded
<1>. QED  BY <1>8, <1>11 DEF N

(* The ampersands part the fields again. *)
LEMMA FormPieces ==
  ASSUME NEW fs \in Fields
  PROVE  /\ Pieces(FormText(fs)) \in Seq(Text) /\ Len(Pieces(FormText(fs))) = Len(fs)
         /\ \A n \in 1..Len(fs) : Pieces(FormText(fs))[n] = Field(fs[n])
<1> DEFINE N == Len(fs)
           s == FormText(fs)
           F(n) == Field(fs[n])
           pieces == [n \in 1..N |-> Before_(n) \o F(n)]
<1>1. N \in Nat
  BY FieldsAre
<1>2. PICK t : s = t[1] /\ Joins(t, N, pieces)
  BY FormTextIs
<1> DEFINE B(n) == Len(Before_(n))
           P(n) == Offset(t, n)
           start(n) == P(n) + B(n) + 1
<1>3. \A n \in 1..N : /\ F(n) \in Text /\ Len(F(n)) \in Nat /\ Len(F(n)) > 0
                      /\ \A k \in 1..Len(F(n)) : F(n)[k] # "&"
  <2> TAKE n \in 1..N
  <2>1. F(n) \in Text /\ Len(F(n)) > 0 /\ \A k \in 1..Len(F(n)) : F(n)[k] # "&"
    <3>1. fs[n][1] \in Text /\ fs[n][2] \in Text /\ fs[n] = <<fs[n][1], fs[n][2]>>
      BY FieldsAre
    <3> DEFINE x == fs[n][1]
               y == fs[n][2]
    <3>2. x \in Text /\ y \in Text /\ F(n) = Field(<<x, y>>)
      BY <3>1
    <3> HIDE DEF x, y, F
    <3>. QED  BY <3>2, FieldIs
  <2> HIDE DEF F
  <2>. QED  BY <2>1, Bytes
<1>4. \A n \in 1..N + 1 : /\ Before_(n) \in Text /\ B(n) = (IF n > 1 THEN 1 ELSE 0)
                          /\ n > 1 => Before_(n)[1] = "&"
  <2> TAKE n \in 1..N + 1
  <2>1. n \in Nat
    BY <1>1
  <2>. QED  BY <2>1, BeforeIs
<1>5. /\ t \in [1..N + 1 -> Text] /\ t[N + 1] = <<>>
      /\ \A n \in 1..N : t[n] = (Before_(n) \o F(n)) \o t[n + 1]
  <2> HIDE DEF F
  <2>. QED  BY <1>2 DEF Joins
<1>6. \A n \in 1..N + 1 :
        /\ P(n) \in 0..Len(s) /\ P(1) = 0 /\ P(n) = Len(s) - Len(t[n])
        /\ \A k \in 1..Len(t[n]) : s[P(n) + k] = t[n][k]
  <2> TAKE n \in 1..N + 1
  <2>1. /\ Offset(t, n) \in 0..Len(t[1]) /\ Offset(t, 1) = 0
        /\ \A k \in 1..Len(t[n]) : t[1][Offset(t, n) + k] = t[n][k]
    <3> HIDE DEF N, pieces
    <3>. QED  BY <1>2, JoinsAt
  <2>2. Offset(t, n) = Len(t[1]) - Len(t[n]) /\ t[1] = s
    BY <1>2 DEF Offset
  <2> HIDE DEF s
  <2>. QED  BY <2>1, <2>2
<1>7. s \in Text /\ Len(s) \in Nat
  <2>1. 1 \in 1..N + 1
    BY <1>1
  <2>2. s \in Text
    BY <1>2, <1>5, <2>1
  <2> HIDE DEF s
  <2>. QED  BY <2>2, Bytes
<1> HIDE DEF N, s, F, pieces, B, P
<1>8. PICK from : Divides(from, s) /\ Pieces(s) = from[1]
  BY <1>7, PiecesIs
<1>9. /\ from \in [1..Len(s) + 2 -> Seq(Text)]
      /\ from[Len(s) + 1] = <<>> /\ from[Len(s) + 2] = <<>>
      /\ \A n \in 1..Len(s) :
           from[n] = <<SubSeq(s, n, Next_("&", s, n) - 1)>> \o from[Next_("&", s, n) + 1]
  BY <1>8 DEF Divides
(* One field: it stands behind its ampersand, and before the next one. *)
<1>10. ASSUME NEW n \in 1..N
       PROVE  /\ start(n) \in 1..Len(s) + 1 /\ P(n + 1) = P(n) + B(n) + Len(F(n))
              /\ \A k \in 1..Len(F(n)) : s[P(n) + B(n) + k] = F(n)[k]
  <2> DEFINE a == Before_(n)
             f == F(n)
             b == t[n + 1]
             w == a \o f
             p == P(n)
             q == P(n + 1)
  <2>1. n \in 1..N + 1 /\ n + 1 \in 1..N + 1
    BY <1>1
  <2>2. a \in Text /\ f \in Text /\ b \in Text /\ t[n] = w \o b
    BY <1>3, <1>4, <1>5, <2>1
  <2>3. /\ p \in 0..Len(s) /\ p = Len(s) - Len(t[n]) /\ q \in 0..Len(s) /\ q = Len(s) - Len(b)
        /\ \A k \in 1..Len(t[n]) : s[p + k] = t[n][k]
    BY <1>6, <2>1
  <2>4. Len(a) = B(n)
    BY DEF B
  <2>5. start(n) = p + Len(a) + 1
    BY <2>4
  <2> HIDE DEF a, f, b, p, q
  <2>6. /\ w \in Text /\ Len(w) = Len(a) + Len(f) /\ Len(a) \in Nat /\ Len(f) \in Nat /\ Len(b) \in Nat
        /\ \A k \in 1..Len(f) : w[Len(a) + k] = f[k]
    <3>1. /\ a \o f \in Text /\ Len(a \o f) = Len(a) + Len(f)
          /\ \A k \in 1..Len(f) : (a \o f)[Len(a) + k] = f[k]
      BY <2>2, TextJoined, Zenon
    <3>2. Len(a) \in Nat /\ Len(f) \in Nat /\ Len(b) \in Nat
      BY <2>2, Bytes
    <3>. QED  BY <3>1, <3>2
  <2> HIDE DEF w
  <2>7. Len(t[n]) = Len(w) + Len(b) /\ \A k \in 1..Len(w) : t[n][k] = w[k]
    <3>1. Len(w \o b) = Len(w) + Len(b) /\ \A k \in 1..Len(w) : (w \o b)[k] = w[k]
      BY <2>2, <2>6, TextJoined, Zenon
    <3>. QED  BY <2>2, <3>1
  <2>8. q = p + Len(a) + Len(f) /\ p + Len(a) + 1 \in 1..Len(s) + 1
    BY <1>7, <2>3, <2>6, <2>7
  <2>9. ASSUME NEW k \in 1..Len(f) PROVE s[p + Len(a) + k] = f[k]
    <3>1. Len(a) + k \in 1..Len(w) /\ Len(a) + k \in 1..Len(t[n]) /\ p + (Len(a) + k) = p + Len(a) + k
      BY <2>3, <2>6, <2>7
    <3>. QED  BY <2>3, <2>6, <2>7, <3>1
  <2>. QED  BY <2>4, <2>5, <2>8, <2>9 DEF f, p, q
<1>11. ASSUME NEW n \in 1..N
       PROVE  /\ n < N => P(n + 1) + 1 \in 1..Len(s) /\ s[P(n + 1) + 1] = "&" /\ start(n + 1) = P(n + 1) + 2
              /\ n = N => P(n + 1) = Len(s)
              /\ P(n + 1) \in 0..Len(s)
  <2>1. n + 1 \in 1..N + 1 /\ n + 1 > 1
    BY <1>1
  <2>2. /\ P(n + 1) \in 0..Len(s) /\ P(n + 1) = Len(s) - Len(t[n + 1])
        /\ \A k \in 1..Len(t[n + 1]) : s[P(n + 1) + k] = t[n + 1][k]
    BY <1>6, <2>1
  <2>3. ASSUME n < N
        PROVE  P(n + 1) + 1 \in 1..Len(s) /\ s[P(n + 1) + 1] = "&" /\ start(n + 1) = P(n + 1) + 2
    <3> DEFINE a == Before_(n + 1)
               f == F(n + 1)
               b == t[n + 1 + 1]
               w == a \o f
               p == P(n + 1)
               u == t[n + 1]
    <3>1. n + 1 \in 1..N /\ n + 1 + 1 \in 1..N + 1
      BY <1>1, <2>3
    <3>2. /\ a \in Text /\ f \in Text /\ b \in Text /\ u = w \o b /\ a[1] = "&" /\ Len(a) = 1
      BY <1>3, <1>4, <1>5, <2>1, <3>1 DEF B
    <3>3. start(n + 1) = p + Len(a) + 1
      BY DEF B
    <3>4. /\ p \in 0..Len(s) /\ p = Len(s) - Len(u) /\ \A k \in 1..Len(u) : s[p + k] = u[k]
      BY <2>2
    <3> HIDE DEF a, f, b, p, u
    <3>5. /\ w \in Text /\ Len(w) = Len(a) + Len(f) /\ Len(f) \in Nat /\ Len(b) \in Nat
          /\ \A k \in 1..Len(a) : w[k] = a[k]
      <4>1. /\ a \o f \in Text /\ Len(a \o f) = Len(a) + Len(f)
            /\ \A k \in 1..Len(a) : (a \o f)[k] = a[k]
        BY <3>2, TextJoined, Zenon
      <4>2. Len(f) \in Nat /\ Len(b) \in Nat
        BY <3>2, Bytes
      <4>. QED  BY <4>1, <4>2
    <3> HIDE DEF w
    <3>6. Len(u) = Len(w) + Len(b) /\ \A k \in 1..Len(w) : u[k] = w[k]
      <4>1. Len(w \o b) = Len(w) + Len(b) /\ \A k \in 1..Len(w) : (w \o b)[k] = w[k]
        BY <3>2, <3>5, TextJoined, Zenon
      <4>. QED  BY <3>2, <4>1
    <3>7. 1 \in 1..Len(a) /\ 1 \in 1..Len(w) /\ 1 \in 1..Len(u)
      BY <3>2, <3>5, <3>6
    <3>8. s[p + 1] = "&"
      BY <3>2, <3>4, <3>5, <3>6, <3>7
    <3>9. p + 1 \in 1..Len(s) /\ p + Len(a) + 1 = p + 2
      BY <1>7, <3>2, <3>4, <3>5, <3>6
    <3>. QED  BY <3>3, <3>8, <3>9 DEF p
  <2>4. ASSUME n = N PROVE P(n + 1) = Len(s)
    <3>1. Len(t[n + 1]) = 0
      BY <1>5, <2>4
    <3>. QED  BY <1>7, <2>2, <3>1
  <2>. QED  BY <2>2, <2>3, <2>4
<1>12. ASSUME NEW n \in 1..N
       PROVE  from[start(n)] = <<F(n)>> \o from[P(n + 1) + 2]
  <2> DEFINE st == start(n)
             q == P(n + 1)
             f == F(n)
             z == Next_("&", s, st)
             p == P(n) + B(n)
  <2>0. st = p + 1
    OBVIOUS
  <2>1. /\ st \in 1..Len(s) + 1 /\ q = p + Len(f) /\ \A k \in 1..Len(f) : s[p + k] = f[k]
        /\ f \in Text /\ Len(f) \in Nat /\ Len(f) > 0 /\ \A k \in 1..Len(f) : f[k] # "&"
    BY <1>3, <1>10
  <2>2. q \in 0..Len(s) /\ (q + 1 <= Len(s) => s[q + 1] = "&")
    <3>1. n < N \/ n = N
      BY <1>1
    <3>2. q = Len(s) => ~(q + 1 <= Len(s))
      BY <1>7
    <3>. QED  BY <1>11, <3>1, <3>2
  <2>p. p \in Int
    BY <1>1, <1>4, <1>6
  <2> HIDE DEF st, q, f, p
  <2>3. /\ z \in st..Len(s) + 1
        /\ \A k \in st..z - 1 : k \in 1..Len(s) /\ s[k] # "&"
        /\ z <= Len(s) => s[z] = "&"
    BY <1>7, <2>1, NextPlace
  <2> HIDE DEF z
  <2>4. ~(z <= q)
    <3> SUFFICES ASSUME z <= q PROVE FALSE
      OBVIOUS
    <3>1. z - p \in 1..Len(f) /\ p + (z - p) = z /\ z <= Len(s)
      BY <1>7, <2>0, <2>1, <2>2, <2>3, <2>p
    <3>. QED  BY <2>1, <2>3, <3>1
  <2>5. ~(q + 1 < z)
    <3> SUFFICES ASSUME q + 1 < z PROVE FALSE
      OBVIOUS
    <3>1. q + 1 \in st..z - 1 /\ q + 1 <= Len(s)
      BY <1>7, <2>0, <2>1, <2>2, <2>3, <2>p
    <3>. QED  BY <2>2, <2>3, <3>1
  <2>6. z = q + 1
    BY <1>7, <2>2, <2>3, <2>4, <2>5
  <2> DEFINE piece == SubSeq(s, st, z - 1)
  <2>7. piece = f
    <3>1. /\ st \in Nat \ {0} /\ z - 1 \in Nat /\ st <= (z - 1) + 1 /\ z - 1 <= Len(s)
          /\ (z - 1) + 1 - st = Len(f) /\ \A k \in 1..Len(f) : st + k - 1 = p + k
      BY <1>7, <2>0, <2>1, <2>2, <2>3, <2>6, <2>p
    <3> DEFINE m == z - 1
    <3>2. m \in Nat /\ st <= m + 1 /\ m <= Len(s) /\ m + 1 - st = Len(f)
      BY <3>1
    <3> HIDE DEF m
    <3>3. /\ SubSeq(s, st, m) \in Text /\ Len(SubSeq(s, st, m)) = m + 1 - st
          /\ \A k \in 1..m + 1 - st : SubSeq(s, st, m)[k] = s[st + k - 1]
      BY <1>7, <3>1, <3>2, PieceIs
    <3> DEFINE ss == SubSeq(s, st, m)
    <3>4. ss \in Text /\ Len(ss) = Len(f) /\ \A k \in 1..Len(ss) : ss[k] = f[k]
      BY <2>1, <3>1, <3>2, <3>3
    <3> HIDE DEF ss
    <3>5. ss = f
      BY <2>1, <3>4, SameText
    <3>. QED  BY <3>5 DEF ss, m
  <2>8. st \in 1..Len(s)
    BY <1>7, <2>0, <2>1, <2>2, <2>p
  <2>9. from[st] = <<piece>> \o from[z + 1] /\ z + 1 = q + 2
    <3>1. from[st] = <<SubSeq(s, st, Next_("&", s, st) - 1)>> \o from[Next_("&", s, st) + 1]
      BY <1>9, <2>8
    <3>2. z + 1 = q + 2
      BY <1>7, <2>2, <2>6
    <3>. QED  BY <3>1, <3>2 DEF z
  <2>. QED  BY <2>7, <2>9 DEF st, f, q
<1> DEFINE Ends(n) == /\ from[start(n)] \in Seq(Text) /\ Len(from[start(n)]) = N + 1 - n
                      /\ \A k \in 1..N + 1 - n : from[start(n)][k] = F(n + k - 1)
           S == {n \in 1..N : Ends(n)}
<1>13. ASSUME NEW n \in 1..N, \A k \in n + 1..N : k \in S PROVE n \in S
  <2> DEFINE later == from[P(n + 1) + 2]
             f == F(n)
             here == from[start(n)]
  <2>1. /\ later \in Seq(Text) /\ Len(later) = N - n
        /\ \A k \in 1..N - n : later[k] = F(n + k)
    <3>1. CASE n = N
      <4>1. later = <<>> /\ N - n = 0
        BY <1>1, <1>9, <1>11, <3>1
      <4>. QED  BY <4>1
    <3>2. CASE n # N
      <4>1. n + 1 \in n + 1..N /\ n < N
        BY <1>1, <3>2
      <4>2. Ends(n + 1)
        BY <1>13, <4>1
      <4>3. start(n + 1) = P(n + 1) + 2
        BY <1>11, <4>1
      <4>4. N + 1 - (n + 1) = N - n /\ \A k \in 1..N - n : (n + 1) + k - 1 = n + k
        BY <1>1
      <4> HIDE DEF start
      <4>. QED  BY <4>2, <4>3, <4>4
    <3>. QED  BY <3>1, <3>2
  <2>2. here = <<f>> \o later /\ f \in Text
    BY <1>3, <1>12
  <2>i. n = n + 1 - 1 /\ f = F(n)
    BY <1>1
  <2> HIDE DEF later, f, here
  <2>3. /\ <<f>> \o later \in Seq(Text) /\ Len(<<f>> \o later) = Len(later) + 1
        /\ (<<f>> \o later)[1] = f /\ \A k \in 1..Len(later) : (<<f>> \o later)[k + 1] = later[k]
    <3>1. f \in Text /\ later \in Seq(Text)
      BY <2>1, <2>2
    <3>. QED  BY <3>1, OneBefore
  <2>4. here \in Seq(Text) /\ Len(here) = N + 1 - n
    BY <1>1, <2>1, <2>2, <2>3
  <2>5. ASSUME NEW k \in 1..N + 1 - n PROVE here[k] = F(n + k - 1)
    <3>1. CASE k = 1
      <4>1. here[k] = f
        BY <2>2, <2>3, <3>1
      <4>2. n + k - 1 = n
        BY <1>1, <3>1
      <4>. QED  BY <2>i, <4>1, <4>2
    <3>2. CASE k # 1
      <4>1. k - 1 \in 1..N - n /\ k - 1 + 1 = k /\ n + (k - 1) = n + k - 1
        BY <1>1, <3>2
      <4>2. here[k - 1 + 1] = later[k - 1]
        BY <2>1, <2>2, <2>3, <4>1
      <4>3. later[k - 1] = F(n + (k - 1))
        BY <2>1, <4>1
      <4>. QED  BY <4>1, <4>2, <4>3
    <3>. QED  BY <3>1, <3>2
  <2>6. Ends(n)
    BY <2>4, <2>5 DEF here
  <2>. QED  BY <2>6
<1>14. 1..N \subseteq S
  <2> HIDE DEF S
  <2>. QED  BY <1>1, <1>13, FromTheEnd
<1>15. start(1) = 1
  <2>1. 1 \in 1..N + 1
    BY <1>1
  <2>2. P(1) = 0 /\ B(1) = 0
    BY <1>4, <1>6, <2>1
  <2>. QED  BY <2>2
<1>16. /\ from[1] \in Seq(Text) /\ Len(from[1]) = N
       /\ \A n \in 1..N : from[1][n] = F(n)
  <2>1. CASE N = 0
    <3>1. s = <<>>
      BY <1>2, <1>5, <2>1
    <3>2. from[1] = <<>>
      <4>1. Len(s) + 1 = 1
        BY <3>1
      <4>. QED  BY <1>9, <4>1
    <3>. QED  BY <2>1, <3>2
  <2>2. CASE N # 0
    <3>1. 1 \in 1..N
      BY <1>1, <2>2
    <3>2. Ends(1)
      BY <1>14, <3>1
    <3>3. N + 1 - 1 = N /\ \A k \in 1..N : 1 + k - 1 = k
      BY <1>1
    <3> HIDE DEF start
    <3>. QED  BY <1>15, <3>2, <3>3
  <2>. QED  BY <2>1, <2>2
<1>. QED  BY <1>8, <1>16 DEF s, N, F

(* A form is understood as it was meant. *)
LEMMA FormParsed ==
  ASSUME NEW fs \in Fields
  PROVE  parseBody(FormText(fs)) = fs
<1> DEFINE ps == Pieces(FormText(fs))
<1>1. /\ ps \in Seq(Text) /\ Len(ps) = Len(fs) /\ \A n \in 1..Len(fs) : ps[n] = Field(fs[n])
  BY FormPieces
<1>2. parseBody(FormText(fs)) =
        [n \in DOMAIN ps |-> <<urlDecode(Pair(ps[n])[1]), urlDecode(Pair(ps[n])[2])>>]
  BY DEF parseBody
<1> HIDE DEF ps
<1>3. Len(fs) \in Nat /\ DOMAIN ps = 1..Len(fs)
  BY <1>1, FieldsAre
<1>4. ASSUME NEW n \in 1..Len(fs)
      PROVE  <<urlDecode(Pair(ps[n])[1]), urlDecode(Pair(ps[n])[2])>> = fs[n]
  <2>1. fs[n][1] \in Text /\ fs[n][2] \in Text /\ fs[n] = <<fs[n][1], fs[n][2]>>
    BY FieldsAre
  <2>2. Pair(ps[n]) = <<Encoded(fs[n][1]), Encoded(fs[n][2])>>
    <3> DEFINE x == fs[n][1]
               y == fs[n][2]
    <3>1. x \in Text /\ y \in Text /\ ps[n] = Field(<<x, y>>)
      BY <1>1, <2>1
    <3> HIDE DEF x, y
    <3>2. Pair(ps[n]) = <<Encoded(x), Encoded(y)>>
      BY <3>1, FieldIs
    <3>. QED  BY <3>2 DEF x, y
  <2>3. Pair(ps[n])[1] = Encoded(fs[n][1]) /\ Pair(ps[n])[2] = Encoded(fs[n][2])
    BY <2>2
  <2>4. urlDecode(Encoded(fs[n][1])) = fs[n][1] /\ urlDecode(Encoded(fs[n][2])) = fs[n][2]
    BY <2>1, DecodedIsText
  <2>. QED  BY <2>1, <2>3, <2>4
<1>5. fs = [n \in 1..Len(fs) |-> fs[n]]
  <2> DEFINE P == Text \X Text
  <2> HIDE DEF P
  <2>1. fs \in Seq(P)
    BY DEF Fields, P
  <2>. QED  BY <2>1
<1>. QED  BY <1>2, <1>3, <1>4, <1>5

-----------------------------------------------------------------------------
(* Queries. The table is filled by one pass over the pieces. *)

Named(token) == token # <<>> /\ Next_("=", token, 1) <= Len(token)

Takes(q, pieces) ==
  /\ q \in [0..Len(pieces) -> Fields] /\ q[0] = <<>>
  /\ \A n \in 1..Len(pieces) : q[n] = Taken(q[n - 1], pieces[n])

LEMMA PairIs ==
  ASSUME NEW token \in Text
  PROVE  /\ Pair(token) \in Text \X Text
         /\ Pair(token)[1] = SubSeq(token, 1, Next_("=", token, 1) - 1)
         /\ Pair(token)[2] = SubSeq(token, Next_("=", token, 1) + 1, Len(token))
<1> DEFINE eq == Next_("=", token, 1)
<1>1. Len(token) \in Nat /\ 1 \in 1..Len(token) + 1 /\ 1 \in Nat \ {0}
  BY Bytes
<1>2. eq \in 1..Len(token) + 1
  BY <1>1, NextPlace
<1> HIDE DEF eq
<1>3. SubSeq(token, 1, eq - 1) \in Text
  <2>1. eq - 1 \in Nat /\ 1 <= (eq - 1) + 1 /\ eq - 1 <= Len(token)
    BY <1>1, <1>2
  <2>. QED  BY <1>1, <2>1, PieceIs
<1>4. SubSeq(token, eq + 1, Len(token)) \in Text
  <2>1. CASE eq <= Len(token)
    <3>1. eq + 1 \in Nat \ {0} /\ eq + 1 <= Len(token) + 1 /\ Len(token) <= Len(token)
      BY <1>1, <1>2, <2>1
    <3>. QED  BY <1>1, <3>1, PieceIs
  <2>2. CASE eq = Len(token) + 1
    <3>1. SubSeq(token, eq + 1, Len(token)) = <<>>
      BY <1>1, <2>2 DEF Text
    <3>2. <<>> \in Text
      BY DEF Text
    <3>. QED  BY <3>1, <3>2
  <2>. QED  BY <1>1, <1>2, <2>1, <2>2
<1>5. Pair(token) = <<SubSeq(token, 1, eq - 1), SubSeq(token, eq + 1, Len(token))>>
  BY DEF Pair, eq
<1> DEFINE a == SubSeq(token, 1, eq - 1)
           b == SubSeq(token, eq + 1, Len(token))
<1>6. Pair(token) = <<a, b>> /\ a \in Text /\ b \in Text
  BY <1>3, <1>4, <1>5
<1> HIDE DEF a, b
<1>7. Pair(token) \in Text \X Text /\ Pair(token)[1] = a /\ Pair(token)[2] = b
  BY <1>6
<1>. QED  BY <1>7 DEF a, b, eq

LEMMA TakenIs ==
  ASSUME NEW table \in Fields, NEW token \in Text
  PROVE  Taken(table, token) \in Fields
<1>1. Pair(token) \in Text \X Text
  BY PairIs
<1> DEFINE pair == Pair(token)
<1> HIDE DEF pair
<1>2. Append(table, pair) \in Fields
  BY <1>1 DEF Fields, pair
<1>. QED  BY <1>2 DEF Taken, pair

LEMMA ParamsIs ==
  ASSUME NEW query \in Text, Pieces(query) \in Seq(Text)
  PROVE  \E q : Takes(q, Pieces(query)) /\ QueryParams(query) = q[Len(Pieces(query))]
<1> DEFINE pieces == Pieces(query)
           N == Len(pieces)
           Solves(f) == f = [n \in 0..N |-> IF n = 0 THEN <<>> ELSE Taken(f[n - 1], pieces[n])]
<1>0. pieces \in Seq(Text) /\ N \in Nat /\ \A n \in 1..N : pieces[n] \in Text
  <2> HIDE DEF pieces
  <2>1. pieces \in Seq(Text)
    BY DEF pieces
  <2>. QED  BY <2>1
<1>1. \E f \in [0..N -> Fields] : Solves(f)
  <2> DEFINE step == [n \in 1..N |-> [v \in Fields |-> Taken(v, pieces[n])]]
  <2> HIDE DEF pieces, N
  <2>1. \A n \in 1..N : \A v \in Fields : Taken(v, pieces[n]) \in Fields
    BY <1>0, TakenIs
  <2>2. step \in [1..N -> [Fields -> Fields]]
    BY <2>1
  <2>3. \A n \in 1..N : \A v \in Fields : step[n][v] = Taken(v, pieces[n])
    OBVIOUS
  <2>4. <<>> \in Fields
    BY DEF Fields
  <2> HIDE DEF step
  <2>5. PICK f : Sums(f, N, Fields, <<>>, step)
    <3>1. Steps(N, Fields, <<>>, step)
      BY <1>0, <2>2, <2>4 DEF Steps
    <3>. QED  BY <3>1, Stepwise
  <2>6. \A n \in 1..N : n - 1 \in 0..N
    BY <1>0
  <2>7. \A n \in 1..N : f[n] = Taken(f[n - 1], pieces[n])
    BY <2>3, <2>5, <2>6 DEF Sums
  <2>8. \A n \in 0..N : n = 0 \/ n \in 1..N
    BY <1>0
  <2>9. Solves(f)
    BY <2>5, <2>7, <2>8 DEF Sums
  <2>. QED  BY <2>5, <2>9 DEF Sums
<1>2. PICK f : Solves(f) /\ QueryParams(query) = f[N]
  <2>1. Solves(CHOOSE f : Solves(f))
    <3> HIDE DEF Solves
    <3>. QED  BY <1>1, Zenon
  <2>2. QueryParams(query) = (CHOOSE f : Solves(f))[N]
    BY Zenon DEF QueryParams
  <2> HIDE DEF Solves
  <2>. QED  BY <2>1, <2>2
<1> HIDE DEF pieces, N
<1>3. f[0] = <<>> /\ \A n \in 1..N : f[n] = Taken(f[n - 1], pieces[n])
  BY <1>0, <1>2
<1> DEFINE S == {n \in 0..N : f[n] \in Fields}
<1>4. 0..N \subseteq S
  <2>1. 0 \in S
    <3>1. <<>> \in Fields /\ 0 \in 0..N
      BY <1>0 DEF Fields
    <3>. QED  BY <1>3, <3>1
  <2>2. ASSUME NEW n \in 0..N - 1, n \in S PROVE n + 1 \in S
    <3>1. n + 1 \in 1..N /\ (n + 1) - 1 = n /\ n + 1 \in 0..N /\ f[n] \in Fields
      BY <1>0, <2>2
    <3>2. f[n + 1] = Taken(f[n], pieces[n + 1])
      BY <1>3, <3>1
    <3>3. f[n + 1] \in Fields
      BY <1>0, <3>1, <3>2, TakenIs
    <3>. QED  BY <3>1, <3>3
  <2> HIDE DEF S
  <2>. QED  BY <1>0, <2>1, <2>2, Upwards
<1>5. f \in [0..N -> Fields]
  BY <1>2, <1>4
<1>. QED  BY <1>2, <1>3, <1>5 DEF Takes, N, pieces

(* The place where each piece begins, in the order of the pieces. *)
Begin(st, s, pieces, n) ==
  /\ pieces \in Seq(Text)
  /\ st \in [1..Len(pieces) -> n..Len(s)]
  /\ \A a, b \in 1..Len(pieces) : a < b => st[a] < st[b]
  /\ \A m \in n..Len(s) : (m = n \/ s[m - 1] = "&") <=> \E k \in 1..Len(pieces) : st[k] = m
  /\ \A k \in 1..Len(pieces) : pieces[k] = SubSeq(s, st[k], Next_("&", s, st[k]) - 1)

LEMMA BeginNone ==
  ASSUME NEW s \in Text, NEW n \in Nat, n > Len(s)
  PROVE  \E st : Begin(st, s, <<>>, n)
<1> DEFINE st == [k \in 1..0 |-> k]
<1>1. /\ Len(s) \in Nat /\ \A m \in n..Len(s) : FALSE
  BY Bytes
<1>2. Len(<<>>) = 0 /\ <<>> \in Seq(Text) /\ \A k \in 1..0 : FALSE
  OBVIOUS
<1>3. st \in [1..0 -> n..Len(s)]
  BY <1>2
<1> HIDE DEF st
<1>4. Begin(st, s, <<>>, n)
  BY <1>1, <1>2, <1>3 DEF Begin
<1>. QED  BY <1>4

LEMMA BeginFirst ==
  ASSUME NEW s \in Text, NEW n \in 1..Len(s), NEW pieces, NEW rest,
         Begin(rest, s, pieces, Next_("&", s, n) + 1)
  PROVE  \E st : Begin(st, s, <<SubSeq(s, n, Next_("&", s, n) - 1)>> \o pieces, n)
<1> DEFINE amp == Next_("&", s, n)
           piece == SubSeq(s, n, amp - 1)
           all == <<piece>> \o pieces
           st == [k \in 1..Len(pieces) + 1 |-> IF k = 1 THEN n ELSE rest[k - 1]]
<1>1. Len(s) \in Nat /\ n \in 1..Len(s) + 1 /\ n \in Nat \ {0}
  BY Bytes
<1>2. /\ amp \in n..Len(s) + 1 /\ \A k \in n..amp - 1 : k \in 1..Len(s) /\ s[k] # "&"
      /\ amp <= Len(s) => s[amp] = "&"
  BY <1>1, NextPlace
<1>3. piece = SubSeq(s, n, Next_("&", s, n) - 1)
  OBVIOUS
<1> HIDE DEF amp
<1>4. piece \in Text
  <2>1. amp - 1 \in Nat /\ n <= (amp - 1) + 1 /\ amp - 1 <= Len(s)
    BY <1>1, <1>2
  <2>. QED  BY <1>1, <2>1, PieceIs
<1>5. /\ pieces \in Seq(Text) /\ Len(pieces) \in Nat
      /\ rest \in [1..Len(pieces) -> amp + 1..Len(s)]
      /\ \A a, b \in 1..Len(pieces) : a < b => rest[a] < rest[b]
      /\ \A m \in amp + 1..Len(s) :
           (m = amp + 1 \/ s[m - 1] = "&") <=> \E k \in 1..Len(pieces) : rest[k] = m
      /\ \A k \in 1..Len(pieces) : pieces[k] = SubSeq(s, rest[k], Next_("&", s, rest[k]) - 1)
  BY DEF Begin, amp
<1> HIDE DEF piece
<1>6. /\ all \in Seq(Text) /\ Len(all) = Len(pieces) + 1 /\ all[1] = piece
      /\ \A k \in 1..Len(pieces) : all[k + 1] = pieces[k]
  BY <1>4, <1>5, OneBefore
<1> HIDE DEF all
<1>7. \A k \in 1..Len(pieces) + 1 : k = 1 \/ (k # 1 /\ k - 1 \in 1..Len(pieces) /\ (k - 1) + 1 = k)
  BY <1>5
<1>8. st[1] = n /\ \A k \in 1..Len(pieces) : k + 1 \in 1..Len(pieces) + 1 /\ st[k + 1] = rest[k]
  BY <1>5
<1>9. \A k \in 1..Len(pieces) : rest[k] \in amp + 1..Len(s)
  BY <1>5
<1>10. st \in [1..Len(pieces) + 1 -> n..Len(s)]
  <2>1. n \in n..Len(s) /\ \A m \in amp + 1..Len(s) : m \in n..Len(s)
    BY <1>1, <1>2
  <2>. QED  BY <1>7, <1>9, <2>1
<1>11. \A k \in 1..Len(pieces) + 1 : k # 1 => st[k] = rest[k - 1]
  OBVIOUS
<1> HIDE DEF st
<1>12. ASSUME NEW a \in 1..Len(pieces) + 1, NEW b \in 1..Len(pieces) + 1, a < b
       PROVE  st[a] < st[b]
  <2>1. b # 1 /\ b - 1 \in 1..Len(pieces)
    BY <1>5, <1>12
  <2>2. CASE a = 1
    <3>1. st[b] \in amp + 1..Len(s)
      BY <1>9, <1>11, <2>1
    <3>. QED  BY <1>1, <1>2, <1>8, <2>2, <3>1
  <2>3. CASE a # 1
    <3>1. a - 1 \in 1..Len(pieces) /\ a - 1 < b - 1
      BY <1>5, <1>12, <2>3
    <3>. QED  BY <1>5, <1>11, <2>1, <2>3, <3>1
  <2>. QED  BY <2>2, <2>3
<1>13. ASSUME NEW m \in n..Len(s)
       PROVE  (m = n \/ s[m - 1] = "&") <=> \E k \in 1..Len(pieces) + 1 : st[k] = m
  <2>1. CASE m = n
    <3>1. 1 \in 1..Len(pieces) + 1
      BY <1>5
    <3>. QED  BY <1>8, <2>1, <3>1
  <2>2. CASE m # n /\ m \in amp + 1..Len(s)
    <3>1. m = amp + 1 => s[m - 1] = "&"
      BY <1>1, <1>2, <2>2
    <3>2. (\E k \in 1..Len(pieces) + 1 : st[k] = m) <=> \E k \in 1..Len(pieces) : rest[k] = m
      <4>1. ASSUME NEW k \in 1..Len(pieces) + 1, st[k] = m
            PROVE  \E l \in 1..Len(pieces) : rest[l] = m
        <5>1. k # 1
          BY <1>8, <2>2, <4>1
        <5>. QED  BY <1>7, <1>11, <4>1, <5>1
      <4>2. ASSUME NEW k \in 1..Len(pieces), rest[k] = m
            PROVE  \E l \in 1..Len(pieces) + 1 : st[l] = m
        BY <1>8, <4>2
      <4>. QED  BY <4>1, <4>2
    <3>. QED  BY <1>5, <2>2, <3>1, <3>2
  <2>3. CASE m # n /\ ~(m \in amp + 1..Len(s))
    <3>1. m - 1 \in n..amp - 1
      BY <1>1, <1>2, <2>3
    <3>2. \A k \in 1..Len(pieces) + 1 : st[k] # m
      BY <1>7, <1>8, <1>9, <1>11, <2>3
    <3>. QED  BY <1>2, <2>3, <3>1, <3>2
  <2>. QED  BY <2>1, <2>2, <2>3
<1>14. \A k \in 1..Len(pieces) + 1 : all[k] = SubSeq(s, st[k], Next_("&", s, st[k]) - 1)
  <2> TAKE k \in 1..Len(pieces) + 1
  <2>1. CASE k = 1
    BY <1>6, <1>8, <2>1 DEF piece, amp
  <2>2. CASE k # 1
    <3>1. k - 1 \in 1..Len(pieces) /\ (k - 1) + 1 = k
      BY <1>7, <2>2
    <3>2. all[k] = pieces[k - 1] /\ st[k] = rest[k - 1]
      BY <1>6, <1>11, <2>2, <3>1
    <3>. QED  BY <1>5, <3>1, <3>2
  <2>. QED  BY <2>1, <2>2
<1>15. Begin(st, s, all, n)
  BY <1>6, <1>10, <1>12, <1>13, <1>14 DEF Begin
<1>. QED  BY <1>15 DEF all, piece, amp

LEMMA PiecesBegin ==
  ASSUME NEW s \in Text
  PROVE  \E st : Begin(st, s, Pieces(s), 1)
<1>1. PICK from : Divides(from, s) /\ Pieces(s) = from[1]
  BY PiecesIs
<1> DEFINE N == Len(s)
           S == {n \in 1..N + 2 : \E st : Begin(st, s, from[n], n)}
<1>2. N \in Nat
  BY Bytes
<1>3. /\ from[N + 1] = <<>> /\ from[N + 2] = <<>>
      /\ \A n \in 1..N : from[n] = <<SubSeq(s, n, Next_("&", s, n) - 1)>> \o from[Next_("&", s, n) + 1]
  BY <1>1 DEF Divides
<1>4. ASSUME NEW n \in 1..N + 2, \A k \in n + 1..N + 2 : k \in S PROVE n \in S
  <2>1. CASE n > N
    <3>1. from[n] = <<>> /\ n \in Nat
      BY <1>2, <1>3, <2>1
    <3>2. \E st : Begin(st, s, <<>>, n)
      BY <2>1, <3>1, BeginNone
    <3>. QED  BY <3>1, <3>2
  <2>2. CASE ~(n > N)
    <3>1. n \in 1..N /\ n \in 1..N + 1
      BY <1>2, <2>2
    <3>2. Next_("&", s, n) + 1 \in n + 1..N + 2
      <4>1. Next_("&", s, n) \in n..N + 1
        BY <3>1, NextPlace
      <4>. QED  BY <1>2, <4>1
    <3>3. PICK rest : Begin(rest, s, from[Next_("&", s, n) + 1], Next_("&", s, n) + 1)
      BY <1>4, <3>2
    <3>4. \E st : Begin(st, s, <<SubSeq(s, n, Next_("&", s, n) - 1)>> \o from[Next_("&", s, n) + 1], n)
      BY <3>1, <3>3, BeginFirst
    <3>. QED  BY <1>3, <3>1, <3>4
  <2>. QED  BY <2>1, <2>2
<1>5. 1..N + 2 \subseteq S
  <2>1. N + 2 \in Nat
    BY <1>2
  <2> HIDE DEF S
  <2>. QED  BY <1>4, <2>1, FromTheEnd
<1>6. 1 \in 1..N + 2
  BY <1>2
<1>. QED  BY <1>1, <1>5, <1>6

(* The pieces that a reader sees in the query are those of the code but the empty ones. *)
LEMMA PieceOfQuery ==
  ASSUME Asked \in Text, NEW n \in 1..Len(Asked)
  PROVE  /\ (\E m \in n..Len(Asked) : IsPiece(n, m)) <=>
              (n = 1 \/ Asked[n - 1] = "&") /\ Asked[n] # "&"
         /\ Asked[n] # "&" /\ (n = 1 \/ Asked[n - 1] = "&") =>
              Piece(n) = SubSeq(Asked, n, Next_("&", Asked, n) - 1)
<1> DEFINE A == Asked
           amp == Next_("&", A, n)
<1>1. Len(A) \in Nat /\ n \in 1..Len(A) + 1 /\ n \in 1..Len(A)
  BY Bytes
<1>2. /\ amp \in n..Len(A) + 1 /\ \A k \in n..amp - 1 : k \in 1..Len(A) /\ A[k] # "&"
      /\ amp <= Len(A) => A[amp] = "&"
  <2> HIDE DEF A
  <2>1. A \in Text
    BY DEF A
  <2>. QED  BY <1>1, <2>1, NextPlace
<1>3. \A m : IsPiece(n, m) <=> /\ n = 1 \/ A[n - 1] = "&"
                               /\ m = Len(A) \/ A[m + 1] = "&"
                               /\ \A k \in n..m : A[k] # "&"
  BY DEF IsPiece
<1>4. Piece(n) = SubSeq(A, n, CHOOSE m \in n..Len(A) : IsPiece(n, m))
  BY DEF Piece
<1> HIDE DEF A, amp
<1>5. ASSUME NEW m \in n..Len(A), IsPiece(n, m)
      PROVE  (n = 1 \/ A[n - 1] = "&") /\ A[n] # "&" /\ m = amp - 1
  <2>1. n \in n..m
    BY <1>1
  <2>2. ~(amp <= m)
    <3>1. amp <= m => amp \in n..m /\ amp <= Len(A)
      BY <1>1, <1>2
    <3>. QED  BY <1>2, <1>3, <1>5, <3>1
  <2>3. ~(m + 1 < amp)
    <3>1. m + 1 < amp => m + 1 \in n..amp - 1 /\ m # Len(A)
      BY <1>1, <1>2
    <3>. QED  BY <1>2, <1>3, <1>5, <3>1
  <2>4. m = amp - 1
    BY <1>1, <1>2, <2>2, <2>3
  <2>. QED  BY <1>3, <1>5, <2>1, <2>4
<1>6. ASSUME n = 1 \/ A[n - 1] = "&", A[n] # "&"
      PROVE  amp - 1 \in n..Len(A) /\ IsPiece(n, amp - 1)
  <2>1. amp # n
    BY <1>1, <1>2, <1>6
  <2>2. amp - 1 \in n..Len(A) /\ (amp - 1) + 1 = amp /\ (amp - 1 = Len(A) \/ amp <= Len(A))
    BY <1>1, <1>2, <2>1
  <2>. QED  BY <1>2, <1>3, <1>6, <2>2
<1>7. ASSUME n = 1 \/ A[n - 1] = "&", A[n] # "&"
      PROVE  (CHOOSE m \in n..Len(A) : IsPiece(n, m)) = amp - 1
  <2>1. \A m \in n..Len(A) : IsPiece(n, m) => m = amp - 1
    BY <1>5
  <2>2. amp - 1 \in n..Len(A) /\ IsPiece(n, amp - 1)
    BY <1>6, <1>7
  <2>. QED  BY <2>1, <2>2
<1>8. (\E m \in n..Len(A) : IsPiece(n, m)) <=> (n = 1 \/ A[n - 1] = "&") /\ A[n] # "&"
  BY <1>5, <1>6
<1>9. A[n] # "&" /\ (n = 1 \/ A[n - 1] = "&") => Piece(n) = SubSeq(A, n, amp - 1)
  BY <1>4, <1>7
<1>. QED  BY <1>8, <1>9 DEF A, amp

(* A piece that begins with a key and a sign is a pair of the key and what follows. *)
LEMMA KeyOfPair ==
  ASSUME NEW token \in Text, NEW key \in Text, \A k \in 1..Len(key) : key[k] # "="
  PROVE  /\ StartsWith(token, key \o <<"=">>) <=> Named(token) /\ Pair(token)[1] = key
         /\ Named(token) /\ Pair(token)[1] = key => Pair(token)[2] = After(token, Len(key) + 1)
<1> DEFINE eq == Next_("=", token, 1)
           sign == <<"=">>
           start == key \o sign
           head == SubSeq(token, 1, eq - 1)
<1>1. Len(token) \in Nat /\ Len(key) \in Nat /\ 1 \in 1..Len(token) + 1 /\ 1 \in Nat \ {0}
  BY Bytes
<1>2. /\ eq \in 1..Len(token) + 1 /\ \A k \in 1..eq - 1 : k \in 1..Len(token) /\ token[k] # "="
      /\ eq <= Len(token) => token[eq] = "="
  BY <1>1, NextPlace
<1>3. sign \in Text /\ Len(sign) = 1 /\ sign[1] = "="
  <2>1. "=" \in STRING
    BY RoutingAssumption
  <2>. QED  BY <2>1, OneByte DEF Text
<1>4. /\ Pair(token)[1] = head
      /\ Pair(token)[2] = SubSeq(token, eq + 1, Len(token))
  BY PairIs
<1>5. Named(token) <=> eq <= Len(token)
  <2>1. token = <<>> => Len(token) = 0
    OBVIOUS
  <2> HIDE DEF eq
  <2>2. eq <= Len(token) => token # <<>>
    BY <1>1, <1>2, <2>1
  <2>. QED  BY <2>2 DEF Named, eq
<1>6. /\ StartsWith(token, key \o <<"=">>) <=> StartsWith(token, start)
      /\ After(token, Len(key) + 1) = SubSeq(token, Len(key) + 1 + 1, Len(token))
  BY DEF After
<1> HIDE DEF eq, sign
<1>7. /\ head \in Text /\ Len(head) = eq - 1 /\ \A k \in 1..eq - 1 : head[k] = token[k]
  <2>1. eq - 1 \in Nat /\ 1 <= (eq - 1) + 1 /\ eq - 1 <= Len(token) /\ (eq - 1) + 1 - 1 = eq - 1
        /\ \A k \in 1..eq - 1 : 1 + k - 1 = k
    BY <1>1, <1>2
  <2>. QED  BY <1>1, <2>1, PieceIs
<1> HIDE DEF head
<1>8. /\ start \in Text /\ Len(start) = Len(key) + 1
      /\ \A k \in 1..Len(key) : start[k] = key[k]
      /\ start[Len(key) + 1] = "="
  <2>1. /\ start \in Text /\ Len(start) = Len(key) + Len(sign)
        /\ \A k \in 1..Len(key) : start[k] = key[k]
        /\ \A k \in 1..Len(sign) : start[Len(key) + k] = sign[k]
    BY <1>3, TextJoined
  <2>2. 1 \in 1..Len(sign)
    BY <1>3
  <2> HIDE DEF start
  <2>. QED  BY <1>3, <2>1, <2>2
<1> HIDE DEF start
<1>9. StartsWith(token, start) <=>
        Len(start) <= Len(token) /\ \A k \in 1..Len(start) : token[k] = start[k]
  BY <1>8, StartsWithIs
<1>10. ASSUME StartsWith(token, start) PROVE eq = Len(key) + 1 /\ eq <= Len(token)
  <2>1. /\ Len(key) + 1 <= Len(token) /\ \A k \in 1..Len(key) : token[k] = key[k]
        /\ token[Len(key) + 1] = "="
    <3>1. \A k \in 1..Len(key) + 1 : token[k] = start[k]
      BY <1>8, <1>9, <1>10
    <3>2. Len(key) + 1 \in 1..Len(key) + 1 /\ \A k \in 1..Len(key) : k \in 1..Len(key) + 1
      BY <1>1
    <3>. QED  BY <1>8, <1>9, <1>10, <3>1, <3>2
  <2>2. ~(eq <= Len(key))
    <3>1. eq <= Len(key) => eq \in 1..Len(key) /\ eq <= Len(token)
      BY <1>1, <1>2, <2>1
    <3>. QED  BY <1>2, <2>1, <3>1
  <2>3. ~(Len(key) + 1 < eq)
    <3>1. Len(key) + 1 < eq => Len(key) + 1 \in 1..eq - 1
      BY <1>1, <1>2
    <3>. QED  BY <1>2, <2>1, <3>1
  <2>. QED  BY <1>1, <1>2, <2>1, <2>2, <2>3
<1>11. ASSUME StartsWith(token, start) PROVE head = key
  <2>1. Len(head) = Len(key)
    BY <1>1, <1>7, <1>10, <1>11
  <2>2. ASSUME NEW k \in 1..Len(head) PROVE head[k] = key[k]
    <3>1. k \in 1..eq - 1 /\ k \in 1..Len(key) /\ k \in 1..Len(start)
      BY <1>1, <1>2, <1>7, <1>8, <2>1
    <3>. QED  BY <1>7, <1>8, <1>9, <1>11, <3>1
  <2>. QED  BY <1>7, <2>1, <2>2, SameText
<1>12. ASSUME eq <= Len(token), head = key PROVE StartsWith(token, start)
  <2>1. eq = Len(key) + 1
    BY <1>1, <1>2, <1>7, <1>12
  <2>2. ASSUME NEW k \in 1..Len(start) PROVE token[k] = start[k]
    <3>1. k = Len(key) + 1 \/ (k \in 1..Len(key) /\ k \in 1..eq - 1)
      BY <1>1, <1>8, <2>1
    <3>. QED  BY <1>2, <1>7, <1>8, <1>12, <2>1, <3>1
  <2>3. Len(start) <= Len(token)
    BY <1>8, <1>12, <2>1
  <2>. QED  BY <1>9, <2>2, <2>3
<1>13. Named(token) /\ Pair(token)[1] = key => eq = Len(key) + 1
  BY <1>1, <1>2, <1>4, <1>7
<1>. QED  BY <1>4, <1>5, <1>6, <1>10, <1>11, <1>12, <1>13

(* An entry more is found when its key is the first of its kind. *)
LEMMA LookupMore ==
  ASSUME NEW table \in Fields, NEW pair \in Text \X Text, NEW key
  PROVE  Lookup(Append(table, pair), key) =
           IF Lookup(table, key) # <<>> THEN Lookup(table, key)
           ELSE IF pair[1] = key THEN <<pair[2]>> ELSE <<>>
<1> DEFINE N == Len(table)
           more == Append(table, pair)
           found == {n \in DOMAIN table : table[n][1] = key}
           foundMore == {n \in DOMAIN more : more[n][1] = key}
<1>1. N \in Nat /\ DOMAIN table = 1..N
  BY DEF Fields
<1>2. /\ DOMAIN more = 1..N + 1 /\ more[N + 1] = pair
      /\ \A n \in 1..N : more[n] = table[n]
  BY <1>1 DEF Fields
<1> HIDE DEF more
<1>3. /\ Lookup(table, key) = IF found = {} THEN <<>> ELSE <<table[CHOOSE n \in found : \A k \in found : n <= k][2]>>
      /\ Lookup(more, key) = IF foundMore = {} THEN <<>> ELSE <<more[CHOOSE n \in foundMore : \A k \in foundMore : n <= k][2]>>
  BY DEF Lookup
<1>4. foundMore = found \cup IF pair[1] = key THEN {N + 1} ELSE {}
  <2>1. \A n : n \in 1..N + 1 <=> n \in 1..N \/ n = N + 1
    BY <1>1
  <2>2. ~(N + 1 \in 1..N)
    BY <1>1
  <2>. QED  BY <1>1, <1>2, <2>1, <2>2
<1>5. found \subseteq 1..N
  BY <1>1
<1> HIDE DEF found, foundMore, N
<1>6. CASE found # {}
  <2>1. PICK n \in found : \A k \in found : n <= k
    <3>1. found \in SUBSET Nat
      BY <1>1, <1>5
    <3>. QED  BY <1>6, <3>1, LeastNat
  <2>2. \A m \in found : (\A k \in found : m <= k) => m = n
    BY <1>1, <1>5, <2>1
  <2>3. (CHOOSE m \in found : \A k \in found : m <= k) = n
    BY <2>1, <2>2
  <2>4. n \in foundMore /\ \A k \in foundMore : n <= k
    BY <1>1, <1>4, <1>5, <2>1
  <2>5. \A m \in foundMore : (\A k \in foundMore : m <= k) => m = n
    <3>1. \A m \in foundMore : m \in Nat
      BY <1>1, <1>4, <1>5
    <3>. QED  BY <2>4, <3>1
  <2>6. (CHOOSE m \in foundMore : \A k \in foundMore : m <= k) = n
    BY <2>4, <2>5
  <2>7. /\ Lookup(table, key) = <<table[n][2]>> /\ Lookup(more, key) = <<more[n][2]>>
        /\ more[n] = table[n]
    BY <1>2, <1>3, <1>5, <1>6, <2>1, <2>3, <2>4, <2>6
  <2>8. Lookup(table, key) # <<>>
    BY <2>7
  <2>. QED  BY <2>7, <2>8 DEF more
<1>7. CASE found = {} /\ pair[1] = key
  <2>1. foundMore = {N + 1} /\ N + 1 <= N + 1
    BY <1>1, <1>4, <1>7
  <2>2. (CHOOSE m \in foundMore : \A k \in foundMore : m <= k) = N + 1
    BY <2>1
  <2>. QED  BY <1>2, <1>3, <1>7, <2>1, <2>2 DEF more
<1>8. CASE found = {} /\ pair[1] # key
  <2>1. foundMore = {}
    BY <1>4, <1>8
  <2>. QED  BY <1>3, <1>8, <2>1 DEF more
<1>. QED  BY <1>6, <1>7, <1>8

(* The table does not fill up when there is room for every pair. *)
LEMMA NeverFull ==
  ASSUME NEW pieces \in Seq(Text), NEW q, Takes(q, pieces),
         NEW U, IsFiniteSet(U), Cardinality(U) <= MaxParams,
         NEW st \in [1..Len(pieces) -> Nat],
         \A a, b \in 1..Len(pieces) : a < b => st[a] < st[b],
         \A k \in 1..Len(pieces) : Named(pieces[k]) => st[k] \in U
  PROVE  \A n \in 1..Len(pieces) : Named(pieces[n]) => Len(q[n - 1]) < MaxParams
<1> DEFINE N == Len(pieces)
           kept(n) == {k \in 1..n : Named(pieces[k])}
           S == {n \in 0..N : Len(q[n]) <= Cardinality(kept(n))}
<1>1. N \in Nat /\ MaxParams \in Nat /\ \A n \in 1..N : pieces[n] \in Text
  BY ParametersAssumption
<1>2. /\ q \in [0..N -> Fields] /\ q[0] = <<>>
      /\ \A n \in 1..N : q[n] = Taken(q[n - 1], pieces[n])
  BY DEF Takes
<1> HIDE DEF N
<1>3. \A n \in 0..N : /\ n \in Int /\ kept(n) \in SUBSET (1..n)
                      /\ n + 1 \in Nat
  BY <1>1
<1>4. \A n \in 0..N : IsFiniteSet(1..n)
  BY <1>3, FS_Interval
<1>5. \A n \in 0..N : IsFiniteSet(kept(n)) /\ Cardinality(kept(n)) \in Nat
  BY <1>3, <1>4, FS_Subset, FS_CardinalityType
<1>6. \A n \in 0..N : Len(q[n]) \in Nat
  BY <1>2 DEF Fields
<1>7. ASSUME NEW n \in 0..N - 1
      PROVE  /\ n \in 0..N /\ n + 1 \in 1..N /\ n + 1 \in 0..N /\ (n + 1) - 1 = n
             /\ kept(n + 1) = kept(n) \cup IF Named(pieces[n + 1]) THEN {n + 1} ELSE {}
             /\ ~(n + 1 \in kept(n))
  <2>1. n \in 0..N /\ n + 1 \in 1..N /\ n + 1 \in 0..N /\ (n + 1) - 1 = n /\ ~(n + 1 \in 1..n)
        /\ \A k : k \in 1..n + 1 <=> k \in 1..n \/ k = n + 1
    BY <1>1
  <2>. QED  BY <2>1
<1>8. ASSUME NEW n \in 0..N - 1, Named(pieces[n + 1])
      PROVE  Cardinality(kept(n + 1)) = Cardinality(kept(n)) + 1
  <2>1. kept(n + 1) = kept(n) \cup {n + 1} /\ ~(n + 1 \in kept(n)) /\ IsFiniteSet(kept(n))
    BY <1>5, <1>7, <1>8
  <2> HIDE DEF kept
  <2>. QED  BY <2>1, FS_AddElement
<1>9. ASSUME NEW n \in 0..N - 1, ~Named(pieces[n + 1]) PROVE kept(n + 1) = kept(n)
  BY <1>7, <1>9
<1>10. 0..N \subseteq S
  <2>1. 0 \in S
    <3>1. Len(<<>>) = 0 /\ 0 \in 0..N
      BY <1>1
    <3>2. Cardinality(kept(0)) \in Nat
      <4> HIDE DEF kept
      <4>. QED  BY <1>5, <3>1
    <3> HIDE DEF kept
    <3>. QED  BY <1>2, <3>1, <3>2
  <2>2. ASSUME NEW n \in 0..N - 1, n \in S PROVE n + 1 \in S
    <3>1. /\ Len(q[n]) <= Cardinality(kept(n)) /\ q[n + 1] = Taken(q[n], pieces[n + 1])
          /\ q[n] \in Fields
      BY <1>2, <1>7, <2>2
    <3>2. /\ Len(q[n]) \in Nat /\ Cardinality(kept(n)) \in Nat /\ Cardinality(kept(n + 1)) \in Nat
      BY <1>5, <1>6, <1>7
    <3>3. CASE Named(pieces[n + 1])
      <4>1. Len(Append(q[n], Pair(pieces[n + 1]))) = Len(q[n]) + 1
        BY <3>1 DEF Fields
      <4>2. Len(q[n + 1]) <= Len(q[n]) + 1
        BY <3>1, <3>2, <4>1 DEF Taken
      <4>3. Len(q[n + 1]) \in Nat
        BY <1>6, <1>7
      <4>4. Cardinality(kept(n + 1)) = Cardinality(kept(n)) + 1
        BY <1>8, <3>3
      <4> HIDE DEF kept
      <4>5. Len(q[n + 1]) <= Cardinality(kept(n + 1))
        BY <3>1, <3>2, <4>2, <4>3, <4>4
      <4>. QED  BY <1>7, <4>5
    <3>4. CASE ~Named(pieces[n + 1])
      <4>1. q[n + 1] = q[n]
        BY <3>1, <3>4 DEF Taken, Named
      <4>. QED  BY <1>7, <1>9, <3>1, <3>4, <4>1
    <3>. QED  BY <3>3, <3>4
  <2> HIDE DEF S
  <2>. QED  BY <1>1, <2>1, <2>2, Upwards
<1>11. Cardinality(kept(N)) <= Cardinality(U) /\ Cardinality(U) \in Nat
  <2> DEFINE g == [k \in kept(N) |-> st[k]]
  <2>1. kept(N) \in SUBSET (1..N) /\ \A k \in kept(N) : Named(pieces[k]) /\ st[k] \in U
    BY <1>1 DEF N
  <2>2. \A a, b \in 1..N : st[a] = st[b] => a = b
    <3> SUFFICES ASSUME NEW a \in 1..N, NEW b \in 1..N, st[a] = st[b] PROVE a = b
      OBVIOUS
    <3>1. ~(a < b) /\ ~(b < a)
      <4>1. st[a] \in Nat /\ st[b] \in Nat
        BY DEF N
      <4>. QED  BY <4>1 DEF N
    <3>. QED  BY <1>1, <3>1
  <2> HIDE DEF kept
  <2>3. g \in [kept(N) -> U] /\ \A a, b \in kept(N) : g[a] = g[b] => a = b
    BY <2>1, <2>2
  <2> HIDE DEF g
  <2>4. g \in Injection(kept(N), U)
    BY <2>3 DEF Injection, IsInjective
  <2>. QED  BY <2>4, FS_Injection, FS_CardinalityType
<1>12. ASSUME NEW n \in 1..N, Named(pieces[n]) PROVE Len(q[n - 1]) < MaxParams
  <2>1. n - 1 \in 0..N - 1 /\ n - 1 \in 0..N /\ (n - 1) + 1 = n /\ n \in 0..N /\ N \in 0..N
    BY <1>1
  <2>2. Cardinality(kept(n)) = Cardinality(kept(n - 1)) + 1
    BY <1>8, <1>12, <2>1
  <2>3. Cardinality(kept(n)) <= Cardinality(kept(N))
    <3>1. kept(n) \in SUBSET kept(N)
      BY <1>1
    <3>2. IsFiniteSet(kept(N))
      BY <1>5, <2>1
    <3> HIDE DEF kept
    <3>. QED  BY <3>1, <3>2, FS_Subset
  <2>4. Len(q[n - 1]) <= Cardinality(kept(n - 1)) /\ Len(q[n - 1]) \in Nat
    BY <1>6, <1>10, <2>1
  <2>5. /\ Cardinality(kept(n)) \in Nat /\ Cardinality(kept(n - 1)) \in Nat
        /\ Cardinality(kept(N)) \in Nat
    BY <1>5, <2>1
  <2> HIDE DEF kept
  <2>. QED  BY <1>1, <1>11, <2>2, <2>3, <2>4, <2>5
<1>. QED  BY <1>12 DEF N

(* What is found then is the value of the first pair of the key. *)
Holds(pieces, key, k) == Named(pieces[k]) /\ Pair(pieces[k])[1] = key

FirstOf(pieces, key, value, n) ==
  \/ value = <<>> /\ \A k \in 1..n : ~Holds(pieces, key, k)
  \/ \E k \in 1..n : /\ Holds(pieces, key, k) /\ \A l \in 1..k - 1 : ~Holds(pieces, key, l)
                     /\ value = <<Pair(pieces[k])[2]>>

LEMMA FirstFound ==
  ASSUME NEW pieces \in Seq(Text), NEW q, Takes(q, pieces), NEW key,
         \A n \in 1..Len(pieces) : Named(pieces[n]) => Len(q[n - 1]) < MaxParams
  PROVE  FirstOf(pieces, key, Lookup(q[Len(pieces)], key), Len(pieces))
<1> DEFINE N == Len(pieces)
           S == {n \in 0..N : FirstOf(pieces, key, Lookup(q[n], key), n)}
<1>1. N \in Nat /\ \A n \in 1..N : pieces[n] \in Text
  OBVIOUS
<1>2. /\ q \in [0..N -> Fields] /\ q[0] = <<>>
      /\ \A n \in 1..N : q[n] = Taken(q[n - 1], pieces[n])
      /\ \A n \in 1..N : Named(pieces[n]) => Len(q[n - 1]) < MaxParams
  BY DEF Takes
<1> HIDE DEF N
<1>3. 0 \in S
  <2>1. DOMAIN <<>> = {} /\ 0 \in 0..N /\ \A k \in 1..0 : FALSE
    BY <1>1
  <2>2. Lookup(q[0], key) = <<>>
    BY <1>2, <2>1 DEF Lookup
  <2>. QED  BY <2>1, <2>2 DEF FirstOf
<1>4. ASSUME NEW n \in 0..N - 1, n \in S PROVE n + 1 \in S
  <2>1. /\ n + 1 \in 1..N /\ n + 1 \in 0..N /\ (n + 1) - 1 = n /\ n \in 0..N
        /\ \A k : k \in 1..n + 1 <=> k \in 1..n \/ k = n + 1
    BY <1>1
  <2> DEFINE p == pieces[n + 1]
  <2>2. /\ q[n] \in Fields /\ q[n + 1] = Taken(q[n], p) /\ p \in Text
        /\ Named(p) => Len(q[n]) < MaxParams
        /\ FirstOf(pieces, key, Lookup(q[n], key), n)
    BY <1>1, <1>2, <1>4, <2>1
  <2>3. Holds(pieces, key, n + 1) <=> Named(p) /\ Pair(p)[1] = key
    BY DEF Holds
  <2> HIDE DEF p
  <2>4. Named(p) => Lookup(q[n + 1], key) =
                      IF Lookup(q[n], key) # <<>> THEN Lookup(q[n], key)
                      ELSE IF Pair(p)[1] = key THEN <<Pair(p)[2]>> ELSE <<>>
    <3> SUFFICES ASSUME Named(p) PROVE Lookup(q[n + 1], key) =
                      IF Lookup(q[n], key) # <<>> THEN Lookup(q[n], key)
                      ELSE IF Pair(p)[1] = key THEN <<Pair(p)[2]>> ELSE <<>>
      OBVIOUS
    <3>1. q[n + 1] = Append(q[n], Pair(p))
      BY <2>2 DEF Taken, Named
    <3>2. Pair(p) \in Text \X Text
      BY <2>2, PairIs
    <3>. QED  BY <2>2, <3>1, <3>2, LookupMore
  <2>5. ~Named(p) => q[n + 1] = q[n]
    BY <2>2 DEF Taken, Named
  <2>6. CASE \E k \in 1..n : /\ Holds(pieces, key, k) /\ \A l \in 1..k - 1 : ~Holds(pieces, key, l)
                             /\ Lookup(q[n], key) = <<Pair(pieces[k])[2]>>
    <3>1. Lookup(q[n], key) # <<>>
      BY <2>6
    <3>2. Lookup(q[n + 1], key) = Lookup(q[n], key)
      BY <2>4, <2>5, <3>1
    <3>. QED  BY <2>1, <2>6, <3>2 DEF FirstOf
  <2>7. CASE Lookup(q[n], key) = <<>> /\ \A k \in 1..n : ~Holds(pieces, key, k)
    <3>1. CASE Holds(pieces, key, n + 1)
      <4>1. Lookup(q[n + 1], key) = <<Pair(pieces[n + 1])[2]>>
        BY <2>3, <2>4, <2>7, <3>1 DEF p
      <4>. QED  BY <2>1, <2>7, <3>1, <4>1 DEF FirstOf
    <3>2. CASE ~Holds(pieces, key, n + 1)
      <4>1. Lookup(q[n + 1], key) = <<>>
        BY <2>3, <2>4, <2>5, <2>7, <3>2
      <4>. QED  BY <2>1, <2>7, <3>2, <4>1 DEF FirstOf
    <3>. QED  BY <3>1, <3>2
  <2>. QED  BY <2>2, <2>6, <2>7 DEF FirstOf
<1>5. 0..N \subseteq S
  <2> HIDE DEF S
  <2>. QED  BY <1>1, <1>3, <1>4, Upwards
<1>6. N \in 0..N
  BY <1>1
<1>. QED  BY <1>5, <1>6 DEF N

LEMMA SuffixIs ==
  ASSUME NEW text \in Text, NEW n \in 0..Len(text)
  PROVE  /\ After(text, n) \in Text /\ Len(After(text, n)) = Len(text) - n
         /\ \A k \in 1..Len(text) - n : After(text, n)[k] = text[n + k]
<1>1. /\ Len(text) \in Nat /\ n + 1 \in Nat \ {0} /\ n + 1 <= Len(text) + 1 /\ Len(text) <= Len(text)
      /\ Len(text) + 1 - (n + 1) = Len(text) - n
      /\ \A k \in 1..Len(text) - n : n + 1 + k - 1 = n + k
  BY Bytes
<1>2. /\ SubSeq(text, n + 1, Len(text)) \in Text
      /\ Len(SubSeq(text, n + 1, Len(text))) = Len(text) + 1 - (n + 1)
      /\ \A k \in 1..Len(text) + 1 - (n + 1) :
           SubSeq(text, n + 1, Len(text))[k] = text[n + 1 + k - 1]
  BY <1>1, PieceIs
<1>. QED  BY <1>1, <1>2 DEF After

LEMMA NoSuffix ==
  ASSUME NEW text \in Text
  PROVE  After(text, Len(text) + 1) = <<>> /\ <<>> \in Text
<1>1. Len(text) \in Nat
  BY Bytes
<1>. QED  BY <1>1 DEF After, Text

LEMMA QueryIs ==
  ASSUME NEW text \in Text
  PROVE  Query(text) \in Text
<1>1. Len(text) \in Nat /\ 1 \in 1..Len(text) + 1
  BY Bytes
<1>2. Next_("?", text, 1) \in 1..Len(text) + 1
  BY <1>1, NextPlace
<1>3. CASE Next_("?", text, 1) = Len(text) + 1
  BY <1>3, NoSuffix DEF Query
<1>4. CASE Next_("?", text, 1) \in 0..Len(text)
  BY <1>4, SuffixIs DEF Query
<1>. QED  BY <1>1, <1>2, <1>3, <1>4

(* The query is behind one place of the path and of what is left of it. *)
LEMMA QueryOfRest ==
  ASSUME path \in Text, NEW endpoint \in Text, \A k \in DOMAIN endpoint : endpoint[k] # "?",
         Under(endpoint)
  PROVE  Asked \in Text /\ Query(Rest(endpoint)) = Asked
<1> DEFINE q == Next_("?", path, 1)
           E == Len(endpoint)
           rest == After(path, E)
           r == Next_("?", rest, 1)
<1>1. Len(path) \in Nat /\ E \in Nat /\ 1 \in 1..Len(path) + 1 /\ DOMAIN endpoint = 1..E
  BY Bytes
<1>2. /\ q \in 1..Len(path) + 1
      /\ \A k \in 1..q - 1 : k \in 1..Len(path) /\ path[k] # "?"
      /\ q <= Len(path) => path[q] = "?"
  BY <1>1, NextPlace
<1>3. Asked = Query(path)
  <2>1. Len(Name) = q - 1
    BY NameIs
  <2>2. Len(Name) + 1 = q
    BY <1>1, <1>2, <2>1
  <2>. QED  BY <2>2 DEF Asked, Query
<1>4. Asked \in Text
  BY <1>3, QueryIs
<1>5. CASE endpoint = Slash
  <2>1. 1 <= Len(path)
    BY <1>5, UnderIs
  <2>2. path # <<>>
    BY <2>1
  <2>3. Rest(endpoint) = path
    BY <1>5, <2>2 DEF Rest
  <2>. QED  BY <1>3, <1>4, <2>3
<1>6. CASE endpoint # Slash
  <2>1. E <= Len(path) /\ \A k \in 1..E : path[k] = endpoint[k]
    BY <1>6, UnderIs
  <2>2. E \in 0..Len(path) /\ \A k \in 1..E : path[k] # "?"
    BY <1>1, <2>1
  <2>3. /\ rest \in Text /\ Len(rest) = Len(path) - E
        /\ \A k \in 1..Len(path) - E : rest[k] = path[E + k]
    BY <2>2, SuffixIs
  <2>4. Rest(endpoint) = IF rest = <<>> THEN Slash ELSE rest
    BY <1>6 DEF Rest
  <2>5. Query(path) = After(path, q) /\ Query(rest) = After(rest, r)
    BY DEF Query
  <2>6. ~(q <= E)
    <3>1. q <= E => q \in 1..E /\ q <= Len(path)
      BY <1>1, <1>2, <2>2
    <3>. QED  BY <1>2, <2>2, <3>1
  <2> HIDE DEF q, E, rest
  <2>7. CASE rest = <<>>
    <3>1. E = Len(path)
      <4>1. Len(<<>>) = 0
        OBVIOUS
      <4>. QED  BY <1>1, <2>2, <2>3, <2>7, <4>1
    <3>2. q = Len(path) + 1
      BY <1>1, <1>2, <2>6, <3>1
    <3>3. Query(path) = <<>>
      BY <2>5, <3>2, NoSuffix
    <3>4. Query(Slash) = <<>>
      <4>1. Slash \in Text /\ Len(Slash) = 1 /\ Slash[1] = "/"
        BY SlashText
      <4>2. {n \in 1..Len(Slash) : Slash[n] = "?"} = {}
        BY <4>1
      <4>3. Next_("?", Slash, 1) = Len(Slash) + 1
        BY <4>2 DEF Next_
      <4>. QED  BY <4>1, <4>3, NoSuffix DEF Query
    <3>. QED  BY <1>3, <1>4, <2>4, <2>7, <3>3, <3>4
  <2>8. CASE rest # <<>>
    <3>1. /\ Len(rest) \in Nat /\ 1 \in 1..Len(rest) + 1
      BY <2>3, Bytes
    <3>2. /\ r \in 1..Len(rest) + 1
          /\ \A k \in 1..r - 1 : k \in 1..Len(rest) /\ rest[k] # "?"
          /\ r <= Len(rest) => rest[r] = "?"
      BY <2>3, <3>1, NextPlace
    <3> HIDE DEF r
    <3>3. ~(E + r < q)
      <4>1. E + r < q => r <= Len(rest) /\ E + r \in 1..q - 1 /\ r \in 1..Len(path) - E
        BY <1>1, <1>2, <2>2, <2>3, <3>1, <3>2
      <4>. QED  BY <1>2, <2>3, <3>2, <4>1
    <3>4. ~(q < E + r)
      <4>1. q < E + r => /\ q - E \in 1..r - 1 /\ q <= Len(path) /\ E + (q - E) = q
                         /\ q - E \in 1..Len(path) - E
        BY <1>1, <1>2, <2>2, <2>3, <2>6, <3>1, <3>2
      <4>. QED  BY <1>2, <2>3, <3>2, <4>1
    <3>5. q = E + r
      BY <1>1, <1>2, <3>1, <3>2, <3>3, <3>4
    <3>6. CASE r = Len(rest) + 1
      <4>1. q = Len(path) + 1
        BY <1>1, <2>3, <3>5, <3>6
      <4>2. After(path, q) = <<>> /\ After(rest, r) = <<>>
        BY <2>3, <3>6, <4>1, NoSuffix
      <4>. QED  BY <1>3, <1>4, <2>4, <2>5, <2>8, <4>2
    <3>7. CASE r # Len(rest) + 1
      <4>1. q \in 0..Len(path) /\ r \in 0..Len(rest) /\ Len(rest) - r = Len(path) - q
        BY <1>1, <1>2, <2>2, <2>3, <3>1, <3>2, <3>5, <3>7
      <4>2. /\ After(path, q) \in Text /\ Len(After(path, q)) = Len(path) - q
            /\ \A k \in 1..Len(path) - q : After(path, q)[k] = path[q + k]
        BY <4>1, SuffixIs
      <4>3. /\ After(rest, r) \in Text /\ Len(After(rest, r)) = Len(rest) - r
            /\ \A k \in 1..Len(rest) - r : After(rest, r)[k] = rest[r + k]
        BY <2>3, <4>1, SuffixIs
      <4>4. \A k \in 1..Len(path) - q : r + k \in 1..Len(path) - E /\ E + (r + k) = q + k
        BY <1>1, <1>2, <2>2, <2>3, <3>1, <3>2, <3>5
      <4>5. ASSUME NEW k \in 1..Len(path) - q PROVE After(path, q)[k] = After(rest, r)[k]
        <5>1. After(rest, r)[k] = rest[r + k]
          BY <4>1, <4>3
        <5>2. rest[r + k] = path[E + (r + k)]
          BY <2>3, <4>4
        <5>. QED  BY <4>2, <4>4, <5>1, <5>2
      <4>6. After(path, q) = After(rest, r)
        BY <4>1, <4>2, <4>3, <4>5, SameText
      <4>. QED  BY <1>3, <1>4, <2>4, <2>5, <2>8, <4>6
    <3>. QED  BY <3>6, <3>7
  <2>. QED  BY <2>7, <2>8
<1>. QED  BY <1>5, <1>6

LEMMA KeyIs ==
  ASSUME Asked \in Text, NEW key \in Keys
  PROVE  key \in Text /\ \A k \in 1..Len(key) : key[k] \notin {"&", "="}
<1>1. Len(Asked) \in Nat
  BY Bytes
<1>2. PICK n \in 1..Len(Asked), m \in 0..Len(Asked) : key = SubSeq(Asked, n, m)
  BY DEF Keys
<1>3. \A k \in DOMAIN key : key[k] \notin {"&", "="}
  BY DEF Keys
<1>4. key \in Text
  <2>1. CASE n <= m + 1
    <3>1. n \in Nat \ {0} /\ m \in Nat /\ m <= Len(Asked)
      BY <1>1
    <3>. QED  BY <1>2, <2>1, <3>1, PieceIs
  <2>2. CASE ~(n <= m + 1)
    <3>1. key = <<>>
      BY <1>1, <1>2, <2>2 DEF Text
    <3>. QED  BY <3>1, NoSuffix
  <2>. QED  BY <2>1, <2>2
<1>. QED  BY <1>3, <1>4, Bytes

(* Every pair is under one of the keys of which the reader asks. *)
LEMMA KeysOfPairs ==
  ASSUME Asked \in Text, NEW n \in 1..Len(Asked), n = 1 \/ Asked[n - 1] = "&",
         Named(SubSeq(Asked, n, Next_("&", Asked, n) - 1))
  PROVE  n \in UNION {Assigning(key) : key \in Keys}
<1> DEFINE A == Asked
           amp == Next_("&", A, n)
           token == SubSeq(A, n, amp - 1)
           eq == Next_("=", token, 1)
           key == SubSeq(A, n, n + eq - 2)
<1>1. Len(A) \in Nat /\ n \in 1..Len(A) + 1 /\ n \in 1..Len(A) /\ A \in Text /\ n \in Nat \ {0}
  BY Bytes
<1>2. /\ amp \in n..Len(A) + 1 /\ \A k \in n..amp - 1 : k \in 1..Len(A) /\ A[k] # "&"
      /\ amp <= Len(A) => A[amp] = "&"
  <2> HIDE DEF A
  <2>. QED  BY <1>1, NextPlace
<1>3. Named(token) /\ (n = 1 \/ A[n - 1] = "&")
  OBVIOUS
<1>4. /\ \A k : n \in Assigning(k) <=> /\ \E m \in n..Len(A) : IsPiece(n, m)
                                       /\ StartsWith(Piece(n), k \o <<"=">>)
      /\ (\E m \in n..Len(A) : IsPiece(n, m)) <=> A[n] # "&"
      /\ A[n] # "&" => Piece(n) = token
  <2>1. DOMAIN A = 1..Len(A)
    BY Bytes
  <2>2. \A k : n \in Assigning(k) <=> /\ \E m \in n..Len(A) : IsPiece(n, m)
                                      /\ StartsWith(Piece(n), k \o <<"=">>)
    BY <2>1 DEF Assigning
  <2>. QED  BY <2>2, PieceOfQuery
<1>5. \A k \in 1..Len(A), m \in 0..Len(A) :
        (\A l \in DOMAIN SubSeq(A, k, m) : SubSeq(A, k, m)[l] \notin {"&", "="}) => SubSeq(A, k, m) \in Keys
  <2> TAKE k \in 1..Len(A), m \in 0..Len(A)
  <2> DEFINE All == {SubSeq(A, f, t) : f \in 1..Len(A), t \in 0..Len(A)}
             x == SubSeq(A, k, m)
  <2>1. x \in All
    OBVIOUS
  <2>2. Keys = {other \in All : \A l \in DOMAIN other : other[l] \notin {"&", "="}}
    BY DEF Keys
  <2> HIDE DEF All, x
  <2>3. (\A l \in DOMAIN x : x[l] \notin {"&", "="}) => x \in Keys
    BY <2>1, <2>2
  <2>. QED  BY <2>3 DEF x
<1> HIDE DEF A, amp
<1>6. /\ token \in Text /\ Len(token) = amp - n /\ \A k \in 1..amp - n : token[k] = A[n + k - 1]
  <2>1. amp - 1 \in Nat /\ n <= (amp - 1) + 1 /\ amp - 1 <= Len(A) /\ (amp - 1) + 1 - n = amp - n
    BY <1>1, <1>2
  <2>2. /\ SubSeq(A, n, amp - 1) \in Text /\ Len(SubSeq(A, n, amp - 1)) = (amp - 1) + 1 - n
        /\ \A k \in 1..(amp - 1) + 1 - n : SubSeq(A, n, amp - 1)[k] = A[n + k - 1]
    BY <1>1, <2>1, PieceIs
  <2>. QED  BY <2>1, <2>2
<1> HIDE DEF token
<1>7. /\ Len(token) \in Nat /\ 1 \in 1..Len(token) + 1 /\ 1 \in Nat \ {0}
  BY <1>6, Bytes
<1>8. /\ eq \in 1..Len(token) + 1 /\ \A k \in 1..eq - 1 : k \in 1..Len(token) /\ token[k] # "="
      /\ eq <= Len(token)
  BY <1>3, <1>6, <1>7, NextPlace DEF Named
<1>9. Pair(token)[1] = SubSeq(token, 1, eq - 1)
  BY <1>6, PairIs
<1> HIDE DEF eq
<1>10. /\ key \in Text /\ Len(key) = eq - 1 /\ DOMAIN key = 1..eq - 1
       /\ \A k \in 1..eq - 1 : key[k] = A[n + k - 1]
  <2>1. n + eq - 2 \in Nat /\ n <= (n + eq - 2) + 1 /\ n + eq - 2 <= Len(A)
        /\ (n + eq - 2) + 1 - n = eq - 1
    BY <1>1, <1>2, <1>6, <1>7, <1>8
  <2>2. /\ key \in Text /\ Len(key) = (n + eq - 2) + 1 - n
        /\ \A k \in 1..(n + eq - 2) + 1 - n : key[k] = A[n + k - 1]
    BY <1>1, <2>1, PieceIs
  <2> HIDE DEF key
  <2>3. key \in Text /\ Len(key) = eq - 1 /\ \A k \in 1..eq - 1 : key[k] = A[n + k - 1]
    BY <2>1, <2>2
  <2>. QED  BY <2>3, Bytes
<1>11. \A k \in 1..eq - 1 : k \in 1..amp - n /\ n + k - 1 \in n..amp - 1
  BY <1>1, <1>2, <1>6, <1>7, <1>8
<1>12. \A k \in 1..eq - 1 : key[k] = token[k] /\ key[k] # "=" /\ key[k] # "&"
  <2> HIDE DEF key
  <2>. QED  BY <1>2, <1>6, <1>8, <1>10, <1>11
<1>13. key \in Keys
  <2>1. n + eq - 2 \in 0..Len(A)
    BY <1>1, <1>2, <1>6, <1>7, <1>8
  <2>. QED  BY <1>1, <1>5, <1>10, <1>12, <2>1
<1> HIDE DEF key
<1>14. SubSeq(token, 1, eq - 1) = key
  <2>1. eq - 1 \in Nat /\ 1 <= (eq - 1) + 1 /\ eq - 1 <= Len(token) /\ (eq - 1) + 1 - 1 = eq - 1
        /\ \A k \in 1..eq - 1 : 1 + k - 1 = k
    BY <1>7, <1>8
  <2> DEFINE head == SubSeq(token, 1, eq - 1)
  <2>2. head \in Text /\ Len(head) = eq - 1 /\ \A k \in 1..eq - 1 : head[k] = token[k]
    BY <1>6, <1>7, <2>1, PieceIs
  <2> HIDE DEF head
  <2>3. head = key
    <3>1. Len(head) = Len(key) /\ \A k \in 1..Len(head) : head[k] = key[k]
      BY <1>10, <1>12, <2>2
    <3>. QED  BY <1>10, <2>2, <3>1, SameText
  <2>. QED  BY <2>3 DEF head
<1>15. StartsWith(token, key \o <<"=">>)
  <2>1. \A k \in 1..Len(key) : key[k] # "="
    BY <1>10, <1>12
  <2>. QED  BY <1>3, <1>6, <1>9, <1>10, <1>14, <2>1, KeyOfPair
<1>16. A[n] # "&"
  <2>1. n \in n..amp - 1
    BY <1>1, <1>2, <1>6, <1>7, <1>8
  <2>. QED  BY <1>2, <2>1
<1>17. n \in Assigning(key)
  BY <1>4, <1>15, <1>16
<1>. QED  BY <1>13, <1>17

(* getQueryParam finds what the reader does. *)
LEMMA QueryFound ==
  ASSUME Asked \in Text, Cardinality(UNION {Assigning(key) : key \in Keys}) <= MaxParams,
         NEW key \in Keys
  PROVE  Lookup(QueryParams(Asked), key) = ValueOf(key)
<1> DEFINE pieces == Pieces(Asked)
           N == Len(pieces)
           U == UNION {Assigning(other) : other \in Keys}
<1>1. PICK st : Begin(st, Asked, pieces, 1)
  BY PiecesBegin
<1>2. /\ pieces \in Seq(Text) /\ st \in [1..N -> 1..Len(Asked)]
      /\ \A a, b \in 1..N : a < b => st[a] < st[b]
      /\ \A m \in 1..Len(Asked) : (m = 1 \/ Asked[m - 1] = "&") <=> \E k \in 1..N : st[k] = m
      /\ \A k \in 1..N : pieces[k] = SubSeq(Asked, st[k], Next_("&", Asked, st[k]) - 1)
  BY <1>1 DEF Begin
<1>3. PICK q : Takes(q, pieces) /\ QueryParams(Asked) = q[N]
  BY <1>2, ParamsIs
<1> HIDE DEF pieces
<1>4. N \in Nat /\ Len(Asked) \in Nat /\ DOMAIN Asked = 1..Len(Asked) /\ \A k \in 1..N : pieces[k] \in Text
  BY <1>2, Bytes
<1>5. key \in Text /\ \A k \in 1..Len(key) : key[k] # "="
  BY KeyIs
<1>6. \A k \in 1..N : /\ st[k] \in 1..Len(Asked) /\ (st[k] = 1 \/ Asked[st[k] - 1] = "&")
  BY <1>2
<1>7. \A k \in 1..N : Named(pieces[k]) => st[k] \in U
  BY <1>2, <1>6, KeysOfPairs
<1>8. IsFiniteSet(U)
  <2>1. IsFiniteSet(1..Len(Asked))
    BY <1>4, FS_Interval
  <2>2. U \in SUBSET (1..Len(Asked))
    BY <1>4 DEF Assigning
  <2> HIDE DEF U
  <2>. QED  BY <2>1, <2>2, FS_Subset
<1>9. \A n \in 1..N : Named(pieces[n]) => Len(q[n - 1]) < MaxParams
  <2>1. st \in [1..N -> Nat]
    BY <1>2, <1>4
  <2>2. Cardinality(U) <= MaxParams
    OBVIOUS
  <2> HIDE DEF U
  <2>. QED  BY <1>2, <1>3, <1>7, <1>8, <2>1, <2>2, NeverFull
<1>10. FirstOf(pieces, key, Lookup(QueryParams(Asked), key), N)
  BY <1>2, <1>3, <1>9, FirstFound
<1>11. \A k \in 1..N : st[k] \in Assigning(key) <=> Holds(pieces, key, k)
  <2> TAKE k \in 1..N
  <2> DEFINE n == st[k]
             token == pieces[k]
  <2>1. n \in 1..Len(Asked) /\ (n = 1 \/ Asked[n - 1] = "&") /\ token \in Text
        /\ token = SubSeq(Asked, n, Next_("&", Asked, n) - 1)
    BY <1>2, <1>4, <1>6
  <2>2. Holds(pieces, key, k) <=> Named(token) /\ Pair(token)[1] = key
    BY DEF Holds
  <2> HIDE DEF n, token
  <2>3. /\ (\E m \in n..Len(Asked) : IsPiece(n, m)) <=> Asked[n] # "&"
        /\ Asked[n] # "&" => Piece(n) = token
    BY <2>1, PieceOfQuery
  <2>4. n \in Assigning(key) <=> /\ \E m \in n..Len(Asked) : IsPiece(n, m)
                                 /\ StartsWith(Piece(n), key \o <<"=">>)
    BY <1>4, <2>1 DEF Assigning
  <2>5. StartsWith(token, key \o <<"=">>) <=> Named(token) /\ Pair(token)[1] = key
    BY <1>5, <2>1, KeyOfPair
  <2>6. Named(token) => Asked[n] # "&"
    <3> SUFFICES ASSUME Asked[n] = "&", Named(token) PROVE FALSE
      OBVIOUS
    <3>1. Next_("&", Asked, n) = n
      <4>1. n \in 1..Len(Asked) + 1
        BY <1>4, <2>1
      <4>2. /\ Next_("&", Asked, n) \in n..Len(Asked) + 1
            /\ \A l \in n..Next_("&", Asked, n) - 1 : Asked[l] # "&"
        BY <4>1, NextPlace
      <4> DEFINE amp == Next_("&", Asked, n)
      <4> HIDE DEF amp
      <4>3. ~(n < amp)
        <5>1. n < amp => n \in n..amp - 1
          BY <1>4, <2>1, <4>2 DEF amp
        <5>. QED  BY <4>2, <5>1 DEF amp
      <4>4. amp = n
        BY <1>4, <2>1, <4>2, <4>3 DEF amp
      <4>. QED  BY <4>4 DEF amp
    <3>2. token = SubSeq(Asked, n, n - 1)
      BY <2>1, <3>1
    <3>3. Len(token) = 0
      <4>1. n \in Nat \ {0} /\ n - 1 \in Nat /\ n <= (n - 1) + 1 /\ n - 1 <= Len(Asked)
            /\ (n - 1) + 1 - n = 0
        BY <1>4, <2>1
      <4>2. Len(SubSeq(Asked, n, n - 1)) = (n - 1) + 1 - n
        BY <4>1, PieceIs
      <4>. QED  BY <3>2, <4>1, <4>2
    <3>4. token = <<>>
      BY <2>1, <3>3 DEF Text
    <3>. QED  BY <3>4 DEF Named
  <2>. QED  BY <2>2, <2>3, <2>4, <2>5, <2>6 DEF n
<1>12. \A n \in Assigning(key) : \E k \in 1..N : st[k] = n
  <2> TAKE n \in Assigning(key)
  <2>1. n \in 1..Len(Asked) /\ \E m \in n..Len(Asked) : IsPiece(n, m)
    BY <1>4 DEF Assigning
  <2>2. n = 1 \/ Asked[n - 1] = "&"
    BY <2>1, PieceOfQuery
  <2>. QED  BY <1>2, <2>1, <2>2
<1>13. CASE Lookup(QueryParams(Asked), key) = <<>> /\ \A k \in 1..N : ~Holds(pieces, key, k)
  <2>1. Assigning(key) = {}
    BY <1>11, <1>12, <1>13
  <2>. QED  BY <1>13, <2>1 DEF ValueOf
<1>14. CASE \E k \in 1..N : /\ Holds(pieces, key, k) /\ \A l \in 1..k - 1 : ~Holds(pieces, key, l)
                            /\ Lookup(QueryParams(Asked), key) = <<Pair(pieces[k])[2]>>
  <2>1. PICK k \in 1..N : /\ Holds(pieces, key, k) /\ \A l \in 1..k - 1 : ~Holds(pieces, key, l)
                          /\ Lookup(QueryParams(Asked), key) = <<Pair(pieces[k])[2]>>
    BY <1>14
  <2> DEFINE n == st[k]
             T == Assigning(key)
  <2>2. n \in T
    BY <1>11, <2>1
  <2>3. \A m \in T : n <= m /\ m \in Nat
    <3> TAKE m \in T
    <3>1. PICK l \in 1..N : st[l] = m
      BY <1>12
    <3>2. ~(l \in 1..k - 1)
      BY <1>11, <2>1, <3>1
    <3>3. l = k \/ k < l
      BY <1>4, <3>2
    <3>4. st[l] \in 1..Len(Asked) /\ st[k] \in 1..Len(Asked) /\ (k < l => st[k] < st[l])
      BY <1>2
    <3>5. st[l] \in Nat /\ st[k] \in Nat
      BY <1>4, <3>4
    <3> HIDE DEF T
    <3>. QED  BY <3>1, <3>3, <3>4, <3>5
  <2>4. ValueOf(key) = IF T = {} THEN <<>>
                       ELSE <<After(Piece(CHOOSE m \in T : \A l \in T : m <= l), Len(key) + 1)>>
    BY Zenon DEF ValueOf
  <2>5. n \in 1..Len(Asked) /\ Asked[n] # "&" /\ (n = 1 \/ Asked[n - 1] = "&")
    <3>1. \E m \in n..Len(Asked) : IsPiece(n, m)
      BY <2>2 DEF Assigning
    <3>. QED  BY <1>6, <3>1, PieceOfQuery
  <2>6. Piece(n) = pieces[k]
    BY <1>2, <2>5, PieceOfQuery
  <2> HIDE DEF T, n
  <2>7. (CHOOSE m \in T : \A l \in T : m <= l) = n
    <3>1. \A m \in T : (\A l \in T : m <= l) => m = n
      BY <2>2, <2>3
    <3>. QED  BY <2>2, <2>3, <3>1
  <2>8. ValueOf(key) = <<After(pieces[k], Len(key) + 1)>>
    BY <2>2, <2>4, <2>6, <2>7
  <2>9. Pair(pieces[k])[2] = After(pieces[k], Len(key) + 1)
    BY <1>4, <1>5, <2>1, KeyOfPair DEF Holds
  <2>. QED  BY <2>1, <2>8, <2>9
<1>. QED  BY <1>10, <1>13, <1>14 DEF FirstOf

-----------------------------------------------------------------------------
(* The search. The code's own test of an endpoint, and the invariant of its loops:
   no endpoint before the place they stand at has passed it.                  *)

Enters(a) == plugins[a].loaded /\ Under(plugins[a].endpoint)
Left(a) == WithoutQuery(Rest(plugins[a].endpoint))
Asks(a) == QueryParams(Query(Rest(plugins[a].endpoint)))
Serving(a, b) == Enters(a) /\ Serves(plugins[a].endpoints[b], Left(a))

RequestInv ==
  /\ plugins \in Seq(Plugins) /\ path \in Text /\ form \in Fields
  /\ i \in Nat \ {0} /\ j \in Nat

PlaceInv ==
  j # 0 => /\ i <= Len(plugins) /\ Enters(i) /\ subpath = Left(i)
           /\ params = Asks(i)

SearchInv ==
  /\ \A a \in DOMAIN plugins : a < i =>
       \A b \in DOMAIN plugins[a].endpoints : ~Serving(a, b)
  /\ j # 0 => \A b \in DOMAIN plugins[i].endpoints : b < j => ~Serving(i, b)

OutcomeInv ==
  /\ outcome = "handler" => /\ j # 0 /\ j <= Len(plugins[i].endpoints) /\ Serving(i, j)
                            /\ picked = Wrapper(plugins[i].endpoints)
                            /\ fields = parseBody(FormText(form))
  /\ outcome = "declined" => j = 0 /\ i > Len(plugins)

RoutingInv == RequestInv /\ PlaceInv /\ SearchInv /\ OutcomeInv

LEMMA PluginTypes ==
  ASSUME RequestInv, NEW a \in 1..Len(plugins)
  PROVE  /\ plugins[a].endpoint \in Text
         /\ \A k \in DOMAIN plugins[a].endpoint : plugins[a].endpoint[k] # "?"
         /\ plugins[a].endpoints \in Seq([pattern : Text, method : STRING])
         /\ Len(plugins[a].endpoints) \in Nat
         /\ DOMAIN plugins[a].endpoints = 1..Len(plugins[a].endpoints)
         /\ \A b \in 1..Len(plugins[a].endpoints) : plugins[a].endpoints[b].pattern \in Text
<1>1. plugins[a] \in Plugins
  BY DEF RequestInv
<1>2. plugins[a].endpoint \in Text /\ plugins[a].endpoints \in Seq([pattern : Text, method : STRING])
  BY <1>1, RoutingAssumption
<1>3. \A k \in DOMAIN plugins[a].endpoint : plugins[a].endpoint[k] # "?"
  BY <1>1, RoutingAssumption
<1> DEFINE es == plugins[a].endpoints
<1> HIDE DEF es
<1>4. es \in Seq([pattern : Text, method : STRING])
  BY <1>2 DEF es
<1>5. /\ Len(es) \in Nat /\ DOMAIN es = 1..Len(es)
      /\ \A b \in 1..Len(es) : es[b] \in [pattern : Text, method : STRING]
  <2> DEFINE R == [pattern : Text, method : STRING]
  <2> HIDE DEF R
  <2>1. es \in Seq(R)
    BY <1>4 DEF R
  <2>2. /\ Len(es) \in Nat /\ DOMAIN es = 1..Len(es) /\ \A b \in 1..Len(es) : es[b] \in R
    BY <2>1
  <2>. QED  BY <2>2 DEF R
<1>. QED  BY <1>2, <1>3, <1>5 DEF es

LEMMA Places == ASSUME RequestInv PROVE Len(plugins) \in Nat /\ DOMAIN plugins = 1..Len(plugins)
BY DEF RequestInv

LEMMA RoutingInit == Init => RoutingInv
<1> SUFFICES ASSUME Init PROVE RoutingInv
  OBVIOUS
<1>1. PICK n \in 0..MaxPlugins : plugins \in [1..n -> Plugins]
  BY DEF Init
<1>2. plugins \in Seq(Plugins)
  <2>1. MaxPlugins \in Nat
    BY RoutingAssumption
  <2>2. n \in Nat
    BY <2>1
  <2>. QED  BY <1>1, <2>2
<1>3. path \in Text /\ form \in Fields
  BY RoutingAssumption DEF Init, Fields
<1>4. RequestInv
  BY <1>2, <1>3 DEF Init, RequestInv
<1>5. SearchInv
  BY <1>4, Places DEF Init, SearchInv
<1>. QED  BY <1>4, <1>5 DEF Init, RoutingInv, PlaceInv, OutcomeInv

LEMMA RoutingNext == RoutingInv /\ [Next]_vars => RoutingInv'
<1> SUFFICES ASSUME RoutingInv, [Next]_vars PROVE RoutingInv'
  OBVIOUS
<1> USE DEF RoutingInv
<1>1. /\ plugins \in Seq(Plugins) /\ path \in Text /\ form \in Fields /\ i \in Nat \ {0} /\ j \in Nat
      /\ Len(plugins) \in Nat /\ DOMAIN plugins = 1..Len(plugins)
  BY Places DEF RequestInv
<1>2. ASSUME plugins' = plugins, path' = path, method' = method
      PROVE  \A a, b : /\ Enters(a)' = Enters(a) /\ Left(a)' = Left(a)
                       /\ Asks(a)' = Asks(a) /\ Serving(a, b)' = Serving(a, b)
  BY <1>2 DEF Enters, Left, Asks, Serving, Under, Rest, Serves, request
<1>3. CASE SkipPlugin
  <2>1. /\ i <= Len(plugins) /\ j = 0 /\ j' = 0 /\ i' = i + 1 /\ outcome = "none"
        /\ outcome' = outcome /\ plugins' = plugins /\ path' = path /\ method' = method /\ form' = form
        /\ ~Enters(i) \/ plugins[i].endpoints = <<>>
    BY <1>3 DEF SkipPlugin, request, Enters
  <2>2. \A b \in DOMAIN plugins[i].endpoints : ~Serving(i, b)
    BY <2>1 DEF Serving
  <2>3. \A a \in DOMAIN plugins : a < i + 1 => a < i \/ a = i
    BY <1>1
  <2>4. \A a \in DOMAIN plugins : a < i + 1 => \A b \in DOMAIN plugins[a].endpoints : ~Serving(a, b)
    BY <2>2, <2>3 DEF SearchInv
  <2>5. SearchInv'
    BY <1>2, <2>1, <2>4 DEF SearchInv
  <2>6. RequestInv'
    BY <1>1, <2>1 DEF RequestInv
  <2>. QED  BY <2>1, <2>5, <2>6 DEF PlaceInv, OutcomeInv
<1>4. CASE EnterPlugin
  <2>1. /\ i <= Len(plugins) /\ j' = 1 /\ i' = i /\ outcome = "none" /\ outcome' = outcome
        /\ plugins' = plugins /\ path' = path /\ method' = method /\ form' = form
        /\ Enters(i) /\ subpath' = Left(i) /\ params' = Asks(i)
    BY <1>4 DEF EnterPlugin, request, Enters, Left, Asks
  <2>2. \A b \in DOMAIN plugins[i].endpoints : ~(b < 1)
    <3>1. i \in 1..Len(plugins)
      BY <1>1, <2>1
    <3>. QED  BY <3>1, PluginTypes
  <2>3. SearchInv'
    BY <1>2, <2>1, <2>2 DEF SearchInv
  <2>4. RequestInv' /\ PlaceInv'
    BY <1>1, <1>2, <2>1 DEF RequestInv, PlaceInv
  <2>. QED  BY <2>1, <2>3, <2>4 DEF OutcomeInv
<1>5. CASE SkipEndpoint
  <2>1. /\ j # 0 /\ j <= Len(plugins[i].endpoints) /\ j' = j + 1 /\ i' = i
        /\ outcome = "none" /\ outcome' = outcome
        /\ plugins' = plugins /\ path' = path /\ method' = method /\ form' = form /\ subpath' = subpath /\ params' = params
        /\ ~Serves(plugins[i].endpoints[j], subpath)
    BY <1>5 DEF SkipEndpoint, request
  <2>2. i <= Len(plugins) /\ Enters(i) /\ subpath = Left(i) /\ ~Serving(i, j)
    BY <2>1 DEF PlaceInv, Serving
  <2>3. \A b \in DOMAIN plugins[i].endpoints : b < j + 1 => b < j \/ b = j
    <3>1. i \in 1..Len(plugins)
      BY <1>1, <2>2
    <3>. QED  BY <1>1, <3>1, PluginTypes
  <2>4. \A b \in DOMAIN plugins[i].endpoints : b < j + 1 => ~Serving(i, b)
    BY <2>1, <2>2, <2>3 DEF SearchInv
  <2>5. SearchInv'
    BY <1>2, <2>1, <2>4 DEF SearchInv
  <2>6. RequestInv' /\ PlaceInv'
    BY <1>1, <1>2, <2>1, <2>2 DEF RequestInv, PlaceInv
  <2>. QED  BY <2>1, <2>5, <2>6 DEF OutcomeInv
<1>6. CASE CallHandler
  <2>1. /\ j # 0 /\ j <= Len(plugins[i].endpoints) /\ j' = j /\ i' = i
        /\ outcome = "none" /\ outcome' = "handler"
        /\ plugins' = plugins /\ path' = path /\ method' = method /\ form' = form /\ subpath' = subpath /\ params' = params
        /\ Serves(plugins[i].endpoints[j], subpath) /\ picked' = Wrapper(plugins[i].endpoints)
        /\ fields' = parseBody(FormText(form))
    BY <1>6 DEF CallHandler, request
  <2>2. i <= Len(plugins) /\ Enters(i) /\ subpath = Left(i) /\ Serving(i, j)
    BY <2>1 DEF PlaceInv, Serving
  <2>3. SearchInv'
    BY <1>2, <2>1 DEF SearchInv
  <2>4. RequestInv' /\ PlaceInv'
    BY <1>1, <1>2, <2>1, <2>2 DEF RequestInv, PlaceInv
  <2>5. picked' = Wrapper(plugins[i].endpoints)' /\ fields' = parseBody(FormText(form))'
    BY <2>1 DEF Wrapper
  <2>6. OutcomeInv'
    BY <1>2, <2>1, <2>2, <2>4, <2>5 DEF OutcomeInv
  <2>. QED  BY <2>3, <2>4, <2>6
<1>7. CASE LeavePlugin
  <2>1. /\ j # 0 /\ j > Len(plugins[i].endpoints) /\ j' = 0 /\ i' = i + 1
        /\ outcome = "none" /\ outcome' = outcome
        /\ plugins' = plugins /\ path' = path /\ method' = method /\ form' = form
    BY <1>7 DEF LeavePlugin, request
  <2>2. \A b \in DOMAIN plugins[i].endpoints : b < j
    <3>1. i \in 1..Len(plugins)
      BY <1>1, <2>1 DEF PlaceInv
    <3>. QED  BY <1>1, <2>1, <3>1, PluginTypes
  <2>3. \A a \in DOMAIN plugins : a < i + 1 => a < i \/ a = i
    BY <1>1
  <2>4. \A a \in DOMAIN plugins : a < i + 1 => \A b \in DOMAIN plugins[a].endpoints : ~Serving(a, b)
    BY <2>1, <2>2, <2>3 DEF SearchInv
  <2>5. SearchInv'
    BY <1>2, <2>1, <2>4 DEF SearchInv
  <2>6. RequestInv'
    BY <1>1, <2>1 DEF RequestInv
  <2>. QED  BY <2>1, <2>5, <2>6 DEF PlaceInv, OutcomeInv
<1>8. CASE Decline
  <2>1. /\ i > Len(plugins) /\ j' = j /\ i' = i /\ outcome' = "declined"
        /\ plugins' = plugins /\ path' = path /\ method' = method /\ form' = form /\ subpath' = subpath /\ params' = params
    BY <1>8 DEF Decline, request
  <2>2. j = 0
    BY <1>1, <2>1 DEF PlaceInv
  <2>3. SearchInv' /\ RequestInv'
    BY <1>1, <1>2, <2>1 DEF SearchInv, RequestInv
  <2>. QED  BY <2>1, <2>2, <2>3 DEF PlaceInv, OutcomeInv
<1>9. CASE UNCHANGED vars
  <2>1. /\ j' = j /\ i' = i /\ outcome' = outcome /\ picked' = picked /\ fields' = fields
        /\ plugins' = plugins /\ path' = path /\ method' = method /\ form' = form /\ subpath' = subpath /\ params' = params
    BY <1>9 DEF vars, request
  <2>2. Wrapper(plugins[i].endpoints)' = Wrapper(plugins[i].endpoints)
    BY <2>1 DEF Wrapper
  <2>3. SearchInv' /\ RequestInv' /\ PlaceInv'
    BY <1>1, <1>2, <2>1 DEF SearchInv, RequestInv, PlaceInv
  <2>. QED  BY <1>2, <2>1, <2>2, <2>3 DEF OutcomeInv
<1>. QED  BY <1>3, <1>4, <1>5, <1>6, <1>7, <1>8, <1>9 DEF Next

(* The search keeps to its invariant. *)
THEOREM RoutingInvariant == Spec => []RoutingInv
<1>. QED  BY RoutingInit, RoutingNext, PTL DEF Spec

-----------------------------------------------------------------------------
(* What the invariant says of the readers' own terms. *)

LEMMA EligibleIs ==
  ASSUME RequestInv, NEW a, NEW b
  PROVE  <<a, b>> \in Eligible <=>
           /\ a \in DOMAIN plugins /\ b \in DOMAIN plugins[a].endpoints
           /\ plugins[a].loaded /\ Within(plugins[a].endpoint)
           /\ plugins[a].endpoints[b].method \in {AnyMethod, method}
           /\ Glob(plugins[a].endpoints[b].pattern, Beyond(plugins[a].endpoint))
<1> DEFINE Pairs == UNION {{p} \X DOMAIN plugins[p].endpoints : p \in DOMAIN plugins}
<1>1. <<a, b>> \in Pairs <=> a \in DOMAIN plugins /\ b \in DOMAIN plugins[a].endpoints
  OBVIOUS
<1>2. /\ <<a, b>>[1] = a /\ <<a, b>>[2] = b
  OBVIOUS
<1>. QED  BY <1>1, <1>2 DEF Eligible

(* An endpoint that the code calls is one that is to serve. *)
LEMMA ServingIsEligible ==
  ASSUME RequestInv, NEW a \in 1..Len(plugins), NEW b \in 1..Len(plugins[a].endpoints), Serving(a, b)
  PROVE  <<a, b>> \in Eligible
<1>1. /\ plugins[a].loaded /\ Under(plugins[a].endpoint)
      /\ Serves(plugins[a].endpoints[b], Left(a))
  BY DEF Serving, Enters
<1>2. /\ plugins[a].endpoint \in Text /\ path \in Text
      /\ \A k \in DOMAIN plugins[a].endpoint : plugins[a].endpoint[k] # "?"
      /\ plugins[a].endpoints[b].pattern \in Text
      /\ a \in DOMAIN plugins /\ b \in DOMAIN plugins[a].endpoints
  BY PluginTypes, Places DEF RequestInv
<1>3. /\ Within(plugins[a].endpoint) /\ Beyond(plugins[a].endpoint) \in Text
      /\ Left(a) = Beyond(plugins[a].endpoint)
  BY <1>1, <1>2, UnderWithin DEF Left
<1>4. Glob(plugins[a].endpoints[b].pattern, Beyond(plugins[a].endpoint))
  BY <1>1, <1>2, <1>3, MatchedIsGlob DEF Serves
<1>5. plugins[a].endpoints[b].method \in {AnyMethod, method}
  BY <1>1 DEF Serves
<1>. QED  BY <1>1, <1>2, <1>3, <1>4, <1>5, EligibleIs

(* And the other way round, but for the two cases the code treats otherwise. *)
LEMMA EligibleIsServing ==
  ASSUME RequestInv, StarsApart, QueryInside, NEW a, NEW b, <<a, b>> \in Eligible
  PROVE  a \in DOMAIN plugins /\ b \in DOMAIN plugins[a].endpoints /\ Serving(a, b)
<1>1. /\ a \in DOMAIN plugins /\ b \in DOMAIN plugins[a].endpoints
      /\ plugins[a].loaded /\ Within(plugins[a].endpoint)
      /\ plugins[a].endpoints[b].method \in {AnyMethod, method}
      /\ Glob(plugins[a].endpoints[b].pattern, Beyond(plugins[a].endpoint))
  BY EligibleIs
<1>2. a \in 1..Len(plugins)
  BY <1>1, Places
<1>3. /\ plugins[a].endpoint \in Text /\ path \in Text
      /\ \A k \in DOMAIN plugins[a].endpoint : plugins[a].endpoint[k] # "?"
      /\ plugins[a].endpoints[b].pattern \in Text
  BY <1>1, <1>2, PluginTypes DEF RequestInv
<1>4. Under(plugins[a].endpoint)
  BY <1>1, <1>3, WithinUnder DEF QueryInside
<1>5. Beyond(plugins[a].endpoint) \in Text /\ Left(a) = Beyond(plugins[a].endpoint)
  BY <1>3, <1>4, UnderWithin DEF Left
<1>6. match_pattern(plugins[a].endpoints[b].pattern, Left(a))
  <2>1. \A k \in DOMAIN plugins[a].endpoints[b].pattern :
          plugins[a].endpoints[b].pattern[k] = "*" /\ k > 1 => plugins[a].endpoints[b].pattern[k - 1] # "*"
    BY <1>1 DEF StarsApart
  <2>. QED  BY <1>1, <1>3, <1>5, <2>1, GlobIsMatched
<1>. QED  BY <1>1, <1>4, <1>6 DEF Serving, Enters, Serves

(* OnlyEligibleServe for every configuration: no prefix, pattern or query sends a
   request to a handler that is not to have it. *)
THEOREM RoutedToEligible == Spec => []OnlyEligibleServe
<1>1. RoutingInv => OnlyEligibleServe
  <2> SUFFICES ASSUME RoutingInv, outcome = "handler" PROVE <<i, j>> \in Eligible
    BY DEF OnlyEligibleServe
  <2>1. RequestInv /\ j # 0 /\ j <= Len(plugins[i].endpoints) /\ Serving(i, j) /\ i <= Len(plugins)
    BY DEF RoutingInv, OutcomeInv, PlaceInv
  <2>2. i \in 1..Len(plugins)
    BY <2>1, Places DEF RequestInv
  <2>3. j \in 1..Len(plugins[i].endpoints)
    BY <2>1, <2>2, PluginTypes DEF RequestInv
  <2>. QED  BY <2>1, <2>2, <2>3, ServingIsEligible
<1>. QED  BY <1>1, RoutingInvariant, PTL

(* FirstServes for every configuration: the search stops at the first endpoint that
   is to serve the request and gives up only when there is none. *)
THEOREM RoutedToFirst == Spec => []FirstServes
<1>1. RoutingInv => FirstServes
  <2> SUFFICES ASSUME RoutingInv, StarsApart, QueryInside PROVE NoEarlierEligible
    BY DEF FirstServes
  <2>1. RequestInv /\ SearchInv /\ OutcomeInv
    BY DEF RoutingInv
  <2>2. ASSUME NEW c \in Eligible
        PROVE  /\ c = <<c[1], c[2]>> /\ c[1] \in DOMAIN plugins
               /\ c[2] \in DOMAIN plugins[c[1]].endpoints /\ Serving(c[1], c[2])
    <3>1. c = <<c[1], c[2]>>
      BY DEF Eligible
    <3>. QED  BY <2>1, <3>1, EligibleIsServing
  <2>3. ASSUME outcome = "handler", NEW c \in Eligible, Before(c, <<i, j>>) PROVE FALSE
    <3>1. c[1] < i \/ (c[1] = i /\ c[2] < j)
      BY <2>3 DEF Before
    <3>2. j # 0
      BY <2>1, <2>3 DEF OutcomeInv
    <3>3. CASE c[1] < i
      BY <2>1, <2>2, <3>3 DEF SearchInv
    <3>4. CASE c[1] = i /\ c[2] < j
      BY <2>1, <2>2, <3>2, <3>4 DEF SearchInv
    <3>. QED  BY <3>1, <3>3, <3>4
  <2>4. ASSUME outcome = "declined", NEW c \in Eligible PROVE FALSE
    <3>1. c[1] < i
      <4>1. c[1] \in 1..Len(plugins) /\ i > Len(plugins) /\ Len(plugins) \in Nat /\ i \in Nat
        BY <2>1, <2>2, <2>4, Places DEF OutcomeInv, RequestInv
      <4>. QED  BY <4>1
    <3>. QED  BY <2>1, <2>2, <3>1 DEF SearchInv
  <2>. QED  BY <2>3, <2>4 DEF NoEarlierEligible
<1>. QED  BY <1>1, RoutingInvariant, PTL

(* WrapperPicksSame for every configuration: what the server has passed over in the
   plugin has its pattern or its method against it for the wrapper as well, so the
   first that the wrapper finds is the one that called it. *)
THEOREM WrapperPicksServed == Spec => []WrapperPicksSame
<1>1. RoutingInv => WrapperPicksSame
  <2> SUFFICES ASSUME RoutingInv, outcome = "handler" PROVE picked = j
    BY DEF WrapperPicksSame
  <2>1. /\ RequestInv /\ SearchInv /\ j # 0 /\ j <= Len(plugins[i].endpoints) /\ Serving(i, j)
        /\ i <= Len(plugins) /\ Enters(i) /\ subpath = Left(i)
        /\ picked = Wrapper(plugins[i].endpoints)
    BY DEF RoutingInv, OutcomeInv, PlaceInv
  <2>2. i \in 1..Len(plugins)
    BY <2>1, Places DEF RequestInv
  <2> DEFINE hs == plugins[i].endpoints
             own == {h \in DOMAIN hs : /\ matchPattern(hs[h].pattern, subpath)
                                       /\ hs[h].method \in {AnyMethod, method}}
  <2>3. /\ Len(hs) \in Nat /\ DOMAIN hs = 1..Len(hs) /\ \A h \in 1..Len(hs) : hs[h].pattern \in Text
    BY <2>1, <2>2, PluginTypes
  <2>4. \A h \in 1..Len(hs) : h \in own <=> Serving(i, h)
    BY <2>1, <2>3 DEF Serving, Serves, matchPattern
  <2>5. j \in own /\ \A h \in own : ~(h < j)
    <3>1. j \in 1..Len(hs)
      BY <2>1, <2>3 DEF RequestInv
    <3>. QED  BY <2>1, <2>3, <2>4, <3>1 DEF SearchInv
  <2>6. own \in SUBSET Nat
    BY <2>3
  <2>7. picked = IF own = {} THEN 0 ELSE CHOOSE h \in own : \A k \in own : h <= k
    BY <2>1 DEF Wrapper
  <2> HIDE DEF own
  <2>8. \A h \in own : j <= h
    BY <2>5, <2>6
  <2>9. (CHOOSE h \in own : \A k \in own : h <= k) = j
    <3>1. \A h \in own : (\A k \in own : h <= k) => h = j
      BY <2>5, <2>6, <2>8
    <3>. QED  BY <2>5, <2>8, <3>1
  <2>. QED  BY <2>5, <2>7, <2>9
<1>. QED  BY <1>1, RoutingInvariant, PTL

(* FormDelivered for every form: whatever bytes its names and values have, the map of
   the handler's request holds them. *)
THEOREM FormsDelivered == Spec => []FormDelivered
<1>1. RoutingInv => FormDelivered
  <2> SUFFICES ASSUME RoutingInv, outcome = "handler", NEW n \in DOMAIN form,
                      \A k \in 1..n - 1 : form[k][1] # form[n][1]
               PROVE  Lookup(fields, form[n][1]) = <<form[n][2]>>
    BY DEF FormDelivered
  <2>1. form \in Fields /\ fields = form
    BY FormParsed DEF RoutingInv, RequestInv, OutcomeInv
  <2>2. Len(form) \in Nat /\ DOMAIN form = 1..Len(form)
    BY <2>1, FieldsAre
  <2> DEFINE found == {m \in DOMAIN form : form[m][1] = form[n][1]}
  <2>3. n \in found /\ \A m \in found : n <= m /\ m \in Nat
    <3>1. \A m \in DOMAIN form : ~(m \in 1..n - 1) => n <= m
      BY <2>2
    <3>. QED  BY <2>2, <3>1
  <2>4. Lookup(fields, form[n][1]) =
          IF found = {} THEN <<>> ELSE <<form[CHOOSE m \in found : \A k \in found : m <= k][2]>>
    BY <2>1 DEF Lookup
  <2> HIDE DEF found
  <2>5. (CHOOSE m \in found : \A k \in found : m <= k) = n
    <3>1. \A m \in found : (\A k \in found : m <= k) => m = n
      BY <2>3
    <3>. QED  BY <2>3, <3>1
  <2>. QED  BY <2>3, <2>4, <2>5
<1>. QED  BY <1>1, RoutingInvariant, PTL

(* QueryDelivered for every query: whichever endpoint was cut off before it, the table
   of the handler has for each key what a reader of the whole path finds. *)
THEOREM QueriesDelivered == Spec => []QueryDelivered
<1>1. RoutingInv => QueryDelivered
  <2> SUFFICES ASSUME RoutingInv, outcome = "handler",
                      Cardinality(UNION {Assigning(key) : key \in Keys}) <= MaxParams,
                      NEW key \in Keys
               PROVE  Lookup(params, key) = ValueOf(key)
    BY DEF QueryDelivered
  <2>1. /\ RequestInv /\ i <= Len(plugins) /\ Under(plugins[i].endpoint) /\ path \in Text
        /\ params = QueryParams(Query(Rest(plugins[i].endpoint)))
    BY DEF RoutingInv, OutcomeInv, PlaceInv, RequestInv, Enters, Asks
  <2>2. i \in 1..Len(plugins)
    BY <2>1, Places DEF RequestInv
  <2>3. /\ plugins[i].endpoint \in Text
        /\ \A k \in DOMAIN plugins[i].endpoint : plugins[i].endpoint[k] # "?"
    BY <2>1, <2>2, PluginTypes
  <2>4. Asked \in Text /\ Query(Rest(plugins[i].endpoint)) = Asked
    BY <2>1, <2>3, QueryOfRest
  <2>. QED  BY <2>1, <2>4, QueryFound
<1>. QED  BY <1>1, RoutingInvariant, PTL
=============================================================================
