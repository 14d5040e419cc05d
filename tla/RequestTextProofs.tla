-------------------------- MODULE RequestTextProofs --------------------------
(* Proofs about RequestText, for every set of header lines and bodies, any number of
   lines of a request and any size of the plugin's table. *)
EXTENDS RequestText, Induction, SequenceTheorems, FiniteSetTheorems, TLAPS

-----------------------------------------------------------------------------
(* The text of a request: where its lines are. *)

Byte == STRING \cup {CR, LF, NUL, ":", "G", "L", "n"}

LEMMA RequestIs ==
  ASSUME NEW r \in Requests
  PROVE  /\ Fields(r) \in Seq(Seq(Byte)) /\ r.body \in Seq(Byte)
         /\ r.eol = "crlf" => Eol(r) = <<CR, LF>>
         /\ r.eol # "crlf" => r.eol = "lf" /\ Eol(r) = <<LF>>
         /\ Eol(r) \in Seq(Byte)
         /\ \A k \in 1..Len(Fields(r)) :
              /\ Fields(r)[k] \in Seq(Byte) /\ Len(Fields(r)[k]) \in Nat \ {0}
              /\ \A x \in 1..Len(Fields(r)[k]) : Fields(r)[k][x] \notin {CR, LF, NUL}
<1>1. r.eol \in {"crlf", "lf"} /\ r.body \in Bodies
  BY DEF Requests
<1>2. PICK m \in 0..MaxLines : r.lines \in [1..m -> Lines]
  BY DEF Requests
<1>3. m \in Nat /\ r.lines \in Seq(Lines) /\ Len(r.lines) = m
  BY <1>2, TextAssumption DEF TextAssumption
<1>4. \A s \in Seq(STRING) : s \in Seq(Byte)
  BY DEF Byte
<1>5. \A line \in Lines : /\ line \in Seq(Byte) /\ Len(line) \in Nat \ {0}
                          /\ \A x \in 1..Len(line) : line[x] \notin {CR, LF, NUL}
  <2>1. ASSUME NEW line \in Lines
        PROVE  /\ line \in Seq(Byte) /\ Len(line) \in Nat \ {0}
               /\ \A x \in 1..Len(line) : line[x] \notin {CR, LF, NUL}
    <3>1. line \in Seq(STRING) /\ line # <<>>
      BY TextAssumption DEF TextAssumption
    <3>2. Len(line) \in Nat \ {0} /\ DOMAIN line = 1..Len(line)
      BY <3>1
    <3>. QED  BY <1>4, <3>1, <3>2, TextAssumption DEF TextAssumption
  <2>. QED  BY <2>1
<1>6. /\ LengthLine \in Seq(Byte) /\ Len(LengthLine) = 3
      /\ LengthLine[1] = "L" /\ LengthLine[2] = ":" /\ LengthLine[3] = "n"
  BY DEF LengthLine, Byte
<1>7. \A x \in 1..3 : LengthLine[x] \notin {CR, LF, NUL}
  <2>1. \A x \in 1..3 : x = 1 \/ x = 2 \/ x = 3
    OBVIOUS
  <2>. QED  BY <1>6, <2>1 DEF CR, LF, NUL
<1> DEFINE Line == Lines \cup {LengthLine}
<1>8. \A line \in Line : /\ line \in Seq(Byte) /\ Len(line) \in Nat \ {0}
                         /\ \A x \in 1..Len(line) : line[x] \notin {CR, LF, NUL}
  BY <1>5, <1>6, <1>7
<1>9. Fields(r) \in Seq(Line)
  <2>1. r.lines \in Seq(Line) /\ <<LengthLine>> \in Seq(Line) /\ <<>> \in Seq(Line)
    BY <1>3
  <2> HIDE DEF Line
  <2>2. Fields(r) = r.lines \o <<LengthLine>> \/ Fields(r) = r.lines \o <<>>
    BY DEF Fields
  <2>. QED  BY <2>1, <2>2, Joined
<1> HIDE DEF Line
<1>10. Fields(r) \in Seq(Seq(Byte))
  <2>1. Len(Fields(r)) \in Nat /\ Fields(r) \in [1..Len(Fields(r)) -> Line]
    BY <1>9
  <2>. QED  BY <1>8, <2>1
<1>11. \A k \in 1..Len(Fields(r)) : Fields(r)[k] \in Line
  BY <1>9
<1>12. r.body \in Seq(Byte)
  BY <1>1, <1>4, TextAssumption DEF TextAssumption
<1>13. /\ r.eol = "crlf" => Eol(r) = <<CR, LF>>
       /\ r.eol # "crlf" => r.eol = "lf" /\ Eol(r) = <<LF>>
  BY <1>1 DEF Eol
<1>14. Eol(r) \in Seq(Byte)
  <2>1. CR \in Byte /\ LF \in Byte
    BY DEF Byte
  <2>2. <<CR, LF>> \in Seq(Byte) /\ <<LF>> \in Seq(Byte)
    BY <2>1
  <2>. QED  BY <1>13, <2>2
<1>. QED  BY <1>8, <1>10, <1>11, <1>12, <1>13, <1>14

(* st[k] is where field k begins, and behind the last one the blank line. *)
Layout(st, r) ==
  LET F == Fields(r)
      N == Len(F)
      w == Len(Eol(r)) IN
  /\ st \in [1..N + 1 -> Nat] /\ st[1] = w + 2
  /\ \A k \in 1..N : st[k + 1] = st[k] + Len(F[k]) + w
  /\ \A k \in 1..N : \A x \in 1..Len(F[k]) : Text(r)[st[k] + x - 1] = F[k][x]
  /\ \A k \in 1..N + 1 : \A x \in 1..w : Text(r)[st[k] - w + x - 1] = Eol(r)[x]
  /\ \A x \in 1..w : Text(r)[st[N + 1] + x - 1] = Eol(r)[x]
  /\ Len(Text(r)) = st[N + 1] + w - 1 + Len(r.body)
  /\ \A x \in 1..Len(r.body) : Text(r)[st[N + 1] + w - 1 + x] = r.body[x]
  /\ Text(r)[1] = "G" /\ Text(r) \in Seq(Byte)

LEMMA LayoutExists ==
  ASSUME NEW r \in Requests
  PROVE  \E st : Layout(st, r)
<1> DEFINE E == Eol(r)
           w == Len(E)
           F == Fields(r)
           N == Len(F)
           parts == [i \in DOMAIN F |-> F[i] \o E]
           T == Seq(Byte)
<1>1. /\ F \in Seq(T) /\ r.body \in T /\ E \in T /\ N \in Nat /\ DOMAIN F = 1..N
      /\ \A k \in 1..N : F[k] \in T
  <2>1. F \in Seq(T) /\ r.body \in T /\ E \in T
    BY RequestIs
  <2> HIDE DEF F, E, T
  <2>. QED  BY <2>1, LenIs
<1>2. \A s \in T : Len(s) \in Nat
  OBVIOUS
<1>3. \A s, t \in T : /\ s \o t \in T /\ Len(s \o t) = Len(s) + Len(t)
                      /\ \A p \in 1..Len(s) : (s \o t)[p] = s[p]
                      /\ \A p \in 1..Len(t) : (s \o t)[Len(s) + p] = t[p]
  BY Joined
<1>4. <<"G">> \in T /\ Len(<<"G">>) = 1 /\ <<"G">>[1] = "G"
  BY DEF Byte
<1>5. Text(r) = <<"G">> \o E \o FlattenSeq(parts) \o E \o r.body
  BY DEF Text
<1> HIDE DEF F, E, T
<1>6. \A k \in 1..N : parts[k] = F[k] \o E /\ parts[k] \in T /\ Len(parts[k]) = Len(F[k]) + w
  BY <1>1, <1>3
<1>7. parts \in Seq(T) /\ Len(parts) = N
  <2>1. parts \in [1..N -> T]
    BY <1>1, <1>6
  <2>. QED  BY <1>1, <2>1
<1> HIDE DEF parts
<1>8. PICK h : Flattens(h, parts, Byte) /\ FlattenSeq(parts) = h[N]
  BY <1>7, FlatIs DEF T
<1>9. /\ \A k \in 0..N : h[k] \in T
      /\ h[0] = <<>>
  BY <1>7, <1>8 DEF Flattens, T
<1>10. \A n \in 1..N :
         /\ Len(h[n]) = Len(h[n - 1]) + Len(parts[n]) /\ Len(h[n - 1]) \in Nat
         /\ Len(h[n]) <= Len(h[N])
         /\ \A p \in 1..Len(parts[n]) : h[N][Len(h[n - 1]) + p] = parts[n][p]
  <2>1. ASSUME NEW n \in 1..Len(parts)
        PROVE  PartAt(h, parts, n)
    <3>1. parts \in Seq(Seq(Byte)) /\ Flattens(h, parts, Byte)
      BY <1>7, <1>8 DEF T
    <3>. QED  BY <3>1, FlatAt
  <2>2. Len(parts) = N
    BY <1>7
  <2> HIDE DEF N
  <2>. QED  BY <2>1, <2>2 DEF PartAt
<1> DEFINE start == <<"G">> \o E
           fields == start \o h[N]
           head == fields \o E
           M == Len(h[N])
<1>11. h[N] \in T /\ M \in Nat /\ w \in Nat /\ Len(r.body) \in Nat
  <2>1. N \in 0..N
    BY <1>1
  <2>. QED  BY <1>1, <1>2, <1>9, <2>1
<1>12. /\ start \in T /\ Len(start) = 1 + w /\ start[1] = "G"
       /\ \A x \in 1..w : start[1 + x] = E[x]
  <2>1. /\ start \in T /\ Len(start) = Len(<<"G">>) + w
        /\ \A p \in 1..Len(<<"G">>) : start[p] = <<"G">>[p]
        /\ \A x \in 1..w : start[Len(<<"G">>) + x] = E[x]
    BY <1>1, <1>3, <1>4
  <2> HIDE DEF start
  <2>. QED  BY <1>4, <2>1
<1> HIDE DEF start
<1>13. /\ fields \in T /\ Len(fields) = 1 + w + M
       /\ \A p \in 1..1 + w : fields[p] = start[p]
       /\ \A p \in 1..M : fields[1 + w + p] = h[N][p]
  <2>1. /\ fields \in T /\ Len(fields) = Len(start) + M
        /\ \A p \in 1..Len(start) : fields[p] = start[p]
        /\ \A p \in 1..M : fields[Len(start) + p] = h[N][p]
    BY <1>3, <1>11, <1>12
  <2> HIDE DEF fields, M, w
  <2>. QED  BY <1>12, <2>1
<1> HIDE DEF fields, M
<1>14. /\ head \in T /\ Len(head) = 1 + w + M + w
       /\ \A p \in 1..1 + w + M : head[p] = fields[p]
       /\ \A x \in 1..w : head[1 + w + M + x] = E[x]
  <2>1. /\ head \in T /\ Len(head) = Len(fields) + w
        /\ \A p \in 1..Len(fields) : head[p] = fields[p]
        /\ \A x \in 1..w : head[Len(fields) + x] = E[x]
    BY <1>1, <1>3, <1>13
  <2> HIDE DEF head, w
  <2>. QED  BY <1>13, <2>1
<1> HIDE DEF head
<1>15. /\ Text(r) \in T /\ Len(Text(r)) = 1 + w + M + w + Len(r.body)
       /\ \A p \in 1..1 + w + M + w : Text(r)[p] = head[p]
       /\ \A x \in 1..Len(r.body) : Text(r)[1 + w + M + w + x] = r.body[x]
  <2>1. Text(r) = head \o r.body
    BY <1>5, <1>8 DEF head, fields, start
  <2>2. /\ Text(r) \in T /\ Len(Text(r)) = Len(head) + Len(r.body)
        /\ \A p \in 1..Len(head) : Text(r)[p] = head[p]
        /\ \A x \in 1..Len(r.body) : Text(r)[Len(head) + x] = r.body[x]
    <3> DEFINE b == r.body
    <3> HIDE DEF b, w, N
    <3>1. b \in T /\ head \in T /\ Text(r) = head \o b
      BY <1>1, <1>14, <2>1 DEF b
    <3>. QED  BY <1>3, <3>1 DEF b
  <2> HIDE DEF w
  <2>. QED  BY <1>14, <2>2
<1> DEFINE st == [k \in 1..N + 1 |-> w + 2 + Len(h[k - 1])]
<1> HIDE DEF w, N
<1>16. \A k \in 1..N + 1 : k - 1 \in 0..N /\ Len(h[k - 1]) \in Nat
  BY <1>1, <1>2, <1>9 DEF N
<1>17. /\ st \in [1..N + 1 -> Nat]
       /\ \A k \in 1..N + 1 : st[k] = w + 2 + Len(h[k - 1])
  <2>1. ASSUME NEW k \in 1..N + 1 PROVE w + 2 + Len(h[k - 1]) \in Nat
    <3> DEFINE a == Len(h[k - 1])
    <3>1. a \in Nat
      BY <1>16
    <3> HIDE DEF a
    <3>2. w + 2 + a \in Nat
      BY <1>11, <3>1
    <3>. QED  BY <3>2 DEF a
  <2>. QED  BY <2>1
<1>18. st[1] = w + 2 /\ st[N + 1] = w + 2 + M
  <2>1. 1 \in 1..N + 1 /\ 1 - 1 = 0 /\ N + 1 \in 1..N + 1 /\ (N + 1) - 1 = N
    BY <1>1 DEF N
  <2>2. Len(h[0]) = 0
    BY <1>9
  <2> HIDE DEF st
  <2>3. st[1] = w + 2 + Len(h[1 - 1]) /\ st[N + 1] = w + 2 + Len(h[(N + 1) - 1])
    BY <1>17, <2>1
  <2>4. st[1] = w + 2 + 0 /\ st[N + 1] = w + 2 + M
    BY <2>1, <2>2, <2>3 DEF M
  <2>. QED  BY <1>11, <2>4
<1> HIDE DEF st
<1>19. \A k \in 1..N : /\ st[k] = w + 2 + Len(h[k - 1]) /\ st[k + 1] = w + 2 + Len(h[k])
                       /\ st[k + 1] = st[k] + Len(F[k]) + w
                       /\ Len(h[k - 1]) \in Nat /\ Len(F[k]) \in Nat
                       /\ Len(h[k - 1]) + Len(F[k]) + w <= M
  <2>1. ASSUME NEW k \in 1..N
        PROVE  /\ st[k] = w + 2 + Len(h[k - 1]) /\ st[k + 1] = w + 2 + Len(h[k])
               /\ st[k + 1] = st[k] + Len(F[k]) + w
               /\ Len(h[k - 1]) \in Nat /\ Len(F[k]) \in Nat
               /\ Len(h[k - 1]) + Len(F[k]) + w <= M
    <3>1. k \in 1..N + 1 /\ k + 1 \in 1..N + 1 /\ (k + 1) - 1 = k
      BY <1>1 DEF N
    <3>2. st[k] = w + 2 + Len(h[k - 1]) /\ st[k + 1] = w + 2 + Len(h[k])
      BY <1>17, <3>1
    <3>3. Len(h[k]) = Len(h[k - 1]) + (Len(F[k]) + w) /\ Len(h[k]) <= M
      BY <1>6, <1>10 DEF M
    <3>4. Len(h[k - 1]) \in Nat /\ Len(F[k]) \in Nat
      BY <1>1, <1>2, <1>10 DEF N
    <3> DEFINE a == Len(h[k - 1])
               b == Len(F[k])
               c == Len(h[k])
    <3>5. /\ a \in Nat /\ b \in Nat /\ c = a + (b + w) /\ c <= M
          /\ st[k] = w + 2 + a /\ st[k + 1] = w + 2 + c
      BY <3>2, <3>3, <3>4
    <3> HIDE DEF a, b, c
    <3>6. st[k + 1] = st[k] + b + w /\ a + b + w <= M
      BY <1>11, <3>5
    <3>. QED  BY <3>5, <3>6 DEF a, b, c
  <2>. QED  BY <2>1
(* A byte of what the fields are joined to. *)
<1>20. \A p \in 1..M : Text(r)[1 + w + p] = h[N][p]
  <2>1. \A p \in 1..M : 1 + w + p \in 1..1 + w + M /\ 1 + w + p \in 1..1 + w + M + w
    BY <1>11
  <2>. QED  BY <1>13, <1>14, <1>15, <2>1
<1>21. ASSUME NEW k \in 1..N, NEW x \in 1..Len(F[k]) + w
       PROVE  Text(r)[st[k] + x - 1] = (F[k] \o E)[x]
  <2> DEFINE a == Len(h[k - 1])
             b == Len(F[k])
  <2>1. a \in Nat /\ b \in Nat /\ w \in Nat /\ M \in Nat /\ a + b + w <= M /\ st[k] = w + 2 + a
        /\ x \in 1..b + w
    BY <1>11, <1>19
  <2>2. h[N][a + x] = (F[k] \o E)[x]
    <3>1. x \in 1..Len(parts[k])
      BY <1>6
    <3>. QED  BY <1>6, <1>10, <3>1
  <2> HIDE DEF a, b
  <2>3. a + x \in 1..M /\ st[k] + x - 1 = 1 + w + (a + x)
    BY <2>1
  <2>. QED  BY <1>20, <2>2, <2>3
<1>22. ASSUME NEW k \in 1..N
       PROVE  /\ \A x \in 1..Len(F[k]) : (F[k] \o E)[x] = F[k][x]
              /\ \A x \in 1..w : (F[k] \o E)[Len(F[k]) + x] = E[x]
  BY <1>1, <1>3 DEF w, N
<1>23. ASSUME NEW k \in 1..N, NEW x \in 1..Len(F[k]) PROVE Text(r)[st[k] + x - 1] = F[k][x]
  <2>1. x \in 1..Len(F[k]) + w
    BY <1>11, <1>19
  <2>. QED  BY <1>21, <1>22, <2>1
<1>24. ASSUME NEW k \in 1..N + 1, NEW x \in 1..w PROVE Text(r)[st[k] - w + x - 1] = E[x]
  <2>1. CASE k = 1
    <3>1. st[k] - w + x - 1 = 1 + x /\ 1 + x \in 1..1 + w /\ 1 + x \in 1..1 + w + M
          /\ 1 + x \in 1..1 + w + M + w
      BY <1>11, <1>18, <2>1
    <3>2. start[1 + x] = E[x]
      BY <1>12
    <3> HIDE DEF start, fields, head, M
    <3>3. fields[1 + x] = start[1 + x]
      BY <1>12, <1>13, <3>1
    <3>4. Text(r)[1 + x] = E[x]
      BY <1>13, <1>14, <1>15, <3>1, <3>2, <3>3
    <3>. QED  BY <3>1, <3>4
  <2>2. CASE k # 1
    <3>1. k - 1 \in 1..N /\ (k - 1) + 1 = k
      BY <1>1, <2>2 DEF N
    <3> DEFINE l == k - 1
    <3> HIDE DEF l
    <3>2. l \in 1..N /\ l + 1 = k
      BY <3>1 DEF l
    <3>3. st[k] = st[l] + Len(F[l]) + w /\ Len(F[l]) \in Nat /\ st[l] \in Nat
      <4>1. l \in 1..N + 1
        BY <1>1, <3>2 DEF N
      <4>. QED  BY <1>17, <1>19, <3>2, <4>1
    <3>4. Len(F[l]) + x \in 1..Len(F[l]) + w /\ st[k] - w + x - 1 = st[l] + (Len(F[l]) + x) - 1
      <4> DEFINE b == Len(F[l])
      <4>1. st[k] = st[l] + b + w /\ b \in Nat /\ st[l] \in Nat /\ w \in Nat /\ x \in 1..w
        BY <1>11, <3>3
      <4> HIDE DEF b
      <4>2. b + x \in 1..b + w /\ st[k] - w + x - 1 = st[l] + (b + x) - 1
        BY <4>1
      <4>. QED  BY <4>2 DEF b
    <3>5. Text(r)[st[l] + (Len(F[l]) + x) - 1] = (F[l] \o E)[Len(F[l]) + x]
      BY <1>21, <3>2, <3>4
    <3>. QED  BY <1>22, <3>2, <3>4, <3>5
  <2>. QED  BY <2>1, <2>2
<1>25. ASSUME NEW x \in 1..w PROVE Text(r)[st[N + 1] + x - 1] = E[x]
  <2>1. st[N + 1] + x - 1 = 1 + w + M + x /\ 1 + w + M + x \in 1..1 + w + M + w
    BY <1>11, <1>18
  <2>. QED  BY <1>14, <1>15, <2>1
<1>26. /\ Len(Text(r)) = st[N + 1] + w - 1 + Len(r.body)
       /\ st[N + 1] + w - 1 = 1 + w + M + w
  BY <1>11, <1>15, <1>18
<1>27. Text(r)[1] = "G"
  <2>1. 1 \in 1..1 + w /\ 1 \in 1..1 + w + M /\ 1 \in 1..1 + w + M + w
    BY <1>11
  <2>. QED  BY <1>12, <1>13, <1>14, <1>15, <2>1
<1>28. \A x \in 1..Len(r.body) : Text(r)[st[N + 1] + w - 1 + x] = r.body[x]
  BY <1>15, <1>26
<1>29. \A k \in 1..N : st[k + 1] = st[k] + Len(F[k]) + w
  BY <1>19
<1>30. Layout(st, r)
  BY <1>15, <1>17, <1>18, <1>23, <1>24, <1>25, <1>26, <1>27, <1>28, <1>29 DEF Layout, E, w, F, N, T
<1>. QED  BY <1>30

(* The length of the headers with their blank line. *)
HeadLen(st, r) == st[Len(Fields(r)) + 1] + Len(Eol(r)) - 1

LEMMA Numbers ==
  ASSUME NEW r \in Requests, NEW st, Layout(st, r)
  PROVE  /\ Len(Fields(r)) \in Nat /\ Len(Eol(r)) \in 1..2 /\ Len(r.body) \in Nat
         /\ Len(Eol(r)) = IF r.eol = "crlf" THEN 2 ELSE 1
         /\ \A k \in 1..Len(Fields(r)) + 1 : st[k] \in Nat /\ st[k] >= Len(Eol(r)) + 2
         /\ st[1] = Len(Eol(r)) + 2
         /\ \A k \in 1..Len(Fields(r)) : /\ Len(Fields(r)[k]) \in Nat \ {0}
                                         /\ st[k + 1] = st[k] + Len(Fields(r)[k]) + Len(Eol(r))
         /\ HeadLen(st, r) \in Nat /\ HeadLen(st, r) >= 2 * Len(Eol(r)) + 1
         /\ HeadLen(st, r) = st[Len(Fields(r)) + 1] + Len(Eol(r)) - 1
         /\ Len(Text(r)) = HeadLen(st, r) + Len(r.body)
<1> DEFINE N == Len(Fields(r))
           w == Len(Eol(r))
<1>1. N \in Nat /\ Len(r.body) \in Nat
  <2>1. Fields(r) \in Seq(Seq(Byte)) /\ r.body \in Seq(Byte)
    BY RequestIs
  <2>. QED  BY <2>1
<1>2. w = IF r.eol = "crlf" THEN 2 ELSE 1
  <2>1. Len(<<CR, LF>>) = 2 /\ Len(<<LF>>) = 1
    OBVIOUS
  <2>. QED  BY <2>1, RequestIs
<1>3. w \in 1..2
  BY <1>2
<1>4. \A k \in 1..N : Len(Fields(r)[k]) \in Nat \ {0}
  BY RequestIs
<1>5. /\ st \in [1..N + 1 -> Nat] /\ st[1] = w + 2
      /\ \A k \in 1..N : st[k + 1] = st[k] + Len(Fields(r)[k]) + w
      /\ Len(Text(r)) = st[N + 1] + w - 1 + Len(r.body)
  BY DEF Layout
<1> HIDE DEF N, w
<1> DEFINE S == {k \in 0..N : st[k + 1] >= w + 2}
<1>6. 0..N \subseteq S
  <2>1. 0 \in S
    BY <1>1, <1>3, <1>5
  <2>2. ASSUME NEW k \in 0..N - 1, k \in S PROVE k + 1 \in S
    <3>1. k + 1 \in 1..N /\ k + 1 \in 0..N /\ k + 1 \in 1..N + 1
      BY <1>1
    <3>2. st[(k + 1) + 1] = st[k + 1] + Len(Fields(r)[k + 1]) + w
      BY <1>5, <3>1
    <3> DEFINE a == Len(Fields(r)[k + 1])
    <3>3. a \in Nat /\ st[k + 1] \in Nat /\ st[k + 1] >= w + 2 /\ st[(k + 1) + 1] = st[k + 1] + a + w
      BY <1>4, <1>5, <2>2, <3>1, <3>2
    <3> HIDE DEF a
    <3>4. st[(k + 1) + 1] >= w + 2
      BY <1>3, <3>3
    <3>. QED  BY <3>1, <3>4
  <2> HIDE DEF S
  <2>. QED  BY <1>1, <2>1, <2>2, Upwards
<1>7. \A k \in 1..N + 1 : st[k] \in Nat /\ st[k] >= w + 2
  <2>1. \A k \in 1..N + 1 : k - 1 \in 0..N /\ (k - 1) + 1 = k
    BY <1>1
  <2>. QED  BY <1>5, <1>6, <2>1
<1>8. /\ HeadLen(st, r) = st[N + 1] + w - 1
      /\ HeadLen(st, r) \in Nat /\ HeadLen(st, r) >= 2 * w + 1
      /\ Len(Text(r)) = HeadLen(st, r) + Len(r.body)
  <2>1. HeadLen(st, r) = st[N + 1] + w - 1
    BY DEF HeadLen, N, w
  <2>2. N + 1 \in 1..N + 1
    BY <1>1
  <2>3. st[N + 1] \in Nat /\ st[N + 1] >= w + 2
    BY <1>7, <2>2
  <2>. QED  BY <1>3, <1>5, <2>1, <2>3
<1>. QED  BY <1>1, <1>2, <1>3, <1>4, <1>5, <1>7, <1>8 DEF N, w

(* Every place of the headers is in the request line, in a field or in a line end. *)
LEMMA Cover ==
  ASSUME NEW r \in Requests, NEW st, Layout(st, r), NEW p \in 1..HeadLen(st, r)
  PROVE  \/ p = 1
         \/ \E k \in 1..Len(Fields(r)) : p >= st[k] /\ p < st[k] + Len(Fields(r)[k])
         \/ \E k \in 1..Len(Fields(r)) + 1 : p >= st[k] - Len(Eol(r)) /\ p < st[k]
         \/ p > HeadLen(st, r) - Len(Eol(r))
<1> DEFINE N == Len(Fields(r))
           w == Len(Eol(r))
           H == HeadLen(st, r)
           Covered(q) == \/ q = 1
                         \/ \E k \in 1..N : q >= st[k] /\ q < st[k] + Len(Fields(r)[k])
                         \/ \E k \in 1..N + 1 : q >= st[k] - w /\ q < st[k]
           S == {k \in 0..N : \A q \in 1..st[k + 1] - 1 : Covered(q)}
<1>1. /\ N \in Nat /\ w \in 1..2 /\ st[1] = w + 2
      /\ \A k \in 1..N + 1 : st[k] \in Nat
      /\ \A k \in 1..N : /\ Len(Fields(r)[k]) \in Nat \ {0}
                         /\ st[k + 1] = st[k] + Len(Fields(r)[k]) + w
      /\ H = st[N + 1] + w - 1
  BY Numbers
<1> HIDE DEF N, w, H
<1>2. 0 \in S
  <2>1. ASSUME NEW q \in 1..st[1] - 1 PROVE Covered(q)
    <3>1. q = 1 \/ (q >= st[1] - w /\ q < st[1])
      BY <1>1
    <3>2. 1 \in 1..N + 1
      BY <1>1
    <3>. QED  BY <3>1, <3>2
  <2> HIDE DEF Covered
  <2>. QED  BY <1>1, <2>1
<1>3. ASSUME NEW k \in 0..N - 1, k \in S PROVE k + 1 \in S
  <2> DEFINE l == k + 1
  <2>1. l \in 1..N /\ l \in 0..N /\ l + 1 \in 1..N + 1 /\ l \in 1..N + 1
    BY <1>1
  <2>2. \A q \in 1..st[l] - 1 : Covered(q)
    BY <1>3
  <2> HIDE DEF l
  <2> DEFINE b == Len(Fields(r)[l])
  <2>3. st[l] \in Nat /\ b \in Nat /\ st[l + 1] = st[l] + b + w
    BY <1>1, <2>1
  <2>4. ASSUME NEW q \in 1..st[l + 1] - 1 PROVE Covered(q)
    <3>1. q \in 1..st[l] - 1 \/ (q >= st[l] /\ q < st[l] + b) \/ (q >= st[l + 1] - w /\ q < st[l + 1])
      <4> DEFINE a == st[l]
                 c == st[l + 1]
      <4>1. a \in Nat /\ b \in Nat /\ c = a + b + w /\ w \in 1..2 /\ q \in 1..c - 1
        BY <1>1, <2>3
      <4> HIDE DEF a, b, c
      <4>2. q \in 1..a - 1 \/ (q >= a /\ q < a + b) \/ (q >= c - w /\ q < c)
        BY <4>1
      <4>. QED  BY <4>2 DEF a, b, c
    <3>. QED  BY <2>1, <2>2, <3>1
  <2> HIDE DEF Covered
  <2>5. l \in S
    BY <2>1, <2>4
  <2>. QED  BY <2>5 DEF l
<1>4. 0..N \subseteq S
  <2> HIDE DEF S
  <2>. QED  BY <1>1, <1>2, <1>3, Upwards
<1>5. \A q \in 1..st[N + 1] - 1 : Covered(q)
  <2>1. N \in S
    <3> HIDE DEF S
    <3>. QED  BY <1>1, <1>4
  <2>. QED  BY <2>1
<1>6. p \in 1..st[N + 1] - 1 \/ p > H - w
  <2>1. p \in 1..H /\ st[N + 1] \in Nat
    BY <1>1 DEF H
  <2>. QED  BY <1>1, <2>1
<1>. QED  BY <1>5, <1>6 DEF N, w, H

(* What the bytes of the headers are. *)
LEMMA HeadBytes ==
  ASSUME NEW r \in Requests, NEW st, Layout(st, r), NEW p \in 1..HeadLen(st, r)
  PROVE  /\ Text(r)[p] # NUL
         /\ Text(r)[p] = LF <=> \/ p = HeadLen(st, r)
                                \/ \E k \in 1..Len(Fields(r)) + 1 : p = st[k] - 1
         /\ r.eol = "lf" => Text(r)[p] # CR
         /\ r.eol = "crlf" /\ p # HeadLen(st, r) => (Text(r)[p] = CR <=> Text(r)[p + 1] = LF)
<1> DEFINE N == Len(Fields(r))
           w == Len(Eol(r))
           H == HeadLen(st, r)
           F == Fields(r)
           T == Text(r)
           E == Eol(r)
           End(q) == q = H \/ \E k \in 1..N + 1 : q = st[k] - 1
<1>1. /\ N \in Nat /\ w \in 1..2 /\ st[1] = w + 2
      /\ w = IF r.eol = "crlf" THEN 2 ELSE 1
      /\ \A k \in 1..N + 1 : st[k] \in Nat /\ st[k] >= w + 2
      /\ \A k \in 1..N : Len(F[k]) \in Nat \ {0} /\ st[k + 1] = st[k] + Len(F[k]) + w
      /\ H = st[N + 1] + w - 1 /\ H \in Nat
  BY Numbers
<1>2. /\ \A k \in 1..N : \A x \in 1..Len(F[k]) : T[st[k] + x - 1] = F[k][x]
      /\ \A k \in 1..N + 1 : \A x \in 1..w : T[st[k] - w + x - 1] = E[x]
      /\ \A x \in 1..w : T[st[N + 1] + x - 1] = E[x]
      /\ T[1] = "G"
  BY DEF Layout
<1>3. /\ \A k \in 1..N : \A x \in 1..Len(F[k]) : F[k][x] \notin {CR, LF, NUL}
      /\ r.eol = "crlf" => E = <<CR, LF>>
      /\ r.eol # "crlf" => r.eol = "lf" /\ E = <<LF>>
  BY RequestIs
<1>4. E[w] = LF /\ (w = 2 => E[1] = CR)
  BY <1>1, <1>3
<1>5. \A q \in 1..H : \/ q = 1
                      \/ \E k \in 1..N : q >= st[k] /\ q < st[k] + Len(F[k])
                      \/ \E k \in 1..N + 1 : q >= st[k] - w /\ q < st[k]
                      \/ q > H - w
  BY Cover
<1> HIDE DEF N, w, H, F, T, E
(* The line ends. *)
<1>6. ASSUME NEW k \in 1..N + 1
      PROVE  T[st[k] - 1] = LF /\ (w = 2 => T[st[k] - 2] = CR)
  <2>1. st[k] \in Nat /\ st[k] - w + w - 1 = st[k] - 1 /\ st[k] - w + 1 - 1 = st[k] - w
    BY <1>1
  <2>2. T[st[k] - w + w - 1] = E[w] /\ T[st[k] - w + 1 - 1] = E[1]
    <3>1. w \in 1..w /\ 1 \in 1..w
      BY <1>1
    <3>. QED  BY <1>2, <3>1
  <2>. QED  BY <1>4, <2>1, <2>2
<1>7. T[H] = LF /\ (w = 2 => T[H - 1] = CR)
  <2>1. st[N + 1] \in Nat
    BY <1>1
  <2>2. T[st[N + 1] + w - 1] = E[w] /\ T[st[N + 1] + 1 - 1] = E[1]
    <3>1. w \in 1..w /\ 1 \in 1..w
      BY <1>1
    <3>. QED  BY <1>2, <3>1
  <2>3. st[N + 1] + w - 1 = H /\ (w = 2 => st[N + 1] + 1 - 1 = H - 1)
    BY <1>1, <2>1
  <2>. QED  BY <1>4, <2>2, <2>3
(* All bytes. *)
<1>8. ASSUME NEW q \in 1..H
      PROVE  \/ End(q)
             \/ w = 2 /\ T[q] = CR /\ End(q + 1)
             \/ T[q] \notin {CR, LF, NUL}
  <2>1. CASE q = 1
    BY <1>2, <2>1 DEF CR, LF, NUL
  <2>2. ASSUME NEW k \in 1..N, q >= st[k], q < st[k] + Len(F[k])
        PROVE  T[q] \notin {CR, LF, NUL}
    <3> DEFINE x == q - st[k] + 1
    <3>1. k \in 1..N + 1 /\ st[k] \in Nat /\ Len(F[k]) \in Nat
      BY <1>1
    <3>2. x \in 1..Len(F[k]) /\ st[k] + x - 1 = q
      <4> DEFINE a == st[k]
                 b == Len(F[k])
      <4>1. a \in Nat /\ b \in Nat /\ q >= a /\ q < a + b /\ q \in Int
        BY <2>2, <3>1, <1>1
      <4> HIDE DEF a, b
      <4>2. q - a + 1 \in 1..b /\ a + (q - a + 1) - 1 = q
        BY <4>1
      <4>. QED  BY <4>2 DEF a, b
    <3> HIDE DEF x
    <3>. QED  BY <1>2, <1>3, <3>2 DEF N, F
  <2>3. ASSUME NEW k \in 1..N + 1, q >= st[k] - w, q < st[k]
        PROVE  End(q) \/ (w = 2 /\ T[q] = CR /\ End(q + 1))
    <3>1. q = st[k] - 1 \/ (w = 2 /\ q = st[k] - 2 /\ q + 1 = st[k] - 1)
      <4> DEFINE a == st[k]
      <4>1. a \in Nat /\ w \in 1..2 /\ q \in Int /\ q >= a - w /\ q < a
        BY <1>1, <2>3
      <4> HIDE DEF a
      <4>2. q = a - 1 \/ (w = 2 /\ q = a - 2 /\ q + 1 = a - 1)
        BY <4>1
      <4>. QED  BY <4>2 DEF a
    <3>. QED  BY <1>6, <3>1
  <2>4. CASE q > H - w
    <3>1. q = H \/ (w = 2 /\ q = H - 1 /\ q + 1 = H)
      <4>1. w \in 1..2 /\ H \in Nat /\ q \in 1..H
        BY <1>1
      <4>. QED  BY <2>4, <4>1
    <3>. QED  BY <1>7, <3>1
  <2> HIDE DEF End
  <2>. QED  BY <1>5, <2>1, <2>2, <2>3, <2>4
<1>9. \A q : End(q) => T[q] = LF /\ (w = 2 => T[q - 1] = CR)
  <2>1. ASSUME NEW k \in 1..N + 1 PROVE (st[k] - 1) - 1 = st[k] - 2
    BY <1>1
  <2>. QED  BY <1>6, <1>7, <2>1
<1> HIDE DEF End
<1>10. CR # LF /\ NUL # LF /\ NUL # CR
  BY DEF CR, LF, NUL
<1>11. \A q \in 1..H : T[q] = LF <=> End(q)
  BY <1>8, <1>9, <1>10
<1>12. T[p] # NUL
  BY <1>8, <1>9, <1>10 DEF H
<1>13. r.eol = "lf" => T[p] # CR
  <2>1. r.eol = "lf" => w # 2
    BY <1>1
  <2>. QED  BY <1>8, <1>9, <1>10, <2>1 DEF H
<1>14. ASSUME r.eol = "crlf", p # H PROVE T[p] = CR <=> T[p + 1] = LF
  <2>1. w = 2 /\ p \in 1..H /\ p + 1 \in 1..H /\ (p + 1) - 1 = p
    BY <1>1, <1>14 DEF H
  <2>2. ASSUME T[p] = CR PROVE T[p + 1] = LF
    BY <1>8, <1>9, <1>10, <2>1, <2>2
  <2>3. ASSUME T[p + 1] = LF PROVE T[p] = CR
    BY <1>9, <1>11, <2>1, <2>3
  <2>. QED  BY <2>2, <2>3
<1>. QED  BY <1>11, <1>12, <1>13, <1>14 DEF T, H, N, End

(* No line is empty: before a line end stands a byte of the line. *)
LEMMA LinesFull ==
  ASSUME NEW r \in Requests, NEW st, Layout(st, r), NEW k \in 1..Len(Fields(r)) + 1
  PROVE  /\ st[k] - Len(Eol(r)) - 1 \in 1..HeadLen(st, r)
         /\ Text(r)[st[k] - Len(Eol(r)) - 1] \notin {CR, LF, NUL}
         /\ st[k] + Len(Eol(r)) - 1 <= HeadLen(st, r)
<1> DEFINE N == Len(Fields(r))
           w == Len(Eol(r))
           H == HeadLen(st, r)
           F == Fields(r)
           T == Text(r)
           S == {n \in 0..N : \A j \in 1..n + 1 : st[j] <= st[n + 1]}
<1>1. /\ N \in Nat /\ w \in 1..2 /\ st[1] = w + 2
      /\ \A j \in 1..N + 1 : st[j] \in Nat /\ st[j] >= w + 2
      /\ \A j \in 1..N : Len(F[j]) \in Nat \ {0} /\ st[j + 1] = st[j] + Len(F[j]) + w
      /\ H = st[N + 1] + w - 1 /\ H \in Nat
  BY Numbers
<1>2. /\ \A j \in 1..N : \A x \in 1..Len(F[j]) : T[st[j] + x - 1] = F[j][x]
      /\ T[1] = "G"
  BY DEF Layout
<1>3. \A j \in 1..N : \A x \in 1..Len(F[j]) : F[j][x] \notin {CR, LF, NUL}
  BY RequestIs
<1> HIDE DEF N, w, H, F, T
<1>4. 0..N \subseteq S
  <2>1. 0 \in S
    BY <1>1
  <2>2. ASSUME NEW n \in 0..N - 1, n \in S PROVE n + 1 \in S
    <3> DEFINE m == n + 1
    <3>1. m \in 1..N /\ m \in 0..N /\ m \in 1..N + 1 /\ m + 1 \in 1..N + 1 /\ \A j \in 1..m : st[j] <= st[m]
      BY <1>1, <2>2
    <3> HIDE DEF m
    <3>2. st[m] \in Nat /\ st[m + 1] \in Nat /\ st[m] <= st[m + 1]
      <4> DEFINE a == st[m]
                 b == Len(F[m])
      <4>1. a \in Nat /\ b \in Nat /\ st[m + 1] = a + b + w /\ w \in 1..2
        BY <1>1, <3>1
      <4> HIDE DEF a, b
      <4>2. a + b + w \in Nat /\ a <= a + b + w
        BY <4>1
      <4>. QED  BY <4>1, <4>2 DEF a
    <3>3. ASSUME NEW j \in 1..m + 1 PROVE st[j] <= st[m + 1]
      <4>1. j = m + 1 \/ j \in 1..m
        BY <3>1
      <4>2. j \in 1..N + 1
        BY <1>1, <3>1
      <4>3. st[j] \in Nat
        BY <1>1, <4>2
      <4>. QED  BY <3>1, <3>2, <4>1, <4>3
    <3>4. m \in S
      BY <3>1, <3>3
    <3>. QED  BY <3>4 DEF m
  <2> HIDE DEF S
  <2>. QED  BY <1>1, <2>1, <2>2, Upwards
<1>5. st[k] <= st[N + 1] /\ st[k] \in Nat /\ st[N + 1] \in Nat /\ k \in 1..N + 1
  <2>1. N \in S
    <3> HIDE DEF S
    <3>. QED  BY <1>1, <1>4
  <2>. QED  BY <1>1, <2>1 DEF N
<1>6. st[k] + w - 1 <= H /\ st[k] - w - 1 \in 1..H
  <2> DEFINE a == st[k]
             b == st[N + 1]
  <2>1. a \in Nat /\ b \in Nat /\ a <= b /\ a >= w + 2 /\ H = b + w - 1 /\ w \in 1..2
    BY <1>1, <1>5
  <2> HIDE DEF a, b
  <2>2. a + w - 1 <= H /\ a - w - 1 \in 1..H
    BY <2>1
  <2>. QED  BY <2>2 DEF a
<1>7. T[st[k] - w - 1] \notin {CR, LF, NUL}
  <2>1. CASE k = 1
    <3>1. st[k] - w - 1 = 1
      BY <1>1, <2>1
    <3>. QED  BY <1>2, <3>1 DEF CR, LF, NUL
  <2>2. CASE k # 1
    <3> DEFINE l == k - 1
    <3>1. l \in 1..N /\ l \in 1..N + 1 /\ l + 1 = k
      BY <1>1, <1>5, <2>2
    <3> HIDE DEF l
    <3>2. Len(F[l]) \in 1..Len(F[l]) /\ st[l] + Len(F[l]) - 1 = st[k] - w - 1
      <4> DEFINE a == st[l]
                 b == Len(F[l])
      <4>1. a \in Nat /\ b \in Nat \ {0} /\ st[k] = a + b + w /\ w \in 1..2
        BY <1>1, <3>1
      <4> HIDE DEF a, b
      <4>2. b \in 1..b /\ a + b - 1 = st[k] - w - 1
        BY <4>1
      <4>. QED  BY <4>2 DEF a, b
    <3>3. T[st[l] + Len(F[l]) - 1] = F[l][Len(F[l])] /\ F[l][Len(F[l])] \notin {CR, LF, NUL}
      BY <1>2, <1>3, <3>1, <3>2
    <3>. QED  BY <3>2, <3>3
  <2>. QED  BY <2>1, <2>2
<1>. QED  BY <1>6, <1>7 DEF w, H, T

-----------------------------------------------------------------------------
(* Completeness. *)

LEMMA FirstIs ==
  ASSUME NEW S \in SUBSET Int, NEW n \in S, \A m \in S : n <= m
  PROVE  First(S) = n
<1>1. \A m \in S : (\A j \in S : m <= j) => m = n
  OBVIOUS
<1>. QED  BY <1>1 DEF First

LEMMA EndsAtIs ==
  ASSUME NEW b \in Seq(Byte)
  PROVE  /\ EndsAt(b, <<CR, LF, CR, LF>>) =
              {i \in 4..Len(b) : b[i - 3] = CR /\ b[i - 2] = LF /\ b[i - 1] = CR /\ b[i] = LF}
         /\ EndsAt(b, <<LF, LF>>) = {i \in 2..Len(b) : b[i - 1] = LF /\ b[i] = LF}
<1>1. Len(b) \in Nat
  OBVIOUS
<1>2. ASSUME NEW i \in 4..Len(b)
      PROVE  SubSeq(b, i - 4 + 1, i) = <<CR, LF, CR, LF>>
               <=> b[i - 3] = CR /\ b[i - 2] = LF /\ b[i - 1] = CR /\ b[i] = LF
  <2> DEFINE s == SubSeq(b, i - 4 + 1, i)
  <2>1. i - 3 \in 1..Len(b) + 1 /\ i \in (i - 3) - 1..Len(b) /\ i - 4 + 1 = i - 3
    BY <1>1
  <2>2. s \in Seq(Byte) /\ Len(s) = i + 1 - (i - 3) /\ \A j \in 1..i + 1 - (i - 3) : s[j] = b[i - 3 + j - 1]
    BY <2>1, SubSeqIs
  <2>3. Len(s) = 4 /\ s[1] = b[i - 3] /\ s[2] = b[i - 2] /\ s[3] = b[i - 1] /\ s[4] = b[i]
    <3> HIDE DEF s
    <3>1. i + 1 - (i - 3) = 4 /\ 1 \in 1..4 /\ 2 \in 1..4 /\ 3 \in 1..4 /\ 4 \in 1..4
          /\ i - 3 + 1 - 1 = i - 3 /\ i - 3 + 2 - 1 = i - 2 /\ i - 3 + 3 - 1 = i - 1 /\ i - 3 + 4 - 1 = i
      OBVIOUS
    <3>2. \A j \in 1..4 : s[j] = b[i - 3 + j - 1]
      BY <2>2, <3>1
    <3>3. s[1] = b[i - 3 + 1 - 1] /\ s[2] = b[i - 3 + 2 - 1] /\ s[3] = b[i - 3 + 3 - 1] /\ s[4] = b[i - 3 + 4 - 1]
      BY <3>1, <3>2
    <3>. QED  BY <2>2, <3>1, <3>3
  <2> HIDE DEF s
  <2>4. s = <<CR, LF, CR, LF>> => b[i - 3] = CR /\ b[i - 2] = LF /\ b[i - 1] = CR /\ b[i] = LF
    BY <2>3
  <2>5. ASSUME b[i - 3] = CR, b[i - 2] = LF, b[i - 1] = CR, b[i] = LF PROVE s = <<CR, LF, CR, LF>>
    <3> DEFINE t == <<CR, LF, CR, LF>>
    <3>1. t \in Seq(Byte) /\ Len(t) = 4 /\ t[1] = CR /\ t[2] = LF /\ t[3] = CR /\ t[4] = LF
      BY DEF Byte
    <3> HIDE DEF t
    <3>2. \A j \in 1..4 : j = 1 \/ j = 2 \/ j = 3 \/ j = 4
      OBVIOUS
    <3>3. \A j \in 1..Len(s) : s[j] = t[j]
      BY <2>3, <2>5, <3>1, <3>2
    <3>4. s = t
      BY <2>2, <2>3, <3>1, <3>3, SameSeq
    <3>. QED  BY <3>4 DEF t
  <2>. QED  BY <2>4, <2>5 DEF s
<1>3. ASSUME NEW i \in 2..Len(b)
      PROVE  SubSeq(b, i - 2 + 1, i) = <<LF, LF>> <=> b[i - 1] = LF /\ b[i] = LF
  <2> DEFINE s == SubSeq(b, i - 2 + 1, i)
  <2>1. i - 1 \in 1..Len(b) + 1 /\ i \in (i - 1) - 1..Len(b) /\ i - 2 + 1 = i - 1
    BY <1>1
  <2>2. s \in Seq(Byte) /\ Len(s) = i + 1 - (i - 1) /\ \A j \in 1..i + 1 - (i - 1) : s[j] = b[i - 1 + j - 1]
    BY <2>1, SubSeqIs
  <2>3. Len(s) = 2 /\ s[1] = b[i - 1] /\ s[2] = b[i]
    <3> HIDE DEF s
    <3>1. i + 1 - (i - 1) = 2 /\ 1 \in 1..2 /\ 2 \in 1..2 /\ i - 1 + 1 - 1 = i - 1 /\ i - 1 + 2 - 1 = i
      OBVIOUS
    <3>2. \A j \in 1..2 : s[j] = b[i - 1 + j - 1]
      BY <2>2, <3>1
    <3>3. s[1] = b[i - 1 + 1 - 1] /\ s[2] = b[i - 1 + 2 - 1]
      BY <3>1, <3>2
    <3>. QED  BY <2>2, <3>1, <3>3
  <2> HIDE DEF s
  <2>4. s = <<LF, LF>> => b[i - 1] = LF /\ b[i] = LF
    BY <2>3
  <2>5. ASSUME b[i - 1] = LF, b[i] = LF PROVE s = <<LF, LF>>
    <3> DEFINE t == <<LF, LF>>
    <3>1. t \in Seq(Byte) /\ Len(t) = 2 /\ t[1] = LF /\ t[2] = LF
      BY DEF Byte
    <3> HIDE DEF t
    <3>2. \A j \in 1..2 : j = 1 \/ j = 2
      OBVIOUS
    <3>3. \A j \in 1..Len(s) : s[j] = t[j]
      BY <2>3, <2>5, <3>1, <3>2
    <3>4. s = t
      BY <2>2, <2>3, <3>1, <3>3, SameSeq
    <3>. QED  BY <3>4 DEF t
  <2>. QED  BY <2>4, <2>5 DEF s
<1>4. Len(<<CR, LF, CR, LF>>) = 4 /\ Len(<<LF, LF>>) = 2
  OBVIOUS
<1>. QED  BY <1>2, <1>3, <1>4 DEF EndsAt

(* What has arrived of a request. *)
LEMMA ArrivedIs ==
  ASSUME NEW r \in Requests, NEW st, Layout(st, r), NEW n \in 0..Len(Text(r))
  PROVE  /\ SubSeq(Text(r), 1, n) \in Seq(Byte) /\ Len(SubSeq(Text(r), 1, n)) = n
         /\ \A i \in 1..n : SubSeq(Text(r), 1, n)[i] = Text(r)[i]
<1>1. Text(r) \in Seq(Byte)
  BY DEF Layout
<1>. QED  BY <1>1, HeadIs

(* The blank line is found when it has arrived, and none before it. *)
LEMMA HeaderEndIs ==
  ASSUME NEW r \in Requests, NEW st, Layout(st, r), NEW n \in 0..Len(Text(r)),
         r.eol = "crlf" \/ ~Has(r.body, {CR})
  PROVE  find_header_end(SubSeq(Text(r), 1, n)) = IF n < HeadLen(st, r) THEN 0 ELSE HeadLen(st, r)
<1> DEFINE N == Len(Fields(r))
           w == Len(Eol(r))
           H == HeadLen(st, r)
           T == Text(r)
           b == SubSeq(T, 1, n)
           crlfs == {i \in 4..n : T[i - 3] = CR /\ T[i - 2] = LF /\ T[i - 1] = CR /\ T[i] = LF}
           lfs == {i \in 2..n : T[i - 1] = LF /\ T[i] = LF}
<1>1. /\ N \in Nat /\ w \in 1..2 /\ w = IF r.eol = "crlf" THEN 2 ELSE 1
      /\ \A k \in 1..N + 1 : st[k] \in Nat /\ st[k] >= w + 2
      /\ H = st[N + 1] + w - 1 /\ H \in Nat /\ H >= 2 * w + 1
      /\ Len(T) = H + Len(r.body) /\ Len(r.body) \in Nat
  BY Numbers
<1>2. b \in Seq(Byte) /\ Len(b) = n /\ \A i \in 1..n : b[i] = T[i]
  BY ArrivedIs
<1>3. \A k \in 1..N + 1 : st[k] - w - 1 \in 1..H /\ T[st[k] - w - 1] \notin {CR, LF, NUL}
  BY LinesFull
<1>4. \A p \in 1..H :
        /\ T[p] = LF <=> p = H \/ \E k \in 1..N + 1 : p = st[k] - 1
        /\ r.eol = "lf" => T[p] # CR
        /\ r.eol = "crlf" /\ p # H => (T[p] = CR <=> T[p + 1] = LF)
  BY HeadBytes
<1>5. \A p \in H + 1..Len(T) : T[p] = r.body[p - H] /\ p - H \in 1..Len(r.body)
  <2>1. \A x \in 1..Len(r.body) : T[st[N + 1] + w - 1 + x] = r.body[x]
    BY DEF Layout
  <2>2. \A x \in 1..Len(r.body) : T[H + x] = r.body[x]
    BY <1>1, <2>1
  <2> HIDE DEF H, T, w, N
  <2>3. \A p \in H + 1..Len(T) : p - H \in 1..Len(r.body) /\ H + (p - H) = p
    <3> DEFINE m == Len(r.body)
    <3>1. m \in Nat /\ H \in Nat /\ Len(T) = H + m
      BY <1>1
    <3> HIDE DEF m
    <3>2. \A p \in H + 1..H + m : p - H \in 1..m /\ H + (p - H) = p
      BY <3>1
    <3>. QED  BY <3>1, <3>2 DEF m
  <2>. QED  BY <2>2, <2>3
<1>6. r.eol \in {"crlf", "lf"} /\ (r.eol # "crlf" => \A x \in 1..Len(r.body) : r.body[x] # CR)
  <2>1. r.body \in Seq(Byte) /\ (r.eol # "crlf" => r.eol = "lf")
    BY RequestIs
  <2>2. DOMAIN r.body = 1..Len(r.body)
    BY <2>1
  <2>. QED  BY <2>1, <2>2 DEF Has
<1>7. EndsAt(b, <<CR, LF, CR, LF>>) = crlfs /\ EndsAt(b, <<LF, LF>>) = lfs
  <2>1. /\ EndsAt(b, <<CR, LF, CR, LF>>) =
             {i \in 4..Len(b) : b[i - 3] = CR /\ b[i - 2] = LF /\ b[i - 1] = CR /\ b[i] = LF}
        /\ EndsAt(b, <<LF, LF>>) = {i \in 2..Len(b) : b[i - 1] = LF /\ b[i] = LF}
    BY <1>2, EndsAtIs
  <2> HIDE DEF b, T
  <2>2. \A i \in 2..n : i \in 1..n /\ i - 1 \in 1..n
    BY <1>2
  <2>3. \A i \in 4..n : i \in 1..n /\ i - 1 \in 1..n /\ i - 2 \in 1..n /\ i - 3 \in 1..n
    BY <1>2
  <2>4. \A i \in 2..n : b[i] = T[i] /\ b[i - 1] = T[i - 1]
    BY <1>2, <2>2
  <2>5. \A i \in 4..n : b[i] = T[i] /\ b[i - 1] = T[i - 1] /\ b[i - 2] = T[i - 2] /\ b[i - 3] = T[i - 3]
    BY <1>2, <2>3
  <2>. QED  BY <1>2, <2>1, <2>4, <2>5
<1>8. find_header_end(b) = IF crlfs # {} THEN First(crlfs) ELSE IF lfs # {} THEN First(lfs) ELSE 0
  <2> HIDE DEF crlfs, lfs, b
  <2>. QED  BY <1>7 DEF find_header_end
<1>9. T[st[N + 1] - 1] = LF /\ T[H] = LF /\ st[N + 1] - 1 = H - w /\ H - w \in 1..H
  <2>1. N + 1 \in 1..N + 1 /\ H \in 1..H /\ st[N + 1] \in Nat
    BY <1>1
  <2>2. st[N + 1] - 1 = H - w /\ H - w \in 1..H
    BY <1>1, <2>1
  <2>. QED  BY <1>4, <2>1, <2>2
<1> HIDE DEF N, w, H, T, b
<1>10. CASE r.eol = "crlf"
  <2>1. w = 2 /\ H >= 5
    BY <1>1, <1>10
  <2>2. ASSUME NEW i \in crlfs, i <= H PROVE i = H
    <3> SUFFICES ASSUME i # H PROVE FALSE
      OBVIOUS
    <3>1. i \in 1..H /\ i \in Nat /\ T[i] = LF /\ T[i - 2] = LF
      BY <1>1, <2>2
    <3>2. PICK k \in 1..N + 1 : i = st[k] - 1
      BY <1>4, <3>1
    <3>3. i - 2 = st[k] - w - 1
      BY <1>1, <2>1, <3>2
    <3>. QED  BY <1>3, <3>1, <3>3
  <2>3. CASE n < H
    <3>1. crlfs = {}
      <4>1. \A i \in crlfs : i <= H /\ i # H
        BY <1>1, <2>3
      <4> HIDE DEF crlfs
      <4>. QED  BY <2>2, <4>1
    <3>2. lfs = {}
      <4>1. ASSUME NEW i \in lfs PROVE FALSE
        <5>1. i - 1 \in 1..H /\ i - 1 # H /\ (i - 1) + 1 = i /\ T[i] = LF /\ T[i - 1] = LF
          BY <1>1, <2>3, <4>1
        <5>2. T[i - 1] = CR
          BY <1>4, <1>10, <5>1
        <5>. QED  BY <5>1, <5>2 DEF CR, LF
      <4>. QED  BY <4>1
    <3> HIDE DEF crlfs, lfs
    <3>. QED  BY <1>8, <2>3, <3>1, <3>2 DEF b, T, H
  <2>4. CASE n >= H
    <3>1. H \in crlfs
      <4>1. H - 1 \in 1..H /\ H - 1 # H /\ (H - 1) + 1 = H /\ H - 3 \in 1..H /\ H - 3 # H
            /\ (H - 3) + 1 = H - 2 /\ H \in 4..n
        <5>1. n \in Nat
          BY <1>1 DEF T
        <5>2. H \in Nat
          BY <1>1
        <5>. QED  BY <2>1, <2>4, <5>1, <5>2
      <4>2. T[H - 1] = CR /\ T[H - 2] = LF /\ T[H] = LF
        BY <1>4, <1>9, <1>10, <2>1, <4>1
      <4>3. T[H - 3] = CR
        BY <1>4, <1>10, <4>1, <4>2
      <4>. QED  BY <4>1, <4>2, <4>3
    <3>2. \A i \in crlfs : H <= i
      <4>1. \A i \in crlfs : i \in Int
        OBVIOUS
      <4> HIDE DEF crlfs
      <4>. QED  BY <1>1, <2>2, <4>1
    <3>3. crlfs \in SUBSET Int
      OBVIOUS
    <3> HIDE DEF crlfs, lfs
    <3>4. First(crlfs) = H
      BY <3>1, <3>2, <3>3, FirstIs
    <3>5. crlfs # {} /\ ~(n < H)
      BY <1>1, <2>4, <3>1
    <3>. QED  BY <1>8, <3>4, <3>5 DEF b, T, H
  <2>. QED  BY <1>1, <2>3, <2>4
<1>11. CASE r.eol # "crlf"
  <2>1. w = 1 /\ H >= 3 /\ r.eol = "lf"
    BY <1>1, <1>6, <1>11
  <2>2. \A p \in 1..Len(T) : T[p] # CR
    <3>1. \A p \in 1..Len(T) : p \in 1..H \/ p \in H + 1..Len(T)
      BY <1>1
    <3>. QED  BY <1>4, <1>5, <1>6, <1>11, <2>1, <3>1
  <2>3. crlfs = {}
    <3>1. \A i \in 4..n : i - 1 \in 1..Len(T)
      BY <1>1 DEF T
    <3>. QED  BY <2>2, <3>1
  <2>4. ASSUME NEW i \in lfs, i <= H PROVE i = H
    <3> SUFFICES ASSUME i # H PROVE FALSE
      OBVIOUS
    <3>1. i \in 1..H /\ i \in Nat /\ T[i] = LF /\ T[i - 1] = LF
      BY <1>1, <2>4
    <3>2. PICK k \in 1..N + 1 : i = st[k] - 1
      BY <1>4, <3>1
    <3>3. i - 1 = st[k] - w - 1
      BY <1>1, <2>1, <3>2
    <3>. QED  BY <1>3, <3>1, <3>3
  <2>5. CASE n < H
    <3>1. lfs = {}
      <4>1. \A i \in lfs : i <= H /\ i # H
        BY <1>1, <2>5
      <4> HIDE DEF lfs
      <4>. QED  BY <2>4, <4>1
    <3> HIDE DEF crlfs, lfs
    <3>. QED  BY <1>8, <2>3, <2>5, <3>1 DEF b, T, H
  <2>6. CASE n >= H
    <3>1. H \in lfs
      <4>1. H \in 2..n
        BY <1>1, <2>1, <2>6
      <4>. QED  BY <1>9, <2>1, <4>1
    <3>2. \A i \in lfs : H <= i
      <4>1. \A i \in lfs : i \in Int
        OBVIOUS
      <4> HIDE DEF lfs
      <4>. QED  BY <1>1, <2>4, <4>1
    <3>3. lfs \in SUBSET Int
      OBVIOUS
    <3> HIDE DEF crlfs, lfs
    <3>4. First(lfs) = H
      BY <3>1, <3>2, <3>3, FirstIs
    <3>5. lfs # {} /\ ~(n < H)
      BY <1>1, <2>6, <3>1
    <3>. QED  BY <1>8, <2>3, <3>4, <3>5 DEF b, T, H
  <2>. QED  BY <1>1, <2>5, <2>6
<1>. QED  BY <1>10, <1>11

LEMMA NoNul ==
  ASSUME NEW s \in Seq(Byte), \A i \in 1..Len(s) : s[i] # NUL
  PROVE  CString(s) = s
<1>1. DOMAIN s = 1..Len(s)
  OBVIOUS
<1>. QED  BY <1>1 DEF CString

(* A request with a body says how long it is, and the others have no body. *)
LEMMA LengthIs ==
  ASSUME NEW st, sent \in Requests, Layout(st, sent),
         NEW n \in HeadLen(st, sent)..Len(Text(sent))
  PROVE  parse_content_length(SubSeq(Text(sent), 1, n), HeadLen(st, sent)) = Len(sent.body)
<1> DEFINE N == Len(Fields(sent))
           w == Len(Eol(sent))
           H == HeadLen(st, sent)
           T == Text(sent)
           F == Fields(sent)
           b == SubSeq(T, 1, n)
           c == SubSeq(b, 1, H - 1)
<1>1. /\ N \in Nat /\ w \in 1..2 /\ w = IF sent.eol = "crlf" THEN 2 ELSE 1
      /\ \A k \in 1..N + 1 : st[k] \in Nat /\ st[k] >= w + 2
      /\ \A k \in 1..N : Len(F[k]) \in Nat \ {0} /\ st[k + 1] = st[k] + Len(F[k]) + w
      /\ H = st[N + 1] + w - 1 /\ H \in Nat /\ H >= 2 * w + 1
      /\ Len(T) = H + Len(sent.body) /\ Len(sent.body) \in Nat
  BY Numbers
<1>2. n \in 0..Len(T) /\ n >= H
  BY <1>1
<1>3. b \in Seq(Byte) /\ Len(b) = n /\ \A i \in 1..n : b[i] = T[i]
  BY <1>2, ArrivedIs
<1> HIDE DEF b
<1>4. c \in Seq(Byte) /\ Len(c) = H - 1 /\ \A i \in 1..H - 1 : c[i] = T[i]
  <2> HIDE DEF H, T
  <2>1. n \in Nat
    BY <1>3
  <2>2. 1 \in 1..Len(b) + 1 /\ H - 1 \in 1 - 1..Len(b) /\ H - 1 + 1 - 1 = H - 1
        /\ \A i \in 1..H - 1 : 1 + i - 1 = i /\ i \in 1..n
    BY <1>1, <1>2, <1>3, <2>1
  <2>3. /\ c \in Seq(Byte) /\ Len(c) = H - 1 + 1 - 1
        /\ \A i \in 1..H - 1 + 1 - 1 : c[i] = b[1 + i - 1]
    BY <1>3, <2>2, SubSeqIs
  <2> HIDE DEF c
  <2>. QED  BY <1>3, <2>2, <2>3
<1> HIDE DEF c
<1>5. \A p \in 1..H : T[p] # NUL
  BY HeadBytes
<1>6. CString(c) = c /\ DOMAIN c = 1..H - 1
  <2>1. \A i \in 1..Len(c) : c[i] # NUL
    <3>1. \A i \in 1..H - 1 : i \in 1..H
      BY <1>1
    <3>. QED  BY <1>4, <1>5, <3>1
  <2>2. DOMAIN c = 1..Len(c)
    BY <1>4
  <2>. QED  BY <1>4, <2>1, <2>2, NoNul
<1>7. CASE sent.body = <<>>
  <2>1. Len(sent.body) = 0
    BY <1>7
  <2>. QED  BY <2>1 DEF parse_content_length
<1>8. CASE sent.body # <<>>
  <2>1. N \in 1..N /\ F[N] = LengthLine
    <3>1. F = sent.lines \o <<LengthLine>>
      BY <1>8 DEF Fields
    <3>2. PICK m \in 0..MaxLines : sent.lines \in [1..m -> Lines]
      BY DEF Requests
    <3>3. sent.lines \in Seq(Lines)
      BY <3>2, TextAssumption DEF TextAssumption
    <3> DEFINE S == Lines \cup {LengthLine}
    <3>4. sent.lines \in Seq(S) /\ <<LengthLine>> \in Seq(S) /\ Len(<<LengthLine>>) = 1
          /\ <<LengthLine>>[1] = LengthLine
      BY <3>3
    <3> HIDE DEF S
    <3>5. Len(sent.lines) \in Nat /\ N = Len(sent.lines) + 1
          /\ F[Len(sent.lines) + 1] = LengthLine
      <4>1. Len(sent.lines) \in Nat
        BY <3>4
      <4>2. 1 \in 1..1
        OBVIOUS
      <4>. QED  BY <3>1, <3>4, <4>1, <4>2, Joined
    <3>. QED  BY <3>5
  <2>2. F[N][1] = "L" /\ Len(F[N]) = 3
    BY <2>1 DEF LengthLine
  <2> DEFINE i == st[N]
  <2>3. /\ \A k \in 1..N : \A x \in 1..Len(F[k]) : T[st[k] + x - 1] = F[k][x]
        /\ \A k \in 1..N + 1 : \A x \in 1..w : T[st[k] - w + x - 1] = Eol(sent)[x]
        /\ T[1] = "G"
    BY DEF Layout
  <2>4. Eol(sent)[w] = LF
    <3>1. /\ sent.eol = "crlf" => Eol(sent) = <<CR, LF>>
          /\ sent.eol # "crlf" => Eol(sent) = <<LF>>
      BY RequestIs
    <3> HIDE DEF w
    <3>. QED  BY <1>1, <3>1
  <2> HIDE DEF N, w, H, F, T, b, c
  <2>5. i \in Nat /\ i >= w + 2 /\ i + 3 + w = st[N + 1] /\ N \in 1..N + 1 /\ st[N + 1] \in Nat
    <3>1. N \in 1..N + 1 /\ N + 1 \in 1..N + 1
      BY <1>1, <2>1
    <3>. QED  BY <1>1, <2>1, <2>2, <3>1
  <2>6. i \in 1..H - 1 /\ i - 1 \in 1..H - 1 /\ i # 1 /\ 1 \in 1..H - 1 /\ i + 1 - 1 = i /\ i - w + w - 1 = i - 1
    <3> HIDE DEF i
    <3>1. H = i + 3 + w + w - 1 /\ w \in 1..2
      BY <1>1, <2>5
    <3>. QED  BY <2>5, <3>1
  <2>7. T[i] = "L" /\ T[i - 1] = LF
    <3>1. T[i + 1 - 1] = F[N][1]
      <4>1. 1 \in 1..Len(F[N])
        BY <2>2
      <4>. QED  BY <2>1, <2>3, <4>1
    <3>2. T[i - w + w - 1] = Eol(sent)[w]
      <4>1. w \in 1..w
        BY <1>1
      <4>. QED  BY <2>3, <2>5, <4>1
    <3>. QED  BY <2>2, <2>4, <2>6, <3>1, <3>2
  <2> HIDE DEF i
  <2>8. 1 \in Starts(c) /\ i \in Starts(c) /\ c[i] = "L"
    <3>1. c[1] = "G" /\ c[i] = "L" /\ c[i - 1] = LF
      BY <1>4, <2>3, <2>6, <2>7
    <3>. QED  BY <1>6, <2>6, <3>1 DEF Starts, Delims, CR, LF
  <2>9. First(Starts(c)) = 1
    <3>1. \A m \in Starts(c) : m \in 1..H - 1
      BY <1>6 DEF Starts
    <3>2. Starts(c) \in SUBSET Int /\ \A m \in Starts(c) : 1 <= m
      BY <1>1, <3>1
    <3>. QED  BY <2>8, <3>2, FirstIs
  <2>10. HasField(c, "L")
    BY <2>6, <2>8, <2>9 DEF HasField
  <2>. QED  BY <2>10 DEF parse_content_length, c, b, T, H
<1>. QED  BY <1>7, <1>8

(* The test for completeness is exact. *)
LEMMA CompleteIs ==
  ASSUME NEW n, sent \in Requests, n \in 0..Len(Text(sent)),
         sent.eol = "crlf" \/ ~Has(sent.body, {CR})
  PROVE  Complete(SubSeq(Text(sent), 1, n)) <=> n = Len(Text(sent))
<1> DEFINE b == SubSeq(Text(sent), 1, n)
<1>1. PICK st : Layout(st, sent)
  BY LayoutExists
<1> DEFINE H == HeadLen(st, sent)
<1>2. H \in Nat /\ H > 0 /\ Len(Text(sent)) = H + Len(sent.body) /\ Len(sent.body) \in Nat
  <2>1. H \in Nat /\ H >= 2 * Len(Eol(sent)) + 1 /\ Len(Eol(sent)) \in 1..2
        /\ Len(Text(sent)) = H + Len(sent.body) /\ Len(sent.body) \in Nat
    BY <1>1, Numbers
  <2> HIDE DEF H
  <2>. QED  BY <2>1
<1>3. find_header_end(b) = IF n < H THEN 0 ELSE H
  BY <1>1, HeaderEndIs
<1>4. Len(b) = n
  BY <1>1, ArrivedIs
<1>5. n >= H => parse_content_length(b, H) = Len(sent.body)
  <2>1. n >= H => n \in H..Len(Text(sent))
    BY <1>2
  <2>. QED  BY <1>1, <2>1, LengthIs
<1> HIDE DEF H, b
<1> DEFINE m == Len(sent.body)
<1>6. n \in 0..H + m /\ m \in Nat
  BY <1>2
<1>7. CASE n < H
  <2>1. ~Complete(b)
    BY <1>3, <1>7 DEF Complete
  <2>. QED  BY <1>2, <1>7, <2>1 DEF b
<1>8. CASE n >= H
  <2>1. find_header_end(b) = H
    BY <1>2, <1>3, <1>6, <1>8
  <2>2. Complete(b) <=> H + m <= n
    BY <1>2, <1>4, <1>5, <1>8, <2>1 DEF Complete
  <2> HIDE DEF m
  <2>3. H + m <= n <=> n = H + m
    BY <1>2, <1>6
  <2>. QED  BY <1>2, <2>2, <2>3 DEF b, m
<1>. QED  BY <1>2, <1>6, <1>7, <1>8

-----------------------------------------------------------------------------
(* The second reading of the buffer. *)

(* A C string reaches at least to where its text has no NUL. *)
LEMMA CStringReaches ==
  ASSUME NEW s \in Seq(Byte), NEW n \in 0..Len(s), \A i \in 1..n : s[i] # NUL
  PROVE  1..n \subseteq DOMAIN CString(s) /\ DOMAIN CString(s) \subseteq 1..Len(s)
<1> DEFINE nuls == {i \in DOMAIN s : s[i] = NUL}
<1>1. Len(s) \in Nat /\ DOMAIN s = 1..Len(s) /\ n \in Nat
  OBVIOUS
<1>2. CASE nuls = {}
  <2>1. CString(s) = s
    BY <1>2 DEF CString
  <2>. QED  BY <1>1, <2>1
<1>3. CASE nuls # {}
  <2>1. PICK m \in nuls : \A j \in nuls : m <= j
    <3>1. nuls \in SUBSET Nat
      BY <1>1
    <3> HIDE DEF nuls
    <3>. QED  BY <1>3, <3>1, LeastNat
  <2>2. First(nuls) = m
    <3>1. nuls \in SUBSET Int
      BY <1>1
    <3> HIDE DEF nuls
    <3>. QED  BY <2>1, <3>1, FirstIs
  <2>3. CString(s) = SubSeq(s, 1, m - 1)
    BY <1>3, <2>2 DEF CString
  <2>4. m \in 1..Len(s) /\ ~(m \in 1..n)
    BY <1>1, <2>1
  <2>5. 1 \in 1..Len(s) + 1 /\ m - 1 \in 1 - 1..Len(s) /\ m - 1 + 1 - 1 = m - 1 /\ m - 1 >= n
    BY <1>1, <2>4
  <2>6. CString(s) \in Seq(Byte) /\ Len(CString(s)) = m - 1
    BY <2>3, <2>5, SubSeqIs
  <2>7. DOMAIN CString(s) = 1..m - 1
    BY <2>6
  <2>. QED  BY <1>1, <2>4, <2>5, <2>7
<1>. QED  BY <1>2, <1>3

(* strtok puts a NUL over the CR of each line, and over nothing else in the headers. *)
LEMMA TokenizedIs ==
  ASSUME NEW r \in Requests, r.eol = "crlf", NEW st, Layout(st, r)
  PROVE  /\ Tokenized(Text(r)) \in Seq(Byte) /\ Len(Tokenized(Text(r))) = Len(Text(r))
         /\ \A p \in 1..HeadLen(st, r) : Tokenized(Text(r))[p] =
              IF \E k \in 1..Len(Fields(r)) + 1 : p = st[k] - 2 THEN NUL ELSE Text(r)[p]
         /\ \A p \in 1..Len(Text(r)) : Text(r)[p] \notin Delims => Tokenized(Text(r))[p] = Text(r)[p]
<1> DEFINE N == Len(Fields(r))
           H == HeadLen(st, r)
           T == Text(r)
           b == Tokenized(T)
           text == DOMAIN CString(T)
<1>1. /\ N \in Nat /\ Len(Eol(r)) = 2
      /\ \A k \in 1..N + 1 : st[k] \in Nat /\ st[k] >= 4
      /\ H = st[N + 1] + 1 /\ H \in Nat /\ H >= 5
      /\ Len(T) = H + Len(r.body) /\ Len(r.body) \in Nat
  <2>1. /\ N \in Nat /\ Len(Eol(r)) = 2
        /\ \A k \in 1..N + 1 : st[k] \in Nat /\ st[k] >= 2 + 2
        /\ H = st[N + 1] + 2 - 1 /\ H \in Nat /\ H >= 2 * 2 + 1
        /\ Len(T) = H + Len(r.body) /\ Len(r.body) \in Nat
    BY Numbers
  <2>2. N + 1 \in 1..N + 1
    BY <2>1
  <2>3. st[N + 1] \in Nat
    BY <2>1, <2>2
  <2> HIDE DEF N, H, T
  <2>. QED  BY <2>1, <2>3
<1>2. T \in Seq(Byte) /\ DOMAIN T = 1..Len(T)
  <2>1. T \in Seq(Byte)
    BY DEF Layout
  <2>. QED  BY <2>1
<1>3. \A p \in 1..H : /\ T[p] # NUL
                      /\ T[p] = LF <=> p = H \/ \E k \in 1..N + 1 : p = st[k] - 1
                      /\ p # H => (T[p] = CR <=> T[p + 1] = LF)
  BY HeadBytes
<1>4. \A k \in 1..N + 1 : st[k] - 3 \in 1..H /\ T[st[k] - 3] \notin {CR, LF, NUL} /\ st[k] + 1 <= H
  <2>1. ASSUME NEW k \in 1..N + 1
        PROVE  st[k] - 3 \in 1..H /\ T[st[k] - 3] \notin {CR, LF, NUL} /\ st[k] + 1 <= H
    <3>1. /\ st[k] - 2 - 1 \in 1..H /\ T[st[k] - 2 - 1] \notin {CR, LF, NUL}
          /\ st[k] + 2 - 1 <= H
      BY <1>1, LinesFull
    <3>2. st[k] - 2 - 1 = st[k] - 3 /\ st[k] + 2 - 1 = st[k] + 1
      BY <1>1
    <3>. QED  BY <3>1, <3>2
  <2>. QED  BY <2>1
<1> HIDE DEF N, H, T
<1>5. 1..H \subseteq text /\ text \subseteq 1..Len(T)
  <2>1. H \in 0..Len(T)
    BY <1>1
  <2>. QED  BY <1>2, <1>3, <2>1, CStringReaches
<1> HIDE DEF text
<1>6. b = [p \in 1..Len(T) |-> IF p - 1 \in text /\ T[p] \in Delims /\ T[p - 1] \notin Delims
                                THEN NUL ELSE T[p]]
  BY <1>2 DEF Tokenized, text
<1> HIDE DEF b
<1>7. b \in Seq(Byte) /\ Len(b) = Len(T)
  <2>1. NUL \in Byte /\ \A p \in 1..Len(T) : T[p] \in Byte
    BY <1>2 DEF Byte
  <2>2. Len(T) \in Nat
    BY <1>2
  <2>3. b \in [1..Len(T) -> Byte]
    BY <1>6, <2>1
  <2>. QED  BY <2>2, <2>3
<1>8. \A p \in 1..Len(T) : T[p] \notin Delims => b[p] = T[p]
  BY <1>6
<1>9. ASSUME NEW p \in 1..H
      PROVE  b[p] = IF \E k \in 1..N + 1 : p = st[k] - 2 THEN NUL ELSE T[p]
  <2>0. p \in 1..Len(T) /\ p \in Nat
    BY <1>1
  <2>1. ASSUME NEW k \in 1..N + 1, p = st[k] - 2 PROVE b[p] = NUL
    <3>1. p - 1 = st[k] - 3 /\ p + 1 = st[k] - 1 /\ p # H /\ p + 1 \in 1..H
      <4> DEFINE a == st[k]
      <4>1. a \in Nat /\ a >= 4 /\ a + 1 <= H /\ H \in Nat /\ p = a - 2
        BY <1>1, <1>4, <2>1
      <4> HIDE DEF a
      <4>2. p - 1 = a - 3 /\ p + 1 = a - 1 /\ p # H /\ p + 1 \in 1..H
        BY <4>1
      <4>. QED  BY <4>2 DEF a
    <3>2. T[p - 1] \notin Delims /\ p - 1 \in text
      BY <1>4, <1>5, <3>1 DEF Delims
    <3>3. T[p] = CR
      BY <1>3, <3>1
    <3>. QED  BY <1>6, <2>0, <3>2, <3>3 DEF Delims
  <2>2. ASSUME \A k \in 1..N + 1 : p # st[k] - 2, T[p] \in Delims PROVE T[p - 1] \in Delims
    <3>1. CASE T[p] = LF
      <4>1. p # 1
        <5>1. ASSUME NEW k \in 1..N + 1 PROVE 1 # st[k] - 1
          <6>1. st[k] \in Nat /\ st[k] >= 4
            BY <1>1
          <6>. QED  BY <6>1
        <5>2. 1 # H /\ 1 \in 1..H
          <6>1. H \in Nat /\ H >= 5
            BY <1>1
          <6>. QED  BY <6>1
        <5>. QED  BY <1>3, <3>1, <5>1, <5>2
      <4>2. p - 1 \in 1..H /\ p - 1 # H /\ (p - 1) + 1 = p
        BY <1>1, <4>1
      <4>3. T[p - 1] = CR
        BY <1>3, <3>1, <4>2
      <4>. QED  BY <4>3 DEF Delims
    <3>2. CASE T[p] = CR
      <4>1. p # H
        <5>1. H \in 1..H
          BY <1>1
        <5>. QED  BY <1>3, <3>2, <5>1 DEF CR, LF
      <4>2. p + 1 \in 1..H
        BY <1>1, <4>1
      <4>3. T[p + 1] = LF
        BY <1>3, <3>2, <4>1
      <4>4. p + 1 = H
        <5>1. ASSUME NEW k \in 1..N + 1, p + 1 = st[k] - 1 PROVE FALSE
          <6>1. p = st[k] - 2
            BY <1>1, <2>0, <5>1
          <6>. QED  BY <2>2, <6>1
        <5>. QED  BY <1>3, <4>2, <4>3, <5>1
      <4>5. p - 1 = st[N + 1] - 1 /\ N + 1 \in 1..N + 1 /\ p - 1 \in 1..H
        BY <1>1, <2>0, <4>4
      <4>6. T[p - 1] = LF
        BY <1>3, <4>5
      <4>. QED  BY <4>6 DEF Delims
    <3>. QED  BY <2>2, <3>1, <3>2 DEF Delims
  <2>3. ASSUME \A k \in 1..N + 1 : p # st[k] - 2 PROVE b[p] = T[p]
    BY <1>6, <2>0, <2>2, <2>3
  <2>. QED  BY <2>1, <2>3
<1>. QED  BY <1>7, <1>8, <1>9 DEF b, T, N, H

(* Lines too long for the search of the plugin to take for blank ones. *)
AllLong(r) == \A k \in 1..Len(Fields(r)) : Len(Fields(r)[k]) > 2

(* The search finds the blank line that the client sent. *)
LEMMA PluginHeaderEndIs ==
  ASSUME NEW r \in Requests, r.eol = "crlf", AllLong(r), NEW st, Layout(st, r)
  PROVE  PluginHeaderEnd(Tokenized(Text(r))) = HeadLen(st, r)
<1> DEFINE N == Len(Fields(r))
           H == HeadLen(st, r)
           T == Text(r)
           F == Fields(r)
           b == Tokenized(T)
           after(i) == {j \in i + 1..i + 4 : j \in DOMAIN b /\ b[j] = LF}
           near == {i \in DOMAIN b : b[i] = LF /\ after(i) # {}}
<1>1. /\ N \in Nat /\ Len(Eol(r)) = 2
      /\ \A k \in 1..N + 1 : st[k] \in Nat /\ st[k] >= 4
      /\ \A k \in 1..N : Len(F[k]) \in Nat \ {0} /\ st[k + 1] = st[k] + Len(F[k]) + 2
      /\ H = st[N + 1] + 1 /\ H \in Nat /\ H >= 5
      /\ Len(T) = H + Len(r.body) /\ Len(r.body) \in Nat
  <2>1. /\ N \in Nat /\ Len(Eol(r)) = 2
        /\ \A k \in 1..N + 1 : st[k] \in Nat /\ st[k] >= 2 + 2
        /\ \A k \in 1..N : Len(F[k]) \in Nat \ {0} /\ st[k + 1] = st[k] + Len(F[k]) + 2
        /\ H = st[N + 1] + 2 - 1 /\ H \in Nat /\ H >= 2 * 2 + 1
        /\ Len(T) = H + Len(r.body) /\ Len(r.body) \in Nat
    BY Numbers
  <2>2. N + 1 \in 1..N + 1
    BY <2>1
  <2>3. st[N + 1] \in Nat
    BY <2>1, <2>2
  <2> HIDE DEF N, H, T
  <2>. QED  BY <2>1, <2>3
<1>2. /\ b \in Seq(Byte) /\ Len(b) = Len(T)
      /\ \A p \in 1..H : b[p] = IF \E k \in 1..N + 1 : p = st[k] - 2 THEN NUL ELSE T[p]
  BY TokenizedIs
<1>3. \A p \in 1..H : T[p] = LF <=> p = H \/ \E k \in 1..N + 1 : p = st[k] - 1
  BY HeadBytes
<1>4. \A k \in 1..N + 1 : st[k] + 1 <= H
  <2>1. ASSUME NEW k \in 1..N + 1 PROVE st[k] + 1 <= H
    <3>1. st[k] + 2 - 1 <= H /\ st[k] \in Nat
      BY <1>1, LinesFull
    <3>. QED  BY <3>1
  <2>. QED  BY <2>1
<1>5. \A k \in 1..N : \A x \in 1..Len(F[k]) : T[st[k] + x - 1] = F[k][x] /\ F[k][x] \notin {CR, LF, NUL}
  <2>1. \A k \in 1..N : \A x \in 1..Len(F[k]) : T[st[k] + x - 1] = F[k][x]
    BY DEF Layout
  <2>2. \A k \in 1..N : \A x \in 1..Len(F[k]) : F[k][x] \notin {CR, LF, NUL}
    BY RequestIs
  <2>. QED  BY <2>1, <2>2
<1>6. \A k \in 1..N : Len(F[k]) > 2
  BY DEF AllLong
<1> HIDE DEF b, N, H, T, F
<1>7. DOMAIN b = 1..Len(T)
  BY <1>2
<1>8. \A p \in 1..H : b[p] = LF => T[p] = LF
  BY <1>2 DEF NUL, LF
(* The first three bytes of a line are no line feeds, and what follows them is the
   next one of the line or the NUL. *)
<1>9. ASSUME NEW k \in 1..N, NEW j \in st[k]..st[k] + 3 PROVE b[j] # LF /\ j \in 1..H
  <2> DEFINE a == st[k]
             l == Len(F[k])
             e == st[k + 1]
  <2>1. k \in 1..N + 1 /\ k + 1 \in 1..N + 1
    BY <1>1
  <2>2. a \in Nat /\ a >= 4 /\ l \in Nat /\ l > 2 /\ e = a + l + 2 /\ e + 1 <= H /\ j \in a..a + 3
    BY <1>1, <1>4, <1>6, <2>1
  <2> HIDE DEF a, l, e
  <2>3. j \in 1..H /\ (j = e - 2 \/ (j - a + 1 \in 1..l /\ a + (j - a + 1) - 1 = j))
    <3>1. H \in Nat
      BY <1>1
    <3>2. j \in Nat /\ j <= a + 3 /\ a <= j
      BY <2>2
    <3>3. j <= a + l - 1 \/ j = a + l
      BY <2>2, <3>2
    <3>. QED  BY <2>2, <3>1, <3>2, <3>3
  <2>4. CASE j = e - 2
    <3>1. b[j] = NUL
      BY <1>2, <2>1, <2>3, <2>4 DEF e
    <3>. QED  BY <2>3, <3>1 DEF NUL, LF
  <2>5. CASE j - a + 1 \in 1..l /\ a + (j - a + 1) - 1 = j
    <3> DEFINE x == j - a + 1
    <3>1. x \in 1..l /\ a + x - 1 = j
      BY <2>5
    <3> HIDE DEF x
    <3>2. T[j] # LF
      BY <1>5, <3>1 DEF a, l
    <3>. QED  BY <1>8, <2>3, <3>2
  <2>. QED  BY <2>3, <2>4, <2>5
(* The line feed before the blank line is near the one at its end. *)
<1>10. /\ b[H - 2] = LF /\ b[H - 1] # LF /\ b[H] = LF
       /\ H - 2 \in 1..Len(T) /\ H - 1 \in 1..Len(T) /\ H \in 1..Len(T)
  <2>1. H - 2 \in 1..H /\ H - 1 \in 1..H /\ H \in 1..H /\ N + 1 \in 1..N + 1 /\ st[N + 1] - 1 = H - 2
        /\ H - 2 \in 1..Len(T) /\ H - 1 \in 1..Len(T) /\ H \in 1..Len(T)
    <3>1. N + 1 \in 1..N + 1
      BY <1>1
    <3> DEFINE a == st[N + 1]
               m == Len(r.body)
    <3>2. a \in Nat /\ m \in Nat /\ H = a + 1 /\ H \in Nat /\ H >= 5 /\ Len(T) = H + m
      BY <1>1, <3>1
    <3> HIDE DEF a, m
    <3>3. /\ H - 2 \in 1..H /\ H - 1 \in 1..H /\ H \in 1..H /\ a - 1 = H - 2
          /\ H - 2 \in 1..H + m /\ H - 1 \in 1..H + m /\ H \in 1..H + m
      BY <3>2
    <3>. QED  BY <3>1, <3>2, <3>3 DEF a
  <2>2. ASSUME NEW k \in 1..N + 1
        PROVE  ~(H - 2 = st[k] - 2) /\ ~(H = st[k] - 2) /\ ~(H - 1 = st[k] - 1)
    <3>1. st[k] \in Nat /\ st[k] + 1 <= H /\ H \in Nat
      BY <1>1, <1>4
    <3>. QED  BY <3>1
  <2>3. T[H - 2] = LF /\ T[H] = LF /\ T[H - 1] # LF
    <3>1. H - 1 # H
      BY <1>1
    <3>. QED  BY <1>3, <2>1, <2>2, <3>1
  <2>. QED  BY <1>2, <1>8, <2>1, <2>2, <2>3
<1>11. after(H - 2) # {} /\ First(after(H - 2)) = H
  <2>0. H \in Nat
    BY <1>1
  <2>1. H \in after(H - 2)
    <3>1. H \in H - 2 + 1..H - 2 + 4
      BY <2>0
    <3>. QED  BY <1>7, <1>10, <3>1
  <2>2. \A j \in after(H - 2) : H <= j
    <3>1. \A j \in H - 2 + 1..H - 2 + 4 : j = H - 1 \/ H <= j
      BY <2>0
    <3>. QED  BY <1>10, <3>1
  <2>3. after(H - 2) \in SUBSET Int
    OBVIOUS
  <2> HIDE DEF after
  <2>. QED  BY <2>1, <2>2, <2>3, FirstIs
<1>12. H - 2 \in near
  BY <1>7, <1>10, <1>11
<1>13. \A i \in near : H - 2 <= i
  <2> SUFFICES ASSUME NEW i \in near, i < H - 2 PROVE FALSE
    <3>1. \A i \in near : i \in Int
      BY <1>7
    <3> HIDE DEF near
    <3>. QED  BY <1>1, <3>1
  <2>1. i \in 1..H /\ i # H /\ b[i] = LF /\ i \in Nat
    <3>1. i \in 1..Len(T) /\ b[i] = LF
      BY <1>7
    <3>2. H \in Nat
      BY <1>1
    <3> HIDE DEF near, after
    <3>. QED  BY <3>1, <3>2
  <2>2. PICK k \in 1..N + 1 : i = st[k] - 1
    BY <1>3, <1>8, <2>1
  <2>3. k \in 1..N /\ i + 1 = st[k]
    <3>1. k # N + 1
      <4>1. N + 1 \in 1..N + 1
        BY <1>1
      <4>2. st[N + 1] \in Nat
        BY <1>1, <4>1
      <4>3. H = st[N + 1] + 1
        BY <1>1
      <4>4. H \in Nat
        BY <1>1
      <4> HIDE DEF near, after
      <4>. QED  BY <2>2, <4>2, <4>3, <4>4
    <3>2. st[k] \in Nat
      BY <1>1
    <3>. QED  BY <1>1, <2>2, <3>1, <3>2
  <2>4. PICK j \in i + 1..i + 4 : b[j] = LF
    OBVIOUS
  <2>5. j \in st[k]..st[k] + 3
    BY <2>1, <2>3
  <2>. QED  BY <1>9, <2>3, <2>4, <2>5
<1>14. First(near) = H - 2 /\ near # {}
  <2>1. near \in SUBSET Int
    BY <1>7
  <2> HIDE DEF near
  <2>. QED  BY <1>12, <1>13, <2>1, FirstIs
<1>15. PluginHeaderEnd(b) = IF near = {} THEN 0 ELSE First(after(First(near)))
  BY DEF PluginHeaderEnd
<1> HIDE DEF near, after
<1>. QED  BY <1>11, <1>14, <1>15 DEF b, T, H

(* The loop over the lines. *)
LineEnd(b, p) == First({i \in p..Len(b) : b[i] = LF} \cup {Len(b) + 1})
LineOf(b, p) == Trimmed(SubSeq(b, p, LineEnd(b, p) - 1))

LEMMA LineEndIs ==
  ASSUME NEW b \in Seq(Byte), NEW p \in Nat, NEW e \in p..Len(b),
         b[e] = LF, \A i \in p..e - 1 : b[i] # LF
  PROVE  LineEnd(b, p) = e
<1> DEFINE S == {i \in p..Len(b) : b[i] = LF} \cup {Len(b) + 1}
<1>1. Len(b) \in Nat
  OBVIOUS
<1>2. e \in S /\ S \in SUBSET Int
  BY <1>1
<1>3. \A i \in S : e <= i
  BY <1>1
<1> HIDE DEF S
<1>4. First(S) = e
  BY <1>2, <1>3, FirstIs
<1>. QED  BY <1>4 DEF LineEnd, S

LEMMA TrimmedIs ==
  ASSUME NEW s \in Seq(Byte), NEW t \in Seq(Byte), Len(t) = Len(s) + 1,
         \A x \in 1..Len(s) : t[x] = s[x], t[Len(t)] \in {CR, NUL}
  PROVE  Trimmed(t) = s
<1>1. Len(s) \in Nat /\ t # <<>>
  OBVIOUS
<1>2. Trimmed(t) = SubSeq(t, 1, Len(t) - 1)
  BY <1>1 DEF Trimmed, Last, Front
<1>3. Len(t) - 1 = Len(s) /\ 1 \in 1..Len(t) + 1 /\ Len(s) \in 1 - 1..Len(t)
      /\ Len(s) + 1 - 1 = Len(s) /\ \A x \in 1..Len(s) : 1 + x - 1 = x
  BY <1>1
<1>4. /\ SubSeq(t, 1, Len(s)) \in Seq(Byte) /\ Len(SubSeq(t, 1, Len(s))) = Len(s) + 1 - 1
      /\ \A x \in 1..Len(s) + 1 - 1 : SubSeq(t, 1, Len(s))[x] = t[1 + x - 1]
  BY <1>3, SubSeqIs
<1> DEFINE u == SubSeq(t, 1, Len(s))
<1>5. u \in Seq(Byte) /\ Len(u) = Len(s) /\ \A x \in 1..Len(u) : u[x] = s[x]
  BY <1>3, <1>4
<1> HIDE DEF u
<1>6. u = s
  BY <1>5, SameSeq
<1>. QED  BY <1>2, <1>3, <1>6 DEF u

(* A field of the client's is a line of the loop's, and behind the last of them comes
   an empty one. *)
LEMMA LinesRead ==
  ASSUME NEW r \in Requests, r.eol = "crlf", NEW st, Layout(st, r)
  PROVE  LET b == Tokenized(Text(r))
             N == Len(Fields(r)) IN
         /\ LineEnd(b, 1) = st[1] - 1
         /\ \A k \in 1..N : LineEnd(b, st[k]) = st[k + 1] - 1 /\ LineOf(b, st[k]) = Fields(r)[k]
         /\ LineEnd(b, st[N + 1]) = HeadLen(st, r) /\ LineOf(b, st[N + 1]) = <<>>
<1> DEFINE N == Len(Fields(r))
           H == HeadLen(st, r)
           T == Text(r)
           F == Fields(r)
           b == Tokenized(T)
<1>1. /\ N \in Nat /\ Len(Eol(r)) = 2 /\ st[1] = 4
      /\ \A k \in 1..N + 1 : st[k] \in Nat /\ st[k] >= 4
      /\ \A k \in 1..N : Len(F[k]) \in Nat \ {0} /\ st[k + 1] = st[k] + Len(F[k]) + 2
      /\ H = st[N + 1] + 1 /\ H \in Nat /\ H >= 5
      /\ Len(T) = H + Len(r.body) /\ Len(r.body) \in Nat
  <2>1. /\ N \in Nat /\ Len(Eol(r)) = 2 /\ st[1] = 2 + 2
        /\ \A k \in 1..N + 1 : st[k] \in Nat /\ st[k] >= 2 + 2
        /\ \A k \in 1..N : Len(F[k]) \in Nat \ {0} /\ st[k + 1] = st[k] + Len(F[k]) + 2
        /\ H = st[N + 1] + 2 - 1 /\ H \in Nat /\ H >= 2 * 2 + 1
        /\ Len(T) = H + Len(r.body) /\ Len(r.body) \in Nat
    BY Numbers
  <2>2. N + 1 \in 1..N + 1
    BY <2>1
  <2>3. st[N + 1] \in Nat
    BY <2>1, <2>2
  <2> HIDE DEF N, H, T
  <2>. QED  BY <2>1, <2>3
<1>2. /\ b \in Seq(Byte) /\ Len(b) = Len(T)
      /\ \A p \in 1..H : b[p] = IF \E k \in 1..N + 1 : p = st[k] - 2 THEN NUL ELSE T[p]
  BY TokenizedIs
<1>3. \A p \in 1..H : /\ T[p] = LF <=> p = H \/ \E k \in 1..N + 1 : p = st[k] - 1
                      /\ p # H => (T[p] = CR <=> T[p + 1] = LF)
  BY HeadBytes
<1>4. \A k \in 1..N + 1 : st[k] \in Nat /\ st[k] >= 4 /\ st[k] + 1 <= H
  <2>1. ASSUME NEW k \in 1..N + 1 PROVE st[k] + 1 <= H
    <3>1. st[k] + 2 - 1 <= H /\ st[k] \in Nat
      BY <1>1, LinesFull
    <3>. QED  BY <3>1
  <2>. QED  BY <1>1, <2>1
<1>5. /\ \A k \in 1..N : \A x \in 1..Len(F[k]) : T[st[k] + x - 1] = F[k][x] /\ F[k][x] \notin {CR, LF, NUL}
      /\ \A k \in 1..N : F[k] \in Seq(Byte)
      /\ T[1] = "G"
  <2>1. \A k \in 1..N : \A x \in 1..Len(F[k]) : T[st[k] + x - 1] = F[k][x]
    BY DEF Layout
  <2>2. /\ \A k \in 1..N : \A x \in 1..Len(F[k]) : F[k][x] \notin {CR, LF, NUL}
        /\ \A k \in 1..N : F[k] \in Seq(Byte)
    BY RequestIs
  <2>3. T[1] = "G"
    BY DEF Layout
  <2>. QED  BY <2>1, <2>2, <2>3
<1> HIDE DEF b, N, H, T, F
<1>6. \A p \in 1..H : b[p] = LF <=> p = H \/ \E k \in 1..N + 1 : p = st[k] - 1
  <2>1. ASSUME NEW k \in 1..N + 1, NEW p \in 1..H, p = st[k] - 2 PROVE T[p] # LF
    <3>1. p + 1 = st[k] - 1 /\ p # H /\ p + 1 \in 1..H
      <4> DEFINE a == st[k]
      <4>1. a \in Nat /\ a >= 4 /\ a + 1 <= H /\ H \in Nat /\ p = a - 2
        BY <1>1, <1>4, <2>1
      <4> HIDE DEF a
      <4>2. p + 1 = a - 1 /\ p # H /\ p + 1 \in 1..H
        BY <4>1
      <4>. QED  BY <4>2 DEF a
    <3>2. T[p] = CR
      BY <1>3, <3>1
    <3>. QED  BY <3>2 DEF CR, LF
  <2>. QED  BY <1>2, <1>3, <2>1 DEF NUL, LF
<1>7. H <= Len(b) /\ Len(b) \in Nat
  BY <1>1, <1>2
(* The request line. *)
<1>8. LineEnd(b, 1) = st[1] - 1
  <2>1. 1 \in 1..N + 1 /\ st[1] - 1 = 3 /\ 3 \in 1..H /\ 1 \in 1..H /\ 2 \in 1..H /\ 3 \in 1..Len(b)
    BY <1>1, <1>7
  <2>2. b[3] = LF
    BY <1>6, <2>1
  <2>3. b[1] # LF /\ b[2] # LF
    <3>1. 1 # H /\ 2 # H
      <4>1. H \in Nat /\ H >= 5
        BY <1>1
      <4>. QED  BY <4>1
    <3>2. ASSUME NEW k \in 1..N + 1 PROVE 1 # st[k] - 1 /\ 2 # st[k] - 1
      <4>1. st[k] \in Nat /\ st[k] >= 4
        BY <1>4
      <4>. QED  BY <4>1
    <3>. QED  BY <1>6, <2>1, <3>1, <3>2
  <2>4. \A i \in 1..3 - 1 : i = 1 \/ i = 2
    OBVIOUS
  <2>5. \A i \in 1..3 - 1 : b[i] # LF
    BY <2>3, <2>4
  <2>. QED  BY <1>2, <2>1, <2>2, <2>5, LineEndIs
(* A field. *)
<1>9. ASSUME NEW k \in 1..N
      PROVE  LineEnd(b, st[k]) = st[k + 1] - 1 /\ LineOf(b, st[k]) = F[k]
  <2> DEFINE a == st[k]
             l == Len(F[k])
             e == st[k + 1] - 1
             line == SubSeq(b, a, e - 1)
  <2>1. k \in 1..N + 1 /\ k + 1 \in 1..N + 1
    BY <1>1
  <2>2. a \in Nat /\ a >= 4 /\ l \in Nat \ {0} /\ e = a + l + 1 /\ e + 2 <= H /\ H \in Nat /\ e = st[k + 1] - 1
        /\ e - 1 = st[k + 1] - 2
    <3> DEFINE c == st[k + 1]
    <3>1. a \in Nat /\ a >= 4 /\ l \in Nat \ {0} /\ c = a + l + 2 /\ c + 1 <= H /\ H \in Nat /\ c \in Nat
      BY <1>1, <1>4, <2>1
    <3> HIDE DEF a, l, c
    <3>2. c - 1 = a + l + 1 /\ c - 1 + 2 <= H /\ c - 1 - 1 = c - 2
      BY <3>1
    <3>. QED  BY <3>1, <3>2 DEF c
  <2> HIDE DEF a, l, e, line
  <2>3. a \in 1..Len(b) + 1 /\ e - 1 \in a - 1..Len(b) /\ e \in a..Len(b) /\ e \in 1..H /\ e - 1 \in 1..H
        /\ e - 1 + 1 - a = l + 1
    BY <1>7, <2>2
  <2>4. ASSUME NEW x \in 1..l PROVE b[a + x - 1] = F[k][x] /\ b[a + x - 1] # LF
    <3>1. a + x - 1 \in 1..H
      BY <2>2
    <3>2. T[a + x - 1] = F[k][x] /\ F[k][x] \notin {CR, LF, NUL}
      BY <1>5 DEF a, l
    <3>3. ASSUME NEW j \in 1..N + 1, a + x - 1 = st[j] - 2 PROVE FALSE
      <4>1. st[j] \in Nat /\ st[j] - 1 \in 1..H /\ a + x - 1 # H /\ (a + x - 1) + 1 = st[j] - 1
        <5> DEFINE d == st[j]
        <5>1. d \in Nat /\ d >= 4 /\ d + 1 <= H /\ a + x - 1 = d - 2
          BY <1>4, <3>3
        <5> HIDE DEF d
        <5>2. d - 1 \in 1..H /\ a + x - 1 # H /\ (a + x - 1) + 1 = d - 1
          BY <2>2, <5>1
        <5>. QED  BY <5>1, <5>2 DEF d
      <4>2. T[(a + x - 1) + 1] = LF
        BY <1>3, <4>1
      <4>3. T[a + x - 1] = CR
        BY <1>3, <3>1, <4>1, <4>2
      <4>. QED  BY <3>2, <4>3
    <3>4. b[a + x - 1] = T[a + x - 1]
      BY <1>2, <3>1, <3>3
    <3>. QED  BY <3>2, <3>4
  <2>5. b[e] = LF /\ b[e - 1] = NUL
    <3>1. b[e] = LF
      BY <1>6, <2>1, <2>2, <2>3
    <3>2. b[e - 1] = NUL
      BY <1>2, <2>1, <2>2, <2>3
    <3>. QED  BY <3>1, <3>2
  <2>6. ASSUME NEW i \in a..e - 1 PROVE b[i] # LF
    <3>1. i = e - 1 \/ (i - a + 1 \in 1..l /\ a + (i - a + 1) - 1 = i)
      BY <2>2
    <3>2. CASE i - a + 1 \in 1..l /\ a + (i - a + 1) - 1 = i
      <4> DEFINE x == i - a + 1
      <4>1. x \in 1..l /\ a + x - 1 = i
        BY <3>2
      <4> HIDE DEF x
      <4>. QED  BY <2>4, <4>1
    <3>. QED  BY <2>5, <3>1, <3>2 DEF NUL, LF
  <2>7. LineEnd(b, a) = e
    BY <1>2, <2>2, <2>3, <2>5, <2>6, LineEndIs
  <2>8. /\ line \in Seq(Byte) /\ Len(line) = l + 1
        /\ \A x \in 1..l + 1 : line[x] = b[a + x - 1]
    <3>1. /\ line \in Seq(Byte) /\ Len(line) = e - 1 + 1 - a
          /\ \A x \in 1..e - 1 + 1 - a : line[x] = b[a + x - 1]
      BY <1>2, <2>3, SubSeqIs DEF line
    <3>. QED  BY <2>3, <3>1
  <2>9. (\A x \in 1..l : line[x] = F[k][x]) /\ line[l + 1] = NUL
    <3>1. l + 1 \in 1..l + 1 /\ a + (l + 1) - 1 = e - 1 /\ \A x \in 1..l : x \in 1..l + 1
      BY <2>2
    <3>2. line[l + 1] = b[a + (l + 1) - 1]
      BY <2>8, <3>1
    <3>. QED  BY <2>4, <2>5, <2>8, <3>1, <3>2
  <2>10. Trimmed(line) = F[k]
    <3>1. F[k] \in Seq(Byte)
      BY <1>5
    <3>. QED  BY <2>8, <2>9, <3>1, TrimmedIs DEF l
  <2>. QED  BY <2>7, <2>10 DEF LineOf, line, a, e
(* The blank line. *)
<1>10. LineEnd(b, st[N + 1]) = H /\ LineOf(b, st[N + 1]) = <<>>
  <2> DEFINE a == st[N + 1]
             line == SubSeq(b, a, H - 1)
  <2>1. N + 1 \in 1..N + 1
    BY <1>1
  <2>2. a \in Nat /\ a >= 4 /\ H = a + 1 /\ H \in Nat
    BY <1>1, <2>1
  <2> HIDE DEF a, line
  <2>3. a \in 1..Len(b) + 1 /\ H - 1 \in a - 1..Len(b) /\ H \in a..Len(b) /\ H \in 1..H /\ a \in 1..H
        /\ H - 1 + 1 - a = 1 /\ a # H /\ a + 1 = H
    BY <1>7, <2>2
  <2>4. ASSUME NEW j \in 1..N + 1 PROVE a # st[j] - 1 /\ a # st[j] - 2
    <3>1. st[j] \in Nat /\ st[j] + 1 <= H
      BY <1>4
    <3>. QED  BY <2>2, <3>1
  <2>5. b[H] = LF /\ b[a] # LF /\ b[a] = CR
    <3>1. b[H] = LF /\ b[a] # LF
      BY <1>6, <2>3, <2>4
    <3>2. T[H] = LF
      BY <1>3, <2>3
    <3>3. T[a] = CR
      BY <1>3, <2>3, <3>2
    <3>. QED  BY <1>2, <2>3, <2>4, <3>1, <3>3
  <2>6. \A i \in a..H - 1 : b[i] # LF
    <3>1. \A i \in a..H - 1 : i = a
      BY <2>2
    <3>. QED  BY <2>5, <3>1
  <2>7. LineEnd(b, a) = H
    BY <1>2, <2>2, <2>3, <2>5, <2>6, LineEndIs
  <2>8. line \in Seq(Byte) /\ Len(line) = 1 /\ line[1] = CR
    <3>1. /\ line \in Seq(Byte) /\ Len(line) = H - 1 + 1 - a
          /\ \A x \in 1..H - 1 + 1 - a : line[x] = b[a + x - 1]
      BY <1>2, <2>3, SubSeqIs DEF line
    <3>2. 1 \in 1..1 /\ a + 1 - 1 = a
      BY <2>2
    <3>. QED  BY <2>3, <2>5, <3>1, <3>2
  <2>9. Trimmed(line) = <<>>
    <3>1. <<>> \in Seq(Byte) /\ Len(<<>>) = 0
      OBVIOUS
    <3>2. Len(line) = Len(<<>>) + 1 /\ (\A x \in 1..Len(<<>>) : line[x] = <<>>[x]) /\ line[Len(line)] \in {CR, NUL}
      BY <2>8, <3>1
    <3>. QED  BY <2>8, <3>1, <3>2, TrimmedIs
  <2>. QED  BY <2>7, <2>9 DEF LineOf, line, a
<1>. QED  BY <1>8, <1>9, <1>10 DEF b, T, N, H, F

-----------------------------------------------------------------------------
(* The headers of a request, and the table. *)

LEMMA FirstIn ==
  ASSUME NEW S \in SUBSET Nat, S # {}
  PROVE  First(S) \in S
<1>1. PICK n \in S : \A m \in S : n <= m
  BY LeastNat
<1>2. S \in SUBSET Int
  OBVIOUS
<1>. QED  BY <1>1, <1>2, FirstIs

(* The C strings of the two parts of a line without NUL are the parts. *)
LEMMA PartsIs ==
  ASSUME NEW line \in Seq(Byte), \A x \in 1..Len(line) : line[x] # NUL,
         Colons(line) # {}, HeaderOf(line)[2] # <<>>
  PROVE  /\ ValuesOf(line) = {HeaderOf(line)[2]}
         /\ CString(SubSeq(line, 1, First(Colons(line)) - 1)) = HeaderOf(line)[1]
         /\ HeaderOf(line) = <<HeaderOf(line)[1], HeaderOf(line)[2]>>
<1> DEFINE c == First(Colons(line))
           name == SubSeq(line, 1, c - 1)
           value == SubSeq(line, c + 1, Len(line))
<1>1. c \in 1..Len(line) /\ Len(line) \in Nat
  <2>1. DOMAIN line = 1..Len(line) /\ Len(line) \in Nat
    BY LenIs
  <2>2. Colons(line) \in SUBSET Nat /\ Colons(line) \subseteq 1..Len(line)
    BY <2>1 DEF Colons
  <2>. QED  BY <2>1, <2>2, FirstIn
<1>2. HeaderOf(line) = <<name, value>>
  BY DEF HeaderOf
<1> HIDE DEF c
<1>3. /\ c - 1 \in 0..Len(line) /\ c \in 0..Len(line)
      /\ \A x \in 1..c - 1 : x \in 1..Len(line)
      /\ \A x \in 1..Len(line) - c : c + x \in 1..Len(line)
  BY <1>1
<1>4. name \in Seq(Byte) /\ Len(name) = c - 1 /\ \A x \in 1..c - 1 : name[x] = line[x]
  BY <1>3, HeadIs
<1>5. value \in Seq(Byte) /\ Len(value) = Len(line) - c /\ \A x \in 1..Len(line) - c : value[x] = line[c + x]
  BY <1>3, TailIs
<1> HIDE DEF name, value
<1>6. CString(name) = name
  BY <1>3, <1>4, NoNul
<1>7. CString(value) = value
  BY <1>3, <1>5, NoNul
<1>8. ValuesOf(line) = IF value = <<>> THEN {<<>>, Garbage} ELSE {CString(value)}
  BY DEF ValuesOf, value, c
<1>9. HeaderOf(line)[1] = name /\ HeaderOf(line)[2] = value /\ value # <<>>
  BY <1>2
<1>10. ValuesOf(line) = {value}
  BY <1>7, <1>8, <1>9
<1>11. CString(SubSeq(line, 1, First(Colons(line)) - 1)) = name
  BY <1>6 DEF name, c
<1>. QED  BY <1>2, <1>9, <1>10, <1>11

(* A rank is one more than that of the line before exactly when the line is named. *)
LEMMA RankIs ==
  ASSUME sent \in Requests
  PROVE  /\ Named \subseteq 1..Len(Fields(sent)) /\ Rank(0) = 0
         /\ \A n \in Nat : Rank(n) \in Nat
         /\ \A n \in Nat : Rank(n + 1) = IF n + 1 \in Named THEN Rank(n) + 1 ELSE Rank(n)
         /\ \A m, n \in Nat : m <= n => Rank(m) <= Rank(n)
<1>1. Named \subseteq 1..Len(Fields(sent))
  <2>1. Fields(sent) \in Seq(Seq(Byte))
    BY RequestIs
  <2>2. DOMAIN Fields(sent) = 1..Len(Fields(sent))
    BY <2>1
  <2>. QED  BY <2>2 DEF Named
<1>2. Rank(0) = 0
  <2>1. Named \cap 1..0 = {}
    OBVIOUS
  <2>. QED  BY <2>1, FS_EmptySet DEF Rank
<1>3. \A n \in Nat : IsFiniteSet(1..n) /\ IsFiniteSet(Named \cap 1..n)
  <2>1. ASSUME NEW n \in Nat PROVE IsFiniteSet(1..n) /\ IsFiniteSet(Named \cap 1..n)
    <3>1. IsFiniteSet(1..n)
      BY FS_Interval
    <3>. QED  BY <3>1, FS_Subset
  <2>. QED  BY <2>1
<1>4. \A n \in Nat : Rank(n) \in Nat
  BY <1>3, FS_CardinalityType DEF Rank
<1>5. ASSUME NEW n \in Nat
      PROVE  Rank(n + 1) = IF n + 1 \in Named THEN Rank(n) + 1 ELSE Rank(n)
  <2>1. 1..n + 1 = (1..n) \cup {n + 1} /\ n + 1 \notin 1..n
    OBVIOUS
  <2>2. CASE n + 1 \in Named
    <3>1. Named \cap 1..n + 1 = (Named \cap 1..n) \cup {n + 1} /\ n + 1 \notin Named \cap 1..n
      BY <2>1, <2>2
    <3>. QED  BY <1>3, <2>2, <3>1, FS_AddElement DEF Rank
  <2>3. CASE n + 1 \notin Named
    <3>1. Named \cap 1..n + 1 = Named \cap 1..n
      BY <2>1, <2>3
    <3>. QED  BY <2>3, <3>1 DEF Rank
  <2>. QED  BY <2>2, <2>3
<1>6. ASSUME NEW m \in Nat, NEW n \in Nat, m <= n PROVE Rank(m) <= Rank(n)
  <2>1. Named \cap 1..m \in SUBSET (Named \cap 1..n)
    BY <1>6
  <2>. QED  BY <1>3, <2>1, FS_Subset DEF Rank
<1>. QED  BY <1>1, <1>2, <1>4, <1>5, <1>6

IsSequence(s) == \E S : s \in Seq(S)

LEMMA AppendIs ==
  ASSUME NEW s, IsSequence(s), NEW x
  PROVE  LET t == Append(s, x) IN
         /\ Len(s) \in Nat /\ DOMAIN s = 1..Len(s)
         /\ IsSequence(t) /\ Len(t) = Len(s) + 1 /\ DOMAIN t = 1..Len(s) + 1
         /\ t[Len(s) + 1] = x /\ \A i \in 1..Len(s) : t[i] = s[i]
<1>1. PICK S : s \in Seq(S)
  BY DEF IsSequence
<1> DEFINE R == S \cup {x}
<1>2. s \in Seq(R) /\ x \in R
  BY <1>1
<1> HIDE DEF R
<1>3. Append(s, x) \in Seq(R)
  BY <1>2
<1>4. /\ Len(Append(s, x)) = Len(s) + 1 /\ Append(s, x)[Len(s) + 1] = x
      /\ \A i \in 1..Len(s) : Append(s, x)[i] = s[i]
  BY <1>2
<1>5. Len(s) \in Nat /\ DOMAIN s = 1..Len(s) /\ DOMAIN Append(s, x) = 1..Len(Append(s, x))
  BY <1>2, <1>3
<1>. QED  BY <1>3, <1>4, <1>5 DEF IsSequence

(* What has arrived and what has not, when k more bytes arrive. *)
LEMMA MoreArrives ==
  ASSUME NEW T \in Seq(Byte), NEW n \in 0..Len(T), NEW k \in 1..Len(SubSeq(T, n + 1, Len(T)))
  PROVE  LET rest == SubSeq(T, n + 1, Len(T)) IN
         /\ n + k \in 0..Len(T)
         /\ SubSeq(T, 1, n) \o SubSeq(rest, 1, k) = SubSeq(T, 1, n + k)
         /\ SubSeq(rest, k + 1, Len(rest)) = SubSeq(T, n + k + 1, Len(T))
<1> DEFINE L == Len(T)
           rest == SubSeq(T, n + 1, L)
           a == SubSeq(T, 1, n)
           b == SubSeq(rest, 1, k)
           c == SubSeq(T, 1, n + k)
           d == SubSeq(rest, k + 1, Len(rest))
           e == SubSeq(T, n + k + 1, L)
<1>1. L \in Nat /\ n \in 0..L
  BY LenIs
<1>2. rest \in Seq(Byte) /\ Len(rest) = L - n /\ \A i \in 1..L - n : rest[i] = T[n + i]
  BY <1>1, TailIs
<1> HIDE DEF L, rest
<1>3. k \in 1..L - n
  BY <1>2 DEF L, rest
<1>4. a \in Seq(Byte) /\ Len(a) = n /\ \A i \in 1..n : a[i] = T[i]
  BY HeadIs
<1>5. b \in Seq(Byte) /\ Len(b) = k /\ \A i \in 1..k : b[i] = T[n + i]
  <2>1. k \in 0..Len(rest) /\ \A i \in 1..k : i \in 1..L - n
    BY <1>1, <1>2, <1>3
  <2>2. b \in Seq(Byte) /\ Len(b) = k /\ \A i \in 1..k : b[i] = rest[i]
    BY <1>2, <2>1, HeadIs
  <2>. QED  BY <1>2, <2>1, <2>2
<1>6. c \in Seq(Byte) /\ Len(c) = n + k /\ \A i \in 1..n + k : c[i] = T[i]
  <2> DEFINE m == n + k
  <2>1. m \in 0..L
    BY <1>1, <1>3
  <2> HIDE DEF m
  <2>2. SubSeq(T, 1, m) \in Seq(Byte) /\ Len(SubSeq(T, 1, m)) = m /\ \A i \in 1..m : SubSeq(T, 1, m)[i] = T[i]
    BY <2>1, HeadIs DEF L
  <2>. QED  BY <2>2 DEF m
<1>7. d \in Seq(Byte) /\ Len(d) = L - n - k /\ \A i \in 1..L - n - k : d[i] = T[n + k + i]
  <2>1. k \in 0..Len(rest) /\ Len(rest) - k = L - n - k
        /\ \A i \in 1..L - n - k : k + i \in 1..L - n /\ n + (k + i) = n + k + i
    BY <1>1, <1>2, <1>3
  <2>2. d \in Seq(Byte) /\ Len(d) = Len(rest) - k /\ \A i \in 1..Len(rest) - k : d[i] = rest[k + i]
    BY <1>2, <2>1, TailIs
  <2> HIDE DEF d
  <2>3. ASSUME NEW i \in 1..L - n - k PROVE d[i] = T[n + k + i]
    <3>1. d[i] = rest[k + i]
      BY <2>1, <2>2
    <3>2. rest[k + i] = T[n + (k + i)]
      BY <1>2, <2>1
    <3>. QED  BY <2>1, <3>1, <3>2
  <2>. QED  BY <2>1, <2>2, <2>3
<1>8. e \in Seq(Byte) /\ Len(e) = L - n - k /\ \A i \in 1..L - n - k : e[i] = T[n + k + i]
  <2> DEFINE m == n + k
  <2>1. m \in 0..L /\ L - m = L - n - k
    BY <1>1, <1>3
  <2> HIDE DEF m
  <2>2. /\ SubSeq(T, m + 1, L) \in Seq(Byte) /\ Len(SubSeq(T, m + 1, L)) = L - m
        /\ \A i \in 1..L - m : SubSeq(T, m + 1, L)[i] = T[m + i]
    BY <2>1, TailIs DEF L
  <2>. QED  BY <2>1, <2>2 DEF m
<1>9. d = e
  BY <1>7, <1>8, SameSeq
<1>10. a \o b = c
  <2> DEFINE ab == a \o b
  <2>1. /\ ab \in Seq(Byte) /\ Len(ab) = Len(a) + Len(b)
        /\ \A p \in 1..Len(a) : ab[p] = a[p]
        /\ \A p \in 1..Len(b) : ab[Len(a) + p] = b[p]
    BY <1>4, <1>5, Joined
  <2> HIDE DEF ab, a, b, c
  <2>2. ASSUME NEW p \in 1..n + k PROVE ab[p] = c[p]
    <3>1. p \in 1..n \/ (p - n \in 1..k /\ n + (p - n) = p)
      BY <1>1, <1>3
    <3>2. CASE p \in 1..n
      BY <1>4, <1>6, <2>1, <3>2
    <3>3. CASE p - n \in 1..k /\ n + (p - n) = p
      <4> DEFINE i == p - n
      <4>1. i \in 1..k /\ n + i = p
        BY <3>3
      <4> HIDE DEF i
      <4>2. ab[n + i] = b[i] /\ c[n + i] = T[n + i]
        BY <1>4, <1>5, <1>6, <2>1, <4>1
      <4>. QED  BY <1>5, <4>1, <4>2
    <3>. QED  BY <3>1, <3>2, <3>3
  <2>3. ab = c
    BY <1>4, <1>5, <1>6, <2>1, <2>2, SameSeq
  <2>. QED  BY <2>3 DEF ab
<1>11. n + k \in 0..L
  BY <1>1, <1>3
<1>. QED  BY <1>9, <1>10, <1>11 DEF L, rest, a, b, c, d, e

-----------------------------------------------------------------------------
(* The invariant. *)

(* What has arrived is a beginning of the text, and the rest is still to come; only
   the whole of it is taken for complete. *)
ArrivalInv ==
  /\ sent \in Requests
  /\ phase \in {"receive", "parse", "upgraded", "headers", "body", "handler"}
  /\ \E n \in 0..Len(Text(sent)) :
       /\ stream = SubSeq(Text(sent), n + 1, Len(Text(sent)))
       /\ phase \in {"receive", "parse"} => buf = SubSeq(Text(sent), 1, n)
       /\ sent.eol = "crlf" \/ ~Has(sent.body, {CR}) => (phase = "receive" <=> n < Len(Text(sent)))

(* The plugin's reading is of the whole text, with strtok's marks in it. *)
ReadingInv ==
  phase \in {"headers", "body", "handler"} /\ sent.eol = "crlf" =>
    buf = Tokenized(Text(sent)) /\ hdr_end = PluginHeaderEnd(buf)

(* A table holds the headers of the first n lines. *)
Holds(table, n) ==
  \A m \in Named : m <= n => Rank(m) \in DOMAIN table /\ table[Rank(m)] = SentHeader(m)

(* A loop at byte p of line n stands on the request line, on a field or the blank
   line, or behind it. *)
AtLine(st, table, p, n) ==
  LET N == Len(Fields(sent)) IN
  \/ n = 0 /\ p = 1 /\ table = <<>>
  \/ n \in 1..N + 1 /\ p = st[n] /\ Len(table) = Rank(n - 1) /\ Holds(table, n - 1)
  \/ p = HeadLen(st, sent) + 1 /\ Holds(table, N)

TableInv ==
  sent.eol = "crlf" /\ LongLines /\ FullValues =>
    /\ IsSequence(headers)
    /\ phase \in {"receive", "parse"} => line_num = 0 /\ pos = 1 /\ headers = <<>>
    /\ phase = "headers" => \E st : Layout(st, sent) /\ AtLine(st, headers, pos, line_num)
    /\ phase \in {"body", "handler"} =>
         \A m \in Named : Rank(m) <= MaxHeaders =>
           Rank(m) \in DOMAIN headers /\ headers[Rank(m)] = SentHeader(m)

TextInv == ArrivalInv /\ ReadingInv /\ TableInv /\ BodyDelivered

(* The line that a client with a body adds is as long as the others have to be. *)
LEMMA LongIs ==
  ASSUME sent \in Requests, LongLines
  PROVE  AllLong(sent)
<1>1. PICK m \in 0..MaxLines : sent.lines \in [1..m -> Lines]
  BY DEF Requests
<1> DEFINE l == sent.lines
           tail == IF sent.body = <<>> THEN <<>> ELSE <<LengthLine>>
<1>2. l \in Seq(Lines) /\ DOMAIN l = 1..Len(l) /\ Len(l) \in Nat
  BY <1>1, TextAssumption DEF TextAssumption
<1>3. \A i \in 1..Len(l) : Len(l[i]) > 2
  BY <1>2 DEF LongLines
<1>4. Len(LengthLine) = 3
  BY DEF LengthLine
<1>5. tail \in Seq({LengthLine})
  <2>1. <<LengthLine>> \in Seq({LengthLine}) /\ <<>> \in Seq({LengthLine})
    OBVIOUS
  <2>2. tail = <<>> \/ tail = <<LengthLine>>
    OBVIOUS
  <2> HIDE DEF tail
  <2>. QED  BY <2>1, <2>2
<1>6. \A i \in 1..Len(tail) : tail[i] = LengthLine
  BY <1>5
<1>7. Fields(sent) = l \o tail
  BY DEF Fields
<1> HIDE DEF l, tail
<1> DEFINE R == Lines \cup {LengthLine}
<1>8. l \in Seq(R) /\ tail \in Seq(R)
  BY <1>2, <1>5
<1> HIDE DEF R
<1> DEFINE f == l \o tail
<1>9. /\ Len(f) = Len(l) + Len(tail)
      /\ \A p \in 1..Len(l) : f[p] = l[p]
      /\ \A p \in 1..Len(tail) : f[Len(l) + p] = tail[p]
  BY <1>8, Joined
<1> HIDE DEF f
<1>10. ASSUME NEW k \in 1..Len(f) PROVE Len(f[k]) > 2
  <2>1. Len(tail) \in Nat
    BY <1>8
  <2>2. k \in 1..Len(l) \/ (k - Len(l) \in 1..Len(tail) /\ Len(l) + (k - Len(l)) = k)
    BY <1>2, <1>9, <2>1
  <2>3. CASE k \in 1..Len(l)
    BY <1>3, <1>9, <2>3
  <2>4. CASE k - Len(l) \in 1..Len(tail) /\ Len(l) + (k - Len(l)) = k
    <3> DEFINE p == k - Len(l)
    <3>1. p \in 1..Len(tail) /\ Len(l) + p = k
      BY <2>4
    <3> HIDE DEF p
    <3>2. f[Len(l) + p] = tail[p] /\ tail[p] = LengthLine
      BY <1>6, <1>9, <3>1
    <3>3. f[k] = LengthLine
      BY <3>1, <3>2
    <3>4. Len(f[k]) = 3
      BY <1>4, <3>3, Zenon
    <3>. QED  BY <3>4
  <2>. QED  BY <2>2, <2>3, <2>4
<1>. QED  BY <1>7, <1>10 DEF AllLong, f

LEMMA TextIs ==
  ASSUME NEW r \in Requests
  PROVE  Text(r) \in Seq(Byte) /\ Len(Text(r)) \in Nat /\ Len(Text(r)) > 0
<1>1. PICK st : Layout(st, r)
  BY LayoutExists
<1>2. Text(r) \in Seq(Byte)
  BY <1>1 DEF Layout
<1> DEFINE H == HeadLen(st, r)
           w == Len(Eol(r))
<1>3. H \in Nat /\ H >= 2 * w + 1 /\ w \in 1..2 /\ Len(Text(r)) = H + Len(r.body) /\ Len(r.body) \in Nat
  BY <1>1, Numbers
<1> HIDE DEF H, w
<1>. QED  BY <1>2, <1>3

LEMMA TextInit == Init => TextInv
<1> SUFFICES ASSUME Init PROVE TextInv
  OBVIOUS
<1> USE DEF Init
<1>1. Text(sent) \in Seq(Byte) /\ Len(Text(sent)) \in Nat /\ Len(Text(sent)) > 0
  BY TextIs
<1>2. ArrivalInv
  <2> DEFINE T == Text(sent)
  <2> HIDE DEF T
  <2>1. T \in Seq(Byte) /\ Len(T) \in Nat /\ Len(T) > 0
    BY <1>1 DEF T
  <2>2. SubSeq(T, 0 + 1, Len(T)) = T /\ SubSeq(T, 1, 0) = <<>> /\ 0 \in 0..Len(T)
    BY <2>1
  <2>3. stream = SubSeq(T, 0 + 1, Len(T)) /\ buf = SubSeq(T, 1, 0) /\ 0 < Len(T)
    BY <2>1, <2>2 DEF T
  <2>. QED  BY <2>2, <2>3 DEF ArrivalInv, T
<1>3. ReadingInv /\ BodyDelivered
  BY DEF ReadingInv, BodyDelivered
<1>4. TableInv
  <2>1. IsSequence(<<>>)
    <3>1. <<>> \in Seq({})
      OBVIOUS
    <3>. QED  BY <3>1 DEF IsSequence
  <2>. QED  BY <2>1 DEF TableInv
<1>. QED  BY <1>2, <1>3, <1>4 DEF TextInv

LEMMA TextArrive ==
  ASSUME TextInv, NEW k \in 1..Len(stream), Arrive(k)
  PROVE  TextInv'
<1> DEFINE T == Text(sent)
<1>1. sent \in Requests /\ sent' = sent /\ phase = "receive" /\ phase' \in {"receive", "parse"}
      /\ headers' = headers /\ pos' = pos /\ line_num' = line_num
  BY DEF TextInv, ArrivalInv, Arrive
<1>2. PICK n \in 0..Len(T) : stream = SubSeq(T, n + 1, Len(T)) /\ buf = SubSeq(T, 1, n)
  BY <1>1 DEF TextInv, ArrivalInv
<1>3. T \in Seq(Byte) /\ Len(T) \in Nat
  BY <1>1, TextIs
<1> DEFINE m == n + k
<1>4. /\ m \in 0..Len(T)
      /\ buf \o SubSeq(stream, 1, k) = SubSeq(T, 1, m)
      /\ SubSeq(stream, k + 1, Len(stream)) = SubSeq(T, m + 1, Len(T))
  <2> HIDE DEF T
  <2>. QED  BY <1>2, <1>3, MoreArrives
<1> HIDE DEF m
<1>5. /\ buf' = SubSeq(T, 1, m) /\ stream' = SubSeq(T, m + 1, Len(T))
      /\ phase' = IF Complete(SubSeq(T, 1, m)) THEN "parse" ELSE "receive"
  BY <1>4 DEF Arrive
<1>6. sent.eol = "crlf" \/ ~Has(sent.body, {CR}) => (phase' = "receive" <=> m < Len(T))
  <2> SUFFICES ASSUME sent.eol = "crlf" \/ ~Has(sent.body, {CR})
               PROVE  phase' = "receive" <=> m < Len(T)
    OBVIOUS
  <2>1. Complete(SubSeq(T, 1, m)) <=> m = Len(T)
    BY <1>1, <1>4, CompleteIs
  <2> HIDE DEF T
  <2>. QED  BY <1>3, <1>4, <1>5, <2>1
<1>7. ArrivalInv'
  <2>1. Text(sent)' = T /\ Has(sent.body, {CR})' = Has(sent.body, {CR})
    BY <1>1 DEF Has, CR
  <2> HIDE DEF T
  <2>2. \E j \in 0..Len(T) :
          /\ stream' = SubSeq(T, j + 1, Len(T))
          /\ phase' \in {"receive", "parse"} => buf' = SubSeq(T, 1, j)
          /\ sent.eol = "crlf" \/ ~Has(sent.body, {CR}) => (phase' = "receive" <=> j < Len(T))
    BY <1>4, <1>5, <1>6
  <2>. QED  BY <1>1, <2>1, <2>2 DEF ArrivalInv
<1>8. ReadingInv' /\ BodyDelivered'
  BY <1>1 DEF ReadingInv, BodyDelivered
<1>9. TableInv'
  <2>1. LongLines' = LongLines /\ FullValues' = FullValues
    BY <1>1 DEF LongLines, FullValues, Named, SentHeader
  <2>. QED  BY <1>1, <2>1 DEF TextInv, TableInv
<1>. QED  BY <1>7, <1>8, <1>9 DEF TextInv

LEMMA TextParse ==
  ASSUME TextInv, http1_parse_request
  PROVE  TextInv'
<1> DEFINE T == Text(sent)
<1>1. sent \in Requests /\ sent' = sent /\ phase = "parse" /\ phase' \in {"upgraded", "headers"}
      /\ headers' = headers /\ pos' = pos /\ line_num' = line_num /\ stream' = stream
      /\ buf' = Tokenized(buf) /\ hdr_end' = PluginHeaderEnd(buf')
  BY DEF TextInv, ArrivalInv, http1_parse_request
<1>2. PICK n \in 0..Len(T) :
        /\ stream = SubSeq(T, n + 1, Len(T)) /\ buf = SubSeq(T, 1, n)
        /\ sent.eol = "crlf" \/ ~Has(sent.body, {CR}) => n = Len(T)
  <2>1. PICK n \in 0..Len(T) :
          /\ stream = SubSeq(T, n + 1, Len(T)) /\ buf = SubSeq(T, 1, n)
          /\ sent.eol = "crlf" \/ ~Has(sent.body, {CR}) => (phase = "receive" <=> n < Len(T))
    BY <1>1 DEF TextInv, ArrivalInv
  <2>2. Len(T) \in Nat
    BY <1>1, TextIs
  <2> HIDE DEF T
  <2>. QED  BY <1>1, <2>1, <2>2
<1>3. T \in Seq(Byte) /\ Len(T) \in Nat
  BY <1>1, TextIs
<1>4. ArrivalInv'
  <2>1. Text(sent)' = T /\ Has(sent.body, {CR})' = Has(sent.body, {CR})
    BY <1>1 DEF Has, CR
  <2> HIDE DEF T
  <2>2. \E j \in 0..Len(T) :
          /\ stream' = SubSeq(T, j + 1, Len(T))
          /\ phase' \in {"receive", "parse"} => buf' = SubSeq(T, 1, j)
          /\ sent.eol = "crlf" \/ ~Has(sent.body, {CR}) => (phase' = "receive" <=> j < Len(T))
    BY <1>1, <1>2, <1>3
  <2>. QED  BY <1>1, <2>1, <2>2 DEF ArrivalInv
<1>5. ReadingInv'
  <2>1. ASSUME sent.eol = "crlf" PROVE buf' = Tokenized(T)
    <3> HIDE DEF T
    <3>1. SubSeq(T, 1, Len(T)) = T
      BY <1>3
    <3>. QED  BY <1>1, <1>2, <2>1, <3>1
  <2>2. (sent.eol = "crlf")' = (sent.eol = "crlf") /\ Tokenized(Text(sent))' = Tokenized(T)
        /\ PluginHeaderEnd(buf)' = PluginHeaderEnd(buf')
    BY <1>1
  <2>. QED  BY <1>1, <2>1, <2>2 DEF ReadingInv
<1>6. BodyDelivered'
  BY <1>1 DEF BodyDelivered
<1>7. TableInv'
  <2> SUFFICES ASSUME sent.eol = "crlf", LongLines, FullValues
               PROVE  IsSequence(headers)' /\ \E st : Layout(st, sent)' /\ AtLine(st, headers, pos, line_num)'
    <3>1. LongLines' = LongLines /\ FullValues' = FullValues
      BY <1>1 DEF LongLines, FullValues, Named, SentHeader
    <3>. QED  BY <1>1, <3>1 DEF TableInv
  <2>1. IsSequence(headers) /\ line_num = 0 /\ pos = 1 /\ headers = <<>>
    BY <1>1 DEF TextInv, TableInv
  <2>2. PICK st : Layout(st, sent)
    BY <1>1, LayoutExists
  <2>3. Layout(st, sent)'
    BY <1>1, <2>2
  <2>4. AtLine(st, headers, pos, line_num)'
    BY <1>1, <2>1 DEF AtLine
  <2>. QED  BY <1>1, <2>1, <2>3, <2>4 DEF IsSequence
<1>. QED  BY <1>4, <1>5, <1>6, <1>7 DEF TextInv

(* A table keeps what it held when an entry is added behind it. *)
LEMMA EntryAdded ==
  ASSUME sent \in Requests, NEW table, IsSequence(table), NEW x, NEW n \in Nat, Holds(table, n)
  PROVE  LET t == Append(table, x) IN
         /\ IsSequence(t) /\ Holds(t, n) /\ Len(t) = Len(table) + 1
         /\ Len(table) \in Nat /\ Len(table) + 1 \in DOMAIN t /\ t[Len(table) + 1] = x
<1> DEFINE t == Append(table, x)
<1>1. /\ Len(table) \in Nat /\ DOMAIN table = 1..Len(table)
      /\ IsSequence(t) /\ Len(t) = Len(table) + 1 /\ DOMAIN t = 1..Len(table) + 1
      /\ t[Len(table) + 1] = x /\ \A i \in 1..Len(table) : t[i] = table[i]
  BY AppendIs
<1> HIDE DEF t
<1>2. ASSUME NEW m \in Named, m <= n PROVE Rank(m) \in DOMAIN t /\ t[Rank(m)] = SentHeader(m)
  <2>1. Rank(m) \in DOMAIN table /\ table[Rank(m)] = SentHeader(m)
    BY <1>2 DEF Holds
  <2>. QED  BY <1>1, <2>1
<1>3. Holds(t, n)
  BY <1>2 DEF Holds
<1>4. Len(table) + 1 \in DOMAIN t
  BY <1>1
<1>. QED  BY <1>1, <1>3, <1>4 DEF t

LEMMA StillAtLine ==
  ASSUME sent' = sent, NEW st, AtLine(st, headers', pos', line_num')
  PROVE  AtLine(st, headers, pos, line_num)'
<1>1. Named' = Named /\ (\A m : Rank(m)' = Rank(m)) /\ \A m : SentHeader(m)' = SentHeader(m)
  BY DEF Named, Rank, SentHeader
<1>2. \A n : Holds(headers', n) => \A m \in Named' : m <= n => Rank(m)' \in DOMAIN headers' /\ headers'[Rank(m)'] = SentHeader(m)'
  BY <1>1 DEF Holds
<1>. QED  BY DEF AtLine, Holds, Named, Rank, SentHeader

(* What HeaderLine does with a line, in terms of LineOf and LineEnd. *)
LEMMA HeaderLineIs ==
  ASSUME HeaderLine
  PROVE  LET end == LineEnd(buf, pos)
             line == LineOf(buf, pos) IN
         /\ phase = "headers" /\ pos <= Len(buf) /\ Len(headers) < MaxHeaders
         /\ IF line_num > 0 /\ Colons(line) # {} /\ First(Colons(line)) > 1
              THEN \E value \in ValuesOf(line) :
                     headers' = Append(headers,
                       <<CString(SubSeq(line, 1, First(Colons(line)) - 1)), value>>)
              ELSE headers' = headers
         /\ IF hdr_end # 0 /\ pos >= hdr_end
              THEN phase' = "body" /\ pos' = pos /\ line_num' = line_num
              ELSE pos' = end + 1 /\ line_num' = line_num + 1 /\ phase' = phase
         /\ sent' = sent /\ stream' = stream /\ buf' = buf /\ hdr_end' = hdr_end
BY DEF HeaderLine, LineOf, LineEnd

(* From one line of the loop to the next one. *)
LEMMA LineRead ==
  ASSUME TextInv, HeaderLine, sent.eol = "crlf", LongLines, FullValues
  PROVE  /\ IsSequence(headers)'
         /\ \/ phase' = "headers" /\ \E st : Layout(st, sent) /\ AtLine(st, headers', pos', line_num')
            \/ phase' = "body" /\ Holds(headers', Len(Fields(sent)))
<1> DEFINE N == Len(Fields(sent))
           F == Fields(sent)
           end == LineEnd(buf, pos)
           line == LineOf(buf, pos)
<1>1. /\ phase = "headers" /\ Len(headers) < MaxHeaders /\ sent \in Requests
      /\ sent' = sent /\ buf' = buf /\ hdr_end' = hdr_end
  BY HeaderLineIs DEF TextInv, ArrivalInv
<1>2. buf = Tokenized(Text(sent)) /\ hdr_end = PluginHeaderEnd(buf)
  BY <1>1 DEF TextInv, ReadingInv
<1>3. IsSequence(headers) /\ \E st : Layout(st, sent) /\ AtLine(st, headers, pos, line_num)
  BY <1>1 DEF TextInv, TableInv
<1>4. PICK st : Layout(st, sent) /\ AtLine(st, headers, pos, line_num)
  BY <1>3
<1> DEFINE H == HeadLen(st, sent)
<1>5. hdr_end = H
  BY <1>1, <1>2, <1>4, LongIs, PluginHeaderEndIs
<1>6. /\ LineEnd(buf, 1) = st[1] - 1
      /\ \A k \in 1..N : LineEnd(buf, st[k]) = st[k + 1] - 1 /\ LineOf(buf, st[k]) = F[k]
      /\ LineEnd(buf, st[N + 1]) = H /\ LineOf(buf, st[N + 1]) = <<>>
  BY <1>1, <1>2, <1>4, LinesRead
<1>7. /\ N \in Nat /\ st[1] = 4
      /\ \A k \in 1..N + 1 : st[k] \in Nat /\ st[k] + 1 <= H
      /\ H = st[N + 1] + 1 /\ H \in Nat /\ H >= 5
  <2> DEFINE w == Len(Eol(sent))
  <2>1. /\ N \in Nat /\ w = 2 /\ st[1] = w + 2
        /\ \A k \in 1..N + 1 : st[k] \in Nat /\ st[k] + w - 1 <= H
        /\ H = st[N + 1] + w - 1 /\ H \in Nat /\ H >= 2 * w + 1
    BY <1>1, <1>4, Numbers, LinesFull
  <2> HIDE DEF w, N, H
  <2>2. N + 1 \in 1..N + 1
    BY <2>1
  <2>3. \A k \in 1..N + 1 : st[k] \in Nat /\ st[k] + 1 <= H
    <3>1. ASSUME NEW k \in 1..N + 1 PROVE st[k] \in Nat /\ st[k] + 1 <= H
      <4>1. st[k] \in Nat /\ st[k] + 2 - 1 <= H
        BY <2>1
      <4>. QED  BY <2>1, <4>1
    <3>. QED  BY <3>1
  <2>4. H = st[N + 1] + 1
    <3>1. st[N + 1] \in Nat /\ H = st[N + 1] + 2 - 1
      BY <2>1, <2>2
    <3>. QED  BY <3>1
  <2>. QED  BY <2>1, <2>3, <2>4
<1>8. /\ Named \subseteq 1..N /\ Rank(0) = 0
      /\ \A n \in Nat : Rank(n + 1) = IF n + 1 \in Named THEN Rank(n) + 1 ELSE Rank(n)
      /\ \A n \in Nat : Rank(n) \in Nat
  BY <1>1, RankIs
(* The request line is no header. *)
<1>11. CASE line_num = 0 /\ pos = 1 /\ headers = <<>>
  <2>1. ~(pos >= hdr_end) /\ end + 1 = 4 /\ line_num + 1 = 1
    <3> HIDE DEF N, H
    <3>1. end = 4 - 1
      BY <1>6, <1>7, <1>11
    <3>. QED  BY <1>5, <1>7, <1>11, <3>1
  <2>2. headers' = headers /\ pos' = 4 /\ line_num' = 1 /\ phase' = "headers"
    BY <1>11, <2>1, HeaderLineIs
  <2>3. 1 \in 1..N + 1 /\ Len(headers) = 0 /\ 1 - 1 = 0
    BY <1>7, <1>11
  <2>4. Holds(headers', 0)
    <3>1. \A m \in Named : ~(m <= 0)
      <4> HIDE DEF N
      <4>. QED  BY <1>7, <1>8
    <3>. QED  BY <3>1 DEF Holds
  <2>5. AtLine(st, headers', pos', line_num')
    <3> HIDE DEF N
    <3>1. line_num' \in 1..N + 1 /\ pos' = st[line_num'] /\ Len(headers') = Rank(line_num' - 1)
      BY <1>7, <1>8, <2>2, <2>3
    <3>2. Holds(headers', line_num' - 1)
      BY <2>2, <2>3, <2>4 DEF Holds
    <3>. QED  BY <3>1, <3>2 DEF AtLine, N
  <2>6. IsSequence(headers)'
    BY <1>3, <2>2 DEF IsSequence
  <2>. QED  BY <1>4, <2>2, <2>5, <2>6
(* A field is one when it has a name before a colon. *)
<1>12. CASE line_num \in 1..N /\ pos = st[line_num] /\ Len(headers) = Rank(line_num - 1) /\ Holds(headers, line_num - 1)
  <2> DEFINE k == line_num
  <2>1. k \in Nat /\ k > 0 /\ k \in 1..N /\ k + 1 \in 1..N + 1 /\ k \in 1..N + 1 /\ k - 1 \in Nat
        /\ (k - 1) + 1 = k /\ (k + 1) - 1 = k
    <3> HIDE DEF N
    <3>. QED  BY <1>7, <1>12
  <2>2. ~(pos >= hdr_end) /\ line = F[k] /\ end + 1 = st[k + 1]
    <3> HIDE DEF N, H, F
    <3> DEFINE a == st[k]
               e == st[k + 1]
    <3>1. a \in Nat /\ a + 1 <= H /\ e \in Nat /\ end = e - 1 /\ pos = a /\ H \in Nat /\ line = F[k]
      BY <1>6, <1>7, <1>12, <2>1
    <3> HIDE DEF a, e, end, line
    <3>2. ~(pos >= H) /\ end + 1 = e
      BY <3>1
    <3>. QED  BY <1>5, <3>1, <3>2 DEF e
  <2>3. phase' = "headers" /\ pos' = st[k + 1] /\ line_num' = k + 1
    BY <1>1, <2>2, HeaderLineIs
  <2>4. Rank(k) = IF k \in Named THEN Rank(k - 1) + 1 ELSE Rank(k - 1)
    <3> DEFINE j == k - 1
    <3>1. j \in Nat /\ j + 1 = k
      BY <2>1
    <3> HIDE DEF j
    <3>2. Rank(j + 1) = IF j + 1 \in Named THEN Rank(j) + 1 ELSE Rank(j)
      BY <1>8, <3>1
    <3>. QED  BY <3>1, <3>2 DEF j
  <2>5. \A m \in Named : m <= k => m = k \/ m <= k - 1
    <3> HIDE DEF N
    <3>1. \A m \in Named : m \in Nat
      BY <1>7, <1>8
    <3>. QED  BY <2>1, <3>1
  <2>6. k \in Named <=> Colons(line) # {} /\ First(Colons(line)) > 1
    <3>1. DOMAIN F = 1..N
      <4>1. F \in Seq(Seq(Byte))
        BY <1>1, RequestIs
      <4>. QED  BY <4>1
    <3>2. k \in DOMAIN Fields(sent) /\ line = Fields(sent)[k]
      BY <2>1, <2>2, <3>1
    <3>. QED  BY <3>2 DEF Named
  <2>7. IsSequence(headers)' /\ Len(headers') = Rank(k) /\ Holds(headers', k)
    <3>1. CASE k \in Named
      <4>1. SentHeader(k) = HeaderOf(line) /\ HeaderOf(line)[2] # <<>>
        BY <2>2, <3>1 DEF SentHeader, FullValues
      <4>2. line \in Seq(Byte) /\ \A x \in 1..Len(line) : line[x] # NUL
        <5>1. F[k] \in Seq(Byte) /\ \A x \in 1..Len(F[k]) : F[k][x] \notin {CR, LF, NUL}
          BY <1>1, <2>1, RequestIs
        <5>. QED  BY <2>2, <5>1
      <4>3. Colons(line) # {} /\ First(Colons(line)) > 1
        BY <2>6, <3>1
      <4> HIDE DEF line
      <4>4. /\ ValuesOf(line) = {HeaderOf(line)[2]}
            /\ CString(SubSeq(line, 1, First(Colons(line)) - 1)) = HeaderOf(line)[1]
            /\ HeaderOf(line) = <<HeaderOf(line)[1], HeaderOf(line)[2]>>
        BY <4>1, <4>2, <4>3, PartsIs
      <4>5. \E value \in ValuesOf(line) :
              headers' = Append(headers, <<CString(SubSeq(line, 1, First(Colons(line)) - 1)), value>>)
        BY <2>1, <4>3, HeaderLineIs DEF line
      <4>6. headers' = Append(headers, SentHeader(k))
        BY <4>1, <4>4, <4>5
      <4>7. /\ IsSequence(headers)' /\ Holds(headers', k - 1) /\ Len(headers') = Len(headers) + 1
            /\ Len(headers) + 1 \in DOMAIN headers'
            /\ headers'[Len(headers) + 1] = SentHeader(k)
        BY <1>1, <1>3, <1>12, <2>1, <4>6, EntryAdded
      <4>8. Rank(k) = Len(headers) + 1
        BY <1>12, <2>4, <3>1
      <4>9. Holds(headers', k)
        BY <2>5, <4>7, <4>8 DEF Holds
      <4>. QED  BY <4>7, <4>8, <4>9
    <3>2. CASE k \notin Named
      <4>1. headers' = headers
        BY <2>6, <3>2, HeaderLineIs
      <4>2. Holds(headers, k)
        BY <1>12, <2>5, <3>2 DEF Holds
      <4>3. IsSequence(headers)'
        BY <1>3, <4>1 DEF IsSequence
      <4>. QED  BY <1>12, <2>4, <3>2, <4>1, <4>2, <4>3
    <3>. QED  BY <3>1, <3>2
  <2>8. AtLine(st, headers', pos', line_num')
    <3> HIDE DEF N
    <3>1. line_num' \in 1..N + 1 /\ pos' = st[line_num'] /\ Len(headers') = Rank(line_num' - 1)
      BY <2>1, <2>3, <2>7
    <3>2. Holds(headers', line_num' - 1)
      BY <2>1, <2>3, <2>7 DEF Holds
    <3>. QED  BY <3>1, <3>2 DEF AtLine, N
  <2>. QED  BY <1>4, <2>3, <2>7, <2>8
(* The blank line is none. *)
<1>13. CASE line_num = N + 1 /\ pos = st[line_num] /\ Len(headers) = Rank(line_num - 1) /\ Holds(headers, line_num - 1)
  <2>1. N + 1 \in 1..N + 1 /\ line_num - 1 = N
    <3> HIDE DEF N
    <3>. QED  BY <1>7, <1>13
  <2>2. ~(pos >= hdr_end) /\ line = <<>> /\ end + 1 = H + 1
    <3> HIDE DEF N, H
    <3> DEFINE a == st[N + 1]
    <3>1. a \in Nat /\ a + 1 <= H /\ end = H /\ pos = a /\ H \in Nat /\ line = <<>>
      BY <1>6, <1>7, <1>13, <2>1
    <3> HIDE DEF a, end, line
    <3>. QED  BY <1>5, <3>1
  <2>3. Colons(line) = {}
    BY <2>2 DEF Colons
  <2>4. phase' = "headers" /\ pos' = H + 1 /\ headers' = headers
    <3> HIDE DEF end, line, H
    <3>. QED  BY <1>1, <2>2, <2>3, HeaderLineIs DEF end, line
  <2>5. Holds(headers', N)
    BY <1>13, <2>1, <2>4
  <2>6. AtLine(st, headers', pos', line_num')
    <3>1. Holds(headers', Len(Fields(sent)))
      BY <2>5 DEF Holds
    <3>. QED  BY <2>4, <3>1 DEF AtLine
  <2>7. IsSequence(headers)'
    BY <1>3, <2>4 DEF IsSequence
  <2>. QED  BY <1>4, <2>4, <2>6, <2>7
(* What is read behind it comes too late to change what was sent. *)
<1>14. CASE pos = H + 1 /\ Holds(headers, N)
  <2>1. pos >= hdr_end /\ hdr_end # 0
    <3> HIDE DEF H
    <3>. QED  BY <1>5, <1>7, <1>14
  <2>2. phase' = "body"
    BY <2>1, HeaderLineIs
  <2>3. IsSequence(headers)' /\ Holds(headers', N)
    <3> HIDE DEF line
    <3>1. headers' = headers \/ \E x : headers' = Append(headers, x)
      BY HeaderLineIs DEF line
    <3>2. CASE headers' = headers
      BY <1>3, <1>14, <3>2 DEF IsSequence
    <3>3. ASSUME NEW x, headers' = Append(headers, x) PROVE IsSequence(headers)' /\ Holds(headers', N)
      <4>1. N \in Nat
        BY <1>7
      <4> HIDE DEF N
      <4>. QED  BY <1>1, <1>3, <1>14, <3>3, <4>1, EntryAdded
    <3>. QED  BY <3>1, <3>2, <3>3
  <2>4. Holds(headers', Len(Fields(sent)))
    BY <2>3 DEF Holds
  <2>. QED  BY <2>2, <2>3, <2>4
<1>15. line_num \in 1..N + 1 => line_num \in 1..N \/ line_num = N + 1
  <2> HIDE DEF N
  <2>. QED  BY <1>7
<1>. QED  BY <1>4, <1>11, <1>12, <1>13, <1>14, <1>15 DEF AtLine

LEMMA TextHeaderLine ==
  ASSUME TextInv, HeaderLine
  PROVE  TextInv'
<1>1. /\ phase = "headers" /\ phase' \in {"headers", "body"} /\ sent \in Requests
      /\ sent' = sent /\ stream' = stream /\ buf' = buf /\ hdr_end' = hdr_end
  BY HeaderLineIs DEF TextInv, ArrivalInv
<1>2. ArrivalInv'
  BY <1>1 DEF TextInv, ArrivalInv, Has, CR
<1>3. ReadingInv'
  BY <1>1 DEF TextInv, ReadingInv
<1>4. BodyDelivered'
  BY <1>1 DEF BodyDelivered
<1>5. TableInv'
  <2>1. /\ LongLines' = LongLines /\ FullValues' = FullValues /\ Named' = Named
        /\ (\A m : Rank(m)' = Rank(m)) /\ \A m : SentHeader(m)' = SentHeader(m)
    BY <1>1 DEF LongLines, FullValues, Named, Rank, SentHeader
  <2> SUFFICES ASSUME sent.eol = "crlf", LongLines, FullValues
               PROVE  /\ IsSequence(headers)'
                      /\ phase' = "headers" => \E st : Layout(st, sent)' /\ AtLine(st, headers, pos, line_num)'
                      /\ phase' = "body" => \A m \in Named : Rank(m) <= MaxHeaders =>
                           Rank(m) \in DOMAIN headers' /\ headers'[Rank(m)] = SentHeader(m)
    BY <1>1, <2>1 DEF TableInv
  <2>2. /\ IsSequence(headers)'
        /\ \/ phase' = "headers" /\ \E st : Layout(st, sent) /\ AtLine(st, headers', pos', line_num')
           \/ phase' = "body" /\ Holds(headers', Len(Fields(sent)))
    BY LineRead
  <2>3. CASE phase' = "headers"
    <3>1. PICK st : Layout(st, sent) /\ AtLine(st, headers', pos', line_num')
      BY <2>2, <2>3
    <3>2. Layout(st, sent)' /\ AtLine(st, headers, pos, line_num)'
      BY <1>1, <3>1, StillAtLine
    <3>. QED  BY <2>2, <2>3, <3>2
  <2>4. CASE phase' = "body" /\ Holds(headers', Len(Fields(sent)))
    <3>1. Named \subseteq 1..Len(Fields(sent)) /\ Len(Fields(sent)) \in Nat
      <4>1. Fields(sent) \in Seq(Seq(Byte))
        BY <1>1, RequestIs
      <4>2. Len(Fields(sent)) \in Nat
        BY <4>1, LenIs
      <4>3. Named \subseteq 1..Len(Fields(sent))
        BY <1>1, RankIs
      <4>. QED  BY <4>2, <4>3
    <3>2. \A m \in Named : m <= Len(Fields(sent))
      BY <3>1
    <3>. QED  BY <2>2, <2>4, <3>2 DEF Holds
  <2>. QED  BY <2>2, <2>3, <2>4
<1>. QED  BY <1>2, <1>3, <1>4, <1>5 DEF TextInv

(* The loop ends behind the last line, or with a table that has no room for more. *)
LEMMA TextHeadersDone ==
  ASSUME TextInv, HeadersDone
  PROVE  TextInv'
<1>1. /\ phase = "headers" /\ phase' = "body" /\ sent \in Requests
      /\ sent' = sent /\ stream' = stream /\ buf' = buf /\ hdr_end' = hdr_end /\ headers' = headers
      /\ pos > Len(buf) \/ Len(headers) = MaxHeaders
  BY DEF HeadersDone, TextInv, ArrivalInv
<1>2. ArrivalInv'
  BY <1>1 DEF TextInv, ArrivalInv, Has, CR
<1>3. ReadingInv'
  BY <1>1 DEF TextInv, ReadingInv
<1>4. BodyDelivered'
  BY <1>1 DEF BodyDelivered
<1>5. TableInv'
  <2>1. /\ LongLines' = LongLines /\ FullValues' = FullValues /\ Named' = Named
        /\ (\A m : Rank(m)' = Rank(m)) /\ \A m : SentHeader(m)' = SentHeader(m)
    BY <1>1 DEF LongLines, FullValues, Named, Rank, SentHeader
  <2> SUFFICES ASSUME sent.eol = "crlf", LongLines, FullValues
               PROVE  IsSequence(headers)' /\ \A m \in Named : Rank(m) <= MaxHeaders =>
                        Rank(m) \in DOMAIN headers /\ headers[Rank(m)] = SentHeader(m)
    BY <1>1, <2>1 DEF TableInv
  <2>2. IsSequence(headers) /\ \E st : Layout(st, sent) /\ AtLine(st, headers, pos, line_num)
    BY <1>1 DEF TextInv, TableInv
  <2>3. IsSequence(headers)'
    BY <1>1, <2>2 DEF IsSequence
  <2>4. PICK st : Layout(st, sent) /\ AtLine(st, headers, pos, line_num)
    BY <2>2
  <2> DEFINE N == Len(Fields(sent))
             H == HeadLen(st, sent)
  <2>5. /\ N \in Nat /\ H \in Nat /\ H <= Len(buf) /\ H >= 5 /\ Len(buf) \in Nat
        /\ \A k \in 1..N + 1 : st[k] \in Nat /\ st[k] <= H
    <3> DEFINE w == Len(Eol(sent))
    <3>1. /\ N \in Nat /\ w = 2 /\ H \in Nat /\ H >= 2 * w + 1
          /\ Len(Text(sent)) = H + Len(sent.body) /\ Len(sent.body) \in Nat
          /\ \A k \in 1..N + 1 : st[k] \in Nat /\ st[k] + w - 1 <= H
      BY <1>1, <2>4, Numbers, LinesFull
    <3>2. buf = Tokenized(Text(sent))
      BY <1>1 DEF TextInv, ReadingInv
    <3>3. Len(buf) = Len(Text(sent))
      BY <1>1, <2>4, <3>2, TokenizedIs
    <3> HIDE DEF N, H, w
    <3>4. ASSUME NEW k \in 1..N + 1 PROVE st[k] \in Nat /\ st[k] <= H
      <4>1. st[k] \in Nat /\ st[k] + 2 - 1 <= H
        BY <3>1
      <4>. QED  BY <3>1, <4>1
    <3>. QED  BY <3>1, <3>3, <3>4
  <2>6. Named \subseteq 1..N
    BY <1>1, RankIs
  <2> HIDE DEF N, H
  <2>7. CASE line_num = 0 /\ pos = 1 /\ headers = <<>>
    <3>1. ~(pos > Len(buf)) /\ Len(headers) = 0 /\ MaxHeaders # 0
      BY <2>5, <2>7, TextAssumption DEF TextAssumption
    <3>. QED  BY <1>1, <3>1
  <2>8. CASE line_num \in 1..N + 1 /\ pos = st[line_num] /\ Len(headers) = Rank(line_num - 1)
             /\ Holds(headers, line_num - 1)
    <3> DEFINE k == line_num - 1
    <3>1. k \in Nat
      BY <2>5, <2>8
    <3>2. ~(pos > Len(buf))
      <4>1. pos \in Nat /\ pos <= H
        BY <2>5, <2>8
      <4>. QED  BY <2>5, <4>1
    <3>3. Len(headers) = MaxHeaders
      BY <1>1, <3>2
    <3> HIDE DEF k
    <3>4. Rank(k) = MaxHeaders /\ Holds(headers, k)
      BY <2>8, <3>3 DEF k
    <3>5. ASSUME NEW m \in Named, Rank(m) <= MaxHeaders PROVE m <= k
      <4> SUFFICES ASSUME m > k PROVE FALSE
        BY <2>5, <2>6, <3>1
      <4> DEFINE j == m - 1
      <4>1. j \in Nat /\ j + 1 = m /\ k <= j
        BY <2>5, <2>6, <3>1
      <4> HIDE DEF j
      <4>2. Rank(j + 1) = Rank(j) + 1 /\ Rank(k) <= Rank(j) /\ Rank(j) \in Nat
        BY <1>1, <3>1, <4>1, RankIs
      <4>. QED  BY <3>4, <3>5, <4>1, <4>2, TextAssumption DEF TextAssumption
    <3>. QED  BY <2>3, <3>4, <3>5 DEF Holds
  <2>9. CASE pos = H + 1 /\ Holds(headers, N)
    <3>1. \A m \in Named : m <= N
      BY <2>5, <2>6
    <3>. QED  BY <2>3, <2>9, <3>1 DEF Holds
  <2>. QED  BY <2>4, <2>7, <2>8, <2>9 DEF AtLine, N, H
<1>. QED  BY <1>2, <1>3, <1>4, <1>5 DEF TextInv

(* A body without line ends holds nothing strtok writes over. *)
LEMMA TextExtractBody ==
  ASSUME TextInv, ExtractBody
  PROVE  TextInv'
<1>1. /\ phase = "body" /\ phase' = "handler" /\ sent \in Requests
      /\ sent' = sent /\ stream' = stream /\ buf' = buf /\ hdr_end' = hdr_end /\ headers' = headers
      /\ body' = IF hdr_end = 0 THEN <<>> ELSE SubSeq(buf, hdr_end + 1, Len(buf))
  BY DEF ExtractBody, TextInv, ArrivalInv
<1>2. ArrivalInv'
  BY <1>1 DEF TextInv, ArrivalInv, Has, CR
<1>3. ReadingInv'
  BY <1>1 DEF TextInv, ReadingInv
<1>4. TableInv'
  BY <1>1 DEF TextInv, TableInv, LongLines, FullValues, Named, Rank, SentHeader, IsSequence
<1>5. BodyDelivered'
  <2> SUFFICES ASSUME sent.eol = "crlf", LongLines, ~Has(sent.body, Delims)
               PROVE  body' = sent.body
    <3>1. LongLines' = LongLines /\ Has(sent.body, Delims)' = Has(sent.body, Delims)
      BY <1>1 DEF LongLines, Has, Delims, CR, LF
    <3>. QED  BY <1>1, <3>1 DEF BodyDelivered
  <2> DEFINE T == Text(sent)
             c == sent.body
  <2>1. PICK st : Layout(st, sent)
    BY <1>1, LayoutExists
  <2> DEFINE H == HeadLen(st, sent)
  <2>2. buf = Tokenized(T) /\ hdr_end = H
    <3>1. buf = Tokenized(T) /\ hdr_end = PluginHeaderEnd(buf)
      BY <1>1 DEF TextInv, ReadingInv
    <3>. QED  BY <1>1, <2>1, <3>1, LongIs, PluginHeaderEndIs
  <2>3. /\ H \in Nat /\ H >= 1 /\ Len(T) = H + Len(c) /\ Len(c) \in Nat /\ c \in Seq(Byte)
        /\ \A x \in 1..Len(c) : T[H + x] = c[x]
    <3> DEFINE w == Len(Eol(sent))
    <3>1. /\ w \in 1..2 /\ H \in Nat /\ H >= 2 * w + 1 /\ Len(T) = H + Len(c) /\ Len(c) \in Nat
      BY <1>1, <2>1, Numbers
    <3>2. \A x \in 1..Len(c) : T[H + x] = c[x]
      BY <2>1 DEF Layout, HeadLen
    <3>3. c \in Seq(Byte)
      BY <1>1, RequestIs
    <3> HIDE DEF H, T, c, w
    <3>. QED  BY <3>1, <3>2, <3>3
  <2>4. /\ buf \in Seq(Byte) /\ Len(buf) = Len(T)
        /\ \A p \in 1..Len(T) : T[p] \notin Delims => buf[p] = T[p]
    BY <1>1, <2>1, <2>2, TokenizedIs
  <2>5. \A x \in 1..Len(c) : c[x] \notin Delims
    <3>1. DOMAIN c = 1..Len(c)
      BY <2>3
    <3>. QED  BY <3>1 DEF Has
  <2> HIDE DEF T, c, H
  <2>6. H \in 0..Len(buf) /\ Len(buf) - H = Len(c) /\ \A x \in 1..Len(c) : H + x \in 1..Len(T)
    <3> DEFINE n == Len(c)
               l == Len(buf)
    <3>1. H \in Nat /\ H >= 1 /\ n \in Nat /\ l = H + n /\ Len(T) = l
      BY <2>3, <2>4
    <3> HIDE DEF n, l
    <3>2. H \in 0..l /\ l - H = n /\ \A x \in 1..n : H + x \in 1..l
      BY <3>1
    <3>. QED  BY <3>1, <3>2 DEF n, l
  <2> DEFINE d == SubSeq(buf, H + 1, Len(buf))
  <2>7. d \in Seq(Byte) /\ Len(d) = Len(c) /\ \A x \in 1..Len(c) : d[x] = buf[H + x]
    <3>1. /\ d \in Seq(Byte) /\ Len(d) = Len(buf) - H
          /\ \A x \in 1..Len(buf) - H : d[x] = buf[H + x]
      BY <2>4, <2>6, TailIs
    <3>. QED  BY <2>6, <3>1
  <2> HIDE DEF d
  <2>8. \A x \in 1..Len(c) : d[x] = c[x]
    BY <2>3, <2>4, <2>5, <2>6, <2>7
  <2>9. d = c
    BY <2>3, <2>7, <2>8, SameSeq
  <2>10. body' = d
    BY <1>1, <2>2, <2>3 DEF d
  <2>. QED  BY <2>9, <2>10 DEF c
<1>. QED  BY <1>2, <1>3, <1>4, <1>5 DEF TextInv

LEMMA TextNext == TextInv /\ [Next]_vars => TextInv'
<1> SUFFICES ASSUME TextInv, [Next]_vars PROVE TextInv'
  OBVIOUS
<1>1. ASSUME NEW n \in 1..Len(stream), Arrive(n) PROVE TextInv'
  BY <1>1, TextArrive
<1>2. CASE http1_parse_request
  BY <1>2, TextParse
<1>3. CASE HeaderLine
  BY <1>3, TextHeaderLine
<1>4. CASE HeadersDone
  BY <1>4, TextHeadersDone
<1>5. CASE ExtractBody
  BY <1>5, TextExtractBody
<1>6. CASE UNCHANGED vars
  BY <1>6 DEF vars, TextInv, ArrivalInv, ReadingInv, TableInv, BodyDelivered, LongLines, FullValues,
              Named, Rank, SentHeader, IsSequence, AtLine, Holds, Has, Delims, CR, LF
<1>. QED  BY <1>1, <1>2, <1>3, <1>4, <1>5, <1>6 DEF Next

(* Whatever the parts a request of any lines and any body arrives in, what the
   program has of it is a beginning of the text; the plugin's reading is of the whole
   of it, and its loop over the lines has put into the table, line by line, the
   headers that were sent (http1_handle_read, http1_parse_request,
   handle_plugin_request). *)
THEOREM TextInvariant == Spec => []TextInv
<1>. QED  BY TextInit, TextNext, PTL DEF Spec

(* A request is handed on when the last byte of it has arrived and never before:
   find_header_end finds the blank line its client sent, in whatever part of the
   text that has it, and no field but the client's is taken for a Content-Length
   (http1_handle_read's loop and its test). *)
THEOREM ParsedExactlyWhenWhole == Spec => []ParsedWhenWhole
<1>1. TextInv => ParsedWhenWhole
  <2> SUFFICES ASSUME TextInv, sent.eol = "crlf" \/ ~Has(sent.body, {CR})
               PROVE  phase = "receive" <=> stream # <<>>
    BY DEF ParsedWhenWhole
  <2> DEFINE T == Text(sent)
  <2>1. PICK n \in 0..Len(T) : stream = SubSeq(T, n + 1, Len(T)) /\ (phase = "receive" <=> n < Len(T))
    BY DEF TextInv, ArrivalInv
  <2>2. T \in Seq(Byte) /\ Len(T) \in Nat
    BY TextIs DEF TextInv, ArrivalInv
  <2> HIDE DEF T
  <2>3. stream \in Seq(Byte) /\ Len(stream) = Len(T) - n
    BY <2>1, <2>2, TailIs
  <2>4. stream = <<>> <=> Len(stream) = 0
    BY <2>3
  <2>. QED  BY <2>1, <2>2, <2>3, <2>4
<1>. QED  BY <1>1, TextInvariant, PTL

(* The second reading of the text, in the buffer strtok has written into, delivers
   every header that was sent, in order and with its own name and value, as far as
   the table has room for it (handle_plugin_request's loop over the lines). *)
THEOREM HeadersReachHandler == Spec => []HeadersDelivered
<1>1. TextInv => HeadersDelivered
  BY DEF TextInv, TableInv, HeadersDelivered
<1>. QED  BY <1>1, TextInvariant, PTL

(* The handler's body is the client's, if there is no line end in it for strtok to
   write over (handle_plugin_request's search for the blank line). *)
THEOREM BodiesReachHandler == Spec => []BodyDelivered
<1>1. TextInv => BodyDelivered
  BY DEF TextInv
<1>. QED  BY <1>1, TextInvariant, PTL
=============================================================================
