----------------------------- MODULE Parameters -----------------------------
(* How the parameters of a request are taken apart: the query by
   handle_plugin_request, and the body of a form by parseBody and urlDecode of the
   C++ wrapper. Texts are sequences of bytes; pairs are <<key, value>>.       *)
EXTENDS Integers, Sequences

CONSTANT MaxParams   \* entries of query_params (32)

ASSUME ParametersAssumption == MaxParams \in Nat

(* The place of the next such byte, or the one behind the text. *)
Next_(byte, text, from) ==
  LET places == {n \in from..Len(text) : text[n] = byte} IN
  IF places = {} THEN Len(text) + 1 ELSE CHOOSE n \in places : \A k \in places : n <= k

(* Mutant: a token is cut at its last sign. *)
PairLast(token) ==
  LET signs == {n \in DOMAIN token : token[n] = "="}
      eq == IF signs = {} THEN Len(token) + 1 ELSE CHOOSE n \in signs : \A k \in signs : k <= n IN
  <<SubSeq(token, 1, eq - 1), SubSeq(token, eq + 1, Len(token))>>

(* A token is cut at its first "="; without one it is all key. *)
Pair(token) ==
  LET eq == Next_("=", token, 1) IN
  <<SubSeq(token, 1, eq - 1), SubSeq(token, eq + 1, Len(token))>>

(* The pieces between ampersands; there is none behind the last one. *)
Pieces(text) ==
  LET from[n \in 1..Len(text) + 2] ==
        IF n > Len(text) THEN <<>>
        ELSE LET amp == Next_("&", text, n) IN
             <<SubSeq(text, n, amp - 1)>> \o from[amp + 1]
  IN from[1]

(* strtok passes over empty pieces, one without "=" is dropped, and the loop ends
   when the table is full. *)
Taken(params, token) ==
  IF token # <<>> /\ Next_("=", token, 1) <= Len(token) /\ Len(params) < MaxParams
    THEN Append(params, Pair(token)) ELSE params

QueryParams(query) ==
  LET pieces == Pieces(query)
      taken[n \in 0..Len(pieces)] ==
        IF n = 0 THEN <<>> ELSE Taken(taken[n - 1], pieces[n])
  IN taken[Len(pieces)]

(* The value of the first entry with the key as a sequence of one, <<>> for a null
   pointer. *)
Lookup(params, key) ==
  LET found == {n \in DOMAIN params : params[n][1] = key} IN
  IF found = {} THEN <<>> ELSE <<params[CHOOSE n \in found : \A k \in found : n <= k][2]>>

(* The bytes with a meaning in forms, as their clients escape them. *)
Escape == [b \in {"&", "=", "%", "+"} |->
             CASE b = "&" -> <<"2", "6">> [] b = "=" -> <<"3", "D">>
               [] b = "%" -> <<"2", "5">> [] b = "+" -> <<"2", "B">>]

(* strtol of two digits to the base of 16, when both are digits. *)
IsEscape(hex) == \E b \in DOMAIN Escape : Escape[b] = hex
Unescape(hex) == CHOOSE b \in DOMAIN Escape : Escape[b] = hex

(* Mutant: an escape is not looked for in the last three bytes. *)
urlDecodeShort(s) ==
  LET d[n \in 1..Len(s) + 1] ==
        IF n > Len(s) THEN <<>>
        ELSE IF s[n] = "%" /\ n + 2 < Len(s) /\ IsEscape(<<s[n + 1], s[n + 2]>>)
          THEN <<Unescape(<<s[n + 1], s[n + 2]>>)>> \o d[n + 3]
          ELSE <<IF s[n] = "+" THEN " " ELSE s[n]>> \o d[n + 1]
  IN d[1]

urlDecode(s) ==
  LET d[n \in 1..Len(s) + 1] ==
        IF n > Len(s) THEN <<>>
        ELSE IF s[n] = "%" /\ n + 2 <= Len(s) /\ IsEscape(<<s[n + 1], s[n + 2]>>)
          THEN <<Unescape(<<s[n + 1], s[n + 2]>>)>> \o d[n + 3]
          ELSE <<IF s[n] = "+" THEN " " ELSE s[n]>> \o d[n + 1]
  IN d[1]

(* parseBody: every piece is an entry, and of entries with one key the map keeps
   the first. *)
parseBody(b) ==
  LET pieces == Pieces(b) IN
  [n \in DOMAIN pieces |-> <<urlDecode(Pair(pieces[n])[1]), urlDecode(Pair(pieces[n])[2])>>]

(* What a client sends for a form. *)
EncodedByte(b) ==
  IF b \in DOMAIN Escape THEN <<"%">> \o Escape[b] ELSE IF b = " " THEN <<"+">> ELSE <<b>>

Encoded(text) ==
  LET e[n \in 1..Len(text) + 1] ==
        IF n > Len(text) THEN <<>> ELSE EncodedByte(text[n]) \o e[n + 1]
  IN e[1]

Field(pair) == Encoded(pair[1]) \o <<"=">> \o Encoded(pair[2])

FormText(form) ==
  LET t[n \in 1..Len(form) + 1] ==
        IF n > Len(form) THEN <<>>
        ELSE (IF n > 1 THEN <<"&">> ELSE <<>>) \o Field(form[n]) \o t[n + 1]
  IN t[1]
=============================================================================
