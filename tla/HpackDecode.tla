----------------------------- MODULE HpackDecode -----------------------------
(* The reading of an HTTP/2 header block: hpack_decode_path and
   hpack_decode_method walk over the fields of the block until one has the name
   they want. They are the same code but for that name. A block is whole, as a
   client encodes it; its octets are those of the code. A name or value of the
   static table is abbreviated. *)
EXTENDS HpackInteger, SequencesExt

CONSTANTS Fields,    \* header fields a client may send
          MaxFields, \* fields of a block
          HuffSym,   \* the bits that code a character
          OutSize,   \* of the caller's array: 1024 for the path, 16 for the method
          NameSize   \* of name_buf (256)

VARIABLES
  block,   \* the fields the client encoded
  data,    \* their octets
  wanted,  \* the name looked for
  at,      \* the octet p points to
  status,  \* "reading", "found" (0 returned) or "failed" (-1)
  out      \* out_path or out_method

vars == <<block, data, wanted, at, status, out>>

Path == <<58, 112>>      \* ":path"
Method == <<58, 109>>    \* ":method"
NoName == <<>>
TableSize == 62

StaticName(i) == IF i \in {2, 3} THEN Method ELSE IF i \in {4, 5} THEN Path ELSE <<i>>
StaticValue(i) == <<i>>

Cut(s) == IF Len(s) < OutSize THEN s ELSE SubSeq(s, 1, OutSize - 1)

-----------------------------------------------------------------------------
(* The client's encoder. *)

Weights == <<128, 64, 32, 16, 8, 4, 2, 1>>

(* The octet of eight bits, and the bits of octets. *)
Octet(b) ==
  128 * b[1] + 64 * b[2] + 32 * b[3] + 16 * b[4] + 8 * b[5] + 4 * b[6] + 2 * b[7] + b[8]

BitsOf(octet) == [k \in 1..8 |-> (octet \div Weights[k]) % 2]
Bits(octets) == FlattenSeq([i \in DOMAIN octets |-> BitsOf(octets[i])])

Code(s) == FlattenSeq([i \in DOMAIN s |-> HuffSym[s[i]]])

(* The code of a text, with ones behind it up to the end of an octet. *)
Huffman(s) ==
  LET code == Code(s)
      bit(i) == IF i <= Len(code) THEN code[i] ELSE 1 IN
  [o \in 1..(Len(code) + 7) \div 8 |-> Octet([k \in 1..8 |-> bit(8 * (o - 1) + k)])]

String(s, huffman) ==
  IF huffman THEN Written(128, 7, Len(Huffman(s))) \o Huffman(s)
             ELSE Written(0, 7, Len(s)) \o s

Flags == [incremental |-> 64, without |-> 0, never |-> 16]
Prefix == [incremental |-> 6, without |-> 4, never |-> 4]

Octets(f) ==
  CASE f.rep = "indexed" -> Written(128, 7, f.index)
    [] f.rep = "resize"  -> Written(32, 5, 0)
    [] OTHER -> Written(Flags[f.rep], Prefix[f.rep], f.index)
                  \o (IF f.index = 0 THEN String(f.name, f.name_huffman) ELSE <<>>)
                  \o String(f.value, f.huffman)

Text == Seq(DOMAIN HuffSym)
Field ==
  [rep : {"indexed"}, index : Nat \ {0}] \cup [rep : {"resize"}] \cup
  [rep : {"incremental", "without", "never"}, index : Nat, name : Text,
   name_huffman : BOOLEAN, value : Text, huffman : BOOLEAN]

(* A text is a C string, no code begins another or is part of the padding, and the
   numbers of a block are those of an int. *)
ASSUME BlockAssumption ==
  /\ MaxFields \in Nat /\ OutSize \in Nat \ {0} /\ NameSize \in Nat
  /\ DOMAIN HuffSym \subseteq 1..255 /\ Fields \subseteq Field
  /\ \A c \in DOMAIN HuffSym :
       /\ HuffSym[c] \in Seq({0, 1})
       /\ \E k \in 1..Len(HuffSym[c]) : k > 7 \/ HuffSym[c][k] = 0
       /\ \A d \in DOMAIN HuffSym : IsPrefix(HuffSym[c], HuffSym[d]) => c = d
  /\ \A f \in Fields :
       /\ f.rep # "resize" => f.index <= IntMax
       /\ f.rep \notin {"indexed", "resize"} => \A s \in {f.name, f.value} :
            Len(s) <= IntMax /\ Len(Huffman(s)) <= IntMax

Blocks == UNION {[1..n -> Fields] : n \in 1..MaxFields}

Init ==
  /\ block \in Blocks /\ wanted \in {Path, Method}
  /\ data = FlattenSeq([i \in DOMAIN block |-> Octets(block[i])])
  /\ at = 1 /\ status = "reading" /\ out = <<>>

-----------------------------------------------------------------------------
(* The decoders. *)

CodeAt(c, bits, i) ==
  /\ i + Len(HuffSym[c]) - 1 <= Len(bits)
  /\ \A k \in 1..Len(HuffSym[c]) : bits[i + k - 1] = HuffSym[c][k]

(* The code at the first unread bit is the next character; bits that are no code,
   the padding, stay unread. *)
huffman_decode(octets) ==
  LET bits == Bits(octets)
      coded(i) == {c \in DOMAIN HuffSym : CodeAt(c, bits, i)}
      from[i \in 1..Len(bits) + 1] ==
        IF coded(i) = {} THEN <<>>
        ELSE LET c == CHOOSE c \in coded(i) : TRUE IN <<c>> \o from[i + Len(HuffSym[c])]
  IN from[1]

Marked(i) == i <= Len(data) /\ data[i] >= 128
Slice(i, n) == SubSeq(data, i, i + n - 1)

Break == status' = "failed" /\ UNCHANGED <<at, out>>
Answer(value) == status' = "found" /\ out' = Cut(value) /\ UNCHANGED at
Skip(next) == at' = next /\ UNCHANGED <<status, out>>

(* A static entry is the field; one of the dynamic table is passed over. *)
Indexed ==
  LET index == decode_int(data, at, 7) IN
  /\ status = "reading" /\ Marked(at)
  /\ IF ~index.ok THEN Break
     ELSE IF index.value \in 1..TableSize - 1 /\ StaticName(index.value) = wanted
       THEN Answer(StaticValue(index.value))
       ELSE Skip(index.next)
  /\ UNCHANGED <<block, data, wanted>>

(* The name that follows the octets of its index. A Huffman-coded one is decoded
   and then not used. *)
LiteralName(index) ==
  LET len == decode_int(data, index.next, 7) IN
  IF index.value # 0
    THEN [ok |-> TRUE, next |-> index.next,
          name |-> IF index.value < TableSize THEN StaticName(index.value) ELSE NoName]
  ELSE IF ~len.ok \/ len.value >= NameSize
    THEN [ok |-> FALSE, next |-> index.next, name |-> NoName]
  ELSE [ok |-> Marked(index.next) \/ len.next + len.value <= Len(data) + 1,
        next |-> len.next + len.value,
        name |-> IF Marked(index.next) THEN NoName ELSE Slice(len.next, len.value)]

(* Mutant: the octets are the value, whatever the Huffman bit says. *)
ValueRaw(i, n, huffman) == Slice(i, n)

Value(i, n, huffman) == IF huffman THEN huffman_decode(Slice(i, n)) ELSE Slice(i, n)

(* Mutant: the value of a field that is not wanted is not skipped. *)
PastNameOnly(len) == len.next

PastValue(len) == len.next + len.value

Literal(prefix) ==
  LET index == decode_int(data, at, prefix)
      name == LiteralName(index)
      len == decode_int(data, name.next, 7) IN
  IF ~index.ok \/ ~name.ok \/ ~len.ok \/ PastValue(len) > Len(data) + 1 THEN Break
  ELSE IF name.name = wanted THEN Answer(Value(len.next, len.value, Marked(name.next)))
  ELSE Skip(PastValue(len))

(* Bits of the index of a literal field, 0 for other representations. *)
PrefixBits(octet) ==
  IF octet \in 64..127 THEN 6 ELSE IF octet \in 0..15 THEN 4 ELSE 0

LiteralField ==
  /\ status = "reading" /\ at <= Len(data) /\ PrefixBits(data[at]) # 0
  /\ Literal(PrefixBits(data[at]))
  /\ UNCHANGED <<block, data, wanted>>

(* A literal never to be indexed, a change of the table's size, or no more. *)
Unreadable ==
  /\ status = "reading"
  /\ ~Marked(at) /\ (at <= Len(data) => PrefixBits(data[at]) = 0)
  /\ Break
  /\ UNCHANGED <<block, data, wanted>>

Next == Indexed \/ LiteralField \/ Unreadable
Spec == Init /\ [][Next]_vars

-----------------------------------------------------------------------------
(* What the client meant. *)

NameOf(f) ==
  IF f.rep = "resize" THEN NoName
  ELSE IF f.index = 0 THEN f.name
  ELSE IF f.index < TableSize THEN StaticName(f.index) ELSE NoName
ValueOf(f) == IF f.rep = "indexed" THEN StaticValue(f.index) ELSE f.value
Is(f, name) == NameOf(f) = name

(* What the decoders understand: no literal never to be indexed, no change of the
   table's size, no name too long for name_buf. *)
Readable(f) ==
  /\ f.rep \notin {"never", "resize"}
  /\ f.rep # "indexed" /\ f.index = 0 =>
       (IF f.name_huffman THEN Len(Huffman(f.name)) ELSE Len(f.name)) < NameSize

(* Names they compare: one sent as Huffman code is not. *)
Seen(f) == Is(f, wanted) /\ (f.rep # "indexed" /\ f.index = 0 => ~f.name_huffman)

FieldStart(i) ==
  1 + Len(FlattenSeq([j \in 1..i - 1 |-> Octets(block[j])]))

(* The cursor of the decoder never leaves the boundaries of fields: whatever was
   skipped, it stands where the client began a field, or at the end of the block. *)
StandsOnField == \E i \in 1..Len(block) + 1 : at = FieldStart(i)

(* The decoder answers as the block says: it returns the value, cut to the caller's
   array, of the first field with the name it looks for and compares, provided
   that all fields up to it have representations it understands; otherwise it
   fails, and never answers with the value of another field. *)
AnswersBlock ==
  LET seen == {i \in DOMAIN block : Seen(block[i])}
      reached == {i \in seen : \A j \in 1..i : Readable(block[j])}
      first == CHOOSE i \in reached : \A j \in reached : i <= j IN
  status # "reading" =>
    IF reached = {} THEN status = "failed"
                    ELSE status = "found" /\ out = Cut(ValueOf(block[first]))
=============================================================================
