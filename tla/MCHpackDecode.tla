---------------------------- MODULE MCHpackDecode ----------------------------
(* Model checking of HpackDecode: every representation, indexes and lengths around
   the sizes of their prefixes, short and long strings, plain and Huffman-coded. *)
EXTENDS HpackDecode

(* Of the code's table: "/", ":", "X", "a", "m", "p". *)
MCHuffSym ==
  [c \in {47, 58, 88, 97, 109, 112} |->
     CASE c = 47 -> <<0, 1, 1, 0, 0, 0>>
       [] c = 58 -> <<1, 0, 1, 1, 1, 0, 0>>
       [] c = 88 -> <<1, 1, 1, 1, 1, 1, 0, 0>>
       [] c = 97 -> <<0, 0, 0, 1, 1>>
       [] c = 109 -> <<1, 0, 1, 0, 0, 1>>
       [] c = 112 -> <<1, 0, 1, 0, 1, 1>>]

Long == [i \in 1..140 |-> 97]      \* its length takes two octets
LongName == [i \in 1..8 |-> 88]    \* as long as name_buf
Slash == <<47, 97>>

Literals(reps, indexes, names, values) ==
  [rep : reps, index : indexes, name : names, name_huffman : BOOLEAN,
   value : values, huffman : BOOLEAN]

MCFields ==
  [rep : {"indexed"}, index : {2, 4, 16, 62, 126, 127, 128, 254, 255}]
    \cup [rep : {"resize"}]
    \cup Literals({"incremental", "without"}, {4}, {NoName}, {Slash, Long})
    \cup Literals({"without"}, {17}, {NoName}, {Long, <<>>})
    \cup Literals({"incremental", "without"}, {0}, {Path, Method}, {<<88>>})
    \cup Literals({"without"}, {0}, {LongName}, {<<88>>})
    \cup Literals({"never"}, {23}, {NoName}, {Slash})
=============================================================================
