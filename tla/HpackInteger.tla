----------------------------- MODULE HpackInteger -----------------------------
(* The integers of an HPACK header block: a prefix of the first octet, then
   groups of seven bits, least significant first, in octets whose top bit says that
   more follow. The sizes of C's integers are parameters because TLC's are smaller. *)
EXTENDS Integers, Sequences

CONSTANTS UintSize, \* the number of values of uint32_t (2^32)
          IntMax    \* the largest int (0x7FFFFFFF)

More == 128

(* Five groups hold an int. *)
ASSUME IntegerAssumption ==
  /\ UintSize \in Nat /\ IntMax \in 1..UintSize - 1
  /\ (((IntMax \div More) \div More) \div More) \div More < More

Fail == [ok |-> FALSE, value |-> 0, next |-> 0]

(* How a client writes num behind the flag bits of the first octet. *)
Groups(num) ==
  LET from[n \in 0..num] ==
        IF n < More THEN <<n>> ELSE <<More + (n % More)>> \o from[n \div More]
  IN from[num]

Written(flags, prefix, num) ==
  LET mask == 2^prefix - 1 IN
  IF num < mask THEN <<flags + num>> ELSE <<flags + mask>> \o Groups(num - mask)

-----------------------------------------------------------------------------
(* The octet that ends the integer at `at`, 0 if the block stops before it. *)
LastOctet(data, at) ==
  LET ends == {i \in at + 1..Len(data) : data[i] < More} IN
  IF ends = {} THEN 0 ELSE CHOOSE i \in ends : \A j \in ends : i <= j

(* The groups up to it, each seven bits above the one before. *)
Total(data, at, last) ==
  LET from[i \in at + 1..last + 1] ==
        IF i > last THEN 0 ELSE (data[i] % More) + More * from[i + 1]
  IN from[at + 1]

TooLong(at, last) == 7 * (last - at - 1) > 28

(* The integer at `at`, and the place after it. *)
decode_int(data, at, prefix) ==
  LET mask == 2^prefix - 1
      first == data[at] % 2^prefix
      last == LastOctet(data, at)
      result == (mask + Total(data, at, last)) % UintSize IN
  IF at > Len(data) THEN Fail
  ELSE IF first < mask THEN [ok |-> TRUE, value |-> first, next |-> at + 1]
  ELSE IF last = 0 \/ TooLong(at, last) \/ result > IntMax THEN Fail
  ELSE [ok |-> TRUE, value |-> result, next |-> last + 1]
=============================================================================
