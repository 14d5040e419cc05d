--------------------------- MODULE SseEventProofs ---------------------------
(* Proofs about SseEvent, for every size of the buffer, names of any length, and
   data of any number of lines of any length.                                *)
EXTENDS SseEvent, TLAPS

(* The lines written so far are those of the data, but for the last of an event
   that has filled the buffer. *)
Faithful == \A i \in 1..Len(written) : i <= Len(data) /\ written[i] = data[i]

LastIsText == ptr = Len(data) + 1 => data[Len(data)] > 0

CutLast ==
  LET n == Len(written) IN
    /\ n > 0 /\ n <= Len(data) /\ written[n] < data[n]
    /\ \A i \in 1..n - 1 : written[i] = data[i]

(* What is written at each place, and, if the name has left 20 bytes, the room that
   is left there. *)
LoopInv ==
  /\ pc = "loop" =>
       /\ Faithful /\ LastIsText /\ Len(written) = ptr - 1
       /\ event + 20 <= Size => pos + 20 <= Size
  /\ pc = "trailing" =>
       /\ event + 20 <= Size => pos + 12 <= Size
       /\ \/ Faithful /\ LastIsText /\ ~More /\ Len(written) = ptr - 1
          \/ (Faithful \/ CutLast) /\ pos > Size - 100
  /\ pc \in {"send", "done"} => EventAsSent
  /\ pc \in {"send", "done", "overrun"} => CutAtTheEnd
  /\ OverrunOnlyByName

IInv == TypeOK /\ LoopInv

LEMMA InitHolds == Init => IInv
<1>. SUFFICES ASSUME Init PROVE IInv
  OBVIOUS
<1>1. PICK n \in 1..MaxLines : data \in [1..n -> LineLens]
  BY DEF Init
<1>2. data \in Seq(LineLens) /\ data # <<>> /\ Len(data) = n
  BY <1>1, EventAssumption DEF EventAssumption
<1>3. pos \in Nat /\ event \in Nat /\ pos = event
  BY EventAssumption DEF EventAssumption, Init
<1>4. TypeOK
  BY <1>2, <1>3 DEF Init, TypeOK
<1>5. LoopInv
  BY <1>2, <1>3 DEF Init, LoopInv, Faithful, LastIsText, OverrunOnlyByName
<1>. QED  BY <1>4, <1>5 DEF IInv

LEMMA SmallRemainder ==
  ASSUME NEW m \in Nat, NEW x \in 0..m - 1
  PROVE  x % m = x
BY SMT

(* The clamp takes the line as it is or fills the room, and where the room has wrapped
   the buffer is all but full. *)
LEMMA ClampedLine ==
  ASSUME TypeOK, NEW len \in Nat
  PROVE  /\ Clamped(len) \in Nat /\ Clamped(len) <= len
         /\ pos + 20 <= Size => pos + Clamped(len) + 20 <= Size
         /\ Clamped(len) # len => pos + Clamped(len) + 20 >= Size
<1>. USE EventAssumption DEF EventAssumption
<1>1. pos \in Nat
  BY DEF TypeOK
<1>2. Room \in Nat
  BY <1>1 DEF Room
<1>3. pos + 20 <= Size => Room = Size - pos - 20
  BY <1>1, SmallRemainder DEF Room
<1>. QED  BY <1>1, <1>2, <1>3 DEF Clamped

(* A line leaves room for an empty one and for the end of the event, if the name has,
   and if it was cut it has filled the buffer. *)
LEMMA LineFits ==
  ASSUME IInv, Line
  PROVE  IInv'
<1>. DEFINE n == Clamped(data[ptr])
<1>. USE EventAssumption DEF EventAssumption
<1>1. /\ ptr \in 1..Len(data) /\ Len(data) \in Nat /\ data[ptr] \in Nat
      /\ pos \in Nat /\ event \in Nat /\ (event + 20 <= Size => pos + 20 <= Size)
      /\ Len(written) = ptr - 1 /\ Faithful
      /\ written \in Seq(Nat) /\ data \in Seq(LineLens)
  <2>1. pc = "loop" /\ More
    BY DEF Line
  <2>2. /\ ptr \in 1..Len(data) + 1 /\ pos \in Nat /\ event \in Nat
        /\ written \in Seq(Nat) /\ data \in Seq(LineLens)
    BY DEF IInv, TypeOK
  <2>3. ptr \in 1..Len(data) /\ Len(data) \in Nat
    BY <2>1, <2>2 DEF More
  <2>4. data[ptr] \in LineLens
    BY <2>2, <2>3
  <2>. QED  BY <2>1, <2>2, <2>3, <2>4 DEF IInv, LoopInv
<1>2. /\ n \in Nat /\ n <= data[ptr]
      /\ pos + 20 <= Size => pos + n + 20 <= Size
      /\ n # data[ptr] => pos + n + 20 >= Size
  BY <1>1, ClampedLine DEF IInv
<1>3. /\ pos' = pos + 6 + n + 2 /\ written' = Append(written, n) /\ ptr' = ptr + 1
      /\ pc' = IF pos' > Size THEN "overrun" ELSE IF pos' > Size - 100 THEN "trailing" ELSE "loop"
      /\ UNCHANGED <<protocol, event, data, taken>>
  BY DEF Line, WriteTo, eventVars
<1>. HIDE DEF n
<1>4. /\ Len(written') = ptr /\ written'[ptr] = n /\ written' \in Seq(Nat)
      /\ \A i \in 1..ptr - 1 : written'[i] = data[i]
  BY <1>1, <1>2, <1>3 DEF Faithful
<1>5. TypeOK'
  BY <1>1, <1>2, <1>3, <1>4 DEF IInv, TypeOK
<1>6. n = data[ptr] => Faithful'
  BY <1>1, <1>3, <1>4 DEF Faithful
<1>7. n # data[ptr] => CutLast' /\ pos' > Size - 100
  BY <1>1, <1>2, <1>3, <1>4 DEF CutLast
<1>8. /\ event' + 20 <= Size => pos' + 12 <= Size
      /\ Len(written') = ptr' - 1 /\ pos' \in Nat /\ event' \in Nat
  BY <1>1, <1>2, <1>3, <1>4
<1>9. LastIsText'
  BY <1>1, <1>3 DEF LastIsText, Line, More
<1>10. LoopInv'
  <2>1. CASE pos' > Size
    <3>1. CutAtTheEnd'
      <4>1. n = data[ptr] => CutAtTheEnd'
        BY <1>6 DEF Faithful, CutAtTheEnd
      <4>2. n # data[ptr] => CutAtTheEnd'
        <5>. SUFFICES ASSUME n # data[ptr] PROVE CutAtTheEnd'
          OBVIOUS
        <5>1. \A i \in 1..ptr - 1 : i <= Len(data') /\ written'[i] = data'[i]
          <6>1. data' = data /\ \A i \in 1..ptr - 1 : i <= Len(data)
            BY <1>1, <1>3
          <6>. QED  BY <1>4, <6>1, Zenon
        <5>2. ptr <= Len(data') /\ written'[ptr] < data'[ptr] /\ Len(written') = ptr
          BY <1>1, <1>2, <1>3, <1>4
        <5>3. \A i \in 1..ptr : (i \in 1..ptr - 1 \/ i = ptr) /\ ~(\E j \in ptr + 1..ptr : TRUE)
          BY <1>1
        <5>. QED  BY <5>1, <5>2, <5>3, Zenon DEF CutAtTheEnd
      <4>. QED  BY <4>1, <4>2
    <3>. QED  BY <1>3, <1>8, <2>1, <3>1 DEF LoopInv, OverrunOnlyByName
  <2>2. CASE pos' > Size - 100 /\ ~(pos' > Size)
    BY <1>3, <1>6, <1>7, <1>8, <2>2 DEF LoopInv, OverrunOnlyByName
  <2>3. CASE ~(pos' > Size - 100)
    BY <1>3, <1>6, <1>7, <1>8, <1>9, <2>3 DEF LoopInv, OverrunOnlyByName
  <2>. QED  BY <1>8, <2>1, <2>2, <2>3
<1>. QED  BY <1>5, <1>10 DEF IInv

LEMMA LoopEndsHolds ==
  ASSUME IInv, LoopEnds
  PROVE  IInv'
<1>1. /\ UNCHANGED <<protocol, event, data, ptr, pos, written, taken>>
      /\ pc = "loop" /\ pc' = "trailing" /\ ~More
  BY DEF LoopEnds, eventVars
<1>2. TypeOK'
  BY <1>1 DEF IInv, TypeOK
<1>3. LoopInv'
  <2>1. /\ Faithful' /\ LastIsText' /\ ~More' /\ Len(written') = ptr' - 1
        /\ event' + 20 <= Size => pos' + 20 <= Size
        /\ pos' \in Nat /\ event' \in Nat
    BY <1>1 DEF IInv, LoopInv, Faithful, LastIsText, More, TypeOK
  <2>. QED  BY <1>1, <2>1, EventAssumption DEF LoopInv, OverrunOnlyByName, EventAssumption
<1>. QED  BY <1>2, <1>3 DEF IInv

LEMMA NatLines ==
  ASSUME NEW s \in Seq(LineLens)
  PROVE  s \in Seq(Nat) /\ \A i \in 1..Len(s) : s[i] \in Nat
<1>1. \A i \in 1..Len(s) : s[i] \in LineLens
  OBVIOUS
<1>2. \A i \in 1..Len(s) : s[i] \in Nat
  BY <1>1, EventAssumption DEF EventAssumption
<1>. QED  BY <1>2

LEMMA SameLines ==
  ASSUME NEW s \in Seq(Nat), NEW t \in Seq(Nat), Len(s) = Len(t), \A i \in 1..Len(t) : s[i] = t[i]
  PROVE  s = t
OBVIOUS

(* The end of an event: an empty line if the data end in a line end. *)
LEMMA TrailingHolds ==
  ASSUME IInv, Trailing
  PROVE  IInv'
<1>. USE EventAssumption DEF EventAssumption
<1>1. /\ pos \in Nat /\ event \in Nat /\ (event + 20 <= Size => pos + 12 <= Size)
      /\ written \in Seq(Nat) /\ data \in Seq(LineLens)
      /\ data # <<>> /\ Len(data) \in Nat /\ Len(written) \in Nat /\ ptr \in 1..Len(data) + 1
  BY DEF Trailing, IInv, TypeOK, LoopInv
<1>2. /\ pc' = IF pos' > Size THEN "overrun" ELSE "send"
      /\ UNCHANGED <<protocol, event, data, ptr, taken>>
      /\ pos' >= pos /\ (event + 20 <= Size => pos' <= Size) /\ pos' \in Nat
      /\ EndsInNewline => written' = Append(written, 0)
      /\ ~EndsInNewline => written' = written
  BY <1>1 DEF Trailing, WriteTo, eventVars
<1>9. data \in Seq(Nat) /\ \A i \in 1..Len(data) : data[i] \in Nat
  BY <1>1, NatLines
<1>3. /\ written' \in Seq(Nat) /\ (EndsInNewline' <=> EndsInNewline)
      /\ \A i \in 1..Len(written) : written'[i] = written[i]
      /\ EndsInNewline => Len(written') = Len(written) + 1 /\ written'[Len(written')] = 0
      /\ ~EndsInNewline => Len(written') = Len(written)
  <2>1. /\ Append(written, 0) \in Seq(Nat) /\ Len(Append(written, 0)) = Len(written) + 1
        /\ Append(written, 0)[Len(written) + 1] = 0
        /\ \A i \in 1..Len(written) : Append(written, 0)[i] = written[i]
    BY <1>1
  <2>2. EndsInNewline' <=> EndsInNewline
    BY <1>2 DEF EndsInNewline
  <2>. QED  BY <1>1, <1>2, <2>1, <2>2
<1>4. TypeOK'
  BY <1>2, <1>3 DEF IInv, TypeOK
<1>5. ASSUME Faithful /\ LastIsText /\ ~More /\ Len(written) = ptr - 1
      PROVE  EventAsSent' /\ CutAtTheEnd'
  <2>1. CASE EndsInNewline
    <3>1. ptr = Len(data) /\ data[ptr] = 0
      BY <1>1, <1>5, <2>1 DEF More, EndsInNewline, LastIsText
    <3>2. Len(written') = Len(data) /\ \A i \in 1..Len(data) : written'[i] = data[i]
      <4>1. Len(written') = Len(data) /\ Len(written) = Len(data) - 1 /\ written'[Len(data)] = data[Len(data)]
        BY <1>1, <1>3, <1>5, <2>1, <3>1
      <4>2. \A i \in 1..Len(data) - 1 : written'[i] = data[i]
        BY <1>1, <1>3, <1>5, <4>1 DEF Faithful
      <4>. QED  BY <1>1, <4>1, <4>2
    <3>3. written' = data
      BY <1>3, <1>9, <3>2, SameLines
    <3>. QED  BY <1>1, <1>2, <3>2, <3>3 DEF EventAsSent, CutAtTheEnd
  <2>2. CASE ~EndsInNewline
    <3>1. CASE ptr = Len(data) + 1
      <4>1. Len(written') = Len(data) /\ \A i \in 1..Len(data) : written'[i] = data[i]
        BY <1>1, <1>2, <1>5, <2>2, <3>1 DEF Faithful
      <4>2. written' = data
        BY <1>3, <1>9, <4>1, SameLines
      <4>. QED  BY <1>1, <1>2, <4>1, <4>2 DEF EventAsSent, CutAtTheEnd
    <3>2. CASE ptr # Len(data) + 1
      <4>1. ptr = Len(data) /\ data[ptr] = 0 /\ Len(data) = 1
        <5>1. ptr = Len(data) /\ ~(data[ptr] > 0)
          BY <1>1, <1>5, <3>2 DEF More
        <5>2. data[ptr] \in Nat
          BY <1>1, <1>9, <5>1
        <5>3. data[ptr] = 0
          BY <5>1, <5>2
        <5>. QED  BY <1>1, <2>2, <5>1, <5>3 DEF EndsInNewline
      <4>2. data = <<0>> /\ Len(written') = 0
        BY <1>1, <1>2, <1>5, <2>2, <4>1
      <4>. QED  BY <1>2, <4>2 DEF EventAsSent, CutAtTheEnd
    <3>. QED  BY <3>1, <3>2
  <2>. QED  BY <2>1, <2>2
<1>6. ASSUME (Faithful \/ CutLast) /\ pos > Size - 100
      PROVE  EventAsSent' /\ CutAtTheEnd'
  <2>1. EventAsSent'
    BY <1>1, <1>2, <1>6 DEF EventAsSent
  <2>2. CutAtTheEnd'
    <3>1. CASE Faithful
      <4>1. \A i \in 1..Len(written) : i <= Len(data) /\ written'[i] = data[i]
        BY <1>3, <3>1 DEF Faithful
      <4>2. \A i \in 1..Len(written') :
              i \in 1..Len(written) \/ (i = Len(written') /\ written'[i] = 0 /\ EndsInNewline)
        BY <1>1, <1>3
      <4>3. data' = data /\ EndsInNewline' = EndsInNewline
        BY <1>2 DEF EndsInNewline
      <4>. QED  BY <4>1, <4>2, <4>3, Zenon DEF CutAtTheEnd
    <3>2. CASE CutLast
      <4>. DEFINE n == Len(written)
      <4>1. n > 0 /\ n <= Len(data) /\ written[n] < data[n] /\ \A i \in 1..n - 1 : written[i] = data[i]
        BY <3>2 DEF CutLast
      <4>3. n \in 1..n /\ \A i \in 1..n - 1 : i \in 1..n /\ i <= Len(data)
        BY <1>1, <4>1
      <4>4. /\ written'[n] < data[n]
            /\ \A i \in 1..n - 1 : i <= Len(data) /\ written'[i] = data[i]
        BY <1>3, <4>1, <4>3
      <4>2. \A j \in n + 1..Len(written') : j = Len(written') /\ written'[j] = 0 /\ EndsInNewline
        BY <1>1, <1>3
      <4>5. data' = data /\ EndsInNewline' = EndsInNewline
        BY <1>2 DEF EndsInNewline
      <4>6. \A i \in 1..Len(written') :
              i \in 1..n - 1 \/ i = n \/ (i = Len(written') /\ written'[i] = 0 /\ EndsInNewline)
        BY <1>1, <1>3
      <4>. HIDE DEF n
      <4>. QED  BY <4>1, <4>2, <4>4, <4>5, <4>6, Zenon DEF CutAtTheEnd
    <3>. QED  BY <1>6, <3>1, <3>2
  <2>. QED  BY <2>1, <2>2
<1>7. EventAsSent' /\ CutAtTheEnd'
  BY <1>5, <1>6 DEF IInv, LoopInv, Trailing
<1>8. LoopInv'
  BY <1>1, <1>2, <1>7 DEF LoopInv, OverrunOnlyByName
<1>. QED  BY <1>4, <1>8 DEF IInv

LEMMA SentHolds ==
  ASSUME IInv, SendChunk \/ QueueFrame
  PROVE  IInv'
<1>1. /\ UNCHANGED <<protocol, event, data, ptr, pos, written>> /\ pc = "send" /\ pc' = "done"
  BY DEF SendChunk, QueueFrame, eventVars
<1>2. taken' \in Seq(Nat)
  <2>1. pos \in Nat /\ SizeLine \in Nat
    BY DEF IInv, TypeOK, SizeLine
  <2>2. \A n \in Nat : Takes(n) \subseteq Nat
    BY DEF Takes
  <2>3. CASE SendChunk
    <3>1. PICK a \in Takes(SizeLine), b \in Takes(pos), c \in Takes(2) : taken' = <<a, b, c>>
      BY <2>3 DEF SendChunk
    <3>. QED  BY <2>1, <2>2, <3>1
  <2>4. CASE QueueFrame
    BY <2>1, <2>4 DEF QueueFrame
  <2>. QED  BY <2>3, <2>4
<1>3. TypeOK'
  BY <1>1, <1>2 DEF IInv, TypeOK
<1>4. LoopInv'
  BY <1>1 DEF IInv, LoopInv, EventAsSent, CutAtTheEnd, EndsInNewline, OverrunOnlyByName
<1>. QED  BY <1>3, <1>4 DEF IInv

(* The invariant holds at first, and every step of sse_send keeps it. *)
THEOREM EventInvariance == Spec => []IInv
<1>1. IInv /\ [Next]_vars => IInv'
  <2>. SUFFICES ASSUME IInv, [Next]_vars PROVE IInv'
    OBVIOUS
  <2>1. CASE UNCHANGED vars
    BY <2>1 DEF vars, eventVars, IInv, TypeOK, LoopInv, Faithful, LastIsText, CutLast, More,
                EventAsSent, CutAtTheEnd, EndsInNewline, OverrunOnlyByName
  <2>2. CASE Line
    BY <2>2, LineFits
  <2>3. CASE LoopEnds
    BY <2>3, LoopEndsHolds
  <2>4. CASE Trailing
    BY <2>4, TrailingHolds
  <2>5. CASE SendChunk \/ QueueFrame
    BY <2>5, SentHolds
  <2>. QED  BY <2>1, <2>2, <2>3, <2>4, <2>5 DEF Next
<1>. QED  BY InitHolds, <1>1, PTL DEF Spec

(* The places in the data and in the buffer stay within their types: the loop's pointer
   does not pass the end of the data, and no count becomes negative. *)
THEOREM EventTypes == Spec => []TypeOK
<1>1. IInv => TypeOK
  BY DEF IInv
<1>. QED  BY EventInvariance, <1>1, PTL

(* The only event that is written past the end of its buffer is one whose name leaves
   fewer than 20 bytes of it: for every size of the buffer, and whatever the
   lines of the data. *)
THEOREM OnlyLongNamesOverrun == Spec => []OverrunOnlyByName
<1>1. IInv => OverrunOnlyByName
  BY DEF IInv, LoopInv
<1>. QED  BY EventInvariance, <1>1, PTL

(* An event that does not fill its buffer reaches the client with the lines its
   handler gave, the empty ones and the one behind a last line end included. *)
THEOREM EventDelivered == Spec => []EventAsSent
<1>1. IInv => EventAsSent
  BY DEF IInv, TypeOK, LoopInv, EventAsSent
<1>. QED  BY EventInvariance, <1>1, PTL

(* An event that is too long loses its end and nothing before it. *)
THEOREM CutOnlyAtTheEnd == Spec => []CutAtTheEnd
<1>1. IInv => CutAtTheEnd
  <2>. SUFFICES ASSUME IInv PROVE CutAtTheEnd
    OBVIOUS
  <2>1. written \in Seq(Nat) /\ Len(written) \in Nat /\ data \in Seq(LineLens)
    BY DEF IInv, TypeOK
  <2>2. Faithful => CutAtTheEnd
    BY DEF Faithful, CutAtTheEnd
  <2>3. CutLast => CutAtTheEnd
    BY <2>1 DEF CutLast, CutAtTheEnd
  <2>. QED  BY <2>2, <2>3 DEF IInv, TypeOK, LoopInv
<1>. QED  BY EventInvariance, <1>1, PTL
=============================================================================
