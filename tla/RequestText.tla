----------------------------- MODULE RequestText -----------------------------
(* What becomes of the text of an HTTP/1 request: it arrives in parts, is tested
   for completeness, is cut into lines in place by strtok, and is then read a
   second time, by line ends, for the headers and the body a plugin handler gets.
   A byte that matters is itself; a run of others is a letter. "G" is a good
   request line, "L" and "U" begin the Content-Length and "Upgrade: h2c" fields. *)
EXTENDS Integers, Sequences, FiniteSets, SequencesExt

CONSTANTS Lines,      \* header lines a client may send
          Bodies,     \* bodies a client may send
          MaxLines,   \* header lines of a request
          MaxHeaders  \* headers the plugin's table holds (64)

VARIABLES
  sent,     \* the request as its client means it
  stream,   \* the part of its text that has not arrived
  buf,      \* read_buffer, its first bytes_read bytes
  phase,    \* what is done with the request next
  upgrade,  \* is_upgrade_h2c
  hdr_end,  \* where the plugin's reading found the headers' end, 0 for NULL
  pos, line_num, \* of its loop over the lines
  headers, body  \* of the PluginRequest

vars == <<sent, stream, buf, phase, upgrade, hdr_end, pos, line_num, headers, body>>

CR == "\r"
LF == "\n"
NUL == "0"
Delims == {CR, LF}
Garbage == <<"garbage">>   \* what an uninitialized array holds

(* A line holds no line end and no NUL, and is not empty; a body is any text. *)
ASSUME TextAssumption ==
  /\ MaxLines \in Nat /\ MaxHeaders \in Nat \ {0}
  /\ Lines \subseteq Seq(STRING) \ {<<>>} /\ Bodies \subseteq Seq(STRING)
  /\ \A line \in Lines : \A i \in DOMAIN line : line[i] \notin {CR, LF, NUL}

First(S) == CHOOSE i \in S : \A j \in S : i <= j

(* A C string ends at its first NUL. *)
CString(s) ==
  LET nuls == {i \in DOMAIN s : s[i] = NUL} IN
  IF nuls = {} THEN s ELSE SubSeq(s, 1, First(nuls) - 1)

-----------------------------------------------------------------------------
(* The client. One with a body says how long it is. *)

Eol(r) == IF r.eol = "crlf" THEN <<CR, LF>> ELSE <<LF>>
LengthLine == <<"L", ":", "n">>
Fields(r) == r.lines \o (IF r.body = <<>> THEN <<>> ELSE <<LengthLine>>)
Text(r) ==
  <<"G">> \o Eol(r) \o FlattenSeq([i \in DOMAIN Fields(r) |-> Fields(r)[i] \o Eol(r)])
          \o Eol(r) \o r.body

Requests == [eol : {"crlf", "lf"}, body : Bodies,
             lines : UNION {[1..n -> Lines] : n \in 0..MaxLines}]

Init ==
  /\ sent \in Requests
  /\ stream = Text(sent) /\ buf = <<>>
  /\ phase = "receive" /\ upgrade = FALSE
  /\ hdr_end = 0 /\ pos = 1 /\ line_num = 0
  /\ headers = <<>> /\ body = <<>>

-----------------------------------------------------------------------------
(* http1_handle_read. *)

EndsAt(b, mark) ==
  {i \in Len(mark)..Len(b) : SubSeq(b, i - Len(mark) + 1, i) = mark}

(* The last byte of the first CRLF CRLF or, without one, of the first LF LF. *)
find_header_end(b) ==
  LET crlf == EndsAt(b, <<CR, LF, CR, LF>>)
      lf == EndsAt(b, <<LF, LF>>) IN
  IF crlf # {} THEN First(crlf) ELSE IF lf # {} THEN First(lf) ELSE 0

(* Where strtok's tokens begin. *)
Starts(b) ==
  {i \in DOMAIN CString(b) : b[i] \notin Delims /\ (i = 1 \/ b[i - 1] \in Delims)}

(* A token other than the first, the request line, that begins with the byte. *)
HasField(b, name) == \E i \in Starts(b) : i # First(Starts(b)) /\ b[i] = name

parse_content_length(b, end) ==
  IF HasField(SubSeq(b, 1, end - 1), "L") THEN Len(sent.body) ELSE 0

(* Mutant: one byte of the body is not waited for. *)
CompleteEarly(b) ==
  LET end == find_header_end(b) IN
  end # 0 /\ end + parse_content_length(b, end) <= Len(b) + 1

Complete(b) ==
  LET end == find_header_end(b) IN
  end # 0 /\ end + parse_content_length(b, end) <= Len(b)

(* The read loop takes what has arrived, and the request is tested. *)
Arrive(n) ==
  LET b == buf \o SubSeq(stream, 1, n) IN
  /\ phase = "receive" /\ n \in 1..Len(stream)
  /\ buf' = b
  /\ stream' = SubSeq(stream, n + 1, Len(stream))
  /\ phase' = IF Complete(b) THEN "parse" ELSE "receive"
  /\ UNCHANGED <<sent, upgrade, hdr_end, pos, line_num, headers, body>>

(* strtok through the whole buffer puts a NUL over the first delimiter after
   each token. *)
Tokenized(b) ==
  LET text == DOMAIN CString(b) IN
  [i \in DOMAIN b |-> IF i - 1 \in text /\ b[i] \in Delims /\ b[i - 1] \notin Delims
                        THEN NUL ELSE b[i]]

(* Mutant: only line feeds that follow each other end the headers. *)
PluginHeaderEndAdjacent(b) ==
  LET near == {i \in DOMAIN b : b[i] = LF /\ i + 1 \in DOMAIN b /\ b[i + 1] = LF} IN
  IF near = {} THEN 0 ELSE First(near) + 1

(* The plugin's search for the blank line: a second line feed at most four bytes
   after the first of a pair. *)
PluginHeaderEnd(b) ==
  LET after(i) == {j \in i + 1..i + 4 : j \in DOMAIN b /\ b[j] = LF}
      near == {i \in DOMAIN b : b[i] = LF /\ after(i) # {}} IN
  IF near = {} THEN 0 ELSE First(after(First(near)))

(* http1_parse_request; unless it found an upgrade, handle_plugin_request reads
   the buffer again. *)
http1_parse_request ==
  /\ phase = "parse"
  /\ buf' = Tokenized(buf)
  /\ upgrade' = HasField(buf, "U")
  /\ hdr_end' = PluginHeaderEnd(buf')
  /\ phase' = IF upgrade' THEN "upgraded" ELSE "headers"
  /\ UNCHANGED <<sent, stream, pos, line_num, headers, body>>

-----------------------------------------------------------------------------
(* handle_plugin_request. *)

Colons(line) == {i \in DOMAIN line : line[i] = ":"}

(* The line without the CR, or the NUL that strtok put over it. *)
Trimmed(line) ==
  IF line # <<>> /\ Last(line) \in {CR, NUL} THEN Front(line) ELSE line

(* Mutant: the colon stays with the value. *)
ValuesFromColon(line) ==
  LET value == SubSeq(line, First(Colons(line)), Len(line)) IN
  IF value = <<>> THEN {<<>>, Garbage} ELSE {CString(value)}

(* The values the entry of the table may hold: an empty one is not copied. *)
ValuesOf(line) ==
  LET value == SubSeq(line, First(Colons(line)) + 1, Len(line)) IN
  IF value = <<>> THEN {<<>>, Garbage} ELSE {CString(value)}

HeaderLine ==
  LET end == First({i \in pos..Len(buf) : buf[i] = LF} \cup {Len(buf) + 1})
      line == Trimmed(SubSeq(buf, pos, end - 1)) IN
  /\ phase = "headers" /\ pos <= Len(buf) /\ Len(headers) < MaxHeaders
  /\ IF line_num > 0 /\ Colons(line) # {} /\ First(Colons(line)) > 1
       THEN \E value \in ValuesOf(line) :
              headers' = Append(headers,
                <<CString(SubSeq(line, 1, First(Colons(line)) - 1)), value>>)
       ELSE UNCHANGED headers
  /\ IF hdr_end # 0 /\ pos >= hdr_end
       THEN phase' = "body" /\ UNCHANGED <<pos, line_num>>
       ELSE pos' = end + 1 /\ line_num' = line_num + 1 /\ UNCHANGED phase
  /\ UNCHANGED <<sent, stream, buf, upgrade, hdr_end, body>>

HeadersDone ==
  /\ phase = "headers" /\ (pos > Len(buf) \/ Len(headers) = MaxHeaders)
  /\ phase' = "body"
  /\ UNCHANGED <<sent, stream, buf, upgrade, hdr_end, pos, line_num, headers, body>>

(* The rest of the buffer is the body; the handler is called with it. *)
ExtractBody ==
  /\ phase = "body"
  /\ body' = IF hdr_end = 0 THEN <<>> ELSE SubSeq(buf, hdr_end + 1, Len(buf))
  /\ phase' = "handler"
  /\ UNCHANGED <<sent, stream, buf, upgrade, hdr_end, pos, line_num, headers>>

Next ==
  \/ \E n \in 1..Len(stream) : Arrive(n)
  \/ http1_parse_request \/ HeaderLine \/ HeadersDone \/ ExtractBody

Spec == Init /\ [][Next]_vars

-----------------------------------------------------------------------------
(* Properties. *)

Has(s, bytes) == \E i \in DOMAIN s : s[i] \in bytes

(* The headers a client sent: the lines with a name before a colon. *)
HeaderOf(line) ==
  <<SubSeq(line, 1, First(Colons(line)) - 1), SubSeq(line, First(Colons(line)) + 1, Len(line))>>
Named == {n \in DOMAIN Fields(sent) :
            LET colons == Colons(Fields(sent)[n]) IN colons # {} /\ First(colons) > 1}
SentHeader(n) == HeaderOf(Fields(sent)[n])
Rank(n) == Cardinality(Named \cap 1..n)   \* which of the headers line n is

(* What is left of the precondition of each property below is what one of the
   violated ones after them shows to be needed. *)
LongLines == \A i \in DOMAIN sent.lines : Len(sent.lines[i]) > 2
FullValues == \A n \in Named : SentHeader(n)[2] # <<>>

(* A request is taken for complete exactly when all of it has arrived, in however
   many parts: never with a part of its body missing, and never left waiting. *)
ParsedWhenWhole ==
  sent.eol = "crlf" \/ ~Has(sent.body, {CR})
    => (phase = "receive" <=> stream # <<>>)

(* The second reading of the buffer, after strtok wrote into it, finds every
   header the client sent, in order, up to the size of the table. *)
HeadersDelivered ==
  phase = "handler" /\ sent.eol = "crlf" /\ LongLines /\ FullValues
    => \A n \in Named : Rank(n) <= MaxHeaders =>
         Rank(n) \in DOMAIN headers /\ headers[Rank(n)] = SentHeader(n)

(* A body without line ends reaches the handler as it was sent. *)
BodyDelivered ==
  phase = "handler" /\ sent.eol = "crlf" /\ LongLines /\ ~Has(sent.body, Delims)
    => body = sent.body

-----------------------------------------------------------------------------
(* What comments and the documentation say and the code does not do. *)

(* README: "`const unsigned char* body` - Pointer to request body". *)
BodyAsSent == phase = "handler" /\ sent.eol = "crlf" /\ LongLines => body = sent.body

(* plugin.c: "Stop at blank line (hdr_end)". A line of the body is no header. *)
NoHeaderFromBody ==
  phase = "handler" /\ sent.eol = "crlf" /\ LongLines => Len(headers) <= Cardinality(Named)

(* plugin.c: "look for blank line: \r\n\r\n or \n\n". *)
LineFeedsAccepted ==
  phase = "handler" /\ sent.eol = "lf" /\ LongLines /\ ~Has(sent.body, Delims)
    => body = sent.body

(* plugin.c: "Extract header value". A handler sees no value nobody sent. *)
ValuesSent ==
  \A i \in DOMAIN headers : headers[i][2] # Garbage

(* http1_parse.c: the loop over the header lines runs while strlen(line) > 0, to
   stop at the empty line. The body cannot ask for an upgrade. *)
UpgradeFromHeaders ==
  upgrade => \E i \in DOMAIN sent.lines : sent.lines[i][1] = "U"
=============================================================================
