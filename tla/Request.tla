------------------------------- MODULE Request -------------------------------
(***************************************************************************)
(* Request::parse, the incremental parser of one connection, fed with      *)
(* whatever pieces of a request recv happens to return.                    *)
(*                                                                         *)
(* A byte sequence is a sequence of symbols: "CR" and "LF", which the      *)
(* parser looks for and a piece may end between; hexadecimal digits, which *)
(* chunk sizes are made of; letters, which are no digits; and, as one      *)
(* symbol each, a start line and a header row, whose text matters only for *)
(* the verdict it gets.                                                    *)
(***************************************************************************)
EXTENDS Naturals, Sequences, SequencesExt, FiniteSetsExt, RequestPhases

CONSTANTS Messages,   \* requests clients send: [wire, verdict, content, cuts]
          Limit       \* client_max_body_size

ASSUME LimitAssumption == Limit \in Nat

CRLF == <<"CR", "LF">>
Blank == {"CR", "LF"}
Digit == [d \in {"0", "1", "2", "3", "4"} |->
            CASE d = "0" -> 0 [] d = "1" -> 1 [] d = "2" -> 2 [] d = "3" -> 3 [] d = "4" -> 4]
Letters == {"x", "y", "z", "w"}

(* Start lines: accepted; a method the server does not know; a missing URL or
   version, or a version that is neither HTTP/1.0 nor HTTP/1.1. *)
StartLines == {"start", "unknownMethod", "badStart"}

(* Header rows: one without effect on the parser; one without colon or value, or
   a Content-Length that is no number; Transfer-Encoding: chunked; lengths. *)
Announced == [length1 |-> 1, length2 |-> 2, length4 |-> 4]
Rows == {"host", "badRow", "chunked"} \cup DOMAIN Announced

Symbols == Blank \cup DOMAIN Digit \cup Letters \cup StartLines \cup Rows

ASSUME MessagesAssumption == \A m \in Messages : m.wire \in Seq(Symbols)

VARIABLES message,   \* the request this client sends
          received,  \* how many symbols of it recv has returned
          aligned,   \* every piece ended at one of message.cuts
          req        \* the Request object, and whether parse has thrown

vars == <<message, received, aligned, req>>

Fields == [unparsed : Seq(Symbols), startLineParsed : BOOLEAN, headersParsed : BOOLEAN,
           bodyParsed : BOOLEAN, chunked : BOOLEAN, contentLength : Nat,
           body : Seq(Symbols), errorCode : {0, 413, 501}, threw : BOOLEAN]

NewRequest == [unparsed |-> <<>>, startLineParsed |-> FALSE, headersParsed |-> FALSE,
               bodyParsed |-> FALSE, chunked |-> FALSE, contentLength |-> 0,
               body |-> <<>>, errorCode |-> 0, threw |-> FALSE]

TypeOK == /\ message \in Messages
          /\ received \in 0..Len(message.wire)
          /\ aligned \in BOOLEAN
          /\ req \in Fields

Init == /\ message \in Messages
        /\ received = 0
        /\ aligned = TRUE
        /\ req = NewRequest

------------------------------------------------------------------------------
(* std::string: find (0 for npos) and the part of a string from a position on. *)

Find(s, pattern) ==
  LET Places == {i \in 1..Len(s) : IsPrefix(pattern, SubSeq(s, i, Len(s)))}
  IN IF Places = {} THEN 0 ELSE Min(Places)

From(s, i) == SubSeq(s, i, Len(s))

------------------------------------------------------------------------------
(* parseStartLine: nothing without a CRLF.  An empty line has an unknown method. *)
ParseStartLine(r) ==
  LET pos == Find(r.unparsed, CRLF)
      line == SubSeq(r.unparsed, 1, pos - 1)
      rest == [r EXCEPT !.unparsed = From(@, pos + 2)]
  IN CASE pos = 0 -> r
       [] pos > 0 /\ (line = <<>> \/ line = <<"unknownMethod">>) ->
            [rest EXCEPT !.errorCode = 501]
       [] pos > 0 /\ line = <<"badStart">> -> [rest EXCEPT !.threw = TRUE]
       [] OTHER -> [rest EXCEPT !.startLineParsed = TRUE]

\* Mutant of ParseHeaders: a bad row is answered with 400 instead of thrown.
ParseHeadersBadRequest(r) ==
  LET end == Find(r.unparsed, CRLF \o CRLF)
      rows == ToSet(SubSeq(r.unparsed, 1, end)) \ Blank
      next == [r EXCEPT !.unparsed = From(@, end + 4), !.headersParsed = TRUE]
  IN CASE end = 0 -> r
       [] end > 0 /\ "badRow" \in rows -> [r EXCEPT !.errorCode = 400]
       [] OTHER -> next

(* Each Content-Length replaces the one before it. *)
LastLength(length, rows) ==
  FoldLeft(LAMBDA n, row : IF row \in DOMAIN Announced THEN Announced[row] ELSE n,
           length, rows)

(* parseHeaders: nothing until an empty row is certain to be there; then the rows
   up to the first empty one, which is the first row of all if the text begins
   with CRLF. *)
ParseHeaders(r) ==
  LET blank == Find(r.unparsed, CRLF \o CRLF)
      end == IF IsPrefix(CRLF, r.unparsed) THEN 2 ELSE blank + 3
      rows == SubSeq(r.unparsed, 1, end)
  IN CASE blank = 0 -> r
       [] blank > 0 /\ Contains(rows, "badRow") -> [r EXCEPT !.threw = TRUE]
       [] OTHER ->
            [r EXCEPT !.unparsed = From(@, end + 1),
                      !.headersParsed = TRUE,
                      !.chunked = Contains(rows, "chunked"),
                      !.contentLength = LastLength(@, rows)]

------------------------------------------------------------------------------
(* parseBody, Transfer-Encoding: chunked. *)

Hex(digits) == FoldLeft(LAMBDA value, d : 16 * value + Digit[d], 0, digits)

(* ss >> std::hex >> chunkSize: blanks are skipped, then digits are read; 0 when
   there is none. *)
HexValue(s) ==
  LET start == Min({i \in 1..Len(s) : s[i] \notin Blank} \cup {Len(s) + 1})
      stop == Min({i \in start..Len(s) : s[i] \notin DOMAIN Digit} \cup {Len(s) + 1})
  IN Hex(SubSeq(s, start, stop - 1))

(* Of a text with chunks: the size line, which is all of it if there is no CRLF; what
   follows the size line, the data of the first chunk, what follows the data; whether it
   is the last chunk that follows; and the text of the next chunk. *)
SizeLine(s) ==
  LET pos == Find(s, CRLF) IN IF pos = 0 THEN s ELSE SubSeq(s, 1, pos - 1)

ChunkSize(s) == HexValue(SizeLine(s))

AfterSize(s) == From(s, Len(SizeLine(s)) + 3)

ChunkData(s) ==
  SubSeq(AfterSize(s), 1, IF ChunkSize(s) < Len(AfterSize(s)) THEN ChunkSize(s)
                          ELSE Len(AfterSize(s)))

AfterData(s) == From(AfterSize(s), ChunkSize(s) + 1)

LastFollows(s) == \/ IsPrefix(CRLF \o <<"0">> \o CRLF, AfterData(s))
                  \/ IsPrefix(<<"0">> \o CRLF, AfterData(s))

NextChunk(s) == IF IsPrefix(CRLF, AfterData(s)) THEN From(AfterData(s), 3) ELSE AfterData(s)

(* The chunks in s: what is left of s, what is appended to the body and whether
   the last chunk was seen.  The size of s that is compared with the size of the
   chunk counts the size line. *)
Chunks[s \in Seq(Symbols)] ==
  IF Len(s) < ChunkSize(s) THEN [left |-> s, data |-> <<>>, last |-> FALSE]
  ELSE IF LastFollows(s) THEN [left |-> AfterData(s), data |-> ChunkData(s), last |-> TRUE]
  ELSE IF NextChunk(s) = <<>> THEN [left |-> <<>>, data |-> ChunkData(s), last |-> FALSE]
  ELSE [Chunks[NextChunk(s)] EXCEPT !.data = ChunkData(s) \o @]

\* Mutant of ParseChunks: the body is replaced by the chunks of the last call.
ParseChunksAnew(r) ==
  LET c == Chunks[r.unparsed]
  IN [r EXCEPT !.unparsed = c.left, !.body = c.data, !.bodyParsed = c.last]

ParseChunks(r) ==
  LET c == Chunks[r.unparsed]
  IN [r EXCEPT !.unparsed = c.left, !.body = @ \o c.data, !.bodyParsed = c.last]

\* Mutants of ParseLength: what has come is taken for the body; the text that waits
\* is not measured.
ParseLengthEager(r) ==
  IF Len(r.unparsed) > Limit THEN [r EXCEPT !.errorCode = 413]
  ELSE [r EXCEPT !.body = @ \o r.unparsed, !.unparsed = <<>>, !.bodyParsed = TRUE]

ParseLengthUnmeasured(r) ==
  IF Len(r.unparsed) < r.contentLength THEN r
  ELSE [r EXCEPT !.body = SubSeq(r.unparsed, 1, r.contentLength), !.bodyParsed = TRUE]

(* parseBody, Content-Length: all of the body at once, or nothing. *)
ParseLength(r) ==
  IF Len(r.unparsed) > Limit THEN [r EXCEPT !.errorCode = 413]
  ELSE IF Len(r.unparsed) < r.contentLength THEN r
  ELSE [r EXCEPT !.unparsed = From(@, r.contentLength + 1),
                 !.body = SubSeq(r.unparsed, 1, r.contentLength),
                 !.bodyParsed = TRUE]

ParseBody(r) ==
  IF r.chunked THEN ParseChunks(r)
  ELSE IF r.contentLength > 0 THEN ParseLength(r)
  ELSE [r EXCEPT !.bodyParsed = TRUE]

------------------------------------------------------------------------------
\* Mutants of Parse: one stage in each call; no test against the limit.
ParseOneStage(r, input) ==
  LET r0 == [r EXCEPT !.unparsed = @ \o input]
  IN IF ~r0.startLineParsed THEN ParseStartLine(r0)
     ELSE IF r0.contentLength > Limit THEN [r0 EXCEPT !.errorCode = 413]
     ELSE IF ~r0.headersParsed THEN ParseHeaders(r0) ELSE ParseBody(r0)

ParseUnlimited(r, input) ==
  LET r0 == [r EXCEPT !.unparsed = @ \o input]
      r1 == IF r0.startLineParsed THEN r0 ELSE ParseStartLine(r0)
      r2 == IF r1.headersParsed \/ ~r1.startLineParsed THEN r1 ELSE ParseHeaders(r1)
  IN IF ~r2.headersParsed THEN r2 ELSE ParseBody(r2)

(* parse: every stage that can be done is done, in one call.  The test against
   the limit sees a Content-Length only in the call after the one that parsed
   the headers. *)
Parse(r, input) ==
  LET r0 == [r EXCEPT !.unparsed = @ \o input]
      r1 == IF r0.startLineParsed THEN r0 ELSE ParseStartLine(r0)
      r2 == IF r1.headersParsed THEN r1 ELSE ParseHeaders(r1)
  IN CASE ~r1.startLineParsed -> r1
       [] r1.startLineParsed /\ r1.contentLength > Limit -> [r1 EXCEPT !.errorCode = 413]
       [] r1.startLineParsed /\ r1.contentLength <= Limit ->
            IF ~r2.headersParsed \/ r2.bodyParsed THEN r2 ELSE ParseBody(r2)

IsParsed(r) == \/ r.errorCode # 0
               \/ r.startLineParsed /\ r.headersParsed /\ r.bodyParsed

------------------------------------------------------------------------------
(* recv returns the next piece, however long. *)
Receive(n) ==
  /\ ~IsParsed(req) /\ ~req.threw
  /\ n \in 1..(Len(message.wire) - received)
  /\ received' = received + n
  /\ aligned' = (aligned /\ received + n \in message.cuts)
  /\ req' = Parse(req, SubSeq(message.wire, received + 1, received + n))
  /\ UNCHANGED message

(* recv returns 0 or -1: the empty string is parsed. *)
ReceiveNothing ==
  /\ ~IsParsed(req) /\ ~req.threw
  /\ req' = Parse(req, <<>>)
  /\ UNCHANGED <<message, received, aligned>>

Next == ReceiveNothing \/ \E n \in 1..Len(message.wire) : Receive(n)

Spec == Init /\ [][Next]_vars

------------------------------------------------------------------------------
Phase(r) == CASE r.threw -> "thrown"
              [] ~r.threw /\ IsParsed(r) -> "complete"
              [] ~r.threw /\ ~IsParsed(r) /\ ~r.headersParsed -> "head"
              [] OTHER -> IF r.contentLength > Limit THEN "over" ELSE "body"

Verdict(r) == CASE r.threw -> "thrown"
                [] ~r.threw /\ r.errorCode = 413 -> "too large"
                [] ~r.threw /\ r.errorCode = 501 -> "not implemented"
                [] OTHER -> "accepted"

(* A request that is not chunked, read as a whole: its first line, what follows it,
   the rows up to and including the empty one, what follows them, and the length the
   rows announce. *)
StartOf(w) == SubSeq(w, 1, Find(w, CRLF) - 1)
HeadersOf(w) == From(w, Find(w, CRLF) + 2)
RowsOf(w) == SubSeq(HeadersOf(w), 1, Find(HeadersOf(w), CRLF \o CRLF) + 3)
BodyOf(w) == From(HeadersOf(w), Find(HeadersOf(w), CRLF \o CRLF) + 4)
LengthOf(w) == LastLength(0, RowsOf(w))

(* The verdict and the content of m are those of its wire read as a whole: it has a
   start line, at least one header row if that line is accepted, and all of the body
   its rows announce.  No more follows a body that has a length than fits the limit
   with it, for what waits is measured with what belongs to the next request. *)
WellFramed(m) ==
  LET start == StartOf(m.wire)
      blank == Find(HeadersOf(m.wire), CRLF \o CRLF)
      rows == RowsOf(m.wire)
      length == LengthOf(m.wire)
  IN /\ Find(m.wire, CRLF) > 0
     /\ start \in {<<>>, <<"unknownMethod">>} => m.verdict = "not implemented"
     /\ start = <<"badStart">> => m.verdict = "thrown"
     /\ start \notin {<<>>, <<"unknownMethod">>, <<"badStart">>} =>
          /\ blank > 0 /\ ~IsPrefix(CRLF, HeadersOf(m.wire))
          /\ Contains(rows, "badRow") => m.verdict = "thrown"
          /\ ~Contains(rows, "badRow") =>
               /\ ~Contains(rows, "chunked")
               /\ Len(BodyOf(m.wire)) >= length
               /\ length > Limit => m.verdict = "too large"
               /\ length <= Limit =>
                    /\ m.verdict = "accepted"
                    /\ m.content = SubSeq(BodyOf(m.wire), 1, length)
                    /\ length > 0 => Len(BodyOf(m.wire)) <= Limit

(* However a request is cut in pieces, the verdict on it and the body handed to
   the handlers are those of the whole request: no piece is lost, counted twice or
   put in the wrong place, no body is taken before it is complete, and a body above
   the limit never gets through.  For chunked bodies the pieces must end at the
   places in message.cuts. *)
DecidedAsSent ==
  aligned /\ Phase(req) \in {"complete", "thrown"} =>
    /\ Verdict(req) = message.verdict
    /\ message.verdict = "accepted" => req.body = message.content

(* When everything the client sends has been received the request is decided: the
   client is not left waiting for an answer that needs bytes it will not send. *)
WholeRequestIsDecided ==
  aligned /\ received = Len(message.wire) => Phase(req) \in {"complete", "thrown"}

(* A body framed by Content-Length that does not fit the limit is not stored while
   its rest is awaited, whatever length was announced. *)
BufferWithinLimit ==
  Phase(req) \in {"body", "over"} /\ ~req.chunked => Len(req.unparsed) <= Limit

(* The parser moves between phases only as RequestPhases lists, which is all that
   the model of the event loop assumes of it. *)
MovesAsListed ==
  [][ Phase(req') \in IF received' = received THEN AfterNothing[Phase(req)]
                      ELSE AfterBytes[Phase(req)] ]_vars

------------------------------------------------------------------------------
(* What comments of the code say of it and the code does not do. *)

(* "Only parse if we have received the full headers section, delimited by
   \r\n\r\n": once it has been received, it is parsed. *)
HeaderSectionIsParsed ==
  LET blank == Find(message.wire, CRLF \o CRLF)
  IN received >= blank + 3 /\ req.startLineParsed => req.headersParsed \/ req.threw

(* "Wait until we have at least one chunk to parse": a chunk is appended to the body
   only as a whole. *)
ChunksAreWhole == req.chunked => Len(req.body) \in message.sums

(* "If the unparsed data is the last chunk" the body is complete: with one chunk in
   each piece, the last one included, the request is decided. *)
LastChunkEndsBody ==
  aligned /\ req.chunked /\ received = Len(message.wire) => req.bodyParsed
==============================================================================
