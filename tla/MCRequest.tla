------------------------------ MODULE MCRequest ------------------------------
(* Requests for the instances of Request that TLC checks, with the verdict and
   the content a whole request stands for, worked out from its parts and not
   with the parser. *)
EXTENDS Request, TLC

Section(start, rows) ==
  <<start>> \o CRLF \o FlattenSeq([i \in 1..Len(rows) |-> <<rows[i]>> \o CRLF]) \o CRLF

Data(n) == SubSeq(<<"x", "y", "z", "w">>, 1, n)

------------------------------------------------------------------------------
(* Requests without a body or with a Content-Length, cut anywhere. *)

HeaderRows == {<<"host">>, <<"badRow">>, <<"length1">>, <<"host", "length2">>,
               <<"length4", "host">>, <<"length2", "badRow">>}

Length(rows) == IF Contains(rows, "length1") THEN 1
                ELSE IF Contains(rows, "length2") THEN 2
                ELSE IF Contains(rows, "length4") THEN 4 ELSE 0

FramedVerdict(start, rows) ==
  IF start = "unknownMethod" THEN "not implemented"
  ELSE IF start = "badStart" \/ Contains(rows, "badRow") THEN "thrown"
  ELSE IF Length(rows) > Limit THEN "too large" ELSE "accepted"

Framed(start, rows) ==
  [wire    |-> Section(start, rows) \o Data(Length(rows)),
   verdict |-> FramedVerdict(start, rows),
   content |-> Data(Length(rows)),
   cuts    |-> 1..20]

FramedMessages == {Framed(start, rows) : start \in StartLines, rows \in HeaderRows}

(* A second request sent behind the first: all of it where there is no body to be
   measured, else as much of it as fits the limit together with the body. *)
Behind(m, next) == [m EXCEPT !.wire = @ \o next, !.cuts = 1..(Len(m.wire) + Len(next))]

PipelinedMessages ==
  {Behind(Framed(start, <<"host">>), Section("badStart", <<"host">>)) : start \in StartLines}
  \cup {Behind(Framed("start", <<"length1">>), <<"start">>)}

(* What is said above of these requests is what they say when read as a whole. *)
ASSUME FramingAssumption == \A m \in FramedMessages \cup PipelinedMessages : WellFramed(m)

(* A request with no header row at all. *)
BareMessages == {Framed("start", <<>>)}

------------------------------------------------------------------------------
(* Requests with a chunked body. *)

SumTo(sizes, i) == FoldLeft(+, 0, SubSeq(sizes, 1, i))

Chunk(sizes, i) ==
  <<ToString(sizes[i])>> \o CRLF
  \o SubSeq(Data(4), SumTo(sizes, i - 1) + 1, SumTo(sizes, i)) \o CRLF

(* The wire up to and including chunk i. *)
UpTo(sizes, i) == FlattenSeq([j \in 1..i |-> Chunk(sizes, j)])

ChunkedHead == Section("start", <<"chunked">>)

(* Places where a piece may end: anywhere in the head, after the data of a chunk
   and, but for the last chunk with data, after the CRLF that follows it. *)
Chunked(sizes) ==
  LET n == Len(sizes)
      end(i) == Len(ChunkedHead \o UpTo(sizes, i))
      wire == ChunkedHead \o UpTo(sizes, n) \o <<"0">> \o CRLF \o CRLF
  IN [wire    |-> wire,
      verdict |-> "accepted",
      content |-> Data(SumTo(sizes, n)),
      cuts    |-> 1..Len(ChunkedHead) \cup {end(i) - 2 : i \in 1..n}
                  \cup {end(i) : i \in 1..(n - 1)} \cup {Len(wire)},
      sums    |-> {SumTo(sizes, i) : i \in 0..n}]

(* Both framings, and in one piece: the chunks count. *)
Both ==
  LET wire == Section("start", <<"length4", "chunked">>)
              \o From(Chunked(<<2>>).wire, Len(ChunkedHead) + 1)
  IN [Chunked(<<2>>) EXCEPT !.wire = wire, !.cuts = {Len(wire)}]

ChunkedMessages ==
  {Chunked(sizes) : sizes \in {<<1>>, <<2>>, <<4>>, <<1, 1>>, <<2, 1>>, <<1, 2, 1>>}}
  \cup {Both}

(* Both kinds of request, a record with sums in either case. *)
WholeMessages ==
  {m @@ [sums |-> {}] : m \in FramedMessages \cup PipelinedMessages} \cup ChunkedMessages

(* Every chunk, the last one included, in a piece of its own. *)
OneByOne(m) ==
  [m EXCEPT !.cuts = {Len(ChunkedHead), Len(m.wire) - 5, Len(m.wire)}]

SingleChunk == {OneByOne(Chunked(<<3>>))}
==============================================================================
