----------------------------- MODULE RequestProofs -----------------------------
(***************************************************************************)
(* Proofs about Request for every set of messages, every limit and every   *)
(* way in which recv may cut a message in pieces.                          *)
(***************************************************************************)
EXTENDS Request, Recursion, SequenceTheorems

Text == Seq(Symbols)

------------------------------------------------------------------------------
(* Lemmas about std::string. *)

LEMMA FindFacts ==
  ASSUME NEW s \in Text, NEW p \in Text, p # <<>>
  PROVE  /\ Find(s, p) \in 0..Len(s)
         /\ Find(s, p) # 0 => Find(s, p) + Len(p) - 1 <= Len(s)
<1>. DEFINE Places == {i \in 1..Len(s) : IsPrefix(p, SubSeq(s, i, Len(s)))}
<1>1. Len(s) \in Nat /\ Len(p) \in Nat
  BY DEF Text
<1>2. CASE Places = {}
  BY <1>1, <1>2 DEF Find
<1>3. CASE Places # {}
  <2>1. Places \in SUBSET Nat
    BY <1>1
  <2>2. Min(Places) \in Places
    BY <1>3, <2>1, MinFacts
  <2>3. Find(s, p) \in Places
    BY <1>3, <2>2 DEF Find
  <2>4. \A i \in 1..Len(s) : Len(SubSeq(s, i, Len(s))) = Len(s) - i + 1
    BY <1>1 DEF Text
  <2>5. Find(s, p) \in 1..Len(s) /\ Len(p) <= Len(s) - Find(s, p) + 1
    BY <2>3, <2>4 DEF IsPrefix
  <2>. QED BY <1>1, <2>5
<1>. QED BY <1>2, <1>3

LEMMA Patterns ==
  /\ CRLF \in Text /\ CRLF # <<>> /\ Len(CRLF) = 2
  /\ CRLF \o CRLF \in Text /\ CRLF \o CRLF # <<>> /\ Len(CRLF \o CRLF) = 4
<1>1. "CR" \in Symbols /\ "LF" \in Symbols
  BY DEF Symbols, Blank
<1>. QED BY <1>1 DEF CRLF, Text

LEMMA NothingFound == ASSUME NEW p PROVE Find(<<>>, p) = 0
BY DEF Find

LEMMA FromFacts ==
  ASSUME NEW s \in Text, NEW i \in Nat \ {0}
  PROVE  /\ From(s, i) \in Text
         /\ Len(From(s, i)) = IF i <= Len(s) THEN Len(s) - i + 1 ELSE 0
BY DEF From, Text

LEMMA PartFacts ==
  ASSUME NEW s \in Text, NEW n \in Nat, n <= Len(s)
  PROVE  SubSeq(s, 1, n) \in Text /\ Len(SubSeq(s, 1, n)) = n
BY DEF Text

LEMMA AppendNothing == ASSUME NEW s \in Text PROVE s \o <<>> = s
BY DEF Text

LEMMA Appended == ASSUME NEW s \in Text, NEW t \in Text PROVE s \o t \in Text
BY DEF Text

LEMMA EmptyText == <<>> \in Text /\ Len(<<>>) = 0 /\ \A s \in Text : Len(s) = 0 => s = <<>>
BY DEF Text
------------------------------------------------------------------------------
(* What the two folds return. *)

LEMMA LastLengthType ==
  ASSUME NEW b \in Nat, NEW s \in Text
  PROVE  LastLength(b, s) \in Nat
<1>. DEFINE n == Len(s)
            E(v, x) == IF x \in DOMAIN Announced THEN Announced[x] ELSE v
            iter == CHOOSE iter : iter = [t \in SUBSET DOMAIN s |->
                      IF t = {} THEN b ELSE E(iter[t \ {Max(t)}], s[Max(t)])]
            k == [i \in 1..n |-> [v \in Nat |-> E(v, s[i])]]
<1>1. LastLength(b, s) = iter[DOMAIN s]
  BY DEF LastLength, FoldLeft, MapThenFoldSet
<1>2. n \in Nat /\ DOMAIN s = 1..n
  BY DEF Text
<1>3. \A v \in Nat : \A x : E(v, x) \in Nat
  BY DEF Announced
<1>. HIDE DEF E
<1>4. \A i \in 1..n : \A v \in Nat : k[i][v] = E(v, s[i])
  OBVIOUS
<1>. HIDE DEF k, n
<1>5. CanFold(n, Nat, b, k)
  BY <1>2, <1>3, <1>4 DEF CanFold
<1>6. \A t \in SUBSET (1..n) : t # {} => Max(t) \in 1..n
  BY <1>2, MaxFacts
<1>7. PICK f : IsFold(f, n, Nat, b, k)
  BY <1>5, FoldExists
<1>8. \A t \in SUBSET (1..n) :
        f[t] = IF t = {} THEN b ELSE E(f[t \ {Max(t)}], s[Max(t)])
  BY <1>4, <1>6, <1>7 DEF IsFold
<1>9. f = [t \in SUBSET DOMAIN s |-> IF t = {} THEN b ELSE E(f[t \ {Max(t)}], s[Max(t)])]
  BY <1>2, <1>7, <1>8 DEF IsFold
<1>10. iter = [t \in SUBSET DOMAIN s |->
                 IF t = {} THEN b ELSE E(iter[t \ {Max(t)}], s[Max(t)])]
  BY <1>9
<1>. HIDE DEF iter
<1>11. ObeysFold(iter, n, Nat, b, k)
  BY <1>2, <1>4, <1>6, <1>10 DEF ObeysFold
<1>12. iter[1..n] \in Nat
  BY <1>2, <1>5, <1>11, FoldResult
<1>. QED BY <1>1, <1>2, <1>12

LEMMA HexType ==
  ASSUME NEW s \in Seq(DOMAIN Digit)
  PROVE  Hex(s) \in Nat
<1>. DEFINE n == Len(s)
            E(v, x) == 16 * v + Digit[x]
            iter == CHOOSE iter : iter = [t \in SUBSET DOMAIN s |->
                      IF t = {} THEN 0 ELSE E(iter[t \ {Max(t)}], s[Max(t)])]
            k == [i \in 1..n |-> [v \in Nat |-> E(v, s[i])]]
<1>1. Hex(s) = iter[DOMAIN s]
  BY DEF Hex, FoldLeft, MapThenFoldSet
<1>2. n \in Nat /\ DOMAIN s = 1..n /\ \A i \in 1..n : s[i] \in DOMAIN Digit
  OBVIOUS
<1>3. \A v \in Nat : \A x \in DOMAIN Digit : E(v, x) \in Nat
  BY DEF Digit
<1>. HIDE DEF E
<1>4. \A i \in 1..n : \A v \in Nat : k[i][v] = E(v, s[i])
  OBVIOUS
<1>. HIDE DEF k, n
<1>5. CanFold(n, Nat, 0, k)
  BY <1>2, <1>3, <1>4 DEF CanFold
<1>6. \A t \in SUBSET (1..n) : t # {} => Max(t) \in 1..n
  BY <1>2, MaxFacts
<1>7. PICK f : IsFold(f, n, Nat, 0, k)
  BY <1>5, FoldExists
<1>8. \A t \in SUBSET (1..n) :
        f[t] = IF t = {} THEN 0 ELSE E(f[t \ {Max(t)}], s[Max(t)])
  BY <1>4, <1>6, <1>7 DEF IsFold
<1>9. f = [t \in SUBSET DOMAIN s |-> IF t = {} THEN 0 ELSE E(f[t \ {Max(t)}], s[Max(t)])]
  BY <1>2, <1>7, <1>8 DEF IsFold
<1>10. iter = [t \in SUBSET DOMAIN s |->
                 IF t = {} THEN 0 ELSE E(iter[t \ {Max(t)}], s[Max(t)])]
  BY <1>9
<1>. HIDE DEF iter
<1>11. ObeysFold(iter, n, Nat, 0, k)
  BY <1>2, <1>4, <1>6, <1>10 DEF ObeysFold
<1>12. iter[1..n] \in Nat
  BY <1>2, <1>5, <1>11, FoldResult
<1>. QED BY <1>1, <1>2, <1>12

(* The size of a chunk is a number, whatever stands where it should stand. *)
LEMMA HexValueType == ASSUME NEW s \in Text PROVE HexValue(s) \in Nat
<1>. DEFINE start == Min({i \in 1..Len(s) : s[i] \notin Blank} \cup {Len(s) + 1})
            Stops == {i \in start..Len(s) : s[i] \notin DOMAIN Digit} \cup {Len(s) + 1}
            stop == Min(Stops)
            part == SubSeq(s, start, stop - 1)
<1>1. HexValue(s) = Hex(part)
  BY DEF HexValue
<1>2. Len(s) \in Nat /\ \A i \in 1..Len(s) : s[i] \in Symbols
  BY DEF Text
<1>3. start \in 1..(Len(s) + 1)
  <2>. DEFINE Starts == {i \in 1..Len(s) : s[i] \notin Blank} \cup {Len(s) + 1}
  <2>1. Starts \in SUBSET Nat /\ Starts # {} /\ \A i \in Starts : i \in 1..(Len(s) + 1)
    BY <1>2
  <2>. HIDE DEF Starts
  <2>2. Min(Starts) \in Starts
    BY <2>1, MinFacts
  <2>. QED BY <2>1, <2>2 DEF Starts
<1>. HIDE DEF start
<1>4. /\ stop \in start..(Len(s) + 1)
      /\ \A i \in start..Len(s) : i < stop => s[i] \in DOMAIN Digit
  <2>1. /\ Stops \in SUBSET Nat /\ Stops # {} /\ \A i \in Stops : i \in start..(Len(s) + 1)
        /\ \A i \in start..Len(s) : s[i] \notin DOMAIN Digit => i \in Stops
        /\ Len(s) + 1 \in Stops
    BY <1>2, <1>3
  <2>. HIDE DEF Stops
  <2>2. Min(Stops) \in Stops /\ \A i \in Stops : Min(Stops) <= i
    BY <2>1, MinFacts
  <2>3. stop \in start..(Len(s) + 1)
    BY <2>1, <2>2
  <2>4. ASSUME NEW i \in start..Len(s), i < stop, s[i] \notin DOMAIN Digit PROVE FALSE
    <3>1. stop <= i
      BY <2>1, <2>2, <2>4
    <3>2. i \in Int /\ stop \in Int
      BY <1>3, <2>3
    <3>. QED BY <2>4, <3>1, <3>2
  <2>. QED BY <2>3, <2>4
<1>. HIDE DEF stop
<1>5. part \in Seq(DOMAIN Digit)
  <2>1. start \in Int /\ stop - 1 \in Int /\ \A i \in start..(stop - 1) : s[i] \in DOMAIN Digit
    BY <1>2, <1>3, <1>4
  <2>. QED BY <2>1, SubSeqProperties
<1>. HIDE DEF part
<1>. QED BY <1>1, <1>5, HexType

------------------------------------------------------------------------------
(* The chunks of a body. *)

LEMMA ChunkFacts ==
  ASSUME NEW s \in Text
  PROVE  /\ ChunkSize(s) \in Nat
         /\ ChunkData(s) \in Text
         /\ AfterData(s) \in Text
         /\ NextChunk(s) \in Text
         /\ s # <<>> => Len(NextChunk(s)) < Len(s)
         /\ s = <<>> => AfterData(s) = <<>> /\ NextChunk(s) = <<>>
<1>1. Len(s) \in Nat
  BY DEF Text
<1>2. SizeLine(s) \in Text /\ Len(SizeLine(s)) \in 0..Len(s)
  <2>1. Find(s, CRLF) \in 0..Len(s)
    BY FindFacts, Patterns
  <2>2. CASE Find(s, CRLF) = 0
    BY <1>1, <2>2 DEF SizeLine
  <2>3. CASE Find(s, CRLF) # 0
    <3>1. Find(s, CRLF) - 1 \in Nat /\ Find(s, CRLF) - 1 <= Len(s)
      BY <1>1, <2>1, <2>3
    <3>2. SizeLine(s) = SubSeq(s, 1, Find(s, CRLF) - 1)
      BY <2>3 DEF SizeLine
    <3>. QED BY <1>1, <3>1, <3>2, PartFacts
  <2>. QED BY <2>2, <2>3
<1>3. ChunkSize(s) \in Nat
  BY <1>2, HexValueType DEF ChunkSize
<1>4. /\ AfterSize(s) \in Text /\ Len(AfterSize(s)) \in Nat
      /\ s # <<>> => Len(AfterSize(s)) < Len(s)
      /\ s = <<>> => Len(AfterSize(s)) = 0
  <2>1. Len(SizeLine(s)) + 3 \in Nat \ {0}
    BY <1>2
  <2>2. /\ AfterSize(s) \in Text
        /\ Len(AfterSize(s)) = IF Len(SizeLine(s)) + 3 <= Len(s)
                               THEN Len(s) - (Len(SizeLine(s)) + 3) + 1 ELSE 0
    BY <2>1, FromFacts DEF AfterSize
  <2>3. s # <<>> => Len(s) > 0
    BY <1>1, EmptyText
  <2>4. s = <<>> => Len(s) = 0
    BY EmptyText
  <2>. QED BY <1>1, <1>2, <2>2, <2>3, <2>4
<1>5. ChunkData(s) \in Text
  <2>. DEFINE n == IF ChunkSize(s) < Len(AfterSize(s)) THEN ChunkSize(s)
                   ELSE Len(AfterSize(s))
  <2>1. n \in Nat /\ n <= Len(AfterSize(s))
    BY <1>3, <1>4
  <2>. HIDE DEF n
  <2>2. SubSeq(AfterSize(s), 1, n) \in Text
    BY <1>4, <2>1, PartFacts
  <2>. QED BY <2>2 DEF ChunkData, n
<1>6. /\ AfterData(s) \in Text /\ Len(AfterData(s)) \in Nat
      /\ Len(AfterData(s)) <= Len(AfterSize(s))
  <2>1. ChunkSize(s) + 1 \in Nat \ {0}
    BY <1>3
  <2>2. /\ AfterData(s) \in Text
        /\ Len(AfterData(s)) = IF ChunkSize(s) + 1 <= Len(AfterSize(s))
                               THEN Len(AfterSize(s)) - (ChunkSize(s) + 1) + 1 ELSE 0
    BY <1>4, <2>1, FromFacts DEF AfterData
  <2>. QED BY <1>3, <1>4, <2>2
<1>7. /\ NextChunk(s) \in Text /\ Len(NextChunk(s)) \in Nat
      /\ Len(NextChunk(s)) <= Len(AfterData(s))
  <2>1. /\ From(AfterData(s), 3) \in Text
        /\ Len(From(AfterData(s), 3)) = IF 3 <= Len(AfterData(s))
                                        THEN Len(AfterData(s)) - 3 + 1 ELSE 0
    <3>1. 3 \in Nat \ {0}
      OBVIOUS
    <3>. QED BY <1>6, <3>1, FromFacts
  <2>. QED BY <1>6, <2>1 DEF NextChunk
<1>8. s = <<>> => AfterData(s) = <<>> /\ NextChunk(s) = <<>>
  BY <1>4, <1>6, <1>7, EmptyText
<1>. QED BY <1>1, <1>3, <1>4, <1>5, <1>6, <1>7, <1>8

(* What the recursion of parseBody returns. *)
Unchunked == [left : Text, data : Text, last : BOOLEAN]

(* parseBody calls itself for a shorter text only, so that it ends; Chunks is what it
   says it is. *)
LEMMA ChunksFacts ==
  /\ Chunks \in [Text -> Unchunked]
  /\ \A s \in Text :
       Chunks[s] =
         IF Len(s) < ChunkSize(s) THEN [left |-> s, data |-> <<>>, last |-> FALSE]
         ELSE IF LastFollows(s)
         THEN [left |-> AfterData(s), data |-> ChunkData(s), last |-> TRUE]
         ELSE IF NextChunk(s) = <<>>
         THEN [left |-> <<>>, data |-> ChunkData(s), last |-> FALSE]
         ELSE [Chunks[NextChunk(s)] EXCEPT !.data = ChunkData(s) \o @]
<1>. DEFINE B(s) == IF Len(s) < ChunkSize(s) THEN [left |-> s, data |-> <<>>, last |-> FALSE]
                    ELSE IF LastFollows(s)
                    THEN [left |-> AfterData(s), data |-> ChunkData(s), last |-> TRUE]
                    ELSE [left |-> <<>>, data |-> ChunkData(s), last |-> FALSE]
            K(s, v) == [v EXCEPT !.data = ChunkData(s) \o @]
            Stop(s) == Len(s) < ChunkSize(s) \/ LastFollows(s) \/ NextChunk(s) = <<>>
            m == [s \in Text |-> Len(s)]
            stop == {s \in Text : Stop(s)}
            next == [s \in Text |-> NextChunk(s)]
            b == [s \in Text |-> B(s)]
            k == [s \in Text |-> [v \in Unchunked |-> K(s, v)]]
<1>1. \A s \in Text : B(s) \in Unchunked
  BY ChunkFacts, EmptyText DEF Unchunked
<1>2. \A s \in Text : \A v \in Unchunked : K(s, v) \in Unchunked
  <2>. SUFFICES ASSUME NEW s \in Text, NEW v \in Unchunked PROVE K(s, v) \in Unchunked
    OBVIOUS
  <2>1. ChunkData(s) \o v.data \in Text
    BY ChunkFacts, Appended DEF Unchunked
  <2>. QED BY <2>1 DEF Unchunked
<1>3. \A s \in Text : ~Stop(s) => NextChunk(s) \in Text /\ Len(NextChunk(s)) < Len(s)
  BY ChunkFacts
<1>4. m \in [Text -> Nat]
  BY DEF Text
<1>5. \A s \in Text :
        (IF Len(s) < ChunkSize(s) THEN [left |-> s, data |-> <<>>, last |-> FALSE]
         ELSE IF LastFollows(s)
         THEN [left |-> AfterData(s), data |-> ChunkData(s), last |-> TRUE]
         ELSE IF NextChunk(s) = <<>>
         THEN [left |-> <<>>, data |-> ChunkData(s), last |-> FALSE]
         ELSE [Chunks[NextChunk(s)] EXCEPT !.data = ChunkData(s) \o @])
        = IF Stop(s) THEN B(s) ELSE K(s, Chunks[NextChunk(s)])
  OBVIOUS
<1>6. Chunks = CHOOSE f : f = [s \in Text |-> IF Stop(s) THEN B(s) ELSE K(s, f[NextChunk(s)])]
  BY DEF Chunks, Text
<1>. HIDE DEF B, K, Stop
<1>7. Descends(m, Text, Unchunked, stop, next, b, k)
  BY <1>1, <1>2, <1>3, <1>4 DEF Descends
<1>8. PICK f : IsRecursive(f, Text, Unchunked, stop, next, b, k)
  BY <1>7, RecursionExists
<1>9. f = [s \in Text |-> IF Stop(s) THEN B(s) ELSE K(s, f[NextChunk(s)])]
  BY <1>3, <1>8 DEF IsRecursive
<1>10. Chunks = [s \in Text |-> IF Stop(s) THEN B(s) ELSE K(s, Chunks[NextChunk(s)])]
  BY <1>6, <1>9
<1>. DEFINE T == {s \in Text : Chunks[s] \in Unchunked}
<1>11. ASSUME NEW s \in Text, \A r \in Text : m[r] < m[s] => r \in T PROVE s \in T
  <2>1. CASE Stop(s)
    BY <1>1, <1>10, <2>1
  <2>2. CASE ~Stop(s)
    <3>1. NextChunk(s) \in T
      BY <1>3, <1>11, <2>2
    <3>. QED BY <1>2, <1>10, <2>2, <3>1
  <2>. QED BY <2>1, <2>2
<1>. HIDE DEF T, m
<1>12. Text \subseteq T
  BY <1>4, <1>11, MeasureInduction
<1>13. Chunks \in [Text -> Unchunked]
  BY <1>10, <1>12 DEF T
<1>. QED BY <1>5, <1>10, <1>13

(* What was not the end of a body is not its end either when parse is called again with
   nothing new. *)
LEMMA NoLastInRest ==
  ASSUME NEW s \in Text, ~Chunks[s].last
  PROVE  Chunks[s].left \in Text /\ ~Chunks[Chunks[s].left].last
<1>. DEFINE m == [t \in Text |-> Len(t)]
            T == {t \in Text : ~Chunks[t].last => ~Chunks[Chunks[t].left].last}
<1>1. m \in [Text -> Nat]
  BY DEF Text
<1>2. ~Chunks[<<>>].last
  <2>1. CRLF # <<>> /\ ~IsPrefix(CRLF \o <<"0">> \o CRLF, <<>>) /\ ~IsPrefix(<<"0">> \o CRLF, <<>>)
    BY DEF IsPrefix, CRLF
  <2>2. ~LastFollows(<<>>) /\ NextChunk(<<>>) = <<>>
    BY <2>1, ChunkFacts, EmptyText DEF LastFollows
  <2>. QED BY <2>2, ChunksFacts, EmptyText
<1>3. ASSUME NEW t \in Text, \A r \in Text : m[r] < m[t] => r \in T PROVE t \in T
  <2>. SUFFICES ASSUME ~Chunks[t].last PROVE ~Chunks[Chunks[t].left].last
    OBVIOUS
  <2>1. CASE Len(t) < ChunkSize(t)
    BY <2>1, ChunksFacts
  <2>2. CASE ~(Len(t) < ChunkSize(t)) /\ LastFollows(t)
    BY <2>2, ChunksFacts
  <2>3. CASE ~(Len(t) < ChunkSize(t)) /\ ~LastFollows(t) /\ NextChunk(t) = <<>>
    BY <1>2, <2>3, ChunksFacts
  <2>4. CASE ~(Len(t) < ChunkSize(t)) /\ ~LastFollows(t) /\ NextChunk(t) # <<>>
    <3>1. Chunks[t] = [Chunks[NextChunk(t)] EXCEPT !.data = ChunkData(t) \o @]
      BY <2>4, ChunksFacts
    <3>2. /\ NextChunk(t) \in Text /\ Len(NextChunk(t)) < Len(t)
          /\ Chunks[NextChunk(t)] \in Unchunked
      BY <2>4, ChunkFacts, ChunksFacts
    <3>3. /\ Chunks[t].last = Chunks[NextChunk(t)].last
          /\ Chunks[t].left = Chunks[NextChunk(t)].left
      BY <3>1, <3>2 DEF Unchunked
    <3>4. NextChunk(t) \in T
      BY <1>3, <3>2
    <3>. QED BY <3>3, <3>4
  <2>. QED BY <2>1, <2>2, <2>3, <2>4
<1>. HIDE DEF T, m
<1>4. Text \subseteq T
  BY <1>1, <1>3, MeasureInduction
<1>. QED BY <1>4, ChunksFacts DEF T, Unchunked

------------------------------------------------------------------------------
(* What assigning to fields of a request leaves alone. *)

(* How far q has come and what its headers announced are those of r. *)
SameHead(q, r) ==
  /\ q.headersParsed = r.headersParsed /\ q.bodyParsed = r.bodyParsed
  /\ q.chunked = r.chunked /\ q.contentLength = r.contentLength

LEMMA SetText ==
  ASSUME NEW r \in Fields, NEW u \in Text
  PROVE  LET q == [r EXCEPT !.unparsed = u]
         IN /\ q \in Fields /\ SameHead(q, r) /\ q.unparsed = u
            /\ q.startLineParsed = r.startLineParsed
            /\ q.errorCode = r.errorCode /\ q.threw = r.threw
<1>. DEFINE q == [r EXCEPT !.unparsed = u]
<1>1. q \in Fields /\ q.unparsed = u /\ q.errorCode = r.errorCode
  BY DEF Fields, Text
<1>2. SameHead(q, r) /\ q.startLineParsed = r.startLineParsed /\ q.threw = r.threw
  BY DEF Fields, SameHead
<1>. QED BY <1>1, <1>2

LEMMA SetErrorCode ==
  ASSUME NEW r \in Fields, NEW code, code = 413 \/ code = 501
  PROVE  LET q == [r EXCEPT !.errorCode = code]
         IN /\ q \in Fields /\ SameHead(q, r) /\ q.unparsed = r.unparsed
            /\ q.startLineParsed = r.startLineParsed
            /\ q.errorCode = code /\ q.threw = r.threw
<1>. DEFINE q == [r EXCEPT !.errorCode = code]
<1>1. q \in Fields /\ q.unparsed = r.unparsed /\ q.errorCode = code
  BY DEF Fields
<1>2. SameHead(q, r) /\ q.startLineParsed = r.startLineParsed /\ q.threw = r.threw
  BY DEF Fields, SameHead
<1>. QED BY <1>1, <1>2

LEMMA SetThrew ==
  ASSUME NEW r \in Fields, NEW v \in BOOLEAN
  PROVE  LET q == [r EXCEPT !.threw = v]
         IN /\ q \in Fields /\ SameHead(q, r) /\ q.unparsed = r.unparsed
            /\ q.startLineParsed = r.startLineParsed
            /\ q.errorCode = r.errorCode /\ q.threw = v
<1>. DEFINE q == [r EXCEPT !.threw = v]
<1>1. q \in Fields
  BY DEF Fields
<1>2. q.unparsed = r.unparsed /\ q.errorCode = r.errorCode
  BY DEF Fields
<1>3. SameHead(q, r) /\ q.startLineParsed = r.startLineParsed
  BY DEF Fields, SameHead
<1>4. q.threw = v
  BY DEF Fields
<1>. QED BY <1>1, <1>2, <1>3, <1>4

LEMMA SetStartLineParsed ==
  ASSUME NEW r \in Fields, NEW v \in BOOLEAN
  PROVE  LET q == [r EXCEPT !.startLineParsed = v]
         IN /\ q \in Fields /\ SameHead(q, r) /\ q.unparsed = r.unparsed
            /\ q.startLineParsed = v
            /\ q.errorCode = r.errorCode /\ q.threw = r.threw
<1>. DEFINE q == [r EXCEPT !.startLineParsed = v]
<1>1. q \in Fields
  BY DEF Fields
<1>2. q.unparsed = r.unparsed /\ q.errorCode = r.errorCode
  BY DEF Fields
<1>3. SameHead(q, r) /\ q.threw = r.threw
  BY DEF Fields, SameHead
<1>4. q.startLineParsed = v
  BY DEF Fields
<1>. QED BY <1>1, <1>2, <1>3, <1>4

LEMMA SetHeadersParsed ==
  ASSUME NEW r \in Fields, NEW v \in BOOLEAN PROVE [r EXCEPT !.headersParsed = v] \in Fields
BY DEF Fields

LEMMA SetChunked ==
  ASSUME NEW r \in Fields, NEW v \in BOOLEAN PROVE [r EXCEPT !.chunked = v] \in Fields
BY DEF Fields

LEMMA SetContentLength ==
  ASSUME NEW r \in Fields, NEW n \in Nat PROVE [r EXCEPT !.contentLength = n] \in Fields
BY DEF Fields

WithHeaders(r, u, h, c, n) ==
  [r EXCEPT !.unparsed = u, !.headersParsed = h, !.chunked = c, !.contentLength = n]

LEMMA SetHeaders ==
  ASSUME NEW r \in Fields, NEW u \in Text, NEW h \in BOOLEAN, NEW c \in BOOLEAN, NEW n \in Nat
  PROVE  LET q == WithHeaders(r, u, h, c, n)
         IN /\ q \in Fields /\ q.unparsed = u
            /\ q.headersParsed = h /\ q.chunked = c /\ q.contentLength = n
            /\ q.startLineParsed = r.startLineParsed /\ q.bodyParsed = r.bodyParsed
            /\ q.errorCode = r.errorCode /\ q.threw = r.threw
<1>. DEFINE q == [r EXCEPT !.unparsed = u, !.headersParsed = h, !.chunked = c,
                           !.contentLength = n]
<1>1. q \in Fields
  BY SetText, SetHeadersParsed, SetChunked, SetContentLength
<1>2. q.unparsed = u /\ q.errorCode = r.errorCode /\ q.contentLength = n
  BY DEF Fields
<1>3. /\ q.startLineParsed = r.startLineParsed /\ q.bodyParsed = r.bodyParsed
      /\ q.threw = r.threw
  BY DEF Fields
<1>4. q.headersParsed = h
  BY DEF Fields
<1>5. q.chunked = c
  BY DEF Fields
<1>. QED BY <1>1, <1>2, <1>3, <1>4, <1>5 DEF WithHeaders

LEMMA SetBodyParsed ==
  ASSUME NEW r \in Fields, NEW v \in BOOLEAN
  PROVE  LET q == [r EXCEPT !.bodyParsed = v]
         IN /\ q \in Fields /\ q.bodyParsed = v
            /\ q.startLineParsed = r.startLineParsed /\ q.headersParsed = r.headersParsed
            /\ q.chunked = r.chunked /\ q.contentLength = r.contentLength
            /\ q.errorCode = r.errorCode /\ q.threw = r.threw
<1>. DEFINE q == [r EXCEPT !.bodyParsed = v]
<1>1. q \in Fields
  BY DEF Fields
<1>2. q.contentLength = r.contentLength /\ q.errorCode = r.errorCode
  BY DEF Fields
<1>3. /\ q.startLineParsed = r.startLineParsed /\ q.headersParsed = r.headersParsed
      /\ q.chunked = r.chunked /\ q.threw = r.threw
  BY DEF Fields
<1>4. q.bodyParsed = v
  BY DEF Fields
<1>. QED BY <1>1, <1>2, <1>3, <1>4

LEMMA SetContent ==
  ASSUME NEW r \in Fields, NEW t \in Text PROVE [r EXCEPT !.body = t] \in Fields
BY DEF Fields, Text

WithBody(r, u, t, v) == [r EXCEPT !.unparsed = u, !.body = t, !.bodyParsed = v]

LEMMA SetBody ==
  ASSUME NEW r \in Fields, NEW u \in Text, NEW t \in Text, NEW v \in BOOLEAN
  PROVE  LET q == WithBody(r, u, t, v)
         IN /\ q \in Fields /\ q.unparsed = u /\ q.bodyParsed = v
            /\ q.headersParsed = r.headersParsed
            /\ q.chunked = r.chunked /\ q.contentLength = r.contentLength
            /\ q.startLineParsed = r.startLineParsed
            /\ q.errorCode = r.errorCode /\ q.threw = r.threw
<1>. DEFINE q == [r EXCEPT !.unparsed = u, !.body = t, !.bodyParsed = v]
<1>1. q \in Fields
  BY SetText, SetContent, SetBodyParsed
<1>2. q.unparsed = u /\ q.errorCode = r.errorCode /\ q.contentLength = r.contentLength
  BY DEF Fields
<1>3. /\ q.startLineParsed = r.startLineParsed /\ q.headersParsed = r.headersParsed
      /\ q.chunked = r.chunked /\ q.threw = r.threw
  BY DEF Fields
<1>4. q.bodyParsed = v
  BY DEF Fields
<1>. QED BY <1>1, <1>2, <1>3, <1>4 DEF WithBody

------------------------------------------------------------------------------
(* The stages of parse. *)

LEMMA StartLineFacts ==
  ASSUME NEW r \in Fields, ~r.startLineParsed, r.errorCode = 0, ~r.threw
  PROVE  LET q == ParseStartLine(r)
         IN /\ q \in Fields /\ SameHead(q, r)
            /\ Find(r.unparsed, CRLF) = 0 => q = r
            /\ q.startLineParsed => q.errorCode = 0 /\ ~q.threw
            /\ ~q.startLineParsed /\ ~q.threw /\ q.errorCode = 0 =>
                 q = r /\ Find(r.unparsed, CRLF) = 0
<1>. DEFINE pos == Find(r.unparsed, CRLF)
            rest == [r EXCEPT !.unparsed = From(@, pos + 2)]
            q == ParseStartLine(r)
<1>1. r.unparsed \in Text /\ pos \in Nat
  <2>1. r.unparsed \in Text
    BY DEF Fields, Text
  <2>. QED BY <2>1, FindFacts, Patterns
<1>2. From(r.unparsed, pos + 2) \in Text
  <2>1. pos + 2 \in Nat \ {0}
    BY <1>1
  <2>. QED BY <1>1, <2>1, FromFacts
<1>3. /\ rest \in Fields /\ SameHead(rest, r)
      /\ rest.errorCode = 0 /\ ~rest.threw /\ ~rest.startLineParsed
  BY <1>2, SetText
<1>4. \/ q = r /\ pos = 0
      \/ q = [rest EXCEPT !.errorCode = 501] /\ pos # 0
      \/ q = [rest EXCEPT !.threw = TRUE] /\ pos # 0
      \/ q = [rest EXCEPT !.startLineParsed = TRUE] /\ pos # 0
  BY <1>1 DEF ParseStartLine
<1>. HIDE DEF q, pos, rest
<1>5. ASSUME NEW a, NEW b, SameHead(a, b), SameHead(b, r) PROVE SameHead(a, r)
  BY <1>5 DEF SameHead
<1>6. CASE q = r /\ pos = 0
  BY <1>6 DEF SameHead, pos, q
<1>7. CASE q = [rest EXCEPT !.errorCode = 501] /\ pos # 0
  <2>1. q \in Fields /\ SameHead(q, rest) /\ q.errorCode = 501 /\ ~q.startLineParsed
    BY <1>3, <1>7, SetErrorCode
  <2>. QED BY <1>3, <1>5, <1>7, <2>1 DEF pos, q
<1>8. CASE q = [rest EXCEPT !.threw = TRUE] /\ pos # 0
  <2>1. q \in Fields /\ SameHead(q, rest) /\ q.threw /\ ~q.startLineParsed
    BY <1>3, <1>8, SetThrew
  <2>. QED BY <1>3, <1>5, <1>8, <2>1 DEF pos, q
<1>9. CASE q = [rest EXCEPT !.startLineParsed = TRUE] /\ pos # 0
  <2>1. /\ q \in Fields /\ SameHead(q, rest) /\ q.startLineParsed /\ ~q.threw
        /\ q.errorCode = 0
    BY <1>3, <1>9, SetStartLineParsed
  <2>. QED BY <1>3, <1>5, <1>9, <2>1 DEF pos, q
<1>. QED BY <1>4, <1>6, <1>7, <1>8, <1>9

LEMMA HeadersFacts ==
  ASSUME NEW r \in Fields, r.errorCode = 0, ~r.threw, ~r.headersParsed
  PROVE  LET q == ParseHeaders(r)
         IN /\ q \in Fields
            /\ q.startLineParsed = r.startLineParsed /\ q.bodyParsed = r.bodyParsed
            /\ q.errorCode = 0
            /\ Find(r.unparsed, CRLF \o CRLF) = 0 => q = r
            /\ q.headersParsed => ~q.threw
            /\ ~q.headersParsed => q.contentLength = r.contentLength
            /\ ~q.headersParsed /\ ~q.threw => q = r /\ Find(r.unparsed, CRLF \o CRLF) = 0
<1>. DEFINE blank == Find(r.unparsed, CRLF \o CRLF)
            end == IF IsPrefix(CRLF, r.unparsed) THEN 2 ELSE blank + 3
            rows == SubSeq(r.unparsed, 1, end)
            u == From(r.unparsed, end + 1)
            c == Contains(rows, "chunked")
            n == LastLength(r.contentLength, rows)
            q == ParseHeaders(r)
<1>1. /\ r.unparsed \in Text /\ Len(r.unparsed) \in Nat /\ blank \in 0..Len(r.unparsed)
      /\ blank # 0 => blank + 3 <= Len(r.unparsed)
  <2>1. r.unparsed \in Text /\ Len(r.unparsed) \in Nat
    BY DEF Fields, Text
  <2>2. /\ blank \in 0..Len(r.unparsed)
        /\ blank # 0 => blank + 4 - 1 <= Len(r.unparsed)
    BY <2>1, FindFacts, Patterns
  <2>. HIDE DEF blank
  <2>. QED BY <2>1, <2>2
<1>2. \/ q = r /\ blank = 0
      \/ q = [r EXCEPT !.threw = TRUE] /\ blank # 0
      \/ q = WithHeaders(r, u, TRUE, c, n) /\ blank # 0
  BY <1>1 DEF ParseHeaders, WithHeaders
<1>3. CASE blank = 0
  BY <1>2, <1>3
<1>4. CASE q = [r EXCEPT !.threw = TRUE] /\ blank # 0
  <2>. HIDE DEF q, blank
  <2>1. /\ q \in Fields /\ q.threw /\ SameHead(q, r)
        /\ q.startLineParsed = r.startLineParsed /\ q.errorCode = 0
    BY <1>4, SetThrew
  <2>. QED BY <1>4, <2>1 DEF SameHead, q, blank
<1>5. CASE q = WithHeaders(r, u, TRUE, c, n) /\ blank # 0
  <2>1. end \in Nat /\ end <= Len(r.unparsed)
    BY <1>1, <1>5, Patterns DEF IsPrefix
  <2>2. rows \in Text /\ u \in Text
    <3>. HIDE DEF end
    <3>1. end + 1 \in Nat \ {0}
      BY <2>1
    <3>. QED BY <1>1, <2>1, <3>1, PartFacts, FromFacts
  <2>3. c \in BOOLEAN
    BY DEF Contains
  <2>4. n \in Nat
    <3>1. r.contentLength \in Nat
      BY DEF Fields
    <3>. QED BY <2>2, <3>1, LastLengthType
  <2>. HIDE DEF q, blank, end, rows, u, c, n
  <2>5. PICK v \in BOOLEAN : v = TRUE
    OBVIOUS
  <2>6. q = WithHeaders(r, u, v, c, n)
    BY <1>5, <2>5
  <2>7. /\ q \in Fields /\ q.headersParsed = v
        /\ q.startLineParsed = r.startLineParsed /\ q.bodyParsed = r.bodyParsed
        /\ q.errorCode = r.errorCode /\ q.threw = r.threw
    BY <2>2, <2>3, <2>4, <2>6, SetHeaders
  <2>. QED BY <1>5, <2>5, <2>7 DEF q, blank
<1>. QED BY <1>2, <1>3, <1>4, <1>5

(* The body of r is not complete, and what has come of it is no body. *)
AwaitsBody(r) ==
  IF r.chunked THEN ~Chunks[r.unparsed].last
  ELSE /\ r.contentLength > 0
       /\ Len(r.unparsed) <= Limit
       /\ Len(r.unparsed) < r.contentLength

LEMMA BodyFacts ==
  ASSUME NEW r \in Fields, r.startLineParsed, r.headersParsed, ~r.bodyParsed,
         r.errorCode = 0, ~r.threw
  PROVE  LET q == ParseBody(r)
         IN /\ q \in Fields /\ q.startLineParsed /\ q.headersParsed /\ ~q.threw
            /\ q.chunked = r.chunked /\ q.contentLength = r.contentLength
            /\ ~q.bodyParsed /\ q.errorCode = 0 => AwaitsBody(q)
            /\ AwaitsBody(r) => ~q.bodyParsed /\ q.errorCode = 0
<1>. DEFINE q == ParseBody(r)
<1>1. /\ r.unparsed \in Text /\ r.body \in Text /\ r.contentLength \in Nat
      /\ Len(r.unparsed) \in Nat /\ Limit \in Nat
  BY LimitAssumption DEF Fields, Text
<1>2. CASE r.chunked
  <2>. DEFINE c == Chunks[r.unparsed]
              t == r.body \o c.data
  <2>1. c \in Unchunked
    BY <1>1, ChunksFacts
  <2>2. c.left \in Text /\ c.last \in BOOLEAN /\ t \in Text
    BY <1>1, <2>1, Appended DEF Unchunked
  <2>3. q = WithBody(r, c.left, t, c.last)
    BY <1>2 DEF ParseBody, ParseChunks, WithBody
  <2>4. ~c.last => ~Chunks[c.left].last
    BY <1>1, NoLastInRest
  <2>5. AwaitsBody(r) => ~c.last
    BY <1>2 DEF AwaitsBody
  <2>. HIDE DEF q, c, t
  <2>6. /\ q \in Fields /\ q.unparsed = c.left /\ q.bodyParsed = c.last
        /\ q.headersParsed /\ q.chunked = r.chunked /\ q.contentLength = r.contentLength
        /\ q.startLineParsed /\ q.errorCode = 0 /\ ~q.threw
    BY <2>2, <2>3, SetBody
  <2>7. ~q.bodyParsed => AwaitsBody(q)
    BY <1>2, <2>4, <2>6 DEF AwaitsBody
  <2>. QED BY <2>5, <2>6, <2>7 DEF q
<1>3. CASE ~r.chunked /\ r.contentLength > 0
  <2>1. q = ParseLength(r)
    BY <1>3 DEF ParseBody
  <2>2. CASE Len(r.unparsed) > Limit
    <3>1. q = [r EXCEPT !.errorCode = 413]
      BY <2>1, <2>2 DEF ParseLength
    <3>2. ~AwaitsBody(r)
      BY <1>1, <1>3, <2>2 DEF AwaitsBody
    <3>. HIDE DEF q
    <3>3. q \in Fields /\ SameHead(q, r) /\ q.startLineParsed /\ q.errorCode = 413 /\ ~q.threw
      BY <3>1, SetErrorCode
    <3>. QED BY <3>2, <3>3 DEF SameHead, q
  <2>3. CASE Len(r.unparsed) <= Limit /\ Len(r.unparsed) < r.contentLength
    <3>1. q = r
      BY <1>1, <2>1, <2>3 DEF ParseLength
    <3>2. AwaitsBody(r)
      BY <1>3, <2>3 DEF AwaitsBody
    <3>. QED BY <3>1, <3>2
  <2>4. CASE Len(r.unparsed) <= Limit /\ ~(Len(r.unparsed) < r.contentLength)
    <3>. DEFINE t == SubSeq(r.unparsed, 1, r.contentLength)
                u == From(r.unparsed, r.contentLength + 1)
    <3>1. q = WithBody(r, u, t, TRUE)
      BY <1>1, <2>1, <2>4 DEF ParseLength, WithBody
    <3>2. t \in Text /\ u \in Text
      <4>1. /\ r.contentLength + 1 \in Nat \ {0}
            /\ r.contentLength <= Len(r.unparsed)
        BY <1>1, <2>4
      <4>. QED BY <1>1, <4>1, PartFacts, FromFacts
    <3>3. ~AwaitsBody(r)
      BY <1>3, <2>4 DEF AwaitsBody
    <3>. HIDE DEF q, t, u
    <3>4. PICK v \in BOOLEAN : v = TRUE
      OBVIOUS
    <3>5. q = WithBody(r, u, t, v)
      BY <3>1, <3>4
    <3>6. /\ q \in Fields /\ q.bodyParsed = v
          /\ q.headersParsed /\ q.chunked = r.chunked /\ q.contentLength = r.contentLength
          /\ q.startLineParsed /\ q.errorCode = 0 /\ ~q.threw
      BY <3>2, <3>5, SetBody
    <3>. QED BY <3>3, <3>4, <3>6 DEF q
  <2>. QED BY <1>1, <2>2, <2>3, <2>4
<1>4. CASE ~r.chunked /\ ~(r.contentLength > 0)
  <2>1. q = [r EXCEPT !.bodyParsed = TRUE]
    BY <1>4 DEF ParseBody
  <2>2. ~AwaitsBody(r)
    BY <1>4 DEF AwaitsBody
  <2>. HIDE DEF q
  <2>3. /\ q \in Fields /\ q.bodyParsed /\ q.startLineParsed = r.startLineParsed
        /\ q.headersParsed = r.headersParsed
        /\ q.chunked = r.chunked /\ q.contentLength = r.contentLength
        /\ q.errorCode = 0 /\ q.threw = r.threw
    BY <2>1, SetBodyParsed
  <2>. QED BY <2>2, <2>3 DEF q
<1>. QED BY <1>2, <1>3, <1>4

------------------------------------------------------------------------------
(* The inductive invariant. *)

(* The parts of a request are parsed in their order, and there is no length before
   there are headers. *)
Ordered(r) ==
  /\ r.bodyParsed => r.headersParsed
  /\ r.headersParsed => r.startLineParsed
  /\ ~r.headersParsed => r.contentLength = 0

(* All that can be parsed of what has come is parsed: what is left of it in the
   buffer is the beginning of the part that comes next. *)
Settled(r) ==
  r.errorCode = 0 /\ ~r.threw =>
    /\ ~r.startLineParsed => Find(r.unparsed, CRLF) = 0
    /\ r.startLineParsed /\ ~r.headersParsed => Find(r.unparsed, CRLF \o CRLF) = 0
    /\ r.headersParsed /\ ~r.bodyParsed => AwaitsBody(r)

IInv == TypeOK /\ Ordered(req) /\ Settled(req)

(* From the headers on: p is a request whose start line is the last thing parsed. *)
LEMMA FromHeaders ==
  ASSUME NEW p \in Fields, p.startLineParsed, ~p.headersParsed, ~p.bodyParsed,
         p.contentLength = 0, p.errorCode = 0, ~p.threw
  PROVE  LET h == ParseHeaders(p)
             q == IF ~h.headersParsed \/ h.bodyParsed THEN h ELSE ParseBody(h)
         IN /\ q \in Fields /\ Ordered(q) /\ Settled(q)
            /\ Find(p.unparsed, CRLF \o CRLF) = 0 => q = p
<1>. DEFINE h == ParseHeaders(p)
            q == IF ~h.headersParsed \/ h.bodyParsed THEN h ELSE ParseBody(h)
<1>1. /\ h \in Fields /\ h.startLineParsed /\ ~h.bodyParsed /\ h.errorCode = 0
      /\ Find(p.unparsed, CRLF \o CRLF) = 0 => h = p
      /\ h.headersParsed => ~h.threw
      /\ ~h.headersParsed => h.contentLength = 0
      /\ ~h.headersParsed /\ ~h.threw => h = p /\ Find(p.unparsed, CRLF \o CRLF) = 0
  BY HeadersFacts
<1>. HIDE DEF h
<1>2. CASE ~h.headersParsed
  <2>1. q = h
    BY <1>2
  <2>2. Ordered(h) /\ Settled(h)
    BY <1>1, <1>2 DEF Ordered, Settled
  <2>. QED BY <1>1, <2>1, <2>2 DEF h
<1>3. CASE h.headersParsed
  <2>1. q = ParseBody(h)
    BY <1>1, <1>3
  <2>2. /\ q \in Fields /\ q.startLineParsed /\ q.headersParsed /\ ~q.threw
        /\ ~q.bodyParsed /\ q.errorCode = 0 => AwaitsBody(q)
    BY <1>1, <1>3, <2>1, BodyFacts
  <2>. HIDE DEF q
  <2>3. Ordered(q) /\ Settled(q)
    BY <2>2 DEF Ordered, Settled
  <2>4. Find(p.unparsed, CRLF \o CRLF) # 0
    BY <1>1, <1>3
  <2>. QED BY <2>2, <2>3, <2>4 DEF q, h
<1>. QED BY <1>2, <1>3

(* A call of parse for a request that is not decided, with what recv returned. *)
LEMMA ParseFacts ==
  ASSUME NEW r \in Fields, NEW input \in Text, Ordered(r), ~IsParsed(r), ~r.threw
  PROVE  LET q == Parse(r, input)
         IN /\ q \in Fields /\ Ordered(q) /\ Settled(q)
            /\ r.headersParsed =>
                 /\ q.headersParsed /\ ~q.threw /\ q.contentLength = r.contentLength
                 /\ r.contentLength > Limit => q.errorCode = 413
<1>. DEFINE u == r.unparsed \o input
            r0 == [r EXCEPT !.unparsed = u]
            r1 == IF r0.startLineParsed THEN r0 ELSE ParseStartLine(r0)
            r2 == IF r1.headersParsed THEN r1 ELSE ParseHeaders(r1)
            q == Parse(r, input)
<1>1. /\ r.errorCode = 0 /\ ~r.bodyParsed
      /\ r.headersParsed => r.startLineParsed
      /\ ~r.headersParsed => r.contentLength = 0
  BY DEF IsParsed, Ordered
<1>2. u \in Text
  <2>1. r.unparsed \in Text
    BY DEF Fields, Text
  <2>. QED BY <2>1, Appended
<1>3. /\ r0 \in Fields /\ SameHead(r0, r) /\ r0.startLineParsed = r.startLineParsed
      /\ r0.errorCode = 0 /\ ~r0.threw
  <2>. HIDE DEF u
  <2>. QED BY <1>1, <1>2, SetText
<1>4. /\ ~r1.startLineParsed => q = r1
      /\ r1.startLineParsed /\ r1.contentLength > Limit => q = [r1 EXCEPT !.errorCode = 413]
      /\ r1.startLineParsed /\ r1.contentLength <= Limit =>
           q = IF ~r2.headersParsed \/ r2.bodyParsed THEN r2 ELSE ParseBody(r2)
  <2>1. q = CASE ~r1.startLineParsed -> r1
              [] r1.startLineParsed /\ r1.contentLength > Limit ->
                   [r1 EXCEPT !.errorCode = 413]
              [] r1.startLineParsed /\ r1.contentLength <= Limit ->
                   IF ~r2.headersParsed \/ r2.bodyParsed THEN r2 ELSE ParseBody(r2)
    BY DEF Parse
  <2>2. r1.contentLength \in Nat
    <3>1. CASE r0.startLineParsed
      BY <1>3, <3>1 DEF Fields
    <3>2. CASE ~r0.startLineParsed
      <4>1. r1 = ParseStartLine(r0)
        BY <3>2
      <4>. HIDE DEF r0, r1
      <4>2. r1 \in Fields
        BY <1>3, <3>2, <4>1, StartLineFacts
      <4>. QED BY <4>2 DEF Fields
    <3>. QED BY <3>1, <3>2
  <2>. HIDE DEF q, r1, r2
  <2>. QED BY <2>1, <2>2, LimitAssumption
<1>5. Limit \in Nat
  BY LimitAssumption
<1>6. CASE ~r.startLineParsed
  <2>1. r1 = ParseStartLine(r0)
    BY <1>3, <1>6
  <2>2. /\ r1 \in Fields /\ SameHead(r1, r0)
        /\ r1.startLineParsed => r1.errorCode = 0 /\ ~r1.threw
        /\ ~r1.startLineParsed /\ ~r1.threw /\ r1.errorCode = 0 =>
             r1 = r0 /\ Find(r0.unparsed, CRLF) = 0
    BY <1>3, <1>6, <2>1, StartLineFacts
  <2>. HIDE DEF r0, r1, q
  <2>3. ~r1.headersParsed /\ ~r1.bodyParsed /\ r1.contentLength = 0
    BY <1>1, <1>3, <1>6, <2>2 DEF SameHead
  <2>4. CASE ~r1.startLineParsed
    <3>1. q = r1
      BY <1>4, <2>4
    <3>2. Ordered(r1) /\ Settled(r1)
      BY <2>2, <2>3, <2>4 DEF Ordered, Settled
    <3>. QED BY <1>1, <1>6, <2>2, <3>1, <3>2 DEF q
  <2>5. CASE r1.startLineParsed
    <3>1. q = IF ~r2.headersParsed \/ r2.bodyParsed THEN r2 ELSE ParseBody(r2)
      BY <1>4, <1>5, <2>3, <2>5
    <3>2. r2 = ParseHeaders(r1)
      BY <2>3
    <3>. HIDE DEF r2
    <3>3. q \in Fields /\ Ordered(q) /\ Settled(q)
      BY <2>2, <2>3, <2>5, <3>1, <3>2, FromHeaders
    <3>. QED BY <1>1, <1>6, <3>3 DEF q
  <2>. QED BY <2>4, <2>5
<1>7. CASE r.startLineParsed /\ ~r.headersParsed
  <2>1. r1 = r0
    BY <1>3, <1>7
  <2>. HIDE DEF r0, r1, q
  <2>2. ~r1.headersParsed /\ ~r1.bodyParsed /\ r1.contentLength = 0 /\ r1.startLineParsed
    BY <1>1, <1>3, <1>7, <2>1 DEF SameHead
  <2>3. q = IF ~r2.headersParsed \/ r2.bodyParsed THEN r2 ELSE ParseBody(r2)
    BY <1>4, <1>5, <2>2
  <2>4. r2 = ParseHeaders(r1)
    BY <2>2
  <2>. HIDE DEF r2
  <2>5. q \in Fields /\ Ordered(q) /\ Settled(q)
    BY <1>3, <2>1, <2>2, <2>3, <2>4, FromHeaders
  <2>. QED BY <1>7, <2>5 DEF q
<1>8. CASE r.headersParsed
  <2>1. r1 = r0
    BY <1>1, <1>3, <1>8
  <2>. HIDE DEF r0, r1, q
  <2>2. /\ r1.headersParsed /\ ~r1.bodyParsed /\ r1.startLineParsed
        /\ r1.contentLength = r.contentLength
    BY <1>1, <1>3, <1>8, <2>1 DEF SameHead
  <2>3. r2 = r1
    BY <2>2
  <2>. HIDE DEF r2
  <2>4. r.contentLength \in Nat
    BY DEF Fields
  <2>5. CASE r.contentLength > Limit
    <3>1. q = [r1 EXCEPT !.errorCode = 413]
      BY <1>4, <2>2, <2>5
    <3>2. /\ q \in Fields /\ SameHead(q, r1) /\ q.errorCode = 413 /\ ~q.threw
          /\ q.startLineParsed = r1.startLineParsed
      BY <1>3, <2>1, <3>1, SetErrorCode
    <3>3. Ordered(q) /\ Settled(q) /\ q.headersParsed /\ q.contentLength = r.contentLength
      BY <2>2, <3>2 DEF Ordered, Settled, SameHead
    <3>. QED BY <3>2, <3>3 DEF q
  <2>6. CASE r.contentLength <= Limit
    <3>1. q = ParseBody(r1)
      BY <1>4, <2>2, <2>3, <2>6
    <3>2. /\ q \in Fields /\ q.startLineParsed /\ q.headersParsed /\ ~q.threw
          /\ q.contentLength = r1.contentLength
          /\ ~q.bodyParsed /\ q.errorCode = 0 => AwaitsBody(q)
      BY <1>3, <2>1, <2>2, <3>1, BodyFacts
    <3>3. Ordered(q) /\ Settled(q)
      BY <3>2 DEF Ordered, Settled
    <3>4. ~(r.contentLength > Limit)
      BY <1>5, <2>4, <2>6
    <3>. QED BY <2>2, <3>2, <3>3, <3>4 DEF q
  <2>. QED BY <1>5, <2>4, <2>5, <2>6
<1>. QED BY <1>6, <1>7, <1>8

(* A call of parse with nothing new, for a request that is settled: nothing moves but
   the test against the limit. *)
LEMMA NothingNew ==
  ASSUME NEW r \in Fields, Ordered(r), Settled(r), ~IsParsed(r), ~r.threw
  PROVE  LET q == Parse(r, <<>>)
         IN /\ ~r.headersParsed => q = r
            /\ r.headersParsed /\ r.contentLength <= Limit => ~q.bodyParsed /\ q.errorCode = 0
<1>. DEFINE r1 == IF r.startLineParsed THEN r ELSE ParseStartLine(r)
            r2 == IF r1.headersParsed THEN r1 ELSE ParseHeaders(r1)
            q == Parse(r, <<>>)
<1>1. /\ r.errorCode = 0 /\ ~r.bodyParsed
      /\ r.headersParsed => r.startLineParsed
      /\ ~r.headersParsed => r.contentLength = 0
      /\ ~r.startLineParsed => Find(r.unparsed, CRLF) = 0
      /\ r.startLineParsed /\ ~r.headersParsed => Find(r.unparsed, CRLF \o CRLF) = 0
      /\ r.headersParsed => AwaitsBody(r)
  BY DEF IsParsed, Ordered, Settled
<1>2. [r EXCEPT !.unparsed = r.unparsed \o <<>>] = r
  <2>1. r.unparsed \o <<>> = r.unparsed
    BY AppendNothing DEF Fields, Text
  <2>2. [r EXCEPT !.unparsed = r.unparsed] = r
    BY DEF Fields
  <2>. QED BY <2>1, <2>2
<1>3. q = CASE ~r1.startLineParsed -> r1
            [] r1.startLineParsed /\ r1.contentLength > Limit -> [r1 EXCEPT !.errorCode = 413]
            [] r1.startLineParsed /\ r1.contentLength <= Limit ->
                 IF ~r2.headersParsed \/ r2.bodyParsed THEN r2 ELSE ParseBody(r2)
  <2>. DEFINE s == [r EXCEPT !.unparsed = r.unparsed \o <<>>]
              s1 == IF s.startLineParsed THEN s ELSE ParseStartLine(s)
              s2 == IF s1.headersParsed THEN s1 ELSE ParseHeaders(s1)
  <2>1. q = CASE ~s1.startLineParsed -> s1
              [] s1.startLineParsed /\ s1.contentLength > Limit -> [s1 EXCEPT !.errorCode = 413]
              [] s1.startLineParsed /\ s1.contentLength <= Limit ->
                   IF ~s2.headersParsed \/ s2.bodyParsed THEN s2 ELSE ParseBody(s2)
    BY Zenon DEF Parse
  <2>2. s1 = r1 /\ s2 = r2
    BY <1>2
  <2>. HIDE DEF q, s1, s2, r1, r2
  <2>. QED BY <2>1, <2>2
<1>4. Limit \in Nat
  BY LimitAssumption
<1>5. r1 = r
  BY <1>1, StartLineFacts
<1>. HIDE DEF q, r1
<1>6. CASE ~r.startLineParsed
  BY <1>1, <1>3, <1>5, <1>6 DEF q
<1>7. CASE r.startLineParsed /\ ~r.headersParsed
  <2>1. ParseHeaders(r) = r
    BY <1>1, <1>7, HeadersFacts
  <2>2. r2 = r
    BY <1>5, <1>7, <2>1
  <2>3. r1.contentLength <= Limit /\ ~(r1.contentLength > Limit) /\ r1.startLineParsed
    BY <1>1, <1>4, <1>5, <1>7
  <2>. HIDE DEF r2
  <2>4. q = r
    BY <1>3, <1>5, <1>7, <2>2, <2>3
  <2>. QED BY <1>7, <2>4 DEF q
<1>8. CASE r.headersParsed
  <2>1. r2 = r
    BY <1>5, <1>8
  <2>. HIDE DEF r2
  <2>2. ASSUME r.contentLength <= Limit PROVE ~q.bodyParsed /\ q.errorCode = 0
    <3>1. ~(r.contentLength > Limit)
      <4>1. r.contentLength \in Nat
        BY DEF Fields
      <4>. QED BY <1>4, <2>2, <4>1
    <3>2. q = ParseBody(r)
      BY <1>1, <1>3, <1>5, <1>8, <2>1, <2>2, <3>1
    <3>. QED BY <1>1, <1>8, <3>2, BodyFacts
  <2>. QED BY <1>8, <2>2 DEF q
<1>. QED BY <1>6, <1>7, <1>8

LEMMA Received ==
  ASSUME TypeOK, NEW n \in 1..(Len(message.wire) - received)
  PROVE  /\ SubSeq(message.wire, received + 1, received + n) \in Text
         /\ received + n \in 0..Len(message.wire)
         /\ received + n # received
<1>1. message.wire \in Text
  BY MessagesAssumption DEF TypeOK, Text
<1>2. received \in 0..Len(message.wire) /\ Len(message.wire) \in Nat
  BY <1>1 DEF TypeOK, Text
<1>3. received + n \in 0..Len(message.wire) /\ received + n # received
  BY <1>2
<1>4. \A i \in (received + 1)..(received + n) : message.wire[i] \in Symbols
  BY <1>1, <1>2 DEF Text
<1>5. SubSeq(message.wire, received + 1, received + n) \in Text
  BY <1>2, <1>4, SubSeqProperties DEF Text
<1>. QED BY <1>3, <1>5

LEMMA InitInvariant == Init => IInv
<1>. SUFFICES ASSUME Init PROVE IInv
  OBVIOUS
<1>1. <<>> \in Text
  BY EmptyText
<1>2. NewRequest \in Fields
  BY <1>1 DEF NewRequest, Fields, Text
<1>3. message.wire \in Text
  BY MessagesAssumption DEF Init, Text
<1>4. TypeOK
  BY <1>2, <1>3 DEF Init, TypeOK, Text
<1>5. Find(<<>>, CRLF) = 0
  BY NothingFound
<1>6. Ordered(NewRequest) /\ Settled(NewRequest)
  BY <1>5 DEF Ordered, Settled, NewRequest
<1>. QED BY <1>4, <1>6 DEF Init, IInv

LEMMA NextInvariant == IInv /\ [Next]_vars => IInv'
<1>. SUFFICES ASSUME IInv, [Next]_vars PROVE IInv'
  OBVIOUS
<1>1. req \in Fields /\ Ordered(req) /\ Settled(req) /\ TypeOK
  BY DEF IInv, TypeOK
<1>2. ASSUME NEW n \in 1..Len(message.wire), Receive(n) PROVE IInv'
  <2>. DEFINE input == SubSeq(message.wire, received + 1, received + n)
  <2>1. /\ n \in 1..(Len(message.wire) - received) /\ ~IsParsed(req) /\ ~req.threw
        /\ received' = received + n /\ req' = Parse(req, input) /\ message' = message
        /\ aligned' = (aligned /\ received + n \in message.cuts)
    BY <1>2 DEF Receive
  <2>2. input \in Text /\ received + n \in 0..Len(message.wire)
    BY <1>1, <2>1, Received
  <2>. HIDE DEF input
  <2>3. req' \in Fields /\ Ordered(req') /\ Settled(req')
    BY <1>1, <2>1, <2>2, ParseFacts
  <2>4. aligned' \in BOOLEAN
    BY <2>1
  <2>5. message' \in Messages /\ received' \in 0..Len(message'.wire)
    BY <1>1, <2>1, <2>2 DEF TypeOK
  <2>. QED BY <2>3, <2>4, <2>5 DEF IInv, TypeOK, Ordered, Settled, AwaitsBody
<1>3. CASE ReceiveNothing
  <2>1. /\ ~IsParsed(req) /\ ~req.threw /\ req' = Parse(req, <<>>)
        /\ message' = message /\ received' = received /\ aligned' = aligned
    BY <1>3 DEF ReceiveNothing
  <2>2. req' \in Fields /\ Ordered(req') /\ Settled(req')
    BY <1>1, <2>1, EmptyText, ParseFacts
  <2>3. message' \in Messages /\ received' \in 0..Len(message'.wire) /\ aligned' \in BOOLEAN
    BY <1>1, <2>1 DEF TypeOK
  <2>. QED BY <2>2, <2>3 DEF IInv, TypeOK, Ordered, Settled, AwaitsBody
<1>4. CASE UNCHANGED vars
  BY <1>4 DEF vars, IInv, TypeOK, Ordered, Settled, AwaitsBody
<1>. QED BY <1>2, <1>3, <1>4 DEF Next

(* The invariant holds of the parser for every message, limit and cutting. *)
THEOREM Invariance == Spec => []IInv
<1>1. Init => IInv
  BY InitInvariant
<1>2. IInv /\ [Next]_vars => IInv'
  BY NextInvariant
<1>. QED BY <1>1, <1>2, PTL DEF Spec

------------------------------------------------------------------------------
(* What follows from the invariant. *)

(* The fields of the Request object, and what has been received of the message, are
   what they are declared to be in every state. *)
THEOREM TypeCorrect == Spec => []TypeOK
<1>1. IInv => TypeOK
  BY DEF IInv
<1>. QED BY <1>1, Invariance, PTL

(* Whatever length is announced and however the body comes in pieces, no more of a
   body framed by Content-Length waits in the buffer than client_max_body_size. *)
THEOREM BuffersFit == Spec => []BufferWithinLimit
<1>1. IInv => BufferWithinLimit
  <2>. SUFFICES ASSUME IInv, Phase(req) \in {"body", "over"}, ~req.chunked
                PROVE  Len(req.unparsed) <= Limit
    BY DEF BufferWithinLimit
  <2>1. ~req.threw /\ ~IsParsed(req) /\ req.headersParsed
    BY DEF Phase
  <2>2. req.errorCode = 0 /\ req.headersParsed /\ ~req.bodyParsed
    BY <2>1 DEF IsParsed, IInv, Ordered
  <2>3. AwaitsBody(req)
    BY <2>1, <2>2 DEF IInv, Settled
  <2>. QED BY <2>3 DEF AwaitsBody
<1>. QED BY <1>1, Invariance, PTL

(* The phases of a request that parse may still be called for. *)
LEMMA UnfinishedPhases ==
  ASSUME NEW r \in Fields, ~IsParsed(r), ~r.threw
  PROVE  /\ ~r.headersParsed => Phase(r) = "head"
         /\ r.headersParsed /\ r.contentLength <= Limit => Phase(r) = "body"
         /\ r.headersParsed /\ r.contentLength > Limit => Phase(r) = "over"
<1>1. r.contentLength \in Nat /\ Limit \in Nat
  BY LimitAssumption DEF Fields
<1>. QED BY <1>1 DEF Phase

LEMMA PhaseType == \A r : Phase(r) \in {"head", "body", "over", "complete", "thrown"}
BY DEF Phase

(* A call that is handed bytes. *)
LEMMA MovesWithBytes ==
  ASSUME NEW r \in Fields, NEW input \in Text, Ordered(r), ~IsParsed(r), ~r.threw
  PROVE  Phase(Parse(r, input)) \in AfterBytes[Phase(r)]
<1>. DEFINE q == Parse(r, input)
<1>1. /\ q \in Fields
      /\ r.headersParsed =>
           /\ q.headersParsed /\ ~q.threw /\ q.contentLength = r.contentLength
           /\ r.contentLength > Limit => q.errorCode = 413
  BY ParseFacts
<1>2. r.contentLength \in Nat /\ Limit \in Nat
  BY LimitAssumption DEF Fields
<1>. HIDE DEF q
<1>3. CASE ~r.headersParsed
  <2>1. Phase(r) = "head"
    BY <1>3, UnfinishedPhases
  <2>. QED BY <2>1, PhaseType DEF AfterBytes
<1>4. CASE r.headersParsed /\ r.contentLength > Limit
  <2>1. Phase(r) = "over"
    BY <1>4, UnfinishedPhases
  <2>2. Phase(q) = "complete"
    BY <1>1, <1>4 DEF Phase, IsParsed
  <2>. QED BY <2>1, <2>2 DEF AfterBytes, q
<1>5. CASE r.headersParsed /\ r.contentLength <= Limit
  <2>1. Phase(r) = "body"
    BY <1>5, UnfinishedPhases
  <2>2. CASE IsParsed(q)
    <3>1. Phase(q) = "complete"
      BY <1>1, <1>5, <2>2 DEF Phase
    <3>. QED BY <2>1, <3>1 DEF AfterBytes, q
  <2>3. CASE ~IsParsed(q)
    <3>1. Phase(q) = "body"
      BY <1>1, <1>5, <2>3, UnfinishedPhases
    <3>. QED BY <2>1, <3>1 DEF AfterBytes, q
  <2>. QED BY <2>2, <2>3
<1>. QED BY <1>2, <1>3, <1>4, <1>5

(* A call that is handed nothing. *)
LEMMA MovesWithNothing ==
  ASSUME NEW r \in Fields, Ordered(r), Settled(r), ~IsParsed(r), ~r.threw
  PROVE  Phase(Parse(r, <<>>)) \in AfterNothing[Phase(r)]
<1>. DEFINE q == Parse(r, <<>>)
<1>1. /\ q \in Fields
      /\ r.headersParsed =>
           /\ q.headersParsed /\ ~q.threw /\ q.contentLength = r.contentLength
           /\ r.contentLength > Limit => q.errorCode = 413
  BY EmptyText, ParseFacts
<1>2. /\ ~r.headersParsed => q = r
      /\ r.headersParsed /\ r.contentLength <= Limit => ~q.bodyParsed /\ q.errorCode = 0
  BY NothingNew
<1>3. r.contentLength \in Nat /\ Limit \in Nat
  BY LimitAssumption DEF Fields
<1>. HIDE DEF q
<1>4. CASE ~r.headersParsed
  <2>1. Phase(r) = "head"
    BY <1>4, UnfinishedPhases
  <2>. QED BY <1>2, <1>4, <2>1 DEF AfterNothing, q
<1>5. CASE r.headersParsed /\ r.contentLength > Limit
  <2>1. Phase(r) = "over"
    BY <1>5, UnfinishedPhases
  <2>2. Phase(q) = "complete"
    BY <1>1, <1>5 DEF Phase, IsParsed
  <2>. QED BY <2>1, <2>2 DEF AfterNothing, q
<1>6. CASE r.headersParsed /\ r.contentLength <= Limit
  <2>1. Phase(r) = "body"
    BY <1>6, UnfinishedPhases
  <2>2. ~IsParsed(q)
    BY <1>2, <1>6 DEF IsParsed
  <2>3. Phase(q) = "body"
    BY <1>1, <1>6, <2>2, UnfinishedPhases
  <2>. QED BY <2>1, <2>3 DEF AfterNothing, q
<1>. QED BY <1>3, <1>4, <1>5, <1>6

(* Whatever clients send and however it is cut, parse moves between phases only as
   RequestPhases lists: what the event loop's theorems assume of the parser holds of
   the parser. *)
THEOREM ParserMovesAsListed == Spec => MovesAsListed
<1>. DEFINE Listed == Phase(req') \in IF received' = received THEN AfterNothing[Phase(req)]
                                      ELSE AfterBytes[Phase(req)]
<1>1. ASSUME IInv, Next PROVE Listed
  <2>1. req \in Fields /\ Ordered(req) /\ Settled(req) /\ TypeOK
    BY <1>1 DEF IInv, TypeOK
  <2>2. CASE ReceiveNothing
    <3>1. /\ ~IsParsed(req) /\ ~req.threw /\ req' = Parse(req, <<>>)
          /\ received' = received
      BY <2>2 DEF ReceiveNothing
    <3>2. Phase(Parse(req, <<>>)) \in AfterNothing[Phase(req)]
      BY <2>1, <3>1, MovesWithNothing
    <3>. QED BY <3>1, <3>2
  <2>3. ASSUME NEW n \in 1..Len(message.wire), Receive(n) PROVE Listed
    <3>. DEFINE input == SubSeq(message.wire, received + 1, received + n)
    <3>1. /\ n \in 1..(Len(message.wire) - received) /\ ~IsParsed(req) /\ ~req.threw
          /\ received' = received + n /\ req' = Parse(req, input)
      BY <2>3 DEF Receive
    <3>2. input \in Text /\ received + n # received
      BY <2>1, <3>1, Received
    <3>. HIDE DEF input
    <3>3. Phase(Parse(req, input)) \in AfterBytes[Phase(req)]
      BY <2>1, <3>1, <3>2, MovesWithBytes
    <3>. QED BY <3>1, <3>2, <3>3
  <2>. QED BY <1>1, <2>2, <2>3 DEF Next
<1>2. IInv /\ [Next]_vars => [Listed]_vars
  BY <1>1
<1>. QED BY <1>2, Invariance, PTL DEF Spec, MovesAsListed
------------------------------------------------------------------------------
(* Pieces of a text. *)

(* The symbols of w behind the first c, up to the n-th. *)
Cut(w, c, n) == SubSeq(w, c + 1, n)

LEMMA CutFacts ==
  ASSUME NEW w \in Text, NEW c \in Nat, NEW n \in Nat, c <= n, n <= Len(w)
  PROVE  /\ Cut(w, c, n) \in Text
         /\ Len(Cut(w, c, n)) = n - c
         /\ \A i \in 1..(n - c) : Cut(w, c, n)[i] = w[c + i]
<1>1. \A i \in (c + 1)..n : w[i] \in Symbols
  BY DEF Text
<1>2. c + 1 \in Int /\ n \in Int
  OBVIOUS
<1>3. /\ SubSeq(w, c + 1, n) \in Seq(Symbols)
      /\ Len(SubSeq(w, c + 1, n)) = IF c + 1 <= n THEN n - (c + 1) + 1 ELSE 0
      /\ \A i \in 1..(n - (c + 1) + 1) : SubSeq(w, c + 1, n)[i] = w[(c + 1) + i - 1]
  BY <1>1, <1>2, SubSeqProperties
<1>. QED BY <1>3 DEF Cut, Text

(* Texts of the same length with the same symbols are the same. *)
LEMMA SameText ==
  ASSUME NEW s \in Text, NEW t \in Text, Len(s) = Len(t),
         \A i \in 1..Len(s) : s[i] = t[i]
  PROVE  s = t
BY DEF Text

LEMMA CutAll == ASSUME NEW w \in Text PROVE Cut(w, 0, Len(w)) = w
<1>1. Len(w) \in Nat
  BY DEF Text
<1>. DEFINE n == Len(w)
<1>2. n \in Nat /\ n <= Len(w) /\ 0 \in Nat /\ 0 <= n /\ n - 0 = n
  BY <1>1
<1>3. \A i \in 1..n : 0 + i = i
  BY <1>2
<1>. HIDE DEF n
<1>4. /\ Cut(w, 0, n) \in Text /\ Len(Cut(w, 0, n)) = n - 0
      /\ \A i \in 1..(n - 0) : Cut(w, 0, n)[i] = w[0 + i]
  BY <1>2, CutFacts
<1>5. Cut(w, 0, n) \in Text /\ Len(Cut(w, 0, n)) = Len(w)
  BY <1>2, <1>4 DEF n
<1>6. \A i \in 1..Len(Cut(w, 0, n)) : Cut(w, 0, n)[i] = w[i]
  BY <1>2, <1>3, <1>4
<1>7. Cut(w, 0, n) = w
  BY <1>5, <1>6, SameText
<1>. QED BY <1>7 DEF n

LEMMA CutJoin ==
  ASSUME NEW w \in Text, NEW c \in Nat, NEW n \in Nat, NEW k \in Nat,
         c <= n, n <= k, k <= Len(w)
  PROVE  Cut(w, c, n) \o Cut(w, n, k) = Cut(w, c, k)
<1>. Len(w) \in Nat
  BY DEF Text
<1>. n <= Len(w) /\ c <= k
  OBVIOUS
<1>1. /\ Cut(w, c, n) \in Text /\ Len(Cut(w, c, n)) = n - c
      /\ \A i \in 1..(n - c) : Cut(w, c, n)[i] = w[c + i]
  BY CutFacts
<1>2. /\ Cut(w, n, k) \in Text /\ Len(Cut(w, n, k)) = k - n
      /\ \A i \in 1..(k - n) : Cut(w, n, k)[i] = w[n + i]
  BY CutFacts
<1>3. /\ Cut(w, c, k) \in Text /\ Len(Cut(w, c, k)) = k - c
      /\ \A i \in 1..(k - c) : Cut(w, c, k)[i] = w[c + i]
  BY CutFacts
<1>. DEFINE s == Cut(w, c, n)
            t == Cut(w, n, k)
<1>. HIDE DEF s, t
<1>4. /\ s \in Text /\ t \in Text /\ Len(s) = n - c /\ Len(t) = k - n
      /\ \A i \in 1..(n - c) : s[i] = w[c + i]
      /\ \A i \in 1..(k - n) : t[i] = w[n + i]
  BY <1>1, <1>2 DEF s, t
<1>5. /\ s \o t \in Text /\ Len(s \o t) = k - c
      /\ \A i \in 1..(k - c) : (s \o t)[i] = IF i <= n - c THEN s[i] ELSE t[i - (n - c)]
  <2>1. s \o t \in Text
    BY <1>4, Appended
  <2>2. /\ Len(s \o t) = Len(s) + Len(t)
        /\ \A i \in 1..(Len(s) + Len(t)) :
             (s \o t)[i] = IF i <= Len(s) THEN s[i] ELSE t[i - Len(s)]
    BY <1>4, ConcatProperties DEF Text
  <2>3. Len(s) + Len(t) = k - c
    BY <1>4
  <2>. QED BY <1>4, <2>1, <2>2, <2>3
<1>6. \A i \in 1..(k - c) : (s \o t)[i] = w[c + i]
  <2>. TAKE i \in 1..(k - c)
  <2>1. CASE i <= n - c
    BY <1>4, <1>5, <2>1
  <2>2. CASE ~(i <= n - c)
    <3>1. i - (n - c) \in 1..(k - n) /\ n + (i - (n - c)) = c + i
      BY <2>2
    <3>. QED BY <1>4, <1>5, <2>2, <3>1
  <2>. QED BY <2>1, <2>2
<1>7. s \o t = Cut(w, c, k)
  BY <1>3, <1>5, <1>6, SameText
<1>. QED BY <1>7 DEF s, t

(* A piece of a piece. *)
LEMMA CutCut ==
  ASSUME NEW w \in Text, NEW c \in Nat, NEW n \in Nat, NEW d \in Nat, NEW e \in Nat,
         c <= n, n <= Len(w), d <= e, e <= n - c
  PROVE  Cut(Cut(w, c, n), d, e) = Cut(w, c + d, c + e)
<1>. DEFINE s == Cut(w, c, n)
            a == c + d
            b == c + e
<1>1. /\ s \in Text /\ Len(s) = n - c /\ \A j \in 1..(n - c) : s[j] = w[c + j]
  BY CutFacts
<1>2. a \in Nat /\ b \in Nat /\ a <= b /\ b <= Len(w) /\ b - a = e - d
  BY DEF Text
<1>3. \A j \in 1..(e - d) : d + j \in 1..(n - c) /\ c + (d + j) = a + j
  OBVIOUS
<1>. HIDE DEF s, a, b
<1>4. /\ Cut(w, a, b) \in Text /\ Len(Cut(w, a, b)) = b - a
      /\ \A j \in 1..(b - a) : Cut(w, a, b)[j] = w[a + j]
  BY <1>2, CutFacts
<1>5. /\ Cut(s, d, e) \in Text /\ Len(Cut(s, d, e)) = e - d
      /\ \A j \in 1..(e - d) : Cut(s, d, e)[j] = s[d + j]
  BY <1>1, CutFacts
<1>6. \A j \in 1..(e - d) : Cut(s, d, e)[j] = Cut(w, a, b)[j]
  <2>. TAKE j \in 1..(e - d)
  <2>1. Cut(s, d, e)[j] = w[c + (d + j)]
    BY <1>1, <1>3, <1>5
  <2>. QED BY <1>2, <1>3, <1>4, <2>1
<1>7. Cut(s, d, e) = Cut(w, a, b)
  BY <1>2, <1>4, <1>5, <1>6, SameText
<1>. QED BY <1>7 DEF s, a, b

LEMMA CutFrom ==
  ASSUME NEW w \in Text, NEW c \in Nat, NEW n \in Nat, NEW d \in Nat,
         c <= n, n <= Len(w), d <= n - c
  PROVE  From(Cut(w, c, n), d + 1) = Cut(w, c + d, n)
<1>. DEFINE e == n - c
<1>1. e \in Nat /\ d <= e /\ e <= n - c /\ c + e = n /\ Len(Cut(w, c, n)) = e
  BY CutFacts
<1>. HIDE DEF e
<1>2. Cut(Cut(w, c, n), d, e) = Cut(w, c + d, c + e)
  BY <1>1, CutCut
<1>. QED BY <1>1, <1>2 DEF From, Cut

(* The first d symbols of s. *)
First(s, d) == SubSeq(s, 1, d)

LEMMA CutPart ==
  ASSUME NEW w \in Text, NEW c \in Nat, NEW n \in Nat, NEW e \in Nat,
         c <= n, n <= Len(w), e <= n - c
  PROVE  First(Cut(w, c, n), e) = Cut(w, c, c + e)
<1>1. Cut(Cut(w, c, n), 0, e) = Cut(w, c + 0, c + e)
  BY CutCut
<1>2. 0 + 1 = 1 /\ c + 0 = c
  OBVIOUS
<1>3. Cut(Cut(w, c, n), 0, e) = First(Cut(w, c, n), e)
  BY <1>2 DEF Cut, First
<1>. QED BY <1>1, <1>2, <1>3

LEMMA CutPrefix ==
  ASSUME NEW w \in Text, NEW c \in Nat, NEW n \in Nat, NEW p \in Text,
         c <= n, n <= Len(w)
  PROVE  IsPrefix(p, Cut(w, c, n)) <=>
           Len(p) <= n - c /\ \A j \in 1..Len(p) : p[j] = w[c + j]
<1>. DEFINE l == Len(p)
<1>1. l \in Nat /\ Len(w) \in Nat /\ Len(Cut(w, c, n)) = n - c /\ n - c \in Nat
  <2>1. l \in Nat /\ Len(w) \in Nat
    BY DEF Text
  <2>2. Len(Cut(w, c, n)) = n - c
    BY CutFacts
  <2>. QED BY <2>1, <2>2
<1>2. SubSeq(p, 1, l) = p
  BY CutAll DEF Cut
<1>3. l = Len(p)
  OBVIOUS
<1>. HIDE DEF l
<1>4. CASE l <= n - c
  <2>. DEFINE e == c + l
  <2>1. /\ e \in Nat /\ c <= e /\ e <= Len(w) /\ e - c = l /\ e = c + l
    BY <1>1, <1>4
  <2>. HIDE DEF e
  <2>2. First(Cut(w, c, n), l) = Cut(w, c, e)
    BY <1>1, <1>4, <2>1, CutPart
  <2>3. /\ Cut(w, c, e) \in Text /\ Len(Cut(w, c, e)) = l
        /\ \A i \in 1..l : Cut(w, c, e)[i] = w[c + i]
    BY <2>1, CutFacts
  <2>4. IsPrefix(p, Cut(w, c, n)) <=> p = Cut(w, c, e)
    BY <1>1, <1>2, <1>3, <1>4, <2>2 DEF IsPrefix, First
  <2>5. (\A j \in 1..l : p[j] = w[c + j]) => p = Cut(w, c, e)
    BY <1>3, <2>3, SameText
  <2>6. p = Cut(w, c, e) => \A j \in 1..l : p[j] = w[c + j]
    BY <2>3
  <2>. QED BY <1>3, <1>4, <2>4, <2>5, <2>6
<1>5. CASE ~(l <= n - c)
  BY <1>1, <1>3, <1>5 DEF IsPrefix
<1>. QED BY <1>4, <1>5

LEMMA SamePrefix ==
  ASSUME NEW w \in Text, NEW c \in Nat, NEW n \in Nat, NEW k \in Nat, NEW p \in Text,
         c <= n, n <= k, k <= Len(w), Len(p) <= n - c
  PROVE  IsPrefix(p, Cut(w, c, n)) <=> IsPrefix(p, Cut(w, c, k))
<1>1. Len(p) \in Nat /\ Len(w) \in Nat
  BY DEF Text
<1>2. n <= Len(w) /\ c <= k /\ Len(p) <= k - c
  BY <1>1
<1>3. IsPrefix(p, Cut(w, c, n)) <=> \A j \in 1..Len(p) : p[j] = w[c + j]
  BY <1>2, CutPrefix
<1>4. IsPrefix(p, Cut(w, c, k)) <=> \A j \in 1..Len(p) : p[j] = w[c + j]
  BY <1>2, CutPrefix
<1>. QED BY <1>3, <1>4

(* What is found in a text is found in the pieces of it that are long enough, at the
   same place, and in no other. *)
LEMMA FindInCut ==
  ASSUME NEW w \in Text, NEW c \in Nat, NEW n \in Nat, NEW p \in Text, p # <<>>,
         c <= n, n <= Len(w)
  PROVE  LET f == Find(Cut(w, c, Len(w)), p)
         IN Find(Cut(w, c, n), p) = IF f # 0 /\ c + f + Len(p) - 1 <= n THEN f ELSE 0
<1>. DEFINE At(i) == \A j \in 1..Len(p) : p[j] = w[c + i - 1 + j]
            Places(k) == {i \in 1..(k - c) : i + Len(p) - 1 <= k - c /\ At(i)}
            l == Len(p)
            z == Len(w)
<1>1. l \in Nat \ {0} /\ z \in Nat
  BY DEF Text
<1>2. ASSUME NEW k \in Nat, c <= k, k <= Len(w)
      PROVE  Find(Cut(w, c, k), p) = IF Places(k) = {} THEN 0 ELSE Min(Places(k))
  <2>. DEFINE s == Cut(w, c, k)
  <2>1. s \in Text /\ Len(s) = k - c
    BY <1>2, CutFacts
  <2>2. \A i \in 1..(k - c) : IsPrefix(p, SubSeq(s, i, Len(s))) <=>
                                i + Len(p) - 1 <= k - c /\ At(i)
    <3>. TAKE i \in 1..(k - c)
    <3>. DEFINE d == i - 1
                b == c + i - 1
    <3>1. /\ d \in Nat /\ d <= k - c /\ d + 1 = i /\ c + d = b
          /\ b \in Nat /\ b <= k
          /\ l <= k - b <=> i + l - 1 <= k - c
      BY <1>1, <1>2
    <3>2. At(i) <=> \A j \in 1..Len(p) : p[j] = w[b + j]
      OBVIOUS
    <3>. HIDE DEF d, b, At
    <3>3. From(s, d + 1) = Cut(w, c + d, k)
      BY <1>2, <3>1, CutFrom
    <3>4. SubSeq(s, i, Len(s)) = Cut(w, b, k)
      BY <3>1, <3>3 DEF From
    <3>5. IsPrefix(p, Cut(w, b, k)) <=>
            Len(p) <= k - b /\ \A j \in 1..Len(p) : p[j] = w[b + j]
      BY <1>2, <3>1, CutPrefix
    <3>. HIDE DEF s
    <3>. QED BY <3>1, <3>2, <3>4, <3>5
  <2>3. {i \in 1..Len(s) : IsPrefix(p, SubSeq(s, i, Len(s)))} = Places(k)
    BY <2>1, <2>2
  <2>. HIDE DEF Places, s
  <2>. QED BY <2>3 DEF Find, s
<1>3. Find(Cut(w, c, n), p) = IF Places(n) = {} THEN 0 ELSE Min(Places(n))
  BY <1>2
<1>4. Find(Cut(w, c, z), p) = IF Places(z) = {} THEN 0 ELSE Min(Places(z))
  BY <1>1, <1>2
<1>5. /\ Places(n) \in SUBSET Nat /\ Places(z) \in SUBSET Nat
      /\ \A i \in Nat : i \in Places(n) <=> i \in Places(z) /\ c + i + l - 1 <= n
      /\ \A i \in Places(z) : i # 0
  <2>. HIDE DEF At
  <2>. QED BY <1>1
<1>. HIDE DEF Places, At, l, z
<1>6. Places(n) # {} => Min(Places(n)) \in Places(n) /\ \A i \in Places(n) : Min(Places(n)) <= i
  BY <1>5, MinFacts
<1>7. Places(z) # {} => Min(Places(z)) \in Places(z) /\ \A i \in Places(z) : Min(Places(z)) <= i
  BY <1>5, MinFacts
<1>. DEFINE f == Find(Cut(w, c, z), p)
<1>8. CASE Places(z) = {}
  BY <1>3, <1>4, <1>5, <1>8 DEF l, z
<1>9. CASE Places(z) # {} /\ c + f + l - 1 <= n
  <2>1. f = Min(Places(z)) /\ f \in Nat /\ f \in Places(z) /\ f \in Places(n) /\ f # 0
    BY <1>4, <1>5, <1>7, <1>9
  <2>2. Places(n) # {}
    BY <2>1
  <2>3. Min(Places(n)) \in Nat /\ Min(Places(n)) <= f /\ f <= Min(Places(n))
    BY <1>5, <1>6, <1>7, <2>1, <2>2
  <2>4. Min(Places(n)) = f
    BY <2>1, <2>3
  <2>. QED BY <1>3, <1>9, <2>1, <2>2, <2>4 DEF l, z
<1>10. CASE Places(z) # {} /\ ~(c + f + l - 1 <= n)
  <2>1. f = Min(Places(z)) /\ f \in Nat
    BY <1>4, <1>5, <1>7, <1>10
  <2>2. Places(n) = {}
    <3>. SUFFICES ASSUME NEW i \in Places(n) PROVE FALSE
      OBVIOUS
    <3>1. i \in Nat /\ i \in Places(z) /\ c + i + l - 1 <= n
      BY <1>5
    <3>2. f <= i
      BY <1>7, <1>10, <2>1, <3>1
    <3>. QED BY <1>1, <1>10, <2>1, <3>1, <3>2
  <2>. QED BY <1>3, <1>10, <2>2 DEF l, z
<1>. QED BY <1>8, <1>9, <1>10
------------------------------------------------------------------------------
(* A request that is not chunked, and what the stages of parse do with as much of it as
   has come. *)

(* Where the headers of w begin and where its body begins: so many symbols come before. *)
HeadersAt(w) == Find(w, CRLF) + 1
BodyAt(w) == HeadersAt(w) + Find(HeadersOf(w), CRLF \o CRLF) + 3

LEMMA WholeHead ==
  ASSUME NEW w \in Text, Find(w, CRLF) > 0
  PROVE  /\ HeadersAt(w) \in Nat /\ HeadersAt(w) <= Len(w)
         /\ HeadersOf(w) = Cut(w, HeadersAt(w), Len(w))
         /\ HeadersOf(w) \in Text
<1>1. Len(w) \in Nat /\ Find(w, CRLF) \in Nat /\ Find(w, CRLF) + 2 - 1 <= Len(w)
  <2>1. Len(w) \in Nat
    BY DEF Text
  <2>2. Find(w, CRLF) \in 0..Len(w) /\ (Find(w, CRLF) # 0 => Find(w, CRLF) + 2 - 1 <= Len(w))
    BY FindFacts, Patterns
  <2>. QED BY <2>1, <2>2
<1>2. HeadersAt(w) \in Nat /\ HeadersAt(w) <= Len(w) /\ HeadersAt(w) + 1 = Find(w, CRLF) + 2
  BY <1>1 DEF HeadersAt
<1>3. HeadersOf(w) = Cut(w, HeadersAt(w), Len(w))
  BY <1>2 DEF HeadersOf, From, Cut
<1>4. Cut(w, HeadersAt(w), Len(w)) \in Text
  <2>1. Len(w) <= Len(w)
    BY <1>1
  <2>. QED BY <1>1, <1>2, <2>1, CutFacts
<1>. QED BY <1>2, <1>3, <1>4

LEMMA WholeBody ==
  ASSUME NEW w \in Text, Find(w, CRLF) > 0, Find(HeadersOf(w), CRLF \o CRLF) > 0
  PROVE  /\ BodyAt(w) \in Nat /\ HeadersAt(w) <= BodyAt(w) /\ BodyAt(w) <= Len(w)
         /\ BodyOf(w) = Cut(w, BodyAt(w), Len(w))
         /\ BodyOf(w) \in Text /\ Len(BodyOf(w)) = Len(w) - BodyAt(w)
         /\ RowsOf(w) = Cut(w, HeadersAt(w), BodyAt(w))
         /\ RowsOf(w) \in Text
<1>. DEFINE h == HeadersOf(w)
            a == HeadersAt(w)
            z == Len(w)
            b == Find(h, CRLF \o CRLF)
<1>1. z \in Nat /\ a \in Nat /\ a <= z /\ h = Cut(w, a, z) /\ h \in Text /\ Len(h) = z - a
  <2>1. z \in Nat /\ z <= z /\ z = Len(w)
    BY DEF Text
  <2>2. a \in Nat /\ a <= z /\ h = Cut(w, a, z) /\ h \in Text
    BY WholeHead
  <2>. HIDE DEF z, a, h
  <2>3. Len(Cut(w, a, z)) = z - a
    BY <2>1, <2>2, CutFacts
  <2>. QED BY <2>1, <2>2, <2>3
<1>2. b \in Nat /\ b > 0 /\ b + 3 <= z - a
  <2>1. b \in 0..Len(h) /\ (b # 0 => b + 4 - 1 <= Len(h))
    BY <1>1, FindFacts, Patterns
  <2>. HIDE DEF b, h, a, z
  <2>2. b > 0
    BY DEF b, h
  <2>. QED BY <1>1, <2>1, <2>2
<1>3. BodyAt(w) = a + (b + 3) /\ BodyOf(w) = From(h, (b + 3) + 1) /\ RowsOf(w) = First(h, b + 3)
  <2>1. a + b + 3 = a + (b + 3) /\ b + 4 = (b + 3) + 1
    BY <1>1, <1>2
  <2>. QED BY <2>1 DEF BodyAt, BodyOf, RowsOf, First
<1>. DEFINE d == b + 3
<1>4. d \in Nat /\ d <= z - a /\ a + d \in Nat /\ a <= a + d /\ a + d <= z
  BY <1>1, <1>2
<1>5. z <= Len(w)
  BY <1>1
<1>6. d = b + 3
  OBVIOUS
<1>. HIDE DEF h, a, z, b, d
<1>7. From(h, d + 1) = Cut(w, a + d, z)
  BY <1>1, <1>4, <1>5, CutFrom
<1>8. First(h, d) = Cut(w, a, a + d)
  BY <1>1, <1>4, <1>5, CutPart
<1>9. BodyAt(w) = a + d /\ BodyOf(w) = Cut(w, a + d, z) /\ RowsOf(w) = Cut(w, a, a + d)
  BY <1>3, <1>6, <1>7, <1>8
<1>10. /\ Cut(w, a + d, z) \in Text /\ Len(Cut(w, a + d, z)) = z - (a + d)
       /\ Cut(w, a, a + d) \in Text
  <2>. DEFINE k == a + d
  <2>1. k \in Nat /\ a <= k /\ k <= z /\ k <= Len(w)
    BY <1>1, <1>4 DEF z
  <2>. HIDE DEF k
  <2>2. /\ Cut(w, k, z) \in Text /\ Len(Cut(w, k, z)) = z - k
        /\ Cut(w, a, k) \in Text
    BY <1>1, <1>5, <2>1, CutFacts
  <2>. QED BY <2>2 DEF k
<1>. QED BY <1>1, <1>4, <1>5, <1>9, <1>10 DEF a, z

(* The start lines parseStartLine does not accept. *)
Unknown == {<<>>, <<"unknownMethod">>}
Bad == <<"badStart">>

LEMMA BadIsKnown == Bad \notin Unknown
BY DEF Bad, Unknown

(* The start line of what has come is that of the request, once its CRLF has come. *)
LEMMA StartFollows ==
  ASSUME NEW w \in Text, NEW n \in Nat, n <= Len(w), Find(w, CRLF) > 0,
         NEW r \in Fields, r.unparsed = Cut(w, 0, n),
         ~r.startLineParsed, r.errorCode = 0, ~r.threw
  PROVE  LET q == ParseStartLine(r)
         IN /\ HeadersAt(w) > n => q = r
            /\ HeadersAt(w) <= n /\ StartOf(w) \in Unknown =>
                 q.errorCode = 501 /\ ~q.threw /\ ~q.startLineParsed
            /\ HeadersAt(w) <= n /\ StartOf(w) = Bad => q.threw /\ ~q.startLineParsed
            /\ HeadersAt(w) <= n /\ StartOf(w) \notin Unknown \cup {Bad} =>
                 /\ q.startLineParsed /\ q.errorCode = 0 /\ ~q.threw
                 /\ q.unparsed = Cut(w, HeadersAt(w), n)
                 /\ q.body = r.body
<1>. DEFINE f == Find(w, CRLF)
            pos == Find(r.unparsed, CRLF)
            line == SubSeq(r.unparsed, 1, pos - 1)
            u == From(r.unparsed, pos + 2)
            rest == [r EXCEPT !.unparsed = u]
            q == ParseStartLine(r)
<1>1. Len(w) \in Nat /\ f \in Nat /\ f > 0 /\ 0 \in Nat /\ HeadersAt(w) = f + 1
  <2>1. Len(w) \in Nat /\ f \in 0..Len(w)
    BY FindFacts, Patterns DEF Text
  <2>. QED BY <2>1 DEF HeadersAt
<1>2. pos = IF f + 1 <= n THEN f ELSE 0
  <2>1. Find(Cut(w, 0, Len(w)), CRLF) = f
    BY CutAll
  <2>2. Find(Cut(w, 0, n), CRLF) = IF f # 0 /\ 0 + f + 2 - 1 <= n THEN f ELSE 0
    <3>1. Find(Cut(w, 0, n), CRLF) =
            IF Find(Cut(w, 0, Len(w)), CRLF) # 0
               /\ 0 + Find(Cut(w, 0, Len(w)), CRLF) + Len(CRLF) - 1 <= n
            THEN Find(Cut(w, 0, Len(w)), CRLF) ELSE 0
      BY <1>1, Patterns, FindInCut
    <3>. HIDE DEF f
    <3>. QED BY <2>1, <3>1, Patterns
  <2>3. f # 0 /\ (0 + f + 2 - 1 <= n <=> f + 1 <= n)
    BY <1>1
  <2>. HIDE DEF f
  <2>. QED BY <2>2, <2>3
<1>3. CASE HeadersAt(w) > n
  <2>. HIDE DEF f, pos
  <2>1. pos = 0
    BY <1>1, <1>2, <1>3
  <2>2. q = r
    BY <2>1, StartLineFacts DEF pos
  <2>3. ~(HeadersAt(w) <= n)
    BY <1>1, <1>3
  <2>. QED BY <2>2, <2>3
<1>4. CASE HeadersAt(w) <= n
  <2>1. pos = f /\ f + 1 <= n
    <3>. HIDE DEF f, pos
    <3>. QED BY <1>1, <1>2, <1>4
  <2>2. /\ line = StartOf(w)
        /\ u = Cut(w, f + 1, n)
    <3>. DEFINE d == f - 1
    <3>1. /\ d \in Nat /\ d <= n - 0 /\ 0 + d = d /\ d <= Len(w) - 0
          /\ f + 1 \in Nat /\ f + 1 <= n - 0 /\ (f + 1) + 1 = f + 2 /\ 0 + (f + 1) = f + 1
      BY <1>1, <2>1
    <3>2. /\ line = First(r.unparsed, d) /\ StartOf(w) = First(w, d)
          /\ u = From(r.unparsed, (f + 1) + 1)
      BY <2>1, <3>1 DEF First, StartOf
    <3>. HIDE DEF f, pos, line, u, d
    <3>3. /\ First(Cut(w, 0, n), d) = Cut(w, 0, 0 + d)
          /\ First(Cut(w, 0, Len(w)), d) = Cut(w, 0, 0 + d)
      BY <1>1, <3>1, CutPart
    <3>4. From(Cut(w, 0, n), (f + 1) + 1) = Cut(w, 0 + (f + 1), n)
      <4>. DEFINE e == f + 1
      <4>1. e \in Nat /\ e <= n - 0
        BY <3>1
      <4>. HIDE DEF e
      <4>2. From(Cut(w, 0, n), e + 1) = Cut(w, 0 + e, n)
        BY <1>1, <4>1, CutFrom
      <4>. QED BY <4>2 DEF e
    <3>. QED BY <3>1, <3>2, <3>3, <3>4, CutAll
  <2>3. u \in Text
    <3>1. f + 1 \in Nat
      BY <1>1
    <3>. HIDE DEF u
    <3>. QED BY <2>1, <2>2, <3>1, CutFacts
  <2>4. /\ line \in Unknown => q = [rest EXCEPT !.errorCode = 501]
        /\ line = Bad => q = [rest EXCEPT !.threw = TRUE]
        /\ line \notin Unknown \cup {Bad} => q = [rest EXCEPT !.startLineParsed = TRUE]
    <3>1. /\ line \in Unknown <=> line = <<>> \/ line = <<"unknownMethod">>
          /\ Bad = <<"badStart">>
      BY DEF Unknown, Bad
    <3>2. pos # 0 /\ pos > 0
      BY <1>1, <2>1
    <3>3. q = CASE pos = 0 -> r
                [] pos > 0 /\ (line = <<>> \/ line = <<"unknownMethod">>) ->
                     [rest EXCEPT !.errorCode = 501]
                [] pos > 0 /\ line = <<"badStart">> -> [rest EXCEPT !.threw = TRUE]
                [] OTHER -> [rest EXCEPT !.startLineParsed = TRUE]
      BY DEF ParseStartLine
    <3>4. line = <<"badStart">> => ~(line = <<>> \/ line = <<"unknownMethod">>)
      BY <3>1, BadIsKnown
    <3>. HIDE DEF pos, line, rest, q
    <3>. QED BY <3>1, <3>2, <3>3, <3>4
  <2>5. /\ rest \in Fields /\ rest.unparsed = u /\ rest.errorCode = 0 /\ ~rest.threw
        /\ ~rest.startLineParsed /\ rest.body = r.body
    <3>. HIDE DEF u
    <3>1. rest.body = r.body
      BY DEF Fields
    <3>. QED BY <2>3, <3>1, SetText
  <2>6. ~(HeadersAt(w) > n)
    BY <1>1, <1>4
  <2>. HIDE DEF rest, u, line, pos, f, q
  <2>7. ASSUME StartOf(w) \in Unknown PROVE q.errorCode = 501 /\ ~q.threw /\ ~q.startLineParsed
    <3>1. q = [rest EXCEPT !.errorCode = 501]
      BY <2>2, <2>4, <2>7
    <3>. QED BY <2>5, <3>1, SetErrorCode
  <2>8. ASSUME StartOf(w) = Bad PROVE q.threw /\ ~q.startLineParsed
    <3>1. q = [rest EXCEPT !.threw = TRUE]
      BY <2>2, <2>4, <2>8
    <3>. QED BY <2>5, <3>1, SetThrew
  <2>9. ASSUME StartOf(w) \notin Unknown \cup {Bad}
        PROVE  /\ q.startLineParsed /\ q.errorCode = 0 /\ ~q.threw
               /\ q.unparsed = Cut(w, HeadersAt(w), n)
               /\ q.body = r.body
    <3>1. q = [rest EXCEPT !.startLineParsed = TRUE]
      BY <2>2, <2>4, <2>9
    <3>2. q.startLineParsed /\ q.errorCode = 0 /\ ~q.threw /\ q.unparsed = u
      BY <2>5, <3>1, SetStartLineParsed
    <3>3. q.body = rest.body
      BY <2>5, <3>1 DEF Fields
    <3>. QED BY <1>1, <2>2, <2>5, <3>2, <3>3
  <2>. QED BY <2>6, <2>7, <2>8, <2>9 DEF q
<1>. QED
  <2>1. HeadersAt(w) > n \/ HeadersAt(w) <= n
    BY <1>1
  <2>. QED BY <1>3, <1>4, <2>1
LEMMA SetHeadersFields ==
  ASSUME NEW r \in Fields, NEW u, NEW h, NEW c, NEW n
  PROVE  LET q == WithHeaders(r, u, h, c, n)
         IN /\ q.unparsed = u /\ q.headersParsed = h /\ q.chunked = c /\ q.contentLength = n
            /\ q.errorCode = r.errorCode /\ q.threw = r.threw /\ q.body = r.body
<1>. DEFINE q == WithHeaders(r, u, h, c, n)
<1>1. q.unparsed = u /\ q.contentLength = n
  BY DEF WithHeaders, Fields
<1>2. q.headersParsed = h
  BY DEF WithHeaders, Fields
<1>3. q.chunked = c
  BY DEF WithHeaders, Fields
<1>4. q.errorCode = r.errorCode /\ q.threw = r.threw /\ q.body = r.body
  BY DEF WithHeaders, Fields
<1>. QED BY <1>1, <1>2, <1>3, <1>4

(* What parseHeaders does when an empty row has come behind at least one other. *)
LEMMA HeadersTaken ==
  ASSUME NEW r \in Fields, ~r.headersParsed, r.contentLength = 0, r.errorCode = 0, ~r.threw,
         ~IsPrefix(CRLF, r.unparsed),
         NEW f \in Nat, f > 0, Find(r.unparsed, CRLF \o CRLF) = f,
         NEW rows \in Text, rows = First(r.unparsed, f + 3),
         NEW u \in Text, u = From(r.unparsed, (f + 3) + 1)
  PROVE  LET q == ParseHeaders(r)
         IN /\ Contains(rows, "badRow") => q.threw
            /\ ~Contains(rows, "badRow") =>
                 /\ q.headersParsed /\ q.errorCode = 0 /\ ~q.threw
                 /\ q.unparsed = u
                 /\ q.chunked = Contains(rows, "chunked")
                 /\ q.contentLength = LastLength(0, rows)
                 /\ q.body = r.body
<1>. DEFINE l == LastLength(0, rows)
            q == ParseHeaders(r)
<1>1. l \in Nat
  <2>1. 0 \in Nat
    OBVIOUS
  <2>. QED BY <2>1, LastLengthType
<1>2. PICK c \in BOOLEAN : c = Contains(rows, "chunked")
  BY DEF Contains
<1>3. /\ Contains(rows, "badRow") => q = [r EXCEPT !.threw = TRUE]
      /\ ~Contains(rows, "badRow") => q = WithHeaders(r, u, TRUE, c, l)
  <2>. DEFINE end == IF IsPrefix(CRLF, r.unparsed) THEN 2 ELSE Find(r.unparsed, CRLF \o CRLF) + 3
              part == SubSeq(r.unparsed, 1, end)
  <2>1. end = f + 3 /\ f # 0
    OBVIOUS
  <2>2. part = rows /\ From(r.unparsed, end + 1) = u
    BY <2>1 DEF First
  <2>3. q = CASE f = 0 -> r
              [] f > 0 /\ Contains(part, "badRow") -> [r EXCEPT !.threw = TRUE]
              [] OTHER -> [r EXCEPT !.unparsed = From(@, end + 1),
                                    !.headersParsed = TRUE,
                                    !.chunked = Contains(part, "chunked"),
                                    !.contentLength = LastLength(@, part)]
    BY DEF ParseHeaders
  <2>4. [r EXCEPT !.unparsed = From(@, end + 1),
                  !.headersParsed = TRUE,
                  !.chunked = Contains(part, "chunked"),
                  !.contentLength = LastLength(@, part)]
        = WithHeaders(r, u, TRUE, c, l)
    BY <1>2, <2>2 DEF WithHeaders
  <2>. HIDE DEF end, part, q, l
  <2>. QED BY <2>1, <2>2, <2>3, <2>4
<1>4. ASSUME Contains(rows, "badRow") PROVE q.threw
  <2>1. q = [r EXCEPT !.threw = TRUE]
    BY <1>3, <1>4
  <2>. HIDE DEF q
  <2>. QED BY <2>1, SetThrew
<1>5. ASSUME ~Contains(rows, "badRow")
      PROVE  /\ q.headersParsed /\ q.errorCode = 0 /\ ~q.threw
             /\ q.unparsed = u
             /\ q.chunked = Contains(rows, "chunked")
             /\ q.contentLength = LastLength(0, rows)
             /\ q.body = r.body
  <2>1. PICK v \in BOOLEAN : v = TRUE
    OBVIOUS
  <2>. HIDE DEF q, l
  <2>2. q = WithHeaders(r, u, v, c, l)
    BY <1>3, <1>5, <2>1
  <2>3. /\ q.unparsed = u /\ q.headersParsed = v /\ q.chunked = c /\ q.contentLength = l
        /\ q.errorCode = r.errorCode /\ q.threw = r.threw /\ q.body = r.body
    BY <2>2, SetHeadersFields
  <2>. QED BY <1>2, <2>1, <2>3 DEF l
<1>. QED BY <1>4, <1>5

(* The header rows found in what has come are those of the request, once the empty row has
   come. *)
LEMMA HeadersFollow ==
  ASSUME NEW w \in Text, NEW n \in Nat, n <= Len(w), Find(w, CRLF) > 0, HeadersAt(w) <= n,
         Find(HeadersOf(w), CRLF \o CRLF) > 0, ~IsPrefix(CRLF, HeadersOf(w)),
         NEW s \in Text, s = Cut(w, HeadersAt(w), n)
  PROVE  LET f == Find(HeadersOf(w), CRLF \o CRLF)
         IN /\ BodyAt(w) > n => Find(s, CRLF \o CRLF) = 0
            /\ BodyAt(w) <= n =>
                 /\ f \in Nat /\ f > 0 /\ Find(s, CRLF \o CRLF) = f
                 /\ ~IsPrefix(CRLF, s)
                 /\ RowsOf(w) \in Text /\ RowsOf(w) = First(s, f + 3)
                 /\ Cut(w, BodyAt(w), n) \in Text
                 /\ Cut(w, BodyAt(w), n) = From(s, (f + 3) + 1)
<1>. DEFINE a == HeadersAt(w)
            z == Len(w)
            f == Find(HeadersOf(w), CRLF \o CRLF)
            blank == Find(s, CRLF \o CRLF)
<1>1. /\ z \in Nat /\ a \in Nat /\ a <= n /\ a <= z /\ n <= z /\ z <= Len(w)
      /\ HeadersOf(w) = Cut(w, a, z) /\ HeadersOf(w) \in Text
  <2>1. z \in Nat
    BY DEF Text
  <2>2. z <= Len(w)
    BY <2>1
  <2>. QED BY <2>1, <2>2, WholeHead
<1>2. f \in Nat /\ f > 0 /\ BodyAt(w) = a + f + 3
  <2>1. Len(HeadersOf(w)) \in Nat
    BY <1>1 DEF Text
  <2>2. f \in 0..Len(HeadersOf(w))
    BY <1>1, FindFacts, Patterns
  <2>. QED BY <2>1, <2>2 DEF BodyAt
<1>3. blank = IF BodyAt(w) <= n THEN f ELSE 0
  <2>1. Find(Cut(w, a, n), CRLF \o CRLF) =
          IF Find(Cut(w, a, z), CRLF \o CRLF) # 0
             /\ a + Find(Cut(w, a, z), CRLF \o CRLF) + Len(CRLF \o CRLF) - 1 <= n
          THEN Find(Cut(w, a, z), CRLF \o CRLF) ELSE 0
    BY <1>1, Patterns, FindInCut
  <2>2. f # 0 /\ (a + f + 4 - 1 <= n <=> BodyAt(w) <= n)
    BY <1>1, <1>2
  <2>3. f = Find(Cut(w, a, z), CRLF \o CRLF) /\ blank = Find(Cut(w, a, n), CRLF \o CRLF)
    BY <1>1
  <2>. HIDE DEF f, blank, a, z
  <2>. QED BY <2>1, <2>2, <2>3, Patterns
<1>4. BodyAt(w) > n => ~(BodyAt(w) <= n)
  BY <1>1, <1>2
<1>5. ASSUME BodyAt(w) <= n
      PROVE  /\ ~IsPrefix(CRLF, s)
             /\ RowsOf(w) \in Text /\ RowsOf(w) = First(s, f + 3)
             /\ Cut(w, BodyAt(w), n) \in Text
             /\ Cut(w, BodyAt(w), n) = From(s, (f + 3) + 1)
  <2>1. ~IsPrefix(CRLF, s)
    <3>. HIDE DEF a, z, f
    <3>1. 2 <= n - a
      BY <1>1, <1>2, <1>5
    <3>2. CRLF \in Text /\ Len(CRLF) <= n - a
      BY <3>1, Patterns
    <3>3. IsPrefix(CRLF, Cut(w, a, n)) <=> IsPrefix(CRLF, Cut(w, a, z))
      BY <1>1, <3>2, SamePrefix
    <3>4. ~IsPrefix(CRLF, Cut(w, a, z)) /\ s = Cut(w, a, n)
      BY <1>1 DEF a
    <3>. QED BY <3>3, <3>4
  <2>2. /\ RowsOf(w) \in Text /\ RowsOf(w) = Cut(w, a, BodyAt(w))
        /\ BodyAt(w) \in Nat
    BY WholeBody
  <2>3. Cut(w, BodyAt(w), n) \in Text
    BY <1>5, <2>2, CutFacts
  <2>. DEFINE d == f + 3
  <2>4. d \in Nat /\ d <= n - a /\ a + d = BodyAt(w)
    <3>. HIDE DEF f, a
    <3>. QED BY <1>1, <1>2, <1>5
  <2>. HIDE DEF d, a
  <2>5. First(Cut(w, a, n), d) = Cut(w, a, a + d)
    BY <1>1, <2>4, CutPart
  <2>6. From(Cut(w, a, n), d + 1) = Cut(w, a + d, n)
    BY <1>1, <2>4, CutFrom
  <2>7. s = Cut(w, a, n)
    BY DEF a
  <2>. QED BY <2>1, <2>2, <2>3, <2>4, <2>5, <2>6, <2>7 DEF d
<1>. QED BY <1>2, <1>3, <1>4, <1>5

LEMMA SetBodyContent ==
  ASSUME NEW r \in Fields, NEW u, NEW t, NEW v
  PROVE  WithBody(r, u, t, v).body = t
BY DEF WithBody, Fields

(* The body is taken from what has come as it is in the request, once all of it has come. *)
LEMMA BodyFollows ==
  ASSUME NEW w \in Text, NEW n \in Nat, n <= Len(w), Find(w, CRLF) > 0,
         Find(HeadersOf(w), CRLF \o CRLF) > 0, BodyAt(w) <= n,
         Len(BodyOf(w)) >= LengthOf(w),
         LengthOf(w) > 0 /\ LengthOf(w) <= Limit => Len(BodyOf(w)) <= Limit,
         NEW r \in Fields, r.unparsed = Cut(w, BodyAt(w), n),
         ~r.bodyParsed, ~r.chunked, r.contentLength = LengthOf(w),
         r.body = <<>>, r.errorCode = 0, ~r.threw
  PROVE  LET q == ParseBody(r)
         IN \/ q = r
            \/ LengthOf(w) > Limit /\ q.errorCode = 413 /\ ~q.threw
            \/ /\ LengthOf(w) <= Limit /\ q.errorCode = 0 /\ ~q.threw
               /\ q.body = SubSeq(BodyOf(w), 1, LengthOf(w))
               /\ q.startLineParsed = r.startLineParsed
               /\ q.headersParsed = r.headersParsed /\ q.bodyParsed
<1>. DEFINE e == BodyAt(w)
            z == Len(w)
            l == LengthOf(w)
            q == ParseBody(r)
            s == r.unparsed
            t == SubSeq(s, 1, l)
            u == From(s, l + 1)
<1>1. /\ z \in Nat /\ e \in Nat /\ e <= n /\ n <= z /\ z <= Len(w) /\ e <= z /\ n <= Len(w)
      /\ BodyOf(w) = Cut(w, e, z) /\ Len(BodyOf(w)) = z - e
      /\ l \in Nat /\ Limit \in Nat
  <2>1. z \in Nat
    BY DEF Text
  <2>2. l \in Nat
    BY DEF Fields
  <2>3. z <= Len(w)
    BY <2>1
  <2>. QED BY <2>1, <2>2, <2>3, WholeBody, LimitAssumption
<1>2. s \in Text /\ s = Cut(w, e, n) /\ Len(s) = n - e
  <2>. HIDE DEF e
  <2>1. Cut(w, e, n) \in Text /\ Len(Cut(w, e, n)) = n - e
    BY <1>1, CutFacts
  <2>. QED BY <2>1 DEF e
<1>3. CASE l = 0
  <2>1. q = [r EXCEPT !.bodyParsed = TRUE]
    BY <1>3 DEF ParseBody
  <2>2. SubSeq(BodyOf(w), 1, l) = <<>>
    BY <1>3, SubSeqEmpty
  <2>. HIDE DEF q, l
  <2>3. PICK v \in BOOLEAN : v = TRUE
    OBVIOUS
  <2>4. q = [r EXCEPT !.bodyParsed = v]
    BY <2>1, <2>3
  <2>5. /\ q.bodyParsed = v /\ q.errorCode = 0 /\ ~q.threw
        /\ q.startLineParsed = r.startLineParsed /\ q.headersParsed = r.headersParsed
    BY <2>4, SetBodyParsed
  <2>6. q.body = <<>>
    BY <2>1 DEF Fields
  <2>7. l <= Limit
    BY <1>1, <1>3
  <2>. QED BY <2>2, <2>3, <2>5, <2>6, <2>7 DEF q, l
<1>4. CASE l > 0
  <2>1. q = IF Len(s) > Limit THEN [r EXCEPT !.errorCode = 413]
            ELSE IF Len(s) < l THEN r
            ELSE WithBody(r, u, t, TRUE)
    BY <1>4 DEF ParseBody, ParseLength, WithBody
  <2>2. CASE Len(s) > Limit
    <3>1. q = [r EXCEPT !.errorCode = 413]
      BY <2>1, <2>2
    <3>2. l > Limit
      <4>1. l > 0 /\ l <= Limit => z - e <= Limit
        BY <1>1
      <4>. HIDE DEF l, z, e, s
      <4>. QED BY <1>1, <1>2, <1>4, <2>2, <4>1
    <3>. HIDE DEF q
    <3>3. q.errorCode = 413 /\ ~q.threw
      BY <3>1, SetErrorCode
    <3>. QED BY <3>2, <3>3 DEF q
  <2>3. CASE ~(Len(s) > Limit) /\ Len(s) < l
    BY <2>1, <2>3
  <2>4. CASE ~(Len(s) > Limit) /\ ~(Len(s) < l)
    <3>1. q = WithBody(r, u, t, TRUE)
      BY <2>1, <2>4
    <3>2. l <= Limit /\ l <= n - e /\ l <= z - e
      <4>. HIDE DEF l, z, e, s
      <4>. QED BY <1>1, <1>2, <2>4
    <3>3. u \in Text /\ t \in Text
      <4>1. l + 1 \in Nat \ {0} /\ l <= Len(s)
        <5>. HIDE DEF l, z, e, s
        <5>. QED BY <1>1, <1>2, <3>2
      <4>. HIDE DEF l, s
      <4>. QED BY <1>1, <1>2, <4>1, FromFacts, PartFacts
    <3>4. t = SubSeq(BodyOf(w), 1, l)
      <4>1. t = First(s, l) /\ SubSeq(BodyOf(w), 1, l) = First(BodyOf(w), l)
        BY DEF First
      <4>. HIDE DEF t, s, l, e, z
      <4>2. First(Cut(w, e, n), l) = Cut(w, e, e + l)
        BY <1>1, <3>2, CutPart
      <4>3. First(Cut(w, e, z), l) = Cut(w, e, e + l)
        BY <1>1, <3>2, CutPart
      <4>. QED BY <1>1, <1>2, <4>1, <4>2, <4>3
    <3>. HIDE DEF q, u, t, s, l
    <3>5. PICK v \in BOOLEAN : v = TRUE
      OBVIOUS
    <3>6. q = WithBody(r, u, t, v)
      BY <3>1, <3>5
    <3>7. /\ q.bodyParsed = v /\ q.errorCode = 0 /\ ~q.threw
          /\ q.startLineParsed = r.startLineParsed /\ q.headersParsed = r.headersParsed
      BY <3>3, <3>6, SetBody
    <3>8. q.body = t
      BY <3>6, SetBodyContent
    <3>. QED BY <3>2, <3>4, <3>5, <3>7, <3>8 DEF q, l
  <2>. QED BY <2>2, <2>3, <2>4
<1>. QED BY <1>1, <1>3, <1>4
------------------------------------------------------------------------------
(* The invariant of a request that is not chunked. *)

(* What WellFramed says of the start line, and of the rest if that line is accepted. *)
Accepted(w) == StartOf(w) \notin Unknown \cup {Bad}

LEMMA StartFramed ==
  ASSUME NEW m, WellFramed(m)
  PROVE  /\ Find(m.wire, CRLF) > 0
         /\ StartOf(m.wire) \in Unknown => m.verdict = "not implemented"
         /\ StartOf(m.wire) = Bad => m.verdict = "thrown"
BY DEF WellFramed, Unknown, Bad

LEMMA RestFramed ==
  ASSUME NEW m, WellFramed(m), Accepted(m.wire)
  PROVE  /\ Find(HeadersOf(m.wire), CRLF \o CRLF) > 0
         /\ ~IsPrefix(CRLF, HeadersOf(m.wire))
         /\ Contains(RowsOf(m.wire), "badRow") => m.verdict = "thrown"
         /\ ~Contains(RowsOf(m.wire), "badRow") =>
              /\ ~Contains(RowsOf(m.wire), "chunked")
              /\ Len(BodyOf(m.wire)) >= LengthOf(m.wire)
              /\ LengthOf(m.wire) > Limit => m.verdict = "too large"
              /\ LengthOf(m.wire) <= Limit =>
                   /\ m.verdict = "accepted"
                   /\ m.content = SubSeq(BodyOf(m.wire), 1, LengthOf(m.wire))
                   /\ LengthOf(m.wire) > 0 => Len(BodyOf(m.wire)) <= Limit
<1>1. StartOf(m.wire) \notin {<<>>, <<"unknownMethod">>, <<"badStart">>}
  BY DEF Accepted, Unknown, Bad
<1>. QED BY <1>1, Zenon DEF WellFramed

(* Of a request that is not decided, when n symbols of w have come: the part that is
   parsed next has begun, all of it that has come waits, and nothing else does. *)
Awaits(r, w, n) ==
  /\ r.body = <<>>
  /\ ~r.startLineParsed => r.unparsed = Cut(w, 0, n)
  /\ r.startLineParsed => HeadersAt(w) <= n /\ Accepted(w)
  /\ r.startLineParsed /\ ~r.headersParsed => r.unparsed = Cut(w, HeadersAt(w), n)
  /\ r.headersParsed => /\ BodyAt(w) <= n /\ r.unparsed = Cut(w, BodyAt(w), n)
                        /\ ~Contains(RowsOf(w), "badRow")
                        /\ ~r.chunked /\ r.contentLength = LengthOf(w)

(* Of a request that is decided: the verdict on m, and the body of m if that is accepted. *)
Agrees(r, m) ==
  /\ Verdict(r) = m.verdict
  /\ m.verdict = "accepted" => r.body = m.content

Follows(r, m, n) ==
  IF r.threw \/ IsParsed(r) THEN Agrees(r, m) ELSE Awaits(r, m.wire, n)

(* A call of parseBody. *)
LEMMA BodyAgrees ==
  ASSUME NEW m, m.wire \in Text, WellFramed(m), NEW n \in Nat, n <= Len(m.wire),
         NEW h \in Fields, h.startLineParsed, h.headersParsed, ~h.bodyParsed,
         h.errorCode = 0, ~h.threw, Awaits(h, m.wire, n)
  PROVE  Follows(ParseBody(h), m, n)
<1>. DEFINE w == m.wire
            q == ParseBody(h)
            l == LengthOf(w)
<1>1. /\ Accepted(w) /\ BodyAt(w) <= n /\ h.unparsed = Cut(w, BodyAt(w), n)
      /\ ~Contains(RowsOf(w), "badRow") /\ ~h.chunked /\ h.contentLength = l
      /\ h.body = <<>>
  BY DEF Awaits
<1>2. /\ Find(w, CRLF) > 0 /\ Find(HeadersOf(w), CRLF \o CRLF) > 0
      /\ Len(BodyOf(w)) >= l
  BY <1>1, StartFramed, RestFramed
<1>3. /\ l > Limit => m.verdict = "too large"
      /\ l <= Limit => /\ m.verdict = "accepted"
                       /\ m.content = SubSeq(BodyOf(w), 1, l)
                       /\ l > 0 => Len(BodyOf(w)) <= Limit
  BY <1>1, RestFramed
<1>4. \/ q = h
      \/ l > Limit /\ q.errorCode = 413 /\ ~q.threw
      \/ /\ l <= Limit /\ q.errorCode = 0 /\ ~q.threw
         /\ q.body = SubSeq(BodyOf(w), 1, l)
         /\ q.startLineParsed = h.startLineParsed
         /\ q.headersParsed = h.headersParsed /\ q.bodyParsed
  <2>. HIDE DEF w
  <2>1. w \in Text /\ n <= Len(w)
    BY DEF w
  <2>2. l > 0 /\ l <= Limit => Len(BodyOf(w)) <= Limit
    BY <1>3
  <2>. QED BY <1>1, <1>2, <2>1, <2>2, BodyFollows
<1>. HIDE DEF q, l, w
<1>5. CASE q = h
  <2>1. ~IsParsed(h)
    BY DEF IsParsed
  <2>. QED BY <1>5, <2>1 DEF Follows, q
<1>6. CASE l > Limit /\ q.errorCode = 413 /\ ~q.threw
  <2>1. IsParsed(q) /\ Verdict(q) = "too large"
    BY <1>6 DEF IsParsed, Verdict
  <2>2. Agrees(q, m)
    BY <1>3, <1>6, <2>1 DEF Agrees
  <2>. QED BY <2>1, <2>2 DEF Follows, q
<1>7. CASE /\ l <= Limit /\ q.errorCode = 0 /\ ~q.threw
           /\ q.body = SubSeq(BodyOf(w), 1, l)
           /\ q.startLineParsed = h.startLineParsed
           /\ q.headersParsed = h.headersParsed /\ q.bodyParsed
  <2>1. IsParsed(q) /\ Verdict(q) = "accepted"
    BY <1>7 DEF IsParsed, Verdict
  <2>2. Agrees(q, m)
    BY <1>3, <1>7, <2>1 DEF Agrees
  <2>. QED BY <2>1, <2>2 DEF Follows, q
<1>. QED BY <1>4, <1>5, <1>6, <1>7

(* From the headers on. *)
LEMMA HeadersAgree ==
  ASSUME NEW m, m.wire \in Text, WellFramed(m), NEW n \in Nat, n <= Len(m.wire),
         NEW p \in Fields, p.startLineParsed, ~p.headersParsed, ~p.bodyParsed,
         p.contentLength = 0, p.errorCode = 0, ~p.threw, Awaits(p, m.wire, n)
  PROVE  LET h == ParseHeaders(p)
             q == IF ~h.headersParsed \/ h.bodyParsed THEN h ELSE ParseBody(h)
         IN Follows(q, m, n)
<1>. DEFINE w == m.wire
            h == ParseHeaders(p)
            q == IF ~h.headersParsed \/ h.bodyParsed THEN h ELSE ParseBody(h)
            f == Find(HeadersOf(w), CRLF \o CRLF)
<1>1. /\ h \in Fields /\ h.startLineParsed /\ ~h.bodyParsed /\ h.errorCode = 0
      /\ Find(p.unparsed, CRLF \o CRLF) = 0 => h = p
      /\ h.headersParsed => ~h.threw
  BY HeadersFacts
<1>2. /\ Accepted(w) /\ HeadersAt(w) <= n /\ p.unparsed = Cut(w, HeadersAt(w), n)
      /\ p.body = <<>> /\ p.unparsed \in Text
  BY DEF Awaits, Fields, Text
<1>3. Find(w, CRLF) > 0 /\ f > 0 /\ ~IsPrefix(CRLF, HeadersOf(w))
  BY <1>2, StartFramed, RestFramed
<1>4. /\ BodyAt(w) > n => Find(p.unparsed, CRLF \o CRLF) = 0
      /\ BodyAt(w) <= n =>
           /\ f \in Nat /\ f > 0 /\ Find(p.unparsed, CRLF \o CRLF) = f
           /\ ~IsPrefix(CRLF, p.unparsed)
           /\ RowsOf(w) \in Text /\ RowsOf(w) = First(p.unparsed, f + 3)
           /\ Cut(w, BodyAt(w), n) \in Text
           /\ Cut(w, BodyAt(w), n) = From(p.unparsed, (f + 3) + 1)
  BY <1>2, <1>3, HeadersFollow
<1>5. BodyAt(w) \in Nat
  BY <1>3, WholeBody
<1>6. CASE BodyAt(w) > n
  <2>1. h = p
    BY <1>1, <1>4, <1>6
  <2>2. q = p /\ ~IsParsed(p)
    BY <2>1 DEF IsParsed
  <2>. HIDE DEF q
  <2>. QED BY <2>2 DEF Follows, q
<1>7. CASE BodyAt(w) <= n /\ Contains(RowsOf(w), "badRow")
  <2>1. h.threw
    BY <1>2, <1>4, <1>7, HeadersTaken
  <2>2. q = h
    BY <1>1, <2>1
  <2>3. m.verdict = "thrown"
    BY <1>2, <1>7, RestFramed
  <2>. HIDE DEF q, h
  <2>4. Agrees(h, m)
    BY <2>1, <2>3 DEF Agrees, Verdict
  <2>. QED BY <2>1, <2>2, <2>4 DEF Follows, q, h
<1>8. CASE BodyAt(w) <= n /\ ~Contains(RowsOf(w), "badRow")
  <2>1. /\ h.headersParsed /\ ~h.threw
        /\ h.unparsed = Cut(w, BodyAt(w), n)
        /\ h.chunked = Contains(RowsOf(w), "chunked")
        /\ h.contentLength = LengthOf(w)
        /\ h.body = p.body
    <3>1. /\ h.headersParsed /\ ~h.threw
          /\ h.unparsed = Cut(w, BodyAt(w), n)
          /\ h.chunked = Contains(RowsOf(w), "chunked")
          /\ h.contentLength = LastLength(0, RowsOf(w))
          /\ h.body = p.body
      BY <1>2, <1>4, <1>8, HeadersTaken
    <3>. QED BY <3>1 DEF LengthOf
  <2>2. ~h.chunked
    BY <1>2, <1>8, <2>1, RestFramed
  <2>3. q = ParseBody(h)
    BY <1>1, <2>1
  <2>. HIDE DEF q, h
  <2>4. Awaits(h, w, n)
    BY <1>1, <1>2, <1>8, <2>1, <2>2 DEF Awaits
  <2>5. Follows(ParseBody(h), m, n)
    BY <1>1, <2>1, <2>4, BodyAgrees
  <2>. QED BY <2>3, <2>5 DEF q, h
<1>. QED BY <1>5, <1>6, <1>7, <1>8
(* A call of parse, with the symbols that recv returned, or with none. *)
LEMMA ParseAgrees ==
  ASSUME NEW m, m.wire \in Text, WellFramed(m),
         NEW n \in Nat, NEW k \in Nat, n <= k, k <= Len(m.wire),
         NEW r \in Fields, Ordered(r), ~IsParsed(r), ~r.threw, Awaits(r, m.wire, n)
  PROVE  Follows(Parse(r, Cut(m.wire, n, k)), m, k)
<1>. DEFINE w == m.wire
            u == r.unparsed \o Cut(w, n, k)
            r0 == [r EXCEPT !.unparsed = u]
            r1 == IF r0.startLineParsed THEN r0 ELSE ParseStartLine(r0)
            r2 == IF r1.headersParsed THEN r1 ELSE ParseHeaders(r1)
            q == Parse(r, Cut(w, n, k))
<1>1. /\ r.errorCode = 0 /\ ~r.bodyParsed
      /\ r.headersParsed => r.startLineParsed
      /\ ~r.headersParsed => r.contentLength = 0
  BY DEF IsParsed, Ordered
<1>2. n <= Len(w) /\ Len(w) \in Nat /\ Find(w, CRLF) > 0 /\ Limit \in Nat
  <2>1. Len(w) \in Nat
    BY DEF Text
  <2>2. Find(w, CRLF) > 0
    BY StartFramed
  <2>. HIDE DEF w
  <2>3. n <= Len(w)
    BY <2>1 DEF w
  <2>. QED BY <2>1, <2>2, <2>3, LimitAssumption
<1>3. u \in Text
  <2>1. r.unparsed \in Text
    BY DEF Fields, Text
  <2>. HIDE DEF w
  <2>2. Cut(w, n, k) \in Text
    BY <1>2, CutFacts DEF w
  <2>. QED BY <2>1, <2>2, Appended
<1>4. /\ r0 \in Fields /\ SameHead(r0, r) /\ r0.startLineParsed = r.startLineParsed
      /\ r0.errorCode = 0 /\ ~r0.threw /\ r0.unparsed = u
  <2>. HIDE DEF u
  <2>. QED BY <1>1, <1>3, SetText
<1>5. r0.body = r.body
  BY DEF Fields
<1>6. Awaits(r0, w, k)
  <2>1. ~r.startLineParsed => u = Cut(w, 0, k)
    <3>. SUFFICES ASSUME ~r.startLineParsed PROVE u = Cut(w, 0, k)
      OBVIOUS
    <3>1. r.unparsed = Cut(w, 0, n)
      BY DEF Awaits
    <3>2. Cut(w, 0, n) \o Cut(w, n, k) = Cut(w, 0, k)
      BY CutJoin
    <3>. QED BY <3>1, <3>2
  <2>2. r.startLineParsed => Accepted(w) /\ HeadersAt(w) <= n /\ HeadersAt(w) \in Nat
    BY <1>2, WholeHead DEF Awaits
  <2>3. r.startLineParsed /\ ~r.headersParsed => u = Cut(w, HeadersAt(w), k)
    <3>. SUFFICES ASSUME r.startLineParsed, ~r.headersParsed
                  PROVE  u = Cut(w, HeadersAt(w), k)
      OBVIOUS
    <3>1. r.unparsed = Cut(w, HeadersAt(w), n)
      BY DEF Awaits
    <3>2. Cut(w, HeadersAt(w), n) \o Cut(w, n, k) = Cut(w, HeadersAt(w), k)
      BY <2>2, CutJoin
    <3>. QED BY <3>1, <3>2
  <2>4. r.headersParsed => BodyAt(w) <= n /\ BodyAt(w) \in Nat
    <3>. SUFFICES ASSUME r.headersParsed PROVE BodyAt(w) <= n /\ BodyAt(w) \in Nat
      OBVIOUS
    <3>1. BodyAt(w) <= n
      BY DEF Awaits
    <3>2. Find(HeadersOf(w), CRLF \o CRLF) > 0
      BY <1>1, <2>2, RestFramed
    <3>. QED BY <1>2, <3>1, <3>2, WholeBody
  <2>5. r.headersParsed => u = Cut(w, BodyAt(w), k)
    <3>. SUFFICES ASSUME r.headersParsed PROVE u = Cut(w, BodyAt(w), k)
      OBVIOUS
    <3>1. r.unparsed = Cut(w, BodyAt(w), n)
      BY DEF Awaits
    <3>2. Cut(w, BodyAt(w), n) \o Cut(w, n, k) = Cut(w, BodyAt(w), k)
      BY <2>4, CutJoin
    <3>. QED BY <3>1, <3>2
  <2>6. /\ r.startLineParsed => HeadersAt(w) <= k
        /\ r.headersParsed => BodyAt(w) <= k
    <3>. HIDE DEF w
    <3>. QED BY <2>2, <2>4
  <2>7. /\ r.body = <<>>
        /\ r.headersParsed => /\ ~Contains(RowsOf(w), "badRow")
                              /\ ~r.chunked /\ r.contentLength = LengthOf(w)
    BY DEF Awaits
  <2>. HIDE DEF u, r0, w
  <2>. QED BY <1>4, <1>5, <2>1, <2>2, <2>3, <2>5, <2>6, <2>7 DEF Awaits, SameHead
<1>7. /\ ~r1.startLineParsed => q = r1
      /\ r1.startLineParsed /\ r1.contentLength > Limit => q = [r1 EXCEPT !.errorCode = 413]
      /\ r1.startLineParsed /\ r1.contentLength <= Limit =>
           q = IF ~r2.headersParsed \/ r2.bodyParsed THEN r2 ELSE ParseBody(r2)
  <2>1. q = CASE ~r1.startLineParsed -> r1
              [] r1.startLineParsed /\ r1.contentLength > Limit ->
                   [r1 EXCEPT !.errorCode = 413]
              [] r1.startLineParsed /\ r1.contentLength <= Limit ->
                   IF ~r2.headersParsed \/ r2.bodyParsed THEN r2 ELSE ParseBody(r2)
    BY DEF Parse
  <2>2. r1.contentLength \in Nat
    <3>1. CASE r0.startLineParsed
      BY <1>4, <3>1 DEF Fields
    <3>2. CASE ~r0.startLineParsed
      <4>1. r1 = ParseStartLine(r0)
        BY <3>2
      <4>. HIDE DEF r0, r1
      <4>2. r1 \in Fields
        BY <1>4, <3>2, <4>1, StartLineFacts
      <4>. QED BY <4>2 DEF Fields
    <3>. QED BY <3>1, <3>2
  <2>. HIDE DEF q, r1, r2
  <2>. QED BY <1>2, <2>1, <2>2
<1>8. CASE ~r.startLineParsed
  <2>1. r1 = ParseStartLine(r0) /\ ~r0.startLineParsed
    BY <1>4, <1>8
  <2>2. r0.unparsed = Cut(w, 0, k) /\ r0.body = <<>>
    BY <1>6, <2>1 DEF Awaits
  <2>. HIDE DEF r0, r1, q, u
  <2>3. /\ r1 \in Fields /\ SameHead(r1, r0)
        /\ r1.startLineParsed => r1.errorCode = 0 /\ ~r1.threw
    BY <1>4, <2>1, StartLineFacts
  <2>4. ~r1.headersParsed /\ ~r1.bodyParsed /\ r1.contentLength = 0
    BY <1>1, <1>4, <1>8, <2>3 DEF SameHead
  <2>5. /\ HeadersAt(w) > k => r1 = r0
        /\ HeadersAt(w) <= k /\ StartOf(w) \in Unknown =>
             r1.errorCode = 501 /\ ~r1.threw /\ ~r1.startLineParsed
        /\ HeadersAt(w) <= k /\ StartOf(w) = Bad => r1.threw /\ ~r1.startLineParsed
        /\ HeadersAt(w) <= k /\ StartOf(w) \notin Unknown \cup {Bad} =>
             /\ r1.startLineParsed /\ r1.errorCode = 0 /\ ~r1.threw
             /\ r1.unparsed = Cut(w, HeadersAt(w), k)
             /\ r1.body = r0.body
    <3>. HIDE DEF w
    <3>. QED BY <1>2, <1>4, <2>1, <2>2, StartFollows DEF w
  <2>6. HeadersAt(w) \in Nat
    BY <1>2, WholeHead
  <2>7. CASE HeadersAt(w) > k
    <3>1. r1 = r0 /\ q = r0
      BY <1>7, <2>1, <2>5, <2>7
    <3>2. ~IsParsed(r0)
      BY <1>4, <2>1 DEF IsParsed
    <3>. QED BY <1>4, <1>6, <3>1, <3>2 DEF Follows, q
  <2>8. CASE HeadersAt(w) <= k /\ StartOf(w) \in Unknown
    <3>1. q = r1 /\ r1.errorCode = 501 /\ ~r1.threw
      BY <1>7, <2>5, <2>8
    <3>2. IsParsed(r1) /\ Verdict(r1) = "not implemented"
      BY <3>1 DEF IsParsed, Verdict
    <3>3. m.verdict = "not implemented"
      BY <2>8, StartFramed
    <3>4. Agrees(r1, m)
      BY <3>2, <3>3 DEF Agrees
    <3>. QED BY <3>1, <3>2, <3>4 DEF Follows, q
  <2>9. CASE HeadersAt(w) <= k /\ StartOf(w) = Bad
    <3>1. q = r1 /\ r1.threw
      BY <1>7, <2>5, <2>9
    <3>2. Verdict(r1) = "thrown"
      BY <3>1 DEF Verdict
    <3>3. m.verdict = "thrown"
      BY <2>9, StartFramed
    <3>4. Agrees(r1, m)
      BY <3>2, <3>3 DEF Agrees
    <3>. QED BY <3>1, <3>4 DEF Follows, q
  <2>10. CASE HeadersAt(w) <= k /\ StartOf(w) \notin Unknown \cup {Bad}
    <3>1. /\ r1.startLineParsed /\ r1.errorCode = 0 /\ ~r1.threw
          /\ r1.unparsed = Cut(w, HeadersAt(w), k) /\ r1.body = <<>>
      BY <2>2, <2>5, <2>10
    <3>2. Awaits(r1, w, k)
      BY <2>4, <2>10, <3>1 DEF Awaits, Accepted
    <3>3. q = IF ~r2.headersParsed \/ r2.bodyParsed THEN r2 ELSE ParseBody(r2)
      BY <1>2, <1>7, <2>4, <3>1
    <3>4. r2 = ParseHeaders(r1)
      BY <2>4
    <3>. HIDE DEF r2
    <3>5. Follows(q, m, k)
      BY <2>3, <2>4, <3>1, <3>2, <3>3, <3>4, HeadersAgree
    <3>. QED BY <3>5 DEF q
  <2>. QED
    <3>1. HeadersAt(w) > k \/ HeadersAt(w) <= k
      BY <2>6
    <3>. QED BY <2>7, <2>8, <2>9, <2>10, <3>1
<1>9. CASE r.startLineParsed /\ ~r.headersParsed
  <2>1. r1 = r0
    BY <1>4, <1>9
  <2>. HIDE DEF r0, r1, q
  <2>2. ~r1.headersParsed /\ ~r1.bodyParsed /\ r1.contentLength = 0 /\ r1.startLineParsed
    BY <1>1, <1>4, <1>9, <2>1 DEF SameHead
  <2>3. q = IF ~r2.headersParsed \/ r2.bodyParsed THEN r2 ELSE ParseBody(r2)
    BY <1>2, <1>7, <2>2
  <2>4. r2 = ParseHeaders(r1)
    BY <2>2
  <2>. HIDE DEF r2
  <2>5. Follows(q, m, k)
    BY <1>4, <1>6, <2>1, <2>2, <2>3, <2>4, HeadersAgree
  <2>. QED BY <2>5 DEF q
<1>10. CASE r.headersParsed
  <2>1. r1 = r0
    BY <1>1, <1>4, <1>10
  <2>. HIDE DEF r0, r1, q
  <2>2. /\ r1.headersParsed /\ ~r1.bodyParsed /\ r1.startLineParsed
        /\ r1.contentLength = r.contentLength
    BY <1>1, <1>4, <1>10, <2>1 DEF SameHead
  <2>3. r2 = r1
    BY <2>2
  <2>. HIDE DEF r2
  <2>4. r.contentLength \in Nat
    BY DEF Fields
  <2>5. CASE r.contentLength > Limit
    <3>1. q = [r1 EXCEPT !.errorCode = 413]
      BY <1>7, <2>2, <2>5
    <3>2. q.errorCode = 413 /\ ~q.threw
      BY <1>4, <2>1, <3>1, SetErrorCode
    <3>3. IsParsed(q) /\ Verdict(q) = "too large"
      BY <3>2 DEF IsParsed, Verdict
    <3>4. Accepted(w) /\ ~Contains(RowsOf(w), "badRow") /\ LengthOf(w) > Limit
      BY <1>1, <1>10, <2>5 DEF Awaits
    <3>5. m.verdict = "too large"
      BY <3>4, RestFramed
    <3>6. Agrees(q, m)
      BY <3>3, <3>5 DEF Agrees
    <3>. QED BY <3>3, <3>6 DEF Follows, q
  <2>6. CASE r.contentLength <= Limit
    <3>1. q = ParseBody(r1)
      BY <1>7, <2>2, <2>3, <2>6
    <3>2. Follows(ParseBody(r1), m, k)
      BY <1>4, <1>6, <2>1, <2>2, BodyAgrees
    <3>. QED BY <3>1, <3>2 DEF q
  <2>. QED BY <1>2, <2>4, <2>5, <2>6
<1>. QED BY <1>8, <1>9, <1>10

LEMMA CutNothing == ASSUME NEW w, NEW n \in Nat PROVE Cut(w, n, n) = <<>>
<1>1. n + 1 \in Int /\ n \in Int /\ n < n + 1
  OBVIOUS
<1>. QED BY <1>1, SubSeqEmpty DEF Cut

(* The invariant of a request that is not chunked: decided as a whole, or with nothing
   lost, doubled or misplaced of what has come. *)
FInv == IInv /\ (WellFramed(message) => Follows(req, message, received))

LEMMA InitFollows == Init => FInv
<1>. SUFFICES ASSUME Init PROVE FInv
  OBVIOUS
<1>1. /\ req.body = <<>> /\ req.unparsed = <<>> /\ ~req.startLineParsed /\ ~req.headersParsed
      /\ ~req.threw /\ req.errorCode = 0
  BY DEF Init, NewRequest
<1>2. received = 0 /\ Cut(message.wire, 0, 0) = <<>>
  <2>1. 0 \in Nat
    OBVIOUS
  <2>. QED BY <2>1, CutNothing DEF Init
<1>3. Follows(req, message, received)
  BY <1>1, <1>2 DEF Follows, IsParsed, Awaits
<1>. QED BY <1>3, InitInvariant DEF FInv

LEMMA NextFollows == FInv /\ [Next]_vars => FInv'
<1>. SUFFICES ASSUME FInv, [Next]_vars PROVE FInv'
  OBVIOUS
<1>1. IInv /\ IInv'
  BY NextInvariant DEF FInv
<1>2. /\ req \in Fields /\ Ordered(req) /\ message.wire \in Text /\ received \in Nat
      /\ Len(message.wire) \in Nat /\ received <= Len(message.wire)
  <2>1. /\ req \in Fields /\ Ordered(req) /\ message.wire \in Text
        /\ received \in 0..Len(message.wire)
    BY <1>1, MessagesAssumption DEF IInv, TypeOK, Text
  <2>2. Len(message.wire) \in Nat
    BY <2>1 DEF Text
  <2>. QED BY <2>1, <2>2
<1>3. ASSUME WellFramed(message), ~IsParsed(req), ~req.threw,
             NEW k \in Nat, received <= k, k <= Len(message.wire),
             message' = message, received' = k,
             req' = Parse(req, Cut(message.wire, received, k))
      PROVE  Follows(req, message, received)'
  <2>1. Awaits(req, message.wire, received)
    BY <1>3 DEF FInv, Follows
  <2>2. Follows(Parse(req, Cut(message.wire, received, k)), message, k)
    BY <1>2, <1>3, <2>1, ParseAgrees
  <2>3. Follows(req', message', received')
    BY <1>3, <2>2
  <2>. QED BY <2>3 DEF Follows, Agrees, Awaits, Verdict, IsParsed
<1>4. ASSUME NEW n \in 1..Len(message.wire), Receive(n), WellFramed(message)
      PROVE  Follows(req, message, received)'
  <2>1. /\ n \in 1..(Len(message.wire) - received) /\ ~IsParsed(req) /\ ~req.threw
        /\ received' = received + n /\ message' = message
        /\ req' = Parse(req, SubSeq(message.wire, received + 1, received + n))
    BY <1>4 DEF Receive
  <2>2. /\ received + n \in Nat /\ received <= received + n
        /\ received + n <= Len(message.wire)
    BY <1>2, <2>1
  <2>3. req' = Parse(req, Cut(message.wire, received, received + n))
    BY <2>1 DEF Cut
  <2>. QED BY <1>3, <1>4, <2>1, <2>2, <2>3
<1>5. ASSUME ReceiveNothing, WellFramed(message) PROVE Follows(req, message, received)'
  <2>1. /\ ~IsParsed(req) /\ ~req.threw /\ req' = Parse(req, <<>>)
        /\ message' = message /\ received' = received
    BY <1>5 DEF ReceiveNothing
  <2>2. Cut(message.wire, received, received) = <<>> /\ received <= received
    BY <1>2, CutNothing
  <2>. QED BY <1>2, <1>3, <1>5, <2>1, <2>2
<1>6. CASE UNCHANGED vars
  BY <1>1, <1>6 DEF FInv, vars, Follows, Agrees, Awaits, Verdict, IsParsed
<1>7. CASE Next
  <2>1. message' = message
    BY <1>7 DEF Next, Receive, ReceiveNothing
  <2>2. WellFramed(message) => Follows(req, message, received)'
    BY <1>4, <1>5, <1>7 DEF Next
  <2>3. WellFramed(message)' => WellFramed(message)
    BY <2>1 DEF WellFramed
  <2>. QED BY <1>1, <2>2, <2>3 DEF FInv
<1>. QED BY <1>6, <1>7

(* Of every request that is not chunked, the parser keeps, whatever the pieces it comes in,
   what is needed to decide it as a whole. *)
THEOREM FramedInvariance == Spec => []FInv
<1>1. Init => FInv
  BY InitFollows
<1>2. FInv /\ [Next]_vars => FInv'
  BY NextFollows
<1>. QED BY <1>1, <1>2, PTL DEF Spec

(* However a request that is not chunked is cut in pieces, and with whatever behind it as
   long as it fits the limit, the verdict on it and the body handed to the handlers are
   those of the whole request. *)
THEOREM FramedIsDecidedAsSent == Spec => [](WellFramed(message) => DecidedAsSent)
<1>1. FInv => (WellFramed(message) => DecidedAsSent)
  <2>. SUFFICES ASSUME FInv, WellFramed(message), Phase(req) \in {"complete", "thrown"}
                PROVE  /\ Verdict(req) = message.verdict
                       /\ message.verdict = "accepted" => req.body = message.content
    BY DEF DecidedAsSent
  <2>1. req.threw \/ IsParsed(req)
    BY DEF Phase
  <2>. QED BY <2>1 DEF FInv, Follows, Agrees
<1>. QED BY <1>1, FramedInvariance, PTL

(* When all of a request that is not chunked has come it is decided, whatever the pieces:
   no answer waits for bytes the client does not send. *)
THEOREM WholeFramedIsDecided == Spec => [](WellFramed(message) => WholeRequestIsDecided)
<1>1. FInv => (WellFramed(message) => WholeRequestIsDecided)
  <2>. SUFFICES ASSUME FInv, WellFramed(message), received = Len(message.wire),
                       ~(Phase(req) \in {"complete", "thrown"})
                PROVE  FALSE
    BY DEF WholeRequestIsDecided
  <2>. DEFINE w == message.wire
  <2>1. ~req.threw /\ ~IsParsed(req)
    BY DEF Phase
  <2>2. /\ req \in Fields /\ Ordered(req) /\ Settled(req) /\ w \in Text
        /\ Awaits(req, w, Len(w))
    BY <2>1, MessagesAssumption DEF FInv, IInv, TypeOK, Follows, Text
  <2>3. req.errorCode = 0 /\ Find(w, CRLF) > 0
    BY <2>1, StartFramed DEF IsParsed
  <2>4. CASE ~req.startLineParsed
    <3>1. req.unparsed = w
      BY <2>2, <2>4, CutAll DEF Awaits
    <3>2. Find(req.unparsed, CRLF) = 0
      BY <2>1, <2>2, <2>3, <2>4 DEF Settled
    <3>. QED BY <2>3, <3>1, <3>2
  <2>5. CASE req.startLineParsed /\ ~req.headersParsed
    <3>1. Accepted(w) /\ req.unparsed = HeadersOf(w)
      BY <2>2, <2>3, <2>5, WholeHead DEF Awaits
    <3>2. Find(req.unparsed, CRLF \o CRLF) = 0
      BY <2>1, <2>2, <2>3, <2>5 DEF Settled
    <3>3. Find(HeadersOf(w), CRLF \o CRLF) > 0
      BY <3>1, RestFramed
    <3>. QED BY <3>1, <3>2, <3>3
  <2>6. CASE req.headersParsed
    <3>1. req.startLineParsed /\ ~req.bodyParsed
      BY <2>1, <2>2, <2>6 DEF Ordered, IsParsed
    <3>2. /\ Accepted(w) /\ ~Contains(RowsOf(w), "badRow") /\ ~req.chunked
          /\ req.contentLength = LengthOf(w) /\ req.unparsed = Cut(w, BodyAt(w), Len(w))
      BY <2>2, <2>6, <3>1 DEF Awaits
    <3>3. Find(HeadersOf(w), CRLF \o CRLF) > 0 /\ Len(BodyOf(w)) >= LengthOf(w)
      BY <3>2, RestFramed
    <3>4. req.unparsed = BodyOf(w)
      BY <2>2, <2>3, <3>2, <3>3, WholeBody
    <3>5. Len(req.unparsed) < req.contentLength
      BY <2>1, <2>2, <2>3, <2>6, <3>1, <3>2 DEF Settled, AwaitsBody
    <3>6. Len(BodyOf(w)) \in Nat /\ LengthOf(w) \in Nat
      BY <2>2, <3>2, <3>4 DEF Fields
    <3>. HIDE DEF w
    <3>. QED BY <3>2, <3>3, <3>4, <3>5, <3>6
  <2>. QED BY <2>4, <2>5, <2>6
<1>. QED BY <1>1, FramedInvariance, PTL
==============================================================================
