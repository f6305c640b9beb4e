--------------------------- MODULE RespParserProofs --------------------------
(***************************************************************************)
(* Proofs about RespParser: what the parser's loops have made of a text    *)
(* up to the current line is what stands in front of it.                   *)
(***************************************************************************)
EXTENDS RespParser, Integers, SequenceTheorems, NaturalsInduction, WellFoundedInduction, TLAPS

-----------------------------------------------------------------------------
(* The invariant                                                           *)

\* resp holds what the headers S say.
RespFrom(S) ==
    /\ LET C == {i \in S : Kind(i) = "CSeq" /\ Value(i) # 0}
       IN  resp.cseq = IF C = {} THEN 0 ELSE Value(Latest(C))
    /\ resp.sess_id # 0 <=> \E i \in S : Kind(i) = "Session" /\ Value(i) # 0
    /\ LET T == {i \in S : Kind(i) = "Transport"}
       IN  /\ T = {} => resp.transport = NoTransport
           /\ \A i \in T : T = {i} => TransportRead(i)

\* The description holds what its lines S say.
SdpFrom(S) ==
    /\ sdp.enable = {m \in Media : \E i \in S : Belongs(i, m)}
    /\ \A m \in Media :
         LET C == {i \in S : Kind(i) = "a=control" /\ Belongs(i, m)}
         IN  IF C = {} THEN sdp.control[m] = << >>
             ELSE sdp.control[m] # << >> /\ Head(sdp.control[m]) = Value(First(C))

\* There is no description yet.
Undescribed == resp.sdp_info = NULL /\ sdp = NoSdp
Described   == resp.sdp_info = TheSdp /\ sdp.state = "live"

\* The lines in front of i, or all of them.
Upto(S, i) == {j \in S : i # NULL => j < i}

StatusInv == pc = "status" => line = 1 /\ resp = NoResp /\ Undescribed

HeadersInv ==
    pc = "headers" =>
        /\ Accepted /\ line \in Headers \cup {NULL, End}
        /\ \A j \in Upto(Headers, line) : ~Stops(j) /\ ~Unended(j)
        /\ RespFrom(Upto(Headers, line)) /\ ~resp.is_sdp /\ Undescribed

\* Behind the headers: all that is seen is read, and nothing was amiss.
HeadersRead == RespFrom(Seen) /\ ~RunsOffTransport

ContentInv ==
    pc = "content" =>
        /\ HeadersRead /\ Undescribed
        /\ line \in 2..End /\ (resp.is_sdp <=> IsSdp)
        /\ \E t \in Seen : Kind(t) = "Content-Type" /\ Value(t) # 0 /\ t <= line
        /\ \/ line \in Headers \cup {End} /\ \A k \in Lengths : line < k
           \/ /\ ~resp.is_sdp
              /\ \E k \in Lengths :
                    k < line /\ Value(k) # 0 /\ (k # Len(text.lines) \/ text.ended)

\* Behind the Content-Length of a description: i is the line to be read next.
Describing(i) ==
    LET S == Upto(Description, i)
    IN  /\ HeadersRead /\ Described /\ IsSdp /\ Lengths # {}
        /\ SdpFrom(S) /\ S \cap Bad = {}

SdpInv ==
    pc = "sdp" =>
        /\ Describing(line)
        /\ line \in Description \cup {NULL, End}
        /\ \A j \in Upto(Description, line) : NextLine(j) = NULL =>
              line = NULL /\ \A m \in Media : ~Belongs(j, m)
        /\ line \in Description /\ Kind(line) \in Attributes =>
              \A m \in Media : ~Belongs(line, m)

AttributesInv ==
    pc = "attributes" =>
        /\ Describing(line + 1)
        /\ line \in Description /\ Belongs(line, media)
        /\ \A j \in Upto(Description, line) : NextLine(j) # NULL

\* What became of the description.
Outcome ==
    \/ Undescribed /\ Description = {}
    \/ Described /\ SdpFrom(Description) /\ Bad = {} /\ ~EndsInside
    \/ resp.sdp_info = TheSdp /\ sdp.state = "freed" /\ Bad # {}

RespondInv ==
    pc \in {"respond", "setup"} =>
        /\ HeadersRead /\ Outcome /\ (IsSdp \/ OneLength => ~RunsOffHeaders)
        /\ pc = "setup" => resp.cseq = CurCSeq /\ resp.sdp_info = TheSdp

\* The session has the description once it has looked at the response.
SessionInv ==
    /\ pc \in {"status", "headers", "content", "sdp", "attributes", "respond"} =>
          sdp_info = NULL
    /\ pc = "setup" => sdp_info = TheSdp

ParserInv ==
    /\ text \in Texts
    /\ StatusInv /\ HeadersInv /\ ContentInv /\ SdpInv /\ AttributesInv /\ RespondInv
    /\ SessionInv /\ FaultsExactly /\ SetupAsksForControl

IInv == TypeOK /\ ParserInv

-----------------------------------------------------------------------------
(* The text                                                                *)

\* What is said of the text does not change with the state.
LEMMA SameLines ==
  ASSUME UNCHANGED text
  PROVE  /\ End' = End /\ Accepted' = Accepted /\ OneLength' = OneLength
         /\ \A i : Kind(i)' = Kind(i) /\ Value(i)' = Value(i) /\ NextLine(i)' = NextLine(i)
                   /\ Stops(i)' = Stops(i) /\ Unended(i)' = Unended(i)
                   /\ GivesLength(i)' = GivesLength(i)
<1>1. End' = End
  BY DEF End
<1>2. \A i : Kind(i)' = Kind(i) /\ Value(i)' = Value(i)
  BY DEF Kind, Value
<1>3. \A i : NextLine(i)' = NextLine(i)
  BY <1>1 DEF NextLine
<1>4. \A i : Stops(i)' = Stops(i)
  <2>1. \A h : Malformed(h)' <=> Malformed(h)
    BY DEF Malformed, Fails, IsTcp
  <2>2. \A i : Malformed(text.lines[i])' <=> Malformed(text.lines[i])
    <3> HIDE DEF Malformed
    <3> QED BY <2>1
  <2> QED BY <1>2, <2>2 DEF Stops
<1>5. \A i : Unended(i)' = Unended(i)
  BY DEF Unended, Malformed, Fails, IsTcp
<1>6. \A i : GivesLength(i)' = GivesLength(i)
  BY <1>2 DEF GivesLength
<1>7. Accepted' = Accepted
  BY <1>2 DEF Accepted
<1>8. OneLength' = OneLength
  BY <1>6 DEF OneLength
<1> QED BY <1>1, <1>2, <1>3, <1>4, <1>5, <1>6, <1>7, <1>8

LEMMA SameHeaders ==
  ASSUME UNCHANGED text
  PROVE  /\ Headers' = Headers /\ Seen' = Seen /\ Typed' = Typed /\ IsSdp' = IsSdp
         /\ Lengths' = Lengths /\ CSeqs' = CSeqs /\ RunsOffHeaders' = RunsOffHeaders
         /\ RunsOffTransport' = RunsOffTransport
<1> USE SameLines
<1>1. Headers' = Headers
  BY DEF Headers
<1>2. Seen' = Seen
  BY <1>1 DEF Seen
<1>3. Typed' = Typed /\ IsSdp' = IsSdp /\ Lengths' = Lengths /\ CSeqs' = CSeqs
  BY <1>1, <1>2 DEF Typed, IsSdp, Lengths, CSeqs
<1>4. RunsOffHeaders' = RunsOffHeaders
  BY <1>3 DEF RunsOffHeaders
<1>5. RunsOffTransport' = RunsOffTransport
  BY <1>2 DEF RunsOffTransport
<1> QED BY <1>1, <1>2, <1>3, <1>4, <1>5

LEMMA SameDescription ==
  ASSUME UNCHANGED text
  PROVE  /\ Description' = Description /\ Bad' = Bad /\ EndsInside' = EndsInside
         /\ KeepsFreed' = KeepsFreed /\ Astray' = Astray
         /\ \A i, m : Belongs(i, m)' = Belongs(i, m)
         /\ \A m : Controls(m)' = Controls(m)
<1> USE SameLines, SameHeaders
<1>1. Description' = Description
  BY DEF Description
<1>2. \A i, m : Belongs(i, m)' = Belongs(i, m)
  BY <1>1 DEF Belongs
<1>3. Bad' = Bad
  BY <1>1, <1>2 DEF Bad
<1>4. \A m : Controls(m)' = Controls(m)
  BY <1>1, <1>2 DEF Controls
<1>5. EndsInside' = EndsInside /\ KeepsFreed' = KeepsFreed
  BY <1>1, <1>2, <1>3 DEF EndsInside, KeepsFreed
<1>6. Astray' = Astray
  BY <1>5 DEF Astray
<1> QED BY <1>1, <1>2, <1>3, <1>4, <1>5, <1>6

LEMMA TextFacts ==
  ASSUME text \in Texts
  PROVE  /\ text.lines \in Seq(Lines) /\ text.ended \in BOOLEAN
         /\ Len(text.lines) \in Nat /\ Len(text.lines) >= 1
         /\ DOMAIN text.lines = 1..Len(text.lines) /\ End = Len(text.lines) + 1
         /\ \A i \in 1..Len(text.lines) :
              /\ text.lines[i] \in Lines /\ Kind(i) \in Kinds /\ Value(i) \in Nat
              /\ text.lines[i].fields \in Seq(Fields)
              /\ KindAt(i) = Kind(i) /\ ValueAt(i) = Value(i)
         /\ KindAt(End) = ""
<1>1. text \in [lines : Seq(Lines), ended : BOOLEAN] /\ text.lines # << >>
  BY TextsAssumption
<1>2. text.lines \in Seq(Lines) /\ text.ended \in BOOLEAN
  BY <1>1
<1>3. /\ Len(text.lines) \in Nat /\ Len(text.lines) >= 1
      /\ DOMAIN text.lines = 1..Len(text.lines)
  BY <1>1, <1>2, EmptySeq, LenProperties
<1>4. \A i \in 1..Len(text.lines) : text.lines[i] \in Lines
  BY <1>2, ElementOfSeq
<1>5. \A i \in 1..Len(text.lines) :
        /\ Kind(i) \in Kinds /\ Value(i) \in Nat /\ text.lines[i].fields \in Seq(Fields)
  BY <1>4 DEF Lines, Kind, Value
<1>6. \A i \in 1..Len(text.lines) : KindAt(i) = Kind(i) /\ ValueAt(i) = Value(i)
  BY <1>3 DEF KindAt, ValueAt, Kind, Value
<1>7. KindAt(End) = ""
  <2>1. End \notin DOMAIN text.lines
    BY <1>3 DEF End
  <2> QED BY <2>1 DEF KindAt
<1> QED BY <1>2, <1>3, <1>4, <1>5, <1>6, <1>7 DEF End

\* get_next_line() goes to the next line, or stops in front of an empty one or
\* at the end.
LEMMA NextLineFacts ==
  ASSUME text \in Texts, NEW i \in 1..End
  PROVE  /\ NextLine(i) \in {NULL, i + 1} /\ NextLine(i) \in 0..End
         /\ NextLine(i) # NULL =>
              /\ NextLine(i) = i + 1 /\ i # End /\ (i = Len(text.lines) => text.ended)
              /\ i # Len(text.lines) => text.lines[i + 1] # Blank
         /\ NextLine(i) = NULL =>
              \/ i = End \/ i = Len(text.lines)
              \/ i + 1 \in 1..Len(text.lines) /\ text.lines[i + 1] = Blank
<1>1. PICK n \in Nat : /\ n = Len(text.lines) /\ End = n + 1 /\ n >= 1
                      /\ i \in Nat /\ 1 <= i /\ i <= n + 1
  <2>1. /\ Len(text.lines) \in Nat /\ Len(text.lines) >= 1 /\ End = Len(text.lines) + 1
        /\ DOMAIN text.lines = 1..Len(text.lines)
    BY TextFacts
  <2>2. PICK n \in Nat : n = Len(text.lines)
    BY <2>1
  <2>3. n \in Nat /\ End = n + 1 /\ n >= 1 /\ i \in Nat /\ 1 <= i /\ i <= n + 1
    BY <2>1, <2>2
  <2> QED BY <2>2, <2>3
<1>2. i + 1 = End <=> i = n
  BY <1>1
<1>3. i + 1 # NULL
  BY <1>1 DEF NULL
<1>4. CASE i = End
  <2>1. NextLine(i) = NULL
    BY <1>4 DEF NextLine
  <2> QED BY <1>1, <1>4, <2>1 DEF NULL
<1>5. CASE i # End
  <2>1. i <= n /\ i + 1 \in 0..End /\ (i # n => i + 1 \in 1..n)
    BY <1>1, <1>5
  <2>2. CASE i = n
    <3>1. NextLine(i) = IF text.ended THEN i + 1 ELSE NULL
      BY <1>1, <1>2, <1>5, <2>2 DEF NextLine
    <3> QED BY <1>1, <1>3, <1>5, <2>1, <2>2, <3>1 DEF NULL
  <2>3. CASE i # n
    <3>1. NextLine(i) = IF text.lines[i + 1] = Blank THEN NULL ELSE i + 1
      BY <1>1, <1>2, <1>5, <2>3 DEF NextLine
    <3> QED BY <1>1, <1>3, <1>5, <2>1, <2>3, <3>1 DEF NULL
  <2> QED BY <2>2, <2>3
<1> QED BY <1>4, <1>5

-----------------------------------------------------------------------------
(* Numbers                                                                 *)

LEMMA LatestIs ==
  ASSUME NEW S \in SUBSET Int, NEW i \in S, \A j \in S : j <= i
  PROVE  Latest(S) = i
<1>1. \A k \in S : (\A j \in S : j <= k) => k = i
  OBVIOUS
<1> QED BY <1>1 DEF Latest

LEMMA FirstIs ==
  ASSUME NEW S \in SUBSET Int, NEW i \in S, \A j \in S : i <= j
  PROVE  First(S) = i
<1>1. \A k \in S : (\A j \in S : k <= j) => k = i
  OBVIOUS
<1> QED BY <1>1 DEF First

\* A set of natural numbers has a least element.
LEMMA LeastNumber ==
  ASSUME NEW S \in SUBSET Nat, S # {}
  PROVE  \E x \in S : \A y \in S : x <= y
<1> DEFINE R == OpToRel(<, Nat)
<1>1. IsWellFoundedOn(R, Nat)
  BY NatLessThanWellFounded
<1>2. \A x, y \in Nat : <<y, x>> \in R <=> y < x
  BY DEF OpToRel
<1> HIDE DEF R
<1>3. PICK x \in S : \A y \in S : ~(<<y, x>> \in R)
  BY <1>1, WFMin, Zenon
<1>4. \A y \in S : ~(y < x)
  BY <1>2, <1>3, Zenon
<1> QED BY <1>4

\* A set with 0 and with the successor of each of its numbers up to n has all
\* numbers up to n.
LEMMA CountTo ==
  ASSUME NEW n \in Nat, NEW S, 0 \in S, \A k \in 0..n : k \in S /\ k # n => k + 1 \in S
  PROVE  0..n \subseteq S
<1> DEFINE T == (0..n) \ S
<1>1. SUFFICES ASSUME T # {} PROVE FALSE
  OBVIOUS
<1>2. T \in SUBSET Nat
  OBVIOUS
<1>3. PICK x \in T : \A y \in T : x <= y
  <2> HIDE DEF T
  <2> QED BY <1>1, <1>2, LeastNumber
<1>4. x # 0 /\ x \in 0..n /\ x - 1 \in 0..n /\ x - 1 < x /\ x - 1 # n
  OBVIOUS
<1>5. x - 1 \notin T
  BY <1>3, <1>4
<1>6. x - 1 \in S /\ (x - 1) + 1 = x
  BY <1>4, <1>5
<1> QED BY <1>4, <1>6

-----------------------------------------------------------------------------
(* The Transport header                                                    *)

TransportType == [intlvd : BOOLEAN, read : SUBSET Fields]

LEMMA ReadFieldType ==
  ASSUME NEW t \in TransportType, NEW f \in Fields
  PROVE  ReadField(t, f) \in TransportType
<1>1. /\ [t EXCEPT !.intlvd = TRUE] \in TransportType
      /\ [t EXCEPT !.intlvd = FALSE] \in TransportType
      /\ [t EXCEPT !.read = @ \cup {f}] \in TransportType
  BY DEF TransportType
<1>2. \/ ReadField(t, f) = [t EXCEPT !.intlvd = TRUE]
      \/ ReadField(t, f) = [t EXCEPT !.intlvd = FALSE]
      \/ ReadField(t, f) = [t EXCEPT !.read = @ \cup {f}]
      \/ ReadField(t, f) = t
  BY DEF ReadField
<1> QED BY <1>1, <1>2

\* g[i] is what the first i of the fields make of t.
Turns(g, t, fields, k) ==
    \A i \in 0..k : g[i] = IF i = 0 THEN t ELSE ReadField(g[i - 1], fields[i])

\* There is such a function.
LEMMA TurnsExist ==
  ASSUME NEW t \in TransportType, NEW fields \in Seq(Fields), NEW k \in 0..Len(fields)
  PROVE  \E g \in [0..k -> TransportType] : Turns(g, t, fields, k)
<1> DEFINE P(m) == \E g \in [0..m -> TransportType] : Turns(g, t, fields, m)
           S == {m \in 0..k : P(m)}
<1>0. k \in Nat /\ \A i \in 1..k : fields[i] \in Fields
  BY LenProperties, ElementOfSeq
<1>1. P(0)
  <2> DEFINE g == [i \in 0..0 |-> t]
  <2>1. g \in [0..0 -> TransportType] /\ Turns(g, t, fields, 0)
    BY DEF Turns
  <2> QED BY <2>1
<1>2. ASSUME NEW m \in 0..k, P(m), m # k PROVE P(m + 1)
  <2>1. PICK g \in [0..m -> TransportType] : Turns(g, t, fields, m)
    BY <1>2
  <2>2. m \in Nat /\ m + 1 \in 1..k /\ m \in 0..m
    BY <1>0, <1>2
  <2>3. PICK last : last = ReadField(g[m], fields[m + 1]) /\ last \in TransportType
    BY <1>0, <2>1, <2>2, ReadFieldType
  <2> DEFINE h == [i \in 0..m + 1 |-> IF i = m + 1 THEN last ELSE g[i]]
  <2>4. h \in [0..m + 1 -> TransportType]
    BY <2>1, <2>2, <2>3
  <2>5. ASSUME NEW i \in 0..m + 1
        PROVE  h[i] = IF i = 0 THEN t ELSE ReadField(h[i - 1], fields[i])
    <3>1. CASE i = m + 1
      <4>1. i # 0 /\ i - 1 = m /\ m \in 0..m + 1 /\ m # m + 1
        BY <2>2, <3>1
      <4>2. h[i] = last /\ h[m] = g[m]
        BY <3>1, <4>1
      <4> HIDE DEF h
      <4> QED BY <2>3, <3>1, <4>1, <4>2
    <3>2. CASE i # m + 1
      <4>1. i \in 0..m /\ h[i] = g[i]
        BY <2>2, <3>2
      <4>2. i # 0 => i - 1 \in 0..m + 1 /\ i - 1 # m + 1 /\ h[i - 1] = g[i - 1]
        BY <2>2, <4>1
      <4> HIDE DEF h
      <4> QED BY <2>1, <4>1, <4>2 DEF Turns
    <3> QED BY <3>1, <3>2
  <2> HIDE DEF h
  <2>6. Turns(h, t, fields, m + 1)
    BY <2>5 DEF Turns
  <2> QED BY <2>4, <2>6
<1>3. 0 \in S /\ \A m \in 0..k : m \in S /\ m # k => m + 1 \in S
  <2>1. 0 \in 0..k /\ \A m \in 0..k : m # k => m + 1 \in 0..k
    BY <1>0
  <2> HIDE DEF P
  <2> QED BY <1>1, <1>2, <2>1
<1>4. k \in S
  <2> HIDE DEF S
  <2>1. 0..k \subseteq S
    BY <1>0, <1>3, CountTo
  <2> QED BY <1>0, <2>1
<1> QED BY <1>4

\* It is unique.
LEMMA TurnsUnique ==
  ASSUME NEW t, NEW fields, NEW k \in Nat, NEW g, NEW h,
         Turns(g, t, fields, k), Turns(h, t, fields, k)
  PROVE  \A i \in 0..k : g[i] = h[i]
<1> DEFINE S == {i \in 0..k : g[i] = h[i]}
<1>1. 0 \in S
  BY DEF Turns
<1>2. ASSUME NEW i \in 0..k, i \in S, i # k PROVE i + 1 \in S
  <2>1. i + 1 \in 0..k /\ i + 1 # 0 /\ (i + 1) - 1 = i
    BY <1>2
  <2>2. g[i] = h[i]
    BY <1>2
  <2> QED BY <2>1, <2>2 DEF Turns
<1>3. 0..k \subseteq S
  <2> HIDE DEF S
  <2> QED BY <1>1, <1>2, CountTo
<1> QED BY <1>3

\* What parse_hdr_transport() reads: all fields up to the first that fails.
LEMMA TransportTurns ==
  ASSUME NEW fields \in Seq(Fields), resp.transport \in TransportType
  PROVE  \E k \in 0..Len(fields), g \in [0..Len(fields) -> TransportType] :
           /\ Turns(g, resp.transport, fields, Len(fields))
           /\ ReadTransport(fields) = g[k]
           /\ (\A i \in 1..Len(fields) : ~Fails(fields, i)) => k = Len(fields)
<1> DEFINE good == {i \in 0..Len(fields) : \A j \in 1..i : ~Fails(fields, j)}
           F == {i \in 1..Len(fields) : Fails(fields, i)}
           t == resp.transport
<1>0. PICK n \in Nat : n = Len(fields)
  BY LenProperties
<1>1. PICK k \in 0..n : good = 0..k /\ (F = {} => k = n)
  <2>1. CASE F = {}
    <3>1. good = 0..n
      BY <1>0, <2>1
    <3> QED BY <1>0, <3>1
  <2>2. CASE F # {}
    <3>1. F \in SUBSET Nat
      BY <1>0
    <3>2. PICK f \in F : \A y \in F : f <= y
      <4> HIDE DEF F
      <4> QED BY <2>2, <3>1, LeastNumber
    <3>3. f \in 1..n /\ Fails(fields, f) /\ \A j \in 1..n : j < f => ~Fails(fields, j)
      BY <1>0, <3>2
    <3>4. good = 0..(f - 1)
      BY <1>0, <3>3
    <3>5. f - 1 \in 0..n
      BY <3>3
    <3> QED BY <2>2, <3>4, <3>5
  <2> QED BY <2>1, <2>2
<1>2. PICK g \in [0..n -> TransportType] : Turns(g, t, fields, n)
  <2>1. n \in 0..Len(fields) /\ t \in TransportType
    BY <1>0
  <2> HIDE DEF t
  <2> QED BY <2>1, TurnsExist
<1> DEFINE Joins(r) == r = [i \in good |-> IF i = 0 THEN t ELSE ReadField(r[i - 1], fields[i])]
           h == CHOOSE r : Joins(r)
           last == CHOOSE i \in good : \A j \in good : j <= i
<1>3. ReadTransport(fields) = h[last]
  BY DEF ReadTransport
<1>4. last = k
  <2>0. k \in Nat
    BY <1>1
  <2> HIDE DEF good
  <2>1. good \in SUBSET Int /\ k \in good /\ \A j \in good : j <= k
    BY <1>1, <2>0
  <2>2. Latest(good) = k
    BY <2>1, LatestIs
  <2> QED BY <2>2 DEF Latest
<1>5. Turns(h, t, fields, k)
  <2> DEFINE r == [i \in 0..k |-> g[i]]
  <2>1. ASSUME NEW i \in 0..k
        PROVE  r[i] = IF i = 0 THEN t ELSE ReadField(r[i - 1], fields[i])
    <3>1. i \in 0..n /\ (i # 0 => i - 1 \in 0..k)
      BY <1>1
    <3>2. r[i] = g[i] /\ (i # 0 => r[i - 1] = g[i - 1])
      BY <3>1
    <3> QED BY <1>2, <3>1, <3>2 DEF Turns
  <2>2. r = [i \in 0..k |-> r[i]]
    OBVIOUS
  <2> HIDE DEF r
  <2>3. r = [i \in 0..k |-> IF i = 0 THEN t ELSE ReadField(r[i - 1], fields[i])]
    BY <2>1, <2>2
  <2>4. Joins(r)
    <3> HIDE DEF good
    <3> QED BY <1>1, <2>3
  <2>5. Joins(h)
    <3> HIDE DEF Joins
    <3> QED BY <2>4
  <2> HIDE DEF h
  <2>6. h = [i \in 0..k |-> IF i = 0 THEN t ELSE ReadField(h[i - 1], fields[i])]
    <3> HIDE DEF good
    <3> QED BY <1>1, <2>5
  <2> DEFINE d == [i \in 0..k |-> IF i = 0 THEN t ELSE ReadField(h[i - 1], fields[i])]
  <2>7. \A i \in 0..k : d[i] = IF i = 0 THEN t ELSE ReadField(h[i - 1], fields[i])
    OBVIOUS
  <2>8. h = d
    BY <2>6
  <2> HIDE DEF d
  <2> QED BY <2>7, <2>8, Zenon DEF Turns
<1>6. Turns(g, t, fields, k)
  BY <1>1, <1>2 DEF Turns
<1> HIDE DEF h, last
<1>7. g[k] = h[k]
  <2>1. k \in Nat /\ k \in 0..k
    BY <1>1
  <2> QED BY <1>5, <1>6, <2>1, TurnsUnique
<1>8. (\A i \in 1..Len(fields) : ~Fails(fields, i)) => k = Len(fields)
  BY <1>0, <1>1
<1> HIDE DEF good, F
<1> QED BY <1>0, <1>1, <1>2, <1>3, <1>4, <1>7, <1>8

LEMMA TransportTyped ==
  ASSUME NEW fields \in Seq(Fields), resp.transport \in TransportType
  PROVE  ReadTransport(fields) \in TransportType
BY TransportTurns

\* A Transport that names its protocol first, and once, leaves the ports or
\* channels that it gives.
LEMMA TransportGives ==
  ASSUME NEW f \in Seq(Fields), resp.transport = NoTransport,
         {j \in DOMAIN f : f[j] \in {"RTP/AVP", "RTP/AVP/TCP"}} = {1},
         \A i \in DOMAIN f : ~Fails(f, i)
  PROVE  LET ports == IF f[1] = "RTP/AVP" THEN {"client_port", "server_port"}
                      ELSE {"interleaved"}
         IN  /\ ReadTransport(f).intlvd = (f[1] = "RTP/AVP/TCP")
             /\ ReadTransport(f).read = {f[j] : j \in DOMAIN f} \cap ports
<1> DEFINE ports == IF f[1] = "RTP/AVP" THEN {"client_port", "server_port"} ELSE {"interleaved"}
           tcp   == f[1] = "RTP/AVP/TCP"
           t     == resp.transport
<1>1. PICK n \in Nat : n = Len(f) /\ DOMAIN f = 1..n
  BY LenProperties
<1>2. /\ 1 \in 1..n /\ f[1] \in {"RTP/AVP", "RTP/AVP/TCP"}
      /\ \A j \in 1..n : j # 1 => f[j] \notin {"RTP/AVP", "RTP/AVP/TCP"}
  BY <1>1
<1>3. t \in TransportType /\ t.intlvd = FALSE /\ t.read = {}
  BY DEF TransportType, NoTransport
<1>4. PICK g \in [0..n -> TransportType] : Turns(g, t, f, n) /\ ReadTransport(f) = g[n]
  <2>1. PICK k \in 0..Len(f), g \in [0..Len(f) -> TransportType] :
          /\ Turns(g, t, f, Len(f)) /\ ReadTransport(f) = g[k]
          /\ (\A i \in 1..Len(f) : ~Fails(f, i)) => k = Len(f)
    <3> HIDE DEF t
    <3> QED BY <1>3, TransportTurns DEF t
  <2> QED BY <1>1, <2>1
<1> DEFINE S == {i \in 0..n : i # 0 => /\ g[i].intlvd = tcp
                                       /\ g[i].read = {f[j] : j \in 1..i} \cap ports}
<1>5. 0 \in S
  OBVIOUS
<1>6. ASSUME NEW i \in 0..n, i \in S, i # n PROVE i + 1 \in S
  <2>1. i + 1 \in 0..n /\ i + 1 # 0 /\ (i + 1) - 1 = i /\ i + 1 \in 1..n
    BY <1>6
  <2>2. g[i + 1] = ReadField(g[i], f[i + 1]) /\ g[i] \in TransportType
    BY <1>4, <2>1 DEF Turns
  <2>3. {f[j] : j \in 1..(i + 1)} = {f[j] : j \in 1..i} \cup {f[i + 1]}
    BY <2>1
  <2>4. CASE i = 0
    <3>1. g[i] = t /\ f[i + 1] = f[1]
      BY <1>4, <2>4 DEF Turns
    <3>2. g[i + 1] = [t EXCEPT !.intlvd = tcp]
      BY <1>2, <2>2, <3>1 DEF ReadField
    <3>3. g[i + 1].intlvd = tcp /\ g[i + 1].read = {}
      BY <1>3, <3>2 DEF TransportType
    <3>4. {f[j] : j \in 1..(i + 1)} = {f[1]}
      BY <2>4
    <3>5. {f[1]} \cap ports = {}
      BY <1>2
    <3> QED BY <2>1, <3>3, <3>4, <3>5
  <2>5. CASE i # 0
    <3>1. g[i].intlvd = tcp /\ g[i].read = {f[j] : j \in 1..i} \cap ports
      BY <1>6, <2>5
    <3>2. i + 1 # 1
      BY <2>5
    <3>3. f[i + 1] \notin {"RTP/AVP", "RTP/AVP/TCP"}
      BY <1>2, <2>1, <3>2
    <3>4. CASE f[i + 1] \in ports
      <4>1. ReadField(g[i], f[i + 1]) = [g[i] EXCEPT !.read = @ \cup {f[i + 1]}]
        BY <1>2, <3>1, <3>3, <3>4 DEF ReadField
      <4>2. g[i + 1].intlvd = tcp /\ g[i + 1].read = g[i].read \cup {f[i + 1]}
        BY <2>2, <3>1, <4>1 DEF TransportType
      <4> HIDE DEF ports
      <4>3. g[i + 1].read = {f[j] : j \in 1..(i + 1)} \cap ports
        BY <2>3, <3>1, <3>4, <4>2
      <4> QED BY <2>1, <4>2, <4>3
    <3>5. CASE f[i + 1] \notin ports
      <4>1. ReadField(g[i], f[i + 1]) = g[i]
        BY <1>2, <3>1, <3>3, <3>5 DEF ReadField
      <4> HIDE DEF ports
      <4>2. g[i + 1].read = {f[j] : j \in 1..(i + 1)} \cap ports
        BY <2>2, <2>3, <3>1, <3>5, <4>1
      <4> QED BY <2>1, <2>2, <3>1, <4>1, <4>2
    <3> QED BY <3>4, <3>5
  <2> QED BY <2>4, <2>5
<1>7. n \in S
  <2> HIDE DEF S
  <2>1. 0..n \subseteq S
    BY <1>5, <1>6, CountTo
  <2> QED BY <2>1
<1>8. n # 0
  BY <1>2
<1> QED BY <1>1, <1>4, <1>7, <1>8

-----------------------------------------------------------------------------
(* The headers                                                             *)

LEMMA HeaderFacts ==
  ASSUME text \in Texts
  PROVE  /\ Headers \in SUBSET (2..Len(text.lines)) /\ Headers \in SUBSET Int
         /\ \A i \in Headers : i \in 1..Len(text.lines) /\ i \in 1..End /\ i \notin {NULL, End}
         /\ Seen \in SUBSET Headers /\ Lengths \in SUBSET Headers
<1>1. Len(text.lines) \in Nat /\ End = Len(text.lines) + 1
  BY TextFacts
<1>2. Headers \in SUBSET (2..Len(text.lines))
  BY DEF Headers
<1> QED BY <1>1, <1>2 DEF Seen, Lengths, NULL

\* From a header get_next_line() goes to the next one, or there is no other.
LEMMA AfterHeader ==
  ASSUME text \in Texts, NEW i \in Headers \cup {1}
  PROVE  /\ i \in 1..Len(text.lines) /\ NextLine(i) \in Headers \cup {NULL, End}
         /\ Upto(Headers, NextLine(i)) = {j \in Headers : j <= i}
<1>1. PICK n \in Nat : n = Len(text.lines) /\ End = n + 1 /\ n >= 1
  <2>1. Len(text.lines) \in Nat /\ Len(text.lines) >= 1 /\ End = Len(text.lines) + 1
    BY TextFacts
  <2> QED BY <2>1
<1>2. i \in 1..n /\ i \in 1..End /\ \A j \in 2..i : text.lines[j] # Blank
  BY <1>1 DEF Headers
<1>3. \A j \in Headers : j \in 2..n /\ \A k \in 2..j : text.lines[k] # Blank
  BY <1>1 DEF Headers
<1>4. CASE NextLine(i) = NULL
  <2>0. \/ i = End \/ i = Len(text.lines)
        \/ i + 1 \in 1..Len(text.lines) /\ text.lines[i + 1] = Blank
    BY <1>2, <1>4, NextLineFacts
  <2>1. \/ i = n
        \/ i + 1 \in 1..n /\ text.lines[i + 1] = Blank
    BY <1>1, <1>2, <2>0
  <2>2. ASSUME NEW j \in Headers PROVE j <= i
    <3>1. SUFFICES ASSUME i < j PROVE FALSE
      BY <1>2, <1>3
    <3>2. i # n /\ i + 1 \in 2..j
      BY <1>2, <1>3, <3>1
    <3> QED BY <1>3, <2>1, <3>2
  <2> QED BY <1>1, <1>2, <1>4, <2>2 DEF Upto
<1>5. CASE NextLine(i) # NULL
  <2>0. NextLine(i) = i + 1 /\ (i # Len(text.lines) => text.lines[i + 1] # Blank)
    BY <1>2, <1>5, NextLineFacts
  <2>1. NextLine(i) = i + 1 /\ (i # n => text.lines[i + 1] # Blank)
    BY <1>1, <2>0
  <2>2. i = n => NextLine(i) = End
    BY <1>1, <2>1
  <2>3. i # n => NextLine(i) \in Headers
    <3>1. SUFFICES ASSUME i # n PROVE i + 1 \in Headers
      BY <2>1
    <3>2. i + 1 \in 2..n /\ \A j \in 2..(i + 1) : j = i + 1 \/ j \in 2..i
      BY <1>2, <3>1
    <3> QED BY <1>1, <1>2, <2>1, <3>1, <3>2 DEF Headers
  <2>4. Upto(Headers, NextLine(i)) = {j \in Headers : j <= i}
    <3>1. \A j \in Headers : j < i + 1 <=> j <= i
      BY <1>2, <1>3
    <3> QED BY <1>5, <2>1, <3>1, Zenon DEF Upto
  <2> QED BY <1>1, <1>2, <2>2, <2>3, <2>4
<1> QED BY <1>4, <1>5

\* The header that makes parse_resp_hdrs() return is the last that is seen.
LEMMA SeenIs ==
  ASSUME text \in Texts, Accepted, NEW i \in Headers, Stops(i),
         \A j \in Headers : j < i => ~Stops(j)
  PROVE  Seen = {j \in Headers : j <= i} /\ i \in Seen
<1>1. \A j \in Headers : j \in Int
  BY HeaderFacts
<1> QED BY <1>1 DEF Seen

\* Nothing makes it return.
LEMMA SeenAll ==
  ASSUME text \in Texts, Accepted, \A j \in Headers : ~Stops(j)
  PROVE  Seen = Headers
BY DEF Seen

LEMMA Untyped ==
  ASSUME \A i \in Seen : Kind(i) # "Content-Type"
  PROVE  ~Typed /\ ~IsSdp /\ Lengths = {} /\ Description = {} /\ Bad = {} /\ ~RunsOffHeaders
<1>1. ~Typed /\ ~IsSdp /\ Lengths = {}
  BY DEF Typed, IsSdp, Lengths
<1> QED BY <1>1 DEF Description, Bad, RunsOffHeaders

\* The Content-Type is the last that is seen.
LEMMA OneType ==
  ASSUME text \in Texts, NEW t \in Seen, Kind(t) = "Content-Type"
  PROVE  /\ Typed <=> Value(t) # 0
         /\ IsSdp <=> Value(t) = SDP
         /\ Lengths = {k \in Headers : GivesLength(k) /\ t < k}
<1>1. \A j \in Seen : j \in Int /\ j \in Headers
  BY HeaderFacts
<1>2. ASSUME NEW j \in Seen, Kind(j) = "Content-Type" PROVE j = t
  <2>1. Stops(j) /\ Stops(t)
    BY <1>2 DEF Stops
  <2>2. ~(t < j) /\ ~(j < t)
    BY <1>1, <1>2, <2>1 DEF Seen
  <2> QED BY <1>1, <2>2
<1>3. (Typed <=> Value(t) # 0) /\ (IsSdp <=> Value(t) = SDP)
  BY <1>2 DEF Typed, IsSdp
<1>4. Lengths = {k \in Headers : GivesLength(k) /\ t < k}
  BY <1>2 DEF Lengths
<1> QED BY <1>3, <1>4

-----------------------------------------------------------------------------
(* What the headers leave in resp                                          *)

LEMMA RespNone ==
  ASSUME resp = NoResp PROVE RespFrom({})
BY DEF RespFrom, NoResp

\* RespFrom is about three fields of resp.
LEMMA RespKeeps ==
  ASSUME UNCHANGED text, resp'.cseq = resp.cseq, resp'.sess_id = resp.sess_id,
         resp'.transport = resp.transport
  PROVE  \A S : RespFrom(S) <=> RespFrom(S)'
<1>1. \A i : Kind(i)' = Kind(i) /\ Value(i)' = Value(i)
  BY SameLines
<1>2. \A i : TransportRead(i)' <=> TransportRead(i)
  BY DEF TransportRead, Malformed, Fails, IsTcp
<1> QED BY <1>1, <1>2 DEF RespFrom, Latest

\* RespFrom after a step, in terms of the text before it.
LEMMA RespNext ==
  ASSUME UNCHANGED text, NEW S
  PROVE  LET C == {i \in S : Kind(i) = "CSeq" /\ Value(i) # 0}
             T == {i \in S : Kind(i) = "Transport"}
         IN  RespFrom(S)' <=>
               /\ resp'.cseq = IF C = {} THEN 0 ELSE Value(Latest(C))
               /\ resp'.sess_id # 0 <=> \E i \in S : Kind(i) = "Session" /\ Value(i) # 0
               /\ T = {} => resp'.transport = NoTransport
               /\ \A i \in T : T = {i} => TransportRead(i)'
<1>1. \A i : Kind(i)' = Kind(i) /\ Value(i)' = Value(i)
  BY SameLines
<1>2. /\ {i \in S : Kind(i)' = "CSeq" /\ Value(i)' # 0}
            = {i \in S : Kind(i) = "CSeq" /\ Value(i) # 0}
      /\ {i \in S : Kind(i)' = "Transport"} = {i \in S : Kind(i) = "Transport"}
  BY <1>1
<1> QED BY <1>1, <1>2 DEF RespFrom, Latest

\* The next header is read.
LEMMA RespGrows ==
  ASSUME text \in Texts, UNCHANGED text, TypeOK, NEW S \in SUBSET Headers, NEW i \in Headers,
         \A j \in S : j < i, RespFrom(S),
         resp'.cseq = Record(text.lines[i]).cseq,
         resp'.sess_id = Record(text.lines[i]).sess_id,
         resp'.transport = Record(text.lines[i]).transport
  PROVE  RespFrom(S \cup {i})'
<1> DEFINE h == text.lines[i]
           C(X) == {j \in X : Kind(j) = "CSeq" /\ Value(j) # 0}
           T(X) == {j \in X : Kind(j) = "Transport"}
           Id(X) == \E j \in X : Kind(j) = "Session" /\ Value(j) # 0
           R == S \cup {i}
<1>1. /\ h.kind = Kind(i) /\ h.value = Value(i) /\ i \in Int /\ S \in SUBSET Int
      /\ h.fields \in Seq(Fields)
  <2>1. i \in 1..Len(text.lines) /\ i \in Int /\ S \in SUBSET Int
    BY HeaderFacts
  <2> QED BY <2>1, TextFacts DEF Kind, Value
<1>2. /\ resp.cseq = IF C(S) = {} THEN 0 ELSE Value(Latest(C(S)))
      /\ resp.sess_id # 0 <=> Id(S)
      /\ T(S) = {} => resp.transport = NoTransport
      /\ \A j \in T(S) : T(S) = {j} => TransportRead(j)
  BY DEF RespFrom
<1>3. /\ resp \in [cseq : Nat, sess_id : Nat, is_sdp : BOOLEAN,
                   transport : TransportType, sdp_info : {NULL, TheSdp}]
  BY DEF TypeOK, TransportType
<1> HIDE DEF h
<1>4. resp'.cseq = IF C(R) = {} THEN 0 ELSE Value(Latest(C(R)))
  <2>1. CASE Kind(i) = "CSeq" /\ Value(i) # 0
    <3>1. resp'.cseq = Value(i)
      BY <1>1, <1>3, <2>1 DEF Record, h
    <3>2. Latest(C(R)) = i
      <4>0. C(R) \subseteq R /\ R \in SUBSET Int /\ \A j \in R : j <= i
        BY <1>1
      <4>1. C(R) \in SUBSET Int /\ i \in C(R) /\ \A j \in C(R) : j <= i
        <5>1. i \in C(R)
          BY <2>1
        <5> HIDE DEF C, R
        <5> QED BY <4>0, <5>1
      <4> HIDE DEF C, R
      <4> QED BY <4>1, LatestIs
    <3>3. C(R) # {}
      BY <2>1
    <3> QED BY <3>1, <3>2, <3>3
  <2>2. CASE ~(Kind(i) = "CSeq" /\ Value(i) # 0)
    <3>1. resp'.cseq = resp.cseq
      BY <1>1, <1>3, <2>2 DEF Record, h
    <3>2. C(R) = C(S)
      BY <2>2
    <3> HIDE DEF C, R
    <3> QED BY <1>2, <3>1, <3>2
  <2> QED BY <2>1, <2>2
<1>5. resp'.sess_id # 0 <=> Id(R)
  <2>1. CASE Kind(i) = "Session" /\ Value(i) # 0
    <3>1. resp'.sess_id = Value(i)
      BY <1>1, <1>3, <2>1 DEF Record, h
    <3> QED BY <2>1, <3>1
  <2>2. CASE ~(Kind(i) = "Session" /\ Value(i) # 0)
    <3>1. resp'.sess_id = resp.sess_id
      BY <1>1, <1>3, <2>2 DEF Record, h
    <3>2. Id(R) <=> Id(S)
      BY <2>2
    <3> HIDE DEF Id, R
    <3> QED BY <1>2, <3>1, <3>2
  <2> QED BY <2>1, <2>2
<1>6. CASE Kind(i) # "Transport"
  <2>1. resp'.transport = resp.transport
    BY <1>1, <1>3, <1>6 DEF Record, h
  <2>2. T(R) = T(S)
    BY <1>6
  <2>3. \A j : TransportRead(j)' <=> TransportRead(j)
    BY <2>1 DEF TransportRead, Malformed, Fails, IsTcp
  <2>4. /\ T(R) = {} => resp'.transport = NoTransport
        /\ \A j \in T(R) : T(R) = {j} => TransportRead(j)'
    <3> HIDE DEF T, R
    <3> QED BY <1>2, <2>1, <2>2, <2>3
  <2> QED BY <1>4, <1>5, <2>4, RespNext
<1>7. CASE Kind(i) = "Transport"
  <2>1. h.value # 0 => resp'.transport = ReadTransport(h.fields)
    BY <1>1, <1>3, <1>7 DEF Record, h
  <2>2. i \in T(R)
    BY <1>7
  <2>3. ASSUME T(R) = {i} PROVE TransportRead(i)'
    <3>1. T(S) = {}
      BY <1>1, <2>3
    <3>2. resp.transport = NoTransport
      BY <1>2, <3>1
    <3> DEFINE f == h.fields
               named == {j \in DOMAIN f : f[j] \in {"RTP/AVP", "RTP/AVP/TCP"}}
               ports == IF f[1] = "RTP/AVP" THEN {"client_port", "server_port"}
                        ELSE {"interleaved"}
    <3>3. ASSUME named = {1}, ~Malformed(h)
          PROVE  /\ resp'.transport.intlvd = (f[1] = "RTP/AVP/TCP")
                 /\ resp'.transport.read = {f[j] : j \in DOMAIN f} \cap ports
      <4>1. h.value # 0 /\ \A j \in DOMAIN f : ~Fails(f, j)
        BY <1>1, <1>7, <3>3 DEF Malformed
      <4> QED BY <1>1, <2>1, <3>2, <3>3, <4>1, TransportGives
    <3>4. \A x, j : Fails(x, j)' <=> Fails(x, j)
      BY DEF Fails, IsTcp
    <3>5. \A x : Malformed(x)' <=> Malformed(x)
      BY <3>4 DEF Malformed
    <3>6. text'.lines[i] = h
      BY DEF h
    <3>7. Malformed(text.lines[i])' <=> Malformed(h)
      BY <3>5, <3>6 DEF Malformed, Fails, IsTcp
    <3> QED BY <3>3, <3>6, <3>7 DEF TransportRead
  <2>4. /\ T(R) # {}
        /\ \A j \in T(R) : T(R) = {j} => TransportRead(j)'
    BY <2>2, <2>3
  <2> QED BY <1>4, <1>5, <2>4, RespNext
<1> QED BY <1>6, <1>7

-----------------------------------------------------------------------------
(* The types                                                               *)

RespType == [cseq : Nat, sess_id : Nat, is_sdp : BOOLEAN, transport : TransportType,
             sdp_info : {NULL, TheSdp}]
SdpType == [state : {"none", "live", "freed"}, enable : SUBSET Media,
            control : [Media -> Seq(Nat)]]
Places == {"status", "headers", "content", "sdp", "attributes", "respond", "fault",
           "setup", "done"}

LEMMA TypeIs ==
  TypeOK <=> /\ text \in [lines : Seq(Lines), ended : BOOLEAN]
             /\ pc \in Places /\ line \in 0..End /\ resp \in RespType /\ sdp \in SdpType
             /\ media \in Media /\ sdp_info \in {NULL, TheSdp} /\ uri \in [Media -> Nat]
BY DEF TypeOK, RespType, SdpType, Places, TransportType

LEMMA TypeNext ==
  ASSUME UNCHANGED text
  PROVE  TypeOK' <=> /\ text \in [lines : Seq(Lines), ended : BOOLEAN]
                     /\ pc' \in Places /\ line' \in 0..End /\ resp' \in RespType
                     /\ sdp' \in SdpType /\ media' \in Media /\ sdp_info' \in {NULL, TheSdp}
                     /\ uri' \in [Media -> Nat]
BY SameLines DEF TypeOK, RespType, SdpType, Places, TransportType

LEMMA RecordType ==
  ASSUME resp \in RespType, NEW h \in Lines
  PROVE  Record(h) \in RespType
<1>1. h.value \in Nat /\ h.fields \in Seq(Fields) /\ resp.transport \in TransportType
  BY DEF Lines, RespType
<1>2. ReadTransport(h.fields) \in TransportType
  BY <1>1, TransportTyped
<1>3. /\ \A v \in Nat : /\ [resp EXCEPT !.cseq = v] \in RespType
                        /\ [resp EXCEPT !.sess_id = v] \in RespType
      /\ \A t \in TransportType : [resp EXCEPT !.transport = t] \in RespType
  BY DEF RespType
<1> QED BY <1>1, <1>2, <1>3 DEF Record

LEMMA Types ==
  ASSUME IInv, [Next]_vars
  PROVE  TypeOK'
<1>0. /\ text \in Texts /\ text \in [lines : Seq(Lines), ended : BOOLEAN] /\ pc \in Places
      /\ line \in 0..End /\ resp \in RespType /\ sdp \in SdpType /\ media \in Media
      /\ sdp_info \in {NULL, TheSdp} /\ uri \in [Media -> Nat]
  BY TypeIs DEF IInv, ParserInv
<1>1. /\ Len(text.lines) \in Nat /\ Len(text.lines) >= 1 /\ End = Len(text.lines) + 1
      /\ line # NULL => line \in 1..End
      /\ line \notin {NULL, End} => line \in 1..Len(text.lines)
      /\ DOMAIN text.lines = 1..Len(text.lines)
  <2>1. /\ Len(text.lines) \in Nat /\ Len(text.lines) >= 1 /\ End = Len(text.lines) + 1
        /\ DOMAIN text.lines = 1..Len(text.lines)
    BY <1>0, TextFacts
  <2>2. line \in 0..End
    BY <1>0
  <2> QED BY <2>1, <2>2 DEF NULL
<1>2. \A i \in 1..End : NextLine(i) \in 0..End
  BY <1>0, NextLineFacts
<1>3. \A i \in 1..Len(text.lines) : text.lines[i] \in Lines /\ ValueAt(i) \in Nat
  BY <1>0, TextFacts
<1>4. UNCHANGED text
  BY DEF Next, StatusLine, Header, HeadersEnd, Content, SdpLine, SdpEnds, SdpFails, Attribute,
         Respond, Setup, Return, Fault, vars
<1>5. Places = {"status", "headers", "content", "sdp", "attributes", "respond", "fault",
                "setup", "done"}
  BY DEF Places
<1>6. /\ [sdp EXCEPT !.state = "live"] \in SdpType
      /\ [sdp EXCEPT !.state = "freed"] \in SdpType
      /\ \A m \in Media : [sdp EXCEPT !.enable = @ \cup {m}] \in SdpType
  BY <1>0 DEF SdpType
<1>7. ASSUME Return \/ Fault PROVE TypeOK'
  BY <1>0, <1>5, <1>7, TypeNext DEF Return, Fault
<1>8. ASSUME SdpFails PROVE TypeOK'
  BY <1>0, <1>5, <1>6, <1>8, TypeNext DEF SdpFails
<1>9. CASE StatusLine
  <2>1. 1 \in 1..End
    BY <1>1
  <2>2. CASE ValueAt(1) = 0 /\ Return
    BY <1>7, <2>2
  <2>3. CASE ~(ValueAt(1) = 0 /\ Return)
    <3>1. GoOn("headers", NextLine(1)) /\ UNCHANGED <<text, resp, sdp, media, sdp_info, uri>>
      BY <1>9, <2>3 DEF StatusLine
    <3> QED BY <1>0, <1>2, <1>5, <2>1, <3>1, TypeNext DEF GoOn
  <2> QED BY <2>2, <2>3
<1>10. CASE Header
  <2>1. line \notin {NULL, End} /\ UNCHANGED <<text, sdp, media, sdp_info, uri>>
    BY <1>10 DEF Header
  <2>2. line' \in 0..End /\ pc' \in Places
    BY <1>1, <1>2, <1>5, <1>10, <2>1 DEF Header, GoOn
  <2>3. resp' \in RespType
    <3>1. Record(text.lines[line]) \in RespType
      BY <1>0, <1>1, <1>3, <2>1, RecordType
    <3>2. \A b \in BOOLEAN : [resp EXCEPT !.is_sdp = b] \in RespType
      BY <1>0 DEF RespType
    <3> QED BY <1>10, <3>1, <3>2 DEF Header
  <2> QED BY <1>0, <2>1, <2>2, <2>3, TypeNext
<1>11. CASE HeadersEnd
  BY <1>7, <1>11 DEF HeadersEnd
<1>12. CASE Content
  <2> DEFINE next == NextLine(line)
  <2>0. pc = "content" /\ line \in 1..End
    <3>1. pc = "content"
      BY <1>12 DEF Content
    <3> QED BY <1>1, <3>1 DEF IInv, ParserInv, ContentInv, NULL
  <2>1. next \in 0..End /\ (next # NULL => next \in 1..End)
    BY <1>1, <1>2, <2>0 DEF NULL
  <2>2. next # NULL /\ KindAt(next) = "Content-Length" => next + 1 \in 0..End
    <3>1. KindAt(End) = ""
      BY <1>0, TextFacts
    <3>2. KindAt(next) = "Content-Length" => next # End
      BY <3>1
    <3> HIDE DEF next
    <3> QED BY <1>1, <2>1, <3>2
  <2>3. [resp EXCEPT !.sdp_info = TheSdp] \in RespType
    BY <1>0 DEF RespType
  <2>4. CASE Return \/ Fault
    BY <1>7, <2>4
  <2>5. CASE ~(Return \/ Fault)
    <3>1. line' \in 0..End /\ pc' \in Places
      BY <1>5, <1>12, <2>1, <2>2, <2>5 DEF Content, GoOn
    <3>2. resp' \in RespType /\ sdp' \in SdpType /\ UNCHANGED <<text, media, sdp_info, uri>>
      BY <1>0, <1>6, <1>12, <2>3, <2>5 DEF Content
    <3> QED BY <1>0, <3>1, <3>2, TypeNext
  <2> QED BY <2>4, <2>5
<1>13. CASE SdpLine
  <2>1. CASE SdpFails
    BY <1>8, <2>1
  <2>2. CASE ~SdpFails
    <3>1. line' \in 0..End /\ pc' \in Places
      BY <1>0, <1>1, <1>2, <1>5, <1>13, <2>2 DEF SdpLine, GoOn
    <3>2. \A k : MediaOf(k) \in Media
      BY DEF MediaOf, Media
    <3>3. sdp' \in SdpType /\ media' \in Media /\ UNCHANGED <<text, resp, sdp_info, uri>>
      BY <1>0, <1>6, <1>13, <2>2, <3>2 DEF SdpLine
    <3> QED BY <1>0, <3>1, <3>3, TypeNext
  <2> QED BY <2>1, <2>2
<1>14. CASE SdpEnds
  BY <1>7, <1>14 DEF SdpEnds
<1>15. CASE Attribute
  <2> DEFINE next == NextLine(line)
  <2>0. line \in 1..End
    <3>1. pc = "attributes"
      BY <1>15 DEF Attribute
    <3>2. line \in Description
      BY <3>1 DEF IInv, ParserInv, AttributesInv
    <3>3. line \in DOMAIN text.lines
      BY <3>2 DEF Description
    <3> QED BY <1>1, <3>3
  <2>1. next \in 0..End /\ (next # NULL => next \in 1..End)
    BY <1>1, <1>2, <2>0 DEF NULL
  <2>2. CASE SdpFails \/ Fault
    BY <1>7, <1>8, <2>2
  <2>3. CASE ~(SdpFails \/ Fault)
    <3>1. line' \in 0..End /\ pc' \in Places
      BY <1>5, <1>15, <2>1, <2>3 DEF Attribute, GoOn
    <3>2. KindAt(next) = "a=control" => ValueAt(next) \in Nat
      <4>1. KindAt(End) = ""
        BY <1>0, TextFacts
      <4>2. KindAt(next) = "a=control" => next # End /\ next # NULL
        <5>1. NULL \notin DOMAIN text.lines
          BY <1>1 DEF NULL
        <5> QED BY <4>1, <5>1 DEF KindAt
      <4> HIDE DEF next
      <4> QED BY <1>1, <1>3, <2>1, <4>2
    <3>3. \A v \in Nat : [sdp EXCEPT !.control[media] = Append(@, v)] \in SdpType
      <4>1. \A v \in Nat : Append(sdp.control[media], v) \in Seq(Nat)
        BY <1>0 DEF SdpType
      <4> QED BY <1>0, <4>1 DEF SdpType
    <3>4. sdp' \in SdpType
      BY <1>0, <1>15, <2>3, <3>2, <3>3 DEF Attribute
    <3>5. UNCHANGED <<text, resp, media, sdp_info, uri>>
      BY <1>15, <2>3 DEF Attribute
    <3> QED BY <1>0, <3>1, <3>4, <3>5, TypeNext
  <2> QED BY <2>2, <2>3
<1>16. CASE Respond
  <2>1. sdp_info' \in {NULL, TheSdp}
    <3>1. resp.sdp_info \in {NULL, TheSdp}
      BY <1>0 DEF RespType
    <3> QED BY <1>0, <1>16, <3>1 DEF Respond
  <2>2. pc' \in Places /\ UNCHANGED <<text, line, resp, sdp, media, uri>>
    BY <1>5, <1>16 DEF Respond
  <2> QED BY <1>0, <2>1, <2>2, TypeNext
<1>17. CASE Setup
  <2>1. CASE Fault
    BY <1>7, <2>1
  <2>2. CASE ~Fault
    <3>1. /\ uri' = [m \in Media |-> IF m \in sdp.enable THEN Track(m) ELSE NoTrack]
          /\ pc' = "done" /\ UNCHANGED <<text, line, resp, sdp, media, sdp_info>>
      BY <1>17, <2>2 DEF Setup
    <3>2. \A m \in Media : Track(m) \in Nat
      <4>1. TAKE m \in Media
      <4>2. sdp.control[m] \in Seq(Nat)
        BY <1>0 DEF SdpType
      <4>3. sdp.control[m] # << >> => Head(sdp.control[m]) \in Nat
        BY <4>2
      <4> QED BY <4>3 DEF Track, DefaultTrack
    <3>3. uri' \in [Media -> Nat]
      BY <3>1, <3>2 DEF NoTrack
    <3> QED BY <1>0, <1>5, <3>1, <3>3, TypeNext
  <2> QED BY <2>1, <2>2
<1>18. CASE UNCHANGED vars
  BY <1>0, <1>18, TypeNext DEF vars
<1> QED BY <1>9, <1>10, <1>11, <1>12, <1>13, <1>14, <1>15, <1>16, <1>17, <1>18 DEF Next

-----------------------------------------------------------------------------
(* The headers are read                                                    *)

\* Where the loops are, only that part of the invariant matters.
LEMMA Arrives ==
  ASSUME IInv, TypeOK', UNCHANGED text, sdp_info' = NULL,
         pc' \in {"headers", "content", "sdp", "attributes", "respond"},
         pc' = "headers" => HeadersInv', pc' = "content" => ContentInv', pc' = "sdp" => SdpInv',
         pc' = "attributes" => AttributesInv', pc' = "respond" => RespondInv'
  PROVE  IInv'
<1>1. pc' # "status" /\ pc' # "setup" /\ pc' # "done" /\ pc' # "fault"
  OBVIOUS
<1>2. StatusInv' /\ FaultsExactly' /\ SetupAsksForControl' /\ SessionInv'
  BY <1>1 DEF StatusInv, FaultsExactly, SetupAsksForControl, SessionInv
<1>3. HeadersInv'
  BY DEF HeadersInv
<1>4. ContentInv'
  BY DEF ContentInv
<1>5. SdpInv'
  BY DEF SdpInv
<1>6. AttributesInv'
  BY DEF AttributesInv
<1>7. RespondInv'
  BY <1>1 DEF RespondInv
<1> QED BY <1>2, <1>3, <1>4, <1>5, <1>6, <1>7 DEF IInv, ParserInv

LEMMA ToHeaders ==
  ASSUME UNCHANGED text, Accepted, NEW i \in Headers \cup {NULL, End}, line' = i,
         \A j \in Upto(Headers, i) : ~Stops(j) /\ ~Unended(j),
         RespFrom(Upto(Headers, i))', ~resp'.is_sdp, Undescribed'
  PROVE  HeadersInv'
BY SameLines, SameHeaders DEF HeadersInv, Upto

\* The parser returns.
LEMMA ToRespond ==
  ASSUME UNCHANGED text, pc' = "respond", RespFrom(Seen)', ~RunsOffTransport, Outcome',
         IsSdp \/ OneLength => ~RunsOffHeaders
  PROVE  RespondInv'
<1>1. HeadersRead'
  BY SameHeaders, SameLines DEF HeadersRead
<1> QED BY <1>1, SameHeaders, SameLines DEF RespondInv

\* The client fails.
LEMMA Faulted ==
  ASSUME IInv, TypeOK', UNCHANGED text, pc' = "fault",
         IsSdp \/ OneLength => Astray
  PROVE  IInv'
<1>1. FaultsExactly'
  BY SameLines, SameHeaders, SameDescription DEF FaultsExactly
<1>2. StatusInv' /\ HeadersInv' /\ ContentInv' /\ SdpInv' /\ AttributesInv' /\ RespondInv'
  BY DEF StatusInv, HeadersInv, ContentInv, SdpInv, AttributesInv, RespondInv
<1>3. SetupAsksForControl' /\ SessionInv'
  BY DEF SetupAsksForControl, SessionInv
<1> QED BY <1>1, <1>2, <1>3 DEF IInv, ParserInv

\* What the headers have left in resp stays there.
LEMMA ReadStays ==
  ASSUME UNCHANGED text, HeadersRead, resp'.cseq = resp.cseq, resp'.sess_id = resp.sess_id,
         resp'.transport = resp.transport
  PROVE  HeadersRead' /\ RespFrom(Seen)'
<1>1. PICK S : S = Seen
  OBVIOUS
<1>2. RespFrom(S)
  BY <1>1 DEF HeadersRead
<1>3. RespFrom(S)' /\ Seen' = S
  BY <1>1, <1>2, RespKeeps, SameHeaders
<1> QED BY <1>3, SameHeaders DEF HeadersRead

LEMMA StepStatusLine ==
  ASSUME IInv, TypeOK', StatusLine
  PROVE  IInv'
<1>1. /\ text \in Texts /\ resp = NoResp /\ Undescribed /\ sdp_info = NULL /\ pc = "status"
  BY DEF StatusLine, IInv, ParserInv, StatusInv, SessionInv
<1>2. UNCHANGED <<text, resp, sdp>> /\ sdp_info' = NULL
  BY <1>1 DEF StatusLine, Return
<1>3. RespFrom({})' /\ Undescribed'
  <2>1. RespFrom({})
    BY <1>1, RespNone
  <2> QED BY <1>1, <1>2, <2>1, RespKeeps DEF Undescribed
<1>4. ValueAt(1) = Value(1)
  <2>1. 1 \in 1..Len(text.lines)
    <3>1. Len(text.lines) \in Nat /\ Len(text.lines) >= 1
      BY <1>1, TextFacts
    <3> QED BY <3>1
  <2> QED BY <1>1, <2>1, TextFacts
<1>5. CASE ~Accepted
  <2>1. Seen = {}
    BY <1>5 DEF Seen
  <2>2. pc' = "respond"
    BY <1>4, <1>5 DEF StatusLine, Return, Accepted
  <2>3. ~RunsOffTransport /\ ~RunsOffHeaders /\ Description = {}
    BY <2>1, Untyped DEF RunsOffTransport
  <2>4. Outcome'
    BY <1>2, <1>3, <2>3, SameDescription DEF Outcome
  <2>5. RespFrom(Seen)'
    BY <1>2, <1>3, <2>1, SameHeaders
  <2>6. RespondInv'
    BY <1>2, <2>2, <2>3, <2>4, <2>5, ToRespond
  <2> QED BY <1>2, <2>2, <2>6, Arrives
<1>6. CASE Accepted
  <2>1. pc' = "headers" /\ line' = NextLine(1)
    BY <1>4, <1>6 DEF StatusLine, GoOn, Accepted
  <2>2. NextLine(1) \in Headers \cup {NULL, End} /\ Upto(Headers, NextLine(1)) = {}
    <3>1. \A j \in Headers : ~(j <= 1)
      BY <1>1, HeaderFacts
    <3> QED BY <1>1, <3>1, AfterHeader
  <2>3. PICK i \in Headers \cup {NULL, End} : i = NextLine(1)
    BY <2>2
  <2>4. RespFrom(Upto(Headers, i))'
    <3>1. Upto(Headers, i)' = {}
      BY <1>2, <2>2, <2>3, SameHeaders DEF Upto
    <3> QED BY <1>3, <3>1
  <2>5. ~resp'.is_sdp
    BY <1>1, <1>2 DEF NoResp
  <2>6. HeadersInv'
    BY <1>2, <1>3, <1>6, <2>1, <2>2, <2>3, <2>4, <2>5, ToHeaders
  <2> QED BY <1>2, <2>1, <2>6, Arrives
<1> QED BY <1>5, <1>6

LEMMA StepHeader ==
  ASSUME IInv, TypeOK', Header
  PROVE  IInv'
<1>1. /\ text \in Texts /\ TypeOK /\ pc = "headers" /\ HeadersInv /\ sdp_info = NULL
      /\ line \notin {NULL, End} /\ ~Unended(line)
  BY DEF Header, IInv, ParserInv, SessionInv
<1>2. UNCHANGED <<text, sdp>> /\ sdp_info' = NULL
  BY <1>1 DEF Header
<1>3. PICK i \in Headers : i = line
  BY <1>1 DEF HeadersInv
<1>4. Headers \in SUBSET Int /\ i \in 1..Len(text.lines) /\ i \in Int /\ i # NULL
  BY <1>1, HeaderFacts
<1>S. PICK S : S = {j \in Headers : j < i}
  OBVIOUS
<1> DEFINE h == text.lines[i]
<1>5. Upto(Headers, line) = S
  BY <1>3, <1>4, <1>S DEF Upto
<1>6. /\ Accepted /\ ~resp.is_sdp /\ Undescribed /\ RespFrom(S)
      /\ \A j \in S : ~Stops(j) /\ ~Unended(j)
  <2>1. /\ Accepted /\ ~resp.is_sdp /\ Undescribed /\ RespFrom(Upto(Headers, line))
        /\ \A j \in Upto(Headers, line) : ~Stops(j) /\ ~Unended(j)
    BY <1>1 DEF HeadersInv
  <2> QED BY <1>5, <2>1
<1>7. S \cup {i} = {j \in Headers : j <= i}
  <2>1. \A j \in Headers : j <= i <=> j < i \/ j = i
    BY <1>4
  <2> QED BY <1>S, <2>1
<1>8. h.kind = Kind(i) /\ h.value = Value(i) /\ h = text.lines[line]
  BY <1>3 DEF Kind, Value
<1>9. /\ resp'.cseq = Record(h).cseq /\ resp'.sess_id = Record(h).sess_id
      /\ resp'.transport = Record(h).transport /\ resp'.sdp_info = resp.sdp_info
      /\ Kind(i) # "Content-Type" => resp'.is_sdp = resp.is_sdp
      /\ Kind(i) = "Content-Type" /\ Value(i) # 0 => resp'.is_sdp = (Value(i) = SDP)
  <2> HIDE DEF h
  <2>1. resp \in RespType
    BY <1>1, TypeIs
  <2>2. Record(h).sdp_info = resp.sdp_info /\ Record(h).is_sdp = resp.is_sdp
    BY <2>1 DEF Record, RespType
  <2>3. h.kind = "Content-Type" => Record(h) = resp
    BY DEF Record
  <2>4. resp' = IF h.kind = "Content-Type" /\ ~Malformed(h)
                THEN [resp EXCEPT !.is_sdp = (h.value = SDP)] ELSE Record(h)
    BY <1>8 DEF Header
  <2>5. h.kind = "Content-Type" => (Malformed(h) <=> h.value = 0)
    BY DEF Malformed
  <2> QED BY <1>8, <2>1, <2>2, <2>3, <2>4, <2>5 DEF RespType
<1>10. RespFrom(S \cup {i})'
  <2>1. S \in SUBSET Headers /\ \A j \in S : j < i
    BY <1>S
  <2> QED BY <1>1, <1>2, <1>6, <1>9, <2>1, RespGrows
<1>11. Undescribed'
  BY <1>2, <1>6, <1>9 DEF Undescribed
<1>12. CASE Stops(i)
  <2>1. Seen = S \cup {i} /\ i \in Seen
    BY <1>1, <1>6, <1>7, <1>12, <1>S, SeenIs
  <2>2. RespFrom(Seen)'
    <3>1. Seen' = S \cup {i}
      BY <1>2, <2>1, SameHeaders
    <3> QED BY <1>10, <3>1
  <2>3. ~RunsOffTransport
    BY <1>1, <1>3, <1>6, <2>1 DEF RunsOffTransport
  <2>4. CASE Kind(i) = "Content-Type" /\ Value(i) # 0
    <3>1. pc' = "content" /\ line' = line
      BY <1>8, <2>4 DEF Header, GoOn, Malformed
    <3>2. (IsSdp <=> Value(i) = SDP) /\ \A k \in Lengths : i < k
      BY <1>1, <2>1, <2>4, OneType
    <3>3. HeadersRead'
      BY <1>2, <2>2, <2>3, SameHeaders DEF HeadersRead
    <3>4. resp'.is_sdp <=> IsSdp
      BY <1>9, <2>4, <3>2
    <3>5. i \in 2..End /\ i <= i
      <4>1. /\ Len(text.lines) \in Nat /\ End = Len(text.lines) + 1
            /\ i \in 2..Len(text.lines)
        BY <1>1, HeaderFacts, TextFacts
      <4> QED BY <4>1
    <3>6. ContentInv'
      BY <1>2, <1>3, <1>11, <2>1, <2>4, <3>1, <3>2, <3>3, <3>4, <3>5, SameHeaders, SameLines
         DEF ContentInv
    <3> QED BY <1>2, <3>1, <3>6, Arrives
  <2>5. CASE ~(Kind(i) = "Content-Type" /\ Value(i) # 0)
    <3>1. Malformed(h)
      BY <1>8, <1>12, <2>5 DEF Stops, Malformed
    <3>2. pc' = "respond"
      BY <1>8, <2>5, <3>1 DEF Header, GoOn
    <3>3. ~Typed /\ ~IsSdp
      BY <1>6, <2>1, <2>5 DEF Stops, Typed, IsSdp, SDP
    <3>4. ~RunsOffHeaders /\ Description = {}
      BY <3>3 DEF RunsOffHeaders, Description
    <3>5. Outcome'
      BY <1>2, <1>11, <3>4, SameDescription DEF Outcome
    <3>6. RespondInv'
      BY <1>2, <2>2, <2>3, <3>2, <3>4, <3>5, ToRespond
    <3> QED BY <1>2, <3>2, <3>6, Arrives
  <2> QED BY <2>4, <2>5
<1>13. CASE ~Stops(i)
  <2>1. Kind(i) # "Content-Type" /\ ~Malformed(h)
    BY <1>13 DEF Stops
  <2>2. pc' = "headers" /\ line' = NextLine(i)
    BY <1>3, <1>8, <2>1 DEF Header, GoOn
  <2>3. NextLine(i) \in Headers \cup {NULL, End} /\ Upto(Headers, NextLine(i)) = S \cup {i}
    BY <1>1, <1>7, AfterHeader
  <2>4. PICK next \in Headers \cup {NULL, End} : next = NextLine(i)
    BY <2>3
  <2>5. RespFrom(Upto(Headers, next))'
    <3>1. Upto(Headers, next)' = S \cup {i}
      BY <1>2, <2>3, <2>4, SameHeaders DEF Upto
    <3> QED BY <1>10, <3>1
  <2>6. \A j \in Upto(Headers, next) : ~Stops(j) /\ ~Unended(j)
    BY <1>1, <1>3, <1>6, <1>13, <2>3, <2>4
  <2>7. ~resp'.is_sdp
    BY <1>6, <1>9, <2>1
  <2>8. HeadersInv'
    BY <1>2, <1>6, <1>11, <2>2, <2>4, <2>5, <2>6, <2>7, ToHeaders
  <2> QED BY <1>2, <2>2, <2>8, Arrives
<1> QED BY <1>12, <1>13

LEMMA StepHeadersEnd ==
  ASSUME IInv, TypeOK', HeadersEnd
  PROVE  IInv'
<1>1. /\ text \in Texts /\ pc = "headers" /\ HeadersInv /\ sdp_info = NULL
  BY DEF HeadersEnd, IInv, ParserInv, SessionInv
<1>2. UNCHANGED <<text, resp, sdp, sdp_info, line>>
  BY DEF HeadersEnd, Return, Fault
<1>3. /\ Accepted /\ RespFrom(Upto(Headers, line)) /\ Undescribed
      /\ \A j \in Upto(Headers, line) : ~Stops(j) /\ ~Unended(j)
      /\ line \in Headers \cup {NULL, End}
  BY <1>1 DEF HeadersInv
<1>4. CASE line \in {NULL, End} /\ Return
  <2>1. Upto(Headers, line) = Headers
    <3>1. \A j \in Headers : j < End
      <4>1. /\ Len(text.lines) \in Nat /\ End = Len(text.lines) + 1
            /\ Headers \in SUBSET (2..Len(text.lines))
        BY <1>1, HeaderFacts, TextFacts
      <4> QED BY <4>1
    <3> QED BY <1>4, <3>1 DEF Upto
  <2>2. Seen = Headers /\ \A j \in Seen : ~Stops(j) /\ ~Unended(j)
    BY <1>1, <1>3, <2>1, SeenAll
  <2>3. ~RunsOffHeaders /\ Description = {} /\ ~RunsOffTransport
    <3>1. \A j \in Seen : Kind(j) # "Content-Type"
      BY <2>2 DEF Stops
    <3> QED BY <2>2, <3>1, Untyped DEF RunsOffTransport
  <2>4. RespFrom(Seen)'
    BY <1>2, <1>3, <2>1, <2>2, <2>3, ReadStays DEF HeadersRead
  <2>5. Outcome'
    BY <1>2, <1>3, <2>3, SameDescription DEF Outcome, Undescribed
  <2>6. pc' = "respond"
    BY <1>4 DEF Return
  <2>7. RespondInv'
    BY <1>2, <2>3, <2>4, <2>5, <2>6, ToRespond
  <2> QED BY <1>1, <1>2, <2>6, <2>7, Arrives
<1>5. CASE line \notin {NULL, End} /\ Unended(line) /\ Fault
  <2>1. line \in Seen
    <3>1. /\ line \in Headers /\ line \in Int /\ line # NULL
          /\ \A j \in Headers : j < line => ~Stops(j)
      BY <1>1, <1>3, <1>5, HeaderFacts DEF Upto
    <3> QED BY <1>3, <3>1 DEF Seen
  <2>2. Astray
    BY <1>5, <2>1 DEF Astray, RunsOffTransport
  <2> QED BY <1>1, <1>2, <1>5, <2>2, Faulted DEF Fault
<1> QED BY <1>4, <1>5 DEF HeadersEnd

-----------------------------------------------------------------------------
(* The description is found                                                *)

LEMMA LengthFacts ==
  ASSUME text \in Texts, Lengths # {}
  PROVE  /\ First(Lengths) \in Lengths /\ \A j \in Lengths : First(Lengths) <= j
         /\ First(Lengths) \in 2..Len(text.lines)
<1>1. Len(text.lines) \in Nat /\ Lengths \in SUBSET (2..Len(text.lines))
  BY TextFacts, HeaderFacts
<1>2. Lengths \in SUBSET Nat /\ Lengths \in SUBSET Int
  BY <1>1
<1>3. PICK k \in Lengths : \A j \in Lengths : k <= j
  BY <1>2, LeastNumber
<1>4. First(Lengths) = k
  BY <1>2, <1>3, FirstIs
<1> QED BY <1>1, <1>3, <1>4

LEMMA DescriptionFacts ==
  ASSUME text \in Texts
  PROVE  /\ Description \in SUBSET (1..Len(text.lines)) /\ Description \in SUBSET Int
         /\ \A i \in Description : i \in 1..End /\ i \notin {NULL, End}
         /\ Bad \in SUBSET Description
<1>1. Len(text.lines) \in Nat /\ End = Len(text.lines) + 1 /\ DOMAIN text.lines = 1..Len(text.lines)
  BY TextFacts
<1>2. Description \in SUBSET (1..Len(text.lines)) /\ Bad \in SUBSET Description
  BY <1>1 DEF Description, Bad
<1> QED BY <1>1, <1>2 DEF NULL

\* From a line of the description get_next_line() goes to the next one, or
\* there is no other.
LEMMA AfterDescribed ==
  ASSUME text \in Texts, NEW i \in Description
  PROVE  /\ NextLine(i) \in Description \cup {NULL, End}
         /\ NextLine(i) # NULL => NextLine(i) = i + 1
         /\ Upto(Description, NextLine(i)) = {j \in Description : j <= i}
<1>1. PICK n \in Nat : n = Len(text.lines) /\ End = n + 1 /\ n >= 1 /\ DOMAIN text.lines = 1..n
  <2>1. /\ Len(text.lines) \in Nat /\ Len(text.lines) >= 1 /\ End = Len(text.lines) + 1
        /\ DOMAIN text.lines = 1..Len(text.lines)
    BY TextFacts
  <2> QED BY <2>1
<1>2. PICK f \in Int : f = First(Lengths) /\ IsSdp /\ Lengths # {}
  <2>1. IsSdp /\ Lengths # {}
    BY DEF Description
  <2> QED BY <2>1, LengthFacts
<1>3. \A j : j \in Description <=>
               j \in 1..n /\ f < j /\ \A k \in (f + 2)..j : text.lines[k] # Blank
  BY <1>1, <1>2 DEF Description
<1>4. i \in 1..n /\ i \in 1..End
  BY <1>1, <1>3
<1>5. CASE NextLine(i) = NULL
  <2>0. \/ i = End \/ i = Len(text.lines)
        \/ i + 1 \in 1..Len(text.lines) /\ text.lines[i + 1] = Blank
    BY <1>4, <1>5, NextLineFacts
  <2>1. \/ i = n
        \/ i + 1 \in 1..n /\ text.lines[i + 1] = Blank
    BY <1>1, <1>4, <2>0
  <2>2. ASSUME NEW j \in Description PROVE j <= i
    <3>1. SUFFICES ASSUME i < j PROVE FALSE
      BY <1>3, <1>4
    <3>2. j \in 1..n /\ f < i /\ i # n
      BY <1>3, <1>4, <3>1
    <3>3. i + 1 \in (f + 2)..j
      BY <1>4, <3>1, <3>2
    <3> QED BY <1>3, <2>1, <3>2, <3>3
  <2> QED BY <1>5, <2>2 DEF Upto
<1>6. CASE NextLine(i) # NULL
  <2>0. NextLine(i) = i + 1 /\ (i # Len(text.lines) => text.lines[i + 1] # Blank)
    BY <1>4, <1>6, NextLineFacts
  <2>1. NextLine(i) = i + 1 /\ (i # n => text.lines[i + 1] # Blank)
    BY <1>1, <2>0
  <2>2. i # n => i + 1 \in Description
    <3>1. SUFFICES ASSUME i # n PROVE i + 1 \in Description
      OBVIOUS
    <3>2. f < i /\ \A k \in (f + 2)..i : text.lines[k] # Blank
      BY <1>3
    <3>3. i + 1 \in 1..n /\ f < i + 1 /\ \A k \in (f + 2)..(i + 1) : k = i + 1 \/ k \in (f + 2)..i
      BY <1>4, <3>1, <3>2
    <3> QED BY <1>3, <2>1, <3>1, <3>2, <3>3
  <2>3. \A j \in Description : j < i + 1 <=> j <= i
    BY <1>3, <1>4
  <2>4. Upto(Description, NextLine(i)) = {j \in Description : j <= i}
    BY <1>6, <2>1, <2>3 DEF Upto
  <2> QED BY <1>1, <2>1, <2>2, <2>4
<1> QED BY <1>5, <1>6

\* SdpFrom after a step, in terms of the text before it.
LEMMA SdpNext ==
  ASSUME UNCHANGED text, NEW S
  PROVE  SdpFrom(S)' <=>
           /\ sdp'.enable = {m \in Media : \E i \in S : Belongs(i, m)}
           /\ \A m \in Media :
                LET C == {i \in S : Kind(i) = "a=control" /\ Belongs(i, m)}
                IN  IF C = {} THEN sdp'.control[m] = << >>
                    ELSE sdp'.control[m] # << >> /\ Head(sdp'.control[m]) = Value(First(C))
<1>1. \A i : Kind(i)' = Kind(i) /\ Value(i)' = Value(i)
  BY SameLines
<1>2. \A i, m : Belongs(i, m)' <=> Belongs(i, m)
  BY SameDescription
<1>3. {m \in Media : \E i \in S : Belongs(i, m)'} = {m \in Media : \E i \in S : Belongs(i, m)}
  BY <1>2
<1>4. \A m : {i \in S : Kind(i)' = "a=control" /\ Belongs(i, m)'}
               = {i \in S : Kind(i) = "a=control" /\ Belongs(i, m)}
  BY <1>1, <1>2
<1> QED BY <1>1, <1>3, <1>4, ZenonT(30) DEF SdpFrom, First, Media, Video, Audio

LEMMA SdpKeeps ==
  ASSUME UNCHANGED text, NEW S, SdpFrom(S), sdp'.enable = sdp.enable,
         sdp'.control = sdp.control
  PROVE  SdpFrom(S)'
<1>1. /\ sdp'.enable = {m \in Media : \E i \in S : Belongs(i, m)}
      /\ \A m \in Media :
           LET C == {i \in S : Kind(i) = "a=control" /\ Belongs(i, m)}
           IN  IF C = {} THEN sdp'.control[m] = << >>
               ELSE sdp'.control[m] # << >> /\ Head(sdp'.control[m]) = Value(First(C))
  BY Zenon DEF SdpFrom
<1> QED BY <1>1, SdpNext, Zenon

LEMMA ToSdp ==
  ASSUME UNCHANGED text, NEW i \in Description \cup {NULL, End}, line' = i,
         HeadersRead', Described', IsSdp, Lengths # {},
         SdpFrom(Upto(Description, i))', Upto(Description, i) \cap Bad = {},
         \A j \in Upto(Description, i) : NextLine(j) = NULL =>
            i = NULL /\ \A m \in Media : ~Belongs(j, m),
         i \in Description /\ Kind(i) \in Attributes => \A m \in Media : ~Belongs(i, m)
  PROVE  SdpInv'
<1>1. Describing(line)'
  BY SameHeaders, SameDescription DEF Describing, Upto
<1> QED BY <1>1, SameLines, SameDescription DEF SdpInv, Upto, Media, Video, Audio, Attributes

\* A medium's section begins with its m= line.
LEMMA BelongsFirst ==
  ASSUME text \in Texts, NEW i \in Description, \A j \in Description : i <= j,
         NEW m, Belongs(i, m)
  PROVE  Kind(i) \notin Attributes
<1>1. PICK j \in Description : j <= i /\ Kind(j) \in {"m=video", "m=audio"}
  BY DEF Belongs
<1>2. j = i
  BY <1>1, DescriptionFacts
<1> QED BY <1>1, <1>2 DEF Attributes

LEMMA StepContent ==
  ASSUME IInv, TypeOK', Content
  PROVE  IInv'
<1>1. /\ text \in Texts /\ TypeOK /\ pc = "content" /\ ContentInv /\ sdp_info = NULL
      /\ UNCHANGED <<text, media, sdp_info>>
  BY DEF Content, Return, Fault, IInv, ParserInv, SessionInv
<1>2. PICK n \in Nat : n = Len(text.lines) /\ End = n + 1 /\ n >= 1 /\ DOMAIN text.lines = 1..n
  <2>1. /\ Len(text.lines) \in Nat /\ Len(text.lines) >= 1 /\ End = Len(text.lines) + 1
        /\ DOMAIN text.lines = 1..Len(text.lines)
    BY <1>1, TextFacts
  <2> QED BY <2>1
<1>3. PICK i \in 2..End : i = line
  BY <1>1 DEF ContentInv
<1>4. /\ HeadersRead /\ Undescribed /\ (resp.is_sdp <=> IsSdp)
      /\ \/ i \in Headers \cup {End} /\ \A k \in Lengths : i < k
         \/ /\ ~resp.is_sdp
            /\ \E k \in Lengths : k < i /\ Value(k) # 0 /\ (k # n \/ text.ended)
  BY <1>1, <1>2, <1>3 DEF ContentInv
<1>5. PICK t \in Seen : Kind(t) = "Content-Type" /\ Value(t) # 0 /\ t <= i
  BY <1>1, <1>3 DEF ContentInv
<1>6. t \in Headers /\ Typed /\ Lengths = {k \in Headers : GivesLength(k) /\ t < k}
  BY <1>1, <1>5, HeaderFacts, OneType
<1>7. /\ Headers \in SUBSET (2..n) /\ Lengths \in SUBSET (2..n) /\ t \in 2..n
      /\ i \in Int /\ i \in 1..End
  BY <1>1, <1>2, <1>3, <1>6, HeaderFacts
<1>8. PICK next : next = NextLine(i)
  OBVIOUS
<1> DEFINE begins == next # NULL /\ KindAt(next) = "Content-Length" /\ ValueAt(next) = Long
           unread == next # NULL /\ KindAt(next) = "Content-Length" /\ ValueAt(next) = 0
           first == i \in Headers \cup {End} /\ \A k \in Lengths : i < k
<1>9. next # NULL => next = i + 1 /\ i # End /\ next \in 2..End
  BY <1>1, <1>2, <1>7, <1>8, NextLineFacts
<1>10. begins \/ unread => next \in 2..n /\ GivesLength(next) /\ (unread <=> Value(next) = 0)
  <2>1. SUFFICES ASSUME begins \/ unread
                 PROVE  next \in 2..n /\ GivesLength(next) /\ (unread <=> Value(next) = 0)
    OBVIOUS
  <2>2. next # End
    BY <1>1, <2>1, TextFacts
  <2>3. next \in 2..n /\ next \in 1..Len(text.lines)
    BY <1>2, <1>9, <2>1, <2>2
  <2>4. KindAt(next) = Kind(next) /\ ValueAt(next) = Value(next)
    BY <1>1, <2>3, TextFacts
  <2> QED BY <2>1, <2>3, <2>4 DEF GivesLength, Long
<1>11. first /\ next # NULL => next \in Headers \cup {End} /\ \A k \in Lengths : next <= k
  <2>1. SUFFICES ASSUME first, next # NULL
                 PROVE  next \in Headers \cup {End} /\ \A k \in Lengths : next <= k
    OBVIOUS
  <2>2. i \in Headers
    BY <1>9, <2>1
  <2>3. next \in Headers \cup {NULL, End}
    BY <1>1, <1>8, <2>2, AfterHeader
  <2>4. \A k \in Lengths : i + 1 <= k
    BY <1>7, <2>1
  <2> QED BY <1>9, <2>1, <2>3, <2>4
<1>12. first /\ (begins \/ unread) => next \in Lengths
  <2>1. SUFFICES ASSUME first, begins \/ unread PROVE next \in Lengths
    OBVIOUS
  <2>2. next \in Headers
    BY <1>2, <1>10, <1>11, <2>1
  <2>3. t < next
    BY <1>5, <1>7, <1>9, <2>1
  <2> QED BY <1>6, <1>10, <2>1, <2>2, <2>3
<1> HIDE DEF begins, unread, first
<1>13. CASE next = NULL /\ Fault
  <2>1. ASSUME IsSdp \/ OneLength PROVE RunsOffHeaders
    <3>1. CASE first
      <4>1. Lengths = {}
        <5>1. CASE i = End
          BY <1>2, <1>7, <3>1, <5>1 DEF first
        <5>2. CASE i \in Headers
          <6>1. \A k \in Headers : k <= i
            <7>1. Upto(Headers, next) = {k \in Headers : k <= i}
              BY <1>1, <1>8, <5>2, AfterHeader
            <7> QED BY <1>13, <7>1 DEF Upto
          <6>2. \A k \in Lengths : i < k /\ k \in Headers
            BY <1>6, <3>1 DEF first
          <6> QED BY <1>7, <6>1, <6>2
        <5> QED BY <3>1, <5>1, <5>2 DEF first
      <4> QED BY <1>6, <4>1 DEF RunsOffHeaders
    <3>2. CASE ~first
      <4>1. ~IsSdp /\ OneLength
        BY <1>4, <2>1, <3>2 DEF first
      <4>2. PICK k \in Lengths : k < i /\ Value(k) # 0 /\ (k # n \/ text.ended)
        BY <1>4, <3>2 DEF first
      <4>3. \A j \in Lengths : j = k
        <5>1. \A j \in Lengths : GivesLength(j) /\ j \in DOMAIN text.lines
          BY <1>2, <1>6, <1>7
        <5> QED BY <4>1, <5>1 DEF OneLength
      <4> QED BY <1>2, <1>6, <4>1, <4>2, <4>3 DEF RunsOffHeaders
    <3> QED BY <3>1, <3>2
  <2>2. IsSdp \/ OneLength => Astray
    BY <2>1 DEF Astray
  <2> QED BY <1>1, <1>13, <2>2, Faulted DEF Fault
<1>14. CASE (unread \/ (begins /\ next + 1 = End /\ ~text.ended)) /\ Return
  <2>1. next \in 2..n /\ GivesLength(next) /\ (Value(next) = 0 \/ (next = n /\ ~text.ended))
    BY <1>2, <1>10, <1>14
  <2>2. ASSUME IsSdp \/ OneLength PROVE ~RunsOffHeaders
    <3>1. CASE first
      <4>1. next \in Lengths
        BY <1>12, <1>14, <3>1
      <4> QED BY <1>2, <2>1, <4>1 DEF RunsOffHeaders
    <3>2. CASE ~first
      <4>1. ~IsSdp /\ OneLength
        BY <1>4, <2>2, <3>2 DEF first
      <4>2. PICK k \in Lengths : k < i
        BY <1>4, <3>2 DEF first
      <4>3. k \in DOMAIN text.lines /\ next \in DOMAIN text.lines /\ GivesLength(k)
        BY <1>2, <1>6, <1>7, <2>1
      <4>4. k = next
        BY <2>1, <4>1, <4>3 DEF OneLength
      <4>5. next = i + 1
        BY <1>9, <1>14 DEF begins, unread
      <4> QED BY <1>7, <4>2, <4>4, <4>5
    <3> QED BY <3>1, <3>2
  <2>3. Description = {}
    <3>1. CASE first
      <4>1. next \in Lengths /\ \A k \in Lengths : next <= k
        BY <1>11, <1>12, <1>14, <3>1 DEF begins, unread
      <4>2. First(Lengths) = next
        <5>1. Lengths \in SUBSET Int
          BY <1>7
        <5> QED BY <4>1, <5>1, FirstIs
      <4>3. \A j \in DOMAIN text.lines : ~(n < j)
        BY <1>2
      <4> QED BY <2>1, <4>2, <4>3 DEF Description, Long
    <3>2. CASE ~first
      <4>1. ~IsSdp
        BY <1>4, <3>2 DEF first
      <4> QED BY <4>1 DEF Description
    <3> QED BY <3>1, <3>2
  <2>4. UNCHANGED <<resp, sdp>> /\ pc' = "respond"
    BY <1>14 DEF Return
  <2>5. Outcome'
    BY <1>1, <1>4, <2>3, <2>4, SameDescription DEF Outcome, Undescribed
  <2>6. HeadersRead' /\ RespFrom(Seen)' /\ ~RunsOffTransport
    BY <1>1, <1>4, <2>4, ReadStays DEF HeadersRead
  <2>7. RespondInv'
    BY <1>1, <2>2, <2>4, <2>5, <2>6, ToRespond
  <2> QED BY <1>1, <2>4, <2>7, Arrives
<1>15. CASE /\ begins /\ resp.is_sdp /\ (next + 1 # End \/ text.ended)
            /\ resp' = [resp EXCEPT !.sdp_info = TheSdp]
            /\ sdp' = [sdp EXCEPT !.state = "live"]
            /\ GoOn("sdp", next + 1)
  <2>1. first
    BY <1>4, <1>15 DEF first
  <2>2. next \in Lengths /\ (\A k \in Lengths : next <= k) /\ IsSdp
    BY <1>4, <1>11, <1>12, <1>15, <2>1 DEF begins
  <2>3. First(Lengths) = next
    <3>1. Lengths \in SUBSET Int
      BY <1>7
    <3> QED BY <2>2, <3>1, FirstIs
  <2>4. \A j \in Description : next + 1 <= j
    <3>1. \A j \in Description : next < j /\ j \in Int
      BY <1>1, <2>3, DescriptionFacts DEF Description
    <3> QED BY <1>7, <2>2, <3>1
  <2>5. PICK k : k = next + 1 /\ k \in 2..End
    BY <1>2, <1>10, <1>15
  <2>6. k # End => k \in Description
    <3>1. SUFFICES ASSUME k # End PROVE k \in Description
      OBVIOUS
    <3>2. k \in DOMAIN text.lines
      BY <1>2, <2>5, <3>1
    <3>3. next < k /\ (next + 2)..k = {}
      BY <1>10, <1>15, <2>5
    <3>4. Value(next) = Long
      <4>1. next \in 1..Len(text.lines)
        BY <1>2, <1>10, <1>15
      <4> QED BY <1>1, <1>15, <4>1, TextFacts DEF begins
    <3> QED BY <2>2, <2>3, <3>2, <3>3, <3>4 DEF Description
  <2>7. Upto(Description, k) = {} /\ k # NULL
    <3>1. \A j \in Description : ~(j < k)
      BY <1>1, <1>10, <1>15, <2>4, <2>5, DescriptionFacts
    <3>2. k # NULL
      BY <2>5 DEF NULL
    <3> QED BY <3>1, <3>2 DEF Upto
  <2>8. SdpFrom({})' /\ Described'
    <3>1. resp \in RespType /\ sdp = NoSdp
      BY <1>1, <1>4, TypeIs DEF Undescribed
    <3>2. resp'.sdp_info = TheSdp
      BY <1>15, <3>1 DEF RespType
    <3>3. sdp'.enable = {} /\ sdp'.state = "live" /\ \A m \in Media : sdp'.control[m] = << >>
      BY <1>15, <3>1 DEF NoSdp
    <3> QED BY <1>1, <3>2, <3>3, SdpNext DEF Described
  <2>9. SdpFrom(Upto(Description, k))'
    <3>1. Upto(Description, k)' = {}
      BY <1>1, <2>7, SameDescription DEF Upto
    <3> QED BY <2>8, <3>1
  <2>10. HeadersRead'
    <3>1. resp \in RespType
      BY <1>1, TypeIs
    <3> QED BY <1>1, <1>4, <1>15, <3>1, ReadStays DEF RespType
  <2>11. k \in Description /\ Kind(k) \in Attributes => \A m \in Media : ~Belongs(k, m)
    BY <1>1, <2>4, <2>5, BelongsFirst
  <2>12. pc' = "sdp" /\ line' = k /\ k \in Description \cup {NULL, End}
    BY <1>15, <2>5, <2>6 DEF GoOn
  <2>13. SdpInv'
    BY <1>1, <2>2, <2>7, <2>8, <2>9, <2>10, <2>11, <2>12, ToSdp
  <2> QED BY <1>1, <2>12, <2>13, Arrives
<1>16. ASSUME UNCHANGED <<resp, sdp>>, pc' = "content",
              \/ begins /\ ~resp.is_sdp /\ (next + 1 # End \/ text.ended) /\ line' = next + 1
              \/ next # NULL /\ ~begins /\ ~unread /\ line' = next
       PROVE  IInv'
  <2>1. HeadersRead' /\ Undescribed' /\ (resp'.is_sdp <=> IsSdp)
    BY <1>1, <1>4, <1>16, ReadStays DEF Undescribed
  <2>2. PICK k \in 2..End : k = line' /\ t <= k /\ i < k
    <3>1. CASE begins /\ (next + 1 # End \/ text.ended) /\ line' = next + 1
      <4>1. next = i + 1 /\ next \in 2..n
        BY <1>9, <1>10, <3>1 DEF begins
      <4> QED BY <1>2, <1>5, <1>7, <3>1, <4>1
    <3>2. CASE next # NULL /\ line' = next
      BY <1>5, <1>7, <1>9, <3>2
    <3> QED BY <1>16, <3>1, <3>2
  <2>3. \/ k \in Headers \cup {End} /\ \A j \in Lengths : k < j
        \/ /\ ~resp.is_sdp
           /\ \E j \in Lengths : j < k /\ Value(j) # 0 /\ (j # n \/ text.ended)
    <3>1. CASE ~first
      <4>1. ~resp.is_sdp
        BY <1>4, <3>1 DEF first
      <4>2. PICK j \in Lengths : j < i /\ Value(j) # 0 /\ (j # n \/ text.ended)
        BY <1>4, <3>1 DEF first
      <4>3. j < k
        BY <1>7, <2>2, <4>2
      <4> QED BY <4>1, <4>2, <4>3
    <3>2. CASE first /\ begins
      <4>1. next \in Lengths /\ ~resp.is_sdp /\ (next + 1 # End \/ text.ended) /\ k = next + 1
        BY <1>12, <1>16, <2>2, <3>2
      <4>2. next < k
        BY <1>7, <4>1
      <4>3. next + 1 # End => next # n
        BY <1>2
      <4>4. Value(next) # 0
        BY <1>1, <1>10, <3>2 DEF begins, unread, Long
      <4> QED BY <4>1, <4>2, <4>3, <4>4
    <3>3. CASE first /\ ~begins
      <4>1. k = next /\ next # NULL
        BY <1>16, <2>2, <3>3
      <4>2. next \in Headers \cup {End} /\ \A j \in Lengths : next <= j
        BY <1>11, <3>3, <4>1
      <4>3. next \notin Lengths
        <5>1. SUFFICES ASSUME next \in Lengths PROVE FALSE
          OBVIOUS
        <5>2. GivesLength(next) /\ next \in 1..Len(text.lines)
          BY <1>1, <1>6, <5>1, HeaderFacts
        <5>3. begins \/ unread
          BY <1>1, <4>1, <5>2, TextFacts DEF begins, unread, GivesLength
        <5> QED BY <1>16, <3>3, <5>3
      <4>4. \A j \in Lengths : next < j
        BY <1>7, <2>2, <4>1, <4>2, <4>3
      <4> QED BY <4>1, <4>2, <4>4
    <3> QED BY <3>1, <3>2, <3>3
  <2>4. ContentInv'
    BY <1>1, <1>2, <1>5, <1>16, <2>1, <2>2, <2>3, SameHeaders, SameLines DEF ContentInv
  <2> QED BY <1>1, <1>16, <2>4, Arrives
<1> QED BY <1>3, <1>8, <1>13, <1>14, <1>15, <1>16 DEF Content, GoOn, begins, unread

-----------------------------------------------------------------------------
(* The sections of the description                                         *)

\* An m= line begins the section of its medium.
LEMMA BelongsMedium ==
  ASSUME text \in Texts, NEW i \in Description, Kind(i) \in {"m=video", "m=audio"}, NEW m
  PROVE  Belongs(i, m) <=> m = MediaOf(Kind(i))
<1>1. Description \in SUBSET Int /\ Kind(i) \notin Attributes
  BY DescriptionFacts DEF Attributes
<1>2. ASSUME Belongs(i, m) PROVE m = MediaOf(Kind(i))
  <2>1. PICK j \in Description : /\ j <= i /\ MediaOf(Kind(j)) = m
                                 /\ \A k \in (j + 1)..i : Kind(k) \in Attributes
    BY <1>2 DEF Belongs
  <2>2. i \notin (j + 1)..i
    BY <1>1, <2>1
  <2>3. i = j
    BY <1>1, <2>1, <2>2
  <2> QED BY <2>1, <2>3
<1>3. ASSUME m = MediaOf(Kind(i)) PROVE Belongs(i, m)
  <2>1. i <= i /\ (i + 1)..i = {}
    BY <1>1
  <2> QED BY <1>3, <2>1 DEF Belongs
<1> QED BY <1>2, <1>3

\* An attribute is of the section of the line in front of it.
LEMMA BelongsInherits ==
  ASSUME text \in Texts, NEW i \in Description, i + 1 \in Description,
         Kind(i + 1) \in Attributes, NEW m
  PROVE  Belongs(i + 1, m) <=> Belongs(i, m)
<1>1. Description \in SUBSET Int /\ Kind(i + 1) \notin {"m=video", "m=audio"}
  BY DescriptionFacts DEF Attributes
<1>2. ASSUME NEW j \in Description, j <= i
      PROVE  (\A k \in (j + 1)..(i + 1) : Kind(k) \in Attributes)
                <=> \A k \in (j + 1)..i : Kind(k) \in Attributes
  <2>1. \A k : k \in (j + 1)..(i + 1) <=> k \in (j + 1)..i \/ k = i + 1
    BY <1>1, <1>2
  <2> QED BY <2>1
<1>3. \A j \in Description : Kind(j) \in {"m=video", "m=audio"} => (j <= i + 1 <=> j <= i)
  <2>1. \A j \in Description : j <= i + 1 <=> j <= i \/ j = i + 1
    BY <1>1
  <2> QED BY <1>1, <2>1
<1> QED BY <1>2, <1>3 DEF Belongs

\* Any other line is of no section.
LEMMA BelongsNot ==
  ASSUME text \in Texts, NEW i \in Description,
         Kind(i) \notin Attributes \cup {"m=video", "m=audio"}, NEW m
  PROVE  ~Belongs(i, m)
<1>1. SUFFICES ASSUME Belongs(i, m) PROVE FALSE
  OBVIOUS
<1>2. PICK j \in Description : /\ j <= i /\ Kind(j) \in {"m=video", "m=audio"}
                               /\ \A k \in (j + 1)..i : Kind(k) \in Attributes
  BY <1>1 DEF Belongs
<1>3. Description \in SUBSET Int /\ i # j
  BY <1>2, DescriptionFacts
<1>4. i \in (j + 1)..i
  BY <1>2, <1>3
<1> QED BY <1>2, <1>4

\* A line is of one section only.
LEMMA BelongsOne ==
  ASSUME text \in Texts, NEW i \in Description, NEW m, NEW l, Belongs(i, m), Belongs(i, l)
  PROVE  m = l
<1>1. PICK j \in Description : /\ j <= i /\ Kind(j) \in {"m=video", "m=audio"}
                               /\ MediaOf(Kind(j)) = m
                               /\ \A k \in (j + 1)..i : Kind(k) \in Attributes
  BY DEF Belongs
<1>2. PICK h \in Description : /\ h <= i /\ Kind(h) \in {"m=video", "m=audio"}
                               /\ MediaOf(Kind(h)) = l
                               /\ \A k \in (h + 1)..i : Kind(k) \in Attributes
  BY DEF Belongs
<1>3. Description \in SUBSET Int /\ Kind(j) \notin Attributes /\ Kind(h) \notin Attributes
  BY <1>1, <1>2, DescriptionFacts DEF Attributes
<1>4. h \notin (j + 1)..i /\ j \notin (h + 1)..i
  BY <1>1, <1>2, <1>3
<1>5. j = h
  BY <1>1, <1>2, <1>3, <1>4
<1> QED BY <1>1, <1>2, <1>5

\* A line that is of no section and fails nothing leaves the description alone.
LEMMA SdpGrowsNone ==
  ASSUME NEW S, NEW i, SdpFrom(S), \A m \in Media : ~Belongs(i, m)
  PROVE  SdpFrom(S \cup {i})
<1>1. {m \in Media : \E j \in S \cup {i} : Belongs(j, m)}
        = {m \in Media : \E j \in S : Belongs(j, m)}
  OBVIOUS
<1>2. \A m \in Media : {j \in S \cup {i} : Kind(j) = "a=control" /\ Belongs(j, m)}
                         = {j \in S : Kind(j) = "a=control" /\ Belongs(j, m)}
  OBVIOUS
<1>3. /\ sdp.enable = {m \in Media : \E j \in S : Belongs(j, m)}
      /\ \A m \in Media :
           LET C == {j \in S : Kind(j) = "a=control" /\ Belongs(j, m)}
           IN  IF C = {} THEN sdp.control[m] = << >>
               ELSE sdp.control[m] # << >> /\ Head(sdp.control[m]) = Value(First(C))
  BY Zenon DEF SdpFrom
<1> QED BY <1>1, <1>2, <1>3 DEF SdpFrom, First

\* Nor does one of a section that is there, if it is no a=control.
LEMMA SdpGrowsOther ==
  ASSUME text \in Texts, NEW S, NEW k \in S, NEW i \in Description, NEW d, SdpFrom(S),
         Kind(i) # "a=control", Belongs(k, d), Belongs(i, d)
  PROVE  SdpFrom(S \cup {i})
<1>1. \A m : Belongs(i, m) => m = d
  BY BelongsOne
<1>2. {m \in Media : \E j \in S \cup {i} : Belongs(j, m)}
        = {m \in Media : \E j \in S : Belongs(j, m)}
  BY <1>1
<1>3. \A m \in Media : {j \in S \cup {i} : Kind(j) = "a=control" /\ Belongs(j, m)}
                         = {j \in S : Kind(j) = "a=control" /\ Belongs(j, m)}
  OBVIOUS
<1>4. /\ sdp.enable = {m \in Media : \E j \in S : Belongs(j, m)}
      /\ \A m \in Media :
           LET C == {j \in S : Kind(j) = "a=control" /\ Belongs(j, m)}
           IN  IF C = {} THEN sdp.control[m] = << >>
               ELSE sdp.control[m] # << >> /\ Head(sdp.control[m]) = Value(First(C))
  BY Zenon DEF SdpFrom
<1> QED BY <1>2, <1>3, <1>4 DEF SdpFrom, First

\* An m= line enables its medium.
LEMMA SdpGrowsMedium ==
  ASSUME text \in Texts, UNCHANGED text, NEW S \in SUBSET Description, NEW i \in Description,
         SdpFrom(S), Kind(i) \in {"m=video", "m=audio"},
         sdp'.enable = sdp.enable \cup {MediaOf(Kind(i))}, sdp'.control = sdp.control
  PROVE  SdpFrom(S \cup {i})'
<1>1. MediaOf(Kind(i)) \in Media /\ Kind(i) # "a=control"
  BY DEF MediaOf, Media
<1>2. \A m : Belongs(i, m) <=> m = MediaOf(Kind(i))
  BY BelongsMedium
<1>3. /\ sdp.enable = {m \in Media : \E j \in S : Belongs(j, m)}
      /\ \A m \in Media :
           LET C == {j \in S : Kind(j) = "a=control" /\ Belongs(j, m)}
           IN  IF C = {} THEN sdp.control[m] = << >>
               ELSE sdp.control[m] # << >> /\ Head(sdp.control[m]) = Value(First(C))
  BY Zenon DEF SdpFrom
<1>4. \A m \in Media : {j \in S \cup {i} : Kind(j) = "a=control" /\ Belongs(j, m)}
                         = {j \in S : Kind(j) = "a=control" /\ Belongs(j, m)}
  BY <1>1
<1>5. sdp'.enable = {m \in Media : \E j \in S \cup {i} : Belongs(j, m)}
  BY <1>1, <1>2, <1>3
<1>6. \A m \in Media :
        LET C == {j \in S \cup {i} : Kind(j) = "a=control" /\ Belongs(j, m)}
        IN  IF C = {} THEN sdp'.control[m] = << >>
            ELSE sdp'.control[m] # << >> /\ Head(sdp'.control[m]) = Value(First(C))
  BY <1>3, <1>4 DEF First
<1> QED BY <1>5, <1>6, SdpNext, Zenon

\* An a=control is put behind those of its medium.
LEMMA SdpGrowsControl ==
  ASSUME text \in Texts, UNCHANGED text, TypeOK, NEW S \in SUBSET Description,
         NEW i \in Description, \A j \in S : j < i, SdpFrom(S), Kind(i) = "a=control",
         NEW d \in Media, Belongs(i, d), d \in sdp.enable,
         sdp' = [sdp EXCEPT !.control[d] = Append(@, Value(i))]
  PROVE  SdpFrom(S \cup {i})'
<1> DEFINE C(X, m) == {j \in X : Kind(j) = "a=control" /\ Belongs(j, m)}
           Gives(s, c) == IF c = {} THEN s = << >> ELSE s # << >> /\ Head(s) = Value(First(c))
<1>1. \A m : Belongs(i, m) <=> m = d
  BY BelongsOne
<1>2. sdp.enable = {m \in Media : \E j \in S : Belongs(j, m)}
  BY DEF SdpFrom
<1>3. \A m \in Media : Gives(sdp.control[m], C(S, m))
  BY Zenon DEF SdpFrom
<1>4. sdp \in SdpType /\ Value(i) \in Nat
  BY TypeIs, DescriptionFacts, TextFacts
<1>5. /\ sdp'.enable = sdp.enable /\ sdp'.control[d] = Append(sdp.control[d], Value(i))
      /\ \A m \in Media : m # d => sdp'.control[m] = sdp.control[m]
  BY <1>4 DEF SdpType
<1>6. sdp'.enable = {m \in Media : \E j \in S \cup {i} : Belongs(j, m)}
  BY <1>1, <1>2, <1>5
<1>7. Description \in SUBSET Int
  BY DescriptionFacts
<1>8. ASSUME NEW m \in Media PROVE Gives(sdp'.control[m], C(S \cup {i}, m))
  <2>1. CASE m # d
    <3>1. C(S \cup {i}, m) = C(S, m)
      BY <1>1, <2>1
    <3> HIDE DEF C, Gives
    <3> QED BY <1>3, <1>5, <2>1, <3>1
  <2>2. CASE m = d
    <3>1. PICK s \in Seq(Nat) : s = sdp.control[m]
      BY <1>4 DEF SdpType
    <3>2. PICK v \in Nat : v = Value(i)
      BY <1>4
    <3>3. PICK A : A = C(S, m)
      OBVIOUS
    <3>4. C(S \cup {i}, m) = A \cup {i} /\ A \subseteq S
      BY <1>1, <2>2, <3>3
    <3>5. sdp'.control[m] = Append(s, v) /\ Append(s, v) # << >>
      BY <1>5, <2>2, <3>1, <3>2
    <3>6. CASE A = {}
      <4>1. Head(Append(s, v)) = v
        <5>1. s = << >>
          BY <1>3, <3>1, <3>3, <3>6
        <5> QED BY <3>2, <5>1
      <4>2. First({i}) = i
        <5>1. {i} \in SUBSET Int /\ i \in {i} /\ \A j \in {i} : i <= j
          BY <1>7
        <5> QED BY <5>1, FirstIs
      <4>3. A \cup {i} = {i}
        BY <3>6
      <4> HIDE DEF C
      <4> QED BY <3>2, <3>4, <3>5, <4>1, <4>2, <4>3
    <3>7. CASE A # {}
      <4>1. s # << >> /\ Head(s) = Value(First(A))
        <5> HIDE DEF C
        <5> QED BY <1>3, <3>1, <3>3, <3>7
      <4>2. Head(Append(s, v)) = Head(s)
        BY <3>1, <3>2, <4>1
      <4>3. First(A \cup {i}) = First(A)
        <5>1. A \in SUBSET Nat
          BY <1>7, <3>4, DescriptionFacts
        <5>2. PICK f \in A : \A j \in A : f <= j
          BY <3>7, <5>1, LeastNumber
        <5>3. A \in SUBSET Int /\ A \cup {i} \in SUBSET Int /\ f <= i
          BY <1>7, <3>4, <5>1, <5>2
        <5>4. First(A) = f /\ First(A \cup {i}) = f
          BY <5>2, <5>3, FirstIs
        <5> QED BY <5>4
      <4> HIDE DEF C
      <4> QED BY <3>4, <3>5, <4>1, <4>2, <4>3
    <3> QED BY <3>6, <3>7
  <2> QED BY <2>1, <2>2
<1> QED BY <1>6, <1>8, SdpNext, Zenon

-----------------------------------------------------------------------------
(* The description is read                                                 *)

\* The description fails at one of its lines.
LEMMA StepFails ==
  ASSUME IInv, TypeOK', SdpFails, sdp_info = NULL, HeadersRead, Described, IsSdp,
         Lengths # {}, Bad # {}
  PROVE  IInv'
<1>1. UNCHANGED <<text, resp, sdp_info>> /\ pc' = "respond"
  BY DEF SdpFails
<1>2. Outcome'
  <2>1. sdp \in SdpType
    BY TypeIs DEF IInv
  <2>2. resp'.sdp_info = TheSdp /\ sdp'.state = "freed"
    BY <2>1 DEF SdpFails, Described, SdpType
  <2> QED BY <1>1, <2>2, SameDescription DEF Outcome
<1>3. RespFrom(Seen)' /\ ~RunsOffTransport /\ ~RunsOffHeaders
  BY <1>1, ReadStays DEF HeadersRead, RunsOffHeaders
<1>4. RespondInv'
  BY <1>1, <1>2, <1>3, ToRespond
<1> QED BY <1>1, <1>4, Arrives

\* The next line is of the section of medium m: the loops go to it.
LEMMA ToAttributes ==
  ASSUME text \in Texts, UNCHANGED text, NEW i \in Description, line' = i, HeadersRead',
         Described', IsSdp, Lengths # {}, NEW S, S = {j \in Description : j <= i},
         SdpFrom(S)', S \cap Bad = {}, Belongs(i, media'),
         \A j \in Description : j < i => NextLine(j) # NULL
  PROVE  AttributesInv'
<1>1. i \in Int /\ i \in 1..End /\ i # NULL /\ Description \in SUBSET Int /\ i + 1 # NULL
  <2>1. i \in Int /\ i \in 1..End /\ i # NULL /\ Description \in SUBSET Int
    BY DescriptionFacts
  <2> QED BY <2>1 DEF NULL
<1>2. Upto(Description, i + 1) = S /\ Upto(Description, i) = {j \in Description : j < i}
  <2>1. \A j \in Description : j < i + 1 <=> j <= i
    BY <1>1
  <2> QED BY <1>1, <2>1 DEF Upto
<1>3. Upto(Description, line + 1)' = S
  <2>1. Upto(Description, line + 1)' = Upto(Description, i + 1)
    BY SameDescription DEF Upto
  <2> QED BY <1>2, <2>1
<1>4. Describing(line + 1)'
  BY <1>3, SameHeaders, SameDescription DEF Describing
<1>5. Upto(Description, line)' = {j \in Description : j < i}
  <2>1. Upto(Description, line)' = Upto(Description, i)
    BY SameDescription DEF Upto
  <2> QED BY <1>2, <2>1
<1>6. Belongs(line, media)'
  BY SameDescription, SameLines DEF Belongs
<1> QED BY <1>4, <1>5, <1>6, SameLines, SameDescription DEF AttributesInv

LEMMA StepSdpEnds ==
  ASSUME IInv, TypeOK', SdpEnds
  PROVE  IInv'
<1>1. /\ text \in Texts /\ pc = "sdp" /\ line = NULL /\ SdpInv /\ sdp_info = NULL
      /\ UNCHANGED <<text, resp, sdp, sdp_info>> /\ pc' = "respond"
  BY DEF SdpEnds, Return, IInv, ParserInv, SessionInv
<1>2. Upto(Description, line) = Description
  BY <1>1 DEF Upto
<1>3. /\ HeadersRead /\ Described /\ IsSdp /\ Lengths # {} /\ SdpFrom(Description)
      /\ Description \cap Bad = {}
      /\ \A j \in Description : NextLine(j) = NULL => \A m \in Media : ~Belongs(j, m)
  BY <1>1, <1>2 DEF SdpInv, Describing
<1>4. Bad = {} /\ ~EndsInside
  BY <1>1, <1>3, DescriptionFacts DEF EndsInside
<1>5. Outcome'
  <2>1. PICK S : S = Description
    OBVIOUS
  <2>2. SdpFrom(S)' /\ Description' = S
    BY <1>1, <1>3, <2>1, SdpKeeps, SameDescription
  <2>3. SdpFrom(Description)'
    BY <2>2
  <2> QED BY <1>1, <1>3, <1>4, <2>3, SameDescription DEF Outcome, Described
<1>6. RespFrom(Seen)' /\ ~RunsOffTransport /\ ~RunsOffHeaders
  BY <1>1, <1>3, ReadStays DEF HeadersRead, RunsOffHeaders
<1>7. RespondInv'
  BY <1>1, <1>5, <1>6, ToRespond
<1> QED BY <1>1, <1>7, Arrives

LEMMA StepSdpLine ==
  ASSUME IInv, TypeOK', SdpLine
  PROVE  IInv'
<1>1. /\ text \in Texts /\ TypeOK /\ pc = "sdp" /\ line # NULL /\ SdpInv /\ sdp_info = NULL
      /\ UNCHANGED <<text, resp, sdp_info>>
  BY DEF SdpLine, SdpFails, IInv, ParserInv, SessionInv
<1>2. PICK i \in Description \cup {End} : i = line
  BY <1>1 DEF SdpInv
<1>3. PICK S : S = Upto(Description, i)
  OBVIOUS
<1>4. /\ HeadersRead /\ Described /\ IsSdp /\ Lengths # {} /\ SdpFrom(S) /\ S \cap Bad = {}
      /\ \A j \in S : NextLine(j) # NULL
      /\ i \in Description /\ Kind(i) \in Attributes => \A m \in Media : ~Belongs(i, m)
  BY <1>1, <1>2, <1>3 DEF SdpInv, Describing
<1>5. S \in SUBSET Description /\ i # NULL
  BY <1>1, <1>2, <1>3 DEF Upto
<1>6. CASE i = End
  <2>1. KindAt(line) = "" /\ NextLine(i) = NULL
    BY <1>1, <1>2, <1>6, TextFacts DEF NextLine
  <2>2. pc' = "sdp" /\ line' = NULL /\ UNCHANGED sdp
    BY <1>2, <2>1 DEF SdpLine, GoOn
  <2>3. S = Description /\ Upto(Description, NULL) = Description
    <3>1. \A j \in Description : j < End
      <4>1. /\ Len(text.lines) \in Nat /\ End = Len(text.lines) + 1
            /\ Description \in SUBSET (1..Len(text.lines))
        BY <1>1, DescriptionFacts, TextFacts
      <4> QED BY <4>1
    <3> QED BY <1>3, <1>5, <1>6, <3>1 DEF Upto
  <2>4. SdpFrom(S)' /\ HeadersRead' /\ Described'
    BY <1>1, <1>4, <2>2, SdpKeeps, ReadStays DEF Described
  <2>5. PICK k : k = NULL
    OBVIOUS
  <2>6. SdpFrom(Upto(Description, k))'
    <3>1. Upto(Description, k)' = S
      BY <1>1, <2>3, <2>5, SameDescription DEF Upto
    <3> QED BY <2>4, <3>1
  <2>7. NULL \notin Description
    BY <1>1, DescriptionFacts
  <2>8. SdpInv'
    BY <1>1, <1>4, <2>2, <2>3, <2>4, <2>5, <2>6, <2>7, ToSdp
  <2> QED BY <1>1, <2>2, <2>8, Arrives
<1>7. CASE i \in Description
  <2>1. /\ i \in Int /\ Description \in SUBSET Int /\ KindAt(line) = Kind(i)
        /\ ValueAt(line) = Value(i)
    <3>1. i \in 1..Len(text.lines) /\ i \in Int /\ Description \in SUBSET Int
      BY <1>1, <1>7, DescriptionFacts
    <3> QED BY <1>1, <1>2, <3>1, TextFacts
  <2>2. S = {j \in Description : j < i} /\ S \cup {i} = {j \in Description : j <= i}
    <3>1. \A j \in Description : j <= i <=> j < i \/ j = i
      BY <2>1
    <3> QED BY <1>3, <1>5, <1>7, <3>1 DEF Upto
  <2>3. CASE \/ Kind(i) = "v=" /\ Value(i) # 0
             \/ Kind(i) \in {"m=video", "m=audio"} /\ Value(i) = 0
    <3>1. SdpFails
      BY <2>1, <2>3 DEF SdpLine
    <3>2. i \in Bad
      BY <1>7, <2>3 DEF Bad
    <3> QED BY <1>1, <1>4, <3>1, <3>2, StepFails
  <2>4. CASE Kind(i) \in {"m=video", "m=audio"} /\ Value(i) # 0
    <3>1. /\ media' = MediaOf(Kind(i)) /\ pc' = "attributes" /\ line' = i
          /\ sdp' = [sdp EXCEPT !.enable = @ \cup {MediaOf(Kind(i))}]
      BY <1>2, <2>1, <2>4 DEF SdpLine, GoOn
    <3>2. sdp \in SdpType
      BY <1>1, TypeIs
    <3>3. /\ sdp'.enable = sdp.enable \cup {MediaOf(Kind(i))}
          /\ sdp'.control = sdp.control /\ sdp'.state = sdp.state
      BY <3>1, <3>2 DEF SdpType
    <3>4. SdpFrom(S \cup {i})'
      BY <1>1, <1>4, <1>5, <1>7, <2>4, <3>3, SdpGrowsMedium
    <3>5. HeadersRead' /\ Described'
      BY <1>1, <1>4, <3>3, ReadStays DEF Described
    <3>6. (S \cup {i}) \cap Bad = {}
      <4>1. i \notin Bad
        BY <2>4 DEF Bad
      <4> QED BY <1>4, <4>1
    <3>7. Belongs(i, media')
      BY <1>1, <1>7, <2>4, <3>1, BelongsMedium
    <3>8. PICK R : R = S \cup {i}
      OBVIOUS
    <3>9. \A j \in Description : j < i => NextLine(j) # NULL
      BY <1>4, <2>2
    <3>10. AttributesInv'
      BY <1>1, <1>4, <1>7, <2>2, <3>1, <3>4, <3>5, <3>6, <3>7, <3>8, <3>9, ToAttributes
    <3> QED BY <1>1, <3>1, <3>10, Arrives
  <2>5. CASE Kind(i) \notin {"m=video", "m=audio"} /\ ~(Kind(i) = "v=" /\ Value(i) # 0)
    <3>1. pc' = "sdp" /\ line' = NextLine(i) /\ UNCHANGED sdp
      BY <1>2, <2>1, <2>5 DEF SdpLine, GoOn
    <3>2. \A m \in Media : ~Belongs(i, m)
      BY <1>1, <1>4, <1>7, <2>5, BelongsNot
    <3>3. (S \cup {i}) \cap Bad = {}
      <4>1. i \notin Bad
        BY <2>5, <3>2 DEF Bad
      <4> QED BY <1>4, <4>1
    <3>4. SdpFrom(S \cup {i})' /\ HeadersRead' /\ Described'
      <4>1. SdpFrom(S \cup {i})
        BY <1>4, <3>2, SdpGrowsNone
      <4>2. SdpFrom(S \cup {i})'
        BY <1>1, <3>1, <4>1, SdpKeeps
      <4> QED BY <1>1, <1>4, <3>1, <4>2, ReadStays DEF Described
    <3>5. PICK next \in Description \cup {NULL, End} : next = NextLine(i)
      BY <1>1, <1>7, AfterDescribed
    <3>6. Upto(Description, next) = S \cup {i} /\ (next # NULL => next = i + 1)
      BY <1>1, <1>7, <2>2, <3>5, AfterDescribed
    <3>7. SdpFrom(Upto(Description, next))'
      <4>1. Upto(Description, next)' = S \cup {i}
        BY <1>1, <3>6, SameDescription DEF Upto
      <4> QED BY <3>4, <4>1
    <3>8. next \in Description /\ Kind(next) \in Attributes => \A m \in Media : ~Belongs(next, m)
      <4>1. SUFFICES ASSUME next \in Description, Kind(next) \in Attributes, NEW m \in Media
                     PROVE  ~Belongs(next, m)
        OBVIOUS
      <4>2. next # NULL
        BY <1>1, <4>1, DescriptionFacts
      <4> QED BY <1>1, <1>7, <3>2, <3>6, <4>1, <4>2, BelongsInherits
    <3>9. \A j \in Upto(Description, next) : NextLine(j) = NULL =>
             next = NULL /\ \A m \in Media : ~Belongs(j, m)
      BY <1>4, <3>2, <3>5, <3>6
    <3>10. SdpInv'
      BY <1>1, <1>4, <3>1, <3>3, <3>4, <3>5, <3>6, <3>7, <3>8, <3>9, ToSdp
    <3> QED BY <1>1, <3>1, <3>10, Arrives
  <2> QED BY <2>3, <2>4, <2>5
<1> QED BY <1>2, <1>6, <1>7

LEMMA StepAttribute ==
  ASSUME IInv, TypeOK', Attribute
  PROVE  IInv'
<1>1. /\ text \in Texts /\ TypeOK /\ pc = "attributes" /\ AttributesInv /\ sdp_info = NULL
      /\ UNCHANGED <<text, resp, sdp_info>>
  BY DEF Attribute, SdpFails, Fault, IInv, ParserInv, SessionInv
<1>2. PICK i \in Description : i = line
  BY <1>1 DEF AttributesInv
<1>3. /\ i \in Int /\ i \in 1..Len(text.lines) /\ Description \in SUBSET Int
      /\ Len(text.lines) \in Nat /\ End = Len(text.lines) + 1 /\ media \in Media
      /\ DOMAIN text.lines = 1..Len(text.lines)
  BY <1>1, DescriptionFacts, TextFacts, TypeIs
<1>4. PICK S : S = {j \in Description : j <= i}
  OBVIOUS
<1>5. /\ HeadersRead /\ Described /\ IsSdp /\ Lengths # {} /\ SdpFrom(S) /\ S \cap Bad = {}
      /\ Belongs(i, media) /\ \A j \in Description : j < i => NextLine(j) # NULL
  <2>1. i + 1 # NULL /\ i # NULL
    BY <1>3 DEF NULL
  <2>2. Upto(Description, line + 1) = S
    <3>1. \A j \in Description : j < i + 1 <=> j <= i
      BY <1>3
    <3> QED BY <1>2, <1>4, <2>1, <3>1 DEF Upto
  <2>3. \A j \in Description : j < i => NextLine(j) # NULL
    BY <1>1, <1>2 DEF AttributesInv, Upto
  <2> QED BY <1>1, <1>2, <2>2, <2>3 DEF AttributesInv, Describing
<1>6. PICK next \in Description \cup {NULL, End} : next = NextLine(i)
  BY <1>1, AfterDescribed
<1>7. Upto(Description, next) = S /\ (next # NULL => next = i + 1)
  BY <1>1, <1>4, <1>6, AfterDescribed
<1>8. KindAt(next) \in Attributes => next \in Description
  <2>1. KindAt(End) = "" /\ KindAt(NULL) = ""
    <3>1. NULL \notin DOMAIN text.lines
      BY <1>3 DEF NULL
    <3> QED BY <1>1, <3>1, TextFacts DEF KindAt
  <2> QED BY <1>6, <2>1 DEF Attributes
<1>9. next \in Description => KindAt(next) = Kind(next) /\ ValueAt(next) = Value(next)
  BY <1>1, DescriptionFacts, TextFacts
<1>10. next \in Description /\ Kind(next) \in Attributes =>
         /\ next # NULL /\ Belongs(next, media)
         /\ S \cup {next} = {j \in Description : j <= next}
         /\ \A j \in S : j < next
  <2>1. SUFFICES ASSUME next \in Description, Kind(next) \in Attributes
                 PROVE  /\ next # NULL /\ Belongs(next, media)
                        /\ S \cup {next} = {j \in Description : j <= next}
                        /\ \A j \in S : j < next
    OBVIOUS
  <2>2. next = i + 1 /\ next # NULL
    BY <1>1, <1>7, <2>1, DescriptionFacts
  <2>3. Belongs(next, media)
    BY <1>1, <1>5, <2>1, <2>2, BelongsInherits
  <2>4. \A j \in Description : j <= i + 1 <=> j <= i \/ j = i + 1
    BY <1>3
  <2>5. \A j \in S : j < next
    BY <1>3, <1>4, <2>2
  <2> QED BY <1>4, <2>1, <2>2, <2>3, <2>4, <2>5
<1>11. next # NULL => \A j \in Description : j <= i => NextLine(j) # NULL
  <2>1. \A j \in Description : j <= i <=> j < i \/ j = i
    BY <1>3
  <2>2. \A j \in Description : j < i => NextLine(j) # NULL
    BY <1>5
  <2> QED BY <1>6, <2>1, <2>2
<1>12. sdp \in SdpType
  BY <1>1, TypeIs
<1>13. CASE next = NULL /\ Fault
  <2>1. S = Description
    BY <1>7, <1>13 DEF Upto
  <2>2. Bad = {} /\ EndsInside
    BY <1>1, <1>3, <1>5, <1>6, <1>13, <2>1, DescriptionFacts DEF EndsInside
  <2> QED BY <1>1, <1>13, <2>2, Faulted DEF Astray, Fault
<1>14. CASE /\ next # NULL /\ KindAt(next) \in {"a=rtpmap", "a=control"} /\ ValueAt(next) = 0
            /\ SdpFails
  <2>1. next \in Description /\ Kind(next) \in {"a=rtpmap", "a=control"} /\ Value(next) = 0
    BY <1>8, <1>9, <1>14 DEF Attributes
  <2>2. Belongs(next, media)
    BY <1>10, <2>1 DEF Attributes
  <2>3. next \in Bad
    BY <1>3, <2>1, <2>2 DEF Bad
  <2> QED BY <1>1, <1>5, <1>14, <2>3, StepFails
<1>15. ASSUME next \in Description, Kind(next) \in Attributes, pc' = "attributes", line' = next,
              SdpFrom(S \cup {next})', sdp'.state = sdp.state, UNCHANGED media,
              Kind(next) \in {"a=rtpmap", "a=control"} => Value(next) # 0
       PROVE  IInv'
  <2>1. HeadersRead' /\ Described'
    BY <1>1, <1>5, <1>15, ReadStays DEF Described
  <2>2. (S \cup {next}) \cap Bad = {}
    <3>1. next \notin Bad
      BY <1>15 DEF Bad, Attributes
    <3> QED BY <1>5, <3>1
  <2>3. Belongs(next, media')
    BY <1>10, <1>15
  <2>4. \A j \in Description : j < next => NextLine(j) # NULL
    <3>1. next = i + 1
      BY <1>7, <1>10, <1>15
    <3>2. \A j \in Description : j < i + 1 <=> j <= i
      BY <1>3
    <3> QED BY <1>10, <1>11, <1>15, <3>1, <3>2
  <2>5. PICK R : R = S \cup {next}
    OBVIOUS
  <2>6. AttributesInv'
    BY <1>1, <1>5, <1>10, <1>15, <2>1, <2>2, <2>3, <2>4, <2>5, ToAttributes
  <2> QED BY <1>1, <1>15, <2>6, Arrives
<1>16. CASE /\ next # NULL /\ KindAt(next) = "a=control" /\ ValueAt(next) # 0
            /\ sdp' = [sdp EXCEPT !.control[media] = Append(@, ValueAt(next))]
            /\ GoOn("attributes", next) /\ UNCHANGED media
  <2>1. next \in Description /\ Kind(next) = "a=control" /\ Value(next) # 0
    BY <1>8, <1>9, <1>16 DEF Attributes
  <2>2. PICK d \in Media : d = media
    BY <1>3
  <2>3. d \in sdp.enable
    <3>1. i \in S
      BY <1>3, <1>4
    <3>2. sdp.enable = {m \in Media : \E j \in S : Belongs(j, m)}
      BY <1>5, Zenon DEF SdpFrom
    <3> QED BY <1>5, <2>2, <3>1, <3>2
  <2>4. sdp' = [sdp EXCEPT !.control[d] = Append(@, Value(next))]
    BY <1>9, <1>16, <2>1, <2>2
  <2>5. S \in SUBSET Description /\ Belongs(next, d) /\ \A j \in S : j < next
    BY <1>4, <1>10, <2>1, <2>2 DEF Attributes
  <2>6. SdpFrom(S \cup {next})'
    BY <1>1, <1>5, <2>1, <2>3, <2>4, <2>5, SdpGrowsControl
  <2>7. sdp'.state = sdp.state
    BY <1>12, <2>4 DEF SdpType
  <2> QED BY <1>15, <1>16, <2>1, <2>6, <2>7 DEF GoOn, Attributes
<1>17. CASE /\ next # NULL /\ \/ KindAt(next) = "b=AS"
                              \/ KindAt(next) = "a=rtpmap" /\ ValueAt(next) # 0
            /\ GoOn("attributes", next) /\ UNCHANGED <<sdp, media>>
  <2>1. /\ next \in Description /\ Kind(next) \in Attributes /\ Kind(next) # "a=control"
        /\ Kind(next) = "a=rtpmap" => Value(next) # 0
    BY <1>8, <1>9, <1>17 DEF Attributes
  <2>2. SdpFrom(S \cup {next})'
    <3>1. Belongs(next, media) /\ i \in S
      BY <1>3, <1>4, <1>10, <2>1
    <3>2. SdpFrom(S \cup {next})
      BY <1>1, <1>4, <1>5, <2>1, <3>1, SdpGrowsOther
    <3> QED BY <1>1, <1>17, <3>2, SdpKeeps
  <2> QED BY <1>15, <1>17, <2>1, <2>2 DEF GoOn
<1>18. CASE /\ next # NULL /\ KindAt(next) \notin {"a=rtpmap", "a=control", "b=AS"}
            /\ GoOn("sdp", next) /\ UNCHANGED <<sdp, media>>
  <2>1. next \in Description => Kind(next) \notin Attributes
    BY <1>9, <1>18 DEF Attributes
  <2>2. SdpFrom(S)' /\ HeadersRead' /\ Described'
    BY <1>1, <1>5, <1>18, SdpKeeps, ReadStays DEF Described
  <2>3. SdpFrom(Upto(Description, next))'
    <3>1. Upto(Description, next)' = S
      BY <1>1, <1>7, SameDescription DEF Upto
    <3> QED BY <2>2, <3>1
  <2>4. \A j \in Upto(Description, next) : NextLine(j) # NULL
    BY <1>4, <1>7, <1>11, <1>18
  <2>5. pc' = "sdp" /\ line' = next
    BY <1>18 DEF GoOn
  <2>6. SdpInv'
    BY <1>1, <1>5, <1>7, <2>1, <2>2, <2>3, <2>4, <2>5, ToSdp
  <2> QED BY <1>1, <2>5, <2>6, Arrives
<1> QED BY <1>2, <1>6, <1>13, <1>14, <1>16, <1>17, <1>18 DEF Attribute

-----------------------------------------------------------------------------
(* The session takes what was read                                         *)

\* The response is handled.
LEMMA Handled ==
  ASSUME IInv, TypeOK', UNCHANGED text, pc' = "done", RespondInv, pc \in {"respond", "setup"},
         ~KeepsFreed, SetupAsksForControl'
  PROVE  IInv'
<1>1. text \in Texts /\ HeadersRead /\ Outcome /\ (IsSdp \/ OneLength => ~RunsOffHeaders)
  BY DEF IInv, ParserInv, RespondInv
<1>2. Bad \in SUBSET Description
  BY <1>1, DescriptionFacts
<1>3. ~EndsInside /\ ~RunsOffTransport
  BY <1>1, <1>2 DEF Outcome, EndsInside, HeadersRead
<1>4. IsSdp \/ OneLength => ~Astray
  BY <1>1, <1>3 DEF Astray
<1>5. FaultsExactly'
  BY <1>4, SameLines, SameHeaders, SameDescription DEF FaultsExactly
<1>6. StatusInv' /\ HeadersInv' /\ ContentInv' /\ SdpInv' /\ AttributesInv' /\ RespondInv'
      /\ SessionInv'
  BY DEF StatusInv, HeadersInv, ContentInv, SdpInv, AttributesInv, RespondInv, SessionInv
<1> QED BY <1>1, <1>5, <1>6 DEF IInv, ParserInv

\* The awaited answer, by what the text says of it.
LEMMA Awaited ==
  ASSUME HeadersRead
  PROVE  resp.cseq = CurCSeq <=> CSeqs # {} /\ Value(Latest(CSeqs)) = CurCSeq
<1>1. resp.cseq = IF CSeqs = {} THEN 0 ELSE Value(Latest(CSeqs))
  BY DEF HeadersRead, RespFrom, CSeqs
<1> QED BY <1>1 DEF CurCSeq

LEMMA StepRespond ==
  ASSUME IInv, TypeOK', Respond
  PROVE  IInv'
<1>1. /\ text \in Texts /\ pc = "respond" /\ RespondInv /\ sdp_info = NULL
      /\ UNCHANGED <<text, line, resp, sdp, media, uri>>
      /\ sdp_info' = IF resp.cseq = CurCSeq THEN resp.sdp_info ELSE sdp_info
      /\ pc' = IF sdp_info' = NULL THEN "done" ELSE "setup"
  BY DEF Respond, IInv, ParserInv, SessionInv
<1>2. HeadersRead /\ Outcome /\ (IsSdp \/ OneLength => ~RunsOffHeaders)
  BY <1>1 DEF RespondInv
<1>3. CASE sdp_info' = NULL
  <2>1. SetupAsksForControl'
    BY <1>3 DEF SetupAsksForControl
  <2>2. ~KeepsFreed
    <3>1. SUFFICES ASSUME KeepsFreed PROVE FALSE
      OBVIOUS
    <3>2. resp.cseq = CurCSeq /\ Bad # {}
      BY <1>2, <3>1, Awaited DEF KeepsFreed
    <3>3. resp.sdp_info = TheSdp
      BY <1>1, <1>2, <3>2, DescriptionFacts DEF Outcome
    <3> QED BY <1>1, <1>3, <3>2, <3>3 DEF NULL, TheSdp
  <2> QED BY <1>1, <1>3, <2>1, <2>2, Handled
<1>4. CASE sdp_info' # NULL
  <2>1. pc' = "setup" /\ resp.cseq = CurCSeq /\ resp.sdp_info = TheSdp /\ sdp_info' = TheSdp
    <3>1. resp.sdp_info \in {NULL, TheSdp}
      BY TypeIs DEF IInv, RespType
    <3> QED BY <1>1, <1>4, <3>1
  <2>2. HeadersRead'
    BY <1>1, <1>2, ReadStays
  <2>3. Outcome'
    <3>1. PICK S : S = Description
      OBVIOUS
    <3>2. SdpFrom(S) => SdpFrom(S)'
      BY <1>1, SdpKeeps
    <3>3. Description' = S
      BY <1>1, <3>1, SameDescription
    <3>4. SdpFrom(Description) => SdpFrom(Description)'
      BY <3>1, <3>2, <3>3
    <3> QED BY <1>1, <1>2, <3>4, SameDescription DEF Outcome, Undescribed, Described
  <2>4. RespondInv'
    BY <1>1, <1>2, <2>1, <2>2, <2>3, SameHeaders, SameLines DEF RespondInv
  <2>5. StatusInv' /\ HeadersInv' /\ ContentInv' /\ SdpInv' /\ AttributesInv'
    BY <2>1 DEF StatusInv, HeadersInv, ContentInv, SdpInv, AttributesInv
  <2>6. SessionInv' /\ FaultsExactly' /\ SetupAsksForControl'
    BY <2>1 DEF SessionInv, FaultsExactly, SetupAsksForControl
  <2> QED BY <1>1, <2>4, <2>5, <2>6 DEF IInv, ParserInv
<1> QED BY <1>3, <1>4

LEMMA StepSetup ==
  ASSUME IInv, TypeOK', Setup
  PROVE  IInv'
<1>1. /\ text \in Texts /\ pc = "setup" /\ RespondInv /\ sdp_info = TheSdp
      /\ UNCHANGED <<text, sdp, sdp_info>>
  BY DEF Setup, Fault, IInv, ParserInv, SessionInv
<1>2. HeadersRead /\ Outcome /\ resp.cseq = CurCSeq /\ resp.sdp_info = TheSdp
  BY <1>1 DEF RespondInv
<1>3. ~(resp.sdp_info = NULL)
  BY <1>2 DEF NULL, TheSdp
<1>4. CASE sdp.state = "freed" /\ Fault
  <2>1. Bad # {}
    BY <1>2, <1>3, <1>4 DEF Outcome, Undescribed, Described
  <2>2. KeepsFreed
    BY <1>2, <2>1, Awaited DEF KeepsFreed
  <2> QED BY <1>1, <1>4, <2>2, Faulted DEF Fault, Astray
<1>5. CASE /\ sdp.state = "live"
           /\ uri' = [m \in Media |-> IF m \in sdp.enable THEN Track(m) ELSE NoTrack]
           /\ pc' = "done"
  <2>1. SdpFrom(Description) /\ Bad = {}
    BY <1>2, <1>3, <1>5 DEF Outcome, Undescribed
  <2>2. ASSUME NEW m \in Media
        PROVE  uri'[m] = IF \A i \in Description : ~Belongs(i, m) THEN NoTrack
                         ELSE IF Controls(m) = {} THEN DefaultTrack
                         ELSE Value(First(Controls(m)))
    <3>1. m \in sdp.enable <=> \E i \in Description : Belongs(i, m)
      <4>1. sdp.enable = {l \in Media : \E i \in Description : Belongs(i, l)}
        BY <2>1, Zenon DEF SdpFrom
      <4> QED BY <4>1
    <3>2. IF Controls(m) = {} THEN sdp.control[m] = << >>
          ELSE sdp.control[m] # << >> /\ Head(sdp.control[m]) = Value(First(Controls(m)))
      BY <2>1, Zenon DEF SdpFrom, Controls
    <3>3. Track(m) = IF Controls(m) = {} THEN DefaultTrack ELSE Value(First(Controls(m)))
      BY <3>2 DEF Track
    <3> QED BY <1>5, <3>1, <3>3
  <2>3. SetupAsksForControl'
    <3>1. \A m \in Media : Controls(m)' = Controls(m) /\ \A i : Belongs(i, m)' = Belongs(i, m)
      BY <1>1, SameDescription
    <3>2. Description' = Description
      BY <1>1, SameDescription
    <3>3. \A m \in Media : Value(First(Controls(m)))' = Value(First(Controls(m)))
      BY <3>1, <1>1, SameLines DEF First
    <3> QED BY <2>2, <3>1, <3>2, <3>3 DEF SetupAsksForControl, Media, Video, Audio
  <2>4. ~KeepsFreed
    BY <2>1 DEF KeepsFreed
  <2> QED BY <1>1, <1>5, <2>3, <2>4, Handled
<1> QED BY <1>4, <1>5 DEF Setup

-----------------------------------------------------------------------------
(* The theorems                                                            *)

LEMMA InitParser ==
  ASSUME Init
  PROVE  IInv
<1>1. text \in Texts
  BY DEF Init
<1>2. TypeOK
  <2>1. 1 \in 0..End
    <3>1. Len(text.lines) \in Nat /\ End = Len(text.lines) + 1
      BY <1>1, TextFacts
    <3> QED BY <3>1
  <2>2. NoResp \in RespType
    BY DEF NoResp, RespType, TransportType, NoTransport
  <2>3. NoSdp \in SdpType
    <3>1. << >> \in Seq(Nat)
      OBVIOUS
    <3> QED BY <3>1 DEF NoSdp, SdpType
  <2>4. text \in [lines : Seq(Lines), ended : BOOLEAN]
    BY <1>1, TextsAssumption
  <2>5. [m \in Media |-> NoTrack] \in [Media -> Nat]
    BY DEF NoTrack
  <2> QED BY <2>1, <2>2, <2>3, <2>4, <2>5, TypeIs DEF Init, Media, Video, Places
<1>3. StatusInv /\ SessionInv
  BY DEF Init, StatusInv, SessionInv, Undescribed, NoResp
<1>4. HeadersInv /\ ContentInv /\ SdpInv /\ AttributesInv /\ RespondInv
  BY DEF Init, HeadersInv, ContentInv, SdpInv, AttributesInv, RespondInv
<1>5. FaultsExactly /\ SetupAsksForControl
  BY DEF Init, FaultsExactly, SetupAsksForControl
<1> QED BY <1>1, <1>2, <1>3, <1>4, <1>5 DEF IInv, ParserInv

\* Nothing changes.
LEMMA Stutters ==
  ASSUME IInv, TypeOK', UNCHANGED vars
  PROVE  IInv'
<1>1. UNCHANGED <<text, pc, line, resp, sdp, media, sdp_info, uri>> /\ ParserInv /\ text \in Texts
  BY DEF vars, IInv, ParserInv
<1>2. HeadersRead => HeadersRead'
  BY <1>1, ReadStays
<1>3. Described' = Described /\ Undescribed' = Undescribed
  BY <1>1 DEF Described, Undescribed
<1>4. \A S : (RespFrom(S) => RespFrom(S)') /\ (SdpFrom(S) => SdpFrom(S)')
  BY <1>1, RespKeeps, SdpKeeps
<1>5. HeadersInv'
  <2>1. SUFFICES ASSUME pc = "headers" PROVE HeadersInv'
    BY <1>1 DEF HeadersInv
  <2>2. HeadersInv
    BY <1>1 DEF ParserInv
  <2>3. PICK i \in Headers \cup {NULL, End} : i = line
    BY <2>1, <2>2 DEF HeadersInv
  <2>4. PICK S : S = Upto(Headers, i)
    OBVIOUS
  <2>5. RespFrom(S)'
    BY <1>4, <2>1, <2>2, <2>3, <2>4 DEF HeadersInv
  <2>6. RespFrom(Upto(Headers, i))'
    <3>1. Upto(Headers, i)' = S
      BY <1>1, <2>4, SameHeaders DEF Upto
    <3> QED BY <2>5, <3>1
  <2> QED BY <1>1, <1>3, <2>1, <2>2, <2>3, <2>6, ToHeaders DEF HeadersInv
<1>6. ContentInv'
  BY <1>1, <1>2, <1>3, SameHeaders, SameLines DEF ParserInv, ContentInv
<1>7. ASSUME NEW i, Describing(i) PROVE Describing(i)'
  <2>1. PICK S : S = Upto(Description, i)
    OBVIOUS
  <2>2. Upto(Description, i)' = S
    BY <1>1, <2>1, SameDescription DEF Upto
  <2>3. SdpFrom(S)'
    BY <1>4, <1>7, <2>1 DEF Describing
  <2>4. SdpFrom(Upto(Description, i))'
    BY <2>2, <2>3
  <2> QED BY <1>1, <1>2, <1>3, <1>7, <2>1, <2>2, <2>4, SameHeaders, SameDescription DEF Describing
<1>8. SdpInv'
  <2>1. SUFFICES ASSUME pc = "sdp" PROVE SdpInv'
    BY <1>1 DEF SdpInv
  <2>2. SdpInv
    BY <1>1 DEF ParserInv
  <2>3. PICK i \in Description \cup {NULL, End} : i = line
    BY <2>1, <2>2 DEF SdpInv
  <2>4. Describing(i)
    BY <2>1, <2>2, <2>3 DEF SdpInv
  <2>5. Describing(i)'
    BY <1>7, <2>4
  <2>6. /\ HeadersRead' /\ Described' /\ SdpFrom(Upto(Description, i))'
    BY <2>5 DEF Describing
  <2>7. IsSdp /\ Lengths # {} /\ Upto(Description, i) \cap Bad = {}
    BY <2>4 DEF Describing
  <2> QED BY <1>1, <2>1, <2>2, <2>3, <2>6, <2>7, ToSdp DEF SdpInv
<1>9. AttributesInv'
  <2>1. SUFFICES ASSUME pc = "attributes" PROVE AttributesInv'
    BY <1>1 DEF AttributesInv
  <2>2. AttributesInv
    BY <1>1 DEF ParserInv
  <2>3. PICK i \in Description : i = line
    BY <2>1, <2>2 DEF AttributesInv
  <2>4. PICK k : k = i + 1
    OBVIOUS
  <2>5. Describing(k)'
    BY <1>7, <2>1, <2>2, <2>3, <2>4 DEF AttributesInv
  <2>6. Describing(line + 1)'
    BY <1>1, <2>3, <2>4, <2>5
  <2>7. Belongs(line, media)'
    BY <1>1, <2>1, <2>2, SameDescription, SameLines DEF AttributesInv, Belongs
  <2>8. Upto(Description, line)' = Upto(Description, line)
    BY <1>1, SameDescription DEF Upto
  <2> QED BY <1>1, <2>1, <2>2, <2>6, <2>7, <2>8, SameLines, SameDescription DEF AttributesInv
<1>10. RespondInv'
  <2>1. Outcome => Outcome'
    <3>1. PICK S : S = Description
      OBVIOUS
    <3>2. Description' = S /\ (SdpFrom(S) => SdpFrom(S)')
      BY <1>1, <1>4, <3>1, SameDescription
    <3>3. SdpFrom(Description) => SdpFrom(Description)'
      BY <3>1, <3>2
    <3> QED BY <1>1, <1>3, <3>3, SameDescription DEF Outcome
  <2> QED BY <1>1, <1>2, <2>1, SameHeaders, SameLines DEF ParserInv, RespondInv
<1>11. StatusInv' /\ SessionInv'
  BY <1>1, <1>3 DEF ParserInv, StatusInv, SessionInv
<1>12. FaultsExactly'
  BY <1>1, SameLines, SameHeaders, SameDescription DEF ParserInv, FaultsExactly
<1>13. SetupAsksForControl'
  <2>1. \A m \in Media : Controls(m)' = Controls(m)
    BY <1>1, SameDescription
  <2>2. \A m \in Media : Value(First(Controls(m)))' = Value(First(Controls(m)))
    BY <1>1, <2>1, SameLines DEF First
  <2> QED BY <1>1, <2>2, SameDescription DEF ParserInv, SetupAsksForControl, Media, Video, Audio
<1> QED BY <1>1, <1>5, <1>6, <1>8, <1>9, <1>10, <1>11, <1>12, <1>13 DEF IInv, ParserInv

LEMMA NextParser ==
  ASSUME IInv, [Next]_vars
  PROVE  IInv'
<1>1. TypeOK'
  BY Types
<1>2. CASE StatusLine
  BY <1>1, <1>2, StepStatusLine
<1>3. CASE Header
  BY <1>1, <1>3, StepHeader
<1>4. CASE HeadersEnd
  BY <1>1, <1>4, StepHeadersEnd
<1>5. CASE Content
  BY <1>1, <1>5, StepContent
<1>6. CASE SdpLine
  BY <1>1, <1>6, StepSdpLine
<1>7. CASE SdpEnds
  BY <1>1, <1>7, StepSdpEnds
<1>8. CASE Attribute
  BY <1>1, <1>8, StepAttribute
<1>9. CASE Respond
  BY <1>1, <1>9, StepRespond
<1>10. CASE Setup
  BY <1>1, <1>10, StepSetup
<1>11. CASE UNCHANGED vars
  BY <1>1, <1>11, Stutters
<1> QED BY <1>2, <1>3, <1>4, <1>5, <1>6, <1>7, <1>8, <1>9, <1>10, <1>11 DEF Next

LEMMA Invariance ==
  Spec => []IInv
<1>1. Init => IInv
  BY InitParser
<1>2. IInv /\ [Next]_vars => IInv'
  BY NextParser
<1> QED BY <1>1, <1>2, PTL DEF Spec

\* The variables of the parser and of the session keep their types, and the
\* current line is one of the text, the empty string at its end, or none.
THEOREM TypeInvariance ==
  Spec => []TypeOK
<1>1. IInv => TypeOK
  BY DEF IInv
<1> QED BY <1>1, Invariance, PTL

\* When parse_rtsp_resp() has returned, whatever the text and wherever it
\* stopped, the CSeq, the session ID and the transport are those of the headers
\* it gets to (parser.c:222-274, 299-344).
THEOREM HeadersAreUnderstood ==
  Spec => []HeadersUnderstood
<1>1. IInv => HeadersUnderstood
  <2>1. SUFFICES ASSUME IInv, Parsed PROVE HeadersUnderstood
    BY DEF HeadersUnderstood
  <2>2. RespFrom(Seen)
    BY <2>1 DEF Parsed, IInv, ParserInv, RespondInv, HeadersRead
  <2> QED BY <2>2 DEF RespFrom, HeadersUnderstood, CSeqs, Transports
<1> QED BY <1>1, Invariance, PTL

\* Whatever the description, the session sets up the media it names and asks for
\* each by the first control attribute of its section, or by the default
\* (parser.c:120-158, rtsp_method.c:116-143).
THEOREM SetupFollowsControl ==
  Spec => []SetupAsksForControl
<1>1. IInv => SetupAsksForControl
  BY DEF IInv, ParserInv
<1> QED BY <1>1, Invariance, PTL

\* A response with a description, or with one Content-Length at most, makes the
\* client touch what is no text or no memory of its own exactly if it is of one
\* of four shapes (parser.c:187-209, 120-158, 265, rtsp_cli.c:428-430).
THEOREM FaultsAreKnown ==
  Spec => []FaultsExactly
<1>1. IInv => FaultsExactly
  BY DEF IInv, ParserInv
<1> QED BY <1>1, Invariance, PTL
=============================================================================
