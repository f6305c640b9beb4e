--------------------------- MODULE RtpFrameProofs ---------------------------
(***************************************************************************)
(* Theorems about RtpFrame, for any video, any limits and any number of    *)
(* faults: the types of the state, that damage stays where it happens,     *)
(* that the buffer is big enough, and that RtpFrame implements FrameStream.*)
(*                                                                         *)
(* The invariant relates the one buffer to the packets under way: faults   *)
(* move, double and drop only packets that are hurt, so that for a packet  *)
(* that is not hurt, those in front of it and behind it are still the      *)
(* earlier and the later ones.                                             *)
(*                                                                         *)
(* What FlattenSeq makes of the NALUs of a frame is shown by induction:    *)
(* the numbers for which a fact holds are a set, and one that is not all   *)
(* of Nat would leave out a least number.                                  *)
(***************************************************************************)
EXTENDS RtpFrame, Integers, NaturalsInduction, WellFoundedInduction, SequenceTheorems, TLAPS

-----------------------------------------------------------------------------
(* Sets of natural numbers                                                 *)

\* A set of natural numbers has a least element.
LEMMA LeastNumber ==
  ASSUME NEW S \in SUBSET Nat, S # {}
  PROVE  \E x \in S : \A y \in S : x <= y
<1> DEFINE R == OpToRel(<, Nat)
<1>1. IsWellFoundedOn(R, Nat)
  BY NatLessThanWellFounded
<1>2. \A x, y \in Nat : <<y, x>> \in R <=> y < x
  BY DEF OpToRel
<1> HIDE DEF R
<1>3. PICK x \in S : \A y \in S : ~ (<<y, x>> \in R)
  BY <1>1, WFMin, Zenon
<1>4. \A y \in S : ~ (y < x)
  BY <1>2, <1>3, Zenon
<1>5. \A y \in S : x <= y
  BY <1>4
<1> QED BY <1>5

\* A set with 0 and with the successor of each of its numbers has all of them.
LEMMA SetInduction ==
  ASSUME NEW S \in SUBSET Nat, 0 \in S, \A n \in S : n + 1 \in S
  PROVE  S = Nat
<1> DEFINE T == Nat \ S
<1>1. SUFFICES ASSUME T # {} PROVE FALSE
  OBVIOUS
<1>2. T \in SUBSET Nat
  OBVIOUS
<1>3. PICK x \in T : \A y \in T : x <= y
  <2> HIDE DEF T
  <2> QED BY <1>1, <1>2, LeastNumber
<1>4. x # 0 /\ x \in Nat /\ x - 1 \in Nat /\ x - 1 < x
  OBVIOUS
<1>5. x - 1 \notin T
  BY <1>3, <1>4
<1>6. x - 1 \in S /\ (x - 1) + 1 = x
  BY <1>4, <1>5
<1> QED BY <1>6

\* What is sent and what gets into the buffer.
Video   == UNION {Tokens(f) : f \in 1 .. Len(Frames)}
Others  == {<<0, i, 0>> : i \in 1 .. MaxExtras}
ExtraPackets == [media : Extras, pt : {0}, inner : {0}, start : {FALSE},
                 m : {FALSE, Marked}, data : Others]
Packets == {VideoPacket(t) : t \in Video} \cup ExtraPackets
Content == {StartCode} \cup (Single \X {"header"}) \cup Video
Stored  == [data : Seq(Content), type : FrmTypes]
Finish  == <<Len(Frames) + 1, 1, 1>>

\* The order in which the server sends.
Before(t, u) ==
  \/ t[1] < u[1]
  \/ t[1] = u[1] /\ t[2] < u[2]
  \/ t[1] = u[1] /\ t[2] = u[2] /\ t[3] < u[3]

LastToken(f) == <<f, Len(Frames[f]), Parts(f, Len(Frames[f]))>>

Types ==
  /\ next \in Video \cup {Finish}
  /\ extras \in 0 .. MaxExtras /\ faults \in 0 .. MaxFaults
  /\ net \in Seq(Packets) /\ hurt \in SUBSET (Video \cup Others)
  /\ frm_buf \in Seq(Content) /\ stored \in Seq(Stored)

\* The packet was sent, and is not under way any more.
Through(t) ==
  Before(t, next) /\ \A i \in 1 .. Len(net) : net[i].data # t

\* Packets that are not hurt keep their place among all the others.
OrderInv ==
  /\ \A i \in 1 .. Len(net) : net[i].data \in Video => Before(net[i].data, next)
  /\ \A i, j \in 1 .. Len(net) :
       i < j /\ net[i].data \in Video /\ net[j].data \in Video =>
         Before(net[i].data, net[j].data) \/ {net[i].data, net[j].data} \subseteq hurt
  /\ \A t \in Video \ hurt : Through(t) =>
       \A i \in 1 .. Len(net) : net[i].data \in Video => Before(t, net[i].data)

\* What comes before the parts of a NALU, and its first parts; the first NALUs
\* of a frame.
Opened(f, n) ==
  <<StartCode>>
    \o (IF Parts(f, n) = 1 THEN <<>> ELSE << <<Frames[f][n].type, "header">> >>)

Pieces(f, n, k) == [j \in 1 .. k |-> <<f, n, j>>]
Leading(f, n)   == [m \in 1 .. n |-> NaluBytes(f, m)]

\* A frame up to a packet: the NALUs before, and of the packet's own NALU what
\* was sent of it up to there.
UpTo(t) ==
  FlattenSeq(Leading(t[1], t[2] - 1)) \o (Opened(t[1], t[2]) \o Pieces(t[1], t[2], t[3]))

\* A buffer that holds these packets of the video and no other: there is none,
\* or the frame is there up to the last of them.
Holds(buf, tokens) ==
  \/ tokens = {} /\ buf = <<>>
  \/ \E t \in tokens : buf = UpTo(t) /\ \A u \in tokens : u = t \/ Before(u, t)

\* An unhurt frame has the buffer for itself as soon as the marker before it is
\* through, and is stored with its own marker, if only video has markers.
Apart ==
  ~Marked => \A f \in 1 .. Len(Frames) : Unhurt(f) =>
    IF Through(LastToken(f))
    THEN IsStored(f)
    ELSE f = 1 \/ Through(LastToken(f - 1)) =>
           Holds(frm_buf, {t \in Tokens(f) : Through(t)})

\* While nothing is hurt, the i-th frame stored is the i-th that was sent, and the
\* last one leaves nothing behind.
InTurn ==
  ~Marked /\ hurt = {} =>
    /\ Len(stored) <= Len(Frames)
    /\ \A f \in 1 .. Len(Frames) : Through(LastToken(f)) <=> f <= Len(stored)
    /\ \A i \in 1 .. Len(stored) : stored[i] = Whole(i)
    /\ Len(stored) = Len(Frames) => frm_buf = <<>>

FrameInv == Apart /\ InTurn

\* Only a fault does harm.
Unharmed == faults = 0 => hurt = {}

-----------------------------------------------------------------------------
(* FlattenSeq                                                              *)

\* The step of FlattenSeq, as a function of what was joined so far.
Joins(seqs, g) ==
  g = [i \in 1 .. Len(seqs) |-> IF i = 1 THEN seqs[i] ELSE g[i - 1] \o seqs[i]]

\* The function it computes for n sequences: what the first i of them make.
Flattens(g, seqs, n) ==
  /\ g[1] = seqs[1]
  /\ \A i \in 1 .. n : i # 1 => g[i] = g[i - 1] \o seqs[i]

\* What FlattenSeq computes, whatever function does it.
LEMMA FlattenBy ==
  ASSUME NEW T, NEW seqs \in Seq(Seq(T)), NEW n \in Nat \ {0}, n = Len(seqs),
         NEW g \in [1 .. n -> Seq(T)], Flattens(g, seqs, n)
  PROVE  FlattenSeq(seqs) = g[n]
<1> USE DEF Flattens
<1> DEFINE h == CHOOSE c : Joins(seqs, c)
<1>1. FlattenSeq(seqs) = h[n]
  BY DEF FlattenSeq, Joins
<1>2. Joins(seqs, g)
  <2> DEFINE j == [i \in 1 .. n |-> IF i = 1 THEN seqs[i] ELSE g[i - 1] \o seqs[i]]
  <2>1. g = [i \in 1 .. n |-> g[i]]
    OBVIOUS
  <2>2. \A i \in 1 .. n : g[i] = IF i = 1 THEN seqs[i] ELSE g[i - 1] \o seqs[i]
    OBVIOUS
  <2>3. g = j
    BY <2>1, <2>2
  <2> QED BY <2>3 DEF Joins
<1>3. Joins(seqs, h)
  BY <1>2
<1> HIDE DEF h
<1>4. h[1] = seqs[1] /\ \A i \in 1 .. n : i # 1 => h[i] = h[i - 1] \o seqs[i]
  <2> DEFINE j == [i \in 1 .. n |-> IF i = 1 THEN seqs[i] ELSE h[i - 1] \o seqs[i]]
  <2>1. h = j
    BY <1>3 DEF Joins
  <2>2. \A i \in 1 .. n : j[i] = IF i = 1 THEN seqs[i] ELSE h[i - 1] \o seqs[i]
    OBVIOUS
  <2> HIDE DEF j
  <2>3. 1 \in 1 .. n
    OBVIOUS
  <2>4. j[1] = seqs[1]
    BY <2>2, <2>3
  <2>5. \A i \in 1 .. n : i # 1 => j[i] = h[i - 1] \o seqs[i]
    BY <2>2
  <2> HIDE DEF h
  <2> QED BY <2>1, <2>4, <2>5, Zenon
<1> DEFINE S == {k \in Nat : k \in 1 .. n => g[k] = h[k]}
<1>5. ASSUME NEW k \in S PROVE k + 1 \in S
  <2> SUFFICES ASSUME k + 1 \in 1 .. n PROVE g[k + 1] = h[k + 1]
    OBVIOUS
  <2>1. CASE k = 0
    BY <1>4, <2>1
  <2>2. CASE k # 0
    <3>1. k \in 1 .. n /\ k + 1 # 1 /\ (k + 1) - 1 = k
      BY <2>2
    <3>2. g[k] = h[k]
      BY <3>1
    <3> QED BY <1>4, <3>1, <3>2
  <2> QED BY <2>1, <2>2
<1>6. S = Nat
  <2>1. 0 \in S /\ S \in SUBSET Nat
    OBVIOUS
  <2> HIDE DEF S
  <2> QED BY <1>5, <2>1, SetInduction
<1>7. g[n] = h[n]
  <2>1. n \in S
    BY <1>6
  <2> QED BY <2>1
<1> QED BY <1>1, <1>7

\* There is such a function.
LEMMA FlattenExists ==
  ASSUME NEW T, NEW seqs \in Seq(Seq(T)), NEW n \in Nat \ {0}, n = Len(seqs)
  PROVE  \E g \in [1 .. n -> Seq(T)] : Flattens(g, seqs, n)
<1> DEFINE P(m) == \E g \in [1 .. m -> Seq(T)] :
                     \A i \in 1 .. m : g[i] = IF i = 1 THEN seqs[i] ELSE g[i - 1] \o seqs[i]
           S == {m \in Nat : m \in 1 .. n => P(m)}
<1>1. \A i \in 1 .. n : seqs[i] \in Seq(T)
  BY ElementOfSeq
<1>2. ASSUME NEW m \in S PROVE m + 1 \in S
  <2> SUFFICES ASSUME m + 1 \in 1 .. n PROVE P(m + 1)
    BY SMTT(30)
  <2>1. CASE m = 0
    <3> DEFINE g == [i \in 1 .. 1 |-> seqs[1]]
    <3>1. g \in [1 .. m + 1 -> Seq(T)]
      BY <1>1, <2>1
    <3>2. \A i \in 1 .. m + 1 : g[i] = IF i = 1 THEN seqs[i] ELSE g[i - 1] \o seqs[i]
      BY <2>1
    <3> QED BY <3>1, <3>2
  <2>2. CASE m # 0
    <3>1. m \in 1 .. n
      BY <2>2
    <3>2. PICK g \in [1 .. m -> Seq(T)] :
            \A i \in 1 .. m : g[i] = IF i = 1 THEN seqs[i] ELSE g[i - 1] \o seqs[i]
      BY <3>1
    <3> DEFINE h == [i \in 1 .. m + 1 |-> IF i = m + 1 THEN g[m] \o seqs[m + 1] ELSE g[i]]
    <3>3. g[m] \in Seq(T) /\ seqs[m + 1] \in Seq(T)
      BY <1>1, <2>2
    <3>4. g[m] \o seqs[m + 1] \in Seq(T)
      BY <3>3, ConcatProperties
    <3>5. h \in [1 .. m + 1 -> Seq(T)]
      BY <3>4
    <3>6. ASSUME NEW i \in 1 .. m + 1
          PROVE  h[i] = IF i = 1 THEN seqs[i] ELSE h[i - 1] \o seqs[i]
      <4>1. CASE i = m + 1
        <5>1. i # 1 /\ i - 1 = m /\ m \in 1 .. m + 1 /\ m # m + 1
          BY <2>2, <4>1
        <5>2. h[i] = g[m] \o seqs[m + 1] /\ h[m] = g[m]
          BY <4>1, <5>1
        <5> HIDE DEF h
        <5> QED BY <4>1, <5>1, <5>2
      <4>2. CASE i # m + 1
        <5>1. i \in 1 .. m /\ h[i] = g[i]
          BY <4>2
        <5>2. i # 1 => i - 1 \in 1 .. m + 1 /\ i - 1 # m + 1 /\ h[i - 1] = g[i - 1]
          BY <5>1
        <5> HIDE DEF h
        <5> QED BY <3>2, <5>1, <5>2
      <4> QED BY <4>1, <4>2
    <3> HIDE DEF h
    <3> QED BY <3>5, <3>6
  <2> QED BY <2>1, <2>2
<1>3. S = Nat
  <2>1. 0 \in S /\ S \in SUBSET Nat
    OBVIOUS
  <2> HIDE DEF S
  <2> QED BY <1>2, <2>1, SetInduction
<1>4. P(n)
  <2> HIDE DEF P
  <2> QED BY <1>3
<1>5. PICK g \in [1 .. n -> Seq(T)] :
        \A i \in 1 .. n : g[i] = IF i = 1 THEN seqs[i] ELSE g[i - 1] \o seqs[i]
  BY <1>4
<1>6. 1 \in 1 .. n
  OBVIOUS
<1>7. g[1] = seqs[1]
  BY <1>5, <1>6
<1>8. \A i \in 1 .. n : i # 1 => g[i] = g[i - 1] \o seqs[i]
  BY <1>5
<1> QED BY <1>7, <1>8 DEF Flattens

\* One more sequence is appended to what the others make.
LEMMA FlattenAppend ==
  ASSUME NEW T, NEW seqs \in Seq(Seq(T)), NEW s \in Seq(T)
  PROVE  /\ FlattenSeq(seqs) \in Seq(T)
         /\ FlattenSeq(Append(seqs, s)) = FlattenSeq(seqs) \o s
<1> DEFINE n == Len(seqs)
           more == Append(seqs, s)
<1>1. /\ n \in Nat /\ more \in Seq(Seq(T)) /\ Len(more) = n + 1 /\ more[n + 1] = s
      /\ \A i \in 1 .. n : more[i] = seqs[i]
  BY AppendProperties, LenProperties
<1>2. CASE n = 0
  <2>1. seqs = <<>>
    BY <1>2, EmptySeq
  <2>2. FlattenSeq(seqs) = <<>>
    BY <2>1 DEF FlattenSeq
  <2>3. FlattenSeq(more) = s
    <3> DEFINE g == [i \in 1 .. 1 |-> s]
    <3>1. g \in [1 .. 1 -> Seq(T)] /\ g[1] = more[1] /\ g[1] = s
      BY <1>1, <1>2
    <3> HIDE DEF g, more
    <3>2. 1 = Len(more) /\ 1 \in Nat \ {0}
      BY <1>1, <1>2
    <3>3. \A i \in 1 .. 1 : i # 1 => g[i] = g[i - 1] \o more[i]
      OBVIOUS
    <3>4. FlattenSeq(more) = g[1]
      <4> DEFINE k == 1
      <4>1. /\ k \in Nat \ {0} /\ k = Len(more) /\ g \in [1 .. k -> Seq(T)]
            /\ more \in Seq(Seq(T)) /\ Flattens(g, more, k)
        BY <1>1, <3>1, <3>2, <3>3 DEF Flattens
      <4> HIDE DEF k
      <4>2. FlattenSeq(more) = g[k]
        BY <4>1, FlattenBy
      <4> QED BY <4>2 DEF k
    <3> QED BY <3>1, <3>4
  <2>4. <<>> \o s = s
    BY ConcatEmptySeq
  <2>5. <<>> \in Seq(T)
    OBVIOUS
  <2> QED BY <2>2, <2>3, <2>4, <2>5
<1>3. CASE n # 0
  <2>1. PICK g \in [1 .. n -> Seq(T)] : Flattens(g, seqs, n)
    <3> HIDE DEF n
    <3>1. n \in Nat \ {0} /\ n = Len(seqs)
      BY <1>1, <1>3 DEF n
    <3> QED BY <3>1, FlattenExists
  <2>2. FlattenSeq(seqs) = g[n]
    <3> HIDE DEF n
    <3> QED BY <1>1, <1>3, <2>1, FlattenBy DEF n
  <2> DEFINE h == [i \in 1 .. n + 1 |-> IF i = n + 1 THEN g[n] \o s ELSE g[i]]
  <2>3. h \in [1 .. n + 1 -> Seq(T)] /\ h[n + 1] = g[n] \o s /\ \A i \in 1 .. n : h[i] = g[i]
    <3>0. n \in 1 .. n /\ \A i \in 1 .. n + 1 : i # n + 1 => i \in 1 .. n
      BY <1>1, <1>3
    <3>1. g[n] \o s \in Seq(T)
      <4>1. g[n] \in Seq(T)
        BY <3>0
      <4> QED BY <4>1, ConcatProperties
    <3>2. \A i \in 1 .. n + 1 : i # n + 1 => g[i] \in Seq(T)
      BY <3>0
    <3>3. \A i \in 1 .. n : i # n + 1 /\ i \in 1 .. n + 1
      BY <1>1
    <3> HIDE DEF n
    <3> QED BY <1>1, <3>1, <3>2, <3>3
  <2> HIDE DEF h, more, n
  <2>4. h[1] = more[1]
    BY <1>1, <1>3, <2>1, <2>3 DEF Flattens
  <2>5. ASSUME NEW i \in 1 .. n + 1, i # 1 PROVE h[i] = h[i - 1] \o more[i]
    <3>1. CASE i = n + 1
      <4>1. i - 1 = n /\ n \in 1 .. n
        BY <1>1, <1>3, <3>1
      <4> QED BY <1>1, <2>3, <3>1, <4>1
    <3>2. CASE i # n + 1
      <4>1. i \in 1 .. n /\ i - 1 \in 1 .. n
        BY <1>1, <2>5, <3>2
      <4> QED BY <1>1, <2>1, <2>3, <2>5, <4>1 DEF Flattens
    <3> QED BY <3>1, <3>2
  <2>6. FlattenSeq(more) = h[n + 1]
    <3>1. n + 1 \in Nat \ {0} /\ n + 1 = Len(more)
      BY <1>1
    <3> QED BY <1>1, <2>3, <2>4, <2>5, <3>1, FlattenBy, ZenonT(40) DEF Flattens
  <2>7. g[n] \in Seq(T)
    BY <1>1, <1>3
  <2> QED BY <2>2, <2>3, <2>6, <2>7 DEF more
<1> QED BY <1>2, <1>3

-----------------------------------------------------------------------------
(* The packets of the video                                                *)

\* The frames, their NALUs and the parts of these.
LEMMA FrameFacts ==
  /\ Len(Frames) \in Nat
  /\ \A f \in 1 .. Len(Frames) :
       /\ Len(Frames[f]) \in Nat \ {0}
       /\ \A n \in 1 .. Len(Frames[f]) :
            /\ Frames[f][n].type \in Single
            /\ Parts(f, n) \in Nat \ {0}
<1> DEFINE Nalus == [type : Single, parts : Nat \ {0}]
           Pictures == Seq(Nalus) \ {<<>>}
<1>1. Frames \in Seq(Pictures)
  BY FramesAssumption
<1> HIDE DEF Pictures
<1>2. Len(Frames) \in Nat /\ \A f \in 1 .. Len(Frames) : Frames[f] \in Pictures
  BY <1>1, LenProperties, ElementOfSeq
<1> USE DEF Pictures
<1> HIDE DEF Nalus
<1>3. ASSUME NEW f \in 1 .. Len(Frames)
      PROVE  /\ Len(Frames[f]) \in Nat \ {0}
             /\ \A n \in 1 .. Len(Frames[f]) : Frames[f][n] \in Nalus
  <2>1. Frames[f] \in Seq(Nalus) /\ Frames[f] # <<>>
    BY <1>2, <1>3
  <2>2. Len(Frames[f]) \in Nat /\ Len(Frames[f]) # 0
    BY <2>1, EmptySeq, LenProperties
  <2> QED BY <2>1, <2>2, ElementOfSeq
<1> QED
  BY <1>2, <1>3 DEF Parts, Nalus

\* They are sequences.
LEMMA FrameDomains ==
  /\ DOMAIN Frames = 1 .. Len(Frames)
  /\ \A f \in 1 .. Len(Frames) : DOMAIN Frames[f] = 1 .. Len(Frames[f])
<1> DEFINE Nalus == [type : Single, parts : Nat \ {0}]
           Pictures == Seq(Nalus) \ {<<>>}
<1>1. Frames \in Seq(Pictures)
  BY FramesAssumption
<1>2. \A s \in Pictures : DOMAIN s = 1 .. Len(s)
  OBVIOUS
<1> HIDE DEF Pictures
<1> QED BY <1>1, <1>2, LenProperties, ElementOfSeq

\* A token of the video says where it stands.
LEMMA TokenFacts ==
  /\ \A f \in 1 .. Len(Frames) : \A t : t \in Tokens(f) <=>
       \E n \in 1 .. Len(Frames[f]) : \E k \in 1 .. Parts(f, n) : t = <<f, n, k>>
  /\ \A t : t \in Video <=> \E f \in 1 .. Len(Frames) : t \in Tokens(f)
<1>1. ASSUME NEW f \in 1 .. Len(Frames), NEW t
      PROVE  t \in Tokens(f) <=>
               \E n \in 1 .. Len(Frames[f]) : \E k \in 1 .. Parts(f, n) : t = <<f, n, k>>
  BY DEF Tokens
<1> QED
  BY <1>1 DEF Video

\* The numbers of a token are those of a part of a NALU of a frame.
LEMMA VideoFacts ==
  ASSUME NEW t \in Video
  PROVE  /\ t = <<t[1], t[2], t[3]>>
         /\ t[1] \in 1 .. Len(Frames) /\ t[2] \in 1 .. Len(Frames[t[1]])
         /\ t[3] \in 1 .. Parts(t[1], t[2])
         /\ t \in Tokens(t[1]) /\ \A f \in 1 .. Len(Frames) : t \in Tokens(f) => f = t[1]
<1>1. PICK f \in 1 .. Len(Frames) : t \in Tokens(f)
  BY TokenFacts
<1>2. PICK n \in 1 .. Len(Frames[f]) : \E k \in 1 .. Parts(f, n) : t = <<f, n, k>>
  BY <1>1, TokenFacts
<1>3. ASSUME NEW g \in 1 .. Len(Frames), t \in Tokens(g) PROVE g = t[1]
  BY <1>3, TokenFacts
<1> QED
  BY <1>1, <1>2, <1>3

\* The three numbers of a token, for the arithmetic of Before.
LEMMA TokenNumbers ==
  ASSUME NEW t \in Video \cup {Finish}
  PROVE  t[1] \in Nat /\ t[2] \in Nat /\ t[3] \in Nat
<1>1. CASE t = Finish
  BY <1>1, FrameFacts DEF Finish
<1>2. CASE t \in Video
  <2>1. /\ t[1] \in 1 .. Len(Frames) /\ t[2] \in 1 .. Len(Frames[t[1]])
        /\ t[3] \in 1 .. Parts(t[1], t[2])
    BY <1>2, VideoFacts
  <2>2. Len(Frames) \in Nat /\ Len(Frames[t[1]]) \in Nat
    BY <2>1, FrameFacts
  <2>3. Parts(t[1], t[2]) \in Nat
    BY <2>1, FrameFacts
  <2> QED BY <2>1, <2>2, <2>3
<1> QED BY <1>1, <1>2

\* The server's order is a linear one.
LEMMA BeforeFacts ==
  /\ \A t \in Video \cup {Finish} : ~Before(t, t)
  /\ \A t, u \in Video \cup {Finish} : ~(Before(t, u) /\ Before(u, t))
  /\ \A t, u, v \in Video \cup {Finish} : Before(t, u) /\ Before(u, v) => Before(t, v)
  /\ \A t \in Video, u \in Video \cup {Finish} : t = u \/ Before(t, u) \/ Before(u, t)
<1>1. \A t \in Video \cup {Finish} : t[1] \in Nat /\ t[2] \in Nat /\ t[3] \in Nat
  BY TokenNumbers
<1>2. \A t, u \in Video : t[1] = u[1] /\ t[2] = u[2] /\ t[3] = u[3] => t = u
  BY VideoFacts
<1>3. \A t \in Video \cup {Finish} : ~Before(t, t)
  BY <1>1 DEF Before
<1>4. \A t, u \in Video \cup {Finish} : ~(Before(t, u) /\ Before(u, t))
  BY <1>1 DEF Before
<1>5. \A t, u, v \in Video \cup {Finish} : Before(t, u) /\ Before(u, v) => Before(t, v)
  BY <1>1 DEF Before
<1>6. \A t, u \in Video : t = u \/ Before(t, u) \/ Before(u, t)
  BY <1>1, <1>2 DEF Before
<1>7. \A t \in Video : Before(t, Finish)
  <2>1. \A t \in Video : t[1] \in 1 .. Len(Frames)
    BY VideoFacts
  <2>2. Finish[1] = Len(Frames) + 1 /\ Len(Frames) \in Nat
    BY FrameFacts DEF Finish
  <2> QED BY <2>1, <2>2 DEF Before
<1> QED BY <1>3, <1>4, <1>5, <1>6, <1>7

\* The last packet of a frame carries the marker, and comes after all others.
LEMMA LastFacts ==
  ASSUME NEW f \in 1 .. Len(Frames)
  PROVE  /\ LastToken(f) \in Tokens(f) /\ LastToken(f) \in Video
         /\ LastToken(f)[1] = f
         /\ \A t \in Tokens(f) : /\ t \in Video /\ t[1] = f
                                 /\ IsLast(t) <=> t = LastToken(f)
                                 /\ t = LastToken(f) \/ Before(t, LastToken(f))
<1> DEFINE n == Len(Frames[f])
           k == Parts(f, n)
<1>1. n \in Nat \ {0} /\ k \in Nat \ {0} /\ n \in 1 .. n /\ k \in 1 .. k
  <2>1. n \in Nat \ {0}
    BY FrameFacts
  <2>2. n \in 1 .. n
    BY <2>1
  <2>3. k \in Nat \ {0}
    BY <2>2, FrameFacts
  <2> QED BY <2>1, <2>2, <2>3
<1>2. LastToken(f) = <<f, n, k>>
  BY DEF LastToken
<1>3. LastToken(f) \in Tokens(f)
  BY <1>1, <1>2, TokenFacts
<1>4. ASSUME NEW t \in Tokens(f)
      PROVE  /\ t \in Video /\ t[1] = f
             /\ IsLast(t) <=> t = LastToken(f)
             /\ t = LastToken(f) \/ Before(t, LastToken(f))
  <2>1. t \in Video
    BY <1>4, TokenFacts
  <2>a. PICK m \in 1 .. n : \E j \in 1 .. Parts(f, m) : t = <<f, m, j>>
    BY <1>4, TokenFacts
  <2>2. PICK j \in 1 .. Parts(f, m) : t = <<f, m, j>>
    BY <2>a
  <2>3. m \in Nat /\ m <= n /\ j \in Nat /\ (m = n => j <= k)
    <3>1. m \in Nat /\ m <= n
      BY <1>1
    <3>2. Parts(f, m) \in Nat \ {0}
      BY FrameFacts
    <3> HIDE DEF n
    <3>3. j \in Nat /\ j <= Parts(f, m)
      BY <3>2
    <3> QED BY <3>1, <3>3
  <2>4. IsLast(t) <=> m = n /\ j = Parts(f, m)
    BY <2>2 DEF IsLast
  <2>5. IsLast(t) <=> t = LastToken(f)
    BY <1>2, <2>2, <2>4
  <2>6. t = LastToken(f) \/ Before(t, LastToken(f))
    BY <1>1, <1>2, <2>2, <2>3 DEF Before
  <2> QED BY <2>1, <2>2, <2>5, <2>6
<1> QED
  BY <1>2, <1>3, <1>4

\* A frame begins with a packet of the video.
LEMMA StartsFrame ==
  /\ \A f \in 1 .. Len(Frames) : <<f, 1, 1>> \in Video
  /\ \A f \in 0 .. Len(Frames) : <<f + 1, 1, 1>> \in Video \cup {Finish}
<1>1. ASSUME NEW f \in 1 .. Len(Frames) PROVE <<f, 1, 1>> \in Video
  <2>1. 1 \in 1 .. Len(Frames[f])
    BY FrameFacts
  <2>2. 1 \in 1 .. Parts(f, 1)
    BY <2>1, FrameFacts
  <2> QED BY <2>1, <2>2, TokenFacts
<1>2. ASSUME NEW f \in 0 .. Len(Frames) PROVE <<f + 1, 1, 1>> \in Video \cup {Finish}
  <2>1. PICK L \in Nat : L = Len(Frames)
    BY FrameFacts, FrameDomains
  <2>2. f + 1 \in 1 .. L \/ f = L
    BY <2>1
  <2> QED BY <1>1, <2>1, <2>2 DEF Finish
<1> QED BY <1>1, <1>2

\* The packet that follows is the next one of the video.
LEMMA FollowingFacts ==
  ASSUME NEW t \in Video
  PROVE  /\ Following(t) \in Video \cup {Finish}
         /\ \A u \in Video : Before(u, Following(t)) <=> u = t \/ Before(u, t)
<1> DEFINE f == t[1]
           n == t[2]
           k == t[3]
<1>1. /\ f \in 1 .. Len(Frames) /\ n \in 1 .. Len(Frames[f]) /\ k \in 1 .. Parts(f, n)
      /\ t = <<f, n, k>>
  BY VideoFacts
<1>2. /\ Len(Frames) \in Nat /\ Len(Frames[f]) \in Nat /\ Parts(f, n) \in Nat
  BY <1>1, FrameFacts
<1>3. \A u \in Video : /\ u[1] \in Nat \ {0} /\ u[2] \in Nat \ {0} /\ u[3] \in Nat \ {0}
                       /\ u[1] = f => u[2] <= Len(Frames[f])
                       /\ u[1] = f /\ u[2] = n => u[3] <= Parts(f, n)
                       /\ u[1] = f /\ u[2] = n /\ u[3] = k => u = t
  <2> SUFFICES ASSUME NEW u \in Video
               PROVE  /\ u[1] \in Nat \ {0} /\ u[2] \in Nat \ {0} /\ u[3] \in Nat \ {0}
                      /\ u[1] = f => u[2] <= Len(Frames[f])
                      /\ u[1] = f /\ u[2] = n => u[3] <= Parts(f, n)
                      /\ u[1] = f /\ u[2] = n /\ u[3] = k => u = t
    OBVIOUS
  <2>1. /\ u = <<u[1], u[2], u[3]>> /\ u[1] \in 1 .. Len(Frames)
        /\ u[2] \in 1 .. Len(Frames[u[1]]) /\ u[3] \in 1 .. Parts(u[1], u[2])
    BY VideoFacts
  <2>2. u[1] \in Nat /\ u[2] \in Nat /\ u[3] \in Nat
    BY TokenNumbers
  <2>3. Len(Frames) \in Nat /\ Len(Frames[u[1]]) \in Nat /\ Parts(u[1], u[2]) \in Nat
    BY <2>1, FrameFacts
  <2>4. u[1] = f /\ u[2] = n /\ u[3] = k => u = t
    BY <1>1, <2>1
  <2> QED BY <2>1, <2>2, <2>3, <2>4
<1>4. \A g \in 1 .. Len(Frames), m \in Nat, j \in Nat :
        m \in 1 .. Len(Frames[g]) /\ j \in 1 .. Parts(g, m) => <<g, m, j>> \in Video
  BY TokenFacts
<1>5. f \in Nat /\ n \in Nat /\ k \in Nat
  BY <1>1, <1>2
<1>6. CASE k < Parts(f, n)
  <2>1. Following(t) = <<f, n, k + 1>>
    BY <1>6 DEF Following
  <2>2. <<f, n, k + 1>> \in Video
    BY <1>1, <1>2, <1>4, <1>5, <1>6
  <2> HIDE DEF f, n, k
  <2>3. \A u \in Video : Before(u, <<f, n, k + 1>>) <=> u = t \/ Before(u, t)
    BY <1>1, <1>3, <1>5 DEF Before
  <2> QED BY <2>1, <2>2, <2>3
<1>7. CASE ~(k < Parts(f, n)) /\ n < Len(Frames[f])
  <2>1. Following(t) = <<f, n + 1, 1>>
    BY <1>7 DEF Following
  <2>2. n + 1 \in 1 .. Len(Frames[f])
    BY <1>1, <1>2, <1>5, <1>7
  <2>3. Parts(f, n + 1) \in Nat \ {0}
    BY <1>1, <2>2, FrameFacts
  <2>4. 1 \in 1 .. Parts(f, n + 1) /\ n + 1 \in Nat
    BY <2>3, <1>5
  <2>5. <<f, n + 1, 1>> \in Video
    BY <1>1, <1>4, <2>2, <2>4
  <2>6. k = Parts(f, n)
    BY <1>1, <1>2, <1>5, <1>7
  <2> HIDE DEF f, n, k
  <2>7. \A u \in Video : Before(u, <<f, n + 1, 1>>) <=> u = t \/ Before(u, t)
    BY <1>1, <1>2, <1>3, <1>5, <2>6 DEF Before
  <2> QED BY <2>1, <2>5, <2>7
<1>8. CASE ~(k < Parts(f, n)) /\ ~(n < Len(Frames[f]))
  <2>1. Following(t) = <<f + 1, 1, 1>>
    BY <1>8 DEF Following
  <2>2. k = Parts(f, n) /\ n = Len(Frames[f])
    BY <1>1, <1>2, <1>5, <1>8, FrameDomains
  <2>3. <<f + 1, 1, 1>> \in Video \cup {Finish}
    BY <1>1, StartsFrame DEF Finish
  <2> HIDE DEF f, n, k
  <2>4. \A u \in Video : Before(u, <<f + 1, 1, 1>>) <=> u = t \/ Before(u, t)
    BY <1>1, <1>2, <1>3, <1>5, <2>2, SMTT(30) DEF Before
  <2> QED BY <2>1, <2>3, <2>4
<1> QED BY <1>6, <1>7, <1>8

-----------------------------------------------------------------------------
(* The packets under way and the buffer                                    *)

\* What carries a token of the video is its packet; the others carry none and,
\* as the code is used, no marker.
LEMMA PacketFacts ==
  /\ \A t \in Video : VideoPacket(t) \in Packets /\ VideoPacket(t).data = t
  /\ \A t \in Video : t \notin Others
  /\ \A p \in Packets :
       /\ p.data \in Video \cup Others
       /\ p.data \in Video => p = VideoPacket(p.data)
       /\ p.data \notin Video => p.media \in {"audio", "other"} /\ p.m \in {FALSE, Marked}
<1>1. ASSUME NEW t \in Video PROVE VideoPacket(t) \in Packets /\ VideoPacket(t).data = t
  <2>1. VideoPacket(t) \in {VideoPacket(u) : u \in Video}
    OBVIOUS
  <2>3. VideoPacket(t) \in Packets
    BY <2>1 DEF Packets
  <2>2. VideoPacket(t).data = t
    BY DEF VideoPacket
  <2> QED BY <2>2, <2>3
<1>2. ASSUME NEW t \in Video PROVE t \notin Others
  <2>1. t[1] \in 1 .. Len(Frames)
    BY VideoFacts
  <2>2. t[1] # 0
    BY <2>1, FrameFacts
  <2> QED BY <2>2 DEF Others
<1>3. ASSUME NEW p \in Packets
      PROVE  /\ p.data \in Video \cup Others
             /\ p.data \in Video => p = VideoPacket(p.data)
             /\ p.data \notin Video => p.media \in {"audio", "other"} /\ p.m \in {FALSE, Marked}
  <2>1. CASE \E t \in Video : p = VideoPacket(t)
    BY <1>1, <2>1
  <2>2. CASE p \in ExtraPackets
    <3>1. p.media \in Extras /\ p.m \in {FALSE, Marked} /\ p.data \in Others
      BY <2>2 DEF ExtraPackets
    <3>2. p.data \notin Video
      BY <1>2, <3>1
    <3>3. p.media \in {"audio", "other"}
      BY <3>1, BoundsAssumption
    <3> QED BY <3>1, <3>2, <3>3
  <2> QED BY <2>1, <2>2 DEF Packets
<1> QED BY <1>1, <1>2, <1>3

\* What handle_rtp_pkt() reads of a packet of the video.
LEMMA VideoPacketFacts ==
  ASSUME NEW t \in Video
  PROVE  /\ VideoPacket(t).media = "video" /\ VideoPacket(t).data = t
         /\ VideoPacket(t).m = IsLast(t) /\ VideoPacket(t).inner \in Single
<1>1. t[1] \in 1 .. Len(Frames) /\ t[2] \in 1 .. Len(Frames[t[1]])
  BY VideoFacts
<1>2. Frames[t[1]][t[2]].type \in Single
  BY <1>1, FrameFacts
<1> QED BY <1>2 DEF VideoPacket

\* What a packet of the video adds to the buffer.
LEMMA AppendedFacts ==
  ASSUME NEW t \in Video
  PROVE  Appended(VideoPacket(t)) \in Seq(Content)
<1> DEFINE p == VideoPacket(t)
           head == <<p.inner, "header">>
<1>1. p.media = "video" /\ p.data = t /\ p.inner \in Single
  BY VideoPacketFacts
<1>2. StartCode \in Content /\ head \in Content /\ t \in Content
  BY <1>1 DEF Content
<1> HIDE DEF p
<1> QED BY <1>1, <1>2 DEF Appended, Fragment, p

-----------------------------------------------------------------------------
(* A frame, up to one of its packets                                       *)

\* The pieces of a NALU.
LEMMA PiecesFacts ==
  ASSUME NEW f \in 1 .. Len(Frames), NEW n \in 1 .. Len(Frames[f]),
         NEW k \in 0 .. Parts(f, n)
  PROVE  /\ Pieces(f, n, k) \in Seq(Content) /\ Len(Pieces(f, n, k)) = k
         /\ k # 0 => Pieces(f, n, k) = Append(Pieces(f, n, k - 1), <<f, n, k>>)
<1>1. Parts(f, n) \in Nat
  BY FrameFacts
<1>2. k \in Nat
  BY <1>1
<1>3. \A j \in 1 .. k : <<f, n, j>> \in Content
  <2> SUFFICES ASSUME NEW j \in 1 .. k PROVE <<f, n, j>> \in Content
    OBVIOUS
  <2>1. j \in 1 .. Parts(f, n)
    BY <1>1, <1>2
  <2>2. <<f, n, j>> \in Video
    BY <2>1, TokenFacts
  <2> QED BY <2>2 DEF Content
<1>4. Pieces(f, n, k) \in Seq(Content) /\ Len(Pieces(f, n, k)) = k
  BY <1>2, <1>3 DEF Pieces
<1>5. ASSUME k # 0 PROVE Pieces(f, n, k) = Append(Pieces(f, n, k - 1), <<f, n, k>>)
  BY <1>2, <1>5 DEF Pieces
<1> QED BY <1>4, <1>5

\* What comes before them.
LEMMA OpenedFacts ==
  ASSUME NEW f \in 1 .. Len(Frames), NEW n \in 1 .. Len(Frames[f])
  PROVE  Opened(f, n) \in Seq(Content)
<1>1. StartCode \in Content /\ <<Frames[f][n].type, "header">> \in Content
  BY FrameFacts DEF Content
<1> DEFINE header == IF Parts(f, n) = 1 THEN <<>> ELSE << <<Frames[f][n].type, "header">> >>
<1>2. header \in Seq(Content) /\ <<StartCode>> \in Seq(Content)
  BY <1>1
<1> HIDE DEF header
<1>3. <<StartCode>> \o header \in Seq(Content)
  BY <1>2, ConcatProperties
<1> QED BY <1>3 DEF Opened, header

\* A NALU is its pieces behind that.
LEMMA NaluFacts ==
  ASSUME NEW f \in 1 .. Len(Frames), NEW n \in 1 .. Len(Frames[f])
  PROVE  /\ NaluBytes(f, n) = Opened(f, n) \o Pieces(f, n, Parts(f, n))
         /\ NaluBytes(f, n) \in Seq(Content)
<1>1. Parts(f, n) \in 0 .. Parts(f, n)
  <2>1. Parts(f, n) \in Nat
    BY FrameFacts
  <2> QED BY <2>1
<1>2. Opened(f, n) \in Seq(Content) /\ Pieces(f, n, Parts(f, n)) \in Seq(Content)
  BY <1>1, OpenedFacts, PiecesFacts
<1>3. NaluBytes(f, n) = Opened(f, n) \o Pieces(f, n, Parts(f, n))
  BY DEF NaluBytes, Opened, Pieces
<1> QED BY <1>2, <1>3, ConcatProperties

\* The first NALUs of a frame, joined one by one.
LEMMA LeadingFacts ==
  ASSUME NEW f \in 1 .. Len(Frames), NEW n \in 0 .. Len(Frames[f])
  PROVE  /\ Leading(f, n) \in Seq(Seq(Content)) /\ Len(Leading(f, n)) = n
         /\ FlattenSeq(Leading(f, n)) \in Seq(Content)
         /\ n = 0 => FlattenSeq(Leading(f, n)) = <<>>
         /\ n # 0 => FlattenSeq(Leading(f, n)) = FlattenSeq(Leading(f, n - 1)) \o NaluBytes(f, n)
<1>1. Len(Frames[f]) \in Nat /\ n \in Nat
  BY FrameFacts
<1>2. ASSUME NEW m \in 0 .. Len(Frames[f])
      PROVE  Leading(f, m) \in Seq(Seq(Content)) /\ Len(Leading(f, m)) = m
  <2>1. m \in Nat /\ \A i \in 1 .. m : i \in 1 .. Len(Frames[f])
    BY <1>1
  <2>2. \A i \in 1 .. m : NaluBytes(f, i) \in Seq(Content)
    BY <2>1, NaluFacts
  <2> QED BY <2>1, <2>2 DEF Leading
<1>3. <<>> \in Seq(Content)
  OBVIOUS
<1>4. FlattenSeq(Leading(f, n)) \in Seq(Content)
  BY <1>2, <1>3, FlattenAppend
<1>5. ASSUME n = 0 PROVE FlattenSeq(Leading(f, n)) = <<>>
  <2>1. Leading(f, n) = <<>>
    BY <1>5 DEF Leading
  <2> QED BY <2>1 DEF FlattenSeq
<1>6. ASSUME n # 0
      PROVE  FlattenSeq(Leading(f, n)) = FlattenSeq(Leading(f, n - 1)) \o NaluBytes(f, n)
  <2>1. n - 1 \in 0 .. Len(Frames[f]) /\ n \in 1 .. Len(Frames[f])
    BY <1>1, <1>6
  <2>2. Leading(f, n) = Append(Leading(f, n - 1), NaluBytes(f, n))
    BY <1>1, <1>6 DEF Leading
  <2>3. Leading(f, n - 1) \in Seq(Seq(Content)) /\ NaluBytes(f, n) \in Seq(Content)
    BY <1>2, <2>1, NaluFacts
  <2> QED BY <2>2, <2>3, FlattenAppend
<1> QED BY <1>2, <1>4, <1>5, <1>6

\* Short sequences, joined.
LEMMA Joined ==
  ASSUME NEW a, NEW b, NEW c
  PROVE  <<a>> \o <<b>> = <<a, b>> /\ <<a, b>> \o <<c>> = <<a, b, c>>
<1> DEFINE T == {a, b, c}
<1>1. \A s, u \in Seq(T) :
        /\ s \o u \in Seq(T) /\ Len(s \o u) = Len(s) + Len(u)
        /\ \A i \in 1 .. Len(s) + Len(u) : (s \o u)[i] = IF i <= Len(s) THEN s[i] ELSE u[i - Len(s)]
  BY ConcatProperties
<1>2. <<a>> \in Seq(T) /\ <<b>> \in Seq(T) /\ <<a, b>> \in Seq(T) /\ <<c>> \in Seq(T)
      /\ <<a, b, c>> \in Seq(T)
  OBVIOUS
<1> HIDE DEF T
<1>3. <<a>> \o <<b>> = <<a, b>>
  <2> DEFINE s == <<a>> \o <<b>>
  <2>1. s \in Seq(T) /\ Len(s) = 2 /\ s[1] = a /\ s[2] = b
    BY <1>1, <1>2
  <2> HIDE DEF s
  <2>2. s = <<a, b>>
    BY <1>2, <2>1, SeqEqual
  <2> QED BY <2>2 DEF s
<1>4. <<a, b>> \o <<c>> = <<a, b, c>>
  <2> DEFINE s == <<a, b>> \o <<c>>
  <2>1. s \in Seq(T) /\ Len(s) = 3 /\ s[1] = a /\ s[2] = b /\ s[3] = c
    BY <1>1, <1>2
  <2> HIDE DEF s
  <2>2. s = <<a, b, c>>
    BY <1>2, <2>1, SeqEqual
  <2> QED BY <2>2 DEF s
<1> QED BY <1>3, <1>4

\* What the packet of a token adds to what came before it.
LEMMA AppendedPart ==
  ASSUME NEW f \in 1 .. Len(Frames), NEW n \in 1 .. Len(Frames[f]),
         NEW k \in 1 .. Parts(f, n)
  PROVE  Appended(VideoPacket(<<f, n, k>>)) =
           IF k = 1 THEN Opened(f, n) \o Pieces(f, n, 1) ELSE << <<f, n, k>> >>
<1> DEFINE t == <<f, n, k>>
           p == VideoPacket(t)
           nalu == Frames[f][n]
<1>1. /\ nalu.type \in Single /\ Parts(f, n) \in Nat \ {0} /\ nalu.parts = Parts(f, n)
      /\ k \in Nat /\ k <= Parts(f, n) /\ k >= 1
  BY FrameFacts DEF Parts
<1>2. /\ p.media = "video" /\ p.inner = nalu.type /\ p.start = (k = 1) /\ p.data = t
      /\ p.pt = IF Parts(f, n) = 1 THEN nalu.type ELSE NALU_PT_FU_A
  BY <1>1 DEF VideoPacket
<1>3. NALU_PT_FU_A \notin Single
  BY DEF NALU_PT_FU_A, Single
<1> HIDE DEF p
<1>4. CASE Parts(f, n) = 1
  <2>1. k = 1 /\ Appended(p) = <<StartCode, t>>
    BY <1>1, <1>2, <1>4 DEF Appended
  <2>2. Opened(f, n) = <<StartCode>> \o <<>> /\ Pieces(f, n, 1) = <<t>>
    BY <1>4, <2>1 DEF Opened, Pieces
  <2>3. <<StartCode>> \o <<>> = <<StartCode>>
    OBVIOUS
  <2>4. <<StartCode>> \o <<t>> = <<StartCode, t>>
    BY Joined
  <2> QED BY <2>1, <2>2, <2>3, <2>4 DEF p
<1>5. CASE Parts(f, n) # 1 /\ k = 1
  <2>1. Appended(p) = <<StartCode, <<nalu.type, "header">>, t>>
    BY <1>2, <1>3, <1>5 DEF Appended, Fragment
  <2>2. Opened(f, n) = <<StartCode>> \o << <<nalu.type, "header">> >> /\ Pieces(f, n, 1) = <<t>>
    BY <1>5 DEF Opened, Pieces
  <2>3. <<StartCode>> \o << <<nalu.type, "header">> >> = <<StartCode, <<nalu.type, "header">> >>
    BY Joined
  <2>4. <<StartCode, <<nalu.type, "header">> >> \o <<t>> = <<StartCode, <<nalu.type, "header">>, t>>
    BY Joined
  <2> QED BY <1>5, <2>1, <2>2, <2>3, <2>4 DEF p
<1>6. CASE Parts(f, n) # 1 /\ k # 1
  BY <1>2, <1>3, <1>6 DEF Appended, Fragment, p
<1> QED BY <1>4, <1>5, <1>6

\* It does not matter which parts of the buffer are joined first.
LEMMA ContentJoins ==
  \A x, y, z \in Seq(Content) : x \o (y \o z) = (x \o y) \o z
<1> SUFFICES ASSUME NEW x \in Seq(Content), NEW y \in Seq(Content), NEW z \in Seq(Content)
             PROVE  x \o (y \o z) = (x \o y) \o z
  OBVIOUS
<1>1. (x \o y) \o z = x \o (y \o z)
  BY ConcatAssociative
<1> QED BY <1>1

\* A frame begins with its first packet and grows packet by packet.
LEMMA UpToFacts ==
  ASSUME NEW f \in 1 .. Len(Frames), NEW n \in 1 .. Len(Frames[f]),
         NEW k \in 1 .. Parts(f, n)
  PROVE  /\ UpTo(<<f, n, k>>) \in Seq(Content)
         /\ n = 1 /\ k = 1 => UpTo(<<f, n, k>>) = Appended(VideoPacket(<<f, n, k>>))
         /\ k # 1 => UpTo(<<f, n, k>>) =
                       UpTo(<<f, n, k - 1>>) \o Appended(VideoPacket(<<f, n, k>>))
         /\ k = 1 => UpTo(<<f, n, k>>) =
                       FlattenSeq(Leading(f, n - 1)) \o Appended(VideoPacket(<<f, n, k>>))
         /\ k = Parts(f, n) => UpTo(<<f, n, k>>) = FlattenSeq(Leading(f, n))
<1> DEFINE front == FlattenSeq(Leading(f, n - 1))
           open == Opened(f, n)
           a == Appended(VideoPacket(<<f, n, k>>))
<1>1. /\ Parts(f, n) \in Nat /\ k \in Nat /\ Len(Frames[f]) \in Nat /\ n \in Nat /\ n >= 1
  BY FrameFacts
<1>2. n - 1 \in 0 .. Len(Frames[f]) /\ k \in 0 .. Parts(f, n) /\ k - 1 \in 0 .. Parts(f, n)
      /\ 1 \in 0 .. Parts(f, n) /\ k # 0 /\ n # 0 /\ n \in 0 .. Len(Frames[f])
  BY <1>1
<1>3. /\ front \in Seq(Content) /\ open \in Seq(Content)
      /\ Pieces(f, n, k) \in Seq(Content) /\ Pieces(f, n, k - 1) \in Seq(Content)
      /\ Pieces(f, n, 1) \in Seq(Content)
  BY <1>2, LeadingFacts, OpenedFacts, PiecesFacts
<1>4. UpTo(<<f, n, k>>) = front \o (open \o Pieces(f, n, k))
  BY DEF UpTo
<1>5. UpTo(<<f, n, k - 1>>) = front \o (open \o Pieces(f, n, k - 1))
  BY DEF UpTo
<1>6. a = IF k = 1 THEN open \o Pieces(f, n, 1) ELSE << <<f, n, k>> >>
  BY AppendedPart
<1>7. Pieces(f, n, k) = Append(Pieces(f, n, k - 1), <<f, n, k>>)
  BY <1>2, PiecesFacts
<1>8. n = 1 => front = <<>>
  BY <1>2, LeadingFacts
<1>9. FlattenSeq(Leading(f, n)) = front \o NaluBytes(f, n)
  BY <1>2, LeadingFacts
<1>10. NaluBytes(f, n) = open \o Pieces(f, n, Parts(f, n))
  BY NaluFacts
<1>11. <<f, n, k>> \in Content
  <2>1. <<f, n, k>> \in Video
    BY TokenFacts
  <2> QED BY <2>1 DEF Content
<1> HIDE DEF front, open, a
<1>12. UpTo(<<f, n, k>>) \in Seq(Content)
  <2>1. open \o Pieces(f, n, k) \in Seq(Content)
    BY <1>3, ConcatProperties
  <2> QED BY <1>3, <1>4, <2>1, ConcatProperties
<1>13. k = 1 => UpTo(<<f, n, k>>) = front \o a
  BY <1>4, <1>6
<1>14. k = 1 /\ n = 1 => UpTo(<<f, n, k>>) = a
  <2>1. CASE k = 1
    <3>1. a \in Seq(Content)
      BY <1>3, <1>6, <2>1, ConcatProperties
    <3>2. <<>> \o a = a
      BY <3>1, ConcatEmptySeq
    <3> QED BY <1>8, <1>13, <3>2
  <2> QED BY <2>1
<1>15. k # 1 => UpTo(<<f, n, k>>) = UpTo(<<f, n, k - 1>>) \o a
  <2> SUFFICES ASSUME k # 1 PROVE UpTo(<<f, n, k>>) = UpTo(<<f, n, k - 1>>) \o a
    OBVIOUS
  <2> DEFINE t == <<f, n, k>>
             rest == Pieces(f, n, k - 1)
  <2>1. a = <<t>> /\ t \in Content /\ rest \in Seq(Content) /\ Pieces(f, n, k) = Append(rest, t)
    BY <1>3, <1>6, <1>7, <1>11
  <2> HIDE DEF rest, t
  <2>2. Pieces(f, n, k) = rest \o <<t>> /\ <<t>> \in Seq(Content)
    BY <2>1
  <2>3. open \o (rest \o <<t>>) = (open \o rest) \o <<t>>
    <3>1. open \in Seq(Content) /\ rest \in Seq(Content) /\ <<t>> \in Seq(Content)
      BY <1>3, <2>1, <2>2
    <3> QED BY <3>1, ContentJoins
  <2>4. open \o rest \in Seq(Content)
    BY <1>3, <2>1, ConcatProperties
  <2>5. front \o ((open \o rest) \o <<t>>) = (front \o (open \o rest)) \o <<t>>
    <3> DEFINE both == open \o rest
    <3>1. front \in Seq(Content) /\ both \in Seq(Content) /\ <<t>> \in Seq(Content)
      BY <1>3, <2>2, <2>4
    <3> HIDE DEF both
    <3>2. front \o (both \o <<t>>) = (front \o both) \o <<t>>
      BY <3>1, ContentJoins
    <3> QED BY <3>2 DEF both
  <2>6. UpTo(<<f, n, k - 1>>) = front \o (open \o rest)
    BY <1>5 DEF rest
  <2> QED BY <1>4, <2>1, <2>2, <2>3, <2>5, <2>6
<1>16. k = Parts(f, n) => UpTo(<<f, n, k>>) = FlattenSeq(Leading(f, n))
  BY <1>4, <1>9, <1>10
<1> QED BY <1>12, <1>13, <1>14, <1>15, <1>16 DEF front, a

\* Behind a packet that is not the first of its frame comes another of it.
LEMMA UpToNext ==
  ASSUME NEW f \in 1 .. Len(Frames), NEW t \in Tokens(f)
  PROVE  \/ (\A u \in Tokens(f) : ~Before(u, t)) /\ UpTo(t) = Appended(VideoPacket(t))
         \/ \E p \in Tokens(f) : /\ \A u \in Tokens(f) : Before(u, t) <=> u = p \/ Before(u, p)
                                 /\ UpTo(t) = UpTo(p) \o Appended(VideoPacket(t))
<1>1. PICK n \in 1 .. Len(Frames[f]) : \E k \in 1 .. Parts(f, n) : t = <<f, n, k>>
  BY TokenFacts
<1>2. PICK k \in 1 .. Parts(f, n) : t = <<f, n, k>>
  BY <1>1
<1>3. /\ Parts(f, n) \in Nat /\ k \in Nat /\ Len(Frames[f]) \in Nat /\ n \in Nat /\ n >= 1
      /\ k >= 1 /\ k <= Parts(f, n) /\ n <= Len(Frames[f])
  BY FrameFacts
<1>4. \A u \in Tokens(f) : u \in Video
  BY TokenFacts
<1>5. \A p \in Tokens(f) : Following(p) = t =>
        \A u \in Tokens(f) : Before(u, t) <=> u = p \/ Before(u, p)
  BY <1>4, FollowingFacts
<1>6. CASE k # 1
  <2> DEFINE p == <<f, n, k - 1>>
  <2>1. k - 1 \in 1 .. Parts(f, n) /\ k - 1 < Parts(f, n) /\ (k - 1) + 1 = k
    BY <1>3, <1>6
  <2>2. p \in Tokens(f)
    BY <2>1, TokenFacts
  <2>3. Following(p) = t
    BY <1>2, <2>1 DEF Following
  <2>4. UpTo(t) = UpTo(p) \o Appended(VideoPacket(t))
    BY <1>2, <1>6, UpToFacts
  <2> HIDE DEF p
  <2> QED BY <1>5, <2>2, <2>3, <2>4
<1>7. CASE k = 1 /\ n # 1
  <2> DEFINE m == n - 1
             p == <<f, m, Parts(f, m)>>
  <2>1. m \in 1 .. Len(Frames[f]) /\ m < Len(Frames[f]) /\ m + 1 = n
    BY <1>3, <1>7
  <2>2. Parts(f, m) \in 1 .. Parts(f, m) /\ ~(Parts(f, m) < Parts(f, m))
    <3>1. Parts(f, m) \in Nat \ {0}
      BY <2>1, FrameFacts
    <3> QED BY <3>1
  <2>3. p \in Tokens(f)
    BY <2>1, <2>2, TokenFacts
  <2>4. Following(p) = t
    <3>1. p[1] = f /\ p[2] = m /\ p[3] = Parts(f, m)
      OBVIOUS
    <3> HIDE DEF p, m
    <3> QED BY <1>2, <1>7, <2>1, <2>2, <3>1 DEF Following
  <2>5. UpTo(p) = FlattenSeq(Leading(f, m))
    <3> HIDE DEF m
    <3> QED BY <2>1, <2>2, UpToFacts
  <2>6. UpTo(t) = FlattenSeq(Leading(f, m)) \o Appended(VideoPacket(t))
    BY <1>2, <1>7, UpToFacts
  <2> HIDE DEF p, m
  <2> QED BY <1>5, <2>3, <2>4, <2>5, <2>6
<1>8. CASE k = 1 /\ n = 1
  <2>1. UpTo(t) = Appended(VideoPacket(t))
    BY <1>2, <1>8, UpToFacts
  <2>2. ASSUME NEW u \in Tokens(f) PROVE ~Before(u, t)
    <3>1. u[1] = f /\ u[2] \in 1 .. Len(Frames[f]) /\ u[3] \in 1 .. Parts(f, u[2])
      BY <1>4, VideoFacts
    <3>2. Parts(f, u[2]) \in Nat
      BY <3>1, FrameFacts
    <3>3. u[2] \in Nat /\ u[2] >= 1 /\ u[3] \in Nat /\ u[3] >= 1 /\ f \in Nat
      BY <1>3, <3>1, <3>2, FrameFacts
    <3> QED BY <1>2, <1>8, <3>1, <3>3 DEF Before
  <2> QED BY <2>1, <2>2
<1> QED BY <1>6, <1>7, <1>8

\* Up to its last packet, it is the frame as it was before it was packed.
LEMMA WholeFacts ==
  ASSUME NEW f \in 1 .. Len(Frames)
  PROVE  /\ UpTo(LastToken(f)) = Whole(f).data
         /\ Whole(f) = [data |-> UpTo(LastToken(f)), type |-> VideoType(VideoPacket(LastToken(f)))]
<1> DEFINE n == Len(Frames[f])
           k == Parts(f, n)
<1>1. n \in 1 .. n /\ n \in Nat \ {0}
  <2>1. n \in Nat \ {0}
    BY FrameFacts
  <2> QED BY <2>1
<1>2. k \in 1 .. k
  <2>1. k \in Nat \ {0}
    BY <1>1, FrameFacts
  <2> QED BY <2>1
<1>3. UpTo(LastToken(f)) = FlattenSeq(Leading(f, n))
  <2>1. LastToken(f) = <<f, n, k>>
    BY DEF LastToken
  <2>2. n \in 1 .. Len(Frames[f]) /\ k = Parts(f, n)
    BY <1>1
  <2> HIDE DEF n, k
  <2> QED BY <1>2, <2>1, <2>2, UpToFacts
<1>4. Whole(f).data = FlattenSeq(Leading(f, n))
  BY DEF Whole, Leading
<1>5. Whole(f).type = VideoType(VideoPacket(LastToken(f)))
  <2>1. Last(Frames[f]) = Frames[f][n]
    BY DEF Last
  <2>2. VideoPacket(LastToken(f)).inner = Frames[f][n].type
    BY DEF LastToken, VideoPacket
  <2> QED BY <2>1, <2>2 DEF Whole, VideoType
<1>6. Whole(f) = [data |-> Whole(f).data, type |-> Whole(f).type]
  BY DEF Whole
<1> QED BY <1>3, <1>4, <1>5, <1>6

\* A sequence is not shorter than what it begins with.
LEMMA FrontsGrow ==
  ASSUME NEW f \in 1 .. Len(Frames), NEW n \in 0 .. Len(Frames[f])
  PROVE  Len(FlattenSeq(Leading(f, n))) <= Len(Whole(f).data)
<1> DEFINE N == Len(Frames[f])
           F(m) == Len(FlattenSeq(Leading(f, m)))
           S == {d \in Nat : d \in 0 .. N => F(N - d) <= F(N)}
<1>1. N \in Nat /\ n \in Nat /\ n <= N
  BY FrameFacts
<1>2. \A m \in 0 .. N : F(m) \in Nat
  <2> SUFFICES ASSUME NEW m \in 0 .. N PROVE F(m) \in Nat
    OBVIOUS
  <2>1. FlattenSeq(Leading(f, m)) \in Seq(Content)
    BY LeadingFacts
  <2> QED BY <2>1, LenProperties
<1>3. \A m \in 0 .. N : m # 0 => F(m - 1) <= F(m)
  <2> SUFFICES ASSUME NEW m \in 0 .. N, m # 0 PROVE F(m - 1) <= F(m)
    OBVIOUS
  <2>1. m - 1 \in 0 .. N /\ m \in 1 .. N
    BY <1>1
  <2>2. /\ FlattenSeq(Leading(f, m)) = FlattenSeq(Leading(f, m - 1)) \o NaluBytes(f, m)
        /\ FlattenSeq(Leading(f, m - 1)) \in Seq(Content) /\ NaluBytes(f, m) \in Seq(Content)
    BY <2>1, LeadingFacts, NaluFacts
  <2>3. F(m) = F(m - 1) + Len(NaluBytes(f, m)) /\ Len(NaluBytes(f, m)) \in Nat
    BY <2>2, ConcatProperties, LenProperties
  <2> HIDE DEF F
  <2> QED BY <1>2, <2>1, <2>3
<1>4. F(N) = Len(Whole(f).data)
  BY DEF Whole, Leading
<1> HIDE DEF F, N
<1>5. ASSUME NEW d \in S PROVE d + 1 \in S
  <2> SUFFICES ASSUME d + 1 \in 0 .. N PROVE F(N - (d + 1)) <= F(N)
    OBVIOUS
  <2>1. d \in Nat /\ d \in 0 .. N /\ N - d \in 0 .. N /\ N - d # 0 /\ N - (d + 1) = (N - d) - 1
        /\ (N - d) - 1 \in 0 .. N /\ N \in 0 .. N
    BY <1>1
  <2>2. F(N - d) <= F(N) /\ F((N - d) - 1) <= F(N - d)
    BY <1>3, <2>1
  <2> QED BY <1>2, <2>1, <2>2
<1>6. 0 \in S /\ S \in SUBSET Nat
  <2>1. N - 0 = N /\ N \in 0 .. N
    BY <1>1
  <2>2. F(N) \in Nat
    BY <1>2, <2>1
  <2> QED BY <2>1, <2>2
<1>7. S = Nat
  <2> HIDE DEF S
  <2> QED BY <1>5, <1>6, SetInduction
<1>8. N - n \in Nat /\ N - n \in 0 .. N /\ N - (N - n) = n
  BY <1>1
<1>9. F(N - (N - n)) <= F(N)
  <2>1. N - n \in S
    BY <1>7, <1>8
  <2> QED BY <1>8, <2>1
<1> QED BY <1>4, <1>8, <1>9 DEF F

\* What the buffer holds of a frame is no longer than the frame.
LEMMA UpToFits ==
  ASSUME NEW f \in 1 .. Len(Frames), NEW t \in Tokens(f)
  PROVE  UpTo(t) \in Seq(Content) /\ Len(UpTo(t)) <= Len(Whole(f).data)
<1>1. PICK n \in 1 .. Len(Frames[f]) : \E k \in 1 .. Parts(f, n) : t = <<f, n, k>>
  BY TokenFacts
<1>2. PICK k \in 1 .. Parts(f, n) : t = <<f, n, k>>
  BY <1>1
<1> DEFINE p == Parts(f, n)
           front == FlattenSeq(Leading(f, n - 1))
           open == Opened(f, n)
<1>3. /\ p \in Nat /\ k \in Nat /\ k <= p /\ Len(Frames[f]) \in Nat /\ n \in Nat
      /\ n \in 0 .. Len(Frames[f]) /\ n - 1 \in 0 .. Len(Frames[f]) /\ n # 0
  BY FrameFacts
<1>4. k \in 0 .. p /\ p \in 0 .. p
  BY <1>3
<1>5. /\ front \in Seq(Content) /\ open \in Seq(Content)
      /\ Pieces(f, n, k) \in Seq(Content) /\ Len(Pieces(f, n, k)) = k
      /\ Pieces(f, n, p) \in Seq(Content) /\ Len(Pieces(f, n, p)) = p
  BY <1>3, <1>4, LeadingFacts, OpenedFacts, PiecesFacts
<1>6. UpTo(t) = front \o (open \o Pieces(f, n, k))
  BY <1>2 DEF UpTo
<1>7. FlattenSeq(Leading(f, n)) = front \o (open \o Pieces(f, n, p))
  BY <1>3, LeadingFacts, NaluFacts
<1>8. Len(FlattenSeq(Leading(f, n))) <= Len(Whole(f).data)
  BY <1>3, FrontsGrow
<1>9. Len(Whole(f).data) \in Nat
  <2>1. UpTo(LastToken(f)) \in Seq(Content)
    <3>1. LastToken(f) \in Tokens(f)
      BY LastFacts
    <3>2. PICK m \in 1 .. Len(Frames[f]) : \E j \in 1 .. Parts(f, m) : LastToken(f) = <<f, m, j>>
      BY <3>1, TokenFacts
    <3> QED BY <3>2, UpToFacts
  <2> QED BY <2>1, WholeFacts, LenProperties
<1>10. UpTo(t) \in Seq(Content)
  BY <1>2, UpToFacts
<1> HIDE DEF front, open, p
<1>11. \A x \in Seq(Content) : LET z == front \o (open \o x) IN
         Len(z) = Len(front) + Len(open) + Len(x)
  <2> SUFFICES ASSUME NEW x \in Seq(Content)
               PROVE  Len(front \o (open \o x)) = Len(front) + Len(open) + Len(x)
    OBVIOUS
  <2>1. open \o x \in Seq(Content) /\ Len(open \o x) = Len(open) + Len(x)
    BY <1>5, ConcatProperties
  <2>2. Len(front \o (open \o x)) = Len(front) + Len(open \o x)
    BY <1>5, <2>1, ConcatProperties
  <2>3. Len(front) \in Nat /\ Len(open) \in Nat /\ Len(x) \in Nat
    BY <1>5, LenProperties
  <2> QED BY <2>1, <2>2, <2>3
<1>12. Len(UpTo(t)) <= Len(FlattenSeq(Leading(f, n)))
  <2>1. Len(front) \in Nat /\ Len(open) \in Nat
    BY <1>5, LenProperties
  <2> QED BY <1>3, <1>5, <1>6, <1>7, <1>11, <2>1
<1>13. Len(UpTo(t)) \in Nat /\ Len(FlattenSeq(Leading(f, n))) \in Nat
  BY <1>3, <1>10, LeadingFacts, LenProperties
<1> QED BY <1>8, <1>9, <1>10, <1>12, <1>13

\* The next packet of what the buffer holds.
LEMMA HoldsMore ==
  ASSUME NEW f \in 1 .. Len(Frames), NEW t \in Tokens(f),
         NEW buf, NEW held \in SUBSET Tokens(f), Holds(buf, held),
         \A u \in Tokens(f) : u \in held <=> Before(u, t)
  PROVE  Holds(buf \o Appended(VideoPacket(t)), held \cup {t})
<1> DEFINE a == Appended(VideoPacket(t))
<1>1. /\ \A u \in Tokens(f) : u \in Video
      /\ a \in Seq(Content)
  <2>1. \A u \in Tokens(f) : u \in Video
    BY TokenFacts
  <2> QED BY <2>1, AppendedFacts
<1> HIDE DEF a
<1>2. UpTo(t) = buf \o a
  <2>1. CASE (\A u \in Tokens(f) : ~Before(u, t)) /\ UpTo(t) = a
    <3>1. held = {}
      BY <2>1
    <3>2. buf = <<>>
      BY <3>1 DEF Holds
    <3>3. <<>> \o a = a
      BY <1>1, ConcatEmptySeq
    <3> QED BY <2>1, <3>2, <3>3
  <2>2. ASSUME NEW p \in Tokens(f), UpTo(t) = UpTo(p) \o a,
               \A u \in Tokens(f) : Before(u, t) <=> u = p \/ Before(u, p)
        PROVE  UpTo(t) = buf \o a
    <3>1. p \in held
      BY <2>2
    <3>2. PICK v \in held : buf = UpTo(v) /\ \A u \in held : u = v \/ Before(u, v)
      BY <3>1 DEF Holds
    <3>3. v = p
      BY <1>1, <2>2, <3>1, <3>2, BeforeFacts
    <3> QED BY <2>2, <3>2, <3>3
  <2> QED BY <2>1, <2>2, UpToNext DEF a
<1>3. \A u \in held \cup {t} : u = t \/ Before(u, t)
  OBVIOUS
<1> QED BY <1>2, <1>3 DEF Holds, a

-----------------------------------------------------------------------------
(* The initial state, and the types                                        *)

\* What is sent and stored has the types of Types.
LEMMA ContentFacts ==
  /\ \A t \in Video : VideoType(VideoPacket(t)) \in FrmTypes
  /\ \A p \in Packets : PacketTypes(p) \subseteq FrmTypes /\ Appended(p) \in Seq(Content)
  /\ \A p \in Packets : p.data \in Video => PacketTypes(p) = {VideoType(p)}
<1>1. \A p : VideoType(p) \in FrmTypes
  BY DEF VideoType, FrmTypes
<1>2. ASSUME NEW p \in Packets, p.data \in Video PROVE p.media = "video"
  <2>1. p = VideoPacket(p.data)
    BY <1>2, PacketFacts
  <2>2. VideoPacket(p.data).media = "video"
    BY <1>2, VideoPacketFacts
  <2> QED BY <2>1, <2>2
<1>3. ASSUME NEW p \in Packets, p.data \in Video
      PROVE  PacketTypes(p) = {VideoType(p)} /\ Appended(p) \in Seq(Content)
  BY <1>2, <1>3, PacketFacts, AppendedFacts DEF PacketTypes
<1>4. ASSUME NEW p \in Packets, p.data \notin Video
      PROVE  PacketTypes(p) \subseteq FrmTypes /\ Appended(p) = <<>>
  <2>1. p.media \in {"audio", "other"}
    BY <1>4, PacketFacts
  <2> QED BY <2>1 DEF PacketTypes, Appended, FrmTypes
<1>5. <<>> \in Seq(Content)
  OBVIOUS
<1> QED BY <1>1, <1>3, <1>4, <1>5

\* The session starts with an empty buffer.
LEMMA InitFrame == Init => Types /\ OrderInv /\ FrameInv
<1> SUFFICES ASSUME Init PROVE Types /\ OrderInv /\ FrameInv
  OBVIOUS
<1>1. /\ next = <<1, 1, 1>> /\ extras = 0 /\ net = <<>> /\ frm_buf = <<>>
      /\ stored = <<>> /\ faults = 0 /\ hurt = {}
  BY DEF Init
<1>2. Types
  <2>1. next \in Video \cup {Finish}
    <3>1. 0 \in 0 .. Len(Frames)
      BY FrameFacts
    <3>2. <<0 + 1, 1, 1>> \in Video \cup {Finish}
      BY <3>1, StartsFrame
    <3> QED BY <1>1, <3>2
  <2> QED BY <1>1, <2>1, BoundsAssumption DEF Types
<1>3. \A t \in Video : ~Through(t)
  <2> SUFFICES ASSUME NEW t \in Video, Before(t, next) PROVE FALSE
    BY DEF Through
  <2>1. /\ t[1] \in 1 .. Len(Frames) /\ t[2] \in 1 .. Len(Frames[t[1]])
        /\ t[3] \in 1 .. Parts(t[1], t[2])
    BY VideoFacts
  <2>2. t[1] \in Nat /\ t[2] \in Nat /\ t[3] \in Nat
    BY TokenNumbers
  <2>3. t[1] >= 1 /\ t[2] >= 1 /\ t[3] >= 1
    <3>1. Len(Frames) \in Nat /\ Len(Frames[t[1]]) \in Nat /\ Parts(t[1], t[2]) \in Nat
      BY <2>1, FrameFacts
    <3> QED BY <2>1, <3>1
  <2> QED BY <1>1, <2>2, <2>3 DEF Before
<1>4. OrderInv
  BY <1>1, <1>3 DEF OrderInv
<1>5. Apart
  <2> SUFFICES ASSUME NEW f \in 1 .. Len(Frames)
               PROVE  ~Through(LastToken(f)) /\ Holds(frm_buf, {t \in Tokens(f) : Through(t)})
    BY DEF Apart
  <2>1. ~Through(LastToken(f)) /\ {t \in Tokens(f) : Through(t)} = {}
    BY <1>3, LastFacts
  <2>2. Holds(frm_buf, {})
    BY <1>1 DEF Holds
  <2> QED BY <2>1, <2>2
<1>6. InTurn
  <2>1. Len(stored) = 0 /\ Len(Frames) \in Nat
    BY <1>1, FrameFacts
  <2>2. \A f \in 1 .. Len(Frames) : ~Through(LastToken(f))
    BY <1>3, LastFacts
  <2> QED BY <1>1, <2>1, <2>2 DEF InTurn
<1> QED BY <1>2, <1>4, <1>5, <1>6 DEF FrameInv

\* A frame that is not hurt, and the marker of the one in front of it.
LEMMA SparedFacts ==
  ASSUME NEW f \in 1 .. Len(Frames), NEW H
  PROVE  H \cap (Tokens(f) \cup
                 IF f = 1 THEN {} ELSE {t \in Tokens(f - 1) : IsLast(t)}) = {} <=>
           /\ \A t \in Tokens(f) : t \notin H
           /\ f # 1 => LastToken(f - 1) \notin H
<1> DEFINE before == IF f = 1 THEN {} ELSE {t \in Tokens(f - 1) : IsLast(t)}
<1>1. before = IF f = 1 THEN {} ELSE {LastToken(f - 1)}
  <2>1. CASE f = 1
    BY <2>1
  <2>2. CASE f # 1
    <3>1. f - 1 \in 1 .. Len(Frames)
      BY <2>2, FrameFacts
    <3> QED BY <2>2, <3>1, LastFacts
  <2> QED BY <2>1, <2>2
<1> QED BY <1>1

\* The same of what is hurt now.
LEMMA UnhurtFacts ==
  ASSUME NEW f \in 1 .. Len(Frames)
  PROVE  Unhurt(f) <=>
           /\ \A t \in Tokens(f) : t \notin hurt
           /\ f # 1 => LastToken(f - 1) \notin hurt
  BY SparedFacts DEF Unhurt

\* Nothing is heard of any unhurt packet: the frames are where they were.
LEMMA ApartKept ==
  ASSUME Apart, hurt \subseteq hurt', UNCHANGED <<frm_buf, stored>>,
         \A t \in Video : t \notin hurt' => (Through(t)' <=> Through(t))
  PROVE  Apart'
<1> SUFFICES ASSUME ~Marked, NEW f \in 1 .. Len(Frames), Unhurt(f)'
             PROVE  IF Through(LastToken(f))'
                    THEN IsStored(f)
                    ELSE f = 1 \/ Through(LastToken(f - 1))' =>
                           Holds(frm_buf, {t \in Tokens(f) : Through(t)'})
  BY DEF Apart, IsStored
<1>1. /\ \A t \in Tokens(f) : t \notin hurt'
      /\ f # 1 => LastToken(f - 1) \notin hurt'
  <2>1. Unhurt(f)' <=> /\ \A t \in Tokens(f) : t \notin hurt'
                       /\ f # 1 => LastToken(f - 1) \notin hurt'
    BY SparedFacts DEF Unhurt
  <2> QED BY <2>1
<1>2. Unhurt(f)
  BY <1>1, UnhurtFacts
<1>3. Through(LastToken(f))' <=> Through(LastToken(f))
  BY <1>1, LastFacts
<1>4. f # 1 => (Through(LastToken(f - 1))' <=> Through(LastToken(f - 1)))
  <2> SUFFICES ASSUME f # 1 PROVE Through(LastToken(f - 1))' <=> Through(LastToken(f - 1))
    OBVIOUS
  <2>1. f - 1 \in 1 .. Len(Frames)
    BY FrameFacts
  <2> QED BY <1>1, <2>1, LastFacts
<1>5. {t \in Tokens(f) : Through(t)'} = {t \in Tokens(f) : Through(t)}
  BY <1>1, LastFacts
<1> QED BY <1>2, <1>3, <1>4, <1>5 DEF Apart

\* And those that are stored are in their places.
LEMMA FramesKept ==
  ASSUME Types, FrameInv, hurt \subseteq hurt', UNCHANGED <<frm_buf, stored>>,
         \A t \in Video : t \notin hurt' => (Through(t)' <=> Through(t))
  PROVE  FrameInv'
<1>1. Apart'
  BY ApartKept DEF FrameInv
<1>2. InTurn'
  <2> SUFFICES ASSUME ~Marked, hurt' = {}
               PROVE  /\ Len(stored) <= Len(Frames)
                      /\ \A f \in 1 .. Len(Frames) : Through(LastToken(f))' <=> f <= Len(stored)
                      /\ \A i \in 1 .. Len(stored) : stored[i] = Whole(i)
                      /\ Len(stored) = Len(Frames) => frm_buf = <<>>
    BY DEF InTurn
  <2>1. hurt = {}
    OBVIOUS
  <2>2. \A f \in 1 .. Len(Frames) : Through(LastToken(f))' <=> Through(LastToken(f))
    BY LastFacts
  <2> QED BY <2>1, <2>2 DEF FrameInv, InTurn
<1> QED BY <1>1, <1>2 DEF FrameInv

-----------------------------------------------------------------------------
(* The server and the network                                              *)

\* What is under way, the packets that are hurt and the two ends of a packet's
\* way, typed.
LEMMA NetFacts ==
  ASSUME Types
  PROVE  /\ Len(net) \in Nat
         /\ \A i \in 1 .. Len(net) : net[i] \in Packets /\ net[i].data \in Video \cup Others
<1>1. net \in Seq(Packets)
  BY DEF Types
<1>2. Len(net) \in Nat /\ \A i \in 1 .. Len(net) : net[i] \in Packets
  BY <1>1, ElementOfSeq, LenProperties
<1> QED BY <1>2, PacketFacts

\* The three parts of OrderInv, one by one.
LEMMA OrderOfNet ==
  ASSUME OrderInv
  PROVE  /\ \A i \in 1 .. Len(net) : net[i].data \in Video => Before(net[i].data, next)
         /\ \A i, j \in 1 .. Len(net) :
              i < j /\ net[i].data \in Video /\ net[j].data \in Video =>
                Before(net[i].data, net[j].data) \/ {net[i].data, net[j].data} \subseteq hurt
         /\ \A t \in Video : t \notin hurt /\ Through(t) =>
              \A i \in 1 .. Len(net) : net[i].data \in Video => Before(t, net[i].data)
  BY DEF OrderInv

\* The server sends the next packet of its video.
LEMMA StepSendVideo ==
  ASSUME Types, OrderInv, FrameInv, SendVideo
  PROVE  Types' /\ OrderInv' /\ FrameInv'
<1>1. /\ next[1] <= Len(Frames) /\ net' = Append(net, VideoPacket(next))
      /\ next' = Following(next)
      /\ UNCHANGED <<extras, frm_buf, stored, faults, hurt>>
  BY DEF SendVideo
<1>2. next \in Video
  BY <1>1, FrameFacts DEF Types, Finish
<1>3. VideoPacket(next) \in Packets /\ VideoPacket(next).data = next
  BY <1>2, PacketFacts
<1>4. /\ net' \in Seq(Packets) /\ Len(net') = Len(net) + 1 /\ Len(net) \in Nat
      /\ \A i \in 1 .. Len(net) : net'[i] = net[i]
      /\ net'[Len(net) + 1].data = next
  <2>1. net \in Seq(Packets)
    BY DEF Types
  <2>2. Len(net) \in Nat
    BY <2>1, LenProperties
  <2> QED BY <1>1, <1>3, <2>1, <2>2, AppendProperties
<1>5. /\ next' \in Video \cup {Finish}
      /\ \A u \in Video : Before(u, next') <=> u = next \/ Before(u, next)
  BY <1>1, <1>2, FollowingFacts
<1>6. Types'
  BY <1>1, <1>4, <1>5 DEF Types
<1>7. \A i \in 1 .. Len(net') : \/ i \in 1 .. Len(net) /\ net'[i].data = net[i].data
                                \/ i = Len(net) + 1 /\ net'[i].data = next
  BY <1>4
<1>8. \A i \in 1 .. Len(net) : i \in 1 .. Len(net') /\ net'[i].data = net[i].data
  BY <1>4
<1>9. Len(net) + 1 \in 1 .. Len(net')
  BY <1>4
<1>10. \A u \in Video : Through(u)' <=> Through(u)
  <2> SUFFICES ASSUME NEW u \in Video PROVE Through(u)' <=> Through(u)
    OBVIOUS
  <2>1. CASE u = next
    <3>1. ~Before(u, next)
      BY <2>1, BeforeFacts
    <3>2. ~Through(u)'
      BY <1>4, <1>9, <2>1 DEF Through
    <3> QED BY <3>1, <3>2 DEF Through
  <2>2. CASE u # next
    <3>1. Before(u, next') <=> Before(u, next)
      BY <1>5, <2>2
    <3>2. (\A i \in 1 .. Len(net') : net'[i].data # u) <=> (\A i \in 1 .. Len(net) : net[i].data # u)
      BY <1>7, <1>8, <2>2
    <3> QED BY <3>1, <3>2 DEF Through
  <2> QED BY <2>1, <2>2
<1>11. OrderInv'
  <2>1. \A i \in 1 .. Len(net') : net'[i].data \in Video => Before(net'[i].data, next')
    BY <1>5, <1>7, OrderOfNet DEF OrderInv
  <2>2. ASSUME NEW i \in 1 .. Len(net'), NEW j \in 1 .. Len(net'), i < j,
               net'[i].data \in Video, net'[j].data \in Video
        PROVE  Before(net'[i].data, net'[j].data) \/ {net'[i].data, net'[j].data} \subseteq hurt
    <3>1. i \in 1 .. Len(net) /\ net'[i].data = net[i].data
      BY <1>4, <1>7, <2>2
    <3>2. CASE j \in 1 .. Len(net) /\ net'[j].data = net[j].data
      BY <2>2, <3>1, <3>2, OrderOfNet
    <3>3. CASE net'[j].data = next
      BY <2>2, <3>1, <3>3, OrderOfNet
    <3> QED BY <1>7, <3>2, <3>3
  <2>3. ASSUME NEW t \in Video, t \notin hurt, Through(t)', NEW i \in 1 .. Len(net'),
               net'[i].data \in Video
        PROVE  Before(t, net'[i].data)
    <3>1. Through(t)
      BY <1>10, <2>3
    <3>2. CASE i \in 1 .. Len(net) /\ net'[i].data = net[i].data
      BY <2>3, <3>1, <3>2, OrderOfNet
    <3>3. CASE net'[i].data = next
      BY <3>1, <3>3 DEF Through
    <3> QED BY <1>7, <3>2, <3>3
  <2> QED BY <1>1, <2>1, <2>2, <2>3 DEF OrderInv
<1>12. FrameInv'
  BY <1>1, <1>10, FramesKept
<1> QED BY <1>6, <1>11, <1>12

\* The server sends audio, or a packet of an unsupported kind.
LEMMA StepSendExtra ==
  ASSUME Types, OrderInv, FrameInv, SendExtra
  PROVE  Types' /\ OrderInv' /\ FrameInv'
<1>1. PICK kind \in Extras, m \in {FALSE, Marked} :
         net' = Append(net, ExtraPacket(kind, extras + 1, m))
  BY DEF SendExtra
<1>2. /\ extras < MaxExtras /\ extras' = extras + 1
      /\ UNCHANGED <<next, frm_buf, stored, faults, hurt>>
  BY DEF SendExtra
<1> DEFINE p == ExtraPacket(kind, extras + 1, m)
<1>3. extras' \in 0 .. MaxExtras /\ extras + 1 \in 1 .. MaxExtras
  BY <1>2, BoundsAssumption DEF Types
<1>4. p \in ExtraPackets /\ p.data \in Others
  BY <1>3 DEF ExtraPackets, ExtraPacket, Others
<1>5. p \in Packets /\ p.data \notin Video
  BY <1>4, PacketFacts DEF Packets
<1>6. net' = Append(net, p)
  BY <1>1
<1> HIDE DEF p
<1>7. /\ net' \in Seq(Packets) /\ Len(net') = Len(net) + 1 /\ Len(net) \in Nat
      /\ \A i \in 1 .. Len(net) : net'[i] = net[i]
      /\ net'[Len(net) + 1] = p
  <2>1. net \in Seq(Packets)
    BY DEF Types
  <2>2. Len(net) \in Nat
    BY <2>1, LenProperties
  <2> QED BY <1>5, <1>6, <2>1, <2>2, AppendProperties
<1>8. Types'
  BY <1>2, <1>3, <1>7 DEF Types
<1>9. \A i \in 1 .. Len(net') : \/ i \in 1 .. Len(net) /\ net'[i].data = net[i].data
                                \/ net'[i].data \notin Video
  BY <1>5, <1>7
<1>10. \A i \in 1 .. Len(net) : i \in 1 .. Len(net') /\ net'[i].data = net[i].data
  BY <1>7
<1>11. \A u \in Video : Through(u)' <=> Through(u)
  <2> SUFFICES ASSUME NEW u \in Video PROVE Through(u)' <=> Through(u)
    OBVIOUS
  <2>1. (\A i \in 1 .. Len(net') : net'[i].data # u) <=> (\A i \in 1 .. Len(net) : net[i].data # u)
    BY <1>9, <1>10
  <2> QED BY <1>2, <2>1 DEF Through
<1>12. OrderInv'
  <2>1. \A i \in 1 .. Len(net') : net'[i].data \in Video => Before(net'[i].data, next')
    BY <1>2, <1>9, OrderOfNet
  <2>2. ASSUME NEW i \in 1 .. Len(net'), NEW j \in 1 .. Len(net'), i < j,
               net'[i].data \in Video, net'[j].data \in Video
        PROVE  Before(net'[i].data, net'[j].data) \/ {net'[i].data, net'[j].data} \subseteq hurt
    BY <1>9, <2>2, OrderOfNet
  <2>3. ASSUME NEW t \in Video, t \notin hurt, Through(t)', NEW i \in 1 .. Len(net'),
               net'[i].data \in Video
        PROVE  Before(t, net'[i].data)
    BY <1>9, <1>11, <2>3, OrderOfNet
  <2> QED BY <1>2, <2>1, <2>2, <2>3 DEF OrderInv
<1>13. FrameInv'
  BY <1>2, <1>11, FramesKept
<1> QED BY <1>8, <1>12, <1>13

\* A fault that leaves packets out, repeats or moves them: which packet was
\* where before is src.
LEMMA NetMoves ==
  ASSUME Types, OrderInv, FrameInv, hurt \subseteq hurt',
         UNCHANGED <<next, frm_buf, stored>>,
         NEW n \in Nat, Len(net') = n, NEW src \in [1 .. n -> 1 .. Len(net)],
         \A j \in 1 .. n : net'[j] = net[src[j]],
         \A j, k \in 1 .. n : j < k =>
           src[j] < src[k] \/ {net'[j].data, net'[k].data} \subseteq hurt',
         \A i \in 1 .. Len(net) : net[i].data \notin hurt' =>
           \E j \in 1 .. n : net'[j].data = net[i].data
  PROVE  OrderInv' /\ FrameInv'
<1>1. \A t \in Video : t \notin hurt' => (Through(t)' <=> Through(t))
  <2> SUFFICES ASSUME NEW t \in Video, t \notin hurt' PROVE Through(t)' <=> Through(t)
    OBVIOUS
  <2>1. (\A j \in 1 .. n : net'[j].data # t) <=> (\A i \in 1 .. Len(net) : net[i].data # t)
    <3>1. ASSUME NEW j \in 1 .. n, net'[j].data = t PROVE \E i \in 1 .. Len(net) : net[i].data = t
      BY <3>1
    <3>2. ASSUME NEW i \in 1 .. Len(net), net[i].data = t PROVE \E j \in 1 .. n : net'[j].data = t
      BY <3>2
    <3> QED BY <3>1, <3>2
  <2> QED BY <2>1 DEF Through
<1>2. FrameInv'
  BY <1>1, FramesKept
<1>3. \A j \in 1 .. n : net'[j].data \in Video => Before(net'[j].data, next')
  BY OrderOfNet
<1>4. ASSUME NEW j \in 1 .. n, NEW k \in 1 .. n, j < k,
             net'[j].data \in Video, net'[k].data \in Video
      PROVE  Before(net'[j].data, net'[k].data) \/ {net'[j].data, net'[k].data} \subseteq hurt'
  <2>1. CASE src[j] < src[k]
    <3>1. Before(net[src[j]].data, net[src[k]].data) \/ {net[src[j]].data, net[src[k]].data} \subseteq hurt
      BY <1>4, <2>1, OrderOfNet
    <3> QED BY <3>1
  <2> QED BY <1>4, <2>1
<1>5. ASSUME NEW t \in Video, t \notin hurt', Through(t)', NEW j \in 1 .. n,
             net'[j].data \in Video
      PROVE  Before(t, net'[j].data)
  <2>1. Through(t) /\ t \notin hurt
    BY <1>1, <1>5
  <2> QED BY <1>5, <2>1, OrderOfNet
<1>6. OrderInv'
  BY <1>3, <1>4, <1>5 DEF OrderInv
<1> QED BY <1>2, <1>6

\* A fault is counted, and the packets it hits are hurt.
LEMMA FaultTypes ==
  ASSUME Types, NEW kind, NEW tokens \in SUBSET (Video \cup Others), Fault(kind, tokens)
  PROVE  /\ UNCHANGED <<extras, frm_buf, stored>>
         /\ hurt' = hurt \cup tokens /\ hurt' \in SUBSET (Video \cup Others)
         /\ faults' \in 0 .. MaxFaults
  BY BoundsAssumption DEF Types, Fault

\* A packet is lost: those behind it move up.
LEMMA StepLose ==
  ASSUME Types, OrderInv, FrameInv, Lose
  PROVE  Types' /\ OrderInv' /\ FrameInv'
<1>1. PICK i \in 1 .. Len(net) :
        Fault("loss", {net[i].data}) /\ net' = RemoveAt(net, i) /\ UNCHANGED next
  BY DEF Lose
<1>2. /\ UNCHANGED <<extras, frm_buf, stored>> /\ hurt' = hurt \cup {net[i].data}
      /\ hurt' \in SUBSET (Video \cup Others) /\ faults' \in 0 .. MaxFaults
  BY <1>1, NetFacts, FaultTypes
<1> DEFINE n == Len(net) - 1
           src == [j \in 1 .. n |-> IF j < i THEN j ELSE j + 1]
<1>3. net \in Seq(Packets) /\ Len(net) \in Nat /\ i \in Nat /\ n \in Nat
  BY NetFacts DEF Types
<1>4. src \in [1 .. n -> 1 .. Len(net)]
  BY <1>3
<1>5. net' \in Seq(Packets) /\ Len(net') = n /\ \A j \in 1 .. n : net'[j] = net[src[j]]
  <2> DEFINE front == SubSeq(net, 1, i - 1)
             back  == SubSeq(net, i + 1, Len(net))
  <2>1. net' = front \o back
    BY <1>1 DEF RemoveAt
  <2>2. /\ front \in Seq(Packets) /\ Len(front) = i - 1
        /\ \A j \in 1 .. i - 1 : front[j] = net[j]
    BY <1>3, NetFacts, SubSeqProperties
  <2>3. /\ back \in Seq(Packets) /\ Len(back) = Len(net) - i
        /\ \A j \in 1 .. Len(net) - i : back[j] = net[i + j]
    BY <1>3, NetFacts, SubSeqProperties
  <2> HIDE DEF front, back
  <2>6. /\ net' \in Seq(Packets) /\ Len(net') = Len(front) + Len(back)
        /\ \A j \in 1 .. Len(front) + Len(back) : net'[j] =
             IF j <= Len(front) THEN front[j] ELSE back[j - Len(front)]
    BY <2>1, <2>2, <2>3, ConcatProperties
  <2>4. /\ net' \in Seq(Packets) /\ Len(net') = (i - 1) + (Len(net) - i)
        /\ \A j \in 1 .. (i - 1) + (Len(net) - i) : net'[j] =
             IF j <= i - 1 THEN front[j] ELSE back[j - (i - 1)]
    <3> HIDE DEF n, src
    <3> QED BY <2>2, <2>3, <2>6
  <2>5. ASSUME NEW j \in 1 .. n PROVE net'[j] = net[src[j]]
    <3>0. j \in Nat /\ j \in 1 .. (i - 1) + (Len(net) - i)
      BY <1>3
    <3>1. CASE j < i
      <4>1. src[j] = j /\ j \in 1 .. i - 1 /\ j <= i - 1
        BY <1>3, <3>0, <3>1
      <4> HIDE DEF src, n
      <4> QED BY <2>2, <2>4, <3>0, <4>1
    <3>2. CASE ~(j < i)
      <4>1. /\ j - (i - 1) \in 1 .. Len(net) - i /\ ~(j <= i - 1)
            /\ src[j] = j + 1 /\ i + (j - (i - 1)) = j + 1
        BY <1>3, <3>0, <3>2
      <4> HIDE DEF src, n
      <4>2. net'[j] = back[j - (i - 1)]
        BY <2>4, <3>0, <4>1
      <4>3. back[j - (i - 1)] = net[i + (j - (i - 1))]
        BY <2>3, <4>1
      <4> QED BY <4>1, <4>2, <4>3
    <3> QED BY <3>1, <3>2
  <2> QED BY <1>3, <2>4, <2>5
<1>6. \A j, k \in 1 .. n : j < k => src[j] < src[k]
  BY <1>3
<1>7. ASSUME NEW k \in 1 .. Len(net), net[k].data \notin hurt'
      PROVE  \E j \in 1 .. n : net'[j].data = net[k].data
  <2>1. k # i
    BY <1>2, <1>7
  <2> DEFINE j == IF k < i THEN k ELSE k - 1
  <2>2. j \in 1 .. n /\ src[j] = k
    BY <1>3, <2>1
  <2> QED BY <1>5, <2>2
<1>8. Types'
  BY <1>1, <1>2, <1>5 DEF Types
<1> HIDE DEF n, src
<1>9. hurt \subseteq hurt' /\ UNCHANGED <<next, frm_buf, stored>>
  BY <1>1, <1>2, <1>3
<1>10. n \in Nat /\ Len(net') = n /\ src \in [1 .. n -> 1 .. Len(net)]
  BY <1>2, <1>3, <1>4, <1>5
<1>11. /\ \A j \in 1 .. n : net'[j] = net[src[j]]
       /\ \A j, k \in 1 .. n : j < k =>
            src[j] < src[k] \/ {net'[j].data, net'[k].data} \subseteq hurt'
       /\ \A k \in 1 .. Len(net) : net[k].data \notin hurt' =>
            \E j \in 1 .. n : net'[j].data = net[k].data
  BY <1>5, <1>6, <1>7
<1>12. OrderInv' /\ FrameInv'
  BY <1>9, <1>10, <1>11, NetMoves
<1> QED BY <1>8, <1>12

\* A packet comes twice: those behind it move back.
LEMMA StepDuplicate ==
  ASSUME Types, OrderInv, FrameInv, Duplicate
  PROVE  Types' /\ OrderInv' /\ FrameInv'
<1>1. PICK i \in 1 .. Len(net) :
        Fault("dup", {net[i].data}) /\ net' = InsertAt(net, i, net[i]) /\ UNCHANGED next
  BY DEF Duplicate
<1>2. /\ UNCHANGED <<extras, frm_buf, stored>> /\ hurt' = hurt \cup {net[i].data}
      /\ hurt' \in SUBSET (Video \cup Others) /\ faults' \in 0 .. MaxFaults
  BY <1>1, NetFacts, FaultTypes
<1> DEFINE n == Len(net) + 1
           src == [j \in 1 .. n |-> IF j <= i THEN j ELSE j - 1]
<1>3. net \in Seq(Packets) /\ Len(net) \in Nat /\ i \in Nat /\ n \in Nat
  BY NetFacts DEF Types
<1>4. src \in [1 .. n -> 1 .. Len(net)]
  BY <1>3
<1>5. net' \in Seq(Packets) /\ Len(net') = n /\ \A j \in 1 .. n : net'[j] = net[src[j]]
  <2> DEFINE front == SubSeq(net, 1, i - 1)
             one   == <<net[i]>>
             back  == SubSeq(net, i, Len(net))
  <2>1. net' = (front \o one) \o back
    BY <1>1 DEF InsertAt
  <2>2. /\ front \in Seq(Packets) /\ Len(front) = i - 1
        /\ \A j \in 1 .. i - 1 : front[j] = net[j]
    BY <1>3, NetFacts, SubSeqProperties
  <2>3. one \in Seq(Packets) /\ Len(one) = 1 /\ one[1] = net[i]
    BY NetFacts
  <2>4. /\ back \in Seq(Packets) /\ Len(back) = Len(net) - i + 1
        /\ \A j \in 1 .. Len(net) - i + 1 : back[j] = net[i + j - 1]
    BY <1>3, NetFacts, SubSeqProperties
  <2> HIDE DEF front, one, back
  <2>5. /\ front \o one \in Seq(Packets) /\ Len(front \o one) = i
        /\ \A j \in 1 .. i : (front \o one)[j] = net[j]
    <3> DEFINE both == front \o one
    <3>1. /\ both \in Seq(Packets) /\ Len(both) = Len(front) + Len(one)
          /\ \A j \in 1 .. Len(front) + Len(one) : both[j] =
               IF j <= Len(front) THEN front[j] ELSE one[j - Len(front)]
      BY <2>2, <2>3, ConcatProperties
    <3> HIDE DEF both
    <3>2. both \in Seq(Packets) /\ Len(both) = i
      BY <1>3, <2>2, <2>3, <3>1
    <3>3. \A j \in 1 .. i : both[j] = IF j <= i - 1 THEN front[j] ELSE one[j - (i - 1)]
      BY <1>3, <2>2, <2>3, <3>1
    <3>4. \A j \in 1 .. i : j <= i - 1 => j \in 1 .. i - 1
      BY <1>3
    <3>5. \A j \in 1 .. i : ~(j <= i - 1) => j = i /\ j - (i - 1) = 1
      BY <1>3
    <3>6. \A j \in 1 .. i : both[j] = net[j]
      BY <2>2, <2>3, <3>3, <3>4, <3>5
    <3> QED BY <3>2, <3>6 DEF both
  <2> DEFINE both == front \o one
  <2>10. both \in Seq(Packets)
    BY <2>5
  <2> HIDE DEF both
  <2>8. /\ both \o back \in Seq(Packets) /\ Len(both \o back) = Len(both) + Len(back)
        /\ \A j \in 1 .. Len(both) + Len(back) : (both \o back)[j] =
             IF j <= Len(both) THEN both[j] ELSE back[j - Len(both)]
    BY <2>4, <2>10, ConcatProperties
  <2>6. /\ net' \in Seq(Packets) /\ Len(net') = i + (Len(net) - i + 1)
        /\ \A j \in 1 .. i + (Len(net) - i + 1) : net'[j] =
             IF j <= i THEN both[j] ELSE back[j - i]
    <3>1. Len(both) = i /\ net' = both \o back
      BY <2>1, <2>5 DEF both
    <3> HIDE DEF n, src
    <3> QED BY <2>4, <2>8, <3>1
  <2>9. \A j \in 1 .. i : both[j] = net[j]
    BY <2>5 DEF both
  <2>7. ASSUME NEW j \in 1 .. n PROVE net'[j] = net[src[j]]
    <3>1. CASE j <= i
      BY <1>3, <2>6, <2>9, <3>1
    <3>2. CASE ~(j <= i)
      <4>1. /\ j - i \in 1 .. Len(net) - i + 1 /\ ~(j <= i)
            /\ src[j] = j - 1 /\ i + (j - i) - 1 = j - 1
            /\ j \in 1 .. i + (Len(net) - i + 1)
        BY <1>3, <3>2
      <4> HIDE DEF src, n
      <4>2. net'[j] = back[j - i]
        BY <2>6, <4>1
      <4>3. back[j - i] = net[i + (j - i) - 1]
        BY <2>4, <4>1
      <4> QED BY <4>1, <4>2, <4>3
    <3> QED BY <3>1, <3>2
  <2> QED BY <1>3, <2>6, <2>7
<1>6. ASSUME NEW j \in 1 .. n, NEW k \in 1 .. n, j < k
      PROVE  src[j] < src[k] \/ {net'[j].data, net'[k].data} \subseteq hurt'
  <2>1. CASE j = i /\ k = i + 1
    <3>1. src[j] = i /\ src[k] = i
      BY <1>3, <2>1
    <3> QED BY <1>2, <1>5, <3>1
  <2>2. CASE ~(j = i /\ k = i + 1)
    BY <1>3, <1>6, <2>2
  <2> QED BY <2>1, <2>2
<1>7. ASSUME NEW k \in 1 .. Len(net)
      PROVE  \E j \in 1 .. n : net'[j].data = net[k].data
  <2> DEFINE j == IF k <= i THEN k ELSE k + 1
  <2>1. j \in 1 .. n /\ src[j] = k
    BY <1>3
  <2> QED BY <1>5, <2>1
<1>8. Types'
  BY <1>1, <1>2, <1>5 DEF Types
<1> HIDE DEF n, src
<1>9. hurt \subseteq hurt' /\ UNCHANGED <<next, frm_buf, stored>>
  BY <1>1, <1>2, <1>3
<1>10. n \in Nat /\ Len(net') = n /\ src \in [1 .. n -> 1 .. Len(net)]
  BY <1>2, <1>3, <1>4, <1>5
<1>11. /\ \A j \in 1 .. n : net'[j] = net[src[j]]
       /\ \A j, k \in 1 .. n : j < k =>
            src[j] < src[k] \/ {net'[j].data, net'[k].data} \subseteq hurt'
       /\ \A k \in 1 .. Len(net) : net[k].data \notin hurt' =>
            \E j \in 1 .. n : net'[j].data = net[k].data
  BY <1>5, <1>6, <1>7
<1>12. OrderInv' /\ FrameInv'
  BY <1>9, <1>10, <1>11, NetMoves
<1> QED BY <1>8, <1>12

\* Two packets change places.
LEMMA StepReorder ==
  ASSUME Types, OrderInv, FrameInv, Reorder
  PROVE  Types' /\ OrderInv' /\ FrameInv'
<1>1. PICK i \in 1 .. Len(net) - 1 :
        /\ Fault("reorder", {net[i].data, net[i + 1].data})
        /\ net' = [net EXCEPT ![i] = net[i + 1], ![i + 1] = net[i]]
        /\ UNCHANGED next
  BY DEF Reorder
<1> DEFINE n == Len(net)
           src == [j \in 1 .. n |-> IF j = i THEN i + 1 ELSE IF j = i + 1 THEN i ELSE j]
<1>2. net \in Seq(Packets) /\ n \in Nat /\ i \in 1 .. n /\ i + 1 \in 1 .. n
  BY NetFacts DEF Types
<1>3. /\ UNCHANGED <<extras, frm_buf, stored>>
      /\ hurt' = hurt \cup {net[i].data, net[i + 1].data}
      /\ hurt' \in SUBSET (Video \cup Others) /\ faults' \in 0 .. MaxFaults
  BY <1>1, <1>2, NetFacts, FaultTypes
<1>4. src \in [1 .. n -> 1 .. Len(net)]
  BY <1>2
<1>5. net' \in Seq(Packets) /\ Len(net') = n /\ \A j \in 1 .. n : net'[j] = net[src[j]]
  <2> DEFINE once == [net EXCEPT ![i] = net[i + 1]]
  <2>1. /\ once \in Seq(Packets) /\ Len(once) = n
        /\ \A j \in 1 .. n : once[j] = IF j = i THEN net[i + 1] ELSE net[j]
    BY <1>2, NetFacts, ExceptSeq
  <2>2. net' = [once EXCEPT ![i + 1] = net[i]]
    BY <1>1
  <2> HIDE DEF once
  <2>3. /\ net' \in Seq(Packets) /\ Len(net') = n
        /\ \A j \in 1 .. n : net'[j] = IF j = i + 1 THEN net[i] ELSE once[j]
    BY <1>2, <2>1, <2>2, NetFacts, ExceptSeq
  <2> QED BY <1>2, <2>1, <2>3
<1>6. ASSUME NEW j \in 1 .. n, NEW k \in 1 .. n, j < k
      PROVE  src[j] < src[k] \/ {net'[j].data, net'[k].data} \subseteq hurt'
  <2>1. CASE j = i /\ k = i + 1
    <3>1. src[j] = i + 1 /\ src[k] = i
      BY <1>2, <2>1
    <3> QED BY <1>2, <1>3, <1>5, <3>1
  <2>2. CASE ~(j = i /\ k = i + 1)
    BY <1>2, <1>6, <2>2
  <2> QED BY <2>1, <2>2
<1>7. ASSUME NEW k \in 1 .. Len(net)
      PROVE  \E j \in 1 .. n : net'[j].data = net[k].data
  <2>1. src[k] \in 1 .. n /\ src[src[k]] = k
    BY <1>2
  <2> QED BY <1>5, <2>1
<1>8. Types'
  BY <1>1, <1>3, <1>5 DEF Types
<1> HIDE DEF n, src
<1>9. hurt \subseteq hurt' /\ UNCHANGED <<next, frm_buf, stored>>
  BY <1>1, <1>2, <1>3
<1>10. n \in Nat /\ Len(net') = n /\ src \in [1 .. n -> 1 .. Len(net)]
  BY <1>2, <1>3, <1>4, <1>5
<1>11. /\ \A j \in 1 .. n : net'[j] = net[src[j]]
       /\ \A j, k \in 1 .. n : j < k =>
            src[j] < src[k] \/ {net'[j].data, net'[k].data} \subseteq hurt'
       /\ \A k \in 1 .. Len(net) : net[k].data \notin hurt' =>
            \E j \in 1 .. n : net'[j].data = net[k].data
  BY <1>5, <1>6, <1>7
<1>12. OrderInv' /\ FrameInv'
  BY <1>9, <1>10, <1>11, NetMoves
<1> QED BY <1>8, <1>12

\* The connection is lost: what was under way is hurt, and so is a frame that
\* was cut.
LEMMA StepReset ==
  ASSUME Types, OrderInv, FrameInv, Reset
  PROVE  Types' /\ OrderInv' /\ FrameInv'
<1> DEFINE cut  == next[2] > 1 \/ next[3] > 1
           way  == {net[i].data : i \in 1 .. Len(net)}
           rest == IF cut THEN Tokens(next[1]) ELSE {}
<1>1. /\ next[1] <= Len(Frames) /\ Fault("reset", way \cup rest)
      /\ next' = <<IF cut THEN next[1] + 1 ELSE next[1], 1, 1>>
      /\ net' = <<>>
  BY DEF Reset
<1>2. next \in Video
  BY <1>1, FrameFacts DEF Types, Finish
<1>3. /\ next = <<next[1], next[2], next[3]>> /\ next[1] \in 1 .. Len(Frames)
      /\ next[2] \in Nat /\ next[3] \in Nat /\ next[2] >= 1 /\ next[3] >= 1
  <2>1. /\ next = <<next[1], next[2], next[3]>> /\ next[1] \in 1 .. Len(Frames)
        /\ next[2] \in 1 .. Len(Frames[next[1]]) /\ next[3] \in 1 .. Parts(next[1], next[2])
    BY <1>2, VideoFacts
  <2>2. next[2] \in Nat /\ next[3] \in Nat
    BY <1>2, TokenNumbers
  <2>3. Len(Frames[next[1]]) \in Nat /\ Parts(next[1], next[2]) \in Nat
    BY <2>1, FrameFacts
  <2> QED BY <2>1, <2>2, <2>3
<1>4. way \subseteq Video \cup Others /\ rest \subseteq Video
  BY <1>3, NetFacts, TokenFacts
<1> HIDE DEF way
<1>5. /\ UNCHANGED <<extras, frm_buf, stored>> /\ hurt' = hurt \cup (way \cup rest)
      /\ hurt' \in SUBSET (Video \cup Others) /\ faults' \in 0 .. MaxFaults
  <2>1. way \cup rest \in SUBSET (Video \cup Others)
    BY <1>4
  <2> HIDE DEF rest
  <2> QED BY <1>1, <2>1, FaultTypes
<1>6. ~cut => next' = next
  BY <1>1, <1>3
<1>7. next' \in Video \cup {Finish}
  <2>1. next[1] \in 0 .. Len(Frames)
    BY <1>3, FrameFacts
  <2>2. <<next[1] + 1, 1, 1>> \in Video \cup {Finish}
    BY <2>1, StartsFrame
  <2> QED BY <1>1, <1>2, <1>6, <2>2
<1>8. Types'
  BY <1>1, <1>5, <1>7 DEF Types
<1>9. Len(net') = 0
  BY <1>1
<1>10. ASSUME NEW t \in Video, t \notin hurt' PROVE Through(t)' <=> Through(t)
  <2>1. t \notin way /\ t \notin rest
    BY <1>5, <1>10
  <2>2. Through(t) <=> Before(t, next)
    BY <2>1 DEF Through, way
  <2>3. Through(t)' <=> Before(t, next')
    BY <1>9 DEF Through
  <2>4. CASE cut
    <3>1. next' = <<next[1] + 1, 1, 1>> /\ t \notin Tokens(next[1])
      BY <1>1, <2>1, <2>4
    <3>2. t[1] # next[1]
      BY <3>1, VideoFacts
    <3>3. t[1] \in Nat /\ t[2] \in Nat /\ t[3] \in Nat /\ t[2] >= 1 /\ t[3] >= 1
      <4>1. /\ t[1] \in 1 .. Len(Frames) /\ t[2] \in 1 .. Len(Frames[t[1]])
            /\ t[3] \in 1 .. Parts(t[1], t[2])
        BY VideoFacts
      <4>2. t[1] \in Nat /\ t[2] \in Nat /\ t[3] \in Nat
        BY TokenNumbers
      <4>3. Len(Frames[t[1]]) \in Nat /\ Parts(t[1], t[2]) \in Nat
        BY <4>1, FrameFacts
      <4> QED BY <4>1, <4>2, <4>3
    <3>4. next[1] \in Nat
      BY <1>3, FrameFacts
    <3>5. Before(t, next') <=> t[1] < next[1] + 1
      BY <3>1, <3>3, <3>4 DEF Before
    <3>6. Before(t, next) <=> t[1] < next[1]
      BY <3>2, <3>3, <3>4 DEF Before
    <3> QED BY <2>2, <2>3, <3>2, <3>3, <3>4, <3>5, <3>6
  <2>5. CASE ~cut
    BY <1>6, <2>2, <2>3, <2>5
  <2> QED BY <2>4, <2>5
<1>11. OrderInv'
  BY <1>9 DEF OrderInv
<1>12. FrameInv'
  BY <1>5, <1>10, FramesKept
<1> QED BY <1>8, <1>11, <1>12

-----------------------------------------------------------------------------
(* handle_rtp_pkt()                                                        *)

\* The packet that is handled is through, unless it comes again; nothing else
\* changes on the network.
LEMMA HandledThrough ==
  ASSUME Types, OrderInv, net # <<>>, net' = Tail(net), UNCHANGED <<next, hurt>>
  PROVE  /\ Len(net) \in Nat \ {0} /\ net[1] \in Packets
         /\ net' \in Seq(Packets) /\ OrderInv'
         /\ \A t \in Video : t \notin hurt =>
              (Through(t)' <=> Through(t) \/ t = net[1].data)
<1>1. net \in Seq(Packets)
  BY DEF Types
<1>2. /\ net' \in Seq(Packets) /\ Len(net') = Len(net) - 1 /\ Len(net) \in Nat \ {0}
      /\ \A i \in 1 .. Len(net') : net'[i] = net[i + 1]
  BY <1>1, HeadTailProperties, EmptySeq
<1>3. 1 \in 1 .. Len(net) /\ net[1] \in Packets
  BY <1>2, NetFacts
<1>4. /\ \A i \in 1 .. Len(net') : i + 1 \in 1 .. Len(net) /\ net'[i].data = net[i + 1].data
      /\ \A i \in 1 .. Len(net) : i # 1 => i - 1 \in 1 .. Len(net') /\ net'[i - 1].data = net[i].data
  BY <1>2
<1>5. ASSUME NEW t \in Video, t \notin hurt
      PROVE  Through(t)' <=> Through(t) \/ t = net[1].data
  <2>1. CASE t = net[1].data
    <3>1. Before(t, next)
      BY <1>3, <2>1, OrderOfNet
    <3>2. ASSUME NEW i \in 1 .. Len(net'), net'[i].data = t PROVE FALSE
      <4>1. i + 1 \in 1 .. Len(net) /\ net[i + 1].data = t /\ 1 < i + 1
        BY <1>4, <3>2
      <4>2. Before(t, t) \/ {t} \subseteq hurt
        BY <1>3, <2>1, <4>1, OrderOfNet
      <4> QED BY <1>5, <4>2, BeforeFacts
    <3> QED BY <2>1, <3>1, <3>2 DEF Through
  <2>2. CASE t # net[1].data
    <3>1. ASSUME NEW i \in 1 .. Len(net), net[i].data = t
          PROVE  \E j \in 1 .. Len(net') : net'[j].data = t
      <4>1. i # 1
        BY <2>2, <3>1
      <4> QED BY <1>4, <3>1, <4>1
    <3>2. ASSUME NEW j \in 1 .. Len(net'), net'[j].data = t
          PROVE  \E i \in 1 .. Len(net) : net[i].data = t
      BY <1>4, <3>2
    <3> QED BY <2>2, <3>1, <3>2 DEF Through
  <2> QED BY <2>1, <2>2
<1>6. OrderInv'
  <2>1. ASSUME NEW i \in 1 .. Len(net'), net'[i].data \in Video
        PROVE  Before(net'[i].data, next')
    BY <1>4, <2>1, OrderOfNet
  <2>2. ASSUME NEW i \in 1 .. Len(net'), NEW j \in 1 .. Len(net'), i < j,
               net'[i].data \in Video, net'[j].data \in Video
        PROVE  Before(net'[i].data, net'[j].data) \/ {net'[i].data, net'[j].data} \subseteq hurt'
    <3>1. i + 1 \in 1 .. Len(net) /\ j + 1 \in 1 .. Len(net) /\ i + 1 < j + 1
      BY <1>2, <2>2
    <3> QED BY <1>4, <2>2, <3>1, OrderOfNet
  <2>3. ASSUME NEW t \in Video, t \notin hurt', Through(t)', NEW i \in 1 .. Len(net'),
               net'[i].data \in Video
        PROVE  Before(t, net'[i].data)
    <3>1. i + 1 \in 1 .. Len(net) /\ net'[i].data = net[i + 1].data /\ 1 < i + 1
      BY <1>2, <1>4
    <3>2. CASE Through(t)
      BY <2>3, <3>1, <3>2, OrderOfNet
    <3>3. CASE t = net[1].data
      <4>1. Before(t, net[i + 1].data) \/ {t, net[i + 1].data} \subseteq hurt
        BY <1>3, <2>3, <3>1, <3>3, OrderOfNet
      <4> QED BY <2>3, <3>1, <4>1
    <3> QED BY <1>5, <2>3, <3>2, <3>3
  <2> QED BY <2>1, <2>2, <2>3 DEF OrderInv
<1> QED BY <1>2, <1>3, <1>5, <1>6

\* The types of what a packet leaves in the buffer and in the user's hands.
LEMMA StepHandleTypes ==
  ASSUME Types, OrderInv, HandlePacket
  PROVE  Types'
<1>1. net # <<>> /\ net' = Tail(net) /\ UNCHANGED <<next, extras, faults, hurt>>
  BY DEF HandlePacket, Filled
<1>2. PICK p : p = net[1]
  OBVIOUS
<1>3. p \in Packets /\ net' \in Seq(Packets)
  BY <1>1, <1>2, HandledThrough
<1>4. Appended(p) \in Seq(Content) /\ PacketTypes(p) \subseteq FrmTypes
  BY <1>3, ContentFacts
<1>5. Head(net) = p
  <2>1. net \in Seq(Packets)
    BY DEF Types
  <2> QED BY <1>1, <1>2, <2>1
<1>6. frm_buf \o Appended(p) \in Seq(Content)
  BY <1>4, ConcatProperties DEF Types
<1>7. CASE p.m
  <2>1. PICK t \in PacketTypes(p) :
          stored' = Append(stored, [data |-> frm_buf \o Appended(p), type |-> t])
    BY <1>5, <1>7 DEF HandlePacket, Filled
  <2>2. frm_buf' = <<>>
    BY <1>5, <1>7 DEF HandlePacket, Filled, AfterStore
  <2>3. [data |-> frm_buf \o Appended(p), type |-> t] \in Stored
    BY <1>4, <1>6 DEF Stored
  <2>4. stored' \in Seq(Stored)
    BY <2>1, <2>3, AppendProperties DEF Types
  <2> QED BY <1>1, <1>3, <2>2, <2>4 DEF Types
<1>8. CASE ~p.m
  <2>1. frm_buf' = frm_buf \o Appended(p) /\ stored' = stored
    BY <1>5, <1>8 DEF HandlePacket, Filled
  <2> QED BY <1>1, <1>3, <1>6, <2>1 DEF Types
<1> QED BY <1>7, <1>8

\* An unhurt frame that is not through when its last packet is the next, or
\* behind the next: the packets of it that went before are those up to there.
LEMMA Earlier ==
  ASSUME Types, OrderInv, NEW i \in 1 .. Len(net), i = 1,
         NEW t \in Video, t = net[1].data, NEW u \in Video, u \notin hurt,
         Before(u, t)
  PROVE  Through(u)
<1>1. Before(t, next)
  BY OrderOfNet
<1>2. Before(u, next)
  BY <1>1, BeforeFacts DEF Types
<1>3. ASSUME NEW j \in 1 .. Len(net), net[j].data = u PROVE FALSE
  <2>1. CASE j = 1
    BY <1>3, <2>1, BeforeFacts
  <2>2. CASE j # 1
    <3>1. 1 < j
      BY <2>2, NetFacts
    <3>2. Before(t, u) \/ {t, u} \subseteq hurt
      BY <1>3, <3>1, OrderOfNet
    <3> QED BY <3>2, BeforeFacts
  <2> QED BY <2>1, <2>2
<1> QED BY <1>2, <1>3 DEF Through

\* A packet of an unhurt frame: the buffer holds the frame up to there, with the
\* packet itself, and nothing else.
LEMMA NextFills ==
  ASSUME Types, OrderInv, Apart, ~Marked, NEW i \in 1 .. Len(net), i = 1,
         NEW t \in Video, t = net[1].data,
         NEW f \in 1 .. Len(Frames), t \in Tokens(f), Unhurt(f)
  PROVE  /\ f = 1 \/ Through(LastToken(f - 1))
         /\ frm_buf \o Appended(VideoPacket(t)) = UpTo(t)
<1> DEFINE held == {u \in Tokens(f) : Through(u)}
           buf == frm_buf \o Appended(VideoPacket(t))
<1>1. /\ \A u \in Tokens(f) : u \notin hurt /\ u \in Video
      /\ t[1] = f
      /\ LastToken(f) \in Tokens(f)
      /\ t = LastToken(f) \/ Before(t, LastToken(f))
  BY UnhurtFacts, LastFacts
<1>2. \A u \in Tokens(f) : Through(u) <=> Before(u, t)
  <2> SUFFICES ASSUME NEW u \in Tokens(f) PROVE Through(u) <=> Before(u, t)
    OBVIOUS
  <2>1. u \in Video /\ u \notin hurt
    BY <1>1
  <2>2. Through(u) => Before(u, t)
    BY <2>1, OrderOfNet
  <2>3. Before(u, t) => Through(u)
    BY <2>1, Earlier
  <2> QED BY <2>2, <2>3
<1>3. ~Through(LastToken(f))
  BY <1>1, <1>2, BeforeFacts
<1>4. f = 1 \/ Through(LastToken(f - 1))
  <2> SUFFICES ASSUME f # 1 PROVE Through(LastToken(f - 1))
    OBVIOUS
  <2>1. f - 1 \in 1 .. Len(Frames) /\ f \in Nat
    BY FrameFacts
  <2>2. LastToken(f - 1) \in Video /\ LastToken(f - 1) \notin hurt
    BY <2>1, LastFacts, UnhurtFacts
  <2>3. Before(LastToken(f - 1), t)
    <3>1. LastToken(f - 1)[1] = f - 1
      BY <2>1, LastFacts
    <3> QED BY <1>1, <2>1, <3>1 DEF Before
  <2> QED BY <2>2, <2>3, Earlier
<1>5. Holds(frm_buf, held)
  BY <1>3, <1>4 DEF Apart
<1>6. held \in SUBSET Tokens(f) /\ \A u \in Tokens(f) : u \in held <=> Before(u, t)
  BY <1>2
<1>7. Holds(buf, held \cup {t})
  <2> HIDE DEF held
  <2> QED BY <1>5, <1>6, HoldsMore
<1>8. \A u \in held \cup {t} : u = t \/ Before(u, t)
  BY <1>2
<1>9. buf = UpTo(t)
  <2> HIDE DEF buf
  <2>1. PICK v \in held \cup {t} : buf = UpTo(v) /\ \A u \in held \cup {t} : u = v \/ Before(u, v)
    BY <1>7 DEF Holds
  <2>2. v = t
    BY <1>1, <1>8, <2>1, BeforeFacts
  <2> QED BY <2>1, <2>2
<1> QED BY <1>4, <1>9

\* The marker of an unhurt frame: the buffer holds all the rest of the frame.
LEMMA MarkerCompletes ==
  ASSUME Types, OrderInv, Apart, ~Marked, NEW f \in 1 .. Len(Frames), Unhurt(f),
         NEW i \in 1 .. Len(net), i = 1, net[1].data = LastToken(f)
  PROVE  /\ f = 1 \/ Through(LastToken(f - 1))
         /\ [data |-> frm_buf \o Appended(VideoPacket(LastToken(f))),
             type |-> VideoType(VideoPacket(LastToken(f)))] = Whole(f)
<1>1. LastToken(f) \in Tokens(f) /\ LastToken(f) \in Video
  BY LastFacts
<1>2. /\ f = 1 \/ Through(LastToken(f - 1))
      /\ frm_buf \o Appended(VideoPacket(LastToken(f))) = UpTo(LastToken(f))
  BY <1>1, NextFills
<1> QED BY <1>2, WholeFacts

\* A packet of the video is handled: what the buffer holds of an unhurt frame
\* grows with that frame's own packets, in order, up to its marker.
LEMMA HandleApart ==
  ASSUME Types, OrderInv, FrameInv, HandlePacket, net[1].data \in Video
  PROVE  Apart'
<1>1. net # <<>> /\ net' = Tail(net) /\ UNCHANGED <<next, extras, faults, hurt>>
  BY DEF HandlePacket, Filled
<1>2. PICK t \in Video : t = net[1].data
  OBVIOUS
<1>3. /\ Len(net) \in Nat \ {0} /\ net[1] \in Packets
      /\ \A u \in Video : u \notin hurt => (Through(u)' <=> Through(u) \/ u = t)
  BY <1>1, <1>2, HandledThrough
<1>4. Head(net) = VideoPacket(t) /\ 1 \in 1 .. Len(net)
  <2>1. net \in Seq(Packets)
    BY DEF Types
  <2>2. net[1] = VideoPacket(t)
    BY <1>2, <1>3, PacketFacts
  <2> QED BY <1>1, <1>3, <2>1, <2>2
<1>5. Before(t, next) /\ ~Through(t)
  BY <1>2, <1>4, OrderOfNet DEF Through
<1> DEFINE buf == frm_buf \o Appended(VideoPacket(t))
<1>6. /\ IsLast(t) => /\ stored' = Append(stored, [data |-> buf, type |-> VideoType(VideoPacket(t))])
                      /\ frm_buf' = <<>>
      /\ ~IsLast(t) => stored' = stored /\ frm_buf' = buf
  <2>1. VideoPacket(t).m = IsLast(t)
    BY VideoPacketFacts
  <2>2. PacketTypes(VideoPacket(t)) = {VideoType(VideoPacket(t))}
    BY ContentFacts, PacketFacts
  <2>3. ASSUME IsLast(t)
        PROVE  /\ stored' = Append(stored, [data |-> buf, type |-> VideoType(VideoPacket(t))])
               /\ frm_buf' = <<>>
    BY <1>4, <2>1, <2>2, <2>3 DEF HandlePacket, Filled, AfterStore
  <2>4. ASSUME ~IsLast(t) PROVE stored' = stored /\ frm_buf' = buf
    BY <1>4, <2>1, <2>4 DEF HandlePacket, Filled
  <2> QED BY <2>3, <2>4
<1>7. stored \in Seq(Stored) /\ Len(stored) \in Nat /\ frm_buf \in Seq(Content)
  BY LenProperties DEF Types
<1>8. /\ Len(stored') >= Len(stored) /\ Len(stored') \in Nat
      /\ \A i \in 1 .. Len(stored) : i \in 1 .. Len(stored') /\ stored'[i] = stored[i]
  <2>1. CASE IsLast(t)
    <3> DEFINE frame == [data |-> buf, type |-> VideoType(VideoPacket(t))]
    <3>1. VideoPacket(t) \in Packets
      BY PacketFacts
    <3>2. buf \in Seq(Content) /\ VideoType(VideoPacket(t)) \in FrmTypes
      BY <1>7, <3>1, ContentFacts, ConcatProperties
    <3>3. frame \in Stored /\ stored' = Append(stored, frame)
      BY <1>6, <2>1, <3>2 DEF Stored
    <3> HIDE DEF frame
    <3> QED BY <1>7, <3>3, AppendProperties
  <2>2. CASE ~IsLast(t)
    BY <1>6, <1>7, <2>2
  <2> QED BY <2>1, <2>2
<1> SUFFICES ASSUME ~Marked, NEW f \in 1 .. Len(Frames), Unhurt(f)'
             PROVE  IF Through(LastToken(f))'
                    THEN \E i \in 1 .. Len(stored') : stored'[i] = Whole(f)
                    ELSE f = 1 \/ Through(LastToken(f - 1))' =>
                           Holds(frm_buf', {u \in Tokens(f) : Through(u)'})
  BY DEF Apart, IsStored
<1> DEFINE L == LastToken(f)
           l == LastToken(f - 1)
           held == {u \in Tokens(f) : Through(u)}
<1>9. Unhurt(f)
  BY <1>1 DEF Unhurt
<1>10. /\ \A u \in Tokens(f) : u \notin hurt /\ u \in Video
       /\ L \in Tokens(f) /\ L \in Video /\ L \notin hurt
  BY <1>9, UnhurtFacts, LastFacts
<1>11. f # 1 => /\ l \in Video /\ l \notin hurt /\ l[1] = f - 1 /\ f - 1 \in 1 .. Len(Frames)
                /\ IsLast(l)
                /\ \A u \in Tokens(f - 1) : u = l \/ Before(u, l)
  <2> SUFFICES ASSUME f # 1
               PROVE  /\ l \in Video /\ l \notin hurt /\ l[1] = f - 1
                      /\ f - 1 \in 1 .. Len(Frames) /\ IsLast(l)
                      /\ \A u \in Tokens(f - 1) : u = l \/ Before(u, l)
    OBVIOUS
  <2>1. f - 1 \in 1 .. Len(Frames)
    BY FrameFacts
  <2> QED BY <1>9, <2>1, UnhurtFacts, LastFacts
<1>12. f \in Nat /\ f >= 1
  BY FrameFacts
<1>13. f # 1 => \A u \in Tokens(f) : Before(l, u)
  <2> SUFFICES ASSUME f # 1, NEW u \in Tokens(f) PROVE Before(l, u)
    OBVIOUS
  <2>1. u[1] = f /\ l[1] = f - 1
    BY <1>11, LastFacts
  <2> QED BY <1>12, <2>1 DEF Before
<1> HIDE DEF L, l, buf
<1>14. CASE Through(L)
  <2>1. PICK i \in 1 .. Len(stored) : stored[i] = Whole(f)
    BY <1>9, <1>14 DEF FrameInv, Apart, IsStored, L
  <2>2. i \in 1 .. Len(stored') /\ stored'[i] = Whole(f)
    BY <1>8, <2>1
  <2>3. Through(L)'
    BY <1>3, <1>10, <1>14
  <2> QED BY <2>2, <2>3 DEF L
<1>15. CASE ~Through(L) /\ t = L
  <2>1. Through(L)' /\ IsLast(t)
    BY <1>3, <1>10, <1>15, LastFacts DEF L
  <2> DEFINE frame == [data |-> buf, type |-> VideoType(VideoPacket(t))]
  <2>8. frame = Whole(f)
    <3>1. Apart
      BY DEF FrameInv
    <3>2. net[1].data = LastToken(f) /\ t = LastToken(f)
      BY <1>2, <1>15 DEF L
    <3> HIDE DEF frame
    <3>3. [data |-> frm_buf \o Appended(VideoPacket(LastToken(f))),
           type |-> VideoType(VideoPacket(LastToken(f)))] = Whole(f)
      BY <1>4, <1>9, <3>1, <3>2, MarkerCompletes
    <3> QED BY <3>2, <3>3 DEF buf, frame
  <2>9. stored' = Append(stored, frame)
    BY <1>6, <2>1 DEF buf
  <2>10. Len(stored) + 1 \in 1 .. Len(stored') /\ stored'[Len(stored) + 1] = frame
    <3> HIDE DEF frame
    <3> QED BY <1>7, <2>9
  <2> QED BY <2>1, <2>8, <2>10 DEF L
<1>16. CASE ~Through(L) /\ t # L
  <2>1. ~Through(L)'
    BY <1>3, <1>10, <1>16
  <2> SUFFICES ASSUME f = 1 \/ Through(l)'
               PROVE  Holds(frm_buf', {u \in Tokens(f) : Through(u)'})
    BY <2>1 DEF L, l
  <2>2. CASE f # 1 /\ t = l
    <3>1. frm_buf' = <<>>
      BY <1>6, <1>11, <2>2
    <3>2. ASSUME NEW u \in Tokens(f), Through(u)' PROVE FALSE
      <4>1. Before(t, u)
        BY <1>13, <2>2
      <4>2. u # t
        BY <1>10, <4>1, BeforeFacts
      <4>3. Through(u)
        BY <1>3, <1>10, <3>2, <4>2
      <4>4. Before(u, t)
        BY <1>2, <1>4, <1>10, <4>3, OrderOfNet
      <4> QED BY <1>10, <4>1, <4>4, BeforeFacts
    <3>3. {u \in Tokens(f) : Through(u)'} = {}
      BY <3>2
    <3>4. Holds(<<>>, {})
      BY DEF Holds
    <3> QED BY <3>1, <3>3, <3>4
  <2>3. CASE f = 1 \/ t # l
    <3>1. f = 1 \/ Through(l)
      BY <1>3, <1>11, <2>3
    <3>2. Holds(frm_buf, held)
      BY <1>9, <1>16, <3>1 DEF FrameInv, Apart, L, l
    <3>3. Before(t, L)
      <4>1. CASE Before(L, next)
        <5>1. PICK j \in 1 .. Len(net) : net[j].data = L
          BY <1>16, <4>1 DEF Through
        <5>2. j # 1 /\ 1 < j
          BY <1>2, <1>3, <1>16, <5>1
        <5>3. Before(t, L) \/ {t, L} \subseteq hurt
          BY <1>2, <1>4, <1>10, <5>1, <5>2, OrderOfNet
        <5> QED BY <1>10, <5>3
      <4>2. CASE ~Before(L, next)
        <5>1. next = L \/ Before(next, L)
          <6>1. next \in Video \/ next = Finish
            BY DEF Types
          <6> QED BY <1>10, <4>2, <6>1, BeforeFacts
        <5>2. next \in Video \cup {Finish}
          BY DEF Types
        <5> QED BY <1>5, <1>10, <5>1, <5>2, BeforeFacts
      <4> QED BY <4>1, <4>2
    <3>4. f # 1 => Before(l, t)
      BY <1>2, <1>4, <1>11, <3>1, OrderOfNet
    <3>5. t \in Tokens(f)
      <4>1. t[1] \in Nat /\ t[1] \in 1 .. Len(Frames) /\ t \in Tokens(t[1])
        BY VideoFacts, TokenNumbers
      <4>2. t[1] <= f
        <5>1. L[1] = f
          BY LastFacts DEF L
        <5> QED BY <1>12, <3>3, <4>1, <5>1 DEF Before
      <4>3. t[1] >= 1
        BY <4>1, FrameFacts
      <4>4. ASSUME f # 1 PROVE t[1] >= f
        <5>1. t[1] >= f - 1
          BY <1>11, <1>12, <3>4, <4>1, <4>4 DEF Before
        <5>2. t[1] # f - 1
          <6> SUFFICES ASSUME t[1] = f - 1 PROVE FALSE
            OBVIOUS
          <6>1. t = l \/ Before(t, l)
            BY <1>11, <4>1, <4>4
          <6> QED BY <1>11, <3>4, <4>4, <6>1, BeforeFacts
        <5> QED BY <1>12, <4>1, <5>1, <5>2
      <4>5. t[1] = f
        BY <1>12, <4>1, <4>2, <4>3, <4>4
      <4> QED BY <4>1, <4>5
    <3>6. ~IsLast(t)
      BY <1>16, <3>5, LastFacts DEF L
    <3>7. {u \in Tokens(f) : Through(u)'} = held \cup {t}
      BY <1>3, <1>10, <3>5
    <3>8. \A u \in Tokens(f) : u \in held <=> Before(u, t)
      BY <1>2, <1>4, <1>10, OrderOfNet, Earlier
    <3>9. Holds(buf, held \cup {t})
      <4> HIDE DEF held
      <4>1. held \in SUBSET Tokens(f)
        BY DEF held
      <4> QED BY <3>2, <3>5, <3>8, <4>1, HoldsMore DEF buf
    <3> QED BY <1>6, <3>6, <3>7, <3>9 DEF buf
  <2> QED BY <2>2, <2>3
<1> QED BY <1>14, <1>15, <1>16

\* While nothing is hurt, a marker is that of the frame whose turn it is.
LEMMA StepHandleVideo ==
  ASSUME Types, OrderInv, FrameInv, HandlePacket, net[1].data \in Video
  PROVE  FrameInv'
<1>1. Apart /\ Apart'
  BY HandleApart DEF FrameInv
<1> SUFFICES ASSUME ~Marked, hurt' = {}
             PROVE  /\ Len(stored') <= Len(Frames)
                    /\ \A f \in 1 .. Len(Frames) : Through(LastToken(f))' <=> f <= Len(stored')
                    /\ \A i \in 1 .. Len(stored') : stored'[i] = Whole(i)
                    /\ Len(stored') = Len(Frames) => frm_buf' = <<>>
  BY <1>1 DEF FrameInv, InTurn
<1>2. net # <<>> /\ net' = Tail(net) /\ UNCHANGED <<next, extras, faults, hurt>>
  BY DEF HandlePacket, Filled
<1>3. PICK t \in Video : t = net[1].data
  OBVIOUS
<1>4. /\ Len(net) \in Nat \ {0} /\ 1 \in 1 .. Len(net) /\ net[1] \in Packets
      /\ \A u \in Video : Through(u)' <=> Through(u) \/ u = t
  BY <1>2, <1>3, HandledThrough
<1>5. Head(net) = VideoPacket(t)
  <2>1. net \in Seq(Packets)
    BY DEF Types
  <2>2. net[1] = VideoPacket(t)
    BY <1>3, <1>4, PacketFacts
  <2> QED BY <1>2, <2>1, <2>2
<1>6. /\ Len(stored) <= Len(Frames)
      /\ \A f \in 1 .. Len(Frames) : Through(LastToken(f)) <=> f <= Len(stored)
      /\ \A i \in 1 .. Len(stored) : stored[i] = Whole(i)
      /\ Len(stored) \in Nat /\ Len(Frames) \in Nat
  BY <1>2, FrameFacts, LenProperties DEF FrameInv, InTurn, Types
<1> DEFINE g == t[1]
<1>7. g \in 1 .. Len(Frames) /\ g \in Nat /\ t \in Tokens(g) /\ Unhurt(g)
  BY <1>2, VideoFacts, TokenNumbers DEF Unhurt
<1>8. VideoPacket(t).m = IsLast(t)
  BY VideoPacketFacts
<1>9. \A f \in 1 .. Len(Frames) :
        /\ LastToken(f) \in Video
        /\ LastToken(f) = t => f = g /\ IsLast(t)
  <2> SUFFICES ASSUME NEW f \in 1 .. Len(Frames)
               PROVE  LastToken(f) \in Video /\ (LastToken(f) = t => f = g /\ IsLast(t))
    OBVIOUS
  <2>1. LastToken(f) \in Video /\ LastToken(f) \in Tokens(f) /\ LastToken(f)[1] = f
        /\ IsLast(LastToken(f))
    BY LastFacts
  <2> QED BY <2>1
<1>10. CASE ~IsLast(t)
  <2>1. stored' = stored
    BY <1>5, <1>8, <1>10 DEF HandlePacket, Filled
  <2>2. \A f \in 1 .. Len(Frames) : Through(LastToken(f))' <=> Through(LastToken(f))
    BY <1>4, <1>9, <1>10
  <2>3. Len(stored) # Len(Frames)
    <3> SUFFICES ASSUME Len(stored) = Len(Frames) PROVE FALSE
      OBVIOUS
    <3>1. LastToken(g) \in Video /\ Through(LastToken(g)) /\ LastToken(g) \notin hurt
      BY <1>2, <1>6, <1>7, <1>9
    <3>2. Before(LastToken(g), t)
      BY <1>3, <1>4, <3>1, OrderOfNet
    <3>3. t = LastToken(g) \/ Before(t, LastToken(g))
      BY <1>7, LastFacts
    <3> QED BY <3>1, <3>2, <3>3, BeforeFacts
  <2> QED BY <1>6, <2>1, <2>2, <2>3
<1>11. CASE IsLast(t)
  <2> DEFINE frame == [data |-> frm_buf \o Appended(VideoPacket(t)),
                       type |-> VideoType(VideoPacket(t))]
  <2>1. t = LastToken(g)
    BY <1>7, <1>11, LastFacts
  <2>2. (g = 1 \/ Through(LastToken(g - 1))) /\ frame = Whole(g)
    <3> HIDE DEF g
    <3> QED BY <1>1, <1>3, <1>4, <1>7, <2>1, MarkerCompletes
  <2>3. ~Through(t)
    BY <1>3, <1>4 DEF Through
  <2>4. g = Len(stored) + 1
    <3>1. ~(g <= Len(stored))
      BY <1>6, <1>7, <2>1, <2>3
    <3>2. g = 1 \/ g - 1 <= Len(stored)
      <4> SUFFICES ASSUME g # 1 PROVE g - 1 <= Len(stored)
        OBVIOUS
      <4>1. g - 1 \in 1 .. Len(Frames)
        BY <1>6, <1>7
      <4> HIDE DEF g
      <4> QED BY <1>6, <2>2, <4>1
    <3> HIDE DEF g
    <3> QED BY <1>6, <1>7, <3>1, <3>2
  <2>5. PacketTypes(VideoPacket(t)) = {VideoType(VideoPacket(t))}
    BY ContentFacts, PacketFacts
  <2>6. stored' = Append(stored, frame)
    BY <1>5, <1>8, <1>11, <2>5 DEF HandlePacket, Filled
  <2> HIDE DEF frame, g
  <2>7. /\ Len(stored') = Len(stored) + 1 /\ stored'[Len(stored) + 1] = frame
        /\ \A i \in 1 .. Len(stored) : stored'[i] = stored[i]
    <3>1. stored \in Seq(Stored)
      BY DEF Types
    <3> QED BY <1>6, <2>6, <3>1
  <2>8. Len(stored') <= Len(Frames)
    BY <1>6, <1>7, <2>4, <2>7
  <2>9. \A f \in 1 .. Len(Frames) : Through(LastToken(f))' <=> f <= Len(stored')
    <3> SUFFICES ASSUME NEW f \in 1 .. Len(Frames)
                 PROVE  Through(LastToken(f))' <=> f <= Len(stored')
      OBVIOUS
    <3>1. LastToken(f) \in Video /\ (LastToken(f) = t <=> f = g)
      BY <1>9, <2>1 DEF g
    <3>2. Through(LastToken(f))' <=> f <= Len(stored) \/ f = g
      BY <1>4, <1>6, <3>1
    <3> QED BY <1>6, <2>4, <2>7, <3>2
  <2>10. \A i \in 1 .. Len(stored') : stored'[i] = Whole(i)
    <3> SUFFICES ASSUME NEW i \in 1 .. Len(stored') PROVE stored'[i] = Whole(i)
      OBVIOUS
    <3>1. CASE i \in 1 .. Len(stored)
      BY <1>6, <2>7, <3>1
    <3>2. CASE i = Len(stored) + 1
      BY <2>2, <2>4, <2>7, <3>2
    <3> QED BY <1>6, <2>7, <3>1, <3>2
  <2>11. frm_buf' = <<>>
    BY <1>5, <1>8, <1>11 DEF HandlePacket, Filled, AfterStore
  <2> QED BY <2>8, <2>9, <2>10, <2>11
<1> QED BY <1>10, <1>11

\* A packet that is not video adds nothing and, without a marker, ends nothing.
LEMMA StepHandleExtra ==
  ASSUME Types, OrderInv, FrameInv, HandlePacket, net[1].data \notin Video
  PROVE  FrameInv'
<1> SUFFICES ASSUME ~Marked PROVE FrameInv'
  BY DEF FrameInv, Apart, InTurn
<1>1. net # <<>> /\ net' = Tail(net) /\ UNCHANGED <<next, extras, faults, hurt>>
  BY DEF HandlePacket, Filled
<1>2. PICK p : p = net[1]
  OBVIOUS
<1>3. /\ p \in Packets
      /\ \A t \in Video : t \notin hurt => (Through(t)' <=> Through(t) \/ t = p.data)
  BY <1>1, <1>2, HandledThrough
<1>4. p.media \in {"audio", "other"} /\ ~p.m
  BY <1>2, <1>3, PacketFacts
<1>5. Head(net) = p
  <2>1. net \in Seq(Packets)
    BY DEF Types
  <2> QED BY <1>1, <1>2, <2>1
<1>6. Appended(p) = <<>>
  BY <1>4 DEF Appended
<1>7. frm_buf' = frm_buf \o <<>> /\ stored' = stored
  BY <1>4, <1>5, <1>6 DEF HandlePacket, Filled
<1>8. frm_buf' = frm_buf
  BY <1>7, ConcatEmptySeq DEF Types
<1>9. \A t \in Video : t \notin hurt' => (Through(t)' <=> Through(t))
  BY <1>1, <1>2, <1>3
<1> QED BY <1>1, <1>7, <1>8, <1>9, FramesKept

\* handle_rtp_pkt() keeps the invariant.
LEMMA StepHandle ==
  ASSUME Types, OrderInv, FrameInv, HandlePacket
  PROVE  Types' /\ OrderInv' /\ FrameInv'
<1>1. Types' /\ FrameInv'
  BY StepHandleTypes, StepHandleVideo, StepHandleExtra
<1>2. net # <<>> /\ net' = Tail(net) /\ UNCHANGED <<next, hurt>>
  BY DEF HandlePacket, Filled
<1>3. OrderInv'
  BY <1>2, HandledThrough
<1> QED BY <1>1, <1>3

-----------------------------------------------------------------------------
(* The theorems                                                            *)

FramesInv == Types /\ OrderInv /\ FrameInv /\ Unharmed

\* Every step keeps the invariant: one case per action.
LEMMA StepFrames == FramesInv /\ [Next]_vars => FramesInv'
<1> SUFFICES ASSUME FramesInv, [Next]_vars PROVE FramesInv'
  OBVIOUS
<1> USE DEF FramesInv
<1>1. CASE SendVideo
  BY <1>1, StepSendVideo DEF Unharmed, SendVideo
<1>2. CASE SendExtra
  BY <1>2, StepSendExtra DEF Unharmed, SendExtra
<1>3. ASSUME NEW kind, NEW tokens, Fault(kind, tokens) PROVE Unharmed'
  <2>1. faults \in Nat /\ faults' = faults + 1
    BY <1>3, BoundsAssumption DEF Types, Fault
  <2> QED BY <2>1 DEF Unharmed
<1>4. CASE Lose
  BY <1>3, <1>4, StepLose DEF Lose
<1>5. CASE Duplicate
  BY <1>3, <1>5, StepDuplicate DEF Duplicate
<1>6. CASE Reorder
  BY <1>3, <1>6, StepReorder DEF Reorder
<1>7. CASE Reset
  BY <1>3, <1>7, StepReset DEF Reset
<1>8. CASE HandlePacket
  BY <1>8, StepHandle DEF Unharmed, HandlePacket
<1>9. CASE UNCHANGED vars
  <2>1. UNCHANGED <<next, extras, net, frm_buf, stored, faults, hurt>>
    BY <1>9 DEF vars
  <2>2. \A t \in Video : Through(t)' <=> Through(t)
    BY <2>1 DEF Through
  <2>3. Types' /\ OrderInv' /\ Unharmed'
    BY <2>1, <2>2 DEF Types, OrderInv, Unharmed
  <2>4. FrameInv'
    BY <2>1, <2>2, FramesKept
  <2> QED BY <2>3, <2>4
<1> QED BY <1>1, <1>2, <1>4, <1>5, <1>6, <1>7, <1>8, <1>9 DEF Next

\* The inductive invariant holds in every reachable state.
LEMMA FramesInvariant == Spec => []FramesInv
<1>1. Init => FramesInv
  BY InitFrame DEF FramesInv, Unharmed, Init
<1> QED BY <1>1, StepFrames, PTL DEF Spec

\* The state is well-typed, and nothing but video gets into the frame buffer,
\* for any video and whatever the network does to it (rtp.c:45-74).
THEOREM FrameTypes == Spec => []TypeOK
<1>1. FramesInv => TypeOK
  <2> SUFFICES ASSUME Types PROVE TypeOK
    BY DEF FramesInv
  <2>1. next[1] \in 1 .. Len(Frames) + 1
    <3>1. next \in Video => next[1] \in 1 .. Len(Frames)
      BY VideoFacts
    <3> QED BY <3>1, FrameFacts DEF Types, Finish
  <2>2. {net[i].data : i \in 1 .. Len(net)} \cup hurt \subseteq Others \cup Video
    BY NetFacts DEF Types
  <2>3. ToSet(frm_buf) \subseteq Content
    <3>1. frm_buf \in Seq(Content)
      BY DEF Types
    <3>2. DOMAIN frm_buf = 1 .. Len(frm_buf) /\ \A i \in 1 .. Len(frm_buf) : frm_buf[i] \in Content
      BY <3>1, LenProperties, ElementOfSeq
    <3> QED BY <3>2 DEF ToSet
  <2>4. \A i \in 1 .. Len(stored) : stored[i].type \in FrmTypes
    <3>1. stored \in Seq(Stored)
      BY DEF Types
    <3>2. \A i \in 1 .. Len(stored) : stored[i] \in Stored
      BY <3>1, ElementOfSeq
    <3> QED BY <3>2 DEF Stored
  <2> QED BY <2>1, <2>2, <2>3, <2>4 DEF TypeOK, Types, Video, Others, Content
<1> QED BY <1>1, FramesInvariant, PTL

\* A fault hurts the frames it hits and no other, for any video and any number
\* of faults: once frame f is through, it was stored complete, in order and with
\* its type, if its own packets and the marker that ends the frame before it came
\* as they were sent, whatever happened to the rest. One buffer for all frames,
\* which nothing empties but a marker (rtp.c:66-73), is enough for that, as long as
\* only video has markers.
THEOREM DamageIsConfined ==
  ASSUME ~Marked
  PROVE  Spec => []Resynchronises
<1>1. FramesInv => Resynchronises
  <2> SUFFICES ASSUME FramesInv, NEW f \in 1 .. Len(Frames), Handled(f), Unhurt(f)
               PROVE  IsStored(f)
    BY DEF Resynchronises
  <2>1. LastToken(f) \in Tokens(f) /\ LastToken(f)[1] = f /\ LastToken(f) \in Video
    BY LastFacts
  <2>2. next[1] > f /\ \A i \in 1 .. Len(net) : net[i].data \notin Tokens(f)
    BY DEF Handled
  <2>3. Before(LastToken(f), next)
    BY <2>1, <2>2 DEF Before
  <2>4. Through(LastToken(f))
    BY <2>1, <2>2, <2>3 DEF Through
  <2> QED BY <2>4 DEF FramesInv, FrameInv, Apart
<1> QED BY <1>1, FramesInvariant, PTL

\* If each frame fits behind the user's room, no packet of a frame that nothing hit,
\* behind a marker that nothing hit, is ever copied past the end of the buffer,
\* however many frames around it were torn, doubled or joined, and whatever was left
\* of them in the buffer: the memcpy() calls of handle_rtp_pkt() (rtp.c:36-39, 46-52)
\* need a test for damaged frames only.
THEOREM FramesFit ==
  ASSUME ~Marked,
         \A f \in 1 .. Len(Frames) : FRM_HDR_SZ + Len(Whole(f).data) <= MAX_FRM_SZ
  PROVE  Spec => []FrameFits
<1>1. FramesInv => FrameFits
  <2> SUFFICES ASSUME FramesInv, net # <<>>, Head(net).media = "video",
                      Unhurt(Head(net).data[1])
               PROVE  ~Overruns(Head(net))
    BY DEF FrameFits
  <2>1. Types /\ OrderInv /\ Apart
    BY DEF FramesInv, FrameInv
  <2>2. net \in Seq(Packets)
    BY <2>1 DEF Types
  <2>3. 1 \in 1 .. Len(net) /\ Head(net) = net[1] /\ net[1] \in Packets
    BY <2>2, EmptySeq
  <2>4. net[1].data \in Video /\ net[1] = VideoPacket(net[1].data)
    <3>1. net[1].media \notin {"audio", "other"}
      BY <2>3
    <3> QED BY <2>3, <3>1, PacketFacts
  <2>5. PICK t \in Video : t = net[1].data
    BY <2>4
  <2>6. PICK f \in 1 .. Len(Frames) : f = t[1]
    BY VideoFacts
  <2>7. t \in Tokens(f) /\ Unhurt(f)
    BY <2>3, <2>5, <2>6, VideoFacts
  <2>8. frm_buf \o Appended(VideoPacket(t)) = UpTo(t)
    BY <2>1, <2>3, <2>5, <2>7, NextFills
  <2>9. Filled(Head(net)) = UpTo(t)
    BY <2>3, <2>4, <2>5, <2>8 DEF Filled
  <2>10. Len(UpTo(t)) <= Len(Whole(f).data) /\ Len(UpTo(t)) \in Nat
    BY <2>7, UpToFits, LenProperties
  <2>11. Len(Whole(f).data) \in Nat
    <3>1. UpTo(LastToken(f)) \in Seq(Content)
      BY LastFacts, UpToFits
    <3> QED BY <3>1, WholeFacts, LenProperties
  <2>12. PICK a, b : a = Len(UpTo(t)) /\ b = Len(Whole(f).data)
    OBVIOUS
  <2>13. /\ a \in Nat /\ b \in Nat /\ a <= b
         /\ FRM_HDR_SZ \in Nat /\ MAX_FRM_SZ \in Nat /\ FRM_HDR_SZ + b <= MAX_FRM_SZ
    BY <2>10, <2>11, <2>12, BoundsAssumption
  <2>14. ~(FRM_HDR_SZ + a > MAX_FRM_SZ)
    BY <2>13
  <2> QED BY <2>9, <2>12, <2>14 DEF Overruns
<1> QED BY <1>1, FramesInvariant, PTL

\* RtpFrame implements FrameStream, for any video: while nothing happens to the
\* packets, each step of the thread stores nothing or the next frame that was
\* sent, complete and of the right type; what happens to them does no more than
\* damage what is stored from then on, and takes nothing back (rtp.c:57-73).
THEOREM FramesInOrder ==
  ASSUME ~Marked
  PROVE  Spec => FrameSpec
<1> DEFINE Sent == [f \in 1 .. Len(Frames) |-> Whole(f)]
<1>1. Init => Delivered!FInit
  BY DEF Init, Delivered!FInit
<1>2. FramesInv /\ FramesInv' /\ [Next]_vars =>
        [Delivered!StoreFrame \/ Delivered!Damage \/ Delivered!StoreDamaged]_Delivered!fvars
  <2> SUFFICES ASSUME FramesInv, FramesInv', [Next]_vars
               PROVE  \/ Delivered!StoreFrame \/ Delivered!Damage \/ Delivered!StoreDamaged
                      \/ UNCHANGED Delivered!fvars
    OBVIOUS
  <2>1. faults \in Nat /\ Len(Frames) \in Nat
    BY FrameFacts, BoundsAssumption DEF FramesInv, Types
  <2>2. ASSUME UNCHANGED <<stored, faults>> PROVE UNCHANGED Delivered!fvars
    BY <2>2 DEF Delivered!fvars
  <2>3. ASSUME NEW kind, NEW tokens, Fault(kind, tokens) PROVE Delivered!Damage
    <3>1. faults' = faults + 1 /\ stored' = stored
      BY <2>3 DEF Fault
    <3>2. faults' # 0
      BY <2>1, <3>1
    <3> QED BY <3>1, <3>2 DEF Delivered!Damage
  <2>4. CASE HandlePacket
    <3>1. UNCHANGED faults /\ net # <<>>
      BY <2>4 DEF HandlePacket, Filled
    <3> DEFINE p == Head(net)
    <3>2. CASE ~p.m
      BY <2>2, <2>4, <3>1, <3>2 DEF HandlePacket, Filled
    <3>3. CASE p.m
      <4>1. PICK frame : stored' = Append(stored, frame)
        BY <2>4, <3>3 DEF HandlePacket, Filled
      <4>2. stored \in Seq(Stored) /\ stored' \in Seq(Stored) /\ Len(stored) \in Nat
        BY LenProperties DEF FramesInv, Types
      <4>3. /\ Len(stored') = Len(stored) + 1 /\ stored'[Len(stored) + 1] = frame
            /\ \A i \in 1 .. Len(stored) : stored'[i] = stored[i]
        BY <4>1, <4>2
      <4>4. CASE faults = 0
        <5>1. hurt' = {}
          BY <3>1, <4>4 DEF FramesInv, Unharmed
        <5>2. Len(stored') <= Len(Frames) /\ \A i \in 1 .. Len(stored') : stored'[i] = Whole(i)
          BY <5>1 DEF FramesInv, FrameInv, InTurn
        <5>3. Len(Sent) = Len(Frames) /\ \A i \in 1 .. Len(Frames) : Sent[i] = Whole(i)
          BY <2>1, FrameDomains
        <5> HIDE DEF Sent
        <5>4. Len(stored) < Len(Sent) /\ frame = Sent[Len(stored) + 1]
          BY <2>1, <4>2, <4>3, <5>2, <5>3
        <5> QED BY <3>1, <4>1, <4>4, <5>4 DEF Delivered!StoreFrame, Sent
      <4>5. CASE faults # 0
        <5>1. SubSeq(stored', 1, Len(stored)) = stored
          BY <4>2, <4>3
        <5> QED BY <3>1, <4>3, <4>5, <5>1 DEF Delivered!StoreDamaged
      <4> QED BY <4>4, <4>5
    <3> QED BY <3>2, <3>3
  <2>5. CASE SendVideo \/ SendExtra
    BY <2>2, <2>5 DEF SendVideo, SendExtra
  <2>6. CASE Lose \/ Duplicate \/ Reorder \/ Reset
    BY <2>3, <2>6 DEF Lose, Duplicate, Reorder, Reset
  <2>7. CASE UNCHANGED vars
    BY <2>2, <2>7 DEF vars
  <2> QED BY <2>4, <2>5, <2>6, <2>7 DEF Next
<1> QED BY <1>1, <1>2, FramesInvariant, PTL DEF Spec, FrameSpec, Delivered!FSpec

=============================================================================
