-------------------------- MODULE LinkedListProofs ---------------------------
(***************************************************************************)
(* What the operations of list.h write, for every memory: facts that the   *)
(* proofs about the send queue and about the session list share.           *)
(***************************************************************************)
EXTENDS LinkedList, Integers, NaturalsInduction, WellFoundedInduction, FiniteSetTheorems,
        SequenceTheorems, TLAPS

-----------------------------------------------------------------------------
(* Sets of natural numbers                                                 *)

\* A set of natural numbers has a least element.
LEMMA LeastNumber ==
  ASSUME NEW S \in SUBSET Nat, S # {}
  PROVE  \E x \in S : \A y \in S : x <= y
<1> DEFINE R == OpToRel(<, Nat)
<1>1. IsWellFoundedOn(R, Nat)
  BY NatLessThanWellFounded
<1>2. \A x, y \in Nat : <<y, x>> \in R <=> y < x
  BY DEF OpToRel
<1> HIDE DEF R
<1>3. PICK x \in S : \A y \in S : ~ (<<y, x>> \in R)
  BY <1>1, WFMin, Zenon
<1>4. \A y \in S : ~ (y < x)
  BY <1>2, <1>3, Zenon
<1>5. \A y \in S : x <= y
  BY <1>4
<1> QED BY <1>5

\* A set with 0 and with the successor of each of its numbers has all of them.
LEMMA SetInduction ==
  ASSUME NEW S \in SUBSET Nat, 0 \in S, \A n \in S : n + 1 \in S
  PROVE  S = Nat
<1> DEFINE T == Nat \ S
<1>1. SUFFICES ASSUME T # {} PROVE FALSE
  OBVIOUS
<1>2. T \in SUBSET Nat
  OBVIOUS
<1>3. PICK x \in T : \A y \in T : x <= y
  <2> HIDE DEF T
  <2> QED BY <1>1, <1>2, LeastNumber
<1>4. x # 0 /\ x \in Nat /\ x - 1 \in Nat /\ x - 1 < x
  OBVIOUS
<1>5. x - 1 \notin T
  BY <1>3, <1>4
<1>6. x - 1 \in S /\ (x - 1) + 1 = x
  BY <1>4, <1>5
<1> QED BY <1>6

\* What a pointer write does to memory.
LEMMA PutFacts ==
  \A l \in Links, w \in Writes :
    /\ Put(l, w) \in Links
    /\ \A c \in Cells, f \in Fields :
         Put(l, w)[c][f] = IF c = w.at /\ f = w.field THEN w.to ELSE l[c][f]
  BY DEF Links, Writes, Put

\* The pointers that the operations of list.h write are pointers.
LEMMA WriteFacts ==
  /\ \A at \in Cells, field \in Fields, to \in Pointers :
       /\ Write(at, field, to) \in Writes
       /\ Write(at, field, to).at = at
       /\ Write(at, field, to).field = field
       /\ Write(at, field, to).to = to
  /\ "next" \in Fields /\ "prev" \in Fields
  /\ Cells \subseteq Pointers /\ ListHead \in Cells /\ Entries \subseteq Cells
  /\ LIST_POISON \in Pointers \ Cells /\ NULL \in Pointers \ Cells
  /\ ListHead \notin Entries
  BY ListAssumption DEF Write, Writes, Fields, Pointers, Cells

\* What is left of four writes when one is.
LEMMA OneLeft ==
  ASSUME NEW s, NEW a, NEW b, NEW c, NEW d, Len(s) = 1,
         s \in {<<a, b, c, d>>, <<b, c, d>>, <<c, d>>, <<d>>}
  PROVE  s = <<d>>
<1>1. s # <<a, b, c, d>>
  OBVIOUS
<1>2. s # <<b, c, d>>
  OBVIOUS
<1>3. s # <<c, d>>
  OBVIOUS
<1> QED BY <1>1, <1>2, <1>3
-----------------------------------------------------------------------------
(* What a walk meets                                                       *)

\* The i-th entry of a sequence; the head in front of the first and behind the
\* last. The first n pointers from the head on lead through the sequence.
Spot(s, i) == IF i \in 1 .. Len(s) THEN s[i] ELSE ListHead
Leads(l, field, s, n) == \A i \in 0 .. n - 1 : l[Spot(s, i)][field] = Spot(s, i + 1)

\* The pointers lead through the whole sequence, and back to the head.
Round(l, field, s) == Leads(l, field, s, Len(s) + 1)

\* Pointers of a set of entries, and of the head, lead to one of them, upwards
\* until they lead to the head.
Climbs(l, field, M, rank) ==
  \A p \in M \cup {ListHead} :
    \/ l[p][field] = ListHead
    \/ l[p][field] \in M /\ rank[p] < rank[l[p][field]]

\* A pointer leads to each of them.
AllLedTo(l, field, M) == \A q \in M : \E p \in M \cup {ListHead} : l[p][field] = q

\* As far as n entries, or as the head.
Climb(l, field, M, rank, n, s) ==
  /\ s \in Seq(M)
  /\ Leads(l, field, s, Len(s))
  /\ \A i, j \in 1 .. Len(s) : i < j => rank[s[i]] < rank[s[j]]
  /\ Len(s) = n \/ l[Spot(s, Len(s))][field] = ListHead

\* The entries of a sequence, the last one and what comes after it.
LEMMA SpotFacts ==
  ASSUME NEW T, NEW s \in Seq(T)
  PROVE  /\ Len(s) \in Nat
         /\ Spot(s, 0) = ListHead /\ Spot(s, Len(s) + 1) = ListHead
         /\ \A i \in 1 .. Len(s) : Spot(s, i) = s[i] /\ s[i] \in T
         /\ \A i \in 0 .. Len(s) : Spot(s, i) \in T \cup {ListHead}
<1>1. Len(s) \in Nat /\ \A i \in 1 .. Len(s) : s[i] \in T
  BY LenProperties, ElementOfSeq
<1>2. 0 \notin 1 .. Len(s) /\ Len(s) + 1 \notin 1 .. Len(s)
  BY <1>1
<1> QED BY <1>1, <1>2 DEF Spot

\* A climb of n steps, and one of one step more.
LEMMA ClimbOn ==
  ASSUME NEW l, NEW field, NEW M \in SUBSET Entries, NEW rank \in [Cells -> Nat],
         Climbs(l, field, M, rank),
         NEW n \in Nat, NEW s, Climb(l, field, M, rank, n, s)
  PROVE  \E t : Climb(l, field, M, rank, n + 1, t)
<1>1. /\ s \in Seq(M) /\ Len(s) \in Nat /\ Leads(l, field, s, Len(s))
      /\ \A i, j \in 1 .. Len(s) : i < j => rank[s[i]] < rank[s[j]]
      /\ \A i \in 1 .. Len(s) : s[i] \in M /\ rank[s[i]] \in Nat
  BY SpotFacts, WriteFacts DEF Climb
<1>2. CASE l[Spot(s, Len(s))][field] = ListHead
  BY <1>2 DEF Climb
<1>3. CASE l[Spot(s, Len(s))][field] # ListHead
  <2>1. Len(s) = n
    BY <1>3 DEF Climb
  <2> DEFINE x == l[Spot(s, n)][field]
  <2>2. Spot(s, n) \in M \cup {ListHead}
    BY <1>1, <2>1, SpotFacts
  <2>3. x \in M /\ rank[Spot(s, n)] < rank[x] /\ rank[x] \in Nat
    BY <1>3, <2>1, <2>2, WriteFacts DEF Climbs
  <2> DEFINE t == Append(s, x)
  <2>4. /\ t \in Seq(M) /\ Len(t) = n + 1 /\ t[n + 1] = x
        /\ \A i \in 1 .. n : t[i] = s[i]
    BY <1>1, <2>1, <2>3, AppendProperties
  <2> HIDE DEF t
  <2>5. /\ \A i \in 0 .. n : Spot(t, i) = Spot(s, i)
        /\ Spot(t, n + 1) = x
    <3>1. /\ n + 1 \in 1 .. n + 1
          /\ \A i \in 0 .. n : i \in 1 .. n + 1 <=> i \in 1 .. n
      OBVIOUS
    <3> QED BY <2>1, <2>4, <3>1 DEF Spot
  <2> HIDE DEF x
  <2>6. Leads(l, field, t, Len(t))
    <3> SUFFICES ASSUME NEW i \in 0 .. n PROVE l[Spot(t, i)][field] = Spot(t, i + 1)
      BY <2>4 DEF Leads
    <3>1. CASE i = n
      BY <2>5, <3>1 DEF x
    <3>2. CASE i # n
      <4>1. i \in 0 .. n - 1 /\ i + 1 \in 0 .. n
        BY <3>2
      <4> QED BY <1>1, <2>1, <2>5, <4>1 DEF Leads
    <3> QED BY <3>1, <3>2
  <2>7. ASSUME NEW i \in 1 .. Len(t), NEW j \in 1 .. Len(t), i < j
        PROVE  rank[t[i]] < rank[t[j]]
    <3>1. CASE j # n + 1
      <4>1. i \in 1 .. n /\ j \in 1 .. n
        BY <2>4, <2>7, <3>1
      <4> QED BY <1>1, <2>1, <2>4, <2>7, <4>1
    <3>2. CASE j = n + 1
      <4>1. i \in 1 .. n /\ n \in 1 .. n /\ t[i] = s[i] /\ t[j] = x
        BY <2>4, <2>7, <3>2
      <4>2. Spot(s, n) = s[n]
        BY <2>1, <4>1 DEF Spot
      <4>3. rank[s[i]] <= rank[s[n]]
        <5>1. CASE i = n
          BY <1>1, <2>1, <4>1, <5>1
        <5>2. CASE i # n
          <6>1. i < n
            BY <4>1, <5>2
          <6> QED BY <1>1, <2>1, <4>1, <6>1
        <5> QED BY <5>1, <5>2
      <4> QED BY <1>1, <2>1, <2>3, <4>1, <4>2, <4>3
    <3> QED BY <3>1, <3>2
  <2>8. Climb(l, field, M, rank, n + 1, t)
    BY <2>4, <2>6, <2>7 DEF Climb
  <2> QED BY <2>8
<1> QED BY <1>2, <1>3

\* A sequence that repeats no entry is no longer than there are entries.
LEMMA AtMostEntries ==
  ASSUME NEW M \in SUBSET Entries, NEW s \in Seq(M),
         \A i, j \in 1 .. Len(s) : i # j => s[i] # s[j]
  PROVE  Len(s) <= Cardinality(Entries)
<1> DEFINE D == 1 .. Len(s)
<1>1. /\ Len(s) \in Nat /\ s \in [D -> M]
      /\ IsFiniteSet(Entries) /\ Cardinality(Entries) \in Nat
  BY LenProperties, ListAssumption, FS_CardinalityType
<1>2. s \in [D -> Entries]
  <2>1. \A i \in D : s[i] \in Entries
    BY <1>1
  <2> QED BY <1>1, <2>1
<1>3. IsFiniteSet(D) /\ Cardinality(D) = Len(s)
  <2>1. PICK n \in Nat : n = Len(s)
    BY LenProperties
  <2>2. IsFiniteSet(1 .. n) /\ Cardinality(1 .. n) = n
    BY FS_Interval
  <2> QED BY <2>1, <2>2
<1> HIDE DEF D
<1>4. ~(Cardinality(Entries) < Cardinality(D))
  <2>1. \A i, j \in D : i # j => s[i] # s[j]
    BY DEF D
  <2> QED BY <1>1, <1>2, <1>3, <2>1, FS_PigeonHole
<1> QED BY <1>1, <1>3, <1>4

\* A climb ends at the head, before it met more entries than there are.
LEMMA ClimbEnds ==
  ASSUME NEW l, NEW field, NEW M \in SUBSET Entries, NEW rank \in [Cells -> Nat],
         Climbs(l, field, M, rank)
  PROVE  \E s \in Seq(M) :
           /\ Round(l, field, s) /\ Len(s) <= Cardinality(Entries)
           /\ \A i, j \in 1 .. Len(s) : i # j => s[i] # s[j]
<1> DEFINE S == {n \in Nat : \E s : Climb(l, field, M, rank, n, s)}
           top == Cardinality(Entries) + 1
<1>1. 0 \in S
  <2>1. <<>> \in Seq(M) /\ Len(<<>>) = 0
    BY EmptySeq
  <2>2. Climb(l, field, M, rank, 0, <<>>)
    BY <2>1 DEF Climb, Leads
  <2> QED BY <2>2
<1>2. ASSUME NEW n \in S PROVE n + 1 \in S
  <2>1. PICK s : Climb(l, field, M, rank, n, s)
    OBVIOUS
  <2>2. \E t : Climb(l, field, M, rank, n + 1, t)
    BY <2>1, ClimbOn
  <2> QED BY <2>2
<1>3. S = Nat
  <2>1. S \in SUBSET Nat
    OBVIOUS
  <2> HIDE DEF S
  <2> QED BY <1>1, <1>2, <2>1, SetInduction
<1>4. IsFiniteSet(Entries) /\ Cardinality(Entries) \in Nat /\ top \in Nat
  BY ListAssumption, FS_CardinalityType
<1>5. PICK s : Climb(l, field, M, rank, top, s)
  <2>1. top \in S
    BY <1>3, <1>4
  <2> QED BY <2>1
<1> HIDE DEF S, top
<1>6. /\ s \in Seq(M) /\ Len(s) \in Nat /\ Leads(l, field, s, Len(s))
      /\ \A i, j \in 1 .. Len(s) : i < j => rank[s[i]] < rank[s[j]]
      /\ \A i \in 1 .. Len(s) : s[i] \in M /\ rank[s[i]] \in Nat
      /\ Len(s) = top \/ l[Spot(s, Len(s))][field] = ListHead
  BY <1>5, SpotFacts, WriteFacts DEF Climb
<1>7. ASSUME NEW i \in 1 .. Len(s), NEW j \in 1 .. Len(s), i # j PROVE s[i] # s[j]
  <2>1. i < j \/ j < i
    BY <1>6, <1>7
  <2>2. rank[s[i]] # rank[s[j]]
    BY <1>6, <2>1
  <2> QED BY <2>2
<1>8. Len(s) <= Cardinality(Entries)
  BY <1>6, <1>7, AtMostEntries
<1>9. l[Spot(s, Len(s))][field] = ListHead
  BY <1>4, <1>6, <1>8 DEF top
<1>10. Round(l, field, s)
  <2> SUFFICES ASSUME NEW i \in 0 .. Len(s) PROVE l[Spot(s, i)][field] = Spot(s, i + 1)
    BY <1>6 DEF Round, Leads
  <2>1. CASE i = Len(s)
    BY <1>6, <1>9, <2>1, SpotFacts
  <2>2. CASE i # Len(s)
    <3>1. i \in 0 .. Len(s) - 1
      BY <1>6, <2>2
    <3> QED BY <1>6, <3>1 DEF Leads
  <2> QED BY <2>1, <2>2
<1> QED BY <1>6, <1>7, <1>8, <1>10

\* The pointers lead round through one sequence only.
LEMMA OneRound ==
  ASSUME NEW l, NEW field, NEW s \in Seq(Entries), Round(l, field, s),
         NEW t \in Seq(Entries), Round(l, field, t)
  PROVE  s = t
<1>1. /\ Len(s) \in Nat /\ Len(t) \in Nat
      /\ \A i \in 1 .. Len(s) : s[i] \in Entries /\ Spot(s, i) = s[i]
      /\ \A i \in 1 .. Len(t) : t[i] \in Entries /\ Spot(t, i) = t[i]
      /\ Spot(s, 0) = ListHead /\ Spot(s, Len(s) + 1) = ListHead
      /\ Spot(t, 0) = ListHead /\ Spot(t, Len(t) + 1) = ListHead
      /\ ListHead \notin Entries
  BY SpotFacts, WriteFacts
<1>2. /\ \A i \in 0 .. Len(s) : l[Spot(s, i)][field] = Spot(s, i + 1)
      /\ \A i \in 0 .. Len(t) : l[Spot(t, i)][field] = Spot(t, i + 1)
  BY <1>1 DEF Round, Leads
<1> DEFINE S == {n \in Nat : n <= Len(s) => n <= Len(t) /\ Spot(s, n) = Spot(t, n)}
<1>3. 0 \in S
  BY <1>1
<1>4. ASSUME NEW n \in S PROVE n + 1 \in S
  <2> SUFFICES ASSUME n + 1 <= Len(s)
               PROVE  n + 1 <= Len(t) /\ Spot(s, n + 1) = Spot(t, n + 1)
    OBVIOUS
  <2>1. n \in Nat /\ n <= Len(s) /\ n <= Len(t) /\ Spot(s, n) = Spot(t, n)
    BY <1>1
  <2>2. Spot(s, n + 1) = Spot(t, n + 1)
    BY <1>1, <1>2, <2>1
  <2>3. Spot(s, n + 1) \in Entries
    BY <1>1, <2>1
  <2>4. n # Len(t)
    BY <1>1, <2>2, <2>3
  <2> QED BY <1>1, <2>1, <2>2, <2>4
<1>5. S = Nat
  <2>1. S \in SUBSET Nat
    OBVIOUS
  <2> HIDE DEF S
  <2> QED BY <1>3, <1>4, <2>1, SetInduction
<1>6. \A n \in 0 .. Len(s) : n <= Len(t) /\ Spot(s, n) = Spot(t, n)
  BY <1>1, <1>5
<1>7. Len(s) = Len(t)
  <2>1. Len(s) \in 0 .. Len(s) /\ Len(s) <= Len(t) /\ Spot(s, Len(s)) = Spot(t, Len(s))
    BY <1>1, <1>6
  <2>2. Spot(t, Len(s) + 1) = ListHead
    BY <1>1, <1>2, <2>1
  <2>3. Len(s) + 1 \notin 1 .. Len(t)
    BY <1>1, <2>2
  <2> QED BY <1>1, <2>1, <2>3
<1>8. \A i \in 1 .. Len(s) : s[i] = t[i]
  BY <1>1, <1>6, <1>7
<1> QED BY <1>7, <1>8, SeqEqual

\* What a walk of n steps has met, from what one of n - 1 steps had.
WalkStep(l, field, met) ==
  LET here  == IF met = <<>> THEN ListHead ELSE met[Len(met)]
      after == l[here][field]
  IN  IF after \in Entries THEN Append(met, after) ELSE met

Walks(l, field, walk) ==
  walk = [n \in 0 .. Cardinality(Entries) |->
            IF n = 0 THEN <<>> ELSE WalkStep(l, field, walk[n - 1])]

\* A walk meets the entries of a round, and of nothing else.
LEMMA WalkIsRound ==
  ASSUME NEW l, NEW field, NEW s \in Seq(Entries), Round(l, field, s),
         Len(s) <= Cardinality(Entries)
  PROVE  Walk(l, field) = s
<1> DEFINE top == Cardinality(Entries)
           h == CHOOSE walk : Walks(l, field, walk)
           to(n) == IF n <= Len(s) THEN n ELSE Len(s)
           g == [n \in 0 .. top |-> SubSeq(s, 1, to(n))]
<1>1. Walk(l, field) = h[top]
  BY DEF Walk, Walks, WalkStep
<1>2. top \in Nat /\ Len(s) \in Nat /\ Len(s) <= top
  BY ListAssumption, FS_CardinalityType, LenProperties
<1>3. /\ \A i \in 1 .. Len(s) : s[i] \in Entries /\ Spot(s, i) = s[i]
      /\ Spot(s, 0) = ListHead /\ Spot(s, Len(s) + 1) = ListHead
      /\ ListHead \notin Entries
      /\ \A i \in 0 .. Len(s) : l[Spot(s, i)][field] = Spot(s, i + 1)
  BY <1>2, SpotFacts, WriteFacts DEF Round, Leads
<1> HIDE DEF h, top
<1>4. ASSUME NEW n \in 0 .. Len(s)
      PROVE  /\ SubSeq(s, 1, n) \in Seq(Entries) /\ Len(SubSeq(s, 1, n)) = n
             /\ \A i \in 1 .. n : SubSeq(s, 1, n)[i] = s[i]
  <2>1. n \in Nat /\ \A i \in 1 .. n : s[i] \in Entries
    BY <1>2, <1>3
  <2> QED BY <2>1, SubSeqProperties
<1>5. ASSUME NEW n \in 0 .. Len(s)
      PROVE  WalkStep(l, field, SubSeq(s, 1, n)) = SubSeq(s, 1, to(n + 1))
  <2> DEFINE met == SubSeq(s, 1, n)
             here == IF met = <<>> THEN ListHead ELSE met[Len(met)]
  <2>1. here = Spot(s, n)
    <3>1. CASE n = 0
      <4>1. met = <<>>
        BY <1>4, <3>1, EmptySeq
      <4> QED BY <1>3, <3>1, <4>1
    <3>2. CASE n # 0
      <4>1. n \in 1 .. n /\ n \in 1 .. Len(s) /\ Len(met) = n /\ met[n] = s[n]
        BY <1>2, <1>4, <3>2
      <4>2. met # <<>>
        BY <3>2, <4>1, EmptySeq
      <4> QED BY <1>3, <4>1, <4>2
    <3> QED BY <3>1, <3>2
  <2>2. l[here][field] = Spot(s, n + 1)
    BY <1>3, <2>1
  <2>3. CASE n = Len(s)
    <3>1. to(n + 1) = n /\ l[here][field] \notin Entries
      BY <1>2, <1>3, <2>2, <2>3
    <3> QED BY <3>1 DEF WalkStep
  <2>4. CASE n # Len(s)
    <3>1. n + 1 \in 0 .. Len(s) /\ n + 1 \in 1 .. Len(s) /\ to(n + 1) = n + 1
      BY <1>2, <2>4
    <3>2. l[here][field] = s[n + 1] /\ s[n + 1] \in Entries
      BY <1>3, <2>2, <3>1
    <3>3. WalkStep(l, field, met) = Append(met, s[n + 1])
      BY <3>2 DEF WalkStep
    <3> DEFINE more == SubSeq(s, 1, n + 1)
    <3>4. /\ more \in Seq(Entries) /\ Len(more) = n + 1
          /\ \A i \in 1 .. n + 1 : more[i] = s[i]
      BY <1>4, <3>1
    <3>5. /\ Append(met, s[n + 1]) \in Seq(Entries) /\ Len(Append(met, s[n + 1])) = n + 1
          /\ Append(met, s[n + 1])[n + 1] = s[n + 1]
          /\ \A i \in 1 .. n : Append(met, s[n + 1])[i] = s[i]
      <4>1. met \in Seq(Entries) /\ Len(met) = n /\ \A i \in 1 .. n : met[i] = s[i]
        BY <1>4
      <4> HIDE DEF met
      <4> QED BY <3>2, <4>1, AppendProperties
    <3> DEFINE app == Append(met, s[n + 1])
    <3> HIDE DEF more, met, app
    <3>6. \A i \in 1 .. n + 1 : app[i] = more[i]
      <4> SUFFICES ASSUME NEW i \in 1 .. n + 1 PROVE app[i] = more[i]
        OBVIOUS
      <4>1. i \in 1 .. n \/ i = n + 1
        BY <1>2
      <4> QED BY <3>4, <3>5, <4>1 DEF app
    <3>7. app = more
      BY <3>4, <3>5, <3>6, SeqEqual DEF app
    <3> QED BY <3>1, <3>3, <3>7 DEF more, app, met
  <2> QED BY <2>3, <2>4
<1>6. Walks(l, field, g)
  <2> DEFINE r == [n \in 0 .. top |-> IF n = 0 THEN <<>> ELSE WalkStep(l, field, g[n - 1])]
  <2>1. ASSUME NEW n \in 0 .. top
        PROVE  g[n] = IF n = 0 THEN <<>> ELSE WalkStep(l, field, g[n - 1])
    <3>1. CASE n = 0
      <4>1. g[n] = SubSeq(s, 1, 0) /\ 0 \in 0 .. Len(s)
        BY <1>2, <3>1
      <4>2. g[n] = <<>>
        BY <1>4, <4>1, EmptySeq
      <4> QED BY <3>1, <4>2
    <3>2. CASE n # 0
      <4>1. n - 1 \in 0 .. top /\ (n - 1) + 1 = n /\ n \in Nat /\ n - 1 \in Nat
        BY <1>2, <3>2
      <4>2. g[n - 1] = SubSeq(s, 1, to(n - 1)) /\ g[n] = SubSeq(s, 1, to(n))
        BY <4>1
      <4>3. to(n - 1) \in 0 .. Len(s) /\ to(to(n - 1) + 1) = to(n)
        BY <1>2, <4>1
      <4> HIDE DEF to, g
      <4>4. WalkStep(l, field, g[n - 1]) = g[n]
        BY <1>5, <4>2, <4>3
      <4> QED BY <3>2, <4>4
    <3> QED BY <3>1, <3>2
  <2>2. g = [n \in 0 .. top |-> g[n]]
    OBVIOUS
  <2> HIDE DEF g
  <2>3. g = r
    BY <2>1, <2>2
  <2> QED BY <2>3 DEF Walks, top
<1>7. Walks(l, field, h)
  BY <1>6 DEF h
<1>8. \A n \in 0 .. top : h[n] = IF n = 0 THEN <<>> ELSE WalkStep(l, field, h[n - 1])
  <2> DEFINE r == [n \in 0 .. top |-> IF n = 0 THEN <<>> ELSE WalkStep(l, field, h[n - 1])]
  <2>1. h = r
    BY <1>7 DEF Walks, top
  <2>2. \A n \in 0 .. top : r[n] = IF n = 0 THEN <<>> ELSE WalkStep(l, field, h[n - 1])
    OBVIOUS
  <2> HIDE DEF r
  <2> QED BY <2>1, <2>2
<1>9. \A n \in 0 .. top : g[n] = IF n = 0 THEN <<>> ELSE WalkStep(l, field, g[n - 1])
  <2> DEFINE r == [n \in 0 .. top |-> IF n = 0 THEN <<>> ELSE WalkStep(l, field, g[n - 1])]
  <2> HIDE DEF g
  <2>1. g = r
    BY <1>6 DEF Walks, top
  <2>2. \A n \in 0 .. top : r[n] = IF n = 0 THEN <<>> ELSE WalkStep(l, field, g[n - 1])
    OBVIOUS
  <2> HIDE DEF r
  <2> QED BY <2>1, <2>2
<1> DEFINE S == {n \in Nat : n <= top => g[n] = h[n]}
<1> HIDE DEF g
<1>10. ASSUME NEW n \in S PROVE n + 1 \in S
  <2> SUFFICES ASSUME n + 1 <= top PROVE g[n + 1] = h[n + 1]
    OBVIOUS
  <2>1. n + 1 \in 0 .. top /\ n + 1 # 0 /\ (n + 1) - 1 = n /\ g[n] = h[n]
    BY <1>2
  <2> QED BY <1>8, <1>9, <2>1
<1>11. 0 \in S
  <2>1. 0 \in 0 .. top
    BY <1>2
  <2>2. g[0] = <<>> /\ h[0] = <<>>
    BY <1>8, <1>9, <2>1
  <2> QED BY <2>2
<1>12. g[top] = h[top]
  <2>1. S \in SUBSET Nat
    OBVIOUS
  <2>2. S = Nat
    <3> HIDE DEF S
    <3> QED BY <1>10, <1>11, <2>1, SetInduction
  <2>3. top \in S
    BY <1>2, <2>2
  <2> QED BY <1>2, <2>3
<1>13. g[top] = s
  <2>1. to(top) = Len(s) /\ Len(s) \in 0 .. Len(s) /\ top \in 0 .. top
    BY <1>2
  <2>2. g[top] = SubSeq(s, 1, Len(s))
    BY <2>1 DEF g
  <2> HIDE DEF to
  <2> QED BY <1>2, <1>4, <2>1, <2>2, SeqEqual
<1> QED BY <1>1, <1>12, <1>13

\* Pointers that climb are a list: a walk meets entries of the set, each of
\* them once, and comes round.
LEMMA WalkFacts ==
  ASSUME NEW l, NEW field, NEW M \in SUBSET Entries, NEW rank \in [Cells -> Nat],
         Climbs(l, field, M, rank)
  PROVE  /\ Walk(l, field) \in Seq(M) /\ Round(l, field, Walk(l, field))
         /\ Len(Walk(l, field)) \in Nat
         /\ \A i \in 1 .. Len(Walk(l, field)) : Walk(l, field)[i] \in M
         /\ \A i, j \in 1 .. Len(Walk(l, field)) :
              i # j => Walk(l, field)[i] # Walk(l, field)[j]
         /\ \A s \in Seq(Entries) : Round(l, field, s) => Walk(l, field) = s
<1>1. PICK s \in Seq(M) : /\ Round(l, field, s) /\ Len(s) <= Cardinality(Entries)
                          /\ \A i, j \in 1 .. Len(s) : i # j => s[i] # s[j]
  BY ClimbEnds
<1>2. s \in Seq(Entries) /\ Len(s) \in Nat /\ \A i \in 1 .. Len(s) : s[i] \in M
  <2>1. Len(s) \in Nat /\ s \in [1 .. Len(s) -> M] /\ \A i \in 1 .. Len(s) : s[i] \in M
    BY LenProperties, ElementOfSeq
  <2> QED BY <2>1
<1>3. Walk(l, field) = s
  BY <1>1, <1>2, WalkIsRound
<1> HIDE DEF Walk
<1>4. \A t \in Seq(Entries) : Round(l, field, t) => t = s
  BY <1>1, <1>2, OneRound
<1> QED BY <1>1, <1>2, <1>3, <1>4

\* When moreover each entry of the set comes after another or after the head,
\* the walk meets them all: of those it did not, the lowest would come after
\* one that it met.
LEMMA WalkMeetsAll ==
  ASSUME NEW l, NEW field, NEW M \in SUBSET Entries, NEW rank \in [Cells -> Nat],
         Climbs(l, field, M, rank),
         AllLedTo(l, field, M)
  PROVE  \A q \in M : \E i \in 1 .. Len(Walk(l, field)) : Walk(l, field)[i] = q
<1> DEFINE s == Walk(l, field)
           Met == {s[i] : i \in 1 .. Len(s)}
           Missed == {rank[q] : q \in M \ Met}
<1>1. /\ s \in Seq(M) /\ Round(l, field, s) /\ Len(s) \in Nat
      /\ ListHead \notin Entries /\ Entries \subseteq Cells
  BY WalkFacts, WriteFacts
<1> HIDE DEF s
<1>2. /\ \A i \in 0 .. Len(s) : l[Spot(s, i)][field] = Spot(s, i + 1)
      /\ Spot(s, 0) = ListHead /\ Spot(s, Len(s) + 1) = ListHead
      /\ \A i \in 1 .. Len(s) : Spot(s, i) = s[i]
  BY <1>1, SpotFacts DEF Round, Leads
<1>3. SUFFICES ASSUME Missed # {} PROVE FALSE
  BY DEF s
<1>4. Missed \in SUBSET Nat
  BY <1>1
<1>5. PICK least \in Missed : \A x \in Missed : least <= x
  <2> HIDE DEF Missed
  <2> QED BY <1>3, <1>4, LeastNumber
<1>6. PICK q \in M \ Met : least = rank[q]
  BY <1>5
<1>7. PICK p \in M \cup {ListHead} : l[p][field] = q
  BY <1>6 DEF AllLedTo
<1>8. ASSUME NEW i \in 0 .. Len(s), p = Spot(s, i) PROVE FALSE
  <2>1. Spot(s, i + 1) = q /\ q # ListHead
    BY <1>1, <1>2, <1>6, <1>7, <1>8
  <2>2. i + 1 \in 1 .. Len(s)
    BY <1>1, <1>2, <2>1
  <2>3. q = s[i + 1]
    BY <1>2, <2>1, <2>2
  <2> QED BY <1>6, <2>2, <2>3
<1>9. p # ListHead
  <2>1. 0 \in 0 .. Len(s)
    BY <1>1
  <2> QED BY <1>2, <1>8, <2>1
<1>10. p \notin Met
  <2> SUFFICES ASSUME NEW i \in 1 .. Len(s), p = s[i] PROVE FALSE
    OBVIOUS
  <2>1. i \in 0 .. Len(s) /\ Spot(s, i) = s[i]
    BY <1>1, <1>2
  <2> QED BY <1>8, <2>1
<1>11. rank[p] < rank[q] /\ rank[p] \in Missed
  <2>1. p \in M /\ q # ListHead
    BY <1>1, <1>6, <1>9
  <2>2. rank[p] < rank[q]
    <3> HIDE DEF Met, Missed
    <3> QED BY <1>7, <2>1 DEF Climbs
  <2>3. p \in M \ Met
    BY <1>10, <2>1
  <2>4. rank[p] \in Missed
    BY <2>3
  <2> QED BY <2>2, <2>4
<1> HIDE DEF Met, Missed
<1>12. rank[p] \in Nat /\ least \in Nat /\ least <= rank[p]
  BY <1>4, <1>5, <1>11
<1> QED BY <1>6, <1>11, <1>12

\* Pointers that lead back and forth between the entries of a round are all
\* that the list holds.
LEMMA RoundHolds ==
  ASSUME NEW l, NEW s, NEW T, s \in Seq(T), Round(l, "next", s),
         \A p \in T \cup {ListHead} : l[l[p]["next"]]["prev"] = p
  PROVE  Holds(l, s)
<1>1. /\ Len(s) \in Nat /\ \A i \in 0 .. Len(s) : Spot(s, i) \in T \cup {ListHead}
      /\ \A i \in 0 .. Len(s) : l[Spot(s, i)]["next"] = Spot(s, i + 1)
  BY SpotFacts DEF Round, Leads
<1>2. \A i \in 0 .. Len(s) : l[Spot(s, i + 1)]["prev"] = Spot(s, i)
  BY <1>1
<1> QED BY <1>1, <1>2 DEF Holds, Spot

\* The pointers of two memories at some places of a sequence are the same.
SameAt(l, m, field, s, places) ==
  \A i \in places : m[Spot(s, i)][field] = l[Spot(s, i)][field]

\* One entry more behind the last one.
LEMMA RoundAppend ==
  ASSUME NEW l, NEW m, NEW field, NEW s \in Seq(Entries), Round(l, field, s),
         NEW e \in Entries, m[e][field] = ListHead, m[Spot(s, Len(s))][field] = e,
         SameAt(l, m, field, s, 0 .. Len(s) - 1)
  PROVE  Append(s, e) \in Seq(Entries) /\ Round(m, field, Append(s, e))
<1> DEFINE n == Len(s)
           t == Append(s, e)
<1>1. /\ n \in Nat /\ \A i \in 0 .. n : l[Spot(s, i)][field] = Spot(s, i + 1)
      /\ t \in Seq(Entries) /\ Len(t) = n + 1 /\ t[n + 1] = e
      /\ \A i \in 1 .. n : t[i] = s[i]
  BY SpotFacts, AppendProperties DEF Round, Leads
<1> HIDE DEF t
<1>2. /\ \A i \in 0 .. n : Spot(t, i) = Spot(s, i)
      /\ Spot(t, n + 1) = e /\ Spot(t, n + 2) = ListHead
  <2>1. /\ n + 1 \in 1 .. n + 1 /\ n + 2 \notin 1 .. n + 1
        /\ \A i \in 0 .. n : i \in 1 .. n + 1 <=> i \in 1 .. n
    BY <1>1
  <2> QED BY <1>1, <2>1 DEF Spot
<1>3. ASSUME NEW i \in 0 .. n + 1 PROVE m[Spot(t, i)][field] = Spot(t, i + 1)
  <2>1. CASE i = n + 1
    BY <1>1, <1>2, <2>1
  <2>2. CASE i = n
    <3>1. n \in 0 .. n
      BY <1>1
    <3> QED BY <1>2, <2>2, <3>1
  <2>3. CASE i \notin {n, n + 1}
    <3>1. i \in 0 .. n - 1 /\ i \in 0 .. n /\ i + 1 \in 0 .. n
      BY <1>1, <2>3
    <3> QED BY <1>1, <1>2, <3>1 DEF SameAt
  <2> QED BY <2>1, <2>2, <2>3
<1>4. Round(m, field, t)
  <2>1. Len(t) + 1 - 1 = n + 1
    BY <1>1
  <2> QED BY <1>3, <2>1 DEF Round, Leads
<1> QED BY <1>1, <1>4 DEF t

\* A sequence without its k-th element, which RemoveAt() of SequencesExt makes.
Without(s, k) == SubSeq(s, 1, k - 1) \o SubSeq(s, k + 1, Len(s))

LEMMA WithoutFacts ==
  ASSUME NEW T, NEW s \in Seq(T), NEW k \in 1 .. Len(s)
  PROVE  /\ Without(s, k) \in Seq(T) /\ Len(Without(s, k)) = Len(s) - 1
         /\ \A i \in 1 .. Len(s) - 1 :
              Without(s, k)[i] = IF i < k THEN s[i] ELSE s[i + 1]
<1> DEFINE n == Len(s)
           a == SubSeq(s, 1, k - 1)
           b == SubSeq(s, k + 1, n)
<1>1. n \in Nat /\ \A i \in 1 .. n : s[i] \in T
  BY LenProperties, ElementOfSeq
<1>2. /\ a \in Seq(T) /\ Len(a) = k - 1
      /\ \A i \in 1 .. k - 1 : a[i] = s[i]
  <2>1. 1 \in Int /\ k - 1 \in Int /\ \A i \in 1 .. k - 1 : s[i] \in T
    BY <1>1
  <2>2. /\ a \in Seq(T)
        /\ Len(a) = IF 1 <= k - 1 THEN (k - 1) - 1 + 1 ELSE 0
        /\ \A i \in 1 .. (k - 1) - 1 + 1 : a[i] = s[1 + i - 1]
    BY <2>1, SubSeqProperties
  <2> HIDE DEF a
  <2>3. \A i \in 1 .. k - 1 : i \in 1 .. (k - 1) - 1 + 1 /\ 1 + i - 1 = i
    OBVIOUS
  <2>4. Len(a) = k - 1
    BY <1>1, <2>2
  <2> QED BY <2>2, <2>3, <2>4
<1>3. /\ b \in Seq(T) /\ Len(b) = n - k
      /\ \A i \in 1 .. n - k : b[i] = s[k + i]
  <2>1. k + 1 \in Int /\ n \in Int /\ \A i \in k + 1 .. n : s[i] \in T
    BY <1>1
  <2>2. /\ b \in Seq(T)
        /\ Len(b) = IF k + 1 <= n THEN n - (k + 1) + 1 ELSE 0
        /\ \A i \in 1 .. n - (k + 1) + 1 : b[i] = s[(k + 1) + i - 1]
    BY <2>1, SubSeqProperties
  <2> HIDE DEF b
  <2>3. \A i \in 1 .. n - k : i \in 1 .. n - (k + 1) + 1 /\ (k + 1) + i - 1 = k + i
    BY <1>1
  <2>4. Len(b) = n - k
    BY <1>1, <2>2
  <2> QED BY <2>2, <2>3, <2>4
<1> HIDE DEF a, b
<1> DEFINE w == a \o b
<1>4. /\ w \in Seq(T) /\ Len(w) = (k - 1) + (n - k)
      /\ \A i \in 1 .. (k - 1) + (n - k) : w[i] = IF i <= k - 1 THEN a[i] ELSE b[i - (k - 1)]
  <2>1. /\ w \in Seq(T) /\ Len(w) = Len(a) + Len(b)
        /\ \A i \in 1 .. Len(a) + Len(b) : w[i] = IF i <= Len(a) THEN a[i] ELSE b[i - Len(a)]
    BY <1>2, <1>3, ConcatProperties
  <2> QED BY <1>2, <1>3, <2>1
<1> HIDE DEF w
<1>5. ASSUME NEW i \in 1 .. n - 1 PROVE w[i] = IF i < k THEN s[i] ELSE s[i + 1]
  <2>1. i \in 1 .. (k - 1) + (n - k)
    BY <1>1
  <2>2. CASE i < k
    <3>1. i <= k - 1 /\ i \in 1 .. k - 1
      BY <2>2
    <3> QED BY <1>2, <1>4, <2>1, <2>2, <3>1
  <2>3. CASE ~(i < k)
    <3>1. ~(i <= k - 1) /\ i - (k - 1) \in 1 .. n - k /\ k + (i - (k - 1)) = i + 1
      BY <1>1, <2>3
    <3>2. b[i - (k - 1)] = s[i + 1]
      BY <1>3, <3>1
    <3> QED BY <1>4, <2>1, <2>3, <3>1, <3>2
  <2> QED BY <2>2, <2>3
<1>6. Without(s, k) = w
  BY DEF Without, w, a, b
<1>7. Len(w) = n - 1
  BY <1>1, <1>4
<1> QED BY <1>4, <1>5, <1>6, <1>7

\* One entry less: the one before it leads to the one after it.
LEMMA RoundWithout ==
  ASSUME NEW l, NEW m, NEW field, NEW s \in Seq(Entries), Round(l, field, s),
         NEW k \in 1 .. Len(s), m[Spot(s, k - 1)][field] = Spot(s, k + 1),
         SameAt(l, m, field, s, (0 .. Len(s)) \ {k - 1, k})
  PROVE  Without(s, k) \in Seq(Entries) /\ Round(m, field, Without(s, k))
<1> DEFINE n == Len(s)
           t == Without(s, k)
<1>1. /\ n \in Nat /\ \A i \in 0 .. n : l[Spot(s, i)][field] = Spot(s, i + 1)
      /\ Spot(s, n + 1) = ListHead
  BY SpotFacts DEF Round, Leads
<1>2. /\ t \in Seq(Entries) /\ Len(t) = n - 1
      /\ \A i \in 1 .. n - 1 : t[i] = IF i < k THEN s[i] ELSE s[i + 1]
  BY WithoutFacts
<1> HIDE DEF t
<1>3. ASSUME NEW i \in 0 .. n PROVE Spot(t, i) = IF i < k THEN Spot(s, i) ELSE Spot(s, i + 1)
  <2>1. CASE i \in 1 .. n - 1
    <3>1. i \in 1 .. n /\ i + 1 \in 1 .. n
      BY <1>1, <2>1
    <3> QED BY <1>2, <2>1, <3>1 DEF Spot
  <2>2. CASE i \notin 1 .. n - 1
    <3>1. Spot(t, i) = ListHead
      BY <1>2, <2>2 DEF Spot
    <3>2. CASE i = 0
      <4>1. i < k /\ i \notin 1 .. n
        BY <3>2
      <4> QED BY <3>1, <4>1 DEF Spot
    <3>3. CASE i # 0
      <4>1. i = n /\ ~(i < k)
        BY <1>1, <2>2, <3>3
      <4> QED BY <1>1, <3>1, <4>1
    <3> QED BY <3>2, <3>3
  <2> QED BY <2>1, <2>2
<1>4. ASSUME NEW i \in 0 .. n - 1 PROVE m[Spot(t, i)][field] = Spot(t, i + 1)
  <2>1. i \in 0 .. n /\ i + 1 \in 0 .. n
    BY <1>1
  <2>2. CASE i < k - 1
    <3>1. i < k /\ i + 1 < k /\ i \in (0 .. n) \ {k - 1, k}
      BY <2>1, <2>2
    <3>2. Spot(t, i) = Spot(s, i) /\ Spot(t, i + 1) = Spot(s, i + 1)
      BY <1>3, <2>1, <3>1
    <3> QED BY <1>1, <2>1, <3>1, <3>2 DEF SameAt
  <2>3. CASE i = k - 1
    <3>1. i < k /\ ~(i + 1 < k) /\ (i + 1) + 1 = k + 1
      BY <2>3
    <3>2. Spot(t, i) = Spot(s, i) /\ Spot(t, i + 1) = Spot(s, (i + 1) + 1)
      BY <1>3, <2>1, <3>1
    <3> QED BY <2>3, <3>1, <3>2
  <2>4. CASE i > k - 1
    <3>1. ~(i < k) /\ ~(i + 1 < k) /\ i + 1 \in (0 .. n) \ {k - 1, k}
      BY <2>1, <2>4
    <3>2. Spot(t, i) = Spot(s, i + 1) /\ Spot(t, i + 1) = Spot(s, (i + 1) + 1)
      BY <1>3, <2>1, <3>1
    <3> QED BY <1>1, <2>1, <3>1, <3>2 DEF SameAt
  <2> QED BY <2>1, <2>2, <2>3, <2>4
<1>5. Round(m, field, t)
  <2>1. Len(t) + 1 - 1 = n - 1
    BY <1>1, <1>2
  <2> QED BY <1>4, <2>1 DEF Round, Leads
<1> QED BY <1>2, <1>5 DEF t
=============================================================================
