-------------------------- MODULE StreamRecvProofs --------------------------
(***************************************************************************)
(* Proofs about StreamRecv: with the cuts that its code allows for, in the *)
(* payload of packets, receiving implements MessageStream; and where       *)
(* responses are cut as well, and text was kept from a connection that was *)
(* lost, the packets are still taken out of the stream whole and in order. *)
(*                                                                         *)
(* The proofs look at the connection as one stream of bytes, the messages  *)
(* sent one after the other, and say where in it each buffer lies. The     *)
(* stream F, the ends e of its messages, the start b of the first message  *)
(* not handed over and the end g of what recv() returned exist in every    *)
(* state and are no variables; where responses are cut, the place q in the *)
(* stream up to which the loop has looked takes the place of b.            *)
(***************************************************************************)
EXTENDS StreamRecv, FiniteSetTheorems, SequenceTheorems, NaturalsInduction,
        WellFoundedInduction, TLAPS

-----------------------------------------------------------------------------
(* The invariant                                                           *)

\* m lies in F after p.
Lies(F, p, m) == \A i \in 1 .. Len(m) : F[p + i] = m[i]

\* The k-th message of s lies in F after e[k - 1] and ends at e[k].
Laid(F, e, s) ==
  /\ \A k \in 1 .. Len(s) :
       e[k] = e[k - 1] + Len(s[k]) /\ Lies(F, e[k - 1], s[k])
  /\ \A j, k \in 0 .. Len(s) : j < k => e[j] < e[k]

\* p is where a message ends, in the payload of a packet, or in a response if
\* responses are cut.
Resting(e, s, p) ==
  \/ \E k \in 0 .. Len(s) : p = e[k]
  \/ \E k \in 1 .. Len(s) :
       /\ e[k - 1] < p /\ p < e[k]
       /\ IF IsPacket(s[k]) THEN e[k - 1] + HEADER <= p ELSE "response" \in Cuts

\* What was handed over is how the stream begins, and at most one response of
\* the rest is under way.
HandedInv ==
  /\ handed \in Seq(Messages) /\ Len(handed) <= Len(sent)
  /\ \A k \in 1 .. Len(handed) : handed[k] = sent[k]
  /\ \A j, k \in Len(handed) + 1 .. Len(sent) :
       ~IsPacket(sent[j]) /\ ~IsPacket(sent[k]) => j = k

\* last_data holds nothing, or how a packet begins, its header and not all of it.
KeptInv(F, b) ==
  last_sz # 0 =>
    \E m \in Messages :
      /\ Len(handed) < Len(sent) /\ m = sent[Len(handed) + 1]
      /\ IsPacket(m) /\ last_sz \in HEADER .. Len(m) - 1
      /\ \A i \in 0 .. last_sz - 1 : last_buf[i] = F[b + i + 1]

\* What has arrived follows what was received, and what is under way that. They
\* meet where a segment may end.
WireInv(F, e, g) ==
  /\ flight \in Seq([byte : Bytes, ends : Places \cup {"message"}])
  /\ \A i \in 1 .. Len(sockbuf) : sockbuf[i] = F[g + i]
  /\ Resting(e, sent, g + Len(sockbuf))
  /\ \A i \in 1 .. Len(flight) :
       /\ flight[i].byte = F[g + Len(sockbuf) + i]
       /\ flight[i].ends \in Cuts \cup {"message"} =>
            Resting(e, sent, g + Len(sockbuf) + i)
  /\ g + Len(sockbuf) + Len(flight) = e[Len(sent)]

\* The message at new is the first one not handed over; if it is text, ptr is in
\* it or just behind.
TextInv(F, b, g) ==
  /\ g = b + Len(recv_buf) - new + 1
  /\ \A i \in new .. Len(recv_buf) : recv_buf[i] = F[b + i - new + 1]
  /\ ptr # new =>
       \E m \in Messages :
         /\ Len(handed) < Len(sent) /\ m = sent[Len(handed) + 1]
         /\ ~IsPacket(m) /\ ptr - new <= Len(m)

\* What recv_buf holds in each phase.
PhaseInv(F, b, g) ==
  /\ pc # "aborted"
  /\ pc = "idle" => recv_buf = <<>> /\ ptr = 1 /\ new = 1 /\ g = b + last_sz
  /\ pc # "idle" => sockbuf = <<>>
  /\ pc = "last" =>
       /\ ptr = 1 /\ new = 1 /\ recv_buf # <<>>
       /\ g = b + last_sz + Len(recv_buf)
       /\ \A i \in 1 .. Len(recv_buf) : recv_buf[i] = F[b + last_sz + i]
  /\ pc = "scan" => last_sz = 0 /\ (left = 0 => g = b) /\ (left # 0 => TextInv(F, b, g))

StreamInv(F, e, b, g) ==
  /\ Cuts \subseteq {"payload"} /\ TypeOK /\ HandedInv
  /\ e \in [0 .. Len(sent) -> Nat] /\ Laid(F, e, sent)
  /\ b = e[Len(handed)] /\ g \in Nat
  /\ KeptInv(F, b) /\ WireInv(F, e, g) /\ PhaseInv(F, b, g)

IInv == \E F, e, b, g : StreamInv(F, e, b, g)

\* No connection was lost in the middle of a packet, and never has more arrived
\* than one recv() takes.
Steady == ~stale /\ Len(sockbuf) <= RECV_BUF_SZ

-----------------------------------------------------------------------------
(* Messages                                                                *)

LEMMA MessageFacts ==
  ASSUME NEW m \in Messages
  PROVE  /\ m \in Seq(Bytes) /\ Len(m) \in Nat /\ 0 < Len(m) /\ Len(m) < RECV_BUF_SZ
         /\ \A i \in 1 .. Len(m) : m[i] \in Bytes
         /\ IsPacket(m) => Len(m) > HEADER /\ Payload(m) = Len(m) - HEADER
         /\ ~IsPacket(m) => /\ Len(m) >= 4 /\ \A i \in 1 .. Len(m) : m[i] # DOLLAR
                            /\ m[Len(m) - 1] = CR /\ m[Len(m)] = LF
<1>1. m \in Seq(Bytes) /\ m # <<>> /\ Len(m) < RECV_BUF_SZ /\ WellFormed(m)
  BY MessagesAssumption
<1>2. Len(m) \in Nat /\ 0 < Len(m) /\ \A i \in 1 .. Len(m) : m[i] \in Bytes
  BY <1>1, LenProperties, EmptySeq
<1>3. ASSUME ~IsPacket(m) PROVE m[Len(m) - 1] = CR /\ m[Len(m)] = LF
  <2>1. Len(m) >= 4 /\ SubSeq(m, Len(m) - 3, Len(m)) = <<CR, LF, CR, LF>>
    BY <1>1, <1>3 DEF WellFormed
  <2>2. PICK n \in Nat : n = Len(m)
    BY <1>2
  <2>3. /\ n - 3 \in Int /\ n \in Int
        /\ \A i \in n - 3 .. n : m[i] \in Bytes
    BY <1>2, <2>1, <2>2
  <2>4. \A i \in 1 .. n - (n - 3) + 1 : SubSeq(m, n - 3, n)[i] = m[(n - 3) + i - 1]
    BY <2>3, SubSeqProperties
  <2>5. /\ 3 \in 1 .. n - (n - 3) + 1 /\ 4 \in 1 .. n - (n - 3) + 1
        /\ (n - 3) + 3 - 1 = n - 1 /\ (n - 3) + 4 - 1 = n
    OBVIOUS
  <2>6. SubSeq(m, n - 3, n)[3] = m[n - 1] /\ SubSeq(m, n - 3, n)[4] = m[n]
    BY <2>4, <2>5
  <2>7. <<CR, LF, CR, LF>>[3] = CR /\ <<CR, LF, CR, LF>>[4] = LF
    OBVIOUS
  <2> QED BY <2>1, <2>2, <2>6, <2>7
<1> QED BY <1>1, <1>2, <1>3 DEF WellFormed

\* A message that the server sent, handed over whole, goes to its handler.
LEMMA HandWhole ==
  ASSUME NEW m \in Messages, NEW next, HandOver(m, next)
  PROVE  pc' = next /\ handed' = Append(handed, m)
<1>1. ~Misframed(m) /\ ~(IsPacket(m) /\ Len(m) <= HEADER)
  BY MessageFacts DEF Misframed, HEADER
<1> QED BY <1>1 DEF HandOver

\* Where a message lies that is not handed over.
LEMMA NextMessageFacts ==
  ASSUME NEW F, NEW e, NEW s \in Seq(Messages), Laid(F, e, s), NEW h \in Nat,
         h < Len(s)
  PROVE  \E m \in Messages :
           m = s[h + 1] /\ e[h + 1] = e[h] + Len(m) /\ Lies(F, e[h], m)
<1>1. PICK k \in 1 .. Len(s) : k = h + 1 /\ k - 1 = h
  BY LenProperties
<1>2. s[k] \in Messages
  BY ElementOfSeq
<1> QED BY <1>1, <1>2 DEF Laid

\* Whoever rests behind the end of a message has all of the next one, or the
\* header of a packet at least, or part of a response if responses are cut.
LEMMA Reach ==
  ASSUME NEW F, NEW s \in Seq(Messages), NEW e \in [0 .. Len(s) -> Nat], Laid(F, e, s),
         NEW h \in 0 .. Len(s), NEW p \in Nat, Resting(e, s, p), e[h] < p
  PROVE  /\ h < Len(s)
         /\ \/ p >= e[h + 1]
            \/ /\ p < e[h + 1]
               /\ IF IsPacket(s[h + 1]) THEN e[h] + HEADER <= p ELSE "response" \in Cuts
<1>1. PICK n \in Nat : n = Len(s)
  BY LenProperties
<1>2. \A j, k \in 0 .. n : j < k => e[j] < e[k]
  BY <1>1 DEF Laid
<1>3. \A k \in 0 .. n : e[k] \in Nat
  BY <1>1
<1>4. ASSUME NEW k \in 0 .. n, e[h] < e[k] PROVE h < k
  <2>1. ~(k < h) /\ k # h
    BY <1>1, <1>2, <1>3, <1>4
  <2> QED BY <1>1, <2>1
<1>5. \A k \in 0 .. n : h < k => h + 1 \in 0 .. n /\ (h + 1 < k => e[h + 1] < e[k]) /\ (h + 1 < k \/ h + 1 = k)
  BY <1>1, <1>2
<1>6. CASE \E k \in 0 .. n : p = e[k]
  <2>1. PICK k \in 0 .. n : p = e[k]
    BY <1>6
  <2>2. h < k
    BY <1>4, <2>1
  <2>3. e[h + 1] <= e[k]
    BY <1>3, <1>5, <2>2
  <2> QED BY <1>1, <1>3, <1>5, <2>1, <2>2, <2>3
<1>7. CASE \E k \in 1 .. n :
             /\ e[k - 1] < p /\ p < e[k]
             /\ IF IsPacket(s[k]) THEN e[k - 1] + HEADER <= p ELSE "response" \in Cuts
  <2>1. PICK k \in 1 .. n :
          /\ e[k - 1] < p /\ p < e[k]
          /\ IF IsPacket(s[k]) THEN e[k - 1] + HEADER <= p ELSE "response" \in Cuts
    BY <1>7
  <2>2. k \in 0 .. n /\ k - 1 \in 0 .. n
    BY <1>1
  <2>3. h < k
    BY <1>1, <1>3, <1>4, <2>1, <2>2
  <2>4. CASE k = h + 1
    BY <1>1, <2>1, <2>4
  <2>5. CASE k # h + 1
    <3>1. h < k - 1
      BY <1>1, <2>3, <2>5
    <3>2. e[h + 1] <= e[k - 1]
      BY <1>3, <1>5, <2>2, <3>1
    <3>3. e[k - 1] <= p
      BY <1>3, <2>1, <2>2
    <3> QED BY <1>1, <1>3, <1>5, <2>2, <2>3, <3>1, <3>2, <3>3, SMTT(30)
  <2> QED BY <2>4, <2>5
<1> QED BY <1>1, <1>6, <1>7 DEF Resting

-----------------------------------------------------------------------------
(* The loop                                                                *)

\* The sizes and indices of a state.
LEMMA SizeFacts ==
  ASSUME TypeOK, HandedInv
  PROVE  /\ Len(sent) \in Nat /\ Len(handed) \in Nat /\ Len(handed) \in 0 .. Len(sent)
         /\ Len(recv_buf) \in Nat /\ Len(sockbuf) \in Nat
         /\ ptr \in Nat /\ new \in Nat /\ last_sz \in Nat
         /\ 1 <= new /\ new <= ptr /\ ptr <= Len(recv_buf) + 1
         /\ left = Len(recv_buf) - ptr + 1
<1>1. Len(sent) \in Nat /\ Len(handed) \in Nat /\ Len(recv_buf) \in Nat /\ Len(sockbuf) \in Nat
  BY LenProperties DEF TypeOK, HandedInv
<1>2. RECV_BUF_SZ \in Nat
  BY BoundsAssumption
<1> QED BY <1>1, <1>2 DEF TypeOK, HandedInv, left

\* The byte the loop looks at belongs to the message that starts at new, unless
\* it is the '$' behind a response.
LEMMA AtByte ==
  ASSUME NEW F, NEW e, NEW b, NEW g, StreamInv(F, e, b, g), pc = "scan", left # 0
  PROVE  \E m \in Messages :
           /\ Len(handed) < Len(sent) /\ m = sent[Len(handed) + 1]
           /\ e[Len(handed) + 1] = b + Len(m) /\ b \in Nat /\ Lies(F, b, m)
           /\ ptr <= Len(recv_buf) /\ b < g /\ TextInv(F, b, g) /\ Resting(e, sent, g)
           /\ recv_buf[ptr] # DOLLAR => ~IsPacket(m) /\ ptr - new < Len(m)
           /\ recv_buf[ptr] = DOLLAR /\ ptr = new => IsPacket(m)
           /\ recv_buf[ptr] = DOLLAR /\ ptr # new => ~IsPacket(m) /\ ptr - new = Len(m)
<1>0. /\ TypeOK /\ HandedInv /\ e \in [0 .. Len(sent) -> Nat] /\ Laid(F, e, sent)
      /\ b = e[Len(handed)] /\ g \in Nat /\ Cuts \subseteq {"payload"}
      /\ KeptInv(F, b) /\ WireInv(F, e, g) /\ PhaseInv(F, b, g)
  BY DEF StreamInv
<1>00. /\ Len(handed) \in Nat /\ Len(sent) \in Nat /\ Len(recv_buf) \in Nat
      /\ Len(handed) \in 0 .. Len(sent)
      /\ ptr \in Nat /\ new \in Nat /\ 1 <= new /\ new <= ptr /\ ptr <= Len(recv_buf)
  BY <1>0, SizeFacts
<1>1. PICK h, n, L :
        /\ h = Len(handed) /\ n = Len(sent) /\ L = Len(recv_buf) /\ h \in 0 .. n
        /\ h \in Nat /\ n \in Nat /\ L \in Nat
        /\ ptr \in Nat /\ new \in Nat /\ 1 <= new /\ new <= ptr /\ ptr <= L
  BY <1>00
<1>2. TextInv(F, b, g) /\ sockbuf = <<>>
  BY <1>0 DEF PhaseInv
<1>3. sent \in Seq(Messages) /\ e \in [0 .. Len(sent) -> Nat] /\ Laid(F, e, sent)
  BY <1>0 DEF TypeOK
<1>4. b \in Nat /\ g \in Nat /\ b < g /\ b = e[h] /\ g = b + L - new + 1
  <2>1. b \in Nat /\ g \in Nat /\ b = e[h]
    BY <1>0, <1>1
  <2>2. g = b + L - new + 1
    BY <1>1, <1>2 DEF TextInv
  <2>3. b < g
    BY <1>1, <2>1, <2>2
  <2> QED BY <2>1, <2>2, <2>3
<1>5. Resting(e, sent, g)
  <2>1. g + Len(sockbuf) = g
    BY <1>2, <1>4, EmptySeq
  <2> QED BY <1>0, <2>1 DEF WireInv
<1>6. h < n
  BY <1>1, <1>3, <1>4, <1>5, Reach
<1>7. PICK m \in Messages :
        m = sent[h + 1] /\ e[h + 1] = b + Len(m) /\ Lies(F, b, m)
  <2>1. h < Len(sent)
    BY <1>1, <1>6
  <2>2. \E m \in Messages :
           m = sent[h + 1] /\ e[h + 1] = e[h] + Len(m) /\ Lies(F, e[h], m)
    BY <1>1, <1>3, <2>1, NextMessageFacts
  <2> QED BY <1>4, <2>2
<1>8. recv_buf[ptr] = F[b + ptr - new + 1]
  BY <1>1, <1>2 DEF TextInv
<1>9. CASE ptr = new
  <2>1. b + ptr - new + 1 = b + 1 /\ 1 \in 1 .. Len(m) /\ ptr - new = 0
    BY <1>1, <1>4, <1>9, MessageFacts
  <2>2. recv_buf[ptr] = m[1]
    BY <1>7, <1>8, <2>1 DEF Lies
  <2>3. (recv_buf[ptr] = DOLLAR) <=> IsPacket(m)
    BY <2>2 DEF IsPacket
  <2>4. ptr - new < Len(m)
    BY <2>1
  <2> QED BY <1>1, <1>2, <1>4, <1>5, <1>6, <1>7, <1>9, <2>3, <2>4
<1>10. CASE ptr # new
  <2>1. ~IsPacket(m) /\ ptr - new <= Len(m)
    BY <1>1, <1>2, <1>7, <1>10 DEF TextInv
  <2>2. Len(m) \in Nat
    BY MessageFacts
  <2>3. CASE ptr - new < Len(m)
    <3>1. /\ ptr - new + 1 \in 1 .. Len(m)
          /\ b + ptr - new + 1 = b + (ptr - new + 1)
      <4>1. b \in Nat /\ ptr \in Nat /\ new \in Nat /\ new <= ptr
        BY <1>1, <1>4
      <4> QED BY <2>2, <2>3, <4>1
    <3>2. recv_buf[ptr] = m[ptr - new + 1]
      BY <1>7, <1>8, <3>1 DEF Lies
    <3>3. recv_buf[ptr] # DOLLAR
      BY <2>1, <3>1, <3>2, MessageFacts
    <3> QED BY <1>1, <1>2, <1>4, <1>5, <1>6, <1>7, <2>1, <2>3, <3>3
  <2>4. CASE ~(ptr - new < Len(m))
    <3>1. ptr - new = Len(m)
      BY <1>1, <2>1, <2>2, <2>4
    <3>2. h + 1 \in 0 .. n /\ e[h + 1] = b + ptr - new /\ e[h + 1] < g /\ h + 1 \in Nat
      <4>1. PICK P \in Nat : P = Len(m)
        BY <2>2
      <4>2. e[h + 1] = b + P /\ ptr - new = P
        BY <1>7, <3>1, <4>1
      <4> QED BY <1>1, <1>4, <1>6, <4>2, SMTT(30)
    <3>3. h + 1 < n
      BY <1>1, <1>3, <1>4, <1>5, <3>2, Reach
    <3>4. PICK q \in Messages :
            q = sent[(h + 1) + 1] /\ Lies(F, e[h + 1], q)
      <4>1. h + 1 < Len(sent)
        BY <1>1, <3>3
      <4>2. PICK j \in Nat : j = h + 1 /\ j < Len(sent)
        BY <3>2, <4>1
      <4>3. \E x \in Messages :
              x = sent[j + 1] /\ e[j + 1] = e[j] + Len(x) /\ Lies(F, e[j], x)
        BY <1>0, <4>2, NextMessageFacts DEF TypeOK
      <4> QED BY <4>2, <4>3
    <3>5. IsPacket(q)
      <4>1. /\ h + 1 \in h + 1 .. n /\ (h + 1) + 1 \in h + 1 .. n /\ h + 1 # (h + 1) + 1
        BY <1>1, <3>3
      <4> QED BY <1>0, <1>1, <1>7, <2>1, <3>4, <4>1 DEF HandedInv
    <3>6. 1 \in 1 .. Len(q)
      BY MessageFacts
    <3>7. recv_buf[ptr] = q[1]
      BY <1>8, <3>2, <3>4, <3>6 DEF Lies
    <3>8. recv_buf[ptr] = DOLLAR
      BY <3>5, <3>7 DEF IsPacket
    <3> QED BY <1>1, <1>2, <1>4, <1>5, <1>6, <1>7, <1>10, <2>1, <3>1, <3>8
  <2> QED BY <2>3, <2>4
<1> QED BY <1>9, <1>10

\* memcpy() into last_buf: what was there in front stays.
LEMMA CopiedFacts ==
  ASSUME TypeOK, NEW off \in Nat, NEW a \in Nat, NEW c \in Int,
         1 <= a, c <= Len(recv_buf), off <= RECV_BUF_SZ, off + c - a + 1 <= RECV_BUF_SZ
  PROVE  /\ Copied(off, a, c) \in [Byte(RECV_BUF_SZ) -> Bytes]
         /\ \A i \in 0 .. off - 1 : Copied(off, a, c)[i] = last_buf[i]
         /\ \A j \in a .. c : Copied(off, a, c)[off + j - a] = recv_buf[j]
<1>1. PICK L \in Nat, N \in Nat : L = Len(recv_buf) /\ N = RECV_BUF_SZ
  BY BoundsAssumption, LenProperties DEF TypeOK
<1>2. DOMAIN last_buf = 0 .. N - 1 /\ \A i \in 0 .. N - 1 : last_buf[i] \in Bytes
  BY <1>1 DEF TypeOK, Byte
<1>3. \A j \in 1 .. L : recv_buf[j] \in Bytes
  BY <1>1, ElementOfSeq DEF TypeOK
<1> DEFINE w == Copied(off, a, c)
<1>4. w = [i \in 0 .. N - 1 |->
            IF i >= off /\ i - off <= c - a THEN recv_buf[a + i - off] ELSE last_buf[i]]
  BY <1>2 DEF Copied
<1> HIDE DEF w
<1>5. w \in [0 .. N - 1 -> Bytes]
  <2> SUFFICES ASSUME NEW i \in 0 .. N - 1
               PROVE  (IF i >= off /\ i - off <= c - a
                       THEN recv_buf[a + i - off] ELSE last_buf[i]) \in Bytes
    BY <1>4
  <2>1. CASE i >= off /\ i - off <= c - a
    <3>1. a + i - off \in 1 .. L
      BY <1>1, <2>1
    <3> QED BY <1>3, <2>1, <3>1
  <2>2. CASE ~(i >= off /\ i - off <= c - a)
    BY <1>2, <2>2
  <2> QED BY <2>1, <2>2
<1>6. \A i \in 0 .. off - 1 : w[i] = last_buf[i]
  <2>1. \A i \in 0 .. off - 1 : i \in 0 .. N - 1 /\ ~(i >= off)
    BY <1>1
  <2> QED BY <1>4, <2>1
<1>7. \A j \in a .. c : w[off + j - a] = recv_buf[j]
  <2>1. \A j \in a .. c : /\ off + j - a \in 0 .. N - 1 /\ off + j - a >= off
                          /\ (off + j - a) - off <= c - a
                          /\ a + (off + j - a) - off = j
    BY <1>1
  <2> QED BY <1>4, <2>1
<1> QED BY <1>1, <1>5, <1>6, <1>7 DEF w, Byte

\* A message in a buffer.
LEMMA FrontFacts ==
  ASSUME NEW m \in Messages, NEW buf, \A i \in 0 .. Len(m) - 1 : buf[i] = m[i + 1]
  PROVE  Front0(buf, Len(m)) = m
<1>1. PICK P \in Nat : P = Len(m)
  BY MessageFacts
<1>2. m = [k \in 1 .. P |-> m[k]]
  BY <1>1, MessageFacts, LenProperties
<1>3. \A k \in 1 .. P : k - 1 \in 0 .. P - 1 /\ (k - 1) + 1 = k
  OBVIOUS
<1>4. \A k \in 1 .. P : buf[k - 1] = m[k]
  BY <1>1, <1>3
<1> QED BY <1>1, <1>2, <1>4 DEF Front0

-----------------------------------------------------------------------------
(* What the steps of a receive have in common                              *)

Onward(F, e) == \E b, g : StreamInv(F, e, b, g)

\* The first message not handed over is handed over.
HandsNext ==
  Len(handed) < Len(sent) /\ handed' = Append(handed, sent[Len(handed) + 1])

LEMMA Handing ==
  ASSUME TypeOK, HandedInv, HandsNext, UNCHANGED sent
  PROVE  HandedInv' /\ Len(handed') = Len(handed) + 1
<1>1. /\ Len(handed) \in Nat /\ Len(sent) \in Nat
      /\ sent \in Seq(Messages) /\ handed \in Seq(Messages)
  BY SizeFacts DEF TypeOK, HandedInv
<1>2. PICK h \in Nat, n \in Nat : h = Len(handed) /\ n = Len(sent) /\ h < n
  BY <1>1 DEF HandsNext
<1>3. h + 1 \in 1 .. Len(sent) /\ sent[h + 1] \in Messages
  BY <1>1, <1>2, ElementOfSeq
<1>4. handed' \in Seq(Messages) /\ Len(handed') = h + 1
      /\ \A k \in 1 .. h + 1 : handed'[k] = IF k = h + 1 THEN sent[h + 1] ELSE handed[k]
  BY <1>1, <1>2, <1>3, AppendProperties DEF HandsNext
<1>5. \A k \in 1 .. h + 1 : handed'[k] = sent[k]
  <2>1. \A k \in 1 .. h + 1 : k # h + 1 => k \in 1 .. h
    OBVIOUS
  <2> QED BY <1>2, <1>4, <2>1 DEF HandedInv
<1>6. \A k \in (h + 1) + 1 .. n : k \in h + 1 .. n
  OBVIOUS
<1> QED BY <1>2, <1>4, <1>5, <1>6 DEF HandedInv

\* What a kept packet is.
LEMMA KeptFacts ==
  ASSUME NEW F, NEW e, NEW b, NEW g, StreamInv(F, e, b, g), last_sz # 0
  PROVE  /\ HeaderKept
         /\ \E m \in Messages :
              /\ Len(handed) < Len(sent) /\ m = sent[Len(handed) + 1]
              /\ e[Len(handed) + 1] = b + Len(m) /\ b \in Nat /\ Lies(F, b, m)
              /\ IsPacket(m) /\ last_sz \in HEADER .. Len(m) - 1
              /\ LastSize = Len(m) - HEADER /\ Missing = Len(m) - last_sz
              /\ \A i \in 0 .. last_sz - 1 : last_buf[i] = m[i + 1]
<1>0. /\ TypeOK /\ HandedInv /\ e \in [0 .. Len(sent) -> Nat] /\ Laid(F, e, sent)
      /\ b = e[Len(handed)] /\ g \in Nat /\ Cuts \subseteq {"payload"}
      /\ KeptInv(F, b) /\ WireInv(F, e, g) /\ PhaseInv(F, b, g)
  BY DEF StreamInv
<1>1. PICK m \in Messages :
        /\ Len(handed) < Len(sent) /\ m = sent[Len(handed) + 1]
        /\ IsPacket(m) /\ last_sz \in HEADER .. Len(m) - 1
        /\ \A i \in 0 .. last_sz - 1 : last_buf[i] = F[b + i + 1]
  BY <1>0 DEF KeptInv
<1>2. PICK h \in Nat : h = Len(handed) /\ h < Len(sent) /\ h \in 0 .. Len(sent)
  BY <1>0, <1>1, SizeFacts
<1>3. sent \in Seq(Messages) /\ e \in [0 .. Len(sent) -> Nat] /\ Laid(F, e, sent) /\ b = e[h]
  BY <1>0, <1>2 DEF TypeOK
<1>4. e[h + 1] = b + Len(m) /\ Lies(F, b, m) /\ b \in Nat
  <2>1. \E q \in Messages :
           q = sent[h + 1] /\ e[h + 1] = e[h] + Len(q) /\ Lies(F, e[h], q)
    BY <1>2, <1>3, NextMessageFacts
  <2> QED BY <1>1, <1>2, <1>3, <2>1
<1>5. PICK P \in Nat : P = Len(m) /\ P > HEADER /\ Payload(m) = P - HEADER
  BY <1>1, MessageFacts
<1>6. last_sz \in Nat /\ HEADER <= last_sz /\ last_sz < P
  BY <1>0, <1>1, <1>5, SizeFacts DEF HEADER
<1>7. \A i \in 0 .. last_sz - 1 : last_buf[i] = m[i + 1]
  <2>1. \A i \in 0 .. last_sz - 1 : i + 1 \in 1 .. P /\ b + i + 1 = b + (i + 1)
    BY <1>4, <1>6
  <2> QED BY <1>1, <1>4, <1>5, <2>1 DEF Lies
<1>8. 0 \in 0 .. last_sz - 1 /\ 2 \in 0 .. last_sz - 1 /\ 3 \in 0 .. last_sz - 1
  BY <1>6 DEF HEADER
<1>9. last_buf[0] = m[1] /\ last_buf[2] = m[3] /\ last_buf[3] = m[4]
  BY <1>7, <1>8
<1>10. HeaderKept
  BY <1>1, <1>6, <1>9 DEF HeaderKept, IsPacket
<1>11. LastSize = P - HEADER
  BY <1>5, <1>9 DEF LastSize, Payload
<1>12. Missing = P - last_sz
  BY <1>6, <1>11 DEF Missing, HEADER
<1> QED BY <1>1, <1>2, <1>4, <1>5, <1>7, <1>10, <1>11, <1>12

-----------------------------------------------------------------------------
(* One lemma for each step of a receive                                    *)

\* recv() takes all that has arrived.
LEMMA WireReceived ==
  ASSUME TypeOK, NEW F, NEW e, NEW g \in Nat, WireInv(F, e, g), Recv,
         Len(sockbuf) <= RECV_BUF_SZ,
         NEW N \in Nat, N = Len(sockbuf)
  PROVE  /\ WireInv(F, e, g + N)' /\ sockbuf' = <<>>
         /\ N \in Nat /\ N > 0 /\ recv_buf' \in Seq(Bytes) /\ Len(recv_buf') = N
         /\ \A i \in 1 .. N : recv_buf'[i] = F[g + i]
<1>1. N \in Nat /\ N > 0 /\ sockbuf \in Seq(Bytes)
  BY EmptySeq, LenProperties DEF TypeOK, Recv
<1>2. /\ recv_buf' = SubSeq(sockbuf, 1, N) /\ sockbuf' = SubSeq(sockbuf, N + 1, N)
      /\ flight' = flight /\ sent' = sent
  <2>1. (IF Len(sockbuf) < RECV_BUF_SZ THEN Len(sockbuf) ELSE RECV_BUF_SZ) = N
    BY <1>1, BoundsAssumption
  <2>2. recv_buf' = SubSeq(sockbuf, 1, N)
    BY <2>1 DEF Recv
  <2>3. sockbuf' = SubSeq(sockbuf, N + 1, N)
    BY <2>1 DEF Recv
  <2> QED BY <2>2, <2>3 DEF Recv
<1>3. sockbuf' = <<>> /\ Len(sockbuf') = 0
  BY <1>1, <1>2, SubSeqEmpty
<1>4. /\ recv_buf' \in Seq(Bytes) /\ Len(recv_buf') = N
      /\ \A i \in 1 .. N : recv_buf'[i] = sockbuf[i]
  <2>1. \A i \in 1 .. N : sockbuf[i] \in Bytes
    BY <1>1, ElementOfSeq
  <2>2. /\ SubSeq(sockbuf, 1, N) \in Seq(Bytes)
        /\ Len(SubSeq(sockbuf, 1, N)) = IF 1 <= N THEN N - 1 + 1 ELSE 0
        /\ \A i \in 1 .. N - 1 + 1 : SubSeq(sockbuf, 1, N)[i] = sockbuf[1 + i - 1]
    BY <1>1, <2>1, SubSeqProperties
  <2>3. \A i \in 1 .. N : i \in 1 .. N - 1 + 1 /\ 1 + i - 1 = i
    OBVIOUS
  <2> QED BY <1>1, <1>2, <2>2, <2>3
<1>5. PICK q \in Nat : q = g + N
  BY <1>1
<1>6. WireInv(F, e, q)'
  <2>1. /\ q + Len(sockbuf') = g + Len(sockbuf)
        /\ \A i \in 1 .. Len(flight) : q + Len(sockbuf') + i = g + Len(sockbuf) + i
    BY <1>1, <1>3, <1>5
  <2>2. Len(flight) \in Nat
    BY LenProperties DEF WireInv
  <2>3. Resting(e, sent, q + Len(sockbuf'))
    BY <2>1 DEF WireInv
  <2>4. \A i \in 1 .. Len(flight) :
          /\ flight[i].byte = F[q + Len(sockbuf') + i]
          /\ flight[i].ends \in Cuts \cup {"message"} =>
               Resting(e, sent, q + Len(sockbuf') + i)
    BY <2>1 DEF WireInv
  <2>5. q + Len(sockbuf') + Len(flight) = e[Len(sent)]
    BY <2>1 DEF WireInv
  <2>6. \A i \in 1 .. Len(sockbuf') : sockbuf'[i] = F[q + i]
    BY <1>3
  <2>7. flight \in Seq([byte : Bytes, ends : Places \cup {"message"}])
    BY DEF WireInv
  <2> QED BY <1>2, <2>3, <2>4, <2>5, <2>6, <2>7 DEF WireInv
<1>7. \A i \in 1 .. N : recv_buf'[i] = F[g + i]
  BY <1>4 DEF WireInv
<1> QED BY <1>1, <1>3, <1>4, <1>5, <1>6, <1>7

LEMMA StepRecv ==
  ASSUME NEW F, NEW e, NEW b, NEW g, StreamInv(F, e, b, g), Recv, Steady
  PROVE  Onward(F, e)' /\ UNCHANGED <<sent, handed>>
<1>0. /\ TypeOK /\ HandedInv /\ e \in [0 .. Len(sent) -> Nat] /\ Laid(F, e, sent)
      /\ b = e[Len(handed)] /\ g \in Nat /\ Cuts \subseteq {"payload"}
      /\ KeptInv(F, b) /\ WireInv(F, e, g) /\ PhaseInv(F, b, g)
  BY DEF StreamInv
<1>1. PICK N \in Nat : N = Len(sockbuf)
  BY <1>0, LenProperties DEF TypeOK
<1>2. /\ WireInv(F, e, g + N)' /\ sockbuf' = <<>>
      /\ N \in Nat /\ N > 0 /\ recv_buf' \in Seq(Bytes) /\ Len(recv_buf') = N
      /\ \A i \in 1 .. N : recv_buf'[i] = F[g + i]
  BY <1>0, <1>1, WireReceived DEF Steady
<1>3. /\ pc = "idle" /\ pc' = "last" /\ ptr' = 1 /\ new' = 1 /\ edge' = FALSE
      /\ UNCHANGED <<last, flight, sent, handed, lost>>
  BY DEF Recv
<1>4. TypeOK'
  <2>1. ptr' \in 1 .. Len(recv_buf') + 1 /\ new' \in 1 .. ptr' /\ Len(recv_buf') <= RECV_BUF_SZ
    BY <1>1, <1>2, <1>3 DEF Steady
  <2>2. sockbuf' \in Seq(Bytes)
    BY <1>2, EmptySeq
  <2> QED BY <1>0, <1>2, <1>3, <2>1, <2>2 DEF TypeOK, last, lost
<1>5. HandedInv' /\ KeptInv(F, b)' /\ Laid(F, e, sent)' /\ (b = e[Len(handed)])'
      /\ (e \in [0 .. Len(sent) -> Nat])'
  BY <1>0, <1>3 DEF HandedInv, KeptInv, last
<1>6. PICK q \in Nat : q = g + N
  BY <1>0, <1>2
<1>7. PhaseInv(F, b, q)'
  <2>1. g = b + last_sz /\ b \in Nat /\ last_sz \in Nat
    <3>1. Len(handed) \in 0 .. Len(sent)
      BY <1>0, SizeFacts
    <3> QED BY <1>0, <1>3, <3>1, SizeFacts DEF PhaseInv
  <2>2. \A i \in 1 .. N : recv_buf'[i] = F[b + last_sz + i]
    BY <1>2, <2>1
  <2>3. recv_buf' # <<>>
    BY <1>2, EmptySeq
  <2>4. /\ pc' = "last" /\ ptr' = 1 /\ new' = 1 /\ sockbuf' = <<>>
        /\ last_sz' = last_sz /\ Len(recv_buf') = N
    BY <1>2, <1>3 DEF last
  <2>5. q = b + last_sz + N
    BY <1>6, <2>1
  <2> QED BY <2>2, <2>3, <2>4, <2>5 DEF PhaseInv
<1>8. StreamInv(F, e, b, q)'
  BY <1>0, <1>2, <1>4, <1>5, <1>6, <1>7 DEF StreamInv
<1> QED BY <1>3, <1>8 DEF Onward

\* What the steps that only look at recv_buf leave alone.
LEMMA WireStays ==
  ASSUME NEW F, NEW e, NEW b, NEW g, StreamInv(F, e, b, g), Unmentioned
  PROVE  /\ WireInv(F, e, g)' /\ Laid(F, e, sent)' /\ (e \in [0 .. Len(sent) -> Nat])'
         /\ sockbuf' = sockbuf /\ sent' = sent /\ Len(handed) \in 0 .. Len(sent)
         /\ b \in Nat /\ g \in Nat
<1>1. Len(handed) \in 0 .. Len(sent)
  BY SizeFacts DEF StreamInv
<1> QED BY <1>1 DEF StreamInv, Unmentioned, wire, lost, WireInv

LEMMA StepNothingKept ==
  ASSUME NEW F, NEW e, NEW b, NEW g, StreamInv(F, e, b, g), NothingKept
  PROVE  Onward(F, e)' /\ UNCHANGED <<sent, handed>>
<1>0. /\ TypeOK /\ HandedInv /\ e \in [0 .. Len(sent) -> Nat] /\ Laid(F, e, sent)
      /\ b = e[Len(handed)] /\ g \in Nat /\ Cuts \subseteq {"payload"}
      /\ KeptInv(F, b) /\ WireInv(F, e, g) /\ PhaseInv(F, b, g)
  BY DEF StreamInv
<1>1. /\ pc = "last" /\ pc' = "scan" /\ UNCHANGED <<recv, last, handed>> /\ Unmentioned
      /\ ~HeaderKept
  BY DEF NothingKept
<1>2. last_sz = 0
  BY <1>1, KeptFacts
<1>3. PICK L \in Nat : L = Len(recv_buf) /\ L # 0
  <2>1. recv_buf # <<>> /\ recv_buf \in Seq(Bytes)
    BY <1>0, <1>1 DEF PhaseInv, TypeOK
  <2> QED BY <2>1, EmptySeq, LenProperties
<1>4. /\ ptr = 1 /\ new = 1 /\ g = b + last_sz + L /\ sockbuf = <<>>
      /\ \A i \in 1 .. L : recv_buf[i] = F[b + last_sz + i]
  BY <1>0, <1>1, <1>3 DEF PhaseInv
<1>5. /\ WireInv(F, e, g)' /\ Laid(F, e, sent)' /\ (e \in [0 .. Len(sent) -> Nat])'
      /\ sockbuf' = sockbuf /\ sent' = sent /\ b \in Nat /\ g \in Nat
  BY <1>1, WireStays
<1>6. TypeOK'
  BY <1>0, <1>1 DEF TypeOK, recv, last, Unmentioned, wire, lost
<1>7. HandedInv' /\ KeptInv(F, b)' /\ (b = e[Len(handed)])'
  BY <1>0, <1>1, <1>5 DEF HandedInv, KeptInv, last
<1>8. PhaseInv(F, b, g)'
  <2>1. \A i \in 1 .. L : b + i - 1 + 1 = b + last_sz + i
    BY <1>2, <1>5
  <2>2. TextInv(F, b, g)'
    <3>1. \A i \in 1 .. L : recv_buf[i] = F[b + i - 1 + 1]
      BY <1>4, <2>1
    <3>2. g = b + L - 1 + 1
      BY <1>2, <1>4, <1>5
    <3> QED BY <1>1, <1>3, <1>4, <3>1, <3>2 DEF TextInv, recv
  <2>3. left' # 0
    BY <1>1, <1>3, <1>4 DEF left, recv
  <2> QED BY <1>0, <1>1, <1>2, <1>4, <1>5, <2>2, <2>3 DEF PhaseInv, last
<1>9. StreamInv(F, e, b, g)'
  BY <1>5, <1>6, <1>7, <1>8 DEF StreamInv
<1> QED BY <1>1, <1>5, <1>9 DEF Onward

LEMMA StepCompletePacket ==
  ASSUME NEW F, NEW e, NEW b, NEW g, StreamInv(F, e, b, g), CompletePacket
  PROVE  Onward(F, e)' /\ HandsNext /\ UNCHANGED sent
<1>0. /\ TypeOK /\ HandedInv /\ e \in [0 .. Len(sent) -> Nat] /\ Laid(F, e, sent)
      /\ b = e[Len(handed)] /\ g \in Nat /\ Cuts \subseteq {"payload"}
      /\ KeptInv(F, b) /\ WireInv(F, e, g) /\ PhaseInv(F, b, g)
  BY DEF StreamInv
<1>1. /\ pc = "last" /\ HeaderKept /\ Completes /\ Unmentioned /\ UNCHANGED recv_buf
      /\ last_buf' = Copied(last_sz, 1, Missing) /\ last_sz' = 0
      /\ HandOver(Front0(last_buf', LastSize + HEADER), "scan")
      /\ ptr' = Missing + 1 /\ new' = Missing + 1
  BY DEF CompletePacket
<1>2. last_sz # 0
  BY <1>0, <1>1, SizeFacts DEF HeaderKept, HEADER
<1>3. PICK m \in Messages :
        /\ Len(handed) < Len(sent) /\ m = sent[Len(handed) + 1]
        /\ e[Len(handed) + 1] = b + Len(m) /\ b \in Nat /\ Lies(F, b, m)
        /\ last_sz \in HEADER .. Len(m) - 1
        /\ LastSize = Len(m) - HEADER /\ Missing = Len(m) - last_sz
        /\ \A i \in 0 .. last_sz - 1 : last_buf[i] = m[i + 1]
  BY <1>2, KeptFacts
<1>4. PICK P, L, z, M :
        /\ P \in Nat /\ L \in Nat /\ z \in Nat /\ M \in Nat /\ b \in Nat
        /\ P = Len(m) /\ L = Len(recv_buf) /\ z = last_sz /\ M = Missing
        /\ P = z + M /\ 0 < M /\ M <= L /\ P < RECV_BUF_SZ
  <2>1. ptr = 1 /\ Len(m) \in Nat /\ Len(m) < RECV_BUF_SZ /\ Len(recv_buf) \in Nat /\ last_sz \in Nat
    BY <1>0, <1>1, MessageFacts, SizeFacts DEF PhaseInv
  <2>2. left = Len(recv_buf)
    BY <1>0, <2>1 DEF left, TypeOK
  <2>3. Missing \in Nat /\ Missing <= Len(recv_buf)
    BY <1>1, <2>2 DEF Completes
  <2>4. last_sz <= Len(m) - 1 /\ Missing = Len(m) - last_sz /\ b \in Nat
    BY <1>3, <2>1 DEF HEADER
  <2>5. Len(m) = last_sz + Missing /\ 0 < Missing
    BY <2>1, <2>4
  <2> QED BY <2>1, <2>3, <2>4, <2>5
<1>5. /\ ptr = 1 /\ new = 1 /\ sockbuf = <<>> /\ g = b + z + L
      /\ \A i \in 1 .. L : recv_buf[i] = F[b + z + i]
  BY <1>0, <1>1, <1>4 DEF PhaseInv
<1>6. /\ last_buf' \in [Byte(RECV_BUF_SZ) -> Bytes]
      /\ \A i \in 0 .. z - 1 : last_buf'[i] = last_buf[i]
      /\ \A j \in 1 .. M : last_buf'[z + j - 1] = recv_buf[j]
  <2>1. RECV_BUF_SZ \in Nat
    BY BoundsAssumption
  <2>2. z <= RECV_BUF_SZ /\ z + M - 1 + 1 <= RECV_BUF_SZ /\ 1 <= 1 /\ 1 \in Nat /\ M \in Int
    BY <1>4, <2>1
  <2>3. /\ Copied(z, 1, M) \in [Byte(RECV_BUF_SZ) -> Bytes]
        /\ \A i \in 0 .. z - 1 : Copied(z, 1, M)[i] = last_buf[i]
        /\ \A j \in 1 .. M : Copied(z, 1, M)[z + j - 1] = recv_buf[j]
    BY <1>0, <1>4, <2>2, CopiedFacts
  <2> QED BY <1>1, <1>4, <2>3
<1>7. \A i \in 0 .. P - 1 : last_buf'[i] = m[i + 1]
  <2> SUFFICES ASSUME NEW i \in 0 .. P - 1 PROVE last_buf'[i] = m[i + 1]
    OBVIOUS
  <2>1. CASE i < z
    <3>1. i \in 0 .. z - 1
      BY <1>4, <2>1
    <3> QED BY <1>3, <1>4, <1>6, <3>1
  <2>2. CASE ~(i < z)
    <3>1. PICK j \in 1 .. M : j = i - z + 1
      BY <1>4, <2>2
    <3>2. /\ z + j - 1 = i /\ b + z + j = b + (i + 1) /\ i + 1 \in 1 .. P /\ j \in 1 .. L
      BY <1>4, <3>1
    <3>3. last_buf'[i] = F[b + (i + 1)]
      BY <1>5, <1>6, <3>2
    <3> QED BY <1>3, <1>4, <3>2, <3>3 DEF Lies
  <2> QED BY <2>1, <2>2
<1>8. Front0(last_buf', LastSize + HEADER) = m
  <2>1. LastSize + HEADER = Len(m)
    BY <1>3, <1>4 DEF HEADER
  <2>2. Front0(last_buf', Len(m)) = m
    BY <1>4, <1>7, FrontFacts
  <2> QED BY <2>1, <2>2
<1>9. pc' = "scan" /\ handed' = Append(handed, m)
  BY <1>1, <1>8, HandWhole
<1>10. HandsNext
  BY <1>3, <1>9 DEF HandsNext
<1>11. /\ WireInv(F, e, g)' /\ Laid(F, e, sent)' /\ (e \in [0 .. Len(sent) -> Nat])'
       /\ sockbuf' = sockbuf /\ sent' = sent /\ g \in Nat
  BY <1>1, WireStays
<1>12. HandedInv' /\ Len(handed') = Len(handed) + 1
  BY <1>0, <1>10, <1>11, Handing
<1>13. PICK d \in Nat : d = b + P
  BY <1>4
<1>14. TypeOK'
  <2>1. ptr' \in 1 .. Len(recv_buf) + 1 /\ new' \in 1 .. ptr' /\ last_sz' \in 0 .. RECV_BUF_SZ
    BY <1>1, <1>4, BoundsAssumption
  <2> QED BY <1>0, <1>1, <1>6, <1>9, <2>1 DEF TypeOK, Unmentioned, wire, lost
<1>15. KeptInv(F, d)' /\ (d = e[Len(handed)])'
  BY <1>0, <1>1, <1>3, <1>4, <1>12, <1>13 DEF KeptInv
<1>16. PhaseInv(F, d, g)'
  <2>1. left' = L - M /\ (L - M = 0 => g = d)
    <3>1. left' = L - (M + 1) + 1
      BY <1>1, <1>4 DEF left
    <3>2. g = b + z + L
      BY <1>5
    <3>3. L - (M + 1) + 1 = L - M /\ (L - M = 0 => b + z + L = d)
      BY <1>4, <1>13
    <3> QED BY <3>1, <3>2, <3>3
  <2>2. TextInv(F, d, g)'
    <3>1. \A i \in M + 1 .. L : i \in 1 .. L /\ b + z + i = d + i - (M + 1) + 1
      BY <1>4, <1>13
    <3>2. \A i \in M + 1 .. L : recv_buf[i] = F[d + i - (M + 1) + 1]
      BY <1>5, <3>1
    <3>3. g = d + L - (M + 1) + 1
      <4>1. g = b + z + L
        BY <1>5
      <4>2. b \in Nat /\ z \in Nat /\ L \in Nat /\ M \in Nat /\ P = z + M
        BY <1>4
      <4>3. d = b + (z + M)
        BY <1>13, <4>2
      <4>4. b + z + L = d + L - (M + 1) + 1
        BY <4>2, <4>3
      <4> QED BY <4>1, <4>4
    <3> QED BY <1>1, <1>4, <3>2, <3>3 DEF TextInv
  <2> QED BY <1>0, <1>1, <1>5, <1>9, <1>11, <2>1, <2>2 DEF PhaseInv
<1>17. StreamInv(F, e, d, g)'
  BY <1>11, <1>12, <1>14, <1>15, <1>16 DEF StreamInv
<1> QED BY <1>10, <1>11, <1>17 DEF Onward

LEMMA StepKeepMore ==
  ASSUME NEW F, NEW e, NEW b, NEW g, StreamInv(F, e, b, g), KeepMore
  PROVE  Onward(F, e)' /\ UNCHANGED <<sent, handed>>
<1>0. /\ TypeOK /\ HandedInv /\ e \in [0 .. Len(sent) -> Nat] /\ Laid(F, e, sent)
      /\ b = e[Len(handed)] /\ g \in Nat /\ Cuts \subseteq {"payload"}
      /\ KeptInv(F, b) /\ WireInv(F, e, g) /\ PhaseInv(F, b, g)
  BY DEF StreamInv
<1>1. /\ pc = "last" /\ HeaderKept /\ ~Completes /\ Unmentioned /\ handed' = handed
      /\ last_buf' = Copied(last_sz, 1, left) /\ last_sz' = last_sz + left
      /\ pc' = "idle" /\ recv_buf' = <<>> /\ ptr' = 1 /\ new' = 1
  BY DEF KeepMore, CountMore, Returns
<1>2. last_sz # 0
  BY <1>0, <1>1, SizeFacts DEF HeaderKept, HEADER
<1>3. PICK m \in Messages :
        /\ Len(handed) < Len(sent) /\ m = sent[Len(handed) + 1]
        /\ b \in Nat /\ Lies(F, b, m) /\ IsPacket(m)
        /\ last_sz \in HEADER .. Len(m) - 1 /\ Missing = Len(m) - last_sz
        /\ \A i \in 0 .. last_sz - 1 : last_buf[i] = m[i + 1]
  BY <1>2, KeptFacts
<1>4. PICK P, L, z :
        /\ P \in Nat /\ L \in Nat /\ z \in Nat /\ b \in Nat
        /\ P = Len(m) /\ L = Len(recv_buf) /\ z = last_sz /\ left = L
        /\ HEADER <= z /\ z + L < P /\ P < RECV_BUF_SZ
  <2>1. ptr = 1 /\ Len(m) \in Nat /\ Len(m) < RECV_BUF_SZ /\ Len(recv_buf) \in Nat /\ last_sz \in Nat
    BY <1>0, <1>1, MessageFacts, SizeFacts DEF PhaseInv
  <2>2. left = Len(recv_buf)
    BY <1>0, <2>1 DEF left, TypeOK
  <2>3. Missing \in Nat /\ ~(Missing <= Len(recv_buf))
    BY <1>1, <1>3, <2>1, <2>2, SMTT(30) DEF Completes, HEADER
  <2>4. last_sz \in HEADER .. Len(m) - 1 /\ Missing = Len(m) - last_sz /\ b \in Nat
    BY <1>3
  <2>5. HEADER <= last_sz /\ last_sz + Len(recv_buf) < Len(m)
    BY <2>1, <2>3, <2>4 DEF HEADER
  <2> QED BY <2>1, <2>2, <2>4, <2>5
<1>5. /\ ptr = 1 /\ new = 1 /\ sockbuf = <<>> /\ g = b + z + L
      /\ \A i \in 1 .. L : recv_buf[i] = F[b + z + i]
  BY <1>0, <1>1, <1>4 DEF PhaseInv
<1>6. /\ last_buf' \in [Byte(RECV_BUF_SZ) -> Bytes]
      /\ \A i \in 0 .. z - 1 : last_buf'[i] = last_buf[i]
      /\ \A j \in 1 .. L : last_buf'[z + j - 1] = recv_buf[j]
  <2>1. RECV_BUF_SZ \in Nat
    BY BoundsAssumption
  <2>2. z <= RECV_BUF_SZ /\ z + L - 1 + 1 <= RECV_BUF_SZ /\ 1 <= 1 /\ 1 \in Nat /\ L \in Int
    BY <1>4, <2>1
  <2>3. /\ Copied(z, 1, L) \in [Byte(RECV_BUF_SZ) -> Bytes]
        /\ \A i \in 0 .. z - 1 : Copied(z, 1, L)[i] = last_buf[i]
        /\ \A j \in 1 .. L : Copied(z, 1, L)[z + j - 1] = recv_buf[j]
    <3>1. L <= Len(recv_buf) /\ z \in Nat
      BY <1>4
    <3>2. TypeOK
      BY <1>0
    <3> QED BY <2>2, <3>1, <3>2, CopiedFacts
  <2> QED BY <1>1, <1>4, <2>3
<1>7. \A i \in 0 .. z + L - 1 : last_buf'[i] = F[b + i + 1]
  <2> SUFFICES ASSUME NEW i \in 0 .. z + L - 1 PROVE last_buf'[i] = F[b + i + 1]
    OBVIOUS
  <2>1. CASE i < z
    <3>1. i \in 0 .. z - 1 /\ i + 1 \in 1 .. P /\ b + (i + 1) = b + i + 1
      BY <1>4, <2>1
    <3>2. last_buf'[i] = m[i + 1]
      BY <1>3, <1>4, <1>6, <3>1
    <3> QED BY <1>3, <1>4, <3>1, <3>2 DEF Lies
  <2>2. CASE ~(i < z)
    <3>1. PICK j \in 1 .. L : j = i - z + 1
      BY <1>4, <2>2
    <3>2. z + j - 1 = i /\ b + z + j = b + i + 1
      BY <1>4, <3>1
    <3> QED BY <1>5, <1>6, <3>2
  <2> QED BY <2>1, <2>2
<1>8. /\ WireInv(F, e, g)' /\ Laid(F, e, sent)' /\ (e \in [0 .. Len(sent) -> Nat])'
      /\ sockbuf' = sockbuf /\ sent' = sent /\ g \in Nat
  BY <1>1, WireStays
<1>9. last_sz' = z + L /\ z + L \in 0 .. RECV_BUF_SZ /\ z + L \in HEADER .. P - 1
  BY <1>1, <1>4, BoundsAssumption DEF HEADER
<1>10. TypeOK'
  <2>1. recv_buf' \in Seq(Bytes) /\ Len(recv_buf') = 0 /\ 0 <= RECV_BUF_SZ
    BY <1>1, EmptySeq, BoundsAssumption
  <2> QED BY <1>0, <1>1, <1>6, <1>9, <2>1 DEF TypeOK, Unmentioned, wire, lost
<1>11. HandedInv' /\ (b = e[Len(handed)])'
  BY <1>0, <1>1, <1>8 DEF HandedInv
<1>12. KeptInv(F, b)'
  BY <1>0, <1>1, <1>3, <1>4, <1>7, <1>8, <1>9 DEF KeptInv
<1>13. PhaseInv(F, b, g)'
  <2>1. g = b + (z + L)
    BY <1>4, <1>5
  <2> QED BY <1>0, <1>1, <1>9, <2>1 DEF PhaseInv
<1>14. StreamInv(F, e, b, g)'
  BY <1>8, <1>10, <1>11, <1>12, <1>13 DEF StreamInv
<1> QED BY <1>1, <1>8, <1>14 DEF Onward

\* What the loop knows at the '$' of a packet.
LEMMA AtPacket ==
  ASSUME NEW F, NEW e, NEW b, NEW g, StreamInv(F, e, b, g), AtDollar, ptr = new
  PROVE  \E m \in Messages :
           /\ Len(handed) < Len(sent) /\ m = sent[Len(handed) + 1] /\ IsPacket(m)
           /\ e[Len(handed) + 1] = b + Len(m) /\ b \in Nat /\ Lies(F, b, m)
           /\ g = b + left /\ left \in Nat /\ ptr + left = Len(recv_buf) + 1
           /\ \A i \in 0 .. left - 1 : recv_buf[ptr + i] = F[b + i + 1]
           /\ PacketThere <=> Len(m) <= left
           /\ PacketThere => PacketSize = Len(m)
           /\ ~PacketThere => HEADER <= left
<1>0. TypeOK /\ HandedInv /\ e \in [0 .. Len(sent) -> Nat] /\ Laid(F, e, sent)
      /\ b = e[Len(handed)] /\ g \in Nat
  BY DEF StreamInv
<1>1. pc = "scan" /\ left # 0 /\ left > 0 /\ recv_buf[ptr] = DOLLAR
  BY <1>0, SizeFacts DEF AtDollar
<1>2. PICK m \in Messages :
        /\ Len(handed) < Len(sent) /\ m = sent[Len(handed) + 1]
        /\ e[Len(handed) + 1] = b + Len(m) /\ b \in Nat /\ Lies(F, b, m)
        /\ TextInv(F, b, g) /\ Resting(e, sent, g) /\ b < g /\ IsPacket(m)
  BY <1>1, AtByte
<1>3. PICK L, k, P :
        /\ L = Len(recv_buf) /\ k = left /\ P = Len(m)
        /\ L \in Nat /\ k \in Nat /\ P \in Nat /\ ptr \in Nat /\ b \in Nat
        /\ k = L - ptr + 1 /\ k > 0 /\ P > HEADER /\ Payload(m) = P - HEADER
  <2>1. /\ Len(recv_buf) \in Nat /\ ptr \in Nat /\ ptr <= Len(recv_buf) + 1
        /\ left = Len(recv_buf) - ptr + 1
    BY <1>0, SizeFacts
  <2>2. left \in Nat
    BY <2>1
  <2>3. Len(m) \in Nat /\ Len(m) > HEADER /\ Payload(m) = Len(m) - HEADER
    BY <1>2, MessageFacts
  <2> QED BY <1>1, <1>2, <2>1, <2>2, <2>3
<1>4. g = b + k
  <2>1. g = b + L - ptr + 1
    BY <1>2, <1>3 DEF TextInv
  <2> QED BY <1>3, <2>1
<1>5. \A i \in 0 .. k - 1 : recv_buf[ptr + i] = F[b + i + 1]
  <2>1. \A i \in 0 .. k - 1 : ptr + i \in ptr .. L /\ b + (ptr + i) - ptr + 1 = b + i + 1
    BY <1>3
  <2>2. \A j \in ptr .. L : recv_buf[j] = F[b + j - ptr + 1]
    BY <1>2, <1>3 DEF TextInv
  <2> QED BY <2>1, <2>2
<1>6. ASSUME k >= HEADER PROVE PacketSize = P
  <2>1. /\ 2 \in 0 .. k - 1 /\ 3 \in 0 .. k - 1
        /\ b + 2 + 1 = b + 3 /\ b + 3 + 1 = b + 4 /\ 3 \in 1 .. P /\ 4 \in 1 .. P
    BY <1>3, <1>6 DEF HEADER
  <2>2. recv_buf[ptr + 2] = m[3] /\ recv_buf[ptr + 3] = m[4]
    <3>1. recv_buf[ptr + 2] = F[b + 3] /\ recv_buf[ptr + 3] = F[b + 4]
      BY <1>5, <2>1
    <3>2. Lies(F, b, m) /\ 3 \in 1 .. Len(m) /\ 4 \in 1 .. Len(m)
      BY <1>2, <1>3, <2>1
    <3>3. F[b + 3] = m[3] /\ F[b + 4] = m[4]
      BY <3>2 DEF Lies
    <3> QED BY <3>1, <3>3
  <2>3. m[3] \in Nat /\ m[4] \in Nat
    <3>1. 3 \in 1 .. Len(m) /\ 4 \in 1 .. Len(m)
      BY <1>3, <2>1
    <3>2. m[3] \in Bytes /\ m[4] \in Bytes
      BY <3>1, MessageFacts
    <3> QED BY <3>2 DEF Bytes
  <2>4. PacketSize = HEADER + m[3] * 256 + m[4] /\ Payload(m) = m[3] * 256 + m[4]
    BY <2>2 DEF PacketSize, Payload
  <2> QED BY <1>3, <2>3, <2>4, SMTT(30) DEF HEADER
<1>7. P <= k \/ (HEADER <= k /\ k < P)
  <2>1. PICK h \in Nat : h = Len(handed) /\ h \in 0 .. Len(sent) /\ h < Len(sent)
    BY <1>0, <1>2, SizeFacts
  <2>2. sent \in Seq(Messages) /\ e[h] = b /\ e[h + 1] = b + P /\ sent[h + 1] = m
    BY <1>0, <1>2, <1>3, <2>1 DEF TypeOK
  <2>3. g >= e[h + 1] \/ (e[h] + HEADER <= g /\ g < e[h + 1])
    BY <1>0, <1>2, <2>1, <2>2, Reach
  <2> QED BY <1>3, <1>4, <2>2, <2>3, SMTT(30) DEF HEADER
<1>8. PacketThere <=> P <= k
  BY <1>3, <1>6, <1>7 DEF PacketThere, HEADER
<1>9. PacketThere => PacketSize = P
  BY <1>3, <1>6 DEF PacketThere
<1>10. ~PacketThere => HEADER <= k
  BY <1>3, <1>7, <1>8
<1>11. ptr + k = L + 1
  BY <1>3
<1> QED BY <1>2, <1>3, <1>4, <1>5, <1>8, <1>9, <1>10, <1>11

LEMMA StepHandPacket ==
  ASSUME NEW F, NEW e, NEW b, NEW g, StreamInv(F, e, b, g), HandPacket
  PROVE  Onward(F, e)' /\ HandsNext /\ UNCHANGED sent
<1>0. /\ TypeOK /\ HandedInv /\ e \in [0 .. Len(sent) -> Nat] /\ Laid(F, e, sent)
      /\ b = e[Len(handed)] /\ g \in Nat /\ Cuts \subseteq {"payload"}
      /\ KeptInv(F, b) /\ WireInv(F, e, g) /\ PhaseInv(F, b, g)
  BY DEF StreamInv
<1>1. /\ AtDollar /\ pc = "scan" /\ ptr = new /\ PacketThere
      /\ HandOver(SubSeq(recv_buf, ptr, ptr + PacketSize - 1), "scan")
      /\ ptr' = ptr + PacketSize /\ new' = ptr + PacketSize
      /\ UNCHANGED <<recv_buf, last>> /\ Unmentioned
  BY DEF HandPacket, NextMessage, AtDollar
<1>2. PICK m \in Messages :
        /\ Len(handed) < Len(sent) /\ m = sent[Len(handed) + 1]
        /\ e[Len(handed) + 1] = b + Len(m) /\ b \in Nat /\ Lies(F, b, m)
        /\ g = b + left /\ left \in Nat /\ ptr + left = Len(recv_buf) + 1
        /\ \A i \in 0 .. left - 1 : recv_buf[ptr + i] = F[b + i + 1]
        /\ Len(m) <= left /\ PacketSize = Len(m)
  BY <1>1, AtPacket
<1>3. PICK L, k, P :
        /\ L = Len(recv_buf) /\ k = left /\ P = Len(m) /\ P = PacketSize
        /\ L \in Nat /\ k \in Nat /\ P \in Nat /\ ptr \in Nat /\ b \in Nat
        /\ ptr + k = L + 1 /\ P <= k /\ 0 < P /\ 1 <= ptr /\ g = b + k
  <2>1. Len(recv_buf) \in Nat /\ ptr \in Nat /\ 1 <= ptr
    BY <1>0, <1>1, SizeFacts
  <2>2. Len(m) \in Nat /\ 0 < Len(m)
    BY MessageFacts
  <2> QED BY <1>2, <2>1, <2>2
<1>4. \A i \in 0 .. k - 1 : recv_buf[ptr + i] = F[b + i + 1]
  BY <1>2, <1>3
<1>5. SubSeq(recv_buf, ptr, ptr + P - 1) = m
  <2> DEFINE u == SubSeq(recv_buf, ptr, ptr + P - 1)
  <2>1. ptr \in Int /\ ptr + P - 1 \in Int /\ \A i \in ptr .. ptr + P - 1 : i \in 1 .. L
    BY <1>3
  <2>2. \A i \in ptr .. ptr + P - 1 : recv_buf[i] \in Bytes
    BY <1>0, <1>3, <2>1, ElementOfSeq DEF TypeOK
  <2>3. /\ u \in Seq(Bytes)
        /\ Len(u) = IF ptr <= ptr + P - 1 THEN (ptr + P - 1) - ptr + 1 ELSE 0
        /\ \A i \in 1 .. (ptr + P - 1) - ptr + 1 : u[i] = recv_buf[ptr + i - 1]
    BY <2>1, <2>2, SubSeqProperties
  <2> HIDE DEF u
  <2>4. Len(u) = P
    BY <1>3, <2>3
  <2>5. \A i \in 1 .. P : u[i] = m[i]
    <3>1. \A i \in 1 .. P : /\ i \in 1 .. (ptr + P - 1) - ptr + 1 /\ i - 1 \in 0 .. k - 1
                            /\ ptr + i - 1 = ptr + (i - 1) /\ b + (i - 1) + 1 = b + i
      BY <1>3
    <3>2. \A i \in 1 .. P : F[b + i] = m[i]
      BY <1>2, <1>3 DEF Lies
    <3> QED BY <1>4, <2>3, <3>1, <3>2
  <2>6. m \in Seq(Bytes) /\ Len(m) = P
    BY <1>3, MessageFacts
  <2>7. u = m
    BY <2>3, <2>4, <2>5, <2>6, SeqEqual
  <2> QED BY <2>7 DEF u
<1>6. pc' = "scan" /\ handed' = Append(handed, m)
  BY <1>1, <1>3, <1>5, HandWhole
<1>7. HandsNext
  BY <1>2, <1>6 DEF HandsNext
<1>8. /\ WireInv(F, e, g)' /\ Laid(F, e, sent)' /\ (e \in [0 .. Len(sent) -> Nat])'
      /\ sockbuf' = sockbuf /\ sent' = sent
  BY <1>1, WireStays
<1>9. HandedInv' /\ Len(handed') = Len(handed) + 1
  BY <1>0, <1>7, <1>8, Handing
<1>10. PICK d \in Nat : d = b + P
  BY <1>3
<1>11. TypeOK'
  <2>1. ptr' \in 1 .. Len(recv_buf) + 1 /\ new' \in 1 .. ptr'
    BY <1>1, <1>3
  <2> QED BY <1>0, <1>1, <1>6, <2>1 DEF TypeOK, last, Unmentioned, wire, lost
<1>12. last_sz = 0 /\ sockbuf = <<>>
  BY <1>0, <1>1 DEF PhaseInv
<1>13. KeptInv(F, d)' /\ (d = e[Len(handed)])'
  BY <1>1, <1>2, <1>3, <1>9, <1>10, <1>12 DEF KeptInv, last
<1>14. PhaseInv(F, d, g)'
  <2>1. left' = k - P /\ (k - P = 0 => g = d)
    <3>1. left' = L - (ptr + P) + 1
      BY <1>1, <1>3 DEF left
    <3> QED BY <1>3, <1>10, <3>1
  <2>2. TextInv(F, d, g)'
    <3>1. \A i \in ptr + P .. L : i - ptr \in 0 .. k - 1 /\ ptr + (i - ptr) = i
                                  /\ b + (i - ptr) + 1 = d + i - (ptr + P) + 1
      BY <1>3, <1>10
    <3>2. \A i \in ptr + P .. L : recv_buf[i] = F[d + i - (ptr + P) + 1]
      BY <1>4, <3>1
    <3>3. g = d + L - (ptr + P) + 1
      BY <1>3, <1>10
    <3> QED BY <1>1, <1>3, <3>2, <3>3 DEF TextInv
  <2> QED BY <1>1, <1>6, <1>8, <1>12, <2>1, <2>2 DEF PhaseInv, last
<1>15. StreamInv(F, e, d, g)'
  BY <1>0, <1>8, <1>9, <1>11, <1>13, <1>14 DEF StreamInv
<1> QED BY <1>7, <1>8, <1>15 DEF Onward

LEMMA StepKeepPacket ==
  ASSUME NEW F, NEW e, NEW b, NEW g, StreamInv(F, e, b, g), KeepPacket
  PROVE  Onward(F, e)' /\ UNCHANGED <<sent, handed>>
<1>0. /\ TypeOK /\ HandedInv /\ e \in [0 .. Len(sent) -> Nat] /\ Laid(F, e, sent)
      /\ b = e[Len(handed)] /\ g \in Nat /\ Cuts \subseteq {"payload"}
      /\ KeptInv(F, b) /\ WireInv(F, e, g) /\ PhaseInv(F, b, g)
  BY DEF StreamInv
<1>1. /\ AtDollar /\ pc = "scan" /\ ptr = new /\ ~PacketThere
      /\ last_buf' = Copied(0, ptr, Len(recv_buf)) /\ last_sz' = left
      /\ pc' = "idle" /\ recv_buf' = <<>> /\ ptr' = 1 /\ new' = 1
      /\ UNCHANGED handed /\ Unmentioned
  BY DEF KeepPacket, Returns, AtDollar
<1>2. PICK m \in Messages :
        /\ Len(handed) < Len(sent) /\ m = sent[Len(handed) + 1] /\ IsPacket(m)
        /\ b \in Nat /\ g = b + left /\ left \in Nat /\ ptr + left = Len(recv_buf) + 1
        /\ \A i \in 0 .. left - 1 : recv_buf[ptr + i] = F[b + i + 1]
        /\ ~(Len(m) <= left) /\ HEADER <= left
  BY <1>1, AtPacket
<1>3. PICK L, k, P :
        /\ L = Len(recv_buf) /\ k = left /\ P = Len(m)
        /\ L \in Nat /\ k \in Nat /\ P \in Nat /\ ptr \in Nat /\ b \in Nat
        /\ ptr + k = L + 1 /\ k < P /\ 1 <= ptr /\ g = b + k /\ P < RECV_BUF_SZ
        /\ 4 <= k
  <2>1. Len(recv_buf) \in Nat /\ ptr \in Nat /\ 1 <= ptr
    BY <1>0, <1>1, SizeFacts
  <2>2. Len(m) \in Nat /\ Len(m) < RECV_BUF_SZ
    BY MessageFacts
  <2>3. left < Len(m) /\ 4 <= left
    BY <1>2, <2>2 DEF HEADER
  <2> QED BY <1>2, <2>1, <2>2, <2>3
<1>4. \A i \in 0 .. k - 1 : recv_buf[ptr + i] = F[b + i + 1]
  BY <1>2, <1>3
<1>5. /\ last_buf' \in [Byte(RECV_BUF_SZ) -> Bytes]
      /\ \A i \in 0 .. k - 1 : last_buf'[i] = F[b + i + 1]
  <2>1. RECV_BUF_SZ \in Nat
    BY BoundsAssumption
  <2>2. /\ 0 <= RECV_BUF_SZ /\ 0 + L - ptr + 1 <= RECV_BUF_SZ /\ 0 \in Nat
        /\ ptr \in Nat /\ L \in Int /\ 1 <= ptr /\ L <= Len(recv_buf)
    BY <1>3, <2>1
  <2>3. TypeOK
    BY <1>0
  <2>4. /\ Copied(0, ptr, L) \in [Byte(RECV_BUF_SZ) -> Bytes]
        /\ \A j \in ptr .. L : Copied(0, ptr, L)[0 + j - ptr] = recv_buf[j]
    BY <2>2, <2>3, CopiedFacts
  <2>5. \A i \in 0 .. k - 1 : ptr + i \in ptr .. L /\ 0 + (ptr + i) - ptr = i
    BY <1>3
  <2>6. \A i \in 0 .. k - 1 : Copied(0, ptr, L)[i] = recv_buf[ptr + i]
    BY <2>4, <2>5
  <2> QED BY <1>1, <1>3, <1>4, <2>4, <2>6
<1>6. /\ WireInv(F, e, g)' /\ Laid(F, e, sent)' /\ (e \in [0 .. Len(sent) -> Nat])'
      /\ sockbuf' = sockbuf /\ sent' = sent
  BY <1>1, WireStays
<1>7. last_sz' = k /\ k \in 0 .. RECV_BUF_SZ /\ k \in HEADER .. P - 1
  BY <1>1, <1>3, BoundsAssumption DEF HEADER
<1>8. TypeOK'
  <2>1. recv_buf' \in Seq(Bytes) /\ Len(recv_buf') = 0 /\ 0 <= RECV_BUF_SZ
    BY <1>1, EmptySeq, BoundsAssumption
  <2> QED BY <1>0, <1>1, <1>5, <1>7, <2>1 DEF TypeOK, Unmentioned, wire, lost
<1>9. HandedInv' /\ (b = e[Len(handed)])'
  BY <1>0, <1>1, <1>6 DEF HandedInv
<1>10. KeptInv(F, b)'
  BY <1>1, <1>2, <1>3, <1>5, <1>6, <1>7 DEF KeptInv
<1>11. PhaseInv(F, b, g)'
  BY <1>1, <1>3, <1>7 DEF PhaseInv
<1>12. StreamInv(F, e, b, g)'
  BY <1>0, <1>6, <1>8, <1>9, <1>10, <1>11 DEF StreamInv
<1> QED BY <1>1, <1>6, <1>12 DEF Onward

\* The text of a response that recv_buf holds from new on, put into last_buf and
\* closed with a NUL.
LEMMA TextFacts ==
  ASSUME TypeOK, NEW m \in Messages, NEW F, NEW b \in Nat, Lies(F, b, m), last_sz = 0,
         NEW c \in Nat, c + 1 - new = Len(m), c <= Len(recv_buf),
         NEW g, TextInv(F, b, g), NEW buf, buf = Copied(last_sz, new, c)
  PROVE  /\ buf \in [Byte(RECV_BUF_SZ) -> Bytes]
         /\ [buf EXCEPT ![Len(m)] = 0] \in [Byte(RECV_BUF_SZ) -> Bytes]
         /\ \A i \in 0 .. Len(m) - 1 : buf[i] = m[i + 1]
         /\ Front0([buf EXCEPT ![Len(m)] = 0], Len(m)) = m
<1>1. PICK L, P :
        /\ L = Len(recv_buf) /\ P = Len(m)
        /\ L \in Nat /\ P \in Nat /\ new \in Nat /\ 1 <= new
        /\ c <= L /\ c + 1 - new = P /\ P < RECV_BUF_SZ /\ RECV_BUF_SZ \in Nat
  <2>1. Len(recv_buf) \in Nat /\ new \in Nat /\ 1 <= new
    BY LenProperties DEF TypeOK
  <2>2. Len(m) \in Nat /\ Len(m) < RECV_BUF_SZ
    BY MessageFacts
  <2> QED BY <2>1, <2>2, BoundsAssumption
<1>2. /\ buf \in [Byte(RECV_BUF_SZ) -> Bytes]
      /\ \A j \in new .. c : buf[0 + j - new] = recv_buf[j]
  <2>1. /\ 0 <= RECV_BUF_SZ /\ 0 + c - new + 1 <= RECV_BUF_SZ /\ 0 \in Nat
        /\ new \in Nat /\ c \in Int /\ 1 <= new /\ c <= Len(recv_buf)
    BY <1>1
  <2>2. /\ Copied(0, new, c) \in [Byte(RECV_BUF_SZ) -> Bytes]
        /\ \A j \in new .. c : Copied(0, new, c)[0 + j - new] = recv_buf[j]
    BY <2>1, CopiedFacts
  <2> QED BY <2>2
<1>3. \A i \in 0 .. P - 1 : buf[i] = m[i + 1]
  <2>1. \A i \in 0 .. P - 1 : /\ new + i \in new .. c /\ 0 + (new + i) - new = i
                              /\ new + i \in new .. L
                              /\ b + (new + i) - new + 1 = b + (i + 1) /\ i + 1 \in 1 .. P
    BY <1>1
  <2>2. \A i \in 0 .. P - 1 : buf[i] = recv_buf[new + i]
    BY <1>2, <2>1
  <2>3. \A i \in 0 .. P - 1 : recv_buf[new + i] = F[b + (i + 1)]
    <3>1. \A i \in new .. L : recv_buf[i] = F[b + i - new + 1]
      BY <1>1 DEF TextInv
    <3> QED BY <2>1, <3>1
  <2>4. \A i \in 0 .. P - 1 : F[b + (i + 1)] = m[i + 1]
    BY <1>1, <2>1 DEF Lies
  <2> QED BY <2>2, <2>3, <2>4
<1>4. PICK w : w = [buf EXCEPT ![P] = 0]
  OBVIOUS
<1>5. w \in [Byte(RECV_BUF_SZ) -> Bytes]
  <2>1. 0 \in Bytes
    BY DEF Bytes
  <2> QED BY <1>2, <1>4, <2>1
<1>6. \A i \in 0 .. P - 1 : w[i] = m[i + 1]
  <2>1. \A i \in 0 .. P - 1 : i \in Byte(RECV_BUF_SZ) /\ i # P
    BY <1>1 DEF Byte
  <2> QED BY <1>2, <1>3, <1>4, <2>1
<1>7. Front0(w, Len(m)) = m
  BY <1>1, <1>6, FrontFacts
<1> QED BY <1>1, <1>2, <1>3, <1>4, <1>5, <1>7

LEMMA StepFlushText ==
  ASSUME NEW F, NEW e, NEW b, NEW g, StreamInv(F, e, b, g), FlushText
  PROVE  Onward(F, e)' /\ HandsNext /\ UNCHANGED sent
<1>0. /\ TypeOK /\ HandedInv /\ e \in [0 .. Len(sent) -> Nat] /\ Laid(F, e, sent)
      /\ b = e[Len(handed)] /\ g \in Nat /\ Cuts \subseteq {"payload"}
      /\ KeptInv(F, b) /\ WireInv(F, e, g) /\ PhaseInv(F, b, g)
  BY DEF StreamInv
<1>1. /\ pc = "scan" /\ left # 0 /\ recv_buf[ptr] = DOLLAR /\ ptr # new
      /\ last_buf' = [Copied(last_sz, new, ptr - 1) EXCEPT ![last_sz + ptr - new] = 0]
      /\ HandOver(Front0(last_buf', last_sz + ptr - new), "scan")
      /\ last_sz' = 0 /\ new' = ptr
      /\ UNCHANGED <<recv_buf, ptr>> /\ Unmentioned
  BY <1>0, SizeFacts DEF FlushText, AtDollar
<1>2. PICK m \in Messages :
        /\ Len(handed) < Len(sent) /\ m = sent[Len(handed) + 1]
        /\ e[Len(handed) + 1] = b + Len(m) /\ b \in Nat /\ Lies(F, b, m)
        /\ ptr <= Len(recv_buf) /\ TextInv(F, b, g) /\ ptr - new = Len(m)
  BY <1>1, AtByte
<1>3. PICK L, P :
        /\ L = Len(recv_buf) /\ P = Len(m) /\ L \in Nat /\ P \in Nat /\ b \in Nat
        /\ ptr \in Nat /\ new \in Nat /\ 1 <= new /\ ptr <= L /\ ptr = new + P /\ 0 < P
  <2>1. Len(recv_buf) \in Nat /\ ptr \in Nat /\ new \in Nat /\ 1 <= new
    BY <1>0, SizeFacts
  <2>2. Len(m) \in Nat /\ 0 < Len(m)
    BY MessageFacts
  <2>3. ptr = new + Len(m)
    BY <1>2, <2>1, <2>2
  <2> QED BY <1>2, <2>1, <2>2, <2>3
<1>4. last_sz = 0 /\ sockbuf = <<>>
  BY <1>0, <1>1 DEF PhaseInv
<1>5. last_sz + ptr - new = P
  BY <1>3, <1>4
<1>6. /\ last_buf' \in [Byte(RECV_BUF_SZ) -> Bytes]
      /\ Front0(last_buf', last_sz + ptr - new) = m
  <2>1. /\ ptr - 1 \in Nat /\ (ptr - 1) + 1 - new = Len(m) /\ ptr - 1 <= Len(recv_buf)
    BY <1>3
  <2>2. TypeOK /\ b \in Nat /\ Lies(F, b, m) /\ TextInv(F, b, g)
    BY <1>0, <1>2
  <2>3. PICK buf : buf = Copied(last_sz, new, ptr - 1)
    OBVIOUS
  <2>4. /\ [buf EXCEPT ![Len(m)] = 0] \in [Byte(RECV_BUF_SZ) -> Bytes]
        /\ Front0([buf EXCEPT ![Len(m)] = 0], Len(m)) = m
    BY <1>4, <2>1, <2>2, <2>3, TextFacts
  <2>5. last_buf' = [buf EXCEPT ![Len(m)] = 0]
    BY <1>1, <1>3, <1>5, <2>3
  <2> QED BY <1>3, <1>5, <2>4, <2>5
<1>7. pc' = "scan" /\ handed' = Append(handed, m)
  BY <1>1, <1>6, HandWhole
<1>8. HandsNext
  BY <1>2, <1>7 DEF HandsNext
<1>9. /\ WireInv(F, e, g)' /\ Laid(F, e, sent)' /\ (e \in [0 .. Len(sent) -> Nat])'
      /\ sockbuf' = sockbuf /\ sent' = sent
  BY <1>1, WireStays
<1>10. HandedInv' /\ Len(handed') = Len(handed) + 1
  BY <1>0, <1>8, <1>9, Handing
<1>11. PICK d \in Nat : d = b + P
  BY <1>3
<1>12. TypeOK'
  <2>1. /\ ptr \in 1 .. Len(recv_buf) + 1 /\ ptr \in 1 .. ptr /\ 0 \in 0 .. RECV_BUF_SZ
    BY <1>3, BoundsAssumption
  <2> QED BY <1>0, <1>1, <1>6, <1>7, <2>1 DEF TypeOK, Unmentioned, wire, lost
<1>13. KeptInv(F, d)' /\ (d = e[Len(handed)])'
  BY <1>1, <1>2, <1>3, <1>10, <1>11 DEF KeptInv
<1>14. PhaseInv(F, d, g)'
  <2>1. left' = left
    BY <1>1 DEF left
  <2>2. TextInv(F, d, g)'
    <3>1. \A i \in ptr .. L : i \in new .. L /\ b + i - new + 1 = d + i - ptr + 1
      BY <1>3, <1>11
    <3>2. \A i \in ptr .. L : recv_buf[i] = F[d + i - ptr + 1]
      <4>1. \A i \in new .. L : recv_buf[i] = F[b + i - new + 1]
        BY <1>2, <1>3 DEF TextInv
      <4> QED BY <3>1, <4>1
    <3>3. g = b + L - new + 1
      BY <1>2, <1>3 DEF TextInv
    <3>4. b + L - new + 1 = d + L - ptr + 1
      BY <1>3, <1>11
    <3> QED BY <1>1, <1>3, <3>2, <3>3, <3>4 DEF TextInv
  <2> QED BY <1>1, <1>4, <1>7, <1>9, <2>1, <2>2 DEF PhaseInv
<1>15. StreamInv(F, e, d, g)'
  BY <1>0, <1>9, <1>10, <1>12, <1>13, <1>14 DEF StreamInv
<1> QED BY <1>8, <1>9, <1>15 DEF Onward

LEMMA StepSkipText ==
  ASSUME NEW F, NEW e, NEW b, NEW g, StreamInv(F, e, b, g), SkipText
  PROVE  Onward(F, e)' /\ UNCHANGED <<sent, handed>>
<1>0. /\ TypeOK /\ HandedInv /\ e \in [0 .. Len(sent) -> Nat] /\ Laid(F, e, sent)
      /\ b = e[Len(handed)] /\ g \in Nat /\ Cuts \subseteq {"payload"}
      /\ KeptInv(F, b) /\ WireInv(F, e, g) /\ PhaseInv(F, b, g)
  BY DEF StreamInv
<1>1. /\ pc = "scan" /\ left > 1 /\ left # 0 /\ recv_buf[ptr] # DOLLAR /\ ptr' = ptr + 1
      /\ UNCHANGED <<pc, recv_buf, new, last, handed>> /\ Unmentioned
  BY <1>0, SizeFacts DEF SkipText
<1>2. PICK m \in Messages :
        /\ Len(handed) < Len(sent) /\ m = sent[Len(handed) + 1]
        /\ TextInv(F, b, g) /\ ~IsPacket(m) /\ ptr - new < Len(m)
  BY <1>1, AtByte
<1>3. PICK L, P :
        /\ L = Len(recv_buf) /\ P = Len(m) /\ L \in Nat /\ P \in Nat
        /\ ptr \in Nat /\ new \in Nat /\ 1 <= new /\ new <= ptr /\ ptr < L
        /\ ptr + 1 - new <= P
  <2>1. /\ Len(recv_buf) \in Nat /\ ptr \in Nat /\ new \in Nat /\ 1 <= new /\ new <= ptr
        /\ left = Len(recv_buf) - ptr + 1
    BY <1>0, SizeFacts
  <2>2. Len(m) \in Nat
    BY MessageFacts
  <2>3. ptr + 1 - new <= Len(m) /\ ptr < Len(recv_buf)
    BY <1>1, <1>2, <2>1, <2>2
  <2> QED BY <2>1, <2>2, <2>3
<1>4. /\ WireInv(F, e, g)' /\ Laid(F, e, sent)' /\ (e \in [0 .. Len(sent) -> Nat])'
      /\ sockbuf' = sockbuf /\ sent' = sent
  BY <1>1, WireStays
<1>5. TypeOK'
  <2>1. ptr + 1 \in 1 .. Len(recv_buf) + 1 /\ new \in 1 .. ptr + 1
    BY <1>3
  <2> QED BY <1>0, <1>1, <2>1 DEF TypeOK, last, Unmentioned, wire, lost
<1>6. HandedInv' /\ KeptInv(F, b)' /\ (b = e[Len(handed)])'
  BY <1>0, <1>1, <1>4 DEF HandedInv, KeptInv, last
<1>7. PhaseInv(F, b, g)'
  <2>1. left' # 0
    BY <1>1, <1>3 DEF left
  <2>2. TextInv(F, b, g)'
    <3>1. /\ g = b + L - new + 1
          /\ \A i \in new .. L : recv_buf[i] = F[b + i - new + 1]
      BY <1>2, <1>3 DEF TextInv
    <3>2. /\ recv_buf' = recv_buf /\ new' = new /\ ptr' = ptr + 1
          /\ handed' = handed /\ sent' = sent
      BY <1>1, <1>4
    <3>3. ptr + 1 # new
      BY <1>3
    <3> QED BY <1>2, <1>3, <3>1, <3>2, <3>3 DEF TextInv
  <2> QED BY <1>0, <1>1, <1>4, <2>1, <2>2 DEF PhaseInv, last
<1>8. StreamInv(F, e, b, g)'
  BY <1>0, <1>4, <1>5, <1>6, <1>7 DEF StreamInv
<1> QED BY <1>1, <1>4, <1>8 DEF Onward

LEMMA StepEndOfText ==
  ASSUME NEW F, NEW e, NEW b, NEW g, StreamInv(F, e, b, g), EndOfText
  PROVE  Onward(F, e)' /\ HandsNext /\ UNCHANGED sent
<1>0. /\ TypeOK /\ HandedInv /\ e \in [0 .. Len(sent) -> Nat] /\ Laid(F, e, sent)
      /\ b = e[Len(handed)] /\ g \in Nat /\ Cuts \subseteq {"payload"}
      /\ KeptInv(F, b) /\ WireInv(F, e, g) /\ PhaseInv(F, b, g)
  BY DEF StreamInv
<1>1. /\ pc = "scan" /\ left = 1 /\ left # 0 /\ recv_buf[ptr] # DOLLAR /\ ptr' = ptr + 1
      /\ UNCHANGED <<recv_buf, new>> /\ Unmentioned
  BY DEF EndOfText
<1>2. PICK m \in Messages :
        /\ Len(handed) < Len(sent) /\ m = sent[Len(handed) + 1]
        /\ e[Len(handed) + 1] = b + Len(m) /\ b \in Nat /\ Lies(F, b, m)
        /\ b < g /\ TextInv(F, b, g) /\ Resting(e, sent, g)
        /\ ~IsPacket(m) /\ ptr - new < Len(m)
  BY <1>1, AtByte
<1>3. last_sz = 0 /\ sockbuf = <<>>
  BY <1>0, <1>1 DEF PhaseInv
<1>4. g >= b + Len(m)
  <2>1. PICK h \in Nat : h = Len(handed) /\ h \in 0 .. Len(sent) /\ h < Len(sent)
    BY <1>0, <1>2, SizeFacts
  <2>2. sent \in Seq(Messages) /\ e[h] = b /\ e[h + 1] = b + Len(m) /\ sent[h + 1] = m
    BY <1>0, <1>2, <2>1 DEF TypeOK
  <2>3. "response" \notin Cuts
    BY DEF StreamInv
  <2>4. g >= e[h + 1] \/ IsPacket(sent[h + 1])
    BY <1>0, <1>2, <2>1, <2>2, <2>3, Reach
  <2> QED BY <1>2, <2>2, <2>4
<1>5. PICK L, P :
        /\ L = Len(recv_buf) /\ P = Len(m) /\ L \in Nat /\ P \in Nat /\ b \in Nat
        /\ ptr \in Nat /\ new \in Nat /\ 1 <= new /\ new <= ptr /\ ptr = L
        /\ ptr + 1 - new = P /\ 4 <= P /\ g = b + P
  <2>1. /\ Len(recv_buf) \in Nat /\ ptr \in Nat /\ new \in Nat /\ 1 <= new /\ new <= ptr
        /\ left = Len(recv_buf) - ptr + 1
    BY <1>0, SizeFacts
  <2>2. Len(m) \in Nat /\ 4 <= Len(m)
    BY <1>2, MessageFacts
  <2>3. ptr = Len(recv_buf)
    BY <1>0, <1>1, <2>1 DEF TypeOK
  <2>4. g = b + Len(recv_buf) - new + 1
    BY <1>2 DEF TextInv
  <2>5. ptr + 1 - new = Len(m)
    <3>1. b \in Nat /\ ptr - new < Len(m)
      BY <1>2
    <3>2. Len(m) <= ptr - new + 1
      BY <1>4, <2>1, <2>2, <2>3, <2>4, <3>1
    <3> QED BY <2>1, <2>2, <3>1, <3>2
  <2>6. g = b + Len(m)
    <3>1. b \in Nat
      BY <1>2
    <3> QED BY <2>1, <2>3, <2>4, <2>5, <3>1
  <2> QED BY <1>2, <2>1, <2>2, <2>3, <2>5, <2>6
<1>6. PICK buf : buf = Copied(last_sz, new, ptr)
  OBVIOUS
<1>7. last_sz + (ptr + 1 - new) = P
  BY <1>3, <1>5
<1>8. /\ [buf EXCEPT ![P] = 0] \in [Byte(RECV_BUF_SZ) -> Bytes]
      /\ \A i \in 0 .. P - 1 : buf[i] = m[i + 1]
      /\ Front0([buf EXCEPT ![P] = 0], P) = m
  <2>1. ptr \in Nat /\ ptr + 1 - new = Len(m) /\ ptr <= Len(recv_buf)
    BY <1>5
  <2>2. TypeOK /\ b \in Nat /\ Lies(F, b, m) /\ TextInv(F, b, g)
    BY <1>0, <1>2
  <2>3. /\ [buf EXCEPT ![Len(m)] = 0] \in [Byte(RECV_BUF_SZ) -> Bytes]
        /\ \A i \in 0 .. Len(m) - 1 : buf[i] = m[i + 1]
        /\ Front0([buf EXCEPT ![Len(m)] = 0], Len(m)) = m
    BY <1>3, <1>6, <2>1, <2>2, TextFacts
  <2> QED BY <1>5, <2>3
<1>9. Complete(buf, P)
  <2>1. m[Len(m) - 1] = CR /\ m[Len(m)] = LF
    BY <1>2, MessageFacts
  <2>2. /\ P - 2 \in 0 .. P - 1 /\ P - 1 \in 0 .. P - 1
        /\ (P - 2) + 1 = P - 1 /\ (P - 1) + 1 = P
    BY <1>5
  <2>3. buf[P - 2] = m[P - 1] /\ buf[P - 1] = m[P]
    BY <1>8, <2>2
  <2> QED BY <1>5, <2>1, <2>3 DEF Complete
<1>10. /\ last_buf' = [buf EXCEPT ![P] = 0] /\ last_sz' = 0
       /\ HandOver(Front0(last_buf', P), "scan")
  BY <1>6, <1>7, <1>9 DEF EndOfText
<1>11. pc' = "scan" /\ handed' = Append(handed, m)
  BY <1>8, <1>10, HandWhole
<1>12. HandsNext
  BY <1>2, <1>11 DEF HandsNext
<1>13. /\ WireInv(F, e, g)' /\ Laid(F, e, sent)' /\ (e \in [0 .. Len(sent) -> Nat])'
       /\ sockbuf' = sockbuf /\ sent' = sent
  BY <1>1, WireStays
<1>14. HandedInv' /\ Len(handed') = Len(handed) + 1
  BY <1>0, <1>12, <1>13, Handing
<1>15. TypeOK'
  <2>1. /\ ptr + 1 \in 1 .. Len(recv_buf) + 1 /\ new \in 1 .. ptr + 1 /\ 0 \in 0 .. RECV_BUF_SZ
    BY <1>5, BoundsAssumption
  <2> QED BY <1>0, <1>1, <1>8, <1>10, <1>11, <2>1 DEF TypeOK, Unmentioned, wire, lost
<1>16. KeptInv(F, g)' /\ (g = e[Len(handed)])'
  BY <1>2, <1>5, <1>10, <1>14 DEF KeptInv
<1>17. PhaseInv(F, g, g)'
  <2>1. left' = 0
    BY <1>1, <1>5 DEF left
  <2> QED BY <1>3, <1>10, <1>11, <1>13, <2>1 DEF PhaseInv
<1>18. StreamInv(F, e, g, g)'
  BY <1>0, <1>13, <1>14, <1>15, <1>16, <1>17 DEF StreamInv
<1> QED BY <1>12, <1>13, <1>18 DEF Onward

LEMMA StepAllHandled ==
  ASSUME NEW F, NEW e, NEW b, NEW g, StreamInv(F, e, b, g), AllHandled
  PROVE  Onward(F, e)' /\ UNCHANGED <<sent, handed>>
<1>0. /\ TypeOK /\ HandedInv /\ e \in [0 .. Len(sent) -> Nat] /\ Laid(F, e, sent)
      /\ b = e[Len(handed)] /\ g \in Nat /\ Cuts \subseteq {"payload"}
      /\ KeptInv(F, b) /\ WireInv(F, e, g) /\ PhaseInv(F, b, g)
  BY DEF StreamInv
<1>1. /\ pc = "scan" /\ left = 0 /\ UNCHANGED <<last, handed>> /\ Unmentioned
      /\ pc' = "idle" /\ recv_buf' = <<>> /\ ptr' = 1 /\ new' = 1
  BY DEF AllHandled, Returns
<1>2. last_sz = 0 /\ g = b
  BY <1>0, <1>1 DEF PhaseInv
<1>3. /\ WireInv(F, e, g)' /\ Laid(F, e, sent)' /\ (e \in [0 .. Len(sent) -> Nat])'
      /\ sockbuf' = sockbuf /\ sent' = sent
  BY <1>1, WireStays
<1>4. TypeOK'
  <2>1. recv_buf' \in Seq(Bytes) /\ Len(recv_buf') = 0 /\ 0 <= RECV_BUF_SZ
    BY <1>1, EmptySeq, BoundsAssumption
  <2> QED BY <1>0, <1>1, <2>1 DEF TypeOK, last, Unmentioned, wire, lost
<1>5. HandedInv' /\ KeptInv(F, b)' /\ (b = e[Len(handed)])'
  BY <1>0, <1>1, <1>2, <1>3 DEF HandedInv, KeptInv, last
<1>6. PhaseInv(F, b, g)'
  <2>1. g = b + 0
    BY <1>0, <1>2
  <2> QED BY <1>1, <1>2, <2>1 DEF PhaseInv, last
<1>7. StreamInv(F, e, b, g)'
  BY <1>0, <1>3, <1>4, <1>5, <1>6 DEF StreamInv
<1> QED BY <1>1, <1>3, <1>7 DEF Onward

-----------------------------------------------------------------------------
(* The server and the network                                              *)

\* G and d lay out one message more than F and e.
Further(F, e, G, d, s, m) ==
  LET t == Append(s, m) IN
    /\ d \in [0 .. Len(t) -> Nat] /\ Laid(G, d, t)
    /\ \A k \in 0 .. Len(s) : d[k] = e[k]
    /\ d[Len(t)] = e[Len(s)] + Len(m) /\ Lies(G, e[Len(s)], m)
    /\ \A p \in Nat : p <= e[Len(s)] => G[p] = F[p]
    /\ \A p \in Nat : Resting(e, s, p) => Resting(d, t, p)

LEMMA LaidFurther ==
  ASSUME NEW F, NEW s \in Seq(Messages), NEW e \in [0 .. Len(s) -> Nat], Laid(F, e, s),
         NEW m \in Messages
  PROVE  \E G, d : Further(F, e, G, d, s, m)
<1>1. PICK n, P, T :
        /\ n = Len(s) /\ P = Len(m) /\ T = e[n]
        /\ n \in Nat /\ P \in Nat /\ T \in Nat /\ 0 < P
  <2>1. Len(s) \in Nat /\ Len(m) \in Nat /\ 0 < Len(m)
    BY LenProperties, MessageFacts
  <2>2. e[Len(s)] \in Nat
    BY <2>1
  <2> QED BY <2>1, <2>2
<1>2. PICK G : G = [p \in Nat |-> IF p <= T THEN F[p] ELSE m[p - T]]
  OBVIOUS
<1>3. PICK d : d = [k \in 0 .. n + 1 |-> IF k <= n THEN e[k] ELSE T + P]
  OBVIOUS
<1>4. PICK t : t = Append(s, m)
  OBVIOUS
<1>5. /\ Len(t) = n + 1 /\ t[n + 1] = m /\ \A k \in 1 .. n : t[k] = s[k]
  <2>1. /\ Len(t) = n + 1
        /\ \A k \in 1 .. n + 1 : t[k] = IF k = n + 1 THEN m ELSE s[k]
    BY <1>1, <1>4, AppendProperties
  <2>2. n + 1 \in 1 .. n + 1 /\ \A k \in 1 .. n : k \in 1 .. n + 1 /\ k # n + 1
    BY <1>1
  <2> QED BY <2>1, <2>2
<1>6. \A k \in 0 .. n : e[k] \in Nat
  BY <1>1
<1>7. /\ d \in [0 .. n + 1 -> Nat] /\ \A k \in 0 .. n : d[k] = e[k]
      /\ d[n + 1] = T + P
  <2>1. n + 1 \in 0 .. n + 1 /\ ~(n + 1 <= n) /\ T + P \in Nat
    BY <1>1
  <2>2. \A k \in 0 .. n : k \in 0 .. n + 1 /\ k <= n
    BY <1>1
  <2>3. \A k \in 0 .. n + 1 : k <= n => k \in 0 .. n
    BY <1>1
  <2> QED BY <1>3, <1>6, <2>1, <2>2, <2>3
<1>8. \A p \in Nat : p <= T => G[p] = F[p]
  BY <1>2
<1>9. Lies(G, T, m)
  <2>1. \A i \in 1 .. P : T + i \in Nat /\ ~(T + i <= T) /\ (T + i) - T = i
    BY <1>1
  <2>2. \A i \in 1 .. P : G[T + i] = m[i]
    BY <1>2, <2>1
  <2> QED BY <1>1, <2>2 DEF Lies
<1>10. /\ \A k \in 1 .. n : e[k] = e[k - 1] + Len(s[k]) /\ Lies(F, e[k - 1], s[k])
       /\ \A j, k \in 0 .. n : j < k => e[j] < e[k]
  BY <1>1 DEF Laid
<1>11. \A k \in 0 .. n : e[k] <= T
  <2> SUFFICES ASSUME NEW k \in 0 .. n PROVE e[k] <= T
    OBVIOUS
  <2>1. n \in 0 .. n /\ (k < n \/ k = n)
    BY <1>1
  <2>2. k < n => e[k] < e[n]
    BY <1>10, <2>1
  <2> QED BY <1>1, <1>6, <2>1, <2>2
<1>12. ASSUME NEW k \in 1 .. n + 1
       PROVE  d[k] = d[k - 1] + Len(t[k]) /\ Lies(G, d[k - 1], t[k])
  <2>1. CASE k = n + 1
    <3>1. k - 1 = n /\ n \in 0 .. n
      BY <1>1, <2>1
    <3> QED BY <1>1, <1>5, <1>7, <1>9, <2>1, <3>1
  <2>2. CASE k # n + 1
    <3>1. k \in 1 .. n /\ k \in 0 .. n /\ k - 1 \in 0 .. n
      BY <1>1, <2>2
    <3>2. d[k] = e[k] /\ d[k - 1] = e[k - 1] /\ t[k] = s[k]
      BY <1>5, <1>7, <3>1
    <3>3. e[k] = e[k - 1] + Len(s[k]) /\ Lies(F, e[k - 1], s[k])
      BY <1>10, <3>1
    <3>4. PICK a, l : a = e[k - 1] /\ a \in Nat /\ l = Len(s[k]) /\ l \in Nat /\ a + l <= T
      <4>1. s[k] \in Messages
        BY <1>1, <3>1, ElementOfSeq
      <4>2. Len(s[k]) \in Nat
        BY <4>1, MessageFacts
      <4> QED BY <1>6, <1>11, <3>1, <3>3, <4>2
    <3>5. \A i \in 1 .. l : a + i \in Nat /\ a + i <= T
      BY <1>1, <3>4
    <3>6. \A i \in 1 .. l : G[a + i] = F[a + i]
      BY <1>8, <3>5
    <3>7. Lies(G, e[k - 1], s[k])
      BY <3>3, <3>4, <3>6 DEF Lies
    <3> QED BY <3>2, <3>3, <3>7
  <2> QED BY <2>1, <2>2
<1>13. ASSUME NEW j \in 0 .. n + 1, NEW k \in 0 .. n + 1, j < k PROVE d[j] < d[k]
  <2>1. j \in 0 .. n /\ d[j] = e[j] /\ e[j] \in Nat /\ e[j] <= T
    <3>1. j \in 0 .. n
      BY <1>1, <1>13
    <3> QED BY <1>6, <1>7, <1>11, <3>1
  <2>2. CASE k = n + 1
    BY <1>1, <1>7, <2>1, <2>2
  <2>3. CASE k # n + 1
    <3>1. k \in 0 .. n
      BY <1>1, <2>3
    <3> QED BY <1>7, <1>10, <1>13, <2>1, <3>1
  <2> QED BY <2>2, <2>3
<1>14. Laid(G, d, t)
  BY <1>5, <1>12, <1>13 DEF Laid
<1>15. ASSUME NEW p \in Nat, Resting(e, s, p) PROVE Resting(d, t, p)
  <2>1. CASE \E k \in 0 .. n : p = e[k]
    <3>1. PICK k \in 0 .. n : p = e[k]
      BY <2>1
    <3>2. k \in 0 .. n + 1 /\ p = d[k]
      BY <1>1, <1>7, <3>1
    <3> QED BY <1>5, <3>2 DEF Resting
  <2>2. CASE \E k \in 1 .. n :
               /\ e[k - 1] < p /\ p < e[k]
               /\ IF IsPacket(s[k]) THEN e[k - 1] + HEADER <= p ELSE "response" \in Cuts
    <3>1. PICK k \in 1 .. n :
            /\ e[k - 1] < p /\ p < e[k]
            /\ IF IsPacket(s[k]) THEN e[k - 1] + HEADER <= p ELSE "response" \in Cuts
      BY <2>2
    <3>2. k \in 1 .. n + 1 /\ k \in 0 .. n /\ k - 1 \in 0 .. n
      BY <1>1
    <3>3. t[k] = s[k] /\ d[k - 1] = e[k - 1] /\ d[k] = e[k]
      BY <1>5, <1>7, <3>2
    <3> QED BY <1>5, <3>1, <3>2, <3>3 DEF Resting
  <2> QED BY <1>1, <1>15, <2>1, <2>2 DEF Resting
<1>16. Further(F, e, G, d, s, m)
  BY <1>1, <1>4, <1>5, <1>7, <1>8, <1>9, <1>14, <1>15 DEF Further
<1> QED BY <1>16

\* A response is sent when every response sent before has been handed over.
LEMMA AllAnswered ==
  ASSUME TypeOK, HandedInv,
         Cardinality(Responses(handed)) >= Cardinality(Responses(sent))
  PROVE  \A k \in Len(handed) + 1 .. Len(sent) : IsPacket(sent[k])
<1>1. PICK h, n : h = Len(handed) /\ n = Len(sent) /\ h \in Nat /\ n \in Nat /\ h <= n
  BY SizeFacts DEF HandedInv
<1>2. Responses(sent) \in SUBSET (1 .. n) /\ IsFiniteSet(1 .. n)
  BY <1>1, FS_Interval DEF Responses
<1>3. IsFiniteSet(Responses(sent))
  BY <1>2, FS_Subset
<1>4. Responses(handed) \in SUBSET Responses(sent)
  <2>1. \A k \in 1 .. h : k \in 1 .. n /\ handed[k] = sent[k]
    BY <1>1 DEF HandedInv
  <2> QED BY <1>1, <2>1 DEF Responses
<1>5. /\ Cardinality(Responses(handed)) <= Cardinality(Responses(sent))
      /\ Cardinality(Responses(sent)) = Cardinality(Responses(handed)) =>
           Responses(sent) = Responses(handed)
      /\ IsFiniteSet(Responses(handed))
  BY <1>3, <1>4, FS_Subset
<1>6. Cardinality(Responses(sent)) \in Nat /\ Cardinality(Responses(handed)) \in Nat
  BY <1>3, <1>5, FS_CardinalityType
<1>7. Responses(sent) = Responses(handed)
  BY <1>5, <1>6
<1> SUFFICES ASSUME NEW k \in h + 1 .. n, ~IsPacket(sent[k]) PROVE FALSE
  BY <1>1
<1>8. k \in 1 .. n /\ k \notin 1 .. h
  BY <1>1
<1>9. k \in Responses(sent) /\ k \notin Responses(handed)
  BY <1>1, <1>8 DEF Responses
<1> QED BY <1>7, <1>9

\* The bytes of a message on their way.
Bits(m) == [k \in 1 .. Len(m) |-> [byte |-> m[k], ends |-> Place(m, k)]]

LEMMA BitsFacts ==
  ASSUME NEW m \in Messages
  PROVE  /\ Bits(m) \in Seq([byte : Bytes, ends : Places \cup {"message"}])
         /\ Len(Bits(m)) = Len(m)
         /\ \A k \in 1 .. Len(m) :
              /\ Bits(m)[k].byte = m[k]
              /\ Bits(m)[k].ends = "message" => k = Len(m)
              /\ Bits(m)[k].ends = "payload" => IsPacket(m) /\ HEADER <= k /\ k < Len(m)
              /\ Bits(m)[k].ends = "response" => ~IsPacket(m) /\ k < Len(m)
<1>1. PICK P : P = Len(m) /\ P \in Nat /\ \A k \in 1 .. P : m[k] \in Bytes
  BY MessageFacts
<1> DEFINE R == [byte : Bytes, ends : Places \cup {"message"}]
           f == [k \in 1 .. P |-> [byte |-> m[k], ends |-> Place(m, k)]]
<1>2. ASSUME NEW k \in 1 .. P
      PROVE  /\ Place(m, k) \in Places \cup {"message"}
             /\ Place(m, k) = "message" => k = P
             /\ Place(m, k) = "payload" => IsPacket(m) /\ HEADER <= k /\ k < P
             /\ Place(m, k) = "response" => ~IsPacket(m) /\ k < P
  <2>1. k \in Nat /\ k <= P
    BY <1>1
  <2>2. CASE k = P
    <3>1. Place(m, k) = "message"
      BY <1>1, <2>2 DEF Place
    <3> QED BY <2>2, <3>1 DEF Places
  <2>3. CASE k # P /\ ~IsPacket(m)
    <3>1. Place(m, k) = "response"
      BY <1>1, <2>3 DEF Place
    <3> QED BY <1>1, <2>1, <2>3, <3>1 DEF Places
  <2>4. CASE k # P /\ IsPacket(m) /\ k < HEADER
    <3>1. Place(m, k) = "header"
      BY <1>1, <2>1, <2>4 DEF Place, HEADER
    <3> QED BY <3>1 DEF Places
  <2>5. CASE k # P /\ IsPacket(m) /\ ~(k < HEADER)
    <3>1. HEADER <= k /\ k >= HEADER /\ k < P
      BY <1>1, <2>1, <2>5 DEF HEADER
    <3>2. Place(m, k) = "payload"
      BY <1>1, <2>5, <3>1 DEF Place
    <3> QED BY <2>5, <3>1, <3>2 DEF Places
  <2> QED BY <2>2, <2>3, <2>4, <2>5
<1>3. \A k \in 1 .. P : f[k] \in R
  BY <1>1, <1>2
<1>4. f \in [1 .. P -> R]
  BY <1>3
<1>5. f \in Seq(R) /\ Len(f) = P
  <2> HIDE DEF f, R
  <2> QED BY <1>1, <1>4
<1>6. \A k \in 1 .. P : f[k].byte = m[k] /\ f[k].ends = Place(m, k)
  OBVIOUS
<1>7. Bits(m) = f
  BY <1>1 DEF Bits
<1> HIDE DEF f
<1> QED BY <1>1, <1>2, <1>5, <1>6, <1>7

\* A message sent follows what is under way.
LEMMA WireSends ==
  ASSUME Cuts \subseteq {"payload", "response"}, TypeOK,
         NEW F, NEW e \in [0 .. Len(sent) -> Nat], Laid(F, e, sent),
         NEW g \in Nat, WireInv(F, e, g), NEW m \in Messages,
         NEW G, NEW d, Further(F, e, G, d, sent, m),
         sent' = Append(sent, m), flight' = flight \o Bits(m), sockbuf' = sockbuf
  PROVE  WireInv(G, d, g)'
<1>1. PICK n, P, T, N, M :
        /\ n = Len(sent) /\ P = Len(m) /\ T = e[n] /\ N = Len(sockbuf) /\ M = Len(flight)
        /\ n \in Nat /\ P \in Nat /\ T \in Nat /\ N \in Nat /\ M \in Nat /\ 0 < P
  <2>1. Len(sent) \in Nat /\ Len(sockbuf) \in Nat
    BY LenProperties DEF TypeOK
  <2>2. Len(flight) \in Nat
    BY LenProperties DEF WireInv
  <2>3. Len(m) \in Nat /\ 0 < Len(m)
    BY MessageFacts
  <2>4. Len(sent) \in 0 .. Len(sent)
    BY <2>1
  <2>5. e[Len(sent)] \in Nat
    BY <2>4
  <2> QED BY <2>1, <2>2, <2>3, <2>5
<1>2. Len(sent') = n + 1 /\ sent'[n + 1] = m
  <2>1. sent \in Seq(Messages)
    BY DEF TypeOK
  <2>2. /\ Len(sent') = n + 1
        /\ \A k \in 1 .. n + 1 : sent'[k] = IF k = n + 1 THEN m ELSE sent[k]
    BY <1>1, <2>1, AppendProperties
  <2>3. n + 1 \in 1 .. n + 1
    BY <1>1
  <2> QED BY <2>2, <2>3
<1>3. /\ d \in [0 .. n + 1 -> Nat] /\ Laid(G, d, sent')
      /\ \A k \in 0 .. n : d[k] = e[k]
      /\ d[n + 1] = T + P /\ Lies(G, T, m)
      /\ \A p \in Nat : p <= T => G[p] = F[p]
      /\ \A p \in Nat : Resting(e, sent, p) => Resting(d, sent', p)
  BY <1>1, <1>2 DEF Further
<1>4. g + N + M = T
  BY <1>1 DEF WireInv
<1> DEFINE R == [byte : Bytes, ends : Places \cup {"message"}]
<1>5. flight \in Seq(R) /\ Bits(m) \in Seq(R) /\ Len(Bits(m)) = P
  BY <1>1, BitsFacts DEF WireInv
<1>6. /\ flight' \in Seq(R) /\ Len(flight') = M + P
      /\ \A i \in 1 .. M + P : flight'[i] = IF i <= M THEN flight[i] ELSE Bits(m)[i - M]
  <2>1. PICK w : w = Bits(m)
    OBVIOUS
  <2>2. w \in Seq(R) /\ Len(w) = P /\ flight' = flight \o w
    BY <1>5, <2>1
  <2> HIDE DEF R
  <2>3. /\ flight \o w \in Seq(R) /\ Len(flight \o w) = Len(flight) + Len(w)
        /\ \A i \in 1 .. Len(flight) + Len(w) :
             (flight \o w)[i] = IF i <= Len(flight) THEN flight[i] ELSE w[i - Len(flight)]
    BY <1>5, <2>2, ConcatProperties
  <2> QED BY <1>1, <2>1, <2>2, <2>3
<1>7. \A i \in 1 .. N : sockbuf[i] = G[g + i]
  <2>1. \A i \in 1 .. N : g + i \in Nat /\ g + i <= T
    BY <1>1, <1>4
  <2> QED BY <1>1, <1>3, <2>1 DEF WireInv
<1>8. g + N \in Nat /\ \A i \in 1 .. M : g + N + i \in Nat /\ g + N + i <= T
  BY <1>1, <1>4
<1>9. Resting(d, sent', g + N)
  BY <1>1, <1>3, <1>8 DEF WireInv
<1>10. ASSUME NEW i \in 1 .. M + P
       PROVE  /\ flight'[i].byte = G[g + N + i]
              /\ flight'[i].ends \in Cuts \cup {"message"} => Resting(d, sent', g + N + i)
  <2>1. CASE i <= M
    <3>1. i \in 1 .. M /\ flight'[i] = flight[i]
      BY <1>1, <1>6, <2>1
    <3>2. /\ flight[i].byte = F[g + N + i]
          /\ flight[i].ends \in Cuts \cup {"message"} => Resting(e, sent, g + N + i)
      BY <1>1, <3>1 DEF WireInv
    <3> QED BY <1>3, <1>8, <3>1, <3>2
  <2>2. CASE ~(i <= M)
    <3>0. M \in Nat /\ P \in Nat
      BY <1>1
    <3>1. PICK k \in 1 .. P : k = i - M
      BY <2>2, <3>0
    <3>2. flight'[i] = Bits(m)[k]
      BY <1>6, <2>2, <3>1
    <3>3. g + N + i = T + k
      BY <1>1, <1>4, <3>1
    <3>4. /\ Bits(m)[k].byte = m[k]
          /\ Bits(m)[k].ends = "message" => k = P
          /\ Bits(m)[k].ends = "payload" => IsPacket(m) /\ HEADER <= k /\ k < P
          /\ Bits(m)[k].ends = "response" => ~IsPacket(m) /\ k < P
      BY <1>1, <3>1, BitsFacts
    <3>5. G[T + k] = m[k]
      BY <1>1, <1>3 DEF Lies
    <3>6. n + 1 \in 1 .. n + 1 /\ n + 1 \in 0 .. n + 1 /\ (n + 1) - 1 = n /\ n \in 0 .. n
      BY <1>1
    <3>7. d[n] = T
      BY <1>1, <1>3, <3>6
    <3>8. k = P => Resting(d, sent', T + k)
      BY <1>2, <1>3, <3>6 DEF Resting
    <3>9. ASSUME k < P, IF IsPacket(m) THEN HEADER <= k ELSE "response" \in Cuts
          PROVE  Resting(d, sent', T + k)
      <4>1. d[n] < T + k /\ T + k < d[n + 1] /\ (IsPacket(m) => d[n] + HEADER <= T + k)
        BY <1>1, <1>3, <3>7, <3>9 DEF HEADER
      <4> QED BY <1>2, <3>6, <3>9, <4>1 DEF Resting
    <3> QED BY <3>2, <3>3, <3>4, <3>5, <3>8, <3>9
  <2> QED BY <2>1, <2>2
<1>11. g + N + (M + P) = d[n + 1]
  BY <1>1, <1>3, <1>4
<1> QED BY <1>1, <1>2, <1>6, <1>7, <1>9, <1>10, <1>11 DEF WireInv

\* What arrives has been under way.
LEMMA WireArrives ==
  ASSUME TypeOK, NEW F, NEW e, NEW g \in Nat, WireInv(F, e, g), Arrive
  PROVE  WireInv(F, e, g)' /\ sockbuf' \in Seq(Bytes)
<1> DEFINE R == [byte : Bytes, ends : Places \cup {"message"}]
<1>1. PICK N, M : /\ N = Len(sockbuf) /\ M = Len(flight) /\ N \in Nat /\ M \in Nat
                  /\ flight \in Seq(R) /\ sockbuf \in Seq(Bytes)
  <2>1. flight \in Seq(R) /\ sockbuf \in Seq(Bytes)
    BY DEF WireInv, TypeOK
  <2> HIDE DEF R
  <2> QED BY <2>1, LenProperties
<1>2. PICK n \in 1 .. M :
        /\ flight[n].ends \in Cuts \cup {"message"}
        /\ sockbuf' = sockbuf \o [k \in 1 .. n |-> flight[k].byte]
        /\ flight' = SubSeq(flight, n + 1, M) /\ sent' = sent
  BY <1>1 DEF Arrive
<1>3. \A k \in 1 .. M : flight[k] \in R
  <2> HIDE DEF R
  <2> QED BY <1>1, ElementOfSeq
<1>4. PICK w : w = [k \in 1 .. n |-> flight[k].byte]
  OBVIOUS
<1>5. w \in Seq(Bytes) /\ Len(w) = n /\ \A k \in 1 .. n : w[k] = flight[k].byte
  <2>1. \A k \in 1 .. n : flight[k].byte \in Bytes
    <3>1. \A k \in 1 .. n : k \in 1 .. M
      BY <1>1
    <3> QED BY <1>3, <3>1
  <2>2. w \in [1 .. n -> Bytes]
    BY <1>4, <2>1
  <2> QED BY <1>1, <1>4, <2>2
<1>6. /\ sockbuf' \in Seq(Bytes) /\ Len(sockbuf') = N + n
      /\ \A i \in 1 .. N + n : sockbuf'[i] = IF i <= N THEN sockbuf[i] ELSE w[i - N]
  <2> HIDE DEF R
  <2>1. sockbuf' = sockbuf \o w
    BY <1>2, <1>4
  <2>2. w \in Seq(Bytes) /\ Len(w) = n
    BY <1>5
  <2> QED BY <1>1, <2>1, <2>2, ConcatProperties
<1>7. /\ flight' \in Seq(R) /\ Len(flight') = M - n
      /\ \A i \in 1 .. M - n : flight'[i] = flight[n + i]
  <2> HIDE DEF R
  <2>1. n + 1 \in Int /\ M \in Int /\ \A i \in n + 1 .. M : flight[i] \in R
    BY <1>1, <1>3
  <2>2. /\ flight' \in Seq(R)
        /\ Len(flight') = IF n + 1 <= M THEN M - (n + 1) + 1 ELSE 0
        /\ \A i \in 1 .. M - (n + 1) + 1 : flight'[i] = flight[(n + 1) + i - 1]
    BY <1>2, <2>1, SubSeqProperties
  <2>3. \A i \in 1 .. M - n : i \in 1 .. M - (n + 1) + 1 /\ (n + 1) + i - 1 = n + i
    BY <1>1
  <2>4. Len(flight') = M - n
    BY <1>1, <2>2
  <2> QED BY <2>2, <2>3, <2>4
<1>8. /\ \A i \in 1 .. N : sockbuf[i] = F[g + i]
      /\ \A i \in 1 .. M : /\ flight[i].byte = F[g + N + i]
                           /\ flight[i].ends \in Cuts \cup {"message"} =>
                                Resting(e, sent, g + N + i)
      /\ g + N + M = e[Len(sent)]
  BY <1>1 DEF WireInv
<1>9. \A i \in 1 .. N + n : sockbuf'[i] = F[g + i]
  <2> SUFFICES ASSUME NEW i \in 1 .. N + n PROVE sockbuf'[i] = F[g + i]
    OBVIOUS
  <2>1. CASE i <= N
    <3>1. i \in 1 .. N
      BY <1>1, <2>1
    <3> QED BY <1>6, <1>8, <2>1, <3>1
  <2>2. CASE ~(i <= N)
    <3>1. PICK k \in 1 .. n : k = i - N
      BY <1>1, <2>2
    <3>2. k \in 1 .. M /\ g + N + k = g + i
      BY <1>1, <3>1
    <3> QED BY <1>5, <1>6, <1>8, <2>2, <3>1, <3>2
  <2> QED BY <2>1, <2>2
<1>10. Resting(e, sent, g + (N + n))
  <2>1. g + N + n = g + (N + n)
    BY <1>1
  <2>2. Resting(e, sent, g + N + n)
    BY <1>2, <1>8
  <2> QED BY <2>1, <2>2
<1>11. \A i \in 1 .. M - n :
         /\ flight'[i].byte = F[g + (N + n) + i]
         /\ flight'[i].ends \in Cuts \cup {"message"} => Resting(e, sent, g + (N + n) + i)
  <2>1. \A i \in 1 .. M - n : n + i \in 1 .. M /\ g + N + (n + i) = g + (N + n) + i
    BY <1>1
  <2> QED BY <1>7, <1>8, <2>1
<1>12. g + (N + n) + (M - n) = e[Len(sent)]
  <2>1. g + (N + n) + (M - n) = g + N + M
    BY <1>1
  <2> QED BY <1>8, <2>1
<1>13. sent' = sent
  BY <1>2
<1>14. WireInv(F, e, g)'
  BY <1>6, <1>7, <1>9, <1>10, <1>11, <1>12, <1>13 DEF WireInv
<1> QED BY <1>6, <1>14

LEMMA StepServerSends ==
  ASSUME NEW F, NEW e, NEW b, NEW g, StreamInv(F, e, b, g), ServerSends
  PROVE  /\ \E G, d : Onward(G, d)'
         /\ \E m \in Messages : sent' = Append(sent, m) /\ UNCHANGED handed
<1>0. /\ TypeOK /\ HandedInv /\ sent \in Seq(Messages)
      /\ e \in [0 .. Len(sent) -> Nat] /\ Laid(F, e, sent)
      /\ b = e[Len(handed)] /\ g \in Nat /\ Cuts \subseteq {"payload"}
      /\ KeptInv(F, b) /\ WireInv(F, e, g) /\ PhaseInv(F, b, g)
  BY DEF StreamInv, TypeOK
<1>1. PICK m \in Messages :
        /\ pc = "idle" /\ sent' = Append(sent, m) /\ flight' = flight \o Bits(m)
        /\ ~IsPacket(m) => Cardinality(Responses(handed)) >= Cardinality(Responses(sent))
        /\ UNCHANGED <<pc, recv, last, sockbuf, edge, handed, lost>>
  BY DEF ServerSends, Bits
<1>2. PICK G, d : Further(F, e, G, d, sent, m)
  BY <1>0, LaidFurther
<1>3. PICK n, P, T, N, M, h :
        /\ n = Len(sent) /\ P = Len(m) /\ T = e[n] /\ N = Len(sockbuf) /\ M = Len(flight)
        /\ h = Len(handed) /\ n \in Nat /\ P \in Nat /\ T \in Nat /\ N \in Nat /\ M \in Nat
        /\ h \in 0 .. n /\ 0 < P
  <2>1. /\ Len(sent) \in Nat /\ Len(sockbuf) \in Nat /\ Len(handed) \in 0 .. Len(sent)
    BY <1>0, SizeFacts
  <2>2. Len(flight) \in Nat
    BY <1>0, LenProperties DEF WireInv
  <2>3. Len(m) \in Nat /\ 0 < Len(m)
    BY MessageFacts
  <2>4. e[Len(sent)] \in Nat
    BY <1>0, <2>1
  <2> QED BY <2>1, <2>2, <2>3, <2>4
<1>4. /\ Len(sent') = n + 1 /\ sent' \in Seq(Messages) /\ sent'[n + 1] = m
      /\ \A k \in 1 .. n : sent'[k] = sent[k]
  <2>1. /\ sent' \in Seq(Messages) /\ Len(sent') = n + 1
        /\ \A k \in 1 .. n + 1 : sent'[k] = IF k = n + 1 THEN m ELSE sent[k]
    BY <1>0, <1>1, <1>3, AppendProperties
  <2>2. n + 1 \in 1 .. n + 1 /\ \A k \in 1 .. n : k \in 1 .. n + 1 /\ k # n + 1
    BY <1>3
  <2> QED BY <2>1, <2>2
<1>5. /\ d \in [0 .. n + 1 -> Nat] /\ Laid(G, d, sent')
      /\ \A k \in 0 .. n : d[k] = e[k]
      /\ d[n + 1] = T + P /\ Lies(G, T, m)
      /\ \A p \in Nat : p <= T => G[p] = F[p]
      /\ \A p \in Nat : Resting(e, sent, p) => Resting(d, sent', p)
  BY <1>1, <1>2, <1>3, <1>4 DEF Further
<1>6. b \in Nat /\ b = d[h] /\ g + N + M = T
  <2>1. g + Len(sockbuf) + Len(flight) = e[Len(sent)]
    BY <1>0 DEF WireInv
  <2> QED BY <1>0, <1>3, <1>5, <2>1
<1>7. TypeOK'
  BY <1>0, <1>1, <1>4 DEF TypeOK, recv, last, lost
<1>8. HandedInv'
  <2>1. \A k \in 1 .. h : handed[k] = sent'[k]
    <3>1. \A k \in 1 .. h : k \in 1 .. n
      BY <1>3
    <3> QED BY <1>0, <1>3, <1>4, <3>1 DEF HandedInv
  <2>2. ASSUME NEW j \in h + 1 .. n + 1, NEW k \in h + 1 .. n + 1,
               ~IsPacket(sent'[j]), ~IsPacket(sent'[k])
        PROVE  j = k
    <3>1. CASE IsPacket(m)
      <4>1. j # n + 1 /\ k # n + 1
        BY <1>4, <2>2, <3>1
      <4>2. j \in h + 1 .. n /\ k \in h + 1 .. n /\ j \in 1 .. n /\ k \in 1 .. n
        BY <1>3, <4>1
      <4> QED BY <1>0, <1>3, <1>4, <2>2, <4>2 DEF HandedInv
    <3>2. CASE ~IsPacket(m)
      <4>1. \A i \in h + 1 .. n : IsPacket(sent[i])
        BY <1>0, <1>1, <1>3, <3>2, AllAnswered
      <4>2. \A i \in h + 1 .. n + 1 : i # n + 1 => i \in h + 1 .. n /\ i \in 1 .. n
        BY <1>3
      <4>3. j = n + 1 /\ k = n + 1
        BY <1>4, <2>2, <4>1, <4>2
      <4> QED BY <4>3
    <3> QED BY <3>1, <3>2
  <2>3. handed' = handed /\ h <= n + 1
    BY <1>1, <1>3
  <2>4. handed \in Seq(Messages) /\ Len(handed) = h
    BY <1>0, <1>3 DEF HandedInv
  <2> QED BY <1>4, <2>1, <2>2, <2>3, <2>4 DEF HandedInv
<1>9. KeptInv(G, b)'
  <2> SUFFICES ASSUME last_sz # 0 PROVE KeptInv(G, b)'
    BY <1>1 DEF KeptInv, last
  <2>1. PICK q \in Messages :
          /\ h < n /\ q = sent[h + 1] /\ e[h + 1] = b + Len(q)
          /\ IsPacket(q) /\ last_sz \in HEADER .. Len(q) - 1
    BY <1>3, KeptFacts
  <2>2. \A i \in 0 .. last_sz - 1 : last_buf[i] = F[b + i + 1]
    BY <1>0 DEF KeptInv
  <2>3. Len(q) \in Nat /\ last_sz \in Nat /\ last_sz < Len(q)
    <3>1. Len(q) \in Nat /\ last_sz \in Nat
      BY <1>0, MessageFacts, SizeFacts
    <3> QED BY <2>1, <3>1 DEF HEADER
  <2>4. b + Len(q) <= T
    <3>1. h + 1 \in 0 .. n /\ n \in 0 .. n /\ (h + 1 = n \/ h + 1 < n)
      BY <1>3, <2>1
    <3>2. h + 1 < n => e[h + 1] < e[n]
      BY <1>0, <1>3, <3>1 DEF Laid
    <3>3. e[h + 1] \in Nat /\ e[n] \in Nat
      BY <1>0, <1>3, <3>1
    <3> QED BY <1>3, <2>1, <3>1, <3>2, <3>3
  <2>5. \A i \in 0 .. last_sz - 1 : b + i + 1 \in Nat /\ b + i + 1 <= T
    <3>1. PICK l \in Nat : l = Len(q)
      BY <2>3
    <3>2. T \in Nat /\ b \in Nat /\ b + l <= T /\ last_sz \in Nat /\ last_sz < l
      BY <1>3, <1>6, <2>3, <2>4, <3>1
    <3> QED BY <3>2
  <2>6. \A i \in 0 .. last_sz - 1 : last_buf[i] = G[b + i + 1]
    BY <1>5, <2>2, <2>5
  <2>7. h < n + 1 /\ h + 1 \in 1 .. n /\ sent'[h + 1] = q
    BY <1>3, <1>4, <2>1
  <2> QED BY <1>1, <1>3, <1>4, <2>1, <2>6, <2>7 DEF KeptInv, last
<1>10. WireInv(G, d, g)'
  BY <1>0, <1>1, <1>2, WireSends
<1>11. PhaseInv(G, b, g)'
  BY <1>0, <1>1 DEF PhaseInv, recv, last
<1>12. (d \in [0 .. Len(sent) -> Nat])' /\ (b = d[Len(handed)])' /\ Laid(G, d, sent)'
  BY <1>1, <1>3, <1>4, <1>5, <1>6
<1>13. StreamInv(G, d, b, g)'
  BY <1>0, <1>7, <1>8, <1>9, <1>10, <1>11, <1>12 DEF StreamInv
<1> QED BY <1>1, <1>13 DEF Onward

LEMMA StepArrive ==
  ASSUME NEW F, NEW e, NEW b, NEW g, StreamInv(F, e, b, g), Arrive
  PROVE  Onward(F, e)' /\ UNCHANGED <<sent, handed>>
<1>0. /\ TypeOK /\ HandedInv /\ e \in [0 .. Len(sent) -> Nat] /\ Laid(F, e, sent)
      /\ b = e[Len(handed)] /\ g \in Nat /\ Cuts \subseteq {"payload"}
      /\ KeptInv(F, b) /\ WireInv(F, e, g) /\ PhaseInv(F, b, g)
  BY DEF StreamInv
<1>1. /\ pc = "idle" /\ edge' = TRUE
      /\ UNCHANGED <<pc, recv, last, sent, handed, lost>>
  BY DEF Arrive
<1>2. WireInv(F, e, g)' /\ sockbuf' \in Seq(Bytes)
  BY <1>0, WireArrives
<1>3. TypeOK'
  BY <1>0, <1>1, <1>2 DEF TypeOK, recv, last, lost
<1>4. HandedInv' /\ KeptInv(F, b)' /\ PhaseInv(F, b, g)'
  BY <1>0, <1>1 DEF HandedInv, KeptInv, PhaseInv, recv, last
<1>5. (e \in [0 .. Len(sent) -> Nat])' /\ (b = e[Len(handed)])' /\ Laid(F, e, sent)'
  BY <1>0, <1>1
<1>6. StreamInv(F, e, b, g)'
  BY <1>0, <1>2, <1>3, <1>4, <1>5 DEF StreamInv
<1> QED BY <1>1, <1>6 DEF Onward

\* A connection that has just been made, with nothing kept.
NewlyMade ==
  /\ TypeOK /\ pc = "idle" /\ recv_buf = <<>> /\ ptr = 1 /\ new = 1 /\ last_sz = 0
  /\ flight = <<>> /\ sockbuf = <<>> /\ sent = <<>> /\ handed = <<>>

LEMMA Fresh == NewlyMade /\ Cuts \subseteq {"payload"} => IInv
<1> SUFFICES ASSUME NewlyMade, Cuts \subseteq {"payload"} PROVE IInv
  OBVIOUS
<1> USE DEF NewlyMade
<1>1. PICK F, e : F = [p \in Nat |-> 0] /\ e = [k \in 0 .. 0 |-> 0]
  OBVIOUS
<1>2. /\ Len(sent) = 0 /\ Len(handed) = 0 /\ Len(sockbuf) = 0 /\ Len(flight) = 0
      /\ handed \in Seq(Messages)
      /\ flight \in Seq([byte : Bytes, ends : Places \cup {"message"}])
  BY EmptySeq
<1>3. e \in [0 .. Len(sent) -> Nat] /\ e[0] = 0 /\ 0 \in 0 .. 0
  <2>1. \A k \in 0 .. 0 : 0 \in Nat
    OBVIOUS
  <2> QED BY <1>1, <1>2, <2>1
<1>4. HandedInv
  BY <1>2 DEF HandedInv
<1>5. Laid(F, e, sent)
  BY <1>2, <1>3 DEF Laid
<1>6. Resting(e, sent, 0)
  BY <1>2, <1>3 DEF Resting
<1>7. WireInv(F, e, 0)
  <2>1. 0 + Len(sockbuf) = 0 /\ 0 + Len(sockbuf) + Len(flight) = 0
    BY <1>2
  <2>2. Resting(e, sent, 0 + Len(sockbuf))
    BY <1>6, <2>1
  <2> QED BY <1>2, <1>3, <2>1, <2>2 DEF WireInv
<1>8. KeptInv(F, 0) /\ PhaseInv(F, 0, 0)
  BY DEF KeptInv, PhaseInv
<1>9. StreamInv(F, e, 0, 0)
  BY <1>2, <1>3, <1>4, <1>5, <1>7, <1>8 DEF StreamInv
<1> QED BY <1>9 DEF IInv

LEMMA InitTyped == Init => TypeOK
<1> SUFFICES ASSUME Init PROVE TypeOK
  OBVIOUS
<1>1. RECV_BUF_SZ \in Nat /\ MaxResets \in Nat
  BY BoundsAssumption
<1>2. [i \in Byte(RECV_BUF_SZ) |-> 0] \in [Byte(RECV_BUF_SZ) -> Bytes]
  BY DEF Bytes
<1>3. <<>> \in Seq(Bytes) /\ <<>> \in Seq(Messages) /\ Len(<<>>) = 0
  BY EmptySeq
<1>4. 0 \in 0 .. RECV_BUF_SZ /\ 0 \in 0 .. MaxResets /\ 1 \in 1 .. 0 + 1 /\ 1 \in 1 .. 1
  BY <1>1
<1>5. Len(recv_buf) = 0 /\ Len(recv_buf) <= RECV_BUF_SZ /\ recv_buf \in Seq(Bytes)
  BY <1>1, <1>3 DEF Init
<1>6. last_buf \in [Byte(RECV_BUF_SZ) -> Bytes]
  BY <1>2 DEF Init
<1> QED BY <1>3, <1>4, <1>5, <1>6 DEF Init, TypeOK

LEMMA InitStream ==
  ASSUME Cuts \subseteq {"payload"}
  PROVE  Init => IInv
BY InitTyped, Fresh DEF Init, NewlyMade

\* The new connection finds nothing in last_buf.
LEMMA StepReset ==
  ASSUME NEW F, NEW e, NEW b, NEW g, StreamInv(F, e, b, g), Reset, Steady'
  PROVE  IInv' /\ sent' = <<>> /\ handed' = <<>>
<1>0. TypeOK /\ PhaseInv(F, b, g)
  BY DEF StreamInv
<1>1. /\ pc = "idle" /\ resets < MaxResets /\ resets' = resets + 1
      /\ stale' = (last_sz > 0 /\ last_buf[0] = DOLLAR)
      /\ flight' = <<>> /\ sockbuf' = <<>> /\ edge' = FALSE
      /\ sent' = <<>> /\ handed' = <<>>
      /\ UNCHANGED <<pc, recv_buf, ptr, new, last_buf, last_sz>>
  BY DEF Reset, recv, last
<1>2. last_sz = 0
  <2> SUFFICES ASSUME last_sz # 0 PROVE FALSE
    OBVIOUS
  <2>1. HeaderKept
    BY KeptFacts
  <2>2. last_sz > 0 /\ last_buf[0] = DOLLAR
    <3>1. last_sz \in 0 .. RECV_BUF_SZ /\ RECV_BUF_SZ \in Nat
      BY <1>0, BoundsAssumption DEF TypeOK
    <3> QED BY <2>1, <3>1 DEF HeaderKept
  <2> QED BY <1>1, <2>2 DEF Steady
<1>3. TypeOK'
  <2>1. resets' \in 0 .. MaxResets
    <3>1. resets \in 0 .. MaxResets /\ MaxResets \in Nat
      BY <1>0, BoundsAssumption DEF TypeOK
    <3> QED BY <1>1, <3>1
  <2>2. stale' \in BOOLEAN
    BY <1>1
  <2>3. sockbuf' \in Seq(Bytes) /\ sent' \in Seq(Messages)
    BY <1>1, EmptySeq
  <2> QED BY <1>0, <1>1, <2>1, <2>2, <2>3 DEF TypeOK
<1>4. /\ pc' = "idle" /\ recv_buf' = <<>> /\ ptr' = 1 /\ new' = 1 /\ last_sz' = 0
  BY <1>0, <1>1, <1>2 DEF PhaseInv
<1>5. NewlyMade'
  BY <1>1, <1>3, <1>4 DEF NewlyMade
<1>6. Cuts \subseteq {"payload"}
  BY DEF StreamInv
<1>7. NewlyMade' /\ (Cuts \subseteq {"payload"})' => IInv'
  BY Fresh, PTL
<1> QED BY <1>1, <1>5, <1>6, <1>7

-----------------------------------------------------------------------------
(* Every step                                                              *)

\* What a step is to the stream of messages.
MessageStep ==
  \/ UNCHANGED <<sent, handed>>
  \/ \E m \in Messages : sent' = Append(sent, m) /\ UNCHANGED handed
  \/ HandsNext /\ UNCHANGED sent
  \/ sent' = <<>> /\ handed' = <<>>

LEMMA Steps ==
  ASSUME Cuts \subseteq {"payload"}, IInv, Steady, Steady', [Next]_vars
  PROVE  IInv' /\ MessageStep
<1>1. PICK F, e, b, g : StreamInv(F, e, b, g)
  BY DEF IInv
<1>0. (\E G, d : Onward(G, d))' => IInv'
  BY DEF Onward, IInv
<1>2. CASE ServerSends
  BY <1>0, <1>1, <1>2, StepServerSends DEF MessageStep
<1>3. CASE Arrive
  BY <1>0, <1>1, <1>3, StepArrive DEF MessageStep
<1>4. CASE Reset
  BY <1>1, <1>4, StepReset DEF MessageStep
<1>5. CASE Receive
  <2>1. CASE Recv
    BY <1>0, <1>1, <2>1, StepRecv DEF MessageStep
  <2>2. CASE NothingKept
    BY <1>0, <1>1, <2>2, StepNothingKept DEF MessageStep
  <2>3. CASE CompletePacket
    BY <1>0, <1>1, <2>3, StepCompletePacket DEF MessageStep
  <2>4. CASE KeepMore
    BY <1>0, <1>1, <2>4, StepKeepMore DEF MessageStep
  <2>5. CASE FlushText
    BY <1>0, <1>1, <2>5, StepFlushText DEF MessageStep
  <2>6. CASE HandPacket
    BY <1>0, <1>1, <2>6, StepHandPacket DEF MessageStep
  <2>7. CASE KeepPacket
    BY <1>0, <1>1, <2>7, StepKeepPacket DEF MessageStep
  <2>8. CASE SkipText
    BY <1>0, <1>1, <2>8, StepSkipText DEF MessageStep
  <2>9. CASE EndOfText
    BY <1>0, <1>1, <2>9, StepEndOfText DEF MessageStep
  <2>10. CASE AllHandled
    BY <1>0, <1>1, <2>10, StepAllHandled DEF MessageStep
  <2> QED BY <1>5, <2>1, <2>2, <2>3, <2>4, <2>5, <2>6, <2>7, <2>8, <2>9, <2>10 DEF Receive
<1>6. CASE UNCHANGED vars
  <2>1. /\ UNCHANGED <<pc, recv_buf, ptr, new, last_buf, last_sz, flight, sockbuf, edge>>
        /\ UNCHANGED <<sent, handed, resets, stale>>
    BY <1>6 DEF vars, recv, last, wire, lost
  <2>2. TypeOK' /\ HandedInv'
    BY <1>1, <2>1 DEF StreamInv, TypeOK, HandedInv
  <2>3. KeptInv(F, b)' /\ WireInv(F, e, g)'
    BY <1>1, <2>1 DEF StreamInv, KeptInv, WireInv
  <2>4. PhaseInv(F, b, g)'
    BY <1>1, <2>1 DEF StreamInv, PhaseInv, TextInv, left
  <2>5. StreamInv(F, e, b, g)'
    BY <1>1, <2>1, <2>2, <2>3, <2>4 DEF StreamInv
  <2> QED BY <2>1, <2>5 DEF IInv, MessageStep
<1> QED BY <1>2, <1>3, <1>4, <1>5, <1>6 DEF Next

\* The invariant of the connections on which nothing was lost in a packet and
\* no more arrived than recv() takes.
LEMMA Invariance ==
  ASSUME Cuts \subseteq {"payload"}
  PROVE  Spec /\ []Steady => []IInv
<1>1. Init => IInv
  BY InitStream DEF IInv, Onward
<1>2. IInv /\ Steady /\ Steady' /\ [Next]_vars => IInv'
  BY Steps
<1> QED BY <1>1, <1>2, PTL DEF Spec

-----------------------------------------------------------------------------
(* Numbers                                                                 *)

LEMMA LeastNumber ==
  ASSUME NEW S \in SUBSET Nat, S # {}
  PROVE  \E x \in S : \A y \in S : x <= y
<1> DEFINE R == OpToRel(<, Nat)
<1>1. IsWellFoundedOn(R, Nat)
  BY NatLessThanWellFounded
<1>2. \A x, y \in Nat : <<y, x>> \in R <=> y < x
  BY DEF OpToRel
<1> HIDE DEF R
<1>3. PICK x \in S : \A y \in S : ~(<<y, x>> \in R)
  BY <1>1, WFMin, Zenon
<1>4. \A y \in S : ~(y < x)
  BY <1>2, <1>3, Zenon
<1> QED BY <1>4

\* A set with 0 and, up to n, with each number the next has all numbers up to n.
LEMMA CountTo ==
  ASSUME NEW n \in Nat, NEW S, 0 \in S, \A k \in 0 .. n : k \in S /\ k # n => k + 1 \in S
  PROVE  0 .. n \subseteq S
<1> DEFINE T == (0 .. n) \ S
<1>1. SUFFICES ASSUME T # {} PROVE FALSE
  OBVIOUS
<1>2. T \in SUBSET Nat
  OBVIOUS
<1>3. PICK x \in T : \A y \in T : x <= y
  <2> HIDE DEF T
  <2> QED BY <1>1, <1>2, LeastNumber
<1>4. x # 0 /\ x \in 0 .. n /\ x - 1 \in 0 .. n /\ x - 1 < x /\ x - 1 # n
  OBVIOUS
<1>5. x - 1 \notin T
  BY <1>3, <1>4
<1>6. x - 1 \in S /\ (x - 1) + 1 = x
  BY <1>4, <1>5
<1> QED BY <1>4, <1>6

-----------------------------------------------------------------------------
(* The packets of a sequence of messages                                   *)

\* What may be handed over: text, and what is taken for a packet.
Units == Seq(Bytes)

\* What the message u adds to the packets p.
With(p, u) == IF IsPacket(u) THEN Append(p, u) ELSE p

\* g[i] is the packets among the first i messages of s.
Filters(g, s, k) == \A i \in 0 .. k : g[i] = IF i = 0 THEN <<>> ELSE With(g[i - 1], s[i])

LEMMA WithFacts ==
  ASSUME NEW p \in Seq(Units), NEW u \in Units
  PROVE  /\ With(p, u) \in Seq(Units)
         /\ Len(p) <= Len(With(p, u)) /\ \A i \in 1 .. Len(p) : With(p, u)[i] = p[i]
<1> HIDE DEF Units
<1>1. CASE IsPacket(u)
  <2>1. With(p, u) = Append(p, u)
    BY <1>1 DEF With
  <2>2. Append(p, u) \in Seq(Units) /\ Len(Append(p, u)) = Len(p) + 1
        /\ \A i \in 1 .. Len(p) : Append(p, u)[i] = p[i]
    OBVIOUS
  <2>3. Len(p) \in Nat
    BY LenProperties
  <2> QED BY <2>1, <2>2, <2>3
<1>2. CASE ~IsPacket(u)
  <2>1. With(p, u) = p
    BY <1>2 DEF With
  <2>2. Len(p) \in Nat
    BY LenProperties
  <2> QED BY <2>1, <2>2
<1> QED BY <1>1, <1>2

\* There is such a function.
LEMMA FiltersExist ==
  ASSUME NEW s \in Seq(Units), NEW k \in 0 .. Len(s)
  PROVE  \E g \in [0 .. k -> Seq(Units)] : Filters(g, s, k)
<1> HIDE DEF Units
<1> DEFINE P(m) == \E g \in [0 .. m -> Seq(Units)] : Filters(g, s, m)
           S == {m \in 0 .. k : P(m)}
<1>0. k \in Nat /\ \A i \in 1 .. k : s[i] \in Units
  BY LenProperties, ElementOfSeq
<1>1. P(0)
  <2> DEFINE g == [i \in 0 .. 0 |-> <<>>]
  <2>0. <<>> \in Seq(Units)
    BY EmptySeq
  <2>1. g \in [0 .. 0 -> Seq(Units)] /\ Filters(g, s, 0)
    BY <2>0 DEF Filters
  <2> QED BY <2>1
<1>2. ASSUME NEW m \in 0 .. k, P(m), m # k PROVE P(m + 1)
  <2>1. PICK g \in [0 .. m -> Seq(Units)] : Filters(g, s, m)
    BY <1>2
  <2>2. m \in Nat /\ m + 1 \in 1 .. k /\ m \in 0 .. m
    BY <1>0, <1>2
  <2>3. PICK more \in Seq(Units) : more = With(g[m], s[m + 1])
    <3>1. g[m] \in Seq(Units) /\ s[m + 1] \in Units
      BY <1>0, <2>1, <2>2
    <3> QED BY <3>1, WithFacts
  <2> DEFINE h == [i \in 0 .. m + 1 |-> IF i = m + 1 THEN more ELSE g[i]]
  <2>4. h \in [0 .. m + 1 -> Seq(Units)]
    BY <2>1, <2>2, <2>3
  <2>5. ASSUME NEW i \in 0 .. m + 1
        PROVE  h[i] = IF i = 0 THEN <<>> ELSE With(h[i - 1], s[i])
    <3>1. CASE i = m + 1
      <4>1. i # 0 /\ i - 1 = m /\ m \in 0 .. m + 1 /\ m # m + 1
        BY <2>2, <3>1
      <4>2. h[i] = more /\ h[m] = g[m]
        BY <3>1, <4>1
      <4> HIDE DEF h
      <4> QED BY <2>3, <3>1, <4>1, <4>2
    <3>2. CASE i # m + 1
      <4>1. i \in 0 .. m /\ h[i] = g[i]
        BY <2>2, <3>2
      <4>2. i # 0 => i - 1 \in 0 .. m + 1 /\ i - 1 # m + 1 /\ h[i - 1] = g[i - 1]
        BY <2>2, <4>1
      <4> HIDE DEF h
      <4> QED BY <2>1, <4>1, <4>2 DEF Filters
    <3> QED BY <3>1, <3>2
  <2> HIDE DEF h
  <2>6. Filters(h, s, m + 1)
    BY <2>5 DEF Filters
  <2> QED BY <2>4, <2>6
<1>3. 0 \in S /\ \A m \in 0 .. k : m \in S /\ m # k => m + 1 \in S
  <2>1. 0 \in 0 .. k /\ \A m \in 0 .. k : m # k => m + 1 \in 0 .. k
    BY <1>0
  <2> HIDE DEF P
  <2> QED BY <1>1, <1>2, <2>1
<1>4. k \in S
  <2> HIDE DEF S
  <2>1. 0 .. k \subseteq S
    BY <1>0, <1>3, CountTo
  <2> QED BY <1>0, <2>1
<1> QED BY <1>4

\* It depends on those messages only.
\* They are the same for messages that agree.
Agree(s, t, k) == \A i \in 1 .. k : s[i] = t[i]

LEMMA FiltersUnique ==
  ASSUME NEW k \in Nat, NEW s, NEW t, Agree(s, t, k),
         NEW g, NEW h, Filters(g, s, k), Filters(h, t, k)
  PROVE  \A i \in 0 .. k : g[i] = h[i]
<1> DEFINE S == {i \in 0 .. k : g[i] = h[i]}
<1>1. 0 \in S
  BY DEF Filters
<1>2. ASSUME NEW i \in 0 .. k, i \in S, i # k PROVE i + 1 \in S
  <2>1. i + 1 \in 0 .. k /\ i + 1 \in 1 .. k /\ i + 1 # 0 /\ (i + 1) - 1 = i
    BY <1>2
  <2>2. g[i] = h[i] /\ s[i + 1] = t[i + 1]
    BY <1>2, <2>1 DEF Agree
  <2>3. g[i + 1] = With(g[i], s[i + 1]) /\ h[i + 1] = With(h[i], t[i + 1])
    BY <2>1 DEF Filters
  <2> QED BY <2>1, <2>2, <2>3
<1>3. 0 .. k \subseteq S
  <2> HIDE DEF S
  <2> QED BY <1>1, <1>2, CountTo
<1> QED BY <1>3

LEMMA PacketsFilter ==
  ASSUME NEW s \in Seq(Units)
  PROVE  /\ Filters(PacketsIn(s), s, Len(s))
         /\ \A k \in 0 .. Len(s) : PacketsIn(s)[k] \in Seq(Units)
<1> HIDE DEF Units
<1>0. PICK n \in Nat : n = Len(s)
  BY LenProperties
<1> DEFINE F(r) == [k \in 0 .. n |->
                      IF k = 0 THEN <<>>
                      ELSE IF IsPacket(s[k]) THEN Append(r[k - 1], s[k]) ELSE r[k - 1]]
           Joins(r) == r = F(r)
           h == CHOOSE r : Joins(r)
<1>1. PacketsIn(s) = h
  BY <1>0 DEF PacketsIn
<1>2. PICK g \in [0 .. n -> Seq(Units)] : Filters(g, s, n)
  <2>1. n \in 0 .. Len(s)
    BY <1>0
  <2> QED BY <2>1, FiltersExist
<1>3. Joins(g)
  <2>1. ASSUME NEW k \in 0 .. n PROVE g[k] = F(g)[k]
    <3>1. g[k] = IF k = 0 THEN <<>> ELSE With(g[k - 1], s[k])
      BY <1>2 DEF Filters
    <3> QED BY <3>1 DEF With
  <2>2. g = [k \in 0 .. n |-> g[k]]
    BY <1>2
  <2> QED BY <2>1, <2>2
<1>4. Joins(h)
  <2> HIDE DEF Joins
  <2> QED BY <1>3
<1> HIDE DEF h
<1>5. Filters(h, s, n)
  <2>1. h = F(h)
    BY <1>4
  <2>2. \A k \in 0 .. n : F(h)[k] = IF k = 0 THEN <<>> ELSE With(h[k - 1], s[k])
    BY DEF With
  <2> HIDE DEF F
  <2>3. \A k \in 0 .. n : h[k] = IF k = 0 THEN <<>> ELSE With(h[k - 1], s[k])
    BY <2>1, <2>2, Zenon
  <2> QED BY <2>3 DEF Filters
<1>6. \A k \in 0 .. n : g[k] = h[k]
  <2>1. Agree(s, s, n)
    BY DEF Agree
  <2> QED BY <1>2, <1>5, <2>1, FiltersUnique
<1> QED BY <1>0, <1>1, <1>2, <1>5, <1>6

LEMMA PacketsNext ==
  ASSUME NEW s \in Seq(Units), NEW k \in 1 .. Len(s)
  PROVE  /\ PacketsIn(s)[0] = <<>>
         /\ PacketsIn(s)[k] = With(PacketsIn(s)[k - 1], s[k])
<1>1. PICK n \in Nat : n = Len(s)
  BY LenProperties
<1>2. Filters(PacketsIn(s), s, n)
  BY <1>1, PacketsFilter
<1>3. k \in 0 .. n /\ k # 0 /\ 0 \in 0 .. n
  BY <1>1
<1> QED BY <1>2, <1>3 DEF Filters

\* One more message adds what it is to the packets.
LEMMA PacketsAppend ==
  ASSUME NEW s \in Seq(Units), NEW u \in Units
  PROVE  /\ \A k \in 0 .. Len(s) : PacketsIn(Append(s, u))[k] = PacketsIn(s)[k]
         /\ Packets(Append(s, u)) = With(Packets(s), u)
<1> HIDE DEF Units
<1>1. PICK n, t : /\ n \in Nat /\ n = Len(s) /\ t = Append(s, u)
                  /\ t \in Seq(Units) /\ Len(t) = n + 1
                  /\ t[n + 1] = u /\ \A k \in 1 .. n : s[k] = t[k]
  <2>1. Len(s) \in Nat
    BY LenProperties
  <2>2. /\ Append(s, u) \in Seq(Units) /\ Len(Append(s, u)) = Len(s) + 1
        /\ \A k \in 1 .. Len(s) + 1 : Append(s, u)[k] = IF k = Len(s) + 1 THEN u ELSE s[k]
    BY AppendProperties
  <2>3. /\ Len(s) + 1 \in 1 .. Len(s) + 1
        /\ \A k \in 1 .. Len(s) : k \in 1 .. Len(s) + 1 /\ k # Len(s) + 1
    BY <2>1
  <2> QED BY <2>1, <2>2, <2>3
<1>2. Filters(PacketsIn(s), s, n) /\ Filters(PacketsIn(t), t, n + 1)
  BY <1>1, PacketsFilter
<1>3. Filters(PacketsIn(t), t, n)
  <2>1. \A i \in 0 .. n : i \in 0 .. n + 1
    BY <1>1
  <2> QED BY <1>2, <2>1 DEF Filters
<1>4. \A k \in 0 .. n : PacketsIn(s)[k] = PacketsIn(t)[k]
  <2>1. n \in Nat /\ Agree(s, t, n)
    BY <1>1 DEF Agree
  <2>2. PICK g, h : g = PacketsIn(s) /\ h = PacketsIn(t)
    OBVIOUS
  <2>3. Filters(g, s, n) /\ Filters(h, t, n)
    BY <1>2, <1>3, <2>2
  <2>4. \A i \in 0 .. n : g[i] = h[i]
    BY <2>1, <2>3, FiltersUnique
  <2> QED BY <2>2, <2>4
<1>5. PacketsIn(t)[n + 1] = With(PacketsIn(t)[n], u)
  <2>1. n + 1 \in 1 .. Len(t) /\ (n + 1) - 1 = n
    BY <1>1
  <2>2. PacketsIn(t)[n + 1] = With(PacketsIn(t)[(n + 1) - 1], t[n + 1])
    BY <1>1, <2>1, PacketsNext
  <2> QED BY <1>1, <2>1, <2>2
<1>6. PacketsIn(t)[n] = PacketsIn(s)[n]
  <2>1. n \in 0 .. n
    BY <1>1
  <2> QED BY <1>4, <2>1
<1> QED BY <1>1, <1>4, <1>5, <1>6 DEF Packets

\* The packets of the messages in front are the first packets.
LEMMA PacketsBegin ==
  ASSUME NEW s \in Seq(Units), NEW h \in 0 .. Len(s)
  PROVE  IsPrefix(PacketsIn(s)[h], Packets(s))
<1> HIDE DEF Units
<1>1. PICK n \in Nat : n = Len(s)
  BY LenProperties
<1>2. \A k \in 0 .. n : PacketsIn(s)[k] \in Seq(Units) /\ Len(PacketsIn(s)[k]) \in Nat
  <2>1. \A k \in 0 .. n : PacketsIn(s)[k] \in Seq(Units)
    BY <1>1, PacketsFilter
  <2> QED BY <2>1, LenProperties
<1>3. PICK p, l : p = PacketsIn(s)[h] /\ p \in Seq(Units) /\ l = Len(p) /\ l \in Nat
  BY <1>1, <1>2
<1> DEFINE Goes(r) == l <= Len(r) /\ \A i \in 1 .. l : r[i] = p[i]
           S == {j \in 0 .. n - h : Goes(PacketsIn(s)[h + j])}
<1>4. 0 \in S
  <2>1. 0 \in 0 .. n - h /\ h + 0 = h
    BY <1>1
  <2> QED BY <1>3, <2>1
<1>5. ASSUME NEW j \in 0 .. n - h, j \in S, j # n - h PROVE j + 1 \in S
  <2>1. PICK k : /\ k = h + j + 1 /\ k = h + (j + 1) /\ k - 1 = h + j
                 /\ k \in 1 .. n /\ k - 1 \in 0 .. n /\ k \in 0 .. n /\ j + 1 \in 0 .. n - h
    BY <1>1, <1>5
  <2>2. PICK r : r = PacketsIn(s)[k - 1] /\ r \in Seq(Units) /\ Goes(r) /\ Len(r) \in Nat
    BY <1>2, <1>5, <2>1
  <2>3. s[k] \in Units
    BY <1>1, <2>1, ElementOfSeq
  <2>4. PacketsIn(s)[k] = With(r, s[k])
    BY <1>1, <2>1, <2>2, PacketsNext
  <2>5. PICK w : /\ w = PacketsIn(s)[k] /\ Len(w) \in Nat /\ Len(r) <= Len(w)
                 /\ \A i \in 1 .. Len(r) : w[i] = r[i]
    <3>1. PICK v : v = s[k] /\ v \in Units
      BY <2>3
    <3>2. Len(r) <= Len(With(r, v)) /\ \A i \in 1 .. Len(r) : With(r, v)[i] = r[i]
      BY <2>2, <3>1, WithFacts
    <3>3. Len(PacketsIn(s)[k]) \in Nat
      BY <1>2, <2>1
    <3> QED BY <2>4, <3>1, <3>2, <3>3
  <2>6. Goes(w)
    <3>1. l <= Len(r) /\ \A i \in 1 .. l : i \in 1 .. Len(r)
      BY <1>3, <2>2
    <3> QED BY <1>3, <2>2, <2>5, <3>1
  <2> QED BY <2>1, <2>5, <2>6
<1>6. n - h \in S
  <2> HIDE DEF S
  <2>1. n - h \in Nat /\ n - h \in 0 .. n - h
    BY <1>1
  <2>2. 0 .. n - h \subseteq S
    BY <1>4, <1>5, <2>1, CountTo
  <2> QED BY <2>1, <2>2
<1>7. PICK r : /\ r = Packets(s) /\ r \in Seq(Units) /\ Len(r) \in Nat /\ l <= Len(r)
               /\ \A i \in 1 .. l : r[i] = p[i]
  <2>1. h + (n - h) = n /\ n \in 0 .. n
    BY <1>1
  <2> QED BY <1>1, <1>2, <1>6, <2>1 DEF Packets
<1>8. SubSeq(p, 1, l) = SubSeq(r, 1, l)
  <2>1. /\ \A i \in 1 .. l : i \in 1 .. Len(p) /\ i \in 1 .. Len(r)
        /\ 1 \in Int /\ l \in Int
    BY <1>3, <1>7
  <2>2. \A i \in 1 .. l : p[i] \in Units /\ r[i] \in Units
    BY <1>3, <1>7, <2>1, ElementOfSeq
  <2>3. PICK a, c : a = SubSeq(p, 1, l) /\ c = SubSeq(r, 1, l)
    OBVIOUS
  <2>4. /\ a \in Seq(Units) /\ Len(a) = (IF 1 <= l THEN l - 1 + 1 ELSE 0)
        /\ \A i \in 1 .. l - 1 + 1 : a[i] = p[1 + i - 1]
    BY <2>1, <2>2, <2>3, SubSeqProperties
  <2>5. /\ c \in Seq(Units) /\ Len(c) = (IF 1 <= l THEN l - 1 + 1 ELSE 0)
        /\ \A i \in 1 .. l - 1 + 1 : c[i] = r[1 + i - 1]
    BY <2>1, <2>2, <2>3, SubSeqProperties
  <2>6. \A i \in 1 .. l : i \in 1 .. l - 1 + 1 /\ 1 + i - 1 = i
    BY <1>3
  <2>7. Len(a) = l /\ Len(c) = l
    BY <1>3, <2>4, <2>5
  <2>8. \A i \in 1 .. l : a[i] = c[i]
    BY <1>7, <2>4, <2>5, <2>6
  <2>9. a = c
    BY <2>4, <2>5, <2>7, <2>8, SeqEqual
  <2> QED BY <2>3, <2>9
<1> QED BY <1>3, <1>7, <1>8 DEF IsPrefix

\* Messages are units.
LEMMA SeqsOfUnits ==
  ASSUME NEW s \in Seq(Messages)
  PROVE  s \in Seq(Units)
<1>1. PICK n \in Nat : n = Len(s)
  BY LenProperties
<1>2. \A k \in 1 .. n : s[k] \in Messages
  BY <1>1, ElementOfSeq
<1>3. \A k \in 1 .. n : s[k] \in Units
  BY <1>2, MessageFacts DEF Units
<1>4. PICK f : f = [k \in 1 .. n |-> s[k]] /\ f = s
  BY <1>1, LenProperties
<1>5. f \in [1 .. n -> Units]
  BY <1>3, <1>4
<1>6. f \in Seq(Units)
  <2> HIDE DEF Units
  <2> QED BY <1>1, <1>5
<1> QED BY <1>4, <1>6

-----------------------------------------------------------------------------
(* Whatever is cut, and whatever was kept from a connection that was lost  *)

\* last_data and what recv() got fit into a buffer together.
Roomy == last_sz + Len(recv_buf) < RECV_BUF_SZ

\* A segment may end there.
Ends == Places \cup {"message"}

BaseInv ==
  /\ TypeOK /\ handed \in Seq(Units) /\ flight \in Seq([byte : Bytes, ends : Ends])
  /\ pc = "idle" => recv_buf = <<>>
  /\ pc \in {"idle", "last"} => ptr = 1 /\ new = 1

\* last_data holds nothing, or text.
NoPacketKept == last_sz = 0 \/ last_buf[0] # DOLLAR

LEMMA RoomFacts ==
  ASSUME TypeOK, Roomy
  PROVE  /\ Len(recv_buf) \in Nat /\ RECV_BUF_SZ \in Nat /\ last_sz \in Nat
         /\ ptr \in Nat /\ new \in Nat /\ left \in Nat
         /\ 1 <= new /\ new <= ptr /\ ptr <= Len(recv_buf) + 1
         /\ left = Len(recv_buf) - ptr + 1
         /\ last_sz + Len(recv_buf) < RECV_BUF_SZ
<1>1. PICK L \in Nat, N \in Nat : L = Len(recv_buf) /\ N = RECV_BUF_SZ
  BY BoundsAssumption, LenProperties DEF TypeOK
<1>2. /\ last_sz \in 0 .. N /\ ptr \in 1 .. L + 1 /\ new \in 1 .. ptr
      /\ left = L - ptr + 1 /\ last_sz + L < N
  BY <1>1 DEF TypeOK, Roomy, left
<1> QED BY <1>1, <1>2

\* The first n bytes of buf are those of F after p.
Begins(F, p, buf, n) == \A i \in 0 .. n - 1 : buf[i] = F[p + i + 1]

\* The bytes of recv_buf from a to c are those of F after p.
Reads(F, p, a, c) == \A i \in a .. c : recv_buf[i] = F[p + i - a + 1]

\* memcpy() behind what was kept of a stretch of F brings what follows in F.
LEMMA Joined ==
  ASSUME TypeOK, NEW off \in Nat, NEW a \in Nat, NEW c \in Int,
         1 <= a, c <= Len(recv_buf), off <= RECV_BUF_SZ, off + c - a + 1 <= RECV_BUF_SZ,
         NEW F, NEW b \in Nat, Begins(F, b, last_buf, off), Reads(F, b + off, a, c)
  PROVE  /\ Copied(off, a, c) \in [Byte(RECV_BUF_SZ) -> Bytes]
         /\ Begins(F, b, Copied(off, a, c), off + c - a + 1)
<1>1. PICK w : w = Copied(off, a, c)
  OBVIOUS
<1>2. /\ w \in [Byte(RECV_BUF_SZ) -> Bytes]
      /\ \A i \in 0 .. off - 1 : w[i] = last_buf[i]
      /\ \A j \in a .. c : w[off + j - a] = recv_buf[j]
  BY <1>1, CopiedFacts
<1>3. ASSUME NEW i \in 0 .. off + c - a + 1 - 1 PROVE w[i] = F[b + i + 1]
  <2>1. CASE i < off
    <3>1. i \in 0 .. off - 1
      BY <2>1
    <3> QED BY <1>2, <3>1 DEF Begins
  <2>2. CASE ~(i < off)
    <3>1. PICK j \in a .. c : j = i - off + a
      BY <2>2
    <3>2. off + j - a = i /\ b + off + j - a + 1 = b + i + 1
      BY <3>1
    <3> QED BY <1>2, <3>2 DEF Reads
  <2> QED BY <2>1, <2>2
<1> QED BY <1>1, <1>2, <1>3 DEF Begins

LEMMA FrontUnit ==
  ASSUME NEW N \in Nat, NEW buf \in [Byte(N) -> Bytes], NEW k \in 0 .. N
  PROVE  Front0(buf, k) \in Units /\ (k > 0 => Front0(buf, k)[1] = buf[0])
<1>1. PICK u : u = [j \in 1 .. k |-> buf[j - 1]]
  OBVIOUS
<1>2. \A j \in 1 .. k : j - 1 \in Byte(N)
  BY DEF Byte
<1>3. u \in [1 .. k -> Bytes]
  BY <1>1, <1>2
<1>4. u \in Seq(Bytes)
  BY <1>3
<1>5. ASSUME k > 0 PROVE u[1] = buf[0]
  <2>1. 1 \in 1 .. k /\ 1 - 1 = 0
    BY <1>5
  <2> QED BY <1>1, <2>1
<1> QED BY <1>1, <1>4, <1>5 DEF Front0, Units

\* What handing over does to the history; text is no packet.
LEMMA HandUnit ==
  ASSUME handed \in Seq(Units), NEW u \in Units, HandOver(u, "scan")
  PROVE  /\ handed' \in Seq(Units) /\ pc' \in {"scan", "aborted"}
         /\ ~IsPacket(u) => pc' = "scan" /\ Packets(handed') = Packets(handed)
<1> HIDE DEF Units
<1>1. handed' = handed \/ handed' = Append(handed, u)
  BY DEF HandOver
<1>2. Append(handed, u) \in Seq(Units)
  OBVIOUS
<1>3. ASSUME ~IsPacket(u) PROVE pc' = "scan" /\ Packets(handed') = Packets(handed)
  <2>1. ~Misframed(u)
    BY <1>3 DEF Misframed
  <2>2. pc' = "scan" /\ handed' = Append(handed, u)
    BY <1>3, <2>1 DEF HandOver
  <2>3. Packets(Append(handed, u)) = With(Packets(handed), u)
    BY PacketsAppend
  <2>4. With(Packets(handed), u) = Packets(handed)
    BY <1>3 DEF With
  <2> QED BY <2>2, <2>3, <2>4
<1>4. pc' \in {"scan", "aborted"}
  BY DEF HandOver
<1> QED BY <1>1, <1>2, <1>3, <1>4

\* What text is when it is taken out of recv_buf up to c.
LEMMA TextTaken ==
  ASSUME TypeOK, Roomy, NEW c \in Nat, new <= c, c <= Len(recv_buf),
         NEW buf, buf = Copied(last_sz, new, c), NEW k, k = last_sz + (c + 1 - new)
  PROVE  /\ k \in Nat /\ 0 < k /\ k < RECV_BUF_SZ
         /\ buf \in [Byte(RECV_BUF_SZ) -> Bytes]
         /\ [buf EXCEPT ![k] = 0] \in [Byte(RECV_BUF_SZ) -> Bytes]
         /\ Front0([buf EXCEPT ![k] = 0], k) \in Units
         /\ NoPacketKept /\ recv_buf[new] # DOLLAR =>
              buf[0] # DOLLAR /\ ~IsPacket(Front0([buf EXCEPT ![k] = 0], k))
<1>1. PICK L, N, z : /\ L = Len(recv_buf) /\ N = RECV_BUF_SZ /\ z = last_sz
                     /\ L \in Nat /\ N \in Nat /\ z \in Nat /\ new \in Nat /\ 1 <= new
                     /\ z + L < N
  BY RoomFacts
<1>2. k \in Nat /\ 0 < k /\ k < N /\ k \in 0 .. N
  BY <1>1
<1>3. /\ buf \in [Byte(N) -> Bytes]
      /\ \A i \in 0 .. z - 1 : buf[i] = last_buf[i]
      /\ \A j \in new .. c : buf[z + j - new] = recv_buf[j]
  <2>1. /\ z <= RECV_BUF_SZ /\ z + c - new + 1 <= RECV_BUF_SZ /\ c \in Int
        /\ c <= Len(recv_buf) /\ z \in Nat /\ new \in Nat /\ 1 <= new
    BY <1>1
  <2>2. /\ Copied(z, new, c) \in [Byte(RECV_BUF_SZ) -> Bytes]
        /\ \A i \in 0 .. z - 1 : Copied(z, new, c)[i] = last_buf[i]
        /\ \A j \in new .. c : Copied(z, new, c)[z + j - new] = recv_buf[j]
    BY <2>1, CopiedFacts
  <2> QED BY <1>1, <2>2
<1>4. PICK w : w = [buf EXCEPT ![k] = 0]
  OBVIOUS
<1>5. w \in [Byte(N) -> Bytes] /\ w[0] = buf[0]
  <2>1. 0 \in Bytes /\ 0 # k /\ 0 \in Byte(N)
    BY <1>1, <1>2 DEF Bytes, Byte
  <2> QED BY <1>3, <1>4, <2>1
<1>6. Front0(w, k) \in Units /\ Front0(w, k)[1] = w[0]
  BY <1>1, <1>2, <1>5, FrontUnit
<1>7. ASSUME NoPacketKept, recv_buf[new] # DOLLAR PROVE buf[0] # DOLLAR
  <2>1. CASE z = 0
    <3>1. new \in new .. c /\ z + new - new = 0
      BY <1>1, <2>1
    <3> QED BY <1>3, <1>7, <3>1
  <2>2. CASE z # 0
    <3>1. 0 \in 0 .. z - 1
      BY <1>1, <2>2
    <3> QED BY <1>1, <1>3, <1>7, <2>2, <3>1 DEF NoPacketKept
  <2> QED BY <2>1, <2>2
<1>8. ASSUME NoPacketKept, recv_buf[new] # DOLLAR PROVE ~IsPacket(Front0(w, k))
  BY <1>5, <1>6, <1>7, <1>8 DEF IsPacket
<1> QED BY <1>1, <1>2, <1>3, <1>4, <1>5, <1>6, <1>7, <1>8

LEMMA WireTyped ==
  ASSUME BaseInv, ServerSends \/ Arrive
  PROVE  /\ flight' \in Seq([byte : Bytes, ends : Ends])
         /\ sockbuf' \in Seq(Bytes) /\ sent' \in Seq(Messages)
<1> DEFINE R == [byte : Bytes, ends : Ends]
<1>0. /\ flight \in Seq(R) /\ sockbuf \in Seq(Bytes) /\ sent \in Seq(Messages)
  BY DEF BaseInv, TypeOK
<1> SUFFICES flight' \in Seq(R) /\ sockbuf' \in Seq(Bytes) /\ sent' \in Seq(Messages)
  OBVIOUS
<1>1. CASE ServerSends
  <2>1. PICK m \in Messages :
          /\ sent' = Append(sent, m) /\ flight' = flight \o Bits(m) /\ sockbuf' = sockbuf
    BY <1>1 DEF ServerSends, Bits
  <2>2. PICK w : w = Bits(m) /\ w \in Seq(R)
    BY BitsFacts DEF Ends
  <2> HIDE DEF R
  <2>3. flight \o w \in Seq(R)
    BY <1>0, <2>2, ConcatProperties
  <2>4. Append(sent, m) \in Seq(Messages)
    BY <1>0, AppendProperties
  <2> QED BY <1>0, <2>1, <2>2, <2>3, <2>4
<1>2. CASE Arrive
  <2>1. PICK M : M \in Nat /\ M = Len(flight) /\ \A k \in 1 .. M : flight[k] \in R
    <3> HIDE DEF R
    <3> QED BY <1>0, LenProperties, ElementOfSeq
  <2>2. PICK n \in 1 .. M :
          /\ sockbuf' = sockbuf \o [k \in 1 .. n |-> flight[k].byte]
          /\ flight' = SubSeq(flight, n + 1, M) /\ sent' = sent
    BY <1>2, <2>1 DEF Arrive
  <2>3. PICK w : w = [k \in 1 .. n |-> flight[k].byte]
    OBVIOUS
  <2>4. w \in Seq(Bytes)
    <3>1. \A k \in 1 .. n : k \in 1 .. M
      BY <2>1
    <3>2. \A k \in 1 .. n : flight[k].byte \in Bytes
      BY <2>1, <3>1
    <3>3. w \in [1 .. n -> Bytes]
      BY <2>3, <3>2
    <3> QED BY <2>1, <3>3
  <2>5. sockbuf \o w \in Seq(Bytes)
    BY <1>0, <2>4, ConcatProperties
  <2>6. SubSeq(flight, n + 1, M) \in Seq(R)
    <3>1. n + 1 \in Int /\ M \in Int /\ \A i \in n + 1 .. M : i \in 1 .. M
      BY <2>1
    <3> HIDE DEF R
    <3> QED BY <2>1, <3>1, SubSeqProperties
  <2> QED BY <1>0, <2>2, <2>3, <2>5, <2>6
<1> QED BY <1>1, <1>2

\* The packet at ptr, whatever it is.
LEMMA PacketTyped ==
  ASSUME TypeOK, Roomy, PacketThere
  PROVE  /\ PacketSize \in Nat /\ HEADER <= PacketSize /\ ptr + PacketSize <= Len(recv_buf) + 1
         /\ SubSeq(recv_buf, ptr, ptr + PacketSize - 1) \in Units
<1>1. PICK L \in Nat : /\ L = Len(recv_buf) /\ ptr \in Nat /\ 1 <= ptr
                      /\ left = L - ptr + 1
  <2>1. /\ Len(recv_buf) \in Nat /\ ptr \in Nat /\ 1 <= ptr
        /\ left = Len(recv_buf) - ptr + 1
    BY RoomFacts
  <2> QED BY <2>1
<1>0. left >= HEADER /\ left >= PacketSize
  BY DEF PacketThere
<1>2. \A i \in 1 .. L : recv_buf[i] \in Bytes
  BY <1>1, ElementOfSeq DEF TypeOK
<1>3. ptr + 2 \in 1 .. L /\ ptr + 3 \in 1 .. L
  BY <1>0, <1>1 DEF HEADER
<1>4. PICK k : k = PacketSize /\ k \in Nat /\ HEADER <= k
  <2>1. recv_buf[ptr + 2] \in Bytes /\ recv_buf[ptr + 3] \in Bytes
    BY <1>2, <1>3
  <2>2. recv_buf[ptr + 2] \in Nat /\ recv_buf[ptr + 3] \in Nat
    BY <2>1 DEF Bytes
  <2>3. PacketSize = 4 + recv_buf[ptr + 2] * 256 + recv_buf[ptr + 3]
    BY DEF PacketSize, HEADER
  <2> QED BY <2>2, <2>3 DEF HEADER
<1>5. ptr + k <= L + 1
  BY <1>0, <1>1, <1>4
<1>6. SubSeq(recv_buf, ptr, ptr + k - 1) \in Seq(Bytes)
  <2>1. /\ ptr \in Int /\ ptr + k - 1 \in Int
        /\ \A i \in ptr .. ptr + k - 1 : i \in 1 .. L
    BY <1>1, <1>4, <1>5
  <2> QED BY <1>2, <2>1, SubSeqProperties
<1> QED BY <1>1, <1>4, <1>5, <1>6 DEF Units

\* The kept bytes and what completes them, whatever they are.
LEMMA KeptTyped ==
  ASSUME TypeOK, Roomy, ptr = 1, Completes
  PROVE  /\ Missing \in Nat /\ Missing <= Len(recv_buf)
         /\ Copied(last_sz, 1, Missing) \in [Byte(RECV_BUF_SZ) -> Bytes]
         /\ Front0(Copied(last_sz, 1, Missing), LastSize + HEADER) \in Units
<1>1. PICK L, N, z, M :
        /\ L = Len(recv_buf) /\ N = RECV_BUF_SZ /\ z = last_sz /\ M = Missing
        /\ L \in Nat /\ N \in Nat /\ z \in Nat /\ z + L < N /\ M \in 0 .. L
  BY RoomFacts DEF Completes
<1>2. Copied(z, 1, M) \in [Byte(RECV_BUF_SZ) -> Bytes]
  <2>1. /\ z \in Nat /\ 1 \in Nat /\ M \in Int /\ 1 <= 1 /\ M <= Len(recv_buf)
        /\ z <= RECV_BUF_SZ /\ z + M - 1 + 1 <= RECV_BUF_SZ
    BY <1>1
  <2> QED BY <2>1, CopiedFacts
<1>3. LastSize + HEADER \in 0 .. N
  <2>1. N > 4
    BY <1>1, BoundsAssumption DEF HEADER
  <2>2. last_buf[2] \in Bytes /\ last_buf[3] \in Bytes
    <3>1. 2 \in Byte(RECV_BUF_SZ) /\ 3 \in Byte(RECV_BUF_SZ)
      BY <1>1, <2>1 DEF Byte
    <3> QED BY <3>1 DEF TypeOK
  <2>3. LastSize \in Nat
    <3>1. last_buf[2] \in Nat /\ last_buf[3] \in Nat
      BY <2>2 DEF Bytes
    <3> QED BY <3>1 DEF LastSize
  <2>4. M = LastSize + 4 - z
    BY <1>1 DEF Missing, HEADER
  <2> QED BY <1>1, <2>3, <2>4 DEF HEADER
<1>4. PICK w : w = Copied(z, 1, M)
  OBVIOUS
<1>5. Front0(w, LastSize + HEADER) \in Units
  BY <1>1, <1>2, <1>3, <1>4, FrontUnit
<1> QED BY <1>1, <1>2, <1>4, <1>5

LEMMA BaseReceive ==
  ASSUME BaseInv, Roomy, Roomy', Receive
  PROVE  BaseInv'
<1>0. /\ TypeOK /\ handed \in Seq(Units) /\ flight \in Seq([byte : Bytes, ends : Ends])
      /\ pc = "idle" => recv_buf = <<>>
      /\ pc \in {"idle", "last"} => ptr = 1 /\ new = 1
  BY DEF BaseInv
<1>1. PICK L, N, z :
        /\ L = Len(recv_buf) /\ N = RECV_BUF_SZ /\ z = last_sz
        /\ L \in Nat /\ N \in Nat /\ z \in Nat /\ ptr \in Nat /\ new \in Nat /\ left \in Nat
        /\ 1 <= new /\ new <= ptr /\ ptr <= L + 1 /\ left = L - ptr + 1 /\ z + L < N
  BY <1>0, RoomFacts
<1>2. \* What a receive that returns leaves behind.
      ASSUME Returns, Unmentioned, handed' = handed,
             last_buf' \in [Byte(RECV_BUF_SZ) -> Bytes], last_sz' \in 0 .. RECV_BUF_SZ
      PROVE  BaseInv'
  <2>1. recv_buf' \in Seq(Bytes) /\ Len(recv_buf') = 0 /\ 0 <= RECV_BUF_SZ
    BY <1>1, <1>2, EmptySeq DEF Returns
  <2> QED BY <1>0, <1>2, <2>1 DEF BaseInv, TypeOK, Returns, Unmentioned, wire, lost
<1>3. \* And one that goes on.
      ASSUME Unmentioned, recv_buf' = recv_buf, pc' \in {"scan", "aborted"},
             handed' \in Seq(Units), ptr' \in 1 .. L + 1, new' \in 1 .. ptr',
             last_buf' \in [Byte(RECV_BUF_SZ) -> Bytes], last_sz' \in 0 .. RECV_BUF_SZ
      PROVE  BaseInv'
  BY <1>0, <1>1, <1>3 DEF BaseInv, TypeOK, Unmentioned, wire, lost
<1>4. /\ last_buf \in [Byte(RECV_BUF_SZ) -> Bytes] /\ last_sz \in 0 .. RECV_BUF_SZ
      /\ 0 \in 0 .. RECV_BUF_SZ /\ ptr \in 1 .. L + 1 /\ new \in 1 .. ptr
  BY <1>0, <1>1 DEF TypeOK
<1>5. CASE Recv
  <2>1. PICK n \in Nat :
          /\ n <= N /\ n <= Len(sockbuf) /\ recv_buf' = SubSeq(sockbuf, 1, n)
          /\ sockbuf' = SubSeq(sockbuf, n + 1, Len(sockbuf)) /\ Len(sockbuf) \in Nat
    <3>1. Len(sockbuf) \in Nat
      BY <1>0, LenProperties DEF TypeOK
    <3>2. PICK n : n = IF Len(sockbuf) < RECV_BUF_SZ THEN Len(sockbuf) ELSE RECV_BUF_SZ
      OBVIOUS
    <3>3. recv_buf' = SubSeq(sockbuf, 1, n)
      BY <1>5, <3>2 DEF Recv
    <3>4. sockbuf' = SubSeq(sockbuf, n + 1, Len(sockbuf))
      BY <1>5, <3>2 DEF Recv
    <3>5. n \in Nat /\ n <= N /\ n <= Len(sockbuf)
      <4>1. PICK S \in Nat : S = Len(sockbuf)
        BY <3>1
      <4>2. n = IF S < N THEN S ELSE N
        BY <1>1, <3>2, <4>1
      <4> QED BY <1>1, <4>1, <4>2
    <3> QED BY <3>1, <3>3, <3>4, <3>5
  <2>2. \A i \in 1 .. Len(sockbuf) : sockbuf[i] \in Bytes
    BY <1>0, <2>1, ElementOfSeq DEF TypeOK
  <2>3. /\ SubSeq(sockbuf, 1, n) \in Seq(Bytes)
        /\ Len(SubSeq(sockbuf, 1, n)) = IF 1 <= n THEN n - 1 + 1 ELSE 0
    <3>1. 1 \in Int /\ n \in Int /\ \A i \in 1 .. n : i \in 1 .. Len(sockbuf)
      BY <2>1
    <3>2. \A i \in 1 .. n : sockbuf[i] \in Bytes
      BY <2>2, <3>1
    <3> QED BY <3>1, <3>2, SubSeqProperties
  <2>4. Len(SubSeq(sockbuf, 1, n)) = n
    BY <2>3
  <2>5. sockbuf' \in Seq(Bytes)
    <3>1. /\ n + 1 \in Int /\ Len(sockbuf) \in Int
          /\ \A i \in n + 1 .. Len(sockbuf) : i \in 1 .. Len(sockbuf)
      BY <2>1
    <3>2. SubSeq(sockbuf, n + 1, Len(sockbuf)) \in Seq(Bytes)
      BY <2>2, <3>1, SubSeqProperties
    <3> QED BY <2>1, <3>2
  <2>6. recv_buf' \in Seq(Bytes) /\ Len(recv_buf') \in Nat /\ Len(recv_buf') <= RECV_BUF_SZ
    BY <1>1, <2>1, <2>3, <2>4
  <2>7. ptr' \in 1 .. Len(recv_buf') + 1 /\ new' \in 1 .. ptr'
    BY <1>5, <2>6 DEF Recv
  <2>8. /\ pc' = "last" /\ ptr' = 1 /\ new' = 1 /\ edge' \in BOOLEAN
        /\ UNCHANGED <<last_buf, last_sz, flight, sent, handed, resets, stale>>
    BY <1>5 DEF Recv, last, lost
  <2> QED BY <1>0, <2>5, <2>6, <2>7, <2>8 DEF BaseInv, TypeOK
<1>6. CASE NothingKept
  BY <1>0, <1>3, <1>4, <1>6 DEF NothingKept, recv, last
<1>7. CASE CompletePacket
  <2>1. /\ ptr = 1 /\ Completes /\ Unmentioned /\ recv_buf' = recv_buf
        /\ last_buf' = Copied(last_sz, 1, Missing) /\ last_sz' = 0
        /\ HandOver(Front0(last_buf', LastSize + HEADER), "scan")
        /\ ptr' = Missing + 1 /\ new' = Missing + 1
    BY <1>0, <1>7 DEF CompletePacket
  <2>2. /\ Missing \in Nat /\ Missing <= L
        /\ last_buf' \in [Byte(RECV_BUF_SZ) -> Bytes]
        /\ Front0(last_buf', LastSize + HEADER) \in Units
    BY <1>0, <1>1, <2>1, KeptTyped
  <2>3. handed' \in Seq(Units) /\ pc' \in {"scan", "aborted"}
    BY <1>0, <2>1, <2>2, HandUnit
  <2>4. ptr' \in 1 .. L + 1 /\ new' \in 1 .. ptr'
    BY <1>1, <2>1, <2>2
  <2> QED BY <1>3, <1>4, <2>1, <2>2, <2>3, <2>4
<1>8. CASE KeepMore
  <2>1. /\ ptr = 1 /\ last_buf' = Copied(last_sz, 1, left) /\ last_sz' = last_sz + left
        /\ Returns /\ Unmentioned /\ handed' = handed
    BY <1>0, <1>8 DEF KeepMore, CountMore
  <2>2. left = L /\ last_sz' \in 0 .. RECV_BUF_SZ
    BY <1>1, <2>1
  <2>3. Copied(z, 1, L) \in [Byte(RECV_BUF_SZ) -> Bytes]
    <3>1. /\ z \in Nat /\ 1 \in Nat /\ L \in Int /\ 1 <= 1 /\ L <= Len(recv_buf)
          /\ z <= RECV_BUF_SZ /\ z + L - 1 + 1 <= RECV_BUF_SZ
      BY <1>1
    <3> QED BY <1>0, <3>1, CopiedFacts
  <2> QED BY <1>1, <1>2, <2>1, <2>2, <2>3
<1>9. CASE FlushText
  <2>1. PICK buf, k :
        /\ left > 0 /\ ptr # new
        /\ buf = Copied(last_sz, new, ptr - 1) /\ k = last_sz + ptr - new
        /\ last_buf' = [buf EXCEPT ![k] = 0] /\ HandOver(Front0(last_buf', k), "scan")
        /\ last_sz' = 0 /\ new' = ptr /\ recv_buf' = recv_buf /\ ptr' = ptr /\ Unmentioned
    BY <1>9 DEF FlushText, AtDollar
  <2>2. /\ ptr - 1 \in Nat /\ new <= ptr - 1 /\ ptr - 1 <= Len(recv_buf)
        /\ k = last_sz + ((ptr - 1) + 1 - new)
    BY <1>1, <2>1
  <2>3. /\ last_buf' \in [Byte(RECV_BUF_SZ) -> Bytes] /\ Front0(last_buf', k) \in Units
    BY <1>0, <2>1, <2>2, TextTaken
  <2>4. handed' \in Seq(Units) /\ pc' \in {"scan", "aborted"}
    BY <1>0, <2>1, <2>3, HandUnit
  <2>5. ptr' \in 1 .. L + 1 /\ new' \in 1 .. ptr'
    BY <1>1, <2>1
  <2> QED BY <1>3, <1>4, <2>1, <2>3, <2>4, <2>5
<1>10. CASE HandPacket
  <2>1. /\ PacketThere /\ HandOver(SubSeq(recv_buf, ptr, ptr + PacketSize - 1), "scan")
        /\ ptr' = ptr + PacketSize /\ new' = ptr + PacketSize /\ Unmentioned
        /\ recv_buf' = recv_buf /\ last_buf' = last_buf /\ last_sz' = last_sz
    BY <1>10 DEF HandPacket, NextMessage, last
  <2>2. /\ PacketSize \in Nat /\ ptr + PacketSize <= L + 1
        /\ SubSeq(recv_buf, ptr, ptr + PacketSize - 1) \in Units
    BY <1>0, <1>1, <2>1, PacketTyped
  <2>3. handed' \in Seq(Units) /\ pc' \in {"scan", "aborted"}
    BY <1>0, <2>1, <2>2, HandUnit
  <2>4. ptr' \in 1 .. L + 1 /\ new' \in 1 .. ptr'
    BY <1>1, <2>1, <2>2
  <2> QED BY <1>3, <1>4, <2>1, <2>3, <2>4
<1>11. CASE KeepPacket
  <2>1. /\ left > 0 /\ last_buf' = Copied(0, ptr, Len(recv_buf)) /\ last_sz' = left
        /\ Returns /\ Unmentioned /\ handed' = handed
    BY <1>11 DEF KeepPacket, AtDollar
  <2>2. last_sz' \in 0 .. RECV_BUF_SZ
    BY <1>1, <2>1
  <2>3. Copied(0, ptr, L) \in [Byte(RECV_BUF_SZ) -> Bytes]
    <3>1. /\ 0 \in Nat /\ ptr \in Nat /\ L \in Int /\ 1 <= ptr /\ L <= Len(recv_buf)
          /\ 0 <= RECV_BUF_SZ /\ 0 + L - ptr + 1 <= RECV_BUF_SZ
      BY <1>1
    <3> QED BY <1>0, <3>1, CopiedFacts
  <2> QED BY <1>1, <1>2, <2>1, <2>2, <2>3
<1>12. CASE SkipText
  <2>1. /\ left > 1 /\ ptr' = ptr + 1 /\ pc' = "scan" /\ Unmentioned
        /\ UNCHANGED <<recv_buf, new, last_buf, last_sz, handed>>
    BY <1>12 DEF SkipText, last
  <2>2. ptr' \in 1 .. L + 1 /\ new' \in 1 .. ptr'
    BY <1>1, <2>1
  <2> QED BY <1>0, <1>3, <1>4, <2>1, <2>2
<1>13. CASE EndOfText
  <2>1. PICK n, k, buf :
        /\ pc = "scan" /\ left = 1 /\ n = ptr + 1 - new /\ k = last_sz + n
        /\ buf = Copied(last_sz, new, ptr)
        /\ \/ /\ last_buf' = [buf EXCEPT ![k] = 0] /\ last_sz' = 0
              /\ HandOver(Front0(last_buf', k), "scan")
           \/ last_buf' = buf /\ last_sz' = k + n /\ pc' = pc /\ handed' = handed
        /\ ptr' = ptr + 1 /\ recv_buf' = recv_buf /\ new' = new /\ Unmentioned
    BY <1>13 DEF EndOfText
  <2>2. /\ new <= ptr /\ ptr <= Len(recv_buf) /\ k = last_sz + (ptr + 1 - new)
    BY <1>1, <2>1
  <2>3. /\ k \in Nat /\ buf \in [Byte(RECV_BUF_SZ) -> Bytes]
        /\ [buf EXCEPT ![k] = 0] \in [Byte(RECV_BUF_SZ) -> Bytes]
        /\ Front0([buf EXCEPT ![k] = 0], k) \in Units
    BY <1>0, <1>1, <2>1, <2>2, TextTaken
  <2>4. ptr' \in 1 .. L + 1 /\ new' \in 1 .. ptr'
    BY <1>1, <2>1
  <2>5. CASE /\ last_buf' = [buf EXCEPT ![k] = 0] /\ last_sz' = 0
             /\ HandOver(Front0(last_buf', k), "scan")
    <3>1. Front0(last_buf', k) \in Units
      BY <2>3, <2>5
    <3>2. handed' \in Seq(Units) /\ pc' \in {"scan", "aborted"}
      BY <1>0, <2>5, <3>1, HandUnit
    <3> QED BY <1>3, <1>4, <2>1, <2>3, <2>4, <2>5, <3>2
  <2>6. CASE last_buf' = buf /\ last_sz' = k + n /\ pc' = pc /\ handed' = handed
    <3>1. last_sz' \in 0 .. RECV_BUF_SZ
      <4>1. last_sz' + L < N
        BY <1>1, <2>1 DEF Roomy
      <4> QED BY <1>1, <2>1, <2>3, <2>6, <4>1
    <3> QED BY <1>0, <1>3, <2>1, <2>3, <2>4, <2>6, <3>1
  <2> QED BY <2>1, <2>5, <2>6
<1>14. CASE AllHandled
  BY <1>0, <1>2, <1>4, <1>14 DEF AllHandled, last
<1> QED BY <1>5, <1>6, <1>7, <1>8, <1>9, <1>10, <1>11, <1>12, <1>13, <1>14 DEF Receive

LEMMA BaseSteps ==
  ASSUME BaseInv, Roomy, Roomy', [Next]_vars
  PROVE  BaseInv'
<1>1. CASE ServerSends
  <2>1. /\ flight' \in Seq([byte : Bytes, ends : Ends])
        /\ sockbuf' \in Seq(Bytes) /\ sent' \in Seq(Messages)
    BY <1>1, WireTyped
  <2> QED BY <1>1, <2>1 DEF ServerSends, BaseInv, TypeOK, recv, last, lost
<1>2. CASE Arrive
  <2>1. /\ flight' \in Seq([byte : Bytes, ends : Ends])
        /\ sockbuf' \in Seq(Bytes) /\ sent' \in Seq(Messages)
    BY <1>2, WireTyped
  <2> QED BY <1>2, <2>1 DEF Arrive, BaseInv, TypeOK, recv, last, lost
<1>3. CASE Reset
  <2>1. resets' \in 0 .. MaxResets
    <3>1. resets \in 0 .. MaxResets /\ MaxResets \in Nat
      BY BoundsAssumption DEF BaseInv, TypeOK
    <3> QED BY <1>3, <3>1 DEF Reset
  <2>2. stale' \in BOOLEAN /\ edge' \in BOOLEAN
    BY <1>3 DEF Reset
  <2>3. PICK nothing :
          /\ nothing = <<>> /\ nothing \in Seq(Bytes) /\ nothing \in Seq(Messages)
          /\ nothing \in Seq(Units) /\ nothing \in Seq([byte : Bytes, ends : Ends])
    BY EmptySeq
  <2>4. /\ flight' = nothing /\ sockbuf' = nothing /\ sent' = nothing /\ handed' = nothing
        /\ UNCHANGED <<pc, recv_buf, ptr, new, last_buf, last_sz>>
    BY <1>3, <2>3 DEF Reset, recv, last
  <2> QED BY <2>1, <2>2, <2>3, <2>4 DEF BaseInv, TypeOK
<1>4. CASE Receive
  BY <1>4, BaseReceive
<1>5. CASE UNCHANGED vars
  BY <1>5 DEF vars, recv, last, wire, lost, BaseInv, TypeOK
<1> QED BY <1>1, <1>2, <1>3, <1>4, <1>5 DEF Next

-----------------------------------------------------------------------------
(* The packets, also when responses are cut                                *)

\* q is where a message of s ends, or in a response.
TextAt(e, s, h, q) ==
  \/ q = e[h]
  \/ h < Len(s) /\ ~IsPacket(s[h + 1]) /\ e[h] < q /\ q < e[h + 1]

AtText(e, h, q) == NoPacketKept /\ TextAt(e, sent, h, q)

\* last_data holds how the packet begins that q is in, its header at least.
InPacket(F, e, h, q) ==
  /\ pc \in {"idle", "last"} /\ h < Len(sent) /\ IsPacket(sent[h + 1])
  /\ last_sz \in HEADER .. Len(sent[h + 1]) - 1 /\ q = e[h] + last_sz
  /\ Begins(F, e[h], last_buf, last_sz)

\* Of the stream F, what was received ends at g, and what the loop has looked at
\* ends at q. The first h messages end before q, and their packets have been
\* handed over.
FilterInv(F, e, h, q, g) ==
  /\ e \in [0 .. Len(sent) -> Nat] /\ Laid(F, e, sent) /\ h \in 0 .. Len(sent)
  /\ q \in Nat /\ g \in Nat /\ g = q + left
  /\ pc # "aborted" /\ (pc # "idle" => sockbuf = <<>>)
  /\ Packets(handed) = PacketsIn(sent)[h]
  /\ Reads(F, q, ptr, Len(recv_buf))
  /\ \A i \in new .. ptr - 1 : recv_buf[i] # DOLLAR
  /\ WireInv(F, e, g)
  /\ AtText(e, h, q) \/ InPacket(F, e, h, q)

Filtering == \E F, e, h, q, g : FilterInv(F, e, h, q, g)

\* The next message.
LEMMA PacketsAfter ==
  ASSUME BaseInv, NEW h \in Nat, h < Len(sent)
  PROVE  /\ sent[h + 1] \in Messages
         /\ PacketsIn(sent)[h + 1] = With(PacketsIn(sent)[h], sent[h + 1])
<1>1. sent \in Seq(Messages) /\ Len(sent) \in Nat
  BY LenProperties DEF BaseInv, TypeOK
<1>2. PICK s : s = sent /\ s \in Seq(Units)
  BY <1>1, SeqsOfUnits
<1>3. PICK k \in 1 .. Len(s) : k = h + 1 /\ k - 1 = h
  BY <1>1, <1>2
<1>4. PacketsIn(s)[k] = With(PacketsIn(s)[k - 1], s[k])
  BY <1>2, PacketsNext
<1>5. sent[k] \in Messages
  BY <1>1, <1>2, <1>3, ElementOfSeq
<1> QED BY <1>2, <1>3, <1>4, <1>5

\* Sizes and places.
LEMMA FilterFacts ==
  ASSUME BaseInv, Roomy, NEW F, NEW e, NEW h, NEW q, NEW g, FilterInv(F, e, h, q, g)
  PROVE  /\ sent \in Seq(Messages) /\ Len(sent) \in Nat /\ h \in Nat /\ h <= Len(sent)
         /\ \A k \in 0 .. Len(sent) : e[k] \in Nat
         /\ e[h] \in Nat /\ e[h] <= q /\ q \in Nat /\ g \in Nat /\ TypeOK
         /\ h < Len(sent) => \E m \in Messages :
              /\ m = sent[h + 1] /\ e[h + 1] = e[h] + Len(m) /\ Lies(F, e[h], m)
<1>1. sent \in Seq(Messages) /\ Len(sent) \in Nat /\ TypeOK
  BY LenProperties DEF BaseInv, TypeOK
<1>2. /\ e \in [0 .. Len(sent) -> Nat] /\ h \in 0 .. Len(sent) /\ q \in Nat /\ g \in Nat
      /\ Laid(F, e, sent) /\ (AtText(e, h, q) \/ InPacket(F, e, h, q))
  BY DEF FilterInv
<1>3. h \in Nat /\ h <= Len(sent) /\ e[h] \in Nat /\ \A k \in 0 .. Len(sent) : e[k] \in Nat
  BY <1>1, <1>2
<1>4. e[h] <= q
  <2>1. CASE AtText(e, h, q)
    BY <1>2, <1>3, <2>1 DEF AtText, TextAt
  <2>2. CASE InPacket(F, e, h, q)
    <3>1. q = e[h] + last_sz /\ last_sz \in Nat
      BY <1>1, <2>2, RoomFacts DEF InPacket
    <3> QED BY <1>3, <3>1
  <2> QED BY <1>2, <2>1, <2>2
<1>5. ASSUME h < Len(sent)
      PROVE  \E m \in Messages :
               m = sent[h + 1] /\ e[h + 1] = e[h] + Len(m) /\ Lies(F, e[h], m)
  <2>1. Laid(F, e, sent) /\ sent \in Seq(Messages) /\ h \in Nat /\ h < Len(sent)
    BY <1>1, <1>2, <1>3, <1>5
  <2> QED BY <2>1, NextMessageFacts
<1> QED BY <1>1, <1>2, <1>3, <1>4, <1>5

\* A step that only looks at recv_buf.
LEMMA FilterOn ==
  ASSUME NEW F, NEW e, NEW h, NEW q, NEW g, FilterInv(F, e, h, q, g), Unmentioned,
         pc # "idle", pc' # "aborted", NEW h1 \in 0 .. Len(sent), NEW q1 \in Nat,
         g = q1 + left', Packets(handed') = PacketsIn(sent)[h1],
         Reads(F, q1, ptr, Len(recv_buf))',
         \A i \in new' .. ptr' - 1 : recv_buf'[i] # DOLLAR,
         (AtText(e, h1, q1) \/ InPacket(F, e, h1, q1))'
  PROVE  Filtering'
<1>1. /\ sent' = sent /\ sockbuf' = sockbuf /\ flight' = flight
  BY DEF Unmentioned, wire
<1>2. WireInv(F, e, g)'
  BY <1>1 DEF FilterInv, WireInv
<1>3. /\ e \in [0 .. Len(sent') -> Nat] /\ Laid(F, e, sent') /\ h1 \in 0 .. Len(sent')
      /\ g \in Nat /\ sockbuf' = <<>> /\ Packets(handed') = PacketsIn(sent')[h1]
  BY <1>1 DEF FilterInv
<1>4. FilterInv(F, e, h1, q1, g)'
  BY <1>2, <1>3 DEF FilterInv
<1> QED BY <1>4 DEF Filtering

\* One after which recv_from_rtsp_sd() returns.
LEMMA FilterReturns ==
  ASSUME NEW F, NEW e, NEW h, NEW q, NEW g, FilterInv(F, e, h, q, g), Unmentioned,
         pc # "idle", Returns, handed' = handed,
         (AtText(e, h, g) \/ InPacket(F, e, h, g))'
  PROVE  Filtering'
<1>1. recv_buf' = <<>> /\ ptr' = 1 /\ new' = 1 /\ pc' = "idle" /\ Len(recv_buf') = 0
  BY EmptySeq DEF Returns
<1>2. left' = 0
  BY <1>1 DEF left
<1>3. g \in Nat /\ h \in 0 .. Len(sent) /\ g = g + left' /\ Packets(handed') = PacketsIn(sent)[h]
  BY <1>2 DEF FilterInv
<1>4. Reads(F, g, ptr, Len(recv_buf))' /\ \A i \in new' .. ptr' - 1 : recv_buf'[i] # DOLLAR
  BY <1>1 DEF Reads
<1>5. pc' # "aborted"
  BY <1>1
<1> QED BY <1>3, <1>4, <1>5, FilterOn

\* Whether last_data holds a packet is seen from its first byte.
LEMMA KeptOrText ==
  ASSUME BaseInv, Roomy, NEW F, NEW e, NEW h, NEW q, NEW g, FilterInv(F, e, h, q, g)
  PROVE  /\ ~HeaderKept => AtText(e, h, q)
         /\ HeaderKept => \E m \in Messages :
              /\ h < Len(sent) /\ m = sent[h + 1] /\ IsPacket(m)
              /\ e[h + 1] = e[h] + Len(m) /\ Lies(F, e[h], m)
              /\ last_sz \in HEADER .. Len(m) - 1 /\ q = e[h] + last_sz
              /\ LastSize = Len(m) - HEADER /\ Missing = Len(m) - last_sz
              /\ Begins(F, e[h], last_buf, last_sz)
<1>1. CASE AtText(e, h, q)
  <2>1. last_sz \in Nat
    BY RoomFacts DEF BaseInv
  <2>2. ~HeaderKept
    BY <1>1, <2>1 DEF AtText, NoPacketKept, HeaderKept, HEADER
  <2> QED BY <1>1, <2>2
<1>2. CASE InPacket(F, e, h, q)
  <2>1. PICK m \in Messages :
          /\ h < Len(sent) /\ m = sent[h + 1] /\ e[h + 1] = e[h] + Len(m) /\ Lies(F, e[h], m)
    BY <1>2, FilterFacts DEF InPacket
  <2>2. /\ IsPacket(m) /\ last_sz \in HEADER .. Len(m) - 1 /\ q = e[h] + last_sz
        /\ Begins(F, e[h], last_buf, last_sz)
    BY <1>2, <2>1 DEF InPacket
  <2>3. PICK P, z, b :
          /\ P = Len(m) /\ P \in Nat /\ P > HEADER /\ Payload(m) = P - HEADER
          /\ z = last_sz /\ z \in Nat /\ HEADER <= z /\ z < P /\ b = e[h] /\ b \in Nat
    <3>1. Len(m) \in Nat /\ Len(m) > HEADER /\ Payload(m) = Len(m) - HEADER
      BY <2>2, MessageFacts
    <3>2. last_sz \in Nat /\ e[h] \in Nat
      BY FilterFacts, RoomFacts
    <3>3. HEADER <= last_sz /\ last_sz < Len(m)
      BY <2>2, <3>1, <3>2 DEF HEADER
    <3> QED BY <3>1, <3>2, <3>3
  <2>4. \A i \in 0 .. z - 1 : last_buf[i] = m[i + 1]
    <3>0. P \in Nat /\ z \in Nat /\ z < P /\ b \in Nat
      BY <2>3
    <3>1. \A i \in 0 .. z - 1 : i + 1 \in 1 .. P /\ b + i + 1 = b + (i + 1)
      BY <3>0
    <3>2. \A i \in 0 .. z - 1 : F[b + (i + 1)] = m[i + 1]
      BY <2>1, <2>3, <3>1 DEF Lies
    <3> QED BY <2>2, <2>3, <3>1, <3>2 DEF Begins
  <2>5. 0 \in 0 .. z - 1 /\ 2 \in 0 .. z - 1 /\ 3 \in 0 .. z - 1
    BY <2>3 DEF HEADER
  <2>6. last_buf[0] = m[1] /\ last_buf[2] = m[3] /\ last_buf[3] = m[4]
    BY <2>4, <2>5
  <2>7. HeaderKept
    BY <2>2, <2>3, <2>6 DEF HeaderKept, IsPacket, HEADER
  <2>8. LastSize = P - HEADER
    BY <2>3, <2>6 DEF LastSize, Payload
  <2>9. Missing = P - z
    BY <2>3, <2>8 DEF Missing, HEADER
  <2> QED BY <2>1, <2>2, <2>3, <2>7, <2>8, <2>9
<1> QED BY <1>1, <1>2 DEF FilterInv

LEMMA FilterNothingKept ==
  ASSUME BaseInv, Roomy, NEW F, NEW e, NEW h, NEW q, NEW g, FilterInv(F, e, h, q, g),
         NothingKept
  PROVE  Filtering'
<1>1. /\ pc = "last" /\ ~HeaderKept /\ pc' = "scan" /\ Unmentioned
      /\ UNCHANGED <<recv_buf, ptr, new, last_buf, last_sz, handed, sent>>
  BY DEF NothingKept, recv, last, Unmentioned
<1>2. AtText(e, h, q)
  BY <1>1, KeptOrText
<1>3. AtText(e, h, q)'
  BY <1>1, <1>2 DEF AtText, NoPacketKept
<1>4. left' = left
  BY <1>1 DEF left
<1>5. /\ h \in 0 .. Len(sent) /\ q \in Nat /\ g = q + left'
      /\ Packets(handed') = PacketsIn(sent)[h] /\ pc # "idle" /\ pc' # "aborted"
  BY <1>1, <1>4 DEF FilterInv
<1>6. Reads(F, q, ptr, Len(recv_buf))' /\ \A i \in new' .. ptr' - 1 : recv_buf'[i] # DOLLAR
  BY <1>1 DEF FilterInv, Reads
<1> QED BY <1>1, <1>3, <1>5, <1>6, FilterOn

LEMMA FilterCompletePacket ==
  ASSUME BaseInv, Roomy, NEW F, NEW e, NEW h, NEW q, NEW g, FilterInv(F, e, h, q, g),
         CompletePacket
  PROVE  Filtering'
<1>1. /\ pc = "last" /\ HeaderKept /\ Completes /\ Unmentioned /\ recv_buf' = recv_buf
      /\ last_buf' = Copied(last_sz, 1, Missing) /\ last_sz' = 0
      /\ HandOver(Front0(last_buf', LastSize + HEADER), "scan")
      /\ ptr' = Missing + 1 /\ new' = Missing + 1
  BY DEF CompletePacket
<1>2. PICK m \in Messages :
        /\ h < Len(sent) /\ m = sent[h + 1] /\ IsPacket(m)
        /\ e[h + 1] = e[h] + Len(m) /\ Lies(F, e[h], m)
        /\ last_sz \in HEADER .. Len(m) - 1 /\ q = e[h] + last_sz
        /\ LastSize = Len(m) - HEADER /\ Missing = Len(m) - last_sz
        /\ Begins(F, e[h], last_buf, last_sz)
  BY <1>1, KeptOrText
<1>3. TypeOK /\ ptr = 1 /\ new = 1
  BY <1>1 DEF BaseInv
<1>4. PICK P, L, z, M, b :
        /\ P = Len(m) /\ L = Len(recv_buf) /\ z = last_sz /\ M = Missing /\ b = e[h]
        /\ P \in Nat /\ L \in Nat /\ z \in Nat /\ M \in Nat /\ b \in Nat
        /\ P = z + M /\ 0 < M /\ M <= L /\ P < RECV_BUF_SZ /\ RECV_BUF_SZ \in Nat
  <2>1. /\ Len(m) \in Nat /\ Len(m) < RECV_BUF_SZ /\ Len(recv_buf) \in Nat /\ last_sz \in Nat
        /\ left = Len(recv_buf) - ptr + 1 /\ RECV_BUF_SZ \in Nat
    BY <1>3, MessageFacts, RoomFacts
  <2>2. left = Len(recv_buf)
    BY <1>3, <2>1
  <2>3. Missing \in Nat /\ Missing <= Len(recv_buf)
    BY <1>1, <2>1, <2>2 DEF Completes
  <2>4. last_sz <= Len(m) - 1 /\ Missing = Len(m) - last_sz
    BY <1>2, <2>1 DEF HEADER
  <2>5. Len(m) = last_sz + Missing /\ 0 < Missing
    BY <2>1, <2>4
  <2>6. e[h] \in Nat
    BY FilterFacts
  <2> QED BY <2>1, <2>3, <2>5, <2>6
<1>5. \A i \in 1 .. L : recv_buf[i] = F[q + i - 1 + 1]
  BY <1>3, <1>4 DEF FilterInv, Reads
<1>0. /\ P \in Nat /\ L \in Nat /\ z \in Nat /\ M \in Nat /\ b \in Nat
      /\ P = z + M /\ 0 < M /\ M <= L
  BY <1>4
<1>6. q = b + z /\ q \in Nat
  <2>1. q = e[h] + last_sz
    BY <1>2
  <2>2. e[h] = b /\ last_sz = z
    BY <1>4
  <2> QED BY <1>0, <2>1, <2>2
<1>7. Begins(F, b, last_buf', P)
  <2>1. /\ z \in Nat /\ 1 \in Nat /\ M \in Int /\ 1 <= 1 /\ M <= Len(recv_buf)
        /\ z <= RECV_BUF_SZ /\ z + M - 1 + 1 <= RECV_BUF_SZ /\ b \in Nat
    BY <1>4
  <2>2. Begins(F, b, last_buf, z)
    BY <1>2, <1>4
  <2>3. Reads(F, b + z, 1, M)
    <3>1. \A j \in 1 .. M : j \in 1 .. L /\ q + j - 1 + 1 = b + z + j - 1 + 1
      BY <1>0, <1>6
    <3> QED BY <1>5, <3>1 DEF Reads
  <2>4. TypeOK
    BY <1>3
  <2>5. Begins(F, b, Copied(z, 1, M), z + M - 1 + 1)
    BY <2>1, <2>2, <2>3, <2>4, Joined
  <2>6. last_buf' = Copied(z, 1, M)
    BY <1>1, <1>4
  <2>7. z + M - 1 + 1 = P
    BY <1>0
  <2> QED BY <2>5, <2>6, <2>7
<1>8. Front0(last_buf', LastSize + HEADER) = m
  <2>1. \A i \in 0 .. P - 1 : i + 1 \in 1 .. P /\ b + i + 1 = b + (i + 1)
    BY <1>0
  <2>2. \A i \in 0 .. P - 1 : last_buf'[i] = m[i + 1]
    BY <1>2, <1>4, <1>7, <2>1 DEF Lies, Begins
  <2>3. LastSize + HEADER = Len(m)
    BY <1>2, <1>4 DEF HEADER
  <2>4. Front0(last_buf', Len(m)) = m
    BY <1>4, <2>2, FrontFacts
  <2> QED BY <2>3, <2>4
<1>9. pc' = "scan" /\ handed' = Append(handed, m)
  BY <1>1, <1>8, HandWhole
<1>10. Packets(handed') = PacketsIn(sent)[h + 1]
  <2>1. h \in Nat /\ handed \in Seq(Units) /\ m \in Units
    BY FilterFacts, MessageFacts DEF BaseInv, Units
  <2>2. PacketsIn(sent)[h + 1] = With(PacketsIn(sent)[h], m)
    BY <1>2, <2>1, PacketsAfter
  <2>3. Packets(Append(handed, m)) = With(Packets(handed), m)
    BY <2>1, PacketsAppend
  <2>4. Packets(handed) = PacketsIn(sent)[h]
    BY DEF FilterInv
  <2> QED BY <1>9, <2>2, <2>3, <2>4
<1>11. PICK q1 : q1 = b + P /\ q1 = q + M /\ q1 \in Nat /\ q1 = e[h + 1]
  <2>1. e[h + 1] = b + P
    BY <1>2, <1>4
  <2> QED BY <1>0, <1>6, <2>1
<1>12. h + 1 \in 0 .. Len(sent) /\ g = q1 + left'
  <2>1. h \in Nat /\ Len(sent) \in Nat /\ g \in Nat
    BY FilterFacts
  <2>2. left = L - 1 + 1 /\ left' = L - (M + 1) + 1
    BY <1>1, <1>3, <1>4 DEF left
  <2>3. g = q + left
    BY DEF FilterInv
  <2>4. q + (L - 1 + 1) = (q + M) + (L - (M + 1) + 1)
    BY <1>0, <1>6
  <2>5. g = q1 + left'
    BY <1>11, <2>2, <2>3, <2>4
  <2>6. h + 1 \in 0 .. Len(sent)
    BY <1>2, <2>1
  <2> QED BY <2>5, <2>6
<1>13. Reads(F, q1, ptr, Len(recv_buf))'
  <2>1. \A i \in M + 1 .. L : i \in 1 .. L /\ q + i - 1 + 1 = q1 + i - (M + 1) + 1
    BY <1>0, <1>6, <1>11
  <2>2. \A i \in M + 1 .. L : recv_buf[i] = F[q1 + i - (M + 1) + 1]
    BY <1>5, <2>1
  <2> QED BY <1>1, <1>4, <2>2 DEF Reads
<1>14. \A i \in new' .. ptr' - 1 : recv_buf'[i] # DOLLAR
  <2>1. \A i \in M + 1 .. (M + 1) - 1 : FALSE
    BY <1>0
  <2> QED BY <1>1, <1>4, <2>1
<1>15. AtText(e, h + 1, q1)'
  BY <1>1, <1>11 DEF AtText, NoPacketKept, TextAt
<1> QED BY <1>1, <1>9, <1>10, <1>11, <1>12, <1>13, <1>14, <1>15, FilterOn

LEMMA FilterKeepMore ==
  ASSUME BaseInv, Roomy, NEW F, NEW e, NEW h, NEW q, NEW g, FilterInv(F, e, h, q, g),
         KeepMore
  PROVE  Filtering'
<1>1. /\ pc = "last" /\ HeaderKept /\ ~Completes /\ Unmentioned /\ handed' = handed
      /\ last_buf' = Copied(last_sz, 1, left) /\ last_sz' = last_sz + left
      /\ Returns /\ pc' = "idle" /\ sent' = sent
  BY DEF KeepMore, CountMore, Returns, Unmentioned
<1>2. PICK m \in Messages :
        /\ h < Len(sent) /\ m = sent[h + 1] /\ IsPacket(m)
        /\ last_sz \in HEADER .. Len(m) - 1 /\ q = e[h] + last_sz
        /\ Missing = Len(m) - last_sz
        /\ Begins(F, e[h], last_buf, last_sz)
  BY <1>1, KeptOrText
<1>3. TypeOK /\ ptr = 1 /\ new = 1
  BY <1>1 DEF BaseInv
<1>4. PICK P, L, z, b :
        /\ P = Len(m) /\ L = Len(recv_buf) /\ z = last_sz /\ b = e[h] /\ left = L
        /\ P \in Nat /\ L \in Nat /\ z \in Nat /\ b \in Nat
        /\ 4 <= z /\ z + L < P /\ P < RECV_BUF_SZ /\ RECV_BUF_SZ \in Nat
  <2>1. /\ Len(m) \in Nat /\ Len(m) < RECV_BUF_SZ /\ Len(recv_buf) \in Nat /\ last_sz \in Nat
        /\ left = Len(recv_buf) - ptr + 1 /\ RECV_BUF_SZ \in Nat
    BY <1>3, MessageFacts, RoomFacts
  <2>2. left = Len(recv_buf)
    BY <1>3, <2>1
  <2>3. 4 <= last_sz /\ last_sz <= Len(m) - 1 /\ Missing = Len(m) - last_sz
    BY <1>2, <2>1 DEF HEADER
  <2>4. Missing \in Nat /\ ~(Missing <= Len(recv_buf))
    <3>1. Missing \in Nat
      BY <2>1, <2>3
    <3>2. ~(Missing \in 0 .. Len(recv_buf))
      BY <1>1, <2>2 DEF Completes
    <3> QED BY <2>1, <3>1, <3>2
  <2>5. last_sz + Len(recv_buf) < Len(m)
    BY <2>1, <2>3, <2>4
  <2>6. e[h] \in Nat
    BY FilterFacts
  <2> QED BY <2>1, <2>2, <2>3, <2>5, <2>6
<1>5. q = b + z /\ g = b + (z + L)
  <2>1. g = q + left
    BY DEF FilterInv
  <2>2. q = b + z /\ left = L
    BY <1>2, <1>4
  <2>3. b \in Nat /\ z \in Nat /\ L \in Nat
    BY <1>4
  <2> QED BY <2>1, <2>2, <2>3
<1>6. Begins(F, b, last_buf', z + L)
  <2>1. /\ z \in Nat /\ 1 \in Nat /\ L \in Int /\ 1 <= 1 /\ L <= Len(recv_buf)
        /\ z <= RECV_BUF_SZ /\ z + L - 1 + 1 <= RECV_BUF_SZ /\ b \in Nat
    BY <1>4
  <2>2. Begins(F, b, last_buf, z)
    BY <1>2, <1>4
  <2>3. Reads(F, b + z, 1, L)
    BY <1>3, <1>4, <1>5 DEF FilterInv
  <2>4. TypeOK
    BY <1>3
  <2>5. Begins(F, b, Copied(z, 1, L), z + L - 1 + 1)
    BY <2>1, <2>2, <2>3, <2>4, Joined
  <2>6. last_buf' = Copied(z, 1, L)
    BY <1>1, <1>4
  <2>7. z + L - 1 + 1 = z + L
    BY <1>4
  <2> QED BY <2>5, <2>6, <2>7
<1>7. InPacket(F, e, h, g)'
  <2>1. last_sz' = z + L /\ z + L \in HEADER .. P - 1
    BY <1>1, <1>4 DEF HEADER
  <2>2. g = e[h] + (z + L)
    BY <1>4, <1>5
  <2>3. Begins(F, e[h], last_buf', z + L)
    BY <1>4, <1>6
  <2> QED BY <1>1, <1>2, <1>4, <2>1, <2>2, <2>3 DEF InPacket
<1> QED BY <1>1, <1>7, FilterReturns

\* The byte the loop looks at is in the message after the first h. A '$' starts
\* a packet, all or the header of which is there; other bytes are of a response.
LEMMA AtUnread ==
  ASSUME BaseInv, Roomy, NEW F, NEW e, NEW h, NEW q, NEW g, FilterInv(F, e, h, q, g),
         pc = "scan", left # 0
  PROVE  /\ NoPacketKept
         /\ \E m \in Messages :
              /\ h < Len(sent) /\ m = sent[h + 1]
              /\ e[h + 1] = e[h] + Len(m) /\ Lies(F, e[h], m)
              /\ recv_buf[ptr] = DOLLAR => /\ q = e[h] /\ IsPacket(m)
                                           /\ Len(m) <= left \/ HEADER <= left
              /\ recv_buf[ptr] # DOLLAR => ~IsPacket(m) /\ q < e[h + 1]
<1>0. /\ e \in [0 .. Len(sent) -> Nat] /\ Laid(F, e, sent) /\ h \in 0 .. Len(sent)
      /\ g = q + left /\ sockbuf = <<>> /\ Reads(F, q, ptr, Len(recv_buf))
      /\ WireInv(F, e, g) /\ AtText(e, h, q)
  BY DEF FilterInv, InPacket
<1>1. NoPacketKept /\ TextAt(e, sent, h, q)
  BY <1>0 DEF AtText
<1>2. /\ sent \in Seq(Messages) /\ Len(sent) \in Nat /\ h \in Nat
      /\ e[h] \in Nat /\ e[h] <= q /\ q \in Nat /\ g \in Nat
  BY FilterFacts
<1>3. left \in Nat /\ left > 0 /\ ptr \in Nat /\ ptr \in ptr .. Len(recv_buf)
  <2>1. /\ left \in Nat /\ ptr \in Nat /\ Len(recv_buf) \in Nat
        /\ left = Len(recv_buf) - ptr + 1
    BY RoomFacts DEF BaseInv
  <2> QED BY <2>1
<1>4. q < g /\ e[h] < g
  BY <1>0, <1>2, <1>3
<1>5. Resting(e, sent, g)
  <2>1. g + Len(sockbuf) = g
    BY <1>0, <1>2, EmptySeq
  <2> QED BY <1>0, <2>1 DEF WireInv
<1>6. /\ h < Len(sent)
      /\ \/ g >= e[h + 1]
         \/ /\ g < e[h + 1]
            /\ IF IsPacket(sent[h + 1]) THEN e[h] + HEADER <= g ELSE "response" \in Cuts
  BY <1>0, <1>2, <1>4, <1>5, Reach
<1>7. PICK m \in Messages :
        /\ m = sent[h + 1] /\ e[h + 1] = e[h] + Len(m) /\ Lies(F, e[h], m)
  BY <1>6, FilterFacts
<1>8. recv_buf[ptr] = F[q + 1]
  <2>1. recv_buf[ptr] = F[q + ptr - ptr + 1] /\ q + ptr - ptr + 1 = q + 1
    BY <1>0, <1>2, <1>3 DEF Reads
  <2> QED BY <2>1
<1>9. PICK P \in Nat : P = Len(m) /\ 0 < P /\ (IsPacket(m) => P > HEADER)
  BY MessageFacts
<1>10. CASE q = e[h]
  <2>1. recv_buf[ptr] = m[1]
    <3>1. 1 \in 1 .. P
      BY <1>9
    <3> QED BY <1>7, <1>8, <1>9, <1>10, <3>1 DEF Lies
  <2>2. IsPacket(m) <=> recv_buf[ptr] = DOLLAR
    BY <2>1 DEF IsPacket
  <2>3. q < e[h + 1]
    BY <1>2, <1>7, <1>9, <1>10
  <2>4. ASSUME IsPacket(m) PROVE P <= left \/ HEADER <= left
    <3>1. PICK b : b = e[h] /\ (b + P <= g \/ b + 4 <= g)
      BY <1>6, <1>7, <1>9, <2>4 DEF HEADER
    <3>2. g = b + left /\ b \in Nat
      BY <1>0, <1>2, <1>10, <3>1
    <3>3. PICK a : a = left /\ a \in Nat
      BY <1>3
    <3>4. b \in Nat /\ a \in Nat /\ P \in Nat /\ g = b + a /\ (b + P <= g \/ b + 4 <= g)
      BY <1>9, <3>1, <3>2, <3>3
    <3>5. P <= a \/ 4 <= a
      BY <3>4
    <3> QED BY <3>3, <3>5 DEF HEADER
  <2> QED BY <1>1, <1>6, <1>7, <1>9, <1>10, <2>2, <2>3, <2>4
<1>11. CASE q # e[h]
  <2>1. ~IsPacket(m) /\ e[h] < q /\ q < e[h + 1]
    BY <1>1, <1>7, <1>11 DEF TextAt
  <2>2. PICK i \in 1 .. P : e[h] + i = q + 1
    <3>1. q + 1 - e[h] \in 1 .. P /\ e[h] + (q + 1 - e[h]) = q + 1
      <4>1. PICK b \in Nat : b = e[h] /\ b < q /\ q < b + P
        BY <1>2, <1>7, <1>9, <2>1
      <4>2. b \in Nat /\ q \in Nat /\ P \in Nat /\ b < q /\ q < b + P
        BY <1>2, <1>9, <4>1
      <4>3. q + 1 - b \in 1 .. P /\ b + (q + 1 - b) = q + 1
        BY <4>2
      <4> QED BY <4>1, <4>3
    <3> QED BY <3>1
  <2>3. recv_buf[ptr] = m[i]
    BY <1>7, <1>8, <1>9, <2>2 DEF Lies
  <2>4. m[i] # DOLLAR
    BY <1>9, <2>1, <2>2, MessageFacts
  <2> QED BY <1>1, <1>6, <1>7, <2>1, <2>3, <2>4
<1> QED BY <1>10, <1>11

\* Where the loop is when it has looked at one more byte of text.
LEMMA TextGoes ==
  ASSUME BaseInv, Roomy, NEW F, NEW e, NEW h, NEW q, NEW g, FilterInv(F, e, h, q, g),
         pc = "scan", left # 0, recv_buf[ptr] # DOLLAR
  PROVE  \E h1 \in 0 .. Len(sent) :
           TextAt(e, sent, h1, q + 1) /\ PacketsIn(sent)[h1] = PacketsIn(sent)[h]
<1>1. PICK m \in Messages :
        /\ h < Len(sent) /\ m = sent[h + 1] /\ ~IsPacket(m) /\ q < e[h + 1]
  BY AtUnread
<1>2. /\ Len(sent) \in Nat /\ h \in Nat /\ e[h] \in Nat /\ e[h] <= q /\ q \in Nat
  BY FilterFacts
<1>3. h \in 0 .. Len(sent) /\ h + 1 \in 0 .. Len(sent) /\ e[h + 1] \in Nat
  <2>1. h \in 0 .. Len(sent) /\ h + 1 \in 0 .. Len(sent)
    BY <1>1, <1>2
  <2> QED BY <2>1, FilterFacts
<1>4. CASE q + 1 = e[h + 1]
  <2>1. PacketsIn(sent)[h + 1] = With(PacketsIn(sent)[h], m)
    BY <1>1, <1>2, PacketsAfter
  <2>2. PacketsIn(sent)[h + 1] = PacketsIn(sent)[h]
    BY <1>1, <2>1 DEF With
  <2> QED BY <1>3, <1>4, <2>2 DEF TextAt
<1>5. CASE q + 1 # e[h + 1]
  <2>1. e[h] < q + 1 /\ q + 1 < e[h + 1]
    BY <1>1, <1>2, <1>3, <1>5
  <2> QED BY <1>1, <1>3, <2>1 DEF TextAt
<1> QED BY <1>4, <1>5

LEMMA FilterSkipText ==
  ASSUME BaseInv, Roomy, NEW F, NEW e, NEW h, NEW q, NEW g, FilterInv(F, e, h, q, g),
         SkipText
  PROVE  Filtering'
<1>1. /\ pc = "scan" /\ left > 1 /\ recv_buf[ptr] # DOLLAR /\ ptr' = ptr + 1
      /\ UNCHANGED <<pc, recv_buf, new, last_buf, last_sz, handed, sent>> /\ Unmentioned
  BY DEF SkipText, last, Unmentioned
<1>2. /\ left \in Nat /\ ptr \in Nat /\ new \in Nat /\ new <= ptr /\ Len(recv_buf) \in Nat
      /\ left = Len(recv_buf) - ptr + 1 /\ left # 0 /\ q \in Nat
  BY <1>1, RoomFacts DEF BaseInv, FilterInv
<1>3. NoPacketKept
  BY <1>1, <1>2, AtUnread
<1>4. PICK h1 \in 0 .. Len(sent) :
        TextAt(e, sent, h1, q + 1) /\ PacketsIn(sent)[h1] = PacketsIn(sent)[h]
  BY <1>1, <1>2, TextGoes
<1>5. PICK q1 \in Nat : q1 = q + 1
  BY <1>2
<1>6. g = q1 + left' /\ Packets(handed') = PacketsIn(sent)[h1]
  <2>1. left' = Len(recv_buf) - (ptr + 1) + 1
    BY <1>1 DEF left
  <2>2. g = q + left /\ Packets(handed) = PacketsIn(sent)[h]
    BY DEF FilterInv
  <2>3. q + (Len(recv_buf) - ptr + 1) = (q + 1) + (Len(recv_buf) - (ptr + 1) + 1)
    BY <1>2
  <2> QED BY <1>1, <1>2, <1>4, <1>5, <2>1, <2>2, <2>3
<1>7. Reads(F, q1, ptr, Len(recv_buf))'
  <2>1. \A i \in ptr + 1 .. Len(recv_buf) :
          i \in ptr .. Len(recv_buf) /\ q + i - ptr + 1 = q1 + i - (ptr + 1) + 1
    BY <1>2, <1>5
  <2>2. \A i \in ptr .. Len(recv_buf) : recv_buf[i] = F[q + i - ptr + 1]
    BY DEF FilterInv, Reads
  <2>3. \A i \in ptr + 1 .. Len(recv_buf) : recv_buf[i] = F[q1 + i - (ptr + 1) + 1]
    BY <2>1, <2>2
  <2> QED BY <1>1, <2>3 DEF Reads
<1>8. \A i \in new' .. ptr' - 1 : recv_buf'[i] # DOLLAR
  <2>1. \A i \in new .. (ptr + 1) - 1 : i = ptr \/ i \in new .. ptr - 1
    BY <1>2
  <2>2. \A i \in new .. ptr - 1 : recv_buf[i] # DOLLAR
    BY DEF FilterInv
  <2> QED BY <1>1, <2>1, <2>2
<1>9. AtText(e, h1, q1)'
  BY <1>1, <1>3, <1>4, <1>5 DEF AtText, NoPacketKept
<1>10. pc # "idle" /\ pc' # "aborted"
  BY <1>1
<1> QED BY <1>1, <1>5, <1>6, <1>7, <1>8, <1>9, <1>10, FilterOn

LEMMA FilterAllHandled ==
  ASSUME BaseInv, Roomy, NEW F, NEW e, NEW h, NEW q, NEW g, FilterInv(F, e, h, q, g),
         AllHandled
  PROVE  Filtering'
<1>1. /\ pc = "scan" /\ left = 0 /\ Returns /\ Unmentioned
      /\ last_buf' = last_buf /\ last_sz' = last_sz /\ handed' = handed /\ sent' = sent
  BY DEF AllHandled, last, Unmentioned
<1>2. g = q /\ AtText(e, h, q)
  <2>1. g = q + 0 /\ q \in Nat
    BY <1>1 DEF FilterInv
  <2> QED BY <1>1, <2>1 DEF FilterInv, InPacket
<1>3. AtText(e, h, g)'
  BY <1>1, <1>2 DEF AtText, NoPacketKept
<1>4. pc # "idle"
  BY <1>1
<1> QED BY <1>1, <1>3, <1>4, FilterReturns

LEMMA FilterFlushText ==
  ASSUME BaseInv, Roomy, NEW F, NEW e, NEW h, NEW q, NEW g, FilterInv(F, e, h, q, g),
         FlushText
  PROVE  Filtering'
<1>1. PICK buf, k :
        /\ pc = "scan" /\ left > 0 /\ recv_buf[ptr] = DOLLAR /\ ptr # new
        /\ buf = Copied(last_sz, new, ptr - 1) /\ k = last_sz + ptr - new
        /\ last_buf' = [buf EXCEPT ![k] = 0] /\ HandOver(Front0(last_buf', k), "scan")
        /\ last_sz' = 0 /\ new' = ptr /\ recv_buf' = recv_buf /\ ptr' = ptr /\ Unmentioned
        /\ sent' = sent
  BY DEF FlushText, AtDollar, Unmentioned
<1>2. /\ left \in Nat /\ left # 0 /\ ptr \in Nat /\ new \in Nat /\ new <= ptr
      /\ Len(recv_buf) \in Nat /\ left = Len(recv_buf) - ptr + 1 /\ last_sz \in Nat
      /\ TypeOK
  BY <1>1, RoomFacts DEF BaseInv
<1>3. NoPacketKept
  BY <1>1, <1>2, AtUnread
<1>4. /\ ptr - 1 \in Nat /\ new <= ptr - 1 /\ ptr - 1 <= Len(recv_buf)
      /\ k = last_sz + ((ptr - 1) + 1 - new) /\ new \in new .. ptr - 1
  BY <1>1, <1>2
<1>5. recv_buf[new] # DOLLAR
  BY <1>4 DEF FilterInv
<1>6. Front0(last_buf', k) \in Units /\ ~IsPacket(Front0(last_buf', k))
  BY <1>1, <1>2, <1>3, <1>4, <1>5, TextTaken
<1>7. pc' = "scan" /\ Packets(handed') = Packets(handed)
  <2>1. handed \in Seq(Units)
    BY DEF BaseInv
  <2> QED BY <1>1, <1>6, <2>1, HandUnit
<1>8. left' = left
  BY <1>1 DEF left
<1>9. /\ h \in 0 .. Len(sent) /\ q \in Nat /\ g = q + left'
      /\ Packets(handed') = PacketsIn(sent)[h] /\ pc # "idle" /\ pc' # "aborted"
  BY <1>1, <1>7, <1>8 DEF FilterInv
<1>10. Reads(F, q, ptr, Len(recv_buf))'
  BY <1>1 DEF FilterInv, Reads
<1>11. \A i \in new' .. ptr' - 1 : recv_buf'[i] # DOLLAR
  <2>1. \A i \in ptr .. ptr - 1 : FALSE
    BY <1>2
  <2> QED BY <1>1, <2>1
<1>12. AtText(e, h, q)'
  <2>1. TextAt(e, sent, h, q)
    BY <1>1 DEF FilterInv, InPacket, AtText
  <2> QED BY <1>1, <2>1 DEF AtText, NoPacketKept
<1> QED BY <1>1, <1>9, <1>10, <1>11, <1>12, FilterOn

LEMMA FilterEndOfText ==
  ASSUME BaseInv, Roomy, NEW F, NEW e, NEW h, NEW q, NEW g, FilterInv(F, e, h, q, g),
         EndOfText
  PROVE  Filtering'
<1>1. PICK n, k, buf :
        /\ pc = "scan" /\ left = 1 /\ recv_buf[ptr] # DOLLAR
        /\ n = ptr + 1 - new /\ k = last_sz + n /\ buf = Copied(last_sz, new, ptr)
        /\ \/ /\ last_buf' = [buf EXCEPT ![k] = 0] /\ last_sz' = 0
              /\ HandOver(Front0(last_buf', k), "scan")
           \/ last_buf' = buf /\ last_sz' = k + n /\ pc' = pc /\ handed' = handed
        /\ ptr' = ptr + 1 /\ recv_buf' = recv_buf /\ new' = new /\ Unmentioned /\ sent' = sent
  BY DEF EndOfText, Unmentioned
<1>2. /\ left # 0 /\ ptr \in Nat /\ new \in Nat /\ new <= ptr /\ 1 <= new
      /\ Len(recv_buf) \in Nat /\ left = Len(recv_buf) - ptr + 1 /\ last_sz \in Nat
      /\ TypeOK /\ q \in Nat
  BY <1>1, RoomFacts DEF BaseInv, FilterInv
<1>3. NoPacketKept
  BY <1>1, <1>2, AtUnread
<1>4. PICK h1 \in 0 .. Len(sent) :
        TextAt(e, sent, h1, q + 1) /\ PacketsIn(sent)[h1] = PacketsIn(sent)[h]
  BY <1>1, <1>2, TextGoes
<1>5. PICK q1 \in Nat : q1 = q + 1
  BY <1>2
<1>6. \A i \in new .. ptr : recv_buf[i] # DOLLAR
  <2>1. \A i \in new .. ptr : i = ptr \/ i \in new .. ptr - 1
    BY <1>2
  <2>2. \A i \in new .. ptr - 1 : recv_buf[i] # DOLLAR
    BY DEF FilterInv
  <2> QED BY <1>1, <2>1, <2>2
<1>7. /\ buf[0] # DOLLAR /\ Front0([buf EXCEPT ![k] = 0], k) \in Units
      /\ ~IsPacket(Front0([buf EXCEPT ![k] = 0], k))
  <2>1. /\ ptr <= Len(recv_buf) /\ k = last_sz + (ptr + 1 - new) /\ new \in new .. ptr
    BY <1>1, <1>2
  <2>2. recv_buf[new] # DOLLAR
    BY <1>6, <2>1
  <2> QED BY <1>1, <1>2, <1>3, <2>1, <2>2, TextTaken
<1>8. /\ pc' = "scan" /\ Packets(handed') = Packets(handed)
      /\ NoPacketKept'
  <2>1. CASE /\ last_buf' = [buf EXCEPT ![k] = 0] /\ last_sz' = 0
             /\ HandOver(Front0(last_buf', k), "scan")
    <3>1. handed \in Seq(Units)
      BY DEF BaseInv
    <3>2. pc' = "scan" /\ Packets(handed') = Packets(handed)
      BY <1>7, <2>1, <3>1, HandUnit
    <3> QED BY <2>1, <3>2 DEF NoPacketKept
  <2>2. CASE last_buf' = buf /\ last_sz' = k + n /\ pc' = pc /\ handed' = handed
    BY <1>1, <1>7, <2>2 DEF NoPacketKept
  <2> QED BY <1>1, <2>1, <2>2
<1>9. g = q1 + left' /\ Packets(handed') = PacketsIn(sent)[h1]
  <2>1. left' = Len(recv_buf) - (ptr + 1) + 1
    BY <1>1 DEF left
  <2>2. g = q + left /\ Packets(handed) = PacketsIn(sent)[h]
    BY DEF FilterInv
  <2>3. q + (Len(recv_buf) - ptr + 1) = (q + 1) + (Len(recv_buf) - (ptr + 1) + 1)
    BY <1>2
  <2> QED BY <1>2, <1>4, <1>5, <1>8, <2>1, <2>2, <2>3
<1>10. Reads(F, q1, ptr, Len(recv_buf))'
  <2>1. \A i \in ptr + 1 .. Len(recv_buf) : FALSE
    BY <1>1, <1>2
  <2> QED BY <1>1, <2>1 DEF Reads
<1>11. \A i \in new' .. ptr' - 1 : recv_buf'[i] # DOLLAR
  <2>1. (ptr + 1) - 1 = ptr
    BY <1>2
  <2> QED BY <1>1, <1>6, <2>1
<1>12. AtText(e, h1, q1)'
  BY <1>1, <1>4, <1>5, <1>8 DEF AtText
<1>13. pc # "idle" /\ pc' # "aborted"
  BY <1>1, <1>8
<1> QED BY <1>1, <1>5, <1>9, <1>10, <1>11, <1>12, <1>13, FilterOn

\* The packet at a '$' where a message begins.
LEMMA PacketUnread ==
  ASSUME BaseInv, Roomy, NEW F, NEW e, NEW h, NEW q, NEW g, FilterInv(F, e, h, q, g),
         AtDollar
  PROVE  /\ NoPacketKept
         /\ \E m \in Messages :
              /\ h < Len(sent) /\ m = sent[h + 1] /\ IsPacket(m)
              /\ e[h + 1] = e[h] + Len(m) /\ Lies(F, e[h], m) /\ q = e[h]
              /\ left \in Nat /\ ptr \in Nat /\ ptr + left = Len(recv_buf) + 1
              /\ \A i \in 0 .. left - 1 : recv_buf[ptr + i] = F[q + i + 1]
              /\ PacketThere <=> Len(m) <= left
              /\ PacketThere => PacketSize = Len(m)
              /\ ~PacketThere => HEADER <= left
<1>1. pc = "scan" /\ left # 0 /\ left > 0 /\ recv_buf[ptr] = DOLLAR
  BY RoomFacts DEF AtDollar, BaseInv
<1>2. PICK m \in Messages :
        /\ NoPacketKept /\ h < Len(sent) /\ m = sent[h + 1] /\ IsPacket(m)
        /\ e[h + 1] = e[h] + Len(m) /\ Lies(F, e[h], m) /\ q = e[h]
        /\ Len(m) <= left \/ HEADER <= left
  BY <1>1, AtUnread
<1>3. PICK L, k, P :
        /\ L = Len(recv_buf) /\ k = left /\ P = Len(m)
        /\ L \in Nat /\ k \in Nat /\ P \in Nat /\ ptr \in Nat /\ q \in Nat
        /\ ptr + k = L + 1 /\ k > 0 /\ P > 4 /\ Payload(m) = P - 4 /\ (P <= k \/ 4 <= k)
  <2>1. /\ Len(recv_buf) \in Nat /\ ptr \in Nat /\ left \in Nat
        /\ left = Len(recv_buf) - ptr + 1
    BY RoomFacts DEF BaseInv
  <2>2. Len(m) \in Nat /\ Len(m) > 4 /\ Payload(m) = Len(m) - 4
    BY <1>2, MessageFacts DEF HEADER
  <2>3. ptr + left = Len(recv_buf) + 1
    BY <2>1
  <2>4. q \in Nat
    BY DEF FilterInv
  <2> QED BY <1>1, <1>2, <2>1, <2>2, <2>3, <2>4 DEF HEADER
<1>4. \A i \in 0 .. k - 1 : recv_buf[ptr + i] = F[q + i + 1]
  <2>1. \A i \in 0 .. k - 1 : ptr + i \in ptr .. L /\ q + (ptr + i) - ptr + 1 = q + i + 1
    BY <1>3
  <2>2. \A j \in ptr .. L : recv_buf[j] = F[q + j - ptr + 1]
    BY <1>3 DEF FilterInv, Reads
  <2> QED BY <2>1, <2>2
<1>5. ASSUME k >= 4 PROVE PacketSize = P
  <2>1. /\ 2 \in 0 .. k - 1 /\ 3 \in 0 .. k - 1
        /\ q + 2 + 1 = q + 3 /\ q + 3 + 1 = q + 4 /\ 3 \in 1 .. P /\ 4 \in 1 .. P
    BY <1>3, <1>5
  <2>2. recv_buf[ptr + 2] = m[3] /\ recv_buf[ptr + 3] = m[4]
    <3>1. recv_buf[ptr + 2] = F[q + 3] /\ recv_buf[ptr + 3] = F[q + 4]
      BY <1>4, <2>1
    <3>2. Lies(F, q, m) /\ 3 \in 1 .. Len(m) /\ 4 \in 1 .. Len(m)
      BY <1>2, <1>3, <2>1
    <3>3. F[q + 3] = m[3] /\ F[q + 4] = m[4]
      BY <3>2 DEF Lies
    <3> QED BY <3>1, <3>3
  <2>3. m[3] \in Nat /\ m[4] \in Nat
    <3>1. 3 \in 1 .. Len(m) /\ 4 \in 1 .. Len(m)
      BY <1>3, <2>1
    <3>2. m[3] \in Bytes /\ m[4] \in Bytes
      BY <3>1, MessageFacts
    <3> QED BY <3>2 DEF Bytes
  <2>4. PacketSize = 4 + m[3] * 256 + m[4] /\ Payload(m) = m[3] * 256 + m[4]
    BY <2>2 DEF PacketSize, Payload, HEADER
  <2> QED BY <1>3, <2>3, <2>4, SMTT(30)
<1>6. PacketThere <=> P <= k
  BY <1>3, <1>5 DEF PacketThere, HEADER
<1>7. PacketThere => PacketSize = P
  BY <1>3, <1>5 DEF PacketThere, HEADER
<1>8. ~PacketThere => HEADER <= k
  BY <1>3, <1>6 DEF HEADER
<1> QED BY <1>2, <1>3, <1>4, <1>6, <1>7, <1>8

LEMMA FilterHandPacket ==
  ASSUME BaseInv, Roomy, NEW F, NEW e, NEW h, NEW q, NEW g, FilterInv(F, e, h, q, g),
         HandPacket
  PROVE  Filtering'
<1>1. /\ AtDollar /\ pc = "scan" /\ ptr = new /\ PacketThere
      /\ HandOver(SubSeq(recv_buf, ptr, ptr + PacketSize - 1), "scan")
      /\ ptr' = ptr + PacketSize /\ new' = ptr + PacketSize
      /\ UNCHANGED <<recv_buf, last_buf, last_sz, sent>> /\ Unmentioned
  BY DEF HandPacket, NextMessage, AtDollar, last, Unmentioned
<1>2. PICK m \in Messages :
        /\ NoPacketKept /\ h < Len(sent) /\ m = sent[h + 1]
        /\ e[h + 1] = e[h] + Len(m) /\ Lies(F, e[h], m) /\ q = e[h]
        /\ left \in Nat /\ ptr \in Nat /\ ptr + left = Len(recv_buf) + 1
        /\ \A i \in 0 .. left - 1 : recv_buf[ptr + i] = F[q + i + 1]
        /\ Len(m) <= left /\ PacketSize = Len(m)
  BY <1>1, PacketUnread
<1>3. PICK L, k, P :
        /\ L = Len(recv_buf) /\ k = left /\ P = Len(m) /\ P = PacketSize
        /\ L \in Nat /\ k \in Nat /\ P \in Nat /\ ptr \in Nat /\ q \in Nat
        /\ ptr + k = L + 1 /\ P <= k /\ 0 < P /\ 1 <= ptr /\ g = q + k
  <2>1. Len(recv_buf) \in Nat /\ ptr \in Nat /\ 1 <= ptr
    BY <1>1, RoomFacts DEF BaseInv
  <2>2. Len(m) \in Nat /\ 0 < Len(m)
    BY MessageFacts
  <2>3. q \in Nat /\ g = q + left
    BY DEF FilterInv
  <2> QED BY <1>2, <2>1, <2>2, <2>3
<1>4. \A i \in 0 .. k - 1 : recv_buf[ptr + i] = F[q + i + 1]
  BY <1>2, <1>3
<1>0. /\ L \in Nat /\ k \in Nat /\ P \in Nat /\ ptr \in Nat /\ q \in Nat
      /\ ptr + k = L + 1 /\ P <= k /\ 0 < P /\ 1 <= ptr /\ g = q + k
  BY <1>3
<1>5. SubSeq(recv_buf, ptr, ptr + P - 1) = m
  <2>1. ptr \in Int /\ ptr + P - 1 \in Int /\ \A i \in ptr .. ptr + P - 1 : i \in 1 .. L
    BY <1>0
  <2>2. \A i \in ptr .. ptr + P - 1 : recv_buf[i] \in Bytes
    BY <1>3, <2>1, ElementOfSeq DEF TypeOK, BaseInv
  <2>3. PICK u : u = SubSeq(recv_buf, ptr, ptr + P - 1)
    OBVIOUS
  <2>4. /\ u \in Seq(Bytes)
        /\ Len(u) = IF ptr <= ptr + P - 1 THEN (ptr + P - 1) - ptr + 1 ELSE 0
        /\ \A i \in 1 .. (ptr + P - 1) - ptr + 1 : u[i] = recv_buf[ptr + i - 1]
    BY <2>1, <2>2, <2>3, SubSeqProperties
  <2>5. Len(u) = P
    BY <1>0, <2>4
  <2>6. \A i \in 1 .. P : u[i] = m[i]
    <3>1. \A i \in 1 .. P : /\ i \in 1 .. (ptr + P - 1) - ptr + 1 /\ i - 1 \in 0 .. k - 1
                            /\ ptr + i - 1 = ptr + (i - 1) /\ q + (i - 1) + 1 = q + i
      BY <1>0
    <3>2. \A i \in 1 .. P : F[q + i] = m[i]
      BY <1>2, <1>3 DEF Lies
    <3> QED BY <1>4, <2>4, <3>1, <3>2
  <2>7. m \in Seq(Bytes) /\ Len(m) = P
    BY <1>3, MessageFacts
  <2>8. u = m
    BY <2>4, <2>5, <2>6, <2>7, SeqEqual
  <2> QED BY <2>3, <2>8
<1>6. pc' = "scan" /\ handed' = Append(handed, m)
  BY <1>1, <1>3, <1>5, HandWhole
<1>7. Packets(handed') = PacketsIn(sent)[h + 1]
  <2>1. h \in Nat /\ handed \in Seq(Units) /\ m \in Units
    BY FilterFacts, MessageFacts DEF BaseInv, Units
  <2>2. PacketsIn(sent)[h + 1] = With(PacketsIn(sent)[h], m)
    BY <1>2, <2>1, PacketsAfter
  <2>3. Packets(Append(handed, m)) = With(Packets(handed), m)
    BY <2>1, PacketsAppend
  <2>4. Packets(handed) = PacketsIn(sent)[h]
    BY DEF FilterInv
  <2> QED BY <1>6, <2>2, <2>3, <2>4
<1>8. PICK q1 : q1 = q + P /\ q1 \in Nat /\ q1 = e[h + 1]
  <2>1. e[h + 1] = q + P
    BY <1>2, <1>3
  <2> QED BY <1>0, <2>1
<1>9. h + 1 \in 0 .. Len(sent)
  <2>1. h \in Nat /\ Len(sent) \in Nat
    BY FilterFacts
  <2> QED BY <1>2, <2>1
<1>10. g = q1 + left'
  <2>1. left' = L - (ptr + P) + 1
    BY <1>1, <1>3 DEF left
  <2> QED BY <1>0, <1>8, <2>1
<1>11. Reads(F, q1, ptr, Len(recv_buf))'
  <2>1. \A i \in ptr + P .. L : i - ptr \in 0 .. k - 1 /\ ptr + (i - ptr) = i
                                /\ q + (i - ptr) + 1 = q1 + i - (ptr + P) + 1
    BY <1>0, <1>8
  <2>2. \A i \in ptr + P .. L : recv_buf[i] = F[q1 + i - (ptr + P) + 1]
    BY <1>4, <2>1
  <2> QED BY <1>1, <1>3, <2>2 DEF Reads
<1>12. \A i \in new' .. ptr' - 1 : recv_buf'[i] # DOLLAR
  <2>1. \A i \in ptr + P .. (ptr + P) - 1 : FALSE
    BY <1>0
  <2> QED BY <1>1, <1>3, <2>1
<1>13. AtText(e, h + 1, q1)'
  BY <1>1, <1>2, <1>8 DEF AtText, NoPacketKept, TextAt
<1> QED BY <1>1, <1>6, <1>7, <1>8, <1>9, <1>10, <1>11, <1>12, <1>13, FilterOn

LEMMA FilterKeepPacket ==
  ASSUME BaseInv, Roomy, NEW F, NEW e, NEW h, NEW q, NEW g, FilterInv(F, e, h, q, g),
         KeepPacket
  PROVE  Filtering'
<1>1. /\ AtDollar /\ pc = "scan" /\ ~PacketThere
      /\ last_buf' = Copied(0, ptr, Len(recv_buf)) /\ last_sz' = left
      /\ Returns /\ pc' = "idle" /\ handed' = handed /\ sent' = sent /\ Unmentioned
  BY DEF KeepPacket, Returns, AtDollar, Unmentioned
<1>2. PICK m \in Messages :
        /\ h < Len(sent) /\ m = sent[h + 1] /\ IsPacket(m) /\ q = e[h]
        /\ left \in Nat /\ ptr \in Nat /\ ptr + left = Len(recv_buf) + 1
        /\ ~(Len(m) <= left) /\ HEADER <= left
  BY <1>1, PacketUnread
<1>3. PICK L, k, P :
        /\ L = Len(recv_buf) /\ k = left /\ P = Len(m)
        /\ L \in Nat /\ k \in Nat /\ P \in Nat /\ ptr \in Nat /\ q \in Nat
        /\ ptr + k = L + 1 /\ k < P /\ 1 <= ptr /\ g = q + k /\ P < RECV_BUF_SZ
        /\ 4 <= k /\ RECV_BUF_SZ \in Nat
  <2>1. Len(recv_buf) \in Nat /\ ptr \in Nat /\ 1 <= ptr /\ RECV_BUF_SZ \in Nat
    BY <1>1, RoomFacts DEF BaseInv
  <2>2. Len(m) \in Nat /\ Len(m) < RECV_BUF_SZ
    BY MessageFacts
  <2>3. left < Len(m) /\ 4 <= left
    BY <1>2, <2>2 DEF HEADER
  <2>4. q \in Nat /\ g = q + left
    BY DEF FilterInv
  <2> QED BY <1>2, <2>1, <2>2, <2>3, <2>4
<1>4. Begins(F, q, last_buf', k)
  <2>1. /\ 0 <= RECV_BUF_SZ /\ 0 + L - ptr + 1 <= RECV_BUF_SZ /\ 0 \in Nat
        /\ ptr \in Nat /\ L \in Int /\ 1 <= ptr /\ L <= Len(recv_buf) /\ q \in Nat
    BY <1>3
  <2>2. TypeOK
    BY DEF BaseInv
  <2>3. Begins(F, q, last_buf, 0)
    <3>1. \A i \in 0 .. 0 - 1 : FALSE
      OBVIOUS
    <3> QED BY <3>1 DEF Begins
  <2>4. Reads(F, q + 0, ptr, L)
    <3>1. q + 0 = q
      BY <1>3
    <3> QED BY <1>3, <3>1 DEF FilterInv
  <2>5. Begins(F, q, Copied(0, ptr, L), 0 + L - ptr + 1)
    BY <2>1, <2>2, <2>3, <2>4, Joined
  <2>6. 0 + L - ptr + 1 = k
    BY <1>3
  <2> QED BY <1>1, <1>3, <2>5, <2>6
<1>5. InPacket(F, e, h, g)'
  <2>1. last_sz' = k /\ k \in HEADER .. P - 1
    BY <1>1, <1>3 DEF HEADER
  <2>2. g = e[h] + k /\ Begins(F, e[h], last_buf', k)
    BY <1>2, <1>3, <1>4
  <2> QED BY <1>1, <1>2, <1>3, <2>1, <2>2 DEF InPacket
<1> QED BY <1>1, <1>5, FilterReturns

LEMMA FilterRecv ==
  ASSUME BaseInv, Roomy, Roomy', NEW F, NEW e, NEW h, NEW q, NEW g,
         FilterInv(F, e, h, q, g), Recv
  PROVE  Filtering'
<1>1. /\ pc = "idle" /\ pc' = "last" /\ ptr' = 1 /\ new' = 1
      /\ UNCHANGED <<last_buf, last_sz, flight, sent, handed>>
  BY DEF Recv, last
<1>2. TypeOK /\ recv_buf = <<>> /\ ptr = 1 /\ last_sz \in Nat /\ RECV_BUF_SZ \in Nat
  BY <1>1, RoomFacts DEF BaseInv
<1>3. PICK N \in Nat : N = Len(sockbuf) /\ sockbuf \in Seq(Bytes)
  BY <1>2, LenProperties DEF TypeOK
<1>4. N <= RECV_BUF_SZ
  <2> SUFFICES ASSUME ~(N <= RECV_BUF_SZ) PROVE FALSE
    OBVIOUS
  <2>1. PICK R : R \in Nat /\ R = RECV_BUF_SZ /\ ~(N <= R)
    BY <1>2
  <2>2. recv_buf' = SubSeq(sockbuf, 1, R)
    <3>1. (IF Len(sockbuf) < RECV_BUF_SZ THEN Len(sockbuf) ELSE RECV_BUF_SZ) = R
      BY <1>3, <2>1
    <3> QED BY <3>1 DEF Recv
  <2>3. \A i \in 1 .. R : sockbuf[i] \in Bytes
    <3>1. \A i \in 1 .. R : i \in 1 .. N
      BY <2>1
    <3> QED BY <1>3, <3>1, ElementOfSeq
  <2>4. Len(SubSeq(sockbuf, 1, R)) = IF 1 <= R THEN R - 1 + 1 ELSE 0
    BY <2>1, <2>3, SubSeqProperties
  <2>5. Len(recv_buf') = R
    BY <2>1, <2>2, <2>4
  <2>6. last_sz + R < R
    BY <1>1, <2>1, <2>5 DEF Roomy
  <2> QED BY <1>2, <2>1, <2>6
<1>5. /\ e \in [0 .. Len(sent) -> Nat] /\ Laid(F, e, sent) /\ h \in 0 .. Len(sent)
      /\ q \in Nat /\ g \in Nat /\ g = q + left /\ WireInv(F, e, g)
      /\ Packets(handed) = PacketsIn(sent)[h] /\ (AtText(e, h, q) \/ InPacket(F, e, h, q))
  BY DEF FilterInv
<1>6. g = q
  <2>1. left = 0
    BY <1>2, EmptySeq DEF left
  <2> QED BY <1>5, <2>1
<1>7. /\ WireInv(F, e, g + N)' /\ sockbuf' = <<>> /\ Len(recv_buf') = N
      /\ \A i \in 1 .. N : recv_buf'[i] = F[g + i]
  BY <1>2, <1>3, <1>4, <1>5, WireReceived
<1>8. PICK G : G = g + N /\ G \in Nat
  BY <1>5
<1>9. G = q + left'
  <2>1. left' = N - 1 + 1
    BY <1>1, <1>7 DEF left
  <2> QED BY <1>3, <1>5, <1>6, <1>8, <2>1
<1>10. Reads(F, q, ptr, Len(recv_buf))'
  <2>1. \A i \in 1 .. N : q + i - 1 + 1 = g + i
    BY <1>5, <1>6
  <2> QED BY <1>1, <1>7, <2>1 DEF Reads
<1>11. \A i \in new' .. ptr' - 1 : recv_buf'[i] # DOLLAR
  BY <1>1
<1>12. AtText(e, h, q)' \/ InPacket(F, e, h, q)'
  <2>1. AtText(e, h, q) => AtText(e, h, q)'
    BY <1>1 DEF AtText, NoPacketKept
  <2>2. InPacket(F, e, h, q) => InPacket(F, e, h, q)'
    BY <1>1 DEF InPacket
  <2> QED BY <1>5, <2>1, <2>2
<1>13. FilterInv(F, e, h, q, G)'
  BY <1>1, <1>5, <1>7, <1>8, <1>9, <1>10, <1>11, <1>12 DEF FilterInv
<1> QED BY <1>13 DEF Filtering

LEMMA FilterArrive ==
  ASSUME BaseInv, NEW F, NEW e, NEW h, NEW q, NEW g, FilterInv(F, e, h, q, g), Arrive
  PROVE  Filtering'
<1>1. /\ pc = "idle"
      /\ UNCHANGED <<pc, recv_buf, ptr, new, last_buf, last_sz, sent, handed>>
  BY DEF Arrive, recv, last
<1>2. TypeOK /\ g \in Nat /\ WireInv(F, e, g)
  BY DEF BaseInv, FilterInv
<1>3. WireInv(F, e, g)'
  BY <1>2, WireArrives
<1>4. left' = left
  BY <1>1 DEF left
<1>5. (AtText(e, h, q) \/ InPacket(F, e, h, q))'
  <2>1. AtText(e, h, q) => AtText(e, h, q)'
    BY <1>1 DEF AtText, NoPacketKept
  <2>2. InPacket(F, e, h, q) => InPacket(F, e, h, q)'
    BY <1>1 DEF InPacket
  <2>3. AtText(e, h, q) \/ InPacket(F, e, h, q)
    BY DEF FilterInv
  <2> QED BY <2>1, <2>2, <2>3
<1>6. Reads(F, q, ptr, Len(recv_buf))'
  BY <1>1 DEF FilterInv, Reads
<1>7. FilterInv(F, e, h, q, g)'
  BY <1>1, <1>3, <1>4, <1>5, <1>6 DEF FilterInv
<1> QED BY <1>7 DEF Filtering

\* One message more lies behind all that the loop knows of.
LEMMA FilterServerSends ==
  ASSUME Cuts \subseteq {"payload", "response"}, BaseInv, Roomy,
         NEW F, NEW e, NEW h, NEW q, NEW g, FilterInv(F, e, h, q, g), ServerSends
  PROVE  Filtering'
<1>1. PICK m \in Messages :
        /\ pc = "idle" /\ sent' = Append(sent, m) /\ flight' = flight \o Bits(m)
        /\ UNCHANGED <<pc, recv_buf, ptr, new, last_buf, last_sz, sockbuf, handed>>
  BY DEF ServerSends, Bits, recv, last
<1>2. /\ TypeOK /\ sent \in Seq(Messages) /\ Len(sent) \in Nat /\ h \in Nat /\ h <= Len(sent)
      /\ q \in Nat /\ g \in Nat /\ e[h] \in Nat /\ e[h] <= q
  BY FilterFacts
<1>3. /\ e \in [0 .. Len(sent) -> Nat] /\ Laid(F, e, sent) /\ h \in 0 .. Len(sent)
      /\ g = q + left /\ WireInv(F, e, g) /\ sockbuf \in Seq(Bytes)
      /\ Packets(handed) = PacketsIn(sent)[h] /\ (AtText(e, h, q) \/ InPacket(F, e, h, q))
  BY <1>2 DEF FilterInv, TypeOK
<1>4. PICK G, d : Further(F, e, G, d, sent, m)
  BY <1>2, <1>3, LaidFurther
<1>5. PICK n, T : n = Len(sent) /\ n \in Nat /\ T = e[n] /\ T \in Nat /\ h \in 0 .. n
  <2>1. Len(sent) \in 0 .. Len(sent)
    BY <1>2
  <2> QED BY <1>2, <1>3, <2>1
<1>6. /\ Len(sent') = n + 1 /\ sent' \in Seq(Messages)
      /\ \A k \in 1 .. n : sent'[k] = sent[k]
  <2>1. /\ sent' \in Seq(Messages) /\ Len(sent') = n + 1
        /\ \A k \in 1 .. n + 1 : sent'[k] = IF k = n + 1 THEN m ELSE sent[k]
    BY <1>1, <1>2, <1>5, AppendProperties
  <2>2. \A k \in 1 .. n : k \in 1 .. n + 1 /\ k # n + 1
    BY <1>5
  <2> QED BY <2>1, <2>2
<1>7. /\ d \in [0 .. n + 1 -> Nat] /\ Laid(G, d, sent')
      /\ \A k \in 0 .. n : d[k] = e[k]
      /\ \A p \in Nat : p <= T => G[p] = F[p]
  BY <1>1, <1>4, <1>5, <1>6 DEF Further
<1>8. WireInv(G, d, g)'
  BY <1>1, <1>2, <1>3, <1>4, WireSends
<1>9. recv_buf = <<>> /\ ptr = 1 /\ new = 1
  BY <1>1 DEF BaseInv
<1>10. left' = left /\ Reads(G, q, ptr, Len(recv_buf))'
       /\ \A i \in new' .. ptr' - 1 : recv_buf'[i] # DOLLAR
  <2>1. Len(recv_buf') = 0 /\ ptr' = 1 /\ new' = 1
    BY <1>1, <1>9, EmptySeq
  <2>2. \A i \in 1 .. 0 : FALSE
    OBVIOUS
  <2>3. Reads(G, q, ptr, Len(recv_buf))'
    BY <2>1, <2>2 DEF Reads
  <2> QED BY <1>1, <2>1, <2>3 DEF left
<1>11. Packets(handed') = PacketsIn(sent')[h]
  <2>1. sent \in Seq(Units) /\ m \in Units
    BY <1>2, SeqsOfUnits, MessageFacts DEF Units
  <2>2. PacketsIn(Append(sent, m))[h] = PacketsIn(sent)[h]
    BY <1>3, <2>1, PacketsAppend
  <2> QED BY <1>1, <1>3, <2>2
<1>12. h < n => h + 1 \in 1 .. n /\ h + 1 \in 0 .. n /\ h < n + 1
  BY <1>2, <1>5
<1>13. AtText(e, h, q) => AtText(d, h, q)'
  <2>1. AtText(e, h, q) => NoPacketKept' /\ TextAt(e, sent, h, q)
    BY <1>1 DEF AtText, NoPacketKept
  <2>2. TextAt(e, sent, h, q) => TextAt(d, sent', h, q)
    BY <1>5, <1>6, <1>7, <1>12 DEF TextAt
  <2> QED BY <2>1, <2>2 DEF AtText
<1>14. ASSUME InPacket(F, e, h, q) PROVE InPacket(G, d, h, q)'
  <2>1. /\ h < n /\ IsPacket(sent[h + 1])
        /\ last_sz \in HEADER .. Len(sent[h + 1]) - 1 /\ q = e[h] + last_sz
        /\ Begins(F, e[h], last_buf, last_sz)
    BY <1>5, <1>14 DEF InPacket
  <2>2. sent'[h + 1] = sent[h + 1] /\ d[h] = e[h] /\ d[h + 1] = e[h + 1] /\ h < n + 1
    BY <1>5, <1>6, <1>7, <1>12, <2>1
  <2>3. q <= T
    <3>1. PICK w \in Messages : w = sent[h + 1] /\ e[h + 1] = e[h] + Len(w)
      BY <1>5, <2>1, FilterFacts
    <3>2. PICK P, z, b : /\ P = Len(w) /\ z = last_sz /\ b = e[h]
                         /\ P \in Nat /\ z \in Nat /\ b \in Nat
      BY <1>2, MessageFacts, RoomFacts
    <3>3. z < P
      BY <2>1, <3>1, <3>2 DEF HEADER
    <3>4. h + 1 = n \/ h + 1 < n
      BY <1>2, <1>5, <2>1
    <3>5. n \in 0 .. n /\ (h + 1 < n => e[h + 1] < e[n])
      BY <1>3, <1>5, <1>12, <2>1 DEF Laid
    <3>6. b + P <= T
      <4>1. e[h + 1] = b + P
        BY <3>1, <3>2
      <4>2. e[h + 1] = T \/ e[h + 1] < T
        BY <1>5, <3>4, <3>5
      <4>3. b + P = T \/ b + P < T
        BY <4>1, <4>2
      <4>4. b \in Nat /\ P \in Nat /\ T \in Nat
        BY <1>5, <3>2
      <4> QED BY <4>3, <4>4
    <3>7. q = b + z
      BY <2>1, <3>2
    <3>8. b \in Nat /\ P \in Nat /\ T \in Nat /\ z \in Nat
      BY <1>5, <3>2
    <3> QED BY <3>3, <3>6, <3>7, <3>8
  <2>4. Begins(G, d[h], last_buf, last_sz)
    <3>1. PICK z, b : z = last_sz /\ b = e[h] /\ z \in Nat /\ b \in Nat /\ b + z <= T
      BY <1>2, <2>1, <2>3, RoomFacts
    <3>0. T \in Nat /\ z \in Nat /\ b \in Nat /\ b + z <= T
      BY <1>5, <3>1
    <3>2. \A i \in 0 .. z - 1 : b + i + 1 \in Nat /\ b + i + 1 <= T
      BY <3>0
    <3>3. \A i \in 0 .. z - 1 : last_buf[i] = F[b + i + 1]
      BY <2>1, <3>1 DEF Begins
    <3> QED BY <1>7, <2>2, <3>1, <3>2, <3>3 DEF Begins
  <2> QED BY <1>1, <1>6, <2>1, <2>2, <2>4 DEF InPacket
<1>15. h \in 0 .. n + 1
  BY <1>5
<1>16. FilterInv(G, d, h, q, g)'
  BY <1>1, <1>2, <1>3, <1>6, <1>7, <1>8, <1>10, <1>11, <1>13, <1>14, <1>15 DEF FilterInv
<1> QED BY <1>16 DEF Filtering

\* A connection that has just been made, with no part of a packet kept.
FreshlyMade ==
  /\ pc = "idle" /\ recv_buf = <<>> /\ ptr = 1 /\ new = 1 /\ NoPacketKept
  /\ flight = <<>> /\ sockbuf = <<>> /\ sent = <<>> /\ handed = <<>>

LEMMA FilterFresh == FreshlyMade => Filtering
<1> SUFFICES ASSUME FreshlyMade PROVE Filtering
  OBVIOUS
<1> USE DEF FreshlyMade
<1>1. PICK F, e : F = [p \in Nat |-> 0] /\ e = [k \in 0 .. 0 |-> 0]
  OBVIOUS
<1>2. /\ Len(sent) = 0 /\ Len(recv_buf) = 0 /\ Len(sockbuf) = 0 /\ Len(flight) = 0
      /\ flight \in Seq([byte : Bytes, ends : Places \cup {"message"}])
  BY EmptySeq
<1>3. e \in [0 .. Len(sent) -> Nat] /\ e[0] = 0 /\ 0 \in 0 .. Len(sent)
  <2>1. \A k \in 0 .. 0 : 0 \in Nat
    OBVIOUS
  <2>2. 0 \in 0 .. 0
    OBVIOUS
  <2> QED BY <1>1, <1>2, <2>1, <2>2
<1>4. Laid(F, e, sent)
  BY <1>2, <1>3 DEF Laid
<1>5. WireInv(F, e, 0)
  <2>1. 0 + Len(sockbuf) = 0 /\ 0 + Len(sockbuf) + Len(flight) = 0
    BY <1>2
  <2>2. Resting(e, sent, 0 + Len(sockbuf))
    BY <1>2, <1>3, <2>1 DEF Resting
  <2> QED BY <1>2, <1>3, <2>1, <2>2 DEF WireInv
<1>6. left = 0 /\ 0 \in Nat /\ 0 = 0 + left
  BY <1>2 DEF left
<1>7. Packets(handed) = PacketsIn(sent)[0]
  BY <1>2 DEF Packets
<1>8. Reads(F, 0, ptr, Len(recv_buf)) /\ \A i \in new .. ptr - 1 : recv_buf[i] # DOLLAR
  <2>1. \A i \in 1 .. 0 : FALSE
    OBVIOUS
  <2> QED BY <1>2, <2>1 DEF Reads
<1>9. AtText(e, 0, 0)
  BY <1>3 DEF AtText, TextAt
<1>10. FilterInv(F, e, 0, 0, 0)
  BY <1>3, <1>4, <1>5, <1>6, <1>7, <1>8, <1>9 DEF FilterInv
<1> QED BY <1>10 DEF Filtering

\* Part of a packet that is kept makes the next connection stale.
LEMMA FilterReset ==
  ASSUME BaseInv, Roomy, Reset, ~stale'
  PROVE  Filtering'
<1>1. /\ pc = "idle" /\ stale' = (last_sz > 0 /\ last_buf[0] = DOLLAR)
      /\ flight' = <<>> /\ sockbuf' = <<>> /\ sent' = <<>> /\ handed' = <<>>
      /\ UNCHANGED <<pc, recv_buf, ptr, new, last_buf, last_sz>>
  BY DEF Reset, recv, last
<1>2. last_sz \in Nat
  BY RoomFacts DEF BaseInv
<1>3. ~(last_sz > 0 /\ last_buf[0] = DOLLAR)
  BY <1>1
<1>4. last_sz = 0 \/ last_buf[0] # DOLLAR
  BY <1>2, <1>3
<1>5. NoPacketKept'
  BY <1>1, <1>4 DEF NoPacketKept
<1>6. FreshlyMade'
  BY <1>1, <1>5 DEF FreshlyMade, BaseInv
<1>7. FreshlyMade' => Filtering'
  BY FilterFresh, PTL
<1> QED BY <1>6, <1>7

LEMMA FilterReceive ==
  ASSUME BaseInv, Roomy, Roomy', Filtering, Receive
  PROVE  Filtering' /\ stale' = stale
<1>1. PICK F, e, h, q, g : FilterInv(F, e, h, q, g)
  BY DEF Filtering
<1>2. stale' = stale
  BY DEF Receive, Recv, NothingKept, CompletePacket, KeepMore, FlushText, HandPacket,
         KeepPacket, SkipText, EndOfText, AllHandled, Unmentioned, lost
<1>3. CASE Recv
  BY <1>1, <1>2, <1>3, FilterRecv
<1>4. CASE NothingKept
  BY <1>1, <1>2, <1>4, FilterNothingKept
<1>5. CASE CompletePacket
  BY <1>1, <1>2, <1>5, FilterCompletePacket
<1>6. CASE KeepMore
  BY <1>1, <1>2, <1>6, FilterKeepMore
<1>7. CASE FlushText
  BY <1>1, <1>2, <1>7, FilterFlushText
<1>8. CASE HandPacket
  BY <1>1, <1>2, <1>8, FilterHandPacket
<1>9. CASE KeepPacket
  BY <1>1, <1>2, <1>9, FilterKeepPacket
<1>10. CASE SkipText
  BY <1>1, <1>2, <1>10, FilterSkipText
<1>11. CASE EndOfText
  BY <1>1, <1>2, <1>11, FilterEndOfText
<1>12. CASE AllHandled
  BY <1>1, <1>2, <1>12, FilterAllHandled
<1> QED BY <1>3, <1>4, <1>5, <1>6, <1>7, <1>8, <1>9, <1>10, <1>11, <1>12 DEF Receive

Filtered == ~stale => Filtering

LEMMA FilterSteps ==
  ASSUME Cuts \subseteq {"payload", "response"}, BaseInv, Filtered, Roomy, Roomy',
         [Next]_vars
  PROVE  Filtered'
<1> SUFFICES ASSUME ~stale' PROVE Filtering'
  BY DEF Filtered
<1>1. CASE Reset
  BY <1>1, FilterReset
<1>2. CASE Receive
  <2>1. CASE stale
    <3>1. stale' = stale
      BY <1>2 DEF Receive, Recv, NothingKept, CompletePacket, KeepMore, FlushText,
                  HandPacket, KeepPacket, SkipText, EndOfText, AllHandled, Unmentioned, lost
    <3> QED BY <2>1, <3>1
  <2>2. CASE ~stale
    BY <1>2, <2>2, FilterReceive DEF Filtered
  <2> QED BY <2>1, <2>2
<1>3. CASE ServerSends \/ Arrive
  <2>1. stale' = stale
    BY <1>3 DEF ServerSends, Arrive, lost
  <2>2. PICK F, e, h, q, g : FilterInv(F, e, h, q, g)
    BY <2>1 DEF Filtered, Filtering
  <2> QED BY <1>3, <2>2, FilterServerSends, FilterArrive
<1>4. CASE UNCHANGED vars
  <2>1. /\ UNCHANGED <<pc, recv_buf, ptr, new, last_buf, last_sz, flight, sockbuf, edge>>
        /\ UNCHANGED <<sent, handed, resets, stale>>
    BY <1>4 DEF vars, recv, last, wire, lost
  <2>2. PICK F, e, h, q, g : FilterInv(F, e, h, q, g)
    BY <2>1 DEF Filtered, Filtering
  <2>3. WireInv(F, e, g)' /\ Reads(F, q, ptr, Len(recv_buf))' /\ left' = left
    BY <2>1, <2>2 DEF FilterInv, WireInv, Reads, left
  <2>4. AtText(e, h, q) => AtText(e, h, q)'
    BY <2>1 DEF AtText, NoPacketKept
  <2>5. InPacket(F, e, h, q) => InPacket(F, e, h, q)'
    BY <2>1 DEF InPacket
  <2>6. FilterInv(F, e, h, q, g)'
    BY <2>1, <2>2, <2>3, <2>4, <2>5 DEF FilterInv
  <2> QED BY <2>6 DEF Filtering
<1> QED BY <1>1, <1>2, <1>3, <1>4 DEF Next

LEMMA BaseInit == Init => BaseInv
<1> SUFFICES ASSUME Init PROVE BaseInv
  OBVIOUS
<1>1. TypeOK
  BY InitTyped
<1>2. PICK nothing : /\ nothing = <<>> /\ nothing \in Seq(Units)
                     /\ nothing \in Seq([byte : Bytes, ends : Ends])
  BY EmptySeq
<1> QED BY <1>1, <1>2 DEF Init, BaseInv

LEMMA BaseInvariance == Spec /\ []Roomy => []BaseInv
<1>1. BaseInv /\ Roomy /\ Roomy' /\ [Next]_vars => BaseInv'
  BY BaseSteps
<1> QED BY <1>1, BaseInit, PTL DEF Spec

LEMMA FilterInvariance ==
  ASSUME Cuts \subseteq {"payload", "response"}
  PROVE  Spec /\ []Roomy => [](BaseInv /\ Filtered)
<1>1. Init => Filtered
  <2> SUFFICES ASSUME Init PROVE Filtering
    BY DEF Filtered
  <2>1. FreshlyMade
    BY DEF Init, FreshlyMade, NoPacketKept
  <2> QED BY <2>1, FilterFresh
<1>2. BaseInv /\ Filtered /\ Roomy /\ Roomy' /\ [Next]_vars => Filtered'
  BY FilterSteps
<1> QED BY <1>1, <1>2, BaseInvariance, PTL DEF Spec

-----------------------------------------------------------------------------
(* The theorems                                                            *)

\* Sizes and indices stay within recv_buf and last_buf, as long as only the
\* payload of packets is cut, a connection is never lost in the middle of a packet
\* and never more arrives than one recv() of recv_from_rtsp_sd() takes.
THEOREM TypeCorrect ==
  ASSUME Cuts \subseteq {"payload"}
  PROVE  Spec /\ []Steady => []TypeOK
<1>1. IInv => TypeOK
  BY DEF IInv, StreamInv
<1> QED BY <1>1, Invariance, PTL

\* Receiving implements the stream of messages: each one is handed over once,
\* whole and in order.
THEOREM WholeMessages ==
  ASSUME Cuts \subseteq {"payload"}
  PROVE  Spec /\ []Steady => StreamSpec
<1>1. Init => Stream!SInit
  BY DEF Init, Stream!SInit
<1>2. IInv /\ Steady /\ Steady' /\ [Next]_vars => [Stream!SNext]_(Stream!svars)
  <2> SUFFICES ASSUME IInv, Steady, Steady', [Next]_vars
               PROVE  [Stream!SNext]_(Stream!svars)
    OBVIOUS
  <2>1. MessageStep
    BY Steps
  <2> QED BY <2>1 DEF MessageStep, HandsNext, Stream!SNext, Stream!Send, Stream!Hand,
             Stream!NewConnection, Stream!svars
<1> QED BY <1>1, <1>2, Invariance, PTL DEF Spec, StreamSpec, Stream!SSpec

\* When all that was sent has arrived and is handled, every message has been
\* handed over and nothing is kept in last_data.
THEOREM NothingIsLeftOver ==
  ASSUME Cuts \subseteq {"payload"}
  PROVE  Spec /\ []Steady => []NothingLeftOver
<1>1. IInv => NothingLeftOver
  <2> SUFFICES ASSUME NEW F, NEW e, NEW b, NEW g, StreamInv(F, e, b, g), Quiet
               PROVE  handed = sent /\ last_sz = 0
    BY DEF IInv, NothingLeftOver
  <2>0. /\ TypeOK /\ HandedInv /\ sent \in Seq(Messages) /\ handed \in Seq(Messages)
        /\ e \in [0 .. Len(sent) -> Nat] /\ Laid(F, e, sent)
        /\ b = e[Len(handed)] /\ WireInv(F, e, g) /\ PhaseInv(F, b, g)
    BY DEF StreamInv, TypeOK, HandedInv
  <2>1. PICK h, n : h = Len(handed) /\ n = Len(sent) /\ h \in 0 .. n /\ n \in Nat
    BY <2>0, SizeFacts
  <2>2. \A k \in 0 .. n : e[k] \in Nat
    BY <2>0, <2>1
  <2>3. b = e[h] /\ b \in Nat /\ n \in 0 .. n
    BY <2>0, <2>1, <2>2
  <2>4. b + last_sz = e[n] /\ last_sz \in Nat
    <3>1. g = b + last_sz /\ flight = <<>> /\ sockbuf = <<>> /\ last_sz \in Nat
      BY <2>0, SizeFacts DEF PhaseInv, Quiet
    <3>2. g + 0 + 0 = e[n]
      BY <2>0, <2>1, <3>1, EmptySeq DEF WireInv
    <3> QED BY <2>3, <3>1, <3>2
  <2>5. \A j, k \in 0 .. n : j < k => e[j] < e[k]
    BY <2>0, <2>1 DEF Laid
  <2>6. last_sz = 0
    <3> SUFFICES ASSUME last_sz # 0 PROVE FALSE
      OBVIOUS
    <3>1. PICK m \in Messages :
            h < n /\ e[h + 1] = b + Len(m) /\ last_sz \in HEADER .. Len(m) - 1
      BY <2>1, KeptFacts
    <3>2. Len(m) \in Nat /\ last_sz < Len(m)
      BY <2>4, <3>1, MessageFacts DEF HEADER
    <3>3. e[n] < e[h + 1]
      BY <2>3, <2>4, <3>1, <3>2
    <3>4. h + 1 \in 0 .. n /\ (h + 1 = n \/ h + 1 < n)
      BY <2>1, <3>1
    <3> QED BY <2>2, <2>3, <2>5, <3>3, <3>4
  <2>7. h = n
    <3> SUFFICES ASSUME h # n PROVE FALSE
      OBVIOUS
    <3>1. h < n
      BY <2>1
    <3> QED BY <2>1, <2>3, <2>4, <2>5, <2>6, <3>1
  <2>8. handed = sent
    BY <2>0, <2>1, <2>7, SeqEqual DEF HandedInv
  <2> QED BY <2>6, <2>8
<1> QED BY <1>1, Invariance, PTL

\* The assert() of handle_intlvd_data() on the size of a packet holds.
THEOREM AssertIsTrue ==
  ASSUME Cuts \subseteq {"payload"}
  PROVE  Spec /\ []Steady => []AssertHolds
<1>1. IInv => AssertHolds
  BY DEF IInv, StreamInv, PhaseInv, AssertHolds
<1> QED BY <1>1, Invariance, PTL

\* recv_from_rtsp_sd() takes the packets out of the stream whole, in order and none
\* forgotten, also where segments cut the responses between them and text was kept
\* from a connection that was lost.
THEOREM PacketsAreFiltered ==
  ASSUME Cuts \subseteq {"payload", "response"}
  PROVE  Spec /\ []Roomy => []PacketsFiltered
<1>1. BaseInv /\ Filtered => PacketsFiltered
  <2> SUFFICES ASSUME BaseInv, NEW F, NEW e, NEW h, NEW q, NEW g, FilterInv(F, e, h, q, g)
               PROVE  /\ IsPrefix(Packets(handed), Packets(sent))
                      /\ Quiet => Packets(handed) = Packets(sent)
    BY DEF Filtered, Filtering, PacketsFiltered
  <2>1. /\ sent \in Seq(Messages) /\ sent \in Seq(Units)
        /\ e \in [0 .. Len(sent) -> Nat] /\ Laid(F, e, sent) /\ h \in 0 .. Len(sent)
        /\ q \in Nat /\ g = q + left /\ Packets(handed) = PacketsIn(sent)[h]
        /\ WireInv(F, e, g) /\ (AtText(e, h, q) \/ InPacket(F, e, h, q))
    BY SeqsOfUnits DEF BaseInv, TypeOK, FilterInv
  <2>2. IsPrefix(Packets(handed), Packets(sent))
    BY <2>1, PacketsBegin
  <2>3. ASSUME Quiet PROVE h = Len(sent)
    <3>1. PICK n : /\ n = Len(sent) /\ n \in Nat /\ h \in 0 .. n /\ n \in 0 .. n
                   /\ \A k \in 0 .. n : e[k] \in Nat
                   /\ \A j, k \in 0 .. n : j < k => e[j] < e[k]
      <4>1. Len(sent) \in Nat
        BY <2>1, LenProperties
      <4>2. \A j, k \in 0 .. Len(sent) : j < k => e[j] < e[k]
        BY <2>1 DEF Laid
      <4>3. Len(sent) \in 0 .. Len(sent) /\ \A k \in 0 .. Len(sent) : e[k] \in Nat
        BY <2>1, <4>1
      <4> QED BY <2>1, <4>1, <4>2, <4>3
    <3>2. q = e[n]
      <4>1. recv_buf = <<>> /\ ptr = 1 /\ flight = <<>> /\ sockbuf = <<>>
        BY <2>3 DEF Quiet, BaseInv
      <4>2. left = 0 /\ Len(sockbuf) = 0 /\ Len(flight) = 0
        BY <4>1, EmptySeq DEF left
      <4>3. g + 0 + 0 = e[n]
        BY <2>1, <3>1, <4>2 DEF WireInv
      <4> QED BY <2>1, <4>2, <4>3
    <3>3. ASSUME h # n PROVE q < e[n]
      <4>1. h + 1 \in 0 .. n /\ (h + 1 = n \/ h + 1 < n) /\ h < n /\ h \in Nat
        BY <3>1, <3>3
      <4>2. e[h + 1] \in Nat /\ e[n] \in Nat /\ (e[h + 1] = e[n] \/ e[h + 1] < e[n])
        BY <3>1, <4>1
      <4>3. CASE AtText(e, h, q)
        <5>1. q = e[h] \/ q < e[h + 1]
          BY <4>3 DEF AtText, TextAt
        <5>2. e[h] < e[n]
          BY <3>1, <4>1
        <5> QED BY <2>1, <4>2, <5>1, <5>2
      <4>4. CASE InPacket(F, e, h, q)
        <5>1. PICK m \in Messages :
                /\ e[h + 1] = e[h] + Len(m)
                /\ last_sz \in HEADER .. Len(m) - 1 /\ q = e[h] + last_sz
          <6>1. h < Len(sent)
            BY <3>1, <4>1
          <6>2. PICK m \in Messages : m = sent[h + 1] /\ e[h + 1] = e[h] + Len(m)
            BY <2>1, <4>1, <6>1, NextMessageFacts
          <6> QED BY <4>4, <6>2 DEF InPacket
        <5>2. PICK P, z, b : /\ P = Len(m) /\ z = last_sz /\ b = e[h]
                             /\ P \in Nat /\ z \in Nat /\ b \in Nat
          <6>1. Len(m) \in Nat /\ e[h] \in Nat
            BY <3>1, MessageFacts
          <6>2. last_sz \in Nat
            BY BoundsAssumption DEF BaseInv, TypeOK
          <6> QED BY <6>1, <6>2
        <5>3. z < P /\ q = b + z /\ e[h + 1] = b + P
          BY <5>1, <5>2 DEF HEADER
        <5>4. q < b + P
          BY <5>2, <5>3
        <5> QED BY <2>1, <4>2, <5>3, <5>4
      <4> QED BY <2>1, <4>3, <4>4
    <3> QED BY <2>1, <3>1, <3>2, <3>3
  <2>4. Quiet => Packets(handed) = Packets(sent)
    BY <2>1, <2>3 DEF Packets
  <2> QED BY <2>2, <2>4
<1> QED BY <1>1, FilterInvariance, PTL

\* The assert() of handle_intlvd_data() holds where responses are cut, too, unless
\* the connection began with part of a packet kept from the one before.
THEOREM AssertIsTrueWhenCut ==
  ASSUME Cuts \subseteq {"payload", "response"}
  PROVE  Spec /\ []Roomy => [](~stale => AssertHolds)
<1>1. BaseInv /\ Filtered => (~stale => AssertHolds)
  BY DEF Filtered, Filtering, FilterInv, AssertHolds
<1> QED BY <1>1, FilterInvariance, PTL
=============================================================================
