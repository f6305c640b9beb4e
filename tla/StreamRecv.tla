---------------------------- MODULE StreamRecv -----------------------------
(***************************************************************************)
(* Receiving from the RTSP socket: recv_from_rtsp_sd() cuts the byte       *)
(* stream into RTSP responses and, in interleaved mode, RTP/RTCP packets   *)
(* ('$', channel, 16-bit size, payload), and keeps what is incomplete in   *)
(* sessp->last_data until more arrives.                                    *)
(*                                                                         *)
(* Bytes are their values. A response is any text that ends as a response  *)
(* does; what the handlers make of it is abstracted away. One pass of the  *)
(* loop of recv_from_rtsp_sd() is one action. TCP may cut the stream after *)
(* any byte; Cuts says where it does.                                      *)
(***************************************************************************)
EXTENDS Integers, SequencesExt, FiniteSets

CONSTANTS
  RECV_BUF_SZ,   \* size of recv_buf and of last_data.buf
  Messages,      \* what the server may send: sequences of bytes
  MaxMessages,   \* how many of them on a connection
  Cuts,          \* parts of a message that a segment may end in
  MaxResets      \* how often the connection may be lost

DOLLAR == 36
CR     == 13
LF     == 10
HEADER == 4                               \* sizeof(struct intlvd)
Bytes  == 0 .. 255
Places == {"header", "payload", "response"}

IsPacket(m) == m[1] = DOLLAR
Payload(m)  == m[3] * 256 + m[4]           \* ntohs(intlvdp->sz)

\* A server sends well-formed packets, and responses that hold no '$' and end
\* in an empty line.
WellFormed(m) ==
  IF IsPacket(m)
  THEN Len(m) > HEADER /\ Payload(m) = Len(m) - HEADER
  ELSE /\ Len(m) >= 4 /\ \A i \in 1 .. Len(m) : m[i] # DOLLAR
       /\ SubSeq(m, Len(m) - 3, Len(m)) = <<CR, LF, CR, LF>>

ASSUME MessagesAssumption ==
  \A m \in Messages :
    m \in Seq(Bytes) /\ m # <<>> /\ Len(m) < RECV_BUF_SZ /\ WellFormed(m)
ASSUME BoundsAssumption ==
  /\ RECV_BUF_SZ \in Nat /\ RECV_BUF_SZ > HEADER
  /\ MaxMessages \in Nat /\ MaxResets \in Nat
ASSUME CutsAssumption == Cuts \subseteq Places

VARIABLES
  pc,          \* "idle", "last", "scan", or "aborted" by the assert()
  \* recv_from_rtsp_sd()
  recv_buf,    \* what recv() returned
  ptr, new,    \* indices into it: the next byte, the start of a message
  \* struct last_data
  last_buf, last_sz,
  \* the connection
  flight,      \* bytes under way, each with the place it ends
  sockbuf,     \* bytes that have arrived
  edge,        \* an edge-triggered EPOLLIN is pending
  \* history
  sent,        \* messages of this connection
  handed,      \* what handle_intlvd_data() got on this connection
  resets,      \* connections lost
  stale        \* this connection began with part of a packet in last_buf

recv == <<recv_buf, ptr, new>>
last == <<last_buf, last_sz>>
wire == <<flight, sockbuf, edge>>
lost == <<resets, stale>>
vars == <<pc, recv, last, wire, sent, handed, lost>>

Byte(n) == 0 .. n - 1                      \* indices of a C array of n bytes
left    == Len(recv_buf) - ptr + 1

TypeOK ==
  /\ pc \in {"idle", "last", "scan", "aborted"}
  /\ recv_buf \in Seq(Bytes) /\ Len(recv_buf) <= RECV_BUF_SZ
  /\ ptr \in 1 .. Len(recv_buf) + 1 /\ new \in 1 .. ptr
  /\ last_buf \in [Byte(RECV_BUF_SZ) -> Bytes]
  /\ last_sz \in 0 .. RECV_BUF_SZ
  /\ sockbuf \in Seq(Bytes) /\ edge \in BOOLEAN
  /\ sent \in Seq(Messages)
  /\ resets \in 0 .. MaxResets /\ stale \in BOOLEAN

Init ==
  /\ pc = "idle"
  /\ recv_buf = <<>> /\ ptr = 1 /\ new = 1
  /\ last_buf = [i \in Byte(RECV_BUF_SZ) |-> 0] /\ last_sz = 0
  /\ flight = <<>> /\ sockbuf = <<>> /\ edge = FALSE
  /\ sent = <<>> /\ handed = <<>> /\ resets = 0 /\ stale = FALSE

-----------------------------------------------------------------------------
(* The server and the network. T looks at the socket in recv() only: what  *)
(* happens there while it works on recv_buf might as well happen after.    *)

Place(m, k) ==
  CASE k = Len(m)                                -> "message"
    [] k # Len(m) /\ ~IsPacket(m)                -> "response"
    [] k # Len(m) /\ IsPacket(m) /\ k < HEADER   -> "header"
    [] k # Len(m) /\ IsPacket(m) /\ k >= HEADER  -> "payload"

Responses(s) == {k \in 1 .. Len(s) : ~IsPacket(s[k])}

\* The packets among the first k messages of s.
PacketsIn(s) ==
  LET taken[k \in 0 .. Len(s)] ==
        IF k = 0 THEN <<>>
        ELSE IF IsPacket(s[k]) THEN Append(taken[k - 1], s[k]) ELSE taken[k - 1]
  IN  taken
Packets(s) == PacketsIn(s)[Len(s)]

\* One response at a time: the session asks again only once it has an answer.
\* Packets come once the session has been negotiated.
ServerSends ==
  \E m \in Messages :
    /\ pc = "idle" /\ Len(sent) < MaxMessages
    /\ ~IsPacket(m) => Cardinality(Responses(handed)) >= Cardinality(Responses(sent))
    /\ IsPacket(m) => Responses(sent) # {}
    /\ sent' = Append(sent, m)
    /\ flight' = flight \o [k \in 1 .. Len(m) |-> [byte |-> m[k], ends |-> Place(m, k)]]
    /\ UNCHANGED <<pc, recv, last, sockbuf, edge, handed, lost>>

Arrive ==
  \E n \in 1 .. Len(flight) :
    /\ pc = "idle"
    /\ flight[n].ends \in Cuts \cup {"message"}
    /\ sockbuf' = sockbuf \o [k \in 1 .. n |-> flight[k].byte]
    /\ flight' = SubSeq(flight, n + 1, Len(flight))
    /\ edge' = TRUE
    /\ UNCHANGED <<pc, recv, last, sent, handed, lost>>

\* The connection is lost and made again: cleanup_before_reconn() leaves
\* last_data as it is.
Reset ==
  /\ pc = "idle" /\ resets < MaxResets
  /\ resets' = resets + 1
  /\ stale' = (last_sz > 0 /\ last_buf[0] = DOLLAR)
  /\ flight' = <<>> /\ sockbuf' = <<>> /\ edge' = FALSE
  /\ sent' = <<>> /\ handed' = <<>>
  /\ UNCHANGED <<pc, recv, last>>

-----------------------------------------------------------------------------
(* handle_intlvd_data() and the helpers of recv_from_rtsp_sd().            *)

\* Handing over a '$' message whose size is not what its header says runs into
\* the assert(); one without a payload goes nowhere.
Misframed(u) == IsPacket(u) /\ Len(u) > HEADER /\ Payload(u) # Len(u) - HEADER

HandOver(u, next) ==
  /\ pc' = IF Misframed(u) THEN "aborted" ELSE next
  /\ handed' = IF Misframed(u) \/ (IsPacket(u) /\ Len(u) <= HEADER)
               THEN handed ELSE Append(handed, u)

\* memcpy() of the bytes of recv_buf from a to b to offset off of last_buf.
Copied(off, a, b) ==
  [i \in DOMAIN last_buf |->
     IF i >= off /\ i - off <= b - a THEN recv_buf[a + i - off] ELSE last_buf[i]]

\* The first n bytes of a buffer.
Front0(buf, n) == [k \in 1 .. n |-> buf[k - 1]]

LastSize == last_buf[2] * 256 + last_buf[3]   \* the size a kept header gives
Missing  == LastSize + HEADER - last_sz       \* what completes that packet

\* It is there. The arithmetic is unsigned: below 0 is more than ever arrives.
Completes == Missing \in 0 .. left

\* rtsp_msg_complete()
Complete(buf, n) == n >= 4 /\ buf[n - 2] = CR /\ buf[n - 1] = LF

Unmentioned == UNCHANGED <<wire, sent, lost>>

\* recv_from_rtsp_sd() returns and its locals are gone.
Returns == pc' = "idle" /\ recv_buf' = <<>> /\ ptr' = 1 /\ new' = 1

\* recv() takes what has arrived, as far as recv_buf goes.
Recv ==
  /\ pc = "idle" /\ edge /\ sockbuf # <<>>
  /\ LET n == IF Len(sockbuf) < RECV_BUF_SZ THEN Len(sockbuf) ELSE RECV_BUF_SZ IN
       /\ recv_buf' = SubSeq(sockbuf, 1, n)
       /\ sockbuf' = SubSeq(sockbuf, n + 1, Len(sockbuf))
  /\ ptr' = 1 /\ new' = 1
  /\ edge' = FALSE
  /\ pc' = "last"
  /\ UNCHANGED <<last, flight, sent, handed, lost>>

\* Mutant: whatever is kept is taken for a packet.
AnyKept == last_sz >= HEADER

\* The data in the last buffer: a packet whose header is there.
HeaderKept == last_sz >= HEADER /\ last_buf[0] = DOLLAR

NothingKept ==
  /\ pc = "last" /\ ~HeaderKept
  /\ pc' = "scan"
  /\ UNCHANGED <<recv, last, handed>> /\ Unmentioned

CompletePacket ==
  /\ pc = "last" /\ HeaderKept /\ Completes
  /\ last_buf' = Copied(last_sz, 1, Missing)
  /\ HandOver(Front0(last_buf', LastSize + HEADER), "scan")
  /\ ptr' = Missing + 1 /\ new' = Missing + 1
  /\ last_sz' = 0
  /\ UNCHANGED recv_buf /\ Unmentioned

\* Mutant: the size of what is kept does not grow.
ForgetMore == UNCHANGED last_sz

CountMore  == last_sz' = last_sz + left

KeepMore ==
  /\ pc = "last" /\ HeaderKept /\ ~Completes
  /\ last_buf' = Copied(last_sz, 1, left)
  /\ CountMore
  /\ Returns
  /\ UNCHANGED handed /\ Unmentioned

-----------------------------------------------------------------------------
(* The loop.                                                               *)

AtDollar == pc = "scan" /\ left > 0 /\ recv_buf[ptr] = DOLLAR

\* The text before a '$' joins what was kept and is taken for a response.
FlushText ==
  /\ AtDollar /\ ptr # new
  /\ last_buf' = [Copied(last_sz, new, ptr - 1) EXCEPT ![last_sz + ptr - new] = 0]
  /\ HandOver(Front0(last_buf', last_sz + ptr - new), "scan")
  /\ last_sz' = 0 /\ new' = ptr
  /\ UNCHANGED <<recv_buf, ptr>> /\ Unmentioned

\* The packet that starts at ptr, header included.
PacketSize == HEADER + recv_buf[ptr + 2] * 256 + recv_buf[ptr + 3]

\* Mutants: the size is taken to include the header; off by one.
ShortStep == ptr + PacketSize - HEADER
OnePast   == ptr + PacketSize + 1

PacketThere == left >= HEADER /\ left >= PacketSize
NextMessage == ptr + PacketSize

HandPacket ==
  /\ AtDollar /\ ptr = new /\ PacketThere
  /\ HandOver(SubSeq(recv_buf, ptr, ptr + PacketSize - 1), "scan")
  /\ ptr' = NextMessage /\ new' = NextMessage
  /\ UNCHANGED <<recv_buf, last>> /\ Unmentioned

KeepPacket ==
  /\ AtDollar /\ ptr = new /\ ~PacketThere
  /\ last_buf' = Copied(0, ptr, Len(recv_buf))
  /\ last_sz' = left
  /\ Returns
  /\ UNCHANGED handed /\ Unmentioned

SkipText ==
  /\ pc = "scan" /\ left > 1 /\ recv_buf[ptr] # DOLLAR
  /\ ptr' = ptr + 1
  /\ UNCHANGED <<pc, recv_buf, new, last, handed>> /\ Unmentioned

\* The last byte received is text: it ends a response, or more is to come. In
\* that case last_sz is increased twice.
EndOfText ==
  /\ pc = "scan" /\ left = 1 /\ recv_buf[ptr] # DOLLAR
  /\ LET n     == ptr + 1 - new
         total == last_sz + n
         buf   == Copied(last_sz, new, ptr) IN
       \/ /\ Complete(buf, total)
          /\ last_buf' = [buf EXCEPT ![total] = 0]
          /\ HandOver(Front0(last_buf', total), "scan")
          /\ last_sz' = 0
       \/ /\ ~Complete(buf, total)
          /\ last_buf' = buf
          /\ last_sz' = total + n
          /\ UNCHANGED <<pc, handed>>
  /\ ptr' = ptr + 1
  /\ UNCHANGED <<recv_buf, new>> /\ Unmentioned

AllHandled ==
  /\ pc = "scan" /\ left = 0
  /\ Returns
  /\ UNCHANGED <<last, handed>> /\ Unmentioned

-----------------------------------------------------------------------------
Receive ==
  \/ Recv \/ NothingKept \/ CompletePacket \/ KeepMore \/ FlushText
  \/ HandPacket \/ KeepPacket \/ SkipText \/ EndOfText \/ AllHandled

Next == ServerSends \/ Arrive \/ Reset \/ Receive

Spec == Init /\ [][Next]_vars

\* What is sent arrives, and the session thread handles it.
FairSpec == Spec /\ WF_vars(Receive) /\ WF_vars(Arrive)

-----------------------------------------------------------------------------
\* Receiving implements a stream of whole messages: each message is handed over
\* once, whole and in order, wherever the segments cut the payload of packets.
Stream == INSTANCE MessageStream
StreamSpec == Stream!SSpec

Quiet == pc = "idle" /\ flight = <<>> /\ sockbuf = <<>>

\* When everything has arrived and is handled, nothing is kept in last_data and
\* every message has been handed over.
NothingLeftOver == Quiet => handed = sent /\ last_sz = 0

\* "We have to filter out the RTP & RTCP packet": packets are taken out of the
\* stream whole, in order and none forgotten, even when segments cut the responses
\* between them, and when text was kept from a connection that was lost. (Part of
\* a packet kept from it, stale, swallows what comes next.)
PacketsFiltered ==
  ~stale =>
    /\ IsPrefix(Packets(handed), Packets(sent))
    /\ Quiet => Packets(handed) = Packets(sent)

\* Every message sent is handed over in the end, although the socket is
\* edge-triggered and read once per event.
AllHandedOver == \A n \in 1 .. MaxMessages : Len(sent) >= n ~> Len(handed) >= n

\* "assert(ntohs(intlvdp->sz) == (sz - sizeof(*intlvdp)))"
AssertHolds == pc # "aborted"
=============================================================================
