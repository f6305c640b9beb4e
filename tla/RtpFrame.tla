----------------------------- MODULE RtpFrame ------------------------------
(***************************************************************************)
(* Putting frames together from RTP packets: handle_rtp_pkt() appends the  *)
(* NALUs of H.264 packets to the session's one frame buffer, and a packet  *)
(* with the marker bit, of any medium, hands the buffer to store_frm().    *)
(*                                                                         *)
(* The server packs each frame as single NALU packets and FU-A fragments,  *)
(* with the marker on the last of them, and sends audio and NALUs of other *)
(* kinds in between. The network keeps them in order (interleaved mode) or *)
(* may lose, double and reorder them (UDP). A payload is a token: which    *)
(* part of which NALU of which frame it is (frame 0: not video).           *)
(***************************************************************************)
EXTENDS Integers, SequencesExt

CONSTANTS
  MAX_FRM_SZ,   \* size of frm_buf, in tokens
  FRM_HDR_SZ,   \* chn_info.frm_hdr_sz: room the user reserves in front
  Frames,       \* the video: frames, sequences of [type, parts] NALUs
  Extras,       \* what is sent besides: "audio", "other" (unsupported)
  MaxExtras,    \* how many of these
  Marked,       \* may they have the marker bit?
  Faults,       \* what may happen: "loss", "dup", "reorder", "reset"
  MaxFaults     \* and how often

FRM_TYPE_IF  == "IF"
FRM_TYPE_BF  == "BF"
FRM_TYPE_PF  == "PF"
FRM_TYPE_AF  == "AF"
FrmTypes     == {FRM_TYPE_IF, FRM_TYPE_BF, FRM_TYPE_PF, FRM_TYPE_AF}
NALU_PT_FU_A == 28
Single       == 1 .. 23

ASSUME FramesAssumption ==
  Frames \in Seq(Seq([type : Single, parts : Nat \ {0}]) \ {<<>>})
ASSUME BoundsAssumption ==
  /\ {MAX_FRM_SZ, FRM_HDR_SZ, MaxExtras, MaxFaults} \subseteq Nat
  /\ Extras \subseteq {"audio", "other"} /\ Marked \in BOOLEAN
  /\ Faults \subseteq {"loss", "dup", "reorder", "reset"}

VARIABLES
  next,      \* the server's next video packet: frame, NALU and part
  extras,    \* packets of other kinds sent
  net,       \* packets under way
  frm_buf,   \* frm_info: the first frm_sz bytes of the buffer
  stored,    \* what store_frm() got
  faults,    \* faults so far
  hurt       \* history: tokens lost, doubled or out of turn

vars == <<next, extras, net, frm_buf, stored, faults, hurt>>

StartCode == <<"start code">>

Parts(f, n)   == Frames[f][n].parts
IsLast(t)     == t[2] = Len(Frames[t[1]]) /\ t[3] = Parts(t[1], t[2])
Tokens(f)     == UNION {{<<f, n, k>> : k \in 1 .. Parts(f, n)} :
                          n \in 1 .. Len(Frames[f])}

\* What handle_rtp_pkt() reads of a packet: hdrp->pt as media, pl[0] & 0x1F,
\* pl[1] & 0x1F (the type, when the NALU is not cut), pl[1] & 0x80, hdrp->m.
VideoPacket(t) ==
  LET nalu == Frames[t[1]][t[2]] IN
    [media |-> "video", pt |-> IF nalu.parts = 1 THEN nalu.type ELSE NALU_PT_FU_A,
     inner |-> nalu.type, start |-> t[3] = 1, m |-> IsLast(t), data |-> t]

ExtraPacket(kind, i, m) ==
  [media |-> kind, pt |-> 0, inner |-> 0, start |-> FALSE, m |-> m,
   data |-> <<0, i, 0>>]

Init ==
  /\ next = <<1, 1, 1>> /\ extras = 0
  /\ net = <<>> /\ frm_buf = <<>> /\ stored = <<>>
  /\ faults = 0 /\ hurt = {}

-----------------------------------------------------------------------------
(* The server and the network.                                             *)

Following(t) ==
  IF t[3] < Parts(t[1], t[2]) THEN <<t[1], t[2], t[3] + 1>>
  ELSE IF t[2] < Len(Frames[t[1]]) THEN <<t[1], t[2] + 1, 1>>
  ELSE <<t[1] + 1, 1, 1>>

SendVideo ==
  /\ next[1] <= Len(Frames)
  /\ net' = Append(net, VideoPacket(next))
  /\ next' = Following(next)
  /\ UNCHANGED <<extras, frm_buf, stored, faults, hurt>>

SendExtra ==
  /\ extras < MaxExtras
  /\ extras' = extras + 1
  /\ \E kind \in Extras, m \in {FALSE, Marked} :
       net' = Append(net, ExtraPacket(kind, extras', m))
  /\ UNCHANGED <<next, frm_buf, stored, faults, hurt>>

\* A fault of a kind hits the packets of some tokens.
Fault(kind, tokens) ==
  /\ kind \in Faults /\ faults < MaxFaults
  /\ faults' = faults + 1 /\ hurt' = hurt \cup tokens
  /\ UNCHANGED <<extras, frm_buf, stored>>

Lose ==
  \E i \in 1 .. Len(net) :
    /\ Fault("loss", {net[i].data})
    /\ net' = RemoveAt(net, i)
    /\ UNCHANGED next

Duplicate ==
  \E i \in 1 .. Len(net) :
    /\ Fault("dup", {net[i].data})
    /\ net' = InsertAt(net, i, net[i])
    /\ UNCHANGED next

Reorder ==
  \E i \in 1 .. Len(net) - 1 :
    /\ Fault("reorder", {net[i].data, net[i + 1].data})
    /\ net' = [net EXCEPT ![i] = net[i + 1], ![i + 1] = net[i]]
    /\ UNCHANGED next

\* The connection is lost, in the middle of a frame perhaps, and the server
\* goes on with the next whole one: cleanup_before_reconn() leaves frm_info
\* as it is.
Reset ==
  LET cut == next[2] > 1 \/ next[3] > 1 IN
    /\ next[1] <= Len(Frames)
    /\ Fault("reset", {net[i].data : i \in 1 .. Len(net)}
                        \cup IF cut THEN Tokens(next[1]) ELSE {})
    /\ next' = <<IF cut THEN next[1] + 1 ELSE next[1], 1, 1>>
    /\ net' = <<>>

-----------------------------------------------------------------------------
(* handle_rtp_pkt()                                                        *)

\* Mutant: every fragment gets a start code, not only the first.
StartEach(p) == <<StartCode, <<p.inner, "header">>, p.data>>

\* The first fragment brings the start code and the rebuilt NALU header.
Fragment(p) ==
  IF p.start THEN <<StartCode, <<p.inner, "header">>, p.data>> ELSE <<p.data>>

\* Mutant: audio is put into the buffer too.
AnyMedia(p) == IF p.pt \in Single THEN <<StartCode, p.data>> ELSE Fragment(p)

Appended(p) ==
  IF p.media # "video" THEN <<>>
  ELSE IF p.pt \in Single THEN <<StartCode, p.data>>
  ELSE Fragment(p)

\* Mutant: the type of a fragment is the one of its first byte.
OuterType(p) == IF p.pt = 1 THEN FRM_TYPE_PF ELSE FRM_TYPE_IF
VideoType(p) == IF p.inner = 1 THEN FRM_TYPE_PF ELSE FRM_TYPE_IF

\* frm_type is never set for a packet of an unsupported kind: it is what the
\* stack holds.
PacketTypes(p) ==
  CASE p.media = "video" -> {VideoType(p)}
    [] p.media = "audio" -> {FRM_TYPE_AF}
    [] OTHER             -> FrmTypes

\* Mutant: frm_sz is not set back.
KeepFrame(buf)  == buf
AfterStore(buf) == <<>>

\* The buffer with all that a packet brings, before the marker is looked at.
Filled(p) == frm_buf \o Appended(p)

\* The memcpy() calls compare nothing with the size of the buffer. The model goes
\* on after an overrun as if the buffer were larger.
Overruns(p) == FRM_HDR_SZ + Len(Filled(p)) > MAX_FRM_SZ

HandlePacket ==
  /\ net # <<>>
  /\ LET p   == Head(net)
         buf == Filled(p) IN
       IF p.m
       THEN /\ \E t \in PacketTypes(p) :
                 stored' = Append(stored, [data |-> buf, type |-> t])
            /\ frm_buf' = AfterStore(buf)
       ELSE frm_buf' = buf /\ UNCHANGED stored
  /\ net' = Tail(net)
  /\ UNCHANGED <<next, extras, faults, hurt>>

-----------------------------------------------------------------------------
Next ==
  \/ SendVideo \/ SendExtra \/ Lose \/ Duplicate \/ Reorder \/ Reset
  \/ HandlePacket

Spec == Init /\ [][Next]_vars

\* The server keeps sending and the session's thread keeps reading.
FairSpec == Spec /\ WF_vars(SendVideo) /\ WF_vars(HandlePacket)

-----------------------------------------------------------------------------
(* A frame as it was before it was packed.                                 *)

NaluBytes(f, n) ==
  <<StartCode>>
    \o (IF Parts(f, n) = 1 THEN <<>> ELSE << <<Frames[f][n].type, "header">> >>)
    \o [k \in 1 .. Parts(f, n) |-> <<f, n, k>>]

Whole(f) ==
  [data |-> FlattenSeq([n \in 1 .. Len(Frames[f]) |-> NaluBytes(f, n)]),
   type |-> IF Last(Frames[f]).type = 1 THEN FRM_TYPE_PF ELSE FRM_TYPE_IF]

-----------------------------------------------------------------------------
\* The types of the state; and only video is ever put into the frame buffer
\* (rtp.c:59-62 copies nothing of an audio packet).
TypeOK ==
  /\ next[1] \in 1 .. Len(Frames) + 1
  /\ extras \in 0 .. MaxExtras /\ faults \in 0 .. MaxFaults
  /\ {net[i].data : i \in 1 .. Len(net)} \cup hurt
       \subseteq {<<0, i, 0>> : i \in 1 .. MaxExtras}
                   \cup UNION {Tokens(f) : f \in 1 .. Len(Frames)}
  /\ ToSet(frm_buf) \subseteq {StartCode} \cup (Single \X {"header"})
                                \cup UNION {Tokens(f) : f \in 1 .. Len(Frames)}
  /\ \A i \in 1 .. Len(stored) : stored[i].type \in FrmTypes

\* As long as nothing happens to the packets, and only video carries the
\* marker, the callback gets the frames the server sent, complete, of the right
\* type, in order: what is left in the one frame buffer by one frame, or sent
\* between its packets, never gets into another (rtp.c:68).
Delivered == INSTANCE FrameStream
  WITH Sent <- [f \in 1 .. Len(Frames) |-> Whole(f)],
       frames <- stored, intact <- faults = 0
FrameSpec == Delivered!FSpec

Handled(f) ==
  next[1] > f /\ \A i \in 1 .. Len(net) : net[i].data \notin Tokens(f)

Unhurt(f) ==
  hurt \cap (Tokens(f) \cup
             IF f = 1 THEN {} ELSE {t \in Tokens(f - 1) : IsLast(t)}) = {}

IsStored(f) == \E i \in 1 .. Len(stored) : stored[i] = Whole(f)

\* A fault hurts the frames it hits and no other: once frame f is through, it
\* was stored complete if its own packets and the marker that ends the frame
\* before it came as they were sent, whatever happened to the rest.
Resynchronises ==
  \A f \in 1 .. Len(Frames) : Handled(f) /\ Unhurt(f) => IsStored(f)

\* A packet of a frame that a fault did not hit, behind a marker that none hit
\* either, finds room in the buffer, the last one too: the frames fit, and what is
\* left in the buffer by others, whole, torn or joined, is gone when this frame
\* begins (rtp.c:36-39, 46-52, 71). Nothing else keeps the size down: two frames
\* whose marker was lost are appended to one another and overrun the buffer.
FrameFits ==
  net # <<>> =>
    LET p == Head(net) IN
      p.media = "video" /\ Unhurt(p.data[1]) => ~Overruns(p)

\* Every frame that is sent is given to the callback in the end, the last one
\* too, unless it is hurt.
EveryFrameStored ==
  \A f \in 1 .. Len(Frames) : <>(IsStored(f) \/ ~Unhurt(f))
=============================================================================
