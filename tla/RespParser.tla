----------------------------- MODULE RespParser -----------------------------
(***************************************************************************)
(* What becomes of the text of one response: parse_rtsp_resp() and the     *)
(* functions below it (parser.c) read it line by line, then                *)
(* run_rtsp_state_machine() takes what they found, and the next SETUP is   *)
(* built from it (make_rtsp_uri()).  The session has asked for DESCRIBE.   *)
(* A line is its kind and its value; the text is a sequence of lines, the  *)
(* last of which may lack its line end.                                    *)
(***************************************************************************)
EXTENDS Naturals, Sequences, FiniteSets

CONSTANT Texts      \* the responses: [lines |-> a sequence of Lines, ended |-> BOOLEAN]

VARIABLES
    text,           \* the response
    pc,             \* the loop that reads the next line
    line,           \* the index of the current line, or NULL
    resp,           \* struct rtsp_resp
    sdp,            \* the memory of the description, and whether it is freed
    media,          \* the medium whose attributes are read
    sdp_info,       \* where the session's pointer points: NULL or the memory
    uri             \* the track a SETUP of each medium asks for

vars == <<text, pc, line, resp, sdp, media, sdp_info, uri>>

-----------------------------------------------------------------------------
(* Lines                                                                   *)

NULL == 0
Video == 0
Audio == 1
Media == {Video, Audio}
CurCSeq == 1                \* of the DESCRIBE
SomeId == 5                 \* a session ID in digits

\* The value says: of v=, the version; of any other line, what sscanf() finds in it,
\* and 0 that it finds nothing: no 200 in "RTSP/1.0", no number in CSeq, no digits in
\* Session, nothing at all in Date, Public or Content-Type, not the letters "Transport: "
\* in Transport, not the letters "Content-Length: " and a number in Content-Length, which
\* are recognised in other letter cases too; no port, encoding or track in m=, a=rtpmap
\* or a=control.
Kinds == {"RTSP/1.0", "CSeq", "Date", "Session", "Public", "Transport", "Content-Type",
          "Content-Length", "Header", "", "v=", "m=video", "m=audio", "a=rtpmap",
          "a=control", "b=AS", "x="}
SDP == 1                    \* a Content-Type with "sdp" in it; 2 is any other
Long == 1                   \* a Content-Length of more than 2; 2 is any other

\* The fields of a Transport; those of the second set are not followed by two numbers.
Fields == {"RTP/AVP/TCP", "RTP/AVP", "unicast", "client_port", "server_port", "interleaved"}
          \cup {"bad client_port", "bad server_port", "bad interleaved"}
Lines == [kind : Kinds, value : Nat, fields : Seq(Fields)]

Line(kind, value) == [kind |-> kind, value |-> value, fields |-> << >>]
Transport(fields) == [kind |-> "Transport", value |-> 1, fields |-> fields]
Blank == Line("", 0)

\* A response has a first line, and a last line without an end has something in it.
ASSUME TextsAssumption ==
    \A t \in Texts :
        /\ t \in [lines : Seq(Lines), ended : BOOLEAN] /\ t.lines # << >>
        /\ ~t.ended => t.lines[Len(t.lines)] # Blank

\* The empty string at the end of a text whose last line is ended.
End == Len(text.lines) + 1
KindAt(i) == IF i \in DOMAIN text.lines THEN text.lines[i].kind ELSE ""
ValueAt(i) == text.lines[i].value

\* Mutant: at the end of the text there is always a next character.
NextLinePastEnd(i) ==
    IF i + 1 = End /\ ~text.ended THEN NULL
    ELSE IF i + 1 < End /\ text.lines[i + 1] = Blank THEN NULL
    ELSE i + 1

\* get_next_line(): NULL in front of an empty line and at the end.
NextLine(i) ==
    IF i = End \/ (i + 1 = End /\ ~text.ended) THEN NULL
    ELSE IF i + 1 # End /\ text.lines[i + 1] = Blank THEN NULL
    ELSE i + 1

-----------------------------------------------------------------------------
(* struct rtsp_resp and struct sdp_info                                    *)

NoTransport == [intlvd |-> FALSE, read |-> {}]
NoResp == [cseq |-> 0, sess_id |-> 0, is_sdp |-> FALSE, transport |-> NoTransport,
           sdp_info |-> NULL]

\* The only description; a pointer to it is 1.
TheSdp == 1
NoSdp == [state |-> "none", enable |-> {}, control |-> [m \in Media |-> << >>]]

TypeOK ==
    /\ text \in [lines : Seq(Lines), ended : BOOLEAN]
    /\ pc \in {"status", "headers", "content", "sdp", "attributes", "respond", "fault",
               "setup", "done"}
    /\ line \in 0..End
    /\ resp \in [cseq : Nat, sess_id : Nat, is_sdp : BOOLEAN,
                 transport : [intlvd : BOOLEAN, read : SUBSET Fields], sdp_info : {NULL, TheSdp}]
    /\ sdp \in [state : {"none", "live", "freed"}, enable : SUBSET Media,
                control : [Media -> Seq(Nat)]]
    /\ media \in Media
    /\ sdp_info \in {NULL, TheSdp}
    /\ uri \in [Media -> Nat]

NoTrack == 99
DefaultTrack == 98          \* "track%d"

Init ==
    /\ text \in Texts
    /\ pc = "status"
    /\ line = 1
    /\ resp = NoResp
    /\ sdp = NoSdp
    /\ media = Video
    /\ sdp_info = NULL
    /\ uri = [m \in Media |-> NoTrack]

-----------------------------------------------------------------------------
(* The headers                                                             *)

\* A line that is no line is dereferenced.
Fault ==
    /\ pc' = "fault"
    /\ UNCHANGED <<text, line, resp, sdp, media, sdp_info, uri>>

\* The parser returns; handle_rtsp_resp() does not look at what.
Return ==
    /\ pc' = "respond"
    /\ UNCHANGED <<text, line, resp, sdp, media, sdp_info, uri>>

GoOn(where, i) == pc' = where /\ line' = i

\* parse_resp_line(): anything but "200" leaves resp as it is.
StatusLine ==
    /\ pc = "status"
    /\ \/ ValueAt(1) = 0 /\ Return
       \/ /\ ValueAt(1) # 0
          /\ GoOn("headers", NextLine(1))
          /\ UNCHANGED <<text, resp, sdp, media, sdp_info, uri>>

\* Mutant: "RTP/AVP" is compared first, and is a prefix of "RTP/AVP/TCP".
ReadFieldPrefix(t, f) ==
    IF f \in {"RTP/AVP", "RTP/AVP/TCP"} THEN [t EXCEPT !.intlvd = FALSE]
    ELSE IF f \in {"client_port", "server_port"} /\ ~t.intlvd THEN [t EXCEPT !.read = @ \cup {f}]
    ELSE t

\* One turn of the loop in parse_hdr_transport().
ReadField(t, f) ==
    CASE f = "RTP/AVP/TCP" -> [t EXCEPT !.intlvd = TRUE]
      [] f = "RTP/AVP" -> [t EXCEPT !.intlvd = FALSE]
      [] f \in {"client_port", "server_port"} /\ ~t.intlvd -> [t EXCEPT !.read = @ \cup {f}]
      [] f = "interleaved" /\ t.intlvd -> [t EXCEPT !.read = @ \cup {f}]
      [] OTHER -> t

\* At field i the protocol is TCP: the channels are read, the ports are not.
IsTcp(fields, i) ==
    \E j \in 1..i : fields[j] = "RTP/AVP/TCP" /\ \A k \in j..i : fields[k] # "RTP/AVP"

\* sscanf() is asked for the numbers of field i, and does not find them.
Fails(fields, i) ==
    IF IsTcp(fields, i) THEN fields[i] = "bad interleaved"
    ELSE fields[i] \in {"bad client_port", "bad server_port"}

\* parse_hdr_transport(), up to the field that ends it
ReadTransport(fields) ==
    LET good == {i \in 0..Len(fields) : \A j \in 1..i : ~Fails(fields, j)}
        read[i \in good] == IF i = 0 THEN resp.transport ELSE ReadField(read[i - 1], fields[i])
    IN  read[CHOOSE i \in good : \A j \in good : j <= i]

\* The header makes parse_resp_hdrs() return at once.
Malformed(h) ==
    \/ /\ h.kind \in {"CSeq", "Date", "Session", "Public", "Transport", "Content-Type"}
       /\ h.value = 0
    \/ h.kind = "Transport" /\ \E i \in DOMAIN h.fields : Fails(h.fields, i)

\* strpbrk() finds no end of the line in parse_hdr_transport().
Unended(i) ==
    /\ text.lines[i].kind = "Transport" /\ ~Malformed(text.lines[i])
    /\ i = Len(text.lines) /\ ~text.ended

\* What a header other than Content-Type leaves in resp.
Record(h) ==
    CASE h.kind = "CSeq" /\ h.value # 0 -> [resp EXCEPT !.cseq = h.value]
      [] h.kind = "Session" /\ h.value # 0 -> [resp EXCEPT !.sess_id = h.value]
      [] h.kind = "Transport" /\ h.value # 0 -> [resp EXCEPT !.transport = ReadTransport(h.fields)]
      [] OTHER -> resp

\* Mutant: a malformed header is skipped.
HeaderSkipped ==
    /\ pc = "headers" /\ line # NULL /\ line # End
    /\ LET h == text.lines[line]
           typed == h.kind = "Content-Type" /\ h.value # 0
       IN  /\ resp' = IF typed THEN [resp EXCEPT !.is_sdp = (h.value = SDP)] ELSE Record(h)
           /\ IF typed THEN GoOn("content", line) ELSE GoOn("headers", NextLine(line))
    /\ UNCHANGED <<text, sdp, media, sdp_info, uri>>

\* One turn of the loop in parse_resp_hdrs().
Header ==
    /\ pc = "headers" /\ line # NULL /\ line # End /\ ~Unended(line)
    /\ LET h == text.lines[line]
       IN  IF h.kind = "Content-Type" /\ ~Malformed(h)
           THEN /\ resp' = [resp EXCEPT !.is_sdp = (h.value = SDP)]
                /\ GoOn("content", line)
           ELSE /\ resp' = Record(h)
                /\ IF Malformed(h) THEN GoOn("respond", line)
                                   ELSE GoOn("headers", NextLine(line))
    /\ UNCHANGED <<text, sdp, media, sdp_info, uri>>

HeadersEnd ==
    /\ pc = "headers"
    /\ \/ line \in {NULL, End} /\ Return
       \/ line \notin {NULL, End} /\ Unended(line) /\ Fault

\* Mutant: a length that sscanf() cannot read is passed over.
ContentUnchecked ==
    /\ pc = "content"
    /\ LET next == NextLine(line)
           begins == KindAt(next) = "Content-Length" /\ ValueAt(next) = Long
       IN  \/ next = NULL /\ Fault
           \/ /\ next # NULL /\ begins /\ next + 1 = End /\ ~text.ended
              /\ Return
           \/ /\ next # NULL /\ ~(begins /\ next + 1 = End /\ ~text.ended)
              /\ resp' = [resp EXCEPT !.sdp_info = IF begins /\ resp.is_sdp THEN TheSdp ELSE @]
              /\ sdp' = [sdp EXCEPT !.state = IF begins /\ resp.is_sdp THEN "live" ELSE @]
              /\ GoOn(IF begins /\ resp.is_sdp THEN "sdp" ELSE "content",
                      IF begins THEN next + 1 ELSE next)
              /\ UNCHANGED <<text, media, sdp_info, uri>>

\* One turn of the loop in parse_hdr_content(): the description begins with the
\* line after Content-Length, be that the empty one or another header.  When
\* the loop finds no description it runs off the headers.
Content ==
    /\ pc = "content"
    /\ LET next == NextLine(line)
           begins == next # NULL /\ KindAt(next) = "Content-Length" /\ ValueAt(next) = Long
           unread == next # NULL /\ KindAt(next) = "Content-Length" /\ ValueAt(next) = 0
       IN  \/ next = NULL /\ Fault
           \/ unread /\ Return
           \/ /\ begins /\ next + 1 = End /\ ~text.ended
              /\ Return
           \/ /\ begins /\ resp.is_sdp /\ (next + 1 # End \/ text.ended)
              /\ resp' = [resp EXCEPT !.sdp_info = TheSdp]
              /\ sdp' = [sdp EXCEPT !.state = "live"]
              /\ GoOn("sdp", next + 1)
              /\ UNCHANGED <<text, media, sdp_info, uri>>
           \/ /\ begins /\ ~resp.is_sdp /\ (next + 1 # End \/ text.ended)
              /\ GoOn("content", next + 1)
              /\ UNCHANGED <<text, resp, sdp, media, sdp_info, uri>>
           \/ /\ next # NULL /\ ~begins /\ ~unread
              /\ GoOn("content", next)
              /\ UNCHANGED <<text, resp, sdp, media, sdp_info, uri>>

-----------------------------------------------------------------------------
(* The description                                                         *)

\* parse_sdp_info() returns -1 and parse_hdr_content() frees the description.
SdpFails ==
    /\ sdp' = [sdp EXCEPT !.state = "freed"]
    /\ pc' = "respond"
    /\ UNCHANGED <<text, line, resp, media, sdp_info, uri>>

MediaOf(kind) == IF kind = "m=video" THEN Video ELSE Audio

\* One turn of the outer loop of parse_sdp_info().
SdpLine ==
    /\ pc = "sdp" /\ line # NULL
    /\ LET kind == KindAt(line)
       IN  \/ kind = "v=" /\ ValueAt(line) # 0 /\ SdpFails
           \/ /\ kind \in {"m=video", "m=audio"}
              /\ IF ValueAt(line) = 0 THEN SdpFails
                 ELSE /\ media' = MediaOf(kind)
                      /\ sdp' = [sdp EXCEPT !.enable = @ \cup {MediaOf(kind)}]
                      /\ GoOn("attributes", line)
                      /\ UNCHANGED <<text, resp, sdp_info, uri>>
           \/ /\ kind \notin {"m=video", "m=audio"} /\ ~(kind = "v=" /\ ValueAt(line) # 0)
              /\ GoOn("sdp", NextLine(line))
              /\ UNCHANGED <<text, resp, sdp, media, sdp_info, uri>>

SdpEnds == pc = "sdp" /\ line = NULL /\ Return

\* Mutant: the line that ends the attributes is skipped.
AttributeSkips ==
    /\ pc = "attributes"
    /\ LET next == NextLine(line)
           kind == KindAt(next)
       IN  /\ next # NULL
           /\ sdp' = IF kind = "a=control"
                     THEN [sdp EXCEPT !.control[media] = Append(@, ValueAt(next))] ELSE sdp
           /\ IF kind \in {"a=rtpmap", "a=control", "b=AS"}
              THEN GoOn("attributes", next) ELSE GoOn("sdp", NextLine(next))
           /\ UNCHANGED <<text, resp, media, sdp_info, uri>>

\* Mutant: the line before it is read again.
AttributeBackTooFar ==
    /\ pc = "attributes" /\ NextLine(line) # NULL
    /\ IF KindAt(NextLine(line)) \in {"a=rtpmap", "a=control", "b=AS"}
       THEN GoOn("attributes", NextLine(line)) ELSE GoOn("sdp", line)
    /\ UNCHANGED <<text, resp, sdp, media, sdp_info, uri>>

\* One turn of the inner loop: the attributes that follow the m= line without
\* a line of another kind in between.  That line is read again by SdpLine.
Attribute ==
    /\ pc = "attributes"
    /\ LET next == NextLine(line)
           kind == KindAt(next)
       IN  \/ next = NULL /\ Fault
           \/ /\ next # NULL /\ kind \in {"a=rtpmap", "a=control"} /\ ValueAt(next) = 0
              /\ SdpFails
           \/ /\ next # NULL /\ kind = "a=control" /\ ValueAt(next) # 0
              /\ sdp' = [sdp EXCEPT !.control[media] = Append(@, ValueAt(next))]
              /\ GoOn("attributes", next)
              /\ UNCHANGED <<text, resp, media, sdp_info, uri>>
           \/ /\ next # NULL /\ \/ kind = "b=AS"
                                \/ kind = "a=rtpmap" /\ ValueAt(next) # 0
              /\ GoOn("attributes", next)
              /\ UNCHANGED <<text, resp, sdp, media, sdp_info, uri>>
           \/ /\ next # NULL /\ kind \notin {"a=rtpmap", "a=control", "b=AS"}
              /\ GoOn("sdp", next)
              /\ UNCHANGED <<text, resp, sdp, media, sdp_info, uri>>

-----------------------------------------------------------------------------
(* The session                                                             *)

\* run_rtsp_state_machine() for todo = DESCRIBE, after which rtsp_resp is
\* freed and handling_state is back at INIT.
Respond ==
    /\ pc = "respond"
    /\ sdp_info' = IF resp.cseq = CurCSeq THEN resp.sdp_info ELSE sdp_info
    /\ pc' = IF sdp_info' = NULL THEN "done" ELSE "setup"
    /\ UNCHANGED <<text, line, resp, sdp, media, uri>>

\* make_rtsp_uri(): the first control attribute of the medium.
Track(m) == IF sdp.control[m] = << >> THEN DefaultTrack ELSE Head(sdp.control[m])

\* The SETUPs of the media of the description; freed memory is no description.
Setup ==
    /\ pc = "setup"
    /\ \/ sdp.state = "freed" /\ Fault
       \/ /\ sdp.state = "live"
          /\ uri' = [m \in Media |-> IF m \in sdp.enable THEN Track(m) ELSE NoTrack]
          /\ pc' = "done"
          /\ UNCHANGED <<text, line, resp, sdp, media, sdp_info>>

Next ==
    \/ StatusLine \/ Header \/ HeadersEnd \/ Content
    \/ SdpLine \/ SdpEnds \/ Attribute
    \/ Respond \/ Setup

\* The thread runs until the response is handled.
Spec == Init /\ [][Next]_vars /\ WF_vars(Next)
-----------------------------------------------------------------------------
(* What the text says, whatever order it is read in                        *)

First(S) == CHOOSE i \in S : \A j \in S : i <= j
Latest(S) == CHOOSE i \in S : \A j \in S : j <= i

Kind(i) == text.lines[i].kind
Value(i) == text.lines[i].value
Accepted == Value(1) # 0

\* The headers, and those that parse_resp_hdrs() gets to: it returns at the
\* first one that is malformed, and at Content-Type.
Headers == {i \in 2..Len(text.lines) : \A j \in 2..i : text.lines[j] # Blank}
Stops(i) == Kind(i) = "Content-Type" \/ Malformed(text.lines[i])
Seen == {i \in Headers : Accepted /\ \A j \in Headers : j < i => ~Stops(j)}

\* The Content-Lengths behind the Content-Type that are long or cannot be read.  If
\* the type is SDP, and the first of them can be read, the description is what follows
\* it: the empty line, or another header, and all up to the next empty line.
Typed == \E i \in Seen : Kind(i) = "Content-Type" /\ Value(i) # 0
IsSdp == \E i \in Seen : Kind(i) = "Content-Type" /\ Value(i) = SDP
GivesLength(i) == Kind(i) = "Content-Length" /\ Value(i) \in {0, Long}
Lengths == {i \in Headers :
                GivesLength(i) /\ \E j \in Seen : Kind(j) = "Content-Type" /\ j < i}
Description ==
    LET first == First(Lengths)
        given == IsSdp /\ Lengths # {} /\ Value(first) = Long
    IN  {i \in DOMAIN text.lines :
            given /\ first < i /\ \A j \in (first + 2)..i : text.lines[j] # Blank}

\* Line i is the m= line of medium m or an attribute right behind it.
Attributes == {"a=rtpmap", "a=control", "b=AS"}
Belongs(i, m) ==
    \E j \in Description :
        /\ j <= i /\ Kind(j) \in {"m=video", "m=audio"} /\ MediaOf(Kind(j)) = m
        /\ \A k \in (j + 1)..i : Kind(k) \in Attributes

\* The lines that make the description fail.
Bad == {i \in Description :
           \/ Kind(i) = "v=" /\ Value(i) # 0
           \/ Kind(i) \in {"m=video", "m=audio"} /\ Value(i) = 0
           \/ /\ Kind(i) \in {"a=rtpmap", "a=control"} /\ Value(i) = 0
              /\ \E m \in Media : Belongs(i, m)}

Controls(m) == {i \in Description : Kind(i) = "a=control" /\ Belongs(i, m)}
CSeqs == {i \in Seen : Kind(i) = "CSeq" /\ Value(i) # 0}
Transports == {i \in Seen : Kind(i) = "Transport"}

Parsed == pc = "respond"

\* A Transport that names its protocol first, and once, is read in full: the
\* ports of UDP or the channels of TCP.
TransportRead(i) ==
    LET f == text.lines[i].fields
        named == {j \in DOMAIN f : f[j] \in {"RTP/AVP", "RTP/AVP/TCP"}}
        ports == IF f[1] = "RTP/AVP" THEN {"client_port", "server_port"} ELSE {"interleaved"}
    IN  named = {1} /\ ~Malformed(text.lines[i]) =>
            /\ resp.transport.intlvd = (f[1] = "RTP/AVP/TCP")
            /\ resp.transport.read = {f[j] : j \in DOMAIN f} \cap ports

\* The answer is taken for the one that is awaited exactly when its CSeq comes before
\* Content-Type and before the first header that ends the parsing: a CSeq without a
\* number, an empty Date, Public or Content-Type, a Session that is not made of digits,
\* a Transport that does not begin with "Transport: " or whose ports, or channels under
\* TCP, are no two numbers.  The session ID, and the Transport if there is one only,
\* are kept likewise (parser.c:222-274, 299-344).
HeadersUnderstood ==
    Parsed =>
        /\ resp.cseq = IF CSeqs = {} THEN 0 ELSE Value(Latest(CSeqs))
        /\ resp.sess_id # 0 <=> \E i \in Seen : Kind(i) = "Session" /\ Value(i) # 0
        /\ \A i \in Transports : Transports = {i} => TransportRead(i)

\* Each medium of a description that the session takes is set up, and asked for by
\* the first control attribute of its section if nothing but a=rtpmap and b=AS
\* comes between the m= line and it; any other line hides it, and a default is
\* asked for (parser.c:120-158, rtsp_method.c:116-143).
SetupAsksForControl ==
    pc = "done" /\ sdp_info # NULL =>
        \A m \in Media :
            uri[m] = IF \A i \in Description : ~Belongs(i, m) THEN NoTrack
                     ELSE IF Controls(m) = {} THEN DefaultTrack ELSE Value(First(Controls(m)))

\* Content-Type, and neither a description nor a Content-Length that cannot be read or
\* ends the text without a line end.
RunsOffHeaders ==
    /\ Typed /\ (IsSdp => Lengths = {})
    /\ ~\E i \in Lengths : Value(i) = 0 \/ (i = Len(text.lines) /\ ~text.ended)

\* A description that ends within the attributes of a medium.
EndsInside ==
    Bad = {} /\ \E i \in Description, m \in Media : Belongs(i, m) /\ NextLine(i) = NULL

\* A description that fails in the answer that is awaited.
KeepsFreed == Bad # {} /\ CSeqs # {} /\ Value(Latest(CSeqs)) = CurCSeq

\* A Transport at the very end.
RunsOffTransport == \E i \in Seen : Unended(i)

\* A second length hides a third right behind it when there is no description.
OneLength == \A i, j \in DOMAIN text.lines : GivesLength(i) /\ GivesLength(j) => i = j

\* The only texts that make the client touch what is no text or no memory of its
\* own are those four (parser.c:187-209, 120-158, 265, rtsp_cli.c:428-430).
Astray == RunsOffHeaders \/ EndsInside \/ KeepsFreed \/ RunsOffTransport
FaultsExactly ==
    pc \in {"fault", "done"} /\ (IsSdp \/ OneLength) => (pc = "fault" <=> Astray)

\* The response is handled or the client has failed: the loop that goes back
\* by one character to read a line again gets past it (parser.c:148-156).
ReadsToTheEnd == <>(pc \in {"done", "fault"})
=============================================================================
