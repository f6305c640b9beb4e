---------------------------- MODULE MCRespParser ----------------------------
(***************************************************************************)
(* Responses for TLC: one description below every order of some headers,   *)
(* every short description below the headers as they should be, and every  *)
(* short Transport; each with and without an end of its last line.         *)
(***************************************************************************)
EXTENDS RespParser, SequencesExt

CONSTANTS MaxHeaders, MaxBody, MaxFields

Ok == Line("RTSP/1.0", 1)
Refusal == Line("RTSP/1.0", 0)

HeaderLines == {Line("CSeq", 1), Line("CSeq", 2), Line("Session", SomeId), Line("Date", 0),
                Line("Content-Type", SDP), Line("Content-Type", 2),
                Line("Content-Length", Long), Line("Content-Length", 2),
                Line("Content-Length", 0)}
\* The headers that may be unreadable, and ones that are not.
OtherLines == {Line(k, 0) : k \in {"CSeq", "Date", "Session", "Public", "Transport",
                                   "Content-Type"}}
              \cup {Line("CSeq", 1), Line("Session", SomeId), Line("Public", 1),
                    Line("Header", 0), Line("Content-Type", SDP)}
BodyLines == {Line("v=", 1), Line("m=video", 1), Line("m=audio", 1), Line("m=audio", 0),
              Line("a=rtpmap", 1), Line("a=control", 0), Line("a=control", 1),
              Line("a=control", 2), Line("x=", 0), Blank}

GoodHeaders == <<Line("CSeq", 1), Line("Content-Type", SDP), Line("Content-Length", Long)>>
GoodBody == <<Line("m=video", 1), Line("a=control", 1)>>

\* The orders in which some of the headers come, each once.
HeaderOrders == {h \in SeqOf(HeaderLines, MaxHeaders) : IsInjective(h)}

TextLines ==
    {<<Ok>> \o h \o b : h \in HeaderOrders, b \in {<< >>, <<Blank>> \o GoodBody}}
    \cup {<<Ok>> \o h : h \in [1..2 -> OtherLines]}
    \cup {<<Refusal>> \o GoodHeaders}
    \cup {<<Ok>> \o GoodHeaders \o <<Blank>> \o b : b \in SeqOf(BodyLines, MaxBody)}
    \cup {<<Ok, Line("CSeq", 1), Transport(f)>> : f \in SeqOf(Fields, MaxFields)}

MCTexts ==
    [lines : TextLines, ended : {TRUE}]
    \cup [lines : {s \in TextLines : s[Len(s)] # Blank}, ended : {FALSE}]
=============================================================================
