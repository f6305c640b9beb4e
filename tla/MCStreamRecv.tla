---------------------------- MODULE MCStreamRecv ---------------------------
(***************************************************************************)
(* Values of StreamRecv's constants for TLC: packets whose payload may be  *)
(* a '$', and a response that may be cut between its lines.                *)
(***************************************************************************)
EXTENDS StreamRecv

Video    == <<DOLLAR, 0, 0, 2, 96, DOLLAR>>
Audio    == <<DOLLAR, 2, 0, 1, 8>>
Response == <<82, 84, CR, LF, CR, LF>>
Short    == <<CR, LF, CR, LF>>     \* of a response, how it ends

AllKinds      == {Video, Audio, Response}
OneOfEach     == {Audio, Short}

InPayload     == {"payload"}
InHeader      == {"header"}
InBoth        == {"payload", "response"}
=============================================================================
