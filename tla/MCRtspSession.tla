--------------------------- MODULE MCRtspSession ---------------------------
(***************************************************************************)
(* Values of RtspSession's constants for TLC. The runs differ in what may  *)
(* go wrong, in what the server offers, and in whether the application     *)
(* closes the channel.                                                     *)
(***************************************************************************)
EXTENDS RtspSession

\* PAUSE stands for the methods the client knows and never sends.
Full    == {"OPTIONS", "DESCRIBE", "SETUP", "PLAY", "PAUSE", "TEARDOWN"}
NoPlay  == {"OPTIONS", "DESCRIBE", "SETUP"}

AllMethods  == {Full}
AnyMethods  == {{}, {"PAUSE"}, NoPlay, Full}
Both        == {Media}
VideoOnly   == {{0}}
AnyMedia    == {NULL, {}, {0}, Media}

NoFault     == {}
Lossy       == FaultKinds \ {"error"}
Refusing    == {"error", "fin"}
Deadly      == {"refuse", "fin", "io", "mute", "rst"}
=============================================================================
