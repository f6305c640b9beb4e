---------------------------- MODULE MCRtpFrame -----------------------------
(***************************************************************************)
(* Values of RtpFrame's constants for TLC: an IDR frame of a parameter set *)
(* and a picture in fragments, and P frames in fragments and in one piece. *)
(***************************************************************************)
EXTENDS RtpFrame

Nalu(t, n) == [type |-> t, parts |-> n]

Idr      == <<Nalu(7, 1), Nalu(5, 2)>>
InTwo    == <<Nalu(1, 2)>>
InOne    == <<Nalu(1, 1)>>

Three    == <<InTwo, Idr, InOne>>

AllKinds  == {"audio", "other"}
AllFaults == {"loss", "dup", "reorder", "reset"}
=============================================================================
