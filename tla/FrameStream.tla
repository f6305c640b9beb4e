---------------------------- MODULE FrameStream ----------------------------
(***************************************************************************)
(* What the application is promised: the store_frm callback gets the       *)
(* frames the server sends, complete, of the right type, once and in       *)
(* order. Once a packet has been lost, doubled or reordered, or the        *)
(* connection has gone, frames may be damaged or missing.                  *)
(***************************************************************************)
EXTENDS Naturals, Sequences

CONSTANT Sent       \* the frames, as [data, type] records

VARIABLES
  frames,           \* what store_frm() got
  intact            \* nothing has happened to the packets yet

fvars == <<frames, intact>>

FInit == frames = <<>> /\ intact = TRUE

StoreFrame ==
  /\ intact
  /\ Len(frames) < Len(Sent)
  /\ frames' = Append(frames, Sent[Len(frames) + 1])
  /\ UNCHANGED intact

Damage == intact' = FALSE /\ UNCHANGED frames

StoreDamaged ==
  /\ ~intact
  /\ Len(frames') = Len(frames) + 1
  /\ SubSeq(frames', 1, Len(frames)) = frames
  /\ UNCHANGED intact

FSpec == FInit /\ [][StoreFrame \/ Damage \/ StoreDamaged]_fvars
=============================================================================
