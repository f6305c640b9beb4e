--------------------------- MODULE MessageStream ---------------------------
(***************************************************************************)
(* What receiving from the RTSP socket should amount to: the messages that *)
(* the server sends on a connection, RTSP responses and interleaved        *)
(* RTP/RTCP packets, are handed to their handlers whole, once each and in  *)
(* the order sent, and nothing else is.                                    *)
(***************************************************************************)
EXTENDS Naturals, Sequences

CONSTANT Messages

VARIABLES
  sent,      \* messages the server sent on this connection
  handed     \* messages handed to the handlers

svars == <<sent, handed>>

SInit == sent = <<>> /\ handed = <<>>

Send ==
  /\ \E m \in Messages : sent' = Append(sent, m)
  /\ UNCHANGED handed

Hand ==
  /\ Len(handed) < Len(sent)
  /\ handed' = Append(handed, sent[Len(handed) + 1])
  /\ UNCHANGED sent

NewConnection == sent' = <<>> /\ handed' = <<>>

SNext == Send \/ Hand \/ NewConnection

SSpec == SInit /\ [][SNext]_svars
=============================================================================
