---------------------------- MODULE RtspProtocol ---------------------------
(***************************************************************************)
(* What a session promises its application about the RTSP state machine,   *)
(* without messages, queues, threads or time: it learns what the server    *)
(* supports and what it streams, asks for every medium of the one          *)
(* description, becomes ready only when no medium is left to ask for, and  *)
(* plays only once ready. A lost connection takes it back to the start,    *)
(* with nothing remembered.                                                *)
(***************************************************************************)
CONSTANTS Media, Methods, NULL

VARIABLES
  phase,       \* "INIT", "READY" or "PLAYING"
  caps,        \* methods the server is known to support
  described,   \* media of the session description, NULL before there is one
  requested,   \* media whose SETUP has been prepared
  alive        \* the session has not ended

pvars == <<phase, caps, described, requested, alive>>

PInit ==
  /\ phase = "INIT" /\ caps = {} /\ described = NULL /\ requested = {}
  /\ alive = TRUE

LearnMethods ==
  /\ alive
  /\ \E new \in SUBSET Methods : caps' = caps \cup new
  /\ UNCHANGED <<phase, described, requested, alive>>

\* A description may replace another only before its media are asked for.
Describe ==
  /\ alive /\ phase = "INIT"
  /\ requested = {}
  /\ described' \in {NULL} \cup SUBSET Media
  /\ UNCHANGED <<phase, caps, requested, alive>>

RequestMedium ==
  /\ alive /\ phase = "INIT" /\ "SETUP" \in caps
  /\ described # NULL
  /\ \E i \in described \ requested : requested' = requested \cup {i}
  /\ UNCHANGED <<phase, caps, described, alive>>

BecomeReady ==
  /\ alive /\ phase = "INIT"
  /\ described # NULL /\ described \subseteq requested
  /\ phase' = "READY"
  /\ UNCHANGED <<caps, described, requested, alive>>

Play ==
  /\ alive /\ phase = "READY"
  /\ phase' = "PLAYING"
  /\ UNCHANGED <<caps, described, requested, alive>>

Drop ==
  /\ alive
  /\ phase' = "INIT" /\ caps' = {} /\ described' = NULL /\ requested' = {}
  /\ alive' \in BOOLEAN

End == alive /\ alive' = FALSE /\ UNCHANGED <<phase, caps, described, requested>>

PNext ==
  LearnMethods \/ Describe \/ RequestMedium \/ BecomeReady \/ Play \/ Drop \/ End

PSpec == PInit /\ [][PNext]_pvars
=============================================================================
