---------------------------- MODULE RtspSession ----------------------------
(***************************************************************************)
(* One RTSP session of librtspcli: the session thread T (rtsp_sess_thrd    *)
(* and all it calls), the application thread U that calls close_chn() on   *)
(* the same struct rtsp_sess without a lock, the RTSP server and the TCP   *)
(* connection between them.                                                *)
(*                                                                         *)
(* T is cut into one action per stretch of code between two accesses to a  *)
(* field that U also writes (todo, handling_state, cur_cseq, send_queue).  *)
(* Text, addresses, UDP ports and RTP data are abstracted away: a request  *)
(* is its method, CSeq and media; a response adds what the state machine   *)
(* reads from it.                                                          *)
(***************************************************************************)
EXTENDS Integers, Sequences, FiniteSets

CONSTANTS
  KEEPALIVE_CNT,  \* unanswered keepalives after which the session is dead
  CSEQ_MOD,       \* cur_cseq is unsigned: 2^32 in the code
  Publics,        \* method sets the server's Public header may name
  Sdps,           \* media sets its session description may enable, or NULL
  Faults,         \* the kinds of fault that may happen
  MaxFaults,      \* how many faults may happen
  Closes,         \* may the application call close_chn()?
  Prompt,         \* does every answer arrive within a keepalive interval?
  NULL

Media   == {0, 1}                \* MEDIA_TYPE_VIDEO, MEDIA_TYPE_AUDIO
Methods == {"OPTIONS", "DESCRIBE", "SETUP", "PLAY", "PAUSE", "GET_PARAMETER",
            "SET_PARAMETER", "TEARDOWN"}
Sent    == {"OPTIONS", "DESCRIBE", "SETUP", "PLAY", "TEARDOWN"}
CSeqs   == 0 .. CSEQ_MOD - 1
Counts  == 0 .. KEEPALIVE_CNT
FaultCounts == 0 .. MaxFaults
FaultKinds == {"refuse", "abort", "fin", "rst", "error", "mute", "io",
               "short", "nomem"}

ASSUME KeepaliveAssumption == KEEPALIVE_CNT \in Nat \ {0}
ASSUME CSeqAssumption      == CSEQ_MOD \in Nat /\ CSEQ_MOD > 1
ASSUME PublicsAssumption   == Publics \subseteq SUBSET Methods
ASSUME SdpsAssumption      == Sdps \subseteq {NULL} \cup SUBSET Media
ASSUME NullAssumption     == \A s \in Media \cup SUBSET Media : NULL # s
ASSUME FaultAssumption     == Faults \subseteq FaultKinds /\ MaxFaults \in Nat
ASSUME SwitchAssumption    == Closes \in BOOLEAN /\ Prompt \in BOOLEAN

VARIABLES
  \* the control state of T
  pc,             \* where T stands
  req,            \* the request T is building, or NULL
  evs,            \* the events epoll_wait() reported on the RTSP socket
  reconn,         \* T's local flag of that name
  \* struct rtsp_sess
  enable, todo, handling, rtsp_state, cur_cseq, supported, sdp_info,
  rtp_enable, keepalive_cnt, send_queue,
  due,            \* KEEPALIVE_INTVL has passed since last_keepalive
  \* the connection
  conn,           \* "none", "up", "fin" (the server closed) or "rst"
  edge,           \* an edge-triggered EPOLLIN is pending
  out,            \* EPOLLOUT is asked for
  c2s, s2c,       \* requests and responses in flight
  \* the server
  srvSetup,       \* media it has set up on this connection
  mute,           \* it has stopped answering
  \* U, inside close_chn()
  upc, ucseq,
  \* history
  faults,         \* faults so far
  clean           \* the last reconnection left no request in send_queue

thread   == <<pc, req, evs, reconn>>
session  == <<enable, todo, handling, rtsp_state, cur_cseq, supported,
              sdp_info, rtp_enable, keepalive_cnt, send_queue, due>>
network  == <<conn, edge, out, c2s, s2c>>
server   == <<srvSetup, mute>>
user     == <<upc, ucseq>>
history  == <<faults, clean>>
vars     == <<thread, session, network, server, user, history>>

Requests  == [method : Sent, cseq : CSeqs, media : Media \cup {NULL}]
Responses == [method : Sent, cseq : CSeqs, ok : BOOLEAN,
              caps : SUBSET Methods, sdp : {NULL} \cup SUBSET Media]
RequestQueues  == Seq(Requests)
ResponseQueues == Seq(Responses)

ThreadTypes ==
  /\ pc \in {"connect", "loop", "dispatch", "number", "append", "sendq",
             "wait", "teardown", "handle", "settle", "done"}
  /\ req \in Requests \cup {NULL}
  /\ pc \in {"number", "append"} => req \in Requests
  /\ evs \subseteq {"IN", "OUT"}
  /\ reconn \in BOOLEAN

SessionTypes ==
  /\ enable \in BOOLEAN
  /\ todo \in Sent \cup {"NONE"}
  /\ handling \in {"INIT", "DOING"}
  /\ rtsp_state \in {"INIT", "READY", "PLAYING"}
  /\ cur_cseq \in CSeqs
  /\ supported \subseteq Methods
  /\ sdp_info \in {NULL} \cup SUBSET Media
  /\ rtp_enable \subseteq Media
  /\ keepalive_cnt \in Counts
  /\ send_queue \in RequestQueues
  /\ due \in BOOLEAN

NetworkTypes ==
  /\ conn \in {"none", "up", "fin", "rst"}
  /\ edge \in BOOLEAN
  /\ out \in BOOLEAN
  /\ c2s \in RequestQueues
  /\ s2c \in ResponseQueues
  /\ srvSetup \subseteq Media
  /\ mute \in BOOLEAN

OtherTypes ==
  /\ upc \in {"idle", "handling", "load", "store", "append", "closed"}
  /\ ucseq \in CSeqs
  /\ faults \in FaultCounts
  /\ clean \in BOOLEAN

TypeOK == ThreadTypes /\ SessionTypes /\ NetworkTypes /\ OtherTypes

\* create_rtsp_sess() has run and the thread has just started.
Init ==
  /\ pc = "connect" /\ req = NULL /\ evs = {} /\ reconn = FALSE
  /\ enable = TRUE /\ todo = "NONE" /\ handling = "INIT"
  /\ rtsp_state = "INIT" /\ cur_cseq = 0 /\ supported = {}
  /\ sdp_info = NULL /\ rtp_enable = {} /\ keepalive_cnt = 0
  /\ send_queue = <<>> /\ due = TRUE
  /\ conn = "none" /\ edge = FALSE /\ out = FALSE /\ c2s = <<>> /\ s2c = <<>>
  /\ srvSetup = {} /\ mute = FALSE
  /\ upc = "idle" /\ ucseq = 0
  /\ faults = 0 /\ clean = TRUE

Fault(kind) == kind \in Faults /\ faults < MaxFaults /\ faults' = faults + 1

NextCSeq(n) == (n + 1) % CSEQ_MOD            \* sess_cseq()

\* Data or an end of file that recv() would return at once.
Readable == s2c # <<>> \/ conn = "fin"

\* EPOLL_CTL_MOD re-arms an edge-triggered event that is still ready.
Rearm == edge' = (edge \/ Readable)

-----------------------------------------------------------------------------
(* Connecting, and the outer loop of rtsp_sess_thrd().                     *)

Connect ==
  /\ pc = "connect"
  /\ pc' = "loop" /\ reconn' = FALSE
  /\ conn' = "up" /\ edge' = FALSE /\ out' = FALSE /\ c2s' = <<>> /\ s2c' = <<>>
  /\ srvSetup' = {}
  /\ UNCHANGED <<req, evs, session, mute, user, history>>

\* Mutants: a field that the reset forgets.
ResetKeepsTodo     == handling' = "INIT" /\ UNCHANGED todo
ResetKeepsHandling == todo' = "NONE" /\ UNCHANGED handling
KeepTransports     == sdp_info' = NULL /\ UNCHANGED rtp_enable

ResetHandling == handling' = "INIT" /\ todo' = "NONE"
ForgetMedia   == sdp_info' = NULL /\ rtp_enable' = {}

\* cleanup_before_reconn(): neither send_queue nor enable is touched.
Cleanup ==
  /\ ResetHandling /\ ForgetMedia
  /\ rtsp_state' = "INIT" /\ cur_cseq' = 0 /\ supported' = {}
  /\ keepalive_cnt' = 0 /\ due' = TRUE
  /\ conn' = "none" /\ edge' = FALSE /\ out' = FALSE /\ c2s' = <<>> /\ s2c' = <<>>
  /\ clean' = (send_queue = <<>>)
  /\ UNCHANGED <<enable, send_queue, server, user>>

\* `continue' re-tests `enable && reconn' with reconn just set.
ConnectFails ==
  /\ pc = "connect"
  /\ Fault("refuse")
  /\ Cleanup
  /\ pc' = IF enable THEN "connect" ELSE "done"
  /\ reconn' = TRUE
  /\ UNCHANGED <<req, evs>>

\* epoll_create(), socket(), set_block_mode() or EPOLL_CTL_ADD failed: rtn.
ConnectAborts ==
  /\ pc = "connect"
  /\ Fault("abort")
  /\ pc' = "done"
  /\ conn' = "none" /\ edge' = FALSE /\ out' = FALSE /\ c2s' = <<>> /\ s2c' = <<>>
  /\ UNCHANGED <<req, evs, reconn, session, server, user, clean>>

\* The loop ends and destroy_rtsp_sess() closes the socket and frees sessp.
LoopExits ==
  /\ pc = "loop" /\ ~enable
  /\ pc' = "done"
  /\ conn' = "none" /\ edge' = FALSE /\ out' = FALSE /\ c2s' = <<>> /\ s2c' = <<>>
  /\ UNCHANGED <<req, evs, reconn, session, server, user, history>>

LoopReconnects ==
  /\ pc = "loop" /\ enable /\ reconn
  /\ Cleanup
  /\ pc' = "connect"
  /\ UNCHANGED <<req, evs, reconn, faults>>

-----------------------------------------------------------------------------
(* single_step(): start_playing(), the keepalive, and the send queue.      *)

Stepping == pc = "loop" /\ enable /\ ~reconn

\* What start_playing() writes to todo.
NextMethod ==
  IF supported = {} THEN "OPTIONS"
  ELSE IF rtsp_state = "READY" THEN "PLAY"
  ELSE IF sdp_info = NULL THEN "DESCRIBE"
  ELSE "SETUP"

AnyTime == TRUE                  \* mutant: handling_state is not looked at
MayAsk  == handling = "INIT"

StartPlaying ==
  /\ Stepping /\ rtsp_state # "PLAYING" /\ MayAsk
  /\ todo' = NextMethod
  /\ pc' = "dispatch"
  /\ UNCHANGED <<req, evs, reconn, enable, handling, rtsp_state, cur_cseq,
                 supported, sdp_info, rtp_enable, keepalive_cnt, send_queue,
                 due, network, server, user, history>>

\* Nothing to send in this round.
\* Mutant: a keepalive waits for the answer to the last.
DueOnceAnswered == due /\ MayAsk
KeepaliveDue    == due

AwaitAnswer ==
  /\ Stepping
  /\ IF rtsp_state = "PLAYING" THEN ~KeepaliveDue ELSE ~MayAsk
  /\ pc' = "sendq"
  /\ UNCHANGED <<req, evs, reconn, session, network, server, user, history>>

Building(m) == [method |-> m, cseq |-> 0, media |-> NULL]

\* send_method[sessp->todo](sessp), where todo is read a second time; a
\* method the server does not support is skipped in silence.
Dispatch ==
  /\ pc = "dispatch"
  /\ IF todo \in {"OPTIONS", "TEARDOWN"} \cup supported
     THEN handling' = "DOING" /\ req' = Building(todo) /\ pc' = "number"
     ELSE pc' = "sendq" /\ UNCHANGED <<handling, req>>
  /\ UNCHANGED <<evs, reconn, enable, todo, rtsp_state, cur_cseq, supported,
                 sdp_info, rtp_enable, keepalive_cnt, send_queue, due, network,
                 server, user, history>>

\* Mutant: the limit is off by one.
ExhaustedLate == keepalive_cnt > KEEPALIVE_CNT

Exhausted     == keepalive_cnt >= KEEPALIVE_CNT
Count         == keepalive_cnt' = keepalive_cnt + 1

Keepalive ==
  /\ Stepping /\ rtsp_state = "PLAYING" /\ KeepaliveDue /\ ~Exhausted
  /\ todo' = "OPTIONS" /\ handling' = "DOING"
  /\ req' = Building("OPTIONS")
  /\ due' = FALSE /\ Count
  /\ pc' = "number"
  /\ UNCHANGED <<evs, reconn, enable, rtsp_state, cur_cseq, supported,
                 sdp_info, rtp_enable, send_queue, network, server, user,
                 history>>

DeclareDead ==
  /\ Stepping /\ rtsp_state = "PLAYING" /\ KeepaliveDue /\ Exhausted
  /\ keepalive_cnt' = 0 /\ reconn' = TRUE
  /\ UNCHANGED <<pc, req, evs, enable, todo, handling, rtsp_state, cur_cseq,
                 supported, sdp_info, rtp_enable, send_queue, due, network,
                 server, user, history>>

\* The first enabled media without a transport yet, NULL if there is none.
NextMedia ==
  IF sdp_info = NULL \/ sdp_info \subseteq rtp_enable THEN NULL
  ELSE CHOOSE i \in sdp_info \ rtp_enable :
         \A j \in sdp_info \ rtp_enable : i <= j

\* sess_cseq() and the filling of the request. SETUP enables its media here.
\* alloc_rtsp_req() may fail after CSeq and handling_state have moved.
Number ==
  /\ pc = "number"
  /\ cur_cseq' = NextCSeq(cur_cseq)
  /\ \/ /\ LET m == IF req.method = "SETUP" THEN NextMedia ELSE NULL IN
             /\ req' = [req EXCEPT !.cseq = cur_cseq', !.media = m]
             /\ rtp_enable' = rtp_enable \cup ({m} \ {NULL})
        /\ pc' = IF req.method = "SETUP" /\ sdp_info = NULL
                 THEN "sendq" ELSE "append"
        /\ UNCHANGED faults
     \/ /\ Fault("nomem")
        /\ req' = NULL /\ pc' = "sendq"
        /\ UNCHANGED rtp_enable
  /\ UNCHANGED <<evs, reconn, enable, todo, handling, rtsp_state, supported,
                 sdp_info, keepalive_cnt, send_queue, due, network, server,
                 user, clean>>

\* produce_rtsp_req(): list_add_tail() to send_queue, unless no memory is left.
AppendRequest ==
  /\ pc = "append"
  /\ \/ send_queue' = Append(send_queue, req) /\ UNCHANGED faults
     \/ Fault("nomem") /\ UNCHANGED send_queue
  /\ req' = NULL
  /\ pc' = "sendq"
  /\ UNCHANGED <<evs, reconn, enable, todo, handling, rtsp_state, cur_cseq,
                 supported, sdp_info, rtp_enable, keepalive_cnt, due, network,
                 server, user, clean>>

\* check_send_queue()
CheckSendQueue ==
  /\ pc = "sendq"
  /\ IF send_queue = <<>>
     THEN pc' = "wait" /\ UNCHANGED <<reconn, out, edge, faults>>
     ELSE \/ /\ out' = TRUE /\ Rearm
             /\ pc' = "wait"
             /\ UNCHANGED <<reconn, faults>>
          \/ /\ Fault("io")
             /\ out' = TRUE /\ reconn' = TRUE /\ pc' = "loop"
             /\ UNCHANGED edge
  /\ UNCHANGED <<req, evs, session, conn, c2s, s2c, server, user, clean>>

\* epoll_wait() returns with what is ready, or after its timeout. An event
\* with EPOLLERR or EPOLLHUP is reported but skipped: no handler runs.
EpollWait ==
  /\ pc = "wait"
  /\ \/ /\ evs' = IF conn = "rst" THEN {}
                  ELSE {e \in {"IN", "OUT"} : IF e = "IN" THEN edge /\ Readable
                                                          ELSE out}
        /\ edge' = FALSE
        /\ pc' = "teardown"
        /\ UNCHANGED <<reconn, faults>>
     \/ /\ Fault("io")
        /\ reconn' = TRUE /\ pc' = "loop"
        /\ UNCHANGED <<evs, edge>>
  /\ UNCHANGED <<req, session, conn, out, c2s, s2c, server, user, clean>>

Drained == send_queue = <<>>

\* The events of the media sockets stand before or after the RTSP socket's in
\* ep_ev; handle_rtp_sd() fails on an error or an empty datagram, which ends the
\* step and the connection.
MediaFails == rtp_enable # {} /\ Fault("io") /\ reconn' = TRUE

TeardownCheck ==
  /\ pc = "teardown"
  /\ enable' = (enable /\ ~(todo = "TEARDOWN" /\ Drained))
  /\ \/ pc' = "handle" /\ UNCHANGED <<evs, reconn, faults>>
     \/ MediaFails /\ evs' = {} /\ pc' = "loop"
  /\ UNCHANGED <<req, todo, handling, rtsp_state, cur_cseq, supported,
                 sdp_info, rtp_enable, keepalive_cnt, send_queue, due, network,
                 server, user, clean>>

-----------------------------------------------------------------------------
(* The handler of the RTSP socket: input first, then output.               *)

HandleNothing ==
  /\ pc = "handle"
  /\ evs = {} \/ (evs = {"OUT"} /\ send_queue = <<>>)
  /\ evs' = {} /\ pc' = "loop"
  /\ MediaFails \/ UNCHANGED <<reconn, faults>>
  /\ UNCHANGED <<req, session, network, server, user, clean>>

\* Mutants: the CSeq is not compared; one SETUP is enough; the answer of a
\* keepalive does not clear the counter.
AnyCSeq(resp)      == TRUE
OneSetUp           == TRUE
KeepaliveForgotten == UNCHANGED keepalive_cnt

CSeqMatches(resp)  == resp.cseq = cur_cseq
AllSetUp           == sdp_info \subseteq rtp_enable
KeepaliveAnswered  == keepalive_cnt' = 0

\* run_rtsp_state_machine(): the answer is taken for one to todo.
RunStateMachine(resp) ==
  IF ~CSeqMatches(resp)
  THEN UNCHANGED <<keepalive_cnt, supported, sdp_info, rtsp_state>>
  ELSE /\ IF todo = "OPTIONS"
          THEN KeepaliveAnswered /\ supported' = supported \cup resp.caps
          ELSE UNCHANGED <<keepalive_cnt, supported>>
       /\ sdp_info' = IF todo = "DESCRIBE" THEN resp.sdp ELSE sdp_info
       /\ rtsp_state' = IF todo = "SETUP" /\ AllSetUp THEN "READY"
                        ELSE IF todo = "PLAY" THEN "PLAYING"
                        ELSE rtsp_state

\* recv() drains the socket. Responses that came together are handed over as
\* one message, of which the parser reads the first.
HandleResponse ==
  /\ pc = "handle" /\ "IN" \in evs /\ s2c # <<>>
  /\ RunStateMachine(Head(s2c))
  /\ s2c' = <<>>
  /\ pc' = "settle"
  /\ UNCHANGED <<req, evs, reconn, enable, todo, handling, cur_cseq,
                 rtp_enable, send_queue, due, conn, edge, out, c2s, server,
                 user, history>>

\* handle_rtsp_resp() ends; then the same event's output.
Settle ==
  /\ pc = "settle"
  /\ handling' = "INIT"
  /\ evs' = evs \ {"IN"}
  /\ pc' = "handle"
  /\ UNCHANGED <<req, reconn, enable, todo, rtsp_state, cur_cseq, supported,
                 sdp_info, rtp_enable, keepalive_cnt, send_queue, due, network,
                 server, user, history>>

\* recv() returned 0 or an error; the output of the event is not looked at.
HandleEof ==
  /\ pc = "handle" /\ "IN" \in evs /\ s2c = <<>>
  /\ reconn' = TRUE /\ evs' = {}
  /\ pc' = "loop"
  /\ UNCHANGED <<req, session, network, server, user, history>>

\* consume_send_buf(): the head leaves the queue whatever send() returned. After
\* a reset send() fails; what it takes for a closed connection is lost.
HandleOut ==
  /\ pc = "handle" /\ evs = {"OUT"} /\ send_queue # <<>>
  /\ evs' = {} /\ pc' = "loop"
  /\ send_queue' = Tail(send_queue)
  /\ out' = FALSE /\ Rearm
  /\ LET delivered ==
           IF conn = "up" THEN Append(c2s, Head(send_queue)) ELSE c2s IN
     \/ c2s' = delivered /\ reconn' = (conn = "rst") /\ UNCHANGED faults
     \/ conn # "rst" /\ Fault("short") /\ UNCHANGED <<c2s, reconn>>
     \/ Fault("io") /\ reconn' = TRUE /\ c2s' \in {c2s, delivered}
  /\ UNCHANGED <<req, enable, todo, handling, rtsp_state, cur_cseq, supported,
                 sdp_info, rtp_enable, keepalive_cnt, due, conn, s2c, server,
                 user, clean>>

-----------------------------------------------------------------------------
(* U calls close_chn(): todo = TEARDOWN, then send_method_teardown().      *)

CloseChn ==
  /\ Closes /\ upc = "idle" /\ pc # "done"
  /\ todo' = "TEARDOWN"
  /\ upc' = "handling"
  /\ UNCHANGED <<thread, enable, handling, rtsp_state, cur_cseq, supported,
                 sdp_info, rtp_enable, keepalive_cnt, send_queue, due, network,
                 server, ucseq, history>>

CloseMarksDoing ==
  /\ upc = "handling"
  /\ handling' = "DOING"
  /\ upc' = "load"
  /\ UNCHANGED <<thread, enable, todo, rtsp_state, cur_cseq, supported,
                 sdp_info, rtp_enable, keepalive_cnt, send_queue, due, network,
                 server, ucseq, history>>

\* ++cur_cseq is a read and a write.
CloseLoadsCSeq ==
  /\ upc = "load"
  /\ ucseq' = NextCSeq(cur_cseq)
  /\ upc' = "store"
  /\ UNCHANGED <<thread, session, network, server, history>>

CloseStoresCSeq ==
  /\ upc = "store"
  /\ cur_cseq' = ucseq
  /\ upc' = "append"
  /\ UNCHANGED <<thread, enable, todo, handling, rtsp_state, supported,
                 sdp_info, rtp_enable, keepalive_cnt, send_queue, due, network,
                 server, ucseq, history>>

CloseAppends ==
  /\ upc = "append"
  /\ \/ /\ send_queue' = Append(send_queue, [method |-> "TEARDOWN",
                                             cseq |-> ucseq, media |-> NULL])
        /\ UNCHANGED faults
     \/ Fault("nomem") /\ UNCHANGED send_queue
  /\ upc' = "closed" /\ ucseq' = 0
  /\ UNCHANGED <<thread, enable, todo, handling, rtsp_state, cur_cseq,
                 supported, sdp_info, rtp_enable, keepalive_cnt, due, network,
                 server, clean>>

-----------------------------------------------------------------------------
(* The server, the network and time.                                       *)

\* A server refuses a SETUP without media and a PLAY with nothing set up.
Acceptable(r) ==
  /\ r.method = "SETUP" => r.media # NULL
  /\ r.method = "PLAY"  => srvSetup # {}

Answer(r, caps, sdp) ==
  [method |-> r.method, cseq |-> r.cseq, ok |-> TRUE,
   caps |-> IF r.method = "OPTIONS" THEN caps ELSE {},
   sdp  |-> IF r.method = "DESCRIBE" THEN sdp ELSE NULL]

\* The parser gives up at a status other than 200, before the CSeq header.
Refusal(r) ==
  [method |-> r.method, cseq |-> 0, ok |-> FALSE, caps |-> {}, sdp |-> NULL]

ServerTakes == conn = "up" /\ ~mute /\ c2s # <<>> /\ c2s' = Tail(c2s)

ServerAnswers ==
  /\ ServerTakes /\ Acceptable(Head(c2s))
  /\ \E caps \in Publics, sdp \in Sdps :
       s2c' = Append(s2c, Answer(Head(c2s), caps, sdp))
  /\ srvSetup' = CASE Head(c2s).method = "SETUP" -> srvSetup \cup {Head(c2s).media}
                   [] Head(c2s).method = "TEARDOWN" -> {}
                   [] OTHER -> srvSetup
  /\ edge' = TRUE
  /\ UNCHANGED <<thread, session, conn, out, mute, user, history>>

ServerRefuses ==
  /\ ServerTakes
  /\ \/ Fault("error")
     \/ ~Acceptable(Head(c2s)) /\ UNCHANGED faults
  /\ s2c' = Append(s2c, Refusal(Head(c2s)))
  /\ edge' = TRUE
  /\ UNCHANGED <<thread, session, conn, out, server, user, clean>>

ServerGoesMute ==
  /\ ~mute /\ Fault("mute")
  /\ mute' = TRUE
  /\ UNCHANGED <<thread, session, network, srvSetup, user, clean>>

ServerCloses ==
  /\ conn = "up" /\ Fault("fin")
  /\ conn' = "fin" /\ edge' = TRUE /\ c2s' = <<>>
  /\ UNCHANGED <<thread, session, out, s2c, server, user, clean>>

ConnectionResets ==
  /\ conn \in {"up", "fin"} /\ Fault("rst")
  /\ conn' = "rst" /\ edge' = TRUE /\ c2s' = <<>>
  /\ UNCHANGED <<thread, session, out, s2c, server, user, clean>>

InFlight == Len(send_queue) + Len(c2s) + Len(s2c)

\* A keepalive interval passes; with Prompt, no answer of a live server is that
\* late.
Late ==
  \/ conn # "rst" /\ s2c # <<>>
  \/ conn = "up" /\ ~mute /\ (InFlight > 0 \/ pc \in {"number", "append"})

Tick ==
  /\ ~due /\ due' = TRUE
  /\ Prompt => ~Late
  /\ UNCHANGED <<thread, enable, todo, handling, rtsp_state, cur_cseq,
                 supported, sdp_info, rtp_enable, keepalive_cnt, send_queue,
                 network, server, user, history>>

-----------------------------------------------------------------------------
SessionThread ==
  \/ Connect \/ LoopExits \/ LoopReconnects
  \/ StartPlaying \/ AwaitAnswer \/ Dispatch \/ Keepalive \/ DeclareDead
  \/ Number \/ AppendRequest \/ CheckSendQueue \/ EpollWait \/ TeardownCheck
  \/ HandleNothing \/ HandleResponse \/ Settle \/ HandleEof \/ HandleOut

CloseRuns ==
  CloseMarksDoing \/ CloseLoadsCSeq \/ CloseStoresCSeq \/ CloseAppends

ServerWorks == ServerAnswers \/ (ServerRefuses /\ UNCHANGED faults)

Environment ==
  \/ ConnectFails \/ ConnectAborts \/ CloseChn
  \/ ServerAnswers \/ ServerRefuses
  \/ ServerGoesMute \/ ServerCloses \/ ConnectionResets \/ Tick

Next == SessionThread \/ CloseRuns \/ Environment

Spec == Init /\ [][Next]_vars

\* Threads are scheduled, a server that is not mute answers and time passes;
\* no fault ever has to happen and close_chn() need not be called.
Fairness ==
  /\ WF_vars(SessionThread)
  /\ WF_vars(CloseRuns)
  /\ WF_vars(ServerWorks)
  /\ WF_vars(Tick)

FairSpec == Spec /\ Fairness

-----------------------------------------------------------------------------
(* Safety.                                                                 *)

\* The application has not called close_chn() and the connection started with
\* an empty send queue: what the state machine takes for granted.
Clean == clean /\ upc = "idle"

Unanswered == InFlight + IF pc \in {"number", "append"} THEN 1 ELSE 0

\* Until the session plays, it has one request outstanding while
\* handling_state is DOING and none while it is INIT: start_playing() never
\* asks again before the answer, across threads, faults and reconnections.
Lockstep ==
  Clean /\ rtsp_state # "PLAYING" =>
    Unanswered <= IF handling = "DOING" THEN 1 ELSE 0

\* run_rtsp_state_machine() moves the session forward only on an OK answer to
\* the SETUP or PLAY it is about, although it looks at todo and never at what
\* was asked. (At cur_cseq = 0, after 2^32 requests, a refusal, which is parsed
\* with CSeq 0, would pass.)
AdvancesOnAnswer ==
  [][Clean /\ cur_cseq # 0 /\ rtsp_state' \notin {rtsp_state, "INIT"} =>
       /\ s2c # <<>> /\ Head(s2c).ok
       /\ Head(s2c).method = IF rtsp_state' = "READY" THEN "SETUP" ELSE "PLAY"
    ]_vars

\* "All media sessions were setup?": when the session is ready or plays, the
\* server has set up every medium of the description on this connection.
MediaSetUp ==
  Clean /\ rtsp_state # "INIT" => sdp_info \subseteq srvSetup

\* run_rtsp_state_machine() dereferences sdp_info whenever todo is SETUP,
\* whichever thread wrote todo and however often the description was freed.
SetupHasDescription == todo = "SETUP" => sdp_info # NULL

\* keepalive_cnt counts keepalives that have no answer yet, so that a server
\* that answers each of them is never declared dead. True of a Prompt server: an
\* answer that comes after the next keepalive is numbered is dropped (line 409).
KeepalivesUnanswered ==
  Clean /\ rtsp_state = "PLAYING" /\ conn = "up" /\ ~reconn =>
    keepalive_cnt <= Unanswered

\* The session implements the protocol it promises its application.
Protocol == INSTANCE RtspProtocol WITH
  phase <- rtsp_state, caps <- supported, described <- sdp_info,
  requested <- rtp_enable, alive <- pc # "done"

ProtocolSpec == Protocol!PSpec

-----------------------------------------------------------------------------
(* The inductive invariant behind the theorems of RtspSessionProofs.       *)

\* What todo, rtsp_state, sdp_info and rtp_enable say of one another, at
\* whatever point close_chn() runs.
ProtocolInv ==
  /\ todo = "SETUP" => sdp_info # NULL /\ rtsp_state # "PLAYING"
  /\ todo = "PLAY" => rtsp_state # "INIT"
  /\ todo = "DESCRIBE" => rtsp_state = "INIT" /\ rtp_enable = {}
  /\ sdp_info = NULL => rtp_enable = {}
  /\ pc = "dispatch" /\ todo = "SETUP" => rtsp_state = "INIT"
  /\ pc = "number" /\ req.method = "SETUP" =>
       /\ rtsp_state = "INIT" /\ sdp_info # NULL /\ "SETUP" \in supported
       /\ todo \in {"SETUP", "TEARDOWN"}

Negotiating == Clean /\ rtsp_state # "PLAYING"

LockstepInv ==
  Negotiating =>
    /\ Unanswered <= IF handling = "DOING" THEN 1 ELSE 0
    /\ pc = "dispatch" => handling = "INIT"
    /\ pc = "settle" => Unanswered = 0

\* Every request of q is for method m under CSeq n; every response answers one
\* (a refusal is parsed with CSeq 0).
Asks(r, m, n)       == r.method = m /\ r.cseq = n
Answers(a, m, n)    == a.method = m /\ a.cseq = IF a.ok THEN n ELSE 0
AllAsk(q, m, n)     == \A i \in 1 .. Len(q) : Asks(q[i], m, n)
AllAnswer(q, m, n)  == \A i \in 1 .. Len(q) : Answers(q[i], m, n)

\* Whatever is outstanding asks for todo, under the current CSeq.
AnswerInv ==
  Negotiating =>
    /\ pc = "number" => req.method = todo
    /\ pc = "append" => Asks(req, todo, cur_cseq)
    /\ AllAsk(send_queue, todo, cur_cseq)
    /\ AllAsk(c2s, todo, cur_cseq)
    /\ AllAnswer(s2c, todo, cur_cseq)

\* The session's inductive invariant, TypeOK aside: on a connection that started
\* clean, nothing but the one answer to todo can ever arrive before it plays.
SessionInv == ProtocolInv /\ LockstepInv /\ AnswerInv

-----------------------------------------------------------------------------
(* Liveness, under FairSpec.                                               *)

\* A session that starts over with nothing left in its queue gets to play, as
\* long as the server answers and the connection is not reset: epoll_wait()'s
\* EPOLLERR is skipped (rtsp_cli.c:145), and nothing times out before PLAYING.
StartsPlaying ==
  (Clean /\ rtsp_state = "INIT")
    ~> (rtsp_state = "PLAYING" \/ ~Clean \/ mute \/ conn = "rst")

\* The keepalive detects a peer that is gone: a session does not play on with
\* a silent server or a reset connection.
DeadPeerDetected ==
  (rtsp_state = "PLAYING" /\ (mute \/ conn = "rst"))
    ~> (rtsp_state # "PLAYING" \/ pc = "done")

\* close_chn() stops the thread.
CloseStops == (upc # "idle") ~> (pc = "done")
=============================================================================
