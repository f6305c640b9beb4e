------------------------- MODULE RtspSessionProofs -------------------------
(***************************************************************************)
(* Theorems about RtspSession, for every limit of keepalives, width of the *)
(* CSeq, behaviour of the server, set of faults and number of them.        *)
(***************************************************************************)
EXTENDS RtspSession, TLAPS

\* The media chosen for a SETUP (send_method_setup()) is one of the session's
\* description, or none: the CHOOSE of NextMedia has a witness.
LEMMA NextMediaIsMedia ==
  sdp_info \in {NULL} \cup SUBSET Media =>
    /\ NextMedia \in Media \cup {NULL}
    /\ NextMedia # NULL => sdp_info # NULL /\ NextMedia \in sdp_info \ rtp_enable
<1> SUFFICES ASSUME sdp_info \in {NULL} \cup SUBSET Media
             PROVE  /\ NextMedia \in Media \cup {NULL}
                    /\ NextMedia # NULL =>
                         sdp_info # NULL /\ NextMedia \in sdp_info \ rtp_enable
  OBVIOUS
<1>1. CASE sdp_info = NULL \/ sdp_info \subseteq rtp_enable
  BY <1>1 DEF NextMedia
<1>2. CASE ~(sdp_info = NULL \/ sdp_info \subseteq rtp_enable)
  <2> DEFINE S == sdp_info \ rtp_enable
  <2>1. S \subseteq {0, 1} /\ S # {}
    BY <1>2 DEF Media
  <2>2. \E i \in S : \A j \in S : i <= j
    <3>1. CASE 0 \in S
      BY <2>1, <3>1
    <3>2. CASE 0 \notin S
      BY <2>1, <3>2
    <3> QED BY <3>1, <3>2
  <2>3. NextMedia = CHOOSE i \in S : \A j \in S : i <= j
    BY <1>2 DEF NextMedia
  <2>4. NextMedia \in S
    BY <2>2, <2>3
  <2> QED BY <1>2, <2>1, <2>4 DEF Media
<1> QED BY <1>1, <1>2

\* The counters stay in their ranges; sess_cseq()'s wraps around.
LEMMA Zeros == 0 \in CSeqs /\ 0 \in Counts /\ 0 \in FaultCounts
  BY CSeqAssumption, KeepaliveAssumption, FaultAssumption
  DEF CSeqs, Counts, FaultCounts

\* sess_cseq() stays within the CSeq's width.
LEMMA NextCSeqType == \A n \in CSeqs : NextCSeq(n) \in CSeqs
  BY CSeqAssumption DEF CSeqs, NextCSeq

\* single_step() counts a keepalive only below KEEPALIVE_CNT.
LEMMA CountType ==
  keepalive_cnt \in Counts /\ ~Exhausted /\ Count => keepalive_cnt' \in Counts
  BY KeepaliveAssumption DEF Counts, Exhausted, Count

\* A fault that may still happen keeps the count of faults in its range.
LEMMA FaultType ==
  \A kind : faults \in FaultCounts /\ Fault(kind) => faults' \in FaultCounts
  BY FaultAssumption DEF FaultCounts, Fault

\* What list_add_tail(), list_del() of the head and the network do to queues.
LEMMA QueueTypes ==
  /\ <<>> \in RequestQueues /\ <<>> \in ResponseQueues
  /\ \A q \in RequestQueues, r \in Requests : Append(q, r) \in RequestQueues
  /\ \A q \in ResponseQueues, r \in Responses : Append(q, r) \in ResponseQueues
  /\ \A q \in RequestQueues :
       q # <<>> => Head(q) \in Requests /\ Tail(q) \in RequestQueues
  /\ \A q \in ResponseQueues : q # <<>> => Head(q) \in Responses
  BY DEF RequestQueues, ResponseQueues

\* create_rtsp_sess() leaves a well-typed session.
LEMMA InitType == Init => TypeOK
  BY Zeros, QueueTypes DEF Init, TypeOK, ThreadTypes, SessionTypes, NetworkTypes, OtherTypes

\* Every step of a thread, the server and the network keeps the types.
LEMMA StepType == TypeOK /\ [Next]_vars => TypeOK'
<1> SUFFICES ASSUME TypeOK, [Next]_vars PROVE TypeOK'
  OBVIOUS
<1> USE DEF TypeOK, thread, session, network, server, user, history
<1>1. CASE Connect
  <2>1. ThreadTypes'
    BY <1>1 DEF ThreadTypes, Connect
  <2>2. SessionTypes'
    BY <1>1, QueueTypes DEF SessionTypes, Connect
  <2>3. NetworkTypes'
    BY <1>1, QueueTypes DEF NetworkTypes, Connect
  <2>4. OtherTypes'
    BY <1>1 DEF OtherTypes, Connect
  <2> QED BY <2>1, <2>2, <2>3, <2>4 DEF TypeOK
<1>2. CASE LoopExits
  <2>1. ThreadTypes'
    BY <1>2 DEF ThreadTypes, LoopExits
  <2>2. SessionTypes'
    BY <1>2, QueueTypes DEF SessionTypes, LoopExits
  <2>3. NetworkTypes'
    BY <1>2, QueueTypes DEF NetworkTypes, LoopExits
  <2>4. OtherTypes'
    BY <1>2 DEF OtherTypes, LoopExits
  <2> QED BY <2>1, <2>2, <2>3, <2>4 DEF TypeOK
<1>3. CASE LoopReconnects
  <2>1. ThreadTypes'
    BY <1>3, Zeros DEF ThreadTypes, LoopReconnects
  <2>2. SessionTypes'
    BY <1>3, QueueTypes, Zeros DEF SessionTypes, LoopReconnects, Cleanup, ResetHandling, ForgetMedia
  <2>3. NetworkTypes'
    BY <1>3, QueueTypes, Zeros DEF NetworkTypes, LoopReconnects, Cleanup
  <2>4. OtherTypes'
    BY <1>3, Zeros DEF OtherTypes, LoopReconnects, Cleanup
  <2> QED BY <2>1, <2>2, <2>3, <2>4 DEF TypeOK
<1>4. CASE StartPlaying
  <2>1. ThreadTypes'
    BY <1>4 DEF ThreadTypes, StartPlaying, Sent
  <2>2. SessionTypes'
    BY <1>4 DEF SessionTypes, StartPlaying, NextMethod, Sent
  <2>3. NetworkTypes'
    BY <1>4 DEF NetworkTypes, StartPlaying
  <2>4. OtherTypes'
    BY <1>4 DEF OtherTypes, StartPlaying
  <2> QED BY <2>1, <2>2, <2>3, <2>4 DEF TypeOK
<1>5. CASE AwaitAnswer
  <2>1. ThreadTypes'
    BY <1>5 DEF ThreadTypes, AwaitAnswer
  <2>2. SessionTypes'
    BY <1>5 DEF SessionTypes, AwaitAnswer
  <2>3. NetworkTypes'
    BY <1>5 DEF NetworkTypes, AwaitAnswer
  <2>4. OtherTypes'
    BY <1>5 DEF OtherTypes, AwaitAnswer
  <2> QED BY <2>1, <2>2, <2>3, <2>4 DEF TypeOK
<1>6. CASE Dispatch
  <2>1. ThreadTypes'
    <3>1. CASE todo \in {"OPTIONS", "TEARDOWN"} \cup supported
      <4>1. todo \in Sent
        BY <3>1 DEF SessionTypes, Sent, Methods
      <4>2. Building(todo) \in Requests
        BY <4>1, Zeros DEF Building, Requests
      <4> QED BY <1>6, <3>1, <4>2 DEF ThreadTypes, Dispatch
    <3>2. CASE todo \notin {"OPTIONS", "TEARDOWN"} \cup supported
      BY <1>6, <3>2 DEF ThreadTypes, Dispatch
    <3> QED BY <3>1, <3>2
  <2>2. SessionTypes'
    BY <1>6, Zeros DEF SessionTypes, Dispatch, Requests, Methods, Sent
  <2>3. NetworkTypes'
    BY <1>6, Zeros DEF NetworkTypes, Dispatch, Requests
  <2>4. OtherTypes'
    BY <1>6, Zeros DEF OtherTypes, Dispatch
  <2> QED BY <2>1, <2>2, <2>3, <2>4 DEF TypeOK
<1>7. CASE Keepalive
  <2>1. ThreadTypes'
    BY <1>7, Zeros DEF ThreadTypes, Keepalive, Building, Requests, Sent
  <2>2. SessionTypes'
    BY <1>7, CountType, Zeros DEF SessionTypes, Keepalive, Requests, Sent
  <2>3. NetworkTypes'
    BY <1>7, Zeros DEF NetworkTypes, Keepalive, Requests
  <2>4. OtherTypes'
    BY <1>7, Zeros DEF OtherTypes, Keepalive
  <2> QED BY <2>1, <2>2, <2>3, <2>4 DEF TypeOK
<1>8. CASE DeclareDead
  <2>1. ThreadTypes'
    BY <1>8 DEF ThreadTypes, DeclareDead
  <2>2. SessionTypes'
    BY <1>8, Zeros DEF SessionTypes, DeclareDead
  <2>3. NetworkTypes'
    BY <1>8 DEF NetworkTypes, DeclareDead
  <2>4. OtherTypes'
    BY <1>8 DEF OtherTypes, DeclareDead
  <2> QED BY <2>1, <2>2, <2>3, <2>4 DEF TypeOK
<1>9. CASE Number
  <2> DEFINE m == IF req.method = "SETUP" THEN NextMedia ELSE NULL
  <2>a. m \in Media \cup {NULL} /\ cur_cseq' \in CSeqs
    BY <1>9, NextMediaIsMedia, NextCSeqType DEF SessionTypes, Number
  <2>b. [req EXCEPT !.cseq = cur_cseq', !.media = m] \in Requests
    BY <1>9, <2>a DEF ThreadTypes, Number, Requests
  <2>1. ThreadTypes'
    BY <1>9, <2>b DEF ThreadTypes, Number
  <2>2. SessionTypes'
    BY <1>9, <2>a DEF SessionTypes, Number
  <2>3. NetworkTypes'
    BY <1>9 DEF NetworkTypes, Number, Requests
  <2>4. OtherTypes'
    BY <1>9, NextCSeqType, FaultType DEF OtherTypes, Number
  <2> QED BY <2>1, <2>2, <2>3, <2>4 DEF TypeOK
<1>10. CASE AppendRequest
  <2>1. ThreadTypes'
    BY <1>10 DEF ThreadTypes, AppendRequest
  <2>2. SessionTypes'
    BY <1>10, QueueTypes DEF ThreadTypes, SessionTypes, AppendRequest
  <2>3. NetworkTypes'
    BY <1>10, QueueTypes DEF NetworkTypes, AppendRequest
  <2>4. OtherTypes'
    BY <1>10, FaultType DEF OtherTypes, AppendRequest
  <2> QED BY <2>1, <2>2, <2>3, <2>4 DEF TypeOK
<1>11. CASE CheckSendQueue
  <2>1. ThreadTypes'
    BY <1>11 DEF ThreadTypes, CheckSendQueue
  <2>2. SessionTypes'
    BY <1>11 DEF SessionTypes, CheckSendQueue
  <2>3. NetworkTypes'
    BY <1>11 DEF NetworkTypes, CheckSendQueue, Rearm, Readable
  <2>4. OtherTypes'
    BY <1>11, FaultType DEF OtherTypes, CheckSendQueue
  <2> QED BY <2>1, <2>2, <2>3, <2>4 DEF TypeOK
<1>12. CASE EpollWait
  <2>1. ThreadTypes'
    BY <1>12 DEF ThreadTypes, EpollWait
  <2>2. SessionTypes'
    BY <1>12 DEF SessionTypes, EpollWait
  <2>3. NetworkTypes'
    BY <1>12 DEF NetworkTypes, EpollWait
  <2>4. OtherTypes'
    BY <1>12, FaultType DEF OtherTypes, EpollWait
  <2> QED BY <2>1, <2>2, <2>3, <2>4 DEF TypeOK
<1>13. CASE TeardownCheck
  <2>1. ThreadTypes'
    BY <1>13 DEF ThreadTypes, TeardownCheck, MediaFails
  <2>2. SessionTypes'
    BY <1>13 DEF SessionTypes, TeardownCheck, MediaFails
  <2>3. NetworkTypes'
    BY <1>13 DEF NetworkTypes, TeardownCheck, MediaFails
  <2>4. OtherTypes'
    BY <1>13, FaultType DEF OtherTypes, TeardownCheck, MediaFails
  <2> QED BY <2>1, <2>2, <2>3, <2>4 DEF TypeOK
<1>14. CASE HandleNothing
  <2>1. ThreadTypes'
    BY <1>14 DEF ThreadTypes, HandleNothing, MediaFails
  <2>2. SessionTypes'
    BY <1>14 DEF SessionTypes, HandleNothing, MediaFails
  <2>3. NetworkTypes'
    BY <1>14 DEF NetworkTypes, HandleNothing, MediaFails
  <2>4. OtherTypes'
    BY <1>14, FaultType DEF OtherTypes, HandleNothing, MediaFails
  <2> QED BY <2>1, <2>2, <2>3, <2>4 DEF TypeOK
<1>15. CASE HandleResponse
  <2>1. ThreadTypes'
    BY <1>15, Zeros DEF ThreadTypes, HandleResponse
  <2>2. SessionTypes'
    <3>1. /\ Head(s2c).caps \subseteq Methods
          /\ Head(s2c).sdp \in {NULL} \cup SUBSET Media
      BY <1>15, QueueTypes DEF HandleResponse, NetworkTypes, Responses
    <3>2. CASE ~CSeqMatches(Head(s2c))
      BY <1>15, <3>2 DEF SessionTypes, HandleResponse, RunStateMachine
    <3>3. CASE CSeqMatches(Head(s2c))
      BY <1>15, <3>1, <3>3, Zeros
      DEF SessionTypes, HandleResponse, RunStateMachine, KeepaliveAnswered
    <3> QED BY <3>2, <3>3
  <2>3. NetworkTypes'
    BY <1>15, QueueTypes, Zeros DEF NetworkTypes, HandleResponse, Responses
  <2>4. OtherTypes'
    BY <1>15, Zeros DEF OtherTypes, HandleResponse
  <2> QED BY <2>1, <2>2, <2>3, <2>4 DEF TypeOK
<1>16. CASE Settle
  <2>1. ThreadTypes'
    BY <1>16 DEF ThreadTypes, Settle
  <2>2. SessionTypes'
    BY <1>16 DEF SessionTypes, Settle
  <2>3. NetworkTypes'
    BY <1>16 DEF NetworkTypes, Settle
  <2>4. OtherTypes'
    BY <1>16 DEF OtherTypes, Settle
  <2> QED BY <2>1, <2>2, <2>3, <2>4 DEF TypeOK
<1>17. CASE HandleEof
  <2>1. ThreadTypes'
    BY <1>17 DEF ThreadTypes, HandleEof
  <2>2. SessionTypes'
    BY <1>17 DEF SessionTypes, HandleEof
  <2>3. NetworkTypes'
    BY <1>17 DEF NetworkTypes, HandleEof
  <2>4. OtherTypes'
    BY <1>17 DEF OtherTypes, HandleEof
  <2> QED BY <2>1, <2>2, <2>3, <2>4 DEF TypeOK
<1>18. CASE HandleOut
  <2>1. ThreadTypes'
    BY <1>18 DEF ThreadTypes, HandleOut
  <2>2. SessionTypes'
    BY <1>18, QueueTypes DEF SessionTypes, HandleOut
  <2>3. NetworkTypes'
    BY <1>18, QueueTypes DEF SessionTypes, NetworkTypes, HandleOut, Rearm, Readable
  <2>4. OtherTypes'
    BY <1>18, FaultType DEF OtherTypes, HandleOut
  <2> QED BY <2>1, <2>2, <2>3, <2>4 DEF TypeOK
<1>19. CASE CloseMarksDoing
  <2>1. ThreadTypes'
    BY <1>19 DEF ThreadTypes, CloseMarksDoing
  <2>2. SessionTypes'
    BY <1>19 DEF SessionTypes, CloseMarksDoing
  <2>3. NetworkTypes'
    BY <1>19 DEF NetworkTypes, CloseMarksDoing
  <2>4. OtherTypes'
    BY <1>19 DEF OtherTypes, CloseMarksDoing
  <2> QED BY <2>1, <2>2, <2>3, <2>4 DEF TypeOK
<1>20. CASE CloseLoadsCSeq
  <2>1. ThreadTypes'
    BY <1>20, NextCSeqType DEF ThreadTypes, CloseLoadsCSeq
  <2>2. SessionTypes'
    BY <1>20, NextCSeqType DEF SessionTypes, CloseLoadsCSeq
  <2>3. NetworkTypes'
    BY <1>20 DEF NetworkTypes, CloseLoadsCSeq
  <2>4. OtherTypes'
    BY <1>20, NextCSeqType DEF SessionTypes, OtherTypes, CloseLoadsCSeq
  <2> QED BY <2>1, <2>2, <2>3, <2>4 DEF TypeOK
<1>21. CASE CloseStoresCSeq
  <2>1. ThreadTypes'
    BY <1>21 DEF ThreadTypes, CloseStoresCSeq
  <2>2. SessionTypes'
    BY <1>21 DEF SessionTypes, OtherTypes, CloseStoresCSeq
  <2>3. NetworkTypes'
    BY <1>21 DEF NetworkTypes, CloseStoresCSeq
  <2>4. OtherTypes'
    BY <1>21 DEF OtherTypes, CloseStoresCSeq
  <2> QED BY <2>1, <2>2, <2>3, <2>4 DEF TypeOK
<1>22. CASE CloseAppends
  <2>1. ThreadTypes'
    BY <1>22, Zeros DEF ThreadTypes, CloseAppends, Requests, Sent
  <2>2. SessionTypes'
    <3>1. [method |-> "TEARDOWN", cseq |-> ucseq, media |-> NULL] \in Requests
      BY DEF OtherTypes, Requests, Sent
    <3> QED BY <1>22, <3>1, QueueTypes DEF SessionTypes, CloseAppends
  <2>3. NetworkTypes'
    BY <1>22, QueueTypes, Zeros DEF NetworkTypes, CloseAppends, Requests
  <2>4. OtherTypes'
    BY <1>22, Zeros, FaultType DEF OtherTypes, CloseAppends
  <2> QED BY <2>1, <2>2, <2>3, <2>4 DEF TypeOK
<1>23. CASE ConnectFails
  <2>1. ThreadTypes'
    BY <1>23, Zeros DEF ThreadTypes, ConnectFails
  <2>2. SessionTypes'
    BY <1>23, QueueTypes, Zeros DEF SessionTypes, ConnectFails, Cleanup, ResetHandling, ForgetMedia
  <2>3. NetworkTypes'
    BY <1>23, QueueTypes, Zeros DEF NetworkTypes, ConnectFails, Cleanup
  <2>4. OtherTypes'
    BY <1>23, Zeros, FaultType DEF OtherTypes, ConnectFails, Cleanup
  <2> QED BY <2>1, <2>2, <2>3, <2>4 DEF TypeOK
<1>24. CASE ConnectAborts
  <2>1. ThreadTypes'
    BY <1>24 DEF ThreadTypes, ConnectAborts
  <2>2. SessionTypes'
    BY <1>24, QueueTypes DEF SessionTypes, ConnectAborts
  <2>3. NetworkTypes'
    BY <1>24, QueueTypes DEF NetworkTypes, ConnectAborts
  <2>4. OtherTypes'
    BY <1>24, FaultType DEF OtherTypes, ConnectAborts
  <2> QED BY <2>1, <2>2, <2>3, <2>4 DEF TypeOK
<1>25. CASE CloseChn
  <2>1. ThreadTypes'
    BY <1>25 DEF ThreadTypes, CloseChn, Sent
  <2>2. SessionTypes'
    BY <1>25 DEF SessionTypes, CloseChn, Sent
  <2>3. NetworkTypes'
    BY <1>25 DEF NetworkTypes, CloseChn
  <2>4. OtherTypes'
    BY <1>25 DEF OtherTypes, CloseChn
  <2> QED BY <2>1, <2>2, <2>3, <2>4 DEF TypeOK
<1>26. CASE ServerAnswers
  <2>1. ThreadTypes'
    BY <1>26 DEF ThreadTypes, ServerAnswers, Requests
  <2>2. SessionTypes'
    BY <1>26, QueueTypes DEF SessionTypes, ServerAnswers, Answer, Requests, Responses
  <2>3. NetworkTypes'
    <3>1. Head(c2s) \in Requests /\ Tail(c2s) \in RequestQueues
      BY <1>26, QueueTypes DEF NetworkTypes, ServerAnswers, ServerTakes
    <3>2. \A caps \in Publics, sdp \in Sdps :
            Answer(Head(c2s), caps, sdp) \in Responses
      BY <3>1, PublicsAssumption, SdpsAssumption DEF Answer, Requests, Responses
    <3>3. s2c' \in ResponseQueues
      BY <1>26, <3>2, QueueTypes DEF NetworkTypes, ServerAnswers
    <3>4. srvSetup' \subseteq Media
      BY <1>26, <3>1 DEF NetworkTypes, ServerAnswers, Acceptable, Requests
    <3> QED BY <1>26, <3>1, <3>3, <3>4 DEF NetworkTypes, ServerAnswers, ServerTakes
  <2>4. OtherTypes'
    BY <1>26 DEF OtherTypes, ServerAnswers
  <2> QED BY <2>1, <2>2, <2>3, <2>4 DEF TypeOK
<1>27. CASE ServerRefuses
  <2>1. ThreadTypes'
    BY <1>27, Zeros DEF ThreadTypes, ServerRefuses, Requests
  <2>2. SessionTypes'
    BY <1>27, QueueTypes, Zeros DEF SessionTypes, ServerRefuses, Requests, Responses
  <2>3. NetworkTypes'
    BY <1>27, QueueTypes, Zeros DEF NetworkTypes, ServerRefuses, ServerTakes, Refusal, Requests, Responses
  <2>4. OtherTypes'
    BY <1>27, Zeros, FaultType DEF OtherTypes, ServerRefuses
  <2> QED BY <2>1, <2>2, <2>3, <2>4 DEF TypeOK
<1>28. CASE ServerGoesMute
  <2>1. ThreadTypes'
    BY <1>28 DEF ThreadTypes, ServerGoesMute
  <2>2. SessionTypes'
    BY <1>28 DEF SessionTypes, ServerGoesMute
  <2>3. NetworkTypes'
    BY <1>28 DEF NetworkTypes, ServerGoesMute
  <2>4. OtherTypes'
    BY <1>28, FaultType DEF OtherTypes, ServerGoesMute
  <2> QED BY <2>1, <2>2, <2>3, <2>4 DEF TypeOK
<1>29. CASE ServerCloses
  <2>1. ThreadTypes'
    BY <1>29 DEF ThreadTypes, ServerCloses
  <2>2. SessionTypes'
    BY <1>29, QueueTypes DEF SessionTypes, ServerCloses
  <2>3. NetworkTypes'
    BY <1>29, QueueTypes DEF NetworkTypes, ServerCloses
  <2>4. OtherTypes'
    BY <1>29, FaultType DEF OtherTypes, ServerCloses
  <2> QED BY <2>1, <2>2, <2>3, <2>4 DEF TypeOK
<1>30. CASE ConnectionResets
  <2>1. ThreadTypes'
    BY <1>30 DEF ThreadTypes, ConnectionResets
  <2>2. SessionTypes'
    BY <1>30, QueueTypes DEF SessionTypes, ConnectionResets
  <2>3. NetworkTypes'
    BY <1>30, QueueTypes DEF NetworkTypes, ConnectionResets
  <2>4. OtherTypes'
    BY <1>30, FaultType DEF OtherTypes, ConnectionResets
  <2> QED BY <2>1, <2>2, <2>3, <2>4 DEF TypeOK
<1>31. CASE Tick
  <2>1. ThreadTypes'
    BY <1>31 DEF ThreadTypes, Tick
  <2>2. SessionTypes'
    BY <1>31 DEF SessionTypes, Tick
  <2>3. NetworkTypes'
    BY <1>31 DEF NetworkTypes, Tick
  <2>4. OtherTypes'
    BY <1>31 DEF OtherTypes, Tick
  <2> QED BY <2>1, <2>2, <2>3, <2>4 DEF TypeOK
<1>32. CASE UNCHANGED vars
  <2>1. ThreadTypes'
    BY <1>32 DEF ThreadTypes, vars
  <2>2. SessionTypes'
    BY <1>32 DEF SessionTypes, vars
  <2>3. NetworkTypes'
    BY <1>32 DEF NetworkTypes, vars
  <2>4. OtherTypes'
    BY <1>32 DEF OtherTypes, vars
  <2> QED BY <2>1, <2>2, <2>3, <2>4 DEF TypeOK
<1> QED
  BY <1>1, <1>2, <1>3, <1>4, <1>5, <1>6, <1>7, <1>8, <1>9, <1>10, <1>11, <1>12,
     <1>13, <1>14, <1>15, <1>16, <1>17, <1>18, <1>19, <1>20, <1>21, <1>22, <1>23,
     <1>24, <1>25, <1>26, <1>27, <1>28, <1>29, <1>30, <1>31, <1>32
  DEF Next, SessionThread, CloseRuns, Environment

\* The values of the variables have the types that struct rtsp_sess, the
\* protocol and the threads give them, at every point of every run.
THEOREM TypeCorrect == Spec => []TypeOK
<1>1. Init => TypeOK
  BY InitType
<1>2. TypeOK /\ [Next]_vars => TypeOK'
  BY StepType
<1> QED BY <1>1, <1>2, PTL DEF Spec

-----------------------------------------------------------------------------
\* ProtocolInv holds of a new session: nothing is to be done or known.
LEMMA InitProtocol == Init => ProtocolInv
  BY DEF Init, ProtocolInv

\* No step breaks ProtocolInv: what the state machine, close_chn() and a
\* reconnection write to todo fits the state and the description.
LEMMA StepProtocol ==
  TypeOK /\ ProtocolInv /\ [Next]_vars => ProtocolInv'
<1> SUFFICES ASSUME TypeOK, ProtocolInv, [Next]_vars PROVE ProtocolInv'
  OBVIOUS
<1> USE DEF ProtocolInv, thread, session, network, server, user, history
<1>1. CASE Connect
  BY <1>1 DEF Connect
<1>2. CASE LoopExits
  BY <1>2 DEF LoopExits
<1>3. CASE LoopReconnects
  BY <1>3 DEF LoopReconnects, Cleanup, ResetHandling, ForgetMedia
<1>4. CASE StartPlaying
  BY <1>4 DEF StartPlaying, NextMethod, Stepping, TypeOK, SessionTypes
<1>5. CASE AwaitAnswer
  BY <1>5 DEF AwaitAnswer
<1>6. CASE Dispatch
  BY <1>6 DEF Dispatch, Building
<1>7. CASE Keepalive
  BY <1>7 DEF Keepalive, Building, Count
<1>8. CASE DeclareDead
  BY <1>8 DEF DeclareDead, Stepping
<1>9. CASE Number
  BY <1>9 DEF Number
<1>10. CASE AppendRequest
  BY <1>10 DEF AppendRequest
<1>11. CASE CheckSendQueue
  BY <1>11 DEF CheckSendQueue
<1>12. CASE EpollWait
  BY <1>12 DEF EpollWait
<1>13. CASE TeardownCheck
  BY <1>13 DEF TeardownCheck
<1>14. CASE HandleNothing
  BY <1>14 DEF HandleNothing
<1>15. CASE HandleResponse
  BY <1>15 DEF HandleResponse, RunStateMachine, KeepaliveAnswered, AllSetUp
<1>16. CASE Settle
  BY <1>16 DEF Settle
<1>17. CASE HandleEof
  BY <1>17 DEF HandleEof
<1>18. CASE HandleOut
  BY <1>18 DEF HandleOut
<1>19. CASE CloseMarksDoing
  BY <1>19 DEF CloseMarksDoing
<1>20. CASE CloseLoadsCSeq
  BY <1>20 DEF CloseLoadsCSeq
<1>21. CASE CloseStoresCSeq
  BY <1>21 DEF CloseStoresCSeq
<1>22. CASE CloseAppends
  BY <1>22 DEF CloseAppends
<1>23. CASE ConnectFails
  BY <1>23 DEF ConnectFails, Cleanup, ResetHandling, ForgetMedia
<1>24. CASE ConnectAborts
  BY <1>24 DEF ConnectAborts
<1>25. CASE CloseChn
  BY <1>25 DEF CloseChn
<1>26. CASE ServerAnswers
  BY <1>26 DEF ServerAnswers
<1>27. CASE ServerRefuses
  BY <1>27 DEF ServerRefuses
<1>28. CASE ServerGoesMute
  BY <1>28 DEF ServerGoesMute
<1>29. CASE ServerCloses
  BY <1>29 DEF ServerCloses
<1>30. CASE ConnectionResets
  BY <1>30 DEF ConnectionResets
<1>31. CASE Tick
  BY <1>31 DEF Tick
<1>32. CASE UNCHANGED vars
  BY <1>32 DEF vars
<1> QED
  BY <1>1, <1>2, <1>3, <1>4, <1>5, <1>6, <1>7, <1>8, <1>9, <1>10, <1>11,
     <1>12, <1>13, <1>14, <1>15, <1>16, <1>17, <1>18, <1>19, <1>20, <1>21,
     <1>22, <1>23, <1>24, <1>25, <1>26, <1>27, <1>28, <1>29, <1>30, <1>31,
     <1>32
  DEF Next, SessionThread, CloseRuns, Environment

-----------------------------------------------------------------------------
\* The lengths that Unanswered adds up.
LEMMA QueueLengths ==
  /\ Len(<<>>) = 0
  /\ \A q \in RequestQueues : Len(q) \in Nat /\ (q # <<>> => Len(q) > 0)
  /\ \A q \in ResponseQueues : Len(q) \in Nat /\ (q # <<>> => Len(q) > 0)
  /\ \A q \in RequestQueues, r \in Requests : Len(Append(q, r)) = Len(q) + 1
  /\ \A q \in ResponseQueues : \A r : Len(Append(q, r)) = Len(q) + 1
  /\ \A q \in RequestQueues : q # <<>> => Len(Tail(q)) = Len(q) - 1
  BY DEF RequestQueues, ResponseQueues

\* A new session has nothing outstanding.
LEMMA InitLockstep == Init => LockstepInv
  BY QueueLengths DEF Init, LockstepInv, Unanswered, InFlight

\* No step breaks LockstepInv: a request is made only in INIT, which the step
\* leaves, and only its answer or a new connection restores.
LEMMA StepLockstep ==
  TypeOK /\ ProtocolInv /\ LockstepInv /\ [Next]_vars => LockstepInv'
<1> SUFFICES ASSUME TypeOK, ProtocolInv, LockstepInv, [Next]_vars
             PROVE  LockstepInv'
  OBVIOUS
<1>a. /\ send_queue \in RequestQueues /\ c2s \in RequestQueues
      /\ s2c \in ResponseQueues
  BY DEF TypeOK, SessionTypes, NetworkTypes
<1>b. /\ Len(send_queue) \in Nat /\ Len(c2s) \in Nat /\ Len(s2c) \in Nat
      /\ Len(<<>>) = 0
  BY <1>a, QueueLengths
<1> USE <1>b DEF LockstepInv, Negotiating, Clean, Unanswered, InFlight,
                 thread, session, network, server, user, history
<1>1. CASE Connect
  BY <1>1 DEF Connect
<1>2. CASE LoopExits
  BY <1>2 DEF LoopExits
<1>3. CASE LoopReconnects
  <2>1. clean' => send_queue' = <<>>
    BY <1>3 DEF LoopReconnects, Cleanup
  <2>2. c2s' = <<>> /\ s2c' = <<>> /\ pc' = "connect"
    BY <1>3 DEF LoopReconnects, Cleanup
  <2> QED BY <2>1, <2>2
<1>4. CASE StartPlaying
  BY <1>4 DEF StartPlaying, MayAsk, Stepping
<1>5. CASE AwaitAnswer
  BY <1>5 DEF AwaitAnswer, Stepping
<1>6. CASE Dispatch
  BY <1>6 DEF Dispatch
<1>7. CASE Keepalive
  BY <1>7 DEF Keepalive, Stepping
<1>8. CASE DeclareDead
  BY <1>8 DEF DeclareDead, Stepping
<1>9. CASE Number
  BY <1>9 DEF Number
<1>10. CASE AppendRequest
  BY <1>10, <1>a, QueueLengths DEF AppendRequest
<1>11. CASE CheckSendQueue
  BY <1>11 DEF CheckSendQueue
<1>12. CASE EpollWait
  BY <1>12 DEF EpollWait
<1>13. CASE TeardownCheck
  BY <1>13 DEF TeardownCheck
<1>14. CASE HandleNothing
  BY <1>14 DEF HandleNothing
<1>15. CASE HandleResponse
  <2>1. rtsp_state = "PLAYING" => rtsp_state' = "PLAYING"
    BY <1>15 DEF HandleResponse, RunStateMachine, ProtocolInv
  <2>2. Len(s2c) > 0 /\ s2c' = <<>>
    BY <1>15, <1>a, QueueLengths DEF HandleResponse
  <2>3. pc = "handle" /\ pc' = "settle" /\ UNCHANGED <<handling, send_queue, c2s, upc, clean>>
    BY <1>15 DEF HandleResponse
  <2> QED BY <2>1, <2>2, <2>3
<1>16. CASE Settle
  BY <1>16 DEF Settle
<1>17. CASE HandleEof
  BY <1>17 DEF HandleEof
<1>18. CASE HandleOut
  BY <1>18, <1>a, QueueLengths DEF HandleOut
<1>19. CASE CloseMarksDoing
  BY <1>19 DEF CloseMarksDoing
<1>20. CASE CloseLoadsCSeq
  BY <1>20 DEF CloseLoadsCSeq
<1>21. CASE CloseStoresCSeq
  BY <1>21 DEF CloseStoresCSeq
<1>22. CASE CloseAppends
  BY <1>22 DEF CloseAppends
<1>23. CASE ConnectFails
  <2>1. clean' => send_queue' = <<>>
    BY <1>23 DEF ConnectFails, Cleanup
  <2>2. c2s' = <<>> /\ s2c' = <<>> /\ pc' \in {"connect", "done"}
    BY <1>23 DEF ConnectFails, Cleanup
  <2> QED BY <2>1, <2>2
<1>24. CASE ConnectAborts
  BY <1>24 DEF ConnectAborts
<1>25. CASE CloseChn
  BY <1>25 DEF CloseChn
<1>26. CASE ServerAnswers
  BY <1>26, <1>a, QueueLengths DEF ServerAnswers, ServerTakes
<1>27. CASE ServerRefuses
  BY <1>27, <1>a, QueueLengths DEF ServerRefuses, ServerTakes
<1>28. CASE ServerGoesMute
  BY <1>28 DEF ServerGoesMute
<1>29. CASE ServerCloses
  BY <1>29 DEF ServerCloses
<1>30. CASE ConnectionResets
  BY <1>30 DEF ConnectionResets
<1>31. CASE Tick
  BY <1>31 DEF Tick
<1>32. CASE UNCHANGED vars
  BY <1>32 DEF vars
<1> QED
  BY <1>1, <1>2, <1>3, <1>4, <1>5, <1>6, <1>7, <1>8, <1>9, <1>10, <1>11,
     <1>12, <1>13, <1>14, <1>15, <1>16, <1>17, <1>18, <1>19, <1>20, <1>21,
     <1>22, <1>23, <1>24, <1>25, <1>26, <1>27, <1>28, <1>29, <1>30, <1>31,
     <1>32
  DEF Next, SessionThread, CloseRuns, Environment

-----------------------------------------------------------------------------
\* How the messages of a queue inherit what is asked for.
LEMMA AllEmpty ==
  /\ \A m, n : AllAsk(<<>>, m, n) /\ AllAnswer(<<>>, m, n)
  /\ \A q \in RequestQueues : Len(q) = 0 => \A m, n : AllAsk(q, m, n)
  /\ \A q \in ResponseQueues : Len(q) = 0 => \A m, n : AllAnswer(q, m, n)
  BY DEF AllAsk, AllAnswer, RequestQueues, ResponseQueues

\* A message that asks or answers the same joins the queue.
LEMMA AllAppend ==
  /\ \A q \in RequestQueues, r \in Requests : \A m, n :
       AllAsk(q, m, n) /\ Asks(r, m, n) => AllAsk(Append(q, r), m, n)
  /\ \A q \in ResponseQueues : \A a, m, n :
       AllAnswer(q, m, n) /\ Answers(a, m, n) => AllAnswer(Append(q, a), m, n)
  BY DEF AllAsk, AllAnswer, RequestQueues, ResponseQueues

\* What is true of all requests is true of the first and of the rest.
LEMMA AllTail ==
  \A q \in RequestQueues : \A m, n :
    q # <<>> /\ AllAsk(q, m, n) => AllAsk(Tail(q), m, n) /\ Asks(Head(q), m, n)
  BY DEF AllAsk, RequestQueues

\* The empty queues of a new session ask for nothing.
LEMMA InitAnswer == Init => AnswerInv
  BY AllEmpty DEF Init, AnswerInv

\* No step breaks AnswerInv: todo and cur_cseq change only with nothing
\* outstanding, when the session asks for one thing at a time.
LEMMA StepAnswer ==
  TypeOK /\ SessionInv /\ [Next]_vars => AnswerInv'
<1> SUFFICES ASSUME TypeOK, ProtocolInv, LockstepInv, AnswerInv, [Next]_vars
             PROVE  AnswerInv'
  BY DEF SessionInv
<1>a. /\ send_queue \in RequestQueues /\ c2s \in RequestQueues
      /\ s2c \in ResponseQueues
  BY DEF TypeOK, SessionTypes, NetworkTypes
<1>b. /\ Len(send_queue) \in Nat /\ Len(c2s) \in Nat /\ Len(s2c) \in Nat
  BY <1>a, QueueLengths
<1> USE DEF AnswerInv, Negotiating, Clean, thread, session, network, server,
            user, history
<1>1. CASE Connect
  BY <1>1, AllEmpty DEF Connect
<1>2. CASE LoopExits
  BY <1>2, AllEmpty DEF LoopExits
<1>3. CASE LoopReconnects
  <2>1. clean' => send_queue' = <<>>
    BY <1>3 DEF LoopReconnects, Cleanup
  <2>2. c2s' = <<>> /\ s2c' = <<>> /\ pc' = "connect"
    BY <1>3 DEF LoopReconnects, Cleanup
  <2> QED BY <2>1, <2>2, AllEmpty
<1>4. CASE StartPlaying
  <2> SUFFICES ASSUME Negotiating' PROVE AnswerInv'
    BY DEF AnswerInv
  <2>1. Negotiating /\ handling = "INIT" /\ pc = "loop"
    BY <1>4 DEF StartPlaying, Stepping, MayAsk
  <2>2. Unanswered <= 0
    BY <2>1 DEF LockstepInv
  <2>3. Len(send_queue) = 0 /\ Len(c2s) = 0 /\ Len(s2c) = 0
    BY <2>1, <2>2, <1>b DEF Unanswered, InFlight
  <2> QED BY <1>4, <1>a, <2>3, AllEmpty DEF StartPlaying
<1>5. CASE AwaitAnswer
  BY <1>5 DEF AwaitAnswer, Stepping
<1>6. CASE Dispatch
  BY <1>6 DEF Dispatch, Building
<1>7. CASE Keepalive
  BY <1>7 DEF Keepalive, Stepping
<1>8. CASE DeclareDead
  BY <1>8 DEF DeclareDead, Stepping
<1>9. CASE Number
  <2> SUFFICES ASSUME Negotiating' PROVE AnswerInv'
    BY DEF AnswerInv
  <2>1. Negotiating /\ pc = "number"
    BY <1>9 DEF Number
  <2>2. /\ Len(send_queue) + Len(c2s) + Len(s2c) + 1
             <= IF handling = "DOING" THEN 1 ELSE 0
    BY <2>1 DEF LockstepInv, Unanswered, InFlight
  <2>3. Len(send_queue) = 0 /\ Len(c2s) = 0 /\ Len(s2c) = 0
    BY <2>2, <1>b
  <2>4. /\ AllAsk(send_queue', todo', cur_cseq')
        /\ AllAsk(c2s', todo', cur_cseq')
        /\ AllAnswer(s2c', todo', cur_cseq')
    BY <1>9, <1>a, <2>3, AllEmpty DEF Number
  <2>5. pc' = "append" => Asks(req', todo', cur_cseq')
    BY <1>9, <2>1 DEF Number, Asks, TypeOK, ThreadTypes, Requests
  <2>6. pc' # "number"
    BY <1>9 DEF Number
  <2> QED BY <2>4, <2>5, <2>6
<1>10. CASE AppendRequest
  BY <1>10, <1>a, AllAppend DEF AppendRequest, TypeOK, ThreadTypes
<1>11. CASE CheckSendQueue
  BY <1>11 DEF CheckSendQueue
<1>12. CASE EpollWait
  BY <1>12 DEF EpollWait
<1>13. CASE TeardownCheck
  BY <1>13 DEF TeardownCheck
<1>14. CASE HandleNothing
  BY <1>14 DEF HandleNothing
<1>15. CASE HandleResponse
  <2>1. rtsp_state = "PLAYING" => rtsp_state' = "PLAYING"
    BY <1>15 DEF HandleResponse, RunStateMachine, ProtocolInv
  <2>2. s2c' = <<>> /\ pc' = "settle"
    BY <1>15 DEF HandleResponse
  <2>3. UNCHANGED <<send_queue, c2s, todo, cur_cseq, upc, clean>>
    BY <1>15 DEF HandleResponse
  <2> QED BY <2>1, <2>2, <2>3, AllEmpty
<1>16. CASE Settle
  BY <1>16 DEF Settle
<1>17. CASE HandleEof
  BY <1>17 DEF HandleEof
<1>18. CASE HandleOut
  <2>1. Head(send_queue) \in Requests
    BY <1>18, <1>a, QueueTypes DEF HandleOut
  <2>2. \A m, n : AllAsk(send_queue, m, n) =>
          AllAsk(send_queue', m, n) /\ Asks(Head(send_queue), m, n)
    BY <1>18, <1>a, AllTail DEF HandleOut
  <2>3. c2s' \in {c2s, Append(c2s, Head(send_queue))}
    BY <1>18 DEF HandleOut
  <2>4. \A m, n : AllAsk(c2s, m, n) /\ Asks(Head(send_queue), m, n) =>
          AllAsk(c2s', m, n)
    BY <1>a, <2>1, <2>3, AllAppend
  <2>5. /\ UNCHANGED <<todo, cur_cseq, rtsp_state, s2c, upc, clean>>
        /\ pc' = "loop"
    BY <1>18 DEF HandleOut
  <2> QED BY <2>2, <2>4, <2>5
<1>19. CASE CloseMarksDoing
  BY <1>19 DEF CloseMarksDoing
<1>20. CASE CloseLoadsCSeq
  BY <1>20 DEF CloseLoadsCSeq
<1>21. CASE CloseStoresCSeq
  BY <1>21 DEF CloseStoresCSeq
<1>22. CASE CloseAppends
  BY <1>22 DEF CloseAppends
<1>23. CASE ConnectFails
  <2>1. clean' => send_queue' = <<>>
    BY <1>23 DEF ConnectFails, Cleanup
  <2>2. c2s' = <<>> /\ s2c' = <<>> /\ pc' \in {"connect", "done"}
    BY <1>23 DEF ConnectFails, Cleanup
  <2> QED BY <2>1, <2>2, AllEmpty
<1>24. CASE ConnectAborts
  BY <1>24, AllEmpty DEF ConnectAborts
<1>25. CASE CloseChn
  BY <1>25 DEF CloseChn
<1>26. CASE ServerAnswers
  <2>1. PICK caps \in Publics, sdp \in Sdps :
          s2c' = Append(s2c, Answer(Head(c2s), caps, sdp))
    BY <1>26 DEF ServerAnswers
  <2>2. \A m, n : AllAsk(c2s, m, n) =>
          AllAsk(c2s', m, n) /\ Asks(Head(c2s), m, n)
    BY <1>26, <1>a, AllTail DEF ServerAnswers, ServerTakes
  <2>3. \A m, n : Asks(Head(c2s), m, n) =>
          Answers(Answer(Head(c2s), caps, sdp), m, n)
    BY DEF Answer, Asks, Answers
  <2>4. \A m, n : AllAnswer(s2c, m, n) /\ Asks(Head(c2s), m, n) =>
          AllAnswer(s2c', m, n)
    BY <1>a, <2>1, <2>3, AllAppend
  <2>5. UNCHANGED <<pc, req, send_queue, todo, cur_cseq, rtsp_state, upc, clean>>
    BY <1>26 DEF ServerAnswers
  <2> QED BY <2>2, <2>4, <2>5
<1>27. CASE ServerRefuses
  <2>1. s2c' = Append(s2c, Refusal(Head(c2s)))
    BY <1>27 DEF ServerRefuses
  <2>2. \A m, n : AllAsk(c2s, m, n) =>
          AllAsk(c2s', m, n) /\ Asks(Head(c2s), m, n)
    BY <1>27, <1>a, AllTail DEF ServerRefuses, ServerTakes
  <2>3. \A m, n : Asks(Head(c2s), m, n) => Answers(Refusal(Head(c2s)), m, n)
    BY DEF Refusal, Asks, Answers
  <2>4. \A m, n : AllAnswer(s2c, m, n) /\ Asks(Head(c2s), m, n) =>
          AllAnswer(s2c', m, n)
    BY <1>a, <2>1, <2>3, AllAppend
  <2>5. UNCHANGED <<pc, req, send_queue, todo, cur_cseq, rtsp_state, upc, clean>>
    BY <1>27 DEF ServerRefuses
  <2> QED BY <2>2, <2>4, <2>5
<1>28. CASE ServerGoesMute
  BY <1>28 DEF ServerGoesMute
<1>29. CASE ServerCloses
  BY <1>29, AllEmpty DEF ServerCloses
<1>30. CASE ConnectionResets
  BY <1>30, AllEmpty DEF ConnectionResets
<1>31. CASE Tick
  BY <1>31 DEF Tick
<1>32. CASE UNCHANGED vars
  BY <1>32 DEF vars
<1> QED
  BY <1>1, <1>2, <1>3, <1>4, <1>5, <1>6, <1>7, <1>8, <1>9, <1>10, <1>11,
     <1>12, <1>13, <1>14, <1>15, <1>16, <1>17, <1>18, <1>19, <1>20, <1>21,
     <1>22, <1>23, <1>24, <1>25, <1>26, <1>27, <1>28, <1>29, <1>30, <1>31,
     <1>32
  DEF Next, SessionThread, CloseRuns, Environment

\* The inductive invariant of the session, in every behaviour.
THEOREM SessionInvariant == Spec => [](TypeOK /\ SessionInv)
<1>1. Init => TypeOK /\ SessionInv
  BY InitType, InitProtocol, InitLockstep, InitAnswer DEF SessionInv
<1>2. TypeOK /\ SessionInv /\ [Next]_vars => (TypeOK /\ SessionInv)'
  BY StepType, StepProtocol, StepLockstep, StepAnswer DEF SessionInv
<1> QED BY <1>1, <1>2, PTL DEF Spec

-----------------------------------------------------------------------------
\* start_playing() never asks again before the answer: until it plays, a session
\* that started clean has one request outstanding while handling_state is DOING
\* and none while it is INIT, whatever is lost, refused or reset.
THEOREM LockstepHolds == Spec => []Lockstep
<1>1. TypeOK /\ SessionInv => Lockstep
  BY DEF SessionInv, LockstepInv, Lockstep, Negotiating
<1> QED BY <1>1, SessionInvariant, PTL

\* run_rtsp_state_machine() never reads a session description that is not there,
\* although close_chn() and cleanup_before_reconn() may run between the request
\* and its answer.
THEOREM SetupNeedsDescription == Spec => []SetupHasDescription
<1>1. TypeOK /\ SessionInv => SetupHasDescription
  BY DEF SessionInv, ProtocolInv, SetupHasDescription
<1> QED BY <1>1, SessionInvariant, PTL

\* The head of s2c is what AllAnswer says of each of its responses.
LEMMA AllHead ==
  \A q \in ResponseQueues : \A m, n :
    q # <<>> /\ AllAnswer(q, m, n) => Answers(Head(q), m, n)
  BY DEF AllAnswer, ResponseQueues

\* No action but the receipt of a response moves rtsp_state forward.
LEMMA OnlyAnswersAdvance ==
  ASSUME TypeOK, [Next]_vars, rtsp_state' \notin {rtsp_state, "INIT"}
  PROVE  HandleResponse
<1> USE DEF thread, session, network, server, user, history
<1>1. ~UNCHANGED vars
  BY DEF vars
<1>2. ~(Connect \/ LoopExits \/ LoopReconnects \/ StartPlaying \/ AwaitAnswer
        \/ Dispatch \/ Keepalive \/ DeclareDead \/ Number \/ AppendRequest)
  BY DEF Connect, LoopExits, LoopReconnects, Cleanup, StartPlaying, AwaitAnswer,
         Dispatch, Keepalive, DeclareDead, Number, AppendRequest
<1>3. ~(CheckSendQueue \/ EpollWait \/ TeardownCheck \/ HandleNothing \/ Settle
        \/ HandleEof \/ HandleOut \/ CloseRuns)
  BY DEF CheckSendQueue, EpollWait, TeardownCheck, HandleNothing, Settle,
         HandleEof, HandleOut, CloseRuns, CloseMarksDoing, CloseLoadsCSeq,
         CloseStoresCSeq, CloseAppends
<1>4. ~Environment
  BY DEF Environment, ConnectFails, Cleanup, ConnectAborts, CloseChn,
         ServerAnswers, ServerRefuses, ServerGoesMute, ServerCloses,
         ConnectionResets, Tick
<1> QED BY <1>1, <1>2, <1>3, <1>4 DEF Next, SessionThread

\* The session becomes ready only on an OK answer to SETUP and plays only on one
\* to PLAY, although run_rtsp_state_machine() looks at todo alone: what is
\* outstanding always asks for todo, and a refusal is parsed with CSeq 0.
THEOREM AnswersAdvance == Spec => AdvancesOnAnswer
<1> DEFINE Step == Clean /\ cur_cseq # 0 /\ rtsp_state' \notin {rtsp_state, "INIT"} =>
             /\ s2c # <<>> /\ Head(s2c).ok
             /\ Head(s2c).method = IF rtsp_state' = "READY" THEN "SETUP" ELSE "PLAY"
<1>1. TypeOK /\ SessionInv /\ [Next]_vars => Step
  <2> SUFFICES ASSUME TypeOK, SessionInv, [Next]_vars, Clean, cur_cseq # 0,
                      rtsp_state' \notin {rtsp_state, "INIT"}
               PROVE  /\ s2c # <<>> /\ Head(s2c).ok
                      /\ Head(s2c).method =
                           IF rtsp_state' = "READY" THEN "SETUP" ELSE "PLAY"
    OBVIOUS
  <2>1. HandleResponse
    BY OnlyAnswersAdvance
  <2>2. s2c # <<>> /\ RunStateMachine(Head(s2c))
    BY <2>1 DEF HandleResponse
  <2>3. /\ Head(s2c).cseq = cur_cseq
        /\ \/ todo = "SETUP" /\ rtsp_state' = "READY"
           \/ todo = "PLAY" /\ rtsp_state' = "PLAYING"
    BY <2>2 DEF RunStateMachine, CSeqMatches
  <2>4. rtsp_state # "PLAYING"
    BY <2>3 DEF SessionInv, ProtocolInv
  <2>5. AllAnswer(s2c, todo, cur_cseq)
    BY <2>4 DEF SessionInv, AnswerInv, Negotiating
  <2>6. s2c \in ResponseQueues /\ Head(s2c) \in Responses
    BY <2>2, QueueTypes DEF TypeOK, NetworkTypes
  <2>7. Answers(Head(s2c), todo, cur_cseq)
    BY <2>2, <2>5, <2>6, AllHead
  <2> QED BY <2>2, <2>3, <2>6, <2>7 DEF Answers, Responses
<1> QED BY <1>1, SessionInvariant, PTL DEF Spec, AdvancesOnAnswer

-----------------------------------------------------------------------------
(* The session implements the protocol.                                    *)

\* A new session is an initial state of the protocol.
LEMMA InitMaps == Init => Protocol!PInit
  BY DEF Init, Protocol!PInit

\* The steps that the protocol does not see.
LEMMA HiddenSteps ==
  ASSUME Connect \/ StartPlaying \/ AwaitAnswer \/ Dispatch \/ Keepalive
         \/ DeclareDead \/ AppendRequest \/ CheckSendQueue \/ EpollWait
         \/ TeardownCheck \/ HandleNothing \/ Settle \/ HandleEof \/ HandleOut
         \/ CloseRuns \/ CloseChn \/ ServerAnswers \/ ServerRefuses
         \/ ServerGoesMute \/ ServerCloses \/ ConnectionResets \/ Tick
         \/ UNCHANGED vars
  PROVE  UNCHANGED Protocol!pvars
<1> USE DEF Protocol!pvars, thread, session, network, server, user, history
<1>1. CASE Connect \/ StartPlaying \/ AwaitAnswer \/ Dispatch \/ Keepalive
           \/ DeclareDead \/ AppendRequest
  BY <1>1 DEF Connect, StartPlaying, AwaitAnswer, Dispatch, Keepalive,
              DeclareDead, AppendRequest, Stepping
<1>2. CASE CheckSendQueue \/ EpollWait \/ TeardownCheck \/ HandleNothing
           \/ Settle \/ HandleEof \/ HandleOut
  BY <1>2 DEF CheckSendQueue, EpollWait, TeardownCheck, HandleNothing, Settle,
              HandleEof, HandleOut
<1>3. CASE CloseRuns \/ CloseChn \/ UNCHANGED vars
  BY <1>3 DEF CloseRuns, CloseMarksDoing, CloseLoadsCSeq, CloseStoresCSeq,
              CloseAppends, CloseChn, vars
<1>4. CASE ServerAnswers \/ ServerRefuses \/ ServerGoesMute \/ ServerCloses
           \/ ConnectionResets \/ Tick
  BY <1>4 DEF ServerAnswers, ServerRefuses, ServerGoesMute, ServerCloses,
              ConnectionResets, Tick
<1> QED BY <1>1, <1>2, <1>3, <1>4

\* Choosing the medium of a SETUP is RequestMedium.
LEMMA NumberMaps ==
  ASSUME TypeOK, ProtocolInv, Number
  PROVE  Protocol!RequestMedium \/ UNCHANGED Protocol!pvars
<1> DEFINE m == IF req.method = "SETUP" THEN NextMedia ELSE NULL
<1>1. /\ pc = "number" /\ pc' # "done"
      /\ UNCHANGED <<rtsp_state, supported, sdp_info>>
      /\ rtp_enable' = rtp_enable \/ rtp_enable' = rtp_enable \cup ({m} \ {NULL})
  BY DEF Number
<1>2. CASE m = NULL \/ rtp_enable' = rtp_enable
  BY <1>1, <1>2 DEF Protocol!pvars
<1>3. CASE m # NULL /\ rtp_enable' # rtp_enable
  <2>1. req.method = "SETUP" /\ NextMedia # NULL
    BY <1>3
  <2>2. rtsp_state = "INIT" /\ sdp_info # NULL /\ "SETUP" \in supported
    BY <1>1, <2>1 DEF ProtocolInv
  <2>3. sdp_info \in {NULL} \cup SUBSET Media
    BY DEF TypeOK, SessionTypes
  <2>4. NextMedia \in sdp_info \ rtp_enable
    BY <2>1, <2>3, NextMediaIsMedia
  <2>5. rtp_enable' = rtp_enable \cup {NextMedia}
    BY <1>1, <1>3, <2>1
  <2> QED BY <1>1, <2>2, <2>4, <2>5 DEF Protocol!RequestMedium
<1> QED BY <1>2, <1>3

\* Handling a response is LearnMethods, Describe, BecomeReady, Play or hidden.
LEMMA ResponseMaps ==
  ASSUME TypeOK, ProtocolInv, HandleResponse
  PROVE  \/ Protocol!LearnMethods \/ Protocol!Describe \/ Protocol!BecomeReady
         \/ Protocol!Play \/ UNCHANGED Protocol!pvars
<1> DEFINE resp == Head(s2c)
<1>1. /\ pc = "handle" /\ pc' = "settle" /\ s2c # <<>>
      /\ UNCHANGED rtp_enable
      /\ RunStateMachine(resp)
  BY DEF HandleResponse
<1>2. resp \in Responses
  BY <1>1, QueueTypes DEF TypeOK, NetworkTypes
<1>3. rtsp_state \in {"INIT", "READY", "PLAYING"}
  BY DEF TypeOK, SessionTypes
<1>4. CASE ~CSeqMatches(resp)
  BY <1>1, <1>4 DEF RunStateMachine, Protocol!pvars
<1>5. CASE CSeqMatches(resp) /\ todo = "OPTIONS"
  <2>1. supported' = supported \cup resp.caps /\ resp.caps \in SUBSET Methods
    BY <1>1, <1>2, <1>5 DEF RunStateMachine, Responses
  <2>2. UNCHANGED <<rtsp_state, sdp_info>>
    BY <1>1, <1>5 DEF RunStateMachine
  <2> QED BY <1>1, <2>1, <2>2 DEF Protocol!LearnMethods
<1>6. CASE CSeqMatches(resp) /\ todo = "DESCRIBE"
  <2>1. sdp_info' = resp.sdp /\ resp.sdp \in {NULL} \cup SUBSET Media
    BY <1>1, <1>2, <1>6 DEF RunStateMachine, Responses
  <2>2. UNCHANGED <<rtsp_state, supported>>
    BY <1>1, <1>6 DEF RunStateMachine
  <2>3. rtsp_state = "INIT" /\ rtp_enable = {}
    BY <1>6 DEF ProtocolInv
  <2> QED BY <1>1, <2>1, <2>2, <2>3 DEF Protocol!Describe
<1>7. CASE CSeqMatches(resp) /\ todo = "SETUP"
  <2>1. /\ UNCHANGED <<supported, sdp_info>>
        /\ rtsp_state' = IF sdp_info \subseteq rtp_enable THEN "READY" ELSE rtsp_state
    BY <1>1, <1>7 DEF RunStateMachine, AllSetUp
  <2>2. sdp_info # NULL /\ rtsp_state # "PLAYING"
    BY <1>7 DEF ProtocolInv
  <2>3. CASE rtsp_state' = rtsp_state
    BY <1>1, <2>1, <2>3 DEF Protocol!pvars
  <2>4. CASE rtsp_state' # rtsp_state
    BY <1>1, <1>3, <2>1, <2>2, <2>4 DEF Protocol!BecomeReady
  <2> QED BY <2>3, <2>4
<1>8. CASE CSeqMatches(resp) /\ todo = "PLAY"
  <2>1. UNCHANGED <<supported, sdp_info>> /\ rtsp_state' = "PLAYING"
    BY <1>1, <1>8 DEF RunStateMachine
  <2>2. rtsp_state # "INIT"
    BY <1>8 DEF ProtocolInv
  <2> QED BY <1>1, <1>3, <2>1, <2>2 DEF Protocol!Play, Protocol!pvars
<1>9. CASE CSeqMatches(resp) /\ todo \notin {"OPTIONS", "DESCRIBE", "SETUP", "PLAY"}
  BY <1>1, <1>9 DEF RunStateMachine, Protocol!pvars
<1> QED BY <1>4, <1>5, <1>6, <1>7, <1>8, <1>9

\* A reconnection is Drop.
LEMMA DropMaps ==
  ASSUME ConnectFails \/ LoopReconnects
  PROVE  Protocol!Drop
  BY DEF ConnectFails, LoopReconnects, Cleanup, ForgetMedia, Protocol!Drop

\* The end of the thread is End.
LEMMA EndMaps ==
  ASSUME ConnectAborts \/ LoopExits
  PROVE  Protocol!End
  BY DEF ConnectAborts, LoopExits, session, Protocol!End

\* What the application is promised holds of every session: it learns the
\* server's methods, describes, asks for all the media of one description, gets
\* ready and plays in that order, and after a lost connection from the start,
\* whatever threads, faults and the server do.
THEOREM ImplementsProtocol == Spec => ProtocolSpec
<1>1. TypeOK /\ SessionInv /\ [Next]_vars => [Protocol!PNext]_(Protocol!pvars)
  <2> SUFFICES ASSUME TypeOK, ProtocolInv, [Next]_vars
               PROVE  Protocol!PNext \/ UNCHANGED Protocol!pvars
    BY DEF SessionInv
  <2>1. CASE Number
    BY <2>1, NumberMaps DEF Protocol!PNext
  <2>2. CASE HandleResponse
    BY <2>2, ResponseMaps DEF Protocol!PNext
  <2>3. CASE ConnectFails \/ LoopReconnects
    BY <2>3, DropMaps DEF Protocol!PNext
  <2>4. CASE ConnectAborts \/ LoopExits
    BY <2>4, EndMaps DEF Protocol!PNext
  <2>5. CASE ~(Number \/ HandleResponse \/ ConnectFails \/ LoopReconnects
               \/ ConnectAborts \/ LoopExits)
    BY <2>5, HiddenSteps DEF Next, SessionThread, Environment
  <2> QED BY <2>1, <2>2, <2>3, <2>4, <2>5
<1> QED
  BY <1>1, InitMaps, SessionInvariant, PTL DEF Spec, ProtocolSpec, Protocol!PSpec

-----------------------------------------------------------------------------
(* What the server has set up.                                             *)

\* The server has set up, of the media e that were asked for, all but the one r
\* asks for; served are those it has set up.
Pending(r, e, served) ==
  \/ e \subseteq served
  \/ r.method = "SETUP" /\ e \subseteq served \cup {r.media}

AllPending(q, e, served) == \A i \in 1 .. Len(q) : Pending(q[i], e, served)
NoTeardown(q)            == \A i \in 1 .. Len(q) : q[i].method # "TEARDOWN"

\* Nothing asks the server to forget before close_chn() is called.
TeardownInv ==
  Clean => /\ todo # "TEARDOWN"
           /\ pc \in {"number", "append"} => req.method # "TEARDOWN"
           /\ NoTeardown(send_queue) /\ NoTeardown(c2s)

\* Until the session plays, a medium it asked for is set up as soon as there is
\* an answer, and nothing else is asked for before that.
TransportInv ==
  /\ pc = "connect" => rtsp_state = "INIT" /\ rtp_enable = {}
  /\ MediaSetUp
  /\ Negotiating =>
       /\ handling = "INIT" \/ pc \in {"number", "settle"} \/ s2c # <<>> =>
            rtp_enable \subseteq srvSetup
       /\ pc = "append" => Pending(req, rtp_enable, srvSetup)
       /\ AllPending(send_queue, rtp_enable, srvSetup)
       /\ AllPending(c2s, rtp_enable, srvSetup)

\* How the requests of a queue inherit what is said of them.
LEMMA QueuesInherit ==
  /\ NoTeardown(<<>>)
  /\ \A e, served : AllPending(<<>>, e, served)
  /\ \A q \in RequestQueues : Len(q) = 0 =>
       NoTeardown(q) /\ \A e, served : AllPending(q, e, served)
  /\ \A q \in RequestQueues, r \in Requests :
       /\ NoTeardown(q) /\ r.method # "TEARDOWN" => NoTeardown(Append(q, r))
       /\ \A e, served : AllPending(q, e, served) /\ Pending(r, e, served) =>
            AllPending(Append(q, r), e, served)
  /\ \A q \in RequestQueues : q # <<>> =>
       /\ NoTeardown(q) => NoTeardown(Tail(q)) /\ Head(q).method # "TEARDOWN"
       /\ \A e, served : AllPending(q, e, served) =>
            AllPending(Tail(q), e, served) /\ Pending(Head(q), e, served)
  /\ \A q : \A e, served : e \subseteq served => AllPending(q, e, served)
<1>1. /\ NoTeardown(<<>>)
      /\ \A e, served : AllPending(<<>>, e, served)
      /\ \A q \in RequestQueues : Len(q) = 0 =>
           NoTeardown(q) /\ \A e, served : AllPending(q, e, served)
  BY DEF NoTeardown, AllPending, RequestQueues
<1>2. ASSUME NEW q \in RequestQueues, NEW r \in Requests
      PROVE  /\ NoTeardown(q) /\ r.method # "TEARDOWN" => NoTeardown(Append(q, r))
             /\ \A e, served : AllPending(q, e, served) /\ Pending(r, e, served) =>
                  AllPending(Append(q, r), e, served)
  BY DEF NoTeardown, AllPending, RequestQueues
<1>3. ASSUME NEW q \in RequestQueues, q # <<>>
      PROVE  /\ NoTeardown(q) => NoTeardown(Tail(q)) /\ Head(q).method # "TEARDOWN"
             /\ \A e, served : AllPending(q, e, served) =>
                  AllPending(Tail(q), e, served) /\ Pending(Head(q), e, served)
  BY <1>3 DEF NoTeardown, AllPending, RequestQueues
<1>4. \A q : \A e, served : e \subseteq served => AllPending(q, e, served)
  BY DEF AllPending, Pending
<1> QED BY <1>1, <1>2, <1>3, <1>4

\* A new session asks for nothing.
LEMMA InitTransport == Init => TeardownInv /\ TransportInv
  BY QueuesInherit
  DEF Init, TeardownInv, TransportInv, MediaSetUp, Clean, Negotiating

\* TEARDOWN enters with close_chn() and nowhere else.
LEMMA StepTeardown ==
  TypeOK /\ TeardownInv /\ [Next]_vars => TeardownInv'
<1> SUFFICES ASSUME TypeOK, TeardownInv, [Next]_vars PROVE TeardownInv'
  OBVIOUS
<1>a. send_queue \in RequestQueues /\ c2s \in RequestQueues
  BY DEF TypeOK, SessionTypes, NetworkTypes
<1> USE DEF TeardownInv, Clean, thread, session, network, server, user, history
<1>1. CASE Connect \/ LoopExits \/ ConnectAborts
  BY <1>1, QueuesInherit DEF Connect, LoopExits, ConnectAborts
<1>2. CASE LoopReconnects \/ ConnectFails
  <2>1. /\ clean' => send_queue' = <<>>
        /\ c2s' = <<>> /\ todo' = "NONE" /\ pc' \in {"connect", "done"}
    BY <1>2 DEF LoopReconnects, ConnectFails, Cleanup, ResetHandling
  <2> QED BY <2>1, QueuesInherit
<1>3. CASE StartPlaying
  BY <1>3 DEF StartPlaying, NextMethod
<1>4. CASE AwaitAnswer \/ DeclareDead
  BY <1>4 DEF AwaitAnswer, DeclareDead, Stepping
<1>5. CASE Dispatch
  BY <1>5 DEF Dispatch, Building
<1>6. CASE Keepalive
  BY <1>6 DEF Keepalive, Building
<1>7. CASE Number
  BY <1>7 DEF Number, TypeOK, ThreadTypes, Requests
<1>8. CASE AppendRequest
  BY <1>8, <1>a, QueuesInherit DEF AppendRequest, TypeOK, ThreadTypes
<1>9. CASE CheckSendQueue \/ EpollWait \/ TeardownCheck \/ HandleNothing
  BY <1>9 DEF CheckSendQueue, EpollWait, TeardownCheck, HandleNothing
<1>10. CASE HandleResponse \/ Settle \/ HandleEof
  BY <1>10 DEF HandleResponse, Settle, HandleEof
<1>11. CASE HandleOut
  <2>1. /\ send_queue' = Tail(send_queue) /\ send_queue # <<>> /\ pc' = "loop"
        /\ UNCHANGED <<todo, clean, upc>>
        /\ c2s' \in {c2s, Append(c2s, Head(send_queue))}
    BY <1>11 DEF HandleOut
  <2>2. Head(send_queue) \in Requests
    BY <1>a, <2>1, QueueTypes
  <2> QED BY <1>a, <2>1, <2>2, QueuesInherit
<1>12. CASE CloseRuns \/ CloseChn
  BY <1>12
  DEF CloseRuns, CloseMarksDoing, CloseLoadsCSeq, CloseStoresCSeq, CloseAppends, CloseChn
<1>13. CASE ServerAnswers \/ ServerRefuses
  <2>1. c2s' = Tail(c2s) /\ c2s # <<>> /\ UNCHANGED <<pc, req, todo, send_queue, clean, upc>>
    BY <1>13 DEF ServerAnswers, ServerRefuses, ServerTakes
  <2> QED BY <1>a, <2>1, QueuesInherit
<1>14. CASE ServerGoesMute \/ ServerCloses \/ ConnectionResets \/ Tick
  BY <1>14, QueuesInherit DEF ServerGoesMute, ServerCloses, ConnectionResets, Tick
<1>15. CASE UNCHANGED vars
  BY <1>15 DEF vars
<1> QED
  BY <1>1, <1>2, <1>3, <1>4, <1>5, <1>6, <1>7, <1>8, <1>9, <1>10, <1>11, <1>12,
     <1>13, <1>14, <1>15
  DEF Next, SessionThread, Environment

\* With a response outstanding there is nothing else, so what was asked for
\* before is set up.
LEMMA StepTransport ==
  ASSUME "error" \notin Faults, TypeOK, SessionInv, TeardownInv, TransportInv, [Next]_vars
  PROVE  TransportInv'
<1>a. /\ send_queue \in RequestQueues /\ c2s \in RequestQueues
      /\ s2c \in ResponseQueues /\ rtp_enable \subseteq Media
  BY DEF TypeOK, SessionTypes, NetworkTypes
<1>b. /\ Len(send_queue) \in Nat /\ Len(c2s) \in Nat /\ Len(s2c) \in Nat
      /\ Len(<<>>) = 0
  BY <1>a, QueueLengths
<1> USE DEF TransportInv, MediaSetUp, Negotiating, Clean,
            thread, session, network, server, user, history
<1>1. CASE Connect
  BY <1>1, QueuesInherit DEF Connect
<1>2. CASE LoopExits \/ ConnectAborts
  BY <1>2, QueuesInherit DEF LoopExits, ConnectAborts
<1>3. CASE LoopReconnects \/ ConnectFails
  <2>1. rtsp_state' = "INIT" /\ rtp_enable' = {}
    BY <1>3 DEF LoopReconnects, ConnectFails, Cleanup, ForgetMedia
  <2>2. \A r : Pending(r, {}, srvSetup')
    BY DEF Pending
  <2> QED BY <2>1, <2>2, QueuesInherit
<1>4. CASE StartPlaying \/ AwaitAnswer \/ DeclareDead
  BY <1>4 DEF StartPlaying, AwaitAnswer, DeclareDead, Stepping, MayAsk
<1>5. CASE Dispatch
  BY <1>5 DEF Dispatch, SessionInv, LockstepInv
<1>6. CASE Keepalive
  BY <1>6 DEF Keepalive
<1>7. CASE Number
  <2>1. /\ pc = "number" /\ pc' \in {"append", "sendq"}
        /\ UNCHANGED <<rtsp_state, sdp_info, srvSetup, clean, upc, send_queue, c2s, s2c, handling>>
    BY <1>7 DEF Number
  <2> SUFFICES ASSUME Negotiating
               PROVE  /\ ~(handling = "INIT" \/ s2c # <<>>)
                      /\ pc' = "append" => Pending(req', rtp_enable', srvSetup)
                      /\ AllPending(send_queue, rtp_enable', srvSetup)
                      /\ AllPending(c2s, rtp_enable', srvSetup)
    BY <2>1
  <2>2. handling = "DOING" /\ Len(send_queue) = 0 /\ Len(c2s) = 0 /\ Len(s2c) = 0
    BY <1>b, <2>1 DEF SessionInv, LockstepInv, Unanswered, InFlight
  <2>3. rtp_enable \subseteq srvSetup
    BY <2>1
  <2>4. pc' = "append" => Pending(req', rtp_enable', srvSetup)
    <3> DEFINE m == IF req.method = "SETUP" THEN NextMedia ELSE NULL
    <3>1. CASE rtp_enable' = rtp_enable
      BY <2>3, <3>1 DEF Pending
    <3>2. CASE rtp_enable' # rtp_enable
      <4>1. /\ req' = [req EXCEPT !.cseq = cur_cseq', !.media = m]
            /\ rtp_enable' = rtp_enable \cup ({m} \ {NULL})
            /\ req \in Requests
        BY <1>7, <3>2 DEF Number, TypeOK, ThreadTypes
      <4>2. req.method = "SETUP"
        BY <3>2, <4>1
      <4>3. req'.method = "SETUP" /\ req'.media = m
        BY <4>1, <4>2 DEF Requests
      <4> QED BY <2>3, <4>1, <4>3 DEF Pending
    <3> QED BY <3>1, <3>2
  <2> QED BY <1>a, <2>2, <2>4, QueueLengths, QueuesInherit
<1>8. CASE AppendRequest
  <2>1. /\ pc = "append" /\ pc' = "sendq" /\ req \in Requests
        /\ send_queue' \in {send_queue, Append(send_queue, req)}
        /\ UNCHANGED <<rtsp_state, sdp_info, srvSetup, rtp_enable, clean, upc, c2s, s2c, handling>>
    BY <1>8 DEF AppendRequest, TypeOK, ThreadTypes
  <2> QED BY <1>a, <2>1, QueuesInherit
<1>9. CASE CheckSendQueue \/ EpollWait \/ TeardownCheck \/ HandleNothing \/ HandleEof
  BY <1>9 DEF CheckSendQueue, EpollWait, TeardownCheck, HandleNothing, HandleEof
<1>10. CASE HandleResponse
  <2>1. /\ pc = "handle" /\ pc' = "settle" /\ s2c # <<>> /\ s2c' = <<>>
        /\ RunStateMachine(Head(s2c))
        /\ UNCHANGED <<todo, srvSetup, rtp_enable, clean, upc, send_queue, c2s, handling>>
    BY <1>10 DEF HandleResponse
  <2>2. rtsp_state = "PLAYING" => rtsp_state' = "PLAYING"
    BY <2>1 DEF RunStateMachine, SessionInv, ProtocolInv
  <2>3. /\ sdp_info' # sdp_info => rtsp_state' = "INIT"
        /\ rtsp_state = "INIT" /\ rtsp_state' # "INIT" => sdp_info \subseteq rtp_enable
    BY <2>1 DEF RunStateMachine, AllSetUp, SessionInv, ProtocolInv
  <2>4. MediaSetUp'
    <3> SUFFICES ASSUME Clean, rtsp_state' # "INIT"
                 PROVE  sdp_info' \subseteq srvSetup'
      BY <2>1 DEF Clean
    <3>1. CASE rtsp_state = "INIT"
      BY <2>1, <2>3, <3>1
    <3>2. CASE rtsp_state # "INIT"
      BY <2>1, <2>3, <3>2
    <3> QED BY <3>1, <3>2
  <2> QED BY <2>1, <2>2, <2>4
<1>11. CASE Settle
  BY <1>11 DEF Settle
<1>12. CASE HandleOut
  <2>1. /\ send_queue' = Tail(send_queue) /\ send_queue # <<>> /\ pc' = "loop"
        /\ UNCHANGED <<rtsp_state, sdp_info, srvSetup, rtp_enable, clean, upc, s2c, handling>>
        /\ c2s' \in {c2s, Append(c2s, Head(send_queue))}
    BY <1>12 DEF HandleOut
  <2>2. Head(send_queue) \in Requests
    BY <1>a, <2>1, QueueTypes
  <2> QED BY <1>a, <2>1, <2>2, QueuesInherit
<1>13. CASE CloseRuns \/ CloseChn
  BY <1>13
  DEF CloseRuns, CloseMarksDoing, CloseLoadsCSeq, CloseStoresCSeq, CloseAppends, CloseChn
<1>14. CASE ServerAnswers \/ ServerRefuses
  <2>1. /\ c2s' = Tail(c2s) /\ c2s # <<>> /\ Len(c2s) > 0
        /\ UNCHANGED <<pc, req, rtsp_state, sdp_info, rtp_enable, handling, send_queue, clean, upc>>
    BY <1>14, <1>a, QueueLengths DEF ServerAnswers, ServerRefuses, ServerTakes
  <2>2. Head(c2s) \in Requests
    BY <1>a, <2>1, QueueTypes
  <2>3. Clean => srvSetup \subseteq srvSetup'
    <3>1. Clean => Head(c2s).method # "TEARDOWN"
      BY <1>a, <2>1, QueuesInherit DEF TeardownInv
    <3> QED BY <1>14, <3>1 DEF ServerAnswers, ServerRefuses
  <2>4. ASSUME Negotiating
        PROVE  rtp_enable \subseteq srvSetup'
    <3>1. Pending(Head(c2s), rtp_enable, srvSetup)
      BY <1>a, <2>1, <2>4, QueuesInherit
    <3>2. CASE ServerAnswers
      BY <2>3, <2>4, <3>1, <3>2 DEF ServerAnswers, Pending
    <3>3. CASE ServerRefuses
      <4>1. ~Acceptable(Head(c2s)) /\ srvSetup' = srvSetup
        BY <3>3 DEF ServerRefuses, Fault
      <4>2. Head(c2s).method = "SETUP" => Head(c2s).media = NULL
        BY <4>1 DEF Acceptable
      <4>3. NULL \notin rtp_enable
        BY <1>a, NullAssumption
      <4> QED BY <3>1, <4>1, <4>2, <4>3 DEF Pending
    <3> QED BY <1>14, <3>2, <3>3
  <2>5. MediaSetUp'
    BY <2>1, <2>3
  <2>6. Negotiating => pc # "append"
    BY <1>b, <2>1 DEF SessionInv, LockstepInv, Unanswered, InFlight
  <2> QED BY <2>1, <2>4, <2>5, <2>6, QueuesInherit
<1>15. CASE ServerGoesMute \/ ServerCloses \/ ConnectionResets \/ Tick
  BY <1>15, QueuesInherit DEF ServerGoesMute, ServerCloses, ConnectionResets, Tick
<1>16. CASE UNCHANGED vars
  BY <1>16 DEF vars
<1> QED
  BY <1>1, <1>2, <1>3, <1>4, <1>5, <1>6, <1>7, <1>8, <1>9, <1>10, <1>11, <1>12,
     <1>13, <1>14, <1>15, <1>16
  DEF Next, SessionThread, Environment

\* A session that is ready or plays has every medium of its description set up
\* by the server, whatever is lost, delayed or reset, as long as the server
\* refuses nothing it could accept: run_rtsp_state_machine() counts the SETUPs
\* that were sent, not those that were answered.
THEOREM ReadyIsSetUp ==
  ASSUME "error" \notin Faults
  PROVE  Spec => []MediaSetUp
<1> DEFINE Inv == TypeOK /\ SessionInv /\ TeardownInv /\ TransportInv
<1>1. Init => Inv
  BY InitType, InitProtocol, InitLockstep, InitAnswer, InitTransport DEF SessionInv
<1>2. Inv /\ [Next]_vars => Inv'
  BY StepType, StepProtocol, StepLockstep, StepAnswer, StepTeardown, StepTransport
  DEF SessionInv
<1>3. Inv => MediaSetUp
  BY DEF TransportInv
<1> QED BY <1>1, <1>2, <1>3, PTL DEF Spec

-----------------------------------------------------------------------------
(* The keepalives.                                                         *)

\* A session that plays, as long as no end of the connection is in sight.
Alive == Clean /\ rtsp_state = "PLAYING" /\ conn = "up" /\ ~reconn

\* The server has gone mute, and what it said before was heard.
Silent == mute /\ s2c = <<>>

AllOk(q) == \A i \in 1 .. Len(q) : q[i].ok

\* One keepalive at most is outstanding, under the current CSeq.
OneOutstanding ==
  /\ Unanswered <= 1
  /\ pc = "number" => req.method = "OPTIONS"
  /\ pc = "append" => Asks(req, "OPTIONS", cur_cseq)
  /\ AllAsk(send_queue, "OPTIONS", cur_cseq)
  /\ AllAsk(c2s, "OPTIONS", cur_cseq)
  /\ AllAnswer(s2c, "OPTIONS", cur_cseq) /\ AllOk(s2c)

\* While the server speaks, a keepalive is due only when the last one is
\* answered, so that the counter never outruns what is outstanding.
AliveInv ==
  /\ keepalive_cnt <= Unanswered
  /\ due => Silent \/ Unanswered = 0
  /\ Unanswered > 0 => todo = "OPTIONS"
  /\ ~Silent => OneOutstanding

KeepaliveInv ==
  /\ pc \notin {"connect", "loop", "done"} => ~reconn
  /\ pc = "dispatch" => rtsp_state # "PLAYING"
  /\ rtsp_state # "PLAYING" => keepalive_cnt = 0
  /\ Alive => AliveInv

\* What a server answers and a request that asks for a keepalive add up to.
LEMMA AllOkFacts ==
  /\ AllOk(<<>>)
  /\ \A q \in ResponseQueues : Len(q) = 0 => AllOk(q)
  /\ \A q \in ResponseQueues : \A a : AllOk(q) /\ a.ok => AllOk(Append(q, a))
  /\ \A q \in ResponseQueues : q # <<>> /\ AllOk(q) => Head(q).ok
  BY DEF AllOk, ResponseQueues

\* A new session has not asked whether the server lives.
LEMMA InitKeepalive == Init => KeepaliveInv
  BY DEF Init, KeepaliveInv, Alive

\* The other steps of an Alive session: what they leave alone is enough.
LEMMA AliveUnchanged ==
  ASSUME KeepaliveInv, UNCHANGED <<rtsp_state, cur_cseq, todo, keepalive_cnt, due,
                                   send_queue, c2s, s2c, mute, clean, upc, conn>>,
         pc' \notin {"number", "append"}, pc \notin {"number", "append"},
         reconn' = reconn \/ reconn'
  PROVE  Alive' => AliveInv'
<1> SUFFICES ASSUME Alive' PROVE AliveInv'
  OBVIOUS
<1>1. Alive
  BY DEF Alive, Clean
<1>2. AliveInv
  BY <1>1 DEF KeepaliveInv
<1>3. Unanswered' = Unanswered /\ (Silent <=> Silent')
  BY DEF Unanswered, InFlight, Silent
<1>4. OneOutstanding => OneOutstanding'
  BY <1>3 DEF OneOutstanding
<1> QED BY <1>2, <1>3, <1>4 DEF AliveInv

\* No step breaks KeepaliveInv, if the server answers within an interval and
\* refuses nothing, and no request is lost on its way: single_step() asks again
\* only after a whole interval, by which time the answer has cleared the counter.
LEMMA StepKeepalive ==
  ASSUME Prompt, Faults \cap {"error", "short", "nomem"} = {},
         TypeOK, SessionInv, KeepaliveInv, [Next]_vars,
         pc = "connect" => rtsp_state = "INIT"
  PROVE  KeepaliveInv'
<1>a. /\ send_queue \in RequestQueues /\ c2s \in RequestQueues
      /\ s2c \in ResponseQueues /\ keepalive_cnt \in Nat
      /\ req \in Requests \cup {NULL}
      /\ pc \in {"number", "append"} => req \in Requests
  BY KeepaliveAssumption
  DEF TypeOK, ThreadTypes, SessionTypes, NetworkTypes, Counts
<1>b. /\ Len(send_queue) \in Nat /\ Len(c2s) \in Nat /\ Len(s2c) \in Nat
      /\ Len(<<>>) = 0
  BY <1>a, QueueLengths
<1>c. /\ ~Fault("error") /\ ~Fault("short") /\ ~Fault("nomem")
  BY DEF Fault
<1> USE DEF thread, session, network, server, user, history
<1>1. CASE Connect \/ LoopExits \/ LoopReconnects \/ ConnectFails \/ ConnectAborts
  <2>1. /\ rtsp_state' # "PLAYING" => keepalive_cnt' = 0
        /\ pc' \in {"connect", "loop", "done"}
        /\ conn' = "none" \/ rtsp_state' = "INIT"
    BY <1>1
    DEF KeepaliveInv, Connect, LoopExits, LoopReconnects, ConnectFails,
        ConnectAborts, Cleanup
  <2> QED BY <2>1 DEF KeepaliveInv, Alive
<1>2. CASE StartPlaying \/ AwaitAnswer \/ DeclareDead
  <2>1. CASE StartPlaying
    BY <2>1 DEF StartPlaying, Stepping, KeepaliveInv, Alive
  <2>2. CASE AwaitAnswer
    <3>1. Alive' => AliveInv'
      BY <2>2, AliveUnchanged DEF AwaitAnswer, Stepping
    <3> QED BY <2>2, <3>1 DEF AwaitAnswer, Stepping, KeepaliveInv
  <2>3. CASE DeclareDead
    BY <2>3 DEF DeclareDead, Stepping, KeepaliveInv, Alive
  <2> QED BY <1>2, <2>1, <2>2, <2>3
<1>3. CASE Dispatch
  BY <1>3 DEF Dispatch, KeepaliveInv, Alive
<1>4. CASE Keepalive
  <2>1. /\ pc = "loop" /\ pc' = "number" /\ rtsp_state = "PLAYING" /\ due /\ ~reconn
        /\ todo' = "OPTIONS" /\ ~due' /\ keepalive_cnt' = keepalive_cnt + 1
        /\ req' = Building("OPTIONS")
        /\ UNCHANGED <<reconn, rtsp_state, cur_cseq, send_queue, c2s, s2c, mute,
                       clean, upc, conn>>
    BY <1>4 DEF Keepalive, Stepping, KeepaliveDue, Count
  <2>2. Unanswered' = Unanswered + 1 /\ Unanswered \in Nat
    BY <2>1, <1>b DEF Unanswered, InFlight
  <2>3. ASSUME Alive' PROVE AliveInv'
    <3>1. AliveInv /\ (Silent' <=> Silent)
      BY <2>1, <2>3 DEF Alive, Clean, KeepaliveInv, Silent
    <3>2. ~Silent => OneOutstanding'
      <4> SUFFICES ASSUME ~Silent PROVE OneOutstanding'
        OBVIOUS
      <4>1. Unanswered = 0 /\ OneOutstanding
        BY <2>1, <3>1 DEF AliveInv
      <4> QED BY <2>1, <2>2, <4>1 DEF OneOutstanding, Building
    <3> QED BY <1>a, <2>1, <2>2, <3>1, <3>2 DEF AliveInv
  <2> QED BY <2>1, <2>3 DEF KeepaliveInv
<1>5. CASE Number
  <2>1. /\ pc = "number" /\ ~reconn
        /\ UNCHANGED <<reconn, rtsp_state, todo, keepalive_cnt, due, send_queue,
                       c2s, s2c, mute, clean, upc, conn, sdp_info>>
        /\ pc' = IF req.method = "SETUP" /\ sdp_info = NULL THEN "sendq" ELSE "append"
    BY <1>5, <1>c DEF Number, KeepaliveInv
  <2>2. req'.method = req.method /\ req'.cseq = cur_cseq'
    BY <1>5, <1>a, <1>c DEF Number, Requests
  <2>3. rtsp_state = "PLAYING" => pc' = "append"
    BY <2>1 DEF SessionInv, ProtocolInv
  <2>4. ASSUME Alive' PROVE AliveInv'
    <3>1. AliveInv /\ (Silent' <=> Silent) /\ rtsp_state = "PLAYING"
      BY <2>1, <2>4 DEF Alive, Clean, KeepaliveInv, Silent
    <3>2. Unanswered' = Unanswered
      BY <2>1, <2>3, <3>1 DEF Unanswered, InFlight
    <3>3. ~Silent => OneOutstanding'
      <4> SUFFICES ASSUME ~Silent PROVE OneOutstanding'
        OBVIOUS
      <4>1. OneOutstanding
        BY <3>1 DEF AliveInv
      <4>2. Len(send_queue) = 0 /\ Len(c2s) = 0 /\ Len(s2c) = 0
        BY <1>b, <2>1, <4>1 DEF OneOutstanding, Unanswered, InFlight
      <4>3. /\ AllAsk(send_queue, "OPTIONS", cur_cseq')
            /\ AllAsk(c2s, "OPTIONS", cur_cseq')
            /\ AllAnswer(s2c, "OPTIONS", cur_cseq')
        BY <1>a, <4>2, AllEmpty
      <4>4. Asks(req', "OPTIONS", cur_cseq')
        BY <2>1, <2>2, <4>1 DEF OneOutstanding, Asks
      <4> QED BY <2>1, <2>3, <3>1, <3>2, <4>1, <4>3, <4>4 DEF OneOutstanding
    <3> QED BY <2>1, <3>1, <3>2, <3>3 DEF AliveInv
  <2> QED BY <2>1, <2>3, <2>4 DEF KeepaliveInv
<1>6. CASE AppendRequest
  <2>1. /\ pc = "append" /\ pc' = "sendq" /\ send_queue' = Append(send_queue, req)
        /\ req \in Requests
        /\ UNCHANGED <<reconn, rtsp_state, todo, keepalive_cnt, due, cur_cseq,
                       c2s, s2c, mute, clean, upc, conn>>
    BY <1>6, <1>a, <1>c DEF AppendRequest
  <2>2. Unanswered' = Unanswered
    BY <1>a, <1>b, <2>1, QueueLengths DEF Unanswered, InFlight
  <2>3. ASSUME Alive' PROVE AliveInv'
    <3>1. AliveInv /\ (Silent' <=> Silent)
      BY <2>1, <2>3 DEF Alive, Clean, KeepaliveInv, Silent
    <3>2. OneOutstanding => OneOutstanding'
      BY <1>a, <2>1, <2>2, AllAppend DEF OneOutstanding
    <3> QED BY <2>1, <2>2, <3>1, <3>2 DEF AliveInv
  <2> QED BY <2>1, <2>3 DEF KeepaliveInv
<1>7. CASE CheckSendQueue \/ EpollWait \/ TeardownCheck \/ HandleNothing
           \/ Settle \/ HandleEof
  <2>1. /\ pc \in {"sendq", "wait", "teardown", "handle", "settle"}
        /\ pc' \in {"wait", "teardown", "handle", "loop"}
        /\ pc' = "loop" \/ reconn' = reconn
        /\ UNCHANGED <<rtsp_state, todo, keepalive_cnt, due, cur_cseq, send_queue,
                       c2s, s2c, mute, clean, upc, conn>>
    BY <1>7
    DEF CheckSendQueue, EpollWait, TeardownCheck, HandleNothing, Settle, HandleEof
  <2>2. reconn' = reconn \/ reconn'
    BY <1>7
    DEF CheckSendQueue, EpollWait, TeardownCheck, HandleNothing, Settle, HandleEof,
        MediaFails
  <2>3. Alive' => AliveInv'
    BY <2>1, <2>2, AliveUnchanged
  <2> QED BY <2>1, <2>3 DEF KeepaliveInv
<1>8. CASE HandleResponse
  <2>1. /\ pc = "handle" /\ pc' = "settle" /\ s2c # <<>> /\ s2c' = <<>> /\ Len(s2c) > 0
        /\ RunStateMachine(Head(s2c))
        /\ UNCHANGED <<reconn, todo, cur_cseq, due, send_queue, c2s, mute, clean,
                       upc, conn>>
    BY <1>8, <1>a, QueueLengths DEF HandleResponse
  <2>2. /\ rtsp_state = "PLAYING" => rtsp_state' = "PLAYING"
        /\ rtsp_state # "PLAYING" => keepalive_cnt' = 0
    BY <2>1 DEF RunStateMachine, SessionInv, ProtocolInv, KeepaliveInv, KeepaliveAnswered
  <2>3. ASSUME Alive' PROVE keepalive_cnt' = 0 /\ Unanswered' = 0
    <3>1. CASE rtsp_state = "PLAYING"
      <4>1. Alive /\ ~Silent
        BY <2>1, <2>3, <3>1 DEF Alive, Clean, Silent
      <4>2. AliveInv /\ OneOutstanding
        BY <4>1 DEF KeepaliveInv, AliveInv
      <4>3. Unanswered > 0
        BY <1>b, <2>1 DEF Unanswered, InFlight
      <4>4. AllAnswer(s2c, "OPTIONS", cur_cseq) /\ Head(s2c).ok
        BY <1>a, <2>1, <4>2, AllOkFacts DEF OneOutstanding
      <4>5. CSeqMatches(Head(s2c)) /\ todo = "OPTIONS"
        BY <1>a, <2>1, <4>2, <4>3, <4>4, AllHead DEF AliveInv, Answers, CSeqMatches
      <4>6. keepalive_cnt' = 0
        BY <2>1, <4>5 DEF RunStateMachine, KeepaliveAnswered
      <4>7. Unanswered' = 0
        BY <1>b, <2>1, <4>2 DEF OneOutstanding, Unanswered, InFlight
      <4> QED BY <4>6, <4>7
    <3>2. CASE rtsp_state # "PLAYING"
      <4>1. Negotiating
        BY <2>1, <2>3, <3>2 DEF Negotiating, Alive, Clean
      <4>2. Unanswered \in Nat
        BY <1>b DEF Unanswered, InFlight
      <4>3. Unanswered <= 1
        BY <4>1, <4>2 DEF SessionInv, LockstepInv
      <4>4. Unanswered' = 0
        BY <1>b, <2>1, <4>3 DEF Unanswered, InFlight
      <4> QED BY <2>2, <3>2, <4>4
    <3> QED BY <3>1, <3>2
  <2>4. /\ Alive' => Len(send_queue) = 0 /\ Len(c2s) = 0
        /\ pc' \notin {"number", "append"} /\ AllOk(s2c')
        /\ AllAnswer(s2c', "OPTIONS", cur_cseq')
    BY <1>b, <2>1, <2>3, AllEmpty, AllOkFacts DEF Unanswered, InFlight
  <2>5. ASSUME Alive' PROVE AliveInv'
    <3>1. AllAsk(send_queue', "OPTIONS", cur_cseq') /\ AllAsk(c2s', "OPTIONS", cur_cseq')
      BY <1>a, <2>1, <2>4, <2>5, AllEmpty
    <3> QED BY <2>3, <2>4, <2>5, <3>1 DEF AliveInv, OneOutstanding
  <2> QED BY <2>1, <2>2, <2>5 DEF KeepaliveInv
<1>9. CASE HandleOut
  <2>1. /\ pc = "handle" /\ pc' = "loop" /\ send_queue # <<>>
        /\ send_queue' = Tail(send_queue)
        /\ Head(send_queue) \in Requests
        /\ UNCHANGED <<rtsp_state, todo, keepalive_cnt, due, cur_cseq, s2c, mute,
                       clean, upc, conn>>
        /\ conn = "up" => reconn' \/ c2s' = Append(c2s, Head(send_queue))
        /\ ~reconn
    BY <1>9, <1>a, <1>c, QueueTypes DEF HandleOut, KeepaliveInv
  <2>2. ASSUME Alive' PROVE AliveInv'
    <3>1. AliveInv /\ (Silent' <=> Silent) /\ c2s' = Append(c2s, Head(send_queue))
      BY <2>1, <2>2 DEF Alive, Clean, KeepaliveInv, Silent
    <3>2. Unanswered' = Unanswered
      BY <1>a, <1>b, <2>1, <3>1, QueueLengths DEF Unanswered, InFlight
    <3>3. OneOutstanding => OneOutstanding'
      BY <1>a, <2>1, <3>1, <3>2, AllAppend, AllTail DEF OneOutstanding
    <3> QED BY <2>1, <3>1, <3>2, <3>3 DEF AliveInv
  <2> QED BY <2>1, <2>2 DEF KeepaliveInv
<1>10. CASE CloseRuns \/ CloseChn
  <2>1. upc' # "idle" /\ UNCHANGED <<pc, reconn, rtsp_state, keepalive_cnt>>
    BY <1>10
    DEF CloseRuns, CloseMarksDoing, CloseLoadsCSeq, CloseStoresCSeq, CloseAppends, CloseChn
  <2> QED BY <2>1 DEF KeepaliveInv, Alive, Clean
<1>11. CASE ServerAnswers \/ ServerRefuses
  <2>1. /\ c2s' = Tail(c2s) /\ c2s # <<>> /\ Len(c2s) > 0 /\ ~mute /\ mute' = mute
        /\ UNCHANGED <<pc, req, reconn, rtsp_state, todo, keepalive_cnt, due, cur_cseq,
                       send_queue, clean, upc, conn>>
    BY <1>11, <1>a, QueueLengths DEF ServerAnswers, ServerRefuses, ServerTakes
  <2>2. ASSUME Alive' PROVE AliveInv'
    <3>1. Alive /\ ~Silent
      BY <2>1, <2>2 DEF Alive, Clean, Silent
    <3>2. AliveInv /\ OneOutstanding
      BY <3>1 DEF KeepaliveInv, AliveInv
    <3>3. /\ AllAsk(c2s', "OPTIONS", cur_cseq) /\ Asks(Head(c2s), "OPTIONS", cur_cseq)
      BY <1>a, <2>1, <3>2, AllTail DEF OneOutstanding
    <3>4. ServerAnswers
      BY <1>11, <1>c, <3>3 DEF ServerRefuses, Acceptable, Asks
    <3>5. PICK caps \in Publics : \E sdp \in Sdps :
            s2c' = Append(s2c, Answer(Head(c2s), caps, sdp))
      BY <3>4 DEF ServerAnswers
    <3>6. PICK sdp \in Sdps : s2c' = Append(s2c, Answer(Head(c2s), caps, sdp))
      BY <3>5
    <3>7. /\ Answers(Answer(Head(c2s), caps, sdp), "OPTIONS", cur_cseq)
          /\ Answer(Head(c2s), caps, sdp).ok
      BY <3>3 DEF Answer, Asks, Answers
    <3>8. AllAnswer(s2c', "OPTIONS", cur_cseq) /\ AllOk(s2c')
      BY <1>a, <3>2, <3>6, <3>7, AllAppend, AllOkFacts DEF OneOutstanding
    <3>9. Unanswered' = Unanswered
      BY <1>a, <1>b, <2>1, <3>6, QueueLengths DEF Unanswered, InFlight
    <3>10. OneOutstanding'
      BY <2>1, <3>2, <3>3, <3>8, <3>9 DEF OneOutstanding
    <3>11. due' => Unanswered' = 0
      BY <2>1, <3>1, <3>2, <3>9 DEF AliveInv
    <3> QED BY <2>1, <3>2, <3>9, <3>10, <3>11 DEF AliveInv
  <2> QED BY <2>1, <2>2 DEF KeepaliveInv
<1>12. CASE ServerGoesMute
  <2>1. /\ mute'
        /\ UNCHANGED <<pc, req, reconn, rtsp_state, todo, keepalive_cnt, due, cur_cseq,
                       send_queue, c2s, s2c, clean, upc, conn>>
    BY <1>12 DEF ServerGoesMute
  <2>2. ASSUME Alive' PROVE AliveInv'
    <3>1. AliveInv /\ (Silent => Silent')
      BY <2>1, <2>2 DEF Alive, Clean, KeepaliveInv, Silent
    <3>2. Unanswered' = Unanswered
      BY <2>1 DEF Unanswered, InFlight
    <3>3. OneOutstanding => OneOutstanding'
      BY <2>1, <3>2 DEF OneOutstanding
    <3> QED BY <2>1, <3>1, <3>2, <3>3 DEF AliveInv
  <2> QED BY <2>1, <2>2 DEF KeepaliveInv
<1>13. CASE ServerCloses \/ ConnectionResets
  <2>1. conn' # "up" /\ UNCHANGED <<pc, reconn, rtsp_state, keepalive_cnt>>
    BY <1>13 DEF ServerCloses, ConnectionResets
  <2> QED BY <2>1 DEF KeepaliveInv, Alive
<1>14. CASE Tick
  <2>1. /\ ~Late
        /\ UNCHANGED <<pc, req, reconn, rtsp_state, todo, keepalive_cnt, cur_cseq,
                       send_queue, c2s, s2c, mute, clean, upc, conn>>
    BY <1>14 DEF Tick
  <2>2. ASSUME Alive' PROVE AliveInv'
    <3>1. AliveInv /\ (Silent' <=> Silent) /\ conn = "up"
      BY <2>1, <2>2 DEF Alive, Clean, KeepaliveInv, Silent
    <3>2. Unanswered' = Unanswered
      BY <2>1 DEF Unanswered, InFlight
    <3>3. Silent \/ Unanswered = 0
      BY <1>b, <2>1, <3>1 DEF Late, Silent, Unanswered, InFlight
    <3>4. OneOutstanding => OneOutstanding'
      BY <2>1, <3>2 DEF OneOutstanding
    <3> QED BY <2>1, <3>1, <3>2, <3>3, <3>4 DEF AliveInv
  <2> QED BY <2>1, <2>2 DEF KeepaliveInv
<1>15. CASE UNCHANGED vars
  <2>1. UNCHANGED <<pc, req, reconn, rtsp_state, todo, keepalive_cnt, due, cur_cseq,
                    send_queue, c2s, s2c, mute, clean, upc, conn>>
    BY <1>15 DEF vars
  <2> QED
    BY <2>1
    DEF KeepaliveInv, Alive, AliveInv, Clean, Silent, OneOutstanding, Unanswered, InFlight
<1> QED
  BY <1>1, <1>2, <1>3, <1>4, <1>5, <1>6, <1>7, <1>8, <1>9, <1>10, <1>11, <1>12,
     <1>13, <1>14, <1>15
  DEF Next, SessionThread, Environment

\* The faults that keep an answer from a session that waits for it, although the
\* connection stays up and the server is not mute: a refusal, a request cut
\* short by send() and one that alloc_rtsp_req() had no memory for.
NothingDropped == Faults \cap {"error", "short", "nomem"} = {}

\* The invariant of the session with its keepalives, in every behaviour.
LEMMA KeepaliveInvariant ==
  ASSUME Prompt, NothingDropped
  PROVE  Spec => [](TypeOK /\ KeepaliveInv)
<1> DEFINE Inv == TypeOK /\ SessionInv /\ TeardownInv /\ TransportInv /\ KeepaliveInv
<1>1. Init => Inv
  BY InitType, InitProtocol, InitLockstep, InitAnswer, InitTransport, InitKeepalive
  DEF SessionInv
<1>2. Inv /\ [Next]_vars => Inv'
  <2> SUFFICES ASSUME Inv, [Next]_vars PROVE Inv'
    OBVIOUS
  <2>1. TypeOK' /\ SessionInv' /\ TeardownInv'
    BY StepType, StepProtocol, StepLockstep, StepAnswer, StepTeardown DEF SessionInv
  <2>2. TransportInv'
    BY StepTransport DEF NothingDropped
  <2>3. KeepaliveInv'
    BY StepKeepalive DEF NothingDropped, TransportInv
  <2> QED BY <2>1, <2>2, <2>3
<1>3. Inv => TypeOK /\ KeepaliveInv
  OBVIOUS
<1> HIDE DEF Inv
<1> QED BY <1>1, <1>2, <1>3, PTL DEF Spec

\* keepalive_cnt counts only keepalives without an answer: single_step()
\* asks again only after KEEPALIVE_INTVL, the answer to the last one is in by
\* then, and run_rtsp_state_machine() clears the counter for it.
THEOREM KeepalivesCount ==
  ASSUME Prompt, NothingDropped
  PROVE  Spec => []KeepalivesUnanswered
<1>1. KeepaliveInv => KeepalivesUnanswered
  BY DEF KeepaliveInv, Alive, AliveInv, KeepalivesUnanswered
<1> QED BY <1>1, KeepaliveInvariant, PTL

\* single_step() gives up a connection that is up, for unanswered keepalives,
\* only when the server has stopped answering.
DeadIsMute == [][DeclareDead /\ Clean /\ conn = "up" => mute]_vars

\* A server that answers its keepalives is never declared dead, for every limit
\* on their number.
THEOREM OnlyTheMuteAreDead ==
  ASSUME Prompt, NothingDropped
  PROVE  Spec => DeadIsMute
<1>1. TypeOK /\ KeepaliveInv => (DeclareDead /\ Clean /\ conn = "up" => mute)
  <2> SUFFICES ASSUME TypeOK, KeepaliveInv, DeclareDead, Clean, conn = "up"
               PROVE  mute
    OBVIOUS
  <2>1. rtsp_state = "PLAYING" /\ due /\ ~reconn /\ keepalive_cnt >= KEEPALIVE_CNT
    BY DEF DeclareDead, Stepping, KeepaliveDue, Exhausted
  <2>2. AliveInv
    BY <2>1 DEF KeepaliveInv, Alive
  <2>3. keepalive_cnt \in Nat /\ keepalive_cnt > 0
    BY <2>1, KeepaliveAssumption DEF TypeOK, SessionTypes, Counts
  <2> QED BY <2>1, <2>2, <2>3 DEF AliveInv, Silent
<1>2. TypeOK /\ KeepaliveInv /\ [Next]_vars =>
        [DeclareDead /\ Clean /\ conn = "up" => mute]_vars
  BY <1>1
<1> QED BY <1>2, KeepaliveInvariant, PTL DEF Spec, DeadIsMute
=============================================================================
